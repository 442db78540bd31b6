---------------------------- MODULE Transcripts -----------------------------
(***************************************************************************)
(* The transcript of one call (engagement-service).  When both parties are *)
(* in the room a row is created and ZEGO is asked, without waiting for it, *)
(* to recognise the speech; whoever ends the call stops the recognition;   *)
(* ZEGO calls back with the words, with errors, and when it ends the task  *)
(* itself because the room has been empty for MaxIdleTime.                 *)
(*                                                                         *)
(* A task counts as idle only after the start request was answered and     *)
(* written down: the request gives up after 10 s, MaxIdleTime is 120 s.    *)
(* An error report does not end the task.  ZEGO repeats a callback until   *)
(* it is answered with 200; a report that a task ended does get through.   *)
(***************************************************************************)
EXTENDS Naturals

CONSTANTS
    LoginCallbacks,  \* user_login callbacks of the room, repetitions included
    Sentences,
    FinalRevision,   \* revisions of a sentence: the last one is final
    WordCallbacks    \* ASRResult callbacks handled at a time

ASSUME TranscriptsAssumption == FinalRevision \in Nat \ {0}

VARIABLES
    call,       \* consultations.status
    inRoom,     \* somebody is in the ZEGO room
    entry,      \* progress of each user_login callback
    closer,     \* progress of the room_close callback
    transcript, \* consultation_transcripts.status, or "none"
    starter,    \* where runStart is
    stopper,    \* where stopTranscript is, for each of its callers
    task,       \* ZEGO: the recognition task
    ended,      \* ZEGO: the notice that the task ended is still to be delivered
    spoken,     \* ZEGO: the revision of each sentence recognised so far
    due,        \* ZEGO: revisions not answered with 200 yet
    hook,       \* progress of the ASRResult callbacks
    segment,    \* consultation_transcript_segments: the revision stored, or 0
    heard       \* sentences whose final revision was answered with 200

rowVars  == <<call, inRoom, entry, closer, transcript, starter, stopper, task, ended>>
wordVars == <<spoken, due, hook, segment, heard>>
transcriptVars == <<rowVars, wordVars>>

StopCallers == {"runStart", "endConsultation", "handleRoomClose"}
Revisions   == 1..FinalRevision
Unoccupied  == [op |-> "idle"]
Handling(op) == [op : {op}, of : Sentences \X Revisions]

TranscriptsTypeOK ==
    /\ call \in {"accepted", "in_progress", "over"} /\ inRoom \in BOOLEAN
    /\ entry \in [LoginCallbacks -> {"sent", "connect", "create", "done"}]
    /\ closer \in {"off", "end", "done"}
    /\ transcript \in {"none", "starting", "active", "stopped", "failed"}
    /\ starter \in {"off", "ask", "write", "reread"}
    /\ stopper \in [StopCallers -> {"off", "find", "claim", "stop"}]
    /\ task \in {"none", "running", "ended"} /\ ended \in BOOLEAN
    /\ spoken \in [Sentences -> {0} \cup Revisions]
    /\ segment \in [Sentences -> {0} \cup Revisions]
    /\ due \subseteq Sentences \X Revisions
    /\ hook \in [WordCallbacks -> {Unoccupied} \cup Handling("insert") \cup Handling("update")]
    /\ heard \subseteq Sentences

TranscriptsInit ==
    /\ call = "accepted" /\ inRoom = TRUE
    /\ entry = [l \in LoginCallbacks |-> "sent"] /\ closer = "off"
    /\ transcript = "none" /\ starter = "off"
    /\ stopper = [h \in StopCallers |-> "off"]
    /\ task = "none" /\ ended = FALSE
    /\ spoken = [s \in Sentences |-> 0] /\ due = {}
    /\ hook = [w \in WordCallbacks |-> Unoccupied]
    /\ segment = [s \in Sentences |-> 0] /\ heard = {}

(***************************************************************************)
(* handleUserLogin, once the other party is there as well: reads a call    *)
(* that is not connected yet, connects it by id, and starts a transcript.  *)
(***************************************************************************)
handleUserLogin(l) ==
    /\ entry[l] = "sent"
    /\ entry' = [entry EXCEPT ![l] = IF call = "accepted" THEN "connect" ELSE "done"]
    /\ UNCHANGED <<call, inRoom, closer, transcript, starter, stopper, task, ended, wordVars>>

connectCall(l) ==
    /\ entry[l] = "connect"
    /\ call' = "in_progress"
    /\ entry' = [entry EXCEPT ![l] = "create"]
    /\ UNCHANGED <<inRoom, closer, transcript, starter, stopper, task, ended, wordVars>>

\* The unique consultation_id lets one callback create the row and start the task.
maybeStartTranscript(l) ==
    /\ entry[l] = "create"
    /\ entry' = [entry EXCEPT ![l] = "done"]
    /\ \/ transcript = "none" /\ transcript' = "starting" /\ starter' = "ask"
       \/ transcript # "none" /\ UNCHANGED <<transcript, starter>>
    /\ UNCHANGED <<call, inRoom, closer, stopper, task, ended, wordVars>>

(***************************************************************************)
(* runStart: ZEGO answers with a task, or the request fails, perhaps after *)
(* ZEGO has started one; then the row is marked active by id, and the call *)
(* is read again, for it may have ended meanwhile.                         *)
(***************************************************************************)
startAsrTask ==
    /\ starter = "ask"
    /\ \/ task' = "running" /\ starter' = "write" /\ UNCHANGED transcript
       \/ task' \in {"running", "none"} /\ starter' = "off" /\ transcript' = "failed"
    /\ UNCHANGED <<call, inRoom, entry, closer, stopper, ended, wordVars>>

markActive ==
    /\ starter = "write"
    /\ transcript' = "active" /\ starter' = "reread"
    /\ UNCHANGED <<call, inRoom, entry, closer, stopper, task, ended, wordVars>>

rereadCall ==
    /\ starter = "reread"
    /\ starter' = "off"
    /\ stopper' = [stopper EXCEPT !["runStart"] = IF call = "over" THEN "find" ELSE "off"]
    /\ UNCHANGED <<call, inRoom, entry, closer, transcript, task, ended, wordVars>>

(***************************************************************************)
(* stopTranscript: reads an active row, claims the stop with a conditional *)
(* update and asks ZEGO to stop; a refusal leaves the task to ZEGO.        *)
(***************************************************************************)
findActive(h) ==
    /\ stopper[h] = "find"
    /\ stopper' = [stopper EXCEPT ![h] = IF transcript = "active" THEN "claim" ELSE "off"]
    /\ UNCHANGED <<call, inRoom, entry, closer, transcript, starter, task, ended, wordVars>>

claimStop(h) ==
    /\ stopper[h] = "claim"
    /\ \/ /\ transcript = "active" /\ transcript' = "stopped"
          /\ stopper' = [stopper EXCEPT ![h] = "stop"]
       \/ /\ transcript # "active" /\ UNCHANGED transcript
          /\ stopper' = [stopper EXCEPT ![h] = "off"]
    /\ UNCHANGED <<call, inRoom, entry, closer, starter, task, ended, wordVars>>

stopAsrTask(h) ==
    /\ stopper[h] = "stop"
    /\ stopper' = [stopper EXCEPT ![h] = "off"]
    /\ task' \in {task, "ended"}
    /\ UNCHANGED <<call, inRoom, entry, closer, transcript, starter, ended, wordVars>>

(***************************************************************************)
(* Who ends a call.  endConsultation ends it and then stops the            *)
(* transcript.  handleRoomClose, called when the room is empty, stops the  *)
(* transcript first and ends, by id, a call it had read as active.         *)
(***************************************************************************)
endConsultation ==
    /\ call # "over"
    /\ call' = "over"
    /\ stopper' = [stopper EXCEPT !["endConsultation"] = "find"]
    /\ UNCHANGED <<inRoom, entry, closer, transcript, starter, task, ended, wordVars>>

leaveRoom ==
    /\ inRoom /\ inRoom' = FALSE
    /\ UNCHANGED <<call, entry, closer, transcript, starter, stopper, task, ended, wordVars>>

handleRoomClose ==
    /\ ~inRoom /\ closer = "off"
    /\ closer' = IF call = "over" THEN "done" ELSE "end"
    /\ stopper' = [stopper EXCEPT !["handleRoomClose"] = "find"]
    /\ UNCHANGED <<call, inRoom, entry, transcript, starter, task, ended, wordVars>>

endByRoomClose ==
    /\ closer = "end"
    /\ call' = "over" /\ closer' = "done"
    /\ UNCHANGED <<inRoom, entry, transcript, starter, stopper, task, ended, wordVars>>

(***************************************************************************)
(* ZEGO ends a task on an empty room and says so (Exception 1202), or      *)
(* reports an error.  Both find the row by task or by room.                *)
(***************************************************************************)
idleOut ==
    /\ task = "running" /\ ~inRoom /\ starter \notin {"ask", "write"}
    /\ task' = "ended" /\ ended' = TRUE
    /\ UNCHANGED <<call, inRoom, entry, closer, transcript, starter, stopper, wordVars>>

\* Mutant: the end of the task is ignored like any notice that is not an error.
taskEndedIgnored ==
    /\ ended /\ ended' = FALSE
    /\ UNCHANGED <<call, inRoom, entry, closer, transcript, starter, stopper, task, wordVars>>

taskEnded ==
    /\ ended /\ ended' = FALSE
    /\ transcript' = IF transcript \in {"starting", "active"} THEN "stopped" ELSE transcript
    /\ UNCHANGED <<call, inRoom, entry, closer, starter, stopper, task, wordVars>>

taskFailed ==
    /\ task = "running" /\ transcript # "none"
    /\ transcript' = "failed"
    /\ UNCHANGED <<call, inRoom, entry, closer, starter, stopper, task, ended, wordVars>>

(***************************************************************************)
(* The words.  ZEGO refines a sentence until it is final; every revision   *)
(* is a callback of its own, and they overtake each other.                 *)
(***************************************************************************)
recognise(s) ==
    /\ task = "running" /\ spoken[s] < FinalRevision
    /\ spoken' = [spoken EXCEPT ![s] = @ + 1]
    /\ due' = due \cup {<<s, spoken[s] + 1>>}
    /\ UNCHANGED <<rowVars, hook, segment, heard>>

ingestAsrCallback(w, m) ==
    /\ hook[w] = Unoccupied /\ m \in due
    /\ hook' = [hook EXCEPT ![w] = [op |-> "insert", of |-> m]]
    /\ UNCHANGED <<rowVars, spoken, due, segment, heard>>

answerOk(w, m) ==
    /\ hook' = [hook EXCEPT ![w] = Unoccupied]
    /\ due' = due \ {m}
    /\ heard' = IF m[2] = FinalRevision THEN heard \cup {m[1]} ELSE heard
    /\ UNCHANGED <<rowVars, spoken>>

insertSegment(w) ==
    /\ hook[w] \in Handling("insert")
    /\ LET m == hook[w].of IN
       \/ /\ segment[m[1]] = 0
          /\ segment' = [segment EXCEPT ![m[1]] = m[2]]
          /\ answerOk(w, m)
       \/ /\ segment[m[1]] # 0
          /\ hook' = [hook EXCEPT ![w].op = "update"]
          /\ UNCHANGED <<rowVars, spoken, due, segment, heard>>

\* Mutant: the update does not look at what it replaces.
replaceableAlways(have, revision) == have # 0

\* A final revision replaces anything, a partial one only what is not final.
replaceable(have, revision) == revision = FinalRevision \/ have # FinalRevision

updateSegment(w) ==
    /\ hook[w] \in Handling("update")
    /\ LET m == hook[w].of IN
       /\ segment' = IF replaceable(segment[m[1]], m[2])
                     THEN [segment EXCEPT ![m[1]] = m[2]] ELSE segment
       /\ answerOk(w, m)

\* The database fails: 500, and ZEGO sends the callback again.
answerError(w) ==
    /\ hook[w] # Unoccupied
    /\ hook' = [hook EXCEPT ![w] = Unoccupied]
    /\ UNCHANGED <<rowVars, spoken, due, segment, heard>>

\* The process restarts: what its handlers had still to do is gone.
engagementRestarts ==
    /\ \/ starter # "off" \/ closer = "end"
       \/ \E l \in LoginCallbacks : entry[l] \in {"connect", "create"}
       \/ \E h \in StopCallers : stopper[h] # "off"
    /\ entry' = [l \in LoginCallbacks |-> IF entry[l] = "sent" THEN "sent" ELSE "done"]
    /\ closer' = IF closer = "end" THEN "done" ELSE closer
    /\ starter' = "off"
    /\ stopper' = [h \in StopCallers |-> "off"]
    /\ hook' = [w \in WordCallbacks |-> Unoccupied]
    /\ UNCHANGED <<call, inRoom, transcript, task, ended, spoken, due, segment, heard>>

runStart == startAsrTask \/ markActive \/ rereadCall
stopTranscript(h) == findActive(h) \/ claimStop(h) \/ stopAsrTask(h)

TranscriptsNext ==
    \/ \E l \in LoginCallbacks : handleUserLogin(l) \/ connectCall(l) \/ maybeStartTranscript(l)
    \/ runStart
    \/ \E h \in StopCallers : stopTranscript(h)
    \/ endConsultation \/ leaveRoom \/ handleRoomClose \/ endByRoomClose
    \/ idleOut \/ taskEnded \/ taskFailed
    \/ \E s \in Sentences : recognise(s)
    \/ \E w \in WordCallbacks, m \in due : ingestAsrCallback(w, m)
    \/ \E w \in WordCallbacks : insertSegment(w) \/ updateSegment(w) \/ answerError(w)
    \/ engagementRestarts

(***************************************************************************)
(* Node runs what it began on; ZEGO ends tasks on empty rooms and repeats  *)
(* the notice until it is answered.  Nobody has to leave or end a call.    *)
(***************************************************************************)
TranscriptsFairness ==
    /\ WF_transcriptVars(runStart)
    /\ \A h \in StopCallers : WF_transcriptVars(stopTranscript(h))
    /\ WF_transcriptVars(idleOut) /\ WF_transcriptVars(taskEnded)

(***************************************************************************)
(* Words ZEGO was told are stored stay stored: once the final text of a    *)
(* sentence was answered with 200, that is what its row holds, whichever   *)
(* partial results, repetitions and failures come around it.               *)
(***************************************************************************)
FinalWordsKept == \A s \in heard : segment[s] = FinalRevision

(***************************************************************************)
(* No recording outlives the call: once the room is empty the transcript   *)
(* ends for good, although room_close may stop it before runStart has      *)
(* marked it active and end the call after runStart has looked, and        *)
(* although a restart may lose either of them.                             *)
(***************************************************************************)
RecordingEnds == ~inRoom ~> [](transcript # "active" /\ task # "running")
=============================================================================
