------------------------------- MODULE Calls --------------------------------
(***************************************************************************)
(* engagement-service: the life of a call, from the customer's request to  *)
(* the end of the room.                                                    *)
(*                                                                         *)
(* A handler is an async function.  It is split where it awaits the        *)
(* database between reading a row and writing it: the first action records *)
(* in req[w] what the handler read, the second writes.  Everything another *)
(* handler does in between is an interleaving of this specification.       *)
(* Which of the writes repeat the check in their WHERE clause (updateMany) *)
(* and which address the row by id only (update) is the code's.            *)
(*                                                                         *)
(* ZEGO, the video provider, is external: people with a token enter and    *)
(* leave the room, and every such event becomes a callback that is         *)
(* delivered in any order, possibly more than once, possibly never.        *)
(***************************************************************************)
EXTENDS ConsultationTable

CONSTANTS
    Requests,             \* slots for concurrently running handlers
    MissingTimeout,       \* is MISSING_PARTICIPANT_TIMEOUT_MINS > 0?
    ZegoRetries           \* may a callback be delivered again?

ASSUME TimeoutAssumption == MissingTimeout \in BOOLEAN
ASSUME RetriesAssumption == ZegoRetries \in BOOLEAN

VARIABLES
    req,      \* the handlers in progress and what they have read
    timer,    \* disconnectTimers: rooms with an armed missing-participant timer
    tokens,   \* who holds a ZEGO token for the room
    room,     \* who is in the room, at ZEGO
    zego      \* callbacks ZEGO has yet to deliver

callsOnly == <<req, timer, tokens, room, zego>>

Handler == [op      : {"idle", "create", "accept", "end", "login", "logout", "close"},
            c       : Consultations \cup {NoCall},
            started : BOOLEAN,
            ghosts  : SUBSET Consultations,
            live    : SUBSET Consultations]

Idle == [op |-> "idle", c |-> NoCall, started |-> FALSE, ghosts |-> {}, live |-> {}]

\* A handler that has loaded row c and remembers whether startedAt was set
Loaded(op, c, started) == [Idle EXCEPT !.op = op, !.c = c, !.started = started]

Callback == [event : {"room_login", "room_logout", "room_close"},
             c     : Consultations,
             by    : Parties \cup {"room"}]

callback(event, c, by) == [event |-> event, c |-> c, by |-> by]

CallsTypeOK ==
    /\ req \in [Requests -> Handler]
    /\ timer \in [Consultations -> BOOLEAN]
    /\ tokens \in [Consultations -> SUBSET Parties]
    /\ room \in [Consultations -> SUBSET Parties]
    /\ zego \subseteq Callback

CallsInit ==
    /\ req = [w \in Requests |-> Idle]
    /\ timer = [c \in Consultations |-> FALSE]
    /\ tokens = [c \in Consultations |-> {}]
    /\ room = [c \in Consultations |-> {}]
    /\ zego = {}

Exists(c) == row[c].status # "none"

Starts(w, h) == req[w].op = "idle" /\ req' = [req EXCEPT ![w] = h]

Finishes(w) == req' = [req EXCEPT ![w] = Idle]

-----------------------------------------------------------------------------
(* createConsultation: look for the pair's active rows, fail the ones that  *)
(* never connected, refuse if one did, insert the new one.                  *)

createConsultation(w) ==
    /\ Starts(w, [Idle EXCEPT
           !.op = "create",
           !.ghosts = {c \in Consultations : row[c].status \in HOLDABLE_STATUSES},
           !.live = {c \in Consultations : row[c].status \in {"accepted", "in_progress"}}])
    /\ UNCHANGED <<row, posts, timer, tokens, room, zego>>

\* "Auto-cancel ghost consultations": written by id, whatever the row is by now
CreateFailsGhost(w) ==
    /\ req[w].op = "create"
    /\ \E c \in req[w].ghosts :
          /\ row' = [row EXCEPT ![c].status = "failed"]
          /\ posts' = posts \cup {releasePost(c)}
          /\ req' = [req EXCEPT ![w].ghosts = @ \ {c}]
    /\ UNCHANGED <<timer, tokens, room, zego>>

CreateConflicts(w) ==
    /\ req[w].op = "create"
    /\ req[w].live # {}
    /\ Finishes(w)
    /\ UNCHANGED <<row, posts, timer, tokens, room, zego>>

CreateInserts(w) ==
    /\ req[w].op = "create"
    /\ req[w].ghosts = {}
    /\ req[w].live = {}
    /\ \E c \in Consultations :
          /\ ~Exists(c)
          /\ row' = [row EXCEPT ![c] = [NoRow EXCEPT !.status = "requested"]]
    /\ Finishes(w)
    /\ UNCHANGED <<posts, timer, tokens, room, zego>>

-----------------------------------------------------------------------------
(* acceptConsultation: the hold is checked on the loaded row, the status in *)
(* the guarded update.                                                      *)

\* Mutant: a row that never had a hold passes, its holdReleasedAt being null
HoldSecuredIfNotReleased(c) == ~row[c].released

HoldSecured(c) == row[c].pi # NoCard /\ ~row[c].released

acceptConsultation(w, c) ==
    /\ Exists(c)
    /\ HoldSecured(c)
    /\ Starts(w, Loaded("accept", c, FALSE))
    /\ UNCHANGED <<row, posts, timer, tokens, room, zego>>

AcceptUpdates(w) ==
    /\ req[w].op = "accept"
    /\ row' = IF row[req[w].c].status \in HOLDABLE_STATUSES
              THEN [row EXCEPT ![req[w].c].status = "accepted"]
              ELSE row
    /\ Finishes(w)
    /\ UNCHANGED <<posts, timer, tokens, room, zego>>

\* declineConsultation tests nothing it has loaded: the guarded update and the
\* fire-and-forget release are its whole effect.
declineConsultation(c) ==
    /\ row[c].status \in HOLDABLE_STATUSES
    /\ row' = [row EXCEPT ![c].status = "declined"]
    /\ posts' = posts \cup {releasePost(c)}
    /\ UNCHANGED callsOnly

-----------------------------------------------------------------------------
(* The two ways a call ends write the same columns and then hand the money  *)
(* question to billing: capture if it connected for a billable time,        *)
(* otherwise release.                                                       *)

\* Mutant: the measured length is stored, not rounded up to whole minutes
WriteEndMeasured(c, wasConnected, seconds) ==
    row' = [row EXCEPT ![c] =
               [@ EXCEPT !.status = IF wasConnected THEN "completed" ELSE "failed",
                         !.seconds = IF wasConnected /\ seconds > 0 THEN seconds - 7 ELSE 0]]

WriteEnd(c, wasConnected, seconds) ==
    row' = [row EXCEPT ![c] =
               [@ EXCEPT !.status = IF wasConnected THEN "completed" ELSE "failed",
                         !.seconds = IF wasConnected THEN seconds ELSE 0]]

PostEnd(c, wasConnected, seconds) ==
    posts' = posts \cup {IF wasConnected /\ seconds > 0
                         THEN capturePost(c, seconds)
                         ELSE releasePost(c)}

endConsultation(w, c) ==
    /\ Exists(c)
    /\ Starts(w, Loaded("end", c, row[c].started))
    /\ UNCHANGED <<row, posts, timer, tokens, room, zego>>

\* Guarded: a call that is no longer active is not ended again
EndUpdates(w) ==
    /\ req[w].op = "end"
    /\ IF row[req[w].c].status \in ACTIVE_CONSULTATION_STATUSES
       THEN \E s \in CallSeconds :
               /\ WriteEnd(req[w].c, req[w].started, s)
               /\ PostEnd(req[w].c, req[w].started, s)
       ELSE UNCHANGED <<row, posts>>
    /\ Finishes(w)
    /\ UNCHANGED <<timer, tokens, room, zego>>

\* getVideoToken
getVideoToken(c, p) ==
    /\ row[c].status \in {"accepted", "in_progress"}
    /\ tokens' = [tokens EXCEPT ![c] = @ \cup {p}]
    /\ UNCHANGED <<row, posts, req, timer, room, zego>>

-----------------------------------------------------------------------------
(* ZEGO: the room and its callbacks.                                        *)

ZegoJoin(c, p) ==
    /\ p \in tokens[c]
    /\ p \notin room[c]
    /\ room' = [room EXCEPT ![c] = @ \cup {p}]
    /\ zego' = zego \cup {callback("room_login", c, p)}
    /\ UNCHANGED <<row, posts, req, timer, tokens>>

\* The room closes some time after the last one left, unless someone returns.
\* A logout callback does nothing when the timeout is off.
ZegoLeave(c, p) ==
    /\ p \in room[c]
    /\ room' = [room EXCEPT ![c] = @ \ {p}]
    /\ \E closes \in {FALSE, room[c] = {p}} :
          zego' = zego
             \cup (IF MissingTimeout THEN {callback("room_logout", c, p)} ELSE {})
             \cup (IF closes THEN {callback("room_close", c, "room")} ELSE {})
    /\ UNCHANGED <<row, posts, req, timer, tokens>>

Delivered(e) ==
    /\ e \in zego
    /\ zego' \in {zego \ {e}} \cup (IF ZegoRetries THEN {zego} ELSE {})

ZegoLoses(e) ==
    /\ e \in zego
    /\ zego' = zego \ {e}
    /\ UNCHANGED <<row, posts, req, timer, tokens, room>>

-----------------------------------------------------------------------------
(* room_login: the timer is cleared at once, the participant is pushed and  *)
(* the row read in one statement, and on what that read returned the call   *)
(* is marked in progress, by id.                                            *)

handleUserLogin(w, c, p) ==
    LET joined == row[c].joined \cup {p}
    IN  /\ Delivered(callback("room_login", c, p))
        /\ timer' = [timer EXCEPT ![c] = FALSE]
        /\ row' = [row EXCEPT ![c].joined = joined]
        /\ IF row[c].status \in {"requested", "accepted"} /\ joined = Parties
           THEN Starts(w, Loaded("login", c, row[c].started))
           ELSE Starts(w, Idle)
        /\ UNCHANGED <<posts, tokens, room>>

LoginUpdates(w) ==
    /\ req[w].op = "login"
    /\ row' = [row EXCEPT ![req[w].c] = [@ EXCEPT !.status = "in_progress", !.started = TRUE]]
    /\ Finishes(w)
    /\ UNCHANGED <<posts, timer, tokens, room, zego>>

\* room_logout: arm the timer if the call was in progress when read
handleUserLogout(w, c, p) ==
    /\ Delivered(callback("room_logout", c, p))
    /\ Starts(w, IF MissingTimeout /\ row[c].status = "in_progress"
                 THEN Loaded("logout", c, FALSE) ELSE Idle)
    /\ UNCHANGED <<row, posts, timer, tokens, room>>

LogoutArmsTimer(w) ==
    /\ req[w].op = "logout"
    /\ timer' = [timer EXCEPT ![req[w].c] = TRUE]
    /\ Finishes(w)
    /\ UNCHANGED <<row, posts, tokens, room, zego>>

\* The part handleRoomClose runs before it writes
RoomCloseReads(w, c) ==
    /\ timer' = [timer EXCEPT ![c] = FALSE]
    /\ Starts(w, IF row[c].status \in ACTIVE_CONSULTATION_STATUSES
                 THEN Loaded("close", c, row[c].started) ELSE Idle)
    /\ UNCHANGED <<row, posts, tokens, room>>

handleRoomClose(w, c) ==
    /\ Delivered(callback("room_close", c, "room"))
    /\ RoomCloseReads(w, c)

\* The timer deletes itself and runs handleRoomClose
TimerFires(w, c) ==
    /\ timer[c]
    /\ RoomCloseReads(w, c)
    /\ UNCHANGED zego

\* Unguarded: the row is written by id from what was read
RoomCloseUpdates(w) ==
    /\ req[w].op = "close"
    /\ \E s \in CallSeconds :
          /\ WriteEnd(req[w].c, req[w].started, s)
          /\ PostEnd(req[w].c, req[w].started, s)
    /\ Finishes(w)
    /\ UNCHANGED <<timer, tokens, room, zego>>

\* The process restarts: handlers and timers die with it, and so do the
\* fire-and-forget requests it had not got through to billing.
EngagementRestarts ==
    /\ req' = [w \in Requests |-> Idle]
    /\ timer' = [c \in Consultations |-> FALSE]
    /\ posts' \in SUBSET posts
    /\ UNCHANGED <<row, tokens, room, zego>>

-----------------------------------------------------------------------------
HandlerStep(w) ==
    \/ createConsultation(w)
    \/ CreateFailsGhost(w)
    \/ CreateConflicts(w)
    \/ CreateInserts(w)
    \/ AcceptUpdates(w)
    \/ EndUpdates(w)
    \/ LoginUpdates(w)
    \/ LogoutArmsTimer(w)
    \/ RoomCloseUpdates(w)
    \/ \E c \in Consultations :
          \/ acceptConsultation(w, c)
          \/ endConsultation(w, c)
          \/ handleRoomClose(w, c)
          \/ TimerFires(w, c)
          \/ \E p \in Parties : handleUserLogin(w, c, p) \/ handleUserLogout(w, c, p)

CallsNext ==
    \/ \E w \in Requests : HandlerStep(w)
    \/ \E c \in Consultations : declineConsultation(c)
    \/ \E c \in Consultations, p \in Parties :
          getVideoToken(c, p) \/ ZegoJoin(c, p) \/ ZegoLeave(c, p)
    \/ \E e \in zego : ZegoLoses(e)
    \/ EngagementRestarts
=============================================================================
