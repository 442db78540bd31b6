-------------------------- MODULE AroundCallsProofs --------------------------
(***************************************************************************)
(* What holds of quotes, reviews, transcripts and sessions, of the         *)
(* conversation of two parties and of the files sent in it, for every      *)
(* number of quotes, devices, callbacks, tokens, sockets, clients,         *)
(* messages and files.  Each part has an inductive invariant of its own,   *)
(* and a step of another part leaves all it speaks of as it is.            *)
(***************************************************************************)
EXTENDS AroundCalls, FiniteSetTheorems, TLAPS

-----------------------------------------------------------------------------
(* Files.  The object under the permanent key is there before the one under *)
(* the temporary key is deleted, and before the row names it.               *)

SendingTo(s) == sending[s].asset

MovesAreBacked ==
    \A s \in Senders :
       /\ sending[s].step # "none" => SendingTo(s) \in Assets
       /\ sending[s].step \in {"delete", "write"} => <<SendingTo(s), "kept">> \in objects

KeptIsThere == \A a \in Assets : asset[a].at = "kept" => <<a, "kept">> \in objects

FilesInv == FilesTypeOK /\ MovesAreBacked /\ KeptIsThere /\ FileAtItsKey

Asset == [status : {"none", "pending_upload", "ready"}, at : {"temp", "kept"}, link : BOOLEAN]

Sending == [step : {"none", "copy", "delete", "write"},
            asset : Assets \cup {NoAsset}, staged : SUBSET Assets]

(* Nothing has been uploaded yet. *)
LEMMA FilesStart == FilesInit => FilesInv
BY DEF FilesInit, FilesInv, FilesTypeOK, MovesAreBacked, KeptIsThere, FileAtItsKey, NoUpload,
       NotSending

(* A step of another part keeps the files' invariant. *)
LEMMA FilesRest == FilesInv /\ UNCHANGED fileVars => FilesInv'
<1> SUFFICES ASSUME FilesInv, UNCHANGED fileVars PROVE FilesInv'
  OBVIOUS
<1>1. UNCHANGED <<asset, objects, sending, uploaded, stranded>>
  BY DEF fileVars
<1> QED
  BY <1>1 DEF FilesInv, FilesTypeOK, MovesAreBacked, KeptIsThere, FileAtItsKey, SendingTo, Link

(* A request that moves on, to its next file or to its end, is not about to *)
(* write a row.                                                             *)
LEMMA RequestProceeds ==
    ASSUME FilesInv, NEW s \in Senders, NEW staged \in SUBSET Assets, Proceeds(s, staged)
    PROVE  /\ sending' \in [Senders -> Sending]
           /\ \A t \in Senders \ {s} : sending'[t] = sending[t]
           /\ sending'[s].step \in {"none", "copy"}
           /\ sending'[s].step = "copy" => sending'[s].asset \in Assets
BY DEF Proceeds, Goes, FilesInv, FilesTypeOK, NotSending, Sending

(* Every step of a client, of a request and of S3 keeps the invariant. *)
LEMMA FilesStep == FilesInv /\ FilesNext => FilesInv'
<1> SUFFICES ASSUME FilesInv, FilesNext PROVE FilesInv'
  OBVIOUS
<1>1. /\ asset \in [Assets -> Asset] /\ sending \in [Senders -> Sending]
      /\ objects \subseteq Assets \X {"temp", "kept"}
      /\ uploaded \subseteq Assets /\ stranded \subseteq Assets
  BY DEF FilesInv, FilesTypeOK, Asset, Sending
<1>2. ASSUME asset' \in [Assets -> Asset], sending' \in [Senders -> Sending],
             objects' \subseteq Assets \X {"temp", "kept"},
             uploaded' \subseteq Assets, stranded' \subseteq Assets
      PROVE  FilesTypeOK'
  BY <1>2 DEF FilesTypeOK, Asset, Sending
<1>3. ASSUME NEW a \in Assets, NEW new \in Asset, asset' = [asset EXCEPT ![a] = new],
             new.at = asset[a].at, UNCHANGED <<sending, stranded>>,
             UNCHANGED <<objects, uploaded>> \/ UploadBuffer(a)
      PROVE  FilesInv'
  <2>1. \A b \in Assets : asset'[b].at = asset[b].at /\ Link(b)' = Link(b)
    BY <1>1, <1>3 DEF Link
  <2>2. /\ objects \subseteq objects' /\ objects' \subseteq Assets \X {"temp", "kept"}
        /\ uploaded' \subseteq Assets
    BY <1>1, <1>3 DEF UploadBuffer
  <2>3. FilesTypeOK'
    BY <1>1, <1>2, <1>3, <2>2
  <2>4. MovesAreBacked' /\ KeptIsThere'
    BY <1>3, <2>1, <2>2 DEF FilesInv, MovesAreBacked, KeptIsThere, SendingTo
  <2>5. \A b \in uploaded' \ uploaded : Link(b) \in objects'
    <3>1. UploadBuffer(a) => Link(a) \in objects'
      BY <1>1, <2>2 DEF UploadBuffer, FilesInv, KeptIsThere, Link, Asset
    <3> QED
      BY <1>3, <3>1 DEF UploadBuffer
  <2>6. FileAtItsKey'
    BY <1>1, <1>3, <2>1, <2>2, <2>5 DEF FilesInv, FileAtItsKey
  <2> QED
    BY <2>3, <2>4, <2>6 DEF FilesInv
<1>4. ASSUME NEW a \in Assets, createUpload(a) \/ confirmUpload(a)
      PROVE  FilesInv'
  <2>1. CASE createUpload(a)
    <3>1. /\ [asset[a] EXCEPT !.status = "pending_upload", !.link = TRUE] \in Asset
          /\ [asset[a] EXCEPT !.status = "pending_upload", !.link = TRUE].at = asset[a].at
      BY <1>1 DEF Asset
    <3> QED
      BY <1>3, <2>1, <3>1 DEF createUpload
  <2>2. CASE confirmUpload(a)
    <3>1. /\ [asset[a] EXCEPT !.status = "ready"] \in Asset
          /\ [asset[a] EXCEPT !.status = "ready"].at = asset[a].at
      BY <1>1 DEF Asset
    <3> QED
      BY <1>3, <2>2, <3>1 DEF confirmUpload
  <2> QED
    BY <1>4, <2>1, <2>2
<1>5. ASSUME NEW a \in Assets, putObject(a)
      PROVE  FilesInv'
  <2>1. asset' = [asset EXCEPT ![a] = asset[a]] /\ asset[a] \in Asset
    BY <1>1, <1>5 DEF putObject
  <2> QED
    BY <1>3, <1>5, <2>1 DEF putObject
<1>6. ASSUME NEW a \in Assets, NEW withData \in BOOLEAN, directUpload(a, withData)
      PROVE  FilesInv'
  <2>1. /\ [asset[a] EXCEPT !.status = "ready"] \in Asset
        /\ [asset[a] EXCEPT !.status = "ready"].at = asset[a].at
    BY <1>1 DEF Asset
  <2>2. UploadBuffer(a) \/ UNCHANGED <<objects, uploaded>>
    BY <1>6, Zenon DEF directUpload
  <2> QED
    BY <1>3, <1>6, <2>1, <2>2 DEF directUpload
<1>7. ASSUME NEW s \in Senders, sending' \in [Senders -> Sending],
             \A t \in Senders \ {s} : sending'[t] = sending[t],
             sending'[s].step # "none" => sending'[s].asset \in Assets,
             sending'[s].step \in {"delete", "write"} => <<sending'[s].asset, "kept">> \in objects',
             \A a \in Assets : <<a, "kept">> \in objects => <<a, "kept">> \in objects'
      PROVE  MovesAreBacked'
  BY <1>1, <1>7 DEF FilesInv, MovesAreBacked, SendingTo
<1>8. ASSUME NEW s \in Senders, NEW S \in SUBSET Assets, attachFiles(s, S)
      PROVE  FilesInv'
  <2>1. /\ UNCHANGED <<asset, objects, uploaded, stranded>> /\ Proceeds(s, Staged(S))
        /\ sending[s].step = "none" /\ Staged(S) \subseteq Assets
    BY <1>8 DEF attachFiles, NotSending, Staged
  <2>2. /\ sending' \in [Senders -> Sending] /\ \A t \in Senders \ {s} : sending'[t] = sending[t]
        /\ sending'[s].step \in {"none", "copy"}
        /\ sending'[s].step = "copy" => sending'[s].asset \in Assets
    BY <2>1, RequestProceeds
  <2>3. MovesAreBacked' /\ FilesTypeOK'
    BY <1>1, <1>2, <1>7, <2>1, <2>2
  <2>4. FileAtItsKey' /\ KeptIsThere'
    BY <2>1, <2>2 DEF FilesInv, FileAtItsKey, KeptIsThere, Link
  <2> QED
    BY <2>3, <2>4 DEF FilesInv
<1>9. ASSUME NEW s \in Senders, CopyObject(s)
      PROVE  FilesInv'
  <2> PICK a \in Assets : a = sending[s].asset
    BY <1>9 DEF CopyObject, FilesInv, MovesAreBacked, SendingTo
  <2>1. /\ a \in Assets /\ sending[s].step = "copy" /\ sending[s].staged \in SUBSET Assets
        /\ UNCHANGED <<asset, uploaded, stranded>>
    BY <1>1, <1>9 DEF CopyObject, FilesInv, MovesAreBacked, SendingTo, Sending
  <2>2. CASE <<a, "temp">> \in objects /\ objects' = objects \cup {<<a, "kept">>}
             /\ Goes(s, "delete", a, sending[s].staged)
    <3>1. [step |-> "delete", asset |-> a, staged |-> sending[s].staged] \in Sending
      BY <2>1 DEF Sending
    <3>2. /\ sending' = [sending EXCEPT ![s] = [step |-> "delete", asset |-> a,
                                                staged |-> sending[s].staged]]
          /\ sending' \in [Senders -> Sending]
      BY <1>1, <2>2, <3>1 DEF Goes
    <3>3. sending'[s].asset = a /\ objects' \subseteq Assets \X {"temp", "kept"}
          /\ \A t \in Senders \ {s} : sending'[t] = sending[t]
      BY <1>1, <2>2, <3>2
    <3>4. MovesAreBacked' /\ FilesTypeOK'
      BY <1>1, <1>2, <1>7, <2>1, <2>2, <3>2, <3>3
    <3>5. FileAtItsKey' /\ KeptIsThere'
      BY <1>1, <2>1, <2>2, <3>2 DEF FilesInv, FileAtItsKey, KeptIsThere, Link
    <3> QED
      BY <3>4, <3>5 DEF FilesInv
  <2>3. CASE Proceeds(s, sending[s].staged) /\ UNCHANGED objects
    <3>1. /\ sending' \in [Senders -> Sending] /\ \A t \in Senders \ {s} : sending'[t] = sending[t]
          /\ sending'[s].step \in {"none", "copy"}
          /\ sending'[s].step = "copy" => sending'[s].asset \in Assets
      BY <2>1, <2>3, RequestProceeds
    <3>2. MovesAreBacked' /\ FilesTypeOK'
      BY <1>1, <1>2, <1>7, <2>1, <2>3, <3>1
    <3>3. FileAtItsKey' /\ KeptIsThere'
      BY <2>1, <2>3, <3>1 DEF FilesInv, FileAtItsKey, KeptIsThere, Link
    <3> QED
      BY <3>2, <3>3 DEF FilesInv
  <2> QED
    BY <1>9, <2>2, <2>3 DEF CopyObject
<1>10. ASSUME NEW s \in Senders, DeleteObject(s)
       PROVE  FilesInv'
  <2> PICK a \in Assets : a = sending[s].asset
    BY <1>10 DEF DeleteObject, FilesInv, MovesAreBacked, SendingTo
  <2>1. /\ a \in Assets /\ sending[s].step = "delete" /\ sending[s].staged \in SUBSET Assets
        /\ <<a, "kept">> \in objects /\ UNCHANGED <<asset, uploaded>>
    BY <1>1, <1>10 DEF DeleteObject, FilesInv, MovesAreBacked, SendingTo, Sending
  <2>2. ASSUME objects' = objects \ {<<a, "temp">>}
        PROVE  /\ objects' \subseteq Assets \X {"temp", "kept"} /\ KeptIsThere'
               /\ \A b \in Assets : <<b, "kept">> \in objects => <<b, "kept">> \in objects'
               /\ \A b \in Assets \ {a} : Link(b) \in objects => Link(b)' \in objects'
    BY <1>1, <2>1, <2>2 DEF FilesInv, KeptIsThere, Link
  <2>3. CASE objects' = objects \ {<<a, "temp">>} /\ Goes(s, "write", a, sending[s].staged)
             /\ UNCHANGED stranded
    <3>1. [step |-> "write", asset |-> a, staged |-> sending[s].staged] \in Sending
      BY <2>1 DEF Sending
    <3>2. /\ sending' = [sending EXCEPT ![s] = [step |-> "write", asset |-> a,
                                                staged |-> sending[s].staged]]
          /\ sending' \in [Senders -> Sending]
      BY <1>1, <2>3, <3>1 DEF Goes
    <3>3. MovesAreBacked' /\ FilesTypeOK'
      BY <1>1, <1>2, <1>7, <2>1, <2>2, <2>3, <3>2
    <3>4. FileAtItsKey'
      BY <1>1, <2>1, <2>2, <2>3, <3>2 DEF FilesInv, FileAtItsKey
    <3> QED
      BY <2>2, <2>3, <3>3, <3>4 DEF FilesInv
  <2>4. CASE objects' = objects \ {<<a, "temp">>} /\ Proceeds(s, sending[s].staged)
             /\ stranded' = stranded \cup {a}
    <3>1. /\ sending' \in [Senders -> Sending] /\ \A t \in Senders \ {s} : sending'[t] = sending[t]
          /\ sending'[s].step \in {"none", "copy"}
          /\ sending'[s].step = "copy" => sending'[s].asset \in Assets
      BY <2>1, <2>4, RequestProceeds
    <3>2. MovesAreBacked' /\ FilesTypeOK'
      BY <1>1, <1>2, <1>7, <2>1, <2>2, <2>4, <3>1
    <3>3. FileAtItsKey'
      BY <1>1, <2>1, <2>2, <2>4, <3>1 DEF FilesInv, FileAtItsKey
    <3> QED
      BY <2>2, <2>4, <3>2, <3>3 DEF FilesInv
  <2>5. CASE Proceeds(s, sending[s].staged) /\ UNCHANGED <<objects, stranded>>
    <3>1. /\ sending' \in [Senders -> Sending] /\ \A t \in Senders \ {s} : sending'[t] = sending[t]
          /\ sending'[s].step \in {"none", "copy"}
          /\ sending'[s].step = "copy" => sending'[s].asset \in Assets
      BY <2>1, <2>5, RequestProceeds
    <3>2. MovesAreBacked' /\ FilesTypeOK'
      BY <1>1, <1>2, <1>7, <2>1, <2>5, <3>1
    <3>3. FileAtItsKey' /\ KeptIsThere'
      BY <2>1, <2>5, <3>1 DEF FilesInv, FileAtItsKey, KeptIsThere, Link
    <3> QED
      BY <3>2, <3>3 DEF FilesInv
  <2> QED
    BY <1>10, <2>3, <2>4, <2>5 DEF DeleteObject
<1>11. ASSUME NEW s \in Senders, WriteKey(s)
       PROVE  FilesInv'
  <2> PICK a \in Assets : a = sending[s].asset
    BY <1>11 DEF WriteKey, FilesInv, MovesAreBacked, SendingTo
  <2>1. /\ a \in Assets /\ sending[s].step = "write" /\ sending[s].staged \in SUBSET Assets
        /\ <<a, "kept">> \in objects /\ UNCHANGED <<objects, uploaded>>
        /\ Proceeds(s, sending[s].staged)
    BY <1>1, <1>11 DEF WriteKey, FilesInv, MovesAreBacked, SendingTo, Sending
  <2>2. /\ sending' \in [Senders -> Sending] /\ \A t \in Senders \ {s} : sending'[t] = sending[t]
        /\ sending'[s].step \in {"none", "copy"}
        /\ sending'[s].step = "copy" => sending'[s].asset \in Assets
    BY <2>1, RequestProceeds
  <2>3. CASE asset' = [asset EXCEPT ![a] = [asset[a] EXCEPT !.status = "ready", !.at = "kept"]]
             /\ UNCHANGED stranded
    <3>1. /\ asset' \in [Assets -> Asset] /\ asset'[a].at = "kept"
          /\ \A b \in Assets \ {a} : asset'[b] = asset[b]
      BY <1>1, <2>1, <2>3 DEF Asset
    <3>2. MovesAreBacked' /\ FilesTypeOK'
      BY <1>1, <1>2, <1>7, <2>1, <2>2, <2>3, <3>1
    <3>3. KeptIsThere'
      BY <2>1, <3>1 DEF FilesInv, KeptIsThere
    <3>4. Link(a)' = <<a, "kept">> /\ \A b \in Assets \ {a} : Link(b)' = Link(b)
      BY <3>1 DEF Link
    <3>5. FileAtItsKey'
      BY <1>1, <2>1, <2>2, <2>3, <3>4 DEF FilesInv, FileAtItsKey
    <3> QED
      BY <3>2, <3>3, <3>5 DEF FilesInv
  <2>4. CASE stranded' = stranded \cup {a} /\ UNCHANGED asset
    <3>1. MovesAreBacked' /\ FilesTypeOK'
      BY <1>1, <1>2, <1>7, <2>1, <2>2, <2>4
    <3>2. FileAtItsKey' /\ KeptIsThere'
      BY <1>1, <2>1, <2>2, <2>4 DEF FilesInv, FileAtItsKey, KeptIsThere, Link
    <3> QED
      BY <3>1, <3>2 DEF FilesInv
  <2> QED
    BY <1>11, <2>3, <2>4 DEF WriteKey
<1>12. ASSUME MessagingRestarts
       PROVE  FilesInv'
  <2>1. /\ sending' = [s \in Senders |-> NotSending] /\ UNCHANGED <<asset, objects, uploaded>>
        /\ \A s \in Senders : sending[s].step = "write" => SendingTo(s) \in stranded'
        /\ stranded \subseteq stranded' /\ stranded' \subseteq Assets
    BY <1>1, <1>12 DEF MessagingRestarts, SendingTo, FilesInv, MovesAreBacked
  <2>2. sending' \in [Senders -> Sending]
    BY <2>1 DEF NotSending, Sending
  <2>3. MovesAreBacked' /\ FilesTypeOK'
    BY <1>1, <1>2, <2>1, <2>2 DEF MovesAreBacked, NotSending
  <2>4. FileAtItsKey' /\ KeptIsThere'
    BY <1>1, <2>1 DEF FilesInv, FileAtItsKey, KeptIsThere, Link, SendingTo
  <2> QED
    BY <2>3, <2>4 DEF FilesInv
<1> QED
  BY <1>4, <1>5, <1>6, <1>8, <1>9, <1>10, <1>11, <1>12 DEF FilesNext

-----------------------------------------------------------------------------
(* The conversation.  Messages are numbered as they are inserted, and every  *)
(* time that is compared with another is one the clock has shown.            *)

Message == [by : Clients \cup {NoClient}, at : 0..MaxClock,
            status : {"none", "sending", "sent", "read"}]

Asking == [op : {"quiet", "checked", "commit", "emit", "push", "mark", "delete"},
           id : 0..MaxMessages, at : 0..MaxClock, since : 0..MaxClock]

Inserted == {m \in Ids : message[m].status # "none"}

NumberedInOrder == \E n \in Nat : Inserted = 1..n

Authored == \A m \in Inserted : message[m].by \in Clients

SendersKnow ==
    \A c \in Clients : request[c].op \in {"commit", "emit", "push"} => request[c].id \in Inserted

WithinClock ==
    /\ \A s \in Sides : readAt[s] <= clock /\ deletedAt[s] <= clock
    /\ \A c \in Clients : request[c].at <= clock

\* last_message_at is that of the latest message, but for those overtaken
MovedUp == \A m \in Stored \ overtaken : message[m].at <= lastAt

\* and a message nobody has asked about is newer than both marks of its reader,
\* who has no request under way that could move them
Fresh(m) ==
    LET s == OtherSide(SentBy(m)) IN
    /\ m \in Inserted /\ ~ReaderBusy(s)
    /\ message[m].at > readAt[s] /\ message[m].at > deletedAt[s]

StillUnread == \A m \in untouched : Fresh(m)

ChatsInv ==
    /\ ChatsTypeOK
    /\ NumberedInOrder /\ Authored /\ SendersKnow
    /\ WithinClock /\ MovedUp /\ OpenThreadIsComplete /\ StillUnread

(* Every client sits at one of the two ends of the conversation. *)
LEMMA SidesOfClients ==
    /\ \A c \in Clients : SideOf(c) \in Sides
    /\ \A s \in Sides : OtherSide(s) \in Sides /\ OtherSide(s) # s
BY DEF SideOf, OtherSide, Sides

(* Ids of messages, and times, are numbers. *)
LEMMA IdsAreNumbers == Ids = 1..MaxMessages /\ MaxMessages \in Nat /\ MaxClock \in Nat
BY ChatsAssumption DEF Ids

(* The conversation is empty and nobody has it open. *)
LEMMA ChatsStart == ChatsInit => ChatsInv
<1> SUFFICES ASSUME ChatsInit PROVE ChatsInv
  OBVIOUS
<1>1. ChatsTypeOK
  <2>1. NoMessage \in Message /\ Quiet \in Asking /\ 0 \in 0..MaxClock
    BY IdsAreNumbers DEF NoMessage, Quiet, Message, Asking
  <2>2. message \in [Ids -> Message] /\ request \in [Clients -> Asking]
    BY <2>1 DEF ChatsInit
  <2> QED
    BY <2>1, <2>2 DEF ChatsInit, ChatsTypeOK, Message, Asking
<1>2. Inserted = {} /\ Stored = {} /\ \A s \in Sides : Visible(s) = {}
  BY DEF ChatsInit, Inserted, NoMessage, Stored, Visible
<1>3. NumberedInOrder
  <2>1. 0 \in Nat /\ 1..0 = {}
    OBVIOUS
  <2> QED
    BY <1>2, <2>1 DEF NumberedInOrder
<1>4. Authored /\ SendersKnow /\ MovedUp /\ OpenThreadIsComplete /\ StillUnread
  BY <1>2 DEF ChatsInit, Authored, SendersKnow, MovedUp, OpenThreadIsComplete, StillUnread, Quiet
<1>5. WithinClock
  BY DEF ChatsInit, WithinClock, Quiet
<1> QED
  BY <1>1, <1>3, <1>4, <1>5 DEF ChatsInv

(* The number of a new message is not one that is taken. *)
LEMMA NextIdIsFree ==
    ASSUME NumberedInOrder, NextId \in Ids
    PROVE  NextId \notin Inserted /\ Inserted \cup {NextId} = 1..NextId /\ NextId \in Nat
<1>1. PICK n \in Nat : Inserted = 1..n
  BY DEF NumberedInOrder
<1>2. Cardinality(1..n) = n
  BY <1>1, FS_Interval
<1>3. NextId = n + 1
  BY <1>1, <1>2 DEF NextId, Inserted
<1> QED
  BY <1>1, <1>3

(* What no step about other rows changes. *)
LEMMA ChatTypesUsed ==
    ASSUME ChatsTypeOK
    PROVE  /\ message \in [Ids -> Message] /\ request \in [Clients -> Asking]
           /\ clock \in 0..MaxClock /\ lastAt \in 0..MaxClock
           /\ readAt \in [Sides -> 0..MaxClock] /\ deletedAt \in [Sides -> 0..MaxClock]
BY DEF ChatsTypeOK, Message, Asking

(* Types are kept by every step. *)
LEMMA ChatTypesKept ==
    ASSUME ChatsTypeOK, SendersKnow, ChatsNext
    PROVE  ChatsTypeOK'
<1>1. /\ message \in [Ids -> Message] /\ request \in [Clients -> Asking]
      /\ clock \in 0..MaxClock /\ lastAt \in 0..MaxClock /\ exists \in BOOLEAN
      /\ readAt \in [Sides -> 0..MaxClock] /\ deletedAt \in [Sides -> 0..MaxClock]
      /\ blockedBy \subseteq Sides /\ loaded \subseteq room /\ room \subseteq Clients
      /\ screen \in [Clients -> SUBSET Ids]
      /\ pushed \subseteq Ids /\ untouched \subseteq Ids /\ overtaken \subseteq Ids
  BY DEF ChatsTypeOK, Message, Asking
<1>2. PICK c \in Clients :
         \/ createConversation(c) \/ sendMessage(c) \/ Commit(c) \/ Emit(c) \/ Push(c)
         \/ \E m \in Ids : Insert(c, m)
         \/ markConversationRead(c) \/ CommitRead(c)
         \/ deleteConversation(c) \/ CommitDelete(c) \/ restoreConversation(c)
         \/ blockUser(c) \/ unblockUser(c)
         \/ join(c) \/ listMessages(c) \/ leave(c)
  BY DEF ChatsNext
<1>3. Quiet \in Asking /\ SideOf(c) \in Sides /\ MaxClock \in Nat /\ Ids = 1..MaxMessages
  BY SidesOfClients, IdsAreNumbers DEF Quiet, Asking
<1>4. clock < MaxClock => clock + 1 \in 0..MaxClock
  BY <1>1, <1>3
<1>5. CASE createConversation(c) \/ join(c) \/ leave(c)
  BY <1>1, <1>5 DEF createConversation, join, leave, marks, rowOf, ChatsTypeOK, Message, Asking
<1>6. CASE sendMessage(c)
  BY <1>1, <1>6 DEF sendMessage, marks, rowOf, views, ChatsTypeOK, Message, Asking
<1>7. ASSUME NEW m \in Ids, Insert(c, m)
      PROVE  ChatsTypeOK'
  <2>1. [by |-> c, at |-> clock + 1, status |-> "sending"] \in Message
    BY <1>4, <1>7 DEF Insert, Message
  <2>2. message' = [message EXCEPT ![m] = [by |-> c, at |-> clock + 1, status |-> "sending"]]
        /\ clock' = clock + 1 /\ clock < MaxClock
    BY <1>7 DEF Insert
  <2>3. message' \in [Ids -> Message] /\ clock' \in 0..MaxClock
    BY <1>1, <1>4, <2>1, <2>2
  <2>4. request' \in [Clients -> Asking]
    <3> DEFINE sent == [request EXCEPT ![c].op = "commit"]
    <3>1. request' = [sent EXCEPT ![c].id = m]
      BY <1>7 DEF Insert
    <3>2. sent \in [Clients -> Asking]
      BY <1>1 DEF Asking
    <3>3. m \in 0..MaxMessages
      BY <1>3, IdsAreNumbers
    <3> HIDE DEF sent
    <3> QED
      BY <3>1, <3>2, <3>3 DEF Asking
  <2>5. untouched' \subseteq Ids
    BY <1>1, <1>7 DEF Insert
  <2>6. UNCHANGED <<exists, lastAt, overtaken, readAt, deletedAt, blockedBy, room, loaded, screen, pushed>>
    BY <1>7 DEF Insert, marks, rowOf, views
  <2> QED
    BY <1>1, <2>3, <2>4, <2>5, <2>6 DEF ChatsTypeOK, Message, Asking
<1>8. CASE Commit(c)
  <2>1. request[c].id \in Ids /\ message[request[c].id].at \in 0..MaxClock
    BY <1>1, <1>8 DEF Commit, SendersKnow, Inserted, Message
  <2>2. message' \in [Ids -> Message] /\ request' \in [Clients -> Asking]
    BY <1>1, <1>8, <2>1 DEF Commit, Message, Asking
  <2>3. lastAt' \in 0..MaxClock /\ overtaken' \subseteq Ids
    BY <1>1, <1>8, <2>1 DEF Commit, LaterThan, Stored
  <2> QED
    BY <1>1, <1>8, <2>2, <2>3 DEF Commit, marks, views, ChatsTypeOK, Message, Asking
<1>9. CASE Emit(c) \/ Push(c)
  <2>1. request[c].id \in Ids
    BY <1>1, <1>9 DEF Emit, Push, SendersKnow, Inserted
  <2>2. request' \in [Clients -> Asking]
    <3>1. CASE Emit(c)
      BY <1>1, <3>1 DEF Emit, Asking
    <3>2. CASE Push(c)
      BY <1>1, <1>3, <3>2 DEF Push
    <3> QED
      BY <1>9, <3>1, <3>2
  <2> QED
    BY <1>1, <1>9, <2>1, <2>2 DEF Emit, Push, marks, rowOf, ChatsTypeOK, Message, Asking
<1>10. CASE markConversationRead(c)
  <2>1. [op |-> "mark", id |-> 0, at |-> clock + 1, since |-> deletedAt[SideOf(c)]] \in Asking
    BY <1>1, <1>3, <1>4, <1>10, IdsAreNumbers DEF markConversationRead, Asking
  <2>2. /\ request' = [request EXCEPT ![c] = [op |-> "mark", id |-> 0, at |-> clock + 1,
                                              since |-> deletedAt[SideOf(c)]]]
        /\ clock' = clock + 1 /\ clock < MaxClock
    BY <1>10 DEF markConversationRead
  <2> QED
    BY <1>1, <1>4, <1>10, <2>1, <2>2
    DEF markConversationRead, marks, rowOf, views, ChatsTypeOK, Message, Asking
<1>11. CASE CommitRead(c)
  <2>1. request[c].at \in 0..MaxClock
    BY <1>1 DEF Asking
  <2>2. message' \in [Ids -> Message]
    BY <1>1, <1>11 DEF CommitRead, Message
  <2>3. readAt' \in [Sides -> 0..MaxClock] /\ request' \in [Clients -> Asking]
    BY <1>1, <1>3, <1>11, <2>1 DEF CommitRead
  <2> QED
    BY <1>1, <1>11, <2>2, <2>3 DEF CommitRead, rowOf, views, ChatsTypeOK, Message, Asking
<1>12. CASE deleteConversation(c)
  <2>1. [Quiet EXCEPT !.op = "delete", !.at = clock + 1] \in Asking
    BY <1>3, <1>4, <1>12 DEF deleteConversation, Asking
  <2>2. /\ request' = [request EXCEPT ![c] = [Quiet EXCEPT !.op = "delete", !.at = clock + 1]]
        /\ clock' = clock + 1 /\ clock < MaxClock
    BY <1>12 DEF deleteConversation
  <2> QED
    BY <1>1, <1>4, <1>12, <2>1, <2>2
    DEF deleteConversation, marks, rowOf, views, ChatsTypeOK, Message, Asking
<1>13. CASE CommitDelete(c)
  <2>1. request[c].at \in 0..MaxClock
    BY <1>1 DEF Asking
  <2>2. deletedAt' \in [Sides -> 0..MaxClock] /\ request' \in [Clients -> Asking]
    BY <1>1, <1>3, <1>13, <2>1 DEF CommitDelete
  <2> QED
    BY <1>1, <1>13, <2>2 DEF CommitDelete, Reloading, rowOf, ChatsTypeOK, Message, Asking
<1>14. CASE restoreConversation(c)
  <2>1. deletedAt' \in [Sides -> 0..MaxClock]
    BY <1>1, <1>3, <1>14 DEF restoreConversation
  <2> QED
    BY <1>1, <1>14, <2>1 DEF restoreConversation, Reloading, rowOf, ChatsTypeOK, Message, Asking
<1>15. CASE blockUser(c) \/ unblockUser(c)
  BY <1>1, <1>3, <1>15 DEF blockUser, unblockUser, rowOf, views, ChatsTypeOK, Message, Asking
<1>16. CASE listMessages(c)
  <2>1. Visible(SideOf(c)) \subseteq Ids
    BY DEF Visible, Stored
  <2> QED
    BY <1>1, <1>16, <2>1 DEF listMessages, marks, rowOf, ChatsTypeOK, Message, Asking
<1> QED
  BY <1>2, <1>5, <1>6, <1>7, <1>8, <1>9, <1>10, <1>11, <1>12, <1>13, <1>14, <1>15, <1>16

(* A message inserted has a number of its own and nobody sees it yet. *)
LEMMA InsertAdds ==
    ASSUME ChatsTypeOK, NumberedInOrder, NEW c \in Clients, NEW m \in Ids, Insert(c, m)
    PROVE  /\ m \notin Inserted /\ Inserted' = Inserted \cup {m} /\ Inserted' = 1..m /\ m \in Nat
           /\ Stored' = Stored
           /\ message'[m] = [by |-> c, at |-> clock + 1, status |-> "sending"]
           /\ \A x \in Inserted : message'[x] = message[x]
<1>1. message \in [Ids -> Message]
  BY ChatTypesUsed
<1>2. m \notin Inserted /\ Inserted \cup {m} = 1..m /\ m \in Nat
  BY NextIdIsFree DEF Insert
<1>3. message' = [message EXCEPT ![m] = [by |-> c, at |-> clock + 1, status |-> "sending"]]
  BY DEF Insert
<1>4. /\ message'[m] = [by |-> c, at |-> clock + 1, status |-> "sending"]
      /\ \A x \in Ids \ {m} : message'[x] = message[x]
  BY <1>1, <1>3
<1>5. Inserted' = Inserted \cup {m}
  BY <1>4 DEF Inserted
<1>6. message[m].status = "none" /\ message'[m].status = "sending"
  BY <1>2, <1>4 DEF Inserted
<1>7. Stored' = Stored
  BY <1>4, <1>6 DEF Stored
<1>8. \A x \in Inserted : message'[x] = message[x]
  BY <1>2, <1>4 DEF Inserted
<1> QED
  BY <1>2, <1>4, <1>5, <1>7, <1>8

(* A message committed is one that was inserted. *)
LEMMA CommitStores ==
    ASSUME ChatsTypeOK, SendersKnow, NEW c \in Clients, Commit(c)
    PROVE  /\ request[c].id \in Inserted
           /\ Inserted' = Inserted /\ Stored' = Stored \cup {request[c].id}
           /\ \A m \in Ids : message'[m].by = message[m].by /\ message'[m].at = message[m].at
<1>1. message \in [Ids -> Message]
  BY ChatTypesUsed
<1>2. request[c].id \in Inserted
  BY DEF Commit, SendersKnow
<1>3. PICK x \in Ids : x = request[c].id
  BY <1>2 DEF Inserted
<1>4. message' = [message EXCEPT ![x].status = "sent"]
  BY <1>3 DEF Commit
<1>5. /\ message'[x].status = "sent" /\ message'[x].by = message[x].by /\ message'[x].at = message[x].at
      /\ \A m \in Ids \ {x} : message'[m] = message[m]
  BY <1>1, <1>4 DEF Message
<1>6. Inserted' = Inserted
  BY <1>2, <1>3, <1>5 DEF Inserted
<1>7. Stored' = Stored \cup {x}
  BY <1>5 DEF Stored
<1> QED
  BY <1>2, <1>3, <1>5, <1>6, <1>7

Others(c) ==
    \/ createConversation(c) \/ sendMessage(c) \/ Emit(c) \/ Push(c)
    \/ markConversationRead(c) \/ CommitRead(c)
    \/ deleteConversation(c) \/ CommitDelete(c) \/ restoreConversation(c)
    \/ blockUser(c) \/ unblockUser(c)
    \/ join(c) \/ listMessages(c) \/ leave(c)

(* The other steps leave the messages, or mark some as read. *)
LEMMA OthersLeave ==
    ASSUME ChatsTypeOK, NEW c \in Clients, Others(c)
    PROVE  /\ Inserted' = Inserted /\ Stored' = Stored
           /\ \A m \in Ids : message'[m].by = message[m].by /\ message'[m].at = message[m].at
           /\ UNCHANGED <<lastAt, overtaken>>
<1>1. message \in [Ids -> Message]
  BY ChatTypesUsed
<1>2. CASE message' = message
  <2>1. Inserted' = Inserted /\ Stored' = Stored
    BY <1>2 DEF Inserted, Stored
  <2>2. UNCHANGED <<lastAt, overtaken>>
    BY DEF Others, createConversation, sendMessage, Emit, Push, markConversationRead, CommitRead,
           deleteConversation, CommitDelete, restoreConversation, blockUser, unblockUser, join,
           listMessages, leave, rowOf
  <2> QED
    BY <1>2, <2>1, <2>2
<1>3. CASE CommitRead(c)
  <2>1. \A m \in Ids : \/ message'[m] = message[m]
                       \/ m \in Stored /\ message'[m] = [message[m] EXCEPT !.status = "read"]
    BY <1>3 DEF CommitRead
  <2>2. \A m \in Ids : /\ message'[m].by = message[m].by /\ message'[m].at = message[m].at
                       /\ \/ message'[m] = message[m]
                          \/ m \in Stored /\ message'[m].status = "read"
    BY <1>1, <2>1 DEF Message
  <2> QED
    BY <1>3, <2>2 DEF Inserted, Stored, CommitRead, rowOf
<1>4. CommitRead(c) \/ message' = message
  BY DEF Others, createConversation, sendMessage, Emit, Push, markConversationRead,
         deleteConversation, CommitDelete, restoreConversation, blockUser, unblockUser, join,
         listMessages, leave
<1> QED
  BY <1>2, <1>3, <1>4

(* Numbers and authors. *)
LEMMA NumberingKept ==
    ASSUME ChatsInv, ChatsNext
    PROVE  NumberedInOrder' /\ Authored'
<1>1. PICK c \in Clients : Commit(c) \/ Others(c) \/ \E m \in Ids : Insert(c, m)
  BY DEF ChatsNext, Others
<1>2. ASSUME NEW m \in Ids, Insert(c, m)
      PROVE  NumberedInOrder' /\ Authored'
  <2>1. /\ Inserted' = Inserted \cup {m} /\ Inserted' = 1..m /\ m \in Nat
        /\ message'[m] = [by |-> c, at |-> clock + 1, status |-> "sending"]
        /\ \A x \in Inserted : message'[x] = message[x]
    BY <1>2, InsertAdds DEF ChatsInv
  <2>2. message'[m].by = c
    BY <2>1
  <2> QED
    BY <2>1, <2>2 DEF ChatsInv, NumberedInOrder, Authored
<1>3. CASE Commit(c)
  BY <1>3, CommitStores DEF ChatsInv, NumberedInOrder, Authored, Inserted
<1>4. CASE Others(c)
  BY <1>4, OthersLeave DEF ChatsInv, NumberedInOrder, Authored, Inserted
<1> QED
  BY <1>1, <1>2, <1>3, <1>4

(* An earlier message that commits late is the only way last_message_at goes *)
(* back, and what it goes back over is recorded.                             *)
LEMMA MovedUpKept ==
    ASSUME ChatsInv, ChatsNext
    PROVE  MovedUp'
<1>1. PICK c \in Clients : Commit(c) \/ Others(c) \/ \E m \in Ids : Insert(c, m)
  BY DEF ChatsNext, Others
<1>2. ASSUME NEW m \in Ids, Insert(c, m)
      PROVE  MovedUp'
  <2>1. Stored' = Stored /\ \A x \in Inserted : message'[x] = message[x]
    BY <1>2, InsertAdds DEF ChatsInv
  <2>2. UNCHANGED <<lastAt, overtaken>>
    BY <1>2 DEF Insert, rowOf
  <2> QED
    BY <2>1, <2>2 DEF ChatsInv, MovedUp, Stored, Inserted
<1>3. CASE Commit(c)
  <2>1. /\ Stored' = Stored \cup {request[c].id} /\ request[c].id \in Ids
        /\ \A m \in Ids : message'[m].at = message[m].at
    BY <1>3, CommitStores DEF ChatsInv, Inserted
  <2>2. lastAt' = message[request[c].id].at /\ overtaken' = overtaken \cup LaterThan(lastAt')
    BY <1>3 DEF Commit
  <2>3. \A m \in Ids : message[m].at \in Nat
    BY ChatTypesUsed, IdsAreNumbers DEF ChatsInv, Message
  <2>4. LaterThan(lastAt') = {m \in Stored : message[m].at > message[request[c].id].at}
    BY <2>2 DEF LaterThan
  <2>5. \A m \in Stored : m \in Ids
    BY DEF Stored
  <2> QED
    BY <2>1, <2>2, <2>3, <2>4, <2>5 DEF MovedUp
<1>4. CASE Others(c)
  BY <1>4, OthersLeave DEF ChatsInv, MovedUp, Stored
<1> QED
  BY <1>1, <1>2, <1>3, <1>4

(* What a step makes of the request it belongs to; the others it leaves. *)
LEMMA InsertAsks ==
    ASSUME ChatsTypeOK, NEW c \in Clients, NEW m \in Ids, Insert(c, m)
    PROVE  /\ request[c].op = "checked"
           /\ request'[c].op = "commit" /\ request'[c].id = m /\ request'[c].at = request[c].at
           /\ \A d \in Clients \ {c} : request'[d] = request[d]
<1> DEFINE sent == [request EXCEPT ![c].op = "commit"]
<1>1. request' = [sent EXCEPT ![c].id = m] /\ request[c].op = "checked"
  BY DEF Insert
<1>2. /\ sent \in [Clients -> Asking]
      /\ \A d \in Clients \ {c} : sent[d] = request[d]
      /\ sent[c].op = "commit" /\ sent[c].at = request[c].at
  BY ChatTypesUsed DEF Asking
<1> HIDE DEF sent
<1> QED
  BY <1>1, <1>2 DEF Asking

(* What the steps of sending a message do to the requests. *)
LEMMA SendingAsks ==
    ASSUME ChatsTypeOK, NEW c \in Clients
    PROVE  /\ sendMessage(c) => /\ request[c].op = "quiet" /\ request'[c].op = "checked"
                                /\ request'[c].at = request[c].at
                                /\ \A d \in Clients \ {c} : request'[d] = request[d]
           /\ Commit(c) => /\ request[c].op = "commit" /\ request'[c].op = "emit"
                           /\ request'[c].id = request[c].id /\ request'[c].at = request[c].at
                           /\ \A d \in Clients \ {c} : request'[d] = request[d]
           /\ Emit(c) => /\ request[c].op = "emit" /\ request'[c].op = "push"
                         /\ request'[c].id = request[c].id /\ request'[c].at = request[c].at
                         /\ \A d \in Clients \ {c} : request'[d] = request[d]
           /\ Push(c) => /\ request[c].op = "push" /\ request'[c].op = "quiet" /\ request'[c].at = 0
                         /\ \A d \in Clients \ {c} : request'[d] = request[d]
<1>1. request \in [Clients -> Asking]
  BY ChatTypesUsed
<1>2. ASSUME sendMessage(c)
      PROVE  /\ request[c].op = "quiet" /\ request'[c].op = "checked"
             /\ request'[c].at = request[c].at
             /\ \A d \in Clients \ {c} : request'[d] = request[d]
  BY <1>1, <1>2 DEF sendMessage, Quiet, Asking
<1>3. ASSUME Commit(c)
      PROVE  /\ request[c].op = "commit" /\ request'[c].op = "emit"
             /\ request'[c].id = request[c].id /\ request'[c].at = request[c].at
             /\ \A d \in Clients \ {c} : request'[d] = request[d]
  BY <1>1, <1>3 DEF Commit, Asking
<1>4. ASSUME Emit(c)
      PROVE  /\ request[c].op = "emit" /\ request'[c].op = "push"
             /\ request'[c].id = request[c].id /\ request'[c].at = request[c].at
             /\ \A d \in Clients \ {c} : request'[d] = request[d]
  BY <1>1, <1>4 DEF Emit, Asking
<1>5. ASSUME Push(c)
      PROVE  /\ request[c].op = "push" /\ request'[c].op = "quiet" /\ request'[c].at = 0
             /\ \A d \in Clients \ {c} : request'[d] = request[d]
  BY <1>1, <1>5 DEF Push, Quiet, Asking
<1> QED
  BY <1>2, <1>3, <1>4, <1>5

(* What the steps of reading and deleting do to the requests. *)
LEMMA ReadingAsks ==
    ASSUME ChatsTypeOK, NEW c \in Clients
    PROVE  /\ markConversationRead(c) \/ deleteConversation(c) =>
                 /\ request[c].op = "quiet" /\ request'[c].op \in {"mark", "delete"}
                 /\ request'[c].at = clock' /\ clock' = clock + 1
                 /\ \A d \in Clients \ {c} : request'[d] = request[d]
           /\ CommitRead(c) \/ CommitDelete(c) =>
                 /\ request[c].op \in {"mark", "delete"} /\ request'[c].op = "quiet"
                 /\ request'[c].at = 0 /\ clock' = clock
                 /\ \A d \in Clients \ {c} : request'[d] = request[d]
<1>1. request \in [Clients -> Asking]
  BY ChatTypesUsed
<1>2. ASSUME markConversationRead(c)
      PROVE  /\ request[c].op = "quiet" /\ request'[c].op \in {"mark", "delete"}
             /\ request'[c].at = clock' /\ clock' = clock + 1
             /\ \A d \in Clients \ {c} : request'[d] = request[d]
  <2>1. /\ request' = [request EXCEPT ![c] = [op |-> "mark", id |-> 0, at |-> clock',
                                              since |-> deletedAt[SideOf(c)]]]
        /\ request[c] = Quiet /\ clock' = clock + 1
    BY <1>2 DEF markConversationRead
  <2> QED
    BY <1>1, <2>1 DEF Quiet
<1>3. ASSUME deleteConversation(c)
      PROVE  /\ request[c].op = "quiet" /\ request'[c].op \in {"mark", "delete"}
             /\ request'[c].at = clock' /\ clock' = clock + 1
             /\ \A d \in Clients \ {c} : request'[d] = request[d]
  <2>1. /\ request' = [request EXCEPT ![c] = [Quiet EXCEPT !.op = "delete", !.at = clock']]
        /\ request[c] = Quiet /\ clock' = clock + 1
    BY <1>3 DEF deleteConversation
  <2> QED
    BY <1>1, <2>1 DEF Quiet
<1>4. ASSUME CommitRead(c) \/ CommitDelete(c)
      PROVE  /\ request[c].op \in {"mark", "delete"} /\ request'[c].op = "quiet"
             /\ request'[c].at = 0 /\ clock' = clock
             /\ \A d \in Clients \ {c} : request'[d] = request[d]
  <2>1. /\ request' = [request EXCEPT ![c] = Quiet] /\ clock' = clock
        /\ request[c].op \in {"mark", "delete"}
    BY <1>4 DEF CommitRead, CommitDelete
  <2> QED
    BY <1>1, <2>1 DEF Quiet
<1> QED
  BY <1>2, <1>3, <1>4

(* A request sends a message that was inserted. *)
LEMMA SendersKept ==
    ASSUME ChatsInv, ChatsNext
    PROVE  SendersKnow'
<1>1. PICK c \in Clients : Commit(c) \/ Others(c) \/ \E m \in Ids : Insert(c, m)
  BY DEF ChatsNext, Others
<1>2. request \in [Clients -> Asking] /\ ChatsTypeOK
  BY ChatTypesUsed DEF ChatsInv
<1>3. Inserted \subseteq Inserted'
  BY <1>1, <1>2, InsertAdds, CommitStores, OthersLeave DEF ChatsInv
<1>4. ASSUME \A d \in Clients \ {c} : request'[d] = request[d],
             request'[c].op \in {"commit", "emit", "push"} => request'[c].id \in Inserted'
      PROVE  SendersKnow'
  BY <1>3, <1>4 DEF ChatsInv, SendersKnow
<1>5. ASSUME NEW m \in Ids, Insert(c, m)
      PROVE  SendersKnow'
  <2>1. request'[c].id = m /\ \A d \in Clients \ {c} : request'[d] = request[d]
    BY <1>2, <1>5, InsertAsks
  <2>2. m \in Inserted'
    BY <1>2, <1>5, InsertAdds DEF ChatsInv
  <2> QED
    BY <1>4, <2>1, <2>2
<1>6. CASE Commit(c) \/ Emit(c)
  <2>1. request[c].id \in Inserted
    BY <1>6 DEF Commit, Emit, ChatsInv, SendersKnow
  <2>2. request'[c].id = request[c].id /\ \A d \in Clients \ {c} : request'[d] = request[d]
    BY <1>2, <1>6, SendingAsks
  <2> QED
    BY <1>3, <1>4, <2>1, <2>2
<1>7. CASE sendMessage(c)
  <2>1. request'[c].op = "checked" /\ \A d \in Clients \ {c} : request'[d] = request[d]
    BY <1>2, <1>7, SendingAsks
  <2> QED
    BY <1>4, <2>1
<1>8. CASE Push(c) \/ markConversationRead(c) \/ CommitRead(c) \/ deleteConversation(c) \/ CommitDelete(c)
  <2>1. request'[c].op \in {"quiet", "mark", "delete"} /\ \A d \in Clients \ {c} : request'[d] = request[d]
    BY <1>2, <1>8, SendingAsks, ReadingAsks
  <2> QED
    BY <1>4, <2>1
<1>9. CASE request' = request
  BY <1>3, <1>9 DEF ChatsInv, SendersKnow
<1>10. Others(c) => Emit(c) \/ sendMessage(c) \/ Push(c) \/ markConversationRead(c) \/ CommitRead(c)
                    \/ deleteConversation(c) \/ CommitDelete(c) \/ request' = request
  BY DEF Others, createConversation, restoreConversation, blockUser, unblockUser, join,
         listMessages, leave
<1> QED
  BY <1>1, <1>5, <1>6, <1>7, <1>8, <1>9, <1>10

(* Times. *)
LEMMA ClockKept ==
    ASSUME ChatsInv, ChatsNext
    PROVE  WithinClock'
<1>1. PICK c \in Clients : Commit(c) \/ Others(c) \/ \E m \in Ids : Insert(c, m)
  BY DEF ChatsNext, Others
<1>2. /\ request \in [Clients -> Asking] /\ ChatsTypeOK /\ clock \in Nat
      /\ readAt \in [Sides -> Nat] /\ deletedAt \in [Sides -> Nat]
      /\ \A d \in Clients : request[d].at \in Nat
      /\ SideOf(c) \in Sides
  BY ChatTypesUsed, IdsAreNumbers, SidesOfClients DEF ChatsInv, Asking
<1>3. /\ \A s \in Sides : readAt[s] <= clock /\ deletedAt[s] <= clock
      /\ \A d \in Clients : request[d].at <= clock
  BY DEF ChatsInv, WithinClock
<1>4. ASSUME clock' \in {clock, clock + 1}, \A d \in Clients \ {c} : request'[d] = request[d],
             request'[c].at \in {request[c].at, clock', 0}, UNCHANGED <<readAt, deletedAt>>
      PROVE  WithinClock'
  BY <1>2, <1>3, <1>4 DEF WithinClock
<1>5. ASSUME NEW m \in Ids, Insert(c, m)
      PROVE  WithinClock'
  BY <1>2, <1>4, <1>5, InsertAsks DEF Insert, marks
<1>6. CASE Commit(c) \/ Emit(c) \/ sendMessage(c)
  <2>1. request'[c].at = request[c].at /\ \A d \in Clients \ {c} : request'[d] = request[d]
    BY <1>2, <1>6, SendingAsks
  <2>2. UNCHANGED <<clock, readAt, deletedAt>>
    BY <1>6 DEF Commit, Emit, sendMessage, marks
  <2> QED
    BY <1>4, <2>1, <2>2
<1>7. CASE Push(c) \/ markConversationRead(c) \/ deleteConversation(c)
  <2>1. request'[c].at \in {0, clock'} /\ \A d \in Clients \ {c} : request'[d] = request[d]
    BY <1>2, <1>7, SendingAsks, ReadingAsks
  <2>2. clock' \in {clock, clock + 1} /\ UNCHANGED <<readAt, deletedAt>>
    BY <1>7 DEF Push, markConversationRead, deleteConversation, marks
  <2> QED
    BY <1>4, <2>1, <2>2
<1>8. CASE CommitRead(c) \/ CommitDelete(c)
  <2>1. request' = [request EXCEPT ![c] = Quiet] /\ clock' = clock
    BY <1>8 DEF CommitRead, CommitDelete
  <2>2. \A s \in Sides : readAt'[s] \in {readAt[s], request[c].at}
                         /\ deletedAt'[s] \in {deletedAt[s], request[c].at}
    BY <1>2, <1>8 DEF CommitRead, CommitDelete
  <2> QED
    BY <1>2, <1>3, <2>1, <2>2 DEF WithinClock, Quiet
<1>9. CASE restoreConversation(c)
  <2>1. \A s \in Sides : deletedAt'[s] \in {deletedAt[s], 0}
    BY <1>2, <1>9 DEF restoreConversation
  <2> QED
    BY <1>2, <1>3, <1>9, <2>1 DEF WithinClock, restoreConversation
<1>10. CASE UNCHANGED <<clock, readAt, deletedAt, request>>
  BY <1>10 DEF ChatsInv, WithinClock
<1>11. createConversation(c) \/ blockUser(c) \/ unblockUser(c) \/ join(c) \/ listMessages(c) \/ leave(c)
          => UNCHANGED <<clock, readAt, deletedAt, request>>
  BY DEF createConversation, blockUser, unblockUser, join, listMessages, leave, marks
<1> QED
  BY <1>1, <1>5, <1>6, <1>7, <1>8, <1>9, <1>10, <1>11 DEF Others

(* A thread that is open misses nothing: what commits is told to the room    *)
(* before it counts as told, and a mark that shows more has the thread       *)
(* loaded again.                                                             *)
LEMMA ThreadKept ==
    ASSUME ChatsInv, ChatsNext
    PROVE  OpenThreadIsComplete'
<1>1. PICK c \in Clients : Commit(c) \/ Others(c) \/ \E m \in Ids : Insert(c, m)
  BY DEF ChatsNext, Others
<1>2. /\ request \in [Clients -> Asking] /\ ChatsTypeOK /\ message \in [Ids -> Message]
      /\ deletedAt \in [Sides -> 0..MaxClock] /\ SideOf(c) \in Sides
      /\ \A d \in Clients : SideOf(d) \in Sides
      /\ loaded \subseteq room /\ room \subseteq Clients /\ screen \in [Clients -> SUBSET Ids]
  BY ChatTypesUsed, SidesOfClients DEF ChatsInv, ChatsTypeOK
<1>3. \A d \in loaded : \A m \in Visible(SideOf(d)) : Told(m) => m \in screen[d]
  BY DEF ChatsInv, OpenThreadIsComplete
<1>4. ASSUME \A d \in loaded' : d \in loaded /\ screen[d] \subseteq screen'[d]
                                 /\ Visible(SideOf(d))' \subseteq Visible(SideOf(d)),
             \A m \in Ids : Told(m)' => Told(m)
      PROVE  OpenThreadIsComplete'
  <2>1. \A d : \A m \in Visible(SideOf(d)) : m \in Ids
    BY DEF Visible, Stored
  <2> QED
    BY <1>3, <1>4, <2>1 DEF OpenThreadIsComplete
<1>5. ASSUME Stored' = Stored, \A m \in Stored : message'[m].at = message[m].at
      PROVE  \A s \in Sides : deletedAt'[s] = deletedAt[s] => Visible(s)' = Visible(s)
  BY <1>5 DEF Visible
<1>6. ASSUME \A d \in Clients : request'[d].op \in {"commit", "emit"} \/ request[d].op \in {"commit", "emit"}
                                  => request'[d].op \in {"commit", "emit"} /\ request'[d].id = request[d].id
      PROVE  \A m \in Ids : Told(m)' => Told(m)
  BY <1>6 DEF Told
<1>7. ASSUME NEW m \in Ids, Insert(c, m)
      PROVE  OpenThreadIsComplete'
  <2>1. Stored' = Stored /\ \A x \in Inserted : message'[x] = message[x]
    BY <1>2, <1>7, InsertAdds DEF ChatsInv
  <2>2. UNCHANGED <<deletedAt, loaded, screen>>
    BY <1>7 DEF Insert, marks, views
  <2>3. \A s \in Sides : Visible(s)' = Visible(s)
    BY <1>5, <2>1, <2>2 DEF Stored, Inserted
  <2>4. /\ request'[c].op = "commit" /\ request[c].op = "checked"
        /\ \A d \in Clients \ {c} : request'[d] = request[d]
    BY <1>2, <1>7, InsertAsks DEF Insert
  <2>5. \A x \in Ids : Told(x)' => Told(x)
    BY <2>4 DEF Told
  <2> QED
    BY <1>2, <1>4, <2>2, <2>3, <2>5
<1>8. CASE Commit(c)
  <2>1. /\ Stored' = Stored \cup {request[c].id}
        /\ \A m \in Ids : message'[m].at = message[m].at
    BY <1>2, <1>8, CommitStores DEF ChatsInv
  <2>2. UNCHANGED <<deletedAt, loaded, screen>>
    BY <1>8 DEF Commit, marks, views
  <2>3. /\ request'[c].op = "emit" /\ request'[c].id = request[c].id /\ request[c].op = "commit"
        /\ \A d \in Clients \ {c} : request'[d] = request[d]
    BY <1>2, <1>8, SendingAsks
  <2>0. PICK x : x = request[c].id
    OBVIOUS
  <2>4. ~Told(x)' /\ \A m \in Ids : Told(m)' => Told(m)
    BY <2>0, <2>3 DEF Told
  <2>5. \A s \in Sides : Visible(s)' \subseteq Visible(s) \cup {x}
    BY <2>0, <2>1, <2>2 DEF Visible, Stored
  <2>6. \A s \in Sides : Visible(s)' \subseteq Ids
    BY DEF Visible, Stored
  <2> QED
    BY <1>2, <1>3, <2>2, <2>4, <2>5, <2>6 DEF OpenThreadIsComplete
<1>9. CASE Emit(c)
  <2>1. /\ Stored' = Stored /\ UNCHANGED <<message, deletedAt, loaded>>
        /\ \A d \in Clients : screen[d] \subseteq screen'[d]
        /\ \A d \in loaded : request[c].id \in screen'[d]
    BY <1>2, <1>9, OthersLeave DEF Emit, marks, Others
  <2>2. \A s \in Sides : Visible(s)' = Visible(s)
    BY <1>5, <2>1
  <2>3. request'[c].op = "push" /\ \A d \in Clients \ {c} : request'[d] = request[d]
    BY <1>2, <1>9, SendingAsks
  <2>4. \A m \in Ids : Told(m)' => Told(m) \/ m = request[c].id
    BY <2>3 DEF Told
  <2>5. \A s \in Sides : Visible(s) \subseteq Ids
    BY DEF Visible, Stored
  <2> QED
    BY <1>2, <1>3, <2>1, <2>2, <2>4, <2>5 DEF OpenThreadIsComplete
<1>10. CASE Others(c) /\ ~Emit(c)
  <2>1. Stored' = Stored /\ \A m \in Ids : message'[m].at = message[m].at
    BY <1>2, <1>10, OthersLeave
  <2>2. \A m \in Ids : Told(m)' => Told(m)
    <3>1. CASE sendMessage(c)
      BY <1>2, <1>6, <3>1, SendingAsks
    <3>2. CASE Push(c) \/ markConversationRead(c) \/ CommitRead(c) \/ deleteConversation(c) \/ CommitDelete(c)
      <4>1. /\ request'[c].op \in {"quiet", "mark", "delete"} /\ request[c].op \notin {"commit", "emit"}
            /\ \A d \in Clients \ {c} : request'[d] = request[d]
        BY <1>2, <3>2, SendingAsks, ReadingAsks
      <4> QED
        BY <1>6, <4>1
    <3>3. CASE request' = request
      BY <1>6, <3>3
    <3> QED
      BY <1>10, <3>1, <3>2, <3>3
      DEF Others, createConversation, restoreConversation, blockUser, unblockUser, join,
          listMessages, leave
  <2>3. CASE listMessages(c)
    <3>1. /\ loaded' = loaded \cup {c} /\ screen' = [screen EXCEPT ![c] = @ \cup Visible(SideOf(c))]
          /\ UNCHANGED <<deletedAt, room>>
      BY <2>3 DEF listMessages, marks
    <3>2. \A s \in Sides : Visible(s)' = Visible(s) /\ Visible(s) \subseteq Ids
      BY <1>5, <2>1, <3>1 DEF Visible, Stored
    <3>3. \A d \in loaded : screen[d] \subseteq screen'[d]
      BY <1>2, <3>1
    <3>4. Visible(SideOf(c)) \subseteq screen'[c]
      BY <1>2, <3>1
    <3> QED
      BY <1>2, <1>3, <2>2, <3>1, <3>2, <3>3, <3>4 DEF OpenThreadIsComplete
  <2>4. CASE CommitDelete(c) \/ restoreConversation(c)
    <3>1. /\ \A s \in Sides \ {SideOf(c)} : deletedAt'[s] = deletedAt[s]
          /\ loaded' = {d \in loaded : SideOf(d) # SideOf(c)} /\ screen' = screen
      BY <1>2, <2>4 DEF CommitDelete, restoreConversation, Reloading
    <3>2. \A s \in Sides \ {SideOf(c)} : Visible(s)' = Visible(s)
      BY <1>5, <2>1, <3>1 DEF Stored
    <3>3. \A d \in loaded' : d \in loaded /\ screen[d] \subseteq screen'[d]
                             /\ Visible(SideOf(d))' \subseteq Visible(SideOf(d))
      BY <1>2, <3>1, <3>2
    <3> QED
      BY <1>4, <2>2, <3>3
  <2>5. CASE leave(c)
    <3>1. loaded' = loaded \ {c} /\ UNCHANGED deletedAt /\ \A d \in Clients \ {c} : screen'[d] = screen[d]
      BY <1>2, <2>5 DEF leave, marks
    <3>2. \A s \in Sides : Visible(s)' = Visible(s)
      BY <1>5, <2>1, <3>1 DEF Stored
    <3>3. \A d \in loaded' : d \in loaded /\ screen[d] \subseteq screen'[d]
                             /\ Visible(SideOf(d))' \subseteq Visible(SideOf(d))
      BY <1>2, <3>1, <3>2
    <3> QED
      BY <1>4, <2>2, <3>3
  <2>6. CASE UNCHANGED <<deletedAt, loaded, screen>>
    <3>1. \A s \in Sides : Visible(s)' = Visible(s)
      BY <1>5, <2>1, <2>6 DEF Stored
    <3> QED
      BY <1>2, <1>4, <2>2, <2>6, <3>1
  <2>7. \/ listMessages(c) \/ CommitDelete(c) \/ restoreConversation(c) \/ leave(c)
        \/ UNCHANGED <<deletedAt, loaded, screen>>
    BY <1>10
    DEF Others, createConversation, sendMessage, Push, markConversationRead, CommitRead,
        deleteConversation, blockUser, unblockUser, join, marks, views
  <2> QED
    BY <2>3, <2>4, <2>5, <2>6, <2>7
<1> QED
  BY <1>1, <1>7, <1>8, <1>9, <1>10
(* What nobody has asked about stays newer than the marks of its reader.     *)
LEMMA StillUnreadKept ==
    ASSUME ChatsInv, ChatsNext
    PROVE  StillUnread'
<1>1. PICK c \in Clients : Commit(c) \/ Others(c) \/ \E m \in Ids : Insert(c, m)
  BY DEF ChatsNext, Others
<1>2. /\ ChatsTypeOK /\ message \in [Ids -> Message] /\ clock \in Nat
      /\ \A m \in Ids : message[m].at \in Nat
      /\ readAt \in [Sides -> Nat] /\ deletedAt \in [Sides -> Nat] /\ SideOf(c) \in Sides
      /\ \A s \in Sides : readAt[s] <= clock /\ deletedAt[s] <= clock
      /\ Inserted \subseteq Ids
  BY ChatTypesUsed, SidesOfClients, IdsAreNumbers DEF ChatsInv, WithinClock, Inserted, Message
<1>3. \A m \in untouched :
         /\ m \in Inserted /\ SentBy(m) \in Sides /\ OtherSide(SentBy(m)) \in Sides
         /\ OtherSide(SentBy(m)) # SentBy(m) /\ ~ReaderBusy(OtherSide(SentBy(m)))
         /\ message[m].at > readAt[OtherSide(SentBy(m))]
         /\ message[m].at > deletedAt[OtherSide(SentBy(m))]
  <2>1. \A m \in Inserted : SentBy(m) \in Sides
    BY SidesOfClients DEF ChatsInv, Authored, SentBy
  <2> QED
    BY <2>1, SidesOfClients DEF ChatsInv, StillUnread, Fresh
<1>4. ASSUME Inserted \subseteq Inserted',
             \A m \in Inserted : message'[m].by = message[m].by /\ message'[m].at = message[m].at,
             untouched' \subseteq untouched,
             \A m \in untouched', s \in Sides :
                s = OtherSide(SentBy(m)) => /\ ~ReaderBusy(s)'
                                            /\ message[m].at > readAt'[s]
                                            /\ message[m].at > deletedAt'[s]
      PROVE  StillUnread'
  <2> SUFFICES ASSUME NEW m \in untouched' PROVE Fresh(m)'
    BY DEF StillUnread
  <2>1. m \in untouched /\ m \in Inserted
    BY <1>3, <1>4
  <2>2. PICK s \in Sides : s = OtherSide(SentBy(m))
    BY <1>3, <2>1
  <2>3. SentBy(m)' = SentBy(m)
    BY <1>4, <2>1 DEF SentBy
  <2>4. OtherSide(SentBy(m))' = s
    BY <2>2, <2>3 DEF OtherSide
  <2>5. /\ m \in Inserted' /\ ~ReaderBusy(s)'
        /\ message'[m].at > readAt'[s] /\ message'[m].at > deletedAt'[s]
    BY <1>4, <2>1, <2>2
  <2> QED
    BY <2>4, <2>5 DEF Fresh
<1>5. ASSUME \A d \in Clients : request'[d].op \in {"mark", "delete"} => request[d].op \in {"mark", "delete"}
      PROVE  \A s \in Sides : ReaderBusy(s)' => ReaderBusy(s)
  BY <1>5 DEF ReaderBusy
<1>6. ASSUME NEW m \in Ids, Insert(c, m)
      PROVE  StillUnread'
  <2>1. /\ m \in Inserted' /\ Inserted \subseteq Inserted' /\ m \notin Inserted
        /\ message'[m] = [by |-> c, at |-> clock + 1, status |-> "sending"]
        /\ \A x \in Inserted : message'[x] = message[x]
    BY <1>2, <1>6, InsertAdds DEF ChatsInv
  <2>2. UNCHANGED <<readAt, deletedAt>>
    BY <1>6 DEF Insert, marks
  <2>3. \A s \in Sides : ReaderBusy(s)' => ReaderBusy(s)
    BY <1>2, <1>5, <1>6, InsertAsks
  <2>4. \A x \in untouched : /\ x \in Inserted' /\ SentBy(x)' = SentBy(x)
                             /\ message'[x].at = message[x].at
    BY <1>3, <2>1 DEF SentBy
  <2>5. \A x \in untouched : OtherSide(SentBy(x))' = OtherSide(SentBy(x))
    BY <2>4 DEF OtherSide
  <2>6. ASSUME NEW x \in untouched PROVE Fresh(x)'
    <3>1. PICK s \in Sides : s = OtherSide(SentBy(x))
      BY <1>3
    <3>2. s = OtherSide(SentBy(x))' /\ ~ReaderBusy(s)
      BY <1>3, <2>5, <3>1
    <3>3. ~ReaderBusy(s)'
      BY <2>3, <3>2
    <3> QED
      BY <1>3, <2>2, <2>4, <3>1, <3>2, <3>3 DEF Fresh
  <2>7. PICK s \in Sides : s = OtherSide(SideOf(c))
    BY <1>2, SidesOfClients
  <2>8. s = OtherSide(SentBy(m))'
    BY <2>1, <2>7 DEF SentBy, OtherSide, SideOf
  <2>9. message'[m].at > readAt'[s] /\ message'[m].at > deletedAt'[s]
    BY <1>2, <2>1, <2>2
  <2>10. ~ReaderBusy(s) => ~ReaderBusy(s)'
    BY <2>3
  <2>11. untouched' = IF ReaderBusy(s) THEN untouched ELSE untouched \cup {m}
    BY <1>6, <2>7 DEF Insert
  <2>12. CASE ReaderBusy(s)
    BY <2>6, <2>11, <2>12 DEF StillUnread
  <2>13. CASE ~ReaderBusy(s)
    <3>1. untouched' = untouched \cup {m}
      BY <2>11, <2>13
    <3>2. Fresh(m)'
      BY <2>1, <2>8, <2>9, <2>10, <2>13 DEF Fresh
    <3> QED
      BY <2>6, <3>1, <3>2 DEF StillUnread
  <2> QED
    BY <2>12, <2>13
<1>7. Inserted \subseteq Ids
  BY DEF Inserted
<1>8. Commit(c) \/ Others(c) =>
         /\ Inserted \subseteq Inserted'
         /\ \A m \in Inserted : message'[m].by = message[m].by /\ message'[m].at = message[m].at
  BY <1>2, <1>7, CommitStores, OthersLeave DEF ChatsInv
<1>9. CASE Commit(c) \/ Emit(c) \/ sendMessage(c) \/ Push(c)
  <2>1. UNCHANGED <<untouched, readAt, deletedAt>>
    BY <1>9 DEF Commit, Emit, sendMessage, Push, marks
  <2>2. \A s \in Sides : ReaderBusy(s)' => ReaderBusy(s)
    BY <1>2, <1>5, <1>9, SendingAsks
  <2> QED
    BY <1>3, <1>4, <1>8, <1>9, <2>1, <2>2 DEF Others
<1>10. CASE markConversationRead(c) \/ deleteConversation(c)
  <2>1. untouched' = untouched \ LookedAt(SideOf(c)) /\ UNCHANGED <<readAt, deletedAt>>
    BY <1>10 DEF markConversationRead, deleteConversation, marks
  <2>2. \A m \in untouched' : m \in untouched /\ SentBy(m) = SideOf(c)
    BY <1>2, <1>3, <2>1 DEF LookedAt, Inserted
  <2>3. \A s \in Sides : s # SideOf(c) /\ ReaderBusy(s)' => ReaderBusy(s)
    BY <1>2, <1>10, ReadingAsks DEF ReaderBusy
  <2>4. \A m \in untouched' : OtherSide(SentBy(m)) # SideOf(c)
    BY <1>3, <2>2
  <2> QED
    BY <1>3, <1>4, <1>8, <1>10, <2>1, <2>2, <2>3, <2>4 DEF Others
<1>11. CASE CommitRead(c) \/ CommitDelete(c)
  <2>1. request[c].op \in {"mark", "delete"} /\ \A s \in Sides : ReaderBusy(s)' => ReaderBusy(s)
    BY <1>2, <1>5, <1>11, ReadingAsks
  <2>2. \A m \in untouched : OtherSide(SentBy(m)) # SideOf(c)
    BY <1>3, <2>1 DEF ReaderBusy
  <2>3. untouched' = untouched
    BY <1>11 DEF CommitRead, CommitDelete
  <2>4. \A s \in Sides : s # SideOf(c) => readAt'[s] = readAt[s] /\ deletedAt'[s] = deletedAt[s]
    BY <1>2, <1>11 DEF CommitRead, CommitDelete
  <2> QED
    BY <1>3, <1>4, <1>8, <1>11, <2>1, <2>2, <2>3, <2>4 DEF Others
<1>12. CASE restoreConversation(c)
  <2>1. UNCHANGED <<untouched, readAt, request>>
    BY <1>12 DEF restoreConversation
  <2>2. \A s \in Sides : deletedAt'[s] \in {deletedAt[s], 0}
    BY <1>2, <1>12 DEF restoreConversation
  <2>3. \A s \in Sides : ReaderBusy(s)' => ReaderBusy(s)
    BY <1>5, <2>1
  <2>4. \A m \in untouched : message[m].at > 0
    BY <1>2, <1>3
  <2> QED
    BY <1>3, <1>4, <1>8, <1>12, <2>1, <2>2, <2>3, <2>4 DEF Others
<1>13. CASE Others(c) /\ UNCHANGED <<untouched, readAt, deletedAt, request>>
  <2>1. \A s \in Sides : ReaderBusy(s)' => ReaderBusy(s)
    BY <1>5, <1>13
  <2> QED
    BY <1>3, <1>4, <1>8, <1>13, <2>1
<1>14. createConversation(c) \/ blockUser(c) \/ unblockUser(c) \/ join(c) \/ listMessages(c) \/ leave(c)
          => UNCHANGED <<untouched, readAt, deletedAt, request>>
  BY DEF createConversation, blockUser, unblockUser, join, listMessages, leave, marks
<1> QED
  BY <1>1, <1>6, <1>9, <1>10, <1>11, <1>12, <1>13, <1>14 DEF Others

(* The conversation's part of the invariant is inductive. *)
LEMMA ChatsStep == ChatsInv /\ ChatsNext => ChatsInv'
<1> SUFFICES ASSUME ChatsInv, ChatsNext PROVE ChatsInv'
  OBVIOUS
<1>1. ChatsTypeOK'
  BY ChatTypesKept DEF ChatsInv
<1>2. NumberedInOrder' /\ Authored' /\ SendersKnow' /\ WithinClock' /\ MovedUp'
      /\ OpenThreadIsComplete' /\ StillUnread'
  BY NumberingKept, SendersKept, ClockKept, MovedUpKept, ThreadKept, StillUnreadKept
<1> QED
  BY <1>1, <1>2 DEF ChatsInv

(* A step of another part keeps the invariant. *)
LEMMA ChatsRest == ChatsInv /\ UNCHANGED chatVars => ChatsInv'
<1> SUFFICES ASSUME ChatsInv, UNCHANGED chatVars PROVE ChatsInv'
  OBVIOUS
<1> USE DEF chatVars, ChatsInv
<1>1. ChatsTypeOK'
  BY DEF ChatsTypeOK
<1>2. Inserted' = Inserted /\ Stored' = Stored
      /\ \A s \in Sides : Visible(s)' = Visible(s)
  BY DEF Inserted, Stored, Visible
<1>3. NumberedInOrder' /\ Authored' /\ SendersKnow' /\ WithinClock' /\ MovedUp'
  BY <1>2 DEF NumberedInOrder, Authored, SendersKnow, WithinClock, MovedUp
<1>4. OpenThreadIsComplete'
  BY DEF OpenThreadIsComplete, Visible, Stored, Told
<1>5. StillUnread'
  BY DEF StillUnread, Fresh, Inserted, SentBy, OtherSide, ReaderBusy
<1> QED
  BY <1>1, <1>3, <1>4, <1>5

(* What the invariant says of the inbox.                                     *)
LEMMA ChatsPromise == ChatsInv => UnreadIsListed /\ UnreadUntilLookedAt
<1> SUFFICES ASSUME ChatsInv PROVE UnreadIsListed /\ UnreadUntilLookedAt
  OBVIOUS
<1>1. /\ \A m \in Ids : message[m].at \in Nat
      /\ deletedAt \in [Sides -> Nat] /\ lastAt \in Nat
      /\ Stored \subseteq Ids
  BY ChatTypesUsed, IdsAreNumbers DEF ChatsInv, Message, Stored
<1>2. UnreadIsListed
  <2> SUFFICES ASSUME NEW s \in Sides, NEW m \in Unread(s) \ overtaken
               PROVE  Listed(s)
    BY DEF UnreadIsListed
  <2>1. m \in Stored \ overtaken /\ message[m].at > deletedAt[s]
    BY DEF Unread, Visible
  <2>2. message[m].at <= lastAt
    BY <2>1 DEF ChatsInv, MovedUp
  <2> QED
    BY <1>1, <2>1, <2>2 DEF Listed
<1>3. UnreadUntilLookedAt
  <2> SUFFICES ASSUME NEW m \in untouched \cap Stored
               PROVE  m \in Unread(OtherSide(SentBy(m)))
    BY DEF UnreadUntilLookedAt
  <2>1. /\ message[m].at > readAt[OtherSide(SentBy(m))]
        /\ message[m].at > deletedAt[OtherSide(SentBy(m))]
        /\ m \in Inserted
    BY DEF ChatsInv, StillUnread, Fresh
  <2>2. SentBy(m) # OtherSide(SentBy(m))
    BY <2>1, SidesOfClients DEF ChatsInv, Authored, SentBy
  <2> QED
    BY <2>1, <2>2 DEF Unread, Visible
<1> QED
  BY <1>2, <1>3

-----------------------------------------------------------------------------
(* Quotes.  Between the price and the answer nobody is at work on the       *)
(* request who could replace the price or make the words editable again.    *)

HandlersKnow ==
    \A d \in Devices :
       /\ handler[d].op # "idle" => handler[d].id \in Quotes
       /\ handler[d].op \in {"open", "quote"} => d \in ExpertDevices
       /\ handler[d].op = "quote" => handler[d].price \in Prices

NotAsked(q) == \A d \in Devices : handler[d].op \in {"open", "quote"} => handler[d].id # q

OneExpert(q) ==
    \A d, e \in ExpertDevices : handler[d].id = q /\ handler[e].id = q => d = e

PricedIsClosed(q) ==
    quote[q].amount > 0 => quote[q].status \in {"quoted"} \cup Resolved /\ NotAsked(q)

QuotedHasPrice(q) == quote[q].status = "quoted" => quote[q].amount > 0

AcceptedAsSeen(q) ==
    quote[q].status = "accepted" => quote[q].agreed = quote[q].amount /\ quote[q].amount > 0

AcceptsAsSeen(q) ==
    \A d \in Devices : handler[d].op = "accept" /\ handler[d].id = q =>
       handler[d].price = quote[q].amount /\ quote[q].amount > 0

Sound(q) == /\ OneExpert(q) /\ PricedIsClosed(q) /\ QuotedHasPrice(q)
            /\ AcceptedAsSeen(q) /\ AcceptsAsSeen(q)

QuotesInv == QuotesTypeOK /\ HandlersKnow /\ \A q \in Quotes \ crossed : Sound(q)

Request == [status : Statuses, words : 0..MaxEdits, files : Nat,
            amount : {0} \cup Prices, agreed : {0} \cup Prices]

Handled == [op : {"idle", "open", "quote", "reject", "accept", "cancel", "attach"},
             id : Quotes \cup {NoQuote}, price : {0} \cup Prices]

(* A quote costs something. *)
LEMMA PricesArePositive == \A p \in Prices : p \in Nat /\ p > 0
BY QuotesAssumption

(* No quote has an id, a price or a device yet. *)
LEMMA QuotesStart == QuotesInit => QuotesInv
<1> SUFFICES ASSUME QuotesInit PROVE QuotesInv
  OBVIOUS
<1>1. NoRequest \in Request /\ Idle \in Handled
  BY QuotesAssumption DEF NoRequest, Idle, Request, Handled, Statuses
<1>2. QuotesTypeOK
  BY <1>1 DEF QuotesInit, QuotesTypeOK, Request, Handled
<1>3. \A d \in Devices : handler[d] = Idle
  BY DEF QuotesInit
<1>4. \A q \in Quotes : Sound(q)
  BY <1>3, QuotesAssumption
  DEF QuotesInit, Sound, OneExpert, PricedIsClosed, QuotedHasPrice, AcceptedAsSeen,
      AcceptsAsSeen, NoRequest, Idle, Devices
<1> QED
  BY <1>2, <1>3, <1>4 DEF QuotesInv, HandlersKnow, Idle

(* A step of another part keeps the quotes' invariant. *)
LEMMA QuotesRest == QuotesInv /\ UNCHANGED quoteVars => QuotesInv'
BY DEF QuotesInv, quoteVars, QuotesTypeOK, HandlersKnow, Sound, OneExpert, PricedIsClosed,
       QuotedHasPrice, AcceptedAsSeen, AcceptsAsSeen, NotAsked

(* A request begins: the row is as it was read, and another request of the  *)
(* expert's on it is on record in crossed.                                  *)
LEMMA QuotesBegin ==
    ASSUME QuotesInv, NEW d \in Devices, NEW q \in Quotes,
           NEW op \in {"open", "quote", "reject", "accept", "cancel"},
           NEW price \in {0} \cup Prices, begin(d, q, op, price),
           op \in {"open", "quote"} => d \in ExpertDevices /\ quote[q].status \in Quotable,
           op = "quote" => price \in Prices,
           op = "accept" => quote[q].status = "quoted" /\ price = quote[q].amount
    PROVE  QuotesInv'
<1> DEFINE h == [op |-> op, id |-> q, price |-> price]
<1>1. /\ handler \in [Devices -> Handled] /\ quote \in [Quotes -> Request]
      /\ crossed \subseteq Quotes /\ listed \subseteq Quotes
  BY DEF QuotesInv, QuotesTypeOK, Request, Handled
<1>2. /\ handler' = [handler EXCEPT ![d] = h] /\ handler[d] = Idle
      /\ quote' = quote /\ listed' = listed
      /\ crossed' \subseteq Quotes /\ crossed \subseteq crossed'
  BY <1>1 DEF begin
<1>3. h \in Handled
  BY DEF Handled
<1>4. handler' \in [Devices -> Handled] /\ handler'[d] = h
      /\ \A e \in Devices \ {d} : handler'[e] = handler[e]
  BY <1>1, <1>2, <1>3
<1>5. QuotesTypeOK'
  BY <1>1, <1>2, <1>4 DEF QuotesTypeOK, Request, Handled
<1>6. HandlersKnow'
  BY <1>4 DEF QuotesInv, HandlersKnow
<1>7. ASSUME NEW r \in Quotes \ crossed'
      PROVE  Sound(r)'
  <2>1. Sound(r)
    BY <1>2, <1>7 DEF QuotesInv
  <2>2. d \in ExpertDevices /\ r = q => \A e \in ExpertDevices : handler[e].id # q
    BY <1>7 DEF begin, Crosses
  <2>3. OneExpert(r)'
    BY <1>4, <2>1, <2>2 DEF Sound, OneExpert, Devices
  <2>4. r = q /\ quote[q].amount > 0 => op \notin {"open", "quote"}
    BY <2>1 DEF Sound, PricedIsClosed, Quotable, Resolved
  <2>5. PricedIsClosed(r)'
    BY <1>2, <1>4, <2>1, <2>4 DEF Sound, PricedIsClosed, NotAsked
  <2>6. AcceptsAsSeen(r)'
    BY <1>2, <1>4, <2>1 DEF Sound, AcceptsAsSeen, QuotedHasPrice
  <2> QED
    BY <1>2, <2>1, <2>3, <2>5, <2>6 DEF Sound, QuotedHasPrice, AcceptedAsSeen
<1> QED
  BY <1>5, <1>6, <1>7 DEF QuotesInv

(* A request ends with its transition written: an expert's is the only one  *)
(* of the expert's on the row.                                              *)
LEMMA QuotesRecord ==
    ASSUME QuotesInv, NEW d \in Devices, recordQuoteTransition(d)
    PROVE  QuotesInv'
<1> DEFINE h == handler[d]
           q == h.id
           new == Answered(h)
<1>1. /\ handler \in [Devices -> Handled] /\ quote \in [Quotes -> Request]
      /\ crossed \subseteq Quotes /\ listed \subseteq Quotes
  BY DEF QuotesInv, QuotesTypeOK, Request, Handled
<1>2. /\ h.op \in {"open", "quote", "accept", "reject", "cancel"}
      /\ quote' = [quote EXCEPT ![q] = new]
      /\ handler' = [handler EXCEPT ![d] = Idle]
      /\ listed' = listed /\ crossed' = crossed
  <2>1. DOMAIN StatusAfter = {"open", "quote", "accept", "reject", "cancel"}
    BY DEF StatusAfter
  <2> QED
    BY <2>1 DEF recordQuoteTransition
<1>3. q \in Quotes /\ (h.op = "quote" => h.price \in Prices) /\ h.price \in {0} \cup Prices
  BY <1>1, <1>2 DEF QuotesInv, HandlersKnow, Handled
<1>4. /\ StatusAfter[h.op] \in Statuses
      /\ h.op = "open" <=> StatusAfter[h.op] = "expert_reviewed"
      /\ h.op = "quote" <=> StatusAfter[h.op] = "quoted"
      /\ h.op = "accept" <=> StatusAfter[h.op] = "accepted"
      /\ h.op \in {"reject", "cancel"} => StatusAfter[h.op] \in Resolved
  BY <1>2 DEF StatusAfter, Statuses, Cancellable, Editable, Resolved
<1>5. /\ new \in Request /\ new.status = StatusAfter[h.op]
      /\ new.amount = IF h.op = "quote" THEN h.price ELSE quote[q].amount
      /\ new.agreed = IF h.op = "accept" THEN h.price ELSE quote[q].agreed
  BY <1>1, <1>3, <1>4 DEF Request, Answered
<1> HIDE DEF new
<1>6. /\ quote' \in [Quotes -> Request] /\ quote'[q] = new
      /\ \A r \in Quotes \ {q} : quote'[r] = quote[r]
  BY <1>1, <1>2, <1>3, <1>5
<1>7. /\ handler' \in [Devices -> Handled] /\ handler'[d] = Idle
      /\ \A e \in Devices \ {d} : handler'[e] = handler[e]
  BY <1>1, <1>2 DEF Idle, Handled
<1>8. QuotesTypeOK'
  BY <1>1, <1>2, <1>6, <1>7 DEF QuotesTypeOK, Request, Handled
<1>9. HandlersKnow'
  BY <1>7 DEF QuotesInv, HandlersKnow, Idle
<1>10. ASSUME NEW r \in Quotes \ crossed'
       PROVE  Sound(r)'
  <2>1. Sound(r)
    BY <1>2, <1>10 DEF QuotesInv
  <2>2. OneExpert(r)'
    BY <1>7, <2>1, QuotesAssumption DEF Sound, OneExpert, Idle, Devices
  <2>3. r = q /\ h.op \in {"open", "quote"} => NotAsked(r)'
    <3>1. ASSUME r = q, h.op \in {"open", "quote"}, NEW e \in Devices,
                 handler'[e].op \in {"open", "quote"}, handler'[e].id = r
          PROVE  FALSE
      <4>1. e # d /\ handler'[e] = handler[e]
        BY <1>7, <3>1 DEF Idle
      <4>2. d \in ExpertDevices /\ e \in ExpertDevices
        BY <3>1, <4>1 DEF QuotesInv, HandlersKnow
      <4> QED
        BY <2>1, <3>1, <4>1, <4>2 DEF Sound, OneExpert
    <3> QED
      BY <3>1 DEF NotAsked
  <2>4. NotAsked(r) => NotAsked(r)'
    BY <1>7 DEF NotAsked, Idle
  <2>5. r = q /\ h.op = "accept" => h.price = quote[q].amount /\ quote[q].amount > 0
    BY <2>1 DEF Sound, AcceptsAsSeen
  <2>6. r = q /\ h.op = "open" => quote[q].amount = 0
    <3>1. r = q /\ h.op = "open" => ~NotAsked(q)
      BY DEF NotAsked
    <3>2. quote[q].amount \in Nat
      BY <1>1, <1>3, PricesArePositive DEF Request
    <3> QED
      BY <2>1, <3>1, <3>2 DEF Sound, PricedIsClosed
  <2>7. r = q => new.status \in {"expert_reviewed", "quoted"} \cup Resolved
    BY <1>2, <1>4, <1>5 DEF Resolved
  <2>8. h.op = "quote" => h.price > 0
    BY <1>3, PricesArePositive
  <2>9. PricedIsClosed(r)'
    BY <1>4, <1>5, <1>6, <2>1, <2>3, <2>4, <2>6, <2>7 DEF Sound, PricedIsClosed
  <2>10. QuotedHasPrice(r)'
    BY <1>4, <1>5, <1>6, <2>1, <2>8 DEF Sound, QuotedHasPrice
  <2>11. AcceptedAsSeen(r)'
    BY <1>4, <1>5, <1>6, <2>1, <2>5 DEF Sound, AcceptedAsSeen
  <2>12. AcceptsAsSeen(r)'
    <3>1. ASSUME NEW e \in Devices, handler'[e].op = "accept", handler'[e].id = r
          PROVE  handler'[e].price = quote'[r].amount /\ quote'[r].amount > 0
      <4>1. e # d /\ handler'[e] = handler[e]
        BY <1>7, <3>1 DEF Idle
      <4>2. handler[e].price = quote[r].amount /\ quote[r].amount > 0
        BY <2>1, <3>1, <4>1 DEF Sound, AcceptsAsSeen
      <4>3. r = q => h.op # "quote"
        BY <2>1, <4>2 DEF Sound, PricedIsClosed, NotAsked
      <4> QED
        BY <1>5, <1>6, <4>1, <4>2, <4>3
    <3> QED
      BY <3>1 DEF AcceptsAsSeen
  <2> QED
    BY <2>2, <2>9, <2>10, <2>11, <2>12 DEF Sound
<1> QED
  BY <1>8, <1>9, <1>10 DEF QuotesInv

(* The rest of what is done to a row leaves its price, and its status if it *)
(* has a price, or expires it.                                              *)
LEMMA QuotesEdit ==
    ASSUME QuotesInv, UNCHANGED crossed, listed' \subseteq Quotes,
           quote' \in [Quotes -> Request], handler' \in [Devices -> Handled],
           \A q \in Quotes : /\ quote'[q].amount = quote[q].amount
                             /\ quote'[q].agreed = quote[q].agreed
                             /\ \/ quote'[q].status = quote[q].status
                                \/ quote'[q].status = "expired"
                                \/ quote'[q].status = "pending_expert_review" /\ quote[q].status = "none",
           \A d \in Devices : \/ handler'[d] = handler[d]
                              \/ handler'[d] = Idle
                              \/ /\ handler'[d].op = "attach" /\ handler'[d].id \in Quotes
                                 /\ d \in CustomerDevices
    PROVE  QuotesInv'
<1>1. QuotesTypeOK'
  BY DEF QuotesInv, QuotesTypeOK, Request, Handled
<1>2. HandlersKnow'
  BY DEF QuotesInv, HandlersKnow, Idle
<1>3. ASSUME NEW r \in Quotes \ crossed'
      PROVE  Sound(r)'
  <2>1. Sound(r)
    BY <1>3 DEF QuotesInv
  <2>2. OneExpert(r)'
    BY <2>1, QuotesAssumption DEF Sound, OneExpert, Devices, Idle
  <2>3. NotAsked(r) => NotAsked(r)'
    BY DEF NotAsked, Idle
  <2>4. PricedIsClosed(r)'
    BY <2>1, <2>3 DEF Sound, PricedIsClosed, Resolved
  <2>5. QuotedHasPrice(r)' /\ AcceptedAsSeen(r)'
    BY <2>1 DEF Sound, QuotedHasPrice, AcceptedAsSeen
  <2>6. AcceptsAsSeen(r)'
    BY <2>1 DEF Sound, AcceptsAsSeen, Idle
  <2> QED
    BY <2>2, <2>4, <2>5, <2>6 DEF Sound
<1> QED
  BY <1>1, <1>2, <1>3 DEF QuotesInv

(* Every step of a handler or of the job keeps the invariant. *)
LEMMA QuotesStep == QuotesInv /\ QuotesNext => QuotesInv'
<1> SUFFICES ASSUME QuotesInv, QuotesNext PROVE QuotesInv'
  OBVIOUS
<1>1. /\ handler \in [Devices -> Handled] /\ quote \in [Quotes -> Request]
      /\ crossed \subseteq Quotes /\ listed \subseteq Quotes
  BY DEF QuotesInv, QuotesTypeOK, Request, Handled
<1>2. ASSUME NEW q \in Quotes, createQuote(q)
      PROVE  QuotesInv'
  <2>1. [quote[q] EXCEPT !.status = "pending_expert_review"] \in Request
    BY <1>1 DEF Request, Statuses, Cancellable, Editable, Unanswered
  <2>2. /\ quote' = [quote EXCEPT ![q] = [quote[q] EXCEPT !.status = "pending_expert_review"]]
        /\ quote[q].status = "none" /\ UNCHANGED <<handler, listed, crossed>>
    BY <1>2 DEF createQuote
  <2>3. quote' \in [Quotes -> Request]
    BY <1>1, <2>1, <2>2
  <2>4. \A r \in Quotes : /\ quote'[r].amount = quote[r].amount /\ quote'[r].agreed = quote[r].agreed
                          /\ \/ quote'[r].status = quote[r].status
                             \/ quote'[r].status = "pending_expert_review" /\ quote[r].status = "none"
    BY <1>1, <2>2 DEF Request
  <2> QED
    BY <1>1, <2>2, <2>3, <2>4, QuotesEdit
<1>3. ASSUME NEW q \in Quotes, updateQuote(q)
      PROVE  QuotesInv'
  <2>1. /\ quote' = [quote EXCEPT ![q] = [quote[q] EXCEPT !.words = quote[q].words + 1]]
        /\ quote[q].words < MaxEdits /\ UNCHANGED <<handler, listed, crossed>>
    BY <1>3 DEF updateQuote
  <2>2. [quote[q] EXCEPT !.words = quote[q].words + 1] \in Request
    BY <1>1, <2>1, QuotesAssumption DEF Request
  <2>3. quote' \in [Quotes -> Request]
    BY <1>1, <2>1, <2>2
  <2>4. \A r \in Quotes : /\ quote'[r].amount = quote[r].amount /\ quote'[r].agreed = quote[r].agreed
                          /\ quote'[r].status = quote[r].status
    BY <1>1, <2>1 DEF Request
  <2> QED
    BY <1>1, <2>1, <2>3, <2>4, QuotesEdit
<1>4. ASSUME NEW q \in Quotes, NEW d \in CustomerDevices, readForFiles(d, q)
      PROVE  QuotesInv'
  <2>1. [op |-> "attach", id |-> q, price |-> 0] \in Handled
    BY DEF Handled
  <2>2. handler' = [handler EXCEPT ![d] = [op |-> "attach", id |-> q, price |-> 0]]
        /\ UNCHANGED <<quote, listed, crossed>> /\ d \in Devices
    BY <1>4 DEF readForFiles, Devices
  <2>3. handler' \in [Devices -> Handled]
    BY <1>1, <2>1, <2>2
  <2>4. \A e \in Devices : \/ handler'[e] = handler[e]
                           \/ handler'[e].op = "attach" /\ handler'[e].id \in Quotes /\ e \in CustomerDevices
    BY <1>1, <2>2
  <2> QED
    BY <1>1, <2>2, <2>3, <2>4, QuotesEdit
<1>5. ASSUME NEW d \in Devices, addFiles(d)
      PROVE  QuotesInv'
  <2> DEFINE q == handler[d].id
  <2>1. q \in Quotes
    BY <1>5 DEF addFiles, QuotesInv, HandlersKnow
  <2>2. /\ quote' = [quote EXCEPT ![q] = [quote[q] EXCEPT !.files = quote[q].files + 1]]
        /\ handler' = [handler EXCEPT ![d] = Idle] /\ UNCHANGED <<listed, crossed>>
    BY <1>5 DEF addFiles
  <2>3. [quote[q] EXCEPT !.files = quote[q].files + 1] \in Request
    BY <1>1, <2>1 DEF Request
  <2> HIDE DEF q
  <2>4. quote' \in [Quotes -> Request]
    BY <1>1, <2>1, <2>2, <2>3
  <2>5. \A r \in Quotes : /\ quote'[r].amount = quote[r].amount /\ quote'[r].agreed = quote[r].agreed
                          /\ quote'[r].status = quote[r].status
    BY <1>1, <2>1, <2>2 DEF Request
  <2>6. handler' \in [Devices -> Handled]
        /\ \A e \in Devices : handler'[e] = handler[e] \/ handler'[e] = Idle
    BY <1>1, <2>2 DEF Idle, Handled
  <2> QED
    BY <1>1, <2>2, <2>4, <2>5, <2>6, QuotesEdit
<1>6. ASSUME NEW S \in SUBSET Quotes, listStale(S)
      PROVE  QuotesInv'
  BY <1>1, <1>6, QuotesEdit DEF listStale
<1>7. ASSUME expireListed
      PROVE  QuotesInv'
  <2>1. \A q \in Quotes : [quote[q] EXCEPT !.status = "expired"] \in Request
    BY <1>1 DEF Request, Statuses, Resolved
  <2>2. quote' = [q \in Quotes |-> IF q \in listed THEN [quote[q] EXCEPT !.status = "expired"]
                                   ELSE quote[q]]
        /\ listed' = {} /\ UNCHANGED <<handler, crossed>>
    BY <1>7 DEF expireListed
  <2>3. quote' \in [Quotes -> Request]
    BY <1>1, <2>1, <2>2
  <2>4. \A r \in Quotes : /\ quote'[r].amount = quote[r].amount /\ quote'[r].agreed = quote[r].agreed
                          /\ quote'[r].status = quote[r].status \/ quote'[r].status = "expired"
    BY <1>1, <2>2 DEF Request
  <2> QED
    BY <1>1, <2>2, <2>3, <2>4, QuotesEdit
<1>8. ASSUME NEW q \in Quotes, NEW d \in CustomerDevices, CustomerStep(d, q), ~readForFiles(d, q)
      PROVE  QuotesInv'
  <2>1. quote[q].amount \in {0} \cup Prices
    BY <1>1 DEF Request
  <2>2. \/ begin(d, q, "accept", quote[q].amount) /\ quote[q].status = "quoted"
        \/ begin(d, q, "reject", 0) \/ begin(d, q, "cancel", 0)
    BY <1>8 DEF CustomerStep, acceptQuote, rejectQuote, cancelQuote, mayBegin
  <2> QED
    BY <2>1, <2>2, QuotesBegin DEF Devices
<1>9. ASSUME NEW q \in Quotes, NEW d \in ExpertDevices, ExpertStep(d, q)
      PROVE  QuotesInv'
  <2>1. \/ begin(d, q, "open", 0) /\ quote[q].status \in Quotable
        \/ begin(d, q, "reject", 0)
        \/ \E p \in Prices : begin(d, q, "quote", p) /\ quote[q].status \in Quotable
    BY <1>9 DEF ExpertStep, getQuote, rejectQuote, submitQuotation, mayBegin, Quotable
  <2> QED
    BY <2>1, QuotesBegin DEF Devices
<1> QED
  BY <1>2, <1>3, <1>4, <1>5, <1>6, <1>7, <1>8, <1>9, QuotesRecord DEF QuotesNext, CustomerStep

-----------------------------------------------------------------------------
(* Transcripts.  The words kept are an invariant by themselves.             *)

TranscriptsInv == TranscriptsTypeOK /\ FinalWordsKept

(* No words have been spoken yet. *)
LEMMA TranscriptsStart == TranscriptsInit => TranscriptsInv
BY DEF TranscriptsInit, TranscriptsInv, TranscriptsTypeOK, FinalWordsKept

(* A step of another part keeps the transcripts' invariant. *)
LEMMA TranscriptsRest == TranscriptsInv /\ UNCHANGED transcriptVars => TranscriptsInv'
BY DEF TranscriptsInv, transcriptVars, rowVars, wordVars, TranscriptsTypeOK, FinalWordsKept

RowTypes ==
    /\ call \in {"accepted", "in_progress", "over"} /\ inRoom \in BOOLEAN
    /\ entry \in [LoginCallbacks -> {"sent", "connect", "create", "done"}]
    /\ closer \in {"off", "end", "done"}
    /\ transcript \in {"none", "starting", "active", "stopped", "failed"}
    /\ starter \in {"off", "ask", "write", "reread"}
    /\ stopper \in [StopCallers -> {"off", "find", "claim", "stop"}]
    /\ task \in {"none", "running", "ended"} /\ ended \in BOOLEAN

WordTypes ==
    /\ spoken \in [Sentences -> {0} \cup Revisions]
    /\ segment \in [Sentences -> {0} \cup Revisions]
    /\ due \subseteq Sentences \X Revisions
    /\ hook \in [WordCallbacks -> {Unoccupied} \cup Handling("insert") \cup Handling("update")]
    /\ heard \subseteq Sentences

(* The call and the recording: no step of theirs touches the words. *)
LEMMA RecordingTyped ==
    ASSUME RowTypes,
           \/ \E l \in LoginCallbacks : handleUserLogin(l) \/ connectCall(l) \/ maybeStartTranscript(l)
           \/ runStart
           \/ \E h \in StopCallers : stopTranscript(h)
           \/ endConsultation \/ leaveRoom \/ handleRoomClose \/ endByRoomClose
           \/ idleOut \/ taskEnded \/ taskFailed
    PROVE  RowTypes' /\ UNCHANGED wordVars
<1>1. ASSUME NEW l \in LoginCallbacks,
             handleUserLogin(l) \/ connectCall(l) \/ maybeStartTranscript(l)
      PROVE  RowTypes' /\ UNCHANGED wordVars
  BY <1>1 DEF RowTypes, handleUserLogin, connectCall, maybeStartTranscript
<1>2. ASSUME runStart
      PROVE  RowTypes' /\ UNCHANGED wordVars
  BY <1>2 DEF RowTypes, runStart, startAsrTask, markActive, rereadCall, StopCallers
<1>3. ASSUME NEW h \in StopCallers, stopTranscript(h)
      PROVE  RowTypes' /\ UNCHANGED wordVars
  BY <1>3 DEF RowTypes, stopTranscript, findActive, claimStop, stopAsrTask
<1>4. ASSUME endConsultation \/ leaveRoom \/ handleRoomClose \/ endByRoomClose
      PROVE  RowTypes' /\ UNCHANGED wordVars
  <2>1. CASE endConsultation
    BY <2>1 DEF RowTypes, endConsultation, StopCallers
  <2>2. CASE leaveRoom \/ endByRoomClose
    BY <2>2 DEF RowTypes, leaveRoom, endByRoomClose
  <2>3. CASE handleRoomClose
    BY <2>3 DEF RowTypes, handleRoomClose, StopCallers
  <2> QED
    BY <1>4, <2>1, <2>2, <2>3
<1>5. ASSUME idleOut \/ taskEnded \/ taskFailed
      PROVE  RowTypes' /\ UNCHANGED wordVars
  BY <1>5 DEF RowTypes, idleOut, taskEnded, taskFailed
<1> QED
  BY <1>1, <1>2, <1>3, <1>4, <1>5

(* A callback whose words are stored keeps what was final: an insert finds  *)
(* no row for a sentence that has one, and an update looks what is there.   *)
LEMMA WordsKept ==
    ASSUME WordTypes, FinalWordsKept,
           \/ \E s \in Sentences : recognise(s)
           \/ \E w \in WordCallbacks, m \in due : ingestAsrCallback(w, m)
           \/ \E w \in WordCallbacks : insertSegment(w) \/ updateSegment(w) \/ answerError(w)
    PROVE  WordTypes' /\ FinalWordsKept' /\ UNCHANGED rowVars
<1>1. FinalRevision \in Nat /\ FinalRevision # 0 /\ FinalRevision \in Revisions
  BY TranscriptsAssumption DEF Revisions
<1>2. ASSUME NEW s \in Sentences, recognise(s)
      PROVE  WordTypes' /\ FinalWordsKept' /\ UNCHANGED rowVars
  BY <1>1, <1>2 DEF WordTypes, FinalWordsKept, recognise, Revisions
<1>3. ASSUME NEW w \in WordCallbacks, NEW m \in due, ingestAsrCallback(w, m)
      PROVE  WordTypes' /\ FinalWordsKept' /\ UNCHANGED rowVars
  <2>1. [op |-> "insert", of |-> m] \in Handling("insert")
    BY DEF WordTypes, Handling
  <2> QED
    BY <1>3, <2>1 DEF WordTypes, FinalWordsKept, ingestAsrCallback
<1>4. ASSUME NEW w \in WordCallbacks, answerError(w)
      PROVE  WordTypes' /\ FinalWordsKept' /\ UNCHANGED rowVars
  BY <1>4 DEF WordTypes, FinalWordsKept, answerError
<1>5. ASSUME NEW w \in WordCallbacks, NEW m \in Sentences \X Revisions, answerOk(w, m)
      PROVE  /\ hook' \in [WordCallbacks -> {Unoccupied} \cup Handling("insert") \cup Handling("update")]
             /\ due' \subseteq Sentences \X Revisions
             /\ heard' = IF m[2] = FinalRevision THEN heard \cup {m[1]} ELSE heard
             /\ heard' \subseteq Sentences
             /\ UNCHANGED <<rowVars, spoken>>
  BY <1>5 DEF WordTypes, answerOk
<1>6. ASSUME NEW w \in WordCallbacks, insertSegment(w)
      PROVE  WordTypes' /\ FinalWordsKept' /\ UNCHANGED rowVars
  <2> DEFINE m == hook[w].of
  <2>1. m \in Sentences \X Revisions /\ hook[w] = [op |-> "insert", of |-> m]
    BY <1>6 DEF insertSegment, Handling
  <2>2. CASE segment[m[1]] = 0 /\ segment' = [segment EXCEPT ![m[1]] = m[2]] /\ answerOk(w, m)
    <3>1. m[1] \notin heard
      BY <1>1, <2>2 DEF FinalWordsKept
    <3>2. FinalWordsKept'
      BY <1>5, <2>1, <2>2, <3>1 DEF FinalWordsKept, WordTypes
    <3>3. segment' \in [Sentences -> {0} \cup Revisions]
      BY <2>1, <2>2 DEF WordTypes
    <3> QED
      BY <1>5, <2>1, <2>2, <3>2, <3>3 DEF WordTypes
  <2>3. CASE /\ hook' = [hook EXCEPT ![w].op = "update"]
             /\ UNCHANGED <<rowVars, spoken, due, segment, heard>>
    <3>1. [hook[w] EXCEPT !.op = "update"] = [op |-> "update", of |-> m]
      BY <2>1
    <3>2. [op |-> "update", of |-> m] \in Handling("update")
      BY <2>1 DEF Handling
    <3>3. hook' = [hook EXCEPT ![w] = [op |-> "update", of |-> m]]
      BY <2>3, <3>1
    <3> QED
      BY <2>3, <3>2, <3>3 DEF WordTypes, FinalWordsKept
  <2> QED
    BY <1>6, <2>2, <2>3 DEF insertSegment
<1>7. ASSUME NEW w \in WordCallbacks, updateSegment(w)
      PROVE  WordTypes' /\ FinalWordsKept' /\ UNCHANGED rowVars
  <2> DEFINE m == hook[w].of
  <2>1. m \in Sentences \X Revisions
    BY <1>7 DEF updateSegment, Handling
  <2>2. /\ segment' = IF replaceable(segment[m[1]], m[2])
                      THEN [segment EXCEPT ![m[1]] = m[2]] ELSE segment
        /\ answerOk(w, m)
    BY <1>7 DEF updateSegment
  <2> HIDE DEF m
  <2>3. segment' \in [Sentences -> {0} \cup Revisions]
    BY <2>1, <2>2 DEF WordTypes
  <2>4. \A s \in heard : segment'[s] = FinalRevision
    BY <2>1, <2>2 DEF WordTypes, FinalWordsKept, replaceable
  <2>5. m[2] = FinalRevision => segment'[m[1]] = FinalRevision
    BY <2>1, <2>2 DEF WordTypes, replaceable
  <2> QED
    BY <1>5, <2>1, <2>2, <2>3, <2>4, <2>5 DEF WordTypes, FinalWordsKept
<1> QED
  BY <1>2, <1>3, <1>4, <1>6, <1>7

(* Every step of a callback, a handler or ZEGO keeps the invariant. *)
LEMMA TranscriptsStep == TranscriptsInv /\ TranscriptsNext => TranscriptsInv'
<1> SUFFICES ASSUME TranscriptsInv, TranscriptsNext PROVE TranscriptsInv'
  OBVIOUS
<1>1. RowTypes /\ WordTypes /\ FinalWordsKept
  BY DEF TranscriptsInv, TranscriptsTypeOK, RowTypes, WordTypes
<1>2. RowTypes /\ UNCHANGED rowVars => RowTypes'
  BY DEF RowTypes, rowVars
<1>3. WordTypes /\ FinalWordsKept /\ UNCHANGED wordVars => WordTypes' /\ FinalWordsKept'
  BY DEF WordTypes, FinalWordsKept, wordVars
<1>4. ASSUME engagementRestarts
      PROVE  RowTypes' /\ WordTypes' /\ FinalWordsKept'
  BY <1>1, <1>4 DEF RowTypes, WordTypes, FinalWordsKept, engagementRestarts
<1>5. RowTypes' /\ WordTypes' /\ FinalWordsKept'
  BY <1>1, <1>2, <1>3, <1>4, RecordingTyped, WordsKept DEF TranscriptsNext
<1> QED
  BY <1>5 DEF TranscriptsInv, TranscriptsTypeOK, RowTypes, WordTypes

-----------------------------------------------------------------------------
(* Reviews: a request in progress is about a consultation.                  *)

Writer == [op : {"rest", "submit", "insert", "recount", "write"},
           id : Reviewed \cup {NoReview}, seen : SUBSET Reviewed]

ReviewsInv ==
    /\ ReviewsTypeOK
    /\ \A w \in Writers : writer[w].op # "rest" => writer[w].id \in Reviewed

(* Nobody has reviewed the expert yet. *)
LEMMA ReviewsStart == ReviewsInit => ReviewsInv
BY DEF ReviewsInit, ReviewsInv, ReviewsTypeOK, Resting

(* A step of another part keeps the reviews' invariant. *)
LEMMA ReviewsRest == ReviewsInv /\ UNCHANGED reviewVars => ReviewsInv'
BY DEF ReviewsInv, ReviewsTypeOK, reviewVars

(* Every step of a writer keeps it. *)
LEMMA ReviewsStep == ReviewsInv /\ ReviewsNext => ReviewsInv'
<1> SUFFICES ASSUME ReviewsInv, ReviewsNext PROVE ReviewsInv'
  OBVIOUS
<1>1. /\ review \in [Reviewed -> {"none", "published", "hidden"}] /\ rating \subseteq Reviewed
      /\ writer \in [Writers -> Writer]
      /\ \A w \in Writers : writer[w].op # "rest" => writer[w].id \in Reviewed
  BY DEF ReviewsInv, ReviewsTypeOK, Writer
<1>2. PICK w \in Writers :
         \/ \E c \in Reviewed : submitReview(w, c) \/ hide(w, c) \/ publish(w, c)
         \/ insertReview(w) \/ commitReview(w)
         \/ recalculateExpertRating(w) \/ writeRating(w)
  BY DEF ReviewsNext
<1>3. Resting \in Writer /\ Published \subseteq Reviewed
  BY DEF Resting, Writer, Published
<1>4. ASSUME NEW new \in Writer, writer' = [writer EXCEPT ![w] = new],
             new.op # "rest" => new.id \in Reviewed,
             review' \in [Reviewed -> {"none", "published", "hidden"}], rating' \subseteq Reviewed
      PROVE  ReviewsInv'
  BY <1>1, <1>4 DEF ReviewsInv, ReviewsTypeOK, Writer
<1>5. Resting.op = "rest"
  BY DEF Resting
<1>6. ASSUME NEW c \in Reviewed, submitReview(w, c)
      PROVE  ReviewsInv'
  BY <1>1, <1>4, <1>6 DEF submitReview, Writer
<1>7. ASSUME NEW c \in Reviewed, NEW status_ \in {"hidden", "published"}, moderate(w, c, status_)
      PROVE  ReviewsInv'
  BY <1>1, <1>4, <1>7 DEF moderate, Writer
<1>8. CASE insertReview(w)
  <2>1. writer[w].id \in Reviewed
    BY <1>1, <1>8 DEF insertReview
  <2>2. [op |-> "insert", id |-> writer[w].id, seen |-> Published \cup {writer[w].id}] \in Writer
    BY <1>3, <2>1 DEF Writer
  <2> QED
    BY <1>1, <1>3, <1>4, <1>5, <1>8, <2>1, <2>2 DEF insertReview
<1>9. CASE commitReview(w)
  BY <1>1, <1>3, <1>4, <1>5, <1>9 DEF commitReview, Writer
<1>10. CASE recalculateExpertRating(w)
  <2>1. writer[w].id \in Reviewed
    BY <1>1, <1>10 DEF recalculateExpertRating
  <2>2. writer' = [writer EXCEPT ![w] = [writer[w] EXCEPT !.op = "write", !.seen = Published]]
    BY <1>1, <1>10 DEF recalculateExpertRating
  <2>3. [writer[w] EXCEPT !.op = "write", !.seen = Published] \in Writer
        /\ [writer[w] EXCEPT !.op = "write", !.seen = Published].id = writer[w].id
    BY <1>1, <1>3 DEF Writer
  <2> QED
    BY <1>1, <1>4, <1>10, <2>1, <2>2, <2>3 DEF recalculateExpertRating
<1>11. CASE writeRating(w)
  BY <1>1, <1>3, <1>4, <1>5, <1>11 DEF writeRating, Writer
<1> QED
  BY <1>2, <1>6, <1>7, <1>8, <1>9, <1>10, <1>11 DEF hide, publish

-----------------------------------------------------------------------------
(* Sessions.  An answer carries a token that no request has carried yet, so *)
(* keeping it never takes an accepted token away; and the tokens an         *)
(* entitled device uses were revoked a moment ago at most.  The peers are   *)
(* shown the truth, or a timer that will tell them is set.                  *)

Carrying == {"refresh", "answer"}

TokensKnown ==
    /\ stored # NoToken => token[stored] # "unissued"
    /\ \A r \in Threads : thread[r].op \in Carrying =>
          thread[r].token \in Tokens /\ token[thread[r].token] # "unissued"

AnswersNew ==
    \A r \in Threads : thread[r].op = "answer" =>
       /\ stored # thread[r].token
       /\ \A q \in Threads \ {r} :
             thread[q].op \in Carrying => thread[q].token # thread[r].token

EntitledIsAccepted ==
    entitled => /\ status = "active" /\ stored # NoToken /\ Accepted(stored)
                /\ \A r \in Threads : /\ thread[r].op # "refused"
                                      /\ thread[r].op = "refresh" => Accepted(thread[r].token)
                                      /\ thread[r].op = "answer" => token[thread[r].token] = "live"

TokensHeld == TokensKnown /\ AnswersNew /\ EntitledIsAccepted

PeersKnow ==
    /\ shown => On # {} \/ \E s \in Sockets : <<"offline", s>> \in timers
    /\ ~crowded /\ On # {} /\ ~shown =>
          \E s \in Sockets : On = {s} /\ <<"online", s>> \in timers

AccountTypes ==
    /\ status \in {"active", "suspended", "deleted"} /\ switches \in 0..MaxSwitches /\ told \in BOOLEAN
    /\ portal \in {"idle", "revoke", "notify"}

Requested == [op : {"free", "refresh", "issue", "answer", "refused"}, token : Tokens \cup {NoToken}]

TokenTypes ==
    /\ token \in [Tokens -> {"unissued", "live", "recent", "dead"}]
    /\ stored \in Tokens \cup {NoToken} /\ entitled \in BOOLEAN
    /\ thread \in [Threads -> Requested]

CacheTypes ==
    /\ cached \in [Processes -> {"none", "active", "inactive"}]
    /\ looking \in [Processes -> {"none", "active", "inactive"}]

SocketTypes ==
    /\ socket \in [Sockets -> {"off", "handshake", "admitted", "on"}]
    /\ kicking \in BOOLEAN /\ shown \in BOOLEAN /\ crowded \in BOOLEAN
    /\ timers \subseteq {"online", "offline"} \X Sockets

SessionsInv ==
    /\ AccountTypes /\ TokenTypes /\ CacheTypes /\ SocketTypes
    /\ TokensHeld /\ PeersKnow

(* The parts of the types, put together again. *)
LEMMA SessionsTyped == SessionsInv => SessionsTypeOK
BY DEF SessionsInv, SessionsTypeOK, AccountTypes, TokenTypes, CacheTypes, SocketTypes, Requested

(* Nobody is signed in or online yet. *)
LEMMA SessionsStart == SessionsInit => SessionsInv
<1> SUFFICES ASSUME SessionsInit PROVE SessionsInv
  OBVIOUS
<1>1. AccountTypes /\ TokenTypes /\ CacheTypes /\ SocketTypes
  <2>1. AccountTypes
    <3>1. 0 \in 0..MaxSwitches
      BY SessionsAssumption
    <3> QED
      BY <3>1, Zenon DEF SessionsInit, AccountTypes
  <2>2. TokenTypes
    BY DEF SessionsInit, TokenTypes, Requested, Free, Doing
  <2>3. CacheTypes
    BY DEF SessionsInit, CacheTypes
  <2>4. SocketTypes
    BY DEF SessionsInit, SocketTypes
  <2> QED
    BY <2>1, <2>2, <2>3, <2>4
<1>2. TokensHeld
  BY DEF SessionsInit, TokensHeld, TokensKnown, AnswersNew, EntitledIsAccepted, Carrying, Free, Doing
<1>3. PeersKnow
  BY DEF SessionsInit, PeersKnow, On
<1> QED
  BY <1>1, <1>2, <1>3 DEF SessionsInv

(* The invariant of the tokens names the status and the tokens' variables only. *)
LEMMA TokensRest ==
    ASSUME TokenTypes, TokensHeld, UNCHANGED <<status, token, stored, entitled, thread>>
    PROVE  TokenTypes' /\ TokensHeld'
BY DEF TokenTypes, TokensHeld, TokensKnown, AnswersNew, EntitledIsAccepted, Accepted

(* A step of another part keeps the sessions' invariant. *)
LEMMA SessionsRest == SessionsInv /\ UNCHANGED sessionVars => SessionsInv'
<1> SUFFICES ASSUME SessionsInv, UNCHANGED sessionVars PROVE SessionsInv'
  OBVIOUS
<1>1. UNCHANGED <<status, switches, told, portal>> => AccountTypes'
  BY DEF SessionsInv, AccountTypes
<1>3. UNCHANGED cacheVars => CacheTypes'
  BY DEF SessionsInv, CacheTypes, cacheVars
<1>4. UNCHANGED socketVars => SocketTypes' /\ PeersKnow'
  <2>1. UNCHANGED socketVars => SocketTypes'
    BY DEF SessionsInv, SocketTypes, socketVars
  <2>2. UNCHANGED socketVars => On' = On /\ UNCHANGED <<timers, shown, crowded>>
    BY DEF On, socketVars
  <2>3. UNCHANGED socketVars => PeersKnow'
    BY <2>2 DEF SessionsInv, PeersKnow
  <2> QED
    BY <2>1, <2>3
<1>5. TokenTypes' /\ TokensHeld'
  BY TokensRest DEF SessionsInv, sessionVars
<1> QED
  BY <1>1, <1>3, <1>4, <1>5 DEF SessionsInv, sessionVars, cacheVars, socketVars

(* One request takes its next step: what it must be true of its new state c *)
(* and of the tokens for the invariant to survive.                          *)
LEMMA RequestMoves ==
    ASSUME TokenTypes, TokensHeld, status' = status,
           NEW r \in Threads, NEW c \in Requested, thread' = [thread EXCEPT ![r] = c],
           token' \in [Tokens -> {"unissued", "live", "recent", "dead"}],
           \A t \in Tokens : token[t] # "unissued" => token'[t] # "unissued",
           \A t \in Tokens : Accepted(t) => token'[t] \in {"live", "recent"},
           stored' \in Tokens \cup {NoToken}, stored' # NoToken => token'[stored'] # "unissued",
           c.op \in Carrying => c.token \in Tokens /\ token'[c.token] # "unissued",
           \A q \in Threads \ {r} : thread[q].op = "answer" =>
              /\ token[thread[q].token] = "live" => token'[thread[q].token] = "live"
              /\ stored' # thread[q].token
              /\ c.op \in Carrying => c.token # thread[q].token,
           c.op = "answer" =>
              /\ token'[c.token] = "live" /\ stored' # c.token
              /\ \A q \in Threads \ {r} : thread[q].op \in Carrying => thread[q].token # c.token,
           entitled' \in BOOLEAN,
           entitled' => /\ status = "active" /\ stored' # NoToken
                        /\ token'[stored'] \in {"live", "recent"} /\ c.op # "refused"
                        /\ c.op = "refresh" => token'[c.token] \in {"live", "recent"}
                        /\ \A q \in Threads \ {r} :
                              /\ thread[q].op # "refused"
                              /\ thread[q].op = "refresh" => Accepted(thread[q].token)
                              /\ thread[q].op = "answer" => token[thread[q].token] = "live"
    PROVE  TokenTypes' /\ TokensHeld'
<1>t. thread \in [Threads -> Requested]
  BY DEF TokenTypes
<1>1. thread' \in [Threads -> Requested]
  BY <1>t
<1>2. thread'[r] = c /\ \A q \in Threads \ {r} : thread'[q] = thread[q]
  BY <1>t
<1>3. TokenTypes'
  BY <1>1 DEF TokenTypes
<1>k. \A q \in Threads : thread[q].op \in Carrying =>
         thread[q].token \in Tokens /\ token[thread[q].token] # "unissued"
  BY DEF TokensHeld, TokensKnown
<1>4. TokensKnown'
  BY <1>2, <1>k DEF TokensKnown
<1>f. \A q, p \in Threads : q # p /\ thread[q].op = "answer" /\ thread[p].op \in Carrying
                              => thread[p].token # thread[q].token
  BY DEF TokensHeld, AnswersNew
<1>5. AnswersNew'
  BY <1>2, <1>f DEF AnswersNew
<1>6. EntitledIsAccepted'
  <2> SUFFICES ASSUME entitled' PROVE EntitledIsAccepted'
    BY DEF EntitledIsAccepted
  <2>1. \A q \in Threads : thread'[q].op # "refused"
    BY <1>2
  <2>2. \A q \in Threads : thread'[q].op = "refresh" => token'[thread'[q].token] \in {"live", "recent"}
    BY <1>2, <1>k DEF Carrying
  <2>3. \A q \in Threads : thread'[q].op = "answer" => token'[thread'[q].token] = "live"
    BY <1>2
  <2> QED
    BY <2>1, <2>2, <2>3 DEF EntitledIsAccepted, Accepted
<1> QED
  BY <1>3, <1>4, <1>5, <1>6 DEF TokensHeld

(* A request comes to rest or goes on, and the tokens and the session stay. *)
LEMMA RequestWaits ==
    ASSUME TokenTypes, TokensHeld, status' = status,
           NEW r \in Threads, NEW c \in Requested, thread' = [thread EXCEPT ![r] = c],
           UNCHANGED <<token, stored, entitled>>,
           c.op # "answer", entitled => c.op # "refused",
           c.op \in Carrying =>
              /\ c.token \in Tokens /\ token[c.token] # "unissued"
              /\ entitled => Accepted(c.token)
              /\ \A q \in Threads \ {r} : thread[q].op = "answer" => c.token # thread[q].token
    PROVE  TokenTypes' /\ TokensHeld'
<1>1. /\ token' \in [Tokens -> {"unissued", "live", "recent", "dead"}]
      /\ stored' \in Tokens \cup {NoToken} /\ entitled' \in BOOLEAN
  BY DEF TokenTypes
<1>2. stored' # NoToken => token'[stored'] # "unissued"
  BY DEF TokensHeld, TokensKnown
<1>3. \A q \in Threads \ {r} : thread[q].op = "answer" =>
         /\ token[thread[q].token] = "live" => token'[thread[q].token] = "live"
         /\ stored' # thread[q].token
         /\ c.op \in Carrying => c.token # thread[q].token
  BY DEF TokensHeld, AnswersNew
<1>4. c.op = "refresh" => c.op \in Carrying
  BY DEF Carrying
<1>5. entitled' => /\ status = "active" /\ stored' # NoToken
                   /\ token'[stored'] \in {"live", "recent"} /\ c.op # "refused"
                   /\ c.op = "refresh" => token'[c.token] \in {"live", "recent"}
                   /\ \A q \in Threads \ {r} :
                         /\ thread[q].op # "refused"
                         /\ thread[q].op = "refresh" => Accepted(thread[q].token)
                         /\ thread[q].op = "answer" => token[thread[q].token] = "live"
  BY <1>4 DEF TokensHeld, EntitledIsAccepted, Accepted
<1>6. /\ \A t \in Tokens : token[t] # "unissued" => token'[t] # "unissued"
      /\ \A t \in Tokens : Accepted(t) => token'[t] \in {"live", "recent"}
      /\ c.op \in Carrying => c.token \in Tokens /\ token'[c.token] # "unissued"
  BY DEF Accepted
<1> QED
  BY <1>1, <1>2, <1>3, <1>5, <1>6, RequestMoves

(* A request that carries no token from here on; the tokens may move. *)
LEMMA RequestLetsGo ==
    ASSUME TokenTypes, TokensHeld, status' = status,
           NEW r \in Threads, NEW c \in Requested, thread' = [thread EXCEPT ![r] = c],
           c.op \notin Carrying,
           token' \in [Tokens -> {"unissued", "live", "recent", "dead"}],
           \A t \in Tokens : token[t] # "unissued" => token'[t] # "unissued",
           \A t \in Tokens : Accepted(t) => token'[t] \in {"live", "recent"},
           stored' \in Tokens \cup {NoToken}, stored' # NoToken => token'[stored'] # "unissued",
           \A q \in Threads \ {r} : thread[q].op = "answer" =>
              /\ token[thread[q].token] = "live" => token'[thread[q].token] = "live"
              /\ stored' # thread[q].token,
           entitled' \in BOOLEAN, entitled' => c.op # "refused",
           entitled' => /\ status = "active" /\ stored' # NoToken
                        /\ token'[stored'] \in {"live", "recent"}
                        /\ \A q \in Threads \ {r} :
                              /\ thread[q].op # "refused"
                              /\ thread[q].op = "refresh" => Accepted(thread[q].token)
                              /\ thread[q].op = "answer" => token[thread[q].token] = "live"
    PROVE  TokenTypes' /\ TokensHeld'
<1>1. c.op # "answer" /\ c.op # "refresh"
  BY DEF Carrying
<1>2. \A q \in Threads \ {r} : thread[q].op = "answer" =>
         /\ token[thread[q].token] = "live" => token'[thread[q].token] = "live"
         /\ stored' # thread[q].token
         /\ c.op \in Carrying => c.token # thread[q].token
  OBVIOUS
<1>3. entitled' => /\ status = "active" /\ stored' # NoToken
                   /\ token'[stored'] \in {"live", "recent"} /\ c.op # "refused"
                   /\ c.op = "refresh" => token'[c.token] \in {"live", "recent"}
                   /\ \A q \in Threads \ {r} :
                         /\ thread[q].op # "refused"
                         /\ thread[q].op = "refresh" => Accepted(thread[q].token)
                         /\ thread[q].op = "answer" => token[thread[q].token] = "live"
  BY <1>1
<1> QED
  BY <1>1, <1>2, <1>3, RequestMoves

(* The rotation of the tokens. *)
LEMMA TokensKept ==
    ASSUME TokenTypes, TokensHeld, TokenStep, status' = status
    PROVE  TokenTypes' /\ TokensHeld'
<1>n. NoToken \notin Tokens
  BY SessionsAssumption
<1>t. /\ token \in [Tokens -> {"unissued", "live", "recent", "dead"}]
      /\ stored \in Tokens \cup {NoToken} /\ entitled \in BOOLEAN
      /\ thread \in [Threads -> Requested]
  BY DEF TokenTypes
<1>c. /\ stored # NoToken => token[stored] # "unissued"
      /\ \A r \in Threads : thread[r].op \in Carrying =>
            thread[r].token \in Tokens /\ token[thread[r].token] # "unissued"
  BY DEF TokensHeld, TokensKnown
<1>f. \A r \in Threads : thread[r].op = "answer" =>
         /\ stored # thread[r].token
         /\ \A q \in Threads \ {r} :
               thread[q].op \in Carrying => thread[q].token # thread[r].token
  BY DEF TokensHeld, AnswersNew
<1>k. entitled => /\ status = "active" /\ stored # NoToken /\ Accepted(stored)
                  /\ \A r \in Threads :
                        /\ thread[r].op # "refused"
                        /\ thread[r].op = "refresh" => Accepted(thread[r].token)
                        /\ thread[r].op = "answer" => token[thread[r].token] = "live"
  BY DEF TokensHeld, EntitledIsAccepted
<1>o. "refresh" \in Carrying /\ "answer" \in Carrying /\ "issue" \notin Carrying
      /\ "refused" \notin Carrying /\ "free" \notin Carrying
  BY DEF Carrying
<1>d. \A op \in {"free", "refresh", "issue", "answer", "refused"}, t \in Tokens \cup {NoToken} :
         Doing(op, t) \in Requested /\ Doing(op, t).op = op /\ Doing(op, t).token = t
  BY DEF Doing, Requested
<1>e. Free = Doing("free", NoToken)
  BY DEF Free
<1>1. ASSUME NEW r \in Threads, login(r) \/ loginByCode(r)
      PROVE  TokenTypes' /\ TokensHeld'
  <2>1. thread' = [thread EXCEPT ![r] = Doing("issue", NoToken)] /\ UNCHANGED <<token, stored, entitled>>
    BY <1>1 DEF login, loginByCode, Begin
  <2>2. PICK c : c = Doing("issue", NoToken)
    OBVIOUS
  <2>3. c \in Requested /\ c.op = "issue"
    BY <1>d, <2>2
  <2>4. thread' = [thread EXCEPT ![r] = c]
    BY <2>1, <2>2
  <2> QED
    BY <1>o, <2>1, <2>3, <2>4, RequestWaits
<1>2. ASSUME NEW r \in Threads, refresh(r)
      PROVE  TokenTypes' /\ TokensHeld'
  <2>1. /\ thread' = [thread EXCEPT ![r] = Doing("refresh", stored)] /\ stored \in Tokens
        /\ UNCHANGED <<token, stored, entitled>>
    BY <1>2, <1>t DEF refresh, Begin
  <2>2. PICK c : c = Doing("refresh", stored)
    OBVIOUS
  <2>3. c \in Requested /\ c.op = "refresh" /\ c.token = stored
    BY <1>d, <2>1, <2>2
  <2>4. thread' = [thread EXCEPT ![r] = c]
    BY <2>1, <2>2
  <2>5. c.token \in Tokens /\ token[c.token] # "unissued" /\ (entitled => Accepted(c.token))
    BY <1>n, <1>c, <1>k, <2>1, <2>3
  <2>6. \A q \in Threads \ {r} : thread[q].op = "answer" => c.token # thread[q].token
    BY <1>f, <2>3
  <2> QED
    BY <2>1, <2>3, <2>4, <2>5, <2>6, RequestWaits
<1>3. ASSUME NEW r \in Threads, lookupRefreshToken(r)
      PROVE  TokenTypes' /\ TokensHeld'
  <2>1. thread[r].op = "refresh" /\ Accepted(thread[r].token)
        /\ token' = Revoke(thread[r].token)
        /\ thread' = [thread EXCEPT ![r] = Doing("issue", NoToken)] /\ UNCHANGED <<stored, entitled>>
    BY <1>3 DEF lookupRefreshToken
  <2>2. PICK s \in Tokens : s = thread[r].token
    BY <1>c, <1>o, <2>1
  <2>3. token' = [token EXCEPT ![s] = "recent"]
    BY <1>t, <2>1, <2>2 DEF Revoke, Accepted
  <2>4. PICK c : c = Doing("issue", NoToken)
    OBVIOUS
  <2>5. c \in Requested /\ c.op = "issue" /\ thread' = [thread EXCEPT ![r] = c]
    BY <1>d, <2>1, <2>4
  <2>6. /\ token' \in [Tokens -> {"unissued", "live", "recent", "dead"}]
        /\ \A t \in Tokens : token[t] # "unissued" => token'[t] # "unissued"
        /\ \A t \in Tokens : Accepted(t) => token'[t] \in {"live", "recent"}
    BY <1>t, <2>3 DEF Accepted
  <2>7. \A q \in Threads \ {r} : thread[q].op = "answer" =>
           /\ token[thread[q].token] = "live" => token'[thread[q].token] = "live"
           /\ stored' # thread[q].token
    <3> SUFFICES ASSUME NEW q \in Threads \ {r}, thread[q].op = "answer"
                 PROVE  /\ token[thread[q].token] = "live" => token'[thread[q].token] = "live"
                        /\ stored' # thread[q].token
      OBVIOUS
    <3>1. thread[q].token # s /\ thread[q].token \in Tokens
      BY <1>c, <1>f, <1>o, <2>1, <2>2
    <3> QED
      BY <1>f, <1>t, <2>1, <2>3, <3>1
  <2>8. /\ stored' \in Tokens \cup {NoToken} /\ entitled' \in BOOLEAN
        /\ stored' # NoToken => token'[stored'] # "unissued"
    BY <1>t, <1>c, <2>1, <2>6
  <2>9. entitled' => /\ status = "active" /\ stored' # NoToken
                     /\ token'[stored'] \in {"live", "recent"}
                     /\ \A q \in Threads \ {r} :
                           /\ thread[q].op # "refused"
                           /\ thread[q].op = "refresh" => Accepted(thread[q].token)
                           /\ thread[q].op = "answer" => token[thread[q].token] = "live"
    BY <1>k, <1>t, <2>1, <2>6
  <2> QED
    BY <1>o, <2>5, <2>6, <2>7, <2>8, <2>9, RequestLetsGo
<1>4. ASSUME NEW r \in Threads, refreshRefused(r)
      PROVE  TokenTypes' /\ TokensHeld'
  <2>1. /\ thread[r].op = "refresh" /\ ~(Accepted(thread[r].token) /\ status = "active")
        /\ token' = IF Accepted(thread[r].token) THEN Revoke(thread[r].token) ELSE token
        /\ thread' = [thread EXCEPT ![r] = Doing("refused", NoToken)] /\ UNCHANGED <<stored, entitled>>
    BY <1>4 DEF refreshRefused
  <2>2. ~entitled
    BY <1>k, <2>1
  <2>3. PICK s \in Tokens : s = thread[r].token
    BY <1>c, <1>o, <2>1
  <2>4. token' \in {token, [token EXCEPT ![s] = "recent"]}
    <3>1. CASE Accepted(s)
      BY <1>t, <2>1, <2>3, <3>1 DEF Revoke, Accepted
    <3>2. CASE ~Accepted(s)
      BY <2>1, <2>3, <3>2
    <3> QED
      BY <3>1, <3>2
  <2>5. PICK c : c = Doing("refused", NoToken)
    OBVIOUS
  <2>6. c \in Requested /\ c.op = "refused" /\ thread' = [thread EXCEPT ![r] = c]
    BY <1>d, <2>1, <2>5
  <2>7. /\ token' \in [Tokens -> {"unissued", "live", "recent", "dead"}]
        /\ \A t \in Tokens : token[t] # "unissued" => token'[t] # "unissued"
        /\ \A t \in Tokens : Accepted(t) => token'[t] \in {"live", "recent"}
    BY <1>t, <2>4 DEF Accepted
  <2>8. \A q \in Threads \ {r} : thread[q].op = "answer" =>
           /\ token[thread[q].token] = "live" => token'[thread[q].token] = "live"
           /\ stored' # thread[q].token
    <3> SUFFICES ASSUME NEW q \in Threads \ {r}, thread[q].op = "answer"
                 PROVE  /\ token[thread[q].token] = "live" => token'[thread[q].token] = "live"
                        /\ stored' # thread[q].token
      OBVIOUS
    <3>1. thread[q].token # s /\ thread[q].token \in Tokens
      BY <1>c, <1>f, <1>o, <2>1, <2>3
    <3> QED
      BY <1>f, <1>t, <2>1, <2>4, <3>1
  <2>9. /\ stored' \in Tokens \cup {NoToken} /\ entitled' \in BOOLEAN /\ ~entitled'
        /\ stored' # NoToken => token'[stored'] # "unissued"
    BY <1>t, <1>c, <2>1, <2>2, <2>7
  <2> QED
    BY <1>o, <2>6, <2>7, <2>8, <2>9, RequestLetsGo
<1>5. ASSUME NEW r \in Threads, NEW t \in Tokens, issueTokens(r, t)
      PROVE  TokenTypes' /\ TokensHeld'
  <2>1. /\ thread[r].op = "issue" /\ token[t] = "unissued" /\ token' = [token EXCEPT ![t] = "live"]
        /\ thread' = [thread EXCEPT ![r] = Doing("answer", t)] /\ UNCHANGED <<stored, entitled>>
    BY <1>5 DEF issueTokens
  <2>2. PICK c : c = Doing("answer", t)
    OBVIOUS
  <2>3. c \in Requested /\ c.op = "answer" /\ c.token = t /\ thread' = [thread EXCEPT ![r] = c]
    BY <1>d, <2>1, <2>2
  <2>4. /\ token' \in [Tokens -> {"unissued", "live", "recent", "dead"}] /\ token'[t] = "live"
        /\ \A u \in Tokens : u # t => token'[u] = token[u]
    BY <1>t, <2>1
  <2>5. /\ \A u \in Tokens : token[u] # "unissued" => token'[u] # "unissued"
        /\ \A u \in Tokens : Accepted(u) => token'[u] \in {"live", "recent"}
    BY <2>1, <2>4 DEF Accepted
  <2>6. \A q \in Threads : thread[q].op \in Carrying => thread[q].token \in Tokens /\ thread[q].token # t
    BY <1>c, <2>1
  <2>7. stored # t
    BY <1>n, <1>c, <2>1
  <2>8. \A q \in Threads \ {r} : thread[q].op = "answer" =>
           /\ token[thread[q].token] = "live" => token'[thread[q].token] = "live"
           /\ stored' # thread[q].token
           /\ c.op \in Carrying => c.token # thread[q].token
    BY <1>f, <1>o, <2>1, <2>3, <2>4, <2>6
  <2>9. c.op = "answer" =>
           /\ token'[c.token] = "live" /\ stored' # c.token
           /\ \A q \in Threads \ {r} : thread[q].op \in Carrying => thread[q].token # c.token
    BY <2>1, <2>3, <2>4, <2>6, <2>7
  <2>10. /\ stored' \in Tokens \cup {NoToken} /\ entitled' \in BOOLEAN
         /\ stored' # NoToken => token'[stored'] # "unissued"
         /\ c.op \in Carrying => c.token \in Tokens /\ token'[c.token] # "unissued"
    BY <1>t, <1>c, <2>1, <2>3, <2>4, <2>5
  <2>11. entitled' => /\ status = "active" /\ stored' # NoToken
                      /\ token'[stored'] \in {"live", "recent"}
                      /\ \A q \in Threads \ {r} :
                            /\ thread[q].op # "refused"
                            /\ thread[q].op = "refresh" => Accepted(thread[q].token)
                            /\ thread[q].op = "answer" => token[thread[q].token] = "live"
    BY <1>k, <1>t, <2>1, <2>5
  <2> QED
    BY <2>3, <2>4, <2>5, <2>8, <2>9, <2>10, <2>11, RequestMoves
<1>6. ASSUME NEW r \in Threads, AnswerArrives(r)
      PROVE  TokenTypes' /\ TokensHeld'
  <2>1. thread' = [thread EXCEPT ![r] = Free] /\ token' = token
    BY <1>6 DEF AnswerArrives
  <2>2. PICK c : c = Free
    OBVIOUS
  <2>3. c \in Requested /\ c.op = "free" /\ thread' = [thread EXCEPT ![r] = c]
    BY <1>d, <1>e, <2>1, <2>2
  <2>4. /\ \A t \in Tokens : token[t] # "unissued" => token'[t] # "unissued"
        /\ \A t \in Tokens : Accepted(t) => token'[t] \in {"live", "recent"}
        /\ token' \in [Tokens -> {"unissued", "live", "recent", "dead"}]
    BY <1>t, <2>1 DEF Accepted
  <2>5. CASE thread[r].op = "refused"
    <3>1. stored' = NoToken /\ entitled' = entitled
      BY <1>6, <2>5 DEF AnswerArrives
    <3>2. ~entitled'
      BY <1>k, <2>5, <3>1
    <3>3. \A q \in Threads \ {r} : thread[q].op = "answer" =>
             /\ token[thread[q].token] = "live" => token'[thread[q].token] = "live"
             /\ stored' # thread[q].token
      BY <1>n, <1>c, <1>o, <2>1, <3>1
    <3> QED
      BY <1>o, <1>t, <2>3, <2>4, <3>1, <3>2, <3>3, RequestLetsGo
  <2>6. CASE thread[r].op = "answer"
    <3>1. PICK s \in Tokens : s = thread[r].token
      BY <1>c, <1>o, <2>6
    <3>2. /\ stored' = s
          /\ entitled' = (entitled \/ (/\ token[s] = "live" /\ status = "active"
                                       /\ \A q \in Threads \ {r} : thread[q] = Free))
      BY <1>6, <2>6, <3>1 DEF AnswerArrives
    <3>3. entitled' \in BOOLEAN
      BY <3>2, <1>t, Zenon
    <3>4. token'[stored'] # "unissued"
      BY <1>c, <1>o, <2>1, <2>6, <3>1, <3>2
    <3>5. \A q \in Threads \ {r} : thread[q].op = "answer" =>
             /\ token[thread[q].token] = "live" => token'[thread[q].token] = "live"
             /\ stored' # thread[q].token
      BY <1>f, <1>o, <2>1, <2>6, <3>1, <3>2
    <3>6. ASSUME entitled'
          PROVE  /\ status = "active" /\ stored' # NoToken /\ token'[stored'] \in {"live", "recent"}
                 /\ \A q \in Threads \ {r} :
                       /\ thread[q].op # "refused"
                       /\ thread[q].op = "refresh" => Accepted(thread[q].token)
                       /\ thread[q].op = "answer" => token[thread[q].token] = "live"
      <4>1. CASE entitled
        BY <1>n, <1>k, <2>1, <2>6, <3>1, <3>2, <4>1
      <4>2. CASE /\ token[s] = "live" /\ status = "active"
                 /\ \A q \in Threads \ {r} : thread[q] = Free
        <5>1. \A q \in Threads \ {r} : thread[q].op = "free"
          BY <1>d, <1>e, <4>2
        <5> QED
          BY <1>n, <2>1, <3>1, <3>2, <4>2, <5>1
      <4> QED
        BY <3>2, <3>6, <4>1, <4>2, Zenon
    <3>7. stored' \in Tokens \cup {NoToken}
      BY <3>2
    <3> QED
      BY <1>o, <2>3, <2>4, <3>3, <3>4, <3>5, <3>6, <3>7, RequestLetsGo
  <2> QED
    BY <1>6, <2>5, <2>6 DEF AnswerArrives
<1>7. ASSUME NEW r \in Threads, RequestLost(r)
      PROVE  TokenTypes' /\ TokensHeld'
  <2>1. thread' = [thread EXCEPT ![r] = Free] /\ UNCHANGED <<token, stored, entitled>>
    BY <1>7 DEF RequestLost
  <2>2. PICK c : c = Free
    OBVIOUS
  <2>3. c \in Requested /\ c.op = "free" /\ thread' = [thread EXCEPT ![r] = c]
    BY <1>d, <1>e, <2>1, <2>2
  <2> QED
    BY <1>o, <2>1, <2>3, RequestWaits
<1>8. ASSUME NEW r \in Threads, logout(r)
      PROVE  TokenTypes' /\ TokensHeld'
  <2>1. token' = [token EXCEPT ![stored] = IF @ = "live" THEN "recent" ELSE @]
        /\ stored' = NoToken /\ entitled' = FALSE /\ thread' = thread
    BY <1>8 DEF logout
  <2>2. token' \in [Tokens -> {"unissued", "live", "recent", "dead"}]
        /\ \A u \in Tokens : token[u] # "unissued" => token'[u] # "unissued"
    BY <1>t, <2>1
  <2>3. TokenTypes'
    BY <1>t, <2>1, <2>2 DEF TokenTypes
  <2>4. TokensKnown'
    BY <1>c, <2>1, <2>2 DEF TokensKnown
  <2>5. AnswersNew'
    BY <1>n, <1>c, <1>f, <1>o, <2>1 DEF AnswersNew
  <2> QED
    BY <2>1, <2>3, <2>4, <2>5 DEF TokensHeld, EntitledIsAccepted
<1>9. ASSUME NEW t \in Tokens, GraceEnds(t)
      PROVE  TokenTypes' /\ TokensHeld'
  <2>1. /\ token[t] = "recent" /\ token' = [token EXCEPT ![t] = "dead"] /\ UNCHANGED <<stored, thread>>
        /\ entitled' = (entitled /\ stored # t /\ \A r \in Threads : thread[r] # Doing("refresh", t))
    BY <1>9 DEF GraceEnds
  <2>2. /\ token' \in [Tokens -> {"unissued", "live", "recent", "dead"}]
        /\ \A u \in Tokens : token[u] # "unissued" => token'[u] # "unissued"
        /\ \A u \in Tokens : u # t => token'[u] = token[u]
    BY <1>t, <2>1
  <2>3. entitled' \in BOOLEAN
    BY <2>1, Zenon
  <2>4. TokenTypes'
    BY <1>t, <2>1, <2>2, <2>3 DEF TokenTypes
  <2>5. TokensKnown' /\ AnswersNew'
    BY <1>c, <1>f, <2>1, <2>2 DEF TokensKnown, AnswersNew
  <2>6. EntitledIsAccepted'
    <3> SUFFICES ASSUME entitled' PROVE EntitledIsAccepted'
      BY DEF EntitledIsAccepted
    <3>1. entitled /\ stored # t /\ \A r \in Threads : thread[r] # Doing("refresh", t)
      BY <2>1, Zenon
    <3>2. \A r \in Threads : thread[r].op = "refresh" => thread[r].token # t
      <4> SUFFICES ASSUME NEW r \in Threads, thread[r].op = "refresh", thread[r].token = t
                   PROVE  FALSE
        OBVIOUS
      <4>1. thread[r] \in Requested
        BY <1>t
      <4>2. thread[r] = [op |-> "refresh", token |-> t]
        BY <4>1 DEF Requested
      <4> QED
        BY <3>1, <4>2 DEF Doing
    <3>3. \A r \in Threads : thread[r].op = "answer" => thread[r].token # t
      BY <1>k, <2>1, <3>1
    <3>4. stored \in Tokens /\ Accepted(stored) /\ token'[stored] = token[stored]
      BY <1>k, <1>t, <2>2, <3>1
    <3>5. \A r \in Threads : thread[r].op \in Carrying /\ thread[r].token # t =>
             token'[thread[r].token] = token[thread[r].token]
      BY <1>c, <2>2
    <3>6. \A r \in Threads : /\ thread[r].op # "refused"
                             /\ thread[r].op = "refresh" => token'[thread[r].token] \in {"live", "recent"}
                             /\ thread[r].op = "answer" => token'[thread[r].token] = "live"
      BY <1>k, <1>o, <3>1, <3>2, <3>3, <3>5 DEF Accepted
    <3>7. token'[stored] \in {"live", "recent"}
      BY <3>4 DEF Accepted
    <3> QED
      BY <1>k, <2>1, <3>1, <3>6, <3>7 DEF EntitledIsAccepted, Accepted
  <2> QED
    BY <2>4, <2>5, <2>6 DEF TokensHeld
<1>10. ASSUME resetPassword
       PROVE  TokenTypes' /\ TokensHeld'
  <2>1. token' = AllRevoked /\ entitled' = FALSE /\ UNCHANGED <<stored, thread>>
    BY <1>10 DEF resetPassword
  <2>2. token' \in [Tokens -> {"unissued", "live", "recent", "dead"}]
        /\ \A u \in Tokens : token[u] # "unissued" => token'[u] # "unissued"
    BY <1>t, <2>1 DEF AllRevoked
  <2> QED
    BY <1>t, <1>c, <1>f, <2>1, <2>2
    DEF TokenTypes, TokensHeld, TokensKnown, AnswersNew, EntitledIsAccepted
<1> QED
  BY <1>1, <1>2, <1>3, <1>4, <1>5, <1>6, <1>7, <1>8, <1>9, <1>10 DEF TokenStep

(* The portal and the owner change the status, and with it the session ends. *)
LEMMA AccountSwitches ==
    ASSUME AccountTypes, TokenTypes, TokensHeld, AdminStep \/ PortalStep
    PROVE  /\ AccountTypes' /\ TokenTypes' /\ TokensHeld'
           /\ UNCHANGED <<cacheVars, socket, timers, shown, crowded>>
           /\ kicking' \in {kicking, TRUE}
<1>1. ASSUME NEW s \in {"active", "suspended", "deleted"}, NEW tells \in BOOLEAN, Switch(s, tells)
      PROVE  /\ status' \in {"active", "suspended", "deleted"} /\ switches' \in 0..MaxSwitches
             /\ told' \in BOOLEAN /\ entitled' \in BOOLEAN
             /\ entitled' => entitled /\ status' = "active" /\ s = "active"
  <2>1. switches' \in 0..MaxSwitches
    BY <1>1, SessionsAssumption DEF Switch, AccountTypes
  <2>2. entitled' \in BOOLEAN /\ told' \in BOOLEAN
    BY <1>1, Zenon DEF Switch, TokenTypes
  <2>3. entitled' => entitled /\ status' = "active" /\ s = "active"
    BY <1>1, Zenon DEF Switch
  <2> QED
    BY <1>1, <2>1, <2>2, <2>3 DEF Switch
<1>2. /\ AllRevoked \in [Tokens -> {"unissued", "live", "recent", "dead"}]
      /\ \A t \in Tokens : token[t] # "unissued" => AllRevoked[t] # "unissued"
  BY DEF AllRevoked, TokenTypes
<1>3. ASSUME token' \in {token, AllRevoked}, UNCHANGED <<stored, thread>>, entitled' \in BOOLEAN,
             entitled' => entitled /\ status' = "active" /\ token' = token
      PROVE  TokenTypes' /\ TokensHeld'
  <2>1. TokenTypes'
    BY <1>2, <1>3 DEF TokenTypes
  <2>2. TokensKnown' /\ AnswersNew'
    BY <1>2, <1>3 DEF TokenTypes, TokensHeld, TokensKnown, AnswersNew
  <2>3. EntitledIsAccepted'
    BY <1>3 DEF TokensHeld, EntitledIsAccepted, Accepted
  <2> QED
    BY <2>1, <2>2, <2>3 DEF TokensHeld
<1>4. CASE suspend
  <2>1. Switch("suspended", TRUE) /\ portal' = "revoke"
        /\ UNCHANGED <<token, stored, thread, cacheVars, socketVars>>
    BY <1>4 DEF suspend
  <2> QED
    BY <1>1, <1>3, <2>1 DEF AccountTypes, socketVars
<1>5. CASE activate
  <2>1. Switch("active", FALSE) /\ UNCHANGED <<portal, token, stored, thread, cacheVars, socketVars>>
    BY <1>5 DEF activate
  <2> QED
    BY <1>1, <1>3, <2>1 DEF AccountTypes, socketVars
<1>6. CASE update
  <2>1. PICK s \in {"active", "suspended", "deleted"} : Switch(s, FALSE)
    BY <1>6 DEF update
  <2>2. UNCHANGED <<portal, token, stored, thread, cacheVars, socketVars>>
    BY <1>6 DEF update
  <2> QED
    BY <1>1, <1>3, <2>1, <2>2 DEF AccountTypes, socketVars
<1>7. CASE remove
  <2>1. Switch("deleted", TRUE) /\ token' = AllRevoked /\ portal' = "notify"
        /\ UNCHANGED <<stored, thread, cacheVars, socketVars>>
    BY <1>7 DEF remove
  <2> QED
    BY <1>1, <1>3, <2>1 DEF AccountTypes, socketVars
<1>8. CASE deleteCustomerAccount
  <2>1. Switch("deleted", FALSE) /\ UNCHANGED <<portal, token, stored, thread, cacheVars, socketVars>>
    BY <1>8 DEF deleteCustomerAccount
  <2> QED
    BY <1>1, <1>3, <2>1 DEF AccountTypes, socketVars
<1>9. CASE revokeAllUserSessions
  <2>1. token' = AllRevoked /\ portal' = "notify" /\ entitled' = FALSE
        /\ UNCHANGED <<status, switches, told, stored, thread, cacheVars, socketVars>>
    BY <1>9 DEF revokeAllUserSessions
  <2> QED
    BY <1>3, <2>1 DEF AccountTypes, socketVars
<1>10. CASE accountDisabled
  <2>1. portal' = "idle" /\ kicking' = TRUE
        /\ UNCHANGED <<status, switches, told, tokenVars, cacheVars, socket, timers, shown, crowded>>
    BY <1>10 DEF accountDisabled
  <2>2. TokenTypes' /\ TokensHeld'
    BY <2>1, TokensRest DEF tokenVars
  <2> QED
    BY <2>1, <2>2 DEF AccountTypes
<1> QED
  BY <1>4, <1>5, <1>6, <1>7, <1>8, <1>9, <1>10 DEF AdminStep, PortalStep

(* The caches. *)
LEMMA CachesTyped ==
    ASSUME CacheTypes, CacheStep
    PROVE  CacheTypes'
BY DEF CacheTypes, CacheStep, checkUserStatus, StatusCached, EntryExpires, Seen

(* The sockets.  Peers who have not been told of the first socket are told  *)
(* by its timer, unless another socket opens before.                        *)
LEMMA PeersKept ==
    ASSUME SocketTypes, PeersKnow, SocketStep
    PROVE  SocketTypes' /\ PeersKnow'
<1>p. /\ shown => On # {} \/ \E s \in Sockets : <<"offline", s>> \in timers
      /\ ~crowded /\ On # {} /\ ~shown =>
            \E s \in Sockets : On = {s} /\ <<"online", s>> \in timers
  BY DEF PeersKnow
<1>1. ASSUME NEW s \in Sockets, handshake(s) \/ Admits(s)
      PROVE  SocketTypes' /\ PeersKnow'
  <2>1. On' = On /\ UNCHANGED <<kicking, timers, shown, crowded>>
    BY <1>1 DEF handshake, Admits, On, SocketTypes
  <2>2. SocketTypes'
    BY <1>1, <2>1 DEF handshake, Admits, SocketTypes
  <2> QED
    BY <2>1, <2>2 DEF PeersKnow
<1>2. ASSUME NEW s \in Sockets, connect(s)
      PROVE  SocketTypes' /\ PeersKnow'
  <2>1. On' = On \cup {s} /\ timers' = timers \cup {<<"online", s>>} /\ UNCHANGED <<kicking, shown>>
    BY <1>2 DEF connect, On, SocketTypes
  <2>2. crowded' = ((\E q \in Sockets : <<"online", q>> \in timers) \/ (crowded /\ On # {}))
    BY <1>2 DEF connect
  <2>3. crowded' \in BOOLEAN
    BY <2>2, Zenon
  <2>4. SocketTypes'
    BY <1>2, <2>1, <2>3 DEF connect, SocketTypes
  <2>5. ASSUME ~crowded', ~shown'
        PROVE  On' = {s} /\ <<"online", s>> \in timers'
    <3>1. /\ \A q \in Sockets : <<"online", q>> \notin timers
          /\ ~crowded \/ On = {}
      BY <2>2, <2>5, Zenon
    <3>2. ~shown
      BY <2>1, <2>5
    <3>3. On = {}
      BY <1>p, <3>1, <3>2
    <3> QED
      BY <2>1, <3>3
  <2>6. On' # {}
    BY <2>1
  <2> QED
    BY <2>4, <2>5, <2>6 DEF PeersKnow
<1>3. ASSUME NEW s \in Sockets, disconnect(s)
      PROVE  SocketTypes' /\ PeersKnow'
  <2>1. /\ On' = On \ {s} /\ timers' = timers \cup {<<"offline", s>>} /\ s \in On
        /\ UNCHANGED <<kicking, shown, crowded>>
    BY <1>3 DEF disconnect, On, SocketTypes
  <2>2. SocketTypes'
    BY <1>3, <2>1 DEF disconnect, SocketTypes
  <2>3. ~crowded /\ ~shown => On' = {}
    BY <1>p, <2>1
  <2> QED
    BY <2>1, <2>2, <2>3 DEF PeersKnow
<1>4. ASSUME NEW s \in Sockets, OnlineTimer(s)
      PROVE  SocketTypes' /\ PeersKnow'
  <2>1. /\ On' = On /\ timers' = timers \ {<<"online", s>>} /\ UNCHANGED <<kicking, crowded>>
        /\ shown' = (shown \/ Cardinality(On) = 1)
    BY <1>4 DEF OnlineTimer, On
  <2>2. shown' \in BOOLEAN
    BY <2>1, Zenon DEF SocketTypes
  <2>3. SocketTypes'
    BY <1>4, <2>1, <2>2 DEF OnlineTimer, SocketTypes
  <2>4. ASSUME On # {}, ~crowded
        PROVE  shown'
    <3>1. CASE shown
      BY <2>1, <3>1, Zenon
    <3>2. CASE ~shown
      <4>1. PICK q \in Sockets : On = {q}
        BY <1>p, <2>4, <3>2
      <4>2. Cardinality(On) = 1
        BY <4>1, FS_Singleton
      <4> QED
        BY <2>1, <4>2, Zenon
    <3> QED
      BY <3>1, <3>2
  <2>5. ASSUME On = {}, shown'
        PROVE  shown
    <3>1. Cardinality(On) = 0
      BY <2>5, FS_EmptySet
    <3>2. Cardinality(On) # 1
      BY <3>1
    <3> QED
      BY <2>1, <2>5, <3>2, Zenon
  <2>6. shown' => On' # {} \/ \E q \in Sockets : <<"offline", q>> \in timers'
    BY <1>p, <2>1, <2>5
  <2>7. ~(~crowded' /\ On' # {} /\ ~shown')
    BY <2>1, <2>4
  <2> QED
    BY <2>3, <2>6, <2>7 DEF PeersKnow
<1>5. ASSUME NEW s \in Sockets, OfflineTimer(s)
      PROVE  SocketTypes' /\ PeersKnow'
  <2>1. /\ On' = On /\ timers' = timers \ {<<"offline", s>>} /\ UNCHANGED <<socket, kicking, crowded>>
        /\ shown' = (shown /\ On # {})
    BY <1>5 DEF OfflineTimer, On
  <2>2. shown' \in BOOLEAN /\ (shown' => On # {}) /\ (shown /\ On # {} => shown')
    BY <2>1, Zenon DEF SocketTypes
  <2>3. SocketTypes'
    BY <2>1, <2>2 DEF SocketTypes
  <2>4. ~crowded' /\ On' # {} /\ ~shown' =>
           \E q \in Sockets : On' = {q} /\ <<"online", q>> \in timers'
    BY <1>p, <2>1, <2>2
  <2> QED
    BY <2>1, <2>2, <2>3, <2>4 DEF PeersKnow
<1>6. ASSUME disconnectSockets
      PROVE  SocketTypes' /\ PeersKnow'
  <2>1. /\ On' = {} /\ timers' = timers \cup {<<"offline", s>> : s \in On} /\ kicking' = FALSE
        /\ UNCHANGED <<shown, crowded>>
    BY <1>6 DEF disconnectSockets, On, SocketTypes
  <2>2. SocketTypes'
    <3>1. socket' \in [Sockets -> {"off", "handshake", "admitted", "on"}]
      BY <1>6 DEF disconnectSockets, SocketTypes
    <3>2. {<<"offline", s>> : s \in On} \subseteq {"online", "offline"} \X Sockets
      BY DEF On
    <3> QED
      BY <2>1, <3>1, <3>2 DEF SocketTypes
  <2>3. On # {} => \E s \in Sockets : <<"offline", s>> \in timers'
    BY <2>1 DEF On
  <2> QED
    BY <1>p, <2>1, <2>2, <2>3 DEF PeersKnow
<1> QED
  BY <1>1, <1>2, <1>3, <1>4, <1>5, <1>6 DEF SocketStep

(* Every step of a device, a process or the portal keeps the invariant. *)
LEMMA SessionsStep == SessionsInv /\ SessionsNext => SessionsInv'
<1> SUFFICES ASSUME SessionsInv, SessionsNext PROVE SessionsInv'
  OBVIOUS
<1>1. UNCHANGED <<status, switches, told, portal>> => AccountTypes'
  BY DEF SessionsInv, AccountTypes
<1>2. UNCHANGED cacheVars => CacheTypes'
  BY DEF SessionsInv, CacheTypes, cacheVars
<1>3. UNCHANGED <<socket, timers, shown, crowded>> => PeersKnow'
  <2>1. UNCHANGED socket => On' = On
    BY DEF On
  <2> QED
    BY <2>1 DEF SessionsInv, PeersKnow
<1>4. UNCHANGED <<socket, timers, shown, crowded>> /\ kicking' \in {kicking, TRUE} => SocketTypes'
  BY DEF SessionsInv, SocketTypes
<1>5. UNCHANGED <<status, tokenVars>> => TokenTypes' /\ TokensHeld'
  BY TokensRest DEF SessionsInv, tokenVars
<1>6. CASE TokensMove
  BY <1>1, <1>2, <1>3, <1>4, <1>6, TokensKept DEF TokensMove, SessionsInv, socketVars
<1>7. CASE CachesMove
  BY <1>1, <1>3, <1>4, <1>5, <1>7, CachesTyped DEF CachesMove, SessionsInv, socketVars
<1>8. CASE SocketsMove
  BY <1>1, <1>2, <1>5, <1>8, PeersKept DEF SocketsMove, SessionsInv
<1>9. CASE PortalStep \/ AdminStep
  BY <1>2, <1>3, <1>4, <1>9, AccountSwitches DEF SessionsInv
<1> QED
  BY <1>6, <1>7, <1>8, <1>9 DEF SessionsNext
-----------------------------------------------------------------------------
(* All of it together.                                                      *)

Inv == QuotesInv /\ ReviewsInv /\ TranscriptsInv /\ ChatsInv /\ FilesInv /\ SessionsInv

(* The invariant holds at first. *)
LEMMA Starts == Init => Inv
BY QuotesStart, ReviewsStart, TranscriptsStart, ChatsStart, FilesStart, SessionsStart
DEF Init, Inv

(* Every step of every part keeps it. *)
LEMMA Steps == Inv /\ [Next]_vars => Inv'
<1> SUFFICES ASSUME Inv, [Next]_vars PROVE Inv'
  OBVIOUS
<1> USE DEF Inv
<1>1. CASE QuotesMove
  BY <1>1, QuotesStep, ReviewsRest, TranscriptsRest, ChatsRest, FilesRest, SessionsRest DEF QuotesMove
<1>2. CASE ReviewsMove
  BY <1>2, QuotesRest, ReviewsStep, TranscriptsRest, ChatsRest, FilesRest, SessionsRest DEF ReviewsMove
<1>3. CASE TranscriptsMove
  BY <1>3, QuotesRest, ReviewsRest, TranscriptsStep, ChatsRest, FilesRest, SessionsRest
  DEF TranscriptsMove
<1>4. CASE ChatsMove
  BY <1>4, QuotesRest, ReviewsRest, TranscriptsRest, ChatsStep, FilesRest, SessionsRest DEF ChatsMove
<1>5. CASE FilesMove
  BY <1>5, QuotesRest, ReviewsRest, TranscriptsRest, ChatsRest, FilesStep, SessionsRest DEF FilesMove
<1>6. CASE SessionsMove
  BY <1>6, QuotesRest, ReviewsRest, TranscriptsRest, ChatsRest, FilesRest, SessionsStep
  DEF SessionsMove
<1>7. CASE UNCHANGED vars
  BY <1>7, QuotesRest, ReviewsRest, TranscriptsRest, ChatsRest, FilesRest, SessionsRest DEF vars
<1> QED
  BY <1>1, <1>2, <1>3, <1>4, <1>5, <1>6, <1>7 DEF Next

(* The inductive invariant holds of every run. *)
THEOREM Invariance == Spec => []Inv
BY Starts, Steps, PTL DEF Spec

(* Rows, sockets and requests in progress keep the shape the schema and the *)
(* handlers give them.                                                      *)
THEOREM TypeCorrect == Spec => []TypeOK
<1>1. Inv => TypeOK
  BY SessionsTyped DEF Inv, TypeOK, QuotesInv, ReviewsInv, TranscriptsInv, ChatsInv, FilesInv
<1> QED
  BY <1>1, Invariance, PTL

(* acceptQuote accepts the price the customer was shown, whatever the       *)
(* expert and the expiry job do between its read and its write, unless the  *)
(* expert answered the request from two devices at once.                    *)
THEOREM AcceptedPrice == Spec => []AcceptedAtSeenPrice
<1>1. Inv => AcceptedAtSeenPrice
  BY DEF Inv, QuotesInv, Sound, AcceptedAsSeen, AcceptedAtSeenPrice
<1> QED
  BY <1>1, Invariance, PTL

(* updateQuote changes no words that have been given a price, unless the    *)
(* expert had the request open twice.                                       *)
THEOREM PricedWords == Spec => PricedWordsStay
<1>1. ASSUME Inv, [Next]_vars, NEW q \in Quotes \ crossed, quote[q].amount > 0
      PROVE  quote'[q].words = quote[q].words
  <2>1. /\ handler \in [Devices -> Handled] /\ quote \in [Quotes -> Request]
        /\ quote[q].status \in {"quoted"} \cup Resolved
    BY <1>1 DEF Inv, QuotesInv, QuotesTypeOK, Request, Handled, Sound, PricedIsClosed
  <2>2. CASE UNCHANGED quote
    BY <2>2
  <2>3. ASSUME NEW r \in Quotes, createQuote(r)
        PROVE  quote'[q].words = quote[q].words
    BY <2>1, <2>3 DEF createQuote, Request
  <2>4. ASSUME NEW r \in Quotes, updateQuote(r)
        PROVE  quote'[q].words = quote[q].words
    <3>1. r # q
      BY <2>1, <2>4 DEF updateQuote, Editable, Resolved, Unanswered
    <3>2. quote' = [quote EXCEPT ![r] = [quote[r] EXCEPT !.words = quote[r].words + 1]]
      BY <2>4 DEF updateQuote
    <3> QED
      BY <2>1, <2>4, <3>1, <3>2
  <2>5. ASSUME NEW d \in Devices, recordQuoteTransition(d)
        PROVE  quote'[q].words = quote[q].words
    <3>1. PICK h : h = handler[d]
      OBVIOUS
    <3>2. quote' = [quote EXCEPT ![h.id] = Answered(h)]
      BY <2>5, <3>1 DEF recordQuoteTransition
    <3>3. ASSUME h.id = q PROVE Answered(h).words = quote[q].words
      <4>1. PICK row \in Request : row = quote[q]
        BY <2>1
      <4>2. PICK s : s = StatusAfter[h.op]
        OBVIOUS
      <4>3. Answered(h) = [row EXCEPT !.status = s,
                                      !.amount = IF h.op = "quote" THEN h.price ELSE row.amount,
                                      !.agreed = IF h.op = "accept" THEN h.price ELSE row.agreed]
        BY <3>3, <4>1, <4>2 DEF Answered
      <4> QED
        BY <4>1, <4>3 DEF Request
    <3>4. CASE h.id = q
      <4>1. PICK new : new = Answered(h)
        OBVIOUS
      <4>2. quote'[q] = new
        BY <2>1, <3>2, <3>4, <4>1
      <4> QED
        BY <3>3, <3>4, <4>1, <4>2
    <3>5. CASE h.id # q
      BY <2>1, <3>2, <3>5
    <3> QED
      BY <3>4, <3>5
  <2>6. ASSUME NEW d \in Devices, addFiles(d)
        PROVE  quote'[q].words = quote[q].words
    BY <2>1, <2>6 DEF addFiles, Request
  <2>7. CASE expireListed
    BY <2>1, <2>7 DEF expireListed, Request
  <2>8. ASSUME NEW r \in Quotes, NEW d \in CustomerDevices, CustomerStep(d, r)
        PROVE  UNCHANGED quote
    BY <2>8 DEF CustomerStep, readForFiles, acceptQuote, rejectQuote, cancelQuote, begin
  <2>9. ASSUME NEW r \in Quotes, NEW d \in ExpertDevices, ExpertStep(d, r)
        PROVE  UNCHANGED quote
    BY <2>9 DEF ExpertStep, getQuote, rejectQuote, submitQuotation, begin
  <2>10. ASSUME NEW S \in SUBSET Quotes, listStale(S)
         PROVE  UNCHANGED quote
    BY <2>10 DEF listStale
  <2>11. CASE QuotesNext
    BY <2>2, <2>3, <2>4, <2>5, <2>6, <2>7, <2>8, <2>9, <2>10, <2>11 DEF QuotesNext
  <2>12. QuotesNext \/ UNCHANGED quote
    BY <1>1 DEF Next, vars, QuotesMove, ReviewsMove, TranscriptsMove, ChatsMove, FilesMove,
                SessionsMove, quoteVars
  <2> QED
    BY <2>2, <2>11, <2>12
<1>2. Inv /\ [Next]_vars =>
        [\A q \in Quotes \ crossed : quote[q].amount > 0 => quote'[q].words = quote[q].words]_vars
  BY <1>1
<1> QED
  BY <1>2, Invariance, PTL DEF Spec, PricedWordsStay

(* ingestAsrCallback keeps the words of a sentence that is final. *)
THEOREM FinalWords == Spec => []FinalWordsKept
<1>1. Inv => FinalWordsKept
  BY DEF Inv, TranscriptsInv
<1> QED
  BY <1>1, Invariance, PTL

(* A client that has a thread open shows every message the room was told of. *)
THEOREM ThreadComplete == Spec => []OpenThreadIsComplete
<1>1. Inv => OpenThreadIsComplete
  BY DEF Inv, ChatsInv
<1> QED
  BY <1>1, Invariance, PTL

(* A message that no request of its reader overlapped or followed counts as *)
(* unread (getTotalUnreadCount).                                            *)
THEOREM UnreadCounted == Spec => []UnreadUntilLookedAt
<1>1. Inv => UnreadUntilLookedAt
  BY ChatsPromise DEF Inv
<1> QED
  BY <1>1, Invariance, PTL

(* A conversation with an unread message that was not overtaken is in its  *)
(* reader's inbox.                                                          *)
THEOREM UnreadShown == Spec => []UnreadIsListed
<1>1. Inv => UnreadIsListed
  BY ChatsPromise DEF Inv
<1> QED
  BY <1>1, Invariance, PTL

(* The file an attachment's row points to is in the bucket, whether the move *)
(* out of temp/ succeeded or not, unless a request died between the delete   *)
(* and the update.                                                           *)
THEOREM FilesThere == Spec => []FileAtItsKey
<1>1. Inv => FileAtItsKey
  BY DEF Inv, FilesInv
<1> QED
  BY <1>1, Invariance, PTL

(* Refreshing never signs a device out, whatever requests overlap and        *)
(* answers are lost, unless it still uses a revoked token when its thirty    *)
(* seconds end.                                                              *)
THEOREM SessionKept == Spec => []SessionSurvives
<1>1. Inv => SessionSurvives
  BY DEF Inv, SessionsInv, TokensHeld, EntitledIsAccepted, SessionSurvives
<1> QED
  BY <1>1, Invariance, PTL

(* An account without a socket is not shown online for longer than a timer   *)
(* runs; and with no presence timer set, one with a socket is shown online,  *)
(* unless its sockets opened within half a second of each other.             *)
THEOREM PresenceTrue == Spec => []PresenceSettles
<1>1. Inv => PresenceSettles
  <2> SUFFICES ASSUME Inv PROVE PresenceSettles
    OBVIOUS
  <2>1. /\ shown => On # {} \/ \E s \in Sockets : <<"offline", s>> \in timers
        /\ ~crowded /\ On # {} /\ ~shown =>
              \E s \in Sockets : On = {s} /\ <<"online", s>> \in timers
    BY DEF Inv, SessionsInv, PeersKnow
  <2>2. shown \in BOOLEAN
    BY DEF Inv, SessionsInv, SocketTypes
  <2> QED
    BY <2>1, <2>2 DEF PresenceSettles
<1> QED
  BY <1>1, Invariance, PTL
=============================================================================
