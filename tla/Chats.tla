------------------------------- MODULE Chats --------------------------------
(***************************************************************************)
(* One conversation between a customer and an expert (messaging-service):  *)
(* its row, the messages, each side's read cursor and deletion mark, the   *)
(* blocks between the two, and the screens of the clients that have the    *)
(* thread open over a socket.                                              *)
(*                                                                         *)
(* created_at, read_at and deleted_at are compared with each other, so     *)
(* each is a reading of one clock.  A message carries the time its         *)
(* transaction began and is seen by others when it commits; a cursor or a  *)
(* mark carries the time its handler built the statement.                  *)
(***************************************************************************)
EXTENDS Naturals, FiniteSets

CONSTANTS
    CustomerClients,  \* sockets of the customer, one request at a time on each
    ExpertClients,    \* sockets of the expert
    MaxMessages,      \* bound on the messages
    MaxClock,         \* bound on the readings of the clock
    NoClient

ASSUME ChatsAssumption ==
    /\ CustomerClients \cap ExpertClients = {}
    /\ NoClient \notin CustomerClients \cup ExpertClients
    /\ MaxMessages \in Nat /\ MaxClock \in Nat

Clients  == CustomerClients \cup ExpertClients
Sides    == {"customer", "expert"}
SideOf(c) == IF c \in CustomerClients THEN "customer" ELSE "expert"
OtherSide(s) == IF s = "customer" THEN "expert" ELSE "customer"
Ids      == 1..MaxMessages

VARIABLES
    exists,     \* there is a row in conversations
    lastAt,     \* its last_message_at, 0 without a message
    message,    \* rows of messages
    readAt,     \* conversation_read_states of each side, 0 without a row
    deletedAt,  \* conversation_deletions of each side, 0 without a row
    blockedBy,  \* the sides with a user_blocks row against the other
    clock,
    request,    \* what each client's handler is doing
    room,       \* clients that joined the room of the conversation
    loaded,     \* of these, the ones that have loaded the history since
    screen,     \* the messages each client shows
    pushed,     \* messages a push notification was dispatched for
    untouched,  \* history: messages no request of the reader has overlapped
    overtaken   \* history: messages an earlier one was committed after

chatVars == <<exists, lastAt, message, readAt, deletedAt, blockedBy, clock, request, room,
              loaded, screen, pushed, untouched, overtaken>>

marks  == <<readAt, deletedAt, blockedBy>>
views  == <<room, loaded, screen, pushed>>
rowOf  == <<exists, lastAt, overtaken>>

Quiet     == [op |-> "quiet", id |-> 0, at |-> 0, since |-> 0]
NoMessage == [by |-> NoClient, at |-> 0, status |-> "none"]

ChatsTypeOK ==
    /\ exists \in BOOLEAN /\ lastAt \in 0..MaxClock
    /\ message \in [Ids -> [by : Clients \cup {NoClient}, at : 0..MaxClock,
                            status : {"none", "sending", "sent", "read"}]]
    /\ readAt \in [Sides -> 0..MaxClock] /\ deletedAt \in [Sides -> 0..MaxClock]
    /\ blockedBy \subseteq Sides
    /\ clock \in 0..MaxClock
    /\ request \in [Clients -> [op : {"quiet", "checked", "commit", "emit", "push", "mark", "delete"},
                                id : 0..MaxMessages, at : 0..MaxClock, since : 0..MaxClock]]
    /\ loaded \subseteq room /\ room \subseteq Clients
    /\ screen \in [Clients -> SUBSET Ids]
    /\ pushed \subseteq Ids /\ untouched \subseteq Ids /\ overtaken \subseteq Ids

ChatsInit ==
    /\ exists = FALSE /\ lastAt = 0
    /\ message = [m \in Ids |-> NoMessage]
    /\ readAt = [s \in Sides |-> 0] /\ deletedAt = [s \in Sides |-> 0]
    /\ blockedBy = {}
    /\ clock = 0
    /\ request = [c \in Clients |-> Quiet]
    /\ room = {} /\ loaded = {} /\ screen = [c \in Clients |-> {}]
    /\ pushed = {} /\ untouched = {} /\ overtaken = {}

Stored == {m \in Ids : message[m].status \in {"sent", "read"}}
SentBy(m) == SideOf(message[m].by)

\* listMessages: what is newer than the side's deletion mark.
Visible(s) == {m \in Stored : message[m].at > deletedAt[s]}

\* getTotalUnreadCount counts the other side's messages that are newer than both marks.
Unread(s) == {m \in Visible(s) : SentBy(m) # s /\ message[m].at > readAt[s]}

\* listConversations: the conversation is in the side's list.
Listed(s) == Stored # {} /\ (deletedAt[s] = 0 \/ lastAt > deletedAt[s])

(***************************************************************************)
(* createConversation: the row is upserted, and the client that asked for  *)
(* it is put in the room.                                                  *)
(***************************************************************************)
createConversation(c) ==
    /\ request[c] = Quiet /\ c \notin room
    /\ exists' = TRUE
    /\ room' = room \cup {c}
    /\ UNCHANGED <<lastAt, overtaken, message, marks, clock, request, loaded, screen, pushed, untouched>>

(***************************************************************************)
(* message:send.  The blocks are read, then the transaction inserts the    *)
(* message and moves the conversation up; afterwards the room gets the     *)
(* message, and last, if no client of the peer is in the room, a push      *)
(* notification is dispatched.                                             *)
(***************************************************************************)
isBlocked == blockedBy # {}

sendMessage(c) ==
    /\ request[c] = Quiet
    /\ exists /\ ~isBlocked
    /\ request' = [request EXCEPT ![c].op = "checked"]
    /\ UNCHANGED <<rowOf, message, marks, clock, views, untouched>>

LaterThan(t) == {m \in Stored : message[m].at > t}

NextId == Cardinality({m \in Ids : message[m].status # "none"}) + 1

\* A request of the side that may move its marks is under way.
ReaderBusy(s) == \E d \in Clients : SideOf(d) = s /\ request[d].op \in {"mark", "delete"}

\* Mutant: the message carries the time of the request and not of its insertion.
InsertStampedEarly(c, m) ==
    /\ request[c].op = "checked"
    /\ m = NextId /\ clock < MaxClock
    /\ message' = [message EXCEPT ![m] = [by |-> c, at |-> clock, status |-> "sending"]]
    /\ request' = [request EXCEPT ![c].op = "commit", ![c].id = m]
    /\ untouched' = IF ReaderBusy(OtherSide(SideOf(c))) THEN untouched ELSE untouched \cup {m}
    /\ UNCHANGED <<rowOf, marks, clock, views>>

Insert(c, m) ==
    /\ request[c].op = "checked"
    /\ m = NextId /\ clock < MaxClock
    /\ clock' = clock + 1
    /\ message' = [message EXCEPT ![m] = [by |-> c, at |-> clock', status |-> "sending"]]
    /\ request' = [request EXCEPT ![c].op = "commit", ![c].id = m]
    /\ untouched' = IF ReaderBusy(OtherSide(SideOf(c))) THEN untouched ELSE untouched \cup {m}
    /\ UNCHANGED <<rowOf, marks, views>>

\* Mutant: the conversation is moved up only when the message is the first.
CommitOnly(c) ==
    /\ request[c].op = "commit"
    /\ message' = [message EXCEPT ![request[c].id].status = "sent"]
    /\ lastAt' = IF lastAt = 0 THEN message[request[c].id].at ELSE lastAt
    /\ overtaken' = overtaken \cup LaterThan(message[request[c].id].at)
    /\ request' = [request EXCEPT ![c].op = "emit"]
    /\ UNCHANGED <<exists, marks, clock, views, untouched>>

\* The update of the conversation waits for the row, so what commits last stays.
Commit(c) ==
    /\ request[c].op = "commit"
    /\ message' = [message EXCEPT ![request[c].id].status = "sent"]
    /\ lastAt' = message[request[c].id].at
    /\ overtaken' = overtaken \cup LaterThan(lastAt')
    /\ request' = [request EXCEPT ![c].op = "emit"]
    /\ UNCHANGED <<exists, marks, clock, views, untouched>>

\* Mutant: the message goes to the peer's clients and not to the room.
EmitToPeer(c) ==
    /\ request[c].op = "emit"
    /\ screen' = [d \in Clients |-> IF d \in room /\ SideOf(d) # SideOf(c)
                                    THEN screen[d] \cup {request[c].id} ELSE screen[d]]
    /\ request' = [request EXCEPT ![c].op = "push"]
    /\ UNCHANGED <<rowOf, message, marks, clock, room, loaded, pushed, untouched>>

Emit(c) ==
    /\ request[c].op = "emit"
    /\ screen' = [d \in Clients |-> IF d \in room THEN screen[d] \cup {request[c].id}
                                    ELSE screen[d]]
    /\ request' = [request EXCEPT ![c].op = "push"]
    /\ UNCHANGED <<rowOf, message, marks, clock, room, loaded, pushed, untouched>>

PeerInRoom(c) == \E d \in room : SideOf(d) # SideOf(c)

Push(c) ==
    /\ request[c].op = "push"
    /\ pushed' = IF PeerInRoom(c) THEN pushed ELSE pushed \cup {request[c].id}
    /\ request' = [request EXCEPT ![c] = Quiet]
    /\ UNCHANGED <<rowOf, message, marks, clock, room, loaded, screen, untouched>>

(***************************************************************************)
(* message:read.  The handler reads the side's deletion mark and the       *)
(* latest message, stamps the cursor, and in one transaction moves the     *)
(* cursor and marks the other side's stored messages as read.              *)
(***************************************************************************)
LookedAt(s) == {m \in Ids : message[m].status # "none" /\ SentBy(m) # s}

markConversationRead(c) ==
    LET s == SideOf(c) IN
    /\ request[c] = Quiet
    /\ Visible(s) # {} /\ clock < MaxClock
    /\ clock' = clock + 1
    /\ request' = [request EXCEPT ![c] = [op |-> "mark", id |-> 0, at |-> clock',
                                          since |-> deletedAt[s]]]
    /\ untouched' = untouched \ LookedAt(s)
    /\ UNCHANGED <<rowOf, message, marks, views>>

CommitRead(c) ==
    LET s == SideOf(c) IN
    /\ request[c].op = "mark"
    /\ readAt' = [readAt EXCEPT ![s] = request[c].at]
    /\ message' = [m \in Ids |->
                     IF m \in Stored /\ SentBy(m) # s /\ message[m].at > request[c].since
                     THEN [message[m] EXCEPT !.status = "read"] ELSE message[m]]
    /\ request' = [request EXCEPT ![c] = Quiet]
    /\ UNCHANGED <<rowOf, deletedAt, blockedBy, clock, views, untouched>>

(***************************************************************************)
(* deleteConversation hides, for the caller's side, all that was created   *)
(* up to now; restoreConversation shows it again.  Both tell the side's    *)
(* clients with inbox:updated, and an open thread is loaded again.         *)
(***************************************************************************)
Reloading(s) == loaded' = {d \in loaded : SideOf(d) # s}

deleteConversation(c) ==
    /\ request[c] = Quiet /\ exists
    /\ clock < MaxClock
    /\ clock' = clock + 1
    /\ request' = [request EXCEPT ![c] = [Quiet EXCEPT !.op = "delete", !.at = clock']]
    /\ untouched' = untouched \ LookedAt(SideOf(c))
    /\ UNCHANGED <<rowOf, message, marks, views>>

CommitDelete(c) ==
    /\ request[c].op = "delete"
    /\ deletedAt' = [deletedAt EXCEPT ![SideOf(c)] = request[c].at]
    /\ request' = [request EXCEPT ![c] = Quiet]
    /\ Reloading(SideOf(c))
    /\ UNCHANGED <<rowOf, message, readAt, blockedBy, clock, room, screen, pushed, untouched>>

restoreConversation(c) ==
    /\ request[c] = Quiet
    /\ deletedAt[SideOf(c)] # 0
    /\ deletedAt' = [deletedAt EXCEPT ![SideOf(c)] = 0]
    /\ Reloading(SideOf(c))
    /\ UNCHANGED <<rowOf, message, readAt, blockedBy, clock, request, room, screen, pushed, untouched>>

blockUser(c) ==
    /\ request[c] = Quiet
    /\ blockedBy' = blockedBy \cup {SideOf(c)}
    /\ UNCHANGED <<rowOf, message, readAt, deletedAt, clock, request, views, untouched>>

unblockUser(c) ==
    /\ request[c] = Quiet
    /\ blockedBy' = blockedBy \ {SideOf(c)}
    /\ UNCHANGED <<rowOf, message, readAt, deletedAt, clock, request, views, untouched>>

(***************************************************************************)
(* A client opens the thread by joining the room and then loading the      *)
(* history, whose answer it merges with what came in over the room.        *)
(***************************************************************************)
join(c) ==
    /\ exists /\ c \notin room
    /\ room' = room \cup {c}
    /\ UNCHANGED <<rowOf, message, marks, clock, request, loaded, screen, pushed, untouched>>

listMessages(c) ==
    /\ c \in room \ loaded
    /\ loaded' = loaded \cup {c}
    /\ screen' = [screen EXCEPT ![c] = @ \cup Visible(SideOf(c))]
    /\ UNCHANGED <<rowOf, message, marks, clock, request, room, pushed, untouched>>

\* conversation:leave, or the socket is gone.
leave(c) ==
    /\ c \in room
    /\ room' = room \ {c} /\ loaded' = loaded \ {c}
    /\ screen' = [screen EXCEPT ![c] = {}]
    /\ UNCHANGED <<rowOf, message, marks, clock, request, pushed, untouched>>

ChatsNext ==
    \E c \in Clients :
       \/ createConversation(c) \/ sendMessage(c) \/ Commit(c) \/ Emit(c) \/ Push(c)
       \/ \E m \in Ids : Insert(c, m)
       \/ markConversationRead(c) \/ CommitRead(c)
       \/ deleteConversation(c) \/ CommitDelete(c) \/ restoreConversation(c)
       \/ blockUser(c) \/ unblockUser(c)
       \/ join(c) \/ listMessages(c) \/ leave(c)

(***************************************************************************)
(* No gap between history and live messages: a client that joined and then *)
(* loaded the thread shows every visible message whose sender has told the *)
(* room, whatever was committed or told between its two calls.             *)
(***************************************************************************)
Told(m) == ~\E c \in Clients : request[c].id = m /\ request[c].op \in {"commit", "emit"}

OpenThreadIsComplete ==
    \A c \in loaded : \A m \in Visible(SideOf(c)) : Told(m) => m \in screen[c]

(***************************************************************************)
(* A message is unread until the other side asks: whatever else happens,   *)
(* one that no request to mark read or to delete overlapped or followed is *)
(* counted in the other side's unread total (getTotalUnreadCount).         *)
(***************************************************************************)
UnreadUntilLookedAt ==
    \A m \in untouched \cap Stored : m \in Unread(OtherSide(SentBy(m)))

(***************************************************************************)
(* What the badge counts the inbox shows: a side with an unread message    *)
(* finds the conversation in its list, also when it had deleted it before  *)
(* the message came.  Excepted are messages overtaken by an earlier one    *)
(* that commits after them: it takes last_message_at back, and a list      *)
(* that was deleted between the two stays without the conversation.        *)
(***************************************************************************)
UnreadIsListed ==
    \A s \in Sides : Unread(s) \ overtaken # {} => Listed(s)
=============================================================================
