----------------------------- MODULE AdminFeed ------------------------------
(***************************************************************************)
(* The live events of the portal (admin-service).  Every five seconds a    *)
(* poll asks, one domain after the other, for the rows stamped after the   *)
(* domain's cursor, writes them to the open streams and moves the cursor   *)
(* to the last of them.  A poll that takes longer overlaps the next.  The  *)
(* rows of a domain have different stamps here.                            *)
(***************************************************************************)
EXTENDS Integers, FiniteSetsExt

CONSTANTS
    Domains,   \* how many kinds of rows a poll asks for: tickets, verifications, ...
    Polls,     \* polls in progress at a time
    Streams,   \* tabs of the portal
    MaxTime    \* bound on the clock

ASSUME AdminFeedAssumption == {Domains, MaxTime} \subseteq Nat \ {0}

VARIABLES
    instant,   \* the clock
    stamped,   \* the stamps of each domain's rows; stamping a row anew makes another
    late,      \* those committed after a row with a later stamp
    cursors,   \* module state of ssePoller: the stamp each domain is read up to
    polling,   \* where each poll is
    clients,   \* module state of sseHub: the open streams
    opened,    \* history: when each stream was opened
    heardOn    \* history: the rows written to each stream since

feedVars == <<instant, stamped, late, cursors, polling, clients, opened, heardOn>>

Kinds   == 1..Domains
Stamps  == 0..MaxTime
Waiting == [op |-> "idle"]

AdminFeedTypeOK ==
    /\ instant \in Stamps
    /\ {stamped, late} \subseteq [Kinds -> SUBSET Stamps]
    /\ cursors \in [Kinds -> Stamps]
    /\ polling \in [Polls -> {Waiting} \cup [op : {"ask"}, at : Kinds]
                               \cup [op : {"tell"}, at : Kinds, found : SUBSET Stamps]]
    /\ clients \subseteq Streams
    /\ opened \in [Streams -> Stamps]
    /\ heardOn \in [Streams -> [Kinds -> SUBSET Stamps]]

AdminFeedInit ==
    /\ instant = 1
    /\ stamped = [k \in Kinds |-> {}] /\ late = [k \in Kinds |-> {}]
    /\ cursors = [k \in Kinds |-> 0]
    /\ polling = [p \in Polls |-> Waiting]
    /\ clients = {} /\ opened = [t \in Streams |-> 0]
    /\ heardOn = [t \in Streams |-> [k \in Kinds |-> {}]]

\* A row is inserted, or updated so that it gets a stamp, and is committed.
CommitRow(k, s) ==
    /\ s \in instant - 1 .. instant /\ s > 0 /\ s \notin stamped[k]
    /\ stamped' = [stamped EXCEPT ![k] = @ \cup {s}]
    /\ late' = IF \E x \in stamped[k] : x > s THEN [late EXCEPT ![k] = @ \cup {s}] ELSE late
    /\ UNCHANGED <<instant, cursors, polling, clients, opened, heardOn>>

TimePasses ==
    /\ instant < MaxTime /\ instant' = instant + 1
    /\ UNCHANGED <<stamped, late, cursors, polling, clients, opened, heardOn>>

(***************************************************************************)
(* poll, started by the timer whether or not the last one has ended.  An   *)
(* error of the database ends it, between two domains.                     *)
(***************************************************************************)
poll(p) ==
    /\ polling[p] = Waiting
    /\ polling' = [polling EXCEPT ![p] = [op |-> "ask", at |-> 1]]
    /\ UNCHANGED <<instant, stamped, late, cursors, clients, opened, heardOn>>

findNew(p) ==
    LET k == polling[p].at IN
    /\ polling[p].op = "ask"
    /\ polling' = [polling EXCEPT ![p] =
         [op |-> "tell", at |-> k, found |-> {s \in stamped[k] : s > cursors[k]}]]
    /\ UNCHANGED <<instant, stamped, late, cursors, clients, opened, heardOn>>

pollFails(p) ==
    /\ polling[p].op = "ask"
    /\ polling' = [polling EXCEPT ![p] = Waiting]
    /\ UNCHANGED <<instant, stamped, late, cursors, clients, opened, heardOn>>

AfterDomain(p) ==
    IF polling[p].at < Domains THEN [op |-> "ask", at |-> polling[p].at + 1] ELSE Waiting

\* publish: to every stream that is open.
WrittenTo(p) ==
    [t \in Streams |-> IF t \in clients
                       THEN [heardOn[t] EXCEPT ![polling[p].at] = @ \cup polling[p].found]
                       ELSE heardOn[t]]

\* Mutant: the cursor moves to the time of writing.
publishFoundNow(p) ==
    /\ polling[p].op = "tell"
    /\ heardOn' = WrittenTo(p)
    /\ cursors' = [cursors EXCEPT ![polling[p].at] = IF polling[p].found = {} THEN @ ELSE instant]
    /\ polling' = [polling EXCEPT ![p] = AfterDomain(p)]
    /\ UNCHANGED <<instant, stamped, late, clients, opened>>

publishFound(p) ==
    /\ polling[p].op = "tell"
    /\ heardOn' = WrittenTo(p)
    /\ cursors' = [cursors EXCEPT ![polling[p].at] =
                     IF polling[p].found = {} THEN @ ELSE Max(polling[p].found)]
    /\ polling' = [polling EXCEPT ![p] = AfterDomain(p)]
    /\ UNCHANGED <<instant, stamped, late, clients, opened>>

\* sseHub: a tab opens its stream, and the stream ends or is found ended.
subscribe(t) ==
    /\ t \notin clients /\ clients' = clients \cup {t}
    /\ opened' = [opened EXCEPT ![t] = instant]
    /\ heardOn' = [heardOn EXCEPT ![t] = [k \in Kinds |-> {}]]
    /\ UNCHANGED <<instant, stamped, late, cursors, polling>>

unsubscribe(t) ==
    /\ t \in clients /\ clients' = clients \ {t}
    /\ UNCHANGED <<instant, stamped, late, cursors, polling, opened, heardOn>>

\* The cursors start at the present, and the streams are gone.
pollerRestarts ==
    /\ cursors' = [k \in Kinds |-> instant]
    /\ polling' = [p \in Polls |-> Waiting] /\ clients' = {}
    /\ UNCHANGED <<instant, stamped, late, opened, heardOn>>

AdminFeedNext ==
    \/ \E k \in Kinds, s \in Stamps : CommitRow(k, s)
    \/ \E p \in Polls : poll(p) \/ findNew(p) \/ pollFails(p) \/ publishFound(p)
    \/ \E t \in Streams : subscribe(t) \/ unsubscribe(t)
    \/ TimePasses \/ pollerRestarts

(***************************************************************************)
(* A tab that stays open hears of every row stamped after it opened: when  *)
(* the cursor has passed a row, the row was written to the tab, although   *)
(* polls overlap and move the cursor back, and fail half-way.  Rows that   *)
(* are committed after a later one are the exception.                      *)
(***************************************************************************)
EventsReachTabs ==
    \A t \in clients : \A k \in Kinds : \A s \in stamped[k] \ late[k] :
       opened[t] < s /\ s <= cursors[k] => s \in heardOn[t][k]
=============================================================================
