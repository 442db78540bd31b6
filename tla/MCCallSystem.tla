---------------------------- MODULE MCCallSystem ----------------------------
(***************************************************************************)
(* Small instances of CallSystem.                                          *)
(***************************************************************************)
EXTENDS CallSystem, TLC

\* Lengths of calls in seconds at $15 per 30 minutes (50 cents a minute, a hold
\* of $30): ended at once, one minute, and ninety minutes, which the hold does
\* not cover.
AllLengths   == {0, 60, 5400}
ShortLengths == {0, 60}

CONSTANTS
    OneCard, OneJob     \* the card and the billing job of a scene that has one

\* Handlers are alike.
RequestSymmetry == Permutations(Requests)

VARIABLE scene

(***************************************************************************)
(* The settlement alone: a call that connected on an authorised hold has   *)
(* been completed, its capture POST is under way and nobody is in the room.*)
(***************************************************************************)
SettlementInit ==
    \E s \in CallSeconds \ {0} :
       /\ row = [c \in Consultations |->
                    [NoRow EXCEPT !.status = "completed", !.started = TRUE, !.joined = Parties,
                                  !.seconds = s, !.pi = OneCard]]
       /\ posts = {capturePost(c, s) : c \in Consultations}
       /\ req = [w \in Requests |-> Idle]
       /\ timer = [c \in Consultations |-> FALSE]
       /\ tokens = [c \in Consultations |-> Parties]
       /\ room = [c \in Consultations |-> {}] /\ zego = {}
       /\ job = [j \in Jobs |-> IdleJob]
       /\ hold = [c \in Consultations |-> [x \in Cards |->
                     [status |-> IF x = OneCard THEN "requires_capture" ELSE "none",
                      received |-> 0]]]
       /\ direct = {} /\ declined = {} /\ voids = {} /\ hooks = {}
       /\ charge = [c \in Consultations |-> 0]
       /\ credited = [c \in Consultations |-> 0]
       /\ faults = 0

SettlementSpec ==
    SettlementInit /\ scene = "settlement" /\ [][Next /\ UNCHANGED scene]_<<vars, scene>>

(***************************************************************************)
(* The holds alone: one request has been made and waits for its hold.      *)
(***************************************************************************)
HoldsInit ==
    /\ row = [c \in Consultations |-> [NoRow EXCEPT !.status = "requested"]]
    /\ posts = {}
    /\ CallsInit
    /\ BillingInit

(***************************************************************************)
(* Three scenes: calls from their first request on, with requests racing   *)
(* and billing undisturbed; the settlement and the holds, with billing     *)
(* jobs racing under faults and engagement receiving no requests.          *)
(***************************************************************************)
OneCardUsed ==
    /\ \A c \in Consultations : \A k \in Cards \ {OneCard} : hold[c][k].status = "none"
    /\ \A j \in Jobs : job[j].card \in {OneCard, NoCard}

Played ==
    CASE scene = "calls" ->
           /\ faults = 0 /\ OneCardUsed
           /\ Cardinality(zego) <= 2 /\ (hooks = {} \/ zego = {})
           /\ \A j \in Jobs \ {OneJob} : job[j] = IdleJob
           /\ \A c \in Consultations :
                 row[c].seconds # 5400 /\ hold[c][OneCard].status # "declined"
      [] scene = "settlement" ->
           OneCardUsed /\ req = [w \in Requests |-> Idle] /\ room = [c \in Consultations |-> {}]
      [] scene = "holds" ->
           faults <= 1 /\ req = [w \in Requests |-> Idle]

ScenesInit ==
    \/ scene = "calls" /\ Init
    \/ scene = "settlement" /\ SettlementInit
    \/ scene = "holds" /\ HoldsInit

\* The whole system with its fairness: a participant goes missing, or there is a
\* fault, and two callbacks at a time are under way.  None of it is up to a step
\* that fairness is assumed of.
OneMishap ==
    /\ faults = 0 \/ timer = [c \in Consultations |-> FALSE]
    /\ Cardinality(zego) <= 2

WholeInit == Init /\ scene = "calls"

CallsSpec ==
    WholeInit /\ [][Next /\ UNCHANGED scene /\ OneMishap']_<<vars, scene>> /\ Fairness

ScenesSpec == ScenesInit /\ [][Next /\ UNCHANGED scene /\ Played']_<<vars, scene>>
=============================================================================
