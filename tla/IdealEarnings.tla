--------------------------- MODULE IdealEarnings ----------------------------
(***************************************************************************)
(* What the ledger promises of each row: it is earned once, money for it   *)
(* is with the expert at most once at a time, it may be paid again only    *)
(* after that money came back, and it is dropped only while no money for   *)
(* it is out.  A payout pays several rows in one step, a lost dispute      *)
(* drops several.                                                          *)
(***************************************************************************)
EXTENDS Integers

CONSTANT Rows

VARIABLES
    status,   \* of each row: "none", "earned" or "dropped"
    sent      \* how many transfers standing with the expert pay for it

vars == <<status, sent>>

Init ==
    /\ status = [r \in Rows |-> "none"]
    /\ sent = [r \in Rows |-> 0]

Becomes(f, R, x) == [r \in Rows |-> IF r \in R THEN x ELSE f[r]]

Due(r) == status[r] = "earned" /\ sent[r] = 0

Earned(r) ==
    /\ status[r] = "none"
    /\ status' = Becomes(status, {r}, "earned")
    /\ UNCHANGED sent

Paid(R) ==
    /\ \A r \in R : Due(r)
    /\ sent' = Becomes(sent, R, 1)
    /\ UNCHANGED status

Reversed(R) ==
    /\ \A r \in R : sent[r] = 1
    /\ sent' = Becomes(sent, R, 0)
    /\ UNCHANGED status

Dropped(R) ==
    /\ \A r \in R : Due(r)
    /\ status' = Becomes(status, R, "dropped")
    /\ UNCHANGED sent

Next ==
    \/ \E r \in Rows : Earned(r)
    \/ \E R \in SUBSET Rows : Paid(R) \/ Reversed(R) \/ Dropped(R)

Spec == Init /\ [][Next]_vars
=============================================================================
