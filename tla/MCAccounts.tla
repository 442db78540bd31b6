----------------------------- MODULE MCAccounts -----------------------------
EXTENDS AccountSystem, TLC

CONSTANT MaxEdits   \* bound on what the portal does

ASSUME MaxEdits \in Nat

VARIABLE edits   \* what it may still do

AddressSymmetry == Permutations(Phones) \cup Permutations(Emails)
                     \cup Permutations(Users) \cup Permutations(Clients)
                     \cup Permutations(Roles)

Proof(p) == [NewCode(p, "verify_phone", NoUser, NoRole, FALSE) EXCEPT !.state = "entered"]
Proofs == SetToSeq({Proof(p) : p \in Phones})

\* Somebody registered under one of the addresses and has not entered the code yet,
\* or has.
Row(e, p, status, profiles) ==
    [NoAccount EXCEPT !.status = status, !.email = e, !.phone = p, !.profiles = profiles,
                      !.phoneVerified = profiles # {}]

SignedUp(u, e, p, r) ==
    \E status \in {"pending_verification", "active"} :
        LET waits == status = "pending_verification"
            code == NewCode(p, "register", u, r, FALSE)
        IN  /\ account = [[v \in Users |-> NoAccount]
                             EXCEPT ![u] = Row(e, p, status, IF waits THEN {} ELSE {r})]
            /\ codes = Append(Proofs, [code EXCEPT !.state = IF waits THEN "live" ELSE "entered"])

\* Every phone was proved on the sign-up screen a moment ago.  Nobody has signed up
\* yet, the portal stays out of it and one client makes one request less, or somebody
\* has and each client makes one request less.
ProvedInit ==
    /\ request = [c \in Clients |-> Idle]
    /\ \/ /\ account = [u \in Users |-> NoAccount]
          /\ codes = Proofs
          /\ \E c \in Clients : left = [d \in Clients |-> MaxRequests - (IF d = c THEN 1 ELSE 0)]
          /\ edits = 0
       \/ /\ \E u \in Users, e \in Emails, p \in Phones, r \in Roles :
                SignedUp(u, e, p, r)
          /\ left = [c \in Clients |-> MaxRequests - 1] /\ edits = MaxEdits

BoundedNext ==
    \/ AppStep /\ UNCHANGED edits
    \/ PortalStep /\ edits > 0 /\ edits' = edits - 1

ProvedSpec == ProvedInit /\ [][BoundedNext]_<<signUpVars, edits>>

FreshSpec == Init /\ edits = MaxEdits /\ [][BoundedNext]_<<signUpVars, edits>>
=============================================================================
