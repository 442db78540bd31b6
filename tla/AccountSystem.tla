---------------------------- MODULE AccountSystem ----------------------------
(* Sign-up composed with what else changes an account: the admin portal's     *)
(* suspension, reinstatement, edits and deletion, and deletion by its owner.  *)
EXTENDS SignUp

Init ==
    /\ TableInit
    /\ request = [c \in Clients |-> Idle]
    /\ left = [c \in Clients |-> MaxRequests]

\* The portal does not ask what it suspends or reinstates: an abandoned sign-up
\* becomes active like any other row.
setStatus(u) ==
    /\ account[u].status # "none"
    /\ ~IndexRefusesRow(u)
    /\ \E status \in {"active", "suspended"} : account' = [account EXCEPT ![u].status = status]
    /\ UNCHANGED <<codes, request, left>>

\* An edit writes the fields it carries, any status among them; the stamps stay.
Edited(row, e, p, status) ==
    [row EXCEPT !.email = e, !.phone = p, !.status = status,
                !.erased = @ \/ status = "deleted",
                !.social = IF status = "deleted" THEN NoAddress ELSE @]

update(u) ==
    \E e \in Emails \cup {account[u].email}, p \in Phones \cup {account[u].phone},
       status \in Statuses \ {"none"} :
        /\ account[u].status # "none"
        /\ status = "deleted" \/ \A a \in {e, p} \ {NoAddress} : ~IndexRefuses(a, u)
        /\ account' = [account EXCEPT ![u] = Edited(account[u], e, p, status)]
        /\ UNCHANGED <<codes, request, left>>

\* Deletion, by an admin or by the owner, of an account that has a profile.
remove(u) ==
    /\ account[u].profiles # {}
    /\ account[u].status # "deleted"
    /\ account' = [account EXCEPT ![u].status = "deleted", ![u].erased = TRUE,
                                  ![u].social = NoAddress]
    /\ UNCHANGED <<codes, request, left>>

Registering(c) ==
    \/ \E e \in Emails, p \in Phones, r \in Roles : RegisterReads(c, e, p, r)
    \/ RegisterRole(c)
    \/ RegisterMerges(c)
    \/ RegisterCreates(c)
    \/ RegisterRefused(c)

Verifying(c) ==
    \/ \E i \in Codes : EntersCode(c, i) \/ PhoneChangeReads(c, i)
    \/ Activates(c)
    \/ ProvesPhone(c)
    \/ PhoneChangeCommits(c)

Sending(c) ==
    \/ \E p \in Phones : sendOtp(c, p) \/ resendOtp(c, p)
    \/ \E p \in Phones, u \in Users : requestPhoneChange(c, u, p)
    \/ Delivers(c)
    \/ SendFails(c)

Social(c) ==
    \/ \E e \in Emails, r \in Roles : socialSignUp(c, e, r)
    \/ \E e \in Emails, r \in Roles, u \in Users : socialLogin(c, u, e, r)
    \/ \E p \in Phones : socialComplete(c, p)

Portal(u) == setStatus(u) \/ update(u) \/ remove(u)

AppStep ==
    \/ \E c \in Clients : Registering(c) \/ Verifying(c) \/ Sending(c) \/ Social(c)
    \/ \E i \in Codes : CodeExpires(i)

PortalStep == \E u \in Users : Portal(u)

Next == AppStep \/ PortalStep

Spec == Init /\ [][Next]_signUpVars

-----------------------------------------------------------------------------
TypeOK ==
    /\ TableTypeOK
    /\ request \in [Clients -> Request]
    /\ left \in [Clients -> 0..MaxRequests]

\* No two accounts that are not deleted share an email or a phone, whatever
\* registrations, social sign-ups, changes of phone, edits and reinstatements
\* run at the same time: every check made before an await is made again by the
\* write (assertIdentifierAvailable and the partial unique indexes of users).
OneAccountPerAddress ==
    \A u, v \in Users :
        u # v /\ {account[u].status, account[v].status} \cap {"none", "deleted"} = {}
            => {account[u].email, account[u].phone} \cap {account[v].email, account[v].phone}
                   \subseteq {NoAddress}

\* May sign in, with no profile to sign in with.
Bare(u) == account[u].status \in {"active", "suspended"} /\ account[u].profiles = {}

\* An account that may sign in has a profile to sign in with, unless the portal
\* gave it its status: no request of an app leaves one without, neither a code
\* entered while its registration is merged with another one, nor one entered
\* twice, nor a sign-in with a provider at any stage of a sign-up.
OnlyPortalMakesBare ==
    [][\A u \in Users : Bare(u)' /\ ~Bare(u) => Portal(u)]_signUpVars

\* The phone of an account registered with a password is stamped verified only
\* when a code sent to it was entered (the comment in verifyOtp: "Only stamp the
\* channel that was actually verified").
RegisteredPhoneWasProved ==
    \A u \in Users :
        account[u].social = NoAddress /\ account[u].phoneVerified
            => \E i \in Codes : codes[i].to = account[u].phone /\ codes[i].state = "entered"
=============================================================================
