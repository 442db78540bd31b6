------------------------------- MODULE SignUp -------------------------------
(* Sign-up in the user service: codes, two-step registration, a second role   *)
(* for an account, social sign-up and change of phone.  A client is an app    *)
(* with one request under way; a request is cut at its awaits, so requests of *)
(* several clients interleave.  A transaction is one step.  Whoever enters a  *)
(* code enters the right one: wrong guesses change only the attempt count.    *)
EXTENDS AccountTable

CONSTANTS Clients,
          MaxRequests   \* bound on the requests of a client

ASSUME RequestsAssumption == MaxRequests \in Nat

VARIABLES request,   \* the request each client has under way
          left       \* how many more it makes

signUpVars == <<account, codes, request, left>>

Idle == [pc |-> "idle"]

Request ==
    [pc : {"idle"}]
      \cup [pc : {"registering"}, email : Emails, phone : Phones, role : Roles,
            existing : Users \cup {NoUser}]
      \cup [pc : {"completing"}, user : Users, role : Roles]
      \cup [pc : {"delivering"}, sent : Code]
      \cup [pc : {"entered", "changing"}, code : 1..MaxCodes]

Starts(c) ==
    /\ request[c] = Idle
    /\ left[c] > 0
    /\ left' = [left EXCEPT ![c] = @ - 1]
Finishes(c) == request' = [request EXCEPT ![c] = Idle]
Moves(c, r) == request' = [request EXCEPT ![c] = r]

NewCode(to, purpose, user, role, completes) ==
    [to |-> to, purpose |-> purpose, user |-> user, role |-> role,
     completes |-> completes, state |-> "live"]

-----------------------------------------------------------------------------
(* createAndDeliverOtp.                                                       *)

Delivering(code) == [pc |-> "delivering", sent |-> code]

\* The pending codes of the same purpose and address, and of the same account
\* when one is given, are superseded.
Superseding(code) ==
    Marked({i \in Codes : /\ codes[i].purpose = code.purpose
                          /\ codes[i].to = code.to
                          /\ code.user \in {NoUser, codes[i].user}}, "superseded")

Asks(c, code) ==
    /\ codes' = Superseding(code)
    /\ Moves(c, Delivering(code))

\* The row is written after the delivery; its user must still exist.
Delivers(c) ==
    LET mine == request[c].sent
    IN  /\ request[c].pc = "delivering"
        /\ Len(codes) < MaxCodes
        /\ codes' = IF mine.user # NoUser /\ account[mine.user].status = "none"
                    THEN codes ELSE Append(codes, mine)
        /\ Finishes(c)
        /\ UNCHANGED <<account, left>>

\* The message cannot be delivered, or the resend cooldown refuses what a
\* committed registration asked for.
SendFails(c) ==
    /\ request[c].pc = "delivering"
    /\ Finishes(c)
    /\ UNCHANGED <<account, codes, left>>

\* Ten minutes pass.
CodeExpires(i) ==
    /\ Live(i)
    /\ codes' = Marked({i}, "expired")
    /\ UNCHANGED <<account, request, left>>

\* The sign-up screen has a phone proved before there is an account.
sendOtp(c, p) ==
    /\ Starts(c)
    /\ Asks(c, NewCode(p, "verify_phone", NoUser, NoRole, FALSE))
    /\ UNCHANGED account

\* A resend takes the account and the registration data of the last code sent.
resendOtp(c, p) ==
    LET sent == {i \in Codes : /\ codes[i].to = p
                               /\ codes[i].purpose = "verify_phone"
                               /\ codes[i].state # "removed"}
    IN  /\ Starts(c)
        /\ sent # {}
        /\ Asks(c, [codes[Max(sent)] EXCEPT !.state = "live"])
        /\ UNCHANGED account

-----------------------------------------------------------------------------
(* register.                                                                  *)

\* A registration under one of the two addresses but not the other one waits
\* for its code.
Contested(e, p) ==
    \E v \in Users : /\ Pending(v)
                     /\ Holds(v, e) \/ Holds(v, p)
                     /\ ~(Holds(v, e) /\ Holds(v, p))
                     /\ account[v].phone # NoAddress
                     /\ InProgress(v)

RegisterReads(c, e, p, r) ==
    LET owners == {v \in Users : Claimed(v) /\ Holds(v, e)}
    IN  /\ Starts(c)
        /\ Proved(p)
        /\ IF owners = {}
           THEN ~ClaimedElsewhere(p, NoUser) /\ ~Contested(e, p)
           ELSE \A v \in owners : r \notin account[v].profiles /\ account[v].phone = p
        /\ \E existing \in IF owners = {} THEN {NoUser} ELSE owners :
               Moves(c, [pc |-> "registering", email |-> e, phone |-> p, role |-> r,
                         existing |-> existing])
        /\ UNCHANGED <<account, codes>>

Registered(e, p, u) ==
    [account[u] EXCEPT !.status = "pending_verification", !.email = e, !.phone = p]

\* The code goes to one of the addresses, as the request's otpChannel says.
RegisterCodes(r, u) == {NewCode(to, "register", u, r.role, FALSE) : to \in {r.email, r.phone}}

\* An account that adds a role is left as it is until the code is entered.
RegisterRole(c) ==
    /\ request[c].pc = "registering"
    /\ request[c].existing # NoUser
    /\ \E code \in RegisterCodes(request[c], request[c].existing) : Asks(c, code)
    /\ UNCHANGED <<account, left>>

\* The codes after abandoned registrations are merged into the row keep: those
\* of the other rows go with them, and a code sent for keep is superseded.
MergedCodes(others, keep) ==
    [i \in Codes |->
        IF codes[i].user \in others THEN [codes[i] EXCEPT !.state = "removed"]
        ELSE IF codes[i].user = keep /\ codes[i].purpose = "register" /\ Live(i)
        THEN [codes[i] EXCEPT !.state = "superseded"]
        ELSE codes[i]]

RegisterMerges(c) ==
    LET r == request[c]
        pendings == {v \in Users : Pending(v) /\ (Holds(v, r.email) \/ Holds(v, r.phone))}
    IN  /\ r.pc = "registering" /\ r.existing = NoUser
        /\ ~ClaimedElsewhere(r.email, NoUser) /\ ~ClaimedElsewhere(r.phone, NoUser)
        /\ ~Contested(r.email, r.phone)
        /\ \E keep \in pendings :
               LET others == pendings \ {keep}
                   merged == [v \in Users |-> IF v = keep THEN Registered(r.email, r.phone, keep)
                                              ELSE IF v \in others THEN NoAccount ELSE account[v]]
               IN  /\ \A v \in Users \ pendings :
                          account[v].status # "deleted" => ~Holds(v, r.email) /\ ~Holds(v, r.phone)
                   /\ account' = merged
                   /\ codes' = MergedCodes(others, keep)
                   /\ \E code \in RegisterCodes(r, keep) : Moves(c, Delivering(code))
        /\ UNCHANGED left

RegisterCreates(c) ==
    LET r == request[c]
    IN  /\ r.pc = "registering" /\ r.existing = NoUser
        /\ ~IndexRefuses(r.email, NoUser) /\ ~IndexRefuses(r.phone, NoUser)
        /\ \E u \in Users : /\ account[u].status = "none"
                            /\ account' = [account EXCEPT ![u] = Registered(r.email, r.phone, u)]
                            /\ \E code \in RegisterCodes(r, u) : Moves(c, Delivering(code))
        /\ UNCHANGED <<codes, left>>

\* EMAIL_TAKEN, PHONE_TAKEN or REGISTRATION_IN_PROGRESS inside the transaction.
RegisterRefused(c) ==
    LET r == request[c]
    IN  /\ r.pc = "registering" /\ r.existing = NoUser
        /\ \/ Contested(r.email, r.phone)
           \/ \E v \in Users : /\ account[v].status \notin {"none", "deleted", "pending_verification"}
                               /\ Holds(v, r.email) \/ Holds(v, r.phone)
        /\ Finishes(c)
        /\ UNCHANGED <<account, codes, left>>

-----------------------------------------------------------------------------
(* verifyOtp.                                                                 *)

\* The newest live code for the address is the one that is checked.
EntersCode(c, i) ==
    /\ Starts(c)
    /\ LatestLive(i, codes[i].to, codes[i].purpose)
    /\ Moves(c, [pc |-> "entered", code |-> i])
    /\ UNCHANGED <<account, codes>>

\* A code that went with its account while it was entered fails the transaction.
Found(i) ==
    /\ codes[i].state # "removed"
    /\ codes[i].user = NoUser \/ account[codes[i].user].status # "none"

Entered(i) == [codes EXCEPT ![i].state = "entered"]

\* Mutant of Activated: the profile is not created in the transaction.
ActivatedBare(u, role, verified) ==
    [account EXCEPT ![u].status = "active", ![u].phoneVerified = @ \/ verified]

Activated(u, role, verified) ==
    [account EXCEPT ![u].status = "active", ![u].phoneVerified = @ \/ verified,
                    ![u].profiles = @ \cup {role}]

\* A second profile of the role, an account that is gone, or a deleted one whose
\* addresses were taken since, fails the whole transaction.
Activatable(u, role) ==
    /\ u # NoUser
    /\ account[u].status # "none"
    /\ role \notin account[u].profiles
    /\ ~IndexRefusesRow(u)

\* Completes a registration or a social sign-up.  A registration by email also
\* stamps a phone that was proved before.
Activates(c) ==
    LET i == request[c].code
        code == codes[i]
        verified == code.to \in Phones \/ Proved(account[code.user].phone)
    IN  /\ request[c].pc = "entered"
        /\ code.purpose = "register" \/ code.completes
        /\ IF Found(i) /\ Activatable(code.user, code.role)
           THEN account' = Activated(code.user, code.role, verified) /\ codes' = Entered(i)
           ELSE UNCHANGED <<account, codes>>
        /\ Finishes(c)
        /\ UNCHANGED left

\* A phone is proved; an account the code was sent for is stamped.
ProvesPhone(c) ==
    LET i == request[c].code
        u == codes[i].user
    IN  /\ request[c].pc = "entered"
        /\ codes[i].purpose = "verify_phone" /\ ~codes[i].completes
        /\ codes' = IF Found(i) THEN Entered(i) ELSE codes
        /\ account' = IF u = NoUser \/ ~Found(i) THEN account
                      ELSE [account EXCEPT ![u].phoneVerified = TRUE]
        /\ Finishes(c)
        /\ UNCHANGED left

-----------------------------------------------------------------------------
(* Change of phone.                                                           *)

requestPhoneChange(c, u, p) ==
    /\ Starts(c)
    /\ account[u].status = "active"
    /\ account[u].phone # p
    /\ ~ClaimedElsewhere(p, u)
    /\ Asks(c, NewCode(p, "verify_phone", u, NoRole, FALSE))
    /\ UNCHANGED account

\* Only a code sent for this account confirms its change.
PhoneChangeReads(c, i) ==
    LET u == codes[i].user
    IN  /\ Starts(c)
        /\ LatestLive(i, codes[i].to, "verify_phone")
        /\ u # NoUser
        /\ account[u].status = "active"
        /\ ~ClaimedElsewhere(codes[i].to, u)
        /\ Moves(c, [pc |-> "changing", code |-> i])
        /\ UNCHANGED <<account, codes>>

PhoneChangeCommits(c) ==
    LET i == request[c].code
        u == codes[i].user
        p == codes[i].to
    IN  /\ request[c].pc = "changing"
        /\ IF Found(i) /\ (account[u].status = "deleted" \/ ~IndexRefuses(p, u))
           THEN /\ codes' = Entered(i)
                /\ account' = [account EXCEPT ![u].phone = p, ![u].phoneVerified = TRUE]
           ELSE UNCHANGED <<account, codes>>
        /\ Finishes(c)
        /\ UNCHANGED left

-----------------------------------------------------------------------------
(* Social sign-up with the provider's account of address e.                   *)

Completes(c, u, r) == Moves(c, [pc |-> "completing", user |-> u, role |-> r])

\* The row linked to the provider's account, or else a linked row under its
\* address that is not erased, which is linked anew.
SocialRow(e, u) ==
    \/ account[u].social = e
    \/ /\ \A v \in Users : account[v].social # e
       /\ account[u].email = e /\ ~account[u].erased /\ account[u].status # "none"
       /\ account[u].social # NoAddress

\* A linked account that is complete and active gets the profile of the role.
socialLogin(c, u, e, r) ==
    LET waits == account[u].phone = NoAddress \/ Pending(u)
        gets == ~waits /\ account[u].status = "active"
    IN  /\ Starts(c)
        /\ SocialRow(e, u)
        /\ account' = [account EXCEPT ![u].social = e,
                                      ![u].profiles = @ \cup IF gets THEN {r} ELSE {}]
        /\ IF waits THEN Completes(c, u, r) ELSE UNCHANGED request
        /\ UNCHANGED codes

socialSignUp(c, e, r) ==
    /\ Starts(c)
    /\ \A v \in Users : account[v].social # e
    /\ ~IndexRefuses(e, NoUser)
    /\ \E u \in Users :
           /\ account[u].status = "none"
           /\ account' = [account EXCEPT ![u] =
                 [NoAccount EXCEPT !.status = "pending_verification", !.email = e, !.social = e]]
           /\ Completes(c, u, r)
    /\ UNCHANGED codes

\* The index also counts the pending rows that assertIdentifierAvailable skips.
socialComplete(c, p) ==
    LET u == request[c].user
    IN  /\ request[c].pc = "completing"
        /\ IF /\ account[u].status # "none"
              /\ account[u].phone = NoAddress \/ Pending(u)
              /\ ~IndexRefuses(p, u)
           THEN /\ account' = [account EXCEPT ![u].phone = p]
                /\ Asks(c, NewCode(p, "verify_phone", u, request[c].role, TRUE))
           ELSE UNCHANGED <<account, codes>> /\ Finishes(c)
        /\ UNCHANGED left
=============================================================================
