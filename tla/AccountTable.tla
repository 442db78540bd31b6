---------------------------- MODULE AccountTable ----------------------------
(* The users table of the user service with the profiles that hang off it,    *)
(* and the otp_challenges table.  A row of Users that was never written, or   *)
(* was deleted for good, has status "none".                                   *)
EXTENDS Naturals, FiniteSets, Sequences, SequencesExt

CONSTANTS Users,      \* ids a row may get
          Roles,      \* customer and expert
          Phones, Emails,
          NoUser,     \* otp_challenges.user_id = NULL
          NoAddress,  \* a NULL phone or email
          NoRole,     \* registration_data = NULL
          MaxCodes    \* bound on the rows of otp_challenges

ASSUME AddressAssumption ==
    /\ Phones \cap Emails = {}
    /\ NoAddress \notin Phones \cup Emails
    /\ NoUser \notin Users /\ NoRole \notin Roles
    /\ MaxCodes \in Nat \ {0}

VARIABLES account,   \* Users -> the row and its profiles
          codes      \* otp_challenges in the order of created_at

Statuses == {"none", "pending_verification", "active", "suspended", "deleted"}
Purposes == {"register", "verify_phone"}
Addresses == Phones \cup Emails

\* phoneVerified is phone_verified_at and erased is deleted_at, set or not; social
\* is firebase_uid, named by the address of the provider's account.
Account == [status : Statuses, email : Emails \cup {NoAddress}, phone : Phones \cup {NoAddress},
            phoneVerified : BOOLEAN, profiles : SUBSET Roles,
            erased : BOOLEAN, social : Emails \cup {NoAddress}]

NoAccount == [status |-> "none", email |-> NoAddress, phone |-> NoAddress, phoneVerified |-> FALSE,
              profiles |-> {}, erased |-> FALSE, social |-> NoAddress]

\* registration_data is the role it names, if any, and whether it completes a
\* social sign-up.  consumed_at is set when the right code was entered and also when a
\* later code supersedes this one; the two are told apart here.  An expired row
\* is one whose expires_at has passed unconsumed.
Code == [to : Addresses, purpose : Purposes, user : Users \cup {NoUser}, role : Roles \cup {NoRole},
         completes : BOOLEAN, state : {"live", "entered", "superseded", "expired", "removed"}]

-----------------------------------------------------------------------------
Pending(u) == account[u].status = "pending_verification"

\* claimedAvailabilityFilter
Claimed(u) ==
    account[u].status \notin {"none", "pending_verification", "deleted"} /\ ~account[u].erased

Holds(u, address) == address \in {account[u].email, account[u].phone}

ClaimedElsewhere(address, u) == \E v \in Users \ {u} : Claimed(v) /\ Holds(v, address)

\* Mutant of IndexRefuses: the indexes cover verified accounts only.
IndexRefusesVerified(address, u) == ClaimedElsewhere(address, u)

\* Whether the partial unique indexes of users refuse writing the address to
\* the row u: they cover every row that is not deleted, pending ones included.
IndexRefuses(address, u) ==
    \E v \in Users \ {u} : account[v].status \notin {"none", "deleted"} /\ Holds(v, address)

\* Whether they refuse counting a deleted row u among them again.
IndexRefusesRow(u) ==
    /\ account[u].status = "deleted"
    /\ \E a \in {account[u].email, account[u].phone} \ {NoAddress} : IndexRefuses(a, u)

Codes == DOMAIN codes
Live(i) == codes[i].state = "live"

\* findValidOtpChallenge's row: the newest live one for the address.
LatestLive(i, to, purpose) ==
    LET wanted(j) == codes[j].to = to /\ codes[j].purpose = purpose /\ Live(j)
    IN  i \in Codes /\ wanted(i) /\ \A j \in Codes : wanted(j) => j <= i

\* A registration of u waits for its code.
InProgress(u) ==
    \E i \in Codes : codes[i].user = u /\ codes[i].purpose = "register" /\ Live(i)

\* The proof of a phone that register asks for: a verify_phone row with
\* consumed_at set.  The thirty minutes it may be old are not counted: a proof
\* that is too old is a request that is refused.
Proved(phone) ==
    \E i \in Codes : /\ codes[i].to = phone
                    /\ codes[i].purpose = "verify_phone"
                    /\ codes[i].state \in {"entered", "superseded"}

\* The live rows among those move to the given state.
Marked(those, state) ==
    [i \in Codes |-> IF i \in those /\ Live(i) THEN [codes[i] EXCEPT !.state = state] ELSE codes[i]]

TableInit ==
    /\ account = [u \in Users |-> NoAccount]
    /\ codes = << >>

TableTypeOK ==
    /\ account \in [Users -> Account]
    /\ codes \in Seq(Code)
    /\ Len(codes) <= MaxCodes
=============================================================================
