---------------------------- MODULE AccountProofs ----------------------------
(***************************************************************************)
(* What holds of the accounts for every number of users, addresses, codes, *)
(* clients and requests.                                                   *)
(***************************************************************************)
EXTENDS AccountSystem, FiniteSetTheorems, SequenceTheorems, WellFoundedInduction, TLAPS

-----------------------------------------------------------------------------
(* The inductive invariant.                                                 *)

\* A row that was never written, or was merged away, has no address and no profile.
EmptyRows ==
    \A u \in Users : account[u].status = "none" =>
       /\ account[u].email = NoAddress /\ account[u].phone = NoAddress
       /\ account[u].social = NoAddress /\ account[u].profiles = {}

\* A code that will make a profile names the account and the role, and one that
\* proves a phone was sent to a phone.
Meant(code) ==
    /\ code.purpose = "register" \/ code.completes => code.user \in Users /\ code.role \in Roles
    /\ code.purpose = "verify_phone" => code.to \in Phones

\* What requests remember stays true until they write.
RequestsKnow ==
    \A c \in Clients :
       /\ request[c].pc = "delivering" => Meant(request[c].sent)
       /\ request[c].pc \in {"entered", "changing"} => request[c].code \in Codes
       /\ request[c].pc = "changing" =>
             /\ codes[request[c].code].purpose = "verify_phone"
             /\ codes[request[c].code].user \in Users

Counted(u) == account[u].status \notin {"none", "deleted"}

\* OneAccountPerAddress, address by address.
AddressesApart ==
    \A u, v \in Users : \A a \in Addresses :
       u # v /\ Counted(u) /\ Counted(v) => ~(Holds(u, a) /\ Holds(v, a))

RowsSound ==
    /\ account \in [Users -> Account]
    /\ EmptyRows /\ AddressesApart

CodesSound ==
    /\ codes \in Seq(Code) /\ Len(codes) <= MaxCodes
    /\ \A i \in Codes : Meant(codes[i])

RequestsSound ==
    /\ request \in [Clients -> Request] /\ left \in [Clients -> 0..MaxRequests]
    /\ RequestsKnow

AccountInv == RowsSound /\ CodesSound /\ RequestsSound

(* Nobody has signed up yet. *)
LEMMA Starts0 == Init => AccountInv
<1> SUFFICES ASSUME Init PROVE AccountInv
  OBVIOUS
<1>1. RowsSound
  BY AddressAssumption
  DEF Init, TableInit, RowsSound, Account, NoAccount, Statuses, EmptyRows, AddressesApart, Counted
<1>2. CodesSound
  BY AddressAssumption DEF Init, TableInit, CodesSound, Codes
<1>3. RequestsSound
  BY RequestsAssumption DEF Init, RequestsSound, RequestsKnow, Idle, Request
<1> QED
  BY <1>1, <1>2, <1>3 DEF AccountInv

-----------------------------------------------------------------------------
(* Rows.                                                                    *)

(* The two ways to say that no address is shared. *)
LEMMA ApartIsOne == RowsSound => OneAccountPerAddress
<1> SUFFICES ASSUME RowsSound, NEW u \in Users, NEW v \in Users, u # v, Counted(u), Counted(v),
                    NEW a, a \in {account[u].email, account[u].phone},
                    a \in {account[v].email, account[v].phone}
             PROVE  a = NoAddress
  BY DEF OneAccountPerAddress, Counted
<1>1. a \in Addresses \cup {NoAddress}
  BY DEF RowsSound, Account, Addresses
<1> QED
  BY <1>1 DEF RowsSound, AddressesApart, Holds

(* The indexes accept the addresses a counted row has. *)
LEMMA OwnAddresses ==
    ASSUME RowsSound, NEW u \in Users, Counted(u), NEW a \in Addresses, Holds(u, a)
    PROVE  ~IndexRefuses(a, u)
BY DEF RowsSound, AddressesApart, IndexRefuses, Counted

(* A row that comes to be deleted no more brings no address of another one. *)
LEMMA ReturningAddresses ==
    ASSUME RowsSound, NEW u \in Users, account[u].status # "none", ~IndexRefusesRow(u),
           NEW a \in Addresses, Holds(u, a)
    PROVE  ~IndexRefuses(a, u)
<1>1. CASE account[u].status = "deleted"
  <2>1. a # NoAddress
    BY AddressAssumption DEF Addresses
  <2> QED
    BY <1>1, <2>1 DEF IndexRefusesRow, Holds
<1>2. CASE account[u].status # "deleted"
  BY <1>2, OwnAddresses DEF Counted
<1> QED
  BY <1>1, <1>2

(* Writing one row keeps what is said about all of them. *)
LEMMA RowWritten ==
    ASSUME RowsSound, NEW u \in Users, NEW new \in Account,
           account' = [account EXCEPT ![u] = new],
           new.status = "none" => /\ new.email = NoAddress /\ new.phone = NoAddress
                                  /\ new.social = NoAddress /\ new.profiles = {},
           new.status \notin {"none", "deleted"} =>
              \A a \in Addresses \cap {new.email, new.phone} : ~IndexRefuses(a, u)
    PROVE  RowsSound'
<1>1. /\ account \in [Users -> Account] /\ account' \in [Users -> Account]
      /\ account'[u] = new /\ \A v \in Users \ {u} : account'[v] = account[v]
  BY DEF RowsSound
<1>2. EmptyRows'
  BY <1>1 DEF RowsSound, EmptyRows
<1>3. AddressesApart'
  <2> SUFFICES ASSUME NEW v \in Users, NEW w \in Users, NEW a \in Addresses, v # w,
                      Counted(v)', Counted(w)', Holds(v, a)', Holds(w, a)'
               PROVE  FALSE
    BY DEF AddressesApart
  <2>1. ASSUME NEW x \in Users, x # u, Counted(x)', Holds(x, a)'
        PROVE  Counted(x) /\ Holds(x, a)
    BY <1>1, <2>1 DEF Counted, Holds
  <2>2. ASSUME NEW x \in Users, x # u, Counted(x)', Holds(x, a)', Counted(u)', Holds(u, a)'
        PROVE  FALSE
    BY <1>1, <2>1, <2>2 DEF Counted, Holds, IndexRefuses
  <2>3. CASE v # u /\ w # u
    BY <2>1, <2>3 DEF RowsSound, AddressesApart
  <2> QED
    BY <2>2, <2>3
<1> QED
  BY <1>1, <1>2, <1>3 DEF RowsSound

-----------------------------------------------------------------------------
(* Codes.                                                                   *)

\* The codes sent so far are there and name what they named.
CodesStay ==
    /\ codes' \in Seq(Code) /\ Len(codes) <= Len(codes')
    /\ \A i \in Codes : /\ codes'[i].user = codes[i].user /\ codes'[i].role = codes[i].role
                        /\ codes'[i].purpose = codes[i].purpose /\ codes'[i].to = codes[i].to
                        /\ codes'[i].completes = codes[i].completes

(* Codes that were rewritten in nothing but their states are sound. *)
LEMMA StatesMove ==
    ASSUME CodesSound, codes' \in Seq(Code), Len(codes') = Len(codes),
           \A i \in Codes : \E s \in {"live", "entered", "superseded", "expired", "removed"} :
              codes'[i] = [codes[i] EXCEPT !.state = s]
    PROVE  CodesSound' /\ CodesStay
<1>1. codes \in [1..Len(codes) -> Code] /\ Len(codes) \in Nat /\ Codes = 1..Len(codes)
      /\ Codes' = 1..Len(codes')
  BY ElementOfSeq DEF CodesSound, Codes
<1>2. \A i \in Codes : /\ codes'[i].user = codes[i].user /\ codes'[i].role = codes[i].role
                       /\ codes'[i].purpose = codes[i].purpose /\ codes'[i].to = codes[i].to
                       /\ codes'[i].completes = codes[i].completes
  BY <1>1 DEF Code
<1>3. \A i \in Codes' : Meant(codes'[i])
  BY <1>1, <1>2 DEF CodesSound, Meant
<1> QED
  BY <1>1, <1>2, <1>3 DEF CodesSound, CodesStay

(* Marking some of them keeps them sound. *)
LEMMA MarkedMove ==
    ASSUME CodesSound, NEW those,
           NEW state \in {"live", "entered", "superseded", "expired", "removed"},
           codes' = Marked(those, state)
    PROVE  CodesSound' /\ CodesStay
<1>1. codes \in [1..Len(codes) -> Code] /\ Len(codes) \in Nat /\ Codes = 1..Len(codes)
  BY LenProperties DEF CodesSound, Codes
<1>2. \A i \in 1..Len(codes) : codes'[i] = IF i \in those /\ Live(i)
                                           THEN [codes[i] EXCEPT !.state = state] ELSE codes[i]
  BY <1>1 DEF Marked
<1>3. \A i \in 1..Len(codes) : codes'[i] \in Code
  BY <1>1, <1>2 DEF Code
<1>4. codes' \in [1..Len(codes) -> Code]
  BY <1>1, <1>3 DEF Marked
<1>5. codes' \in Seq(Code) /\ Len(codes') = Len(codes)
  BY <1>1, <1>4, SeqDef
<1>6. \A i \in Codes : codes[i] = [codes[i] EXCEPT !.state = codes[i].state]
                       /\ codes[i].state \in {"live", "entered", "superseded", "expired", "removed"}
  BY <1>1 DEF Code
<1>7. \A i \in Codes : \E s \in {"live", "entered", "superseded", "expired", "removed"} :
         codes'[i] = [codes[i] EXCEPT !.state = s]
  BY <1>1, <1>2, <1>6
<1> QED
  BY <1>5, <1>7, StatesMove

(* So does leaving them alone. *)
LEMMA CodesUnchanged == CodesSound /\ UNCHANGED codes => CodesSound' /\ CodesStay
<1> SUFFICES ASSUME CodesSound, UNCHANGED codes PROVE CodesSound' /\ CodesStay
  OBVIOUS
<1>1. codes \in [1..Len(codes) -> Code] /\ Codes = 1..Len(codes) /\ Len(codes) \in Nat
  BY ElementOfSeq DEF CodesSound, Codes
<1>2. \A i \in Codes : codes[i] = [codes[i] EXCEPT !.state = codes[i].state]
                       /\ codes[i].state \in {"live", "entered", "superseded", "expired", "removed"}
  BY <1>1 DEF Code
<1> QED
  BY <1>1, <1>2, StatesMove DEF CodesSound

(* Entering a code changes its state. *)
LEMMA EnteredMove ==
    ASSUME CodesSound, NEW i \in Codes, codes' = Entered(i)
    PROVE  CodesSound' /\ CodesStay
<1>1. codes \in [1..Len(codes) -> Code] /\ Codes = 1..Len(codes) /\ Len(codes) \in Nat
  BY ElementOfSeq DEF CodesSound, Codes
<1>2. codes' = [codes EXCEPT ![i] = [codes[i] EXCEPT !.state = "entered"]]
  BY DEF Entered
<1>3. \A k \in Codes : codes'[k] = IF k = i THEN [codes[k] EXCEPT !.state = "entered"] ELSE codes[k]
  BY <1>1, <1>2
<1>4. codes' \in [1..Len(codes) -> Code]
  <2>1. [codes[i] EXCEPT !.state = "entered"] \in Code
    BY <1>1 DEF Code
  <2> QED
    BY <1>1, <1>2, <2>1
<1>5. codes' \in Seq(Code) /\ Len(codes') = Len(codes)
  BY <1>1, <1>4, SeqDef
<1>6. \A k \in Codes : codes[k] = [codes[k] EXCEPT !.state = codes[k].state]
                       /\ codes[k].state \in {"live", "entered", "superseded", "expired", "removed"}
  BY <1>1 DEF Code
<1> QED
  BY <1>3, <1>5, <1>6, StatesMove

(* Merging registrations marks some codes and those of the merged rows. *)
LEMMA MergedMove ==
    ASSUME CodesSound, NEW others, NEW keep, codes' = MergedCodes(others, keep)
    PROVE  CodesSound' /\ CodesStay
<1>1. codes \in [1..Len(codes) -> Code] /\ Codes = 1..Len(codes) /\ Len(codes) \in Nat
  BY ElementOfSeq DEF CodesSound, Codes
<1>2. \A i \in Codes : codes[i] = [codes[i] EXCEPT !.state = codes[i].state]
                       /\ codes[i].state \in {"live", "entered", "superseded", "expired", "removed"}
  BY <1>1 DEF Code
<1>3. \A i \in Codes : \E s \in {"live", "entered", "superseded", "expired", "removed"} :
         codes'[i] = [codes[i] EXCEPT !.state = s]
  <2> SUFFICES ASSUME NEW i \in Codes
               PROVE  \E s \in {"live", "entered", "superseded", "expired", "removed"} :
                         codes'[i] = [codes[i] EXCEPT !.state = s]
    OBVIOUS
  <2>1. codes'[i] \in {[codes[i] EXCEPT !.state = "removed"],
                       [codes[i] EXCEPT !.state = "superseded"], codes[i]}
    BY <1>1 DEF MergedCodes
  <2> QED
    BY <1>2, <2>1
<1>4. \A i \in Codes : codes'[i] \in Code
  <2> SUFFICES ASSUME NEW i \in Codes PROVE codes'[i] \in Code
    OBVIOUS
  <2>1. PICK s \in {"live", "entered", "superseded", "expired", "removed"} :
           codes'[i] = [codes[i] EXCEPT !.state = s]
    BY <1>3
  <2>2. codes[i] \in Code
    BY <1>1
  <2> QED
    BY <2>1, <2>2 DEF Code
<1>5. codes' \in [1..Len(codes) -> Code]
  BY <1>1, <1>4 DEF MergedCodes
<1>6. codes' \in Seq(Code) /\ Len(codes') = Len(codes)
  BY <1>1, <1>5, SeqDef
<1> QED
  BY <1>3, <1>6, StatesMove

(* A code that names what it must is added. *)
LEMMA AddedMove ==
    ASSUME CodesSound, NEW new \in Code, Meant(new), Len(codes) < MaxCodes,
           codes' = Append(codes, new)
    PROVE  CodesSound' /\ CodesStay
<1>1. codes \in Seq(Code) /\ Codes = 1..Len(codes) /\ Len(codes) \in Nat /\ MaxCodes \in Nat
  BY ElementOfSeq, AddressAssumption DEF CodesSound, Codes
<1>2. /\ codes' \in Seq(Code) /\ Len(codes') = Len(codes) + 1
      /\ \A i \in 1..Len(codes) : codes'[i] = codes[i]
      /\ codes'[Len(codes) + 1] = new
  BY <1>1, AppendProperties
<1>3. Codes' = 1..(Len(codes) + 1)
  BY <1>2, ElementOfSeq DEF Codes
<1>4. ASSUME NEW i \in Codes' PROVE Meant(codes'[i])
  <2>1. CASE i \in Codes
    <3>1. codes'[i] = codes[i] /\ Meant(codes[i])
      BY <1>1, <1>2, <2>1 DEF CodesSound
    <3> QED
      BY <3>1 DEF Meant
  <2>2. CASE i = Len(codes) + 1
    BY <1>2, <2>2 DEF Meant
  <2> QED
    BY <1>1, <1>3, <2>1, <2>2
<1>5. \A i \in Codes : codes'[i] = codes[i]
  BY <1>1, <1>2
<1>6. CodesSound'
  <2>1. Len(codes') <= MaxCodes
    BY <1>1, <1>2
  <2>2. \A i \in Codes' : Meant(codes'[i])
    BY <1>4
  <2> QED
    BY <1>2, <2>1, <2>2 DEF CodesSound
<1> QED
  BY <1>1, <1>2, <1>5, <1>6 DEF CodesStay

-----------------------------------------------------------------------------
(* Requests.                                                                *)

(* What the other requests remember stays true. *)
LEMMA OneRequestMoves ==
    ASSUME RequestsSound, CodesSound, CodesStay,
           NEW c \in Clients, NEW r \in Request, request' = [request EXCEPT ![c] = r],
           left' \in [Clients -> 0..MaxRequests],
           r.pc = "delivering" => Meant(r.sent),
           r.pc \in {"entered", "changing"} => r.code \in Codes,
           r.pc = "changing" => /\ codes[r.code].purpose = "verify_phone"
                                /\ codes[r.code].user \in Users
    PROVE  RequestsSound'
<1>1. /\ request \in [Clients -> Request] /\ request' \in [Clients -> Request]
      /\ request'[c] = r /\ \A d \in Clients \ {c} : request'[d] = request[d]
  BY DEF RequestsSound
<1>2. Codes \subseteq Codes'
  <2>1. Codes = 1..Len(codes) /\ Codes' = 1..Len(codes') /\ Len(codes) \in Nat /\ Len(codes') \in Nat
    BY LenProperties DEF Codes, CodesSound, CodesStay
  <2> QED
    BY <2>1 DEF CodesStay
<1>3. ASSUME NEW d \in Clients
      PROVE  /\ request'[d].pc = "delivering" => Meant(request'[d].sent)
             /\ request'[d].pc \in {"entered", "changing"} => request'[d].code \in Codes
             /\ request'[d].pc = "changing" =>
                   /\ codes[request'[d].code].purpose = "verify_phone"
                   /\ codes[request'[d].code].user \in Users
  <2>1. CASE d = c
    BY <1>1, <2>1
  <2>2. CASE d # c
    BY <1>1, <2>2 DEF RequestsSound, RequestsKnow
  <2> QED
    BY <2>1, <2>2
<1>4. ASSUME NEW d \in Clients
      PROVE  /\ request'[d].pc \in {"entered", "changing"} => request'[d].code \in Codes'
             /\ request'[d].pc = "changing" =>
                   /\ codes'[request'[d].code].purpose = "verify_phone"
                   /\ codes'[request'[d].code].user \in Users
  BY <1>2, <1>3 DEF CodesStay
<1>5. RequestsKnow'
  BY <1>3, <1>4 DEF RequestsKnow, Meant
<1> QED
  BY <1>1, <1>5 DEF RequestsSound

(* Nor do steps of no request disturb any. *)
LEMMA NoRequestMoves ==
    ASSUME RequestsSound, CodesSound, CodesStay, UNCHANGED <<request, left>>
    PROVE  RequestsSound'
<1>1. Codes \subseteq Codes'
  <2>1. Codes = 1..Len(codes) /\ Codes' = 1..Len(codes') /\ Len(codes) \in Nat /\ Len(codes') \in Nat
    BY LenProperties DEF Codes, CodesSound, CodesStay
  <2> QED
    BY <2>1 DEF CodesStay
<1>2. RequestsKnow'
  BY <1>1 DEF RequestsSound, RequestsKnow, CodesStay, Meant
<1> QED
  BY <1>2 DEF RequestsSound

(* A client that may start has one request fewer left. *)
LEMMA OneFewer ==
    ASSUME RequestsSound, NEW c \in Clients, Starts(c)
    PROVE  left' \in [Clients -> 0..MaxRequests]
<1>1. left[c] \in 0..MaxRequests /\ left[c] > 0
  BY DEF RequestsSound, Starts
<1>2. left[c] - 1 \in 0..MaxRequests
  BY <1>1, RequestsAssumption
<1> QED
  BY <1>2 DEF RequestsSound, Starts

(* A request that ends, or starts with a code to deliver, remembers nothing else. *)
LEMMA EndsOrDelivers ==
    ASSUME RequestsSound, CodesSound, CodesStay, NEW c \in Clients,
           left' \in [Clients -> 0..MaxRequests],
           \/ Finishes(c)
           \/ \E code \in Code : Meant(code) /\ Moves(c, Delivering(code))
    PROVE  RequestsSound'
<1>1. CASE Finishes(c)
  <2>1. Idle \in Request /\ Idle.pc = "idle" /\ request' = [request EXCEPT ![c] = Idle]
    BY <1>1 DEF Finishes, Idle, Request
  <2> HIDE DEF Idle
  <2> QED
    BY <2>1, OneRequestMoves
<1>2. ASSUME NEW code \in Code, Meant(code), Moves(c, Delivering(code)) PROVE RequestsSound'
  <2>1. PICK r : r = Delivering(code)
    OBVIOUS
  <2>2. r \in Request /\ r.pc = "delivering" /\ r.sent = code /\ request' = [request EXCEPT ![c] = r]
    BY <1>2, <2>1 DEF Moves, Delivering, Request
  <2> QED
    BY <1>2, <2>2, OneRequestMoves
<1> QED
  BY <1>1, <1>2

(* A step that changes no account. *)
LEMMA SameAccounts ==
    ASSUME RowsSound, UNCHANGED account PROVE RowsSound'
BY DEF RowsSound, EmptyRows, AddressesApart, Counted, Holds

-----------------------------------------------------------------------------
(* Steps that change no account.                                            *)

(* createAndDeliverOtp. *)
LEMMA AsksKept ==
    ASSUME RowsSound, CodesSound, RequestsSound, NEW c \in Clients, NEW code \in Code, Meant(code),
           Asks(c, code), left' \in [Clients -> 0..MaxRequests]
    PROVE  CodesSound' /\ RequestsSound'
<1>1. CodesSound' /\ CodesStay
  <2>1. PICK those : codes' = Marked(those, "superseded")
    BY DEF Asks, Superseding
  <2> QED
    BY <2>1, MarkedMove
<1>2. Moves(c, Delivering(code))
  BY DEF Asks
<1> QED
  BY <1>1, <1>2, EndsOrDelivers

(* A new code has the fields of a row. *)
LEMMA NewCodeTyped ==
    ASSUME NEW to \in Addresses, NEW purpose \in Purposes, NEW user \in Users \cup {NoUser},
           NEW role \in Roles \cup {NoRole}, NEW completes \in BOOLEAN,
           purpose = "register" \/ completes => user \in Users /\ role \in Roles,
           purpose = "verify_phone" => to \in Phones
    PROVE  NewCode(to, purpose, user, role, completes) \in Code
           /\ Meant(NewCode(to, purpose, user, role, completes))
BY DEF NewCode, Code, Meant

(* sendOtp *)
LEMMA sendOtpKept ==
    ASSUME AccountInv, NEW c \in Clients, NEW p \in Phones, sendOtp(c, p) PROVE AccountInv'
<1>1. left' \in [Clients -> 0..MaxRequests]
  BY OneFewer DEF AccountInv, sendOtp
<1>2. RowsSound'
  BY SameAccounts DEF AccountInv, sendOtp
<1>3. PICK code \in Code : Meant(code) /\ Asks(c, code)
  <2>1. PICK code : code = NewCode(p, "verify_phone", NoUser, NoRole, FALSE)
    OBVIOUS
  <2>2. code \in Code /\ Meant(code)
    BY <2>1, NewCodeTyped DEF Addresses, Purposes
  <2> QED
    BY <2>1, <2>2 DEF sendOtp
<1> QED
  BY <1>1, <1>2, <1>3, AsksKept DEF AccountInv

(* requestPhoneChange *)
LEMMA requestPhoneChangeKept ==
    ASSUME AccountInv, NEW c \in Clients, NEW u \in Users, NEW p \in Phones,
           requestPhoneChange(c, u, p)
    PROVE  AccountInv'
<1>1. left' \in [Clients -> 0..MaxRequests]
  BY OneFewer DEF AccountInv, requestPhoneChange
<1>2. RowsSound'
  BY SameAccounts DEF AccountInv, requestPhoneChange
<1>3. PICK code \in Code : Meant(code) /\ Asks(c, code)
  <2>1. PICK code : code = NewCode(p, "verify_phone", u, NoRole, FALSE)
    OBVIOUS
  <2>2. code \in Code /\ Meant(code)
    BY <2>1, NewCodeTyped DEF Addresses, Purposes
  <2> QED
    BY <2>1, <2>2 DEF requestPhoneChange
<1> QED
  BY <1>1, <1>2, <1>3, AsksKept DEF AccountInv

(* What a request carries, stage by stage. *)
LEMMA Carried ==
    ASSUME RequestsSound, NEW c \in Clients
    PROVE  /\ request[c].pc = "registering" =>
                /\ request[c].email \in Emails /\ request[c].phone \in Phones
                /\ request[c].role \in Roles /\ request[c].existing \in Users \cup {NoUser}
           /\ request[c].pc = "completing" => request[c].user \in Users /\ request[c].role \in Roles
           /\ request[c].pc = "delivering" => request[c].sent \in Code /\ Meant(request[c].sent)
           /\ request[c].pc \in {"entered", "changing"} => request[c].code \in Codes
<1>1. request[c] \in Request
  BY DEF RequestsSound
<1>2. /\ request[c].pc = "registering" =>
                /\ request[c].email \in Emails /\ request[c].phone \in Phones
                /\ request[c].role \in Roles /\ request[c].existing \in Users \cup {NoUser}
      /\ request[c].pc = "completing" => request[c].user \in Users /\ request[c].role \in Roles
      /\ request[c].pc = "delivering" => request[c].sent \in Code
  BY <1>1 DEF Request
<1> QED
  BY <1>2 DEF RequestsSound, RequestsKnow

(* A code that is there has the fields of a row and names what it must. *)
LEMMA CodeTyped ==
    ASSUME CodesSound, NEW i \in Codes PROVE codes[i] \in Code /\ Meant(codes[i])
<1>1. codes \in [1..Len(codes) -> Code] /\ Codes = 1..Len(codes)
  BY LenProperties DEF CodesSound, Codes
<1> QED
  BY <1>1 DEF CodesSound

(* A finite set of numbers has a last one. *)
LEMMA LastCode ==
    ASSUME NEW S, S \subseteq Nat, IsFiniteSet(S), NEW F \in SUBSET S, F # {} PROVE Max(F) \in F
<1>n. \A x \in F : x \in Nat
  OBVIOUS
<1>2. IsWellFoundedOn(StrictSubsetOrdering(S), SUBSET S)
  BY FS_StrictSubsetOrderingWellFounded, FS_FiniteSubsetsOfFinite
<1>3. PICK T : T = {{s \in F : s > x} : x \in F}
  OBVIOUS
<1>4. T \subseteq SUBSET S /\ T # {}
  BY <1>3
<1>5. PICK A \in T : \A B \in T : ~(<<B, A>> \in StrictSubsetOrdering(S))
  BY <1>2, <1>4, WFMin
<1>6. PICK l \in F : A = {s \in F : s > l}
  BY <1>3
<1>7. ASSUME NEW s \in F PROVE l >= s
  <2>1. PICK B \in T : B = {x \in F : x > s}
    BY <1>3
  <2>2. CASE s > l
    <3>1. B \subseteq A /\ s \in A /\ s \notin B
      <4>1. ASSUME NEW x \in F, x > s PROVE x > l
        <5>1. x \in Nat /\ s \in Nat /\ l \in Nat
          BY <1>n
        <5> QED
          BY <4>1, <5>1, <2>2
      <4>2. ~(s > s)
        <5>1. s \in Nat
          BY <1>n
        <5> QED
          BY <5>1
      <4> QED
        BY <1>6, <2>1, <2>2, <4>1, <4>2
    <3>2. <<B, A>> \in StrictSubsetOrdering(S)
      <4>1. A \in SUBSET S /\ B \in SUBSET S /\ B \subseteq A /\ B # A
        BY <1>4, <3>1
      <4> QED
        BY <4>1 DEF StrictSubsetOrdering
    <3> QED
      BY <1>5, <3>2
  <2> QED
    BY <1>n, <2>2
<1> QED
  BY <1>7, Zenon DEF Max

(* resendOtp *)
LEMMA resendOtpKept ==
    ASSUME AccountInv, NEW c \in Clients, NEW p \in Phones, resendOtp(c, p) PROVE AccountInv'
<1>1. left' \in [Clients -> 0..MaxRequests]
  BY OneFewer DEF AccountInv, resendOtp
<1>2. RowsSound'
  BY SameAccounts DEF AccountInv, resendOtp
<1>3. PICK sent \in SUBSET Codes : sent # {} /\ Asks(c, [codes[Max(sent)] EXCEPT !.state = "live"])
  BY DEF resendOtp
<1>4. PICK i \in Codes : Asks(c, [codes[i] EXCEPT !.state = "live"])
  <2>1. Codes = 1..Len(codes) /\ Len(codes) \in Nat
    BY LenProperties DEF Codes, AccountInv, CodesSound
  <2>2. Max(sent) \in sent
    <3>1. Codes \subseteq Nat /\ IsFiniteSet(Codes)
      BY <2>1, FS_Interval
    <3> QED
      BY <1>3, <3>1, LastCode
  <2> QED
    BY <1>3, <2>2
<1>5. PICK code \in Code : Meant(code) /\ Asks(c, code)
  <2>1. PICK code : code = [codes[i] EXCEPT !.state = "live"]
    OBVIOUS
  <2>2. codes[i] \in Code /\ Meant(codes[i])
    BY CodeTyped DEF AccountInv
  <2>3. code \in Code /\ Meant(code)
    BY <2>1, <2>2 DEF Code, Meant
  <2> QED
    BY <1>4, <2>1, <2>3
<1> QED
  BY <1>1, <1>2, <1>5, AsksKept DEF AccountInv

(* The step of register before the transaction. *)
LEMMA RegisterReadsKept ==
    ASSUME AccountInv, NEW c \in Clients, NEW e \in Emails, NEW p \in Phones, NEW r \in Roles,
           RegisterReads(c, e, p, r)
    PROVE  AccountInv'
<1>1. left' \in [Clients -> 0..MaxRequests]
  BY OneFewer DEF AccountInv, RegisterReads
<1>2. RowsSound'
  BY SameAccounts DEF AccountInv, RegisterReads
<1>3. CodesSound' /\ CodesStay
  BY CodesUnchanged DEF AccountInv, RegisterReads
<1>4. PICK existing \in Users \cup {NoUser} :
         Moves(c, [pc |-> "registering", email |-> e, phone |-> p, role |-> r, existing |-> existing])
  BY DEF RegisterReads
<1>5. PICK q : q = [pc |-> "registering", email |-> e, phone |-> p, role |-> r, existing |-> existing]
  OBVIOUS
<1>6. q \in Request /\ q.pc = "registering" /\ request' = [request EXCEPT ![c] = q]
  BY <1>4, <1>5 DEF Moves, Request
<1>7. RequestsSound'
  BY <1>1, <1>2, <1>3, <1>6, OneRequestMoves DEF AccountInv
<1> QED
  BY <1>2, <1>3, <1>7 DEF AccountInv

(* A code of a registration names the account and the role. *)
LEMMA RegisterCodesTyped ==
    ASSUME RequestsSound, NEW c \in Clients, request[c].pc = "registering", NEW u \in Users,
           NEW code \in RegisterCodes(request[c], u)
    PROVE  code \in Code /\ Meant(code)
<1>1. PICK to \in Addresses, r \in Roles : code = NewCode(to, "register", u, r, FALSE)
  BY Carried DEF RegisterCodes, Addresses
<1> QED
  BY <1>1, NewCodeTyped DEF Purposes

(* A role is added to an account. *)
LEMMA RegisterRoleKept ==
    ASSUME AccountInv, NEW c \in Clients, RegisterRole(c) PROVE AccountInv'
<1>1. left' \in [Clients -> 0..MaxRequests]
  BY DEF AccountInv, RequestsSound, RegisterRole
<1>2. RowsSound'
  BY SameAccounts DEF AccountInv, RegisterRole
<1>3. PICK u \in Users : \E code \in RegisterCodes(request[c], u) : Asks(c, code)
  BY Carried DEF RegisterRole, AccountInv
<1>4. PICK code \in Code : Meant(code) /\ Asks(c, code)
  BY <1>3, RegisterCodesTyped DEF RegisterRole, AccountInv
<1> QED
  BY <1>1, <1>2, <1>4, AsksKept DEF AccountInv

(* A request that ends without a write. *)
LEMMA EndsKept ==
    ASSUME AccountInv, NEW c \in Clients, RegisterRefused(c) \/ SendFails(c) PROVE AccountInv'
<1>1. left' \in [Clients -> 0..MaxRequests] /\ Finishes(c)
  BY DEF AccountInv, RequestsSound, RegisterRefused, SendFails
<1>2. RowsSound'
  BY SameAccounts DEF AccountInv, RegisterRefused, SendFails
<1>3. CodesSound' /\ CodesStay
  BY CodesUnchanged DEF AccountInv, RegisterRefused, SendFails
<1> QED
  BY <1>1, <1>2, <1>3, EndsOrDelivers DEF AccountInv

(* A code was delivered. *)
LEMMA DeliversKept ==
    ASSUME AccountInv, NEW c \in Clients, Delivers(c) PROVE AccountInv'
<1>1. left' \in [Clients -> 0..MaxRequests] /\ Finishes(c)
  BY DEF AccountInv, RequestsSound, Delivers
<1>2. RowsSound'
  BY SameAccounts DEF AccountInv, Delivers
<1>3. CodesSound' /\ CodesStay
  <2>1. PICK mine \in Code : mine = request[c].sent /\ Meant(mine)
    BY Carried DEF AccountInv, Delivers
  <2>2. codes' = codes \/ codes' = Append(codes, mine)
    BY <2>1 DEF Delivers
  <2>3. CASE codes' = codes
    BY <2>3, CodesUnchanged DEF AccountInv
  <2>4. CASE codes' = Append(codes, mine)
    BY <2>1, <2>4, AddedMove DEF AccountInv, Delivers
  <2> QED
    BY <2>2, <2>3, <2>4
<1> QED
  BY <1>1, <1>2, <1>3, EndsOrDelivers DEF AccountInv

(* verifyOtp reads the code. *)
LEMMA EntersCodeKept ==
    ASSUME AccountInv, NEW c \in Clients, NEW i \in Codes, EntersCode(c, i) PROVE AccountInv'
<1>1. left' \in [Clients -> 0..MaxRequests]
  BY OneFewer DEF AccountInv, EntersCode
<1>2. RowsSound'
  BY SameAccounts DEF AccountInv, EntersCode
<1>3. CodesSound' /\ CodesStay
  BY CodesUnchanged DEF AccountInv, EntersCode
<1>4. PICK q : q = [pc |-> "entered", code |-> i]
  OBVIOUS
<1>5. i \in 1..MaxCodes
  <2>1. Codes = 1..Len(codes) /\ Len(codes) \in Nat /\ Len(codes) <= MaxCodes /\ MaxCodes \in Nat
    BY LenProperties, AddressAssumption DEF Codes, AccountInv, CodesSound
  <2> QED
    BY <2>1
<1>6. q \in Request /\ q.pc = "entered" /\ q.code = i /\ request' = [request EXCEPT ![c] = q]
  BY <1>4, <1>5 DEF EntersCode, Moves, Request
<1>7. RequestsSound'
  BY <1>1, <1>2, <1>3, <1>6, OneRequestMoves DEF AccountInv
<1> QED
  BY <1>2, <1>3, <1>7 DEF AccountInv

(* The change of phone reads the code and the account. *)
LEMMA PhoneChangeReadsKept ==
    ASSUME AccountInv, NEW c \in Clients, NEW i \in Codes, PhoneChangeReads(c, i) PROVE AccountInv'
<1>1. left' \in [Clients -> 0..MaxRequests]
  BY OneFewer DEF AccountInv, PhoneChangeReads
<1>2. RowsSound'
  BY SameAccounts DEF AccountInv, PhoneChangeReads
<1>3. CodesSound' /\ CodesStay
  BY CodesUnchanged DEF AccountInv, PhoneChangeReads
<1>4. PICK q : q = [pc |-> "changing", code |-> i]
  OBVIOUS
<1>5. i \in 1..MaxCodes
  <2>1. Codes = 1..Len(codes) /\ Len(codes) \in Nat /\ Len(codes) <= MaxCodes /\ MaxCodes \in Nat
    BY LenProperties, AddressAssumption DEF Codes, AccountInv, CodesSound
  <2> QED
    BY <2>1
<1>6. q \in Request /\ q.pc = "changing" /\ q.code = i /\ request' = [request EXCEPT ![c] = q]
  BY <1>4, <1>5 DEF PhoneChangeReads, Moves, Request
<1>7. /\ codes[i].purpose = "verify_phone"
      /\ codes[i].user \in Users
  <2>1. codes[i] \in Code
    BY CodeTyped DEF AccountInv
  <2> QED
    BY <2>1 DEF PhoneChangeReads, LatestLive, Code
<1>8. RequestsSound'
  BY <1>1, <1>2, <1>3, <1>6, <1>7, OneRequestMoves DEF AccountInv
<1> QED
  BY <1>2, <1>3, <1>8 DEF AccountInv

(* A code runs out. *)
LEMMA CodeExpiresKept ==
    ASSUME AccountInv, NEW i \in Codes, CodeExpires(i) PROVE AccountInv'
<1>1. RowsSound'
  BY SameAccounts DEF AccountInv, CodeExpires
<1>2. CodesSound' /\ CodesStay
  <2>1. PICK those : codes' = Marked(those, "expired")
    BY DEF CodeExpires
  <2> QED
    BY <2>1, MarkedMove DEF AccountInv
<1>3. RequestsSound'
  BY <1>1, <1>2, NoRequestMoves DEF AccountInv, CodeExpires
<1> QED
  BY <1>1, <1>2, <1>3 DEF AccountInv

-----------------------------------------------------------------------------
(* Steps that write accounts.                                               *)

(* A row that is there, and comes to be counted only if no other holds its addresses. *)
LEMMA RowRules ==
    ASSUME RowsSound, NEW u \in Users
    PROVE  /\ account \in [Users -> Account] /\ account[u] \in Account
           /\ account[u].profiles # {} => account[u].status # "none"
           /\ account[u].status # "none" /\ ~IndexRefusesRow(u) =>
                 \A a \in Addresses \cap {account[u].email, account[u].phone} : ~IndexRefuses(a, u)
           /\ Counted(u) =>
                 \A a \in Addresses \cap {account[u].email, account[u].phone} : ~IndexRefuses(a, u)
<1>1. account \in [Users -> Account] /\ account[u] \in Account
  BY DEF RowsSound
<1>2. account[u].profiles # {} => account[u].status # "none"
  BY DEF RowsSound, EmptyRows
<1>3. account[u].status # "none" /\ ~IndexRefusesRow(u) =>
         \A a \in Addresses \cap {account[u].email, account[u].phone} : ~IndexRefuses(a, u)
  BY ReturningAddresses DEF Holds
<1>4. Counted(u) =>
         \A a \in Addresses \cap {account[u].email, account[u].phone} : ~IndexRefuses(a, u)
  BY OwnAddresses DEF Holds
<1> QED
  BY <1>1, <1>2, <1>3, <1>4

(* setStatus *)
LEMMA setStatusKept ==
    ASSUME AccountInv, NEW u \in Users, setStatus(u) PROVE AccountInv'
<1>1. PICK status \in {"active", "suspended"} : account' = [account EXCEPT ![u].status = status]
  BY DEF setStatus
<1>2. PICK new : new = [account[u] EXCEPT !.status = status]
  OBVIOUS
<1>3. RowsSound /\ account[u] \in Account /\ account \in [Users -> Account]
  BY RowRules DEF AccountInv
<1>4. /\ new \in Account /\ new.status = status /\ new.email = account[u].email
      /\ new.phone = account[u].phone /\ new.profiles = account[u].profiles
      /\ account' = [account EXCEPT ![u] = new]
  BY <1>1, <1>2, <1>3 DEF Account, Statuses
<1>5. account[u].status # "none" /\ ~IndexRefusesRow(u)
  BY DEF setStatus
<1>6. RowsSound'
  BY <1>3, <1>4, <1>5, RowRules, RowWritten
<1>7. CodesSound' /\ CodesStay
  BY CodesUnchanged DEF AccountInv, setStatus
<1>8. RequestsSound'
  BY <1>7, NoRequestMoves DEF AccountInv, setStatus
<1> QED
  BY <1>6, <1>7, <1>8 DEF AccountInv

(* update *)
LEMMA updateKept ==
    ASSUME AccountInv, NEW u \in Users, update(u) PROVE AccountInv'
<1>1. PICK e \in Emails \cup {account[u].email}, p \in Phones \cup {account[u].phone},
           status \in Statuses \ {"none"} :
         /\ account[u].status # "none"
         /\ status = "deleted" \/ \A a \in {e, p} \ {NoAddress} : ~IndexRefuses(a, u)
         /\ account' = [account EXCEPT ![u] = Edited(account[u], e, p, status)]
         /\ UNCHANGED <<codes, request, left>>
  BY DEF update
<1>2. PICK new : new = Edited(account[u], e, p, status)
  OBVIOUS
<1>3. RowsSound /\ account[u] \in Account /\ account \in [Users -> Account]
  BY RowRules DEF AccountInv
<1>4. /\ new \in Account /\ new.status = status /\ new.email = e /\ new.phone = p
      /\ account' = [account EXCEPT ![u] = new]
  <2>1. PICK erased \in BOOLEAN : erased = (account[u].erased \/ status = "deleted")
    OBVIOUS
  <2>2. PICK social \in Emails \cup {NoAddress} :
           social = IF status = "deleted" THEN NoAddress ELSE account[u].social
    BY <1>3 DEF Account
  <2>3. new = [account[u] EXCEPT !.email = e, !.phone = p, !.status = status,
                                 !.erased = erased, !.social = social]
    BY <1>2, <2>1, <2>2 DEF Edited
  <2> QED
    BY <1>1, <1>2, <1>3, <2>3 DEF Account
<1>5. new.status \notin {"none", "deleted"} =>
         \A a \in Addresses \cap {new.email, new.phone} : ~IndexRefuses(a, u)
  BY <1>1, <1>4, AddressAssumption DEF Addresses
<1>6. RowsSound'
  BY <1>1, <1>3, <1>4, <1>5, RowWritten
<1>7. CodesSound' /\ CodesStay
  BY <1>1, CodesUnchanged DEF AccountInv
<1>8. RequestsSound'
  BY <1>1, <1>7, NoRequestMoves DEF AccountInv
<1> QED
  BY <1>6, <1>7, <1>8 DEF AccountInv

(* remove *)
LEMMA removeKept ==
    ASSUME AccountInv, NEW u \in Users, remove(u) PROVE AccountInv'
<1>2. PICK new : new = [account[u] EXCEPT !.status = "deleted", !.erased = TRUE, !.social = NoAddress]
  OBVIOUS
<1>3. RowsSound /\ account[u] \in Account /\ account \in [Users -> Account]
  BY RowRules DEF AccountInv
<1>4. new \in Account /\ new.status = "deleted" /\ account' = [account EXCEPT ![u] = new]
  BY <1>2, <1>3 DEF remove, Account, Statuses
<1>7. RowsSound'
  BY <1>3, <1>4, RowWritten
<1>8. CodesSound' /\ CodesStay
  BY CodesUnchanged DEF AccountInv, remove
<1>9. RequestsSound'
  BY <1>8, NoRequestMoves DEF AccountInv, remove
<1> QED
  BY <1>7, <1>8, <1>9 DEF AccountInv

(* The code a request entered is there. *)
LEMMA EnteredTyped ==
    ASSUME AccountInv, NEW c \in Clients, request[c].pc \in {"entered", "changing"}
    PROVE  /\ request[c].code \in Codes
           /\ codes[request[c].code] \in Code /\ Meant(codes[request[c].code])
           /\ left \in [Clients -> 0..MaxRequests]
<1>1. request[c].code \in Codes
  BY Carried DEF AccountInv
<1>2. left \in [Clients -> 0..MaxRequests]
  BY DEF AccountInv, RequestsSound
<1> QED
  BY <1>1, <1>2, CodeTyped DEF AccountInv

(* A registration or a social sign-up is completed. *)
LEMMA ActivatesKept ==
    ASSUME AccountInv, NEW c \in Clients, Activates(c) PROVE AccountInv'
<1>1. PICK i \in Codes : /\ i = request[c].code /\ codes[i] \in Code /\ Meant(codes[i])
                        /\ left \in [Clients -> 0..MaxRequests]
  BY EnteredTyped DEF Activates
<1>2. left' \in [Clients -> 0..MaxRequests] /\ Finishes(c)
  BY <1>1 DEF Activates
<1>3. CASE Found(i) /\ Activatable(codes[i].user, codes[i].role)
  <2>1. PICK u \in Users, role \in Roles : u = codes[i].user /\ role = codes[i].role
    BY <1>1 DEF Activates, Meant
  <2>2. PICK verified \in BOOLEAN : account' = Activated(u, role, verified)
    BY <1>1, <1>3, <2>1 DEF Activates, Proved
  <2>3. RowsSound /\ account[u] \in Account /\ account \in [Users -> Account]
    BY RowRules DEF AccountInv
  <2>4. PICK stamped \in BOOLEAN : stamped = (account[u].phoneVerified \/ verified)
    OBVIOUS
  <2>5. PICK new : new = [account[u] EXCEPT !.status = "active", !.phoneVerified = stamped,
                                            !.profiles = account[u].profiles \cup {role}]
    OBVIOUS
  <2>6. account' = [account EXCEPT ![u] = new]
    BY <2>2, <2>3, <2>4, <2>5 DEF Activated
  <2>7. /\ new \in Account /\ new.status = "active" /\ new.profiles # {}
        /\ new.email = account[u].email /\ new.phone = account[u].phone
    BY <2>3, <2>5 DEF Account, Statuses
  <2>8. account[u].status # "none" /\ ~IndexRefusesRow(u)
    BY <1>3, <2>1 DEF Activatable
  <2>9. RowsSound'
    BY <2>3, <2>6, <2>7, <2>8, RowRules, RowWritten
  <2>10. CodesSound' /\ CodesStay
    BY <1>1, <1>3, EnteredMove DEF AccountInv, Activates
  <2>11. RequestsSound'
    BY <1>2, <2>10, EndsOrDelivers DEF AccountInv
  <2> QED
    BY <2>9, <2>10, <2>11 DEF AccountInv
<1>4. CASE ~(Found(i) /\ Activatable(codes[i].user, codes[i].role))
  <2>1. UNCHANGED <<account, codes>>
    BY <1>1, <1>4 DEF Activates
  <2>2. RowsSound'
    BY <2>1, SameAccounts DEF AccountInv
  <2>3. CodesSound' /\ CodesStay
    BY <2>1, CodesUnchanged DEF AccountInv
  <2>4. RequestsSound'
    BY <1>2, <2>2, <2>3, EndsOrDelivers DEF AccountInv
  <2> QED
    BY <2>2, <2>3, <2>4 DEF AccountInv
<1> QED
  BY <1>3, <1>4

(* A row that keeps its status, addresses and profiles. *)
LEMMA StampedRow ==
    ASSUME RowsSound, NEW u \in Users, account' = [account EXCEPT ![u].phoneVerified = TRUE]
    PROVE  RowsSound'
<1>1. PICK new : new = [account[u] EXCEPT !.phoneVerified = TRUE]
  OBVIOUS
<1>2. account[u] \in Account /\ account \in [Users -> Account]
  BY RowRules
<1>3. /\ new \in Account /\ new.status = account[u].status /\ new.email = account[u].email
      /\ new.phone = account[u].phone /\ new.profiles = account[u].profiles
      /\ new.social = account[u].social /\ account' = [account EXCEPT ![u] = new]
  BY <1>1, <1>2 DEF Account
<1>4. new.status = "none" => /\ new.email = NoAddress /\ new.phone = NoAddress
                             /\ new.social = NoAddress /\ new.profiles = {}
  BY <1>3 DEF RowsSound, EmptyRows
<1>5. new.status \notin {"none", "deleted"} =>
         \A a \in Addresses \cap {new.email, new.phone} : ~IndexRefuses(a, u)
  BY <1>3, RowRules DEF Counted
<1> QED
  BY <1>3, <1>4, <1>5, RowWritten

(* A phone is proved. *)
LEMMA ProvesPhoneKept ==
    ASSUME AccountInv, NEW c \in Clients, ProvesPhone(c) PROVE AccountInv'
<1>1. PICK i \in Codes : /\ i = request[c].code /\ codes[i] \in Code
                        /\ left \in [Clients -> 0..MaxRequests]
  BY EnteredTyped DEF ProvesPhone
<1>2. left' \in [Clients -> 0..MaxRequests] /\ Finishes(c)
  BY <1>1 DEF ProvesPhone
<1>3. RowsSound'
  <2>1. CASE codes[i].user = NoUser \/ ~Found(i)
    BY <1>1, <2>1, SameAccounts DEF ProvesPhone, AccountInv
  <2>2. CASE ~(codes[i].user = NoUser \/ ~Found(i))
    <3>1. PICK u \in Users : u = codes[i].user
      BY <1>1, <2>2 DEF Code
    <3>2. account' = [account EXCEPT ![u].phoneVerified = TRUE]
      BY <1>1, <2>2, <3>1 DEF ProvesPhone
    <3> QED
      BY <3>2, StampedRow DEF AccountInv
  <2> QED
    BY <2>1, <2>2
<1>4. CodesSound' /\ CodesStay
  BY <1>1, EnteredMove, CodesUnchanged DEF AccountInv, ProvesPhone
<1>5. RequestsSound'
  BY <1>2, <1>3, <1>4, EndsOrDelivers DEF AccountInv
<1> QED
  BY <1>3, <1>4, <1>5 DEF AccountInv

(* An account gets its new phone, unless the index refuses it. *)
LEMMA PhoneChangeCommitsKept ==
    ASSUME AccountInv, NEW c \in Clients, PhoneChangeCommits(c) PROVE AccountInv'
<1>1. PICK i \in Codes : /\ i = request[c].code /\ codes[i] \in Code
                        /\ left \in [Clients -> 0..MaxRequests]
  BY EnteredTyped DEF PhoneChangeCommits
<1>2. left' \in [Clients -> 0..MaxRequests] /\ Finishes(c)
  BY <1>1 DEF PhoneChangeCommits
<1>3. PICK u \in Users, p \in Phones : u = codes[i].user /\ p = codes[i].to
  <2>1. codes[i].purpose = "verify_phone" /\ codes[i].user \in Users
    BY <1>1 DEF PhoneChangeCommits, AccountInv, RequestsSound, RequestsKnow
  <2>2. codes[i].to \in Phones
    BY <2>1, CodeTyped DEF AccountInv, Meant
  <2> QED
    BY <2>1, <2>2
<1>4. CASE ~(Found(i) /\ (account[u].status = "deleted" \/ ~IndexRefuses(p, u)))
  <2>1. UNCHANGED <<account, codes>>
    BY <1>1, <1>3, <1>4 DEF PhoneChangeCommits
  <2>2. RowsSound'
    BY <2>1, SameAccounts DEF AccountInv
  <2>3. CodesSound' /\ CodesStay
    BY <2>1, CodesUnchanged DEF AccountInv
  <2>4. RequestsSound'
    BY <1>2, <2>2, <2>3, EndsOrDelivers DEF AccountInv
  <2> QED
    BY <2>2, <2>3, <2>4 DEF AccountInv
<1>5. CASE Found(i) /\ (account[u].status = "deleted" \/ ~IndexRefuses(p, u))
  <2>1. codes' = Entered(i) /\ account' = [account EXCEPT ![u].phone = p, ![u].phoneVerified = TRUE]
    BY <1>1, <1>3, <1>5 DEF PhoneChangeCommits
  <2>2. PICK new : new = [account[u] EXCEPT !.phone = p, !.phoneVerified = TRUE]
    OBVIOUS
  <2>3. RowsSound /\ account[u] \in Account /\ account \in [Users -> Account]
    BY RowRules DEF AccountInv
  <2>4. /\ new \in Account /\ new.status = account[u].status /\ new.email = account[u].email
        /\ new.phone = p /\ new.profiles = account[u].profiles
        /\ account' = [account EXCEPT ![u] = new]
    BY <2>1, <2>2, <2>3 DEF Account
  <2>5. new.status \notin {"none", "deleted"} =>
           \A a \in Addresses \cap {new.email, new.phone} : ~IndexRefuses(a, u)
    <3> SUFFICES ASSUME new.status \notin {"none", "deleted"},
                        NEW a \in Addresses, a = account[u].email \/ a = p
                 PROVE  ~IndexRefuses(a, u)
      BY <2>4
    <3>1. CASE a = p
      BY <1>5, <2>4, <3>1
    <3>2. CASE a = account[u].email
      BY <2>3, <2>4, <3>2, RowRules DEF Counted
    <3> QED
      BY <3>1, <3>2
  <2>6. new.status # "none"
    BY <1>3, <1>5, <2>4, AddressAssumption DEF Found
  <2>7. RowsSound'
    BY <2>3, <2>4, <2>5, <2>6, RowWritten
  <2>8. CodesSound' /\ CodesStay
    BY <2>1, EnteredMove DEF AccountInv
  <2>9. RequestsSound'
    BY <1>2, <2>8, EndsOrDelivers DEF AccountInv
  <2> QED
    BY <2>7, <2>8, <2>9 DEF AccountInv
<1> QED
  BY <1>4, <1>5

(* A sign-in with a linked account. *)
LEMMA socialLoginKept ==
    ASSUME AccountInv, NEW c \in Clients, NEW u \in Users, NEW e \in Emails, NEW r \in Roles,
           socialLogin(c, u, e, r)
    PROVE  AccountInv'
<1>1. left' \in [Clients -> 0..MaxRequests]
  BY OneFewer DEF AccountInv, socialLogin
<1>2. RowsSound /\ account[u] \in Account /\ account \in [Users -> Account]
  BY RowRules DEF AccountInv
<1>3. PICK more \in SUBSET Roles :
         account' = [account EXCEPT ![u].social = e, ![u].profiles = @ \cup more]
  BY DEF socialLogin
<1>4. PICK new : new = [account[u] EXCEPT !.social = e, !.profiles = account[u].profiles \cup more]
  OBVIOUS
<1>5. account' = [account EXCEPT ![u] = new]
  BY <1>2, <1>3, <1>4
<1>6. /\ new \in Account /\ new.status = account[u].status /\ new.email = account[u].email
      /\ new.phone = account[u].phone /\ account[u].profiles \subseteq new.profiles
  BY <1>2, <1>4 DEF Account
<1>7. account[u].status # "none"
  <2>1. e # NoAddress
    BY AddressAssumption
  <2> QED
    BY <1>2, <2>1 DEF socialLogin, SocialRow, RowsSound, EmptyRows
<1>8. new.status \notin {"none", "deleted"} =>
         \A a \in Addresses \cap {new.email, new.phone} : ~IndexRefuses(a, u)
  BY <1>2, <1>6, RowRules DEF Counted
<1>9. RowsSound'
  BY <1>2, <1>5, <1>6, <1>7, <1>8, RowWritten
<1>10. CodesSound' /\ CodesStay
  BY CodesUnchanged DEF AccountInv, socialLogin
<1>11. RequestsSound'
  <2>1. CASE UNCHANGED request
    <3>1. RequestsSound /\ CodesSound
      BY DEF AccountInv
    <3>2. PICK q : q = request[c]
      OBVIOUS
    <3>3. /\ q \in Request /\ request' = [request EXCEPT ![c] = q]
          /\ q.pc = "delivering" => Meant(q.sent)
          /\ q.pc \in {"entered", "changing"} => q.code \in Codes
          /\ q.pc = "changing" => /\ codes[q.code].purpose = "verify_phone"
                                 /\ codes[q.code].user \in Users
      BY <2>1, <3>1, <3>2 DEF RequestsSound, RequestsKnow
    <3> QED
      BY <1>1, <1>10, <3>1, <3>3, OneRequestMoves
  <2>2. CASE Completes(c, u, r)
    <3>1. PICK q : q = [pc |-> "completing", user |-> u, role |-> r]
      OBVIOUS
    <3>2. q \in Request /\ q.pc = "completing" /\ request' = [request EXCEPT ![c] = q]
      BY <2>2, <3>1 DEF Completes, Moves, Request
    <3> QED
      BY <1>1, <1>10, <3>2, OneRequestMoves DEF AccountInv
  <2> QED
    BY <2>1, <2>2 DEF socialLogin
<1> QED
  BY <1>9, <1>10, <1>11 DEF AccountInv

(* A row is made. *)
LEMMA RowMade ==
    ASSUME RowsSound, NEW u \in Users, account[u].status = "none", NEW new \in Account,
           new.status = "pending_verification", account' = [account EXCEPT ![u] = new],
           \A a \in Addresses \cap {new.email, new.phone} : ~IndexRefuses(a, NoUser)
    PROVE  RowsSound'
<1>1. \A a \in Addresses \cap {new.email, new.phone} : ~IndexRefuses(a, u)
  BY AddressAssumption DEF IndexRefuses
<1> QED
  BY <1>1, RowWritten

(* A sign-up with the provider's account. *)
LEMMA socialSignUpKept ==
    ASSUME AccountInv, NEW c \in Clients, NEW e \in Emails, NEW r \in Roles, socialSignUp(c, e, r)
    PROVE  AccountInv'
<1>1. left' \in [Clients -> 0..MaxRequests]
  BY OneFewer DEF AccountInv, socialSignUp
<1>2. PICK new : new = [NoAccount EXCEPT !.status = "pending_verification", !.email = e, !.social = e]
  OBVIOUS
<1>3. PICK u \in Users : /\ account[u].status = "none" /\ account' = [account EXCEPT ![u] = new]
                        /\ Completes(c, u, r)
  BY <1>2 DEF socialSignUp
<1>4. /\ new \in Account /\ new.status = "pending_verification"
      /\ new.email = e /\ new.phone = NoAddress
  BY <1>2 DEF NoAccount, Account, Statuses
<1>5. \A a \in Addresses \cap {new.email, new.phone} : ~IndexRefuses(a, NoUser)
  <2>1. NoAddress \notin Addresses
    BY AddressAssumption DEF Addresses
  <2> QED
    BY <1>4, <2>1 DEF socialSignUp
<1>6. RowsSound'
  BY <1>3, <1>4, <1>5, RowMade DEF AccountInv
<1>7. CodesSound' /\ CodesStay
  BY CodesUnchanged DEF AccountInv, socialSignUp
<1>8. RequestsSound'
  <2>1. PICK q : q = [pc |-> "completing", user |-> u, role |-> r]
    OBVIOUS
  <2>2. q \in Request /\ q.pc = "completing" /\ request' = [request EXCEPT ![c] = q]
    BY <1>3, <2>1 DEF Completes, Moves, Request
  <2> QED
    BY <1>1, <1>6, <1>7, <2>2, OneRequestMoves DEF AccountInv
<1> QED
  BY <1>6, <1>7, <1>8 DEF AccountInv

(* A phone for a social sign-up. *)
LEMMA socialCompleteKept ==
    ASSUME AccountInv, NEW c \in Clients, NEW p \in Phones, socialComplete(c, p) PROVE AccountInv'
<1>1. PICK u \in Users, role \in Roles : u = request[c].user /\ role = request[c].role
  BY Carried DEF AccountInv, socialComplete
<1>2. left' \in [Clients -> 0..MaxRequests]
  BY DEF AccountInv, RequestsSound, socialComplete
<1>3. CASE /\ account[u].status # "none"
           /\ account[u].phone = NoAddress \/ Pending(u)
           /\ ~IndexRefuses(p, u)
  <2>1. PICK code : code = NewCode(p, "verify_phone", u, role, TRUE)
    OBVIOUS
  <2>2. code \in Code /\ Meant(code)
    BY <2>1, NewCodeTyped DEF Addresses, Purposes
  <2>3. account' = [account EXCEPT ![u].phone = p] /\ Asks(c, code)
    BY <1>1, <1>3, <2>1 DEF socialComplete
  <2>4. PICK new : new = [account[u] EXCEPT !.phone = p]
    OBVIOUS
  <2>5. RowsSound /\ account[u] \in Account /\ account \in [Users -> Account]
    BY RowRules DEF AccountInv
  <2>6. /\ new \in Account /\ new.status = account[u].status /\ new.email = account[u].email
        /\ new.phone = p /\ new.profiles = account[u].profiles
        /\ account' = [account EXCEPT ![u] = new]
    BY <2>3, <2>4, <2>5 DEF Account
  <2>7. new.status \notin {"none", "deleted"} =>
           \A a \in Addresses \cap {new.email, new.phone} : ~IndexRefuses(a, u)
    <3> SUFFICES ASSUME new.status \notin {"none", "deleted"},
                        NEW a \in Addresses, a = account[u].email \/ a = p
                 PROVE  ~IndexRefuses(a, u)
      BY <2>6
    <3>1. CASE a = p
      BY <1>3, <3>1
    <3>2. CASE a = account[u].email
      BY <2>5, <2>6, <3>2, RowRules DEF Counted
    <3> QED
      BY <3>1, <3>2
  <2>8. new.status # "none"
    BY <1>3, <2>6
  <2>9. RowsSound'
    BY <2>5, <2>6, <2>7, <2>8, RowWritten
  <2>10. CodesSound' /\ RequestsSound'
    BY <1>2, <2>2, <2>3, AsksKept DEF AccountInv
  <2> QED
    BY <2>9, <2>10 DEF AccountInv
<1>4. CASE UNCHANGED <<account, codes>> /\ Finishes(c)
  <2>1. RowsSound'
    BY <1>4, SameAccounts DEF AccountInv
  <2>2. CodesSound' /\ CodesStay
    BY <1>4, CodesUnchanged DEF AccountInv
  <2>3. RequestsSound'
    BY <1>2, <1>4, <2>1, <2>2, EndsOrDelivers DEF AccountInv
  <2> QED
    BY <2>1, <2>2, <2>3 DEF AccountInv
<1> QED
  BY <1>1, <1>3, <1>4 DEF socialComplete

(* A registration makes a row. *)
LEMMA RegisterCreatesKept ==
    ASSUME AccountInv, NEW c \in Clients, RegisterCreates(c) PROVE AccountInv'
<1>1. PICK e \in Emails, p \in Phones : /\ e = request[c].email /\ p = request[c].phone
                                       /\ request[c].pc = "registering"
  BY Carried DEF AccountInv, RegisterCreates
<1>2. left' \in [Clients -> 0..MaxRequests]
  BY DEF AccountInv, RequestsSound, RegisterCreates
<1>3. PICK u \in Users : /\ account[u].status = "none"
                        /\ account' = [account EXCEPT ![u] = Registered(e, p, u)]
                        /\ \E code \in RegisterCodes(request[c], u) : Moves(c, Delivering(code))
  BY <1>1 DEF RegisterCreates
<1>4. PICK new : new = Registered(e, p, u)
  OBVIOUS
<1>5. /\ new \in Account /\ new.status = "pending_verification" /\ new.email = e /\ new.phone = p
  BY <1>4, RowRules DEF Registered, Account, Statuses, AccountInv
<1>6. \A a \in Addresses \cap {new.email, new.phone} : ~IndexRefuses(a, NoUser)
  BY <1>1, <1>5 DEF RegisterCreates
<1>7. RowsSound'
  BY <1>3, <1>4, <1>5, <1>6, RowMade DEF AccountInv
<1>8. CodesSound' /\ CodesStay
  BY CodesUnchanged DEF AccountInv, RegisterCreates
<1>9. \E code \in Code : Meant(code) /\ Moves(c, Delivering(code))
  BY <1>1, <1>3, RegisterCodesTyped DEF AccountInv
<1>10. RequestsSound'
  BY <1>2, <1>7, <1>8, <1>9, EndsOrDelivers DEF AccountInv
<1> QED
  BY <1>7, <1>8, <1>10 DEF AccountInv

(* A registration takes over an abandoned one and removes the others. *)
LEMMA RegisterMergesKept ==
    ASSUME AccountInv, NEW c \in Clients, RegisterMerges(c) PROVE AccountInv'
<1>1. PICK e \in Emails, p \in Phones : /\ e = request[c].email /\ p = request[c].phone
                                       /\ request[c].pc = "registering"
  BY Carried DEF AccountInv, RegisterMerges
<1>2. left' \in [Clients -> 0..MaxRequests]
  BY DEF AccountInv, RequestsSound, RegisterMerges
<1>3. PICK pendings \in SUBSET Users, keep \in Users, others \in SUBSET Users :
         /\ keep \in pendings /\ \A v \in pendings : Pending(v)
         /\ others = pendings \ {keep}
         /\ \A v \in Users \ pendings : account[v].status # "deleted" => ~Holds(v, e) /\ ~Holds(v, p)
         /\ account' = [v \in Users |-> IF v = keep THEN Registered(e, p, keep)
                                        ELSE IF v \in others THEN NoAccount ELSE account[v]]
         /\ codes' = MergedCodes(others, keep)
         /\ \E code \in RegisterCodes(request[c], keep) : Moves(c, Delivering(code))
  <2> DEFINE P == {v \in Users : Pending(v) /\ (Holds(v, request[c].email) \/ Holds(v, request[c].phone))}
  <2>1. PICK keep \in P :
         /\ \A v \in Users \ P : account[v].status # "deleted" => ~Holds(v, e) /\ ~Holds(v, p)
         /\ account' = [v \in Users |-> IF v = keep THEN Registered(e, p, keep)
                                        ELSE IF v \in P \ {keep} THEN NoAccount ELSE account[v]]
         /\ codes' = MergedCodes(P \ {keep}, keep)
         /\ \E code \in RegisterCodes(request[c], keep) : Moves(c, Delivering(code))
    BY <1>1 DEF RegisterMerges
  <2>2. P \in SUBSET Users /\ \A v \in P : Pending(v)
    OBVIOUS
  <2> HIDE DEF P
  <2> QED
    BY <2>1, <2>2
<1>4. PICK new : new = Registered(e, p, keep)
  OBVIOUS
<1>5. /\ RowsSound /\ account \in [Users -> Account] /\ keep \in Users
      /\ \A v \in Users : account'[v] = IF v = keep THEN new
                                        ELSE IF v \in others THEN NoAccount ELSE account[v]
  BY <1>3, <1>4 DEF AccountInv, RowsSound
<1>6. /\ new \in Account /\ new.status = "pending_verification" /\ new.email = e /\ new.phone = p
  BY <1>4, <1>5 DEF Registered, Account, Statuses
<1>7. /\ NoAccount \in Account /\ NoAccount.status = "none" /\ NoAccount.email = NoAddress
      /\ NoAccount.phone = NoAddress /\ NoAccount.social = NoAddress /\ NoAccount.profiles = {}
  BY DEF NoAccount, Account, Statuses
<1> HIDE DEF NoAccount
<1>8. account' \in [Users -> Account]
  BY <1>3, <1>4, <1>5, <1>6, <1>7
<1>9. EmptyRows'
  BY <1>5, <1>6, <1>7 DEF RowsSound, EmptyRows
<1>10. AddressesApart'
  <2> SUFFICES ASSUME NEW v \in Users, NEW w \in Users, NEW a \in Addresses, v # w,
                      Counted(v)', Counted(w)', Holds(v, a)', Holds(w, a)'
               PROVE  FALSE
    BY DEF AddressesApart
  <2>1. ASSUME NEW x \in Users, x # keep, Counted(x)', Holds(x, a)'
        PROVE  /\ x \notin pendings /\ Counted(x) /\ Holds(x, a)
    BY <1>3, <1>5, <1>7, <2>1 DEF Counted, Holds
  <2>2. ASSUME NEW x \in Users, x # keep, Counted(x)', Holds(x, a)', Holds(keep, a)'
        PROVE  FALSE
    <3>1. x \notin pendings /\ Counted(x) /\ Holds(x, a)
      BY <2>1, <2>2
    <3>2. a = e \/ a = p
      BY <1>5, <1>6, <2>2 DEF Holds
    <3> QED
      BY <1>3, <3>1, <3>2 DEF Counted
  <2>3. CASE v # keep /\ w # keep
    BY <1>5, <2>1, <2>3 DEF RowsSound, AddressesApart
  <2> QED
    BY <2>2, <2>3
<1>11. RowsSound'
  BY <1>8, <1>9, <1>10 DEF RowsSound
<1>12. CodesSound' /\ CodesStay
  BY <1>3, MergedMove DEF AccountInv
<1>13. \E code \in Code : Meant(code) /\ Moves(c, Delivering(code))
  BY <1>1, <1>3, <1>5, RegisterCodesTyped DEF AccountInv
<1>14. RequestsSound'
  BY <1>2, <1>12, <1>13, EndsOrDelivers DEF AccountInv
<1> QED
  BY <1>11, <1>12, <1>14 DEF AccountInv

-----------------------------------------------------------------------------
(* Every step.                                                              *)

(* Nothing changes. *)
LEMMA StutterKept == AccountInv /\ UNCHANGED signUpVars => AccountInv'
<1> SUFFICES ASSUME AccountInv, UNCHANGED signUpVars PROVE AccountInv'
  OBVIOUS
<1>1. UNCHANGED account /\ UNCHANGED codes /\ UNCHANGED <<request, left>>
  BY DEF signUpVars
<1>2. RowsSound'
  BY <1>1, SameAccounts DEF AccountInv
<1>3. CodesSound' /\ CodesStay
  BY <1>1, CodesUnchanged DEF AccountInv
<1>4. RequestsSound'
  BY <1>1, <1>2, <1>3, NoRequestMoves DEF AccountInv
<1> QED
  BY <1>2, <1>3, <1>4 DEF AccountInv

(* The requests of the apps. *)
LEMMA RequestsKept ==
    ASSUME AccountInv, NEW c \in Clients,
           Registering(c) \/ Verifying(c) \/ Sending(c) \/ Social(c)
    PROVE  AccountInv'
<1>1. CASE Registering(c)
  BY <1>1, RegisterReadsKept, RegisterRoleKept, RegisterMergesKept, RegisterCreatesKept, EndsKept
  DEF Registering
<1>2. CASE Verifying(c)
  BY <1>2, EntersCodeKept, PhoneChangeReadsKept, ActivatesKept, ProvesPhoneKept,
     PhoneChangeCommitsKept
  DEF Verifying
<1>3. CASE Sending(c)
  BY <1>3, sendOtpKept, resendOtpKept, requestPhoneChangeKept, DeliversKept, EndsKept DEF Sending
<1>4. CASE Social(c)
  BY <1>4, socialSignUpKept, socialLoginKept, socialCompleteKept DEF Social
<1> QED
  BY <1>1, <1>2, <1>3, <1>4

(* What is true of the accounts at every moment. *)
LEMMA AccountsStaySound == Spec => []AccountInv
<1>1. AccountInv /\ [Next]_signUpVars => AccountInv'
  <2> SUFFICES ASSUME AccountInv, [Next]_signUpVars PROVE AccountInv'
    OBVIOUS
  <2>1. ASSUME NEW u \in Users, Portal(u) PROVE AccountInv'
    BY <2>1, setStatusKept, updateKept, removeKept DEF Portal
  <2> QED
    BY <2>1, RequestsKept, CodeExpiresKept, StutterKept DEF Next, AppStep, PortalStep
<1> QED
  BY <1>1, Starts0, PTL DEF Spec

-----------------------------------------------------------------------------
(* What it is for.                                                          *)

(* Every row, code and request has the fields of its table. *)
THEOREM AccountsTypeCorrect == Spec => []TypeOK
<1>1. AccountInv => TypeOK
  BY DEF AccountInv, RowsSound, CodesSound, RequestsSound, TypeOK, TableTypeOK
<1> QED
  BY <1>1, AccountsStaySound, PTL

(* No two accounts that are not deleted share an email or a phone, whichever *)
(* requests and edits run at the same time.                                  *)
THEOREM AddressesBelongToOne == Spec => []OneAccountPerAddress
<1>1. AccountInv => OneAccountPerAddress
  BY ApartIsOne DEF AccountInv
<1> QED
  BY <1>1, AccountsStaySound, PTL

-----------------------------------------------------------------------------
(* Profiles.                                                                *)

(* A step that writes one row makes no other one bare. *)
LEMMA OneRowBare ==
    ASSUME RowsSound, NEW u \in Users, NEW new, account' = [account EXCEPT ![u] = new],
           NEW v \in Users, Bare(v)',
           new.status \in {"active", "suspended"} =>
              new.profiles # {} \/ (new.status = account[u].status
                                    /\ account[u].profiles \subseteq new.profiles)
    PROVE  Bare(v)
<1>1. CASE v = u
  <2>1. account'[u] = new
    BY DEF RowsSound
  <2>2. new.status \in {"active", "suspended"} /\ new.profiles = {}
    BY <1>1, <2>1 DEF Bare
  <2>3. new.status = account[u].status /\ account[u].profiles \subseteq new.profiles
    BY <2>2
  <2> QED
    BY <1>1, <2>2, <2>3 DEF Bare
<1>2. CASE v # u
  <2>1. account'[v] = account[v]
    BY <1>2 DEF RowsSound
  <2> QED
    BY <2>1 DEF Bare
<1> QED
  BY <1>1, <1>2

(* A code that is entered comes with a profile. *)
LEMMA ActivatesBare ==
    ASSUME AccountInv, NEW c \in Clients, Activates(c), NEW v \in Users, Bare(v)' PROVE Bare(v)
<1>1. PICK i : i = request[c].code
  OBVIOUS
<1>2. CASE Found(i) /\ Activatable(codes[i].user, codes[i].role)
  <2>1. PICK u, role, verified : account' = Activated(u, role, verified)
    BY <1>1, <1>2 DEF Activates
  <2>2. account \in [Users -> Account]
    BY DEF AccountInv, RowsSound
  <2>3. CASE v = u
    <3>1. account'[v].profiles = account[v].profiles \cup {role}
      <4>1. account[v] \in Account /\ v \in DOMAIN account
        BY <2>2
      <4>2. PICK stamped : stamped = (account[v].phoneVerified \/ verified)
        OBVIOUS
      <4>3. account' = [account EXCEPT ![v] = [account[v] EXCEPT !.status = "active",
                          !.phoneVerified = stamped, !.profiles = account[v].profiles \cup {role}]]
        BY <2>1, <2>2, <2>3, <4>2 DEF Activated
      <4> QED
        BY <4>1, <4>3 DEF Account
    <3> QED
      BY <3>1 DEF Bare
  <2>4. CASE v # u
    <3>1. account'[v] = account[v]
      BY <2>1, <2>2, <2>4 DEF Activated
    <3> QED
      BY <3>1 DEF Bare
  <2> QED
    BY <2>3, <2>4
<1>3. CASE ~(Found(i) /\ Activatable(codes[i].user, codes[i].role))
  BY <1>1, <1>3 DEF Activates, Bare
<1> QED
  BY <1>2, <1>3

(* A phone that is proved or changed leaves status and profiles alone. *)
LEMMA PhonesBare ==
    ASSUME AccountInv, NEW c \in Clients, ProvesPhone(c) \/ PhoneChangeCommits(c),
           NEW v \in Users, Bare(v)'
    PROVE  Bare(v)
<1>1. account \in [Users -> Account] /\ account[v] \in Account
  BY DEF AccountInv, RowsSound
<1>2. account'[v].status = account[v].status /\ account'[v].profiles = account[v].profiles
  <2>1. \/ UNCHANGED account
        \/ \E u : account' = [account EXCEPT ![u].phoneVerified = TRUE]
        \/ \E u, p : account' = [account EXCEPT ![u].phone = p, ![u].phoneVerified = TRUE]
    BY DEF ProvesPhone, PhoneChangeCommits
  <2>2. ASSUME NEW u, account' = [account EXCEPT ![u].phoneVerified = TRUE]
        PROVE  account'[v].status = account[v].status /\ account'[v].profiles = account[v].profiles
    BY <1>1, <2>2 DEF Account
  <2>3. ASSUME NEW u, NEW p, account' = [account EXCEPT ![u].phone = p, ![u].phoneVerified = TRUE]
        PROVE  account'[v].status = account[v].status /\ account'[v].profiles = account[v].profiles
    BY <1>1, <2>3 DEF Account
  <2> QED
    BY <2>1, <2>2, <2>3
<1> QED
  BY <1>2 DEF Bare

(* So do a sign-in with a provider, but for a profile more, and its phone. *)
LEMMA SocialBare ==
    ASSUME AccountInv, NEW c \in Clients, Social(c), NEW v \in Users, Bare(v)' PROVE Bare(v)
<1>1. account \in [Users -> Account] /\ account[v] \in Account /\ RowsSound
  BY DEF AccountInv, RowsSound
<1>2. ASSUME NEW e \in Emails, NEW r \in Roles, NEW u \in Users, socialLogin(c, u, e, r)
      PROVE  Bare(v)
  <2>1. PICK more : account' = [account EXCEPT ![u].social = e, ![u].profiles = @ \cup more]
    BY <1>2 DEF socialLogin
  <2>2. /\ account'[v].status = account[v].status
        /\ account[v].profiles \subseteq account'[v].profiles
    BY <1>1, <2>1 DEF Account
  <2> QED
    BY <2>2 DEF Bare
<1>3. ASSUME NEW e \in Emails, NEW r \in Roles, socialSignUp(c, e, r) PROVE Bare(v)
  <2>1. PICK new : new = [NoAccount EXCEPT !.status = "pending_verification", !.email = e, !.social = e]
    OBVIOUS
  <2>2. PICK u \in Users : account' = [account EXCEPT ![u] = new]
    BY <1>3, <2>1 DEF socialSignUp
  <2>3. new.status = "pending_verification"
    BY <2>1 DEF NoAccount
  <2> QED
    BY <1>1, <2>2, <2>3, OneRowBare
<1>4. ASSUME NEW p \in Phones, socialComplete(c, p) PROVE Bare(v)
  <2>1. account'[v].status = account[v].status /\ account'[v].profiles = account[v].profiles
    <3>1. UNCHANGED account \/ \E u : account' = [account EXCEPT ![u].phone = p]
      BY <1>4 DEF socialComplete
    <3>2. ASSUME NEW u, account' = [account EXCEPT ![u].phone = p]
          PROVE  account'[v].status = account[v].status /\ account'[v].profiles = account[v].profiles
      BY <1>1, <3>2 DEF Account
    <3> QED
      BY <3>1, <3>2
  <2> QED
    BY <2>1 DEF Bare
<1> QED
  BY <1>2, <1>3, <1>4 DEF Social

(* A registration leaves a row waiting for its code. *)
LEMMA RegisteringBare ==
    ASSUME AccountInv, NEW c \in Clients, Registering(c), NEW v \in Users, Bare(v)' PROVE Bare(v)
<1>1. account \in [Users -> Account] /\ account[v] \in Account /\ RowsSound
  BY DEF AccountInv, RowsSound
<1>2. CASE UNCHANGED account
  BY <1>2 DEF Bare
<1>3. CASE RegisterCreates(c)
  <2>1. PICK u \in Users :
           account' = [account EXCEPT ![u] = Registered(request[c].email, request[c].phone, u)]
    BY <1>3 DEF RegisterCreates
  <2>2. account[u] \in Account
    BY <1>1
  <2>3. PICK new : new = Registered(request[c].email, request[c].phone, u)
    OBVIOUS
  <2>4. new.status = "pending_verification"
    BY <2>2, <2>3 DEF Registered, Account
  <2> QED
    BY <1>1, <2>1, <2>3, <2>4, OneRowBare
<1>4. CASE RegisterMerges(c)
  <2>1. PICK e, p, keep, others :
           account' = [x \in Users |-> IF x = keep THEN Registered(e, p, keep)
                                       ELSE IF x \in others THEN NoAccount ELSE account[x]]
    BY <1>4 DEF RegisterMerges
  <2>2. CASE v = keep
    <3>1. account'[v].status = "pending_verification"
      BY <1>1, <2>1, <2>2 DEF Registered, Account
    <3> QED
      BY <3>1 DEF Bare
  <2>3. CASE v # keep /\ v \in others
    <3>1. account'[v].status = "none"
      BY <2>1, <2>3 DEF NoAccount
    <3> QED
      BY <3>1 DEF Bare
  <2>4. CASE v # keep /\ v \notin others
    BY <2>1, <2>4 DEF Bare
  <2> QED
    BY <2>2, <2>3, <2>4
<1>5. \/ UNCHANGED account \/ RegisterCreates(c) \/ RegisterMerges(c)
  BY DEF Registering, RegisterReads, RegisterRole, RegisterRefused
<1> QED
  BY <1>2, <1>3, <1>4, <1>5

(* No request of an app gives an account a status it may sign in with and no  *)
(* profile: what the portal edits stays with the portal.                      *)
THEOREM OnlyPortalBares == Spec => OnlyPortalMakesBare
<1>1. AccountInv /\ [Next]_signUpVars
         => [\A u \in Users : Bare(u)' /\ ~Bare(u) => Portal(u)]_signUpVars
  <2> SUFFICES ASSUME AccountInv, Next, NEW v \in Users, Bare(v)', ~Bare(v) PROVE Portal(v)
    OBVIOUS
  <2>1. ASSUME NEW u \in Users, Portal(u) PROVE Portal(v)
    <3>1. account \in [Users -> Account]
      BY DEF AccountInv, RowsSound
    <3>2. \A x \in Users \ {u} : account'[x] = account[x]
      BY <2>1, <3>1 DEF Portal, setStatus, update, remove
    <3>3. v = u
      BY <3>2 DEF Bare
    <3> QED
      BY <2>1, <3>3
  <2>2. ASSUME NEW c \in Clients, Registering(c) \/ Verifying(c) \/ Sending(c) \/ Social(c)
        PROVE  FALSE
    <3>1. CASE Registering(c)
      BY <3>1, RegisteringBare
    <3>2. CASE Verifying(c)
      <4>1. ASSUME NEW i \in Codes, EntersCode(c, i) \/ PhoneChangeReads(c, i) PROVE FALSE
        BY <4>1 DEF EntersCode, PhoneChangeReads, Bare
      <4> QED
        BY <3>2, <4>1, ActivatesBare, PhonesBare DEF Verifying
    <3>3. CASE Sending(c)
      <4>1. UNCHANGED account
        BY <3>3 DEF Sending, sendOtp, resendOtp, requestPhoneChange, Delivers, SendFails
      <4> QED
        BY <4>1 DEF Bare
    <3>4. CASE Social(c)
      BY <3>4, SocialBare
    <3> QED
      BY <2>2, <3>1, <3>2, <3>3, <3>4
  <2>3. ASSUME NEW i \in Codes, CodeExpires(i) PROVE FALSE
    BY <2>3 DEF CodeExpires, Bare
  <2> QED
    BY <2>1, <2>2, <2>3 DEF Next, AppStep, PortalStep
<1> QED
  BY <1>1, AccountsStaySound, PTL DEF Spec, OnlyPortalMakesBare
=============================================================================
