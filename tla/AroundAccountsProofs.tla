------------------------- MODULE AroundAccountsProofs -------------------------
(***************************************************************************)
(* What holds of admins, their sessions and live events, saved cards,      *)
(* payout accounts, website plans, banners and device tokens, for every    *)
(* number of handlers, tabs, polls, cards, visits, prices and phones.      *)
(* Each part has an inductive invariant of its own; a step of another part *)
(* leaves all it speaks of as it is.                                       *)
(***************************************************************************)
EXTENDS AroundAccounts, FiniteSums, SequenceTheorems

-----------------------------------------------------------------------------
(* Admins.  Who is being told of a password is told in the step that sets   *)
(* it, and a creation sets it only where there is no account.               *)

ChangesAnAccount == \A h \in Handlers : clerk[h].op \in {"change", "grant"} => Exists

Invitation ==
    [state : {"none", "closed"}, level : Levels \cup {NoAdmin}]
       \cup [state : {"open"}, level : Levels]

AdminsInv == /\ AdminsTypeOK /\ ChangesAnAccount /\ AcceptedOwnerSignsIn
             /\ invite \in [Invites -> Invitation]

Clerking == {AtRest} \cup Inviting \cup Accepting \cup Changing \cup Granting

Row == [status : {"active", "suspended"}, password : Passwords, grants : [Modules -> Levels]]

(* The types, and what no account means. *)
LEMMA AdminsTyped ==
    ASSUME AdminsInv
    PROVE  /\ admin = NoAccount \/ admin \in Row
           /\ Exists <=> admin \in Row
           /\ invite \in [Invites -> Invitation] /\ clerk \in [Handlers -> Clerking]
           /\ lock \in [Modules -> Handlers \cup {NoAdmin}] /\ promised \subseteq Passwords
           /\ ~Exists => promised = {}
<1>1. admin = NoAccount \/ admin \in Row
  BY DEF AdminsInv, AdminsTypeOK, Row
<1>2. Exists <=> admin \in Row
  BY <1>1 DEF Exists, Row, NoAccount
<1>3. /\ invite \in [Invites -> Invitation] /\ clerk \in [Handlers -> Clerking]
      /\ lock \in [Modules -> Handlers \cup {NoAdmin}] /\ promised \subseteq Passwords
  BY DEF AdminsInv, AdminsTypeOK, Invitation, Clerking
<1>4. ~Exists => admin.password = NoAdmin
  BY <1>1, <1>2 DEF NoAccount
<1>5. ~Exists => promised = {}
  BY <1>3, <1>4, AdminsAssumption DEF AdminsInv, AcceptedOwnerSignsIn
<1> QED
  BY <1>1, <1>2, <1>3, <1>5

(* A handler that goes on to something that is not a change of the account. *)
LEMMA ClerkMoves ==
    ASSUME AdminsInv, NEW h \in Handlers, NEW c \in Clerking,
           clerk' = [clerk EXCEPT ![h] = c], admin' = admin, promised' = promised,
           c.op \in {"change", "grant"} => Exists,
           invite' \in [Invites -> Invitation],
           lock' \in [Modules -> Handlers \cup {NoAdmin}]
    PROVE  AdminsInv'
<1>1. clerk' \in [Handlers -> Clerking] /\ \A i \in Handlers : clerk'[i] \in {c, clerk[i]}
  BY AdminsTyped
<1>2. Exists' <=> Exists
  BY DEF Exists
<1>3. AdminsTypeOK'
  BY <1>1, AdminsTyped DEF AdminsTypeOK, Clerking, Invitation, Row, NoAccount
<1>4. ChangesAnAccount'
  BY <1>1, <1>2 DEF AdminsInv, ChangesAnAccount
<1>5. AcceptedOwnerSignsIn'
  BY DEF AdminsInv, AcceptedOwnerSignsIn
<1> QED
  BY <1>3, <1>4, <1>5 DEF AdminsInv

(* A write of the account, which exists afterwards. *)
LEMMA AccountMoves ==
    ASSUME AdminsInv, admin' \in Row, promised' \subseteq Passwords,
           promised' \subseteq {admin'.password},
           clerk' \in [Handlers -> Clerking], invite' \in [Invites -> Invitation],
           lock' \in [Modules -> Handlers \cup {NoAdmin}]
    PROVE  AdminsInv'
<1>1. Exists'
  BY DEF Exists, Row
<1>2. AdminsTypeOK'
  BY DEF AdminsTypeOK, Clerking, Invitation, Row
<1> QED
  BY <1>1, <1>2 DEF AdminsInv, ChangesAnAccount, AcceptedOwnerSignsIn

(* There is no account yet. *)
LEMMA AdminsStart == AdminsInit => AdminsInv
<1> SUFFICES ASSUME AdminsInit PROVE AdminsInv
  OBVIOUS
<1>1. \A h \in Handlers : clerk[h] = AtRest
  BY DEF AdminsInit
<1>2. ChangesAnAccount
  BY <1>1 DEF ChangesAnAccount, AtRest
<1>3. AdminsTypeOK
  BY DEF AdminsInit, AdminsTypeOK
<1>4. invite \in [Invites -> Invitation]
  BY DEF AdminsInit, Invitation
<1> QED
  BY <1>2, <1>3, <1>4 DEF AdminsInit, AdminsInv, AcceptedOwnerSignsIn

(* Invitations are sent, closed and accepted. *)
LEMMA InvitingSteps ==
    ASSUME AdminsInv, NEW h \in Handlers,
           \/ \E l \in Levels : sendInvite(h, l)
           \/ expireOthers(h) \/ \E i \in Invites : insertInvite(h, i)
           \/ \E i \in Invites, p \in Passwords : acceptInvite(h, i, p)
           \/ findExisting(h)
    PROVE  AdminsInv'
<1> USE AdminsTyped
<1>1. CASE \E l \in Levels : sendInvite(h, l)
  <2>1. PICK l \in Levels : sendInvite(h, l)
    BY <1>1
  <2>2. [op |-> "expire", level |-> l] \in Clerking
    BY DEF Clerking, Inviting
  <2> QED
    BY <2>1, <2>2, ClerkMoves DEF sendInvite
<1>2. CASE expireOthers(h)
  <2>1. clerk[h] \in Inviting /\ clerk[h].op = "expire"
    BY <1>2 DEF expireOthers, Clerking, AtRest, Inviting, Accepting, Changing, Granting
  <2>2. PICK c : c = [clerk[h] EXCEPT !.op = "insert"]
    OBVIOUS
  <2>3. c \in Clerking /\ c.op = "insert"
    BY <2>1, <2>2 DEF Clerking, Inviting
  <2>4. invite' \in [Invites -> Invitation]
    BY <1>2 DEF expireOthers, Invitation
  <2>5. clerk' = [clerk EXCEPT ![h] = c]
    BY <1>2, <2>2 DEF expireOthers
  <2> QED
    BY <1>2, <2>3, <2>4, <2>5, ClerkMoves DEF expireOthers
<1>3. CASE \E i \in Invites : insertInvite(h, i)
  <2>1. PICK i \in Invites : insertInvite(h, i)
    BY <1>3
  <2>2. clerk[h].level \in Levels
    BY <2>1 DEF insertInvite, Clerking, AtRest, Inviting, Accepting, Changing, Granting
  <2>3. invite' \in [Invites -> Invitation]
    BY <2>1, <2>2 DEF insertInvite, Invitation
  <2>4. AtRest \in Clerking /\ AtRest.op = "idle"
    BY DEF Clerking, AtRest
  <2> QED
    BY <2>1, <2>3, <2>4, ClerkMoves DEF insertInvite
<1>4. CASE \E i \in Invites, p \in Passwords : acceptInvite(h, i, p)
  <2>1. PICK i \in Invites, p \in Passwords : acceptInvite(h, i, p)
    BY <1>4
  <2>2. invite[i].level \in Levels
    BY <2>1 DEF acceptInvite, Invitation
  <2>3. [op |-> "find", id |-> i, level |-> invite[i].level, password |-> p] \in Clerking
    BY <2>2 DEF Clerking, Accepting
  <2> QED
    BY <2>1, <2>3, ClerkMoves DEF acceptInvite
<1>5. CASE findExisting(h)
  <2>1. clerk[h] \in Accepting
    BY <1>5 DEF findExisting, Clerking, AtRest, Inviting, Accepting, Changing, Granting
  <2>2. PICK c : c = [clerk[h] EXCEPT !.op = "create"]
    OBVIOUS
  <2>3. c \in Clerking /\ c.op = "create" /\ AtRest \in Clerking /\ AtRest.op = "idle"
    BY <2>1, <2>2 DEF Clerking, Accepting, AtRest
  <2>4. PICK i \in Invites : i = clerk[h].id
    BY <2>1 DEF Accepting
  <2>5. [invite EXCEPT ![i].state = "closed"] \in [Invites -> Invitation]
    BY DEF Invitation
  <2> QED
    BY <1>5, <2>2, <2>3, <2>4, <2>5, ClerkMoves DEF findExisting
<1> QED
  BY <1>1, <1>2, <1>3, <1>4, <1>5

(* An account is created, and changed by id. *)
LEMMA AccountSteps ==
    ASSUME AdminsInv,
           \/ \E h \in Handlers : createAccepted(h) \/ writePassword(h) \/ commitGrants(h)
           \/ \E p \in Passwords : resetAdminPassword(p) \/ \E l \in Levels : create(p, l)
           \/ Exists /\ \E s \in {"active", "suspended"}, p \in Passwords : updateAdmin(s, p)
    PROVE  AdminsInv'
<1> USE AdminsTyped
<1>r. AtRest \in Clerking /\ AtRest.op = "idle"
  BY DEF Clerking, AtRest
<1>a. \A p \in Passwords, l \in Levels : Account(p, l) \in Row /\ Account(p, l).password = p
  BY DEF Account, Row
<1>p. Exists => admin.password \in Passwords /\ promised \subseteq {admin.password}
  BY DEF Row, AdminsInv, AcceptedOwnerSignsIn
<1>1. ASSUME NEW h \in Handlers, createAccepted(h) PROVE AdminsInv'
  <2>1. clerk[h] \in Accepting
    BY <1>1 DEF createAccepted, Clerking, AtRest, Inviting, Accepting, Changing, Granting
  <2>2. PICK i \in Invites : i = clerk[h].id
    BY <2>1 DEF Accepting
  <2>3. [invite EXCEPT ![i].state = "closed"] \in [Invites -> Invitation]
    BY DEF Invitation
  <2>4. PICK p \in Passwords, l \in Levels : p = clerk[h].password /\ l = clerk[h].level
    BY <2>1 DEF Accepting
  <2>5. CASE ~Exists /\ admin' = Account(p, l)
    <3>1. promised' = {p} /\ invite' = [invite EXCEPT ![i].state = "closed"]
      BY <1>1, <2>2, <2>4, <2>5, <1>a DEF createAccepted, Exists, Row
    <3>2. admin' \in Row /\ admin'.password = p
      BY <1>a, <2>5
    <3>3. clerk' \in [Handlers -> Clerking] /\ lock' = lock
      BY <1>1, <1>r DEF createAccepted
    <3> QED
      BY <2>3, <3>1, <3>2, <3>3, AccountMoves
  <2>6. CASE Exists
    BY <1>1, <1>r, <2>6, ClerkMoves DEF createAccepted
  <2> QED
    BY <1>1, <2>4, <2>5, <2>6 DEF createAccepted
<1>2. ASSUME NEW h \in Handlers, writePassword(h) PROVE AdminsInv'
  <2>1. clerk[h] \in Changing
    BY <1>2 DEF writePassword, Clerking, AtRest, Inviting, Accepting, Changing, Granting
  <2>2. PICK p \in Passwords : p = clerk[h].password
    BY <2>1 DEF Changing
  <2>3. admin \in Row
    BY <1>2 DEF AdminsInv, ChangesAnAccount, writePassword
  <2>4. admin' \in Row /\ admin'.password = p /\ promised' = {p}
    BY <1>2, <2>2, <2>3 DEF writePassword, Row
  <2>5. clerk' \in [Handlers -> Clerking] /\ lock' = lock /\ invite' = invite
    BY <1>2, <1>r DEF writePassword
  <2> QED
    BY <2>4, <2>5, AccountMoves
<1>3. ASSUME NEW h \in Handlers, commitGrants(h) PROVE AdminsInv'
  <2>1. clerk[h] \in Granting
    BY <1>3 DEF commitGrants, Clerking, AtRest, Inviting, Accepting, Changing, Granting
  <2>2. PICK l \in Levels : l = clerk[h].level
    BY <2>1 DEF Granting
  <2>3. admin \in Row
    BY <1>3 DEF AdminsInv, ChangesAnAccount, commitGrants
  <2>4. PICK g : g = [m \in Modules |-> IF lock[m] = h THEN l ELSE admin.grants[m]]
    OBVIOUS
  <2>5. g \in [Modules -> Levels]
    BY <2>3, <2>4 DEF Row
  <2>6. admin' = [admin EXCEPT !.grants = g]
    BY <1>3, <2>2, <2>4 DEF commitGrants
  <2>7. admin' \in Row /\ admin'.password = admin.password /\ promised' = promised
    BY <1>3, <2>3, <2>5, <2>6 DEF commitGrants, Row
  <2>8. lock' \in [Modules -> Handlers \cup {NoAdmin}]
    BY <1>3 DEF commitGrants, Unlocked
  <2>9. clerk' \in [Handlers -> Clerking] /\ invite' = invite
    BY <1>3, <1>r DEF commitGrants
  <2>10. Exists
    BY <2>3
  <2> QED
    BY <2>7, <2>8, <2>9, <2>10, <1>p, AccountMoves
<1>4. ASSUME NEW p \in Passwords, resetAdminPassword(p) PROVE AdminsInv'
  <2>1. admin' \in Row /\ admin'.password = p /\ promised' = {p}
    BY <1>4 DEF resetAdminPassword, Row
  <2> QED
    BY <1>4, <2>1, AccountMoves DEF resetAdminPassword
<1>5. ASSUME NEW p \in Passwords, NEW l \in Levels, create(p, l) PROVE AdminsInv'
  <2>1. admin' \in Row /\ admin'.password = p /\ promised' = {p}
    BY <1>5, <1>a DEF create
  <2> QED
    BY <1>5, <2>1, AccountMoves DEF create
<1>6. ASSUME NEW s \in {"active", "suspended"}, NEW p \in Passwords, updateAdmin(s, p)
      PROVE  AdminsInv'
  <2>1. admin' \in Row /\ admin'.password = p
    BY <1>6 DEF updateAdmin, Row
  <2>2. promised' \subseteq {p}
    BY <1>6, <1>p DEF updateAdmin
  <2> QED
    BY <1>6, <2>1, <2>2, AccountMoves DEF updateAdmin
<1> QED
  BY <1>1, <1>2, <1>3, <1>4, <1>5, <1>6

(* Permissions are set row by row, and a handler asks for a change. *)
LEMMA GrantingSteps ==
    ASSUME AdminsInv, NEW h \in Handlers,
           \/ \E l \in Levels, o \in Orders : setPermissions(h, l, o)
           \/ \E p \in Passwords : changePassword(h, p)
           \/ upsert(h) \/ \E q \in Handlers : deadlock(h, q)
    PROVE  AdminsInv'
<1> USE AdminsTyped
<1>r. AtRest \in Clerking /\ AtRest.op = "idle"
  BY DEF Clerking, AtRest
<1>1. CASE \E l \in Levels, o \in Orders : setPermissions(h, l, o)
  <2>1. PICK l \in Levels, o \in Orders : setPermissions(h, l, o)
    BY <1>1
  <2>2. o \in [1..2 -> Modules]
    BY DEF Orders
  <2>3. o \in Seq(Modules)
    <3>1. \A i \in 1..2 : o[i] \in Modules
      BY <2>2
    <3>2. [i \in 1..2 |-> o[i]] \in Seq(Modules)
      BY <3>1, IsASeq
    <3> QED
      BY <2>2, <3>2
  <2>4. [op |-> "grant", level |-> l, left |-> o] \in Clerking
    BY <2>3 DEF Clerking, Granting
  <2> QED
    BY <2>1, <2>4, ClerkMoves DEF setPermissions
<1>2. CASE \E p \in Passwords : changePassword(h, p)
  <2>1. PICK p \in Passwords : changePassword(h, p)
    BY <1>2
  <2>2. [op |-> "change", password |-> p] \in Clerking
    BY DEF Clerking, Changing
  <2>3. Exists
    BY <2>1 DEF changePassword, Exists
  <2> QED
    BY <2>1, <2>2, <2>3, ClerkMoves DEF changePassword
<1>3. CASE upsert(h)
  <2>1. clerk[h] \in Granting
    BY <1>3 DEF upsert, Clerking, AtRest, Inviting, Accepting, Changing, Granting
  <2>2. PICK left \in Seq(Modules) : left = clerk[h].left
    BY <2>1 DEF Granting
  <2>3. Tail(left) \in Seq(Modules) /\ Head(left) \in Modules
    BY <1>3, <2>2, HeadTailProperties DEF upsert
  <2>4. PICK c : c = [clerk[h] EXCEPT !.left = Tail(left)]
    OBVIOUS
  <2>5. c \in Clerking /\ c.op = "grant"
    BY <1>3, <2>1, <2>3, <2>4 DEF Clerking, Granting, upsert
  <2>6. clerk' = [clerk EXCEPT ![h] = c] /\ lock' = [lock EXCEPT ![Head(left)] = h]
    BY <1>3, <2>2, <2>4 DEF upsert
  <2>7. Exists /\ lock' \in [Modules -> Handlers \cup {NoAdmin}]
    BY <1>3, <2>3, <2>6 DEF AdminsInv, ChangesAnAccount, upsert
  <2> QED
    BY <1>3, <2>5, <2>6, <2>7, ClerkMoves DEF upsert
<1>4. CASE \E q \in Handlers : deadlock(h, q)
  <2>1. lock' \in [Modules -> Handlers \cup {NoAdmin}]
    BY <1>4 DEF deadlock, Unlocked
  <2> QED
    BY <1>4, <1>r, <2>1, ClerkMoves DEF deadlock
<1> QED
  BY <1>1, <1>2, <1>3, <1>4

(* Every step around the account keeps the invariant. *)
LEMMA AdminsStep == AdminsInv /\ AdminsNext => AdminsInv'
<1> SUFFICES ASSUME AdminsInv, AdminsNext PROVE AdminsInv'
  OBVIOUS
<1>1. ASSUME NEW i \in Invites, InviteLapses(i) PROVE AdminsInv'
  <2>1. invite' \in [Invites -> Invitation]
    BY <1>1, AdminsTyped DEF InviteLapses, Invitation
  <2>2. UNCHANGED <<admin, clerk, lock, promised>>
    BY <1>1 DEF InviteLapses
  <2>3. AdminsTypeOK'
    BY <2>1, <2>2 DEF AdminsInv, AdminsTypeOK, Invitation
  <2> QED
    BY <2>1, <2>2, <2>3 DEF AdminsInv, ChangesAnAccount, AcceptedOwnerSignsIn, Exists
<1> QED
  BY <1>1, InvitingSteps, AccountSteps, GrantingSteps DEF AdminsNext

(* A step of another part keeps it. *)
LEMMA AdminsRest == AdminsInv /\ UNCHANGED adminVars => AdminsInv'
<1> SUFFICES ASSUME AdminsInv, UNCHANGED adminVars PROVE AdminsInv'
  OBVIOUS
<1>1. UNCHANGED <<admin, invite, clerk, lock, promised>>
  BY DEF adminVars
<1> QED
  BY <1>1 DEF AdminsInv, AdminsTypeOK, ChangesAnAccount, AcceptedOwnerSignsIn, Exists

-----------------------------------------------------------------------------
(* The sessions of the portal.  An answer carries a pair that nobody has    *)
(* sent back yet, so setting it never takes an accepted token away; and the *)
(* tokens a trusted browser uses were revoked a moment ago at most.         *)

Usable(t) == refreshRow[t] \in {"live", "recent"}

Sending == {"find", "rotate", "answer"}

PairsKnown ==
    /\ cookies # NoPair => refreshRow[cookies] # "none"
    /\ \A b \in Tabs : tab[b].op \in Sending =>
          tab[b].pair \in Pairs /\ refreshRow[tab[b].pair] # "none"

AnswersFresh ==
    \A b \in Tabs : tab[b].op = "answer" =>
       /\ refreshRow[tab[b].pair] = "live" /\ cookies # tab[b].pair
       /\ \A a \in Tabs \ {b} : tab[a].op \in Sending => tab[a].pair # tab[b].pair

TrustedIsAccepted ==
    trusted => /\ standing = "active" /\ cookies # NoPair /\ Usable(cookies)
               /\ \A b \in Tabs : /\ tab[b].op # "refuse"
                                  /\ tab[b].op = "find" => Usable(tab[b].pair)

AdminSessionsInv ==
    AdminSessionsTypeOK /\ PairsKnown /\ AnswersFresh /\ TrustedIsAccepted

Tabbing == [op : {"idle", "find", "rotate", "issue", "answer", "refuse"},
            pair : Pairs \cup {NoPair}]

(* Nobody has signed in yet. *)
LEMMA AdminSessionsStart == AdminSessionsInit => AdminSessionsInv
<1> SUFFICES ASSUME AdminSessionsInit PROVE AdminSessionsInv
  OBVIOUS
<1>a. 0 \in 0..MaxStandings
  BY AdminSessionsAssumption
<1>b. Looking \in Tabbing
  BY DEF Looking, Tabbing
<1>1. AdminSessionsTypeOK
  BY <1>a, <1>b, Zenon DEF AdminSessionsInit, AdminSessionsTypeOK, Tabbing
<1>2. PairsKnown /\ AnswersFresh /\ TrustedIsAccepted
  BY DEF AdminSessionsInit, PairsKnown, AnswersFresh, TrustedIsAccepted, Looking, Sending
<1> QED
  BY <1>1, <1>2 DEF AdminSessionsInv

(* One tab takes its next step: what it must be true of its new state c, of *)
(* the rows and of the cookies for the invariant to survive.                *)
LEMMA TabMoves ==
    ASSUME AdminSessionsInv, NEW b \in Tabs, NEW c \in Tabbing,
           tab' = [tab EXCEPT ![b] = c], UNCHANGED <<standing, standings>>,
           refreshRow' \in [Pairs -> {"none", "live", "recent", "dead"}],
           accessRow' \in [Pairs -> {"none", "live", "revoked", "expired"}],
           \A t \in Pairs : refreshRow[t] # "none" => refreshRow'[t] # "none",
           \A t \in Pairs : Usable(t) => refreshRow'[t] \in {"live", "recent"},
           cookies' \in Pairs \cup {NoPair}, cookies' # NoPair => refreshRow'[cookies'] # "none",
           c.op \in Sending => c.pair \in Pairs /\ refreshRow'[c.pair] # "none",
           \A a \in Tabs \ {b} : tab[a].op = "answer" =>
              /\ refreshRow'[tab[a].pair] = "live" /\ cookies' # tab[a].pair
              /\ c.op \in Sending => c.pair # tab[a].pair,
           c.op = "answer" =>
              /\ refreshRow'[c.pair] = "live" /\ cookies' # c.pair
              /\ \A a \in Tabs \ {b} : tab[a].op \in Sending => tab[a].pair # c.pair,
           trusted' \in BOOLEAN,
           trusted' => /\ standing = "active" /\ cookies' # NoPair
                       /\ refreshRow'[cookies'] \in {"live", "recent"} /\ c.op # "refuse"
                       /\ c.op = "find" => refreshRow'[c.pair] \in {"live", "recent"}
                       /\ \A a \in Tabs \ {b} : /\ tab[a].op # "refuse"
                                                /\ tab[a].op = "find" => Usable(tab[a].pair)
    PROVE  AdminSessionsInv'
<1>t. tab \in [Tabs -> Tabbing]
  BY DEF AdminSessionsInv, AdminSessionsTypeOK, Tabbing
<1>1. tab' \in [Tabs -> Tabbing]
  BY <1>t
<1>2. tab'[b] = c /\ \A a \in Tabs \ {b} : tab'[a] = tab[a]
  BY <1>t
<1>3. AdminSessionsTypeOK'
  BY <1>1 DEF AdminSessionsInv, AdminSessionsTypeOK, Tabbing
<1>k. \A a \in Tabs : tab[a].op \in Sending => tab[a].pair \in Pairs /\ refreshRow[tab[a].pair] # "none"
  BY DEF AdminSessionsInv, PairsKnown
<1>4. PairsKnown'
  BY <1>2, <1>k DEF PairsKnown
<1>f. \A a, d \in Tabs : a # d /\ tab[a].op = "answer" /\ tab[d].op \in Sending
                           => tab[d].pair # tab[a].pair
  BY DEF AdminSessionsInv, AnswersFresh
<1>5. AnswersFresh'
  BY <1>2, <1>f DEF AnswersFresh
<1>6. TrustedIsAccepted'
  <2> SUFFICES ASSUME trusted' PROVE TrustedIsAccepted'
    BY DEF TrustedIsAccepted
  <2>1. \A a \in Tabs : tab'[a].op # "refuse"
    BY <1>2
  <2>2. \A a \in Tabs : tab'[a].op = "find" => refreshRow'[tab'[a].pair] \in {"live", "recent"}
    BY <1>2, <1>k DEF Sending
  <2> QED
    BY <2>1, <2>2 DEF TrustedIsAccepted, Usable
<1> QED
  BY <1>3, <1>4, <1>5, <1>6 DEF AdminSessionsInv

(* A tab comes to rest or goes on, and rows, cookies and trust stay. *)
LEMMA TabWaits ==
    ASSUME AdminSessionsInv, NEW b \in Tabs, NEW c \in Tabbing,
           tab' = [tab EXCEPT ![b] = c],
           UNCHANGED <<standing, standings, refreshRow, accessRow, cookies, trusted>>,
           c.op \in Sending =>
              /\ c.op # "answer" /\ c.pair \in Pairs /\ refreshRow[c.pair] # "none"
              /\ \A a \in Tabs \ {b} : tab[a].op = "answer" => c.pair # tab[a].pair,
           trusted => c.op # "refuse" /\ (c.op = "find" => Usable(c.pair))
    PROVE  AdminSessionsInv'
<1>1. /\ refreshRow \in [Pairs -> {"none", "live", "recent", "dead"}]
      /\ accessRow \in [Pairs -> {"none", "live", "revoked", "expired"}]
      /\ cookies \in Pairs \cup {NoPair} /\ trusted \in BOOLEAN
  BY DEF AdminSessionsInv, AdminSessionsTypeOK
<1>2. cookies # NoPair => refreshRow[cookies] # "none"
  BY DEF AdminSessionsInv, PairsKnown
<1>3. \A a \in Tabs \ {b} : tab[a].op = "answer" =>
         refreshRow[tab[a].pair] = "live" /\ cookies # tab[a].pair
  BY DEF AdminSessionsInv, AnswersFresh
<1>4. trusted => /\ standing = "active" /\ cookies # NoPair /\ Usable(cookies)
                 /\ \A a \in Tabs : /\ tab[a].op # "refuse"
                                    /\ tab[a].op = "find" => Usable(tab[a].pair)
  BY DEF AdminSessionsInv, TrustedIsAccepted
<1>5. \A t \in Pairs : Usable(t) => refreshRow'[t] \in {"live", "recent"}
  BY DEF Usable
<1>6. trusted' => /\ standing = "active" /\ cookies' # NoPair
                  /\ refreshRow'[cookies'] \in {"live", "recent"} /\ c.op # "refuse"
                  /\ c.op = "find" => refreshRow'[c.pair] \in {"live", "recent"}
                  /\ \A a \in Tabs \ {b} : /\ tab[a].op # "refuse"
                                           /\ tab[a].op = "find" => Usable(tab[a].pair)
  BY <1>4 DEF Usable
<1>7. c.op # "answer"
  BY DEF Sending
<1>8. \A a \in Tabs \ {b} : tab[a].op = "answer" =>
         /\ refreshRow'[tab[a].pair] = "live" /\ cookies' # tab[a].pair
         /\ c.op \in Sending => c.pair # tab[a].pair
  BY <1>3
<1>9. /\ cookies' \in Pairs \cup {NoPair}
      /\ cookies' # NoPair => refreshRow'[cookies'] # "none"
      /\ c.op \in Sending => c.pair \in Pairs /\ refreshRow'[c.pair] # "none"
      /\ refreshRow' \in [Pairs -> {"none", "live", "recent", "dead"}]
      /\ accessRow' \in [Pairs -> {"none", "live", "revoked", "expired"}]
      /\ \A t \in Pairs : refreshRow[t] # "none" => refreshRow'[t] # "none"
      /\ trusted' \in BOOLEAN
  BY <1>1, <1>2
<1> QED
  BY <1>5, <1>6, <1>7, <1>8, <1>9, TabMoves

(* Every step of a tab, of the clock, of an admin and of the service. *)
LEMMA AdminSessionsStep == AdminSessionsInv /\ AdminSessionsNext => AdminSessionsInv'
<1> SUFFICES ASSUME AdminSessionsInv, AdminSessionsNext PROVE AdminSessionsInv'
  OBVIOUS
<1>t. /\ standing \in {"active", "suspended"} /\ standings \in 0..MaxStandings
      /\ refreshRow \in [Pairs -> {"none", "live", "recent", "dead"}]
      /\ accessRow \in [Pairs -> {"none", "live", "revoked", "expired"}]
      /\ cookies \in Pairs \cup {NoPair} /\ trusted \in BOOLEAN
      /\ tab \in [Tabs -> Tabbing]
  BY DEF AdminSessionsInv, AdminSessionsTypeOK, Tabbing
<1>l. Looking \in Tabbing /\ Looking.op = "idle" /\ Looking.op \notin Sending
  BY DEF Looking, Tabbing, Sending
<1>c. /\ cookies # NoPair => refreshRow[cookies] # "none"
      /\ \A b \in Tabs : tab[b].op \in Sending =>
            tab[b].pair \in Pairs /\ refreshRow[tab[b].pair] # "none"
  BY DEF AdminSessionsInv, PairsKnown
<1>f. \A b \in Tabs : tab[b].op = "answer" =>
         /\ refreshRow[tab[b].pair] = "live" /\ cookies # tab[b].pair
         /\ \A a \in Tabs \ {b} : tab[a].op \in Sending => tab[a].pair # tab[b].pair
  BY DEF AdminSessionsInv, AnswersFresh
<1>k. trusted => /\ standing = "active" /\ cookies # NoPair /\ Usable(cookies)
                 /\ \A b \in Tabs : /\ tab[b].op # "refuse"
                                    /\ tab[b].op = "find" => Usable(tab[b].pair)
  BY DEF AdminSessionsInv, TrustedIsAccepted
<1>1. ASSUME NEW b \in Tabs, signIn(b) PROVE AdminSessionsInv'
  <2>1. PICK c \in Tabbing : c = [op |-> "issue", pair |-> NoPair]
    BY DEF Tabbing
  <2>2. c.op = "issue" /\ c.op \notin Sending
    BY <2>1 DEF Sending
  <2> QED
    BY <1>1, <2>1, <2>2, TabWaits DEF signIn
<1>2. ASSUME NEW b \in Tabs, askForRefresh(b) PROVE AdminSessionsInv'
  <2>1. PICK c \in Tabbing : c = [op |-> "find", pair |-> cookies]
    BY <1>t DEF Tabbing
  <2>2. c.op = "find" /\ c.pair = cookies
    BY <2>1
  <2>3. c.pair \in Pairs /\ refreshRow[c.pair] # "none"
    BY <1>2, <1>t, <1>c, <2>2 DEF askForRefresh
  <2>4. \A a \in Tabs \ {b} : tab[a].op = "answer" => c.pair # tab[a].pair
    BY <1>f, <2>2
  <2>5. trusted => Usable(c.pair)
    BY <1>k, <2>2
  <2> QED
    BY <1>2, <2>1, <2>2, <2>3, <2>4, <2>5, TabWaits DEF askForRefresh
<1>3. ASSUME NEW b \in Tabs, findSession(b) PROVE AdminSessionsInv'
  <2>1. PICK c : c = [tab[b] EXCEPT !.op = IF refreshable(tab[b].pair) THEN "rotate" ELSE "refuse"]
    OBVIOUS
  <2>2. c \in Tabbing /\ c.pair = tab[b].pair /\ c.op \in {"rotate", "refuse"}
    BY <1>t, <2>1 DEF Tabbing
  <2>3. tab[b].op = "find" /\ tab[b].op \in Sending
    BY <1>3 DEF findSession, Sending
  <2>4. trusted => c.op = "rotate"
    <3>1. trusted => refreshable(tab[b].pair)
      BY <1>k, <2>3 DEF refreshable, Usable
    <3> QED
      BY <1>t, <2>1, <3>1 DEF Tabbing
  <2>5. c.pair \in Pairs /\ refreshRow[c.pair] # "none"
    BY <1>c, <2>2, <2>3
  <2>6. \A a \in Tabs \ {b} : tab[a].op = "answer" => c.pair # tab[a].pair
    BY <1>f, <2>2, <2>3
  <2>7. tab' = [tab EXCEPT ![b] = c]
    BY <1>3, <1>t, <2>1 DEF findSession
  <2> QED
    BY <1>3, <2>2, <2>4, <2>5, <2>6, <2>7, TabWaits DEF findSession
<1>4. ASSUME NEW b \in Tabs, rotate(b) PROVE AdminSessionsInv'
  <2>1. PICK c : c = [tab[b] EXCEPT !.op = "issue"]
    OBVIOUS
  <2>2. c \in Tabbing /\ c.op = "issue" /\ c.op \notin Sending
    BY <1>t, <2>1 DEF Tabbing, Sending
  <2>3. tab[b].op \in Sending
    BY <1>4 DEF rotate, Sending
  <2>4. PICK s \in Pairs : s = tab[b].pair
    BY <1>c, <2>3
  <2>5. refreshRow' = [refreshRow EXCEPT ![s] = "recent"]
    BY <1>4, <2>4 DEF rotate
  <2>6. /\ \A t \in Pairs : refreshRow[t] # "none" => refreshRow'[t] # "none"
        /\ \A t \in Pairs : Usable(t) => refreshRow'[t] \in {"live", "recent"}
        /\ refreshRow' \in [Pairs -> {"none", "live", "recent", "dead"}]
    BY <1>t, <2>5 DEF Usable
  <2>7. \A a \in Tabs \ {b} : tab[a].op = "answer" =>
           refreshRow'[tab[a].pair] = "live" /\ cookies' # tab[a].pair
    <3> SUFFICES ASSUME NEW a \in Tabs \ {b}, tab[a].op = "answer"
                 PROVE  refreshRow'[tab[a].pair] = "live" /\ cookies' # tab[a].pair
      OBVIOUS
    <3>1. tab[a].pair # s /\ tab[a].pair \in Pairs
      BY <1>c, <1>f, <2>3, <2>4 DEF Sending
    <3> QED
      BY <1>4, <1>f, <1>t, <2>5, <3>1 DEF rotate
  <2>8. tab' = [tab EXCEPT ![b] = c] /\ UNCHANGED <<standing, standings, accessRow, cookies, trusted>>
    BY <1>4, <1>t, <2>1 DEF rotate
  <2>9. trusted' => /\ standing = "active" /\ cookies' # NoPair
                    /\ refreshRow'[cookies'] \in {"live", "recent"}
                    /\ \A a \in Tabs \ {b} : /\ tab[a].op # "refuse"
                                             /\ tab[a].op = "find" => Usable(tab[a].pair)
    BY <1>k, <1>t, <2>6, <2>8
  <2> QED
    BY <1>t, <1>c, <2>2, <2>6, <2>7, <2>8, <2>9, TabMoves
<1>5. ASSUME NEW b \in Tabs, NEW t \in Pairs, issue(b, t) PROVE AdminSessionsInv'
  <2>1. PICK c \in Tabbing : c = [op |-> "answer", pair |-> t]
    BY DEF Tabbing
  <2>2. c.op = "answer" /\ c.pair = t
    BY <2>1
  <2>3. refreshRow' = [refreshRow EXCEPT ![t] = "live"] /\ refreshRow[t] = "none"
    BY <1>5 DEF issue
  <2>4. /\ \A s \in Pairs : refreshRow[s] # "none" => refreshRow'[s] # "none"
        /\ \A s \in Pairs : Usable(s) => refreshRow'[s] \in {"live", "recent"}
        /\ refreshRow' \in [Pairs -> {"none", "live", "recent", "dead"}]
        /\ accessRow' \in [Pairs -> {"none", "live", "revoked", "expired"}]
    BY <1>5, <1>t, <2>3 DEF issue, Usable
  <2>5. refreshRow'[t] = "live"
    BY <1>t, <2>3
  <2>6. \A a \in Tabs : tab[a].op \in Sending => tab[a].pair # t
    BY <1>c, <2>3
  <2>7. cookies # t
    BY <1>c, <2>3, AdminSessionsAssumption
  <2>8. \A a \in Tabs \ {b} : tab[a].op = "answer" =>
           refreshRow'[tab[a].pair] = "live" /\ cookies # tab[a].pair
    BY <1>c, <1>f, <1>t, <2>3, <2>6 DEF Sending
  <2>9. tab' = [tab EXCEPT ![b] = c] /\ UNCHANGED <<standing, standings, cookies, trusted>>
    BY <1>5, <2>1 DEF issue
  <2>10. trusted' => /\ standing = "active" /\ cookies' # NoPair
                     /\ refreshRow'[cookies'] \in {"live", "recent"}
                     /\ \A a \in Tabs \ {b} : /\ tab[a].op # "refuse"
                                              /\ tab[a].op = "find" => Usable(tab[a].pair)
    BY <1>k, <1>t, <2>4, <2>9
  <2> QED
    <3>1. /\ c.op \in Sending => c.pair \in Pairs /\ refreshRow'[c.pair] # "none"
          /\ c.op = "answer" =>
                /\ refreshRow'[c.pair] = "live" /\ cookies' # c.pair
                /\ \A a \in Tabs \ {b} : tab[a].op \in Sending => tab[a].pair # c.pair
      BY <2>2, <2>5, <2>6, <2>7, <2>9
    <3>2. \A a \in Tabs \ {b} : tab[a].op = "answer" =>
             /\ refreshRow'[tab[a].pair] = "live" /\ cookies' # tab[a].pair
             /\ c.op \in Sending => c.pair # tab[a].pair
      BY <2>2, <2>6, <2>8, <2>9 DEF Sending
    <3>3. /\ cookies' \in Pairs \cup {NoPair} /\ trusted' \in BOOLEAN
          /\ cookies' # NoPair => refreshRow'[cookies'] # "none"
      BY <1>t, <1>c, <2>4, <2>9
    <3>4. c.op \notin {"find", "refuse"}
      BY <2>2
    <3> QED
      BY <2>4, <2>9, <2>10, <3>1, <3>2, <3>3, <3>4, TabMoves
<1>6. ASSUME NEW b \in Tabs, setAuthCookies(b) PROVE AdminSessionsInv'
  <2>1. tab[b].op = "answer" /\ tab[b].op \in Sending
    BY <1>6 DEF setAuthCookies, Sending
  <2>2. PICK t \in Pairs : t = tab[b].pair
    BY <1>c, <2>1
  <2>3. refreshRow[t] = "live" /\ \A a \in Tabs \ {b} : tab[a].op \in Sending => tab[a].pair # t
    BY <1>f, <2>1, <2>2
  <2>4. cookies' = t /\ tab' = [tab EXCEPT ![b] = Looking]
        /\ UNCHANGED <<standing, standings, refreshRow, accessRow>>
    BY <1>6, <2>2 DEF setAuthCookies
  <2>5. trusted' = (trusted \/ (/\ standing = "active"
                                /\ \A a \in Tabs \ {b} : tab[a] = Looking))
    BY <1>6 DEF setAuthCookies
  <2>6. trusted' \in BOOLEAN
    BY <1>t, <2>5
  <2>7. trusted' => /\ standing = "active"
                    /\ \A a \in Tabs \ {b} : /\ tab[a].op # "refuse"
                                             /\ tab[a].op = "find" => Usable(tab[a].pair)
    BY <1>k, <1>l, <2>5
  <2>8. \A a \in Tabs \ {b} : tab[a].op = "answer" =>
           refreshRow'[tab[a].pair] = "live" /\ cookies' # tab[a].pair
    BY <1>f, <2>3, <2>4 DEF Sending
  <2>9. /\ cookies' \in Pairs \cup {NoPair} /\ cookies' # NoPair
        /\ refreshRow'[cookies'] = "live"
    BY <2>3, <2>4, AdminSessionsAssumption
  <2>10. \A s \in Pairs : Usable(s) => refreshRow'[s] \in {"live", "recent"}
    BY <2>4 DEF Usable
  <2> QED
    BY <1>t, <1>l, <2>4, <2>6, <2>7, <2>8, <2>9, <2>10, TabMoves
<1>7. ASSUME NEW b \in Tabs, clearAuthCookies(b) PROVE AdminSessionsInv'
  <2>1. cookies' = NoPair /\ tab' = [tab EXCEPT ![b] = Looking]
        /\ UNCHANGED <<standing, standings, refreshRow, accessRow, trusted>> /\ ~trusted
    BY <1>7, <1>k DEF clearAuthCookies
  <2>2. \A a \in Tabs \ {b} : tab[a].op = "answer" =>
           refreshRow'[tab[a].pair] = "live" /\ cookies' # tab[a].pair
    BY <1>c, <1>f, <2>1, AdminSessionsAssumption DEF Sending
  <2>3. \A s \in Pairs : Usable(s) => refreshRow'[s] \in {"live", "recent"}
    BY <2>1 DEF Usable
  <2> QED
    BY <1>t, <1>l, <2>1, <2>2, <2>3, TabMoves
<1>8. ASSUME NEW b \in Tabs, LoseAnswer(b) PROVE AdminSessionsInv'
  BY <1>8, <1>l, TabWaits DEF LoseAnswer
<1>9. ASSUME NEW b \in Tabs, signOut(b) PROVE AdminSessionsInv'
  <2>1. cookies \in Pairs /\ refreshRow[cookies] # "none"
    BY <1>9, <1>c, <1>t DEF signOut
  <2>2. PICK r \in {"live", "recent", "dead"} :
           r = IF refreshRow[cookies] = "live" THEN "recent" ELSE refreshRow[cookies]
    BY <2>1, <1>t
  <2>3. refreshRow' = [refreshRow EXCEPT ![cookies] = r]
    BY <1>9, <1>t, <2>1, <2>2 DEF signOut
  <2>4. tab' = [tab EXCEPT ![b] = Looking] /\ UNCHANGED <<standing, standings>>
        /\ cookies' \in {NoPair, cookies} /\ trusted' = FALSE
    <3>1. tab[b] = Looking /\ tab' = tab
      BY <1>9 DEF signOut
    <3>2. tab' = [tab EXCEPT ![b] = Looking]
      BY <1>t, <3>1
    <3> QED
      BY <1>9, <3>2 DEF signOut
  <2>5. /\ refreshRow' \in [Pairs -> {"none", "live", "recent", "dead"}]
        /\ accessRow' \in [Pairs -> {"none", "live", "revoked", "expired"}]
    BY <1>9, <1>t, <2>1, <2>3 DEF signOut
  <2>6. /\ \A t \in Pairs : refreshRow[t] # "none" => refreshRow'[t] # "none"
        /\ \A t \in Pairs : Usable(t) => refreshRow'[t] \in {"live", "recent"}
    BY <1>t, <2>1, <2>2, <2>3 DEF Usable
  <2>7. \A a \in Tabs \ {b} : tab[a].op = "answer" =>
           refreshRow'[tab[a].pair] = "live" /\ cookies' # tab[a].pair
    <3> SUFFICES ASSUME NEW a \in Tabs \ {b}, tab[a].op = "answer"
                 PROVE  refreshRow'[tab[a].pair] = "live" /\ cookies' # tab[a].pair
      OBVIOUS
    <3>1. tab[a].pair # cookies /\ tab[a].pair \in Pairs /\ refreshRow[tab[a].pair] = "live"
      BY <1>c, <1>f DEF Sending
    <3> QED
      BY <1>t, <2>3, <2>4, <3>1, AdminSessionsAssumption
  <2>8. cookies' \in Pairs \cup {NoPair} /\ (cookies' # NoPair => refreshRow'[cookies'] # "none")
    BY <2>1, <2>4, <2>6
  <2> QED
    BY <1>l, <2>4, <2>5, <2>6, <2>7, <2>8, TabMoves
<1>10. ASSUME NEW t \in Pairs, AccessExpires(t) PROVE AdminSessionsInv'
  <2>1. UNCHANGED <<standing, standings, refreshRow, cookies, tab, trusted>>
    BY <1>10 DEF AccessExpires
  <2>2. accessRow' \in [Pairs -> {"none", "live", "revoked", "expired"}]
    BY <1>10, <1>t DEF AccessExpires
  <2> QED
    BY <2>1, <2>2 DEF AdminSessionsInv, AdminSessionsTypeOK, PairsKnown, AnswersFresh,
       TrustedIsAccepted, Usable
<1>11. ASSUME NEW t \in Pairs, RevocationAges(t) PROVE AdminSessionsInv'
  <2>1. UNCHANGED <<standing, standings, accessRow, cookies, tab>>
    BY <1>11 DEF RevocationAges
  <2>2. /\ refreshRow' \in [Pairs -> {"none", "live", "recent", "dead"}]
        /\ \A s \in Pairs \ {t} : refreshRow'[s] = refreshRow[s]
        /\ refreshRow[t] = "recent" /\ refreshRow'[t] = "dead"
    BY <1>11, <1>t DEF RevocationAges
  <2>3. trusted' = (trusted /\ cookies # t /\ \A b \in Tabs : ~Carries(b, t))
    BY <1>11 DEF RevocationAges
  <2>4. AdminSessionsTypeOK'
    <3>1. trusted' \in BOOLEAN
      BY <2>3
    <3> QED
      BY <2>1, <2>2, <3>1, <1>t DEF AdminSessionsTypeOK, Tabbing
  <2>5. PairsKnown'
    <3>1. \A s \in Pairs : refreshRow[s] # "none" => refreshRow'[s] # "none"
      BY <2>2
    <3> QED
      BY <1>t, <1>c, <2>1, <3>1 DEF PairsKnown
  <2>6. AnswersFresh'
    <3>1. \A s \in Pairs : refreshRow[s] = "live" => refreshRow'[s] = "live"
      BY <2>2
    <3> QED
      BY <1>f, <1>c, <2>1, <3>1 DEF AnswersFresh, Sending
  <2>7. TrustedIsAccepted'
    <3> SUFFICES ASSUME trusted' PROVE TrustedIsAccepted'
      BY DEF TrustedIsAccepted
    <3>1. trusted /\ cookies # t /\ \A b \in Tabs : tab[b].op = "find" => tab[b].pair # t
      BY <2>3 DEF Carries
    <3>2. \A s \in Pairs \ {t} : Usable(s) => refreshRow'[s] \in {"live", "recent"}
      BY <2>2 DEF Usable
    <3>3. refreshRow'[cookies] \in {"live", "recent"}
      BY <1>k, <1>t, <3>1, <3>2
    <3>4. \A b \in Tabs : tab[b].op = "find" => refreshRow'[tab[b].pair] \in {"live", "recent"}
      BY <1>k, <1>c, <3>1, <3>2 DEF Sending
    <3> QED
      BY <1>k, <2>1, <3>1, <3>3, <3>4 DEF TrustedIsAccepted, Usable
  <2> QED
    BY <2>4, <2>5, <2>6, <2>7 DEF AdminSessionsInv
<1>12. CASE ChangeStanding
  <2>1. UNCHANGED <<refreshRow, accessRow, cookies, tab>> /\ trusted' = FALSE
    BY <1>12 DEF ChangeStanding
  <2>2. standing' \in {"active", "suspended"} /\ standings' \in 0..MaxStandings
    BY <1>12, <1>t, AdminSessionsAssumption DEF ChangeStanding
  <2> QED
    BY <2>1, <2>2 DEF AdminSessionsInv, AdminSessionsTypeOK, PairsKnown, AnswersFresh,
       TrustedIsAccepted
<1>13. CASE AdminRestarts
  <2>1. UNCHANGED <<standing, standings, refreshRow, accessRow, cookies, trusted>>
    BY <1>13 DEF AdminRestarts
  <2>2. tab' \in [Tabs -> Tabbing] /\ \A b \in Tabs : tab'[b].op = "idle"
    BY <1>13, <1>l DEF AdminRestarts
  <2> QED
    BY <2>1, <2>2 DEF AdminSessionsInv, AdminSessionsTypeOK, PairsKnown, AnswersFresh,
       TrustedIsAccepted, Usable, Tabbing, Sending
<1> QED
  BY <1>1, <1>2, <1>3, <1>4, <1>5, <1>6, <1>7, <1>8, <1>9, <1>10, <1>11, <1>12, <1>13
     DEF AdminSessionsNext

(* A step of another part keeps it. *)
LEMMA AdminSessionsRest == AdminSessionsInv /\ UNCHANGED adminSessionVars => AdminSessionsInv'
<1> SUFFICES ASSUME AdminSessionsInv, UNCHANGED adminSessionVars PROVE AdminSessionsInv'
  OBVIOUS
<1>1. UNCHANGED <<standing, standings, refreshRow, accessRow, cookies, tab, trusted>>
  BY DEF adminSessionVars
<1> QED
  BY <1>1 DEF AdminSessionsInv, AdminSessionsTypeOK, PairsKnown, AnswersFresh,
     TrustedIsAccepted, Usable

(* What the invariant says of a browser that may stay signed in. *)
LEMMA AdminSessionsPromise == AdminSessionsInv => AdminStaysSignedIn
BY DEF AdminSessionsInv, TrustedIsAccepted, AdminStaysSignedIn, refreshable, Usable

-----------------------------------------------------------------------------
(* The live events.  A cursor stands at a row of its domain, or at a moment *)
(* before every open stream; so a row committed in order is after it.  What *)
(* a poll has found and what was written complete each other, although the  *)
(* cursor has moved since the poll read it.                                 *)

NothingFromTheFuture ==
    /\ \A k \in Kinds : cursors[k] <= instant /\ \A s \in stamped[k] : s \in 1..instant
    /\ \A t \in Streams : opened[t] <= instant

CursorIsBacked ==
    \A k \in Kinds : \/ cursors[k] = 0 \/ cursors[k] \in stamped[k]
                     \/ \A t \in clients : cursors[k] <= opened[t]

Complete(k, found) ==
    /\ found \subseteq stamped[k]
    /\ \A t \in clients, s \in stamped[k] \ late[k] :
          opened[t] < s /\ (\E x \in found : s <= x) => s \in heardOn[t][k] \cup found

FoundCompletes ==
    \A p \in Polls : polling[p].op = "tell" => Complete(polling[p].at, polling[p].found)

AdminFeedInv == /\ AdminFeedTypeOK /\ NothingFromTheFuture /\ CursorIsBacked
                /\ FoundCompletes /\ EventsReachTabs

PollStep == {Waiting} \cup [op : {"ask"}, at : Kinds]
               \cup [op : {"tell"}, at : Kinds, found : SUBSET Stamps]

(* A set of stamps has a last one, and that is its Max. *)
LEMMA LastStamp ==
    ASSUME NEW F \in SUBSET Stamps, F # {}
    PROVE  Max(F) \in F /\ \A s \in F : s <= Max(F)
<1>n. \A x \in F : x \in Nat
  BY DEF Stamps
<1>1. IsFiniteSet(Stamps)
  BY FS_Interval, AdminFeedAssumption DEF Stamps
<1>2. IsWellFoundedOn(StrictSubsetOrdering(Stamps), SUBSET Stamps)
  BY <1>1, FS_StrictSubsetOrderingWellFounded, FS_FiniteSubsetsOfFinite
<1>3. PICK T : T = {{s \in F : s > x} : x \in F}
  OBVIOUS
<1>4. T \subseteq SUBSET Stamps /\ T # {}
  BY <1>3
<1>5. PICK A \in T : \A B \in T : ~(<<B, A>> \in StrictSubsetOrdering(Stamps))
  BY <1>2, <1>4, WFMin
<1>6. PICK l \in F : A = {s \in F : s > l}
  BY <1>3
<1>8. ASSUME NEW s \in F PROVE l >= s
  <2>1. PICK B \in T : B = {x \in F : x > s}
    BY <1>3
  <2>2. CASE s > l
    <3>1. B \subseteq A /\ s \in A /\ s \notin B
      BY <1>n, <1>6, <2>1, <2>2
    <3>2. <<B, A>> \in StrictSubsetOrdering(Stamps)
      BY <1>4, <3>1 DEF StrictSubsetOrdering
    <3> QED
      BY <1>5, <3>2
  <2> QED
    BY <1>n, <2>2
<1>9. Max(F) \in F /\ \A s \in F : Max(F) >= s
  BY <1>8, Zenon DEF Max
<1> QED
  BY <1>9 DEF Stamps

(* The types. *)
LEMMA FeedTyped ==
    ASSUME AdminFeedInv
    PROVE  /\ instant \in Stamps /\ Stamps \subseteq Nat
           /\ stamped \in [Kinds -> SUBSET Stamps] /\ late \in [Kinds -> SUBSET Stamps]
           /\ cursors \in [Kinds -> Stamps] /\ polling \in [Polls -> PollStep]
           /\ clients \subseteq Streams /\ opened \in [Streams -> Stamps]
           /\ heardOn \in [Streams -> [Kinds -> SUBSET Stamps]]
BY DEF AdminFeedInv, AdminFeedTypeOK, PollStep, Stamps

(* The poller starts, no row is stamped and no stream is open. *)
LEMMA AdminFeedStart == AdminFeedInit => AdminFeedInv
<1> SUFFICES ASSUME AdminFeedInit PROVE AdminFeedInv
  OBVIOUS
<1>1. 0 \in Stamps /\ 1 \in Stamps
  BY AdminFeedAssumption DEF Stamps
<1>2. AdminFeedTypeOK
  BY <1>1 DEF AdminFeedInit, AdminFeedTypeOK
<1>3. NothingFromTheFuture /\ CursorIsBacked /\ EventsReachTabs
  BY DEF AdminFeedInit, NothingFromTheFuture, CursorIsBacked, EventsReachTabs
<1>4. FoundCompletes
  BY DEF AdminFeedInit, FoundCompletes, Waiting
<1> QED
  BY <1>2, <1>3, <1>4 DEF AdminFeedInv

(* A poll moves on while rows, cursors and streams stay. *)
LEMMA PollMoves ==
    ASSUME AdminFeedInv, NEW p \in Polls, NEW c \in PollStep,
           polling' = [polling EXCEPT ![p] = c],
           UNCHANGED <<instant, stamped, late, cursors, clients, opened, heardOn>>,
           c.op = "tell" => Complete(c.at, c.found)
    PROVE  AdminFeedInv'
<1>1. polling' \in [Polls -> PollStep]
  BY FeedTyped
<1>2. polling'[p] = c /\ \A q \in Polls \ {p} : polling'[q] = polling[q]
  BY FeedTyped
<1>3. AdminFeedTypeOK'
  BY <1>1 DEF AdminFeedInv, AdminFeedTypeOK, PollStep
<1>4. NothingFromTheFuture' /\ CursorIsBacked' /\ EventsReachTabs'
  BY DEF AdminFeedInv, NothingFromTheFuture, CursorIsBacked, EventsReachTabs
<1>5. \A k, found : Complete(k, found) => Complete(k, found)'
  BY DEF Complete
<1>6. FoundCompletes'
  <2> SUFFICES ASSUME NEW q \in Polls, polling'[q].op = "tell"
               PROVE  Complete(polling[q].at, polling[q].found)'
    BY DEF FoundCompletes
  <2>1. PICK k, found : k = polling'[q].at /\ found = polling'[q].found
    OBVIOUS
  <2>2. Complete(k, found)
    BY <1>2, <2>1 DEF AdminFeedInv, FoundCompletes
  <2>3. Complete(k, found)'
    BY <1>5, <2>2
  <2> QED
    BY <2>1, <2>3 DEF Complete
<1> QED
  BY <1>3, <1>4, <1>6 DEF AdminFeedInv

(* A row is stamped and committed: the open streams have it ahead of them,  *)
(* or it is late.                                                           *)
LEMMA RowCommitted ==
    ASSUME AdminFeedInv, NEW k \in Kinds, NEW s \in Stamps, CommitRow(k, s)
    PROVE  AdminFeedInv'
<1>0. \A a, b \in Nat : a # b /\ ~(a > b) => a < b
  OBVIOUS
<1> USE FeedTyped
<1>1. /\ s \in 1..instant /\ s \notin stamped[k]
      /\ stamped' = [stamped EXCEPT ![k] = stamped[k] \cup {s}]
      /\ late' = IF \E x \in stamped[k] : x > s THEN [late EXCEPT ![k] = late[k] \cup {s}] ELSE late
      /\ UNCHANGED <<instant, cursors, polling, clients, opened, heardOn>>
  BY DEF CommitRow
<1>2. AdminFeedTypeOK'
  BY <1>1 DEF AdminFeedTypeOK, PollStep
<1>3. NothingFromTheFuture' /\ CursorIsBacked'
  BY <1>1 DEF AdminFeedInv, NothingFromTheFuture, CursorIsBacked
<1>4. \A j \in Kinds : \A x \in stamped'[j] \ late'[j] :
         \/ x \in stamped[j] \ late[j]
         \/ j = k /\ x = s /\ \A y \in stamped[k] : y < s
  <2> SUFFICES ASSUME NEW j \in Kinds, NEW x \in stamped'[j] \ late'[j],
                      x \notin stamped[j] \ late[j]
               PROVE  j = k /\ x = s /\ \A y \in stamped[k] : y < s
    OBVIOUS
  <2>1. late[j] \subseteq late'[j]
    BY <1>1
  <2>2. j = k /\ x = s
    BY <1>1, <2>1
  <2>3. ~ \E y \in stamped[k] : y > s
    BY <1>1, <2>2
  <2>4. ASSUME NEW y \in stamped[k] PROVE y < s
    <3>1. y # s /\ ~(y > s)
      BY <1>1, <2>3
    <3>2. stamped[k] \subseteq Stamps
      OBVIOUS
    <3>3. y \in Nat /\ s \in Nat
      BY <3>2
    <3> QED
      BY <1>0, <3>1, <3>3, Zenon
  <2> QED
    BY <2>2, <2>4
<1>5. \A j \in Kinds : stamped[j] \subseteq stamped'[j]
  BY <1>1
<1>6. EventsReachTabs'
  <2> SUFFICES ASSUME NEW t \in clients, NEW j \in Kinds, NEW x \in stamped'[j] \ late'[j],
                      opened[t] < x, x <= cursors[j]
               PROVE  x \in heardOn[t][j]
    BY <1>1 DEF EventsReachTabs
  <2>1. CASE x \in stamped[j] \ late[j]
    BY <2>1 DEF AdminFeedInv, EventsReachTabs
  <2>2. CASE j = k /\ x = s /\ \A y \in stamped[k] : y < s
    <3>3. t \in Streams /\ opened[t] \in Nat /\ cursors[k] \in Nat /\ s \in Nat
      OBVIOUS
    <3>1. cursors[k] # 0 /\ cursors[k] \notin stamped[k]
      BY <2>2, <3>3
    <3>2. cursors[k] <= opened[t]
      BY <3>1 DEF AdminFeedInv, CursorIsBacked
    <3> QED
      BY <2>2, <3>2, <3>3
  <2> QED
    BY <1>4, <2>1, <2>2
<1>7. \A j \in Kinds : \A found \in SUBSET Stamps : Complete(j, found) => Complete(j, found)'
  <2> SUFFICES ASSUME NEW j \in Kinds, NEW found \in SUBSET Stamps, Complete(j, found)
               PROVE  Complete(j, found)'
    OBVIOUS
  <2>1. found \subseteq stamped'[j]
    BY <1>5 DEF Complete
  <2>2. ASSUME NEW t \in clients, NEW x \in stamped'[j] \ late'[j], opened[t] < x,
               \E y \in found : x <= y
        PROVE  x \in heardOn[t][j] \cup found
    <3>1. CASE x \in stamped[j] \ late[j]
      BY <2>2, <3>1 DEF Complete
    <3>2. CASE j = k /\ x = s /\ \A y \in stamped[k] : y < s
      BY <2>2, <3>2 DEF Complete
    <3> QED
      BY <1>4, <2>2, <3>1, <3>2
  <2> QED
    BY <1>1, <2>1, <2>2 DEF Complete
<1>8. FoundCompletes'
  <2> SUFFICES ASSUME NEW q \in Polls, polling[q].op = "tell"
               PROVE  Complete(polling[q].at, polling[q].found)'
    BY <1>1 DEF FoundCompletes
  <2>1. PICK j, found : j = polling[q].at /\ found = polling[q].found
    OBVIOUS
  <2>2. j \in Kinds /\ found \in SUBSET Stamps
    BY <2>1 DEF PollStep, Waiting
  <2>3. Complete(j, found)
    BY <2>1 DEF AdminFeedInv, FoundCompletes
  <2>4. Complete(j, found)'
    BY <1>7, <2>2, <2>3
  <2> QED
    BY <1>1, <2>1, <2>4 DEF Complete
<1> QED
  BY <1>2, <1>3, <1>6, <1>8 DEF AdminFeedInv

(* What a poll has found is complete: what it did not find was written, or  *)
(* is late, or is of the time before the stream.                            *)
LEMMA PollSteps ==
    ASSUME AdminFeedInv, NEW p \in Polls, poll(p) \/ findNew(p) \/ pollFails(p)
    PROVE  AdminFeedInv'
<1> USE FeedTyped
<1>1. CASE poll(p)
  <2>1. [op |-> "ask", at |-> 1] \in PollStep
    BY AdminFeedAssumption DEF PollStep, Kinds
  <2> QED
    BY <1>1, <2>1, PollMoves DEF poll
<1>2. CASE findNew(p)
  <2>1. PICK k \in Kinds : k = polling[p].at
    BY <1>2 DEF findNew, PollStep, Waiting
  <2>2. PICK found \in SUBSET Stamps : found = {s \in stamped[k] : s > cursors[k]}
    OBVIOUS
  <2>3. PICK c : c = [op |-> "tell", at |-> k, found |-> found]
    OBVIOUS
  <2>4. c \in PollStep /\ c.at = k /\ c.found = found
    BY <2>3 DEF PollStep
  <2>5. polling' = [polling EXCEPT ![p] = c]
    BY <1>2, <2>1, <2>2, <2>3 DEF findNew
  <2>6. ASSUME NEW t \in clients, NEW s \in stamped[k] \ late[k], opened[t] < s
        PROVE  s \in heardOn[t][k] \cup found
    <3>1. s > cursors[k] \/ s <= cursors[k]
      OBVIOUS
    <3> QED
      BY <2>2, <2>6, <3>1 DEF AdminFeedInv, EventsReachTabs
  <2>7. Complete(k, found)
    BY <2>2, <2>6 DEF Complete
  <2>8. Complete(c.at, c.found)
    BY <2>4, <2>7
  <2> QED
    BY <1>2, <2>4, <2>5, <2>8, PollMoves DEF findNew
<1>3. CASE pollFails(p)
  <2>1. Waiting \in PollStep /\ Waiting.op = "idle"
    BY DEF PollStep, Waiting
  <2> QED
    BY <1>3, <2>1, PollMoves DEF pollFails
<1> QED
  BY <1>1, <1>2, <1>3

(* The found rows are written to the open streams, and the cursor moves to  *)
(* the last of them: back, if another poll has moved it further.            *)
LEMMA FoundPublished ==
    ASSUME AdminFeedInv, NEW p \in Polls, publishFound(p)
    PROVE  AdminFeedInv'
<1> USE FeedTyped
<1>1. PICK k \in Kinds, found \in SUBSET Stamps : k = polling[p].at /\ found = polling[p].found
  BY DEF publishFound, PollStep, Waiting
<1>2. Complete(k, found)
  BY <1>1 DEF publishFound, AdminFeedInv, FoundCompletes
<1>3. UNCHANGED <<instant, stamped, late, clients, opened>>
  BY DEF publishFound
<1>4. PICK last \in Stamps :
         /\ cursors' = [cursors EXCEPT ![k] = last]
         /\ found = {} => last = cursors[k]
         /\ found # {} => last \in found /\ \A s \in found : s <= last
  <2>1. cursors' = [cursors EXCEPT ![k] = IF found = {} THEN cursors[k] ELSE Max(found)]
    BY <1>1 DEF publishFound
  <2> QED
    BY <2>1, LastStamp
<1>5. heardOn' = [t \in Streams |-> IF t \in clients
                                    THEN [heardOn[t] EXCEPT ![k] = heardOn[t][k] \cup found]
                                    ELSE heardOn[t]]
  BY <1>1 DEF publishFound, WrittenTo
<1>6. heardOn' \in [Streams -> [Kinds -> SUBSET Stamps]]
  BY <1>5
<1>7. \A t \in clients, j \in Kinds :
         heardOn'[t][j] = IF j = k THEN heardOn[t][j] \cup found ELSE heardOn[t][j]
  BY <1>5
<1>8. AfterDomain(p) \in PollStep /\ AfterDomain(p).op # "tell"
  <2>1. k \in 1..Domains /\ Domains \in Nat
    BY AdminFeedAssumption DEF Kinds
  <2>2. CASE k < Domains
    <3>1. k + 1 \in Kinds
      BY <2>1, <2>2 DEF Kinds
    <3>2. AfterDomain(p) = [op |-> "ask", at |-> k + 1]
      BY <1>1, <2>2 DEF AfterDomain
    <3> QED
      BY <3>1, <3>2 DEF PollStep
  <2>3. CASE ~(k < Domains)
    BY <1>1, <2>3 DEF AfterDomain, PollStep, Waiting
  <2> QED
    BY <2>2, <2>3
<1>9. PICK c \in PollStep : c = AfterDomain(p) /\ c.op # "tell"
  BY <1>8
<1>10. polling' = [polling EXCEPT ![p] = c]
  BY <1>9 DEF publishFound
<1>11. AdminFeedTypeOK'
  <2>1. polling' \in [Polls -> PollStep] /\ cursors' \in [Kinds -> Stamps]
    BY <1>4, <1>9, <1>10
  <2> QED
    BY <1>3, <1>6, <2>1 DEF AdminFeedTypeOK, PollStep
<1>12. NothingFromTheFuture'
  <2>1. last <= instant
    BY <1>2, <1>4 DEF AdminFeedInv, NothingFromTheFuture, Complete
  <2> QED
    BY <1>3, <1>4, <2>1 DEF AdminFeedInv, NothingFromTheFuture
<1>13. CursorIsBacked'
  <2>1. found # {} => last \in stamped[k]
    BY <1>2, <1>4 DEF Complete
  <2>2. \/ last = 0 \/ last \in stamped[k] \/ \A t \in clients : last <= opened[t]
    BY <1>4, <2>1 DEF AdminFeedInv, CursorIsBacked
  <2> QED
    BY <1>3, <1>4, <2>2 DEF AdminFeedInv, CursorIsBacked
<1>14. EventsReachTabs'
  <2> SUFFICES ASSUME NEW t \in clients, NEW j \in Kinds, NEW s \in stamped[j] \ late[j],
                      opened[t] < s, s <= cursors'[j]
               PROVE  s \in heardOn'[t][j]
    BY <1>3 DEF EventsReachTabs
  <2>1. CASE j = k /\ found # {}
    <3>1. s <= last /\ last \in found
      BY <1>4, <2>1
    <3> QED
      BY <1>2, <1>7, <2>1, <3>1 DEF Complete
  <2>2. CASE j # k \/ found = {}
    <3>1. s <= cursors[j]
      BY <1>4, <2>2
    <3> QED
      BY <1>7, <3>1 DEF AdminFeedInv, EventsReachTabs
  <2> QED
    BY <2>1, <2>2
<1>15. \A j \in Kinds : \A f \in SUBSET Stamps : Complete(j, f) => Complete(j, f)'
  <2> SUFFICES ASSUME NEW j \in Kinds, NEW f \in SUBSET Stamps, Complete(j, f)
               PROVE  Complete(j, f)'
    OBVIOUS
  <2>1. \A t \in clients : heardOn[t][j] \subseteq heardOn'[t][j]
    BY <1>7
  <2> QED
    BY <1>3, <2>1 DEF Complete
<1>16. FoundCompletes'
  <2> SUFFICES ASSUME NEW q \in Polls, polling'[q].op = "tell"
               PROVE  Complete(polling[q].at, polling[q].found)'
    BY DEF FoundCompletes
  <2>1. polling'[q] = polling[q]
    BY <1>9, <1>10
  <2>2. PICK j, f : j = polling[q].at /\ f = polling[q].found
    OBVIOUS
  <2>3. j \in Kinds /\ f \in SUBSET Stamps
    BY <2>1, <2>2 DEF PollStep, Waiting
  <2>4. Complete(j, f)
    BY <2>1, <2>2 DEF AdminFeedInv, FoundCompletes
  <2>5. Complete(j, f)'
    BY <1>15, <2>3, <2>4
  <2> QED
    BY <2>1, <2>2, <2>5 DEF Complete
<1> QED
  BY <1>11, <1>12, <1>13, <1>14, <1>16 DEF AdminFeedInv

(* A stream opens: all that is stamped is before it. *)
LEMMA StreamOpens ==
    ASSUME AdminFeedInv, NEW t \in Streams, subscribe(t)
    PROVE  AdminFeedInv'
<1> USE FeedTyped
<1>1. /\ clients' = clients \cup {t}
      /\ opened' = [opened EXCEPT ![t] = instant]
      /\ heardOn' = [heardOn EXCEPT ![t] = [k \in Kinds |-> {}]]
      /\ UNCHANGED <<instant, stamped, late, cursors, polling>>
  BY DEF subscribe
<1>2. AdminFeedTypeOK'
  BY <1>1 DEF AdminFeedTypeOK, PollStep
<1>3. NothingFromTheFuture'
  BY <1>1 DEF AdminFeedInv, NothingFromTheFuture
<1>4. opened'[t] = instant /\ \A s \in clients : s # t => opened'[s] = opened[s]
  BY <1>1
<1>5. CursorIsBacked'
  BY <1>1, <1>4 DEF AdminFeedInv, NothingFromTheFuture, CursorIsBacked
<1>6. \A k \in Kinds : \A s \in stamped[k] : s \in Nat /\ ~(opened'[t] < s)
  BY <1>4 DEF AdminFeedInv, NothingFromTheFuture
<1>7. \A s \in clients : s # t => heardOn'[s] = heardOn[s]
  BY <1>1
<1>8. EventsReachTabs'
  BY <1>1, <1>4, <1>6, <1>7 DEF AdminFeedInv, EventsReachTabs
<1>9. \A k \in Kinds : \A f \in SUBSET Stamps : Complete(k, f) => Complete(k, f)'
  BY <1>1, <1>4, <1>6, <1>7 DEF Complete
<1>10. FoundCompletes'
  <2> SUFFICES ASSUME NEW q \in Polls, polling[q].op = "tell"
               PROVE  Complete(polling[q].at, polling[q].found)'
    BY <1>1 DEF FoundCompletes
  <2>1. PICK j, f : j = polling[q].at /\ f = polling[q].found
    OBVIOUS
  <2>2. j \in Kinds /\ f \in SUBSET Stamps
    BY <2>1 DEF PollStep, Waiting
  <2>3. Complete(j, f)
    BY <2>1 DEF AdminFeedInv, FoundCompletes
  <2>4. Complete(j, f)'
    BY <1>9, <2>2, <2>3
  <2> QED
    BY <1>1, <2>1, <2>4 DEF Complete
<1> QED
  BY <1>2, <1>3, <1>5, <1>8, <1>10 DEF AdminFeedInv

(* A stream ends, time passes, or the service starts again. *)
LEMMA FeedEvents ==
    ASSUME AdminFeedInv,
           (\E t \in Streams : unsubscribe(t)) \/ TimePasses \/ pollerRestarts
    PROVE  AdminFeedInv'
<1> USE FeedTyped
<1>1. CASE \E t \in Streams : unsubscribe(t)
  <2>1. /\ clients' \subseteq clients
        /\ UNCHANGED <<instant, stamped, late, cursors, polling, opened, heardOn>>
    BY <1>1 DEF unsubscribe
  <2>2. AdminFeedTypeOK' /\ NothingFromTheFuture' /\ CursorIsBacked' /\ EventsReachTabs'
    BY <2>1 DEF AdminFeedInv, AdminFeedTypeOK, NothingFromTheFuture, CursorIsBacked,
       EventsReachTabs
  <2>3. FoundCompletes'
    BY <2>1 DEF AdminFeedInv, FoundCompletes, Complete
  <2> QED
    BY <2>2, <2>3 DEF AdminFeedInv
<1>2. CASE TimePasses
  <2>1. /\ instant' = instant + 1 /\ instant' \in Stamps
        /\ UNCHANGED <<stamped, late, cursors, polling, clients, opened, heardOn>>
    BY <1>2, AdminFeedAssumption DEF TimePasses, Stamps
  <2>2. CursorIsBacked' /\ EventsReachTabs'
    BY <2>1 DEF AdminFeedInv, CursorIsBacked, EventsReachTabs
  <2>5. AdminFeedTypeOK'
    BY <2>1 DEF AdminFeedTypeOK, PollStep
  <2>6. \A k \in Kinds : cursors[k] \in Nat /\ stamped[k] \subseteq Nat
    OBVIOUS
  <2>7. \A t \in Streams : opened[t] \in Nat
    OBVIOUS
  <2>8. instant \in Nat
    OBVIOUS
  <2>9. \A n \in Nat : n <= instant => n <= instant'
    BY <2>1, <2>8
  <2>10. \A n \in 1..instant : n \in 1..instant'
    BY <2>1, <2>8
  <2>3. NothingFromTheFuture'
    BY <2>1, <2>6, <2>7, <2>9, <2>10 DEF AdminFeedInv, NothingFromTheFuture
  <2>4. FoundCompletes'
    BY <2>1 DEF AdminFeedInv, FoundCompletes, Complete
  <2> QED
    BY <2>2, <2>3, <2>4, <2>5 DEF AdminFeedInv
<1>3. CASE pollerRestarts
  <2>1. /\ cursors' = [k \in Kinds |-> instant]
        /\ polling' = [p \in Polls |-> Waiting] /\ clients' = {}
        /\ UNCHANGED <<instant, stamped, late, opened, heardOn>>
    BY <1>3 DEF pollerRestarts
  <2>2. AdminFeedTypeOK'
    BY <2>1 DEF AdminFeedTypeOK
  <2>3. NothingFromTheFuture'
    BY <2>1 DEF AdminFeedInv, NothingFromTheFuture
  <2>4. CursorIsBacked' /\ EventsReachTabs'
    BY <2>1 DEF CursorIsBacked, EventsReachTabs
  <2>5. FoundCompletes'
    BY <2>1 DEF FoundCompletes, Waiting
  <2> QED
    BY <2>2, <2>3, <2>4, <2>5 DEF AdminFeedInv
<1> QED
  BY <1>1, <1>2, <1>3

(* Every step of the live events keeps the invariant. *)
LEMMA AdminFeedStep == AdminFeedInv /\ AdminFeedNext => AdminFeedInv'
BY RowCommitted, PollSteps, FoundPublished, StreamOpens, FeedEvents DEF AdminFeedNext

(* A step of another part keeps it. *)
LEMMA AdminFeedRest == AdminFeedInv /\ UNCHANGED feedVars => AdminFeedInv'
<1> SUFFICES ASSUME AdminFeedInv, UNCHANGED feedVars PROVE AdminFeedInv'
  OBVIOUS
<1>1. UNCHANGED <<instant, stamped, late, cursors, polling, clients, opened, heardOn>>
  BY DEF feedVars
<1> QED
  BY <1>1 DEF AdminFeedInv, AdminFeedTypeOK, NothingFromTheFuture, CursorIsBacked,
     FoundCompletes, Complete, EventsReachTabs

-----------------------------------------------------------------------------
(* The saved cards.  Only an attached token gets as far as a row, only the  *)
(* request of a removal detaches one, and Stripe attaches no detached token *)
(* again.                                                                   *)

CardsOf(K) == [token : K, printed : BOOLEAN, isDefault : BOOLEAN]

Chargeable == {k \in Cards : k \in unwanted \/ attached[k] \in made}

CardsAreChargeable == saved \in Seq(CardsOf(Chargeable))

Founded(c) ==
    /\ c.op \in {"clear", "find", "count", "insert"} => c.token \in Chargeable
    /\ c.op \in {"link", "attach"} => c.customer \in made
    /\ c.op \in {"detach", "delete"} => c.token \in unwanted

ErrandsAreFounded == \A e \in Errands : Founded(errand[e])

CustomerIsMade == customerId \in made \cup {NoCustomer}

WalletInv == WalletTypeOK /\ CustomerIsMade /\ ErrandsAreFounded /\ CardsAreChargeable

Adding    == [op : {"customer", "clear", "find"}, token : Cards, makeDefault : BOOLEAN]
Attaching == [op : {"link", "attach"}, token : Cards, makeDefault : BOOLEAN,
              customer : StripeCustomers]
Inserting == [op : {"count", "insert"}, token : Cards, makeDefault : BOOLEAN, printed : BOOLEAN]
Marking   == [op : {"promote", "clearAll"}, token : Cards]
Removing  == [op : {"detach", "delete"}, token : Cards, wasDefault : BOOLEAN]
NextOne   == [op |-> "next"]
Errand    == {Unsent, NextOne} \cup Adding \cup Attaching \cup Inserting \cup Marking \cup Removing

(* The rows are written one field at a time, whichever tokens they have. *)
LEMMA MarksKeepTokens ==
    ASSUME NEW K, NEW rows \in Seq(CardsOf(K)), NEW k
    PROVE  Cleared(rows) \in Seq(CardsOf(K)) /\ Promoted(rows, k) \in Seq(CardsOf(K))
<1>1. Len(rows) \in Nat /\ DOMAIN rows = 1..Len(rows) /\ \A n \in 1..Len(rows) : rows[n] \in CardsOf(K)
  BY LenProperties, ElementOfSeq
<1>2. \A r \in CardsOf(K) : [r EXCEPT !.isDefault = FALSE] \in CardsOf(K)
  BY DEF CardsOf
<1>3. \A r \in CardsOf(K) : [r EXCEPT !.isDefault = r.isDefault \/ r.token = k] \in CardsOf(K)
  BY DEF CardsOf
<1>4. [n \in 1..Len(rows) |-> [rows[n] EXCEPT !.isDefault = FALSE]] \in Seq(CardsOf(K))
  BY <1>1, <1>2, IsASeq
<1>5. [n \in 1..Len(rows) |-> [rows[n] EXCEPT !.isDefault = rows[n].isDefault \/ rows[n].token = k]]
        \in Seq(CardsOf(K))
  BY <1>1, <1>3, IsASeq
<1>6. Cleared(rows) = [n \in 1..Len(rows) |-> [rows[n] EXCEPT !.isDefault = FALSE]]
  BY <1>1, Zenon DEF Cleared
<1>7. Promoted(rows, k) = [n \in 1..Len(rows) |->
         [rows[n] EXCEPT !.isDefault = rows[n].isDefault \/ rows[n].token = k]]
  BY <1>1, Zenon DEF Promoted
<1> QED
  BY <1>4, <1>5, <1>6, <1>7

(* A row goes, and the others stay. *)
LEMMA RemovalKeepsRest ==
    ASSUME NEW S, NEW rows \in Seq(S), NEW n \in DOMAIN rows
    PROVE  RemoveAt(rows, n) \in Seq(S)
<1>1. Len(rows) \in Nat /\ DOMAIN rows = 1..Len(rows) /\ \A m \in 1..Len(rows) : rows[m] \in S
  BY LenProperties, ElementOfSeq
<1>2. n \in Int /\ n - 1 \in Int /\ n + 1 \in Int /\ 1 \in Int /\ Len(rows) \in Int
  BY <1>1
<1>3. \A m \in 1..n-1 : rows[m] \in S
  BY <1>1
<1>4. \A m \in n+1..Len(rows) : rows[m] \in S
  BY <1>1
<1>5. SubSeq(rows, 1, n-1) \in Seq(S) /\ SubSeq(rows, n+1, Len(rows)) \in Seq(S)
  BY <1>2, <1>3, <1>4, SubSeqProperties
<1> QED
  BY <1>5, ConcatProperties DEF RemoveAt

(* The types. *)
LEMMA WalletTyped ==
    ASSUME WalletInv
    PROVE  /\ customerId \in StripeCustomers \cup {NoCustomer} /\ made \subseteq StripeCustomers
           /\ attached \in [Cards -> StripeCustomers \cup {NoCustomer, "detached"}]
           /\ errand \in [Errands -> Errand] /\ unwanted \subseteq Cards
           /\ saved \in Seq(CardsOf(Chargeable)) /\ CustomerIsMade
           /\ \A e \in Errands : Founded(errand[e])
BY DEF WalletInv, WalletTypeOK, Errand, Adding, Attaching, Inserting, Marking, Removing,
   NextOne, CardsAreChargeable, ErrandsAreFounded

(* One request takes its next step.  No token that could be charged stops   *)
(* being so, and nothing else that was so is undone.                        *)
LEMMA ErrandMoves ==
    ASSUME WalletInv, NEW e \in Errands, NEW c \in Errand, Now(e, c), Founded(c)',
           customerId' \in StripeCustomers \cup {NoCustomer}, CustomerIsMade',
           made \subseteq made', made' \subseteq StripeCustomers,
           unwanted \subseteq unwanted', unwanted' \subseteq Cards,
           attached' \in [Cards -> StripeCustomers \cup {NoCustomer, "detached"}],
           Chargeable \subseteq Chargeable', saved' \in Seq(CardsOf(Chargeable'))
    PROVE  WalletInv'
<1>1. errand' \in [Errands -> Errand] /\ errand'[e] = c
      /\ \A f \in Errands \ {e} : errand'[f] = errand[f]
  BY WalletTyped DEF Now
<1>2. CardsOf(Chargeable') \subseteq CardRows
  BY DEF CardsOf, CardRows, Chargeable
<1>3. WalletTypeOK'
  BY <1>1, <1>2, SeqMonotonic DEF WalletTypeOK, Errand, Adding, Attaching, Inserting, Marking,
     Removing, NextOne
<1>4. \A d : Founded(d) => Founded(d)'
  BY DEF Founded
<1>5. ErrandsAreFounded'
  <2> SUFFICES ASSUME NEW f \in Errands PROVE Founded(errand[f])'
    BY DEF ErrandsAreFounded
  <2>1. PICK d : d = errand'[f]
    OBVIOUS
  <2>2. CASE f = e
    BY <1>1, <2>1, <2>2 DEF Founded
  <2>3. CASE f # e
    <3>1. Founded(d)
      BY <1>1, <2>1, <2>3, WalletTyped
    <3>2. Founded(d)'
      BY <1>4, <3>1
    <3> QED
      BY <2>1, <3>2 DEF Founded
  <2> QED
    BY <2>2, <2>3
<1>6. CardsAreChargeable'
  BY DEF CardsAreChargeable
<1> QED
  BY <1>3, <1>5, <1>6 DEF WalletInv

(* One request takes its next step and may write rows, of cards that were   *)
(* saved or can be charged.                                                 *)
LEMMA RowsMove ==
    ASSUME WalletInv, NEW e \in Errands, NEW c \in Errand, Now(e, c), Founded(c),
           UNCHANGED <<customerId, made, attached, unwanted>>,
           saved' \in Seq(CardsOf(Chargeable))
    PROVE  WalletInv'
<1>1. Chargeable' = Chargeable
  BY DEF Chargeable
<1>2. Founded(c)' /\ CustomerIsMade'
  BY <1>1, WalletTyped DEF Founded, CustomerIsMade
<1>3. saved' \in Seq(CardsOf(Chargeable'))
  BY <1>1
<1>4. /\ customerId' \in StripeCustomers \cup {NoCustomer}
      /\ made \subseteq made' /\ made' \subseteq StripeCustomers
      /\ unwanted \subseteq unwanted' /\ unwanted' \subseteq Cards
      /\ attached' \in [Cards -> StripeCustomers \cup {NoCustomer, "detached"}]
  BY WalletTyped
<1>5. Chargeable \subseteq Chargeable'
  BY <1>1
<1> QED
  BY <1>2, <1>3, <1>4, <1>5, ErrandMoves

(* No card is saved. *)
LEMMA WalletStart == WalletInit => WalletInv
<1> SUFFICES ASSUME WalletInit PROVE WalletInv
  OBVIOUS
<1>1. \A e \in Errands : errand[e] = Unsent
  BY DEF WalletInit
<1>2. ErrandsAreFounded
  BY <1>1 DEF ErrandsAreFounded, Founded, Unsent
<1>3. WalletTypeOK /\ CustomerIsMade /\ CardsAreChargeable
  BY EmptySeq DEF WalletInit, WalletTypeOK, CustomerIsMade, CardsAreChargeable
<1> QED
  BY <1>2, <1>3 DEF WalletInv

(* A card is added, up to its attachment. *)
LEMMA AttachingSteps ==
    ASSUME WalletInv, NEW e \in Errands,
           \/ \E k \in Cards, d \in BOOLEAN : addPaymentMethod(e, k, d)
           \/ \E c \in StripeCustomers : createStripeCustomer(e, c)
           \/ linkCustomer(e) \/ attachPaymentMethod(e)
    PROVE  WalletInv'
<1> USE WalletTyped
<1>1. CASE \E k \in Cards, d \in BOOLEAN : addPaymentMethod(e, k, d)
  <2>1. PICK k \in Cards, d \in BOOLEAN : addPaymentMethod(e, k, d)
    BY <1>1
  <2>2. [op |-> "customer", token |-> k, makeDefault |-> d] \in Adding
    BY DEF Adding
  <2>3. PICK c : c = IF customerId = NoCustomer
                     THEN [op |-> "customer", token |-> k, makeDefault |-> d]
                     ELSE [op |-> "attach", token |-> k, makeDefault |-> d, customer |-> customerId]
    OBVIOUS
  <2>4. c \in Errand /\ Founded(c)
    <3>1. CASE customerId = NoCustomer
      BY <2>2, <2>3, <3>1 DEF Errand, Founded
    <3>2. CASE customerId # NoCustomer
      <4>1. customerId \in StripeCustomers /\ customerId \in made
        BY <3>2 DEF CustomerIsMade
      <4>2. c \in Attaching /\ c.op = "attach" /\ c.customer = customerId
        BY <2>3, <3>2, <4>1 DEF Attaching
      <4> QED
        BY <4>1, <4>2 DEF Errand, Founded
    <3> QED
      BY <3>1, <3>2
  <2>5. Now(e, c) /\ UNCHANGED <<customerId, made, attached, saved, unwanted>>
    BY <2>1, <2>3 DEF addPaymentMethod, Now
  <2> QED
    BY <2>4, <2>5, RowsMove
<1>2. CASE \E c \in StripeCustomers : createStripeCustomer(e, c)
  <2>1. PICK s \in StripeCustomers : createStripeCustomer(e, s)
    BY <1>2
  <2>2. errand[e] \in Adding
    BY <2>1 DEF createStripeCustomer, At, Errand, Unsent, NextOne, Adding, Attaching, Inserting,
       Marking, Removing
  <2>3. PICK k \in Cards, d \in BOOLEAN : k = errand[e].token /\ d = errand[e].makeDefault
    BY <2>2 DEF Adding
  <2>4. PICK c : c = [op |-> "link", token |-> k, makeDefault |-> d, customer |-> s]
    OBVIOUS
  <2>5. c \in Errand /\ c.op = "link" /\ c.customer = s
    BY <2>4 DEF Errand, Attaching
  <2>6. Now(e, c) /\ UNCHANGED <<customerId, attached, saved, unwanted>> /\ made' = made \cup {s}
    BY <2>1, <2>3, <2>4 DEF createStripeCustomer, Now
  <2>7. Chargeable \subseteq Chargeable'
    BY <2>6 DEF Chargeable
  <2>8. CardsOf(Chargeable) \subseteq CardsOf(Chargeable')
    BY <2>7 DEF CardsOf
  <2>9. saved' \in Seq(CardsOf(Chargeable'))
    BY <2>6, <2>8, SeqMonotonic
  <2>10. Founded(c)' /\ CustomerIsMade'
    BY <2>5, <2>6 DEF Founded, CustomerIsMade
  <2> QED
    BY <2>5, <2>6, <2>7, <2>9, <2>10, ErrandMoves
<1>3. CASE linkCustomer(e)
  <2>1. errand[e] \in Attaching /\ errand[e].customer \in made
    BY <1>3 DEF linkCustomer, At, Errand, Unsent, NextOne, Adding, Attaching, Inserting,
       Marking, Removing, Founded
  <2>2. PICK c : c = [errand[e] EXCEPT !.op = "attach"]
    OBVIOUS
  <2>3. c \in Errand /\ c.op = "attach" /\ c.customer = errand[e].customer
    BY <2>1, <2>2 DEF Errand, Attaching
  <2>4. Now(e, c) /\ UNCHANGED <<made, attached, saved, unwanted>> /\ customerId' = errand[e].customer
    BY <1>3, <2>2 DEF linkCustomer, Now
  <2>5. Chargeable' = Chargeable
    BY <2>4 DEF Chargeable
  <2>6. Founded(c)' /\ CustomerIsMade'
    BY <2>1, <2>3, <2>4 DEF Founded, CustomerIsMade
  <2>7. saved' \in Seq(CardsOf(Chargeable'))
    BY <2>4, <2>5
  <2>8. customerId' \in StripeCustomers \cup {NoCustomer}
    BY <2>1, <2>4
  <2> QED
    BY <2>3, <2>4, <2>5, <2>6, <2>7, <2>8, ErrandMoves
<1>4. CASE attachPaymentMethod(e)
  <2>1. errand[e] \in Attaching /\ errand[e].customer \in made
    BY <1>4 DEF attachPaymentMethod, At, Errand, Unsent, NextOne, Adding, Attaching, Inserting,
       Marking, Removing, Founded
  <2>2. PICK k \in Cards, s \in made, d \in BOOLEAN :
           k = errand[e].token /\ s = errand[e].customer /\ d = errand[e].makeDefault
    BY <2>1 DEF Attaching
  <2>3. PICK c : c = [op |-> IF d THEN "clear" ELSE "find", token |-> k, makeDefault |-> d]
    OBVIOUS
  <2>4. c \in Errand /\ c.op \in {"clear", "find"} /\ c.token = k
    BY <2>3 DEF Errand, Adding
  <2>5. Now(e, c) /\ UNCHANGED <<customerId, made, saved, unwanted>>
        /\ attached' = [attached EXCEPT ![k] = s]
    BY <1>4, <2>2, <2>3 DEF attachPaymentMethod, AfterAttach, Now
  <2>6. Chargeable \subseteq Chargeable' /\ k \in Chargeable'
    BY <2>5 DEF Chargeable
  <2>7. CardsOf(Chargeable) \subseteq CardsOf(Chargeable')
    BY <2>6 DEF CardsOf
  <2>8. saved' \in Seq(CardsOf(Chargeable'))
    BY <2>5, <2>7, SeqMonotonic
  <2>9. Founded(c)' /\ CustomerIsMade'
    BY <2>4, <2>5, <2>6 DEF Founded, CustomerIsMade
  <2>10. attached' \in [Cards -> StripeCustomers \cup {NoCustomer, "detached"}]
    BY <2>2, <2>5
  <2> QED
    BY <2>4, <2>5, <2>6, <2>8, <2>9, <2>10, ErrandMoves
<1> QED
  BY <1>1, <1>2, <1>3, <1>4

(* A card is added: its row is looked for and inserted. *)
LEMMA InsertingSteps ==
    ASSUME WalletInv, NEW e \in Errands,
           \/ clearOthers(e) \/ \E b \in BOOLEAN : findExistingCard(e, b)
           \/ countCards(e) \/ insertCard(e)
    PROVE  WalletInv'
<1> USE WalletTyped
<1>u. Unsent \in Errand /\ Founded(Unsent)
  BY DEF Errand, Founded, Unsent
<1>1. CASE clearOthers(e)
  <2>1. errand[e] \in Adding /\ errand[e].token \in Chargeable
    BY <1>1 DEF clearOthers, At, Errand, Unsent, NextOne, Adding, Attaching, Inserting,
       Marking, Removing, Founded
  <2>2. PICK c : c = [errand[e] EXCEPT !.op = "find"]
    OBVIOUS
  <2>3. c \in Errand /\ Founded(c)
    BY <2>1, <2>2 DEF Errand, Adding, Founded
  <2>4. Now(e, c) /\ UNCHANGED <<customerId, made, attached, unwanted>> /\ saved' = Cleared(saved)
    BY <1>1, <2>2 DEF clearOthers, Now
  <2> QED
    BY <2>3, <2>4, MarksKeepTokens, RowsMove
<1>2. CASE \E b \in BOOLEAN : findExistingCard(e, b)
  <2>1. PICK b \in BOOLEAN : findExistingCard(e, b)
    BY <1>2
  <2>2. errand[e] \in Adding /\ errand[e].token \in Chargeable
    BY <2>1 DEF findExistingCard, At, Errand, Unsent, NextOne, Adding, Attaching, Inserting,
       Marking, Removing, Founded
  <2>3. PICK k \in Cards, d \in BOOLEAN : k = errand[e].token /\ d = errand[e].makeDefault
    BY <2>2 DEF Adding
  <2>4. UNCHANGED <<customerId, made, attached, saved, unwanted>>
    BY <2>1 DEF findExistingCard
  <2>5. CASE \E r \in ToSet(saved) : Now(e, IF r.token = k /\ d /\ ~r.isDefault
                                            THEN [op |-> "promote", token |-> k] ELSE Unsent)
    <3>1. [op |-> "promote", token |-> k] \in Errand /\ Founded([op |-> "promote", token |-> k])
      BY DEF Errand, Marking, Founded
    <3>2. PICK c \in {Unsent, [op |-> "promote", token |-> k]} : Now(e, c)
      BY <2>5
    <3> QED
      BY <1>u, <2>4, <3>1, <3>2, RowsMove
  <2>6. CASE Now(e, [op |-> IF d THEN "insert" ELSE "count", token |-> k, makeDefault |-> d,
                     printed |-> b])
    <3>1. PICK c : c = [op |-> IF d THEN "insert" ELSE "count", token |-> k, makeDefault |-> d,
                        printed |-> b]
      OBVIOUS
    <3>2. c \in Inserting
      BY <3>1 DEF Inserting
    <3>3. Founded(c)
      BY <2>2, <2>3, <3>1 DEF Founded
    <3> QED
      BY <2>4, <2>6, <3>1, <3>2, <3>3, RowsMove DEF Errand
  <2> QED
    BY <2>1, <2>3, <2>5, <2>6 DEF findExistingCard
<1>3. CASE countCards(e)
  <2>1. errand[e] \in Inserting /\ errand[e].token \in Chargeable
    BY <1>3 DEF countCards, At, Errand, Unsent, NextOne, Adding, Attaching, Inserting,
       Marking, Removing, Founded
  <2>2. PICK f \in BOOLEAN : Now(e, [errand[e] EXCEPT !.op = "insert", !.makeDefault = f])
    BY <1>3 DEF countCards
  <2>3. PICK c : c = [errand[e] EXCEPT !.op = "insert", !.makeDefault = f]
    OBVIOUS
  <2>4. c \in Inserting /\ c.token = errand[e].token /\ c.op = "insert"
    BY <2>1, <2>3 DEF Inserting
  <2>5. c \in Errand /\ Founded(c)
    BY <2>1, <2>4 DEF Errand, Founded
  <2> QED
    BY <1>3, <2>2, <2>3, <2>5, RowsMove DEF countCards
<1>4. CASE insertCard(e)
  <2>1. errand[e] \in Inserting /\ errand[e].token \in Chargeable
    BY <1>4 DEF insertCard, At, Errand, Unsent, NextOne, Adding, Attaching, Inserting,
       Marking, Removing, Founded
  <2>2. PICK r : r = [token |-> errand[e].token, printed |-> errand[e].printed,
                      isDefault |-> errand[e].makeDefault]
    OBVIOUS
  <2>3. r \in CardsOf(Chargeable)
    BY <2>1, <2>2 DEF CardsOf, Inserting
  <2>4. saved' \in {saved, Append(saved, r)}
    BY <1>4, <2>2 DEF insertCard
  <2>5. saved' \in Seq(CardsOf(Chargeable))
    BY <2>3, <2>4, AppendProperties
  <2> QED
    BY <1>4, <1>u, <2>5, RowsMove DEF insertCard
<1> QED
  BY <1>1, <1>2, <1>3, <1>4

(* Defaults change, and requests end. *)
LEMMA MarkingSteps ==
    ASSUME WalletInv, NEW e \in Errands,
           \/ promote(e) \/ \E k \in Cards : setDefaultPaymentMethod(e, k)
           \/ clearAll(e) \/ findNext(e) \/ giveUp(e)
    PROVE  WalletInv'
<1> USE WalletTyped
<1>u. Unsent \in Errand /\ Founded(Unsent)
  BY DEF Errand, Founded, Unsent
<1>m. \A c \in Marking : c \in Errand /\ Founded(c)
  BY DEF Errand, Marking, Founded
<1>1. CASE promote(e)
  <2>1. saved' \in Seq(CardsOf(Chargeable))
    BY <1>1, MarksKeepTokens DEF promote
  <2> QED
    BY <1>1, <1>u, <2>1, RowsMove DEF promote
<1>2. CASE \E k \in Cards : setDefaultPaymentMethod(e, k)
  <2>1. PICK k \in Cards : setDefaultPaymentMethod(e, k)
    BY <1>2
  <2>2. [op |-> "clearAll", token |-> k] \in Marking
    BY DEF Marking
  <2> QED
    BY <1>m, <2>1, <2>2, RowsMove DEF setDefaultPaymentMethod
<1>3. CASE clearAll(e)
  <2>1. errand[e] \in Marking
    BY <1>3 DEF clearAll, At, Errand, Unsent, NextOne, Adding, Attaching, Inserting,
       Marking, Removing
  <2>2. PICK c : c = [errand[e] EXCEPT !.op = "promote"]
    OBVIOUS
  <2>3. c \in Marking
    BY <2>1, <2>2 DEF Marking
  <2>4. saved' \in Seq(CardsOf(Chargeable))
    BY <1>3, MarksKeepTokens DEF clearAll
  <2> QED
    BY <1>3, <1>m, <2>2, <2>3, <2>4, RowsMove DEF clearAll
<1>4. CASE findNext(e)
  <2>1. CASE saved = <<>>
    BY <1>4, <1>u, <2>1, RowsMove DEF findNext
  <2>2. CASE saved # <<>>
    <3>1. Len(saved) \in 1..Len(saved)
      BY <2>2, EmptySeq, LenProperties
    <3>2. Last(saved) \in CardsOf(Chargeable)
      BY <3>1, ElementOfSeq DEF Last
    <3>3. Last(saved).token \in Cards
      BY <3>2 DEF CardsOf, Chargeable
    <3>4. [op |-> "promote", token |-> Last(saved).token] \in Marking
      BY <3>3 DEF Marking
    <3> QED
      BY <1>4, <1>m, <2>2, <3>4, RowsMove DEF findNext
  <2> QED
    BY <2>1, <2>2
<1>5. CASE giveUp(e)
  BY <1>5, <1>u, RowsMove DEF giveUp
<1> QED
  BY <1>1, <1>2, <1>3, <1>4, <1>5

(* A card is removed: it is not wanted from the moment it is asked for. *)
LEMMA RemovingSteps ==
    ASSUME WalletInv, NEW e \in Errands,
           \/ \E k \in Cards : removePaymentMethod(e, k)
           \/ \E b \in BOOLEAN : detachPaymentMethod(e, b)
           \/ deleteCard(e)
    PROVE  WalletInv'
<1> USE WalletTyped
<1>1. CASE \E k \in Cards : removePaymentMethod(e, k)
  <2>1. PICK k \in Cards : removePaymentMethod(e, k)
    BY <1>1
  <2>2. IsDefault(k) \in BOOLEAN
    BY Zenon DEF IsDefault
  <2>3. PICK c : c = [op |-> "detach", token |-> k, wasDefault |-> IsDefault(k)]
    OBVIOUS
  <2>4. c \in Removing /\ c.op = "detach" /\ c.token = k
    BY <2>2, <2>3 DEF Removing
  <2>5. Now(e, c) /\ UNCHANGED <<customerId, made, attached, saved>>
        /\ unwanted' = unwanted \cup {k}
    BY <2>1, <2>3 DEF removePaymentMethod
  <2>6. Chargeable \subseteq Chargeable'
    BY <2>5 DEF Chargeable
  <2>7. CardsOf(Chargeable) \subseteq CardsOf(Chargeable')
    BY <2>6 DEF CardsOf
  <2>8. saved' \in Seq(CardsOf(Chargeable'))
    BY <2>5, <2>7, SeqMonotonic
  <2>9. Founded(c)' /\ CustomerIsMade'
    BY <2>4, <2>5 DEF Founded, CustomerIsMade
  <2> QED
    BY <2>4, <2>5, <2>6, <2>8, <2>9, ErrandMoves DEF Errand
<1>2. CASE \E b \in BOOLEAN : detachPaymentMethod(e, b)
  <2>1. PICK b \in BOOLEAN : detachPaymentMethod(e, b)
    BY <1>2
  <2>2. errand[e] \in Removing /\ errand[e].token \in unwanted
    BY <2>1 DEF detachPaymentMethod, At, Errand, Unsent, NextOne, Adding, Attaching, Inserting,
       Marking, Removing, Founded
  <2>3. PICK c : c = [errand[e] EXCEPT !.op = "delete"]
    OBVIOUS
  <2>4. c \in Removing /\ c.token = errand[e].token /\ c.op = "delete"
    BY <2>2, <2>3 DEF Removing
  <2>5. attached' \in {attached, [attached EXCEPT ![errand[e].token] = "detached"]}
    BY <2>1 DEF detachPaymentMethod
  <2>6. Now(e, c) /\ UNCHANGED <<customerId, made, saved, unwanted>>
    BY <2>1, <2>3 DEF detachPaymentMethod
  <2>7. attached' \in [Cards -> StripeCustomers \cup {NoCustomer, "detached"}]
    BY <2>5
  <2>8. Chargeable \subseteq Chargeable'
    BY <2>2, <2>5, <2>6 DEF Chargeable
  <2>9. CardsOf(Chargeable) \subseteq CardsOf(Chargeable')
    BY <2>8 DEF CardsOf
  <2>10. saved' \in Seq(CardsOf(Chargeable'))
    BY <2>6, <2>9, SeqMonotonic
  <2>11. Founded(c)' /\ CustomerIsMade'
    BY <2>2, <2>4, <2>6 DEF Founded, CustomerIsMade
  <2> QED
    BY <2>4, <2>6, <2>7, <2>8, <2>10, <2>11, ErrandMoves DEF Errand
<1>3. CASE deleteCard(e)
  <2>1. PICK c \in {Unsent, NextOne} : Now(e, c)
    BY <1>3 DEF deleteCard, NextOne
  <2>2. c \in Errand /\ Founded(c)
    BY DEF Errand, Founded, Unsent, NextOne
  <2>3. saved' \in Seq(CardsOf(Chargeable))
    BY <1>3, RemovalKeepsRest DEF deleteCard
  <2> QED
    BY <1>3, <2>1, <2>2, <2>3, RowsMove DEF deleteCard
<1> QED
  BY <1>1, <1>2, <1>3

(* Every step of a request keeps the invariant. *)
LEMMA WalletStep == WalletInv /\ WalletNext => WalletInv'
BY AttachingSteps, InsertingSteps, MarkingSteps, RemovingSteps DEF WalletNext

(* A step of another part keeps it. *)
LEMMA WalletRest == WalletInv /\ UNCHANGED walletVars => WalletInv'
<1> SUFFICES ASSUME WalletInv, UNCHANGED walletVars PROVE WalletInv'
  OBVIOUS
<1>1. UNCHANGED <<customerId, made, attached, saved, errand, unwanted>>
  BY DEF walletVars
<1>2. Chargeable' = Chargeable
  BY <1>1 DEF Chargeable
<1> QED
  BY <1>1, <1>2 DEF WalletInv, WalletTypeOK, CustomerIsMade, ErrandsAreFounded, Founded,
     CardsAreChargeable

(* What the invariant says of the cards on the list. *)
LEMMA WalletPromise == WalletInv => SavedCardCanBeCharged
<1> SUFFICES ASSUME WalletInv, made = {customerId}, NEW r \in ToSet(saved), r.token \notin unwanted
             PROVE  attached[r.token] = customerId
  BY DEF SavedCardCanBeCharged
<1>1. saved \in Seq(CardsOf(Chargeable))
  BY WalletTyped
<1>2. PICK n \in 1..Len(saved) : r = saved[n]
  BY <1>1, LenProperties DEF ToSet
<1>3. r \in CardsOf(Chargeable)
  BY <1>1, <1>2, ElementOfSeq
<1> QED
  BY <1>3 DEF CardsOf, Chargeable

-----------------------------------------------------------------------------
(* The account an expert is paid into.  The profile gets an account only    *)
(* while it has none, but for the older forms, which write by id: where one *)
(* writes over an account, the older account is left behind.  So every      *)
(* visit that is on its way to an account is on its way to the profile's.   *)

Knows(c) ==
    /\ c.op \in {"save", "saveCustom"} => c.account \in Accounts
    /\ c.op \in {"reread", "link", "dashboard", "form"} => profile.account # NoConnected
    /\ c.op \in {"link", "dashboard", "form"} =>
          c.account \in Accounts /\ (orphaned \/ c.account = profile.account)

VisitsKnow == \A v \in Visits : Knows(visit[v])

PayoutAccountsInv == PayoutAccountsTypeOK /\ VisitsKnow /\ SentToOneAccount

Connected == [kind : {"none", "recipient", "custom"}, transfers : BOOLEAN]
Profile   == [account : Accounts \cup {NoConnected}, ready : BOOLEAN]
Update    == [account : Accounts, transfers : BOOLEAN]
Visit     == [op : {"idle", "create", "save", "reread", "link", "dashboard", "form",
                    "createCustom", "saveCustom"},
              account : Accounts \cup {NoConnected}]
               \cup [op : {"cache"}, account : Accounts, transfers : BOOLEAN]

(* The types. *)
LEMMA PayoutsTyped ==
    ASSUME PayoutAccountsInv
    PROVE  /\ connected \in [Accounts -> Connected] /\ keyed \in Accounts \cup {NoConnected}
           /\ updates \subseteq Update /\ profile \in Profile /\ visit \in [Visits -> Visit]
           /\ sentTo \subseteq Accounts /\ orphaned \in BOOLEAN /\ losses \in 0..MaxLosses
           /\ \A v \in Visits : Knows(visit[v])
BY DEF PayoutAccountsInv, PayoutAccountsTypeOK, Connected, Profile, Update, Visit, VisitsKnow

(* Every account with details is the profile's, or being saved. *)
LEMMA SentOrSaved ==
    ASSUME PayoutAccountsInv, ~orphaned, NEW a \in sentTo, a # profile.account
    PROVE  \E w \in Visits : visit[w].op = "saveCustom" /\ visit[w].account = a
BY DEF PayoutAccountsInv, SentToOneAccount, BeingSaved

(* What is not the profile's account may change. *)
LEMMA AccountStays ==
    ASSUME PayoutAccountsInv, profile' \in Profile, profile'.account = profile.account,
           UNCHANGED <<visit, sentTo, orphaned>>,
           connected' \in [Accounts -> Connected], keyed' \in Accounts \cup {NoConnected},
           updates' \subseteq Update, losses' \in 0..MaxLosses
    PROVE  PayoutAccountsInv'
<1>1. PayoutAccountsTypeOK'
  BY PayoutsTyped DEF PayoutAccountsTypeOK, Connected, Profile, Update, Visit
<1>2. SentToOneAccount'
  BY DEF PayoutAccountsInv, SentToOneAccount, BeingSaved
<1> QED
  BY <1>1, <1>2, PayoutsTyped DEF PayoutAccountsInv, VisitsKnow, Knows

(* One visit takes its next step, and the profile keeps its account. *)
LEMMA VisitMoves ==
    ASSUME PayoutAccountsInv, NEW v \in Visits, NEW c \in Visit,
           visit' = [visit EXCEPT ![v] = c],
           profile' \in Profile, profile'.account = profile.account, Knows(c),
           orphaned' \in BOOLEAN, orphaned => orphaned', visit[v].op = "saveCustom" => orphaned',
           sentTo' \subseteq Accounts,
           \A a \in sentTo' : \/ orphaned' \/ a \in sentTo \/ a = profile.account
                              \/ c.op = "saveCustom" /\ c.account = a,
           connected' \in [Accounts -> Connected], keyed' \in Accounts \cup {NoConnected},
           updates' = updates, losses' \in 0..MaxLosses
    PROVE  PayoutAccountsInv'
<1>1. visit' \in [Visits -> Visit] /\ visit'[v] = c
      /\ \A w \in Visits \ {v} : visit'[w] = visit[w]
  BY PayoutsTyped
<1>2. PayoutAccountsTypeOK'
  BY <1>1, PayoutsTyped DEF PayoutAccountsTypeOK, Connected, Profile, Update, Visit
<1>3. VisitsKnow'
  <2> SUFFICES ASSUME NEW w \in Visits PROVE Knows(visit[w])'
    BY DEF VisitsKnow
  <2>1. PICK d : d = visit'[w]
    OBVIOUS
  <2>2. Knows(d)
    BY <1>1, <2>1, PayoutsTyped
  <2> QED
    BY <2>1, <2>2 DEF Knows
<1>4. SentToOneAccount'
  <2> SUFFICES ASSUME ~orphaned', NEW a \in sentTo', a # profile.account
               PROVE  \E w \in Visits : visit'[w].op = "saveCustom" /\ visit'[w].account = a
    BY DEF SentToOneAccount, BeingSaved
  <2>1. CASE a \in sentTo
    <3>1. PICK w \in Visits : visit[w].op = "saveCustom" /\ visit[w].account = a
      BY <2>1, SentOrSaved
    <3> QED
      BY <1>1, <3>1
  <2>2. CASE c.op = "saveCustom" /\ c.account = a
    BY <1>1, <2>2
  <2> QED
    BY <2>1, <2>2
<1> QED
  BY <1>2, <1>3, <1>4 DEF PayoutAccountsInv

(* A visit goes on with an account, and nothing else changes. *)
LEMMA VisitGoes ==
    ASSUME PayoutAccountsInv, NEW v \in Visits, NEW op, NEW a \in Accounts \cup {NoConnected},
           Goto(v, op, a), visit[v].op # "saveCustom",
           op \in {"create", "link", "reread", "dashboard", "form", "createCustom"},
           op \in {"reread", "link", "dashboard", "form"} => profile.account # NoConnected,
           op \in {"link", "dashboard", "form"} => a = profile.account,
           UNCHANGED <<connected, keyed, updates, profile, sentTo, orphaned, losses>>
    PROVE  PayoutAccountsInv'
<1>1. PICK c : c = [op |-> op, account |-> a]
  OBVIOUS
<1>2. c \in Visit /\ c.op = op /\ c.account = a
  BY <1>1 DEF Visit
<1>3. Knows(c)
  BY <1>2 DEF Knows
<1>4. visit' = [visit EXCEPT ![v] = c]
  BY <1>1 DEF Goto
<1>5. profile' \in Profile /\ connected' \in [Accounts -> Connected]
      /\ keyed' \in Accounts \cup {NoConnected} /\ losses' \in 0..MaxLosses
      /\ sentTo' \subseteq Accounts /\ orphaned' \in BOOLEAN
  BY PayoutsTyped
<1> QED
  BY <1>2, <1>3, <1>4, <1>5, VisitMoves

(* A visit ends, and may have sent the expert to the account it had. *)
LEMMA VisitEnds ==
    ASSUME PayoutAccountsInv, NEW v \in Visits, visit[v].op \in {"link", "dashboard", "form"},
           visit' = [visit EXCEPT ![v] = Away],
           sentTo' = sentTo \/ sentTo' = sentTo \cup {visit[v].account},
           UNCHANGED <<connected, keyed, updates, profile, orphaned, losses>>
    PROVE  PayoutAccountsInv'
<1>1. Away \in Visit /\ Knows(Away)
  BY DEF Away, Visit, Knows
<1>2. visit[v].account \in Accounts /\ (orphaned \/ visit[v].account = profile.account)
  BY PayoutsTyped DEF Knows
<1>3. profile' \in Profile /\ connected' \in [Accounts -> Connected]
      /\ keyed' \in Accounts \cup {NoConnected} /\ losses' \in 0..MaxLosses
      /\ sentTo' \subseteq Accounts /\ orphaned' \in BOOLEAN
  BY <1>2, PayoutsTyped
<1>4. \A a \in sentTo' : orphaned' \/ a \in sentTo \/ a = profile.account
  BY <1>2
<1> QED
  BY <1>1, <1>3, <1>4, VisitMoves

(* The profile has no account. *)
LEMMA PayoutAccountsStart == PayoutAccountsInit => PayoutAccountsInv
<1> SUFFICES ASSUME PayoutAccountsInit PROVE PayoutAccountsInv
  OBVIOUS
<1>1. \A v \in Visits : visit[v] = Away
  BY DEF PayoutAccountsInit
<1>2. 0 \in 0..MaxLosses
  BY PayoutAccountsAssumption
<1>3. Away \in Visit /\ Uncreated \in Connected /\ [account |-> NoConnected, ready |-> FALSE] \in Profile
  BY DEF Away, Visit, Uncreated, Connected, Profile
<1>4. PayoutAccountsTypeOK
  BY <1>2, <1>3 DEF PayoutAccountsInit, PayoutAccountsTypeOK, Visit, Connected, Profile
<1>5. VisitsKnow /\ SentToOneAccount
  BY <1>1 DEF PayoutAccountsInit, VisitsKnow, Knows, SentToOneAccount, Away
<1> QED
  BY <1>4, <1>5 DEF PayoutAccountsInv

(* The page of Stripe: an account is created, written, read back and opened. *)
LEMMA OnboardingSteps ==
    ASSUME PayoutAccountsInv, NEW v \in Visits,
           \/ getConnectOnboardingLink(v) \/ \E a \in Accounts : createRecipientAccount(v, a)
           \/ saveAccount(v) \/ rereadAccount(v) \/ createOnboardingLink(v)
    PROVE  PayoutAccountsInv'
<1> USE PayoutsTyped
<1>a. profile.account \in Accounts \cup {NoConnected}
  BY DEF Profile
<1>1. CASE getConnectOnboardingLink(v)
  <2>1. PICK op : op = IF profile.account = NoConnected THEN "create" ELSE "link"
    OBVIOUS
  <2>2. Goto(v, op, profile.account) /\ visit[v].op = "idle"
        /\ UNCHANGED <<connected, keyed, updates, profile, sentTo, orphaned, losses>>
    BY <1>1, <2>1 DEF getConnectOnboardingLink, Away
  <2> QED
    BY <1>a, <2>1, <2>2, VisitGoes
<1>2. CASE \E a \in Accounts : createRecipientAccount(v, a)
  <2>1. PICK a \in Accounts : createRecipientAccount(v, a)
    BY <1>2
  <2>2. PICK c : c = [op |-> "save", account |-> a]
    OBVIOUS
  <2>3. c \in Visit /\ c.op = "save" /\ Knows(c)
    BY <2>2 DEF Visit, Knows
  <2>4. visit' = [visit EXCEPT ![v] = c] /\ visit[v].op = "create"
        /\ UNCHANGED <<updates, profile, sentTo, orphaned, losses>>
    BY <2>1, <2>2 DEF createRecipientAccount, Goto
  <2>5. connected' \in [Accounts -> Connected] /\ keyed' \in Accounts \cup {NoConnected}
    BY <2>1 DEF createRecipientAccount, Created, Connected
  <2> QED
    BY <2>3, <2>4, <2>5, VisitMoves
<1>3. CASE saveAccount(v)
  <2>1. PICK a \in Accounts : a = visit[v].account
    BY <1>3 DEF saveAccount, Knows
  <2>2. PICK c : c = [op |-> "reread", account |-> a]
    OBVIOUS
  <2>3. c \in Visit /\ c.op = "reread"
    BY <2>2 DEF Visit
  <2>4. visit' = [visit EXCEPT ![v] = c] /\ visit[v].op = "save"
        /\ UNCHANGED <<connected, keyed, updates, sentTo, orphaned, losses>>
    BY <1>3, <2>1, <2>2 DEF saveAccount, Goto
  <2>6. CASE profile.account # NoConnected
    <3>1. profile' = profile /\ Knows(c)
      BY <1>3, <2>3, <2>6 DEF saveAccount, Knows
    <3> QED
      BY <2>3, <2>4, <3>1, VisitMoves
  <2>7. CASE profile.account = NoConnected
    <3>1. profile' = [account |-> a, ready |-> FALSE] /\ a # NoConnected
      BY <1>3, <2>1, <2>7, PayoutAccountsAssumption DEF saveAccount
    <3>2. profile' \in Profile /\ profile'.account = a
      BY <3>1 DEF Profile
    <3>3. visit' \in [Visits -> Visit] /\ visit'[v] = c
          /\ \A w \in Visits \ {v} : visit'[w] = visit[w]
      BY <2>3, <2>4
    <3>4. PayoutAccountsTypeOK'
      BY <2>4, <3>2, <3>3 DEF PayoutAccountsTypeOK, Connected, Profile, Update, Visit
    <3>5. SentToOneAccount'
      <4> SUFFICES ASSUME ~orphaned', NEW x \in sentTo'
                   PROVE  \E w \in Visits : visit'[w].op = "saveCustom" /\ visit'[w].account = x
        BY DEF SentToOneAccount, BeingSaved
      <4>1. x \in sentTo /\ x # profile.account /\ ~orphaned
        BY <2>4, <2>7, PayoutAccountsAssumption
      <4>2. PICK w \in Visits : visit[w].op = "saveCustom" /\ visit[w].account = x
        BY <4>1, SentOrSaved
      <4> QED
        BY <2>4, <3>3, <4>2
    <3>6. VisitsKnow'
      <4> SUFFICES ASSUME NEW w \in Visits PROVE Knows(visit[w])'
        BY DEF VisitsKnow
      <4>1. CASE w = v
        BY <2>3, <3>1, <3>2, <3>3, <4>1 DEF Knows
      <4>2. CASE w # v
        <5>1. visit'[w] = visit[w] /\ Knows(visit[w])
          BY <3>3, <4>2
        <5>2. visit[w].op \notin {"reread", "link", "dashboard", "form"}
          BY <2>7, <5>1 DEF Knows
        <5> QED
          BY <5>1, <5>2 DEF Knows
      <4> QED
        BY <4>1, <4>2
    <3> QED
      BY <3>4, <3>5, <3>6 DEF PayoutAccountsInv
  <2> QED
    BY <2>6, <2>7
<1>4. CASE rereadAccount(v)
  <2>1. visit[v].op = "reread" /\ profile.account # NoConnected
    BY <1>4 DEF rereadAccount, Knows
  <2> QED
    BY <1>4, <1>a, <2>1, VisitGoes DEF rereadAccount
<1>5. CASE createOnboardingLink(v)
  BY <1>5, VisitEnds DEF createOnboardingLink, SendTo
<1> QED
  BY <1>1, <1>2, <1>3, <1>4, <1>5

(* The dashboard and the older forms. *)
LEMMA CustomSteps ==
    ASSUME PayoutAccountsInv, NEW v \in Visits,
           \/ getConnectDashboardLink(v) \/ createDashboardLoginLink(v)
           \/ submitCustomConnectKyc(v) \/ attachBankAccount(v) \/ fillForm(v)
           \/ \E a \in Accounts : createCustomConnectAccount(v, a)
           \/ saveCustomAccount(v)
    PROVE  PayoutAccountsInv'
<1> USE PayoutsTyped
<1>a. profile.account \in Accounts \cup {NoConnected} /\ Away.op = "idle"
  BY DEF Profile, Away
<1>1. CASE getConnectDashboardLink(v)
  BY <1>1, <1>a, VisitGoes DEF getConnectDashboardLink
<1>2. CASE createDashboardLoginLink(v)
  BY <1>2, VisitEnds DEF createDashboardLoginLink, SendTo
<1>3. CASE submitCustomConnectKyc(v)
  <2>1. PICK op : op = IF profile.account = NoConnected THEN "createCustom" ELSE "form"
    OBVIOUS
  <2>2. Goto(v, op, profile.account) /\ visit[v].op = "idle"
        /\ UNCHANGED <<connected, keyed, updates, profile, sentTo, orphaned, losses>>
    BY <1>3, <1>a, <2>1 DEF submitCustomConnectKyc
  <2> QED
    BY <1>a, <2>1, <2>2, VisitGoes
<1>4. CASE attachBankAccount(v)
  BY <1>4, <1>a, VisitGoes DEF attachBankAccount
<1>5. CASE fillForm(v)
  BY <1>5, VisitEnds DEF fillForm, SendTo
<1>6. CASE \E a \in Accounts : createCustomConnectAccount(v, a)
  <2>1. PICK a \in Accounts : createCustomConnectAccount(v, a)
    BY <1>6
  <2>2. PICK c : c = [op |-> "saveCustom", account |-> a]
    OBVIOUS
  <2>3. c \in Visit /\ c.op = "saveCustom" /\ c.account = a /\ Knows(c)
    BY <2>2 DEF Visit, Knows
  <2>4. visit' = [visit EXCEPT ![v] = c] /\ visit[v].op = "createCustom"
        /\ sentTo' = sentTo \cup {a} /\ UNCHANGED <<keyed, updates, profile, orphaned, losses>>
    BY <2>1, <2>2 DEF createCustomConnectAccount, Goto
  <2>5. connected' \in [Accounts -> Connected]
    BY <2>1 DEF createCustomConnectAccount, Created, Connected
  <2>6. sentTo' \subseteq Accounts
    BY <2>4
  <2>7. \A x \in sentTo' : \/ orphaned' \/ x \in sentTo \/ x = profile.account
                           \/ c.op = "saveCustom" /\ c.account = x
    BY <2>3, <2>4
  <2>8. /\ orphaned' \in BOOLEAN /\ (orphaned => orphaned') /\ visit[v].op # "saveCustom"
        /\ keyed' \in Accounts \cup {NoConnected} /\ losses' \in 0..MaxLosses
        /\ updates' = updates /\ profile' \in Profile /\ profile'.account = profile.account
    BY <2>4
  <2> QED
    BY <2>3, <2>4, <2>5, <2>6, <2>7, <2>8, VisitMoves
<1>7. CASE saveCustomAccount(v)
  <2>1. PICK a \in Accounts : a = visit[v].account
    BY <1>7 DEF saveCustomAccount, Knows
  <2>2. profile' \in Profile /\ profile'.account = a /\ a # NoConnected
    BY <1>7, <2>1, PayoutAccountsAssumption DEF saveCustomAccount, Profile
  <2>3. visit' = [visit EXCEPT ![v] = Away] /\ visit[v].op = "saveCustom"
        /\ UNCHANGED <<connected, keyed, updates, sentTo, losses>>
    BY <1>7 DEF saveCustomAccount
  <2>4. orphaned' = (orphaned \/ profile.account # NoConnected)
    BY <1>7 DEF saveCustomAccount
  <2>5. Away \in Visit
    BY DEF Away, Visit
  <2>6. visit' \in [Visits -> Visit] /\ visit'[v] = Away
        /\ \A w \in Visits \ {v} : visit'[w] = visit[w]
    BY <2>3, <2>5
  <2>7. orphaned' \in BOOLEAN
    BY <2>4
  <2>8. PayoutAccountsTypeOK'
    BY <2>2, <2>3, <2>6, <2>7 DEF PayoutAccountsTypeOK, Connected, Profile, Update, Visit
  <2>9. VisitsKnow'
    <3> SUFFICES ASSUME NEW w \in Visits PROVE Knows(visit[w])'
      BY DEF VisitsKnow
    <3>1. CASE w = v
      BY <1>a, <2>6, <3>1 DEF Knows
    <3>2. CASE w # v
      <4>1. visit'[w] = visit[w] /\ Knows(visit[w])
        BY <2>6, <3>2
      <4>2. orphaned' \/ visit[w].op \notin {"reread", "link", "dashboard", "form"}
        BY <2>4, <4>1 DEF Knows
      <4> QED
        BY <2>2, <4>1, <4>2 DEF Knows
    <3> QED
      BY <3>1, <3>2
  <2>10. SentToOneAccount'
    <3> SUFFICES ASSUME ~orphaned', NEW x \in sentTo', x # a
                 PROVE  \E w \in Visits : visit'[w].op = "saveCustom" /\ visit'[w].account = x
      BY <2>2 DEF SentToOneAccount, BeingSaved
    <3>1. ~orphaned /\ x \in sentTo /\ x # profile.account
      BY <2>3, <2>4, PayoutAccountsAssumption
    <3>2. PICK w \in Visits : visit[w].op = "saveCustom" /\ visit[w].account = x
      BY <3>1, SentOrSaved
    <3>3. w # v
      BY <2>1, <3>2
    <3> QED
      BY <2>6, <3>2, <3>3
  <2> QED
    BY <2>8, <2>9, <2>10 DEF PayoutAccountsInv
<1> QED
  BY <1>1, <1>2, <1>3, <1>4, <1>5, <1>6, <1>7

(* Readiness is asked for and told, requests are lost, and Stripe forgets. *)
LEMMA ReadinessSteps ==
    ASSUME PayoutAccountsInv,
           \/ \E v \in Visits : getConnectStatus(v) \/ cachePayoutReadiness(v) \/ RequestLost(v)
           \/ \E e \in updates : accountUpdated(e)
           \/ \E a \in Accounts : StripeVerifies(a)
           \/ KeyForgotten
    PROVE  PayoutAccountsInv'
<1> USE PayoutsTyped
<1>a. Away \in Visit /\ Away.op = "idle" /\ Knows(Away)
  BY DEF Away, Visit, Knows
<1>p. \A a, b : b \in BOOLEAN => Cached(a, b) \in Profile /\ Cached(a, b).account = profile.account
  BY DEF Cached, Profile
<1>1. ASSUME NEW v \in Visits, getConnectStatus(v) PROVE PayoutAccountsInv'
  <2>1. profile.account \in Accounts
    BY <1>1 DEF getConnectStatus, Profile
  <2>2. PICK c : c = [op |-> "cache", account |-> profile.account,
                      transfers |-> connected[profile.account].transfers]
    OBVIOUS
  <2>3. c \in Visit /\ c.op = "cache" /\ Knows(c)
    BY <2>1, <2>2 DEF Visit, Connected, Knows
  <2>4. visit' = [visit EXCEPT ![v] = c] /\ visit[v].op = "idle"
        /\ UNCHANGED <<connected, keyed, updates, profile, sentTo, orphaned, losses>>
    BY <1>1, <1>a, <2>2 DEF getConnectStatus
  <2> QED
    BY <2>3, <2>4, VisitMoves
<1>2. ASSUME NEW v \in Visits, cachePayoutReadiness(v) PROVE PayoutAccountsInv'
  <2>1. visit[v].transfers \in BOOLEAN
    BY <1>2 DEF cachePayoutReadiness, Visit
  <2>2. profile' \in Profile /\ profile'.account = profile.account
    BY <1>2, <1>p, <2>1 DEF cachePayoutReadiness
  <2> QED
    BY <1>2, <1>a, <2>2, VisitMoves DEF cachePayoutReadiness
<1>3. ASSUME NEW v \in Visits, RequestLost(v) PROVE PayoutAccountsInv'
  <2>1. losses' \in 0..MaxLosses
    BY <1>3, PayoutAccountsAssumption DEF RequestLost, Lost
  <2>2. orphaned' = (orphaned \/ visit[v].op = "saveCustom")
    BY <1>3 DEF RequestLost
  <2>3. orphaned' \in BOOLEAN /\ (orphaned => orphaned') /\ (visit[v].op = "saveCustom" => orphaned')
    BY <2>2
  <2> QED
    BY <1>3, <1>a, <2>1, <2>3, VisitMoves DEF RequestLost
<1>4. ASSUME NEW e \in updates, accountUpdated(e) PROVE PayoutAccountsInv'
  <2>1. e.transfers \in BOOLEAN
    BY DEF Update
  <2>2. profile' \in Profile /\ profile'.account = profile.account
    BY <1>4, <1>p, <2>1 DEF accountUpdated
  <2> QED
    BY <1>4, <2>2, AccountStays DEF accountUpdated
<1>5. ASSUME NEW a \in Accounts, StripeVerifies(a) PROVE PayoutAccountsInv'
  <2>1. PICK b \in BOOLEAN : b = ~connected[a].transfers
    OBVIOUS
  <2>2. [connected[a] EXCEPT !.transfers = b] \in Connected
    BY DEF Connected
  <2>3. connected' = [connected EXCEPT ![a] = [connected[a] EXCEPT !.transfers = b]]
    BY <1>5, <2>1 DEF StripeVerifies
  <2>4. connected' \in [Accounts -> Connected]
    BY <2>2, <2>3
  <2>5. [account |-> a, transfers |-> b] \in Update
    BY DEF Update
  <2>6. updates' \subseteq Update
    BY <1>5, <2>1, <2>5 DEF StripeVerifies
  <2> QED
    BY <1>5, <2>4, <2>6, AccountStays DEF StripeVerifies
<1>6. CASE KeyForgotten
  <2>1. losses' \in 0..MaxLosses
    BY <1>6, PayoutAccountsAssumption DEF KeyForgotten, Lost
  <2> QED
    BY <1>6, <2>1, AccountStays DEF KeyForgotten
<1> QED
  BY <1>1, <1>2, <1>3, <1>4, <1>5, <1>6

(* Every step keeps the invariant. *)
LEMMA PayoutAccountsStep == PayoutAccountsInv /\ PayoutAccountsNext => PayoutAccountsInv'
BY OnboardingSteps, CustomSteps, ReadinessSteps DEF PayoutAccountsNext

(* A step of another part keeps it. *)
LEMMA PayoutAccountsRest == PayoutAccountsInv /\ UNCHANGED payoutAccountVars => PayoutAccountsInv'
<1> SUFFICES ASSUME PayoutAccountsInv, UNCHANGED payoutAccountVars PROVE PayoutAccountsInv'
  OBVIOUS
<1>1. UNCHANGED <<connected, keyed, updates, profile, visit, sentTo, orphaned, losses>>
  BY DEF payoutAccountVars
<1> QED
  BY <1>1 DEF PayoutAccountsInv, PayoutAccountsTypeOK, VisitsKnow, Knows, SentToOneAccount, BeingSaved

-----------------------------------------------------------------------------
(* The plans sold on the website.  A price object never changes, and what   *)
(* an admin writes beside its id is what it was made or found with.  Every  *)
(* price a subscriber may be charged is of the product of a plan with a     *)
(* price, so the row that follows the charge finds the plan.                *)

RowsHaveProducts == \A p \in Plans : webPlan[p] # Unpriced => product[webPlan[p].product] = p

InPricing(c) ==
    /\ c.op \in {"list", "price", "write"} => product[c.product] = c.plan
    /\ c.op = "write" => stripePrice[c.price] = [product |-> c.product, cents |-> c.cents]

PricingsKnow == \A a \in Pricings : InPricing(pricing[a])

\* The price of a plan that is sold, or was.
Sold(i) ==
    /\ i \in PriceIds /\ stripePrice[i] # Unmade
    /\ product[stripePrice[i].product] \in Plans
    /\ webPlan[product[stripePrice[i].product]] # Unpriced

PricesAreSold ==
    /\ \A i \in offered : Sold(i)
    /\ paying.now # NoPrice => Sold(paying.now)
    /\ paying.next # NoPrice => Sold(paying.next)

SwitchIsPaid == switched # NoPrice => switched = paying.now /\ paying.next = NoPrice

WebPlansInv == /\ WebPlansTypeOK /\ RowsHaveProducts /\ PricingsKnow /\ PricesAreSold
               /\ SwitchIsPaid /\ PriceShownIsCharged /\ PaidPlanIsGranted

WebRow   == [product : Products, price : PriceIds, cents : Amounts]
PriceRow == [product : Products, cents : Amounts]
Paying   == [now : PriceIds \cup {NoPrice}, next : PriceIds \cup {NoPrice}]
Pricing  == {Done}
          \cup [op : {"search", "product"}, plan : Plans, cents : Amounts]
          \cup [op : {"list", "price"}, plan : Plans, cents : Amounts, product : Products]
          \cup [op : {"write"}, plan : Plans, cents : Amounts, product : Products,
                price : PriceIds]

(* The types, and what it means to have a price. *)
LEMMA PlansTyped ==
    ASSUME WebPlansInv
    PROVE  /\ webPlan \in [Plans -> {Unpriced} \cup WebRow]
           /\ product \in [Products -> Plans \cup {NoPrice}] /\ searchable \subseteq Products
           /\ stripePrice \in [PriceIds -> {Unmade} \cup PriceRow]
           /\ pricing \in [Pricings -> Pricing]
           /\ offered \subseteq PriceIds /\ paying \in Paying
           /\ switched \in PriceIds \cup {NoPrice} /\ granted \in Plans \cup {NoPrice}
           /\ unanswered \in BOOLEAN
           /\ \A p \in Plans : webPlan[p] # Unpriced => webPlan[p] \in WebRow
           /\ \A i \in PriceIds : stripePrice[i] # Unmade => stripePrice[i] \in PriceRow
<1>1. /\ webPlan \in [Plans -> {Unpriced} \cup WebRow]
      /\ product \in [Products -> Plans \cup {NoPrice}] /\ searchable \subseteq Products
      /\ stripePrice \in [PriceIds -> {Unmade} \cup PriceRow]
      /\ pricing \in [Pricings -> Pricing]
      /\ offered \subseteq PriceIds /\ paying \in Paying
      /\ switched \in PriceIds \cup {NoPrice} /\ granted \in Plans \cup {NoPrice}
  BY DEF WebPlansInv, WebPlansTypeOK, WebRow, PriceRow, Paying, Pricing
<1>2. unanswered \in BOOLEAN
  BY Zenon DEF WebPlansInv, WebPlansTypeOK
<1> QED
  BY <1>1, <1>2

(* The price of a plan's row is sold, at what the row says. *)
LEMMA RowsAreSold ==
    ASSUME WebPlansInv, NEW p \in Plans, webPlan[p] # Unpriced
    PROVE  /\ Sold(webPlan[p].price) /\ webPlan[p].price # NoPrice
           /\ stripePrice[webPlan[p].price].product = webPlan[p].product
           /\ product[stripePrice[webPlan[p].price].product] = p
<1>1. webPlan[p] \in WebRow
  BY PlansTyped
<1>2. stripePrice[webPlan[p].price] = [product |-> webPlan[p].product, cents |-> webPlan[p].cents]
  BY DEF WebPlansInv, PriceShownIsCharged
<1>3. product[webPlan[p].product] = p
  BY DEF WebPlansInv, RowsHaveProducts
<1>4. stripePrice[webPlan[p].price] # Unmade
  BY <1>1, <1>2, WebPlansAssumption DEF WebRow, Unmade
<1> QED
  BY <1>1, <1>2, <1>3, <1>4, WebPlansAssumption DEF Sold, WebRow

(* The plan of a price that is charged is found, when Stripe answers. *)
LEMMA PlanIsFound ==
    ASSUME WebPlansInv, NEW i, Sold(i), NEW answered \in BOOLEAN
    PROVE  /\ \A p \in planForStripePrice(i, answered) : p = product[stripePrice[i].product]
           /\ answered /\ OneProductEach => planForStripePrice(i, answered) # {}
<1>1. PICK x \in Products : x = stripePrice[i].product
  BY PlansTyped DEF Sold, PriceRow
<1>2. PICK q \in Plans : q = product[x] /\ webPlan[q] # Unpriced
  BY <1>1 DEF Sold
<1>3. \A p \in Plans : webPlan[p].price = i => webPlan[p] # Unpriced
  BY WebPlansAssumption DEF Sold, Unpriced
<1>4. \A p \in Plans : webPlan[p].price = i => p = q
  BY <1>1, <1>2, <1>3, RowsAreSold
<1>5. \A p \in Plans : webPlan[p] # Unpriced /\ stripePrice[webPlan[p].price].product = x => p = q
  BY <1>2, RowsAreSold
<1>6. \A p \in planForStripePrice(i, answered) : p = q
  BY <1>1, <1>4, <1>5, Zenon DEF planForStripePrice
<1>7. ASSUME answered, OneProductEach PROVE planForStripePrice(i, answered) # {}
  <2>1. product[webPlan[q].product] = product[x] /\ webPlan[q].product \in Products
    BY <1>2, PlansTyped DEF WebPlansInv, RowsHaveProducts, WebRow
  <2>2. webPlan[q].product = x
    BY <1>2, <1>7, <2>1, WebPlansAssumption DEF OneProductEach
  <2>3. stripePrice[webPlan[q].price].product = x
    BY <1>2, <2>2, RowsAreSold
  <2>4. q \in {p \in Plans : answered /\ webPlan[p] # Unpriced
                          /\ stripePrice[webPlan[p].price].product = stripePrice[i].product}
    BY <1>1, <1>2, <1>7, <2>3, Zenon
  <2> QED
    BY <2>4, Zenon DEF planForStripePrice
<1> QED
  BY <1>1, <1>2, <1>6, <1>7

(* No plan has a price. *)
LEMMA WebPlansStart == WebPlansInit => WebPlansInv
<1> SUFFICES ASSUME WebPlansInit PROVE WebPlansInv
  OBVIOUS
<1>1. /\ webPlan \in [Plans -> {Unpriced} \cup WebRow]
      /\ product \in [Products -> Plans \cup {NoPrice}] /\ searchable \subseteq Products
      /\ stripePrice \in [PriceIds -> {Unmade} \cup PriceRow]
      /\ pricing \in [Pricings -> Pricing]
      /\ offered \subseteq PriceIds /\ paying \in Paying
      /\ switched \in PriceIds \cup {NoPrice} /\ granted \in Plans \cup {NoPrice}
  BY DEF WebPlansInit, WebRow, PriceRow, Paying, Pricing
<1>2. unanswered \in BOOLEAN
  BY Zenon DEF WebPlansInit
<1>3. WebPlansTypeOK
  BY <1>1, <1>2, Zenon DEF WebPlansTypeOK, WebRow, PriceRow, Paying, Pricing
<1>4. \A a \in Pricings : pricing[a].op = "idle"
  BY DEF WebPlansInit, Done
<1>5. RowsHaveProducts /\ PricingsKnow /\ PricesAreSold /\ SwitchIsPaid /\ PriceShownIsCharged
      /\ paying.now = NoPrice
  BY <1>4 DEF WebPlansInit, RowsHaveProducts, PricingsKnow, InPricing, PricesAreSold, SwitchIsPaid,
     PriceShownIsCharged
<1> QED
  BY <1>3, <1>5 DEF WebPlansInv, PaidPlanIsGranted

(* An admin's request moves on, and the subscriber's side stays.  Products  *)
(* and prices, once made, stay as they are, and priced plans stay priced.   *)
LEMMA PricingMoves ==
    ASSUME WebPlansInv, NEW a \in Pricings, NEW c \in Pricing,
           pricing' = [pricing EXCEPT ![a] = c], InPricing(c)',
           UNCHANGED <<offered, paying, granted, switched, unanswered>>,
           webPlan' \in [Plans -> {Unpriced} \cup WebRow], RowsHaveProducts', PriceShownIsCharged',
           searchable' \subseteq Products,
           product' \in [Products -> Plans \cup {NoPrice}],
           stripePrice' \in [PriceIds -> {Unmade} \cup PriceRow],
           \A x \in Products : product[x] # NoPrice => product'[x] = product[x],
           \A i \in PriceIds : stripePrice[i] # Unmade => stripePrice'[i] = stripePrice[i],
           \A p \in Plans : webPlan[p] # Unpriced => webPlan'[p] # Unpriced
    PROVE  WebPlansInv'
<1> USE PlansTyped
<1>1. pricing' \in [Pricings -> Pricing] /\ pricing'[a] = c
      /\ \A b \in Pricings \ {a} : pricing'[b] = pricing[b]
  OBVIOUS
<1>2. WebPlansTypeOK'
  <2>1. unanswered' \in BOOLEAN
    OBVIOUS
  <2>2. /\ offered' \subseteq PriceIds /\ paying' \in Paying
        /\ switched' \in PriceIds \cup {NoPrice} /\ granted' \in Plans \cup {NoPrice}
    OBVIOUS
  <2> QED
    BY <1>1, <2>1, <2>2, Zenon DEF WebPlansTypeOK, WebRow, PriceRow, Paying, Pricing
<1>3. \A i : Sold(i) => Sold(i)' /\ stripePrice'[i] = stripePrice[i]
                         /\ product'[stripePrice[i].product] = product[stripePrice[i].product]
                         /\ stripePrice[i].product \in Products
  <2> SUFFICES ASSUME NEW i, Sold(i)
               PROVE  /\ Sold(i)' /\ stripePrice'[i] = stripePrice[i]
                      /\ product'[stripePrice[i].product] = product[stripePrice[i].product]
                      /\ stripePrice[i].product \in Products
    OBVIOUS
  <2>1. stripePrice[i] \in PriceRow /\ stripePrice'[i] = stripePrice[i]
    BY DEF Sold
  <2>2. stripePrice[i].product \in Products /\ product[stripePrice[i].product] # NoPrice
    BY <2>1, WebPlansAssumption DEF Sold, PriceRow
  <2>3. product'[stripePrice[i].product] = product[stripePrice[i].product]
    BY <2>2
  <2> QED
    BY <2>1, <2>2, <2>3 DEF Sold
<1>4. PricesAreSold'
  BY <1>3 DEF WebPlansInv, PricesAreSold, Sold
<1>5. SwitchIsPaid'
  BY DEF WebPlansInv, SwitchIsPaid
<1>6. \A d \in Pricing : InPricing(d) => InPricing(d)'
  <2> SUFFICES ASSUME NEW d \in Pricing, InPricing(d) PROVE InPricing(d)'
    OBVIOUS
  <2>1. d.op \in {"list", "price", "write"} => product[d.product] = d.plan /\ d.product \in Products
                                               /\ d.plan \in Plans
    BY DEF InPricing, Pricing, Done
  <2>2. d.op \in {"list", "price", "write"} => product'[d.product] = d.plan
    BY <2>1, WebPlansAssumption
  <2>3. d.op = "write" => /\ d.price \in PriceIds /\ d.product \in Products /\ d.cents \in Amounts
                          /\ stripePrice[d.price] = [product |-> d.product, cents |-> d.cents]
    BY DEF InPricing, Pricing, Done
  <2>4. d.op = "write" => stripePrice[d.price] # Unmade
    BY <2>3, WebPlansAssumption DEF Unmade
  <2> QED
    BY <2>2, <2>3, <2>4 DEF InPricing
<1>7. PricingsKnow'
  <2> SUFFICES ASSUME NEW b \in Pricings PROVE InPricing(pricing[b])'
    BY DEF PricingsKnow
  <2>1. PICK d \in Pricing : d = pricing'[b]
    BY <1>1
  <2>2. InPricing(d)'
    <3>1. CASE b = a
      BY <1>1, <2>1, <3>1
    <3>2. CASE b # a
      BY <1>1, <1>6, <2>1, <3>2 DEF WebPlansInv, PricingsKnow
    <3> QED
      BY <3>1, <3>2
  <2> QED
    BY <2>1, <2>2 DEF InPricing
<1>8. PaidPlanIsGranted'
  <2> SUFFICES ASSUME paying.now # NoPrice, switched = NoPrice, ~unanswered, OneProductEach'
               PROVE  granted = product'[stripePrice'[paying.now].product]
    BY DEF PaidPlanIsGranted
  <2>1. OneProductEach
    BY WebPlansAssumption DEF OneProductEach
  <2>2. granted = product[stripePrice[paying.now].product]
    BY <2>1 DEF WebPlansInv, PaidPlanIsGranted
  <2> QED
    BY <1>3, <2>2 DEF WebPlansInv, PricesAreSold
<1> QED
  BY <1>2, <1>4, <1>5, <1>7, <1>8 DEF WebPlansInv

(* The rows, products and prices stay while a request looks around. *)
LEMMA PricingLooks ==
    ASSUME WebPlansInv, NEW a \in Pricings, NEW c \in Pricing,
           pricing' = [pricing EXCEPT ![a] = c], InPricing(c),
           UNCHANGED <<webPlan, product, searchable, stripePrice, offered, paying, granted,
                       switched, unanswered>>
    PROVE  WebPlansInv'
<1> USE PlansTyped
<1>1. InPricing(c)'
  BY DEF InPricing
<1>2. RowsHaveProducts' /\ PriceShownIsCharged'
  BY DEF WebPlansInv, RowsHaveProducts, PriceShownIsCharged
<1>3. /\ webPlan' \in [Plans -> {Unpriced} \cup WebRow] /\ searchable' \subseteq Products
      /\ product' \in [Products -> Plans \cup {NoPrice}]
      /\ stripePrice' \in [PriceIds -> {Unmade} \cup PriceRow]
  OBVIOUS
<1> QED
  BY <1>1, <1>2, <1>3, PricingMoves

(* An admin sets a price: up to the write. *)
LEMMA PricingSteps ==
    ASSUME WebPlansInv, NEW a \in Pricings,
           \/ \E p \in Plans, n \in Amounts : setPlanWebPricing(a, p, n)
           \/ searchProduct(a) \/ listPrices(a) \/ PricingFails(a)
    PROVE  WebPlansInv'
<1> USE PlansTyped
<1>1. CASE \E p \in Plans, n \in Amounts : setPlanWebPricing(a, p, n)
  <2>1. PICK p \in Plans, n \in Amounts : setPlanWebPricing(a, p, n)
    BY <1>1
  <2>2. PICK c : c = IF webPlan[p] = Unpriced
                     THEN [op |-> "search", plan |-> p, cents |-> n]
                     ELSE [op |-> "list", plan |-> p, cents |-> n, product |-> webPlan[p].product]
    OBVIOUS
  <2>3. c \in Pricing /\ InPricing(c)
    <3>1. CASE webPlan[p] = Unpriced
      BY <2>2, <3>1 DEF Pricing, InPricing
    <3>2. CASE webPlan[p] # Unpriced
      <4>1. webPlan[p].product \in Products /\ product[webPlan[p].product] = p
        BY <3>2 DEF WebRow, WebPlansInv, RowsHaveProducts
      <4> QED
        BY <2>2, <3>2, <4>1 DEF Pricing, InPricing
    <3> QED
      BY <3>1, <3>2
  <2>4. pricing' = [pricing EXCEPT ![a] = c]
    BY <2>1, <2>2 DEF setPlanWebPricing
  <2> QED
    BY <2>1, <2>3, <2>4, PricingLooks DEF setPlanWebPricing
<1>2. CASE searchProduct(a)
  <2>1. PICK p \in Plans, n \in Amounts : p = pricing[a].plan /\ n = pricing[a].cents
                                          /\ pricing[a] = [op |-> "search", plan |-> p, cents |-> n]
    BY <1>2 DEF searchProduct, Pricing, Done
  <2>2. CASE \E x \in Products : product[x] = p /\ ListPricesOf(a, x)
    <3>1. PICK x \in Products : product[x] = p /\ ListPricesOf(a, x)
      BY <2>2
    <3>2. PICK c : c = [op |-> "list", plan |-> p, cents |-> n, product |-> x]
      OBVIOUS
    <3>3. c \in Pricing /\ InPricing(c)
      BY <3>1, <3>2 DEF Pricing, InPricing
    <3>4. pricing' = [pricing EXCEPT ![a] = c]
      BY <2>1, <3>1, <3>2 DEF ListPricesOf
    <3> QED
      BY <1>2, <3>3, <3>4, PricingLooks DEF searchProduct
  <2>3. CASE pricing' = [pricing EXCEPT ![a].op = "product"]
    <3>1. PICK c : c = [op |-> "product", plan |-> p, cents |-> n]
      OBVIOUS
    <3>2. c \in Pricing /\ InPricing(c)
      BY <3>1 DEF Pricing, InPricing
    <3>3. [pricing[a] EXCEPT !.op = "product"] = c
      BY <2>1, <3>1
    <3>4. pricing' = [pricing EXCEPT ![a] = [pricing[a] EXCEPT !.op = "product"]]
      BY <2>3
    <3>5. pricing' = [pricing EXCEPT ![a] = c]
      BY <3>3, <3>4
    <3> QED
      BY <1>2, <3>2, <3>5, PricingLooks DEF searchProduct
  <2>4. \A x \in searchable : x \in Products
    OBVIOUS
  <2>5. \/ \E x \in {x \in searchable : product[x] = p} : ListPricesOf(a, x)
        \/ pricing' = [pricing EXCEPT ![a].op = "product"]
    BY <1>2, <2>1, Zenon DEF searchProduct
  <2> QED
    BY <2>2, <2>3, <2>4, <2>5
<1>3. CASE listPrices(a)
  <2>1. PICK p \in Plans, n \in Amounts, x \in Products :
           /\ pricing[a] = [op |-> "list", plan |-> p, cents |-> n, product |-> x]
           /\ p = pricing[a].plan /\ n = pricing[a].cents /\ x = pricing[a].product
    BY <1>3 DEF listPrices, Pricing, Done
  <2>2. product[x] = p
    <3>1. InPricing(pricing[a])
      BY DEF WebPlansInv, PricingsKnow
    <3> QED
      BY <2>1, <3>1 DEF InPricing
  <2>3. CASE \E i \in PriceIds : /\ stripePrice[i].product = x /\ stripePrice[i].cents = n
                                 /\ WritePriced(a, i)
    <3>1. PICK i \in PriceIds : /\ stripePrice[i].product = x /\ stripePrice[i].cents = n
                                /\ WritePriced(a, i)
      BY <2>3
    <3>2. stripePrice[i] = [product |-> x, cents |-> n]
      BY <3>1, WebPlansAssumption DEF Unmade, PriceRow
    <3>3. PICK c : c = [op |-> "write", plan |-> p, cents |-> n, product |-> x, price |-> i]
      OBVIOUS
    <3>4. c \in Pricing /\ InPricing(c)
      BY <2>2, <3>2, <3>3 DEF Pricing, InPricing
    <3>5. pricing' = [pricing EXCEPT ![a] = c]
      BY <2>1, <3>1, <3>3 DEF WritePriced
    <3> QED
      BY <1>3, <3>4, <3>5, PricingLooks DEF listPrices
  <2>4. CASE pricing' = [pricing EXCEPT ![a].op = "price"]
    <3>1. PICK c : c = [op |-> "price", plan |-> p, cents |-> n, product |-> x]
      OBVIOUS
    <3>2. c \in Pricing /\ InPricing(c)
      BY <2>2, <3>1 DEF Pricing, InPricing
    <3>3. [pricing[a] EXCEPT !.op = "price"] = c
      BY <2>1, <3>1
    <3>4. pricing' = [pricing EXCEPT ![a] = [pricing[a] EXCEPT !.op = "price"]]
      BY <2>4
    <3>5. pricing' = [pricing EXCEPT ![a] = c]
      BY <3>3, <3>4
    <3> QED
      BY <1>3, <3>2, <3>5, PricingLooks DEF listPrices
  <2>5. \/ \E i \in {i \in Monthly(x) : stripePrice[i].cents = n} : WritePriced(a, i)
        \/ pricing' = [pricing EXCEPT ![a].op = "price"]
    BY <1>3, <2>1, Zenon DEF listPrices
  <2> QED
    BY <2>3, <2>4, <2>5 DEF Monthly
<1>4. CASE PricingFails(a)
  <2>1. Done \in Pricing /\ InPricing(Done)
    BY DEF Pricing, InPricing, Done
  <2> QED
    BY <1>4, <2>1, PricingLooks DEF PricingFails
<1> QED
  BY <1>1, <1>2, <1>3, <1>4

(* A product or a price is created, and the row of the plan is written. *)
LEMMA MakingSteps ==
    ASSUME WebPlansInv, NEW a \in Pricings,
           \/ \E x \in Products : createProduct(a, x)
           \/ \E i \in PriceIds : createPrice(a, i)
           \/ updatePlan(a)
    PROVE  WebPlansInv'
<1> USE PlansTyped
<1>1. CASE \E x \in Products : createProduct(a, x)
  <2>1. PICK x \in Products : createProduct(a, x)
    BY <1>1
  <2>2. PICK p \in Plans, n \in Amounts : p = pricing[a].plan /\ n = pricing[a].cents
    BY <2>1 DEF createProduct, Pricing, Done
  <2>3. product[x] = NoPrice /\ product' = [product EXCEPT ![x] = p]
    BY <2>1, <2>2 DEF createProduct
  <2>4. PICK c : c = [op |-> "list", plan |-> p, cents |-> n, product |-> x]
    OBVIOUS
  <2>5. c \in Pricing /\ InPricing(c)'
    BY <2>3, <2>4 DEF Pricing, InPricing
  <2>6. pricing' = [pricing EXCEPT ![a] = c]
    BY <2>1, <2>2, <2>4 DEF createProduct, ListPricesOf
  <2>7. UNCHANGED <<webPlan, searchable, stripePrice, offered, paying, granted, switched,
                    unanswered>>
    BY <2>1 DEF createProduct
  <2>8. \A y \in Products : product[y] # NoPrice => product'[y] = product[y]
    BY <2>3
  <2>9. RowsHaveProducts'
    <3> SUFFICES ASSUME NEW q \in Plans, webPlan[q] # Unpriced
                 PROVE  product'[webPlan[q].product] = q
      BY <2>7 DEF RowsHaveProducts
    <3>1. webPlan[q].product \in Products /\ product[webPlan[q].product] = q
      BY DEF WebRow, WebPlansInv, RowsHaveProducts
    <3> QED
      BY <2>8, <3>1, WebPlansAssumption
  <2>10. PriceShownIsCharged'
    BY <2>7 DEF WebPlansInv, PriceShownIsCharged
  <2>11. product' \in [Products -> Plans \cup {NoPrice}]
    BY <2>3
  <2>12. /\ webPlan' \in [Plans -> {Unpriced} \cup WebRow] /\ searchable' \subseteq Products
         /\ stripePrice' \in [PriceIds -> {Unmade} \cup PriceRow]
         /\ \A i \in PriceIds : stripePrice'[i] = stripePrice[i]
         /\ \A q \in Plans : webPlan'[q] = webPlan[q]
    BY <2>7
  <2> QED
    BY <2>5, <2>6, <2>7, <2>8, <2>9, <2>10, <2>11, <2>12, PricingMoves
<1>2. CASE \E i \in PriceIds : createPrice(a, i)
  <2>1. PICK i \in PriceIds : createPrice(a, i)
    BY <1>2
  <2>2. PICK p \in Plans, n \in Amounts, x \in Products :
           p = pricing[a].plan /\ n = pricing[a].cents /\ x = pricing[a].product
    BY <2>1 DEF createPrice, Pricing, Done
  <2>3. product[x] = p
    BY <2>1, <2>2 DEF createPrice, WebPlansInv, PricingsKnow, InPricing
  <2>4. /\ stripePrice[i] = Unmade
        /\ stripePrice' = [stripePrice EXCEPT ![i] = [product |-> x, cents |-> n]]
    BY <2>1, <2>2 DEF createPrice
  <2>5. PICK c : c = [op |-> "write", plan |-> p, cents |-> n, product |-> x, price |-> i]
    OBVIOUS
  <2>6. UNCHANGED <<webPlan, product, searchable, offered, paying, granted, switched, unanswered>>
    BY <2>1 DEF createPrice
  <2>7. c \in Pricing /\ InPricing(c)'
    BY <2>3, <2>4, <2>5, <2>6 DEF Pricing, InPricing
  <2>8. pricing' = [pricing EXCEPT ![a] = c]
    BY <2>1, <2>2, <2>5 DEF createPrice, WritePriced
  <2>9. /\ stripePrice' \in [PriceIds -> {Unmade} \cup PriceRow]
        /\ \A j \in PriceIds : stripePrice[j] # Unmade => stripePrice'[j] = stripePrice[j]
    BY <2>4 DEF PriceRow
  <2>10. RowsHaveProducts'
    BY <2>6 DEF WebPlansInv, RowsHaveProducts
  <2>11. PriceShownIsCharged'
    <3> SUFFICES ASSUME NEW q \in Plans, webPlan[q] # Unpriced
                 PROVE  stripePrice'[webPlan[q].price]
                          = [product |-> webPlan[q].product, cents |-> webPlan[q].cents]
      BY <2>6 DEF PriceShownIsCharged
    <3>1. stripePrice[webPlan[q].price]
            = [product |-> webPlan[q].product, cents |-> webPlan[q].cents]
      BY DEF WebPlansInv, PriceShownIsCharged
    <3> QED
      BY <2>9, <3>1, RowsAreSold DEF Sold
  <2>12. /\ webPlan' \in [Plans -> {Unpriced} \cup WebRow] /\ searchable' \subseteq Products
         /\ product' \in [Products -> Plans \cup {NoPrice}]
         /\ \A y \in Products : product'[y] = product[y]
         /\ \A q \in Plans : webPlan'[q] = webPlan[q]
    BY <2>6
  <2> QED
    BY <2>6, <2>7, <2>8, <2>9, <2>10, <2>11, <2>12, PricingMoves
<1>3. CASE updatePlan(a)
  <2>1. PICK p \in Plans, n \in Amounts, x \in Products, i \in PriceIds :
           /\ p = pricing[a].plan /\ n = pricing[a].cents /\ x = pricing[a].product
           /\ i = pricing[a].price
    BY <1>3 DEF updatePlan, Pricing, Done
  <2>2. product[x] = p /\ stripePrice[i] = [product |-> x, cents |-> n]
    BY <1>3, <2>1 DEF updatePlan, WebPlansInv, PricingsKnow, InPricing
  <2>3. PICK row \in WebRow : row = [product |-> x, price |-> i, cents |-> n]
    BY DEF WebRow
  <2>4. webPlan' = [webPlan EXCEPT ![p] = row] /\ pricing' = [pricing EXCEPT ![a] = Done]
    BY <1>3, <2>1, <2>3 DEF updatePlan
  <2>5. UNCHANGED <<product, searchable, stripePrice, offered, paying, granted, switched,
                    unanswered>>
    BY <1>3 DEF updatePlan
  <2>6. row # Unpriced
    BY <2>3, WebPlansAssumption DEF Unpriced
  <2>7. webPlan' \in [Plans -> {Unpriced} \cup WebRow]
        /\ \A q \in Plans : webPlan[q] # Unpriced => webPlan'[q] # Unpriced
    BY <2>4, <2>6
  <2>8. RowsHaveProducts'
    BY <2>2, <2>3, <2>4, <2>5 DEF WebPlansInv, RowsHaveProducts
  <2>9. PriceShownIsCharged'
    BY <2>2, <2>3, <2>4, <2>5 DEF WebPlansInv, PriceShownIsCharged
  <2>10. Done \in Pricing /\ InPricing(Done)'
    BY DEF Pricing, InPricing, Done
  <2>11. /\ searchable' \subseteq Products /\ product' \in [Products -> Plans \cup {NoPrice}]
         /\ stripePrice' \in [PriceIds -> {Unmade} \cup PriceRow]
         /\ \A y \in Products : product'[y] = product[y]
         /\ \A j \in PriceIds : stripePrice'[j] = stripePrice[j]
    BY <2>5
  <2> QED
    BY <2>4, <2>5, <2>7, <2>8, <2>9, <2>10, <2>11, PricingMoves
<1> QED
  BY <1>1, <1>2, <1>3

(* The subscriber's side moves while rows, products and prices stay. *)
LEMMA SubscriberMoves ==
    ASSUME WebPlansInv,
           UNCHANGED <<webPlan, product, stripePrice, pricing>>,
           searchable' \subseteq Products, offered' \subseteq PriceIds,
           paying' \in Paying, switched' \in PriceIds \cup {NoPrice},
           granted' \in Plans \cup {NoPrice}, unanswered' \in BOOLEAN,
           \A i \in offered' : Sold(i), paying'.now # NoPrice => Sold(paying'.now),
           paying'.next # NoPrice => Sold(paying'.next),
           SwitchIsPaid', PaidPlanIsGranted'
    PROVE  WebPlansInv'
<1> USE PlansTyped
<1>1. WebPlansTypeOK'
  <2>1. /\ webPlan' \in [Plans -> {Unpriced} \cup WebRow]
        /\ product' \in [Products -> Plans \cup {NoPrice}]
        /\ stripePrice' \in [PriceIds -> {Unmade} \cup PriceRow]
        /\ pricing' \in [Pricings -> Pricing]
    OBVIOUS
  <2> QED
    BY <2>1, Zenon DEF WebPlansTypeOK, WebRow, PriceRow, Paying, Pricing
<1>2. RowsHaveProducts' /\ PriceShownIsCharged'
  BY DEF WebPlansInv, RowsHaveProducts, PriceShownIsCharged
<1>3. PricingsKnow'
  BY DEF WebPlansInv, PricingsKnow, InPricing
<1>4. PricesAreSold'
  BY DEF PricesAreSold, Sold
<1> QED
  BY <1>1, <1>2, <1>3, <1>4 DEF WebPlansInv

(* The subscriber checks out, opens the portal, and switches. *)
LEMMA SubscriberSteps ==
    ASSUME WebPlansInv,
           \/ \E x \in Products : SearchCatchesUp(x)
           \/ \E p \in Plans : createCheckoutSession(p)
           \/ createStripePortalSession \/ \E i \in PriceIds : SwitchPlan(i)
           \/ SwitchIsCharged
    PROVE  WebPlansInv'
<1> USE PlansTyped
<1>s. /\ \A i \in offered : Sold(i)
      /\ paying.now # NoPrice => Sold(paying.now)
      /\ paying.next # NoPrice => Sold(paying.next)
  BY DEF WebPlansInv, PricesAreSold
<1>w. switched # NoPrice => switched = paying.now /\ paying.next = NoPrice
  BY DEF WebPlansInv, SwitchIsPaid
<1>t. \A i : Sold(i) => i \in PriceIds /\ i # NoPrice
  BY WebPlansAssumption DEF Sold
<1>1. CASE \E x \in Products : SearchCatchesUp(x)
  <2>1. /\ searchable' \subseteq Products
        /\ UNCHANGED <<webPlan, product, stripePrice, pricing, offered, paying, granted, switched,
                       unanswered>>
    BY <1>1 DEF SearchCatchesUp
  <2>2. SwitchIsPaid' /\ PaidPlanIsGranted'
    BY <2>1 DEF WebPlansInv, SwitchIsPaid, PaidPlanIsGranted, OneProductEach
  <2> QED
    BY <1>s, <2>1, <2>2, SubscriberMoves
<1>2. CASE \E p \in Plans : createCheckoutSession(p)
  <2>1. PICK p \in Plans : createCheckoutSession(p)
    BY <1>2
  <2>2. PICK i : i = webPlan[p].price /\ Sold(i) /\ product[stripePrice[i].product] = p
    BY <2>1, RowsAreSold DEF createCheckoutSession
  <2>3. /\ paying' = [now |-> i, next |-> NoPrice] /\ granted' = p
        /\ UNCHANGED <<webPlan, product, searchable, stripePrice, pricing, offered, switched,
                       unanswered>>
    BY <2>1, <2>2 DEF createCheckoutSession
  <2>4. switched = NoPrice
    BY <1>w, <2>1 DEF createCheckoutSession
  <2>5. paying' \in Paying /\ paying'.now = i /\ paying'.next = NoPrice
    BY <1>t, <2>2, <2>3 DEF Paying
  <2>6. SwitchIsPaid' /\ PaidPlanIsGranted'
    BY <2>2, <2>3, <2>4, <2>5 DEF SwitchIsPaid, PaidPlanIsGranted
  <2> QED
    BY <1>s, <2>2, <2>3, <2>5, <2>6, SubscriberMoves
<1>3. CASE createStripePortalSession
  <2>1. /\ offered' = buildPortalProducts /\ paying.now # NoPrice
        /\ UNCHANGED <<webPlan, product, searchable, stripePrice, pricing, paying, granted, switched,
                       unanswered>>
    BY <1>3 DEF createStripePortalSession
  <2>2. \A i \in offered' : Sold(i)
    BY <1>s, <2>1, RowsAreSold DEF buildPortalProducts
  <2>3. SwitchIsPaid' /\ PaidPlanIsGranted'
    BY <2>1 DEF WebPlansInv, SwitchIsPaid, PaidPlanIsGranted, OneProductEach
  <2>4. offered' \subseteq PriceIds
    BY <1>t, <2>2
  <2> QED
    BY <1>s, <2>1, <2>2, <2>3, <2>4, SubscriberMoves
<1>4. CASE \E i \in PriceIds : SwitchPlan(i)
  <2>1. PICK i \in PriceIds : SwitchPlan(i)
    BY <1>4
  <2>2. /\ i \in offered /\ switched = NoPrice
        /\ paying' = [paying EXCEPT !.next = i] /\ offered' = {}
        /\ UNCHANGED <<webPlan, product, searchable, stripePrice, pricing, granted, switched,
                       unanswered>>
    BY <2>1 DEF SwitchPlan
  <2>3. paying' \in Paying /\ paying'.now = paying.now /\ paying'.next = i
    BY <2>2 DEF Paying
  <2>4. SwitchIsPaid' /\ PaidPlanIsGranted'
    BY <2>2, <2>3 DEF WebPlansInv, SwitchIsPaid, PaidPlanIsGranted, OneProductEach
  <2> QED
    BY <1>s, <2>2, <2>3, <2>4, SubscriberMoves
<1>5. CASE SwitchIsCharged
  <2>1. PICK i : i = paying.next /\ Sold(i)
    BY <1>5, <1>s DEF SwitchIsCharged
  <2>2. /\ paying' = [now |-> i, next |-> NoPrice] /\ switched' = i
        /\ UNCHANGED <<webPlan, product, searchable, stripePrice, pricing, offered, granted,
                       unanswered>>
    BY <1>5, <2>1 DEF SwitchIsCharged
  <2>3. paying' \in Paying /\ paying'.now = i /\ paying'.next = NoPrice /\ switched' # NoPrice
    BY <1>t, <2>1, <2>2 DEF Paying
  <2>4. SwitchIsPaid' /\ PaidPlanIsGranted'
    BY <2>2, <2>3 DEF SwitchIsPaid, PaidPlanIsGranted
  <2> QED
    BY <1>s, <1>t, <2>1, <2>2, <2>3, <2>4, SubscriberMoves
<1> QED
  BY <1>1, <1>2, <1>3, <1>4, <1>5

(* The switch is told, and the row gets the plan of the price. *)
LEMMA SwitchIsTold ==
    ASSUME WebPlansInv, NEW b \in BOOLEAN, subscriptionUpdated(b)
    PROVE  WebPlansInv'
<1> USE PlansTyped
<1>s. /\ \A i \in offered : Sold(i)
      /\ paying.now # NoPrice => Sold(paying.now)
      /\ paying.next # NoPrice => Sold(paying.next)
  BY DEF WebPlansInv, PricesAreSold
<1>1. /\ switched # NoPrice /\ switched' = NoPrice /\ unanswered' = ~b
      /\ UNCHANGED <<webPlan, product, searchable, stripePrice, pricing, offered, paying>>
      /\ \/ \E p \in planForStripePrice(switched, b) : granted' = p
         \/ planForStripePrice(switched, b) = {} /\ UNCHANGED granted
  BY DEF subscriptionUpdated
<1>2. switched = paying.now /\ Sold(switched)
  BY <1>1, <1>s DEF WebPlansInv, SwitchIsPaid
<1>3. planForStripePrice(switched, b) \subseteq Plans
  BY DEF planForStripePrice
<1>4. granted' \in Plans \cup {NoPrice}
  BY <1>1, <1>3
<1>5. unanswered' \in BOOLEAN
  BY <1>1
<1>6. SwitchIsPaid'
  BY <1>1 DEF SwitchIsPaid
<1>7. PaidPlanIsGranted'
  <2> SUFFICES ASSUME ~unanswered', OneProductEach'
               PROVE  granted' = product'[stripePrice'[paying'.now].product]
    BY DEF PaidPlanIsGranted
  <2>1. b /\ OneProductEach
    BY <1>1 DEF OneProductEach
  <2>2. planForStripePrice(switched, b) # {}
    BY <1>2, <2>1, PlanIsFound
  <2>3. granted' = product[stripePrice[switched].product]
    BY <1>1, <1>2, <2>2, PlanIsFound
  <2> QED
    BY <1>1, <1>2, <2>3
<1>8. /\ searchable' \subseteq Products /\ offered' \subseteq PriceIds /\ paying' \in Paying
      /\ switched' \in PriceIds \cup {NoPrice} /\ \A i \in offered' : Sold(i)
      /\ paying'.now # NoPrice => Sold(paying'.now)
      /\ paying'.next # NoPrice => Sold(paying'.next)
  BY <1>1, <1>s
<1> QED
  BY <1>1, <1>4, <1>5, <1>6, <1>7, <1>8, SubscriberMoves

(* Every step of admins, Stripe and the subscriber keeps the invariant. *)
LEMMA WebPlansStep == WebPlansInv /\ WebPlansNext => WebPlansInv'
BY PricingSteps, MakingSteps, SubscriberSteps, SwitchIsTold DEF WebPlansNext

(* A step of another part keeps it. *)
LEMMA WebPlansRest == WebPlansInv /\ UNCHANGED webPlanVars => WebPlansInv'
<1> SUFFICES ASSUME WebPlansInv, UNCHANGED webPlanVars PROVE WebPlansInv'
  OBVIOUS
<1>1. UNCHANGED <<webPlan, product, searchable, stripePrice, pricing, offered, paying, granted,
                  switched, unanswered>>
  BY DEF webPlanVars
<1>2. PricesAreSold /\ SwitchIsPaid /\ PaidPlanIsGranted
  BY DEF WebPlansInv
<1>3. SwitchIsPaid' /\ PaidPlanIsGranted'
  BY <1>1, <1>2 DEF SwitchIsPaid, PaidPlanIsGranted, OneProductEach
<1> QED
  BY <1>1, <1>2, <1>3, PlansTyped, SubscriberMoves DEF PricesAreSold

-----------------------------------------------------------------------------
(* Banners.  Of the counts of a day, the unique clicks are never more than  *)
(* the clicks, so both stay within the day's bound.                         *)

UniqueIsClick == \A b \in BannerIds, d \in 1..Days : daily[b][d].uniqueClicks <= daily[b][d].clicks

BannersInv == BannersTypeOK /\ UniqueIsClick

Counts == [impressions : 0..MaxCount, clicks : 0..MaxCount, uniqueClicks : 0..MaxCount]
Tap    == {NotNow} \cup [op : {"insert"}, on : BannerIds, by : Viewers]
                   \cup [op : {"bump"}, on : BannerIds, unique : 0..1]
BannerRow == [status : {"none", "deleted", "pending", "approved", "rejected"},
              isActive : BOOLEAN, created : 0..Days]

(* The types, with names for the rows. *)
LEMMA BannersTyped ==
    ASSUME BannersTypeOK
    PROVE  /\ banner \in [BannerIds -> BannerRow] /\ viewedBy \in [BannerIds -> SUBSET Viewers]
           /\ daily \in [BannerIds -> [1..Days -> Counts]]
           /\ listedPlan \in BOOLEAN /\ today \in 1..Days
           /\ upload \in [Uploads -> {"idle", "count", "create"}]
           /\ tap \in [Taps -> Tap] /\ shownNow \subseteq BannerIds
           /\ uncounted \in [BannerIds -> Nat]
           /\ MaxBanners \in Nat /\ MaxCount \in Nat /\ Days \in Nat \ {0} /\ IsFiniteSet(Taps)
BY BannersAssumption, Zenon DEF BannersTypeOK, BannerRow, Counts, Tap

(* A step keeps the invariant when what it writes is of the type and the    *)
(* counts of a day are as before, zero, or added to in place.               *)
LEMMA BannersMoves ==
    ASSUME BannersInv,
           banner' \in [BannerIds -> BannerRow], viewedBy' \in [BannerIds -> SUBSET Viewers],
           daily' \in [BannerIds -> [1..Days -> Counts]],
           listedPlan' \in BOOLEAN, today' \in 1..Days,
           upload' \in [Uploads -> {"idle", "count", "create"}],
           tap' \in [Taps -> Tap], shownNow' \subseteq BannerIds,
           uncounted' \in [BannerIds -> Nat], UniqueIsClick'
    PROVE  BannersInv'
<1>1. BannersTypeOK'
  BY Zenon DEF BannersTypeOK, BannerRow, Counts, Tap
<1> QED
  BY <1>1 DEF BannersInv

(* Adding to a day's counts in place. *)
LEMMA CountsMove ==
    ASSUME BannersInv, NEW b \in BannerIds, NEW i \in 0..1, NEW c \in 0..1, NEW u \in 0..1,
           u <= c, bumpBannerStats(b, i, c, u)
    PROVE  daily' \in [BannerIds -> [1..Days -> Counts]] /\ UniqueIsClick'
<1>t. /\ daily \in [BannerIds -> [1..Days -> Counts]] /\ today \in 1..Days
      /\ MaxCount \in Nat /\ Days \in Nat
  BY BannersTyped DEF BannersInv
<1>u. \A x \in BannerIds, d \in 1..Days : daily[x][d].uniqueClicks <= daily[x][d].clicks
  BY DEF BannersInv, UniqueIsClick
<1>1. PICK row \in Counts : row = daily[b][today]
  BY <1>t
<1>2. row.uniqueClicks <= row.clicks
  BY <1>1, <1>t, <1>u
<1>3. PICK new : new = [impressions |-> row.impressions + i, clicks |-> row.clicks + c,
                        uniqueClicks |-> row.uniqueClicks + u]
  OBVIOUS
<1>4. /\ row.impressions + i <= MaxCount /\ row.clicks + c <= MaxCount
      /\ daily' = IF ~There(b) THEN daily ELSE [daily EXCEPT ![b][today] = new]
  BY <1>1, <1>3, Zenon DEF bumpBannerStats
<1>5. new \in Counts /\ new.uniqueClicks <= new.clicks
  <2>1. row.impressions \in Nat /\ row.clicks \in Nat /\ row.uniqueClicks \in Nat
    BY <1>t DEF Counts
  <2>2. row.impressions + i \in 0..MaxCount /\ row.clicks + c \in 0..MaxCount
    BY <1>t, <1>4, <2>1
  <2>3. row.uniqueClicks + u \in 0..MaxCount /\ row.uniqueClicks + u <= row.clicks + c
    BY <1>t, <1>2, <2>1, <2>2
  <2> QED
    BY <1>3, <2>2, <2>3 DEF Counts
<1>6. CASE daily' = daily
  BY <1>6, <1>t, <1>u DEF UniqueIsClick
<1>7. CASE daily' = [daily EXCEPT ![b][today] = new]
  <2>1. daily' \in [BannerIds -> [1..Days -> Counts]]
    BY <1>7, <1>t, <1>5
  <2>2. \A x \in BannerIds, d \in 1..Days :
           daily'[x][d] = IF x = b /\ d = today THEN new ELSE daily[x][d]
    BY <1>7, <1>t
  <2>3. UniqueIsClick'
    BY <1>5, <1>u, <2>2 DEF UniqueIsClick
  <2> QED
    BY <2>1, <2>3
<1> QED
  BY <1>4, <1>6, <1>7

(* There are no banners. *)
LEMMA BannersStart == BannersInit => BannersInv
<1> SUFFICES ASSUME BannersInit PROVE BannersInv
  OBVIOUS
<1>t. MaxCount \in Nat /\ Days \in Nat \ {0}
  BY BannersAssumption
<1>1. /\ viewedBy \in [BannerIds -> SUBSET Viewers]
      /\ today \in 1..Days
      /\ upload \in [Uploads -> {"idle", "count", "create"}]
      /\ tap \in [Taps -> Tap] /\ shownNow \subseteq BannerIds
      /\ uncounted \in [BannerIds -> Nat]
  BY <1>t DEF BannersInit, Tap
<1>2. NoBanner \in BannerRow
  BY <1>t DEF NoBanner, BannerRow
<1>3. banner \in [BannerIds -> BannerRow] /\ listedPlan \in BOOLEAN
  BY <1>2, Zenon DEF BannersInit
<1>4. Unseen \in Counts /\ Unseen.uniqueClicks <= Unseen.clicks
  BY <1>t DEF Unseen, Counts
<1>5. daily = [b \in BannerIds |-> [d \in 1..Days |-> Unseen]]
  BY DEF BannersInit
<1>6. daily \in [BannerIds -> [1..Days -> Counts]] /\ UniqueIsClick
  BY <1>4, <1>5 DEF UniqueIsClick
<1>7. BannersTypeOK
  BY <1>1, <1>3, <1>6, Zenon DEF BannersTypeOK, BannerRow, Counts, Tap
<1> QED
  BY <1>6, <1>7 DEF BannersInv

(* The expert uploads and deletes, and moderators decide and delete. *)
LEMMA UploadSteps ==
    ASSUME BannersInv,
           \/ \E u \in Uploads :
                 \/ createBanner(u)
                 \/ \E w \in BOOLEAN :
                       countBanners(u, w) \/ \E b \in BannerIds : insertBanner(u, b, w)
           \/ \E b \in BannerIds :
                 \/ deleteBanner(b) \/ approveBanner(b) \/ rejectBanner(b)
                 \/ \E i \in BOOLEAN : toggleBannerActive(b, i)
    PROVE  BannersInv'
<1>t. /\ banner \in [BannerIds -> BannerRow] /\ viewedBy \in [BannerIds -> SUBSET Viewers]
      /\ daily \in [BannerIds -> [1..Days -> Counts]]
      /\ listedPlan \in BOOLEAN /\ today \in 1..Days
      /\ upload \in [Uploads -> {"idle", "count", "create"}]
      /\ tap \in [Taps -> Tap] /\ shownNow \subseteq BannerIds
      /\ uncounted \in [BannerIds -> Nat]
      /\ MaxCount \in Nat /\ Days \in Nat \ {0}
  BY BannersTyped DEF BannersInv
<1>u. UniqueIsClick
  BY DEF BannersInv
<1>k. ASSUME UNCHANGED daily PROVE UniqueIsClick'
  BY <1>k, <1>u DEF UniqueIsClick
<1>1. CASE \E u \in Uploads : createBanner(u) \/ \E w \in BOOLEAN : countBanners(u, w)
  <2>1. PICK u \in Uploads : createBanner(u) \/ \E w \in BOOLEAN : countBanners(u, w)
    BY <1>1
  <2>2. \E s \in {"idle", "count", "create"} : upload' = [upload EXCEPT ![u] = s]
    BY <2>1 DEF createBanner, countBanners
  <2>3. upload' \in [Uploads -> {"idle", "count", "create"}]
    BY <1>t, <2>2
  <2>4. UNCHANGED <<banner, viewedBy, daily, listedPlan, tap, shownNow, uncounted, today>>
    BY <2>1, Zenon DEF createBanner, countBanners
  <2> QED
    BY <1>t, <1>k, <2>3, <2>4, BannersMoves
<1>2. CASE \E u \in Uploads, b \in BannerIds, w \in BOOLEAN : insertBanner(u, b, w)
  <2>1. PICK u \in Uploads, b \in BannerIds, w \in BOOLEAN : insertBanner(u, b, w)
    BY <1>2
  <2>2. PICK r : r = [status |-> "pending", isActive |-> w, created |-> today]
    OBVIOUS
  <2>3. r \in BannerRow
    BY <1>t, <2>2 DEF BannerRow
  <2>4. banner' = [banner EXCEPT ![b] = r] /\ upload' = [upload EXCEPT ![u] = "idle"]
    BY <2>1, <2>2 DEF insertBanner
  <2>5. UNCHANGED <<viewedBy, daily, listedPlan, tap, shownNow, uncounted, today>>
    BY <2>1 DEF insertBanner
  <2>6. banner' \in [BannerIds -> BannerRow]
        /\ upload' \in [Uploads -> {"idle", "count", "create"}]
    BY <1>t, <2>3, <2>4
  <2> QED
    BY <1>t, <1>k, <2>5, <2>6, BannersMoves
<1>3. CASE \E b \in BannerIds : deleteBanner(b)
  <2>1. PICK b \in BannerIds : deleteBanner(b)
    BY <1>3
  <2>2. PICK r : r = [NoBanner EXCEPT !.status = "deleted"]
    OBVIOUS
  <2>3. r \in BannerRow
    <3>1. r = [status |-> "deleted", isActive |-> FALSE, created |-> 0]
      BY <2>2 DEF NoBanner
    <3> QED
      BY <1>t, <3>1 DEF BannerRow
  <2>4. PICK days : days = [d \in 1..Days |-> Unseen]
    OBVIOUS
  <2>5. days \in [1..Days -> Counts] /\ \A d \in 1..Days : days[d].uniqueClicks <= days[d].clicks
    BY <1>t, <2>4 DEF Unseen, Counts
  <2>6. /\ banner' = [banner EXCEPT ![b] = r] /\ viewedBy' = [viewedBy EXCEPT ![b] = {}]
        /\ daily' = [daily EXCEPT ![b] = days] /\ uncounted' = [uncounted EXCEPT ![b] = 0]
        /\ UNCHANGED <<listedPlan, upload, tap, shownNow, today>>
    BY <2>1, <2>2, <2>4 DEF deleteBanner
  <2>7. /\ banner' \in [BannerIds -> BannerRow] /\ viewedBy' \in [BannerIds -> SUBSET Viewers]
        /\ daily' \in [BannerIds -> [1..Days -> Counts]] /\ uncounted' \in [BannerIds -> Nat]
    BY <1>t, <2>3, <2>5, <2>6
  <2>8. UniqueIsClick'
    BY <1>t, <1>u, <2>5, <2>6 DEF UniqueIsClick
  <2> QED
    BY <1>t, <2>6, <2>7, <2>8, BannersMoves
<1>4. CASE \E b \in BannerIds : \/ approveBanner(b) \/ rejectBanner(b)
                                \/ \E i \in BOOLEAN : toggleBannerActive(b, i)
  <2>1. PICK b \in BannerIds : \/ approveBanner(b) \/ rejectBanner(b)
                               \/ \E i \in BOOLEAN : toggleBannerActive(b, i)
    BY <1>4
  <2>2. banner[b] \in BannerRow
    BY <1>t
  <2>3. PICK s \in {"none", "deleted", "pending", "approved", "rejected"}, i \in BOOLEAN :
           Moderate(b, s, i)
    <3>1. banner[b].status \in {"none", "deleted", "pending", "approved", "rejected"}
      BY <2>2 DEF BannerRow
    <3> QED
      BY <2>1, <3>1, Zenon DEF approveBanner, rejectBanner, toggleBannerActive
  <2>4. PICK r : r = [banner[b] EXCEPT !.status = s, !.isActive = i]
    OBVIOUS
  <2>5. r \in BannerRow
    BY <2>2, <2>4 DEF BannerRow
  <2>6. banner' = [banner EXCEPT ![b] = r]
    BY <1>t, <2>3, <2>4 DEF Moderate
  <2>7. banner' \in [BannerIds -> BannerRow]
    BY <1>t, <2>5, <2>6
  <2>8. UNCHANGED <<viewedBy, daily, listedPlan, upload, tap, shownNow, uncounted, today>>
    BY <2>3, Zenon DEF Moderate
  <2> QED
    BY <1>t, <1>k, <2>7, <2>8, BannersMoves
<1> QED
  BY <1>1, <1>2, <1>3, <1>4, Zenon

(* Banners are served and tapped on, and days pass. *)
LEMMA ClickSteps ==
    ASSUME BannersInv,
           \/ \E b \in BannerIds :
                 countImpression(b) \/ \E t \in Taps, v \in Viewers : recordBannerClick(t, b, v)
           \/ getPublicBanners
           \/ \E t \in Taps : createClick(t) \/ countClick(t)
           \/ expertServiceRestarts \/ ChangeListing \/ NextDay
    PROVE  BannersInv'
<1>t. /\ banner \in [BannerIds -> BannerRow] /\ viewedBy \in [BannerIds -> SUBSET Viewers]
      /\ daily \in [BannerIds -> [1..Days -> Counts]]
      /\ listedPlan \in BOOLEAN /\ today \in 1..Days
      /\ upload \in [Uploads -> {"idle", "count", "create"}]
      /\ tap \in [Taps -> Tap] /\ shownNow \subseteq BannerIds
      /\ uncounted \in [BannerIds -> Nat]
      /\ MaxCount \in Nat /\ Days \in Nat \ {0} /\ IsFiniteSet(Taps)
  BY BannersTyped DEF BannersInv
<1>u. UniqueIsClick
  BY DEF BannersInv
<1>k. ASSUME UNCHANGED daily PROVE UniqueIsClick'
  BY <1>k, <1>u DEF UniqueIsClick
<1>n. NotNow \in Tap
  BY DEF Tap
<1>1. CASE \E b \in BannerIds : countImpression(b)
  <2>1. PICK b \in BannerIds : countImpression(b)
    BY <1>1
  <2>2. bumpBannerStats(b, 1, 0, 0)
    BY <2>1 DEF countImpression
  <2>3. daily' \in [BannerIds -> [1..Days -> Counts]] /\ UniqueIsClick'
    BY <2>2, CountsMove
  <2>4. /\ shownNow' = shownNow \ {b}
        /\ UNCHANGED <<banner, viewedBy, listedPlan, upload, tap, uncounted, today>>
    BY <2>1 DEF countImpression
  <2> QED
    BY <1>t, <2>3, <2>4, BannersMoves
<1>2. CASE \E b \in BannerIds, t \in Taps, v \in Viewers : recordBannerClick(t, b, v)
  <2>1. PICK b \in BannerIds, t \in Taps, v \in Viewers : recordBannerClick(t, b, v)
    BY <1>2
  <2>2. PICK w \in Tap : w = [op |-> "insert", on |-> b, by |-> v]
    BY DEF Tap
  <2>3. tap' = [tap EXCEPT ![t] = w]
    BY <2>1, <2>2 DEF recordBannerClick
  <2>4. UNCHANGED <<banner, viewedBy, daily, listedPlan, upload, shownNow, uncounted, today>>
    BY <2>1 DEF recordBannerClick
  <2> QED
    BY <1>t, <1>k, <2>2, <2>3, <2>4, BannersMoves
<1>3. CASE getPublicBanners
  <2>1. /\ shownNow' = {b \in BannerIds : banner[b].status = "approved" /\ banner[b].isActive}
        /\ UNCHANGED <<banner, viewedBy, daily, listedPlan, upload, tap, uncounted, today>>
    BY <1>3, Zenon DEF getPublicBanners
  <2>2. shownNow' \subseteq BannerIds
    BY <2>1, Zenon
  <2> QED
    BY <1>t, <1>k, <2>1, <2>2, BannersMoves
<1>4. CASE \E t \in Taps : createClick(t)
  <2>1. PICK t \in Taps : createClick(t)
    BY <1>4
  <2>2. PICK b \in BannerIds, v \in Viewers : b = tap[t].on /\ v = tap[t].by
    BY <1>t, <2>1 DEF createClick, Tap, NotNow
  <2>3. PICK n \in 0..1 : n = IF v \in viewedBy[b] THEN 0 ELSE 1
    OBVIOUS
  <2>4. PICK w \in Tap : w = [op |-> "bump", on |-> b, unique |-> n]
    BY DEF Tap
  <2>5. \/ /\ viewedBy' = [viewedBy EXCEPT ![b] = viewedBy[b] \cup {v}]
           /\ tap' = [tap EXCEPT ![t] = w]
        \/ tap' = [tap EXCEPT ![t] = NotNow] /\ UNCHANGED viewedBy
    BY <1>t, <2>1, <2>2, <2>3, <2>4 DEF createClick
  <2>6. UNCHANGED <<banner, daily, listedPlan, upload, shownNow, uncounted, today>>
    BY <2>1 DEF createClick
  <2>7. tap' \in [Taps -> Tap] /\ viewedBy' \in [BannerIds -> SUBSET Viewers]
    <3>1. tap' \in [Taps -> Tap]
      BY <1>n, <1>t, <2>4, <2>5
    <3>2. viewedBy[b] \cup {v} \in SUBSET Viewers
      BY <1>t, <2>2
    <3>3. viewedBy' = viewedBy \/ viewedBy' = [viewedBy EXCEPT ![b] = viewedBy[b] \cup {v}]
      BY <2>5
    <3>4. viewedBy' \in [BannerIds -> SUBSET Viewers]
      BY <1>t, <3>2, <3>3
    <3> QED
      BY <3>1, <3>4
  <2> QED
    BY <1>t, <1>k, <2>6, <2>7, BannersMoves
<1>5. CASE \E t \in Taps : countClick(t)
  <2>1. PICK t \in Taps : countClick(t)
    BY <1>5
  <2>2. PICK b \in BannerIds, n \in 0..1 : b = tap[t].on /\ n = tap[t].unique
    <3>1. tap[t] \in Tap /\ tap[t].op = "bump"
      BY <1>t, <2>1 DEF countClick
    <3>2. tap[t] \in [op : {"bump"}, on : BannerIds, unique : 0..1]
      BY <3>1 DEF Tap, NotNow
    <3> QED
      BY <3>2
  <2>3. bumpBannerStats(b, 0, 1, n)
    BY <2>1, <2>2 DEF countClick
  <2>4. daily' \in [BannerIds -> [1..Days -> Counts]] /\ UniqueIsClick'
    BY <2>3, CountsMove
  <2>5. /\ tap' = [tap EXCEPT ![t] = NotNow]
        /\ UNCHANGED <<banner, viewedBy, listedPlan, upload, shownNow, uncounted, today>>
    BY <2>1 DEF countClick
  <2> QED
    BY <1>n, <1>t, <2>4, <2>5, BannersMoves
<1>6. CASE expertServiceRestarts
  <2>1. \A b \in BannerIds : Unwritten(b) \in Nat
    <3> TAKE b \in BannerIds
    <3>1. {t \in Taps : tap[t].op = "bump" /\ tap[t].on = b /\ tap[t].unique = 1} \subseteq Taps
      OBVIOUS
    <3>2. IsFiniteSet({t \in Taps : tap[t].op = "bump" /\ tap[t].on = b /\ tap[t].unique = 1})
      BY <1>t, <3>1, FS_Subset
    <3> QED
      BY <3>2, FS_CardinalityType DEF Unwritten
  <2>2. PICK lost \in [BannerIds -> Nat] :
           lost = [b \in BannerIds |-> IF There(b) THEN uncounted[b] + Unwritten(b) ELSE 0]
    <3>1. PICK lost : lost = [b \in BannerIds |-> IF There(b) THEN uncounted[b] + Unwritten(b)
                                                 ELSE 0]
      OBVIOUS
    <3>2. \A b \in BannerIds : (IF There(b) THEN uncounted[b] + Unwritten(b) ELSE 0) \in Nat
      <4> TAKE b \in BannerIds
      <4>1. PICK n \in Nat, m \in Nat : n = Unwritten(b) /\ m = uncounted[b]
        BY <1>t, <2>1
      <4>2. m + n \in Nat
        OBVIOUS
      <4> QED
        BY <4>1, <4>2
    <3>3. lost \in [BannerIds -> Nat]
      BY <3>1, <3>2, Zenon
    <3> QED
      BY <3>1, <3>3
  <2>3. uncounted' = lost
    BY <1>6, <2>2, Zenon DEF expertServiceRestarts
  <2>4. /\ upload' = [u \in Uploads |-> "idle"] /\ tap' = [t \in Taps |-> NotNow]
        /\ shownNow' = {} /\ UNCHANGED <<banner, viewedBy, daily, listedPlan, today>>
    BY <1>6, Zenon DEF expertServiceRestarts
  <2> QED
    BY <1>k, <1>n, <1>t, <2>2, <2>3, <2>4, BannersMoves
<1>7. CASE ChangeListing
  <2>1. listedPlan' \in BOOLEAN
    BY <1>7, Zenon DEF ChangeListing
  <2>2. UNCHANGED <<banner, viewedBy, daily, upload, tap, shownNow, uncounted, today>>
    BY <1>7, Zenon DEF ChangeListing
  <2> QED
    BY <1>t, <1>k, <2>1, <2>2, BannersMoves
<1>8. CASE NextDay
  <2>1. today' \in 1..Days
        /\ UNCHANGED <<banner, viewedBy, daily, listedPlan, upload, tap, shownNow, uncounted>>
    BY <1>t, <1>8 DEF NextDay
  <2> QED
    BY <1>t, <1>k, <2>1, BannersMoves
<1> QED
  BY <1>1, <1>2, <1>3, <1>4, <1>5, <1>6, <1>7, <1>8, Zenon

(* Every step on the banners keeps the invariant. *)
LEMMA BannersStep == BannersInv /\ BannersNext => BannersInv'
<1> SUFFICES ASSUME BannersInv, BannersNext PROVE BannersInv'
  OBVIOUS
<1>1. \/ \/ \E u \in Uploads :
               \/ createBanner(u)
               \/ \E w \in BOOLEAN :
                     countBanners(u, w) \/ \E b \in BannerIds : insertBanner(u, b, w)
         \/ \E b \in BannerIds :
               \/ deleteBanner(b) \/ approveBanner(b) \/ rejectBanner(b)
               \/ \E i \in BOOLEAN : toggleBannerActive(b, i)
      \/ \/ \E b \in BannerIds :
               countImpression(b) \/ \E t \in Taps, v \in Viewers : recordBannerClick(t, b, v)
         \/ getPublicBanners
         \/ \E t \in Taps : createClick(t) \/ countClick(t)
         \/ expertServiceRestarts \/ ChangeListing \/ NextDay
  BY Zenon DEF BannersNext
<1> QED
  BY <1>1, UploadSteps, ClickSteps

(* A step of another part keeps it. *)
LEMMA BannersRest == BannersInv /\ UNCHANGED bannerVars => BannersInv'
<1> SUFFICES ASSUME BannersInv, UNCHANGED bannerVars PROVE BannersInv'
  OBVIOUS
<1>1. UNCHANGED <<banner, viewedBy, daily, listedPlan, upload, tap, shownNow, uncounted, today>>
  BY DEF bannerVars
<1>2. UniqueIsClick'
  BY <1>1 DEF BannersInv, UniqueIsClick
<1> QED
  BY <1>1, <1>2, BannersTyped, BannersMoves DEF BannersInv

-----------------------------------------------------------------------------
(* Notifications.  A registration that met no other of its phone is the     *)
(* only one of it, and no other user has a row of the phone.  Who reads or  *)
(* clears a notification has found its row, which stays.                    *)

Upserting(q, p) == notifying[q].op = "upsert" /\ notifying[q].phone = p

UnmetIsAlone ==
    \A q \in Requests, p \in Phones : Upserting(q, p) /\ ~notifying[q].met =>
       /\ \A d \in deviceToken : d.phone = p => d.user = notifying[q].user
       /\ \A w \in Requests : Upserting(w, p) => w = q

StampsARow ==
    \A q \in Requests : notifying[q].op \in {"read", "clear"} => note[notifying[q].id] # NoNote

NoticesInv == NoticesTypeOK /\ UnmetIsAlone /\ StampsARow /\ DeviceHasOneOwner

Token     == [user : Users, role : Roles, phone : Phones]
NoteRow   == [user : Users, audience : Audiences, unread : BOOLEAN, cleared : BOOLEAN]
Upsert    == [op : {"upsert"}, user : Users, role : Roles, phone : Phones, met : BOOLEAN]
Delivery  == [op : {"insert", "devices"}, user : Users, audience : Audiences]
Push      == [op : {"push"}, user : Users, phones : SUBSET Phones]
Stamping  == [op : {"read", "clear"}, id : Notes]
Preferring == [op : {"prefer"}, user : Users, kinds : SUBSET NoteKinds]
Notifying == {Served} \cup Upsert \cup Delivery \cup Push \cup Stamping \cup Preferring

(* The types, with names for the rows. *)
LEMMA NoticesTyped ==
    ASSUME NoticesTypeOK
    PROVE  /\ deviceToken \subseteq Token /\ uninstalled \subseteq Phones /\ tangled \subseteq Phones
           /\ note \in [Notes -> {NoNote} \cup NoteRow]
           /\ muted \in [Users -> SUBSET NoteKinds] /\ folds \in 0..MaxFolds
           /\ signedInOn \in [Phones -> [user : Users, role : Roles] \cup {Unowned}]
           /\ notifying \in [Requests -> Notifying]
BY Zenon DEF NoticesTypeOK, Token, NoteRow, Upsert, Delivery, Push, Stamping, Preferring, Notifying

(* What a request is, by the step it is at. *)
LEMMA RequestsTyped ==
    ASSUME NEW c \in Notifying
    PROVE  /\ c.op = "upsert" => c \in Upsert
           /\ c.op \in {"insert", "devices"} => c \in Delivery
           /\ c.op = "push" => c \in Push
           /\ c.op \in {"read", "clear"} => c \in Stamping
           /\ c.op = "prefer" => c \in Preferring
<1>1. c = Served => c.op = "idle"
  BY DEF Served
<1>2. /\ c \in Upsert => c.op = "upsert"
      /\ c \in Delivery => c.op \in {"insert", "devices"}
      /\ c \in Push => c.op = "push"
      /\ c \in Preferring => c.op = "prefer"
  BY DEF Upsert, Delivery, Push, Stamping, Preferring
<1>3. c \in Stamping => c.op \in {"read", "clear"}
  BY DEF Stamping
<1> QED
  BY <1>1, <1>2, <1>3 DEF Notifying

(* No request is served and no phone registered. *)
LEMMA NoticesStart == NoticesInit => NoticesInv
<1> SUFFICES ASSUME NoticesInit PROVE NoticesInv
  OBVIOUS
<1>1. /\ deviceToken \subseteq Token /\ uninstalled \subseteq Phones /\ tangled \subseteq Phones
      /\ note \in [Notes -> {NoNote} \cup NoteRow]
      /\ muted \in [Users -> SUBSET NoteKinds] /\ folds \in 0..MaxFolds
      /\ signedInOn \in [Phones -> [user : Users, role : Roles] \cup {Unowned}]
      /\ notifying \in [Requests -> Notifying]
  BY NoticesAssumption DEF NoticesInit, Notifying
<1>2. NoticesTypeOK
  BY <1>1, Zenon DEF NoticesTypeOK, Token, NoteRow, Upsert, Delivery, Push, Stamping, Preferring,
     Notifying
<1>3. UnmetIsAlone
  BY DEF NoticesInit, UnmetIsAlone, Upserting, Served
<1>4. DeviceHasOneOwner
  BY DEF NoticesInit, DeviceHasOneOwner
<1>5. StampsARow
  BY DEF NoticesInit, StampsARow, Served
<1> QED
  BY <1>2, <1>3, <1>4, <1>5 DEF NoticesInv

(* A step keeps the invariant that registers nothing and gives no phone a   *)
(* row.                                                                     *)
LEMMA NoticesMoves ==
    ASSUME NoticesInv,
           deviceToken' \subseteq deviceToken, uninstalled' \subseteq Phones,
           note' \in [Notes -> {NoNote} \cup NoteRow],
           muted' \in [Users -> SUBSET NoteKinds], folds' \in 0..MaxFolds,
           notifying' \in [Requests -> Notifying],
           UNCHANGED <<signedInOn, tangled>>,
           \A q \in Requests : notifying'[q].op = "upsert" => notifying'[q] = notifying[q],
           StampsARow'
    PROVE  NoticesInv'
<1>t. /\ deviceToken \subseteq Token /\ tangled \subseteq Phones
      /\ signedInOn \in [Phones -> [user : Users, role : Roles] \cup {Unowned}]
  BY NoticesTyped DEF NoticesInv
<1>1. deviceToken' \subseteq Token /\ tangled' \subseteq Phones
      /\ signedInOn' \in [Phones -> [user : Users, role : Roles] \cup {Unowned}]
  BY <1>t
<1>2. NoticesTypeOK'
  BY <1>1, Zenon DEF NoticesTypeOK, Token, NoteRow, Upsert, Delivery, Push, Stamping, Preferring,
     Notifying
<1>3. UnmetIsAlone'
  <2> SUFFICES ASSUME NEW q \in Requests, NEW p \in Phones, Upserting(q, p)', ~notifying'[q].met
               PROVE  /\ \A d \in deviceToken' : d.phone = p => d.user = notifying'[q].user
                      /\ \A w \in Requests : Upserting(w, p)' => w = q
    BY Zenon DEF UnmetIsAlone
  <2>1. notifying'[q] = notifying[q] /\ \A w \in Requests : Upserting(w, p)' => Upserting(w, p)
    BY DEF Upserting
  <2>2. Upserting(q, p) /\ ~notifying[q].met
    BY <2>1, Zenon
  <2>3. /\ \A d \in deviceToken : d.phone = p => d.user = notifying[q].user
        /\ \A w \in Requests : Upserting(w, p) => w = q
    BY <2>2, Zenon DEF NoticesInv, UnmetIsAlone
  <2> QED
    BY <2>1, <2>3
<1>4. DeviceHasOneOwner'
  BY DEF NoticesInv, DeviceHasOneOwner
<1> QED
  BY <1>2, <1>3, <1>4 DEF NoticesInv

(* A phone is registered: the rows of the other users go first. *)
LEMMA RegisteringMoves ==
    ASSUME NoticesInv, NEW q \in Requests, NEW u \in Users, NEW r \in Roles, NEW p \in Phones,
           registerDeviceToken(q, u, r, p)
    PROVE  NoticesInv'
<1>t. /\ deviceToken \subseteq Token /\ uninstalled \subseteq Phones /\ tangled \subseteq Phones
      /\ note \in [Notes -> {NoNote} \cup NoteRow]
      /\ muted \in [Users -> SUBSET NoteKinds] /\ folds \in 0..MaxFolds
      /\ signedInOn \in [Phones -> [user : Users, role : Roles] \cup {Unowned}]
      /\ notifying \in [Requests -> Notifying]
  BY NoticesTyped DEF NoticesInv
<1>1. PICK c : c = [op |-> "upsert", user |-> u, role |-> r, phone |-> p,
                    met |-> Registering(p) # {}]
  OBVIOUS
<1>2. c \in Upsert /\ c.op = "upsert" /\ c.phone = p /\ c.user = u
  <2>1. PICK b \in BOOLEAN : b = (Registering(p) # {})
    OBVIOUS
  <2>2. c = [op |-> "upsert", user |-> u, role |-> r, phone |-> p, met |-> b]
    BY <1>1, <2>1, Zenon
  <2> QED
    BY <2>2 DEF Upsert
<1>3. ~c.met => Registering(p) = {}
  BY <1>1
<1>4. \A w \in Registering(p) :
         /\ [notifying[w] EXCEPT !.met = TRUE] \in Upsert
         /\ [notifying[w] EXCEPT !.met = TRUE].met
         /\ [notifying[w] EXCEPT !.met = TRUE].op = "upsert"
         /\ [notifying[w] EXCEPT !.met = TRUE].phone = p
  <2> TAKE w \in Registering(p)
  <2>1. PICK x \in Upsert : x = notifying[w] /\ x.phone = p
    BY <1>t, RequestsTyped DEF Registering
  <2>2. PICK y : y = [x EXCEPT !.met = TRUE]
    OBVIOUS
  <2>3. y \in Upsert /\ y.op = "upsert" /\ y.phone = p
    BY <2>1, <2>2 DEF Upsert
  <2>4. y.met
    BY <2>1, <2>2 DEF Upsert
  <2> QED
    BY <2>1, <2>2, <2>3, <2>4, Zenon
<1>5. /\ notifying[q] = Served
      /\ deviceToken' = {d \in deviceToken : d.phone = p => d.user = u}
      /\ UNCHANGED <<uninstalled, note, muted, folds, signedInOn, tangled>>
  BY Zenon DEF registerDeviceToken
<1>6. notifying' = [w \in Requests |-> IF w = q THEN c
                      ELSE IF w \in Registering(p) THEN [notifying[w] EXCEPT !.met = TRUE]
                           ELSE notifying[w]]
  BY <1>1, Zenon DEF registerDeviceToken
<1>7. \A w \in Requests :
         \/ w = q /\ notifying'[w] = c
         \/ w # q /\ w \in Registering(p) /\ notifying'[w] = [notifying[w] EXCEPT !.met = TRUE]
         \/ w # q /\ w \notin Registering(p) /\ notifying'[w] = notifying[w]
  BY <1>6, Zenon
<1>8. notifying' \in [Requests -> Notifying]
  <2>1. \A w \in Requests : notifying'[w] \in Notifying
    BY <1>2, <1>4, <1>7, <1>t DEF Notifying
  <2> QED
    BY <1>6, <2>1
<1>9. deviceToken' \subseteq Token
  BY <1>5, <1>t
<1>10. NoticesTypeOK'
  <2>1. /\ uninstalled' \subseteq Phones /\ tangled' \subseteq Phones
        /\ note' \in [Notes -> {NoNote} \cup NoteRow]
        /\ muted' \in [Users -> SUBSET NoteKinds] /\ folds' \in 0..MaxFolds
        /\ signedInOn' \in [Phones -> [user : Users, role : Roles] \cup {Unowned}]
    BY <1>t, <1>5
  <2> QED
    BY <1>8, <1>9, <2>1, Zenon DEF NoticesTypeOK, Token, NoteRow, Upsert, Delivery, Push, Stamping,
       Preferring, Notifying
<1>11. UnmetIsAlone'
  <2> SUFFICES ASSUME NEW v \in Requests, NEW x \in Phones, Upserting(v, x)', ~notifying'[v].met
               PROVE  /\ \A d \in deviceToken' : d.phone = x => d.user = notifying'[v].user
                      /\ \A w \in Requests : Upserting(w, x)' => w = v
    BY Zenon DEF UnmetIsAlone
  <2>1. ~(v # q /\ v \in Registering(p))
    BY <1>4, <1>7, Zenon
  <2>2. CASE x = p
    <3>1. v = q
      <4>1. v \in Registering(p) \/ v = q
        BY <1>7, <2>2, Zenon DEF Upserting, Registering
      <4> QED
        BY <2>1, <4>1
    <3>2. Registering(p) = {}
      BY <1>3, <1>7, <3>1, Zenon
    <3>3. \A w \in Requests : Upserting(w, x)' => w = q
      <4> SUFFICES ASSUME NEW w \in Requests, w # q, Upserting(w, x)' PROVE FALSE
        OBVIOUS
      <4>1. notifying'[w] = notifying[w]
        BY <1>7, <3>2
      <4>2. w \in Registering(p)
        BY <2>2, <4>1, Zenon DEF Upserting, Registering
      <4> QED
        BY <3>2, <4>2
    <3> QED
      BY <1>2, <1>5, <1>7, <2>2, <3>1, <3>3
  <2>3. CASE x # p
    <3>1. notifying'[v] = notifying[v] /\ Upserting(v, x) /\ ~notifying[v].met
      <4>1. v # q
        BY <1>2, <1>7, <2>3 DEF Upserting
      <4>2. notifying'[v] = notifying[v]
        BY <1>7, <2>1, <4>1
      <4> QED
        BY <4>2, Zenon DEF Upserting
    <3>2. /\ \A d \in deviceToken : d.phone = x => d.user = notifying[v].user
          /\ \A w \in Requests : Upserting(w, x) => w = v
      BY <3>1, Zenon DEF NoticesInv, UnmetIsAlone
    <3>3. \A w \in Requests : Upserting(w, x)' => Upserting(w, x)
      <4> SUFFICES ASSUME NEW w \in Requests, Upserting(w, x)' PROVE Upserting(w, x)
        OBVIOUS
      <4>1. notifying'[w].phone = x
        BY DEF Upserting
      <4>2. w # q
        BY <1>2, <1>7, <2>3, <4>1
      <4>3. w \notin Registering(p)
        BY <1>4, <1>7, <2>3, <4>1, <4>2
      <4>4. notifying'[w] = notifying[w]
        BY <1>7, <4>2, <4>3
      <4> QED
        BY <4>4, Zenon DEF Upserting
    <3>4. \A d \in deviceToken' : d \in deviceToken
      BY <1>5
    <3> QED
      BY <3>1, <3>2, <3>3, <3>4
  <2> QED
    BY <2>2, <2>3
<1>12. DeviceHasOneOwner'
  BY <1>5 DEF NoticesInv, DeviceHasOneOwner
<1>13. StampsARow'
  <2> SUFFICES ASSUME NEW w \in Requests, notifying'[w].op \in {"read", "clear"}
               PROVE  note'[notifying'[w].id] # NoNote
    BY DEF StampsARow
  <2>1. notifying'[w].op # "upsert"
    OBVIOUS
  <2>2. notifying'[w] = notifying[w]
    BY <1>2, <1>4, <1>7, <2>1, Zenon
  <2> QED
    BY <1>5, <2>2 DEF NoticesInv, StampsARow
<1> QED
  BY <1>10, <1>11, <1>12, <1>13 DEF NoticesInv

(* The row of the registration is written. *)
LEMMA UpsertMoves ==
    ASSUME NoticesInv, NEW q \in Requests, upsertToken(q)
    PROVE  NoticesInv'
<1>t. /\ deviceToken \subseteq Token /\ uninstalled \subseteq Phones /\ tangled \subseteq Phones
      /\ note \in [Notes -> {NoNote} \cup NoteRow]
      /\ muted \in [Users -> SUBSET NoteKinds] /\ folds \in 0..MaxFolds
      /\ signedInOn \in [Phones -> [user : Users, role : Roles] \cup {Unowned}]
      /\ notifying \in [Requests -> Notifying]
  BY NoticesTyped DEF NoticesInv
<1>1. notifying[q].op = "upsert" /\ notifying[q] \in Upsert
  BY <1>t, RequestsTyped DEF upsertToken
<1>2. PICK u \in Users, r \in Roles, p \in Phones :
         u = notifying[q].user /\ r = notifying[q].role /\ p = notifying[q].phone
  BY <1>1 DEF Upsert
<1>3. PICK row \in Token : row = [user |-> u, role |-> r, phone |-> p]
  BY DEF Token
<1>4. PICK owner : owner = [user |-> u, role |-> r]
  OBVIOUS
<1>5. /\ deviceToken' = {d \in deviceToken : ~(d.phone = p /\ d.user = u)} \cup {row}
      /\ signedInOn' = [signedInOn EXCEPT ![p] = owner]
      /\ notifying' = [notifying EXCEPT ![q] = Served]
      /\ UNCHANGED <<uninstalled, note, muted, folds>>
  BY <1>2, <1>3, <1>4 DEF upsertToken
<1>6. \/ notifying[q].met /\ tangled' = tangled \cup {p}
      \/ ~notifying[q].met /\ tangled' = tangled \ {p}
  BY <1>2, Zenon DEF upsertToken
<1>7. \A w \in Requests, x \in Phones : Upserting(w, x)' => w # q /\ Upserting(w, x)
  BY <1>5, <1>t DEF Upserting, Served
<1>8. NoticesTypeOK'
  <2>1. deviceToken' \subseteq Token
    BY <1>5, <1>t
  <2>2. signedInOn' \in [Phones -> [user : Users, role : Roles] \cup {Unowned}]
    BY <1>4, <1>5, <1>t
  <2>3. notifying' \in [Requests -> Notifying]
    BY <1>5, <1>t DEF Notifying
  <2>4. tangled' \subseteq Phones
    BY <1>6, <1>t
  <2>5. /\ uninstalled' \subseteq Phones /\ note' \in [Notes -> {NoNote} \cup NoteRow]
        /\ muted' \in [Users -> SUBSET NoteKinds] /\ folds' \in 0..MaxFolds
    BY <1>5, <1>t
  <2> QED
    BY <2>1, <2>2, <2>3, <2>4, <2>5, Zenon DEF NoticesTypeOK, Token, NoteRow, Upsert, Delivery, Push,
       Stamping, Preferring, Notifying
<1>9. UnmetIsAlone'
  <2> SUFFICES ASSUME NEW v \in Requests, NEW x \in Phones, Upserting(v, x)', ~notifying'[v].met
               PROVE  /\ \A d \in deviceToken' : d.phone = x => d.user = notifying'[v].user
                      /\ \A w \in Requests : Upserting(w, x)' => w = v
    BY Zenon DEF UnmetIsAlone
  <2>1. v # q /\ Upserting(v, x) /\ notifying'[v] = notifying[v]
    BY <1>5, <1>7, <1>t
  <2>2. ~notifying[v].met
    BY <2>1, Zenon
  <2>3. /\ \A d \in deviceToken : d.phone = x => d.user = notifying[v].user
        /\ \A w \in Requests : Upserting(w, x) => w = v
    BY <2>1, <2>2, Zenon DEF NoticesInv, UnmetIsAlone
  <2>4. x # p
    BY <1>1, <1>2, <2>1, <2>3 DEF Upserting
  <2> QED
    BY <1>3, <1>5, <1>7, <2>1, <2>3, <2>4
<1>10. DeviceHasOneOwner'
  <2> SUFFICES ASSUME NEW d \in deviceToken', d.phone \notin tangled'
               PROVE  signedInOn'[d.phone] = [user |-> d.user, role |-> d.role]
    BY DEF DeviceHasOneOwner
  <2>1. CASE d = row
    BY <1>3, <1>4, <1>5, <1>t, <2>1
  <2>2. CASE d # row
    <3>1. d \in deviceToken /\ ~(d.phone = p /\ d.user = u) /\ d.phone \in Phones
      BY <1>5, <1>t, <2>2 DEF Token
    <3>2. CASE d.phone = p
      <4>1. ~notifying[q].met
        BY <1>6, <3>2
      <4>2. d.user = u
        BY <1>1, <1>2, <3>1, <3>2, <4>1, Zenon DEF NoticesInv, UnmetIsAlone, Upserting
      <4> QED
        BY <3>1, <3>2, <4>2
    <3>3. CASE d.phone # p
      <4>1. d.phone \notin tangled
        BY <1>6, <3>3
      <4>2. signedInOn'[d.phone] = signedInOn[d.phone]
        BY <1>5, <1>t, <3>1, <3>3
      <4> QED
        BY <3>1, <4>1, <4>2 DEF NoticesInv, DeviceHasOneOwner
    <3> QED
      BY <3>2, <3>3
  <2> QED
    BY <2>1, <2>2
<1>11. StampsARow'
  BY <1>5, <1>t DEF NoticesInv, StampsARow, Served
<1> QED
  BY <1>8, <1>9, <1>10, <1>11 DEF NoticesInv

(* Rows of devices go with the sign-in they were for. *)
LEMMA SignOutMoves ==
    ASSUME NoticesInv,
           \/ \E p \in Phones : removeDeviceToken(p)
           \/ \E u \in Users : removeAllOf(u)
    PROVE  NoticesInv'
<1>t. /\ deviceToken \subseteq Token /\ uninstalled \subseteq Phones /\ tangled \subseteq Phones
      /\ note \in [Notes -> {NoNote} \cup NoteRow]
      /\ muted \in [Users -> SUBSET NoteKinds] /\ folds \in 0..MaxFolds
      /\ signedInOn \in [Phones -> [user : Users, role : Roles] \cup {Unowned}]
      /\ notifying \in [Requests -> Notifying]
  BY NoticesTyped DEF NoticesInv
<1>1. /\ deviceToken' \subseteq deviceToken
      /\ UNCHANGED <<uninstalled, note, muted, folds, notifying, tangled>>
  BY DEF removeDeviceToken, removeAllOf
<1>2. signedInOn' \in [Phones -> [user : Users, role : Roles] \cup {Unowned}]
  BY <1>t DEF removeDeviceToken, removeAllOf
<1>3. NoticesTypeOK'
  <2>1. /\ deviceToken' \subseteq Token /\ uninstalled' \subseteq Phones /\ tangled' \subseteq Phones
        /\ note' \in [Notes -> {NoNote} \cup NoteRow]
        /\ muted' \in [Users -> SUBSET NoteKinds] /\ folds' \in 0..MaxFolds
        /\ notifying' \in [Requests -> Notifying]
    BY <1>1, <1>t
  <2> QED
    BY <1>2, <2>1, Zenon DEF NoticesTypeOK, Token, NoteRow, Upsert, Delivery, Push, Stamping,
       Preferring, Notifying
<1>4. UnmetIsAlone'
  <2> SUFFICES ASSUME NEW q \in Requests, NEW x \in Phones, Upserting(q, x)', ~notifying'[q].met
               PROVE  /\ \A d \in deviceToken' : d.phone = x => d.user = notifying'[q].user
                      /\ \A w \in Requests : Upserting(w, x)' => w = q
    BY Zenon DEF UnmetIsAlone
  <2>1. Upserting(q, x) /\ ~notifying[q].met
    BY <1>1, Zenon DEF Upserting
  <2>2. /\ \A d \in deviceToken : d.phone = x => d.user = notifying[q].user
        /\ \A w \in Requests : Upserting(w, x) => w = q
    BY <2>1, Zenon DEF NoticesInv, UnmetIsAlone
  <2> QED
    BY <1>1, <2>2 DEF Upserting
<1>5. DeviceHasOneOwner'
  <2> SUFFICES ASSUME NEW d \in deviceToken', d.phone \notin tangled'
               PROVE  signedInOn'[d.phone] = [user |-> d.user, role |-> d.role]
    BY DEF DeviceHasOneOwner
  <2>1. d \in deviceToken /\ signedInOn[d.phone] = [user |-> d.user, role |-> d.role]
    BY <1>1 DEF NoticesInv, DeviceHasOneOwner
  <2>2. d.phone \in Phones
    BY <1>t, <2>1 DEF Token
  <2>3. signedInOn'[d.phone] = signedInOn[d.phone]
    BY <1>t, <2>1, <2>2 DEF removeDeviceToken, removeAllOf
  <2> QED
    BY <2>1, <2>3
<1>6. StampsARow'
  BY <1>1 DEF NoticesInv, StampsARow
<1> QED
  BY <1>3, <1>4, <1>5, <1>6 DEF NoticesInv

(* A notification becomes a row and a push. *)
LEMMA DeliverySteps ==
    ASSUME NoticesInv, NEW q \in Requests,
           \/ \E u \in Users, k \in NoteKinds, a \in Audiences : dispatchNotification(q, u, k, a)
           \/ \E i \in Notes : insertNote(q, i)
           \/ sendPushToUsers(q) \/ pushEach(q)
    PROVE  NoticesInv'
<1>t. /\ deviceToken \subseteq Token /\ uninstalled \subseteq Phones /\ tangled \subseteq Phones
      /\ note \in [Notes -> {NoNote} \cup NoteRow]
      /\ muted \in [Users -> SUBSET NoteKinds] /\ folds \in 0..MaxFolds
      /\ signedInOn \in [Phones -> [user : Users, role : Roles] \cup {Unowned}]
      /\ notifying \in [Requests -> Notifying]
  BY NoticesTyped DEF NoticesInv
<1>s. Served \in Notifying /\ Served.op \notin {"upsert", "read", "clear"}
  BY DEF Notifying, Served
<1>g. ASSUME NEW c \in Notifying, c.op \notin {"upsert", "read", "clear"},
             notifying' = [notifying EXCEPT ![q] = c],
             note' = note \/ \E i \in Notes, n \in NoteRow : note' = [note EXCEPT ![i] = n]
      PROVE  /\ notifying' \in [Requests -> Notifying] /\ StampsARow'
             /\ \A w \in Requests : notifying'[w].op = "upsert" => notifying'[w] = notifying[w]
  <2>1. /\ notifying' \in [Requests -> Notifying]
        /\ \A w \in Requests : notifying'[w].op = "upsert" => notifying'[w] = notifying[w]
        /\ \A w \in Requests :
              notifying'[w].op \in {"read", "clear"} => notifying'[w] = notifying[w]
    BY <1>g, <1>t
  <2>2. \A n \in NoteRow : n # NoNote
    BY NoticesAssumption DEF NoteRow, NoNote
  <2>3. \A i \in Notes : note[i] # NoNote => note'[i] # NoNote
    BY <1>g, <1>t, <2>2
  <2>4. \A w \in Requests : notifying[w].op \in {"read", "clear"} => notifying[w].id \in Notes
    BY <1>t, RequestsTyped DEF Stamping
  <2> QED
    BY <2>1, <2>3, <2>4 DEF NoticesInv, StampsARow
<1>1. CASE \E u \in Users, k \in NoteKinds, a \in Audiences : dispatchNotification(q, u, k, a)
  <2>1. PICK u \in Users, k \in NoteKinds, a \in Audiences : dispatchNotification(q, u, k, a)
    BY <1>1
  <2>2. PICK c \in Delivery : c = [op |-> "insert", user |-> u, audience |-> a]
    BY DEF Delivery
  <2>3. notifying' = [notifying EXCEPT ![q] = c]
    BY <2>1, <2>2 DEF dispatchNotification
  <2>4. UNCHANGED <<deviceToken, uninstalled, note, muted, folds, signedInOn, tangled>>
    BY <2>1 DEF dispatchNotification
  <2>5. c \in Notifying /\ c.op \notin {"upsert", "read", "clear"}
    BY <2>2 DEF Notifying
  <2>6. /\ notifying' \in [Requests -> Notifying] /\ StampsARow'
        /\ \A w \in Requests : notifying'[w].op = "upsert" => notifying'[w] = notifying[w]
    BY <1>g, <2>3, <2>4, <2>5
  <2> QED
    BY <1>t, <2>4, <2>6, NoticesMoves
<1>2. CASE \E i \in Notes : insertNote(q, i)
  <2>1. PICK i \in Notes : insertNote(q, i)
    BY <1>2
  <2>2. notifying[q] \in Delivery
    BY <1>t, <2>1, RequestsTyped DEF insertNote
  <2>3. PICK u \in Users, a \in Audiences : u = notifying[q].user /\ a = notifying[q].audience
    BY <2>2 DEF Delivery
  <2>4. PICK n \in NoteRow : n = [user |-> u, audience |-> a, unread |-> TRUE, cleared |-> FALSE]
    <3>1. TRUE \in BOOLEAN /\ FALSE \in BOOLEAN
      OBVIOUS
    <3> QED
      BY <3>1 DEF NoteRow
  <2>5. PICK c \in Delivery : c = [notifying[q] EXCEPT !.op = "devices"]
    BY <2>2 DEF Delivery
  <2>6. /\ note' = [note EXCEPT ![i] = n]
        /\ UNCHANGED <<deviceToken, uninstalled, muted, folds, signedInOn, tangled>>
        /\ \/ notifying' = [notifying EXCEPT ![q] = Served]
           \/ notifying' = [notifying EXCEPT ![q] = c]
    BY <2>1, <2>3, <2>4, <2>5 DEF insertNote
  <2>7. c \in Notifying /\ c.op \notin {"upsert", "read", "clear"}
    BY <2>5 DEF Notifying, Delivery
  <2>8. /\ notifying' \in [Requests -> Notifying] /\ StampsARow'
        /\ \A w \in Requests : notifying'[w].op = "upsert" => notifying'[w] = notifying[w]
    BY <1>g, <1>s, <2>4, <2>6, <2>7
  <2>9. note' \in [Notes -> {NoNote} \cup NoteRow]
    BY <1>t, <2>4, <2>6
  <2> QED
    BY <1>t, <2>6, <2>8, <2>9, NoticesMoves
<1>3. CASE sendPushToUsers(q)
  <2>1. notifying[q] \in Delivery
    BY <1>3, <1>t, RequestsTyped DEF sendPushToUsers
  <2>2. PICK u \in Users : u = notifying[q].user
    BY <2>1 DEF Delivery
  <2>3. PICK phones : phones = {d.phone : d \in {d \in deviceToken : d.user = notifying[q].user
                                    /\ Reaches(notifying[q].audience, d.role)}}
    OBVIOUS
  <2>4. phones \subseteq Phones
    BY <1>t, <2>3 DEF Token
  <2>5. PICK c \in Push : c = [op |-> "push", user |-> u, phones |-> phones]
    BY <2>4 DEF Push
  <2>6. \/ notifying' = [notifying EXCEPT ![q] = Served]
        \/ notifying' = [notifying EXCEPT ![q] = c]
    BY <1>3, <2>2, <2>3, <2>5, Zenon DEF sendPushToUsers
  <2>7. UNCHANGED <<deviceToken, uninstalled, note, muted, folds, signedInOn, tangled>>
    BY <1>3, Zenon DEF sendPushToUsers
  <2>8. c \in Notifying /\ c.op \notin {"upsert", "read", "clear"}
    BY <2>5 DEF Notifying
  <2>9. /\ notifying' \in [Requests -> Notifying] /\ StampsARow'
        /\ \A w \in Requests : notifying'[w].op = "upsert" => notifying'[w] = notifying[w]
    BY <1>g, <1>s, <2>6, <2>7, <2>8
  <2> QED
    BY <1>t, <2>7, <2>9, NoticesMoves
<1>4. CASE pushEach(q)
  <2>1. /\ notifying' = [notifying EXCEPT ![q] = Served]
        /\ deviceToken' \subseteq deviceToken
        /\ UNCHANGED <<uninstalled, note, muted, folds, signedInOn, tangled>>
    BY <1>4 DEF pushEach
  <2>2. /\ notifying' \in [Requests -> Notifying] /\ StampsARow'
        /\ \A w \in Requests : notifying'[w].op = "upsert" => notifying'[w] = notifying[w]
    BY <1>g, <1>s, <2>1
  <2> QED
    BY <1>t, <2>1, <2>2, NoticesMoves
<1> QED
  BY <1>1, <1>2, <1>3, <1>4

(* Users read, clear and choose, and the service restarts. *)
LEMMA FeedSteps ==
    ASSUME NoticesInv,
           \/ \E q \in Requests :
                 \/ \E u \in Users, r \in Roles, i \in Notes :
                       markNotificationRead(q, u, r, i) \/ clearNotification(q, u, r, i)
                 \/ \E u \in Users, k \in NoteKinds, off \in BOOLEAN : updatePreferences(q, u, k, off)
                 \/ stampNote(q) \/ writePreferences(q)
           \/ \E p \in Phones : Uninstall(p)
           \/ \E u \in Users, r \in Roles : markAllRead(u, r) \/ clearAllNotifications(u, r)
           \/ notificationServiceRestarts
    PROVE  NoticesInv'
<1>t. /\ deviceToken \subseteq Token /\ uninstalled \subseteq Phones /\ tangled \subseteq Phones
      /\ note \in [Notes -> {NoNote} \cup NoteRow]
      /\ muted \in [Users -> SUBSET NoteKinds] /\ folds \in 0..MaxFolds /\ MaxFolds \in Nat
      /\ signedInOn \in [Phones -> [user : Users, role : Roles] \cup {Unowned}]
      /\ notifying \in [Requests -> Notifying]
  BY NoticesTyped, NoticesAssumption DEF NoticesInv
<1>s. Served \in Notifying /\ Served.op \notin {"upsert", "read", "clear"}
  BY DEF Notifying, Served
<1>f. \A w \in Requests : notifying[w].op \in {"read", "clear"} =>
         notifying[w].id \in Notes /\ note[notifying[w].id] \in NoteRow
  <2> SUFFICES ASSUME NEW w \in Requests, notifying[w].op \in {"read", "clear"}
               PROVE  notifying[w].id \in Notes /\ note[notifying[w].id] \in NoteRow
    OBVIOUS
  <2>1. notifying[w].id \in Notes
    BY <1>t, RequestsTyped DEF Stamping
  <2> QED
    BY <1>t, <2>1 DEF NoticesInv, StampsARow
<1>n. \A n \in NoteRow : n # NoNote
  BY NoticesAssumption DEF NoteRow, NoNote
<1>g. ASSUME NEW q \in Requests, NEW c \in Notifying,
             c.op \in {"read", "clear"} => note[c.id] \in NoteRow /\ c.id \in Notes,
             c.op # "upsert", notifying' = [notifying EXCEPT ![q] = c],
             \A i \in Notes : note[i] \in NoteRow => note'[i] \in NoteRow
      PROVE  /\ notifying' \in [Requests -> Notifying] /\ StampsARow'
             /\ \A w \in Requests : notifying'[w].op = "upsert" => notifying'[w] = notifying[w]
  <2>1. notifying' \in [Requests -> Notifying]
    BY <1>g, <1>t
  <2>2. \A w \in Requests : notifying'[w] = IF w = q THEN c ELSE notifying[w]
    BY <1>g, <1>t
  <2>3. \A w \in Requests : notifying'[w].op \in {"read", "clear"} =>
           notifying'[w].id \in Notes /\ note[notifying'[w].id] \in NoteRow
    BY <1>f, <1>g, <2>2
  <2>4. StampsARow'
    BY <1>g, <1>n, <2>3 DEF StampsARow
  <2> QED
    BY <1>g, <2>1, <2>2, <2>4
<1>h. ASSUME NEW r \in NoteRow, NEW n,
             n = [r EXCEPT !.unread = FALSE] \/ n = [r EXCEPT !.cleared = TRUE]
      PROVE  n \in NoteRow
  <2>1. TRUE \in BOOLEAN /\ FALSE \in BOOLEAN
    OBVIOUS
  <2> QED
    BY <1>h, <2>1 DEF NoteRow
<1>1. CASE \E q \in Requests, u \in Users, r \in Roles, i \in Notes :
              markNotificationRead(q, u, r, i) \/ clearNotification(q, u, r, i)
  <2>1. PICK q \in Requests, u \in Users, r \in Roles, i \in Notes :
                markNotificationRead(q, u, r, i) \/ clearNotification(q, u, r, i)
    BY <1>1
  <2>2. note[i].user = u /\ note[i] # NoNote
    <3>1. i \in Feed(u, r)
      BY <2>1 DEF markNotificationRead, clearNotification
    <3> QED
      BY <3>1, NoticesAssumption DEF Feed, NoNote
  <2>3. PICK c \in Stamping : c.id = i /\ notifying' = [notifying EXCEPT ![q] = c]
    BY <2>1 DEF markNotificationRead, clearNotification, Stamping
  <2>4. UNCHANGED <<deviceToken, uninstalled, note, muted, folds, signedInOn, tangled>>
    BY <2>1 DEF markNotificationRead, clearNotification
  <2>5. c \in Notifying /\ c.op # "upsert" /\ note[c.id] \in NoteRow
    BY <1>t, <2>2, <2>3 DEF Notifying, Stamping
  <2>6. /\ notifying' \in [Requests -> Notifying] /\ StampsARow'
        /\ \A w \in Requests : notifying'[w].op = "upsert" => notifying'[w] = notifying[w]
    BY <1>g, <2>3, <2>4, <2>5
  <2> QED
    BY <1>t, <2>4, <2>6, NoticesMoves
<1>2. CASE \E q \in Requests, u \in Users, k \in NoteKinds, off \in BOOLEAN :
              updatePreferences(q, u, k, off)
  <2>1. PICK q \in Requests, u \in Users, k \in NoteKinds, off \in BOOLEAN :
                updatePreferences(q, u, k, off)
    BY <1>2
  <2>2. PICK kinds : kinds = IF off THEN muted[u] \cup {k} ELSE muted[u] \ {k}
    OBVIOUS
  <2>3. kinds \subseteq NoteKinds
    BY <1>t, <2>2
  <2>4. PICK c \in Preferring : c = [op |-> "prefer", user |-> u, kinds |-> kinds]
    BY <2>3 DEF Preferring
  <2>5. notifying' = [notifying EXCEPT ![q] = c]
    BY <2>1, <2>2, <2>4, Zenon DEF updatePreferences
  <2>6. UNCHANGED <<deviceToken, uninstalled, note, muted, signedInOn, tangled>>
    BY <2>1, Zenon DEF updatePreferences
  <2>7. folds' \in 0..MaxFolds
    BY <1>t, <2>1 DEF updatePreferences
  <2>8. c \in Notifying /\ c.op = "prefer"
    BY <2>4 DEF Notifying
  <2>9. /\ notifying' \in [Requests -> Notifying] /\ StampsARow'
        /\ \A w \in Requests : notifying'[w].op = "upsert" => notifying'[w] = notifying[w]
    BY <1>g, <2>5, <2>6, <2>8
  <2> QED
    BY <1>t, <2>6, <2>7, <2>9, NoticesMoves
<1>3. CASE \E q \in Requests : stampNote(q)
  <2>1. PICK q \in Requests : stampNote(q)
    BY <1>3
  <2>2. notifying[q].op \in {"read", "clear"}
    BY <2>1 DEF stampNote
  <2>3. PICK i \in Notes : i = notifying[q].id /\ note[i] \in NoteRow
    BY <1>f, <2>2
  <2>4. PICK n \in NoteRow : note' = [note EXCEPT ![i] = n]
    <3>1. \/ note' = [note EXCEPT ![i] = [note[i] EXCEPT !.unread = FALSE]]
          \/ note' = [note EXCEPT ![i] = [note[i] EXCEPT !.cleared = TRUE]]
      BY <1>t, <2>1, <2>3 DEF stampNote
    <3>2. /\ [note[i] EXCEPT !.unread = FALSE] \in NoteRow
          /\ [note[i] EXCEPT !.cleared = TRUE] \in NoteRow
      BY <1>h, <2>3
    <3> QED
      BY <3>1, <3>2
  <2>5. notifying' = [notifying EXCEPT ![q] = Served]
        /\ UNCHANGED <<deviceToken, uninstalled, muted, folds, signedInOn, tangled>>
    BY <2>1 DEF stampNote
  <2>6. note' \in [Notes -> {NoNote} \cup NoteRow]
        /\ \A j \in Notes : note[j] \in NoteRow => note'[j] \in NoteRow
    BY <1>t, <2>4
  <2>7. /\ notifying' \in [Requests -> Notifying] /\ StampsARow'
        /\ \A w \in Requests : notifying'[w].op = "upsert" => notifying'[w] = notifying[w]
    BY <1>g, <1>s, <2>5, <2>6
  <2> QED
    BY <1>t, <2>5, <2>6, <2>7, NoticesMoves
<1>4. CASE \E q \in Requests : writePreferences(q)
  <2>1. PICK q \in Requests : writePreferences(q)
    BY <1>4
  <2>2. notifying[q] \in Preferring
    BY <1>t, <2>1, RequestsTyped DEF writePreferences
  <2>3. PICK u \in Users, kinds \in SUBSET NoteKinds :
           u = notifying[q].user /\ kinds = notifying[q].kinds
    BY <2>2 DEF Preferring
  <2>4. /\ muted' = [muted EXCEPT ![u] = kinds] /\ notifying' = [notifying EXCEPT ![q] = Served]
        /\ UNCHANGED <<deviceToken, uninstalled, note, folds, signedInOn, tangled>>
    BY <2>1, <2>3 DEF writePreferences
  <2>5. muted' \in [Users -> SUBSET NoteKinds]
    BY <1>t, <2>4
  <2>6. /\ notifying' \in [Requests -> Notifying] /\ StampsARow'
        /\ \A w \in Requests : notifying'[w].op = "upsert" => notifying'[w] = notifying[w]
    BY <1>g, <1>s, <2>4
  <2> QED
    BY <1>t, <2>4, <2>5, <2>6, NoticesMoves
<1>5. CASE \E p \in Phones : Uninstall(p)
  <2>1. /\ uninstalled' \subseteq Phones
        /\ UNCHANGED <<deviceToken, note, muted, folds, notifying, signedInOn, tangled>>
    BY <1>5, <1>t DEF Uninstall
  <2>2. StampsARow'
    BY <2>1 DEF NoticesInv, StampsARow
  <2> QED
    BY <1>t, <2>1, <2>2, NoticesMoves
<1>6. CASE \E u \in Users, r \in Roles : markAllRead(u, r) \/ clearAllNotifications(u, r)
  <2>1. PICK u \in Users, r \in Roles : markAllRead(u, r) \/ clearAllNotifications(u, r)
    BY <1>6
  <2>2. UNCHANGED <<deviceToken, uninstalled, muted, folds, notifying, signedInOn, tangled>>
    BY <2>1 DEF markAllRead, clearAllNotifications
  <2>3. \A i \in Feed(u, r) : note[i] \in NoteRow
    BY <1>t, NoticesAssumption DEF Feed, NoNote
  <2>4. \A i \in Notes : \/ note'[i] = note[i]
                          \/ /\ i \in Feed(u, r)
                             /\ \/ note'[i] = [note[i] EXCEPT !.unread = FALSE]
                                \/ note'[i] = [note[i] EXCEPT !.cleared = TRUE]
    BY <2>1 DEF markAllRead, clearAllNotifications
  <2>5. \A i \in Notes : note'[i] = note[i] \/ note'[i] \in NoteRow
    BY <1>h, <2>3, <2>4
  <2>6. note' \in [Notes -> {NoNote} \cup NoteRow]
    <3>1. \E f : note' = [i \in Notes |-> f[i]]
      <4>1. note' = [i \in Notes |-> note'[i]]
        BY <2>1 DEF markAllRead, clearAllNotifications
      <4> QED
        BY <4>1
    <3> QED
      BY <1>t, <2>5, <3>1
  <2>7. StampsARow'
    <3> SUFFICES ASSUME NEW q \in Requests, notifying[q].op \in {"read", "clear"}
                 PROVE  note'[notifying[q].id] # NoNote
      BY <2>2 DEF StampsARow
    <3>1. PICK i \in Notes : i = notifying[q].id /\ note[i] \in NoteRow
      BY <1>f
    <3> QED
      BY <1>n, <2>5, <3>1
  <2> QED
    BY <1>t, <2>2, <2>6, <2>7, NoticesMoves
<1>7. CASE notificationServiceRestarts
  <2>1. /\ notifying' = [q \in Requests |-> Served]
        /\ UNCHANGED <<deviceToken, uninstalled, note, muted, folds, signedInOn, tangled>>
    BY <1>7 DEF notificationServiceRestarts
  <2>2. /\ notifying' \in [Requests -> Notifying]
        /\ \A q \in Requests : notifying'[q] = Served
    BY <1>s, <2>1
  <2>3. StampsARow'
    BY <1>s, <2>2 DEF StampsARow
  <2> QED
    BY <1>s, <1>t, <2>1, <2>2, <2>3, NoticesMoves
<1> QED
  BY <1>1, <1>2, <1>3, <1>4, <1>5, <1>6, <1>7, Zenon

(* Every step of notification-service keeps the invariant. *)
LEMMA NoticesStep == NoticesInv /\ NoticesNext => NoticesInv'
<1> SUFFICES ASSUME NoticesInv, NoticesNext PROVE NoticesInv'
  OBVIOUS
<1>1. CASE \E q \in Requests, u \in Users, r \in Roles, p \in Phones : registerDeviceToken(q, u, r, p)
  BY <1>1, RegisteringMoves
<1>2. CASE \E q \in Requests : upsertToken(q)
  BY <1>2, UpsertMoves
<1>3. CASE \/ \E p \in Phones : removeDeviceToken(p)
           \/ \E u \in Users : removeAllOf(u)
  BY <1>3, SignOutMoves
<1>4. CASE \E q \in Requests :
              \/ \E u \in Users, k \in NoteKinds, a \in Audiences : dispatchNotification(q, u, k, a)
              \/ \E i \in Notes : insertNote(q, i)
              \/ sendPushToUsers(q) \/ pushEach(q)
  BY <1>4, DeliverySteps
<1>5. CASE \/ \E q \in Requests :
                 \/ \E u \in Users, r \in Roles, i \in Notes :
                       markNotificationRead(q, u, r, i) \/ clearNotification(q, u, r, i)
                 \/ \E u \in Users, k \in NoteKinds, off \in BOOLEAN : updatePreferences(q, u, k, off)
                 \/ stampNote(q) \/ writePreferences(q)
           \/ \E p \in Phones : Uninstall(p)
           \/ \E u \in Users, r \in Roles : markAllRead(u, r) \/ clearAllNotifications(u, r)
           \/ notificationServiceRestarts
  BY <1>5, FeedSteps
<1> QED
  BY <1>1, <1>2, <1>3, <1>4, <1>5, Zenon DEF NoticesNext

(* A step of another part keeps it. *)
LEMMA NoticesRest == NoticesInv /\ UNCHANGED noticeVars => NoticesInv'
<1> SUFFICES ASSUME NoticesInv, UNCHANGED noticeVars PROVE NoticesInv'
  OBVIOUS
<1>1. UNCHANGED <<deviceToken, uninstalled, note, muted, folds, notifying, signedInOn, tangled>>
  BY DEF noticeVars
<1>2. StampsARow'
  BY <1>1 DEF NoticesInv, StampsARow
<1> QED
  BY <1>1, <1>2, NoticesTyped, NoticesMoves DEF NoticesInv

-----------------------------------------------------------------------------
(* All parts together. *)

AccountsInv ==
    /\ AdminsInv /\ AdminSessionsInv /\ AdminFeedInv /\ WalletInv
    /\ PayoutAccountsInv /\ WebPlansInv /\ BannersInv /\ NoticesInv

(* The invariant holds at first. *)
LEMMA AccountsStart == AccountsInit => AccountsInv
BY AdminsStart, AdminSessionsStart, AdminFeedStart, WalletStart, PayoutAccountsStart,
   WebPlansStart, BannersStart, NoticesStart
   DEF AccountsInit, BesidesPlansInit, AccountsInv

(* A step of one part keeps its invariant, and leaves the others theirs. *)
LEMMA AccountsStep == AccountsInv /\ [AccountsNext]_accountVars => AccountsInv'
<1> SUFFICES ASSUME AccountsInv, [AccountsNext]_accountVars PROVE AccountsInv'
  OBVIOUS
<1> USE DEF AccountsInv
<1>1. CASE AdminsMove
  BY <1>1, AdminsStep, AdminSessionsRest, AdminFeedRest, WalletRest, PayoutAccountsRest,
     WebPlansRest, BannersRest, NoticesRest DEF AdminsMove
<1>2. CASE AdminSessionsMove
  BY <1>2, AdminsRest, AdminSessionsStep, AdminFeedRest, WalletRest, PayoutAccountsRest,
     WebPlansRest, BannersRest, NoticesRest DEF AdminSessionsMove
<1>3. CASE AdminFeedMove
  BY <1>3, AdminsRest, AdminSessionsRest, AdminFeedStep, WalletRest, PayoutAccountsRest,
     WebPlansRest, BannersRest, NoticesRest DEF AdminFeedMove
<1>4. CASE WalletMove
  BY <1>4, AdminsRest, AdminSessionsRest, AdminFeedRest, WalletStep, PayoutAccountsRest,
     WebPlansRest, BannersRest, NoticesRest DEF WalletMove
<1>5. CASE PayoutAccountsMove
  BY <1>5, AdminsRest, AdminSessionsRest, AdminFeedRest, WalletRest, PayoutAccountsStep,
     WebPlansRest, BannersRest, NoticesRest DEF PayoutAccountsMove
<1>6. CASE WebPlansMove
  BY <1>6, AdminsRest, AdminSessionsRest, AdminFeedRest, WalletRest, PayoutAccountsRest,
     WebPlansStep, BannersRest, NoticesRest DEF WebPlansMove
<1>7. CASE BannersMove
  BY <1>7, AdminsRest, AdminSessionsRest, AdminFeedRest, WalletRest, PayoutAccountsRest,
     WebPlansRest, BannersStep, NoticesRest DEF BannersMove
<1>8. CASE NoticesMove
  BY <1>8, AdminsRest, AdminSessionsRest, AdminFeedRest, WalletRest, PayoutAccountsRest,
     WebPlansRest, BannersRest, NoticesStep DEF NoticesMove
<1>9. CASE UNCHANGED accountVars
  BY <1>9, AdminsRest, AdminSessionsRest, AdminFeedRest, WalletRest, PayoutAccountsRest,
     WebPlansRest, BannersRest, NoticesRest DEF accountVars
<1> QED
  BY <1>1, <1>2, <1>3, <1>4, <1>5, <1>6, <1>7, <1>8, <1>9 DEF AccountsNext

(* The invariants of all parts hold, whatever the order of the requests,    *)
(* callbacks and restarts.                                                  *)
THEOREM Invariance == AccountsSpec => []AccountsInv
BY AccountsStart, AccountsStep, PTL DEF AccountsSpec

(* Rows, Stripe's objects and requests in progress keep their shape: no     *)
(* handler writes what the schema does not know.                            *)
THEOREM TypeCorrect == AccountsSpec => []AccountsTypeOK
<1>1. AccountsInv => AccountsTypeOK
  BY DEF AccountsInv, AccountsTypeOK, AdminsInv, AdminSessionsInv, AdminFeedInv, WalletInv,
     PayoutAccountsInv, WebPlansInv, BannersInv, NoticesInv
<1> QED
  BY <1>1, Invariance, PTL

(* An owner who was told that the invitation is accepted can sign in with   *)
(* the password chosen, until a password is set knowingly.                  *)
THEOREM OwnerSignsIn == AccountsSpec => []AcceptedOwnerSignsIn
<1>1. AccountsInv => AcceptedOwnerSignsIn
  BY DEF AccountsInv, AdminsInv
<1> QED
  BY <1>1, Invariance, PTL

(* Tabs that sign in and refresh the shared cookies at once, with lost       *)
(* answers and restarts, do not sign the admin out, unless the browser still *)
(* uses a revoked token when its 30 seconds end.                            *)
THEOREM StaysSignedIn == AccountsSpec => []AdminStaysSignedIn
<1>1. AccountsInv => AdminStaysSignedIn
  BY AdminSessionsPromise DEF AccountsInv
<1> QED
  BY <1>1, Invariance, PTL

(* The polls' cursors pass over no event that a tab still has to be told,   *)
(* but those committed after a later one.                                   *)
THEOREM TabsHearEvents == AccountsSpec => []EventsReachTabs
<1>1. AccountsInv => EventsReachTabs
  BY DEF AccountsInv, AdminFeedInv
<1> QED
  BY <1>1, Invariance, PTL

(* A saved card that nobody asked to remove is attached to the customer     *)
(* that calls are charged to, unless two first cards made two customers.    *)
THEOREM CardsCanBeCharged == AccountsSpec => []SavedCardCanBeCharged
<1>1. AccountsInv => SavedCardCanBeCharged
  BY WalletPromise DEF AccountsInv
<1> QED
  BY <1>1, Invariance, PTL

(* The account an expert onboards is the one on the expert's row, or about   *)
(* to be written there, unless the first submission of an older form lost    *)
(* its answer or was written over another account.                           *)
THEOREM OneAccountOnboards == AccountsSpec => []SentToOneAccount
<1>1. AccountsInv => SentToOneAccount
  BY DEF AccountsInv, PayoutAccountsInv
<1> QED
  BY <1>1, Invariance, PTL

(* The amount on a plan's row is that of its price at Stripe.               *)
THEOREM ShownIsCharged == AccountsSpec => []PriceShownIsCharged
<1>1. AccountsInv => PriceShownIsCharged
  BY DEF AccountsInv, WebPlansInv
<1> QED
  BY <1>1, Invariance, PTL

(* The plan on the subscriber's row is the one Stripe charges for, once the *)
(* event of a switch was answered, unless a plan has two products or Stripe *)
(* did not answer.                                                          *)
THEOREM PaidIsGranted == AccountsSpec => []PaidPlanIsGranted
<1>1. AccountsInv => PaidPlanIsGranted
  BY DEF AccountsInv, WebPlansInv
<1> QED
  BY <1>1, Invariance, PTL

(* A phone has the row of whoever registered it last, and no other, unless  *)
(* two of its registrations overlapped.                                     *)
THEOREM OneOwner == AccountsSpec => []DeviceHasOneOwner
<1>1. AccountsInv => DeviceHasOneOwner
  BY DEF AccountsInv, NoticesInv
<1> QED
  BY <1>1, Invariance, PTL

-----------------------------------------------------------------------------
(* Clicks.  A banner's unique clicks add up to its viewers.  Nothing is on   *)
(* record of a banner that was never made, and no tap is on it.              *)

NothingOn(b) ==
    /\ viewedBy[b] = {} /\ uncounted[b] = 0
    /\ \A d \in 1..Days : daily[b][d].uniqueClicks = 0
    /\ \A t \in Taps : ~(tap[t].op = "bump" /\ tap[t].on = b)

UnmadeIsUnseen == \A b \in BannerIds : banner[b].status = "none" => NothingOn(b)

AddsUp(b) == UniqueClicks(b) + Unwritten(b) + uncounted[b] = Cardinality(viewedBy[b])

ClicksInv ==
    /\ \A b \in BannerIds : IsFiniteSet(viewedBy[b])
    /\ UnmadeIsUnseen
    /\ \A b \in BannerIds : There(b) => AddsUp(b)

(* A tap that is to be counted as a viewer's first on a banner. *)
IsFirst(r, b) == r.op = "bump" /\ r.on = b /\ r.unique = 1

(* All that is added up is a natural number. *)
LEMMA CountsAreNatural ==
    ASSUME BannersTypeOK, NEW b \in BannerIds
    PROVE  /\ UniqueClicks(b) \in Nat /\ Unwritten(b) \in Nat /\ uncounted[b] \in Nat
           /\ IsFiniteSet(viewedBy[b]) => Cardinality(viewedBy[b]) \in Nat
<1>t. /\ daily \in [BannerIds -> [1..Days -> Counts]] /\ Days \in Nat /\ MaxCount \in Nat
      /\ IsFiniteSet(Taps) /\ uncounted \in [BannerIds -> Nat]
  BY BannersTyped
<1>1. PICK f : f = [d \in 1..Days |-> daily[b][d].uniqueClicks]
  OBVIOUS
<1>2. \A d \in 1..Days : f[d] \in Nat
  BY <1>t, <1>1 DEF Counts
<1>3. IsFiniteSet(1..Days)
  BY <1>t, FS_Interval
<1>4. UniqueClicks(b) \in Nat
  BY <1>1, <1>2, <1>3, SumType DEF UniqueClicks
<1>5. PICK F \in SUBSET Taps : F = {t \in Taps : tap[t].op = "bump" /\ tap[t].on = b /\ tap[t].unique = 1}
  OBVIOUS
<1>6. Unwritten(b) \in Nat
  BY <1>t, <1>5, FS_Subset, FS_CardinalityType DEF Unwritten
<1> QED
  BY <1>t, <1>4, <1>6, FS_CardinalityType

(* One tap moves on. *)
LEMMA OneTapMoves ==
    ASSUME BannersTypeOK, NEW t \in Taps, NEW r, tap' = [tap EXCEPT ![t] = r],
           NEW o, o = tap[t], NEW b \in BannerIds
    PROVE  Unwritten(b)' = Unwritten(b) + (IF IsFirst(r, b) THEN 1 ELSE 0)
                                        - (IF IsFirst(o, b) THEN 1 ELSE 0)
<1>t. /\ tap \in [Taps -> Tap] /\ IsFiniteSet(Taps)
  BY BannersTyped
<1>1. PICK F \in SUBSET Taps : F = {s \in Taps : tap[s].op = "bump" /\ tap[s].on = b /\ tap[s].unique = 1}
  OBVIOUS
<1>2. PICK G \in SUBSET Taps : G = {s \in Taps : tap'[s].op = "bump" /\ tap'[s].on = b /\ tap'[s].unique = 1}
  OBVIOUS
<1>3. IsFiniteSet(F) /\ IsFiniteSet(F \ {t}) /\ Cardinality(F) \in Nat
  BY <1>t, FS_Subset, FS_RemoveElement, FS_CardinalityType
<1>4. Unwritten(b) = Cardinality(F) /\ Unwritten(b)' = Cardinality(G)
  BY <1>1, <1>2 DEF Unwritten
<1>5. /\ \A s \in Taps \ {t} : tap'[s] = tap[s]
      /\ tap'[t] = r
  BY <1>t
<1>6. t \in F <=> IsFirst(o, b)
  BY <1>1 DEF IsFirst
<1>7. CASE IsFirst(r, b)
  <2>1. G = F \cup {t}
    BY <1>1, <1>2, <1>5, <1>7 DEF IsFirst
  <2>2. Cardinality(G) = IF t \in F THEN Cardinality(F) ELSE Cardinality(F) + 1
    BY <1>3, <2>1, FS_AddElement, Zenon
  <2> QED
    BY <1>3, <1>4, <1>6, <1>7, <2>2
<1>8. CASE ~IsFirst(r, b)
  <2>1. G = F \ {t}
    BY <1>1, <1>2, <1>5, <1>8 DEF IsFirst
  <2>2. Cardinality(G) = IF t \in F THEN Cardinality(F) - 1 ELSE Cardinality(F)
    BY <1>3, <2>1, FS_RemoveElement, Zenon
  <2> QED
    BY <1>3, <1>4, <1>6, <1>8, <2>2
<1> QED
  BY <1>7, <1>8

(* Counting adds to the clicks of the banner, if it is there, and of no other. *)
LEMMA OneDayCounted ==
    ASSUME BannersTypeOK, NEW b \in BannerIds, NEW i \in 0..1, NEW c \in 0..1, NEW u \in 0..1,
           bumpBannerStats(b, i, c, u), NEW x \in BannerIds
    PROVE  /\ UniqueClicks(x)' = UniqueClicks(x) + (IF x = b /\ There(b) THEN u ELSE 0)
           /\ x # b \/ ~There(b) => daily'[x] = daily[x]
<1>t. /\ daily \in [BannerIds -> [1..Days -> Counts]] /\ today \in 1..Days
      /\ MaxCount \in Nat /\ Days \in Nat
  BY BannersTyped
<1>1. PICK row \in Counts : row = daily[b][today]
  BY <1>t
<1>2. PICK new : new = [impressions |-> row.impressions + i, clicks |-> row.clicks + c,
                        uniqueClicks |-> row.uniqueClicks + u]
  OBVIOUS
<1>3. daily' = IF ~There(b) THEN daily ELSE [daily EXCEPT ![b][today] = new]
  BY <1>1, <1>2, Zenon DEF bumpBannerStats
<1>4. CASE x # b \/ ~There(b)
  <2>1. daily'[x] = daily[x]
    BY <1>t, <1>3, <1>4
  <2>2. UniqueClicks(x)' = UniqueClicks(x)
    BY <2>1, Zenon DEF UniqueClicks
  <2>3. UniqueClicks(x) \in Nat
    BY CountsAreNatural
  <2> QED
    BY <1>4, <2>1, <2>2, <2>3
<1>5. CASE x = b /\ There(b)
  <2>1. \A d \in 1..Days : daily'[b][d] = IF d = today THEN new ELSE daily[b][d]
    BY <1>t, <1>3, <1>5
  <2>2. PICK f : f = [d \in 1..Days |-> daily[b][d].uniqueClicks]
    OBVIOUS
  <2>3. PICK g : g = [d \in 1..Days |-> daily'[b][d].uniqueClicks]
    OBVIOUS
  <2>4. UniqueClicks(b) = SumFunctionOnSet(f, 1..Days)
    BY <2>2, Zenon DEF UniqueClicks
  <2>5. UniqueClicks(b)' = SumFunctionOnSet(g, 1..Days)
    BY <2>3, Zenon DEF UniqueClicks
  <2>6. PICK n \in Nat : n = row.uniqueClicks
    BY <1>t DEF Counts
  <2>7. f[today] = n /\ g[today] = n + u
    <3>1. f[today] = row.uniqueClicks
      BY <1>t, <1>1, <2>2
    <3>2. g[today] = new.uniqueClicks
      BY <1>t, <2>1, <2>3
    <3> QED
      BY <1>2, <2>6, <3>1, <3>2
  <2>8. ASSUME NEW d \in 1..Days PROVE f[d] \in Nat
    <3>1. PICK r \in Counts : r = daily[b][d]
      BY <1>t
    <3>2. r.uniqueClicks \in Nat
      BY <1>t DEF Counts
    <3> QED
      BY <2>2, <3>1, <3>2
  <2>9. \A d \in (1..Days) \ {today} : g[d] = f[d]
    BY <2>1, <2>2, <2>3
  <2>10. \A d \in 1..Days : f[d] \in Int /\ g[d] \in Int
    BY <1>t, <2>6, <2>7, <2>8, <2>9
  <2>11. PICK S : S = 1..Days /\ IsFiniteSet(S)
    BY <1>t, FS_Interval
  <2>12. SumFunctionOnSet(g, S) = SumFunctionOnSet(f, S) - f[today] + g[today]
    <3>0. IsFiniteSet(S) /\ today \in S
      BY <1>t, <2>11
    <3>1. \A d \in S : f[d] \in Int /\ g[d] \in Int
      BY <2>10, <2>11
    <3>2. \A d \in S : d = today \/ g[d] = f[d]
      BY <2>9, <2>11
    <3> QED
      BY <3>0, <3>1, <3>2, SumOneChanged
  <2>13. SumFunctionOnSet(f, 1..Days) \in Nat
    BY <2>4, CountsAreNatural
  <2> QED
    BY <1>5, <2>4, <2>5, <2>6, <2>7, <2>11, <2>12, <2>13
<1> QED
  BY <1>4, <1>5

(* A banner of which nothing is written stays as it was. *)
LEMMA NothingWritten ==
    ASSUME BannersTypeOK, ClicksInv, UNCHANGED <<viewedBy, daily, uncounted>>,
           \A b \in BannerIds : Unwritten(b)' = Unwritten(b),
           \A b \in BannerIds : There(b)' => There(b),
           \A b \in BannerIds : (banner[b].status = "none")' => /\ banner[b].status = "none"
              /\ \A t \in Taps : ~(tap'[t].op = "bump" /\ tap'[t].on = b)
    PROVE  ClicksInv'
<1>1. \A b \in BannerIds : IsFiniteSet(viewedBy[b])'
  BY DEF ClicksInv
<1>2. UnmadeIsUnseen'
  BY DEF ClicksInv, UnmadeIsUnseen, NothingOn
<1>3. ASSUME NEW b \in BannerIds PROVE UniqueClicks(b)' = UniqueClicks(b)
  BY Zenon DEF UniqueClicks
<1>4. ASSUME NEW b \in BannerIds, There(b)' PROVE AddsUp(b)'
  <2>1. AddsUp(b)
    BY <1>4 DEF ClicksInv
  <2> QED
    BY <1>3, <2>1 DEF AddsUp
<1> QED
  BY <1>1, <1>2, <1>4 DEF ClicksInv

(* Uploads, moderation, what is served and the days change no count. *)
LEMMA QuietClicks ==
    ASSUME BannersTypeOK, ClicksInv,
           \/ \E u \in Uploads :
                 \/ createBanner(u)
                 \/ \E w \in BOOLEAN :
                       countBanners(u, w) \/ \E b \in BannerIds : insertBanner(u, b, w)
           \/ \E b \in BannerIds :
                 \/ approveBanner(b) \/ rejectBanner(b)
                 \/ \E i \in BOOLEAN : toggleBannerActive(b, i)
           \/ getPublicBanners \/ ChangeListing \/ NextDay \/ UNCHANGED bannerVars
    PROVE  ClicksInv'
<1>t. banner \in [BannerIds -> BannerRow]
  BY BannersTyped
<1>1. UNCHANGED <<viewedBy, daily, uncounted, tap>>
  BY DEF createBanner, countBanners, insertBanner, Moderate, approveBanner, rejectBanner,
         toggleBannerActive, getPublicBanners, ChangeListing, NextDay, bannerVars
<1>2. ASSUME NEW b \in BannerIds PROVE Unwritten(b)' = Unwritten(b)
  BY <1>1, Zenon DEF Unwritten
<1>3. ASSUME UNCHANGED banner PROVE ClicksInv'
  <2>1. \A b \in BannerIds : There(b)' => There(b)
    BY <1>3 DEF There
  <2>2. \A b \in BannerIds : (banner[b].status = "none")' => /\ banner[b].status = "none"
              /\ \A t \in Taps : ~(tap'[t].op = "bump" /\ tap'[t].on = b)
    BY <1>1, <1>3 DEF ClicksInv, UnmadeIsUnseen, NothingOn
  <2> QED
    BY <1>1, <1>2, <2>1, <2>2, NothingWritten
<1>4. CASE \E b \in BannerIds :
                 \/ approveBanner(b) \/ rejectBanner(b)
                 \/ \E i \in BOOLEAN : toggleBannerActive(b, i)
  <2>1. PICK b \in BannerIds :
                 \/ approveBanner(b) \/ rejectBanner(b)
                 \/ \E i \in BOOLEAN : toggleBannerActive(b, i)
    BY <1>4
  <2>2. PICK s, i : Moderate(b, s, i) /\ (s = banner[b].status \/ s \in {"approved", "rejected"})
    BY <2>1 DEF approveBanner, rejectBanner, toggleBannerActive
  <2>3. There(b) /\ banner' = [banner EXCEPT ![b].status = s, ![b].isActive = i]
    BY <2>2 DEF Moderate
  <2>4. \A x \in BannerIds : x # b => banner'[x] = banner[x]
    BY <1>t, <2>3
  <2>5. banner'[b].status = s /\ s \notin {"none", "deleted"}
    BY <1>t, <2>2, <2>3 DEF There, BannerRow
  <2>6. \A x \in BannerIds : There(x)' => There(x)
    BY <2>3, <2>4 DEF There
  <2>7. \A x \in BannerIds : (banner[x].status = "none")' => /\ banner[x].status = "none"
              /\ \A t \in Taps : ~(tap'[t].op = "bump" /\ tap'[t].on = x)
    BY <1>1, <2>4, <2>5 DEF ClicksInv, UnmadeIsUnseen, NothingOn
  <2> QED
    BY <1>1, <1>2, <2>6, <2>7, NothingWritten
<1>5. CASE \E u \in Uploads, w \in BOOLEAN, b \in BannerIds : insertBanner(u, b, w)
  <2>1. PICK u \in Uploads, w \in BOOLEAN, b \in BannerIds : insertBanner(u, b, w)
    BY <1>5
  <2>w. PICK row : row = [status |-> "pending", isActive |-> w, created |-> today]
    OBVIOUS
  <2>2. banner' = [banner EXCEPT ![b] = row] /\ row.status = "pending"
    BY <2>1, <2>w DEF insertBanner
  <2>3. NothingOn(b)
    BY <2>1 DEF insertBanner, NoBanner, ClicksInv, UnmadeIsUnseen
  <2>4. \A x \in BannerIds : banner'[x] = IF x = b THEN row ELSE banner[x]
    BY <1>t, <2>2
  <2>5. UnmadeIsUnseen'
    <3>1. ASSUME NEW x \in BannerIds, (banner[x].status = "none")' PROVE NothingOn(x)'
      <4>1. banner[x].status = "none"
        BY <2>2, <2>4, <3>1
      <4>2. NothingOn(x)
        BY <4>1 DEF ClicksInv, UnmadeIsUnseen
      <4> QED
        BY <1>1, <4>2, Zenon DEF NothingOn
    <3> QED
      BY <3>1 DEF UnmadeIsUnseen
  <2>6. \A x \in BannerIds : IsFiniteSet(viewedBy[x])'
    BY <1>1 DEF ClicksInv
  <2>7. ASSUME NEW x \in BannerIds, There(x)' PROVE AddsUp(x)'
    <3>1. UniqueClicks(x)' = UniqueClicks(x)
      BY <1>1, Zenon DEF UniqueClicks
    <3>2. AddsUp(x)
      <4>1. CASE x = b
        <5>1. PICK f : f = [d \in 1..Days |-> daily[b][d].uniqueClicks]
          OBVIOUS
        <5>2. \A d \in 1..Days : f[d] = 0
          BY <2>3, <5>1 DEF NothingOn
        <5>3. IsFiniteSet(1..Days)
          BY BannersTyped, FS_Interval
        <5>4. UniqueClicks(b) = 0
          BY <5>1, <5>2, <5>3, SumType DEF UniqueClicks
        <5>5. {t \in Taps : tap[t].op = "bump" /\ tap[t].on = b /\ tap[t].unique = 1} = {}
          BY <2>3 DEF NothingOn
        <5>6. Unwritten(b) = 0
          BY <5>5, FS_EmptySet DEF Unwritten
        <5>7. uncounted[b] = 0 /\ Cardinality(viewedBy[b]) = 0
          BY <2>3, FS_EmptySet DEF NothingOn
        <5> QED
          BY <4>1, <5>4, <5>6, <5>7 DEF AddsUp
      <4>2. CASE x # b
        BY <2>4, <2>7, <4>2 DEF There, ClicksInv
      <4> QED
        BY <4>1, <4>2
    <3> QED
      BY <1>1, <1>2, <3>1, <3>2 DEF AddsUp
  <2> QED
    BY <2>5, <2>6, <2>7 DEF ClicksInv
<1>6. \/ UNCHANGED banner
      \/ \E b \in BannerIds :
                 \/ approveBanner(b) \/ rejectBanner(b)
                 \/ \E i \in BOOLEAN : toggleBannerActive(b, i)
      \/ \E u \in Uploads, w \in BOOLEAN, b \in BannerIds : insertBanner(u, b, w)
  BY DEF createBanner, countBanners, getPublicBanners, ChangeListing, NextDay, bannerVars
<1> QED
  BY <1>3, <1>4, <1>5, <1>6

(* A view is counted, a tap finds a banner, and a tap is counted.           *)
LEMMA CountedClicks ==
    ASSUME BannersTypeOK, ClicksInv,
           \/ \E b \in BannerIds :
                 countImpression(b) \/ \E t \in Taps, v \in Viewers : recordBannerClick(t, b, v)
           \/ \E t \in Taps : countClick(t)
    PROVE  ClicksInv'
<1>t. /\ tap \in [Taps -> Tap] /\ uncounted \in [BannerIds -> Nat]
  BY BannersTyped
<1>1. UNCHANGED <<banner, viewedBy, uncounted>>
  BY DEF countImpression, recordBannerClick, countClick
<1>2. \A x \in BannerIds : IsFiniteSet(viewedBy[x])'
  BY <1>1 DEF ClicksInv
<1>3. \A x \in BannerIds : There(x)' <=> There(x)
  BY <1>1 DEF There
<1>4. SUFFICES ASSUME NEW x \in BannerIds
               PROVE  /\ (banner[x].status = "none")' => NothingOn(x)'
                      /\ There(x)' => AddsUp(x)'
  BY <1>2, <1>4 DEF ClicksInv, UnmadeIsUnseen
<1>5. /\ banner[x].status = "none" => NothingOn(x)
      /\ There(x) => AddsUp(x)
  BY DEF ClicksInv, UnmadeIsUnseen
<1>6. UniqueClicks(x) \in Nat /\ Unwritten(x) \in Nat /\ uncounted[x] \in Nat
  BY CountsAreNatural
<1>7. ASSUME NEW b \in BannerIds, countImpression(b)
      PROVE  /\ (banner[x].status = "none")' => NothingOn(x)'
             /\ There(x)' => AddsUp(x)'
  <2>1. bumpBannerStats(b, 1, 0, 0) /\ UNCHANGED tap
    BY <1>7 DEF countImpression
  <2>2. /\ UniqueClicks(x)' = UniqueClicks(x) + (IF x = b /\ There(b) THEN 0 ELSE 0)
        /\ x # b \/ ~There(b) => daily'[x] = daily[x]
    BY <2>1, OneDayCounted
  <2>3. Unwritten(x)' = Unwritten(x)
    BY <2>1, Zenon DEF Unwritten
  <2>4. (banner[x].status = "none")' => NothingOn(x)'
    BY <1>1, <1>5, <2>1, <2>2 DEF NothingOn, There
  <2>5. UniqueClicks(x)' = UniqueClicks(x)
    BY <1>6, <2>2
  <2> QED
    BY <1>1, <1>3, <1>5, <2>3, <2>4, <2>5 DEF AddsUp
<1>8. ASSUME NEW t \in Taps, NEW b \in BannerIds, NEW v \in Viewers, recordBannerClick(t, b, v)
      PROVE  /\ (banner[x].status = "none")' => NothingOn(x)'
             /\ There(x)' => AddsUp(x)'
  <2>w. PICK r : r = [op |-> "insert", on |-> b, by |-> v]
    OBVIOUS
  <2>1. tap' = [tap EXCEPT ![t] = r] /\ tap[t] = NotNow /\ UNCHANGED daily
    BY <1>8, <2>w DEF recordBannerClick
  <2>2. ~IsFirst(r, x) /\ ~IsFirst(NotNow, x)
    BY <2>w DEF IsFirst, NotNow
  <2>3. Unwritten(x)' = Unwritten(x)
    <3>1. Unwritten(x)' = Unwritten(x) + (IF IsFirst(r, x) THEN 1 ELSE 0)
                                       - (IF IsFirst(NotNow, x) THEN 1 ELSE 0)
      BY <2>1, OneTapMoves
    <3> QED
      BY <1>6, <2>2, <3>1
  <2>4. (banner[x].status = "none")' => NothingOn(x)'
    <3>1. \A s \in Taps : tap'[s] = IF s = t THEN r ELSE tap[s]
      BY <1>t, <2>1
    <3>2. r.op # "bump"
      BY <2>w
    <3> QED
      BY <1>1, <1>5, <2>1, <3>1, <3>2 DEF NothingOn
  <2>5. UniqueClicks(x)' = UniqueClicks(x)
    BY <2>1, Zenon DEF UniqueClicks
  <2> QED
    BY <1>1, <1>3, <1>5, <2>3, <2>4, <2>5 DEF AddsUp
<1>9. ASSUME NEW t \in Taps, countClick(t)
      PROVE  /\ (banner[x].status = "none")' => NothingOn(x)'
             /\ There(x)' => AddsUp(x)'
  <2>1. PICK o \in Tap : o = tap[t] /\ o.op = "bump"
    BY <1>9, <1>t DEF countClick
  <2>2. o.on \in BannerIds /\ o.unique \in 0..1
    BY <2>1 DEF Tap, NotNow
  <2>3. PICK y \in BannerIds, u \in 0..1 : y = o.on /\ u = o.unique
    BY <2>2
  <2>4. bumpBannerStats(y, 0, 1, u) /\ tap' = [tap EXCEPT ![t] = NotNow]
    BY <1>9, <2>1, <2>3 DEF countClick
  <2>5. /\ UniqueClicks(x)' = UniqueClicks(x) + (IF x = y /\ There(y) THEN u ELSE 0)
        /\ x # y \/ ~There(y) => daily'[x] = daily[x]
    BY <2>4, OneDayCounted
  <2>6. ~IsFirst(NotNow, x) /\ (IsFirst(o, x) <=> x = y /\ u = 1)
    BY <2>1, <2>3 DEF IsFirst, NotNow
  <2>7. Unwritten(x)' = Unwritten(x) + (IF IsFirst(NotNow, x) THEN 1 ELSE 0)
                                     - (IF IsFirst(o, x) THEN 1 ELSE 0)
    BY <2>1, <2>4, OneTapMoves
  <2>8. (banner[x].status = "none")' => NothingOn(x)'
    <3>1. \A s \in Taps : tap'[s] = IF s = t THEN NotNow ELSE tap[s]
      BY <1>t, <2>4
    <3>2. NotNow.op # "bump"
      BY DEF NotNow
    <3>3. banner[x].status = "none" => daily'[x] = daily[x]
      BY <2>5 DEF There
    <3> QED
      BY <1>1, <1>5, <3>1, <3>2, <3>3 DEF NothingOn
  <2>9. There(x) => UniqueClicks(x)' + Unwritten(x)' = UniqueClicks(x) + Unwritten(x)
    <3>1. CASE x = y /\ u = 1
      BY <1>6, <2>5, <2>6, <2>7, <3>1
    <3>2. CASE x = y /\ u = 0
      BY <1>6, <2>5, <2>6, <2>7, <3>2
    <3>3. CASE x # y
      BY <1>6, <2>5, <2>6, <2>7, <3>3
    <3> QED
      BY <3>1, <3>2, <3>3
  <2> QED
    BY <1>1, <1>3, <1>5, <2>8, <2>9 DEF AddsUp
<1> QED
  BY <1>7, <1>8, <1>9

(* A first tap adds a viewer and a count that is under way, a later tap      *)
(* neither.                                                                  *)
LEMMA RecordedClicks ==
    ASSUME BannersTypeOK, ClicksInv, NEW t \in Taps, createClick(t)
    PROVE  ClicksInv'
<1>t. /\ tap \in [Taps -> Tap] /\ uncounted \in [BannerIds -> Nat]
      /\ viewedBy \in [BannerIds -> SUBSET Viewers]
  BY BannersTyped
<1>1. UNCHANGED <<banner, daily, uncounted>>
  BY DEF createClick
<1>2. PICK o \in Tap : o = tap[t] /\ o.op = "insert"
  BY <1>t DEF createClick
<1>3. o.on \in BannerIds /\ o.by \in Viewers
  BY <1>2 DEF Tap, NotNow
<1>4. PICK b \in BannerIds, v \in Viewers : b = o.on /\ v = o.by
  BY <1>3
<1>5. PICK n \in 0..1 : n = IF v \in viewedBy[b] THEN 0 ELSE 1
  OBVIOUS
<1>6. PICK r : r = IF There(b) THEN [op |-> "bump", on |-> b, unique |-> n] ELSE NotNow
  OBVIOUS
<1>7. /\ tap' = [tap EXCEPT ![t] = r]
      /\ viewedBy' = IF There(b) THEN [viewedBy EXCEPT ![b] = @ \cup {v}] ELSE viewedBy
  BY <1>2, <1>4, <1>5, <1>6 DEF createClick
<1>8. \A x \in BannerIds : There(x)' <=> There(x)
  BY <1>1 DEF There
<1>9. \A x \in BannerIds :
         viewedBy'[x] = IF x = b /\ There(b) THEN viewedBy[x] \cup {v} ELSE viewedBy[x]
  BY <1>t, <1>7
<1>10. ASSUME NEW x \in BannerIds PROVE IsFiniteSet(viewedBy[x])'
  <2>1. IsFiniteSet(viewedBy[x]) /\ IsFiniteSet(viewedBy[x] \cup {v})
    BY FS_AddElement DEF ClicksInv
  <2> QED
    BY <1>9, <2>1
<1>11. ASSUME NEW x \in BannerIds, (banner[x].status = "none")' PROVE NothingOn(x)'
  <2>1. NothingOn(x) /\ ~There(x)
    BY <1>1, <1>11 DEF ClicksInv, UnmadeIsUnseen, There
  <2>2. \A s \in Taps : tap'[s] = IF s = t THEN r ELSE tap[s]
    BY <1>t, <1>7
  <2>3. ~(r.op = "bump" /\ r.on = x)
    BY <1>6, <2>1 DEF NotNow
  <2>4. viewedBy'[x] = viewedBy[x]
    BY <1>9, <2>1
  <2> QED
    BY <1>1, <2>1, <2>2, <2>3, <2>4 DEF NothingOn
<1>12. ASSUME NEW x \in BannerIds, There(x)' PROVE AddsUp(x)'
  <2>1. There(x) /\ AddsUp(x) /\ IsFiniteSet(viewedBy[x])
    BY <1>8, <1>12 DEF ClicksInv
  <2>2. UniqueClicks(x) \in Nat /\ Unwritten(x) \in Nat /\ uncounted[x] \in Nat
    BY CountsAreNatural
  <2>3. UniqueClicks(x)' = UniqueClicks(x)
    BY <1>1, Zenon DEF UniqueClicks
  <2>4. ~IsFirst(o, x) /\ (IsFirst(r, x) <=> x = b /\ n = 1)
    BY <1>2, <1>6, <2>1 DEF IsFirst, NotNow
  <2>5. Unwritten(x)' = Unwritten(x) + (IF IsFirst(r, x) THEN 1 ELSE 0)
                                     - (IF IsFirst(o, x) THEN 1 ELSE 0)
    BY <1>2, <1>7, OneTapMoves
  <2>6. Cardinality(viewedBy[x] \cup {v}) =
          IF v \in viewedBy[x] THEN Cardinality(viewedBy[x]) ELSE Cardinality(viewedBy[x]) + 1
    BY <2>1, FS_AddElement, Zenon
  <2>7. CASE x = b /\ n = 1
    <3>0. v \notin viewedBy[b]
      BY <1>5, <2>7
    <3>1. viewedBy'[x] = viewedBy[x] \cup {v} /\ v \notin viewedBy[x]
      BY <1>9, <2>1, <2>7, <3>0
    <3>2. Cardinality(viewedBy'[x]) = Cardinality(viewedBy[x]) + 1
      BY <2>6, <3>1
    <3>3. Unwritten(x)' = Unwritten(x) + 1
      BY <2>2, <2>4, <2>5, <2>7
    <3> QED
      BY <1>1, <2>1, <2>2, <2>3, <3>2, <3>3 DEF AddsUp
  <2>8. CASE ~(x = b /\ n = 1)
    <3>1. viewedBy'[x] = viewedBy[x]
      BY <1>5, <1>9, <2>8
    <3>2. Unwritten(x)' = Unwritten(x)
      BY <2>2, <2>4, <2>5, <2>8
    <3> QED
      BY <1>1, <2>1, <2>2, <2>3, <3>1, <3>2 DEF AddsUp
  <2> QED
    BY <2>7, <2>8
<1> QED
  BY <1>10, <1>11, <1>12 DEF ClicksInv, UnmadeIsUnseen

(* A deleted banner takes its counts along, and a restart turns those under  *)
(* way into lost ones.                                                       *)
LEMMA LostClicks ==
    ASSUME BannersTypeOK, ClicksInv,
           expertServiceRestarts \/ \E b \in BannerIds : deleteBanner(b)
    PROVE  ClicksInv'
<1>t. /\ banner \in [BannerIds -> BannerRow] /\ daily \in [BannerIds -> [1..Days -> Counts]]
      /\ viewedBy \in [BannerIds -> SUBSET Viewers] /\ uncounted \in [BannerIds -> Nat]
  BY BannersTyped
<1>1. CASE expertServiceRestarts
  <2>1. /\ UNCHANGED <<banner, viewedBy, daily>> /\ tap' = [t \in Taps |-> NotNow]
        /\ \A b \in BannerIds : uncounted'[b] = IF There(b) THEN uncounted[b] + Unwritten(b) ELSE 0
    BY <1>1 DEF expertServiceRestarts
  <2>2. \A t \in Taps : tap'[t].op # "bump"
    BY <2>1 DEF NotNow
  <2>3. ASSUME NEW b \in BannerIds, (banner[b].status = "none")' PROVE NothingOn(b)'
    <3>1. NothingOn(b) /\ ~There(b)
      BY <2>1, <2>3 DEF ClicksInv, UnmadeIsUnseen, There
    <3> QED
      BY <2>1, <2>2, <3>1 DEF NothingOn
  <2>4. ASSUME NEW b \in BannerIds, There(b)' PROVE AddsUp(b)'
    <3>1. There(b) /\ AddsUp(b)
      BY <2>1, <2>4 DEF There, ClicksInv
    <3>2. {t \in Taps : tap'[t].op = "bump" /\ tap'[t].on = b /\ tap'[t].unique = 1} = {}
      BY <2>2
    <3>3. Unwritten(b)' = 0
      BY <3>2, FS_EmptySet DEF Unwritten
    <3>4. UniqueClicks(b)' = UniqueClicks(b)
      BY <2>1, Zenon DEF UniqueClicks
    <3>5. uncounted'[b] = uncounted[b] + Unwritten(b)
      BY <2>1, <3>1
    <3>6. UniqueClicks(b) \in Nat /\ Unwritten(b) \in Nat /\ uncounted[b] \in Nat
      BY CountsAreNatural
    <3> QED
      BY <2>1, <3>1, <3>3, <3>4, <3>5, <3>6 DEF AddsUp
  <2> QED
    BY <2>1, <2>3, <2>4 DEF ClicksInv, UnmadeIsUnseen
<1>2. ASSUME NEW b \in BannerIds, deleteBanner(b) PROVE ClicksInv'
  <2>w. PICK row : row = [NoBanner EXCEPT !.status = "deleted"]
    OBVIOUS
  <2>1. /\ banner' = [banner EXCEPT ![b] = row] /\ row.status = "deleted"
        /\ viewedBy' = [viewedBy EXCEPT ![b] = {}] /\ uncounted' = [uncounted EXCEPT ![b] = 0]
        /\ UNCHANGED tap
    BY <1>2, <2>w DEF deleteBanner, NoBanner
  <2>2. \E z : daily' = [daily EXCEPT ![b] = z]
    BY <1>2 DEF deleteBanner
  <2>3. \A x \in BannerIds : x # b =>
           /\ banner'[x] = banner[x] /\ viewedBy'[x] = viewedBy[x]
           /\ uncounted'[x] = uncounted[x] /\ daily'[x] = daily[x]
    BY <1>t, <2>1, <2>2
  <2>4. banner'[b] = row /\ viewedBy'[b] = {}
    BY <1>t, <2>1
  <2>5. ASSUME NEW x \in BannerIds PROVE IsFiniteSet(viewedBy[x])'
    BY <2>3, <2>4, FS_EmptySet DEF ClicksInv
  <2>6. ASSUME NEW x \in BannerIds, (banner[x].status = "none")' PROVE NothingOn(x)'
    <3>1. x # b
      BY <2>1, <2>4, <2>6
    <3>2. NothingOn(x)
      BY <2>3, <2>6, <3>1 DEF ClicksInv, UnmadeIsUnseen
    <3> QED
      BY <2>1, <2>3, <3>1, <3>2 DEF NothingOn
  <2>7. ASSUME NEW x \in BannerIds, There(x)' PROVE AddsUp(x)'
    <3>1. x # b
      BY <2>1, <2>4, <2>7 DEF There
    <3>2. AddsUp(x)
      BY <2>3, <2>7, <3>1 DEF There, ClicksInv
    <3>3. Unwritten(x)' = Unwritten(x)
      BY <2>1, Zenon DEF Unwritten
    <3>4. daily'[x] = daily[x]
      BY <2>3, <3>1
    <3>5. UniqueClicks(x)' = UniqueClicks(x)
      BY <3>4, Zenon DEF UniqueClicks
    <3> QED
      BY <2>3, <3>1, <3>2, <3>3, <3>5 DEF AddsUp
  <2> QED
    BY <2>5, <2>6, <2>7 DEF ClicksInv, UnmadeIsUnseen
<1> QED
  BY <1>1, <1>2

(* The unique clicks shown for a banner are its viewers, except for those    *)
(* under way or lost with a restart.                                         *)
THEOREM ClicksAreViewers == AccountsSpec => []ClicksAddUp
<1>1. AccountsInit => ClicksInv
  <2> SUFFICES ASSUME AccountsInit PROVE ClicksInv
    OBVIOUS
  <2>1. /\ banner = [b \in BannerIds |-> NoBanner] /\ viewedBy = [b \in BannerIds |-> {}]
        /\ daily = [b \in BannerIds |-> [d \in 1..Days |-> Unseen]]
        /\ tap = [t \in Taps |-> NotNow] /\ uncounted = [b \in BannerIds |-> 0]
    BY DEF AccountsInit, BesidesPlansInit, BannersInit
  <2>2. \A b \in BannerIds : NothingOn(b)
    BY <2>1 DEF NothingOn, Unseen, NotNow
  <2>3. \A b \in BannerIds : IsFiniteSet(viewedBy[b]) /\ ~There(b)
    BY <2>1, FS_EmptySet DEF There, NoBanner
  <2> QED
    BY <2>2, <2>3 DEF ClicksInv, UnmadeIsUnseen
<1>2. BannersTypeOK /\ ClicksInv /\ [AccountsNext]_accountVars => ClicksInv'
  <2> SUFFICES ASSUME BannersTypeOK, ClicksInv, [AccountsNext]_accountVars PROVE ClicksInv'
    OBVIOUS
  <2>1. CASE BannersNext
    <3>1. CASE \E t \in Taps : createClick(t)
      BY <3>1, RecordedClicks
    <3>2. CASE expertServiceRestarts \/ \E b \in BannerIds : deleteBanner(b)
      BY <3>2, LostClicks
    <3>3. CASE \/ \E b \in BannerIds :
                   countImpression(b) \/ \E t \in Taps, v \in Viewers : recordBannerClick(t, b, v)
               \/ \E t \in Taps : countClick(t)
      BY <3>3, CountedClicks
    <3>4. CASE \/ \E u \in Uploads :
                    \/ createBanner(u)
                    \/ \E w \in BOOLEAN :
                          countBanners(u, w) \/ \E b \in BannerIds : insertBanner(u, b, w)
               \/ \E b \in BannerIds :
                    \/ approveBanner(b) \/ rejectBanner(b)
                    \/ \E i \in BOOLEAN : toggleBannerActive(b, i)
               \/ getPublicBanners \/ ChangeListing \/ NextDay
      BY <3>4, QuietClicks
    <3> QED
      BY <2>1, <3>1, <3>2, <3>3, <3>4, Zenon DEF BannersNext
  <2>2. CASE UNCHANGED bannerVars
    BY <2>2, QuietClicks
  <2> QED
    BY <2>1, <2>2
    DEF AccountsNext, accountVars, AdminsMove, AdminSessionsMove, AdminFeedMove, WalletMove,
        PayoutAccountsMove, WebPlansMove, BannersMove, NoticesMove
<1>3. AccountsInv => BannersTypeOK
  BY DEF AccountsInv, BannersInv
<1>4. ClicksInv => ClicksAddUp
  BY DEF ClicksInv, ClicksAddUp, AddsUp
<1> QED
  BY <1>1, <1>2, <1>3, <1>4, Invariance, PTL DEF AccountsSpec
=============================================================================
