------------------------------- MODULE Admins -------------------------------
(***************************************************************************)
(* The portal account behind one e-mail address (admin-service): a super   *)
(* admin invites or creates a subadmin, whoever has an invitation accepts  *)
(* it with a password, and later requests change status, password and      *)
(* permissions.  Accounts are never deleted.                               *)
(*                                                                         *)
(* A request gives all modules the same level here: a mixture of levels    *)
(* is then the trace of two requests.                                      *)
(***************************************************************************)
EXTENDS Naturals, Sequences

CONSTANTS
    Invites,    \* ids of invitations to the address
    Handlers,   \* requests handled at a time
    Passwords,
    Modules,    \* modules of the portal
    Levels,     \* levels of permission
    NoAdmin     \* nobody's password or level

ASSUME AdminsAssumption ==
    /\ NoAdmin \notin Passwords \cup Levels
    /\ Modules # {}

VARIABLES
    admin,     \* the row of admin_users and its admin_permissions
    invite,    \* rows of admin_invites
    clerk,     \* what each handler is doing
    lock,      \* which transaction holds a permission row
    promised   \* history: passwords last given as valid in a 201 or 200

adminVars == <<admin, invite, clerk, lock, promised>>

Orders    == {o \in [1..2 -> Modules] : o[1] # o[2]}
NoAccount == [status |-> "none", password |-> NoAdmin, grants |-> [m \in Modules |-> NoAdmin]]
AtRest    == [op |-> "idle"]
Inviting  == [op : {"expire", "insert"}, level : Levels]
Accepting == [op : {"find", "create"}, id : Invites, level : Levels, password : Passwords]
Changing  == [op : {"change"}, password : Passwords]
Granting  == [op : {"grant"}, level : Levels, left : Seq(Modules)]

AdminsTypeOK ==
    /\ \/ admin = NoAccount
       \/ admin \in [status : {"active", "suspended"}, password : Passwords,
                     grants : [Modules -> Levels]]
    /\ invite \in [Invites -> [state : {"none", "open", "closed"}, level : Levels \cup {NoAdmin}]]
    /\ clerk \in [Handlers -> {AtRest} \cup Inviting \cup Accepting \cup Changing \cup Granting]
    /\ lock \in [Modules -> Handlers \cup {NoAdmin}]
    /\ promised \subseteq Passwords

AdminsInit ==
    /\ admin = NoAccount
    /\ invite = [i \in Invites |-> [state |-> "none", level |-> NoAdmin]]
    /\ clerk = [h \in Handlers |-> AtRest]
    /\ lock = [m \in Modules |-> NoAdmin]
    /\ promised = {}

Exists == admin.status # "none"

(***************************************************************************)
(* sendInvite: only for an address without an account; closes the open     *)
(* invitations of the address and inserts a new one.                       *)
(***************************************************************************)
sendInvite(h, l) ==
    /\ clerk[h] = AtRest /\ ~Exists
    /\ clerk' = [clerk EXCEPT ![h] = [op |-> "expire", level |-> l]]
    /\ UNCHANGED <<admin, invite, lock, promised>>

expireOthers(h) ==
    /\ clerk[h].op = "expire"
    /\ invite' = [i \in Invites |-> IF invite[i].state = "open"
                                    THEN [invite[i] EXCEPT !.state = "closed"] ELSE invite[i]]
    /\ clerk' = [clerk EXCEPT ![h].op = "insert"]
    /\ UNCHANGED <<admin, lock, promised>>

insertInvite(h, i) ==
    /\ clerk[h].op = "insert" /\ invite[i].state = "none"
    /\ invite' = [invite EXCEPT ![i] = [state |-> "open", level |-> clerk[h].level]]
    /\ clerk' = [clerk EXCEPT ![h] = AtRest]
    /\ UNCHANGED <<admin, lock, promised>>

\* The 72 hours are over.
InviteLapses(i) ==
    /\ invite[i].state = "open"
    /\ invite' = [invite EXCEPT ![i].state = "closed"]
    /\ UNCHANGED <<admin, clerk, lock, promised>>

(***************************************************************************)
(* acceptInvite: reads the invitation, then looks for an account; without  *)
(* one, a transaction creates it with the permissions of the invitation    *)
(* and closes that.  The unique e-mail fails all but one creation.         *)
(***************************************************************************)
acceptInvite(h, i, p) ==
    /\ clerk[h] = AtRest /\ invite[i].state = "open"
    /\ clerk' = [clerk EXCEPT ![h] = [op |-> "find", id |-> i, level |-> invite[i].level,
                                      password |-> p]]
    /\ UNCHANGED <<admin, invite, lock, promised>>

findExisting(h) ==
    /\ clerk[h].op = "find"
    /\ \/ /\ Exists
          /\ invite' = [invite EXCEPT ![clerk[h].id].state = "closed"]
          /\ clerk' = [clerk EXCEPT ![h] = AtRest]
       \/ /\ ~Exists
          /\ clerk' = [clerk EXCEPT ![h].op = "create"]
          /\ UNCHANGED invite
    /\ UNCHANGED <<admin, lock, promised>>

Account(p, l) == [status |-> "active", password |-> p, grants |-> [m \in Modules |-> l]]

\* Mutant: the e-mail is not unique, and the last account of the address signs in.
createAcceptedTwice(h) ==
    /\ clerk[h].op = "create"
    /\ admin' = Account(clerk[h].password, clerk[h].level)
    /\ invite' = [invite EXCEPT ![clerk[h].id].state = "closed"]
    /\ promised' = promised \cup {clerk[h].password}
    /\ clerk' = [clerk EXCEPT ![h] = AtRest]
    /\ UNCHANGED lock

createAccepted(h) ==
    /\ clerk[h].op = "create"
    /\ \/ /\ ~Exists
          /\ admin' = Account(clerk[h].password, clerk[h].level)
          /\ invite' = [invite EXCEPT ![clerk[h].id].state = "closed"]
          /\ promised' = promised \cup {clerk[h].password}
       \/ Exists /\ UNCHANGED <<admin, invite, promised>>
    /\ clerk' = [clerk EXCEPT ![h] = AtRest]
    /\ UNCHANGED lock

\* A super admin creates the account and mails the password.
create(p, l) ==
    /\ ~Exists
    /\ admin' = Account(p, l)
    /\ promised' = promised \cup {p}
    /\ UNCHANGED <<invite, clerk, lock>>

(***************************************************************************)
(* Changes by id.  A super admin sets the status or a password, or resets  *)
(* the password to one that is mailed; an active subadmin, checked when    *)
(* the request came in, replaces the own one.                              *)
(***************************************************************************)
updateAdmin(s, p) ==
    /\ Exists
    /\ admin' = [admin EXCEPT !.status = s, !.password = p]
    /\ promised' = IF p = admin.password THEN promised ELSE {}
    /\ UNCHANGED <<invite, clerk, lock>>

resetAdminPassword(p) ==
    /\ Exists
    /\ admin' = [admin EXCEPT !.password = p]
    /\ promised' = {p}
    /\ UNCHANGED <<invite, clerk, lock>>

changePassword(h, p) ==
    /\ clerk[h] = AtRest /\ admin.status = "active"
    /\ clerk' = [clerk EXCEPT ![h] = [op |-> "change", password |-> p]]
    /\ UNCHANGED <<admin, invite, lock, promised>>

writePassword(h) ==
    /\ clerk[h].op = "change"
    /\ admin' = [admin EXCEPT !.password = clerk[h].password]
    /\ promised' = {clerk[h].password}
    /\ clerk' = [clerk EXCEPT ![h] = AtRest]
    /\ UNCHANGED <<invite, lock>>

(***************************************************************************)
(* setPermissions: one transaction upserts a row per module, in the order  *)
(* of the request.  A row stays locked until its transaction ends; of two  *)
(* transactions that wait for each other the database aborts one.          *)
(***************************************************************************)
setPermissions(h, l, order) ==
    /\ clerk[h] = AtRest /\ Exists
    /\ clerk' = [clerk EXCEPT ![h] = [op |-> "grant", level |-> l, left |-> order]]
    /\ UNCHANGED <<admin, invite, lock, promised>>

upsert(h) ==
    /\ clerk[h].op = "grant" /\ clerk[h].left # <<>>
    /\ lock[Head(clerk[h].left)] = NoAdmin
    /\ lock' = [lock EXCEPT ![Head(clerk[h].left)] = h]
    /\ clerk' = [clerk EXCEPT ![h].left = Tail(@)]
    /\ UNCHANGED <<admin, invite, promised>>

Unlocked(h) == [m \in Modules |-> IF lock[m] = h THEN NoAdmin ELSE lock[m]]

commitGrants(h) ==
    /\ clerk[h].op = "grant" /\ clerk[h].left = <<>>
    /\ admin' = [admin EXCEPT !.grants =
                   [m \in Modules |-> IF lock[m] = h THEN clerk[h].level ELSE @[m]]]
    /\ lock' = Unlocked(h)
    /\ clerk' = [clerk EXCEPT ![h] = AtRest]
    /\ UNCHANGED <<invite, promised>>

WaitsFor(h, q) ==
    clerk[h].op = "grant" /\ clerk[h].left # <<>> /\ lock[Head(clerk[h].left)] = q

deadlock(h, q) ==
    /\ h # q /\ WaitsFor(h, q) /\ WaitsFor(q, h)
    /\ lock' = Unlocked(h)
    /\ clerk' = [clerk EXCEPT ![h] = AtRest]
    /\ UNCHANGED <<admin, invite, promised>>

AdminsNext ==
    \/ \E h \in Handlers :
          \/ \E l \in Levels : sendInvite(h, l) \/ \E o \in Orders : setPermissions(h, l, o)
          \/ expireOthers(h) \/ \E i \in Invites : insertInvite(h, i)
          \/ \E i \in Invites, p \in Passwords : acceptInvite(h, i, p)
          \/ findExisting(h) \/ createAccepted(h)
          \/ \E p \in Passwords : changePassword(h, p)
          \/ writePassword(h) \/ upsert(h) \/ commitGrants(h)
          \/ \E q \in Handlers : deadlock(h, q)
    \/ \E i \in Invites : InviteLapses(i)
    \/ \E p \in Passwords : resetAdminPassword(p) \/ \E l \in Levels : create(p, l)
    \/ Exists /\ \E s \in {"active", "suspended"}, p \in Passwords : updateAdmin(s, p)

(***************************************************************************)
(* Whoever was told that the account is theirs signs in with the password  *)
(* they chose, until a password is set knowingly: with two invitations     *)
(* open, a link opened twice, or an account created beside the invitation, *)
(* only one caller is told so.                                             *)
(***************************************************************************)
AcceptedOwnerSignsIn == promised \subseteq {admin.password}
=============================================================================
