------------------------------ MODULE Notices -------------------------------
(***************************************************************************)
(* Notifications (notification-service).  A phone registers its token for  *)
(* whoever is signed in on it, in the role signed in with; other services  *)
(* dispatch notifications, which become rows and pushes unless the user    *)
(* has switched them off; and rows are read and cleared.  An account may   *)
(* have both roles, and each sees the rows addressed to it and those       *)
(* addressed to both ("all").                                              *)
(***************************************************************************)
EXTENDS Naturals, FiniteSets

CONSTANTS
    Users,
    Phones,     \* tokens, one for each phone
    Notes,      \* ids of notification rows
    NoteKinds,  \* kinds of notification a user can switch off
    Requests,   \* requests, and what they leave running, at a time
    MaxFolds,   \* bound on changes of preferences
    Nobody

ASSUME NoticesAssumption == Nobody \notin Users /\ MaxFolds \in Nat

VARIABLES
    deviceToken,  \* rows of device_tokens
    uninstalled,  \* phones whose token is dead
    note,         \* rows of notifications
    muted,        \* notification_preferences: the kinds a user has switched off
    folds,        \* how often preferences have changed
    notifying,    \* where each request is
    signedInOn,   \* history: who registered each phone last, and in which role
    tangled       \* history: phones whose last registration met another

noticeVars ==
    <<deviceToken, uninstalled, note, muted, folds, notifying, signedInOn, tangled>>

Roles     == {"customer", "expert"}
Audiences == Roles \cup {"all"}

Unowned   == [user |-> Nobody, role |-> "all"]
NoNote    == [user |-> Nobody, audience |-> "all", unread |-> FALSE, cleared |-> FALSE]
Served    == [op |-> "idle"]

NoticesTypeOK ==
    /\ deviceToken \subseteq [user : Users, role : Roles, phone : Phones]
    /\ uninstalled \subseteq Phones /\ tangled \subseteq Phones
    /\ note \in [Notes -> {NoNote} \cup
                   [user : Users, audience : Audiences, unread : BOOLEAN, cleared : BOOLEAN]]
    /\ muted \in [Users -> SUBSET NoteKinds] /\ folds \in 0..MaxFolds
    /\ signedInOn \in [Phones -> [user : Users, role : Roles] \cup {Unowned}]
    /\ notifying \in [Requests -> {Served}
          \cup [op : {"upsert"}, user : Users, role : Roles, phone : Phones, met : BOOLEAN]
          \cup [op : {"insert", "devices"}, user : Users, audience : Audiences]
          \cup [op : {"push"}, user : Users, phones : SUBSET Phones]
          \cup [op : {"read", "clear"}, id : Notes]
          \cup [op : {"prefer"}, user : Users, kinds : SUBSET NoteKinds]]

NoticesInit ==
    /\ deviceToken = {} /\ uninstalled = {} /\ tangled = {}
    /\ note = [i \in Notes |-> NoNote]
    /\ muted = [u \in Users |-> {}] /\ folds = 0
    /\ notifying = [q \in Requests |-> Served]
    /\ signedInOn = [p \in Phones |-> Unowned]

(***************************************************************************)
(* registerDeviceToken deletes the rows of the token that other users      *)
(* have, then upserts the one of this user with the role of the session.   *)
(* It is called at every start of the app, and after every sign-in.        *)
(***************************************************************************)
Registering(p) == {q \in Requests : notifying[q].op = "upsert" /\ notifying[q].phone = p}

\* Mutant: the rows of the other users stay.
deleteNothing(q, u, r, p) ==
    /\ notifying[q] = Served /\ p \notin uninstalled
    /\ notifying' = [w \in Requests |->
         IF w = q THEN [op |-> "upsert", user |-> u, role |-> r, phone |-> p,
                        met |-> Registering(p) # {}]
         ELSE IF w \in Registering(p) THEN [notifying[w] EXCEPT !.met = TRUE] ELSE notifying[w]]
    /\ UNCHANGED <<deviceToken, uninstalled, note, muted, folds, signedInOn, tangled>>

registerDeviceToken(q, u, r, p) ==
    /\ notifying[q] = Served /\ p \notin uninstalled
    /\ deviceToken' = {d \in deviceToken : d.phone = p => d.user = u}
    /\ notifying' = [w \in Requests |->
         IF w = q THEN [op |-> "upsert", user |-> u, role |-> r, phone |-> p,
                        met |-> Registering(p) # {}]
         ELSE IF w \in Registering(p) THEN [notifying[w] EXCEPT !.met = TRUE] ELSE notifying[w]]
    /\ UNCHANGED <<uninstalled, note, muted, folds, signedInOn, tangled>>

upsertToken(q) ==
    LET row == [user |-> notifying[q].user, role |-> notifying[q].role,
                phone |-> notifying[q].phone] IN
    /\ notifying[q].op = "upsert"
    /\ deviceToken' = {d \in deviceToken : ~(d.phone = row.phone /\ d.user = row.user)} \cup {row}
    /\ signedInOn' = [signedInOn EXCEPT ![row.phone] = [user |-> row.user, role |-> row.role]]
    /\ tangled' = IF notifying[q].met THEN tangled \cup {row.phone} ELSE tangled \ {row.phone}
    /\ notifying' = [notifying EXCEPT ![q] = Served]
    /\ UNCHANGED <<uninstalled, note, muted, folds>>

\* removeDeviceToken, and a logout that names the token.
removeDeviceToken(p) ==
    /\ deviceToken' = {d \in deviceToken : d.phone # p}
    /\ signedInOn' = [signedInOn EXCEPT ![p] = Unowned]
    /\ UNCHANGED <<uninstalled, note, muted, folds, notifying, tangled>>

\* A logout that names none, and the deletion of an account by an admin.
removeAllOf(u) ==
    /\ deviceToken' = {d \in deviceToken : d.user # u}
    /\ signedInOn' = [p \in Phones |-> IF signedInOn[p].user = u THEN Unowned ELSE signedInOn[p]]
    /\ UNCHANGED <<uninstalled, note, muted, folds, notifying, tangled>>

(***************************************************************************)
(* dispatchNotification.  Loads the preferences and leaves out who has     *)
(* switched the kind off; inserts a row; and pushes, unless the user has   *)
(* switched pushes off (left open): reads the phones of the user in the    *)
(* role addressed, sends, and deletes the rows of the tokens that are      *)
(* dead.  The badge of a push is left out.                                 *)
(***************************************************************************)
Reaches(audience, role) == "all" \in {audience, role} \/ audience = role

dispatchNotification(q, u, kind, audience) ==
    /\ notifying[q] = Served /\ kind \notin muted[u]
    /\ notifying' = [notifying EXCEPT ![q] = [op |-> "insert", user |-> u, audience |-> audience]]
    /\ UNCHANGED <<deviceToken, uninstalled, note, muted, folds, signedInOn, tangled>>

insertNote(q, i) ==
    /\ notifying[q].op = "insert" /\ note[i] = NoNote
    /\ note' = [note EXCEPT ![i] = [user |-> notifying[q].user, audience |-> notifying[q].audience,
                                    unread |-> TRUE, cleared |-> FALSE]]
    /\ \E next \in {Served, [notifying[q] EXCEPT !.op = "devices"]} :
          notifying' = [notifying EXCEPT ![q] = next]
    /\ UNCHANGED <<deviceToken, uninstalled, muted, folds, signedInOn, tangled>>

sendPushToUsers(q) ==
    LET phones == {d.phone : d \in {d \in deviceToken : d.user = notifying[q].user
                                       /\ Reaches(notifying[q].audience, d.role)}} IN
    /\ notifying[q].op = "devices"
    /\ notifying' = [notifying EXCEPT ![q] =
         IF phones = {} THEN Served
         ELSE [op |-> "push", user |-> notifying[q].user, phones |-> phones]]
    /\ UNCHANGED <<deviceToken, uninstalled, note, muted, folds, signedInOn, tangled>>

\* sendPushToToken: the tokens Firebase answers are not registered any more.
StaleTokens(q) == notifying[q].phones \cap uninstalled

pushEach(q) ==
    /\ notifying[q].op = "push"
    /\ deviceToken' = {d \in deviceToken :
         ~(d.user = notifying[q].user /\ d.phone \in StaleTokens(q))}
    /\ notifying' = [notifying EXCEPT ![q] = Served]
    /\ UNCHANGED <<uninstalled, note, muted, folds, signedInOn, tangled>>

(***************************************************************************)
(* The feed of one role of a user: the rows that are not cleared, read or  *)
(* cleared one at a time, by id once found, or all with one UPDATE.        *)
(***************************************************************************)
Feed(u, r) == {i \in Notes : note[i].user = u /\ Reaches(note[i].audience, r) /\ ~note[i].cleared}

markNotificationRead(q, u, r, i) ==
    /\ notifying[q] = Served /\ i \in Feed(u, r) /\ note[i].unread
    /\ notifying' = [notifying EXCEPT ![q] = [op |-> "read", id |-> i]]
    /\ UNCHANGED <<deviceToken, uninstalled, note, muted, folds, signedInOn, tangled>>

clearNotification(q, u, r, i) ==
    /\ notifying[q] = Served /\ i \in Feed(u, r)
    /\ notifying' = [notifying EXCEPT ![q] = [op |-> "clear", id |-> i]]
    /\ UNCHANGED <<deviceToken, uninstalled, note, muted, folds, signedInOn, tangled>>

stampNote(q) ==
    /\ \/ notifying[q].op = "read" /\ note' = [note EXCEPT ![notifying[q].id].unread = FALSE]
       \/ notifying[q].op = "clear" /\ note' = [note EXCEPT ![notifying[q].id].cleared = TRUE]
    /\ notifying' = [notifying EXCEPT ![q] = Served]
    /\ UNCHANGED <<deviceToken, uninstalled, muted, folds, signedInOn, tangled>>

markAllRead(u, r) ==
    /\ note' = [i \in Notes |-> IF i \in Feed(u, r) THEN [note[i] EXCEPT !.unread = FALSE]
                                ELSE note[i]]
    /\ UNCHANGED <<deviceToken, uninstalled, muted, folds, notifying, signedInOn, tangled>>

clearAllNotifications(u, r) ==
    /\ note' = [i \in Notes |-> IF i \in Feed(u, r) THEN [note[i] EXCEPT !.cleared = TRUE]
                                ELSE note[i]]
    /\ UNCHANGED <<deviceToken, uninstalled, muted, folds, notifying, signedInOn, tangled>>

(***************************************************************************)
(* updatePreferences reads the stored preferences, merges the change and   *)
(* writes the whole.                                                       *)
(***************************************************************************)
updatePreferences(q, u, kind, off) ==
    /\ notifying[q] = Served /\ folds < MaxFolds /\ folds' = folds + 1
    /\ notifying' = [notifying EXCEPT ![q] =
         [op |-> "prefer", user |-> u,
          kinds |-> IF off THEN muted[u] \cup {kind} ELSE muted[u] \ {kind}]]
    /\ UNCHANGED <<deviceToken, uninstalled, note, muted, signedInOn, tangled>>

writePreferences(q) ==
    /\ notifying[q].op = "prefer"
    /\ muted' = [muted EXCEPT ![notifying[q].user] = notifying[q].kinds]
    /\ notifying' = [notifying EXCEPT ![q] = Served]
    /\ UNCHANGED <<deviceToken, uninstalled, note, folds, signedInOn, tangled>>

\* The app is removed from a phone, and Firebase refuses its token from then on.
Uninstall(p) ==
    /\ uninstalled' = uninstalled \cup {p}
    /\ UNCHANGED <<deviceToken, note, muted, folds, notifying, signedInOn, tangled>>

notificationServiceRestarts ==
    /\ \E q \in Requests : notifying[q] # Served
    /\ notifying' = [q \in Requests |-> Served]
    /\ UNCHANGED <<deviceToken, uninstalled, note, muted, folds, signedInOn, tangled>>

NoticesNext ==
    \/ \E q \in Requests :
          \/ \E u \in Users, r \in Roles :
                \/ \E p \in Phones : registerDeviceToken(q, u, r, p)
                \/ \E i \in Notes :
                      markNotificationRead(q, u, r, i) \/ clearNotification(q, u, r, i)
          \/ \E u \in Users, k \in NoteKinds :
                \/ \E a \in Audiences : dispatchNotification(q, u, k, a)
                \/ \E off \in BOOLEAN : updatePreferences(q, u, k, off)
          \/ \E i \in Notes : insertNote(q, i)
          \/ upsertToken(q) \/ sendPushToUsers(q) \/ pushEach(q)
          \/ stampNote(q) \/ writePreferences(q)
    \/ \E p \in Phones : removeDeviceToken(p) \/ Uninstall(p)
    \/ \E u \in Users :
          removeAllOf(u) \/ \E r \in Roles : markAllRead(u, r) \/ clearAllNotifications(u, r)
    \/ notificationServiceRestarts

(***************************************************************************)
(* A phone gets the notifications of whoever is signed in on it, and of    *)
(* nobody who was before: every row of a token is the last registration's, *)
(* whatever requests are cut off, unless it overlapped another of that     *)
(* phone.                                                                  *)
(***************************************************************************)
DeviceHasOneOwner ==
    \A d \in deviceToken :
       d.phone \notin tangled => signedInOn[d.phone] = [user |-> d.user, role |-> d.role]
=============================================================================
