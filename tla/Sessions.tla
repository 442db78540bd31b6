------------------------------ MODULE Sessions ------------------------------
(***************************************************************************)
(* The sessions of one account: refresh tokens and their rotation          *)
(* (tokens.js, user-service), the account status each service process      *)
(* caches (middleware/auth.js), the sockets of messaging-service with the  *)
(* presence it shows to the account's peers, and the portal that suspends  *)
(* and removes the account.  Access tokens are signed and not stored; one  *)
(* that has not expired is accepted as long as the status says active.     *)
(***************************************************************************)
EXTENDS Naturals, FiniteSets

CONSTANTS
    Tokens,     \* ids of refresh tokens
    Threads,    \* requests of the account's device that run in parallel
    Processes,  \* service processes that cache the status
    Sockets,    \* ids of sockets
    MaxSwitches,\* bound on the changes of the account's status
    NoToken

ASSUME SessionsAssumption == NoToken \notin Tokens /\ MaxSwitches \in Nat

VARIABLES
    status,     \* users.status
    switches,   \* how often it has changed
    told,       \* history: messaging-service is told of the last change
    token,      \* rows of refresh_tokens
    stored,     \* the refresh token the device keeps
    entitled,   \* history: signed in, and nothing has ended the session since
    thread,     \* the device's requests
    portal,     \* what the admin's request has left to do
    cached,     \* userStatusCache of each process
    looking,    \* what each process has read and not yet put in its cache
    socket,     \* the sockets
    kicking,    \* a disconnectSockets timer is set
    timers,     \* presence timers that are set
    shown,      \* what the peers were last told: the account is online
    crowded     \* history: a socket opened within half a second of another

sessionVars == <<status, switches, told, token, stored, entitled, thread, portal, cached, looking,
                 socket, kicking, timers, shown, crowded>>

tokenVars  == <<token, stored, entitled, thread>>
cacheVars  == <<cached, looking>>
socketVars == <<socket, kicking, timers, shown, crowded>>

Doing(op, t) == [op |-> op, token |-> t]
Free         == Doing("free", NoToken)

(***************************************************************************)
(* A revoked token is "recent" for the thirty seconds in which it is still *)
(* accepted, whatever revoked it, and "dead" afterwards.  A cache entry is *)
(* "none" when absent or older than a minute.                              *)
(***************************************************************************)
SessionsTypeOK ==
    /\ status \in {"active", "suspended", "deleted"} /\ switches \in 0..MaxSwitches /\ told \in BOOLEAN
    /\ token \in [Tokens -> {"unissued", "live", "recent", "dead"}]
    /\ stored \in Tokens \cup {NoToken} /\ entitled \in BOOLEAN
    /\ thread \in [Threads -> [op : {"free", "refresh", "issue", "answer", "refused"},
                               token : Tokens \cup {NoToken}]]
    /\ portal \in {"idle", "revoke", "notify"}
    /\ cached \in [Processes -> {"none", "active", "inactive"}]
    /\ looking \in [Processes -> {"none", "active", "inactive"}]
    /\ socket \in [Sockets -> {"off", "handshake", "admitted", "on"}]
    /\ kicking \in BOOLEAN /\ shown \in BOOLEAN /\ crowded \in BOOLEAN
    /\ timers \subseteq {"online", "offline"} \X Sockets

SessionsInit ==
    /\ status = "active" /\ switches = 0 /\ told = FALSE
    /\ token = [t \in Tokens |-> "unissued"]
    /\ stored = NoToken /\ entitled = FALSE
    /\ thread = [r \in Threads |-> Free]
    /\ portal = "idle"
    /\ cached = [p \in Processes |-> "none"] /\ looking = [p \in Processes |-> "none"]
    /\ socket = [s \in Sockets |-> "off"]
    /\ kicking = FALSE /\ timers = {} /\ shown = FALSE /\ crowded = FALSE

-----------------------------------------------------------------------------
(***************************************************************************)
(* Tokens.  A refresh finds its token, checks the status read with it and  *)
(* revokes the token; issueTokens then inserts the new one, which the      *)
(* device stores when the answer arrives.  Answers get lost, and so do     *)
(* requests in progress when the service restarts.                         *)
(***************************************************************************)
Begin(r, op, t) ==
    /\ thread[r] = Free
    /\ thread' = [thread EXCEPT ![r] = Doing(op, t)]

login(r) ==
    /\ status = "active"
    /\ Begin(r, "issue", NoToken)
    /\ UNCHANGED <<token, stored, entitled>>

\* verifyOtp(login) signs in whoever the code names.
loginByCode(r) ==
    /\ Begin(r, "issue", NoToken)
    /\ UNCHANGED <<token, stored, entitled>>

refresh(r) ==
    /\ stored # NoToken
    /\ Begin(r, "refresh", stored)
    /\ UNCHANGED <<token, stored, entitled>>

\* Mutant: only a token that is not revoked is accepted.
AcceptedLive(t) == token[t] = "live"

Accepted(t) == token[t] \in {"live", "recent"}

Revoke(t) == [token EXCEPT ![t] = IF @ \in {"live", "recent"} THEN "recent" ELSE @]

lookupRefreshToken(r) ==
    LET t == thread[r].token IN
    /\ thread[r].op = "refresh"
    /\ Accepted(t) /\ status = "active"
    /\ token' = Revoke(t)
    /\ thread' = [thread EXCEPT ![r] = Doing("issue", NoToken)]
    /\ UNCHANGED <<stored, entitled>>

\* The answer is 401.
refreshRefused(r) ==
    LET t == thread[r].token IN
    /\ thread[r].op = "refresh"
    /\ ~(Accepted(t) /\ status = "active")
    /\ token' = IF Accepted(t) THEN Revoke(t) ELSE token
    /\ thread' = [thread EXCEPT ![r] = Doing("refused", NoToken)]
    /\ UNCHANGED <<stored, entitled>>

issueTokens(r, t) ==
    /\ thread[r].op = "issue"
    /\ token[t] = "unissued"
    /\ token' = [token EXCEPT ![t] = "live"]
    /\ thread' = [thread EXCEPT ![r] = Doing("answer", t)]
    /\ UNCHANGED <<stored, entitled>>

\* The device keeps the new token, or takes the session for dead.
AnswerArrives(r) ==
    LET t == thread[r].token IN
    /\ thread' = [thread EXCEPT ![r] = Free]
    /\ \/ /\ thread[r].op = "answer" /\ stored' = t
          /\ entitled' = (entitled \/ (/\ token[t] = "live" /\ status = "active"
                                       /\ \A q \in Threads \ {r} : thread[q] = Free))
       \/ thread[r].op = "refused" /\ stored' = NoToken /\ UNCHANGED entitled
    /\ UNCHANGED token

RequestLost(r) ==
    /\ thread[r] # Free
    /\ thread' = [thread EXCEPT ![r] = Free]
    /\ UNCHANGED <<token, stored, entitled>>

(***************************************************************************)
(* The thirty seconds of a revoked token.  They may end while the device   *)
(* keeps the token, or a request with it is on its way: nothing is then    *)
(* said of the session any longer.                                         *)
(***************************************************************************)
GraceEnds(t) ==
    /\ token[t] = "recent"
    /\ token' = [token EXCEPT ![t] = "dead"]
    /\ entitled' = (entitled /\ stored # t /\ \A r \in Threads : thread[r] # Doing("refresh", t))
    /\ UNCHANGED <<stored, thread>>

\* Rows that are not revoked are revoked: revokeAllUserSessions, and the updates that copy it.
AllRevoked == [t \in Tokens |-> IF token[t] = "live" THEN "recent" ELSE token[t]]

logout(r) ==
    /\ thread[r] = Free /\ stored # NoToken
    /\ token' = [token EXCEPT ![stored] = IF @ = "live" THEN "recent" ELSE @]
    /\ stored' = NoToken /\ entitled' = FALSE
    /\ UNCHANGED thread

\* resetPassword and changePassword.
resetPassword ==
    /\ token' = AllRevoked
    /\ entitled' = FALSE
    /\ UNCHANGED <<stored, thread>>

TokenStep ==
    \/ \E r \in Threads : login(r) \/ loginByCode(r) \/ refresh(r) \/ lookupRefreshToken(r)
                          \/ refreshRefused(r) \/ AnswerArrives(r)
                          \/ RequestLost(r) \/ logout(r)
                          \/ \E t \in Tokens : issueTokens(r, t)
    \/ \E t \in Tokens : GraceEnds(t)
    \/ resetPassword

-----------------------------------------------------------------------------
(***************************************************************************)
(* The portal.  setStatus writes the status, revokes the tokens and then   *)
(* tells messaging-service; remove writes and revokes in one transaction   *)
(* and clears the cache of its own process first.  An edit of the account  *)
(* that carries a status, and the owner's own deletion, write the status   *)
(* and do nothing else.  One suspension or removal runs at a time.         *)
(***************************************************************************)
Switch(s, tells) ==
    /\ switches < MaxSwitches
    /\ switches' = switches + 1
    /\ status' = s /\ told' = tells
    /\ entitled' = (entitled /\ s = "active")

suspend ==
    /\ portal = "idle" /\ Switch("suspended", TRUE)
    /\ portal' = "revoke"
    /\ UNCHANGED <<token, stored, thread, cacheVars, socketVars>>

activate ==
    /\ Switch("active", FALSE)
    /\ UNCHANGED <<portal, token, stored, thread, cacheVars, socketVars>>

update ==
    /\ \E s \in {"active", "suspended", "deleted"} : Switch(s, FALSE)
    /\ UNCHANGED <<portal, token, stored, thread, cacheVars, socketVars>>

revokeAllUserSessions ==
    /\ portal = "revoke"
    /\ token' = AllRevoked
    /\ portal' = "notify" /\ entitled' = FALSE
    /\ UNCHANGED <<status, switches, told, stored, thread, cacheVars, socketVars>>

remove ==
    /\ portal = "idle" /\ status # "deleted" /\ Switch("deleted", TRUE)
    /\ token' = AllRevoked
    /\ portal' = "notify"
    /\ UNCHANGED <<stored, thread, cacheVars, socketVars>>

deleteCustomerAccount ==
    /\ status = "active" /\ Switch("deleted", FALSE)
    /\ UNCHANGED <<portal, token, stored, thread, cacheVars, socketVars>>

\* The POST is not repeated: that it arrives is assumed.
accountDisabled ==
    /\ portal = "notify"
    /\ portal' = "idle"
    /\ kicking' = TRUE
    /\ UNCHANGED <<status, switches, told, tokenVars, cacheVars, socket, timers, shown, crowded>>

PortalStep == revokeAllUserSessions \/ accountDisabled
AdminStep  == suspend \/ activate \/ update \/ remove \/ deleteCustomerAccount

-----------------------------------------------------------------------------
(***************************************************************************)
(* The status cache of a process: a request that finds no fresh entry      *)
(* reads the row and stores what it read; the entry lives a minute.  The   *)
(* portal clears the cache of its own process only, so that is one more    *)
(* way for an entry to go.                                                 *)
(***************************************************************************)
Seen == IF status = "active" THEN "active" ELSE "inactive"

checkUserStatus(p) ==
    /\ cached[p] = "none" /\ looking[p] = "none"
    /\ looking' = [looking EXCEPT ![p] = Seen]
    /\ UNCHANGED cached

StatusCached(p) ==
    /\ looking[p] # "none"
    /\ cached' = [cached EXCEPT ![p] = looking[p]]
    /\ looking' = [looking EXCEPT ![p] = "none"]

\* Mutant: an entry that says active is kept.
EntryExpiresInactive(p) ==
    /\ cached[p] = "inactive"
    /\ cached' = [cached EXCEPT ![p] = "none"]
    /\ UNCHANGED looking

EntryExpires(p) ==
    /\ cached[p] # "none"
    /\ cached' = [cached EXCEPT ![p] = "none"]
    /\ UNCHANGED looking

-----------------------------------------------------------------------------
(***************************************************************************)
(* Sockets.  A handshake reads the status once.  On connection a timer of  *)
(* half a second tells the peers if the socket is then the only one; after *)
(* a disconnection one of two seconds tells them if none is left.          *)
(***************************************************************************)
On == {s \in Sockets : socket[s] = "on"}

\* A new socket has an id of its own: one is used again when its timers are done.
handshake(s) ==
    /\ socket[s] = "off" /\ \A k \in {"online", "offline"} : <<k, s>> \notin timers
    /\ socket' = [socket EXCEPT ![s] = "handshake"]
    /\ UNCHANGED <<kicking, timers, shown, crowded>>

Admits(s) ==
    /\ socket[s] = "handshake"
    /\ socket' = [socket EXCEPT ![s] = IF status = "active" THEN "admitted" ELSE "off"]
    /\ UNCHANGED <<kicking, timers, shown, crowded>>

connect(s) ==
    /\ socket[s] = "admitted"
    /\ socket' = [socket EXCEPT ![s] = "on"]
    /\ timers' = timers \cup {<<"online", s>>}
    /\ crowded' = ((\E q \in Sockets : <<"online", q>> \in timers) \/ (crowded /\ On # {}))
    /\ UNCHANGED <<kicking, shown>>

disconnect(s) ==
    /\ socket[s] = "on"
    /\ socket' = [socket EXCEPT ![s] = "off"]
    /\ timers' = timers \cup {<<"offline", s>>}
    /\ UNCHANGED <<kicking, shown, crowded>>

OnlineTimer(s) ==
    /\ <<"online", s>> \in timers
    /\ timers' = timers \ {<<"online", s>>}
    /\ shown' = (shown \/ Cardinality(On) = 1)
    /\ UNCHANGED <<socket, kicking, crowded>>

\* Mutant: the peers are told without looking for another socket.
OfflineTimerAlways(s) ==
    /\ <<"offline", s>> \in timers
    /\ timers' = timers \ {<<"offline", s>>}
    /\ shown' = FALSE
    /\ UNCHANGED <<socket, kicking, crowded>>

OfflineTimer(s) ==
    /\ <<"offline", s>> \in timers
    /\ timers' = timers \ {<<"offline", s>>}
    /\ shown' = (shown /\ On # {})
    /\ UNCHANGED <<socket, kicking, crowded>>

\* A handshake that was admitted takes less than the second the timer waits.
disconnectSockets ==
    /\ kicking /\ \A s \in Sockets : socket[s] # "admitted"
    /\ kicking' = FALSE
    /\ socket' = [s \in Sockets |-> IF s \in On THEN "off" ELSE socket[s]]
    /\ timers' = timers \cup {<<"offline", s>> : s \in On}
    /\ UNCHANGED <<shown, crowded>>

SocketStep ==
    \/ \E s \in Sockets : \/ handshake(s) \/ Admits(s) \/ connect(s) \/ disconnect(s)
                          \/ OnlineTimer(s) \/ OfflineTimer(s)
    \/ disconnectSockets

CacheStep == \E p \in Processes : checkUserStatus(p) \/ StatusCached(p) \/ EntryExpires(p)

TokensMove  == TokenStep /\ UNCHANGED <<status, switches, told, portal, cacheVars, socketVars>>
CachesMove  == CacheStep /\ UNCHANGED <<status, switches, told, portal, tokenVars, socketVars>>
SocketsMove == SocketStep /\ UNCHANGED <<status, switches, told, portal, tokenVars, cacheVars>>

SessionsNext == TokensMove \/ CachesMove \/ SocketsMove \/ PortalStep \/ AdminStep

(***************************************************************************)
(* Requests and timers that have started run on.  Clients are free: no     *)
(* socket need ever be opened or closed.                                   *)
(***************************************************************************)
CacheRuns(p) == (StatusCached(p) \/ EntryExpires(p))
                   /\ UNCHANGED <<status, switches, told, portal, tokenVars, socketVars>>
SocketRuns(s) == (Admits(s) \/ connect(s) \/ OnlineTimer(s))
                    /\ UNCHANGED <<status, switches, told, portal, tokenVars, cacheVars>>
Kicked == disconnectSockets /\ UNCHANGED <<status, switches, told, portal, tokenVars, cacheVars>>

SessionsFairness ==
    /\ WF_sessionVars(PortalStep)
    /\ \A p \in Processes : WF_sessionVars(CacheRuns(p))
    /\ \A s \in Sockets : WF_sessionVars(SocketRuns(s))
    /\ WF_sessionVars(Kicked)

(***************************************************************************)
(* Rotation does not sign a device out (lookupRefreshToken): while nothing *)
(* has ended its session, the token the device keeps is one a refresh      *)
(* accepts and no refusal is on its way, however its requests interleave   *)
(* and whatever answers are lost.  Excepted is a device that still uses a  *)
(* revoked token when its thirty seconds end; as a request takes less than *)
(* half of them, that needs a lost answer that the device does not ask for *)
(* again in time, and the code then signs the device out.                  *)
(***************************************************************************)
SessionSurvives ==
    entitled => /\ stored # NoToken /\ Accepted(stored)
                /\ \A r \in Threads : thread[r].op # "refused"

(***************************************************************************)
(* Presence settles on the truth.  An account without a socket is not      *)
(* shown online for longer than a timer runs; and when no timer is set, an *)
(* account with a socket is shown online.  Excepted from the latter is one *)
(* whose sockets opened within half a second of each other: each timer     *)
(* then finds the other socket, and the code tells the peers nothing.      *)
(***************************************************************************)
PresenceSettles ==
    /\ shown => On # {} \/ \E s \in Sockets : <<"offline", s>> \in timers
    /\ timers = {} /\ ~crowded => (shown <=> On # {})

(***************************************************************************)
(* A suspension or deletion takes hold everywhere: no process takes an     *)
(* account that stays disabled for active any longer, although none is     *)
(* told (checkUserStatus), and if the portal told messaging-service, the   *)
(* account has no socket left, although a handshake looks only once.       *)
(***************************************************************************)
SuspendedIsCutOff ==
    /\ <>[](status # "active") => <>[](\A p \in Processes : cached[p] # "active")
    /\ <>[](status # "active" /\ told) => <>[](On = {})
=============================================================================
