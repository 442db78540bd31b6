--------------------------- MODULE AdminSessions ----------------------------
(***************************************************************************)
(* A browser signed in to the portal (admin-service).  Its tabs share the  *)
(* cookies: an access token for 15 minutes and a refresh token, issued as  *)
(* a pair whose hashes are rows of admin_sessions.  Tabs whose requests    *)
(* are refused refresh the pair, all at once if it happens so, and the     *)
(* pair they send is rotated and revoked.                                  *)
(***************************************************************************)
EXTENDS Naturals

CONSTANTS
    Pairs,         \* ids of pairs of tokens
    Tabs,          \* requests of the browser that run in parallel
    MaxStandings,  \* bound on the changes of the account's status
    NoPair

ASSUME AdminSessionsAssumption == NoPair \notin Pairs /\ MaxStandings \in Nat

VARIABLES
    standing,   \* admin_users.status
    standings,  \* how often it has changed
    refreshRow, \* the row of each refresh token
    accessRow,  \* the row of each access token
    cookies,    \* the pair in the browser's cookies
    tab,        \* what each tab waits for
    trusted     \* history: signed in, and nothing has ended the session since

adminSessionVars ==
    <<standing, standings, refreshRow, accessRow, cookies, tab, trusted>>

Looking == [op |-> "idle", pair |-> NoPair]

AdminSessionsTypeOK ==
    /\ standing \in {"active", "suspended"} /\ standings \in 0..MaxStandings
    /\ refreshRow \in [Pairs -> {"none", "live", "recent", "dead"}]
    /\ accessRow \in [Pairs -> {"none", "live", "revoked", "expired"}]
    /\ cookies \in Pairs \cup {NoPair} /\ trusted \in BOOLEAN
    /\ tab \in [Tabs -> [op : {"idle", "find", "rotate", "issue", "answer", "refuse"},
                         pair : Pairs \cup {NoPair}]]

AdminSessionsInit ==
    /\ standing = "active" /\ standings = 0
    /\ refreshRow = [t \in Pairs |-> "none"] /\ accessRow = [t \in Pairs |-> "none"]
    /\ cookies = NoPair /\ trusted = FALSE
    /\ tab = [b \in Tabs |-> Looking]

\* requireAdmin, on every request: the token's row, and the account's status.
requireAdmin(t) == t # NoPair /\ accessRow[t] = "live" /\ standing = "active"

\* login, in any tab and whatever the cookies are: it reads the account.
signIn(b) ==
    /\ tab[b] = Looking /\ standing = "active"
    /\ tab' = [tab EXCEPT ![b] = [op |-> "issue", pair |-> NoPair]]
    /\ UNCHANGED <<standing, standings, refreshRow, accessRow, cookies, trusted>>

(***************************************************************************)
(* refresh.  Finds the row, revoked less than 30 seconds ago if at all,    *)
(* and the account with it; revokes the row; inserts the new pair; and the *)
(* answer sets the cookies, or clears them.                                *)
(***************************************************************************)
askForRefresh(b) ==
    /\ tab[b] = Looking /\ cookies # NoPair /\ ~requireAdmin(cookies)
    /\ tab' = [tab EXCEPT ![b] = [op |-> "find", pair |-> cookies]]
    /\ UNCHANGED <<standing, standings, refreshRow, accessRow, cookies, trusted>>

\* Mutant: a token revoked by the refresh of another tab is refused.
refreshableUnrevoked(t) == refreshRow[t] = "live" /\ standing = "active"

refreshable(t) == refreshRow[t] \in {"live", "recent"} /\ standing = "active"

\* Tab b has sent token t, which has not been looked up yet.
Carries(b, t) == tab[b].op = "find" /\ tab[b].pair = t

findSession(b) ==
    /\ tab[b].op = "find"
    /\ tab' = [tab EXCEPT ![b].op = IF refreshable(tab[b].pair) THEN "rotate" ELSE "refuse"]
    /\ UNCHANGED <<standing, standings, refreshRow, accessRow, cookies, trusted>>

rotate(b) ==
    /\ tab[b].op = "rotate"
    /\ refreshRow' = [refreshRow EXCEPT ![tab[b].pair] = "recent"]
    /\ tab' = [tab EXCEPT ![b].op = "issue"]
    /\ UNCHANGED <<standing, standings, accessRow, cookies, trusted>>

issue(b, t) ==
    /\ tab[b].op = "issue" /\ refreshRow[t] = "none"
    /\ refreshRow' = [refreshRow EXCEPT ![t] = "live"]
    /\ accessRow' = [accessRow EXCEPT ![t] = "live"]
    /\ tab' = [tab EXCEPT ![b] = [op |-> "answer", pair |-> t]]
    /\ UNCHANGED <<standing, standings, cookies, trusted>>

setAuthCookies(b) ==
    /\ tab[b].op = "answer"
    /\ cookies' = tab[b].pair
    /\ trusted' = (trusted \/ (/\ standing = "active"
                               /\ \A a \in Tabs \ {b} : tab[a] = Looking))
    /\ tab' = [tab EXCEPT ![b] = Looking]
    /\ UNCHANGED <<standing, standings, refreshRow, accessRow>>

clearAuthCookies(b) ==
    /\ tab[b].op = "refuse"
    /\ cookies' = NoPair
    /\ tab' = [tab EXCEPT ![b] = Looking]
    /\ UNCHANGED <<standing, standings, refreshRow, accessRow, trusted>>

\* logout; without its answer the browser keeps the cookies.
signOut(b) ==
    /\ tab[b] = Looking /\ cookies # NoPair
    /\ refreshRow' = [refreshRow EXCEPT ![cookies] = IF @ = "live" THEN "recent" ELSE @]
    /\ accessRow' = [accessRow EXCEPT ![cookies] = IF @ = "live" THEN "revoked" ELSE @]
    /\ cookies' \in {NoPair, cookies} /\ trusted' = FALSE
    /\ UNCHANGED <<standing, standings, tab>>

\* The browser does not get the answer (a closed tab, a cut connection).
LoseAnswer(b) ==
    /\ tab[b].op \in {"answer", "refuse"}
    /\ tab' = [tab EXCEPT ![b] = Looking]
    /\ UNCHANGED <<standing, standings, refreshRow, accessRow, cookies, trusted>>

\* The 15 minutes of an access token.
AccessExpires(t) ==
    /\ accessRow[t] = "live"
    /\ accessRow' = [accessRow EXCEPT ![t] = "expired"]
    /\ UNCHANGED <<standing, standings, refreshRow, cookies, tab, trusted>>

\* The 30 seconds in which a revoked refresh token is still accepted.  They
\* may end while the browser holds the token, or a request with it is on its
\* way: the session is then no longer trusted.
RevocationAges(t) ==
    /\ refreshRow[t] = "recent"
    /\ refreshRow' = [refreshRow EXCEPT ![t] = "dead"]
    /\ trusted' = (trusted /\ cookies # t /\ \A b \in Tabs : ~Carries(b, t))
    /\ UNCHANGED <<standing, standings, accessRow, cookies, tab>>

\* admins.controller's update suspends or activates the account; its tokens stay.
ChangeStanding ==
    /\ standings < MaxStandings /\ standings' = standings + 1
    /\ standing' = IF standing = "active" THEN "suspended" ELSE "active"
    /\ trusted' = FALSE
    /\ UNCHANGED <<refreshRow, accessRow, cookies, tab>>

\* The requests in progress fail, and the cookies stay.
AdminRestarts ==
    /\ \E b \in Tabs : tab[b] # Looking
    /\ tab' = [b \in Tabs |-> Looking]
    /\ UNCHANGED <<standing, standings, refreshRow, accessRow, cookies, trusted>>

AdminSessionsNext ==
    \/ \E b \in Tabs :
          \/ signIn(b) \/ askForRefresh(b) \/ findSession(b) \/ rotate(b)
          \/ \E t \in Pairs : issue(b, t)
          \/ setAuthCookies(b) \/ clearAuthCookies(b) \/ LoseAnswer(b) \/ signOut(b)
    \/ \E t \in Pairs : AccessExpires(t) \/ RevocationAges(t)
    \/ ChangeStanding \/ AdminRestarts

(***************************************************************************)
(* An admin who signed in stays signed in until signing out or being       *)
(* suspended, however the tabs' sign-ins and refreshes overlap and         *)
(* whatever answers a restart or the network loses: the browser holds a    *)
(* refresh token that is accepted, and no answer is under way that takes   *)
(* it away.  Excepted is a browser that still uses a revoked token when    *)
(* its 30 seconds end.  As a request takes less than half of them, that    *)
(* needs a lost answer that the browser does not ask for again in time;    *)
(* the code then signs the admin out.                                      *)
(***************************************************************************)
AdminStaysSignedIn ==
    trusted => /\ cookies # NoPair /\ refreshable(cookies)
               /\ \A b \in Tabs : tab[b].op # "refuse"
=============================================================================
