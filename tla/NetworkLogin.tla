---------------------------- MODULE NetworkLogin ----------------------------
(***************************************************************************)
(* The network client of the hub                                           *)
(* (services/gateway-hub/src/zalo_network_client.ts): the login from the   *)
(* browser's session, which the hub's 4 s timer starts until it succeeds,  *)
(* the realtime listener and the periodic synchronisation of friends and   *)
(* groups.  Every await of a login or of a synchronisation is a point      *)
(* where the timer, an endpoint or another call runs.                      *)
(***************************************************************************)
EXTENDS Integers, FiniteSets

CONSTANTS
    Attempts,   \* calls of initFromBrowserSession that may overlap
    Syncs,      \* calls of syncNetworkData that may overlap
    Friends,    \* what getAllFriends returns
    Groups      \* what getAllGroups returns

VARIABLES
    cookies,       \* the browser holds a Zalo session (external)
    api,           \* this.api is set
    isConnecting,
    attempt,       \* the await each login call is at
    started,       \* listeners started on an api
    intervals,     \* sync intervals that tick
    sync,          \* where each synchronisation is
    listed         \* ids upserted into the conversations table

loginVars == <<cookies, api, isConnecting, attempt, started, intervals,
               sync, listed>>

NoSync == [at |-> "idle", left |-> {}, failed |-> {}, done |-> FALSE]

LoginInit ==
    /\ cookies = FALSE
    /\ api = FALSE
    /\ isConnecting = FALSE
    /\ attempt = [a \in Attempts |-> "none"]
    /\ started = 0
    /\ intervals = 0
    /\ sync = [y \in Syncs |-> NoSync]
    /\ listed = {}

\* The user signs in or out in the browser.
BrowserSession ==
    /\ cookies' = ~cookies
    /\ UNCHANGED <<api, isConnecting, attempt, started, intervals, sync, listed>>

-----------------------------------------------------------------------------
(***************************************************************************)
(* initFromBrowserSession.                                                 *)
(***************************************************************************)

\* A bug: the flag is not looked at.
SessionCheckUnguarded(a) ==
    /\ ~api
    /\ attempt[a] = "none"
    /\ isConnecting' = TRUE
    /\ attempt' = [attempt EXCEPT ![a] = "cookies"]
    /\ UNCHANGED <<cookies, api, started, intervals, sync, listed>>

\* The timer ticks while the client is not ready; a login in progress makes
\* the call return at once.
SessionCheck(a) ==
    /\ ~api /\ ~isConnecting
    /\ attempt[a] = "none"
    /\ isConnecting' = TRUE
    /\ attempt' = [attempt EXCEPT ![a] = "cookies"]
    /\ UNCHANGED <<cookies, api, started, intervals, sync, listed>>

\* A bug: the early return leaves the flag set.
NoSessionYetFlagged(a) ==
    /\ attempt[a] = "cookies"
    /\ ~cookies
    /\ attempt' = [attempt EXCEPT ![a] = "none"]
    /\ UNCHANGED <<cookies, api, isConnecting, started, intervals, sync, listed>>

\* No cookies, or none of a session: return false.
NoSessionYet(a) ==
    /\ attempt[a] = "cookies"
    /\ ~cookies
    /\ isConnecting' = FALSE
    /\ attempt' = [attempt EXCEPT ![a] = "none"]
    /\ UNCHANGED <<cookies, api, started, intervals, sync, listed>>

\* An exception of the CDP command or of the login.
LoginThrows(a) ==
    /\ attempt[a] \in {"cookies", "login"}
    /\ api' = FALSE
    /\ isConnecting' = FALSE
    /\ attempt' = [attempt EXCEPT ![a] = "none"]
    /\ UNCHANGED <<cookies, started, intervals, sync, listed>>

CookiesFound(a) ==
    /\ attempt[a] = "cookies"
    /\ cookies
    /\ attempt' = [attempt EXCEPT ![a] = "imei"]
    /\ UNCHANGED <<cookies, api, isConnecting, started, intervals, sync, listed>>

\* The IMEI is read or, when that fails, made up.
ImeiRead(a) ==
    /\ attempt[a] = "imei"
    /\ attempt' = [attempt EXCEPT ![a] = "login"]
    /\ UNCHANGED <<cookies, api, isConnecting, started, intervals, sync, listed>>

\* From here on isReady() holds, before the listener is there.
LoggedIn(a) ==
    /\ attempt[a] = "login"
    /\ api' = TRUE
    /\ attempt' = [attempt EXCEPT ![a] = "profile"]
    /\ UNCHANGED <<cookies, isConnecting, started, intervals, sync, listed>>

\* syncNetworkData up to its first await.
StartSync(y) ==
    /\ sync[y].at = "idle"
    /\ sync' = [sync EXCEPT ![y] = [NoSync EXCEPT !.at = "friends"]]

\* Without a listener in the api it returns silently, and an exception on the
\* way to its start is swallowed.
SetupNetworkListener ==
    \/ started' = started + 1
    \/ UNCHANGED started

\* The profile has been read or not; the listener, a first synchronisation
\* and the interval are started.
ProfileRead(a) ==
    /\ attempt[a] = "profile"
    /\ SetupNetworkListener
    /\ intervals' = 1
    /\ isConnecting' = FALSE
    /\ attempt' = [attempt EXCEPT ![a] = "none"]
    /\ \E y \in Syncs : StartSync(y)
    /\ UNCHANGED <<cookies, api, listed>>

-----------------------------------------------------------------------------
(***************************************************************************)
(* syncNetworkData, called by the interval and by three endpoints.         *)
(***************************************************************************)
SyncCalled(y) ==
    /\ api
    /\ StartSync(y)
    /\ UNCHANGED <<cookies, api, isConnecting, attempt, started, intervals, listed>>

\* getAllFriends: each friend becomes a contact and a conversation; a failure
\* is logged and the groups are tried all the same.
FriendsFetched(y, ok) ==
    /\ sync[y].at = "friends"
    /\ listed' = IF ok THEN listed \cup Friends ELSE listed
    /\ sync' = [sync EXCEPT ![y].at = "groups",
                            ![y].failed = IF ok THEN {} ELSE Friends]
    /\ UNCHANGED <<cookies, api, isConnecting, attempt, started, intervals>>

\* getAllGroups
GroupsFetched(y, ok) ==
    /\ sync[y].at = "groups"
    /\ sync' = [sync EXCEPT ![y].at = "info",
                            ![y].left = IF ok THEN Groups ELSE {},
                            ![y].failed = IF ok THEN @ ELSE @ \cup Groups]
    /\ UNCHANGED <<cookies, api, isConnecting, attempt, started, intervals, listed>>

\* A bug: the first group that fails ends the loop.
GroupInfoBreaks(y, g, ok) ==
    /\ sync[y].at = "info"
    /\ g \in sync[y].left
    /\ listed' = IF ok THEN listed \cup {g} ELSE listed
    /\ sync' = [sync EXCEPT ![y].left = IF ok THEN @ \ {g} ELSE {},
                            ![y].failed = IF ok THEN @ ELSE @ \cup {g}]
    /\ UNCHANGED <<cookies, api, isConnecting, attempt, started, intervals>>

\* getGroupInfo of one group; its failure is swallowed.
GroupInfo(y, g, ok) ==
    /\ sync[y].at = "info"
    /\ g \in sync[y].left
    /\ listed' = IF ok THEN listed \cup {g} ELSE listed
    /\ sync' = [sync EXCEPT ![y].left = @ \ {g},
                            ![y].failed = IF ok THEN @ ELSE @ \cup {g}]
    /\ UNCHANGED <<cookies, api, isConnecting, attempt, started, intervals>>

SyncReturns(y) ==
    /\ sync[y].at = "info"
    /\ sync[y].left = {}
    /\ sync' = [sync EXCEPT ![y].at = "idle", ![y].done = TRUE]
    /\ UNCHANGED <<cookies, api, isConnecting, attempt, started, intervals, listed>>

SyncStep(y) ==
    \/ \E ok \in BOOLEAN : FriendsFetched(y, ok) \/ GroupsFetched(y, ok)
    \/ \E g \in Groups, ok \in BOOLEAN : GroupInfo(y, g, ok)
    \/ SyncReturns(y)

\* A login call goes on: its CDP commands have timeouts and the requests to
\* Zalo end.
AttemptGoesOn(a) ==
    NoSessionYet(a) \/ CookiesFound(a) \/ ImeiRead(a) \/ LoginThrows(a)
    \/ ProfileRead(a)

LoginNext ==
    \/ BrowserSession
    \/ \E a \in Attempts : SessionCheck(a) \/ AttemptGoesOn(a) \/ LoggedIn(a)
    \/ \E y \in Syncs : SyncCalled(y) \/ SyncStep(y)

-----------------------------------------------------------------------------
\* Every way out of a login call accounts for what it set, whatever ticks and
\* fails: no second listener is started, so that realtime messages arrive once,
\* and one interval ticks; the flag that keeps other logins out is not left
\* behind by a call that has returned; and a client that is ready has its
\* interval, or a call that is about to start it.  It may have no listener.
LoginAccounted ==
    /\ started <= 1 /\ intervals <= 1
    /\ isConnecting => \E a \in Attempts : attempt[a] # "none"
    /\ api => intervals = 1 \/ \E a \in Attempts : attempt[a] = "profile"

\* A request that fails costs its own friends or its own group only: when a
\* synchronisation has returned, everything else it asked for is listed.
SyncKeepsGoing ==
    \A y \in Syncs : sync[y].done =>
        (Friends \cup Groups) \ sync[y].failed \subseteq listed
=============================================================================
