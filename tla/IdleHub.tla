------------------------------ MODULE IdleHub ------------------------------
(***************************************************************************)
(* The register of idle sessions (crates/zalo-daemon/src/epoll_hub.rs).    *)
(* The map and the counter are two shared objects: an operation changes    *)
(* the map and then the counter, and operations of other threads run in    *)
(* between.  The counter is a usize: it wraps at UsizeMax.                 *)
(***************************************************************************)
EXTENDS Integers, FiniteSets

CONSTANTS
    Threads,
    Accounts,
    UsizeMax,  \* usize::MAX, which the target's word size decides
    MaxCalls   \* bound: register calls

ASSUME IdleAssumption ==
    /\ UsizeMax \in Nat /\ MaxCalls \in 0..UsizeMax
    /\ IsFiniteSet(Threads) /\ IsFiniteSet(Accounts)

VARIABLES
    sessions,      \* accounts in the DashMap
    active_count,
    doing,         \* what each thread still has to do to the counter
    calls          \* register calls so far

idleVars == <<sessions, active_count, doing, calls>>

IdleInit ==
    /\ sessions = {}
    /\ active_count = 0
    /\ doing = [t \in Threads |-> "none"]
    /\ calls = 0

\* register_idle_session: insert (or overwrite), then fetch_add.
RegisterIdleSession(t, a) ==
    /\ doing[t] = "none"
    /\ calls < MaxCalls
    /\ sessions' = sessions \cup {a}
    /\ doing' = [doing EXCEPT ![t] = "add"]
    /\ calls' = calls + 1
    /\ UNCHANGED active_count

FetchAdd(t) ==
    /\ doing[t] = "add"
    /\ active_count' = (active_count + 1) % (UsizeMax + 1)
    /\ doing' = [doing EXCEPT ![t] = "none"]
    /\ UNCHANGED <<sessions, calls>>

\* A bug: the counter is lowered although the account was not there.
UnregisterAlways(t, a) ==
    /\ doing[t] = "none"
    /\ sessions' = sessions \ {a}
    /\ doing' = [doing EXCEPT ![t] = "sub"]
    /\ UNCHANGED <<active_count, calls>>

\* unregister_session: only the thread whose remove found the entry goes on
\* to fetch_sub.
UnregisterSession(t, a) ==
    /\ doing[t] = "none"
    /\ a \in sessions
    /\ sessions' = sessions \ {a}
    /\ doing' = [doing EXCEPT ![t] = "sub"]
    /\ UNCHANGED <<active_count, calls>>

FetchSub(t) ==
    /\ doing[t] = "sub"
    /\ active_count' = (active_count - 1) % (UsizeMax + 1)
    /\ doing' = [doing EXCEPT ![t] = "none"]
    /\ UNCHANGED <<sessions, calls>>

IdleNext ==
    \E t \in Threads :
        \/ \E a \in Accounts : RegisterIdleSession(t, a) \/ UnregisterSession(t, a)
        \/ FetchAdd(t)
        \/ FetchSub(t)

-----------------------------------------------------------------------------
Quiet == \A t \in Threads : doing[t] = "none"

\* Between operations get_idle_count is at least the number of sessions and at
\* most the number of registrations: a decrement that overtook its increment
\* wrapped around zero and came back, and no account was taken off twice.
CountCovers ==
    Quiet => Cardinality(sessions) <= active_count /\ active_count <= calls
=============================================================================
