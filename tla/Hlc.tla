-------------------------------- MODULE Hlc --------------------------------
(***************************************************************************)
(* The hybrid logical clock that stamps what the hub fans out              *)
(* (services/gateway-hub/src/hlc.ts).  Date.now() is the wall clock: it    *)
(* may stand still between two calls, and it may be set back.              *)
(***************************************************************************)
EXTENDS Integers

CONSTANTS
    MaxTime,     \* bound: readings of a wall clock
    MaxCounter   \* bound: logical counters

ASSUME HlcAssumption == MaxTime \in Nat /\ MaxCounter \in Nat

VARIABLES
    lastPhysicalTime,
    logicalCounter,
    issued,      \* every timestamp that now() and update() have returned
    received     \* every remote timestamp given to update()

hlcVars == <<lastPhysicalTime, logicalCounter, issued, received>>

Time == 0..MaxTime

Timestamp == [physicalTime : Time, logicalCounter : Nat]

\* The remote timestamps a client may present.
Remotes == [physicalTime : Time, logicalCounter : 0..MaxCounter]

Current == [physicalTime |-> lastPhysicalTime, logicalCounter |-> logicalCounter]

HlcInit ==
    /\ lastPhysicalTime \in Time
    /\ logicalCounter = 0
    /\ issued = {}
    /\ received = {}

\* The clock takes a new value and returns it.
Return(physical, counter) ==
    /\ counter =< MaxCounter
    /\ lastPhysicalTime' = physical
    /\ logicalCounter' = counter
    /\ issued' = issued \cup {[physicalTime |-> physical,
                               logicalCounter |-> counter]}

\* A bug: the wall clock is taken as it is.
NowFollowsWall(physical) ==
    /\ Return(physical, IF physical # lastPhysicalTime THEN 0
                        ELSE logicalCounter + 1)
    /\ UNCHANGED received

\* now()
Now(physical) ==
    /\ IF physical > lastPhysicalTime
       THEN Return(physical, 0)
       ELSE Return(lastPhysicalTime, logicalCounter + 1)
    /\ UNCHANGED received

MaxPhysical(physical, remote) ==
    CHOOSE m \in {physical, lastPhysicalTime, remote.physicalTime} :
        m >= physical /\ m >= lastPhysicalTime /\ m >= remote.physicalTime

\* The counter that update() takes, by the clock that is ahead.
UpdateCounter(physical, remote) ==
    LET max == MaxPhysical(physical, remote)
    IN  CASE max = lastPhysicalTime /\ max = remote.physicalTime ->
               IF remote.logicalCounter > logicalCounter
               THEN remote.logicalCounter + 1 ELSE logicalCounter + 1
          [] max = lastPhysicalTime /\ max # remote.physicalTime ->
               logicalCounter + 1
          [] max # lastPhysicalTime /\ max = remote.physicalTime ->
               remote.logicalCounter + 1
          [] OTHER -> 0

\* update(remote)
Update(physical, remote) ==
    /\ Return(MaxPhysical(physical, remote), UpdateCounter(physical, remote))
    /\ received' = received \cup {remote}

HlcNext ==
    \E physical \in Time :
        \/ Now(physical)
        \/ \E remote \in Remotes : Update(physical, remote)

HlcSpec == HlcInit /\ [][HlcNext]_hlcVars

-----------------------------------------------------------------------------
(***************************************************************************)
(* Properties.                                                             *)
(***************************************************************************)

\* HybridLogicalClock.compare(a, b) < 0.
Before(a, b) ==
    \/ a.physicalTime < b.physicalTime
    \/ /\ a.physicalTime = b.physicalTime
       /\ a.logicalCounter < b.logicalCounter

\* Typing: the clock holds the reading of some wall clock, its own or a
\* remote one, and never runs ahead of all of them.
HlcTypeOK ==
    /\ lastPhysicalTime \in Time
    /\ logicalCounter \in Nat
    /\ issued \subseteq Timestamp
    /\ received \subseteq Remotes

\* The clock never falls behind what it has issued or been shown: every
\* issued timestamp is at most the clock's, and every remote one is before it.
ClockCovers ==
    /\ \A t \in issued : t = Current \/ Before(t, Current)
    /\ \A r \in received : Before(r, Current)

\* What happens later is stamped later: a timestamp that is returned is after
\* every timestamp returned before it and every remote one merged before it,
\* also when the wall clock stands still or is set back.
Causal(stamp) == \A t \in issued \cup received : Before(t, stamp)
IssuesLater == [][Causal(Current')]_hlcVars
=============================================================================
