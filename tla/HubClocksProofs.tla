--------------------------- MODULE HubClocksProofs ---------------------------
(***************************************************************************)
(* Proofs about the two users of the wall clock: the rate limiter, for     *)
(* every capacity, rate and clock, and the hybrid logical clock, for every *)
(* run of readings, however often they stand still or are set back.        *)
(***************************************************************************)
EXTENDS HubClocks, SequenceTheorems, TLAPS

-----------------------------------------------------------------------------
(***************************************************************************)
(* The rate limiter.                                                       *)
(***************************************************************************)

\* The inductive invariant of the rate bound.
IInv == TypeOK /\ WindowBound

\* A refill adds at most what the elapsed time is worth, and stops at the
\* capacity.
LEMMA RefillBounds ==
    ASSUME TypeOK, NEW now \in 0..MaxClock
    PROVE  /\ Refill(now) \in Int /\ Refill(now) =< Full
           /\ Refill(now) =< tokens + (now - lastRefillTimestamp) * Rate
           /\ \/ Refill(now) = Full
              \/ Refill(now) = tokens + (now - lastRefillTimestamp) * Rate
  <1>1. Full \in Int
    BY BucketAssumption DEF Full
  <1> DEFINE added == (now - lastRefillTimestamp) * Rate
  <1>2. added \in Int
    BY BucketAssumption DEF TypeOK
  <1>3. Refill(now) = IF tokens + added > Full THEN Full ELSE tokens + added
    BY DEF Refill
  <1> HIDE DEF added
  <1>4. /\ Refill(now) \in Int /\ Refill(now) =< Full
        /\ Refill(now) =< tokens + added
        /\ Refill(now) = Full \/ Refill(now) = tokens + added
    BY <1>1, <1>2, <1>3 DEF TypeOK
  <1> QED  BY <1>4 DEF added

\* What a window is worth grows with the clock as the bucket does.
LEMMA WindowGrows ==
    ASSUME NEW a \in Int, NEW b \in Int, NEW g \in Int
    PROVE  /\ Rate * (b - g) \in Int /\ Rate * (a - g) \in Int
           /\ (b - a) * Rate \in Int
           /\ Rate * (b - g) = Rate * (a - g) + (b - a) * Rate
  BY BucketAssumption, SMT

\* The bucket starts full, with nothing granted.
LEMMA InitIInv == Init => IInv
  <1> SUFFICES ASSUME Init PROVE IInv
    OBVIOUS
  <1>1. Full \in Int
    BY BucketAssumption DEF Full
  <1>2. grants \in Seq(0..MaxClock) /\ DOMAIN grants = {}
    BY DEF Init
  <1>3. TypeOK
    BY <1>1, <1>2 DEF Init, TypeOK
  <1>4. WindowBound
    BY <1>2, Zenon DEF WindowBound
  <1> QED  BY <1>3, <1>4 DEF IInv

\* A refill at a new reading of the clock keeps every window's bound.
LEMMA RefillKeepsWindow ==
    ASSUME IInv, NEW now \in 0..MaxClock, NEW i \in DOMAIN grants
    PROVE  Unit * (Len(grants) - i + 1) + Refill(now)
               =< Full + Rate * (now - grants[i])
  <1>1. i \in Nat /\ Len(grants) \in Nat /\ grants[i] \in 0..MaxClock
    <2>1. grants \in Seq(0..MaxClock)
      BY DEF IInv, TypeOK
    <2>2. Len(grants) \in Nat /\ DOMAIN grants = 1..Len(grants)
      BY <2>1
    <2>3. grants[i] \in 0..MaxClock
      BY <2>1, <2>2, ElementOfSeq
    <2> QED  BY <2>2, <2>3
  <1> DEFINE spent == Unit * (Len(grants) - i + 1)
             old   == Rate * (lastRefillTimestamp - grants[i])
             new   == Rate * (now - grants[i])
             added == (now - lastRefillTimestamp) * Rate
  <1>2. spent \in Int /\ Full \in Int
    BY <1>1, BucketAssumption DEF Full
  <1>3. old \in Int /\ new \in Int /\ added \in Int /\ new = old + added
    <2>1. lastRefillTimestamp \in Int /\ now \in Int /\ grants[i] \in Int
      BY <1>1, BucketAssumption DEF IInv, TypeOK
    <2> QED  BY <2>1, WindowGrows
  <1>4. spent + tokens =< Full + old
    BY DEF IInv, WindowBound
  <1>5. Refill(now) \in Int /\ Refill(now) =< tokens + added
    BY RefillBounds DEF IInv
  <1>6. tokens \in Int
    BY DEF IInv, TypeOK
  <1> HIDE DEF spent, old, new, added
  <1>7. spent + Refill(now) =< Full + new
    BY <1>2, <1>3, <1>4, <1>5, <1>6
  <1> QED  BY <1>7 DEF spent, new

\* A grant opens a window of its own and costs one token of every other.
LEMMA GrantKeepsWindow ==
    ASSUME IInv, NEW now \in 0..MaxClock,
           tokens' = Refill(now) - Unit,
           grants' = Append(grants, now),
           lastRefillTimestamp' = now
    PROVE  WindowBound'
  <1>1. grants \in Seq(0..MaxClock) /\ Full \in Int /\ Unit \in Int
    BY BucketAssumption DEF IInv, TypeOK, Full
  <1>2. Refill(now) \in Int /\ Refill(now) =< Full
    BY RefillBounds DEF IInv
  <1> SUFFICES ASSUME NEW i \in DOMAIN grants'
               PROVE  Unit * (Len(grants') - i + 1) + tokens'
                          =< Full + Rate * (lastRefillTimestamp' - grants'[i])
    BY DEF WindowBound, Full
  <1>3. Len(grants') = Len(grants) + 1 /\ Len(grants) \in Nat /\ i \in Nat
    BY <1>1
  <1>4. CASE i \in DOMAIN grants
    <2>1. grants'[i] = grants[i]
      BY <1>1, <1>4
    <2> DEFINE n == Len(grants) - i + 1
               worth == Rate * (now - grants[i])
    <2>2. Unit * n + Refill(now) =< Full + worth
      BY <1>4, RefillKeepsWindow
    <2>3. Len(grants') - i + 1 = n + 1 /\ n \in Int
      BY <1>3
    <2>4. worth \in Int
      BY <1>1, <1>4, BucketAssumption
    <2> HIDE DEF n, worth
    <2>5. Unit * (n + 1) = Unit * n + Unit /\ Unit * n \in Int
      BY <1>1, <2>3, SMT
    <2>6. Unit * (n + 1) + (Refill(now) - Unit) =< Full + worth
      BY <1>1, <1>2, <2>2, <2>4, <2>5
    <2> QED  BY <2>1, <2>3, <2>6 DEF worth
  <1>5. CASE i = Len(grants) + 1
    <2>1. grants'[i] = now
      BY <1>1, <1>5
    <2>2. Unit * (Len(grants') - i + 1) = Unit
      BY <1>1, <1>3, <1>5
    <2>3. Rate * (lastRefillTimestamp' - grants'[i]) = 0
      <3>1. Rate * (now - now) = 0
        BY BucketAssumption
      <3> QED  BY <2>1, <3>1
    <2>4. Unit + (Refill(now) - Unit) =< Full + 0
      BY <1>1, <1>2
    <2> QED  BY <2>2, <2>3, <2>4
  <1> QED  BY <1>1, <1>4, <1>5

\* A refill remembers the reading it was made at.
LEMMA ReadTyping ==
    ASSUME IInv, NEW now \in 0..MaxClock, Read(now)
    PROVE  lastRefillTimestamp' = now /\ steady' \in BOOLEAN
  <1>1. lastRefillTimestamp' = now
    BY DEF Read
  <1>2. steady' \in BOOLEAN
    BY Zenon DEF Read
  <1> QED  BY <1>1, <1>2

\* tryConsume and getAvailableTokens keep the invariant.
LEMMA NextIInv == IInv /\ [Next]_vars => IInv'
  <1> SUFFICES ASSUME IInv, [Next]_vars PROVE IInv'
    OBVIOUS
  <1>1. ASSUME NEW now \in 0..MaxClock, Read(now),
               tokens' = Refill(now), grants' = grants
        PROVE  IInv'
    <2>1. lastRefillTimestamp' = now /\ steady' \in BOOLEAN
      BY <1>1, ReadTyping
    <2>2. TypeOK'
      BY <1>1, <2>1, RefillBounds DEF IInv, TypeOK, Full
    <2>3. WindowBound'
      BY <1>1, <2>1, RefillKeepsWindow DEF WindowBound, Full
    <2> QED  BY <2>2, <2>3 DEF IInv
  <1>2. ASSUME NEW now \in 0..MaxClock, Read(now),
               tokens' = Refill(now) - Unit, grants' = Append(grants, now)
        PROVE  IInv'
    <2>0. lastRefillTimestamp' = now /\ steady' \in BOOLEAN
      BY <1>2, ReadTyping
    <2>1. tokens' \in Int /\ tokens' =< Full
      <3>1. Full \in Int /\ Unit \in Nat
        BY BucketAssumption DEF Full
      <3> QED  BY <1>2, <3>1, RefillBounds DEF IInv
    <2>2. grants' \in Seq(0..MaxClock)
      BY <1>2 DEF IInv, TypeOK
    <2>3. TypeOK'
      BY <2>0, <2>1, <2>2 DEF TypeOK, Full
    <2>4. WindowBound'
      BY <1>2, <2>0, GrantKeepsWindow
    <2> QED  BY <2>3, <2>4 DEF IInv
  <1>3. CASE UNCHANGED vars
    BY <1>3 DEF IInv, TypeOK, WindowBound, vars, Full
  <1> QED
    BY <1>1, <1>2, <1>3 DEF Next, Clock, TryConsume, GetAvailableTokens

\* The bucket never exceeds its capacity, whatever the clock does.
THEOREM TypeCorrect == Spec => []TypeOK
  <1>1. IInv => TypeOK
    BY DEF IInv
  <1> QED  BY <1>1, InitIInv, NextIInv, PTL DEF Spec

\* tryConsume grants, in every window, at most the capacity and the refill of
\* the elapsed time, for every capacity and rate and also when the wall clock
\* is set back.
THEOREM WindowBoundHolds == Spec => []WindowBound
  <1>1. IInv => WindowBound
    BY DEF IInv
  <1> QED  BY <1>1, InitIInv, NextIInv, PTL DEF Spec
-----------------------------------------------------------------------------
(***************************************************************************)
(* While no reading of the clock has gone back.                            *)
(***************************************************************************)

\* The inductive invariant of the idle refill.
SteadyInv == TypeOK /\ IdleRefills

\* A refill under a steady clock only adds.
LEMMA SteadyRefill ==
    ASSUME SteadyInv, NEW now \in 0..MaxClock, now >= lastRefillTimestamp, steady,
           lastRefillTimestamp' = now, tokens' = Refill(now), grants' = grants
    PROVE  IdleRefills'
  <1>1. /\ Refill(now) \in Int
        /\ \/ Refill(now) = Full
           \/ Refill(now) = tokens + (now - lastRefillTimestamp) * Rate
    BY RefillBounds DEF SteadyInv
  <1>2. CASE Refill(now) = Full
    BY <1>2 DEF IdleRefills, Full
  <1>3. CASE Refill(now) # Full
    <2> DEFINE added == (now - lastRefillTimestamp) * Rate
    <2>1. added \in Int /\ added >= 0
      BY BucketAssumption, SMT DEF SteadyInv, TypeOK
    <2>2. Refill(now) = tokens + added
      BY <1>1, <1>3
    <2>3. Full \in Int /\ tokens \in Int /\ Refill(now) =< Full
      BY BucketAssumption, RefillBounds DEF SteadyInv, TypeOK, Full
    <2>4. tokens # Full
      <3> HIDE DEF added
      <3> QED  BY <1>3, <2>1, <2>2, <2>3
    <2>5. grants # <<>>
      BY <2>4 DEF SteadyInv, IdleRefills
    <2> DEFINE g == grants[Len(grants)]
    <2>6. g \in 0..MaxClock
      <3>1. grants \in Seq(0..MaxClock)
        BY DEF SteadyInv, TypeOK
      <3>2. Len(grants) \in 1..Len(grants)
        BY <3>1, <2>5
      <3> QED  BY <3>1, <3>2, ElementOfSeq
    <2>7. tokens >= 0 /\ tokens >= Rate * (lastRefillTimestamp - g)
      BY <2>4, <2>5 DEF SteadyInv, IdleRefills
    <2>8. /\ Rate * (now - g) \in Int
          /\ Rate * (lastRefillTimestamp - g) \in Int
          /\ Rate * (now - g) = Rate * (lastRefillTimestamp - g) + added
      <3>1. now \in Int /\ lastRefillTimestamp \in Int /\ g \in Int
        BY <2>6, BucketAssumption DEF SteadyInv, TypeOK
      <3> QED  BY <3>1, WindowGrows
    <2> HIDE DEF added, g
    <2>9. Refill(now) >= 0 /\ Refill(now) >= Rate * (now - g)
      BY <2>1, <2>2, <2>3, <2>7, <2>8
    <2> QED  BY <2>5, <2>9 DEF IdleRefills, g
  <1> QED  BY <1>2, <1>3

\* While the clock is steady, the bucket gains all that the elapsed time is
\* worth: a client that waited is not refused because of rounding.
THEOREM IdleRefillsHolds == Spec => []IdleRefills
  <1>1. Init => SteadyInv
    <2> SUFFICES ASSUME Init PROVE SteadyInv
      OBVIOUS
    <2>1. TypeOK
      BY InitIInv DEF IInv
    <2>2. IdleRefills
      BY DEF Init, IdleRefills
    <2> QED  BY <2>1, <2>2 DEF SteadyInv
  <1>2. SteadyInv /\ TypeOK' /\ [Next]_vars => SteadyInv'
    <2> SUFFICES ASSUME SteadyInv, TypeOK', [Next]_vars PROVE SteadyInv'
      OBVIOUS
    <2>1. ASSUME NEW now \in Clock, Read(now),
                 tokens' = Refill(now), grants' = grants
          PROVE  IdleRefills'
      <3>1. CASE steady'
        <4>1. lastRefillTimestamp' = now /\ steady /\ now >= lastRefillTimestamp
          BY <2>1, <3>1 DEF Read
        <4> QED  BY <2>1, <4>1, SteadyRefill DEF Clock
      <3>2. CASE ~steady'
        BY <3>2 DEF IdleRefills
      <3> QED  BY <3>1, <3>2
    <2>2. ASSUME NEW now \in Clock, Read(now),
                 Refill(now) >= Unit, tokens' = Refill(now) - Unit,
                 grants' = Append(grants, now)
          PROVE  IdleRefills'
      <3>1. now \in 0..MaxClock
        BY DEF Clock
      <3>2. Refill(now) \in Int /\ Unit \in Int
        BY <3>1, RefillBounds, BucketAssumption DEF SteadyInv
      <3>3. grants' # <<>> /\ grants'[Len(grants')] = now
        <4>1. grants \in Seq(0..MaxClock)
          BY DEF SteadyInv, TypeOK
        <4> QED  BY <2>2, <3>1, <4>1
      <3>4. Rate * (now - now) = 0
        BY <3>1, BucketAssumption
      <3>5. tokens' >= 0
        BY <2>2, <3>2
      <3> QED  BY <2>2, <3>3, <3>4, <3>5 DEF IdleRefills, Read
    <2>3. CASE UNCHANGED vars
      BY <2>3 DEF SteadyInv, IdleRefills, vars, Full
    <2>4. IdleRefills'
      BY <2>1, <2>2, <2>3 DEF Next, TryConsume, GetAvailableTokens, SteadyInv
    <2> QED  BY <2>4 DEF SteadyInv
  <1>3. SteadyInv => IdleRefills
    BY DEF SteadyInv
  <1> QED  BY <1>1, <1>2, <1>3, TypeCorrect, PTL DEF Spec

-----------------------------------------------------------------------------
(***************************************************************************)
(* The hybrid logical clock.                                               *)
(***************************************************************************)

\* The inductive invariant.
HlcIInv == HlcTypeOK /\ ClockCovers

\* compare orders timestamps transitively.
LEMMA BeforeTransitive ==
    ASSUME NEW a \in Timestamp, NEW b \in Timestamp, NEW c \in Timestamp,
           Before(a, b), Before(b, c)
    PROVE  Before(a, c)
  <1>1. /\ a.physicalTime \in Int /\ b.physicalTime \in Int /\ c.physicalTime \in Int
        /\ a.logicalCounter \in Int /\ b.logicalCounter \in Int
        /\ c.logicalCounter \in Int
    BY HlcAssumption DEF Timestamp, Time
  <1> QED  BY <1>1 DEF Before

\* MaxPhysical is the latest of the three clocks.
LEMMA MaxPhysicalIsMax ==
    ASSUME HlcTypeOK, NEW physical \in Time, NEW remote \in Remotes
    PROVE  LET max == MaxPhysical(physical, remote)
           IN  /\ max \in {physical, lastPhysicalTime, remote.physicalTime}
               /\ max \in Time
               /\ max >= physical /\ max >= lastPhysicalTime
               /\ max >= remote.physicalTime
  <1>1. lastPhysicalTime \in Time /\ remote.physicalTime \in Time
    BY DEF HlcTypeOK, Remotes
  <1>2. \E m \in {physical, lastPhysicalTime, remote.physicalTime} :
            m >= physical /\ m >= lastPhysicalTime /\ m >= remote.physicalTime
    BY <1>1, HlcAssumption DEF Time
  <1> QED  BY <1>1, <1>2 DEF MaxPhysical

\* A value the clock may move to: later than its own and of the right type.
Advance(physical, counter) ==
    /\ physical \in Time /\ counter \in Nat
    /\ Before(Current, [physicalTime |-> physical, logicalCounter |-> counter])

\* now() advances the clock.
LEMMA NowAdvances ==
    ASSUME HlcTypeOK, NEW physical \in Time, Now(physical)
    PROVE  /\ Advance(lastPhysicalTime', logicalCounter')
           /\ Return(lastPhysicalTime', logicalCounter')
           /\ received' = received
  <1>1. CASE physical > lastPhysicalTime
    BY <1>1, HlcAssumption DEF HlcTypeOK, Time, Now, Return, Advance, Before, Current
  <1>2. CASE ~(physical > lastPhysicalTime)
    BY <1>2, HlcAssumption DEF HlcTypeOK, Time, Now, Return, Advance, Before, Current
  <1> QED  BY <1>1, <1>2

\* update() advances the clock past its own value and the remote's.
LEMMA UpdateAdvances ==
    ASSUME HlcTypeOK, NEW physical \in Time, NEW remote \in Remotes,
           Update(physical, remote)
    PROVE  /\ Advance(lastPhysicalTime', logicalCounter')
           /\ Return(lastPhysicalTime', logicalCounter')
           /\ Before(remote, Current')
           /\ received' = received \cup {remote}
  <1> DEFINE max == MaxPhysical(physical, remote)
             counter == UpdateCounter(physical, remote)
  <1>1. /\ lastPhysicalTime \in Int /\ logicalCounter \in Nat
        /\ remote.physicalTime \in Int /\ remote.logicalCounter \in Nat
        /\ physical \in Int
    BY HlcAssumption DEF HlcTypeOK, Remotes, Time
  <1>2. /\ max \in Time /\ max \in Int
        /\ max >= lastPhysicalTime /\ max >= remote.physicalTime
    BY MaxPhysicalIsMax, HlcAssumption DEF Time
  <1>3. /\ lastPhysicalTime' = max /\ logicalCounter' = counter
        /\ Return(max, counter) /\ received' = received \cup {remote}
    BY DEF Update, Return
  <1>4. /\ counter \in Nat
        /\ max = lastPhysicalTime => counter > logicalCounter
        /\ max = remote.physicalTime => counter > remote.logicalCounter
    <2> HIDE DEF max
    <2>1. counter = CASE max = lastPhysicalTime /\ max = remote.physicalTime ->
                           IF remote.logicalCounter > logicalCounter
                           THEN remote.logicalCounter + 1 ELSE logicalCounter + 1
                      [] max = lastPhysicalTime /\ max # remote.physicalTime ->
                           logicalCounter + 1
                      [] max # lastPhysicalTime /\ max = remote.physicalTime ->
                           remote.logicalCounter + 1
                      [] OTHER -> 0
      BY DEF UpdateCounter, max
    <2> HIDE DEF counter
    <2>2. CASE max = lastPhysicalTime /\ max = remote.physicalTime
      BY <1>1, <2>1, <2>2
    <2>3. CASE max = lastPhysicalTime /\ max # remote.physicalTime
      BY <1>1, <2>1, <2>3
    <2>4. CASE max # lastPhysicalTime /\ max = remote.physicalTime
      BY <1>1, <2>1, <2>4
    <2>5. CASE max # lastPhysicalTime /\ max # remote.physicalTime
      BY <1>1, <2>1, <2>5
    <2> QED  BY <2>2, <2>3, <2>4, <2>5
  <1> HIDE DEF max, counter
  <1>5. Before(remote, Current')
    BY <1>1, <1>2, <1>3, <1>4 DEF Before, Current
  <1>6. Advance(lastPhysicalTime', logicalCounter')
    BY <1>1, <1>2, <1>3, <1>4 DEF Advance, Before, Current
  <1> QED  BY <1>3, <1>5, <1>6

\* A clock that advanced covers what it covered, and its new value is after it.
LEMMA AdvanceCovers ==
    ASSUME HlcIInv, Advance(lastPhysicalTime', logicalCounter'),
           Return(lastPhysicalTime', logicalCounter'),
           received' = received \/ \E r \in Remotes :
               received' = received \cup {r} /\ Before(r, Current')
    PROVE  HlcIInv' /\ Causal(Current')
  <1>1. Current \in Timestamp /\ Current' \in Timestamp
    BY DEF HlcIInv, HlcTypeOK, Current, Timestamp, Advance
  <1>2. Before(Current, Current')
    BY DEF Advance, Current
  <1>3. \A r \in Remotes : r \in Timestamp
    BY HlcAssumption DEF Remotes, Timestamp
  <1>4. \A t \in issued : Before(t, Current')
    <2> TAKE t \in issued
    <2>1. t \in Timestamp /\ (t = Current \/ Before(t, Current))
      BY DEF HlcIInv, HlcTypeOK, ClockCovers
    <2> QED  BY <1>1, <1>2, <2>1, BeforeTransitive
  <1>5. \A r \in received : Before(r, Current')
    <2> TAKE r \in received
    <2>1. r \in Timestamp /\ Before(r, Current)
      BY <1>3 DEF HlcIInv, HlcTypeOK, ClockCovers
    <2> QED  BY <1>1, <1>2, <2>1, BeforeTransitive
  <1>6. issued' = issued \cup {Current'}
    BY DEF Return, Current
  <1>7. HlcTypeOK'
    BY <1>1, <1>6 DEF HlcIInv, HlcTypeOK, Advance
  <1>8. ClockCovers'
    BY <1>4, <1>5, <1>6 DEF ClockCovers
  <1>9. Causal(Current')
    BY <1>4, <1>5 DEF Causal
  <1> QED  BY <1>7, <1>8, <1>9 DEF HlcIInv

\* The clock starts with the wall clock and an empty history.
LEMMA HlcInitIInv == HlcInit => HlcIInv
  BY DEF HlcInit, HlcIInv, HlcTypeOK, ClockCovers

\* now() and update() keep the invariant, and what they return is later than
\* everything issued or merged before.
LEMMA HlcNextIInv == HlcIInv /\ HlcNext => HlcIInv' /\ Causal(Current')
  <1> SUFFICES ASSUME HlcIInv, HlcNext PROVE HlcIInv' /\ Causal(Current')
    OBVIOUS
  <1>1. PICK physical \in Time :
            Now(physical) \/ \E remote \in Remotes : Update(physical, remote)
    BY DEF HlcNext
  <1>2. HlcTypeOK
    BY DEF HlcIInv
  <1>3. CASE Now(physical)
    BY <1>2, <1>3, NowAdvances, AdvanceCovers
  <1>4. CASE \E remote \in Remotes : Update(physical, remote)
    BY <1>2, <1>4, UpdateAdvances, AdvanceCovers
  <1> QED  BY <1>1, <1>3, <1>4

\* The same for a step that may stutter.
LEMMA HlcStepIInv == HlcIInv /\ [HlcNext]_hlcVars => HlcIInv' /\ [Causal(Current')]_hlcVars
  <1>1. CASE HlcNext
    BY <1>1, HlcNextIInv
  <1>2. CASE UNCHANGED hlcVars
    <2> SUFFICES ASSUME HlcIInv PROVE HlcIInv'
      BY <1>2
    <2> QED  BY <1>2 DEF HlcIInv, HlcTypeOK, ClockCovers, Current, hlcVars
  <1> QED  BY <1>1, <1>2

-----------------------------------------------------------------------------
\* The clock keeps its type.
THEOREM HlcTypeCorrect == HlcSpec => []HlcTypeOK
  <1>1. HlcIInv => HlcTypeOK
    BY DEF HlcIInv
  <1> QED  BY <1>1, HlcInitIInv, HlcStepIInv, PTL DEF HlcSpec

\* The clock never falls behind a timestamp it issued or was shown.
THEOREM ClockCoversHolds == HlcSpec => []ClockCovers
  <1>1. HlcIInv => ClockCovers
    BY DEF HlcIInv
  <1> QED  BY <1>1, HlcInitIInv, HlcStepIInv, PTL DEF HlcSpec

\* Every timestamp now() or update() returns is strictly after all earlier
\* ones, for every behaviour of the wall clock.
THEOREM IssuesLaterHolds == HlcSpec => IssuesLater
  BY HlcInitIInv, HlcStepIInv, PTL DEF HlcSpec, IssuesLater

-----------------------------------------------------------------------------
(***************************************************************************)
(* Both in the hub.                                                        *)
(***************************************************************************)

\* The hub's two objects do not disturb each other: what holds of the limiter
\* and of the clock alone holds of both in one process, whose handlers call
\* them in any order.
THEOREM HubClocksCorrect ==
    HubSpec => [](TokensExact /\ ClockCovers) /\ IssuesLater
  <1>1. HubInit => Init /\ HlcInit
    BY DEF HubInit
  <1>2. [HubNext]_<<vars, hlcVars>> => [Next]_vars /\ [HlcNext]_hlcVars
    BY DEF HubNext
  <1>3. HubSpec => Spec /\ HlcSpec
    BY <1>1, <1>2, PTL DEF HubSpec, Spec, HlcSpec
  <1>4. WindowBound /\ IdleRefills => TokensExact
    BY DEF TokensExact
  <1> QED
    BY <1>3, <1>4, WindowBoundHolds, IdleRefillsHolds, ClockCoversHolds,
       IssuesLaterHolds, PTL
=============================================================================
