---------------------------- MODULE TokenBucket ----------------------------
(***************************************************************************)
(* The outbound rate limiter (services/gateway-hub/src/token_bucket.ts),   *)
(* one bucket shared by all the clients of the hub.                        *)
(*                                                                         *)
(* Tokens are counted in 1/Unit of a token and time in the unit in which   *)
(* Rate of these parts are added, so that the code's fractional refill is  *)
(* exact: the program has Unit = 1000, Rate = 4 per millisecond and        *)
(* Capacity = 10.  Date.now() is the wall clock, which may be set back.    *)
(***************************************************************************)
EXTENDS Integers, Sequences

CONSTANTS
    Capacity,   \* tokens the bucket holds
    Rate,       \* parts of a token added per unit of time
    Unit,       \* parts of a token that one request costs
    Setback,    \* how far the clock may go back between two readings
    MaxClock,   \* bound: latest reading of the clock
    MaxGrants   \* bound: requests granted

ASSUME BucketAssumption ==
    /\ Capacity \in Nat \ {0} /\ Rate \in Nat /\ Unit \in Nat \ {0}
    /\ Setback \in Nat /\ MaxClock \in Nat /\ MaxGrants \in Nat

VARIABLES
    tokens,               \* parts of tokens in the bucket
    lastRefillTimestamp,  \* the clock at the last refill
    grants,               \* the clock at each granted request, oldest first
    steady                \* history: no reading has been before the previous one

vars == <<tokens, lastRefillTimestamp, grants, steady>>

Full == Capacity * Unit

Init ==
    /\ tokens = Full
    /\ lastRefillTimestamp \in 0..MaxClock
    /\ grants = <<>>
    /\ steady = TRUE

\* What Date.now() may return next.
Clock == {t \in 0..MaxClock : t >= lastRefillTimestamp - Setback}

\* A bug: nothing stops the bucket at its capacity.
RefillUncapped(now) == tokens + (now - lastRefillTimestamp) * Rate

\* A bug: only whole tokens are added, and the clock moves on all the same.
RefillWhole(now) ==
    LET added == (((now - lastRefillTimestamp) * Rate) \div Unit) * Unit
    IN  IF tokens + added > Full THEN Full ELSE tokens + added

\* refill: the tokens after it.  A clock that went back takes tokens away.
Refill(now) ==
    LET added == (now - lastRefillTimestamp) * Rate
    IN  IF tokens + added > Full THEN Full ELSE tokens + added

\* refill: the reading it remembers.
Read(now) ==
    /\ lastRefillTimestamp' = now
    /\ steady' = (steady /\ now >= lastRefillTimestamp)

\* tryConsume(1)
TryConsume(now) ==
    /\ Read(now)
    /\ \/ /\ Refill(now) >= Unit
          /\ Len(grants) < MaxGrants
          /\ tokens' = Refill(now) - Unit
          /\ grants' = Append(grants, now)
       \/ /\ Refill(now) < Unit
          /\ tokens' = Refill(now)
          /\ UNCHANGED grants

\* getAvailableTokens refills too.
GetAvailableTokens(now) ==
    /\ Read(now)
    /\ tokens' = Refill(now)
    /\ UNCHANGED grants

Next == \E now \in Clock : TryConsume(now) \/ GetAvailableTokens(now)

Spec == Init /\ [][Next]_vars

-----------------------------------------------------------------------------
(***************************************************************************)
(* Properties.                                                             *)
(***************************************************************************)

\* The bucket never holds more than its capacity.
TypeOK ==
    /\ tokens \in Int /\ tokens =< Full
    /\ lastRefillTimestamp \in 0..MaxClock
    /\ grants \in Seq(0..MaxClock)
    /\ steady \in BOOLEAN

\* In every window that starts at a granted request, the requests granted
\* cost at most the capacity and what was refilled since then, however the
\* clock was set back in between.
WindowBound ==
    \A i \in DOMAIN grants :
        Unit * (Len(grants) - i + 1) + tokens
            =< Full + Rate * (lastRefillTimestamp - grants[i])

\* While the clock does not go back, no refill is lost to rounding: since the
\* last grant the bucket has gained all that the elapsed time is worth, and
\* a bucket nobody used is full.
IdleRefills ==
    steady =>
        \/ tokens = Full
        \/ /\ grants # <<>>
           /\ tokens >= 0
           /\ tokens >= Rate * (lastRefillTimestamp - grants[Len(grants)])

\* The limiter neither makes nor loses a token, at whatever spacing it is read.
TokensExact == WindowBound /\ IdleRefills
=============================================================================
