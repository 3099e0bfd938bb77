------------------------------- MODULE Crates -------------------------------
(***************************************************************************)
(* The Rust crates that keep state.  They are libraries and a proxy that   *)
(* run apart and share no variable, so a behaviour of all of them is an    *)
(* interleaving of behaviours of each: one search picks a part and then    *)
(* explores that part alone.                                               *)
(***************************************************************************)
EXTENDS SequenceNat, Ratchet, IdleHub, ProxyRelay

VARIABLE part

cratesVars == <<part, vars, ratchetVars, idleVars, relayVars>>

CratesInit ==
    /\ part \in {"nat", "ratchet", "idle", "relay"}
    /\ Init /\ RatchetInit /\ IdleInit /\ RelayInit
    /\ upgrade => part = "relay"

CratesNext ==
    /\ UNCHANGED part
    /\ \/ /\ part = "nat" /\ Next
          /\ UNCHANGED <<ratchetVars, idleVars, relayVars>>
       \/ /\ part = "ratchet" /\ RatchetNext
          /\ UNCHANGED <<vars, idleVars, relayVars>>
       \/ /\ part = "idle" /\ IdleNext
          /\ UNCHANGED <<vars, ratchetVars, relayVars>>
       \/ /\ part = "relay" /\ RelayNext
          /\ UNCHANGED <<vars, ratchetVars, idleVars>>

\* A step of the proxy's runtime.
RelayRuns(A) ==
    part = "relay" /\ A /\ UNCHANGED <<part, vars, ratchetVars, idleVars>>

\* The runtime polls a task that can go on, so each relaying task and the
\* logger take their next step in the end; a step that writes to a side does
\* so only while that side reads.  Nothing else is assumed of the two sides of
\* the connection or of its set-up.
CratesSpec ==
    /\ CratesInit /\ [][CratesNext]_cratesVars
    /\ \A d \in Dirs : /\ WF_cratesVars(RelayRuns(TakesUnit(d)))
                       /\ WF_cratesVars(RelayRuns(reads[d] /\ WritesUnit(d)))
    /\ WF_cratesVars(RelayRuns(LogFrame))

\* A connection has five units up, so that the request may be cut before or
\* after its Upgrade header and frames may be read ahead with it.
MCUnits == [d \in Dirs |-> IF d = "up" THEN 5 ELSE 2]
=============================================================================
