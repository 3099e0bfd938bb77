---------------------------- MODULE SequenceNat ----------------------------
(***************************************************************************)
(* The sequence rewriting between the browser, the injecting sub-clients   *)
(* and the Zalo server (crates/zalo-proto/src/sequence_nat.rs), together   *)
(* with the table that routes the server's acknowledgements back           *)
(* (ack_router.rs).                                                        *)
(*                                                                         *)
(* Both are shared through &self and atomics, so every load and every      *)
(* read-modify-write is a step of its own.  The browser's frames come from *)
(* one task; each injecting sub-client is a task.  With Serialised, one    *)
(* operation runs to its end before the next starts, as it would in one    *)
(* select loop.  The bounds keep every sum far below 2^32, so the u32      *)
(* additions do not wrap.                                                  *)
(***************************************************************************)
EXTENDS Integers, Sequences, FiniteSets

CONSTANTS
    Injectors,   \* tasks that inject frames for sub-clients
    Browser,     \* the task that forwards the browser's frames
    Serialised,  \* operations do not overlap
    MaxSeq,      \* bound: sequence numbers of the browser
    MaxInject    \* bound: injected frames

Tasks == Injectors \cup {Browser}

ASSUME NatAssumption ==
    /\ Browser \notin Injectors
    /\ Serialised \in BOOLEAN
    /\ MaxSeq \in Nat /\ MaxInject \in Nat
    /\ MaxSeq + MaxInject < 2147483647

VARIABLES
    delta_offset,
    highest_wire_seq,
    highest_browser_seq,
    op,             \* what each task is doing, with its local variables
    frames,         \* the frames put on the wire, in the order they were numbered
    pending_table,  \* index in frames of the request registered for each wire number
    acks            \* acknowledgements resolved: the frame and the entry found

vars == <<delta_offset, highest_wire_seq, highest_browser_seq, op, frames,
          pending_table, acks>>

Numbers == 0..(MaxSeq + MaxInject)

Frame == [task : Tasks, seq : 0..MaxSeq, wire : Numbers]

\* Where a task is: between two operations, or before the named step.
At(step, seq, delta) == [at |-> step, seq |-> seq, delta |-> delta]
Idle == At("idle", 0, 0)

Op == [at : {"idle", "delta", "transform", "browser", "inject"},
       seq : 0..MaxSeq, delta : 0..MaxInject]

\* AtomicU32::fetch_max
LargerOf(a, b) == IF a > b THEN a ELSE b

Init ==
    /\ delta_offset = 0
    /\ highest_wire_seq = 0
    /\ highest_browser_seq = 0
    /\ op = [t \in Tasks |-> Idle]
    /\ frames = <<>>
    /\ pending_table = [w \in Numbers |-> 0]
    /\ acks = {}

-----------------------------------------------------------------------------
(***************************************************************************)
(* The operations.                                                         *)
(***************************************************************************)

\* A task may start an operation.
CanStart(t) ==
    /\ op[t].at = "idle"
    /\ Serialised => \A u \in Tasks : op[u].at = "idle"

\* The operation of task t has its wire number: the frame goes out and is
\* registered under that number, replacing an entry that has the same one.
PutOnWire(t, wire) ==
    /\ highest_wire_seq' = LargerOf(highest_wire_seq, wire)
    /\ frames' = Append(frames, [task |-> t, seq |-> op[t].seq, wire |-> wire])
    /\ pending_table' = [pending_table EXCEPT ![wire] = Len(frames) + 1]
    /\ op' = [op EXCEPT ![t] = Idle]

\* transform_browser_outbound: the browser's numbers rise.
TransformStart(seq) ==
    /\ CanStart(Browser)
    /\ seq > highest_browser_seq
    /\ highest_browser_seq' = LargerOf(highest_browser_seq, seq)
    /\ op' = [op EXCEPT ![Browser] = At("delta", seq, 0)]
    /\ UNCHANGED <<delta_offset, highest_wire_seq, frames, pending_table, acks>>

TransformLoadDelta ==
    /\ op[Browser].at = "delta"
    /\ op' = [op EXCEPT ![Browser] = At("transform", @.seq, delta_offset)]
    /\ UNCHANGED <<delta_offset, highest_wire_seq, highest_browser_seq, frames,
                   pending_table, acks>>

TransformEnd ==
    /\ op[Browser].at = "transform"
    /\ PutOnWire(Browser, op[Browser].seq + op[Browser].delta)
    /\ UNCHANGED <<delta_offset, highest_browser_seq, acks>>

\* allocate_injected_outbound
InjectStart(t) ==
    /\ CanStart(t)
    /\ delta_offset < MaxInject
    /\ delta_offset' = delta_offset + 1
    /\ op' = [op EXCEPT ![t] = At("browser", 0, delta_offset)]
    /\ UNCHANGED <<highest_wire_seq, highest_browser_seq, frames,
                   pending_table, acks>>

InjectLoadBrowser(t) ==
    /\ op[t].at = "browser"
    /\ op' = [op EXCEPT ![t] = At("inject", highest_browser_seq, @.delta)]
    /\ UNCHANGED <<delta_offset, highest_wire_seq, highest_browser_seq, frames,
                   pending_table, acks>>

\* A bug: the number is the delta's old value away from the browser's.
InjectEndUnshifted(t) ==
    /\ op[t].at = "inject"
    /\ PutOnWire(t, op[t].seq + op[t].delta)
    /\ UNCHANGED <<delta_offset, highest_browser_seq, acks>>

InjectEnd(t) ==
    /\ op[t].at = "inject"
    /\ PutOnWire(t, op[t].seq + op[t].delta + 1)
    /\ UNCHANGED <<delta_offset, highest_browser_seq, acks>>

\* resolve_ack: the server acknowledges frame k, perhaps more than once.
ResolveAck(k) ==
    /\ acks' = acks \cup {[frame |-> k, entry |-> pending_table[frames[k].wire]]}
    /\ pending_table' = [pending_table EXCEPT ![frames[k].wire] = 0]
    /\ UNCHANGED <<delta_offset, highest_wire_seq, highest_browser_seq, op, frames>>

\* cleanup_stale_requests: entries registered up to frame k are dropped.
CleanupStaleRequests(k) ==
    /\ pending_table' = [w \in Numbers |->
                           IF pending_table[w] > k THEN pending_table[w] ELSE 0]
    /\ UNCHANGED <<delta_offset, highest_wire_seq, highest_browser_seq, op,
                   frames, acks>>

\* A bug: a number that is the delta's own has no translation.
TranslateAboveDelta(wire) ==
    IF wire > delta_offset THEN wire - delta_offset ELSE -1

\* translate_wire_to_browser; -1 stands for None.
TranslateWireToBrowser(wire) ==
    IF wire >= delta_offset THEN wire - delta_offset ELSE -1

Next ==
    \/ \E seq \in 1..MaxSeq : TransformStart(seq)
    \/ TransformLoadDelta
    \/ TransformEnd
    \/ \E t \in Injectors : InjectStart(t) \/ InjectLoadBrowser(t) \/ InjectEnd(t)
    \/ \E k \in DOMAIN frames : ResolveAck(k) \/ CleanupStaleRequests(k)

Spec == Init /\ [][Next]_vars

-----------------------------------------------------------------------------
(***************************************************************************)
(* Properties.                                                             *)
(***************************************************************************)

\* The counters, the tasks and the table keep their shape.
TypeOK ==
    /\ delta_offset \in 0..MaxInject
    /\ highest_wire_seq \in Numbers
    /\ highest_browser_seq \in 0..MaxSeq
    /\ op \in [Tasks -> Op]
    /\ frames \in Seq(Frame)
    /\ pending_table \in [Numbers -> Nat]
    /\ acks \subseteq [frame : Nat, entry : Nat]

\* The wire numbers rise from frame to frame, injected or the browser's: the
\* server never sees a number twice or out of order.
WireAscends ==
    \A j, k \in DOMAIN frames : j < k => frames[j].wire < frames[k].wire

\* An acknowledgement finds the entry of the very frame that it is for, or
\* none when the entry was cleaned up.
AckFindsItsFrame == \A a \in acks : a.entry \in {a.frame, 0}

\* The injections that the server numbers after frame k.
InjectedAfter(k) ==
    Cardinality({j \in DOMAIN frames : j > k /\ frames[j].task # Browser})

\* Between operations, the acknowledgement of a frame of the browser translates
\* to the browser's own number when no injection followed the frame, and is short
\* by one for each that did: the delta is that of the acknowledgement's time, not
\* of the frame's.  Short of zero there is no translation.
AckTranslates ==
    (\A t \in Tasks : op[t].at = "idle") =>
        \A k \in DOMAIN frames : frames[k].task = Browser =>
            LET own == frames[k].seq - InjectedAfter(k)
            IN  TranslateWireToBrowser(frames[k].wire) = IF own >= 0 THEN own ELSE -1

\* Both ways in which an acknowledgement is resolved: to the request that waits
\* for it, and to a number of the browser.
AcksResolve == AckFindsItsFrame /\ AckTranslates
=============================================================================
