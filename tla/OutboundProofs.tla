--------------------------- MODULE OutboundProofs ---------------------------
(***************************************************************************)
(* Proofs about Outbound, for any set of ids and any number of retries.    *)
(*                                                                         *)
(* DeliveredIsReal is not inductive by itself: the client turns any SENT   *)
(* event into DELIVERED, so the invariant must also speak of the events    *)
(* that are still on the wire.                                             *)
(***************************************************************************)
EXTENDS Outbound, FiniteSetTheorems, TLAPS

\* Every event on the wire that says SENT is about a message Zalo accepted.
WireHonest ==
    \A k \in DOMAIN wire : wire[k].status = "SENT" => sent[wire[k].id] > 0

\* The inductive invariant.
IInv == TypeOK /\ PendingHasTimer /\ DeliveredIsReal /\ WireHonest

-----------------------------------------------------------------------------
\* What fanning out an event does to the wire.
LEMMA EmitWire ==
    ASSUME wire \in Seq(Event), NEW i \in Ids, NEW s \in {"SENT", "FAILED"},
           Emit(i, s)
    PROVE  /\ wire' \in Seq(Event)
           /\ \A k \in DOMAIN wire' :
                 \/ k \in DOMAIN wire /\ wire'[k] = wire[k]
                 \/ wire'[k] = [id |-> i, status |-> s]
  <1>1. [id |-> i, status |-> s] \in Event
    BY DEF Event
  <1>2. CASE connected
    <2>1. wire' = Append(wire, [id |-> i, status |-> s])
      BY <1>2 DEF Emit
    <2> QED  BY <1>1, <2>1
  <1>3. CASE ~connected
    BY <1>3 DEF Emit
  <1> QED  BY <1>2, <1>3

\* The initial states satisfy the inductive invariant.
LEMMA InitIInv == Init => IInv
  <1> SUFFICES ASSUME Init PROVE IInv
    OBVIOUS
  <1>1. wire \in Seq(Event) /\ DOMAIN wire = {}
    BY DEF Init
  <1>2. TypeOK
    BY <1>1, OutboundAssumption DEF Init, TypeOK
  <1>3. PendingHasTimer /\ DeliveredIsReal
    BY DEF Init, PendingHasTimer, DeliveredIsReal
  <1>4. WireHonest
    BY <1>1 DEF WireHonest
  <1> QED  BY <1>2, <1>3, <1>4 DEF IInv

-----------------------------------------------------------------------------
\* Registering keeps an armed timer at every pending entry.
LEMMA AcceptIInv ==
    ASSUME IInv, NEW q \in requests, NEW stages \in SUBSET {"net", "headless"},
           Accept(q, stages)
    PROVE  IInv'
  <1> USE OutboundAssumption
  <1>1. q \in Request
    BY DEF IInv, TypeOK
  <1>2. dispatch' \subseteq Dispatch
    <2>1. \A s \in stages :
            [id |-> q.id, n |-> q.n, via |-> q.via, stage |-> s] \in Dispatch
      BY <1>1 DEF Request, Dispatch
    <2>2. dispatch \subseteq Dispatch
      BY DEF IInv, TypeOK
    <2> QED  BY <2>1, <2>2, Zenon DEF Accept
  <1>3. timers' \in [Ids -> Nat] /\ pending' \subseteq Ids
    BY <1>1 DEF IInv, TypeOK, Accept, RegisterOutboundPending, Request
  <1>4. TypeOK'
    BY <1>1, <1>2, <1>3 DEF IInv, TypeOK, Accept, Request
  <1>5. PendingHasTimer'
    BY <1>1 DEF IInv, TypeOK, PendingHasTimer, Accept,
                RegisterOutboundPending, Request
  <1>6. DeliveredIsReal' /\ WireHonest'
    BY DEF IInv, DeliveredIsReal, WireHonest, Accept
  <1> QED  BY <1>4, <1>5, <1>6 DEF IInv

\* Every step keeps the inductive invariant.
LEMMA NextIInv == IInv /\ [Next]_vars => IInv'
  <1> SUFFICES ASSUME IInv, [Next]_vars PROVE IInv'
    OBVIOUS
  <1> USE OutboundAssumption
  <1>1. ASSUME NEW i \in Ids, HandleSendMessage(i) PROVE IInv'
    <2>1. attempts[i] + 1 \in 1..MaxAttempts
      BY <1>1 DEF IInv, TypeOK, HandleSendMessage
    <2>2. requests' \subseteq Request
      BY <1>1, <2>1 DEF IInv, TypeOK, HandleSendMessage, Request
    <2>3. TypeOK'
      BY <1>1, <2>1, <2>2 DEF IInv, TypeOK, HandleSendMessage
    <2>4. PendingHasTimer' /\ DeliveredIsReal' /\ WireHonest'
      BY <1>1 DEF IInv, TypeOK, PendingHasTimer, DeliveredIsReal, WireHonest,
                  HandleSendMessage
    <2> QED  BY <2>3, <2>4 DEF IInv
  <1>2. ASSUME NEW i \in Ids, FetchServerMessages(i) PROVE IInv'
    <2>1. TypeOK'
      BY <1>2 DEF IInv, TypeOK, FetchServerMessages
    <2>2. PendingHasTimer' /\ DeliveredIsReal' /\ WireHonest'
      BY <1>2 DEF IInv, TypeOK, PendingHasTimer, DeliveredIsReal, WireHonest,
                  FetchServerMessages
    <2> QED  BY <2>1, <2>2 DEF IInv
  <1>3. ASSUME NEW i \in Ids, TimerFires(i) PROVE IInv'
    <2>1. CASE i \in pending
      <3>1. Emit(i, "FAILED")
        BY <1>3, <2>1 DEF TimerFires
      <3>2. /\ wire' \in Seq(Event)
            /\ \A k \in DOMAIN wire' :
                  \/ k \in DOMAIN wire /\ wire'[k] = wire[k]
                  \/ wire'[k] = [id |-> i, status |-> "FAILED"]
        BY <3>1, EmitWire DEF IInv, TypeOK
      <3>3. TypeOK'
        BY <1>3, <3>2 DEF IInv, TypeOK, TimerFires
      <3>4. WireHonest'
        BY <1>3, <3>2 DEF IInv, WireHonest, TimerFires
      <3>5. PendingHasTimer' /\ DeliveredIsReal'
        BY <1>3 DEF IInv, TypeOK, PendingHasTimer, DeliveredIsReal, TimerFires
      <3> QED  BY <3>3, <3>4, <3>5 DEF IInv
    <2>2. CASE i \notin pending
      <3>1. TypeOK'
        BY <1>3, <2>2 DEF IInv, TypeOK, TimerFires
      <3>2. PendingHasTimer' /\ DeliveredIsReal' /\ WireHonest'
        BY <1>3, <2>2 DEF IInv, TypeOK, PendingHasTimer, DeliveredIsReal,
                          WireHonest, TimerFires
      <3> QED  BY <3>1, <3>2 DEF IInv
    <2> QED  BY <2>1, <2>2
  <1>4. CASE ReceiveStatus
    <2>1. wire # <<>> /\ wire \in Seq(Event) /\ wire' = Tail(wire)
      BY <1>4 DEF IInv, TypeOK, ReceiveStatus
    <2>2. /\ wire' \in Seq(Event)
          /\ Head(wire) \in Event
          /\ 1 \in DOMAIN wire /\ Head(wire) = wire[1]
          /\ \A k \in DOMAIN wire' : k + 1 \in DOMAIN wire /\ wire'[k] = wire[k + 1]
      BY <2>1
    <2>3. ui' \in [Ids -> {"none", "SENDING", "DELIVERED", "FAILED"}]
      BY <1>4, <2>2 DEF IInv, TypeOK, ReceiveStatus, ApplyStatus, Event
    <2>4. TypeOK'
      BY <1>4, <2>2, <2>3 DEF IInv, TypeOK, ReceiveStatus
    <2>5. DeliveredIsReal'
      BY <1>4, <2>2 DEF IInv, TypeOK, DeliveredIsReal, WireHonest,
                        ReceiveStatus, ApplyStatus, Event
    <2>6. WireHonest'
      BY <1>4, <2>2 DEF IInv, WireHonest, ReceiveStatus
    <2>7. PendingHasTimer'
      BY <1>4 DEF IInv, PendingHasTimer, ReceiveStatus
    <2> QED  BY <2>4, <2>5, <2>6, <2>7 DEF IInv
  <1>5. CASE Disconnect
    <2>1. wire' \in Seq(Event) /\ DOMAIN wire' = {}
      BY <1>5 DEF Disconnect
    <2>2. TypeOK'
      BY <1>5, <2>1 DEF IInv, TypeOK, Disconnect
    <2>3. WireHonest'
      BY <2>1 DEF WireHonest
    <2>4. PendingHasTimer' /\ DeliveredIsReal'
      BY <1>5 DEF IInv, PendingHasTimer, DeliveredIsReal, Disconnect
    <2> QED  BY <2>2, <2>3, <2>4 DEF IInv
  <1>6. ASSUME NEW q \in requests, RateLimited(q) PROVE IInv'
    <2>1. TypeOK'
      BY <1>6 DEF IInv, TypeOK, RateLimited
    <2>2. PendingHasTimer' /\ DeliveredIsReal' /\ WireHonest'
      BY <1>6 DEF IInv, PendingHasTimer, DeliveredIsReal, WireHonest, RateLimited
    <2> QED  BY <2>1, <2>2 DEF IInv
  <1>7. ASSUME NEW q \in requests,
               AcceptNetwork(q) \/ AcceptHeadless(q) \/ AcceptEmpty(q)
        PROVE  IInv'
    BY <1>7, AcceptIInv DEF AcceptNetwork, AcceptHeadless, AcceptEmpty
  <1>8. ASSUME NEW d \in dispatch, NetworkSucceeds(d) PROVE IInv'
    <2>1. d \in Dispatch /\ d.id \in Ids
      BY DEF IInv, TypeOK, Dispatch
    <2>2. /\ wire' \in Seq(Event)
          /\ \A k \in DOMAIN wire' :
                \/ k \in DOMAIN wire /\ wire'[k] = wire[k]
                \/ wire'[k] = [id |-> d.id, status |-> "SENT"]
      <3>1. Emit(d.id, "SENT")
        BY <1>8 DEF NetworkSucceeds
      <3> QED  BY <2>1, <3>1, EmitWire DEF IInv, TypeOK
    <2>3. sent' \in [Ids -> Nat] /\ \A i \in Ids : sent'[i] >= sent[i]
      BY <1>8, <2>1 DEF IInv, TypeOK, NetworkSucceeds
    <2>4. sent'[d.id] > 0
      BY <1>8, <2>1 DEF IInv, TypeOK, NetworkSucceeds
    <2>5. acked' \in [Ids -> BOOLEAN]
      <3>1. acked' = [acked EXCEPT ![d.id] = @ \/ d.n = attempts[d.id]]
        BY <1>8 DEF NetworkSucceeds
      <3>2. (acked[d.id] \/ d.n = attempts[d.id]) \in BOOLEAN
        BY Zenon
      <3> QED  BY <3>1, <3>2 DEF IInv, TypeOK
    <2>6. TypeOK'
      BY <1>8, <2>2, <2>3, <2>5 DEF IInv, TypeOK, NetworkSucceeds
    <2>7. DeliveredIsReal' /\ PendingHasTimer'
      BY <1>8, <2>3 DEF IInv, TypeOK, DeliveredIsReal, PendingHasTimer,
                        NetworkSucceeds
    <2>8. WireHonest'
      <3> SUFFICES ASSUME NEW k \in DOMAIN wire', wire'[k].status = "SENT"
                   PROVE  sent'[wire'[k].id] > 0
        BY DEF WireHonest
      <3>1. CASE k \in DOMAIN wire /\ wire'[k] = wire[k]
        <4>1. wire[k] \in Event
          BY <3>1 DEF IInv, TypeOK
        <4>2. wire[k].id \in Ids /\ sent[wire[k].id] > 0
          BY <3>1, <4>1 DEF IInv, WireHonest, Event
        <4> QED  BY <3>1, <4>2, <2>3 DEF IInv, TypeOK
      <3>2. CASE wire'[k] = [id |-> d.id, status |-> "SENT"]
        BY <3>2, <2>4
      <3> QED  BY <2>2, <3>1, <3>2
    <2> QED  BY <2>6, <2>7, <2>8 DEF IInv
  <1>9. ASSUME NEW d \in dispatch, NEW taken \in 0..HeadlessWays,
               NetworkFails(d, taken) \/ HeadlessSucceeds(d, taken)
                 \/ HeadlessFails(d, taken)
        PROVE  IInv'
    <2>1. d \in Dispatch /\ d.id \in Ids
      BY DEF IInv, TypeOK, Dispatch
    <2>2. dispatch' \subseteq Dispatch
      <3>1. [d EXCEPT !.stage = "headless"] \in Dispatch
        BY <2>1 DEF Dispatch
      <3>2. dispatch \subseteq Dispatch
        BY DEF IInv, TypeOK
      <3> QED
        BY <1>9, <3>1, <3>2, Zenon DEF NetworkFails, HeadlessSucceeds, HeadlessFails
    <2>3. sent' \in [Ids -> Nat] /\ \A i \in Ids : sent'[i] >= sent[i]
      <3>1. sent' = [sent EXCEPT ![d.id] = @ + taken]
        BY <1>9 DEF NetworkFails, HeadlessSucceeds, HeadlessFails
      <3> QED  BY <1>9, <2>1, <3>1 DEF IInv, TypeOK, HeadlessWays
    <2>4. /\ wire' \in Seq(Event)
          /\ \A k \in DOMAIN wire' :
                \/ k \in DOMAIN wire /\ wire'[k] = wire[k]
                \/ wire'[k] = [id |-> d.id, status |-> "FAILED"]
      <3>1. CASE wire' = wire
        BY <3>1 DEF IInv, TypeOK
      <3>2. CASE Emit(d.id, "FAILED")
        BY <3>2, <2>1, EmitWire DEF IInv, TypeOK
      <3> QED  BY <1>9, <3>1, <3>2 DEF NetworkFails, HeadlessSucceeds, HeadlessFails
    <2>5. UNCHANGED <<ui, attempts, connected, requests, pending, timers,
                      stored, acked>>
      BY <1>9 DEF NetworkFails, HeadlessSucceeds, HeadlessFails
    <2>6. TypeOK'
      BY <2>2, <2>3, <2>4, <2>5 DEF IInv, TypeOK
    <2>7. DeliveredIsReal' /\ PendingHasTimer'
      BY <2>3, <2>5 DEF IInv, TypeOK, DeliveredIsReal, PendingHasTimer
    <2>8. WireHonest'
      <3> SUFFICES ASSUME NEW k \in DOMAIN wire', wire'[k].status = "SENT"
                   PROVE  sent'[wire'[k].id] > 0
        BY DEF WireHonest
      <3>1. k \in DOMAIN wire /\ wire'[k] = wire[k]
        BY <2>4
      <3>2. wire[k] \in Event
        BY <3>1 DEF IInv, TypeOK
      <3>3. wire[k].id \in Ids /\ sent[wire[k].id] > 0
        BY <3>1, <3>2 DEF IInv, WireHonest, Event
      <3> QED  BY <3>1, <3>3, <2>3 DEF IInv, TypeOK
    <2> QED  BY <2>6, <2>7, <2>8 DEF IInv
  <1>10. CASE UNCHANGED vars
    BY <1>10 DEF IInv, TypeOK, PendingHasTimer, DeliveredIsReal, WireHonest, vars
  <1>11. {0, 1} \subseteq 0..HeadlessWays
    BY DEF HeadlessWays
  <1> QED
    BY <1>1, <1>2, <1>3, <1>4, <1>5, <1>6, <1>7, <1>8, <1>9, <1>10, <1>11
       DEF Next, Hub, Settle

-----------------------------------------------------------------------------
\* Type correctness of the outbound path (page.tsx, index.ts, queue_writer.ts).
THEOREM TypeCorrect == Spec => []TypeOK
  <1>1. IInv => TypeOK
    BY DEF IInv
  <1> QED  BY <1>1, InitIInv, NextIInv, PTL DEF Spec

\* No entry of outboundPendingMap is ever without an armed timer, for any
\* number of overlapping sends and retries.
THEOREM PendingHasTimerHolds == Spec => []PendingHasTimer
  <1>1. IInv => PendingHasTimer
    BY DEF IInv
  <1> QED  BY <1>1, InitIInv, NextIInv, PTL DEF Spec

\* The client shows DELIVERED only for a message Zalo has accepted, whatever
\* the order of late status events, fetches, retries and timers.
THEOREM DeliveredIsRealHolds == Spec => []DeliveredIsReal
  <1>1. IInv => DeliveredIsReal
    BY DEF IInv
  <1> QED  BY <1>1, InitIInv, NextIInv, PTL DEF Spec
-----------------------------------------------------------------------------
(***************************************************************************)
(* How often Zalo may get a message.  Each press of the button buys four   *)
(* deliveries: a request and a send over the network client may still use  *)
(* all of them, a headless send three, and what Zalo has got is spent.     *)
(***************************************************************************)
RequestsOf(i)       == {q \in requests : q.id = i}
SendsOf(i, stage)   == {d \in dispatch : d.id = i /\ d.stage = stage}

Budget(i) ==
    4 * Cardinality(RequestsOf(i)) + 4 * Cardinality(SendsOf(i, "net"))
      + 3 * Cardinality(SendsOf(i, "headless")) + sent[i] <= 4 * attempts[i]

BudgetInv ==
    /\ IsFiniteSet(requests) /\ IsFiniteSet(dispatch)
    /\ \A i \in Ids : Budget(i)

\* Counting the parts of a finite set after it lost or gained an element.
LEMMA CountChange ==
    ASSUME NEW A, IsFiniteSet(A), NEW x, NEW B
    PROVE  /\ Cardinality(A) \in Nat
           /\ B \subseteq A =>
                Cardinality(B) \in Nat /\ Cardinality(B) <= Cardinality(A)
           /\ B \subseteq A \cup {x} =>
                Cardinality(B) \in Nat /\ Cardinality(B) <= Cardinality(A) + 1
           /\ x \in A /\ B \subseteq A \ {x} =>
                Cardinality(B) \in Nat /\ Cardinality(B) <= Cardinality(A) - 1
<1>1. Cardinality(A) \in Nat
  BY FS_CardinalityType
<1>2. ASSUME NEW C, IsFiniteSet(C), B \subseteq C
      PROVE  Cardinality(B) \in Nat /\ Cardinality(B) <= Cardinality(C)
  BY <1>2, FS_Subset, FS_CardinalityType
<1>3. /\ IsFiniteSet(A \cup {x})
      /\ Cardinality(A \cup {x}) = Cardinality(A) \/ Cardinality(A \cup {x}) = Cardinality(A) + 1
  BY FS_AddElement
<1>4. x \in A => /\ IsFiniteSet(A \ {x})
                 /\ Cardinality(A \ {x}) = Cardinality(A) - 1
  BY FS_RemoveElement
<1> QED
  BY <1>1, <1>2, <1>3, <1>4

\* The parts of finite sets of requests and sends are finite.
LEMMA PartsFinite ==
    ASSUME BudgetInv, NEW i
    PROVE  /\ IsFiniteSet(RequestsOf(i)) /\ Cardinality(RequestsOf(i)) \in Nat
           /\ \A s : IsFiniteSet(SendsOf(i, s)) /\ Cardinality(SendsOf(i, s)) \in Nat
<1>1. RequestsOf(i) \subseteq requests /\ \A s : SendsOf(i, s) \subseteq dispatch
  BY DEF RequestsOf, SendsOf
<1> QED
  BY <1>1, FS_Subset, FS_CardinalityType DEF BudgetInv

LEMMA BudgetStep ==
    ASSUME TypeOK, BudgetInv, [Next]_vars
    PROVE  BudgetInv'
<1> DEFINE R(i) == Cardinality(RequestsOf(i))
           N(i) == Cardinality(SendsOf(i, "net"))
           H(i) == Cardinality(SendsOf(i, "headless"))
<1>0. ASSUME NEW i \in Ids
      PROVE  /\ R(i) \in Nat /\ N(i) \in Nat /\ H(i) \in Nat
             /\ IsFiniteSet(RequestsOf(i))
             /\ IsFiniteSet(SendsOf(i, "net")) /\ IsFiniteSet(SendsOf(i, "headless"))
             /\ sent[i] \in Nat /\ attempts[i] \in Nat
             /\ 4 * R(i) + 4 * N(i) + 3 * H(i) + sent[i] <= 4 * attempts[i]
  BY PartsFinite, OutboundAssumption DEF BudgetInv, Budget, TypeOK
<1>1. IsFiniteSet(requests) /\ IsFiniteSet(dispatch)
  BY DEF BudgetInv
<1>2. ASSUME UNCHANGED <<dispatch, sent, attempts>>, requests' \subseteq requests
      PROVE  BudgetInv'
  <2>1. IsFiniteSet(requests')
    BY <1>1, <1>2, FS_Subset
  <2>2. ASSUME NEW i \in Ids PROVE Budget(i)'
    <3>1. RequestsOf(i)' \subseteq RequestsOf(i)
      BY <1>2 DEF RequestsOf
    <3>2. R(i)' \in Nat /\ R(i)' <= R(i)
      BY <1>0, <3>1, CountChange
    <3>3. N(i)' = N(i) /\ H(i)' = H(i)
      BY <1>2 DEF SendsOf
    <3> QED
      BY <1>0, <1>2, <3>2, <3>3 DEF Budget
  <2> QED
    BY <1>1, <1>2, <2>1, <2>2 DEF BudgetInv
<1>3. ASSUME NEW j \in Ids, HandleSendMessage(j) PROVE BudgetInv'
  <2>1. PICK q : q.id = j /\ requests' = requests \cup {q}
    <3> DEFINE r == [id |-> j, n |-> attempts[j] + 1,
                     via |-> IF connected THEN "ws" ELSE "rest"]
    <3>1. r.id = j /\ requests' = requests \cup {r}
      BY <1>3 DEF HandleSendMessage
    <3> HIDE DEF r
    <3> QED
      BY <3>1
  <2>2. IsFiniteSet(requests')
    BY <1>1, <2>1, FS_AddElement
  <2>3. ASSUME NEW i \in Ids PROVE Budget(i)'
    <3>1. N(i)' = N(i) /\ H(i)' = H(i) /\ sent' = sent
      BY <1>3 DEF SendsOf, HandleSendMessage
    <3>2. CASE i = j
      <4>1. RequestsOf(i)' \subseteq RequestsOf(i) \cup {q}
        BY <2>1 DEF RequestsOf
      <4>2. R(i)' \in Nat /\ R(i)' <= R(i) + 1
        BY <1>0, <4>1, CountChange
      <4>3. attempts'[i] = attempts[i] + 1
        BY <1>3, <3>2 DEF HandleSendMessage, TypeOK
      <4> QED
        BY <1>0, <3>1, <4>2, <4>3 DEF Budget
    <3>3. CASE i # j
      <4>1. R(i)' = R(i)
        BY <2>1, <3>3 DEF RequestsOf
      <4>2. attempts'[i] = attempts[i]
        BY <1>3, <3>3 DEF HandleSendMessage, TypeOK
      <4> QED
        BY <1>0, <3>1, <4>1, <4>2 DEF Budget
    <3> QED
      BY <3>2, <3>3
  <2>4. dispatch' = dispatch
    BY <1>3 DEF HandleSendMessage
  <2> QED
    BY <1>1, <2>2, <2>3, <2>4 DEF BudgetInv
<1>4. ASSUME NEW q \in requests, NEW stages, Accept(q, stages),
             stages = {} \/ \E s \in {"net", "headless"} : stages = {s}
      PROVE  BudgetInv'
  <2>1. /\ requests' = requests \ {q}
        /\ sent' = sent /\ attempts' = attempts
    BY <1>4 DEF Accept
  <2>2. \/ dispatch' = dispatch
        \/ \E d : /\ d.id = q.id /\ d.stage \in {"net", "headless"}
                  /\ dispatch' = dispatch \cup {d}
    <3>1. dispatch' = dispatch \cup {[id |-> q.id, n |-> q.n, via |-> q.via,
                                      stage |-> s] : s \in stages}
      BY <1>4 DEF Accept
    <3> QED
      BY <1>4, <3>1
  <2>3. IsFiniteSet(requests') /\ IsFiniteSet(dispatch')
    BY <1>1, <2>1, <2>2, FS_AddElement, FS_RemoveElement
  <2>4. ASSUME NEW i \in Ids PROVE Budget(i)'
    <3>1. CASE i = q.id
      <4>1. q \in RequestsOf(i) /\ RequestsOf(i)' \subseteq RequestsOf(i) \ {q}
        BY <2>1, <3>1 DEF RequestsOf
      <4>2. R(i)' \in Nat /\ R(i)' <= R(i) - 1
        BY <1>0, <4>1, CountChange
      <4>3. /\ N(i)' \in Nat /\ H(i)' \in Nat
            /\ \/ N(i)' <= N(i) + 1 /\ H(i)' <= H(i)
               \/ N(i)' <= N(i) /\ H(i)' <= H(i) + 1
        <5>1. CASE dispatch' = dispatch
          <6>1. N(i)' = N(i) /\ H(i)' = H(i)
            BY <5>1 DEF SendsOf
          <6> QED
            BY <1>0, <6>1
        <5>2. ASSUME NEW d, d.stage = "net", dispatch' = dispatch \cup {d}
              PROVE  <4>3
          <6>1. /\ SendsOf(i, "net")' \subseteq SendsOf(i, "net") \cup {d}
                /\ SendsOf(i, "headless")' \subseteq SendsOf(i, "headless")
            BY <5>2 DEF SendsOf
          <6> QED
            BY <1>0, <6>1, CountChange
        <5>3. ASSUME NEW d, d.stage = "headless", dispatch' = dispatch \cup {d}
              PROVE  <4>3
          <6>1. /\ SendsOf(i, "headless")' \subseteq SendsOf(i, "headless") \cup {d}
                /\ SendsOf(i, "net")' \subseteq SendsOf(i, "net")
            BY <5>3 DEF SendsOf
          <6> QED
            BY <1>0, <6>1, CountChange
        <5> QED
          BY <2>2, <5>1, <5>2, <5>3
      <4> QED
        BY <1>0, <2>1, <4>2, <4>3 DEF Budget
    <3>2. CASE i # q.id
      <4>1. R(i)' = R(i) /\ N(i)' = N(i) /\ H(i)' = H(i)
        <5>1. RequestsOf(i)' = RequestsOf(i)
          BY <2>1, <3>2 DEF RequestsOf
        <5>2. SendsOf(i, "net")' = SendsOf(i, "net")
          BY <2>2, <3>2 DEF SendsOf
        <5>3. SendsOf(i, "headless")' = SendsOf(i, "headless")
          BY <2>2, <3>2 DEF SendsOf
        <5> QED
          BY <5>1, <5>2, <5>3
      <4> QED
        BY <1>0, <2>1, <4>1 DEF Budget
    <3> QED
      BY <3>1, <3>2
  <2> QED
    BY <2>3, <2>4 DEF BudgetInv
<1>5. ASSUME NEW q \in requests,
             AcceptNetwork(q) \/ AcceptHeadless(q) \/ AcceptEmpty(q)
      PROVE  BudgetInv'
  BY <1>4, <1>5 DEF AcceptNetwork, AcceptHeadless, AcceptEmpty
<1>6. ASSUME NEW d \in dispatch, NEW taken \in 0..3,
             UNCHANGED <<requests, attempts>>,
             sent' = [sent EXCEPT ![d.id] = @ + taken],
             d.stage = "net" => taken <= 1,
             \/ d.stage \in {"net", "headless"} /\ dispatch' = dispatch \ {d}
             \/ /\ d.stage = "net"
                /\ dispatch' = (dispatch \ {d}) \cup {[d EXCEPT !.stage = "headless"]}
      PROVE  BudgetInv'
  <2> DEFINE e == [d EXCEPT !.stage = "headless"]
  <2>0. d \in Dispatch /\ d.id \in Ids
    BY DEF TypeOK, Dispatch
  <2>1. e.id = d.id /\ e.stage = "headless"
    BY <2>0 DEF Dispatch
  <2> HIDE DEF e
  <2>2. IsFiniteSet(dispatch')
    <3>1. IsFiniteSet(dispatch \ {d})
      BY <1>1, FS_RemoveElement
    <3> QED
      <4>1. IsFiniteSet((dispatch \ {d}) \cup {e})
        BY <3>1, FS_AddElement
      <4> QED
        BY <1>6, <3>1, <4>1 DEF e
  <2>3. ASSUME NEW i \in Ids PROVE Budget(i)'
    <3>1. R(i)' = R(i)
      BY <1>6 DEF RequestsOf
    <3>2. CASE i # d.id
      <4>1. SendsOf(i, "net")' = SendsOf(i, "net")
        BY <1>6, <2>1, <3>2 DEF SendsOf, e
      <4>2. SendsOf(i, "headless")' = SendsOf(i, "headless")
        BY <1>6, <2>1, <3>2 DEF SendsOf, e
      <4>3. sent'[i] = sent[i]
        BY <1>6, <3>2 DEF TypeOK
      <4> QED
        BY <1>0, <1>6, <3>1, <4>1, <4>2, <4>3 DEF Budget
    <3>3. CASE i = d.id
      <4>0. sent'[i] = sent[i] + taken
        BY <1>6, <3>3 DEF TypeOK
      <4>1. CASE d.stage = "net"
        <5>1. d \in SendsOf(i, "net") /\ SendsOf(i, "net")' \subseteq SendsOf(i, "net") \ {d}
          BY <1>6, <2>1, <3>3, <4>1 DEF SendsOf, e
        <5>2. SendsOf(i, "headless")' \subseteq SendsOf(i, "headless") \cup {e}
          BY <1>6 DEF SendsOf, e
        <5>3. N(i)' \in Nat /\ N(i)' <= N(i) - 1
          BY <1>0, <5>1, CountChange
        <5>4. H(i)' \in Nat /\ H(i)' <= H(i) + 1
          BY <1>0, <5>2, CountChange
        <5> QED
          BY <1>0, <1>6, <3>1, <4>0, <4>1, <5>3, <5>4 DEF Budget
      <4>2. CASE d.stage = "headless"
        <5>1. /\ d \in SendsOf(i, "headless")
              /\ SendsOf(i, "headless")' \subseteq SendsOf(i, "headless") \ {d}
          BY <1>6, <3>3, <4>2 DEF SendsOf
        <5>2. SendsOf(i, "net")' = SendsOf(i, "net")
          BY <1>6, <4>2 DEF SendsOf
        <5>3. H(i)' \in Nat /\ H(i)' <= H(i) - 1
          BY <1>0, <5>1, CountChange
        <5> QED
          BY <1>0, <1>6, <3>1, <4>0, <5>2, <5>3 DEF Budget
      <4> QED
        BY <1>6, <4>1, <4>2
    <3> QED
      BY <3>2, <3>3
  <2> QED
    BY <1>1, <1>6, <2>2, <2>3 DEF BudgetInv
<1>7. ASSUME NEW d \in dispatch, Settle(d) PROVE BudgetInv'
  <2>1. ASSUME NEW taken \in {0, 1},
               \/ NetworkSucceeds(d) /\ taken = 1
               \/ NetworkFails(d, taken)
        PROVE  BudgetInv'
    <3>1. taken \in 0..3 /\ taken <= 1
      BY <2>1
    <3> QED
      BY <1>6, <2>1, <3>1 DEF NetworkSucceeds, NetworkFails
  <2>2. ASSUME NEW taken \in 0..3, HeadlessSucceeds(d, taken) \/ HeadlessFails(d, taken)
        PROVE  BudgetInv'
    BY <1>6, <2>2 DEF HeadlessSucceeds, HeadlessFails
  <2> QED
    BY <1>7, <2>1, <2>2 DEF Settle, HeadlessWays
<1>8. CASE \/ \E i \in Ids : FetchServerMessages(i) \/ TimerFires(i)
           \/ ReceiveStatus \/ Disconnect
           \/ \E q \in requests : RateLimited(q)
           \/ UNCHANGED vars
  <2>1. UNCHANGED <<dispatch, sent, attempts>> /\ requests' \subseteq requests
    BY <1>8 DEF FetchServerMessages, TimerFires, ReceiveStatus, Disconnect,
                RateLimited, vars
  <2> QED
    BY <1>2, <2>1
<1> QED
  BY <1>3, <1>5, <1>7, <1>8 DEF Next, Hub

\* Zalo gets a message at most four times per press of the button, for any number
\* of ids, overlapping attempts and failures of both senders.
THEOREM FourPerPressHolds == Spec => []FourPerPress
  <1>1. Init => BudgetInv
    <2> SUFFICES ASSUME Init PROVE BudgetInv
      OBVIOUS
    <2>1. \A i, s : RequestsOf(i) = {} /\ SendsOf(i, s) = {}
      BY DEF Init, RequestsOf, SendsOf
    <2>2. IsFiniteSet(requests) /\ IsFiniteSet(dispatch)
      BY FS_EmptySet DEF Init
    <2>3. ASSUME NEW i \in Ids PROVE Budget(i)
      <3>1. sent[i] = 0 /\ attempts[i] = 0
        BY DEF Init
      <3> QED
        BY <2>1, <3>1, FS_EmptySet DEF Budget
    <2> QED
      BY <2>2, <2>3 DEF BudgetInv
  <1>2. IInv /\ BudgetInv /\ [Next]_vars => BudgetInv'
    BY BudgetStep DEF IInv
  <1>3. IInv /\ BudgetInv => FourPerPress
    <2> SUFFICES ASSUME IInv, BudgetInv, NEW i \in Ids
                 PROVE  sent[i] <= 4 * attempts[i]
      BY DEF FourPerPress, HeadlessWays
    <2>1. /\ Cardinality(RequestsOf(i)) \in Nat
          /\ Cardinality(SendsOf(i, "net")) \in Nat
          /\ Cardinality(SendsOf(i, "headless")) \in Nat
          /\ sent[i] \in Nat /\ attempts[i] \in Nat
      <3>1. sent[i] \in Nat /\ attempts[i] \in Nat
        BY OutboundAssumption DEF IInv, TypeOK
      <3> QED
        BY <3>1, PartsFinite
    <2> QED
      BY <2>1 DEF BudgetInv, Budget
  <1> QED  BY <1>1, <1>2, <1>3, InitIInv, NextIInv, PTL DEF Spec
=============================================================================
