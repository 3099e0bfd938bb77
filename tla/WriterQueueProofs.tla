-------------------------- MODULE WriterQueueProofs --------------------------
(***************************************************************************)
(* Theorems about WriterQueue for any tasks, chunks, batch size and number *)
(* of potential invocations: a single writer, whose flag never sticks; no  *)
(* task lost or doubled; the order within a tier; and how long bulk work   *)
(* can hold up a realtime task.                                            *)
(***************************************************************************)
EXTENDS WriterQueue, SequenceTheorems, FiniteSetTheorems, TLAPS

\* The inductive invariant: the flag alone would not exclude a second worker,
\* and a single worker alone would not keep the flag from sticking.
Exclusive == TypeOK /\ SingleWriter /\ FlagMeansWorker

\* What a worker holds at each place of the loop.
WorkerOK ==
    \A w \in Workers :
        /\ pc[w] \in {"task", "urgentWrite"} => batch[w] # <<>>
        /\ Writing(w) => writing[w] \in Tasks

\* A chunk is a sequence of bulk tasks, hence of tasks.
LEMMA ChunkTyping ==
    ASSUME NEW c \in Chunks
    PROVE  c \in Seq(BulkTasks) /\ c \in Seq(Tasks)
<1>1. c \in Seq(BulkTasks)
  BY QueueAssumption
<1>2. \A i \in 1..Len(c) : c[i] \in Tasks
  BY <1>1 DEF Tasks
<1> QED  BY <1>1, <1>2

\* triggerProcessing starts a worker only when the flag says there is none.
LEMMA TriggerFacts ==
    ASSUME Exclusive, TriggerProcessing
    PROVE  /\ pc' \in [Workers -> Active \cup {"off"}]
           /\ isProcessing' \in BOOLEAN
           /\ SingleWriter' /\ FlagMeansWorker'
<1>1. CASE isProcessing
  BY <1>1 DEF TriggerProcessing, Exclusive, TypeOK, SingleWriter, FlagMeansWorker
<1>2. CASE ~isProcessing
  <2>1. PICK w \in Workers : pc[w] = "off" /\ pc' = [pc EXCEPT ![w] = "scheduled"]
    BY <1>2 DEF TriggerProcessing
  <2>2. \A v \in Workers : pc[v] = "off"
    BY <1>2 DEF Exclusive, FlagMeansWorker
  <2>3. isProcessing' = TRUE
    BY <1>2 DEF TriggerProcessing
  <2>4. pc' \in [Workers -> Active \cup {"off"}]
    BY <2>1 DEF Exclusive, TypeOK, Active
  <2>5. \A v \in Workers : pc'[v] # "off" <=> v = w
    BY <2>1, <2>2 DEF Exclusive, TypeOK
  <2> QED  BY <2>3, <2>4, <2>5 DEF SingleWriter, FlagMeansWorker
<1> QED  BY <1>1, <1>2

\* The finally clause keeps the worker or releases the flag with it.
LEMMA FinishFacts ==
    ASSUME Exclusive, NEW w \in Workers, pc[w] # "off", Finish(w)
    PROVE  /\ pc' \in [Workers -> Active \cup {"off"}]
           /\ isProcessing' \in BOOLEAN
           /\ SingleWriter' /\ FlagMeansWorker'
<1>1. \A v \in Workers : pc[v] # "off" <=> v = w
  BY DEF Exclusive, SingleWriter
<1>2. isProcessing = TRUE
  BY <1>1 DEF Exclusive, FlagMeansWorker, TypeOK
<1>3. CASE pc' = [pc EXCEPT ![w] = "scheduled"] /\ UNCHANGED isProcessing
  <2>1. \A v \in Workers : pc'[v] # "off" <=> v = w
    BY <1>1, <1>3 DEF Exclusive, TypeOK
  <2> QED  BY <1>2, <1>3, <2>1
           DEF Exclusive, TypeOK, Active, SingleWriter, FlagMeansWorker
<1>4. CASE pc' = [pc EXCEPT ![w] = "off"] /\ isProcessing' = FALSE
  <2>1. \A v \in Workers : pc'[v] = "off"
    BY <1>1, <1>4 DEF Exclusive, TypeOK
  <2> QED  BY <1>4, <2>1 DEF Exclusive, TypeOK, SingleWriter, FlagMeansWorker
<1> QED  BY <1>3, <1>4 DEF Finish

\* A worker that moves on within its invocation.
LEMMA MoveFacts ==
    ASSUME Exclusive, NEW w \in Workers, pc[w] # "off", NEW a \in Active,
           pc' = [pc EXCEPT ![w] = a], UNCHANGED isProcessing
    PROVE  /\ pc' \in [Workers -> Active \cup {"off"}]
           /\ isProcessing' \in BOOLEAN
           /\ SingleWriter' /\ FlagMeansWorker'
<1>1. a # "off"
  BY DEF Active
<1>2. \A v \in Workers : pc'[v] # "off" <=> pc[v] # "off"
  BY <1>1 DEF Exclusive, TypeOK
<1> QED  BY <1>2 DEF Exclusive, TypeOK, SingleWriter, FlagMeansWorker

\* No invocation exists at start-up and the flag is clear.
LEMMA ExclusiveInit == Init => Exclusive /\ WorkerOK
<1> SUFFICES ASSUME Init PROVE Exclusive /\ WorkerOK
  OBVIOUS
<1>1. \A w \in Workers : pc[w] = "off"
  BY DEF Init
<1>2. TypeOK
  <2>1. /\ <<>> \in Seq(RealtimeTasks) /\ <<>> \in Seq(BulkTasks)
        /\ <<>> \in Seq(Tasks)
    OBVIOUS
  <2>2. /\ pc \in [Workers -> Active \cup {"off"}]
        /\ writing \in [Workers -> Tasks \cup {None}]
        /\ passed \in [RealtimeTasks -> Nat]
    BY DEF Init
  <2>3. batch \in [Workers -> Seq(BulkTasks)]
    BY <2>1, Zenon DEF Init
  <2> QED  BY <2>1, <2>2, <2>3 DEF Init, TypeOK
<1>3. SingleWriter /\ WorkerOK
  BY <1>1 DEF SingleWriter, WorkerOK, Writing
<1>4. FlagMeansWorker
  BY <1>1 DEF Init, FlagMeansWorker
<1> QED  BY <1>2, <1>3, <1>4 DEF Exclusive

\* No step lets a second invocation exist, or the flag disagree with them.
LEMMA ExclusiveStep == Exclusive /\ WorkerOK /\ [Next]_vars => Exclusive'
<1> SUFFICES ASSUME Exclusive, WorkerOK, [Next]_vars PROVE Exclusive'
  OBVIOUS
<1>0. TypeOK
  BY DEF Exclusive
<1>1. ASSUME NEW t \in RealtimeTasks, EnqueueRealtime(t) PROVE Exclusive'
  <2>1. t \in Tasks
    BY DEF Tasks
  <2>2. /\ tier1RealtimeQueue' \in Seq(RealtimeTasks)
        /\ offered' \in Seq(Tasks)
    BY <1>0, <1>1, <2>1 DEF EnqueueRealtime, TypeOK
  <2> QED  BY <1>0, <1>1, <2>2, TriggerFacts DEF EnqueueRealtime, Exclusive, TypeOK
<1>2. ASSUME NEW c \in Chunks, EnqueueBulkBatch(c) PROVE Exclusive'
  <2>1. c \in Seq(BulkTasks) /\ c \in Seq(Tasks)
    BY ChunkTyping
  <2>2. tier2BulkQueue' \in Seq(BulkTasks) /\ offered' \in Seq(Tasks)
    BY <1>0, <1>2, <2>1 DEF EnqueueBulkBatch, TypeOK
  <2> QED  BY <1>0, <1>2, <2>2, TriggerFacts DEF EnqueueBulkBatch, Exclusive, TypeOK
<1>3. ASSUME WorkerLoopTick PROVE Exclusive'
  BY <1>0, <1>3, TriggerFacts DEF WorkerLoopTick, Exclusive, TypeOK
<1>4. ASSUME NEW w \in Workers, Begin(w) PROVE Exclusive'
  BY <1>0, <1>4, MoveFacts DEF Begin, Exclusive, TypeOK, Active
<1>5. ASSUME NEW w \in Workers, DrainRealtime(w) PROVE Exclusive'
  <2>1. Head(tier1RealtimeQueue) \in Tasks /\ Tail(tier1RealtimeQueue) \in Seq(RealtimeTasks)
    BY <1>0, <1>5 DEF DrainRealtime, TypeOK, Tasks
  <2>2. writing' \in [Workers -> Tasks \cup {None}]
    BY <1>0, <1>5, <2>1 DEF DrainRealtime, TypeOK
  <2> QED  BY <1>0, <1>5, <2>1, <2>2, MoveFacts
           DEF DrainRealtime, Exclusive, TypeOK, Active
<1>6. ASSUME NEW w \in Workers, SpliceBatch(w) PROVE Exclusive'
  <2> DEFINE n == IF Len(tier2BulkQueue) < MicroBatchSize
                  THEN Len(tier2BulkQueue) ELSE MicroBatchSize
  <2>1. /\ n \in 1..Len(tier2BulkQueue)
        /\ tier2BulkQueue \in Seq(BulkTasks)
    BY <1>0, <1>6, QueueAssumption DEF SpliceBatch, TypeOK
  <2>2. /\ batch' = [batch EXCEPT ![w] = SubSeq(tier2BulkQueue, 1, n)]
        /\ tier2BulkQueue' = SubSeq(tier2BulkQueue, n + 1, Len(tier2BulkQueue))
    BY <1>6 DEF SpliceBatch
  <2> HIDE DEF n
  <2>3. SubSeq(tier2BulkQueue, 1, n) \in Seq(BulkTasks)
    BY <2>1, SubSeqProperties
  <2>4. SubSeq(tier2BulkQueue, n + 1, Len(tier2BulkQueue)) \in Seq(BulkTasks)
    BY <2>1, SubSeqProperties
  <2>5. batch' \in [Workers -> Seq(BulkTasks)] /\ tier2BulkQueue' \in Seq(BulkTasks)
    BY <1>0, <2>2, <2>3, <2>4 DEF TypeOK
  <2> QED  BY <1>0, <1>6, <2>5, MoveFacts DEF SpliceBatch, Exclusive, TypeOK, Active
<1>7. ASSUME NEW w \in Workers, NothingToDo(w) PROVE Exclusive'
  BY <1>0, <1>7, FinishFacts DEF NothingToDo, Exclusive, TypeOK
<1>8. ASSUME NEW w \in Workers, TakeUrgent(w) PROVE Exclusive'
  <2>1. CASE tier1RealtimeQueue # <<>>
    <3>1. Head(tier1RealtimeQueue) \in Tasks /\ Tail(tier1RealtimeQueue) \in Seq(RealtimeTasks)
      BY <1>0, <2>1 DEF TypeOK, Tasks
    <3>2. writing' \in [Workers -> Tasks \cup {None}]
      BY <1>0, <1>8, <2>1, <3>1 DEF TakeUrgent, TypeOK
    <3> QED  BY <1>0, <1>8, <2>1, <3>1, <3>2, MoveFacts
             DEF TakeUrgent, Exclusive, TypeOK, Active
  <2>2. CASE tier1RealtimeQueue = <<>>
    BY <1>0, <1>8, <2>2, MoveFacts DEF TakeUrgent, Exclusive, TypeOK, Active
  <2> QED  BY <2>1, <2>2
<1>9. ASSUME NEW w \in Workers, BeginTask(w) PROVE Exclusive'
  <2>0. batch[w] # <<>>
    BY <1>9 DEF BeginTask, WorkerOK
  <2>1. Head(batch[w]) \in Tasks /\ Tail(batch[w]) \in Seq(BulkTasks)
    BY <1>0, <2>0 DEF TypeOK, Tasks
  <2>2. /\ writing' \in [Workers -> Tasks \cup {None}]
        /\ batch' \in [Workers -> Seq(BulkTasks)]
        /\ passed' \in [RealtimeTasks -> Nat]
    BY <1>0, <1>9, <2>1 DEF BeginTask, TypeOK
  <2> QED  BY <1>0, <1>9, <2>2, MoveFacts DEF BeginTask, Exclusive, TypeOK, Active
<1>10. ASSUME NEW w \in Workers, BatchDone(w) PROVE Exclusive'
  BY <1>0, <1>10, FinishFacts DEF BatchDone, Exclusive, TypeOK
<1>11. ASSUME NEW w \in Workers, WriteEnds(w) PROVE Exclusive'
  <2>1. writing[w] \in Tasks /\ pc[w] # "off"
    BY <1>11 DEF WriteEnds, WorkerOK, Writing
  <2>2. written' \in Seq(Tasks) /\ writing' \in [Workers -> Tasks \cup {None}]
    BY <1>0, <1>11, <2>1 DEF WriteEnds, TypeOK
  <2>3. \E a \in Active : pc' = [pc EXCEPT ![w] = a]
    BY <1>0, <1>11 DEF WriteEnds, Writing, Active, TypeOK
  <2> QED  BY <1>0, <1>11, <2>1, <2>2, <2>3, MoveFacts DEF WriteEnds, Exclusive, TypeOK
<1>12. ASSUME NEW w \in Workers, WriteThrows(w) PROVE Exclusive'
  <2>1. writing[w] \in Tasks /\ pc[w] # "off"
    BY <1>12 DEF WriteThrows, WorkerOK, Writing
  <2>2. batch[w] \in Seq(BulkTasks)
    BY <1>0 DEF TypeOK
  <2>3. Elems(batch[w]) \subseteq Tasks
    BY <2>2 DEF Elems, Tasks
  <2>4. /\ lost' \subseteq Tasks
        /\ writing' \in [Workers -> Tasks \cup {None}]
        /\ batch' \in [Workers -> Seq(BulkTasks)]
    BY <1>0, <1>12, <2>1, <2>3 DEF WriteThrows, TypeOK
  <2> QED  BY <1>0, <1>12, <2>1, <2>4, FinishFacts DEF WriteThrows, Exclusive, TypeOK
<1>13. ASSUME UNCHANGED vars PROVE Exclusive'
  BY <1>0, <1>13 DEF vars, Exclusive, TypeOK, SingleWriter, FlagMeansWorker
<1> QED  BY <1>1, <1>2, <1>3, <1>4, <1>5, <1>6, <1>7, <1>8, <1>9, <1>10, <1>11,
            <1>12, <1>13 DEF Next, Step

\* Every step keeps the program counters in their set.
LEMMA WorkerOKStep == Exclusive /\ WorkerOK /\ [Next]_vars => WorkerOK'
<1> SUFFICES ASSUME Exclusive, WorkerOK, [Next]_vars PROVE WorkerOK'
  OBVIOUS
<1>0. TypeOK
  BY DEF Exclusive
<1>1. ASSUME TriggerProcessing, UNCHANGED <<batch, writing>> PROVE WorkerOK'
  BY <1>0, <1>1 DEF TriggerProcessing, WorkerOK, Writing, TypeOK
<1>2. CASE \/ \E t \in RealtimeTasks : EnqueueRealtime(t)
           \/ \E c \in Chunks : EnqueueBulkBatch(c)
           \/ WorkerLoopTick
  BY <1>1, <1>2 DEF EnqueueRealtime, EnqueueBulkBatch, WorkerLoopTick
<1>3. ASSUME NEW w \in Workers, Begin(w) PROVE WorkerOK'
  BY <1>0, <1>3 DEF Begin, WorkerOK, Writing, TypeOK
<1>4. ASSUME NEW w \in Workers, DrainRealtime(w) PROVE WorkerOK'
  <2>1. Head(tier1RealtimeQueue) \in Tasks
    BY <1>0, <1>4 DEF DrainRealtime, TypeOK, Tasks
  <2> QED  BY <1>0, <1>4, <2>1 DEF DrainRealtime, WorkerOK, Writing, TypeOK
<1>5. ASSUME NEW w \in Workers, SpliceBatch(w) PROVE WorkerOK'
  <2>1. /\ pc' = [pc EXCEPT ![w] = "batch"] /\ UNCHANGED writing
        /\ \A v \in Workers : v # w => batch'[v] = batch[v]
    BY <1>0, <1>5 DEF SpliceBatch, TypeOK
  <2> QED  BY <1>0, <2>1 DEF WorkerOK, Writing, TypeOK
<1>6. ASSUME NEW w \in Workers, Finish(w),
             \A v \in Workers : v # w => batch'[v] = batch[v] /\ writing'[v] = writing[v]
      PROVE  WorkerOK'
  <2>1. /\ pc'[w] \in {"scheduled", "off"}
        /\ \A v \in Workers : v # w => pc'[v] = pc[v]
    BY <1>0, <1>6 DEF Finish, TypeOK
  <2> QED  BY <1>6, <2>1 DEF WorkerOK, Writing
<1>7. ASSUME NEW w \in Workers, NothingToDo(w) \/ BatchDone(w) PROVE WorkerOK'
  BY <1>6, <1>7 DEF NothingToDo, BatchDone
<1>8. ASSUME NEW w \in Workers, TakeUrgent(w) PROVE WorkerOK'
  <2>1. CASE tier1RealtimeQueue # <<>>
    <3>1. Head(tier1RealtimeQueue) \in Tasks
      BY <1>0, <2>1 DEF TypeOK, Tasks
    <3> QED  BY <1>0, <1>8, <2>1, <3>1 DEF TakeUrgent, WorkerOK, Writing, TypeOK
  <2>2. CASE tier1RealtimeQueue = <<>>
    BY <1>0, <1>8, <2>2 DEF TakeUrgent, WorkerOK, Writing, TypeOK
  <2> QED  BY <2>1, <2>2
<1>9. ASSUME NEW w \in Workers, BeginTask(w) PROVE WorkerOK'
  <2>0. batch[w] # <<>> /\ batch[w] \in Seq(BulkTasks)
    BY <1>0, <1>9 DEF BeginTask, WorkerOK, TypeOK
  <2>1. Head(batch[w]) \in Tasks
    BY <2>0 DEF Tasks
  <2>2. /\ pc' = [pc EXCEPT ![w] = "taskWrite"]
        /\ writing'[w] \in Tasks
        /\ \A v \in Workers : v # w => batch'[v] = batch[v] /\ writing'[v] = writing[v]
    BY <1>0, <1>9, <2>1 DEF BeginTask, TypeOK
  <2> QED  BY <1>0, <2>2 DEF WorkerOK, Writing, TypeOK
<1>10. ASSUME NEW w \in Workers, WriteEnds(w) PROVE WorkerOK'
  BY <1>0, <1>10 DEF WriteEnds, WorkerOK, Writing, TypeOK
<1>11. ASSUME NEW w \in Workers, WriteThrows(w) PROVE WorkerOK'
  <2>1. \A v \in Workers : v # w => batch'[v] = batch[v] /\ writing'[v] = writing[v]
    BY <1>0, <1>11 DEF WriteThrows, TypeOK
  <2> QED  BY <1>6, <1>11, <2>1 DEF WriteThrows
<1>12. ASSUME UNCHANGED vars PROVE WorkerOK'
  BY <1>12 DEF vars, WorkerOK, Writing
<1> QED  BY <1>2, <1>3, <1>4, <1>5, <1>7, <1>8, <1>9, <1>10, <1>11, <1>12
         DEF Next, Step

-----------------------------------------------------------------------------
\* The two facts hold in every reachable state.
LEMMA ExclusiveHolds == Spec => [](Exclusive /\ WorkerOK)
<1> DEFINE J == Exclusive /\ WorkerOK
<1>1. Init => J
  BY ExclusiveInit
<1>2. J /\ [Next]_vars => J'
  BY ExclusiveStep, WorkerOKStep
<1> HIDE DEF J
<1>3. Spec => []J
  BY <1>1, <1>2, PTL DEF Spec
<1> QED  BY <1>3 DEF J

\* Every variable keeps its shape.
THEOREM TypeCorrect == Spec => []TypeOK
<1>1. Exclusive /\ WorkerOK => TypeOK
  BY DEF Exclusive
<1> QED  BY <1>1, ExclusiveHolds, PTL

\* Two invocations of processNextBatch never overlap, whatever is enqueued
\* while a write is awaited.
THEOREM SingleWriterHolds == Spec => []SingleWriter
<1>1. Exclusive /\ WorkerOK => SingleWriter
  BY DEF Exclusive
<1> QED  BY <1>1, ExclusiveHolds, PTL

\* isProcessing is set exactly while an invocation exists: the engine is
\* never wedged by a flag that nobody will clear.
THEOREM FlagMeansWorkerHolds == Spec => []FlagMeansWorker
<1>1. Exclusive /\ WorkerOK => FlagMeansWorker
  BY DEF Exclusive
<1> QED  BY <1>1, ExclusiveHolds, PTL
-----------------------------------------------------------------------------
(***************************************************************************)
(* Two lines.  Whatever the worker is doing, the realtime tasks that are   *)
(* not finished form one line, the task being written first, and so do the *)
(* bulk tasks: the one being written, the rest of the micro batch, the     *)
(* queue.  Taking a task from a queue moves no task in its line.           *)
(***************************************************************************)

\* Line s of the tasks T is in the order o in which they were offered, and
\* behind the tasks of T that are in wr, which are in that order as well.
InLine(o, wr, s, T) ==
    /\ s \in Seq(T)
    /\ \A i, j \in DOMAIN s : i < j => Before(o, s[i], s[j])
    /\ \A i \in DOMAIN wr, j \in DOMAIN s : wr[i] \in T => Before(o, wr[i], s[j])
    /\ \A i, j \in DOMAIN wr :
          wr[i] \in T /\ wr[j] \in T /\ i < j => Before(o, wr[i], wr[j])

\* The tasks offered are those in line, those written and those lost.
Partition(o, wr, L, r, b) ==
    /\ o \in Seq(Tasks) /\ IsInjective(o)
    /\ wr \in Seq(Tasks) /\ IsInjective(wr)
    /\ Elems(o) = Elems(r) \cup Elems(b) \cup Elems(wr) \cup L
    /\ (Elems(r) \cup Elems(b)) \cap (Elems(wr) \cup L) = {}
    /\ Elems(wr) \cap L = {}
    /\ L \cap RealtimeTasks \subseteq Malformed

\* The two lines as they lie in the queues and in the worker's hands.
Lines(r, b) ==
    /\ (\A w \in Workers : pc[w] \notin {"drainWrite", "urgentWrite"})
          => r = tier1RealtimeQueue
    /\ \A w \in Workers : pc[w] \in {"drainWrite", "urgentWrite"}
          => r = <<writing[w]>> \o tier1RealtimeQueue
    /\ (\A w \in Workers : pc[w] \notin {"batch", "task", "urgentWrite", "taskWrite"})
          => b = tier2BulkQueue
    /\ \A w \in Workers : pc[w] \in {"batch", "task", "urgentWrite"}
          => b = batch[w] \o tier2BulkQueue
    /\ \A w \in Workers : pc[w] = "taskWrite"
          => b = <<writing[w]>> \o (batch[w] \o tier2BulkQueue)
    /\ \A w \in Workers : pc[w] \notin {"batch", "task", "urgentWrite", "taskWrite"}
          => batch[w] = <<>>

TwoLines(r, b) ==
    /\ Lines(r, b)
    /\ Partition(offered, written, lost, r, b)
    /\ InLine(offered, written, r, RealtimeTasks)
    /\ InLine(offered, written, b, BulkTasks)

LinesInv == \E r \in Seq(RealtimeTasks), b \in Seq(BulkTasks) : TwoLines(r, b)

\* Facts about joined sequences that the provers need one at a time.
LEMMA JoinFacts ==
    ASSUME NEW S, NEW s \in Seq(S), NEW t \in Seq(S)
    PROVE  /\ s \o t \in Seq(S) /\ Len(s \o t) = Len(s) + Len(t)
           /\ Len(s) \in Nat /\ Len(t) \in Nat
           /\ DOMAIN s = 1..Len(s) /\ DOMAIN t = 1..Len(t)
           /\ DOMAIN (s \o t) = 1..(Len(s) + Len(t))
           /\ \A i \in DOMAIN s : (s \o t)[i] = s[i]
           /\ \A i \in DOMAIN t : (s \o t)[Len(s) + i] = t[i]
           /\ \A i \in DOMAIN (s \o t) :
                 i \in DOMAIN s \/ (i > Len(s) /\ i - Len(s) \in DOMAIN t
                                      /\ (s \o t)[i] = t[i - Len(s)])
OBVIOUS

LEMMA JoinElems ==
    ASSUME NEW S, NEW s \in Seq(S), NEW t \in Seq(S)
    PROVE  Elems(s \o t) = Elems(s) \cup Elems(t)
<1>1. \A x \in Elems(s \o t) : x \in Elems(s) \cup Elems(t)
  BY JoinFacts DEF Elems
<1>2. \A x \in Elems(s) : x \in Elems(s \o t)
  BY JoinFacts DEF Elems
<1>3. \A x \in Elems(t) : x \in Elems(s \o t)
  <2> SUFFICES ASSUME NEW i \in DOMAIN t PROVE t[i] \in Elems(s \o t)
    BY DEF Elems
  <2>1. Len(s) + i \in DOMAIN (s \o t) /\ (s \o t)[Len(s) + i] = t[i]
    BY JoinFacts
  <2> QED
    BY <2>1 DEF Elems
<1> QED
  BY <1>1, <1>2, <1>3

\* A sequence without repetitions, joined with another one of other things.
LEMMA JoinInjective ==
    ASSUME NEW S, NEW s \in Seq(S), NEW t \in Seq(S), IsInjective(s), IsInjective(t),
           Elems(s) \cap Elems(t) = {}
    PROVE  IsInjective(s \o t)
<1> SUFFICES ASSUME NEW i \in DOMAIN (s \o t), NEW j \in DOMAIN (s \o t),
                    (s \o t)[i] = (s \o t)[j]
             PROVE  i = j
  BY DEF IsInjective
<1>0. \A k \in DOMAIN s : s[k] \in Elems(s)
  BY DEF Elems
<1>1. \A k \in DOMAIN t : t[k] \in Elems(t)
  BY DEF Elems
<1>2. CASE i \in DOMAIN s /\ j \in DOMAIN s
  BY <1>2, JoinFacts DEF IsInjective
<1>3. CASE i \in DOMAIN s /\ j \notin DOMAIN s
  BY <1>0, <1>1, <1>3, JoinFacts
<1>4. CASE i \notin DOMAIN s /\ j \in DOMAIN s
  BY <1>0, <1>1, <1>4, JoinFacts
<1>5. CASE i \notin DOMAIN s /\ j \notin DOMAIN s
  <2>1. /\ i - Len(s) \in DOMAIN t /\ (s \o t)[i] = t[i - Len(s)]
        /\ j - Len(s) \in DOMAIN t /\ (s \o t)[j] = t[j - Len(s)]
    BY <1>5, JoinFacts
  <2>2. i - Len(s) = j - Len(s)
    BY <2>1 DEF IsInjective
  <2>3. i \in Int /\ j \in Int /\ Len(s) \in Int
    BY JoinFacts
  <2> QED
    BY <2>2, <2>3
<1> QED
  BY <1>2, <1>3, <1>4, <1>5

\* As many things as places.
LEMMA InjectiveCount ==
    ASSUME NEW S, NEW s \in Seq(S), IsInjective(s)
    PROVE  IsFiniteSet(Elems(s)) /\ Cardinality(Elems(s)) = Len(s)
<1>1. s \in Bijection(1..Len(s), Elems(s)) /\ Len(s) \in Nat
  BY DEF Elems, Bijection, Injection, Surjection, IsInjective
<1>2. ExistsBijection(1..Len(s), Elems(s))
  BY <1>1 DEF ExistsBijection
<1>3. Cardinality(Elems(s)) = Len(s)
  BY <1>1, <1>2, FS_CountingElements
<1>4. IsFiniteSet(1..Len(s))
  BY <1>1, FS_Interval
<1>5. s \in Surjection(1..Len(s), Elems(s))
  BY <1>1 DEF Bijection
<1> QED
  BY <1>3, <1>4, <1>5, FS_Surjection

\* What was before stays before when more is offered; what is offered is
\* behind all that was there; and before is an order.
LEMMA BeforeFacts ==
    ASSUME NEW S, NEW o \in Seq(S), NEW c \in Seq(S)
    PROVE  /\ \A x, y : Before(o, x, y) => Before(o \o c, x, y)
           /\ \A x, y : Before(c, x, y) => Before(o \o c, x, y)
           /\ \A x \in Elems(o), y \in Elems(c) : Before(o \o c, x, y)
<1>1. ASSUME NEW x, NEW y, Before(o, x, y) PROVE Before(o \o c, x, y)
  <2>1. PICK i \in DOMAIN o, j \in DOMAIN o : i < j /\ o[i] = x /\ o[j] = y
    BY <1>1 DEF Before
  <2>2. i \in DOMAIN (o \o c) /\ j \in DOMAIN (o \o c)
        /\ (o \o c)[i] = x /\ (o \o c)[j] = y
    BY <2>1, JoinFacts
  <2> QED
    BY <2>1, <2>2 DEF Before
<1>2. ASSUME NEW x, NEW y, Before(c, x, y) PROVE Before(o \o c, x, y)
  <2>1. PICK i \in DOMAIN c, j \in DOMAIN c : i < j /\ c[i] = x /\ c[j] = y
    BY <1>2 DEF Before
  <2>2. Len(o) + i \in DOMAIN (o \o c) /\ Len(o) + j \in DOMAIN (o \o c)
        /\ (o \o c)[Len(o) + i] = x /\ (o \o c)[Len(o) + j] = y
        /\ Len(o) + i < Len(o) + j
    BY <2>1, JoinFacts
  <2> QED
    BY <2>2 DEF Before
<1>3. ASSUME NEW x \in Elems(o), NEW y \in Elems(c) PROVE Before(o \o c, x, y)
  <2>1. PICK i \in DOMAIN o : o[i] = x
    BY DEF Elems
  <2>2. PICK j \in DOMAIN c : c[j] = y
    BY DEF Elems
  <2>3. i \in DOMAIN (o \o c) /\ Len(o) + j \in DOMAIN (o \o c)
        /\ (o \o c)[i] = x /\ (o \o c)[Len(o) + j] = y
        /\ i < Len(o) + j
    BY <2>1, <2>2, JoinFacts
  <2> QED
    BY <2>3 DEF Before
<1> QED
  BY <1>1, <1>2, <1>3

LEMMA NeverBeforeItself ==
    ASSUME NEW S, NEW o \in Seq(S), IsInjective(o), NEW x
    PROVE  ~Before(o, x, x)
BY DEF Before, IsInjective

\* More tasks of the line are offered.
LEMMA LineGrows ==
    ASSUME NEW T, T \subseteq Tasks, NEW o \in Seq(Tasks), NEW wr \in Seq(Tasks),
           NEW s, InLine(o, wr, s, T), NEW c \in Seq(T),
           Elems(s) \subseteq Elems(o), Elems(wr) \subseteq Elems(o)
    PROVE  InLine(o \o c, wr, s \o c, T)
<1>0. c \in Seq(Tasks) /\ s \in Seq(T)
  <2>1. \A i \in 1..Len(c) : c[i] \in Tasks
    OBVIOUS
  <2> QED
    BY <2>1 DEF InLine
<1>1. /\ \A x, y : Before(o, x, y) => Before(o \o c, x, y)
      /\ \A x, y : Before(c, x, y) => Before(o \o c, x, y)
      /\ \A x \in Elems(o), y \in Elems(c) : Before(o \o c, x, y)
  BY <1>0, BeforeFacts
<1>2. /\ \A k \in DOMAIN c : c[k] \in Elems(c)
      /\ \A k \in DOMAIN s : s[k] \in Elems(o)
      /\ \A k \in DOMAIN wr : wr[k] \in Elems(o)
  BY DEF Elems
<1>3. /\ s \o c \in Seq(T)
      /\ \A i \in DOMAIN s : (s \o c)[i] = s[i]
      /\ \A i \in DOMAIN (s \o c) :
            i \in DOMAIN s \/ (i > Len(s) /\ i - Len(s) \in DOMAIN c
                                 /\ (s \o c)[i] = c[i - Len(s)])
      /\ DOMAIN s = 1..Len(s) /\ Len(s) \in Nat /\ DOMAIN c = 1..Len(c) /\ Len(c) \in Nat
      /\ DOMAIN (s \o c) = 1..(Len(s) + Len(c))
  BY <1>0, JoinFacts
<1> DEFINE u == s \o c
           p == o \o c
<1> HIDE DEF u, p
<1>4. ASSUME NEW i \in DOMAIN u, NEW j \in DOMAIN u, i < j
      PROVE  Before(p, u[i], u[j])
  <2>1. CASE i \in DOMAIN s /\ j \in DOMAIN s
    <3>1. Before(o, s[i], s[j])
      BY <1>4, <2>1 DEF InLine
    <3> QED
      BY <1>1, <1>3, <2>1, <3>1 DEF u, p
  <2>2. CASE i \in DOMAIN s /\ j \notin DOMAIN s
    BY <1>1, <1>2, <1>3, <2>2 DEF u, p
  <2>3. CASE i \notin DOMAIN s
    <3>1. i > Len(s) /\ i - Len(s) \in DOMAIN c /\ u[i] = c[i - Len(s)]
      BY <1>3, <2>3 DEF u
    <3>2. j \notin DOMAIN s
      BY <1>3, <1>4, <3>1 DEF u
    <3>3. j > Len(s) /\ j - Len(s) \in DOMAIN c /\ u[j] = c[j - Len(s)]
      BY <1>3, <3>2 DEF u
    <3>4. i - Len(s) < j - Len(s)
      BY <1>3, <1>4 DEF u
    <3>5. Before(c, u[i], u[j])
      BY <3>1, <3>3, <3>4 DEF Before
    <3> QED
      BY <1>1, <3>5 DEF p
  <2> QED
    BY <2>1, <2>2, <2>3
<1>5. ASSUME NEW i \in DOMAIN wr, NEW j \in DOMAIN u, wr[i] \in T
      PROVE  Before(p, wr[i], u[j])
  <2>1. CASE j \in DOMAIN s
    <3>1. Before(o, wr[i], s[j])
      BY <1>5, <2>1 DEF InLine
    <3> QED
      BY <1>1, <1>3, <2>1, <3>1 DEF u, p
  <2>2. CASE j \notin DOMAIN s
    BY <1>1, <1>2, <1>3, <2>2 DEF u, p
  <2> QED
    BY <2>1, <2>2
<1>6. ASSUME NEW i \in DOMAIN wr, NEW j \in DOMAIN wr, wr[i] \in T, wr[j] \in T, i < j
      PROVE  Before(p, wr[i], wr[j])
  <2>1. Before(o, wr[i], wr[j])
    BY <1>6 DEF InLine
  <2> QED
    BY <1>1, <2>1 DEF p
<1>7. u \in Seq(T)
  BY <1>3 DEF u
<1>8. InLine(p, wr, u, T)
  BY <1>4, <1>5, <1>6, <1>7 DEF InLine
<1> QED
  BY <1>8 DEF u, p

\* Tasks of the other line are offered.
LEMMA LineStays ==
    ASSUME NEW T, NEW o \in Seq(Tasks), NEW wr, NEW s, InLine(o, wr, s, T),
           NEW c \in Seq(Tasks)
    PROVE  InLine(o \o c, wr, s, T)
<1>1. \A x, y : Before(o, x, y) => Before(o \o c, x, y)
  BY BeforeFacts
<1> DEFINE p == o \o c
<1> HIDE DEF p
<1>2. \A x, y : Before(o, x, y) => Before(p, x, y)
  BY <1>1 DEF p
<1>3. InLine(p, wr, s, T)
  BY <1>2 DEF InLine
<1> QED
  BY <1>3 DEF p

LEMMA AppendFacts ==
    ASSUME NEW S, NEW s \in Seq(S), NEW x \in S
    PROVE  /\ Append(s, x) \in Seq(S) /\ Len(s) \in Nat
           /\ DOMAIN s = 1..Len(s) /\ DOMAIN Append(s, x) = 1..(Len(s) + 1)
           /\ \A i \in DOMAIN s : Append(s, x)[i] = s[i]
           /\ Append(s, x)[Len(s) + 1] = x
           /\ \A i \in DOMAIN Append(s, x) : i \in DOMAIN s \/ i = Len(s) + 1
OBVIOUS

LEMMA TailFacts ==
    ASSUME NEW S, NEW s \in Seq(S), s # <<>>
    PROVE  /\ Tail(s) \in Seq(S) /\ Head(s) \in S /\ Head(s) = s[1]
           /\ 1 \in DOMAIN s /\ \A i \in DOMAIN s : i \in Nat
           /\ \A i \in DOMAIN Tail(s) : i + 1 \in DOMAIN s /\ Tail(s)[i] = s[i + 1]
           /\ \A i \in DOMAIN s : i # 1 => i - 1 \in DOMAIN Tail(s) /\ Tail(s)[i - 1] = s[i]
           /\ \A i \in DOMAIN Tail(s) : i \in Nat /\ i + 1 > 1
           /\ s = <<Head(s)>> \o Tail(s)
OBVIOUS

\* The first of the line is written.
LEMMA LineServed ==
    ASSUME NEW T, T \subseteq Tasks, NEW o, NEW wr \in Seq(Tasks), NEW s,
           InLine(o, wr, s, T), s # <<>>
    PROVE  InLine(o, Append(wr, Head(s)), Tail(s), T)
<1> DEFINE x == Head(s)
           wx == Append(wr, x)
           t == Tail(s)
<1>0. s \in Seq(T)
  BY DEF InLine
<1>1. /\ t \in Seq(T) /\ x \in T /\ x = s[1] /\ 1 \in DOMAIN s
      /\ \A i \in DOMAIN t : i + 1 \in DOMAIN s /\ t[i] = s[i + 1]
      /\ \A i \in DOMAIN t : i \in Nat /\ i + 1 > 1
  BY <1>0, TailFacts
<1>2. x \in Tasks
  BY <1>1
<1> HIDE DEF x, t
<1>3. /\ \A i \in DOMAIN wr : wx[i] = wr[i]
      /\ wx[Len(wr) + 1] = x /\ Len(wr) \in Nat /\ DOMAIN wr = 1..Len(wr)
      /\ \A i \in DOMAIN wx : i \in DOMAIN wr \/ i = Len(wr) + 1
  BY <1>2, AppendFacts
<1> HIDE DEF wx
<1>4. ASSUME NEW i \in DOMAIN t, NEW j \in DOMAIN t, i < j PROVE Before(o, t[i], t[j])
  <2>1. i + 1 < j + 1
    BY <1>1, <1>4
  <2> QED
    BY <1>1, <2>1 DEF InLine
<1>5. ASSUME NEW i \in DOMAIN wx, NEW j \in DOMAIN t, wx[i] \in T
      PROVE  Before(o, wx[i], t[j])
  <2>1. CASE i \in DOMAIN wr
    BY <1>1, <1>3, <1>5, <2>1 DEF InLine
  <2>2. CASE i = Len(wr) + 1
    BY <1>1, <1>3, <2>2 DEF InLine
  <2> QED
    BY <1>3, <2>1, <2>2
<1>6. ASSUME NEW i \in DOMAIN wx, NEW j \in DOMAIN wx, wx[i] \in T, wx[j] \in T, i < j
      PROVE  Before(o, wx[i], wx[j])
  <2>1. i \in DOMAIN wr
    BY <1>3, <1>6
  <2>2. CASE j \in DOMAIN wr
    BY <1>3, <1>6, <2>1, <2>2 DEF InLine
  <2>3. CASE j = Len(wr) + 1
    BY <1>1, <1>3, <1>6, <2>1, <2>3 DEF InLine
  <2> QED
    BY <1>3, <2>2, <2>3
<1>7. InLine(o, wx, t, T)
  BY <1>1, <1>4, <1>5, <1>6 DEF InLine
<1> QED
  BY <1>7 DEF wx, t, x

\* A task of the other line is written.
LEMMA LineWaits ==
    ASSUME NEW T, NEW o, NEW wr \in Seq(Tasks), NEW s, InLine(o, wr, s, T),
           NEW x \in Tasks, x \notin T
    PROVE  InLine(o, Append(wr, x), s, T)
<1> DEFINE wx == Append(wr, x)
<1>1. /\ \A i \in DOMAIN wr : wx[i] = wr[i]
      /\ wx[Len(wr) + 1] = x
      /\ \A i \in DOMAIN wx : i \in DOMAIN wr \/ i = Len(wr) + 1
  BY AppendFacts
<1> HIDE DEF wx
<1>2. \A i \in DOMAIN wx : wx[i] \in T => i \in DOMAIN wr /\ wx[i] = wr[i]
  BY <1>1
<1>3. InLine(o, wx, s, T)
  BY <1>2 DEF InLine
<1> QED
  BY <1>3 DEF wx

\* The front of the line is given up.
LEMMA LineDropped ==
    ASSUME NEW T, NEW o, NEW wr, NEW p \in Seq(T), NEW q \in Seq(T),
           InLine(o, wr, p \o q, T)
    PROVE  InLine(o, wr, q, T)
<1> DEFINE s == p \o q
<1>1. /\ \A i \in DOMAIN q : Len(p) + i \in DOMAIN s /\ s[Len(p) + i] = q[i]
      /\ Len(p) \in Nat /\ DOMAIN q = 1..Len(q) /\ Len(q) \in Nat
  BY JoinFacts
<1> HIDE DEF s
<1>2. ASSUME NEW i \in DOMAIN q, NEW j \in DOMAIN q, i < j PROVE Before(o, q[i], q[j])
  <2>1. Len(p) + i < Len(p) + j
    BY <1>1, <1>2
  <2>2. Before(o, s[Len(p) + i], s[Len(p) + j])
    BY <1>1, <2>1 DEF InLine, s
  <2> QED
    BY <1>1, <2>2
<1>3. ASSUME NEW i \in DOMAIN wr, NEW j \in DOMAIN q, wr[i] \in T
      PROVE  Before(o, wr[i], q[j])
  <2>1. Before(o, wr[i], s[Len(p) + j])
    BY <1>1, <1>3 DEF InLine, s
  <2> QED
    BY <1>1, <2>1
<1> QED
  BY <1>2, <1>3 DEF InLine

LEMMA TaskSets ==
    /\ RealtimeTasks \subseteq Tasks /\ BulkTasks \subseteq Tasks
    /\ RealtimeTasks \cap BulkTasks = {}
BY QueueAssumption DEF Tasks

LEMMA LineInjective ==
    ASSUME NEW T, NEW o \in Seq(Tasks), IsInjective(o), NEW wr, NEW s,
           InLine(o, wr, s, T)
    PROVE  IsInjective(s)
<1> SUFFICES ASSUME NEW i \in DOMAIN s, NEW j \in DOMAIN s, s[i] = s[j]
             PROVE  i = j
  BY DEF IsInjective
<1>1. s \in Seq(T)
  BY DEF InLine
<1>2. i \in Nat /\ j \in Nat
  BY <1>1
<1>3. ~(i < j)
  BY NeverBeforeItself DEF InLine
<1>4. ~(j < i)
  BY NeverBeforeItself DEF InLine
<1> QED
  BY <1>2, <1>3, <1>4

LEMMA DropElems ==
    ASSUME NEW S, NEW p \in Seq(S), NEW q \in Seq(S), IsInjective(p \o q)
    PROVE  Elems(q) = Elems(p \o q) \ Elems(p)
<1>1. Elems(p \o q) = Elems(p) \cup Elems(q)
  BY JoinElems
<1>2. ASSUME NEW x \in Elems(p), x \in Elems(q) PROVE FALSE
  <2>1. PICK i \in DOMAIN p : p[i] = x
    BY DEF Elems
  <2>2. PICK j \in DOMAIN q : q[j] = x
    BY <1>2 DEF Elems
  <2>3. /\ i \in DOMAIN (p \o q) /\ Len(p) + j \in DOMAIN (p \o q)
        /\ (p \o q)[i] = x /\ (p \o q)[Len(p) + j] = x /\ i # Len(p) + j
    BY <2>1, <2>2, JoinFacts
  <2> QED
    BY <2>3 DEF IsInjective
<1> QED
  BY <1>1, <1>2

\* Tasks are offered, written, and lost.
LEMMA PartitionOffer ==
    ASSUME NEW o, NEW wr, NEW L, NEW r, NEW b, Partition(o, wr, L, r, b),
           NEW c \in Seq(Tasks), IsInjective(c), Elems(c) \cap Elems(o) = {},
           NEW rr, NEW bb,
           Elems(rr) \cup Elems(bb) = Elems(r) \cup Elems(b) \cup Elems(c)
    PROVE  Partition(o \o c, wr, L, rr, bb)
<1>0. o \in Seq(Tasks) /\ IsInjective(o)
  BY DEF Partition
<1>1. o \o c \in Seq(Tasks) /\ IsInjective(o \o c)
  BY <1>0, JoinFacts, JoinInjective
<1>2. Elems(o \o c) = Elems(o) \cup Elems(c)
  BY <1>0, JoinElems
<1> DEFINE p == o \o c
<1> HIDE DEF p
<1>3. Partition(p, wr, L, rr, bb)
  <2>1. p \in Seq(Tasks) /\ IsInjective(p) /\ Elems(p) = Elems(o) \cup Elems(c)
    BY <1>1, <1>2 DEF p
  <2> QED
    BY <2>1 DEF Partition
<1> QED
  BY <1>3 DEF p

LEMMA PartitionWrite ==
    ASSUME NEW o, NEW wr, NEW L, NEW r, NEW b, Partition(o, wr, L, r, b),
           NEW x \in Tasks, x \in Elems(r) \cup Elems(b), NEW rr, NEW bb,
           Elems(rr) \cup Elems(bb) = (Elems(r) \cup Elems(b)) \ {x}
    PROVE  Partition(o, Append(wr, x), L, rr, bb)
<1>0. wr \in Seq(Tasks) /\ IsInjective(wr) /\ x \notin Elems(wr)
  BY DEF Partition
<1> DEFINE wx == Append(wr, x)
<1>1. /\ wx \in Seq(Tasks) /\ Len(wr) \in Nat
      /\ DOMAIN wr = 1..Len(wr) /\ DOMAIN wx = 1..(Len(wr) + 1)
      /\ \A i \in DOMAIN wr : wx[i] = wr[i]
      /\ wx[Len(wr) + 1] = x
      /\ \A i \in DOMAIN wx : i \in DOMAIN wr \/ i = Len(wr) + 1
  BY <1>0, AppendFacts
<1> HIDE DEF wx
<1>2. IsInjective(wx)
  <2>1. \A i \in DOMAIN wr : wx[i] # x
    BY <1>0, <1>1 DEF Elems
  <2>2. \A i, j \in DOMAIN wr : wx[i] = wx[j] => i = j
    BY <1>0, <1>1 DEF IsInjective
  <2> QED
    BY <1>1, <2>1, <2>2 DEF IsInjective
<1>3. Elems(wx) = Elems(wr) \cup {x}
  <2>1. \A y \in Elems(wx) : y \in Elems(wr) \cup {x}
    BY <1>1 DEF Elems
  <2>2. \A y \in Elems(wr) : y \in Elems(wx)
    BY <1>1 DEF Elems
  <2>3. Len(wr) + 1 \in DOMAIN wx
    BY <1>1
  <2>4. x \in Elems(wx)
    BY <1>1, <2>3 DEF Elems
  <2> QED
    BY <2>1, <2>2, <2>4
<1>4. Partition(o, wx, L, rr, bb)
  BY <1>1, <1>2, <1>3 DEF Partition
<1> QED
  BY <1>4 DEF wx

LEMMA PartitionLose ==
    ASSUME NEW o, NEW wr, NEW L, NEW r, NEW b, Partition(o, wr, L, r, b),
           NEW G, G \subseteq Elems(r) \cup Elems(b),
           G \cap RealtimeTasks \subseteq Malformed, NEW rr, NEW bb,
           Elems(rr) \cup Elems(bb) = (Elems(r) \cup Elems(b)) \ G
    PROVE  Partition(o, wr, L \cup G, rr, bb)
BY DEF Partition

\* Joining associates.  The equation has a name so that the provers instantiate
\* the lemma before they look inside.
Associates(s, t, u) == (s \o t) \o u = s \o (t \o u)

LEMMA JoinAssociates ==
    ASSUME NEW s \in Seq(Tasks), NEW t \in Seq(Tasks), NEW u \in Seq(Tasks)
    PROVE  Associates(s, t, u)
BY DEF Associates

LEMMA JoinOne ==
    ASSUME NEW S, NEW x \in S, NEW s \in Seq(S)
    PROVE  /\ Append(s, x) = s \o <<x>> /\ <<x>> \in Seq(S)
           /\ Elems(<<x>>) = {x} /\ IsInjective(<<x>>)
           /\ <<x>> \o s # <<>> /\ Head(<<x>> \o s) = x /\ Tail(<<x>> \o s) = s
<1>1. Append(s, x) = s \o <<x>> /\ <<x>> \in Seq(S)
  OBVIOUS
<1>2. DOMAIN <<x>> = {1} /\ <<x>>[1] = x
  OBVIOUS
<1>3. Elems(<<x>>) = {x} /\ IsInjective(<<x>>)
  BY <1>2 DEF Elems, IsInjective
<1>4. <<x>> \o s # <<>> /\ Head(<<x>> \o s) = x /\ Tail(<<x>> \o s) = s
  OBVIOUS
<1> QED
  BY <1>1, <1>3, <1>4

\* The lines read off, and put back, at the one worker that exists.
LEMMA LinesAt ==
    ASSUME NEW w \in Workers, NEW r, NEW b, \A v \in Workers : v # w => pc[v] = "off",
           Lines(r, b)
    PROVE  /\ pc[w] \in {"drainWrite", "urgentWrite"} => r = <<writing[w]>> \o tier1RealtimeQueue
           /\ pc[w] \notin {"drainWrite", "urgentWrite"} => r = tier1RealtimeQueue
           /\ pc[w] \in {"batch", "task", "urgentWrite"} => b = batch[w] \o tier2BulkQueue
           /\ pc[w] = "taskWrite" => b = <<writing[w]>> \o (batch[w] \o tier2BulkQueue)
           /\ pc[w] \notin {"batch", "task", "urgentWrite", "taskWrite"}
                 => b = tier2BulkQueue /\ batch[w] = <<>>
           /\ \A v \in Workers : v # w => batch[v] = <<>>
BY DEF Lines

LEMMA LinesPutBack ==
    ASSUME NEW w \in Workers, NEW r, NEW b,
           \A v \in Workers : v # w => pc'[v] = "off" /\ batch'[v] = <<>>,
           pc'[w] \in {"drainWrite", "urgentWrite"} => r = <<writing'[w]>> \o tier1RealtimeQueue',
           pc'[w] \notin {"drainWrite", "urgentWrite"} => r = tier1RealtimeQueue',
           pc'[w] \in {"batch", "task", "urgentWrite"} => b = batch'[w] \o tier2BulkQueue',
           pc'[w] = "taskWrite" => b = <<writing'[w]>> \o (batch'[w] \o tier2BulkQueue'),
           pc'[w] \notin {"batch", "task", "urgentWrite", "taskWrite"}
                 => b = tier2BulkQueue' /\ batch'[w] = <<>>
    PROVE  Lines(r, b)'
BY DEF Lines

\* What is known of the line's parts before a step.
LEMMA LineTypes ==
    ASSUME Exclusive, WorkerOK
    PROVE  /\ tier1RealtimeQueue \in Seq(RealtimeTasks) /\ tier2BulkQueue \in Seq(BulkTasks)
           /\ tier1RealtimeQueue \in Seq(Tasks) /\ tier2BulkQueue \in Seq(Tasks)
           /\ \A w \in Workers : /\ batch[w] \in Seq(BulkTasks) /\ batch[w] \in Seq(Tasks)
                                 /\ pc[w] \in Active \cup {"off"}
                                 /\ Writing(w) => <<writing[w]>> \in Seq(Tasks)
           /\ \A w \in Workers : pc[w] # "off" =>
                 \A v \in Workers : v # w => pc[v] = "off"
<1>1. /\ tier1RealtimeQueue \in Seq(RealtimeTasks) /\ tier2BulkQueue \in Seq(BulkTasks)
      /\ \A w \in Workers : batch[w] \in Seq(BulkTasks) /\ pc[w] \in Active \cup {"off"}
  BY DEF Exclusive, TypeOK
<1>2. tier1RealtimeQueue \in Seq(Tasks) /\ tier2BulkQueue \in Seq(Tasks)
  BY <1>1, TaskSets, SeqMonotonic
<1>3. \A w \in Workers : batch[w] \in Seq(Tasks)
  BY <1>1, TaskSets, SeqMonotonic
<1>4. \A w \in Workers : Writing(w) => <<writing[w]>> \in Seq(Tasks)
  BY DEF WorkerOK
<1>5. \A w \in Workers : pc[w] # "off" => \A v \in Workers : v # w => pc[v] = "off"
  BY DEF Exclusive, SingleWriter
<1> QED
  BY <1>1, <1>2, <1>3, <1>4, <1>5

\* triggerProcessing changes no line.
LEMMA TriggerMoves ==
    ASSUME TypeOK, TriggerProcessing
    PROVE  \A w \in Workers : pc'[w] = pc[w] \/ (pc[w] = "off" /\ pc'[w] = "scheduled")
BY DEF TypeOK, TriggerProcessing

\* A task joins the realtime line, a chunk the bulk line, at their ends.
LEMMA LinesOffer ==
    ASSUME Exclusive, WorkerOK, NEW r, NEW b, Lines(r, b),
           NEW t \in Seq(Tasks), NEW c \in Seq(Tasks),
           tier1RealtimeQueue' = tier1RealtimeQueue \o t,
           tier2BulkQueue' = tier2BulkQueue \o c,
           TriggerProcessing, UNCHANGED <<batch, writing>>
    PROVE  Lines(r \o t, b \o c)'
<1>0. \A w \in Workers : pc'[w] = pc[w] \/ (pc[w] = "off" /\ pc'[w] = "scheduled")
  BY TriggerMoves DEF Exclusive
<1>1. ASSUME NEW w \in Workers, pc[w] \in {"drainWrite", "urgentWrite"}
      PROVE  r \o t = <<writing[w]>> \o (tier1RealtimeQueue \o t)
  <2>1. <<writing[w]>> \in Seq(Tasks) /\ tier1RealtimeQueue \in Seq(Tasks)
    BY <1>1, LineTypes DEF Writing
  <2>2. r = <<writing[w]>> \o tier1RealtimeQueue
    BY <1>1 DEF Lines
  <2>3. Associates(<<writing[w]>>, tier1RealtimeQueue, t)
    BY <2>1, JoinAssociates, Zenon
  <2> QED
    BY <2>2, <2>3, Zenon DEF Associates
<1>2. ASSUME NEW w \in Workers, pc[w] \in {"batch", "task", "urgentWrite"}
      PROVE  b \o c = batch[w] \o (tier2BulkQueue \o c)
  <2>1. batch[w] \in Seq(Tasks) /\ tier2BulkQueue \in Seq(Tasks)
    BY LineTypes
  <2>2. b = batch[w] \o tier2BulkQueue
    BY <1>2 DEF Lines
  <2>3. Associates(batch[w], tier2BulkQueue, c)
    BY <2>1, JoinAssociates, Zenon
  <2> QED
    BY <2>2, <2>3, Zenon DEF Associates
<1>3. ASSUME NEW w \in Workers, pc[w] = "taskWrite"
      PROVE  b \o c = <<writing[w]>> \o (batch[w] \o (tier2BulkQueue \o c))
  <2>1. <<writing[w]>> \in Seq(Tasks) /\ batch[w] \in Seq(Tasks)
        /\ tier2BulkQueue \in Seq(Tasks)
    BY <1>3, LineTypes DEF Writing
  <2>2. b = <<writing[w]>> \o (batch[w] \o tier2BulkQueue)
    BY <1>3 DEF Lines
  <2>3. PICK h \in Seq(Tasks), q \in Seq(Tasks), z \in Seq(Tasks) :
           h = <<writing[w]>> /\ q = batch[w] /\ z = tier2BulkQueue
    BY <2>1
  <2>4. PICK qz \in Seq(Tasks) : qz = q \o z
    BY JoinFacts
  <2>5. Associates(h, qz, c) /\ Associates(q, z, c)
    BY JoinAssociates, Zenon
  <2>6. b = h \o qz
    BY <2>2, <2>3, <2>4, Zenon
  <2>7. b \o c = h \o (q \o (z \o c))
    BY <2>4, <2>5, <2>6, Zenon DEF Associates
  <2> QED
    BY <2>3, <2>7, Zenon
<1> DEFINE rr == r \o t
           bb == b \o c
           t1 == tier1RealtimeQueue \o t
           t2 == tier2BulkQueue \o c
<1>4. /\ (\A w \in Workers : pc[w] \notin {"drainWrite", "urgentWrite"}) => rr = t1
      /\ (\A w \in Workers : pc[w] \notin {"batch", "task", "urgentWrite", "taskWrite"})
            => bb = t2
  BY DEF Lines
<1>5. /\ \A w \in Workers : pc[w] \in {"drainWrite", "urgentWrite"}
            => rr = <<writing[w]>> \o t1
      /\ \A w \in Workers : pc[w] \in {"batch", "task", "urgentWrite"}
            => bb = batch[w] \o t2
      /\ \A w \in Workers : pc[w] = "taskWrite" => bb = <<writing[w]>> \o (batch[w] \o t2)
  BY <1>1, <1>2, <1>3
<1>6. \A w \in Workers : pc[w] \notin {"batch", "task", "urgentWrite", "taskWrite"}
            => batch[w] = <<>>
  BY DEF Lines
<1>7. tier1RealtimeQueue' = t1 /\ tier2BulkQueue' = t2 /\ batch' = batch /\ writing' = writing
  OBVIOUS
<1> HIDE DEF rr, bb, t1, t2
<1>8. Lines(rr, bb)'
  BY <1>0, <1>4, <1>5, <1>6, <1>7 DEF Lines
<1> QED
  BY <1>8 DEF rr, bb

\* Whoever is offered a task puts it at the end of its line.
LEMMA EnqueueStep ==
    ASSUME Exclusive, WorkerOK, NEW r \in Seq(RealtimeTasks), NEW b \in Seq(BulkTasks),
           TwoLines(r, b),
           \/ \E t \in RealtimeTasks : EnqueueRealtime(t)
           \/ \E c \in Chunks : EnqueueBulkBatch(c)
           \/ WorkerLoopTick
    PROVE  LinesInv'
<1>0. /\ Lines(r, b) /\ Partition(offered, written, lost, r, b)
      /\ InLine(offered, written, r, RealtimeTasks)
      /\ InLine(offered, written, b, BulkTasks)
  BY DEF TwoLines
<1>1. /\ offered \in Seq(Tasks) /\ written \in Seq(Tasks)
      /\ Elems(r) \subseteq Elems(offered) /\ Elems(b) \subseteq Elems(offered)
      /\ Elems(written) \subseteq Elems(offered)
  BY <1>0 DEF Partition
<1>2. <<>> \in Seq(Tasks) /\ r \o <<>> = r /\ b \o <<>> = b
  OBVIOUS
<1>3. /\ tier1RealtimeQueue \o <<>> = tier1RealtimeQueue
      /\ tier2BulkQueue \o <<>> = tier2BulkQueue
  BY LineTypes
<1>4. ASSUME NEW t \in RealtimeTasks, EnqueueRealtime(t) PROVE LinesInv'
  <2>1. t \in Tasks
    BY TaskSets
  <2>2. /\ <<t>> \in Seq(RealtimeTasks) /\ <<t>> \in Seq(Tasks)
        /\ Elems(<<t>>) = {t} /\ IsInjective(<<t>>)
        /\ tier1RealtimeQueue' = tier1RealtimeQueue \o <<t>>
        /\ offered' = offered \o <<t>>
    BY <1>1, <1>4, <2>1, LineTypes, JoinOne DEF EnqueueRealtime
  <2>3. UNCHANGED <<tier2BulkQueue, batch, writing, written, lost>> /\ TriggerProcessing
        /\ t \notin Elems(offered)
    BY <1>4 DEF EnqueueRealtime
  <2> DEFINE rr == r \o <<t>>
  <2>4. Lines(rr, b)'
    <3>1. Lines(r \o <<t>>, b \o <<>>)'
      BY <1>0, <1>2, <1>3, <2>2, <2>3, LinesOffer
    <3> QED
      BY <1>2, <3>1
  <2>5. rr \in Seq(RealtimeTasks) /\ Elems(rr) = Elems(r) \cup {t}
    <3>1. Elems(rr) = Elems(r) \cup Elems(<<t>>)
      <4> DEFINE one == <<t>>
      <4>1. one \in Seq(RealtimeTasks)
        BY <2>2
      <4> HIDE DEF one
      <4>2. Elems(r \o one) = Elems(r) \cup Elems(one)
        BY <4>1, JoinElems
      <4> QED
        BY <4>2 DEF one
    <3>2. rr \in Seq(RealtimeTasks)
      BY <2>2, JoinFacts
    <3> QED
      BY <2>2, <3>1, <3>2
  <2>6. InLine(offered', written', rr, RealtimeTasks)
    BY <1>0, <1>1, <2>2, <2>3, TaskSets, LineGrows
  <2>7. InLine(offered', written', b, BulkTasks)
    BY <1>0, <1>1, <2>2, <2>3, LineStays
  <2>8. Partition(offered', written', lost', rr, b)
    <3>1. Elems(rr) \cup Elems(b) = Elems(r) \cup Elems(b) \cup Elems(<<t>>)
      BY <2>2, <2>5
    <3>2. Elems(<<t>>) \cap Elems(offered) = {}
      BY <2>2, <2>3
    <3> HIDE DEF rr
    <3> QED
      BY <1>0, <2>2, <2>3, <3>1, <3>2, PartitionOffer
  <2> HIDE DEF rr
  <2>9. TwoLines(rr, b)'
    BY <2>4, <2>6, <2>7, <2>8 DEF TwoLines
  <2> QED
    BY <2>5, <2>9 DEF LinesInv
<1>5. ASSUME NEW c \in Chunks, EnqueueBulkBatch(c) PROVE LinesInv'
  <2>1. c \in Seq(BulkTasks) /\ c \in Seq(Tasks)
    BY ChunkTyping
  <2>2. IsInjective(c)
    BY QueueAssumption DEF IsInjective
  <2>3. UNCHANGED <<tier1RealtimeQueue, batch, writing, written, lost>>
        /\ TriggerProcessing /\ tier2BulkQueue' = tier2BulkQueue \o c
        /\ offered' = offered \o c /\ Elems(c) \cap Elems(offered) = {}
    BY <1>5 DEF EnqueueBulkBatch
  <2> DEFINE bb == b \o c
  <2>4. Lines(r, bb)'
    <3>1. Lines(r \o <<>>, b \o c)'
      BY <1>0, <1>2, <1>3, <2>1, <2>3, LinesOffer
    <3> QED
      BY <1>2, <3>1
  <2>5. bb \in Seq(BulkTasks) /\ Elems(bb) = Elems(b) \cup Elems(c)
    BY <2>1, JoinFacts, JoinElems
  <2>6. InLine(offered', written', bb, BulkTasks)
    BY <1>0, <1>1, <2>1, <2>3, TaskSets, LineGrows
  <2>7. InLine(offered', written', r, RealtimeTasks)
    BY <1>0, <1>1, <2>1, <2>3, LineStays
  <2>8. Partition(offered', written', lost', r, bb)
    <3>1. Elems(r) \cup Elems(bb) = Elems(r) \cup Elems(b) \cup Elems(c)
      BY <2>5
    <3> HIDE DEF bb
    <3> QED
      BY <1>0, <2>1, <2>2, <2>3, <3>1, PartitionOffer
  <2> HIDE DEF bb
  <2>9. TwoLines(r, bb)'
    BY <2>4, <2>6, <2>7, <2>8 DEF TwoLines
  <2> QED
    BY <2>5, <2>9 DEF LinesInv
<1>6. CASE WorkerLoopTick
  <2>1. /\ UNCHANGED <<tier1RealtimeQueue, tier2BulkQueue, batch, writing, written,
                       lost, offered>>
        /\ TriggerProcessing
    BY <1>6 DEF WorkerLoopTick
  <2>2. Lines(r \o <<>>, b \o <<>>)'
    BY <1>0, <1>2, <1>3, <2>1, LinesOffer
  <2>3. Lines(r, b)'
    BY <1>2, <2>2
  <2>4. TwoLines(r, b)'
    BY <1>0, <2>1, <2>3 DEF TwoLines
  <2> QED
    BY <2>4 DEF LinesInv
<1> QED
  BY <1>4, <1>5, <1>6

LEMMA SplitSeq ==
    ASSUME NEW S, NEW s \in Seq(S), NEW n \in 0..Len(s)
    PROVE  s = SubSeq(s, 1, n) \o SubSeq(s, n + 1, Len(s))
<1>1. Len(s) \in Nat /\ 1 \in 1..Len(s) + 1 /\ n \in (1 - 1)..Len(s)
      /\ Len(s) \in n..Len(s)
  OBVIOUS
<1>2. SubSeq(s, 1, n) \o SubSeq(s, n + 1, Len(s)) = SubSeq(s, 1, Len(s))
  BY <1>1, ConcatAdjacentSubSeq
<1> QED
  BY <1>2, SubSeqFull

\* The worker takes a task or a batch, or moves on: both lines stay.
LEMMA LinesStay ==
    ASSUME Exclusive, WorkerOK, NEW r, NEW b, Lines(r, b), NEW w \in Workers,
           \/ Begin(w) \/ DrainRealtime(w) \/ SpliceBatch(w) \/ NothingToDo(w)
           \/ TakeUrgent(w) \/ BeginTask(w) \/ BatchDone(w)
    PROVE  Lines(r, b)'
<1>0. /\ pc[w] # "off"
      /\ pc \in [Workers -> Active \cup {"off"}] /\ batch \in [Workers -> Seq(BulkTasks)]
      /\ writing \in [Workers -> Tasks \cup {None}]
  BY DEF Begin, DrainRealtime, SpliceBatch, NothingToDo, TakeUrgent, BeginTask,
         BatchDone, Exclusive, TypeOK
<1>1. \A v \in Workers : v # w => pc[v] = "off"
  BY <1>0, LineTypes
<1>2. /\ pc[w] \in {"drainWrite", "urgentWrite"} => r = <<writing[w]>> \o tier1RealtimeQueue
      /\ pc[w] \notin {"drainWrite", "urgentWrite"} => r = tier1RealtimeQueue
      /\ pc[w] \in {"batch", "task", "urgentWrite"} => b = batch[w] \o tier2BulkQueue
      /\ pc[w] = "taskWrite" => b = <<writing[w]>> \o (batch[w] \o tier2BulkQueue)
      /\ pc[w] \notin {"batch", "task", "urgentWrite", "taskWrite"}
            => b = tier2BulkQueue /\ batch[w] = <<>>
      /\ \A v \in Workers : v # w => batch[v] = <<>>
  BY <1>1, LinesAt
<1>3. tier1RealtimeQueue \in Seq(Tasks) /\ tier2BulkQueue \in Seq(Tasks)
      /\ batch[w] \in Seq(Tasks) /\ batch[w] \in Seq(BulkTasks)
      /\ tier2BulkQueue \in Seq(BulkTasks)
  BY LineTypes
<1>4. CASE Begin(w)
  <2>1. /\ pc[w] = "scheduled" /\ pc' = [pc EXCEPT ![w] = "drain"]
        /\ UNCHANGED <<tier1RealtimeQueue, tier2BulkQueue, batch, writing>>
    BY <1>4 DEF Begin
  <2>2. pc'[w] = "drain" /\ \A v \in Workers : v # w => pc'[v] = "off"
    BY <1>0, <1>1, <2>1
  <2> QED
    BY <1>2, <2>1, <2>2, LinesPutBack
<1>5. CASE DrainRealtime(w)
  <2>1. /\ pc[w] = "drain" /\ pc'[w] = "drainWrite"
        /\ \A v \in Workers : v # w => pc'[v] = "off"
        /\ UNCHANGED <<tier2BulkQueue, batch>>
        /\ writing'[w] = Head(tier1RealtimeQueue) /\ tier1RealtimeQueue # <<>>
        /\ tier1RealtimeQueue' = Tail(tier1RealtimeQueue)
    BY <1>0, <1>1, <1>5 DEF DrainRealtime
  <2>2. r = <<writing'[w]>> \o tier1RealtimeQueue'
    BY <1>2, <1>3, <2>1, TailFacts
  <2> QED
    BY <1>2, <2>1, <2>2, LinesPutBack
<1>6. CASE SpliceBatch(w)
  <2> DEFINE n == IF Len(tier2BulkQueue) < MicroBatchSize
                  THEN Len(tier2BulkQueue) ELSE MicroBatchSize
  <2>1. /\ pc[w] = "drain" /\ pc'[w] = "batch"
        /\ \A v \in Workers : v # w => pc'[v] = "off" /\ batch'[v] = batch[v]
        /\ UNCHANGED <<tier1RealtimeQueue, writing>>
        /\ batch'[w] = SubSeq(tier2BulkQueue, 1, n)
        /\ tier2BulkQueue' = SubSeq(tier2BulkQueue, n + 1, Len(tier2BulkQueue))
    BY <1>0, <1>1, <1>6 DEF SpliceBatch
  <2>2. n \in 0..Len(tier2BulkQueue)
    BY <1>3, QueueAssumption
  <2> HIDE DEF n
  <2>3. tier2BulkQueue = batch'[w] \o tier2BulkQueue'
    BY <1>3, <2>1, <2>2, SplitSeq
  <2>4. b = batch'[w] \o tier2BulkQueue'
    BY <1>2, <2>1, <2>3
  <2> QED
    BY <1>2, <2>1, <2>4, LinesPutBack
<1>7. CASE NothingToDo(w) \/ BatchDone(w)
  <2>1. /\ pc'[w] \in {"scheduled", "off"} /\ batch[w] = <<>> /\ pc[w] \in {"drain", "batch"}
        /\ \A v \in Workers : v # w => pc'[v] = "off"
        /\ UNCHANGED <<tier1RealtimeQueue, tier2BulkQueue, batch, writing>>
    BY <1>0, <1>1, <1>2, <1>7 DEF NothingToDo, BatchDone, Finish
  <2>2. b = tier2BulkQueue
    <3>1. <<>> \o tier2BulkQueue = tier2BulkQueue
      BY <1>3
    <3> QED
      BY <1>2, <2>1, <3>1
  <2> QED
    BY <1>2, <2>1, <2>2, LinesPutBack
<1>8. CASE TakeUrgent(w)
  <2>1. pc[w] = "batch" /\ UNCHANGED <<tier2BulkQueue, batch>>
    BY <1>8 DEF TakeUrgent
  <2>2. CASE tier1RealtimeQueue # <<>>
    <3>1. /\ pc'[w] = "urgentWrite" /\ \A v \in Workers : v # w => pc'[v] = "off"
          /\ writing'[w] = Head(tier1RealtimeQueue)
          /\ tier1RealtimeQueue' = Tail(tier1RealtimeQueue)
      BY <1>0, <1>1, <1>8, <2>2 DEF TakeUrgent
    <3>2. r = <<writing'[w]>> \o tier1RealtimeQueue'
      BY <1>2, <1>3, <2>1, <2>2, <3>1, TailFacts
    <3> QED
      BY <1>2, <2>1, <3>1, <3>2, LinesPutBack
  <2>3. CASE tier1RealtimeQueue = <<>>
    <3>1. /\ pc'[w] = "task" /\ \A v \in Workers : v # w => pc'[v] = "off"
          /\ UNCHANGED tier1RealtimeQueue
      BY <1>0, <1>1, <1>8, <2>3 DEF TakeUrgent
    <3> QED
      BY <1>2, <2>1, <3>1, LinesPutBack
  <2> QED
    BY <2>2, <2>3
<1>9. CASE BeginTask(w)
  <2>1. /\ pc[w] = "task" /\ pc'[w] = "taskWrite" /\ batch[w] # <<>>
        /\ \A v \in Workers : v # w => pc'[v] = "off" /\ batch'[v] = batch[v]
        /\ UNCHANGED <<tier1RealtimeQueue, tier2BulkQueue>>
        /\ writing'[w] = Head(batch[w]) /\ batch'[w] = Tail(batch[w])
    BY <1>0, <1>1, <1>9 DEF BeginTask, WorkerOK
  <2>2. /\ batch[w] = <<Head(batch[w])>> \o Tail(batch[w])
        /\ <<Head(batch[w])>> \in Seq(Tasks) /\ Tail(batch[w]) \in Seq(Tasks)
    BY <1>3, <2>1, TailFacts
  <2> DEFINE h == <<Head(batch[w])>>
             t == Tail(batch[w])
  <2>3. batch[w] = h \o t /\ h \in Seq(Tasks) /\ t \in Seq(Tasks)
        /\ <<writing'[w]>> = h /\ batch'[w] = t
    BY <2>1, <2>2
  <2> HIDE DEF h, t
  <2>4. b = h \o (t \o tier2BulkQueue)
    <3>1. Associates(h, t, tier2BulkQueue)
      BY <1>3, <2>3, JoinAssociates, Zenon
    <3> QED
      BY <1>2, <2>1, <2>3, <3>1 DEF Associates
  <2>5. b = <<writing'[w]>> \o (batch'[w] \o tier2BulkQueue')
    BY <2>1, <2>3, <2>4
  <2> QED
    BY <1>2, <2>1, <2>5, LinesPutBack
<1> QED
  BY <1>4, <1>5, <1>6, <1>7, <1>8, <1>9

\* A write that returns takes the first task of its line.
LEMMA WrittenStep ==
    ASSUME Exclusive, WorkerOK, NEW r \in Seq(RealtimeTasks), NEW b \in Seq(BulkTasks),
           TwoLines(r, b), NEW w \in Workers, WriteEnds(w)
    PROVE  LinesInv'
<1>0. /\ Lines(r, b) /\ Partition(offered, written, lost, r, b)
      /\ InLine(offered, written, r, RealtimeTasks)
      /\ InLine(offered, written, b, BulkTasks)
      /\ written \in Seq(Tasks) /\ offered \in Seq(Tasks) /\ IsInjective(offered)
  BY DEF TwoLines, Partition
<1>1. /\ Writing(w) /\ pc[w] # "off" /\ writing[w] \in Tasks
      /\ pc \in [Workers -> Active \cup {"off"}]
  BY DEF WriteEnds, Writing, WorkerOK, Exclusive, TypeOK
<1>2. \A v \in Workers : v # w => pc[v] = "off"
  BY <1>1, LineTypes
<1>3. /\ pc[w] \in {"drainWrite", "urgentWrite"} => r = <<writing[w]>> \o tier1RealtimeQueue
      /\ pc[w] \notin {"drainWrite", "urgentWrite"} => r = tier1RealtimeQueue
      /\ pc[w] \in {"batch", "task", "urgentWrite"} => b = batch[w] \o tier2BulkQueue
      /\ pc[w] = "taskWrite" => b = <<writing[w]>> \o (batch[w] \o tier2BulkQueue)
      /\ pc[w] \notin {"batch", "task", "urgentWrite", "taskWrite"}
            => b = tier2BulkQueue /\ batch[w] = <<>>
      /\ \A v \in Workers : v # w => batch[v] = <<>>
  BY <1>0, <1>2, LinesAt
<1>4. /\ written' = Append(written, writing[w])
      /\ UNCHANGED <<tier1RealtimeQueue, tier2BulkQueue, batch, lost, offered>>
      /\ \A v \in Workers : v # w => pc'[v] = "off"
      /\ pc[w] = "drainWrite" => pc'[w] = "drain"
      /\ pc[w] = "urgentWrite" => pc'[w] = "task"
      /\ pc[w] = "taskWrite" => pc'[w] = "batch"
  BY <1>1, <1>2 DEF WriteEnds
<1>5. tier1RealtimeQueue \in Seq(Tasks) /\ tier2BulkQueue \in Seq(Tasks)
      /\ batch[w] \in Seq(Tasks)
  BY LineTypes
<1>6. IsInjective(r) /\ IsInjective(b)
  BY <1>0, LineInjective
<1> DEFINE x == writing[w]
<1>7. CASE pc[w] \in {"drainWrite", "urgentWrite"}
  <2> DEFINE t == tier1RealtimeQueue
  <2>0. r = <<x>> \o t /\ t \in Seq(Tasks)
    BY <1>3, <1>5, <1>7
  <2>1. r = <<x>> \o t /\ r # <<>> /\ Head(r) = x /\ Tail(r) = t
    <3> HIDE DEF t
    <3> QED
      BY <1>1, <2>0, JoinOne
  <2>2. x \in RealtimeTasks /\ x \notin BulkTasks /\ t \in Seq(RealtimeTasks)
    BY <2>1, TailFacts, TaskSets
  <2>3. Elems(t) = Elems(r) \ {x} /\ x \in Elems(r)
    <3>1. <<x>> \in Seq(Tasks) /\ Elems(<<x>>) = {x}
      BY <1>1, <1>5, JoinOne
    <3> DEFINE one == <<x>>
    <3>2. one \in Seq(Tasks) /\ Elems(one) = {x} /\ r = one \o t
      BY <2>1, <3>1
    <3> HIDE DEF one, x
    <3>3. Elems(t) = Elems(one \o t) \ Elems(one) /\ Elems(one \o t) = Elems(one) \cup Elems(t)
      BY <1>5, <1>6, <3>2, DropElems, JoinElems
    <3> QED
      BY <3>2, <3>3
  <2>4. InLine(offered, Append(written, x), t, RealtimeTasks)
    BY <1>0, <2>1, TaskSets, LineServed
  <2>5. InLine(offered, Append(written, x), b, BulkTasks)
    BY <1>0, <1>1, <2>2, LineWaits
  <2>6. Partition(offered, Append(written, x), lost, t, b)
    <3>1. x \notin Elems(b)
      BY <2>2 DEF Elems
    <3>2. Elems(t) \cup Elems(b) = (Elems(r) \cup Elems(b)) \ {x}
      BY <2>3, <3>1
    <3> QED
      BY <1>0, <1>1, <2>3, <3>2, PartitionWrite
  <2>7. Lines(t, b)'
    BY <1>3, <1>4, <1>7, LinesPutBack
  <2>8. TwoLines(t, b)'
    BY <1>4, <2>4, <2>5, <2>6, <2>7 DEF TwoLines
  <2> QED
    BY <1>4, <2>2, <2>8 DEF LinesInv
<1>8. CASE pc[w] = "taskWrite"
  <2>0. PICK t \in Seq(Tasks) : t = batch[w] \o tier2BulkQueue
    BY <1>5, JoinFacts
  <2>9. b = <<x>> \o t
    BY <1>3, <1>8, <2>0
  <2>10. r = tier1RealtimeQueue'
    BY <1>3, <1>4, <1>8
  <2>11. t = batch'[w] \o tier2BulkQueue'
    BY <1>4, <2>0
  <2>1. b # <<>> /\ Head(b) = x /\ Tail(b) = t
    BY <1>1, <2>0, <2>9, JoinOne
  <2>2. x \in BulkTasks /\ x \notin RealtimeTasks /\ t \in Seq(BulkTasks)
    <3>1. Tail(b) \in Seq(BulkTasks) /\ Head(b) \in BulkTasks
      BY <2>1, TailFacts
    <3> QED
      BY <2>1, <3>1, TaskSets
  <2>3. Elems(t) = Elems(b) \ {x} /\ x \in Elems(b)
    <3>1. <<x>> \in Seq(Tasks) /\ Elems(<<x>>) = {x}
      BY <1>1, <1>5, JoinOne
    <3> DEFINE one == <<x>>
    <3>2. one \in Seq(Tasks) /\ Elems(one) = {x} /\ b = one \o t
      BY <2>9, <3>1
    <3> HIDE DEF one, x
    <3>3. Elems(t) = Elems(one \o t) \ Elems(one)
      BY <1>6, <3>2, DropElems
    <3>4. Elems(one \o t) = Elems(one) \cup Elems(t)
      BY <3>2, JoinElems
    <3> QED
      BY <3>2, <3>3, <3>4
  <2>4. InLine(offered, Append(written, x), t, BulkTasks)
    BY <1>0, <2>1, TaskSets, LineServed
  <2>5. InLine(offered, Append(written, x), r, RealtimeTasks)
    BY <1>0, <1>1, <2>2, LineWaits
  <2>6. Partition(offered, Append(written, x), lost, r, t)
    <3>1. x \notin Elems(r)
      BY <2>2 DEF Elems
    <3>2. Elems(r) \cup Elems(t) = (Elems(r) \cup Elems(b)) \ {x}
      BY <2>3, <3>1
    <3> QED
      BY <1>0, <1>1, <2>3, <3>2, PartitionWrite
  <2>7. Lines(r, t)'
    BY <1>3, <1>4, <1>8, <2>10, <2>11, LinesPutBack
  <2>8. TwoLines(r, t)'
    BY <1>4, <2>4, <2>5, <2>6, <2>7 DEF TwoLines
  <2> QED
    BY <1>4, <2>2, <2>8 DEF LinesInv
<1> QED
  BY <1>1, <1>7, <1>8 DEF Writing

\* A write that throws gives up the front of a line, and the rest of a batch.
LEMMA ThrownStep ==
    ASSUME Exclusive, WorkerOK, NEW r \in Seq(RealtimeTasks), NEW b \in Seq(BulkTasks),
           TwoLines(r, b), NEW w \in Workers, WriteThrows(w)
    PROVE  LinesInv'
<1>0. /\ Lines(r, b) /\ Partition(offered, written, lost, r, b)
      /\ InLine(offered, written, r, RealtimeTasks)
      /\ InLine(offered, written, b, BulkTasks)
      /\ offered \in Seq(Tasks) /\ IsInjective(offered)
  BY DEF TwoLines, Partition
<1>1. /\ Writing(w) /\ pc[w] # "off" /\ writing[w] \in Tasks /\ writing[w] \in Malformed
      /\ pc \in [Workers -> Active \cup {"off"}] /\ batch \in [Workers -> Seq(BulkTasks)]
  BY DEF WriteThrows, Writing, WorkerOK, Exclusive, TypeOK
<1>2. \A v \in Workers : v # w => pc[v] = "off"
  BY <1>1, LineTypes
<1>3. /\ pc[w] \in {"drainWrite", "urgentWrite"} => r = <<writing[w]>> \o tier1RealtimeQueue
      /\ pc[w] \notin {"drainWrite", "urgentWrite"} => r = tier1RealtimeQueue
      /\ pc[w] \in {"batch", "task", "urgentWrite"} => b = batch[w] \o tier2BulkQueue
      /\ pc[w] = "taskWrite" => b = <<writing[w]>> \o (batch[w] \o tier2BulkQueue)
      /\ pc[w] \notin {"batch", "task", "urgentWrite", "taskWrite"}
            => b = tier2BulkQueue /\ batch[w] = <<>>
      /\ \A v \in Workers : v # w => batch[v] = <<>>
  BY <1>0, <1>2, LinesAt
<1>4. /\ lost' = lost \cup ({writing[w]} \cup Elems(batch[w]))
      /\ UNCHANGED <<tier1RealtimeQueue, tier2BulkQueue, written, offered>>
      /\ \A v \in Workers : v # w => pc'[v] = "off" /\ batch'[v] = batch[v]
      /\ pc'[w] \in {"scheduled", "off"} /\ batch'[w] = <<>>
  BY <1>1, <1>2 DEF WriteThrows, Finish
<1> DEFINE t1 == tier1RealtimeQueue
           t2 == tier2BulkQueue
           x == writing[w]
           q == batch[w]
<1>5. /\ t1 \in Seq(Tasks) /\ t2 \in Seq(Tasks) /\ q \in Seq(Tasks)
      /\ t1 \in Seq(RealtimeTasks) /\ t2 \in Seq(BulkTasks) /\ q \in Seq(BulkTasks)
  BY LineTypes
<1>6. /\ <<x>> \in Seq(Tasks) /\ Elems(<<x>>) = {x} /\ Elems(<<>>) = {}
      /\ <<>> \o t1 = t1 /\ <<>> \o t2 = t2
      /\ <<>> \in Seq(RealtimeTasks) /\ <<>> \in Seq(BulkTasks)
  <2>1. <<x>> \in Seq(Tasks) /\ Elems(<<x>>) = {x}
    BY <1>1, <1>5, JoinOne
  <2>2. Elems(<<>>) = {} /\ <<>> \in Seq(RealtimeTasks) /\ <<>> \in Seq(BulkTasks)
    BY DEF Elems
  <2>3. <<>> \o t1 = t1
    BY <1>5
  <2>4. <<>> \o t2 = t2
    BY <1>5
  <2> QED
    BY <2>1, <2>2, <2>3, <2>4, Zenon
<1>7. \E p1 \in Seq(RealtimeTasks), p2 \in Seq(BulkTasks) :
          /\ r = p1 \o t1 /\ b = p2 \o t2
          /\ Elems(p1) \cup Elems(p2) = {x} \cup Elems(q)
  <2>1. CASE pc[w] = "drainWrite"
    <3>1. r = <<x>> \o t1 /\ b = t2 /\ q = <<>>
      BY <1>3, <2>1
    <3>2. x \in RealtimeTasks
      <4>1. Head(<<x>> \o t1) = x /\ <<x>> \o t1 # <<>>
        BY <1>1, <1>5, JoinOne
      <4> QED
        BY <3>1, <4>1, TailFacts
    <3>3. <<x>> \in Seq(RealtimeTasks)
      BY <3>2
    <3>4. Elems(<<x>>) \cup Elems(<<>>) = {x} \cup Elems(q)
      BY <1>6, <3>1
    <3> QED
      BY <1>6, <3>1, <3>3, <3>4
  <2>2. CASE pc[w] = "urgentWrite"
    <3>1. r = <<x>> \o t1 /\ b = q \o t2
      BY <1>3, <2>2
    <3>2. x \in RealtimeTasks
      <4>1. Head(<<x>> \o t1) = x /\ <<x>> \o t1 # <<>>
        BY <1>1, <1>5, JoinOne
      <4> QED
        BY <3>1, <4>1, TailFacts
    <3>3. <<x>> \in Seq(RealtimeTasks)
      BY <3>2
    <3>4. Elems(<<x>>) \cup Elems(q) = {x} \cup Elems(q)
      BY <1>6
    <3> QED
      BY <1>5, <3>1, <3>3, <3>4
  <2>3. CASE pc[w] = "taskWrite"
    <3>0. PICK h \in Seq(Tasks) : h = <<x>> /\ Elems(h) = {x}
      BY <1>6
    <3>1. r = t1 /\ b = h \o (q \o t2)
      BY <1>3, <2>3, <3>0
    <3>2. b = (h \o q) \o t2
      <4>1. Associates(h, q, t2)
        BY <1>5, JoinAssociates, Zenon
      <4> QED
        BY <3>1, <4>1, Zenon DEF Associates
    <3>3. x \in BulkTasks
      <4>1. q \o t2 \in Seq(Tasks)
        BY <1>5, JoinFacts
      <4>2. Head(<<x>> \o (q \o t2)) = x /\ <<x>> \o (q \o t2) # <<>>
        BY <1>1, <4>1, JoinOne
      <4> QED
        BY <3>0, <3>1, <4>2, TailFacts
    <3>4. h \in Seq(BulkTasks)
      BY <3>0, <3>3
    <3>5. h \o q \in Seq(BulkTasks)
      BY <1>5, <3>4, JoinFacts
    <3>6. Elems(h \o q) = {x} \cup Elems(q)
      <4>1. PICK k \in Seq(Tasks) : k = q
        BY <1>5
      <4>2. Elems(h \o k) = Elems(h) \cup Elems(k)
        BY JoinElems
      <4> QED
        BY <3>0, <4>1, <4>2, Zenon
    <3> QED
      <4>1. PICK e \in Seq(RealtimeTasks), k \in Seq(BulkTasks) : e = <<>> /\ k = h \o q
        BY <1>6, <3>5, Zenon
      <4>2. r = e \o t1 /\ b = k \o t2
        BY <1>6, <3>1, <3>2, <4>1, Zenon
      <4>3. Elems(e) \cup Elems(k) = {x} \cup Elems(q)
        BY <1>6, <3>6, <4>1
      <4> QED
        BY <4>2, <4>3, Zenon
  <2> QED
    BY <1>1, <2>1, <2>2, <2>3 DEF Writing
<1>8. PICK p1 \in Seq(RealtimeTasks), p2 \in Seq(BulkTasks) :
          /\ r = p1 \o t1 /\ b = p2 \o t2
          /\ Elems(p1) \cup Elems(p2) = {x} \cup Elems(q)
  BY <1>7
<1>9. IsInjective(r) /\ IsInjective(b)
  BY <1>0, LineInjective
<1>10. Elems(t1) = Elems(r) \ Elems(p1) /\ Elems(r) = Elems(p1) \cup Elems(t1)
  BY <1>5, <1>8, <1>9, DropElems, JoinElems
<1>11. Elems(t2) = Elems(b) \ Elems(p2) /\ Elems(b) = Elems(p2) \cup Elems(t2)
  BY <1>5, <1>8, <1>9, DropElems, JoinElems
<1>12. InLine(offered, written, t1, RealtimeTasks) /\ InLine(offered, written, t2, BulkTasks)
  BY <1>0, <1>5, <1>8, LineDropped
<1>13. Elems(r) \cap Elems(b) = {}
  <2>1. \A y \in Elems(r) : y \in RealtimeTasks
    BY DEF Elems
  <2>2. \A y \in Elems(b) : y \in BulkTasks
    BY DEF Elems
  <2> QED
    BY <2>1, <2>2, TaskSets
<1> DEFINE G == {x} \cup Elems(q)
<1>14. G \cap RealtimeTasks \subseteq Malformed
  <2>1. \A y \in Elems(q) : y \in BulkTasks
    BY <1>5 DEF Elems
  <2> QED
    BY <1>1, <2>1, TaskSets
<1>15. /\ G \subseteq Elems(r) \cup Elems(b)
       /\ Elems(t1) \cup Elems(t2) = (Elems(r) \cup Elems(b)) \ G
  BY <1>8, <1>10, <1>11, <1>13
<1>16. lost' = lost \cup G
  BY <1>4
<1> HIDE DEF G
<1>17. Partition(offered, written, lost \cup G, t1, t2)
  BY <1>0, <1>14, <1>15, PartitionLose
<1>18. Lines(t1, t2)'
  BY <1>3, <1>4, LinesPutBack
<1>19. TwoLines(t1, t2)'
  BY <1>4, <1>12, <1>16, <1>17, <1>18 DEF TwoLines
<1> QED
  BY <1>4, <1>5, <1>19 DEF LinesInv

\* The two lines exist in every reachable state.
LEMMA LinesInvariant == Spec => [](Exclusive /\ WorkerOK /\ LinesInv)
<1> DEFINE J == Exclusive /\ WorkerOK /\ LinesInv
<1>1. Init => J
  <2> SUFFICES ASSUME Init PROVE LinesInv
    BY ExclusiveInit
  <2>1. <<>> \in Seq(RealtimeTasks) /\ <<>> \in Seq(BulkTasks) /\ <<>> \in Seq(Tasks)
    OBVIOUS
  <2>2. Elems(<<>>) = {} /\ IsInjective(<<>>)
    BY DEF Elems, IsInjective
  <2>3. Lines(<<>>, <<>>)
    BY DEF Init, Lines
  <2>4. Partition(offered, written, lost, <<>>, <<>>)
    BY <2>1, <2>2 DEF Init, Partition
  <2>5. InLine(offered, written, <<>>, RealtimeTasks) /\ InLine(offered, written, <<>>, BulkTasks)
    BY <2>1 DEF Init, InLine
  <2>6. TwoLines(<<>>, <<>>)
    BY <2>3, <2>4, <2>5 DEF TwoLines
  <2> QED
    BY <2>1, <2>6 DEF LinesInv
<1>2. J /\ [Next]_vars => J'
  <2> SUFFICES ASSUME Exclusive, WorkerOK, LinesInv, [Next]_vars PROVE LinesInv'
    BY ExclusiveStep, WorkerOKStep
  <2>1. PICK r \in Seq(RealtimeTasks), b \in Seq(BulkTasks) : TwoLines(r, b)
    BY DEF LinesInv
  <2>2. CASE UNCHANGED vars
    <3>1. TwoLines(r, b)'
      BY <2>1, <2>2 DEF vars, TwoLines, Lines
    <3> QED
      BY <2>1, <3>1 DEF LinesInv
  <2>3. CASE \/ \E t \in RealtimeTasks : EnqueueRealtime(t)
             \/ \E c \in Chunks : EnqueueBulkBatch(c)
             \/ WorkerLoopTick
    BY <2>1, <2>3, EnqueueStep
  <2>4. ASSUME NEW w \in Workers,
               \/ Begin(w) \/ DrainRealtime(w) \/ SpliceBatch(w) \/ NothingToDo(w)
               \/ TakeUrgent(w) \/ BeginTask(w) \/ BatchDone(w)
        PROVE  LinesInv'
    <3>1. Lines(r, b)'
      BY <2>1, <2>4, LinesStay DEF TwoLines
    <3>2. UNCHANGED <<offered, written, lost>>
      BY <2>4 DEF Begin, DrainRealtime, SpliceBatch, NothingToDo, TakeUrgent,
                  BeginTask, BatchDone
    <3>3. TwoLines(r, b)'
      BY <2>1, <3>1, <3>2 DEF TwoLines
    <3> QED
      BY <2>1, <3>3 DEF LinesInv
  <2>5. ASSUME NEW w \in Workers, WriteEnds(w) \/ WriteThrows(w) PROVE LinesInv'
    BY <2>1, <2>5, WrittenStep, ThrownStep
  <2> QED
    BY <2>2, <2>3, <2>4, <2>5 DEF Next, Step
<1> HIDE DEF J
<1>3. Spec => []J
  BY <1>1, <1>2, PTL DEF Spec
<1> QED
  BY <1>3 DEF J

\* What the queues and the worker hold is what is in line.
LEMMA HeldIsInLine ==
    ASSUME Exclusive, WorkerOK, NEW r, NEW b, Lines(r, b)
    PROVE  Held = Elems(r) \cup Elems(b)
<1> DEFINE t1 == tier1RealtimeQueue
           t2 == tier2BulkQueue
<1>0. t1 \in Seq(Tasks) /\ t2 \in Seq(Tasks) /\ Elems(<<>>) = {}
  BY LineTypes DEF Elems
<1>1. CASE \A w \in Workers : pc[w] = "off"
  <2>1. r = t1 /\ b = t2 /\ \A w \in Workers : batch[w] = <<>> /\ ~Writing(w)
    BY <1>1 DEF Lines, Writing
  <2> QED
    BY <1>0, <2>1 DEF Held
<1>2. ASSUME NEW w \in Workers, pc[w] # "off" PROVE Held = Elems(r) \cup Elems(b)
  <2> DEFINE q == batch[w]
             x == writing[w]
  <2>1. \A v \in Workers : v # w => pc[v] = "off"
    BY <1>2, LineTypes
  <2>2. /\ pc[w] \in {"drainWrite", "urgentWrite"} => r = <<writing[w]>> \o tier1RealtimeQueue
        /\ pc[w] \notin {"drainWrite", "urgentWrite"} => r = tier1RealtimeQueue
        /\ pc[w] \in {"batch", "task", "urgentWrite"} => b = batch[w] \o tier2BulkQueue
        /\ pc[w] = "taskWrite" => b = <<writing[w]>> \o (batch[w] \o tier2BulkQueue)
        /\ pc[w] \notin {"batch", "task", "urgentWrite", "taskWrite"}
              => b = tier2BulkQueue /\ batch[w] = <<>>
        /\ \A v \in Workers : v # w => batch[v] = <<>>
    BY <2>1, LinesAt
  <2>3. q \in Seq(Tasks) /\ (Writing(w) => x \in Tasks)
    BY LineTypes DEF WorkerOK
  <2>4. \A v \in Workers : v # w => ~Writing(v)
    BY <2>1 DEF Writing
  <2>5. /\ UNION {Elems(batch[v]) : v \in Workers} = Elems(q)
        /\ {writing[v] : v \in {u \in Workers : Writing(u)}} = IF Writing(w) THEN {x} ELSE {}
    BY <1>0, <2>2, <2>4
  <2>6. Held = Elems(t1) \cup Elems(t2) \cup Elems(q) \cup (IF Writing(w) THEN {x} ELSE {})
    BY <2>5 DEF Held
  <2>7. Elems(q \o t2) = Elems(q) \cup Elems(t2) /\ q \o t2 \in Seq(Tasks)
    BY <1>0, <2>3, JoinElems, JoinFacts
  <2>8. ASSUME Writing(w), NEW s \in Seq(Tasks) PROVE Elems(<<x>> \o s) = {x} \cup Elems(s)
    <3>1. PICK h \in Seq(Tasks) : h = <<x>> /\ Elems(h) = {x}
      BY <2>3, <2>8, JoinOne
    <3>2. Elems(h \o s) = Elems(h) \cup Elems(s)
      BY JoinElems, Zenon
    <3> QED
      BY <3>1, <3>2
  <2>9. CASE pc[w] \in {"drainWrite", "urgentWrite"}
    <3>1. Writing(w) /\ Elems(r) = {x} \cup Elems(t1)
      BY <1>0, <2>2, <2>8, <2>9 DEF Writing
    <3>2. Elems(b) = Elems(q) \cup Elems(t2)
      BY <1>0, <2>2, <2>7, <2>9
    <3> QED
      BY <2>6, <3>1, <3>2
  <2>10. CASE pc[w] = "taskWrite"
    <3>1. Writing(w) /\ Elems(b) = {x} \cup Elems(q \o t2) /\ r = t1
      BY <2>2, <2>7, <2>8, <2>10 DEF Writing
    <3> QED
      BY <2>6, <2>7, <3>1
  <2>11. CASE pc[w] \notin {"drainWrite", "urgentWrite", "taskWrite"}
    <3>1. ~Writing(w) /\ r = t1 /\ Elems(b) = Elems(q) \cup Elems(t2)
      BY <1>0, <2>2, <2>7, <2>11 DEF Writing
    <3> QED
      BY <2>6, <3>1
  <2> QED
    BY <2>9, <2>10, <2>11
<1> QED
  BY <1>1, <1>2
\* Conservation: no interleaving of callers, writes and thrown writes
\* duplicates a task or drops one that no thrown write accounts for.
THEOREM ConservationHolds == Spec => []Conservation
<1>1. Exclusive /\ WorkerOK /\ LinesInv => Conservation
  <2> SUFFICES ASSUME Exclusive, WorkerOK, LinesInv PROVE Conservation
    OBVIOUS
  <2>1. PICK r \in Seq(RealtimeTasks), b \in Seq(BulkTasks) : TwoLines(r, b)
    BY DEF LinesInv
  <2>2. Held = Elems(r) \cup Elems(b)
    BY <2>1, HeldIsInLine DEF TwoLines
  <2>3. Partition(offered, written, lost, r, b)
    BY <2>1 DEF TwoLines
  <2>4. Cardinality(Elems(written)) = Len(written)
    BY <2>3, InjectiveCount DEF Partition
  <2> QED
    BY <2>2, <2>3, <2>4 DEF Partition, Conservation
<1> QED
  BY <1>1, LinesInvariant, PTL

\* Fifo order within each tier: neither the overtaking of bulk work by realtime
\* work nor a batch given up half way reorders what a tier writes.
THEOREM FifoPerTierHolds == Spec => []FifoPerTier
<1>1. LinesInv => FifoPerTier
  <2> SUFFICES ASSUME LinesInv, NEW T \in {RealtimeTasks, BulkTasks}, NEW x \in T, NEW y \in T,
                      Before(written, x, y)
               PROVE  Before(offered, x, y)
    BY DEF FifoPerTier
  <2>1. PICK r \in Seq(RealtimeTasks), b \in Seq(BulkTasks) : TwoLines(r, b)
    BY DEF LinesInv
  <2>2. \A i, j \in DOMAIN written :
           written[i] \in T /\ written[j] \in T /\ i < j => Before(offered, written[i], written[j])
    <3>1. CASE T = RealtimeTasks
      BY <2>1, <3>1 DEF TwoLines, InLine
    <3>2. CASE T = BulkTasks
      BY <2>1, <3>2 DEF TwoLines, InLine
    <3> QED
      BY <3>1, <3>2
  <2>3. PICK i \in DOMAIN written, j \in DOMAIN written :
           i < j /\ written[i] = x /\ written[j] = y
    BY DEF Before
  <2> QED
    BY <2>2, <2>3
<1> QED
  BY <1>1, LinesInvariant, PTL
-----------------------------------------------------------------------------
(***************************************************************************)
(* Realtime tasks overtake bulk tasks.  The bound on passed holds of a     *)
(* task that waits because its position in the queue is part of the        *)
(* budget: a task at position p has p - 1 tasks before it, each of which   *)
(* will cost it a bulk write at most, and one bulk write may already be    *)
(* certain (the worker is past the top of its loop).                       *)
(***************************************************************************)

\* The bulk write a waiting task may still be charged: none once the worker is
\* past the top of the loop, where the next bulk write is certain, else one.
Slack == IF \E w \in Workers : pc[w] \in {"urgentWrite", "task"} THEN 0 ELSE 1

Rank(t) == Cardinality(Ahead(t))

Waiting ==
    \A p \in DOMAIN tier1RealtimeQueue :
        passed[tier1RealtimeQueue[p]] + (p - 1) <= Rank(tier1RealtimeQueue[p]) + Slack

Fresh == \A t \in RealtimeTasks : t \notin Elems(offered) => passed[t] = 0

Bounded == \A t \in RealtimeTasks : passed[t] <= Rank(t) + 1

OvertakeInv == Bounded /\ Fresh /\ Waiting

RanksGrow ==
    \A t \in RealtimeTasks : Rank(t) \in Nat /\ Rank(t)' \in Nat /\ Rank(t) <= Rank(t)'

\* The realtime queue is part of the realtime line, so no task is in it twice.
LEMMA QueueInLine ==
    ASSUME Exclusive, WorkerOK, LinesInv
    PROVE  /\ IsInjective(tier1RealtimeQueue)
           /\ Elems(tier1RealtimeQueue) \subseteq Elems(offered)
           /\ offered \in Seq(Tasks) /\ IsInjective(offered)
<1> DEFINE t1 == tier1RealtimeQueue
<1>1. PICK r \in Seq(RealtimeTasks), b \in Seq(BulkTasks) : TwoLines(r, b)
  BY DEF LinesInv
<1>2. /\ offered \in Seq(Tasks) /\ IsInjective(offered) /\ Elems(r) \subseteq Elems(offered)
      /\ InLine(offered, written, r, RealtimeTasks) /\ Lines(r, b)
  BY <1>1 DEF TwoLines, Partition
<1>3. t1 \in Seq(RealtimeTasks)
  BY LineTypes
<1>4. \E h \in Seq(RealtimeTasks) : r = h \o t1
  <2>1. CASE \A w \in Workers : pc[w] \notin {"drainWrite", "urgentWrite"}
    <3>1. r = t1
      BY <1>2, <2>1 DEF Lines
    <3>2. <<>> \in Seq(RealtimeTasks) /\ t1 = <<>> \o t1
      BY <1>3
    <3> QED
      BY <3>1, <3>2
  <2>2. ASSUME NEW w \in Workers, pc[w] \in {"drainWrite", "urgentWrite"}
        PROVE  \E h \in Seq(RealtimeTasks) : r = h \o t1
    <3>1. r = <<writing[w]>> \o t1
      BY <1>2, <2>2 DEF Lines
    <3>2. writing[w] \in Tasks /\ t1 \in Seq(Tasks)
      BY <2>2, LineTypes DEF WorkerOK, Writing
    <3>3. Head(r) = writing[w] /\ r # <<>>
      BY <3>1, <3>2, JoinOne
    <3>4. <<writing[w]>> \in Seq(RealtimeTasks)
      BY <3>3, TailFacts
    <3> QED
      BY <3>1, <3>4
  <2> QED
    BY <2>1, <2>2
<1>5. PICK h \in Seq(RealtimeTasks) : r = h \o t1
  BY <1>4
<1>6. InLine(offered, written, t1, RealtimeTasks)
  BY <1>2, <1>3, <1>5, LineDropped
<1>7. IsInjective(t1)
  BY <1>2, <1>6, LineInjective
<1>8. Elems(h \o t1) = Elems(h) \cup Elems(t1)
  BY <1>3, JoinElems
<1> QED
  BY <1>2, <1>5, <1>7, <1>8

\* The tasks offered before a task are finitely many.
LEMMA AheadCounts ==
    ASSUME NEW o \in Seq(Tasks), IsInjective(o), NEW t
    PROVE  /\ IsFiniteSet({u \in RealtimeTasks : Before(o, u, t)})
           /\ Cardinality({u \in RealtimeTasks : Before(o, u, t)}) \in Nat
<1>1. {u \in RealtimeTasks : Before(o, u, t)} \in SUBSET Elems(o)
  BY DEF Before, Elems
<1>2. IsFiniteSet(Elems(o))
  BY InjectiveCount
<1>3. IsFiniteSet({u \in RealtimeTasks : Before(o, u, t)})
  BY <1>1, <1>2, FS_Subset
<1> QED
  BY <1>3, FS_CardinalityType

\* Offering more never shortens what is ahead of a task.
LEMMA RanksGrowing ==
    ASSUME offered \in Seq(Tasks), IsInjective(offered), IsInjective(offered'),
           NEW c \in Seq(Tasks), offered' = offered \o c
    PROVE  RanksGrow
<1> SUFFICES ASSUME NEW t \in RealtimeTasks
             PROVE  Rank(t) \in Nat /\ Rank(t)' \in Nat /\ Rank(t) <= Rank(t)'
  BY DEF RanksGrow
<1>1. PICK o, k : o = offered /\ k = offered' /\ k = o \o c
  OBVIOUS
<1>2. o \in Seq(Tasks) /\ k \in Seq(Tasks) /\ IsInjective(o) /\ IsInjective(k)
  BY <1>1, JoinFacts
<1>3. PICK A, B : /\ A = {u \in RealtimeTasks : Before(o, u, t)}
                  /\ B = {u \in RealtimeTasks : Before(k, u, t)}
  OBVIOUS
<1>4. Ahead(t) = A /\ Ahead(t)' = B
  BY <1>1, <1>3 DEF Ahead
<1>5. IsFiniteSet(A) /\ IsFiniteSet(B) /\ Cardinality(A) \in Nat /\ Cardinality(B) \in Nat
  BY <1>2, <1>3, AheadCounts
<1>6. A \in SUBSET B
  <2>1. \A x, y : Before(o, x, y) => Before(o \o c, x, y)
    BY <1>2, BeforeFacts
  <2> QED
    BY <1>1, <1>3, <2>1
<1>7. Cardinality(A) <= Cardinality(B)
  BY <1>5, <1>6, FS_Subset
<1> QED
  BY <1>4, <1>5, <1>7 DEF Rank
\* A step that leaves the realtime queue alone keeps the budget of its tasks.
LEMMA WaitingKept ==
    ASSUME TypeOK, Waiting, RanksGrow, passed' = passed,
           tier1RealtimeQueue' = tier1RealtimeQueue, Slack \in Nat, Slack' \in Nat,
           Slack <= Slack'
    PROVE  Waiting'
<1> SUFFICES ASSUME NEW p \in DOMAIN tier1RealtimeQueue
             PROVE  passed[tier1RealtimeQueue[p]] + (p - 1)
                      <= Rank(tier1RealtimeQueue[p])' + Slack'
  BY DEF Waiting
<1>1. PICK t \in RealtimeTasks : t = tier1RealtimeQueue[p]
  BY DEF TypeOK
<1>2. passed[t] + (p - 1) <= Rank(t) + Slack
  BY <1>1 DEF Waiting
<1>3. Rank(t) \in Nat /\ Rank(t)' \in Nat /\ Rank(t) <= Rank(t)'
  BY DEF RanksGrow
<1>4. passed[t] \in Nat /\ p \in Nat
  BY DEF TypeOK
<1>5. passed[t] + (p - 1) <= Rank(t)' + Slack'
  BY <1>2, <1>3, <1>4
<1> QED
  BY <1>1, <1>5

\* Serving the first task moves the others up: each may be charged one more.
LEMMA WaitingServed ==
    ASSUME TypeOK, Waiting, RanksGrow, passed' = passed, offered' = offered,
           tier1RealtimeQueue # <<>>,
           tier1RealtimeQueue' = Tail(tier1RealtimeQueue), Slack \in Nat, Slack' \in Nat,
           Slack <= Slack' + 1
    PROVE  Waiting'
<1>0. PICK q \in Seq(RealtimeTasks) : q = Tail(tier1RealtimeQueue)
  BY TailFacts DEF TypeOK
<1> SUFFICES ASSUME NEW p \in DOMAIN q
             PROVE  passed[q[p]] + (p - 1) <= Rank(q[p])' + Slack'
  BY <1>0 DEF Waiting
<1>1. /\ p + 1 \in DOMAIN tier1RealtimeQueue /\ q[p] = tier1RealtimeQueue[p + 1]
      /\ p \in Nat
  BY <1>0, TailFacts DEF TypeOK
<1>2. PICK t \in RealtimeTasks : t = q[p]
  BY DEF TypeOK
<1>3. passed[t] + ((p + 1) - 1) <= Rank(t) + Slack
  BY <1>1, <1>2 DEF Waiting
<1>4. Rank(t) \in Nat /\ Rank(t)' \in Nat /\ Rank(t) <= Rank(t)'
  BY DEF RanksGrow
<1>5. passed[t] \in Nat
  BY DEF TypeOK
<1>6. passed[t] + (p - 1) <= Rank(t)' + Slack'
  <2>1. PICK a, r, k, z, y : /\ a = passed[t] /\ r = Rank(t) /\ k = Rank(t)'
                             /\ z = Slack /\ y = Slack'
    OBVIOUS
  <2>2. a \in Nat /\ r \in Nat /\ k \in Nat /\ z \in Nat /\ y \in Nat /\ r <= k /\ z <= y + 1
    BY <1>4, <1>5, <2>1
  <2>3. a + ((p + 1) - 1) <= r + z
    BY <1>3, <2>1
  <2>4. a + (p - 1) <= k + y
    BY <1>1, <2>2, <2>3
  <2> QED
    BY <2>1, <2>4
<1> QED
  BY <1>2, <1>6

\* A task that nobody passes stays within its bound.
LEMMA BoundKept ==
    ASSUME TypeOK, Bounded, Fresh, RanksGrow, passed' = passed,
           Elems(offered) \subseteq Elems(offered')
    PROVE  Bounded' /\ Fresh'
<1>1. Fresh'
  BY DEF Fresh
<1>2. ASSUME NEW t \in RealtimeTasks PROVE passed[t] <= Rank(t)' + 1
  <2>1. passed[t] <= Rank(t) + 1 /\ passed[t] \in Nat
    BY DEF Bounded, TypeOK
  <2>2. Rank(t) \in Nat /\ Rank(t)' \in Nat /\ Rank(t) <= Rank(t)'
    BY DEF RanksGrow
  <2> QED
    BY <2>1, <2>2
<1> QED
  BY <1>1, <1>2 DEF Bounded

LEMMA SlackType == Slack \in 0..1 /\ Slack' \in 0..1
BY DEF Slack

\* A realtime task joins the queue: as many are ahead of it as are queued.
LEMMA OvertakeEnqueue ==
    ASSUME Exclusive, WorkerOK, LinesInv, (Exclusive /\ WorkerOK /\ LinesInv)',
           OvertakeInv, NEW t \in RealtimeTasks, EnqueueRealtime(t)
    PROVE  OvertakeInv'
<1> DEFINE t1 == tier1RealtimeQueue
<1>1. /\ t \notin Elems(offered) /\ t1' = Append(t1, t) /\ offered' = Append(offered, t)
      /\ passed' = passed /\ TriggerProcessing
  BY DEF EnqueueRealtime
<1>2. /\ IsInjective(t1) /\ Elems(t1) \subseteq Elems(offered)
      /\ offered \in Seq(Tasks) /\ IsInjective(offered) /\ IsInjective(offered')
  <2>1. PICK r \in Seq(RealtimeTasks), b \in Seq(BulkTasks) : TwoLines(r, b)'
    BY DEF LinesInv
  <2>2. IsInjective(offered')
    BY <2>1 DEF TwoLines, Partition
  <2> QED
    BY <2>2, QueueInLine
<1>3. TypeOK /\ t1 \in Seq(RealtimeTasks) /\ t \in Tasks /\ t1 \in Seq(Tasks)
  BY LineTypes, TaskSets DEF Exclusive
<1>4. <<t>> \in Seq(Tasks) /\ offered' = offered \o <<t>> /\ Elems(<<t>>) = {t}
  BY <1>1, <1>2, <1>3, JoinOne
<1>5. RanksGrow
  BY <1>2, <1>4, RanksGrowing
<1>6. Elems(offered) \subseteq Elems(offered')
  <2>1. PICK o \in Seq(Tasks), k \in Seq(Tasks) : o = offered /\ k = <<t>>
    BY <1>2, <1>4
  <2>2. Elems(o \o k) = Elems(o) \cup Elems(k)
    BY JoinElems
  <2>3. Elems(offered') = Elems(offered) \cup Elems(k)
    BY <1>4, <2>1, <2>2, Zenon
  <2> QED
    BY <2>3
<1>7. Bounded' /\ Fresh'
  BY <1>1, <1>3, <1>5, <1>6, BoundKept DEF OvertakeInv
<1>8. Slack' = Slack
  BY <1>1, <1>3, TriggerMoves DEF Slack
<1>9. Len(t1) <= Rank(t)'
  <2>1. PICK B : B = Ahead(t)'
    OBVIOUS
  <2>2. \A u \in Elems(t1) : u \in RealtimeTasks
    BY <1>3 DEF Elems
  <2>3. \A u \in Elems(offered) : Before(offered', u, t)
    BY <1>2, <1>4, BeforeFacts
  <2>4. Elems(t1) \in SUBSET B
    BY <1>2, <2>1, <2>2, <2>3 DEF Ahead
  <2>5. IsFiniteSet(B)
    <3>1. PICK k \in Seq(Tasks) : k = offered' /\ IsInjective(k)
      BY <1>2, <1>4, JoinFacts
    <3>2. IsFiniteSet({u \in RealtimeTasks : Before(k, u, t)})
      BY <3>1, AheadCounts
    <3> QED
      BY <2>1, <3>1, <3>2 DEF Ahead
  <2>6. Cardinality(Elems(t1)) <= Cardinality(B)
    BY <2>4, <2>5, FS_Subset
  <2>7. Cardinality(Elems(t1)) = Len(t1)
    BY <1>2, <1>3, InjectiveCount
  <2> QED
    BY <2>1, <2>6, <2>7 DEF Rank
<1>10. Waiting'
  <2>1. PICK s \in Seq(RealtimeTasks) : s = t1'
    BY <1>1, <1>3, AppendFacts
  <2> SUFFICES ASSUME NEW p \in DOMAIN s
               PROVE  passed'[s[p]] + (p - 1) <= Rank(s[p])' + Slack'
    BY <2>1 DEF Waiting
  <2>2. CASE p \in DOMAIN t1
    <3>1. s[p] = t1[p] /\ p \in Nat
      BY <1>1, <1>3, <2>1, <2>2, AppendFacts
    <3>2. PICK u \in RealtimeTasks : u = t1[p]
      BY <1>3, <2>2
    <3>3. passed[u] + (p - 1) <= Rank(u) + Slack
      BY <2>2, <3>2 DEF OvertakeInv, Waiting
    <3>4. Rank(u) \in Nat /\ Rank(u)' \in Nat /\ Rank(u) <= Rank(u)' /\ passed[u] \in Nat
      BY <1>3, <1>5 DEF RanksGrow, TypeOK
    <3>5. passed[u] + (p - 1) <= Rank(u)' + Slack'
      BY <1>8, <3>1, <3>3, <3>4, SlackType
    <3> QED
      BY <1>1, <3>1, <3>2, <3>5
  <2>3. CASE p = Len(t1) + 1
    <3>1. s[p] = t /\ Len(t1) \in Nat
      BY <1>1, <1>3, <2>1, <2>3, AppendFacts
    <3>2. passed'[t] = 0
      BY <1>1 DEF OvertakeInv, Fresh
    <3>3. Rank(t)' \in Nat
      BY <1>5 DEF RanksGrow
    <3>4. 0 + (p - 1) <= Rank(t)' + Slack'
      BY <1>9, <2>3, <3>1, <3>3, SlackType
    <3> QED
      BY <3>1, <3>2, <3>4
  <2> QED
    BY <1>1, <1>3, <2>1, <2>2, <2>3, AppendFacts
<1> QED
  BY <1>7, <1>10 DEF OvertakeInv
\* Steps of callers and of the worker that neither queue a realtime task nor
\* begin a bulk write.
LEMMA OvertakeQuiet ==
    ASSUME Exclusive, WorkerOK, LinesInv, LinesInv', OvertakeInv, passed' = passed,
           NEW c \in Seq(Tasks), offered' = offered \o c,
           \/ tier1RealtimeQueue' = tier1RealtimeQueue /\ Slack <= Slack'
           \/ /\ tier1RealtimeQueue # <<>> /\ offered' = offered
              /\ tier1RealtimeQueue' = Tail(tier1RealtimeQueue) /\ Slack <= Slack' + 1
           \/ tier1RealtimeQueue' = <<>>
    PROVE  OvertakeInv'
<1>1. TypeOK /\ Bounded /\ Fresh /\ Waiting
  BY DEF Exclusive, OvertakeInv
<1>2. offered \in Seq(Tasks) /\ IsInjective(offered) /\ IsInjective(offered')
  <2>1. PICK r \in Seq(RealtimeTasks), b \in Seq(BulkTasks) : TwoLines(r, b)'
    BY DEF LinesInv
  <2>2. IsInjective(offered')
    BY <2>1 DEF TwoLines, Partition
  <2> QED
    BY <2>2, QueueInLine
<1>3. RanksGrow
  BY <1>2, RanksGrowing
<1>4. Elems(offered) \subseteq Elems(offered')
  <2>1. Elems(offered \o c) = Elems(offered) \cup Elems(c)
    BY <1>2, JoinElems, Zenon
  <2> QED
    BY <2>1
<1>5. Bounded' /\ Fresh'
  BY <1>1, <1>3, <1>4, BoundKept
<1>6. Slack \in Nat /\ Slack' \in Nat
  BY SlackType
<1>7. Waiting'
  <2>1. tier1RealtimeQueue' = <<>> => Waiting'
    BY DEF Waiting
  <2> QED
    BY <1>1, <1>3, <1>6, <2>1, WaitingKept, WaitingServed
<1> QED
  BY <1>5, <1>7 DEF OvertakeInv

\* A bulk write begins: every waiting task is charged one.
LEMMA OvertakeTask ==
    ASSUME Exclusive, WorkerOK, LinesInv, OvertakeInv, NEW w \in Workers, BeginTask(w)
    PROVE  OvertakeInv'
<1> DEFINE t1 == tier1RealtimeQueue
<1>1. /\ pc[w] = "task" /\ pc' = [pc EXCEPT ![w] = "taskWrite"]
      /\ passed' = [t \in RealtimeTasks |->
                      IF t \in Elems(tier1RealtimeQueue) THEN passed[t] + 1 ELSE passed[t]]
      /\ t1' = t1 /\ offered' = offered
  BY DEF BeginTask
<1>2. TypeOK /\ t1 \in Seq(RealtimeTasks) /\ \A v \in Workers : v # w => pc[v] = "off"
  BY <1>1, LineTypes DEF Exclusive
<1>3. Slack = 0 /\ Slack' = 1
  BY <1>1, <1>2 DEF Slack, TypeOK
<1>4. \A t \in RealtimeTasks : Rank(t)' = Rank(t)
  BY <1>1 DEF Rank, Ahead
<1>5. /\ offered \in Seq(Tasks) /\ IsInjective(offered)
      /\ Elems(t1) \subseteq Elems(offered)
  BY QueueInLine
<1>6. ASSUME NEW t \in RealtimeTasks PROVE Rank(t) \in Nat /\ passed[t] \in Nat
  BY <1>2, <1>5, AheadCounts DEF Rank, Ahead, TypeOK
<1>7. ASSUME NEW p \in DOMAIN t1
      PROVE  /\ t1[p] \in RealtimeTasks /\ p \in Nat /\ p >= 1
             /\ passed'[t1[p]] = passed[t1[p]] + 1
             /\ passed[t1[p]] + (p - 1) <= Rank(t1[p])
  <2>1. t1[p] \in RealtimeTasks /\ p \in Nat /\ p >= 1 /\ t1[p] \in Elems(t1)
    BY <1>2 DEF Elems
  <2>2. passed[t1[p]] + (p - 1) <= Rank(t1[p]) + 0
    BY <1>3 DEF OvertakeInv, Waiting
  <2> QED
    BY <1>1, <1>6, <2>1, <2>2
<1>8. Waiting'
  <2>0. PICK s : s = t1 /\ s = t1'
    BY <1>1
  <2> SUFFICES ASSUME NEW p \in DOMAIN s
               PROVE  passed'[s[p]] + (p - 1) <= Rank(s[p])' + 1
    BY <1>3, <2>0 DEF Waiting
  <2>1. PICK t \in RealtimeTasks : t = s[p] /\ t = t1[p]
    BY <1>7, <2>0
  <2>2. passed'[t] = passed[t] + 1 /\ passed[t] + (p - 1) <= Rank(t) /\ p \in Nat
    BY <1>7, <2>0, <2>1
  <2>3. passed'[t] + (p - 1) <= Rank(t) + 1
    BY <1>6, <2>2
  <2> QED
    BY <1>4, <2>1, <2>3
<1>9. Bounded'
  <2> SUFFICES ASSUME NEW t \in RealtimeTasks PROVE passed'[t] <= Rank(t) + 1
    BY <1>4 DEF Bounded
  <2>1. CASE t \in Elems(t1)
    <3>1. PICK p \in DOMAIN t1 : t = t1[p]
      BY <2>1 DEF Elems
    <3>2. passed'[t] = passed[t] + 1 /\ passed[t] + (p - 1) <= Rank(t) /\ p \in Nat /\ p >= 1
      BY <1>7, <3>1
    <3> QED
      BY <1>6, <3>2
  <2>2. CASE t \notin Elems(t1)
    BY <1>1, <2>2 DEF OvertakeInv, Bounded
  <2> QED
    BY <2>1, <2>2
<1>10. Fresh'
  BY <1>1, <1>5 DEF OvertakeInv, Fresh
<1> QED
  BY <1>8, <1>9, <1>10 DEF OvertakeInv

\* Every other step of the worker is quiet.
LEMMA OvertakeWorker ==
    ASSUME Exclusive, WorkerOK, LinesInv, LinesInv', OvertakeInv, NEW w \in Workers,
           \/ Begin(w) \/ DrainRealtime(w) \/ SpliceBatch(w) \/ NothingToDo(w)
           \/ TakeUrgent(w) \/ BatchDone(w) \/ WriteEnds(w) \/ WriteThrows(w)
    PROVE  OvertakeInv'
<1>1. offered' = offered /\ passed' = passed
  BY DEF Begin, DrainRealtime, SpliceBatch, NothingToDo, TakeUrgent, BatchDone,
         WriteEnds, WriteThrows
<1>2. <<>> \in Seq(Tasks) /\ offered' = offered \o <<>>
  BY <1>1 DEF Exclusive, TypeOK
<1>3. TypeOK /\ Slack \in 0..1 /\ Slack' \in 0..1
  BY SlackType DEF Exclusive
<1>4. pc[w] # "off" => \A v \in Workers : v # w => pc[v] = "off"
  BY LineTypes
<1>5. Slack <= Slack' + 1
  <2>1. PICK z \in 0..1, y \in 0..1 : z = Slack /\ y = Slack'
    BY <1>3
  <2>2. z <= y + 1
    OBVIOUS
  <2> QED
    BY <2>1, <2>2
<1>6. Slack' = 1 => Slack <= Slack'
  BY <1>3
<1>7. \/ tier1RealtimeQueue' = tier1RealtimeQueue /\ Slack <= Slack'
      \/ /\ tier1RealtimeQueue # <<>>
         /\ tier1RealtimeQueue' = Tail(tier1RealtimeQueue) /\ Slack <= Slack' + 1
      \/ tier1RealtimeQueue' = <<>>
  <2>1. CASE DrainRealtime(w)
    BY <1>5, <2>1 DEF DrainRealtime
  <2>2. CASE TakeUrgent(w)
    BY <1>5, <2>2 DEF TakeUrgent
  <2>3. CASE \/ Begin(w) \/ SpliceBatch(w) \/ NothingToDo(w) \/ BatchDone(w) \/ WriteThrows(w)
    <3>1. tier1RealtimeQueue' = tier1RealtimeQueue
      BY <2>3 DEF Begin, SpliceBatch, NothingToDo, BatchDone, WriteThrows
    <3>2. /\ pc[w] # "off"
          /\ \E x \in {"drain", "batch", "scheduled", "off"} : pc' = [pc EXCEPT ![w] = x]
      BY <2>3 DEF Begin, SpliceBatch, NothingToDo, BatchDone, WriteThrows, Writing, Finish
    <3>3. \A v \in Workers : pc'[v] \notin {"urgentWrite", "task"}
      BY <1>3, <1>4, <3>2 DEF TypeOK
    <3>4. Slack' = 1
      BY <3>3 DEF Slack
    <3> QED
      BY <1>6, <3>1, <3>4
  <2>4. CASE WriteEnds(w)
    <3>1. tier1RealtimeQueue' = tier1RealtimeQueue /\ Writing(w)
      BY <2>4 DEF WriteEnds
    <3>2. CASE pc[w] = "urgentWrite"
      <4>1. Slack = 0
        BY <3>2 DEF Slack
      <4>2. Slack <= Slack'
        BY <1>3, <4>1
      <4> QED
        BY <3>1, <4>2
    <3>3. CASE pc[w] \in {"drainWrite", "taskWrite"}
      <4>1. \E x \in {"drain", "batch"} : pc' = [pc EXCEPT ![w] = x]
        BY <2>4, <3>3 DEF WriteEnds
      <4>2. \A v \in Workers : pc'[v] \notin {"urgentWrite", "task"}
        BY <1>3, <1>4, <3>3, <4>1 DEF TypeOK
      <4>3. Slack' = 1
        BY <4>2 DEF Slack
      <4> QED
        BY <1>6, <3>1, <4>3
    <3> QED
      BY <3>1, <3>2, <3>3 DEF Writing
  <2> QED
    BY <2>1, <2>2, <2>3, <2>4
<1> QED
  BY <1>1, <1>2, <1>7, OvertakeQuiet

\* The budget of every waiting task is an invariant.
LEMMA OvertakeStep ==
    Exclusive /\ WorkerOK /\ LinesInv /\ (Exclusive /\ WorkerOK /\ LinesInv)'
       /\ OvertakeInv /\ [Next]_vars => OvertakeInv'
<1> SUFFICES ASSUME Exclusive, WorkerOK, LinesInv, (Exclusive /\ WorkerOK /\ LinesInv)',
                    OvertakeInv, [Next]_vars
             PROVE  OvertakeInv'
  OBVIOUS
<1>0. TypeOK /\ offered \in Seq(Tasks) /\ Slack \in 0..1
  BY SlackType DEF Exclusive, TypeOK
<1>1. CASE \E t \in RealtimeTasks : EnqueueRealtime(t)
  BY <1>1, OvertakeEnqueue
<1>2. CASE UNCHANGED vars \/ WorkerLoopTick \/ \E c \in Chunks : EnqueueBulkBatch(c)
  <2>1. passed' = passed /\ tier1RealtimeQueue' = tier1RealtimeQueue
    BY <1>2 DEF vars, WorkerLoopTick, EnqueueBulkBatch
  <2>2. \E c \in Seq(Tasks) : offered' = offered \o c
    <3>1. CASE UNCHANGED vars \/ WorkerLoopTick
      <4>1. <<>> \in Seq(Tasks) /\ offered' = offered \o <<>>
        BY <1>0, <3>1 DEF vars, WorkerLoopTick
      <4> QED
        BY <4>1
    <3>2. CASE \E c \in Chunks : EnqueueBulkBatch(c)
      BY <3>2, ChunkTyping DEF EnqueueBulkBatch
    <3> QED
      BY <1>2, <3>1, <3>2
  <2>3. \A w \in Workers : pc'[w] = pc[w] \/ (pc[w] = "off" /\ pc'[w] = "scheduled")
    BY <1>0, <1>2, TriggerMoves DEF vars, WorkerLoopTick, EnqueueBulkBatch
  <2>4. Slack' = Slack
    BY <2>3 DEF Slack
  <2>5. Slack <= Slack'
    BY <1>0, <2>4
  <2> QED
    BY <2>1, <2>2, <2>5, OvertakeQuiet
<1>3. ASSUME NEW w \in Workers, Step(w) PROVE OvertakeInv'
  BY <1>3, OvertakeTask, OvertakeWorker DEF Step
<1> QED
  BY <1>1, <1>2, <1>3 DEF Next

\* A realtime task waits for at most one bulk write more than there are
\* realtime tasks before it: whatever the length of the bulk queue, the batch
\* size, and the moment of the enqueueRealtime.
THEOREM RealtimeOvertakesHolds == Spec => []RealtimeOvertakes
<1> DEFINE J == Exclusive /\ WorkerOK /\ LinesInv
<1>1. Init => OvertakeInv
  <2> SUFFICES ASSUME Init PROVE OvertakeInv
    OBVIOUS
  <2>1. \A t \in RealtimeTasks : passed[t] = 0
    BY DEF Init
  <2>2. Fresh /\ Waiting
    BY <2>1 DEF Init, Fresh, Waiting
  <2>3. ASSUME NEW t \in RealtimeTasks PROVE Rank(t) = 0
    <3>1. Ahead(t) = {}
      BY DEF Init, Ahead, Before
    <3> QED
      BY <3>1, FS_EmptySet DEF Rank
  <2>4. Bounded
    BY <2>1, <2>3 DEF Bounded
  <2> QED
    BY <2>2, <2>4 DEF OvertakeInv
<1>2. J /\ J' /\ OvertakeInv /\ [Next]_vars => OvertakeInv'
  BY OvertakeStep
<1>3. OvertakeInv => RealtimeOvertakes
  BY DEF OvertakeInv, Bounded, RealtimeOvertakes, Rank
<1>4. Spec => []J
  BY LinesInvariant
<1> HIDE DEF J
<1> QED
  BY <1>1, <1>2, <1>3, <1>4, PTL DEF Spec
=============================================================================
