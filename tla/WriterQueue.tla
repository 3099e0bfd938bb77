----------------------------- MODULE WriterQueue -----------------------------
(***************************************************************************)
(* The dual-tier single-writer engine (services/gateway-hub/src/           *)
(* queue_writer.ts): a realtime queue, a bulk queue and processNextBatch.  *)
(*                                                                         *)
(* processNextBatch is asynchronous and is started from three places; the  *)
(* flag isProcessing is all that keeps two invocations apart.  Each        *)
(* invocation that exists, scheduled or running, is a worker, so that two  *)
(* of them could overlap if the flag were wrong.  A write suspends the     *)
(* worker (remote media is downloaded), and callers enqueue meanwhile.     *)
(***************************************************************************)
EXTENDS Integers, Sequences, FiniteSets

CONSTANTS
    RealtimeTasks,  \* tasks of enqueueRealtime
    Chunks,         \* the batches of enqueueBulkBatch: sequences of tasks
    Malformed,      \* tasks whose write throws (a media url that is no string)
    MicroBatchSize, \* bulk tasks taken in one splice (500 in the code)
    Workers,        \* invocations of processNextBatch
    None

BulkTasks == UNION {{c[i] : i \in DOMAIN c} : c \in Chunks}
Tasks     == RealtimeTasks \cup BulkTasks
Active    == {"scheduled", "drain", "drainWrite", "batch", "urgentWrite",
              "task", "taskWrite"}

ASSUME QueueAssumption ==
    /\ MicroBatchSize \in Nat \ {0}
    /\ \A c \in Chunks : /\ c \in Seq(BulkTasks)
                          /\ \A i, j \in DOMAIN c : c[i] = c[j] => i = j
    /\ RealtimeTasks \cap BulkTasks = {}
    /\ None \notin Tasks

VARIABLES
    tier1RealtimeQueue, tier2BulkQueue,
    isProcessing,
    pc,       \* where each worker is
    batch,    \* the rest of the spliced micro batch of each worker
    writing,  \* the task whose write a worker awaits
    written,  \* history: tasks in the order their writes ended
    lost,     \* history: tasks that were taken from a queue and never written
    offered,  \* history: tasks in the order they were enqueued
    passed    \* history: bulk writes begun while a realtime task waited

vars == <<tier1RealtimeQueue, tier2BulkQueue, isProcessing, pc, batch,
          writing, written, lost, offered, passed>>

Elems(s) == {s[i] : i \in DOMAIN s}

-----------------------------------------------------------------------------
Init ==
    /\ tier1RealtimeQueue = <<>>
    /\ tier2BulkQueue = <<>>
    /\ isProcessing = FALSE
    /\ pc = [w \in Workers |-> "off"]
    /\ batch = [w \in Workers |-> <<>>]
    /\ writing = [w \in Workers |-> None]
    /\ written = <<>>
    /\ lost = {}
    /\ offered = <<>>
    /\ passed = [t \in RealtimeTasks |-> 0]

\* A bug: the guard on isProcessing is missing.
TriggerAlways ==
    /\ isProcessing' = TRUE
    /\ \E w \in Workers : pc[w] = "off" /\ pc' = [pc EXCEPT ![w] = "scheduled"]

\* triggerProcessing: schedule an invocation unless one exists.
TriggerProcessing ==
    IF isProcessing THEN UNCHANGED <<isProcessing, pc>>
    ELSE /\ isProcessing' = TRUE
         /\ \E w \in Workers : /\ pc[w] = "off"
                               /\ pc' = [pc EXCEPT ![w] = "scheduled"]

EnqueueRealtime(t) ==
    /\ t \notin Elems(offered)
    /\ tier1RealtimeQueue' = Append(tier1RealtimeQueue, t)
    /\ offered' = Append(offered, t)
    /\ TriggerProcessing
    /\ UNCHANGED <<tier2BulkQueue, batch, writing, written, lost, passed>>

EnqueueBulkBatch(c) ==
    /\ Elems(c) \cap Elems(offered) = {}
    /\ tier2BulkQueue' = tier2BulkQueue \o c
    /\ offered' = offered \o c
    /\ TriggerProcessing
    /\ UNCHANGED <<tier1RealtimeQueue, batch, writing, written, lost, passed>>

\* The 100 ms interval of startWorkerLoop.
WorkerLoopTick ==
    /\ tier1RealtimeQueue # <<>> \/ tier2BulkQueue # <<>>
    /\ TriggerProcessing
    /\ UNCHANGED <<tier1RealtimeQueue, tier2BulkQueue, batch, writing,
                   written, lost, offered, passed>>

\* setImmediate fires.
Begin(w) ==
    /\ pc[w] = "scheduled"
    /\ pc' = [pc EXCEPT ![w] = "drain"]
    /\ UNCHANGED <<tier1RealtimeQueue, tier2BulkQueue, isProcessing, batch,
                   writing, written, lost, offered, passed>>

\* A bug: the flag is never released.
FinishWedged(w) ==
    IF tier1RealtimeQueue # <<>> \/ tier2BulkQueue # <<>>
    THEN pc' = [pc EXCEPT ![w] = "scheduled"] /\ UNCHANGED isProcessing
    ELSE pc' = [pc EXCEPT ![w] = "off"] /\ UNCHANGED isProcessing

\* The finally clause: reschedule while there is work, else release the flag.
Finish(w) ==
    IF tier1RealtimeQueue # <<>> \/ tier2BulkQueue # <<>>
    THEN pc' = [pc EXCEPT ![w] = "scheduled"] /\ UNCHANGED isProcessing
    ELSE pc' = [pc EXCEPT ![w] = "off"] /\ isProcessing' = FALSE

\* A bug: pop instead of shift.
DrainNewest(w) ==
    /\ pc[w] = "drain"
    /\ tier1RealtimeQueue # <<>>
    /\ LET n == Len(tier1RealtimeQueue)
       IN  /\ writing' = [writing EXCEPT ![w] = tier1RealtimeQueue[n]]
           /\ tier1RealtimeQueue' = SubSeq(tier1RealtimeQueue, 1, n - 1)
    /\ pc' = [pc EXCEPT ![w] = "drainWrite"]
    /\ UNCHANGED <<tier2BulkQueue, isProcessing, batch, written, lost,
                   offered, passed>>

\* The while loop over the realtime queue.
DrainRealtime(w) ==
    /\ pc[w] = "drain"
    /\ tier1RealtimeQueue # <<>>
    /\ writing' = [writing EXCEPT ![w] = Head(tier1RealtimeQueue)]
    /\ tier1RealtimeQueue' = Tail(tier1RealtimeQueue)
    /\ pc' = [pc EXCEPT ![w] = "drainWrite"]
    /\ UNCHANGED <<tier2BulkQueue, isProcessing, batch, written, lost,
                   offered, passed>>

\* A bug: slice instead of splice.
SliceBatch(w) ==
    /\ pc[w] = "drain"
    /\ tier1RealtimeQueue = <<>>
    /\ tier2BulkQueue # <<>>
    /\ batch' = [batch EXCEPT ![w] = tier2BulkQueue]
    /\ pc' = [pc EXCEPT ![w] = "batch"]
    /\ UNCHANGED <<tier1RealtimeQueue, tier2BulkQueue, isProcessing, writing,
                   written, lost, offered, passed>>

\* splice(0, min(500, length)).
SpliceBatch(w) ==
    /\ pc[w] = "drain"
    /\ tier1RealtimeQueue = <<>>
    /\ tier2BulkQueue # <<>>
    /\ LET n == IF Len(tier2BulkQueue) < MicroBatchSize
                THEN Len(tier2BulkQueue) ELSE MicroBatchSize
       IN  /\ batch' = [batch EXCEPT ![w] = SubSeq(tier2BulkQueue, 1, n)]
           /\ tier2BulkQueue' = SubSeq(tier2BulkQueue, n + 1, Len(tier2BulkQueue))
    /\ pc' = [pc EXCEPT ![w] = "batch"]
    /\ UNCHANGED <<tier1RealtimeQueue, isProcessing, writing, written, lost,
                   offered, passed>>

NothingToDo(w) ==
    /\ pc[w] = "drain"
    /\ tier1RealtimeQueue = <<>> /\ tier2BulkQueue = <<>>
    /\ Finish(w)
    /\ UNCHANGED <<tier1RealtimeQueue, tier2BulkQueue, batch, writing,
                   written, lost, offered, passed>>

\* A bug: the bulk loop never looks at the realtime queue.
IgnoreUrgent(w) ==
    /\ pc[w] = "batch"
    /\ batch[w] # <<>>
    /\ pc' = [pc EXCEPT ![w] = "task"]
    /\ UNCHANGED <<tier1RealtimeQueue, tier2BulkQueue, isProcessing, batch,
                   writing, written, lost, offered, passed>>

\* Top of the bulk loop: one realtime task may go first.
TakeUrgent(w) ==
    /\ pc[w] = "batch"
    /\ batch[w] # <<>>
    /\ IF tier1RealtimeQueue # <<>>
       THEN /\ writing' = [writing EXCEPT ![w] = Head(tier1RealtimeQueue)]
            /\ tier1RealtimeQueue' = Tail(tier1RealtimeQueue)
            /\ pc' = [pc EXCEPT ![w] = "urgentWrite"]
       ELSE /\ pc' = [pc EXCEPT ![w] = "task"]
            /\ UNCHANGED <<writing, tier1RealtimeQueue>>
    /\ UNCHANGED <<tier2BulkQueue, isProcessing, batch, written, lost,
                   offered, passed>>

BeginTask(w) ==
    /\ pc[w] = "task"
    /\ writing' = [writing EXCEPT ![w] = Head(batch[w])]
    /\ batch' = [batch EXCEPT ![w] = Tail(@)]
    /\ pc' = [pc EXCEPT ![w] = "taskWrite"]
    /\ passed' = [t \in RealtimeTasks |->
                    IF t \in Elems(tier1RealtimeQueue) THEN passed[t] + 1
                    ELSE passed[t]]
    /\ UNCHANGED <<tier1RealtimeQueue, tier2BulkQueue, isProcessing, written,
                   lost, offered>>

BatchDone(w) ==
    /\ pc[w] = "batch"
    /\ batch[w] = <<>>
    /\ Finish(w)
    /\ UNCHANGED <<tier1RealtimeQueue, tier2BulkQueue, batch, writing,
                   written, lost, offered, passed>>

Writing(w) == pc[w] \in {"drainWrite", "urgentWrite", "taskWrite"}

\* writeSingleMessage returned.
WriteEnds(w) ==
    /\ Writing(w)
    /\ writing[w] \notin Malformed
    /\ written' = Append(written, writing[w])
    /\ writing' = [writing EXCEPT ![w] = None]
    /\ pc' = [pc EXCEPT ![w] = CASE @ = "drainWrite"  -> "drain"
                                 [] @ = "urgentWrite" -> "task"
                                 [] @ = "taskWrite"   -> "batch"]
    /\ UNCHANGED <<tier1RealtimeQueue, tier2BulkQueue, isProcessing, batch,
                   lost, offered, passed>>

\* It threw: the catch clause ends the invocation, and with it the rest of
\* the spliced batch.
WriteThrows(w) ==
    /\ Writing(w)
    /\ writing[w] \in Malformed
    /\ lost' = lost \cup {writing[w]} \cup Elems(batch[w])
    /\ writing' = [writing EXCEPT ![w] = None]
    /\ batch' = [batch EXCEPT ![w] = <<>>]
    /\ Finish(w)
    /\ UNCHANGED <<tier1RealtimeQueue, tier2BulkQueue, written, offered, passed>>

Step(w) ==
    \/ Begin(w) \/ DrainRealtime(w) \/ SpliceBatch(w) \/ NothingToDo(w)
    \/ TakeUrgent(w) \/ BeginTask(w) \/ BatchDone(w)
    \/ WriteEnds(w) \/ WriteThrows(w)

Next ==
    \/ \E t \in RealtimeTasks : EnqueueRealtime(t)
    \/ \E c \in Chunks : EnqueueBulkBatch(c)
    \/ WorkerLoopTick
    \/ \E w \in Workers : Step(w)

Spec == Init /\ [][Next]_vars

\* The event loop runs what is scheduled, every download ends (it is caught),
\* and the interval fires.  Callers owe nothing.
FairSpec == Spec /\ WF_vars(WorkerLoopTick) /\ \A w \in Workers : WF_vars(Step(w))

-----------------------------------------------------------------------------
(***************************************************************************)
(* Properties.                                                             *)
(***************************************************************************)

\* Every variable keeps its shape.
TypeOK ==
    /\ tier1RealtimeQueue \in Seq(RealtimeTasks)
    /\ tier2BulkQueue \in Seq(BulkTasks)
    /\ isProcessing \in BOOLEAN
    /\ pc \in [Workers -> Active \cup {"off"}]
    /\ batch \in [Workers -> Seq(BulkTasks)]
    /\ writing \in [Workers -> Tasks \cup {None}]
    /\ written \in Seq(Tasks)
    /\ lost \subseteq Tasks
    /\ offered \in Seq(Tasks)
    /\ passed \in [RealtimeTasks -> Nat]

\* Two invocations of processNextBatch never exist at once: what the engine's
\* name promises.
SingleWriter == \A v, w \in Workers : pc[v] # "off" /\ pc[w] # "off" => v = w

\* The flag is set exactly while an invocation exists, so a set flag never
\* keeps callers from starting one that is needed.
FlagMeansWorker == isProcessing <=> \E w \in Workers : pc[w] # "off"

Held == Elems(tier1RealtimeQueue) \cup Elems(tier2BulkQueue)
          \cup (UNION {Elems(batch[w]) : w \in Workers})
          \cup {writing[w] : w \in {v \in Workers : Writing(v)}}

\* Every task that was enqueued is in exactly one place: queued, being
\* written, written once, or lost; and a realtime task is lost only when it
\* is malformed itself, never with its neighbours.
Conservation ==
    /\ Elems(offered) = Held \cup Elems(written) \cup lost
    /\ Held \cap (Elems(written) \cup lost) = {}
    /\ Elems(written) \cap lost = {}
    /\ Cardinality(Elems(written)) = Len(written)
    /\ lost \cap RealtimeTasks \subseteq Malformed

Before(s, x, y) == \E i, j \in DOMAIN s : i < j /\ s[i] = x /\ s[j] = y

\* Within a tier, tasks are written in the order they were enqueued.
FifoPerTier ==
    \A T \in {RealtimeTasks, BulkTasks} : \A x, y \in T :
        Before(written, x, y) => Before(offered, x, y)

Ahead(t) == {u \in RealtimeTasks : Before(offered, u, t)}

\* A realtime task waits for at most one bulk write, plus one for each
\* realtime task enqueued before it, however long the bulk queue is.
RealtimeOvertakes ==
    \A t \in RealtimeTasks :
        passed[t] <= Cardinality(Ahead(t)) + 1

\* Every task that was enqueued is written or, for a malformed task and the
\* batch it interrupts, given up.
EveryTaskEnds ==
    \A t \in Tasks : (t \in Elems(offered)) ~> (t \in Elems(written) \cup lost)
=============================================================================
