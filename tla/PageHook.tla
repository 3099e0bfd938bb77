------------------------------ MODULE PageHook ------------------------------
(***************************************************************************)
(* The path of a Zalo message from the page's IndexedDB to the writer      *)
(* queue, over the CDP session: the hook of in_context_hook.ts, which sees *)
(* each write, batches them for 100 ms and calls a binding, and the scan   *)
(* of chunked_sync.ts, which reads the whole store in chunks.              *)
(*                                                                         *)
(* Chromium is external.  A binding and a script for new documents belong  *)
(* to the CDP session that asked for them and end with it; the function a  *)
(* binding put into a document stays there, without effect.  What a        *)
(* session sends arrives in order.  A message is a model value: the shield *)
(* against ciphertext changes its text and nothing else.                   *)
(***************************************************************************)
EXTENDS Integers, Sequences, SequencesExt, FiniteSets

CONSTANTS
    Messages,     \* what Zalo writes into IndexedDB
    Scans,        \* calls of executeChunkedSync
    BatchLimit,   \* records of a chunk
    MaxSessions,  \* bound: CDP sessions of one life of the hub
    MaxRetries,   \* bound: further calls of initialize
    MaxLoads      \* bound: documents the tab loads

ASSUME HookAssumption == IsFiniteSet(Scans) /\ BatchLimit \in Nat \ {0}

VARIABLES
    up, sessions, loads,  \* a session is open; how many there were; documents
    stage,                \* where initialize() is
    retries,
    listeners,            \* "binding_called" listeners of the hook
    bound,                \* bindings of the session
    script,               \* the session runs the hook in new documents
    hooked, fn,           \* of the document: the hook runs; functions it has
    eventBuffer,          \* events the hook holds
    flushTimer,           \* "off", "armed", or "stale": set but fired
    wire,                 \* sent by Chromium, not yet taken by the hub
    store,                \* messages in IndexedDB
    enqueued,             \* messages handed to the writer queue
    call, scan,           \* each sync: its state in the hub; what is to read
    heard, due, gone      \* history: written while bound, written while the
                          \* hub was connected and initialised, and lost with
                          \* their document or their session

session == <<up, sessions, bound, script>>
setup   == <<stage, retries, listeners>>
page    == <<hooked, fn, eventBuffer, flushTimer, loads, store>>
past    == <<heard, due, gone>>
hookVars == <<session, setup, page, wire, enqueued, call, scan, past>>

NoScan == [on |-> FALSE, todo |-> {}, all |-> {}, skipped |-> {}, bound |-> FALSE]

\* The page may be as an earlier life of the hub left it: hooked, with the
\* functions of that life's bindings, which the new session does not have.
LeftInPage ==
    \/ ~hooked /\ fn \in {{}, {"event"}, {"event", "chunk"}}
    \/ hooked /\ fn = {"event", "chunk"}

HookInit ==
    /\ up = FALSE /\ sessions = 0 /\ loads = 1
    /\ stage = "bindEvent" /\ retries = 0 /\ listeners = 0
    /\ bound = {} /\ script = FALSE
    /\ hooked \in BOOLEAN
    /\ fn \in SUBSET {"event", "chunk"} /\ LeftInPage
    /\ eventBuffer = {} /\ flushTimer = "off"
    /\ wire = <<>>
    /\ store = {} /\ enqueued = {}
    /\ call = [y \in Scans |-> "idle"]
    /\ scan = [y \in Scans |-> NoScan]
    /\ heard = {} /\ due = {} /\ gone = {}

Sent(kind, msgs, y) == [kind |-> kind, msgs |-> msgs, sync |-> y]

-----------------------------------------------------------------------------
(***************************************************************************)
(* The session, and the tab.                                               *)
(***************************************************************************)
SessionOpens ==
    /\ ~up /\ sessions < MaxSessions
    /\ up' = TRUE
    /\ sessions' = sessions + 1
    /\ UNCHANGED <<bound, script, setup, page, wire, enqueued, call, scan, past>>

\* Every pending command is rejected: initialize() and the syncs that wait for
\* their reply fail.  Nobody initialises the hook again.
SessionCloses ==
    /\ up
    /\ up' = FALSE
    /\ bound' = {} /\ script' = FALSE
    /\ wire' = <<>>
    /\ stage' = IF stage = "done" THEN stage ELSE "retry"
    /\ call' = [y \in Scans |-> IF call[y] = "awaiting" THEN "failed" ELSE call[y]]
    /\ gone' = gone \cup eventBuffer
                 \cup UNION {wire[i].msgs : i \in DOMAIN wire}
    /\ UNCHANGED <<sessions, retries, listeners, page, enqueued, scan, heard, due>>

\* The tab loads a document: what the old one held, its scans too, is gone.
Navigate ==
    /\ loads < MaxLoads
    /\ loads' = loads + 1
    /\ hooked' = script
    /\ fn' = bound
    /\ eventBuffer' = {} /\ flushTimer' = "off"
    /\ gone' = gone \cup eventBuffer
    /\ scan' = [y \in Scans |-> [scan[y] EXCEPT !.on = FALSE]]
    /\ wire' = wire \o SetToSeq({Sent("error", {}, y) : y \in
                                   {z \in Scans : up /\ scan[z].on}})
    /\ UNCHANGED <<session, setup, store, enqueued, call, heard, due>>

-----------------------------------------------------------------------------
(***************************************************************************)
(* initialize() and injectBrowserHook().                                   *)
(***************************************************************************)

\* An await of initialize() ends: with success, or with an error or a timeout,
\* which may come after Chromium has done its part.
Goes(from, to) == stage = from /\ stage' \in {to, "retry"}

\* Runtime.addBinding, to the document as it is and to later ones.
AddBinding(name, from, to) ==
    /\ up /\ Goes(from, to)
    /\ bound' = bound \cup {name}
    /\ fn' = fn \cup {name}
    /\ UNCHANGED <<up, sessions, script, retries, hooked, eventBuffer,
                   flushTimer, loads, store, wire, enqueued, call, scan, past>>

BindEvent ==
    AddBinding("event", "bindEvent", "bindChunk") /\ UNCHANGED listeners

\* The listener is registered once both bindings are there.  What a page that
\* is hooked already sends before that is taken by nobody.
BindChunk ==
    /\ AddBinding("chunk", "bindChunk", "addScript")
    /\ listeners' = IF stage' = "addScript" THEN listeners + 1 ELSE listeners

AddScript ==
    /\ up /\ Goes("addScript", "evaluate")
    /\ script' = TRUE
    /\ UNCHANGED <<up, sessions, bound, retries, listeners, page, wire, enqueued,
                   call, scan, past>>

\* The hook runs in the document as it is, unless it is there already.
EvaluateHook ==
    /\ up /\ Goes("evaluate", "done")
    /\ hooked' = TRUE
    /\ UNCHANGED <<session, retries, listeners, fn, eventBuffer, flushTimer,
                   loads, store, wire, enqueued, call, scan, past>>

\* A command that no open session takes.
SetupFails ==
    /\ stage \notin {"done", "retry"}
    /\ stage' = "retry"
    /\ UNCHANGED <<session, retries, listeners, page, wire, enqueued, call, scan,
                   past>>

\* After 3 s initialize() starts again from its first command.
Retry ==
    /\ stage = "retry" /\ retries < MaxRetries
    /\ stage' = "bindEvent"
    /\ retries' = retries + 1
    /\ UNCHANGED <<session, listeners, page, wire, enqueued, call, scan, past>>

-----------------------------------------------------------------------------
(***************************************************************************)
(* The hook in the page, and handleBindingEvent.                           *)
(***************************************************************************)

\* Zalo writes a message: inspectAndEnqueue() and enqueueEvent().
Write(m) ==
    /\ m \notin store
    /\ store' = store \cup {m}
    /\ IF hooked
       THEN /\ eventBuffer' = eventBuffer \cup {m}
            /\ flushTimer' = IF flushTimer = "off" THEN "armed" ELSE flushTimer
       ELSE UNCHANGED <<eventBuffer, flushTimer>>
    /\ heard' = IF hooked /\ "event" \in bound /\ listeners > 0
                THEN heard \cup {m} ELSE heard
    /\ due' = IF up /\ stage = "done" THEN due \cup {m} ELSE due
    /\ UNCHANGED <<session, setup, hooked, fn, loads, wire, enqueued, call, scan,
                   gone>>

\* Calling a binding's function reaches the hub through the session that has
\* the binding, if there is one.
Emit(name, msgs, y) ==
    IF name \in fn /\ name \in bound THEN <<Sent(name, msgs, y)>> ELSE <<>>

\* A bug: the timer's variable is not set back.
FlushBufferOnce ==
    /\ flushTimer = "armed"
    /\ flushTimer' = "stale"
    /\ eventBuffer' = IF "event" \in fn THEN {} ELSE eventBuffer
    /\ wire' = wire \o Emit("event", eventBuffer, "none")
    /\ UNCHANGED <<session, setup, hooked, fn, loads, store, enqueued, call, scan,
                   past>>

FlushBuffer ==
    /\ flushTimer = "armed"
    /\ flushTimer' = "off"
    /\ eventBuffer' = IF "event" \in fn THEN {} ELSE eventBuffer
    /\ wire' = wire \o Emit("event", eventBuffer, "none")
    /\ UNCHANGED <<session, setup, hooked, fn, loads, store, enqueued, call, scan,
                   past>>

\* The hub takes the next thing from the session.  The hook's listeners take
\* events, the handlers of running syncs take chunks, a reply ends its sync.
Receive ==
    /\ wire # <<>>
    /\ wire' = Tail(wire)
    /\ LET w == Head(wire)
           taken == \/ w.kind = "event" /\ listeners > 0
                    \/ w.kind = "chunk" /\ \E y \in Scans : call[y] = "awaiting"
       IN  /\ enqueued' = IF taken THEN enqueued \cup w.msgs ELSE enqueued
           /\ call' = IF w.kind \in {"reply", "error"} /\ call[w.sync] = "awaiting"
                      THEN [call EXCEPT ![w.sync] =
                               IF w.kind = "reply" THEN "done" ELSE "failed"]
                      ELSE call
    /\ UNCHANGED <<session, setup, page, scan, past>>

-----------------------------------------------------------------------------
(***************************************************************************)
(* executeChunkedSync().                                                   *)
(***************************************************************************)

\* The handler is added and the script is sent; it opens its cursor on the
\* store as it is.
StartScan(y) ==
    /\ call[y] = "idle"
    /\ IF up
       THEN /\ call' = [call EXCEPT ![y] = "awaiting"]
            /\ scan' = [scan EXCEPT ![y] = [on |-> TRUE, todo |-> store, all |-> store,
                                            skipped |-> {}, bound |-> "chunk" \in bound]]
       ELSE /\ call' = [call EXCEPT ![y] = "failed"]
            /\ UNCHANGED scan
    /\ UNCHANGED <<session, setup, page, wire, enqueued, past>>

\* A bug: only full batches are emitted.
ScanChunkFull(y, c) ==
    /\ scan[y].on
    /\ c # {} /\ Cardinality(c) <= BatchLimit
    /\ scan' = [scan EXCEPT ![y].todo = @ \ c]
    /\ wire' = wire \o (IF Cardinality(c) = BatchLimit THEN Emit("chunk", c, y) ELSE <<>>)
    /\ UNCHANGED <<session, setup, page, enqueued, call, past>>

\* A full batch, or what is left at the end of an object store, is emitted;
\* without the function it is dropped.
ScanChunk(y, c) ==
    /\ scan[y].on
    /\ c # {} /\ Cardinality(c) <= BatchLimit
    /\ scan' = [scan EXCEPT ![y].todo = @ \ c]
    /\ wire' = wire \o Emit("chunk", c, y)
    /\ UNCHANGED <<session, setup, page, enqueued, call, past>>

\* IndexedDB fails at an object store, at a database or as a whole: what had
\* not been emitted of it is skipped, and the scan goes on as if nothing were.
ScanSkips(y, c) ==
    /\ scan[y].on
    /\ c # {}
    /\ scan' = [scan EXCEPT ![y].todo = @ \ c, ![y].skipped = @ \cup c]
    /\ UNCHANGED <<session, setup, page, wire, enqueued, call, past>>

\* Every database has been tried: the summary is returned.
ScanEnd(y) ==
    /\ scan[y].on
    /\ scan[y].todo = {}
    /\ scan' = [scan EXCEPT ![y].on = FALSE]
    /\ wire' = wire \o (IF up THEN <<Sent("reply", {}, y)>> ELSE <<>>)
    /\ UNCHANGED <<session, setup, page, enqueued, call, past>>

\* The CDP command times out: the handler is removed, the scan goes on.
SyncTimeout(y) ==
    /\ call[y] = "awaiting"
    /\ call' = [call EXCEPT ![y] = "failed"]
    /\ UNCHANGED <<session, setup, page, wire, enqueued, scan, past>>

HookNext ==
    \/ SessionOpens \/ SessionCloses \/ Navigate
    \/ BindEvent \/ BindChunk \/ AddScript \/ EvaluateHook \/ SetupFails \/ Retry
    \/ \E m \in Messages : Write(m)
    \/ FlushBuffer \/ Receive
    \/ \E y \in Scans :
         \/ StartScan(y) \/ ScanEnd(y) \/ SyncTimeout(y)
         \/ \E c \in SUBSET scan[y].todo : ScanChunk(y, c) \/ ScanSkips(y, c)

HookSpec == HookInit /\ [][HookNext]_hookVars

-----------------------------------------------------------------------------
\* The message has reached the queue, is certain to leave the page, is under
\* way, or went with its document or its session.
Accounted(m) ==
    \/ m \in enqueued \cup gone
    \/ m \in eventBuffer /\ flushTimer = "armed"
    \/ \E i \in DOMAIN wire : wire[i].kind = "event" /\ m \in wire[i].msgs

\* A message that the hook sees while the session has its binding and the hub
\* its listener is not lost on the way, however flushes, reloads, retries and
\* the session interleave.
CaptureConserves == \A m \in heard : Accounted(m)

\* A sync that succeeds, started with its binding in place, has handed every
\* message of the store to the queue, before its handler is removed, but for
\* those that an error of IndexedDB made it skip, of which it tells nobody.
SyncedMeansAll ==
    \A y \in Scans : call[y] = "done" /\ scan[y].bound =>
        scan[y].all \ scan[y].skipped \subseteq enqueued

\* "Captures messages directly when Zalo writes them to IndexedDB": whatever
\* is written while the hub is connected and the hook is initialised.
WriteIsCaptured == \A m \in due : Accounted(m)
=============================================================================
