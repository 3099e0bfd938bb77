----------------------------- MODULE ClientRows -----------------------------
(***************************************************************************)
(* The messages table of one web client (apps/web-client: page.tsx and     *)
(* lib/dexie_db.ts) beside the tables of the hub.  The hub is DurableStore,*)
(* which HubStorage implements.  A row reaches the client as a change      *)
(* event on the WebSocket, in the answer to a selected conversation, in    *)
(* the dump of a resync or in the answer to an upload.  Each answer is a   *)
(* snapshot that is put into the table some time after it was taken, and   *)
(* no put looks at what it replaces.  Nothing here takes a row out of the   *)
(* client's table: a message that a swap dropped from the hub stays there. *)
(***************************************************************************)
EXTENDS Integers, Sequences, FiniteSets

CONSTANTS
    Convs, Senders, Inputs, Resyncs,  \* of DurableStore
    Limit,       \* messages that the hub serves of a conversation (500)
    Slots,       \* answers that the client may hold at a time
    MaxFrames    \* bound: frames under way

VARIABLES
    rows, running,  \* the hub's tables and its resyncs
    tasks,          \* messages that the queue engine is writing
    socket,         \* the client's WebSocket
    frames,         \* frames under way, in order
    answers,        \* snapshots that the client has still to put
    messages        \* the client's table

Hub == INSTANCE DurableStore

rowsVars == <<rows, running, tasks, socket, frames, answers, messages>>

RowsInit ==
    /\ Hub!Init
    /\ tasks = {}
    /\ socket = "open"
    /\ frames = <<>>
    /\ answers = [k \in Slots |-> <<>>]
    /\ messages = {}

Free(k) == answers[k] = <<>>

-----------------------------------------------------------------------------
(***************************************************************************)
(* The hub.                                                                *)
(***************************************************************************)

\* writeSingleMessage up to its await: the parents of the message.
WriterPrepares(m) ==
    /\ tasks = {}
    /\ tasks' = {m}
    /\ Hub!Prepare(m)
    /\ UNCHANGED <<socket, frames, answers, messages>>

Announce(fs) ==
    /\ Len(frames) + Len(fs) <= MaxFrames
    /\ frames' = IF socket = "open" THEN frames \o fs ELSE frames

\* The rest: addMessage returns the message as it was given, also when the
\* table keeps a newer one, and that is what both events carry.
WriterStores(m) ==
    /\ m \in tasks
    /\ tasks' = {}
    /\ rows' = Hub!Recorded(m, {})
    /\ Announce(<<[event |-> "CDC_EVENT", msg |-> m],
                  [event |-> "MESSAGE_FANOUT", msg |-> m]>>)
    /\ UNCHANGED <<running, socket, answers, messages>>

\* A direct write (the hub's copy of a message it sends) is not announced.
DirectWrite(m) ==
    /\ Hub!Record(m)
    /\ UNCHANGED <<tasks, socket, frames, answers, messages>>

ResyncStarts(r) ==
    /\ Hub!Begin(r)
    /\ UNCHANGED <<tasks, socket, frames, answers, messages>>

\* The swap puts what Zalo's page holds in place of the tables.  The dump goes
\* to the client that asked: to another, to this one as a frame, after one of
\* the progress, or to this one as the answer to its request.
Swap(r, msgs, k, way) ==
    /\ \A m, n \in msgs : m.id = n.id => m = n
    /\ rows' = [messages      |-> msgs,
                conversations |-> {m.conv : m \in msgs},
                known         |-> {m.sender : m \in msgs},
                hwm           |-> [c \in Convs |->
                    LET ts == {m.ts : m \in {n \in msgs : n.conv = c}} \cup {rows.hwm[c]}
                    IN  CHOOSE t \in ts : \A u \in ts : u <= t]]
    /\ Hub!Replace(r)
    /\ CASE way = "other" -> UNCHANGED <<frames, answers>>
         [] way = "frame" -> /\ Announce(<<[event |-> "LIVE_SYNC_PROGRESS", msg |-> {}],
                                           [event |-> "LIVE_SYNC_COMPLETED", msg |-> msgs]>>)
                             /\ UNCHANGED answers
         [] way = "answer" -> /\ Free(k)
                              /\ answers' = [answers EXCEPT ![k] = <<msgs>>]
                              /\ UNCHANGED frames
    /\ UNCHANGED <<tasks, socket, messages>>

OfConv(t, c) == {m \in t.messages : m.conv = c}

\* getMessages: the newest ones up to the limit, of equal ones any.
Newer(t, m) == {n \in OfConv(t, m.conv) : n.id # m.id /\ n.ts > m.ts}

GetMessages(t, c) ==
    {s \in SUBSET OfConv(t, c) :
        /\ \A m \in s : Newer(t, m) \subseteq s
        /\ \/ s = OfConv(t, c) /\ Cardinality(s) <= Limit
           \/ Cardinality(s) = Limit}

Answered(k, msgs) == answers' = [answers EXCEPT ![k] = <<msgs>>]

\* The user selects a conversation, and GET /api/messages answers.  Of one
\* without messages the page is scraped and what is found is stored first.  A
\* hub without conversations may not be hydrated: 503, an empty answer.
ServeMessages(c, k) ==
    /\ Free(k)
    /\ \/ UNCHANGED rows /\ \E s \in GetMessages(rows, c) : Answered(k, s)
       \/ /\ OfConv(rows, c) = {}
          /\ \E m \in Inputs : m.conv = c /\ rows' = Hub!Recorded(m, {})
          /\ \E s \in GetMessages(rows', c) : Answered(k, s)
       \/ rows.conversations = {} /\ UNCHANGED rows /\ Answered(k, {})
    /\ UNCHANGED <<running, tasks, socket, frames, messages>>

\* An upload: the hub queues the message and answers with its id, a new one.
Upload(m, k) ==
    /\ \A n \in rows.messages \cup messages : n.id # m.id
    /\ Free(k)
    /\ Answered(k, {m})
    /\ tasks = {} /\ tasks' = {m}
    /\ Hub!Prepare(m)
    /\ UNCHANGED <<socket, frames, messages>>

-----------------------------------------------------------------------------
(***************************************************************************)
(* The client.                                                             *)
(***************************************************************************)
Row(m, whole) == [id |-> m.id, conv |-> m.conv, ts |-> m.ts, whole |-> whole]

\* A bug: a row that is there is left alone.
PutMissing(new, whole) ==
    messages' = messages
        \cup {Row(m, whole) : m \in {n \in new : \A o \in messages : o.id # n.id}}

\* db.messages.put and bulkPut: the new rows replace those with their ids.
PutRows(new, whole) ==
    messages' = {n \in messages : \A m \in new : n.id # m.id}
        \cup {Row(m, whole) : m \in new}

\* onmessage.  A fanout has no sender name, file data or reactions, and what it
\* does not have the row loses.  A dump waits for the conversations and the
\* contacts to be put, while other frames are handled.
OnMessage(k) ==
    /\ frames # <<>>
    /\ frames' = Tail(frames)
    /\ LET f == Head(frames) IN
         CASE f.event = "CDC_EVENT" -> PutRows({f.msg}, TRUE) /\ UNCHANGED answers
           [] f.event = "MESSAGE_FANOUT" -> PutRows({f.msg}, FALSE) /\ UNCHANGED answers
           [] f.event = "LIVE_SYNC_PROGRESS" -> UNCHANGED <<messages, answers>>
           [] f.event = "LIVE_SYNC_COMPLETED" ->
                /\ Free(k)
                /\ answers' = [answers EXCEPT ![k] = <<f.msg>>]
                /\ UNCHANGED messages
    /\ UNCHANGED <<rows, running, tasks, socket>>

\* fetchServerMessages, reconcileFullState or handleFileUpload goes on.
PutAnswer(k) ==
    /\ ~Free(k)
    /\ PutRows(answers[k][1], TRUE)
    /\ answers' = [answers EXCEPT ![k] = <<>>]
    /\ UNCHANGED <<rows, running, tasks, socket, frames>>

\* The socket closes, by itself or with the hub, and is not opened again.
SocketCloses ==
    /\ socket = "open"
    /\ socket' = "closed"
    /\ frames' = <<>>
    /\ \/ UNCHANGED <<rows, running, tasks>>
       \/ Hub!Stop /\ tasks' = {}
    /\ UNCHANGED <<answers, messages>>

RowsNext ==
    \/ \E m \in Inputs : WriterPrepares(m) \/ WriterStores(m) \/ DirectWrite(m)
    \/ \E r \in Resyncs :
         \/ ResyncStarts(r)
         \/ \E msgs \in SUBSET Inputs, k \in Slots, way \in {"other", "frame", "answer"} :
              Swap(r, msgs, k, way)
    \/ \E k \in Slots :
         \/ \E c \in Convs : ServeMessages(c, k)
         \/ \E m \in Inputs : Upload(m, k)
         \/ OnMessage(k) \/ PutAnswer(k)
    \/ SocketCloses
=============================================================================
