---------------------------- MODULE DurableStore ----------------------------
(***************************************************************************)
(* What the storage engine of the hub (services/gateway-hub/src/storage.ts)*)
(* promises to the rest of the system: one relational store whose rows are *)
(* changed one operation at a time and that a crash does not touch.  There *)
(* is no disk, no staging area, no download in progress and no difference  *)
(* between a stub and a full contact; HubStorage shows that the engine     *)
(* implements this as long as no flush fails.                              *)
(***************************************************************************)
EXTENDS Integers, FiniteSets

CONSTANTS
    Convs,    \* conversation identifiers
    Senders,  \* sender (contact) identifiers
    Inputs,   \* the messages that callers hand over
    Resyncs   \* resync calls

VARIABLES
    rows,     \* messages, conversations, known (contacts) and hwm
    running   \* the resyncs that have begun and not ended

storeVars == <<rows, running>>

NoRows == [messages |-> {}, conversations |-> {}, known |-> {},
           hwm |-> [c \in Convs |-> 0]]

Init == rows = NoRows /\ running = {}

\* The store keeps the newest record of an id; an equally old one replaces.
Newest(msgs, m) ==
    IF \E n \in msgs : n.id = m.id /\ n.ts > m.ts
    THEN msgs
    ELSE {n \in msgs : n.id # m.id} \cup {m}

Later(a, b) == IF a > b THEN a ELSE b

\* A message is recorded with its sender, and in the mark of its conversation;
\* the queue engine opens the conversation as well, a direct write does not.
Recorded(m, opened) ==
    [messages      |-> Newest(rows.messages, m),
     conversations |-> rows.conversations \cup opened,
     known         |-> rows.known \cup {m.sender},
     hwm           |-> [rows.hwm EXCEPT ![m.conv] = Later(@, m.ts)]]

Record(m) ==
    /\ \E opened \in {{}, {m.conv}} : rows' = Recorded(m, opened)
    /\ UNCHANGED running

\* The parents of a message are made before the message is there.
Prepare(m) ==
    /\ rows' = [messages      |-> rows.messages,
                conversations |-> rows.conversations \cup {m.conv},
                known         |-> rows.known \cup {m.sender},
                hwm           |-> rows.hwm]
    /\ UNCHANGED running

Open(c) ==
    /\ rows' = [rows EXCEPT !.conversations = @ \cup {c}]
    /\ UNCHANGED running

Know(s) ==
    /\ rows' = [rows EXCEPT !.known = @ \cup {s}]
    /\ UNCHANGED running

Begin(r) ==
    /\ running' = running \cup {r}
    /\ UNCHANGED rows

\* One row per message id, every sender known, no message above its mark.
Sound(t) ==
    /\ \A m, n \in t.messages : m.id = n.id => m = n
    /\ \A m \in t.messages : m.sender \in t.known /\ m.ts <= t.hwm[m.conv]

\* The end of a resync replaces everything but the marks by other sound rows;
\* nothing else ever removes a row or takes one back.
Replace(r) ==
    /\ r \in running
    /\ running' = running \ {r}
    /\ Sound(rows')
    /\ \A c \in Convs : rows'.hwm[c] >= rows.hwm[c]

\* The process stops: its resyncs are forgotten, the rows stay.
Stop ==
    /\ running' = {}
    /\ UNCHANGED rows

Next ==
    \/ \E m \in Inputs : Record(m) \/ Prepare(m)
    \/ \E c \in Convs : Open(c)
    \/ \E s \in Senders : Know(s)
    \/ \E r \in Resyncs : Begin(r) \/ Replace(r)
    \/ Stop

Spec == Init /\ [][Next]_storeVars
=============================================================================
