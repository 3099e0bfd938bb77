----------------------------- MODULE HubStorage -----------------------------
(***************************************************************************)
(* The hub's storage engine (services/gateway-hub/src/storage.ts) with the *)
(* code that changes it: the writer of the queue engine, the direct writes *)
(* of the send endpoints, the network client's upserts and the Blue/Green  *)
(* resync of crawler.ts.                                                   *)
(*                                                                         *)
(* Node runs one callback at a time, so an action is everything between    *)
(* two awaits.  A write whose media is remote awaits the download before   *)
(* it looks at the tables, and a resync awaits its extraction: those are   *)
(* the points where other handlers run.                                    *)
(*                                                                         *)
(* The message array is a set: every reader sorts it by timestamp, so its  *)
(* order is not observable; what matters is which records it holds.        *)
(***************************************************************************)
EXTENDS Integers, Sequences, FiniteSetsExt

CONSTANTS
    MsgIds,       \* message identifiers
    Convs,        \* conversation identifiers
    Senders,      \* sender (contact) identifiers
    MaxTs,        \* largest timestamp
    Inputs,       \* the messages that callers hand to addMessage
    Dumps,        \* what an IndexedDB extraction may return
    Resyncs,      \* resync calls that may overlap
    MaxInflight,  \* bound on the writes that await a media download
    FlushFaults   \* how many of the four files a failing flush has replaced

Message == [id : MsgIds, conv : Convs, sender : Senders, ts : 1..MaxTs]
Dump    == [convs : SUBSET Convs, contacts : SUBSET Senders, msgs : Seq(Message)]
Level   == {"none", "stub", "real"}

ASSUME StorageAssumption ==
    /\ MaxTs \in Nat
    /\ Inputs \subseteq Message
    /\ Dumps \subseteq Dump
    /\ MaxInflight \in Nat
    /\ FlushFaults \subseteq 0..3

VARIABLES
    up,         \* the hub process is running
    db,         \* production tables: messages, conversations, contacts, hwm
    staging,    \* shadow tables: messages (a list), conversations, contacts
    hydration,  \* hydration gatekeeper
    inflight,   \* writes that await downloadAndPersistMedia
    resync,     \* where each resync call is
    disk        \* the four JSON files

vars == <<up, db, staging, hydration, inflight, resync, disk>>

NoContacts == [s \in Senders |-> "none"]
NoMarks    == [c \in Convs |-> 0]
Torn       == <<>>      \* a metadata file that JSON.parse rejects

EmptyTables == [messages |-> {}, conversations |-> {},
                contacts |-> NoContacts, hwm |-> NoMarks]
EmptyStaging == [messages |-> <<>>, conversations |-> {},
                 contacts |-> NoContacts]

-----------------------------------------------------------------------------
(***************************************************************************)
(* Mutations of the production tables.                                     *)
(***************************************************************************)

\* The timestamps of the messages of one conversation.
Stamps(msgs, c) == {m.ts : m \in {n \in msgs : n.conv = c}}

\* The mark of a conversation only moves forward.
RaiseHwm(hwm, msgs) ==
    [c \in Convs |-> Max({hwm[c]} \cup Stamps(msgs, c))]

\* A contact is synthesised for a sender the table does not know.
StubContact(contacts, s) ==
    [contacts EXCEPT ![s] = IF @ = "none" THEN "stub" ELSE @]

\* Bugs: the lookup by id is missing; the monotonic check is missing.
StoreMessageTwice(msgs, m) == msgs \cup {m}
StoreMessageAnyAge(msgs, m) == {n \in msgs : n.id # m.id} \cup {m}

\* The part of addMessage after the download: replace the stored record
\* unless it is newer, append an unknown id, raise the mark, stub the sender.
StoreMessage(msgs, m) ==
    LET old == {n \in msgs : n.id = m.id}
    IN  IF \E n \in old : n.ts > m.ts THEN msgs ELSE (msgs \ old) \cup {m}

AddMessage(t, m) ==
    [messages      |-> StoreMessage(t.messages, m),
     conversations |-> t.conversations,
     contacts      |-> StubContact(t.contacts, m.sender),
     hwm           |-> RaiseHwm(t.hwm, {m})]

\* The writer stubs the parent conversation, then the sender, each saved.
EnsureConversation(t, m) ==
    [t EXCEPT !.conversations = @ \cup {m.conv}]

EnsureContact(t, m) ==
    [t EXCEPT !.contacts = StubContact(@, m.sender)]

\* Map keyed by msgId: of several records with one id the last one stays.
DeduplicateMessagesById(list) ==
    {list[i] : i \in {j \in DOMAIN list :
                        \A k \in DOMAIN list : k > j => list[k].id # list[j].id}}

\* A bug: the swap is made without the sweep.
NoSweep(st) == st.contacts

\* The stub sweep over every staged message.
SynthesizeMissingContacts(st) ==
    [s \in Senders |->
        IF st.contacts[s] = "none" /\ \E i \in DOMAIN st.messages :
                                        st.messages[i].sender = s
        THEN "stub" ELSE st.contacts[s]]

\* The swap replaces three tables; the marks are kept and raised.
Swapped(st, hwm) ==
    LET msgs == DeduplicateMessagesById(st.messages)
    IN  [messages      |-> msgs,
         conversations |-> st.conversations,
         contacts      |-> SynthesizeMissingContacts(st),
         hwm           |-> RaiseHwm(hwm, msgs)]

-----------------------------------------------------------------------------
(***************************************************************************)
(* Flushing.  The files are replaced in the order messages, conversations, *)
(* contacts, metadata.  An exception is caught and the process goes on, so *)
(* a failing flush leaves a prefix of the files new; the metadata file is  *)
(* written in place and may be left torn.  A crash in the middle of a      *)
(* flush is a failing flush followed by Crash.                             *)
(***************************************************************************)

Written(d, t, n) ==
    [messages      |-> IF n > 0 THEN t.messages ELSE d.messages,
     conversations |-> IF n > 1 THEN t.conversations ELSE d.conversations,
     contacts      |-> IF n > 2 THEN t.contacts ELSE d.contacts,
     hwm           |-> IF n > 3 THEN t.hwm ELSE d.hwm]

FlushToDisk(d, t) ==
    {Written(d, t, n) : n \in FlushFaults \cup {4}}
      \cup (IF 3 \in FlushFaults
            THEN {[Written(d, t, 3) EXCEPT !.hwm = Torn]} ELSE {})

\* Several saves in one stretch of code: each flush starts from the files
\* the previous one left.
FlushFrom(ds, t) == UNION {FlushToDisk(d, t) : d \in ds}

\* The writer's stubs are saved only when they are missing.
SaveIfNew(ds, t1, t2) == IF t1 = t2 THEN ds ELSE FlushFrom(ds, t2)

\* Start-up.  The messages file was written from a table with unique ids, so
\* its deduplication finds nothing to merge; a torn metadata file is ignored.
LoadFromDisk(d) ==
    [d EXCEPT !.hwm = IF @ = Torn THEN NoMarks ELSE @]

-----------------------------------------------------------------------------
Init ==
    /\ up = TRUE
    /\ db = EmptyTables
    /\ staging = EmptyStaging
    /\ hydration = "COLD_START"
    /\ inflight = {}
    /\ resync = [r \in Resyncs |-> "idle"]
    /\ disk = EmptyTables

\* addMessage from a send endpoint or the scraper, media absent or local.
AddDirect(m) ==
    /\ up
    /\ db' = AddMessage(db, m)
    /\ disk' \in FlushToDisk(disk, db')
    /\ UNCHANGED <<up, staging, hydration, inflight, resync>>

\* The same with remote media: the call suspends before it reads a table.
AddDirectMedia(m) ==
    /\ up
    /\ Cardinality(inflight) < MaxInflight
    /\ inflight' = inflight \cup {[msg |-> m, queued |-> FALSE]}
    /\ UNCHANGED <<up, db, staging, hydration, resync, disk>>

\* writeSingleMessage of the queue engine: parents first, then addMessage.
\* The engine runs one write at a time.
WriterIdle == \A w \in inflight : ~w.queued

Parents(m) == EnsureContact(EnsureConversation(db, m), m)

SavedParents(m) ==
    LET withConv == EnsureConversation(db, m)
    IN  SaveIfNew(SaveIfNew({disk}, db, withConv),
                  withConv, EnsureContact(withConv, m))

WriteQueued(m) ==
    /\ up /\ WriterIdle
    /\ db' = AddMessage(Parents(m), m)
    /\ disk' \in FlushFrom(SavedParents(m), db')
    /\ UNCHANGED <<up, staging, hydration, inflight, resync>>

WriteQueuedMedia(m) ==
    /\ up /\ WriterIdle
    /\ Cardinality(inflight) < MaxInflight
    /\ db' = Parents(m)
    /\ disk' \in SavedParents(m)
    /\ inflight' = inflight \cup {[msg |-> m, queued |-> TRUE]}
    /\ UNCHANGED <<up, staging, hydration, resync>>

\* The download has ended (or failed: the proxy url is used instead).
MediaArrived(w) ==
    /\ up
    /\ inflight' = inflight \ {w}
    /\ db' = AddMessage(db, w.msg)
    /\ disk' \in FlushToDisk(disk, db')
    /\ UNCHANGED <<up, staging, hydration, resync>>

\* upsertConversation / saveConversations.
UpsertConversation(c) ==
    /\ up
    /\ db' = [db EXCEPT !.conversations = @ \cup {c}]
    /\ disk' \in FlushToDisk(disk, db')
    /\ UNCHANGED <<up, staging, hydration, inflight, resync>>

\* upsertContact / saveContacts with data of the network client.
UpsertContact(s) ==
    /\ up
    /\ db' = [db EXCEPT !.contacts[s] = "real"]
    /\ disk' \in FlushToDisk(disk, db')
    /\ UNCHANGED <<up, staging, hydration, inflight, resync>>

\* executeFullMasterResync up to its first await.
StartResync(r) ==
    /\ up
    /\ resync[r] = "idle"
    /\ resync' = [resync EXCEPT ![r] = "idb"]
    /\ staging' = EmptyStaging
    /\ hydration' = "STAGING_INGESTION"
    /\ UNCHANGED <<up, db, inflight, disk>>

\* A bug: the swap is not saved.
CommitUnsaved(st) ==
    /\ staging' = [st EXCEPT !.contacts = SynthesizeMissingContacts(st)]
    /\ db' = Swapped(st, db.hwm)
    /\ disk' = disk
    /\ hydration' = "HYDRATED"

\* commitStagingSwap runs without an await from the sweep to the release.
CommitStagingSwap(st) ==
    /\ staging' = [st EXCEPT !.contacts = SynthesizeMissingContacts(st)]
    /\ db' = Swapped(st, db.hwm)
    /\ disk' \in FlushToDisk(disk, db')
    /\ hydration' = "HYDRATED"

\* The extraction returned conversations: stage the dump and swap.
IdbExtracted(r, d) ==
    /\ up
    /\ resync[r] = "idb"
    /\ d.convs # {}
    /\ CommitStagingSwap(
         [messages      |-> staging.messages \o d.msgs,
          conversations |-> staging.conversations \cup d.convs,
          contacts      |-> [s \in Senders |->
                               IF s \in d.contacts THEN "real"
                               ELSE staging.contacts[s]]])
    /\ resync' = [resync EXCEPT ![r] = "idle"]
    /\ UNCHANGED <<up, inflight>>

\* A bug: an empty extraction ends the resync.
IdbEmptyReturns(r) ==
    /\ up
    /\ resync[r] = "idb"
    /\ resync' = [resync EXCEPT ![r] = "idle"]
    /\ UNCHANGED <<up, db, staging, hydration, inflight, disk>>

\* It returned nothing: fall back to the sidebar, a second await.
IdbEmpty(r) ==
    /\ up
    /\ resync[r] = "idb"
    /\ resync' = [resync EXCEPT ![r] = "sidebar"]
    /\ UNCHANGED <<up, db, staging, hydration, inflight, disk>>

SidebarExtracted(r, cs) ==
    /\ up
    /\ resync[r] = "sidebar"
    /\ CommitStagingSwap([staging EXCEPT !.conversations = @ \cup cs])
    /\ resync' = [resync EXCEPT ![r] = "idle"]
    /\ UNCHANGED <<up, inflight>>

Crash ==
    /\ up
    /\ up' = FALSE
    /\ db' = EmptyTables
    /\ staging' = EmptyStaging
    /\ hydration' = "COLD_START"
    /\ inflight' = {}
    /\ resync' = [r \in Resyncs |-> "idle"]
    /\ UNCHANGED disk

Restart ==
    /\ ~up
    /\ up' = TRUE
    /\ db' = LoadFromDisk(disk)
    /\ hydration' = IF db'.conversations # {} \/ db'.messages # {}
                    THEN "HYDRATED" ELSE "COLD_START"
    /\ UNCHANGED <<staging, inflight, resync, disk>>

Extraction(r) ==
    \/ \E d \in Dumps : IdbExtracted(r, d)
    \/ IdbEmpty(r)
    \/ \E cs \in SUBSET Convs : SidebarExtracted(r, cs)

Next ==
    \/ \E m \in Inputs : \/ AddDirect(m) \/ AddDirectMedia(m)
                         \/ WriteQueued(m) \/ WriteQueuedMedia(m)
    \/ \E w \in inflight : MediaArrived(w)
    \/ \E c \in Convs : UpsertConversation(c)
    \/ \E s \in Senders : UpsertContact(s)
    \/ \E r \in Resyncs : StartResync(r) \/ Extraction(r)
    \/ Crash
    \/ Restart

Spec == Init /\ [][Next]_vars

\* An extraction always ends: its CDP request has a timeout and every
\* exception is turned into an empty result.
FairSpec == Spec /\ \A r \in Resyncs : WF_vars(Extraction(r))

-----------------------------------------------------------------------------
(***************************************************************************)
(* Properties.                                                             *)
(***************************************************************************)
Tables == [messages : SUBSET Message, conversations : SUBSET Convs,
           contacts : [Senders -> Level], hwm : [Convs -> 0..MaxTs]]
Files  == [messages : SUBSET Message, conversations : SUBSET Convs,
           contacts : [Senders -> Level],
           hwm : [Convs -> 0..MaxTs] \cup {Torn}]
Staged == [messages : Seq(Message), conversations : SUBSET Convs,
           contacts : [Senders -> Level]]
Write  == [msg : Message, queued : BOOLEAN]

\* Every variable keeps its shape.
TypeOK ==
    /\ up \in BOOLEAN
    /\ db \in Tables
    /\ staging \in Staged
    /\ hydration \in {"COLD_START", "STAGING_INGESTION", "HYDRATED"}
    /\ inflight \subseteq Write
    /\ resync \in [Resyncs -> {"idle", "idb", "sidebar"}]
    /\ disk \in Files

UniqueIds(msgs) == \A m, n \in msgs : m.id = n.id => m = n

\* No message id is stored twice, in memory or in messages.json, whatever
\* overlaps: two writes of one id that both awaited a download, a swap in
\* between, a dump that lists an id twice, a crash and a reload.
UniqueMsgIds == UniqueIds(db.messages) /\ UniqueIds(disk.messages)

\* The sender of every stored message has a row in the contacts table
\* ("3NF"): addMessage looks again after its download, and the stub sweep
\* covers every staged message before the swap.
SendersKnown == up => \A m \in db.messages : db.contacts[m.sender] # "none"

\* No stored message is newer than its conversation's high-water mark.
MarksCover == up => \A m \in db.messages : m.ts <= db.hwm[m.conv]

\* Between two handlers the files hold exactly what the tables hold: no
\* operation that changes a table ends without its flush.
DiskMirrorsTables == up => disk = db

SwapStep == \E r \in Resyncs : resync[r] # "idle" /\ resync'[r] = "idle"

KeepsMessages ==
    up /\ up' /\ ~SwapStep =>
        \A m \in db.messages : \E n \in db'.messages :
            n.id = m.id /\ n.ts >= m.ts

\* Only the swap (or a restart) may drop a stored message or take it back to
\* an older timestamp: the monotonic check of addMessage is made against
\* the tables as they are after the download, not before it.
OnlySwapRegresses == [][KeepsMessages]_vars

\* The API is closed only while a resync runs that will open it: also when two
\* resyncs overlap, when an extraction is empty, and after a restart.
GateHeld ==
    hydration = "STAGING_INGESTION" => \E r \in Resyncs : resync[r] # "idle"

\* A resync never leaves the gatekeeper in staging: whatever the extraction
\* returns, the swap is made and the API is released.
StagingEnds == [](hydration = "STAGING_INGESTION" => <>(hydration # "STAGING_INGESTION"))

\* The rows a reader can count on: the tables, or what a restart would load.
Rows ==
    LET t == IF up THEN db ELSE LoadFromDisk(disk)
    IN  [messages      |-> t.messages,
         conversations |-> t.conversations,
         known         |-> {s \in Senders : t.contacts[s] # "none"},
         hwm           |-> t.hwm]

Store == INSTANCE DurableStore WITH
            rows <- Rows,
            running <- {r \in Resyncs : resync[r] # "idle"}

\* The engine implements the store of DurableStore: seen from outside, a
\* write that awaited a download, a swap of staged rows over whatever was
\* written meanwhile, a crash and a restart are each one step of it or none.
ImplementsStore == Store!Spec

\* What the first step of the writer announces: the parent conversation of a
\* message exists when the queue engine has stored the message.
ParentExists ==
    [][\A w \in inflight \ inflight' : up' /\ w.queued =>
          w.msg.conv \in db'.conversations]_vars
=============================================================================
