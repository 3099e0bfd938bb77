-------------------------- MODULE HubStorageProofs --------------------------
(***************************************************************************)
(* Theorems about HubStorage for every set of ids, every input, every dump *)
(* and every number of overlapping resyncs.                                *)
(***************************************************************************)
EXTENDS HubStorage, WellFoundedInduction, TLAPS

\* A nonempty set of bounded naturals has the maximum that Max chooses.
LEMMA MaxOfBounded ==
    ASSUME NEW N \in Nat, NEW S \in SUBSET (0..N), S # {}
    PROVE  Max(S) \in S /\ \A y \in S : Max(S) >= y
<1> DEFINE T == {N - x : x \in S}
<1>1. T \subseteq Nat /\ T # {}
  <2>1. \A x \in S : N - x \in Nat
    OBVIOUS
  <2> QED  BY <2>1
<1>2. PICK t \in T : \A u \in T : ~(<<u, t>> \in OpToRel(<, Nat))
  <2> HIDE DEF T
  <2> QED  BY <1>1, NatLessThanWellFounded, WFMin, Zenon
<1>3. \A u \in T : t <= u
  <2> TAKE u \in T
  <2>1. u \in Nat /\ t \in Nat
    BY <1>1
  <2>2. u < t => <<u, t>> \in OpToRel(<, Nat)
    BY <2>1, SMT DEF OpToRel
  <2>3. ~(u < t)
    <3> HIDE DEF T
    <3> QED  BY <1>2, <2>2, Zenon
  <2> QED  BY <2>1, <2>3
<1>4. PICK x \in S : t = N - x
  OBVIOUS
<1>5. \A y \in S : x >= y
  <2> TAKE y \in S
  <2>1. N - y \in T
    OBVIOUS
  <2>2. t <= N - y
    BY <1>3, <2>1
  <2> QED  BY <1>4, <2>2
<1> QED  BY <1>5 DEF Max

\* RaiseHwm keeps the shape of the marks, never lowers one and covers every
\* message it is given.
LEMMA RaiseHwmFacts ==
    ASSUME NEW hwm \in [Convs -> 0..MaxTs], NEW msgs \in SUBSET Message
    PROVE  /\ RaiseHwm(hwm, msgs) \in [Convs -> 0..MaxTs]
           /\ \A c \in Convs : hwm[c] <= RaiseHwm(hwm, msgs)[c]
           /\ \A m \in msgs : m.ts <= RaiseHwm(hwm, msgs)[m.conv]
<1>1. ASSUME NEW c \in Convs
      PROVE  /\ RaiseHwm(hwm, msgs)[c] \in 0..MaxTs
             /\ hwm[c] <= RaiseHwm(hwm, msgs)[c]
             /\ \A m \in msgs : m.conv = c => m.ts <= RaiseHwm(hwm, msgs)[c]
  <2> DEFINE S == {hwm[c]} \cup Stamps(msgs, c)
  <2>1. S \in SUBSET (0..MaxTs) /\ S # {}
    BY StorageAssumption DEF Stamps, Message
  <2>2. Max(S) \in S /\ \A y \in S : Max(S) >= y
    <3> HIDE DEF S
    <3> QED  BY <2>1, MaxOfBounded, StorageAssumption
  <2>3. RaiseHwm(hwm, msgs)[c] = Max(S)
    BY DEF RaiseHwm
  <2>4. \A m \in msgs : m.conv = c => m.ts \in S
    BY DEF Stamps
  <2> HIDE DEF S
  <2>5. hwm[c] \in S
    BY DEF S
  <2>6. Max(S) \in 0..MaxTs
    BY <2>1, <2>2
  <2>7. hwm[c] <= Max(S)
    BY <2>1, <2>2, <2>5, <2>6, StorageAssumption
  <2>8. ASSUME NEW m \in msgs, m.conv = c
        PROVE  m.ts <= Max(S)
    BY <2>1, <2>2, <2>4, <2>6, <2>8, StorageAssumption
  <2> QED  BY <2>3, <2>6, <2>7, <2>8
<1>2. RaiseHwm(hwm, msgs) = [c \in Convs |-> RaiseHwm(hwm, msgs)[c]]
  BY DEF RaiseHwm
<1>3. \A m \in msgs : m.conv \in Convs
  BY DEF Message
<1> QED  BY <1>1, <1>2, <1>3, Zenon

-----------------------------------------------------------------------------
(***************************************************************************)
(* What is asked of one set of tables.                                     *)
(***************************************************************************)
Related(t) == \A m \in t.messages : t.contacts[m.sender] # "none"
Marked(t)  == \A m \in t.messages : m.ts <= t.hwm[m.conv]
Sound(t)   == Related(t) /\ Marked(t)

\* addMessage keeps tables well-formed, ids unique, senders known and marks
\* ahead of the messages.
LEMMA AddMessageFacts ==
    ASSUME NEW t \in Tables, NEW m \in Message
    PROVE  /\ AddMessage(t, m) \in Tables
           /\ UniqueIds(t.messages) => UniqueIds(AddMessage(t, m).messages)
           /\ Sound(t) => Sound(AddMessage(t, m))
<1> DEFINE u == AddMessage(t, m)
<1>1. /\ {m} \in SUBSET Message
      /\ t.hwm \in [Convs -> 0..MaxTs]
      /\ t.messages \in SUBSET Message
      /\ t.contacts \in [Senders -> Level]
      /\ t.conversations \in SUBSET Convs
  BY DEF Tables
<1>2. /\ RaiseHwm(t.hwm, {m}) \in [Convs -> 0..MaxTs]
      /\ \A c \in Convs : t.hwm[c] <= RaiseHwm(t.hwm, {m})[c]
      /\ m.ts <= RaiseHwm(t.hwm, {m})[m.conv]
  BY <1>1, RaiseHwmFacts
<1>3. StubContact(t.contacts, m.sender) \in [Senders -> Level]
  BY <1>1 DEF StubContact, Level, Message
<1>4. StoreMessage(t.messages, m) \in SUBSET Message
  BY <1>1 DEF StoreMessage
<1>5. u \in Tables
  BY <1>1, <1>2, <1>3, <1>4 DEF AddMessage, Tables
<1>6. UniqueIds(t.messages) => UniqueIds(u.messages)
  BY <1>1 DEF AddMessage, StoreMessage, UniqueIds
<1>7. ASSUME Sound(t) PROVE Related(u)
  BY <1>1, <1>7 DEF AddMessage, StoreMessage, StubContact, Sound, Related,
                    Message, Level
<1>8. ASSUME Sound(t) PROVE Marked(u)
  <2> SUFFICES ASSUME NEW n \in StoreMessage(t.messages, m)
               PROVE  n.ts <= RaiseHwm(t.hwm, {m})[n.conv]
    BY DEF Marked, AddMessage
  <2>1. n = m \/ n \in t.messages
    BY DEF StoreMessage
  <2>2. CASE n = m
    BY <1>2, <2>2
  <2>3. CASE n \in t.messages
    <3>1. n.ts \in Int /\ n.conv \in Convs
      BY <1>1, <2>3 DEF Message
    <3>2. n.ts <= t.hwm[n.conv]
      BY <1>8, <2>3 DEF Sound, Marked
    <3>3. /\ t.hwm[n.conv] \in Int
          /\ RaiseHwm(t.hwm, {m})[n.conv] \in Int
          /\ t.hwm[n.conv] <= RaiseHwm(t.hwm, {m})[n.conv]
      BY <1>1, <1>2, <3>1, StorageAssumption
    <3> QED  BY <3>1, <3>2, <3>3
  <2> QED  BY <2>1, <2>2, <2>3
<1> QED  BY <1>5, <1>6, <1>7, <1>8 DEF Sound

\* The writer's stubs leave the messages and the marks alone and know no
\* fewer senders.
LEMMA ParentsFacts ==
    ASSUME NEW t \in Tables, NEW m \in Message
    PROVE  LET c == EnsureConversation(t, m)
               p == EnsureContact(c, m)
           IN  /\ c \in Tables /\ c.messages = t.messages
               /\ p \in Tables /\ p.messages = t.messages
               /\ Sound(t) => Sound(c) /\ Sound(p)
BY DEF EnsureConversation, EnsureContact, StubContact, Tables, Message, Level,
       Sound, Related, Marked

\* The swap builds well-formed tables with unique ids, known senders and
\* covering marks out of any staging area, and raises every mark.
LEMMA SwappedFacts ==
    ASSUME NEW st \in Staged, NEW hwm \in [Convs -> 0..MaxTs]
    PROVE  /\ Swapped(st, hwm) \in Tables
           /\ UniqueIds(Swapped(st, hwm).messages)
           /\ Sound(Swapped(st, hwm))
           /\ SynthesizeMissingContacts(st) \in [Senders -> Level]
<1> DEFINE msgs == DeduplicateMessagesById(st.messages)
           u    == Swapped(st, hwm)
<1>1. /\ st.messages \in Seq(Message)
      /\ st.conversations \in SUBSET Convs
      /\ st.contacts \in [Senders -> Level]
  BY DEF Staged
<1>2. \A i \in DOMAIN st.messages : st.messages[i] \in Message /\ i \in Nat
  BY <1>1
<1>3. msgs \in SUBSET Message
  BY <1>2 DEF DeduplicateMessagesById
<1>4. UniqueIds(msgs)
  BY <1>2 DEF DeduplicateMessagesById, UniqueIds
<1>5. SynthesizeMissingContacts(st) \in [Senders -> Level]
  BY <1>1 DEF SynthesizeMissingContacts, Level
<1>6. \A m \in msgs : SynthesizeMissingContacts(st)[m.sender] # "none"
  <2> SUFFICES ASSUME NEW m \in msgs
               PROVE  SynthesizeMissingContacts(st)[m.sender] # "none"
    OBVIOUS
  <2>1. PICK i \in DOMAIN st.messages : m = st.messages[i]
    BY DEF DeduplicateMessagesById
  <2>2. m.sender \in Senders
    BY <1>2, <2>1 DEF Message
  <2> QED  BY <2>1, <2>2 DEF SynthesizeMissingContacts
<1>7. /\ RaiseHwm(hwm, msgs) \in [Convs -> 0..MaxTs]
      /\ \A m \in msgs : m.ts <= RaiseHwm(hwm, msgs)[m.conv]
  BY <1>3, RaiseHwmFacts
<1> HIDE DEF msgs
<1>8. u = [messages |-> msgs, conversations |-> st.conversations,
           contacts |-> SynthesizeMissingContacts(st),
           hwm |-> RaiseHwm(hwm, msgs)]
  BY DEF Swapped, msgs
<1> HIDE DEF u
<1>9. u \in Tables
  BY <1>1, <1>3, <1>5, <1>7, <1>8 DEF Tables
<1>10. Sound(u)
  BY <1>6, <1>7, <1>8 DEF Sound, Related, Marked
<1> QED  BY <1>4, <1>5, <1>8, <1>9, <1>10 DEF u
-----------------------------------------------------------------------------
(***************************************************************************)
(* Flushing and loading.                                                   *)
(***************************************************************************)

\* Whatever prefix of the files a flush replaces, messages.json is a table
\* that was in memory once; a flush that cannot fail copies the tables.
LEMMA FlushFacts ==
    ASSUME NEW d \in Files, NEW t \in Tables, NEW e \in FlushToDisk(d, t)
    PROVE  /\ e \in Files
           /\ e.messages = d.messages \/ e.messages = t.messages
           /\ FlushFaults = {} => e = t
<1>1. ASSUME NEW n \in 0..4
      PROVE  /\ Written(d, t, n) \in Files
             /\ Written(d, t, n).messages \in {d.messages, t.messages}
  BY DEF Written, Files, Tables
<1>2. Written(d, t, 4) = t
  BY DEF Written, Tables
<1>3. [Written(d, t, 3) EXCEPT !.hwm = Torn] \in Files
  BY <1>1 DEF Files
<1>4. [Written(d, t, 3) EXCEPT !.hwm = Torn].messages = t.messages
  BY DEF Written
<1>5. FlushFaults \cup {4} \subseteq 0..4
  BY StorageAssumption
<1>6. \/ \E n \in FlushFaults \cup {4} : e = Written(d, t, n)
      \/ 3 \in FlushFaults /\ e = [Written(d, t, 3) EXCEPT !.hwm = Torn]
  BY DEF FlushToDisk
<1>7. e \in Files /\ (e.messages = d.messages \/ e.messages = t.messages)
  BY <1>1, <1>3, <1>4, <1>5, <1>6
<1>8. FlushFaults = {} => e = t
  BY <1>2, <1>6
<1> QED  BY <1>7, <1>8

\* The same for a flush that follows others.
LEMMA FlushFromFacts ==
    ASSUME NEW ds \in SUBSET Files, NEW t \in Tables,
           NEW e \in FlushFrom(ds, t)
    PROVE  /\ e \in Files
           /\ e.messages = t.messages \/ \E d \in ds : e.messages = d.messages
           /\ FlushFaults = {} => e = t
<1>1. PICK d \in ds : e \in FlushToDisk(d, t)
  BY DEF FlushFrom
<1> QED  BY <1>1, FlushFacts

\* What the writer leaves on disk after it has stubbed the parents.
LEMMA SavedParentsFacts ==
    ASSUME TypeOK, NEW m \in Message, NEW e \in SavedParents(m)
    PROVE  /\ e \in Files
           /\ e.messages = disk.messages \/ e.messages = db.messages
           /\ FlushFaults = {} => e = disk \/ e = Parents(m)
           /\ FlushFaults = {} /\ disk = db => e = Parents(m)
<1> DEFINE c  == EnsureConversation(db, m)
           p  == EnsureContact(c, m)
           ds == SaveIfNew({disk}, db, c)
<1>1. db \in Tables /\ disk \in Files
  BY DEF TypeOK
<1>2. /\ c \in Tables /\ c.messages = db.messages
      /\ p \in Tables /\ p.messages = db.messages
  BY <1>1, ParentsFacts, Zenon
<1> HIDE DEF c, p
<1>3. ASSUME NEW d \in ds
      PROVE  /\ d \in Files
             /\ d.messages = disk.messages \/ d.messages = db.messages
             /\ FlushFaults = {} => (d = disk /\ c = db) \/ d = c
  BY <1>1, <1>2, FlushFromFacts DEF SaveIfNew
<1> HIDE DEF ds
<1>4. SavedParents(m) = SaveIfNew(ds, c, p)
  BY DEF SavedParents, c, p, ds
<1>5. Parents(m) = p
  BY DEF Parents, c, p
<1>6. CASE c = p
  BY <1>3, <1>4, <1>5, <1>6 DEF SaveIfNew
<1>7. CASE c # p
  <2>1. e \in FlushFrom(ds, p)
    BY <1>4, <1>7 DEF SaveIfNew
  <2>2. ds \in SUBSET Files
    BY <1>3
  <2> QED  BY <1>2, <1>3, <1>5, <2>1, <2>2, FlushFromFacts
<1> QED  BY <1>6, <1>7

\* Loading gives well-formed tables, and the tables themselves when the
\* files hold tables.
LEMMA LoadFacts ==
    ASSUME NEW d \in Files
    PROVE  /\ LoadFromDisk(d) \in Tables
           /\ LoadFromDisk(d).messages = d.messages
           /\ d \in Tables => LoadFromDisk(d) = d
<1>1. NoMarks \in [Convs -> 0..MaxTs]
  BY StorageAssumption DEF NoMarks
<1>2. LoadFromDisk(d) \in Tables /\ LoadFromDisk(d).messages = d.messages
  BY <1>1 DEF LoadFromDisk, Files, Tables
<1>3. ASSUME d \in Tables PROVE LoadFromDisk(d) = d
  <2>1. CASE d.hwm # Torn
    BY <1>3, <2>1 DEF LoadFromDisk, Tables
  <2>2. CASE d.hwm = Torn
    <3>1. d.hwm \in [Convs -> 0..MaxTs]
      BY <1>3 DEF Tables
    <3>2. DOMAIN d.hwm = Convs /\ DOMAIN d.hwm = {}
      BY <2>2, <3>1 DEF Torn
    <3>3. NoMarks = d.hwm
      BY <3>1, <3>2 DEF NoMarks
    <3> QED  BY <1>3, <3>3 DEF LoadFromDisk, Tables
  <2> QED  BY <2>1, <2>2
<1> QED  BY <1>2, <1>3

-----------------------------------------------------------------------------
(***************************************************************************)
(* The inductive invariants.                                               *)
(***************************************************************************)

\* Fault-free part: the files are the tables, and the tables are sound; while
\* the process is down the files carry what memory has lost.
Faithful ==
    /\ disk \in Tables
    /\ Sound(disk)
    /\ up => disk = db

IInv == TypeOK /\ UniqueMsgIds

\* A hub with empty tables and files satisfies both invariants.
LEMMA InitFacts == Init => IInv /\ Faithful
<1> SUFFICES ASSUME Init PROVE IInv /\ Faithful
  OBVIOUS
<1>1. EmptyTables \in Tables /\ EmptyTables \in Files
  BY StorageAssumption DEF EmptyTables, Tables, Files, NoContacts, NoMarks, Level
<1>2. EmptyStaging \in Staged
  BY DEF EmptyStaging, Staged, NoContacts, Level
<1>3. Sound(EmptyTables) /\ UniqueIds(EmptyTables.messages)
  BY DEF Sound, Related, Marked, UniqueIds, EmptyTables
<1> QED  BY <1>1, <1>2, <1>3
         DEF Init, IInv, TypeOK, UniqueMsgIds, Faithful

\* A step that replaces db by tables built from db and then flushes them
\* preserves what the two invariants say of db and disk.
LEMMA SaveStep ==
    ASSUME IInv, up, up', db' \in Tables, UniqueIds(db'.messages),
           NEW ds \in SUBSET Files, disk' \in FlushFrom(ds, db'),
           \A d \in ds : d.messages = disk.messages \/ d.messages = db.messages
    PROVE  /\ disk' \in Files /\ UniqueMsgIds'
           /\ FlushFaults = {} /\ Sound(db') => Faithful'
<1>1. /\ disk' \in Files
      /\ disk'.messages = db'.messages \/ \E d \in ds : disk'.messages = d.messages
      /\ FlushFaults = {} => disk' = db'
  BY FlushFromFacts
<1>2. UniqueMsgIds'
  BY <1>1 DEF IInv, UniqueMsgIds
<1>3. FlushFaults = {} /\ Sound(db') => Faithful'
  BY <1>1 DEF Faithful, Sound, Related, Marked
<1> QED  BY <1>1, <1>2, <1>3

\* One flush after a change of the tables keeps the files well-formed and, when
\* no flush fails, equal to the tables.
LEMMA SaveOnce ==
    ASSUME IInv, up, up', db' \in Tables, UniqueIds(db'.messages),
           disk' \in FlushToDisk(disk, db')
    PROVE  /\ disk' \in Files /\ UniqueMsgIds'
           /\ FlushFaults = {} /\ Sound(db') => Faithful'
<1>1. {disk} \in SUBSET Files
  BY DEF IInv, TypeOK
<1>2. disk' \in FlushFrom({disk}, db')
  BY DEF FlushFrom
<1> QED  BY <1>1, <1>2, SaveStep

\* The swap, from any well-formed staging area.
LEMMA CommitFacts ==
    ASSUME IInv, up, up', NEW st \in Staged, CommitStagingSwap(st)
    PROVE  /\ db' \in Tables /\ staging' \in Staged /\ disk' \in Files
           /\ UniqueMsgIds' /\ (FlushFaults = {} => Faithful')
           /\ hydration' = "HYDRATED"
<1>1. db.hwm \in [Convs -> 0..MaxTs]
  BY DEF IInv, TypeOK, Tables
<1>2. db' = Swapped(st, db.hwm) /\ disk' \in FlushToDisk(disk, db')
  BY DEF CommitStagingSwap
<1>3. db' \in Tables /\ UniqueIds(db'.messages) /\ Sound(db')
  BY <1>1, <1>2, SwappedFacts
<1>4. staging' \in Staged
  BY <1>1, SwappedFacts DEF CommitStagingSwap, Staged
<1> QED  BY <1>2, <1>3, <1>4, SaveOnce DEF CommitStagingSwap

\* While the hub runs, faithful files are a sound copy of the tables.
LEMMA SoundDb ==
    ASSUME Faithful, up PROVE Sound(db) /\ disk = db
BY DEF Faithful

\* One step, action by action.
LEMMA StepFacts ==
    IInv /\ [Next]_vars => IInv' /\ (FlushFaults = {} /\ Faithful => Faithful')
<1> SUFFICES ASSUME IInv, [Next]_vars
             PROVE  IInv' /\ (FlushFaults = {} /\ Faithful => Faithful')
  OBVIOUS
<1> DEFINE Goal == IInv' /\ (FlushFaults = {} /\ Faithful => Faithful')
<1>0. TypeOK /\ db \in Tables /\ disk \in Files /\ UniqueIds(db.messages)
  BY DEF IInv, TypeOK, UniqueMsgIds
<1>1. ASSUME NEW m \in Inputs, AddDirect(m) PROVE Goal
  <2>1. m \in Message
    BY StorageAssumption
  <2>2. /\ db' \in Tables /\ UniqueIds(db'.messages)
        /\ Sound(db) => Sound(db')
    BY <1>0, <1>1, <2>1, AddMessageFacts DEF AddDirect
  <2>3. /\ disk' \in Files /\ UniqueMsgIds'
        /\ FlushFaults = {} /\ Sound(db') => Faithful'
    BY <1>1, <2>2, SaveOnce DEF AddDirect
  <2> QED  BY <1>0, <1>1, <2>2, <2>3, SoundDb DEF AddDirect, IInv, TypeOK
<1>2. ASSUME NEW m \in Inputs, AddDirectMedia(m) PROVE Goal
  <2>1. [msg |-> m, queued |-> FALSE] \in Write
    BY StorageAssumption DEF Write
  <2> QED  BY <1>0, <1>2, <2>1
           DEF AddDirectMedia, IInv, TypeOK, UniqueMsgIds, Faithful
<1>3. ASSUME NEW m \in Inputs, WriteQueued(m) PROVE Goal
  <2>1. m \in Message
    BY StorageAssumption
  <2>2. /\ Parents(m) \in Tables /\ Parents(m).messages = db.messages
        /\ Sound(db) => Sound(Parents(m))
    BY <1>0, <2>1, ParentsFacts DEF Parents
  <2>3. /\ db' \in Tables /\ UniqueIds(db'.messages)
        /\ Sound(db) => Sound(db')
    BY <1>0, <1>3, <2>1, <2>2, AddMessageFacts DEF WriteQueued
  <2>4. /\ SavedParents(m) \in SUBSET Files
        /\ \A d \in SavedParents(m) : \/ d.messages = disk.messages
                                       \/ d.messages = db.messages
    BY <1>0, <2>1, SavedParentsFacts
  <2>5. /\ disk' \in Files /\ UniqueMsgIds'
        /\ FlushFaults = {} /\ Sound(db') => Faithful'
    BY <1>3, <2>3, <2>4, SaveStep DEF WriteQueued
  <2> QED  BY <1>0, <1>3, <2>3, <2>5, SoundDb DEF WriteQueued, IInv, TypeOK
<1>4. ASSUME NEW m \in Inputs, WriteQueuedMedia(m) PROVE Goal
  <2>1. m \in Message /\ [msg |-> m, queued |-> TRUE] \in Write
    BY StorageAssumption DEF Write
  <2>2. /\ db' \in Tables /\ db'.messages = db.messages
        /\ Sound(db) => Sound(db')
    BY <1>0, <1>4, <2>1, ParentsFacts DEF Parents, WriteQueuedMedia
  <2>3. /\ disk' \in Files
        /\ disk'.messages = disk.messages \/ disk'.messages = db.messages
        /\ FlushFaults = {} /\ disk = db => disk' = db'
    BY <1>0, <1>4, <2>1, SavedParentsFacts DEF WriteQueuedMedia
  <2>4. UniqueMsgIds'
    BY <2>2, <2>3 DEF IInv, UniqueMsgIds
  <2>5. FlushFaults = {} /\ Faithful => Faithful'
    <3> SUFFICES ASSUME FlushFaults = {}, Faithful PROVE Faithful'
      OBVIOUS
    <3>1. disk' = db' /\ Sound(db')
      BY <1>4, <2>2, <2>3, SoundDb DEF WriteQueuedMedia
    <3> QED  BY <2>2, <3>1 DEF Faithful
  <2> QED  BY <1>0, <1>4, <2>1, <2>2, <2>3, <2>4, <2>5
           DEF WriteQueuedMedia, IInv, TypeOK
<1>5. ASSUME NEW w \in inflight, MediaArrived(w) PROVE Goal
  <2>1. w.msg \in Message
    BY <1>0 DEF TypeOK, Write
  <2>2. /\ db' \in Tables /\ UniqueIds(db'.messages)
        /\ Sound(db) => Sound(db')
    BY <1>0, <1>5, <2>1, AddMessageFacts DEF MediaArrived
  <2>3. /\ disk' \in Files /\ UniqueMsgIds'
        /\ FlushFaults = {} /\ Sound(db') => Faithful'
    BY <1>5, <2>2, SaveOnce DEF MediaArrived
  <2> QED  BY <1>0, <1>5, <2>2, <2>3, SoundDb DEF MediaArrived, IInv, TypeOK
<1>6. ASSUME NEW c \in Convs, UpsertConversation(c) PROVE Goal
  <2>1. /\ db' \in Tables /\ db'.messages = db.messages
        /\ Sound(db) => Sound(db')
    BY <1>0, <1>6 DEF UpsertConversation, Tables, Sound, Related, Marked
  <2>2. /\ disk' \in Files /\ UniqueMsgIds'
        /\ FlushFaults = {} /\ Sound(db') => Faithful'
    BY <1>0, <1>6, <2>1, SaveOnce DEF UpsertConversation
  <2> QED  BY <1>0, <1>6, <2>1, <2>2, SoundDb DEF UpsertConversation, IInv, TypeOK
<1>7. ASSUME NEW s \in Senders, UpsertContact(s) PROVE Goal
  <2>1. /\ db' \in Tables /\ db'.messages = db.messages
        /\ Sound(db) => Sound(db')
    BY <1>0, <1>7 DEF UpsertContact, Tables, Sound, Related, Marked, Level, Message
  <2>2. /\ disk' \in Files /\ UniqueMsgIds'
        /\ FlushFaults = {} /\ Sound(db') => Faithful'
    BY <1>0, <1>7, <2>1, SaveOnce DEF UpsertContact
  <2> QED  BY <1>0, <1>7, <2>1, <2>2, SoundDb DEF UpsertContact, IInv, TypeOK
<1>8. ASSUME NEW r \in Resyncs, StartResync(r) PROVE Goal
  <2>1. EmptyStaging \in Staged
    BY DEF EmptyStaging, Staged, NoContacts, Level
  <2> QED  BY <1>0, <1>8, <2>1
           DEF StartResync, IInv, TypeOK, UniqueMsgIds, Faithful
<1>9. ASSUME NEW r \in Resyncs, NEW d \in Dumps, IdbExtracted(r, d) PROVE Goal
  <2> DEFINE st == [messages      |-> staging.messages \o d.msgs,
                    conversations |-> staging.conversations \cup d.convs,
                    contacts      |-> [s \in Senders |->
                                         IF s \in d.contacts THEN "real"
                                         ELSE staging.contacts[s]]]
  <2>1. d \in Dump /\ staging \in Staged
    BY StorageAssumption, <1>0 DEF TypeOK
  <2>2. st \in Staged
    BY <2>1 DEF Dump, Staged, Level
  <2>3. CommitStagingSwap(st) /\ up /\ up' = up /\ inflight' = inflight
    BY <1>9 DEF IdbExtracted
  <2> HIDE DEF st
  <2>4. /\ db' \in Tables /\ staging' \in Staged /\ disk' \in Files
        /\ UniqueMsgIds' /\ (FlushFaults = {} => Faithful')
        /\ hydration' = "HYDRATED"
    BY <2>2, <2>3, CommitFacts
  <2> QED  BY <1>0, <1>9, <2>3, <2>4 DEF IdbExtracted, IInv, TypeOK
<1>10. ASSUME NEW r \in Resyncs, IdbEmpty(r) PROVE Goal
  BY <1>0, <1>10 DEF IdbEmpty, IInv, TypeOK, UniqueMsgIds, Faithful
<1>11. ASSUME NEW r \in Resyncs, NEW cs \in SUBSET Convs, SidebarExtracted(r, cs)
       PROVE  Goal
  <2> DEFINE st == [staging EXCEPT !.conversations = @ \cup cs]
  <2>1. st \in Staged
    BY <1>0 DEF TypeOK, Staged
  <2>2. CommitStagingSwap(st) /\ up /\ up' = up /\ inflight' = inflight
    BY <1>11 DEF SidebarExtracted
  <2> HIDE DEF st
  <2>3. /\ db' \in Tables /\ staging' \in Staged /\ disk' \in Files
        /\ UniqueMsgIds' /\ (FlushFaults = {} => Faithful')
        /\ hydration' = "HYDRATED"
    BY <2>1, <2>2, CommitFacts
  <2> QED  BY <1>0, <1>11, <2>2, <2>3 DEF SidebarExtracted, IInv, TypeOK
<1>12. ASSUME Crash PROVE Goal
  <2>1. EmptyTables \in Tables /\ UniqueIds(EmptyTables.messages)
    BY StorageAssumption
       DEF EmptyTables, Tables, NoContacts, NoMarks, Level, UniqueIds
  <2>2. EmptyStaging \in Staged
    BY DEF EmptyStaging, Staged, NoContacts, Level
  <2> QED  BY <1>0, <1>12, <2>1, <2>2
           DEF Crash, IInv, TypeOK, UniqueMsgIds, Faithful
<1>13. ASSUME Restart PROVE Goal
  <2>1. /\ db' \in Tables /\ db'.messages = disk.messages
        /\ disk \in Tables => db' = disk
    BY <1>0, <1>13, LoadFacts DEF Restart
  <2> QED  BY <1>0, <1>13, <2>1
           DEF Restart, IInv, TypeOK, UniqueMsgIds, Faithful
<1>14. ASSUME UNCHANGED vars PROVE Goal
  BY <1>0, <1>14 DEF vars, IInv, TypeOK, UniqueMsgIds, Faithful
<1> QED
  BY <1>1, <1>2, <1>3, <1>4, <1>5, <1>6, <1>7, <1>8, <1>9, <1>10, <1>11,
     <1>12, <1>13, <1>14 DEF Next, Extraction

-----------------------------------------------------------------------------
\* Every variable keeps its shape.
THEOREM TypeCorrect == Spec => []TypeOK
<1>1. Init => IInv
  BY InitFacts
<1>2. IInv /\ [Next]_vars => IInv'
  BY StepFacts
<1>3. IInv => TypeOK
  BY DEF IInv
<1> QED  BY <1>1, <1>2, <1>3, PTL DEF Spec

\* No message id is ever stored twice, in memory or on disk, whatever the
\* flush failures, crashes and overlapping writes and resyncs.
THEOREM UniqueMsgIdsHolds == Spec => []UniqueMsgIds
<1>1. Init => IInv
  BY InitFacts
<1>2. IInv /\ [Next]_vars => IInv'
  BY StepFacts
<1>3. IInv => UniqueMsgIds
  BY DEF IInv
<1> QED  BY <1>1, <1>2, <1>3, PTL DEF Spec

\* When no flush fails, a crash between two handlers loses nothing: the files
\* are the tables, every sender is known and every mark covers its messages,
\* through swaps and restarts.
THEOREM FaultFreeIntegrity ==
    ASSUME FlushFaults = {}
    PROVE  Spec => [](SendersKnown /\ MarksCover /\ DiskMirrorsTables)
<1> DEFINE J == IInv /\ Faithful
<1>1. Init => J
  BY InitFacts
<1>2. J /\ [Next]_vars => J'
  BY StepFacts
<1>3. J => SendersKnown /\ MarksCover /\ DiskMirrorsTables
  BY DEF Faithful, Sound, Related, Marked, SendersKnown, MarksCover,
         DiskMirrorsTables
<1> HIDE DEF J
<1> QED  BY <1>1, <1>2, <1>3, PTL DEF Spec

\* The gate is closed only while a resync is at one of its awaits: a resync that
\* finds nothing goes on to the sidebar, and every way out of one opens the gate,
\* for any number of overlapping resyncs (executeFullMasterResync and
\* commitStagingSwap of crawler.ts).
THEOREM GateHeldHolds == Spec => []GateHeld
<1>1. Init => GateHeld
  BY DEF Init, GateHeld
<1>2. TypeOK /\ GateHeld /\ [Next]_vars => GateHeld'
  <2> SUFFICES ASSUME TypeOK, GateHeld, [Next]_vars PROVE GateHeld'
    OBVIOUS
  <2>1. resync \in [Resyncs -> {"idle", "idb", "sidebar"}]
    BY DEF TypeOK
  <2>2. ASSUME UNCHANGED <<hydration, resync>> PROVE GateHeld'
    BY <2>2 DEF GateHeld
  <2>3. ASSUME hydration' # "STAGING_INGESTION" PROVE GateHeld'
    BY <2>3 DEF GateHeld
  <2>4. ASSUME NEW r \in Resyncs, StartResync(r) PROVE GateHeld'
    <3>1. resync'[r] = "idb"
      BY <2>1, <2>4 DEF StartResync
    <3> QED  BY <3>1 DEF GateHeld
  <2>5. ASSUME NEW r \in Resyncs, IdbEmpty(r) PROVE GateHeld'
    <3>1. resync'[r] = "sidebar"
      BY <2>1, <2>5 DEF IdbEmpty
    <3> QED  BY <3>1 DEF GateHeld
  <2>6. ASSUME NEW r \in Resyncs, NEW d \in Dumps, IdbExtracted(r, d)
        PROVE  GateHeld'
    BY <2>3, <2>6 DEF IdbExtracted, CommitStagingSwap
  <2>7. ASSUME NEW r \in Resyncs, NEW cs \in SUBSET Convs, SidebarExtracted(r, cs)
        PROVE  GateHeld'
    BY <2>3, <2>7 DEF SidebarExtracted, CommitStagingSwap
  <2>8. CASE Crash
    BY <2>3, <2>8 DEF Crash
  <2>9. CASE Restart
    BY <2>3, <2>9 DEF Restart
  <2>10. ASSUME NEW m \in Inputs, \/ AddDirect(m) \/ AddDirectMedia(m)
                                  \/ WriteQueued(m) \/ WriteQueuedMedia(m)
         PROVE  GateHeld'
    BY <2>2, <2>10 DEF AddDirect, AddDirectMedia, WriteQueued, WriteQueuedMedia
  <2>11. ASSUME NEW w \in inflight, MediaArrived(w) PROVE GateHeld'
    BY <2>2, <2>11 DEF MediaArrived
  <2>12. ASSUME NEW c \in Convs, UpsertConversation(c) PROVE GateHeld'
    BY <2>2, <2>12 DEF UpsertConversation
  <2>13. ASSUME NEW s \in Senders, UpsertContact(s) PROVE GateHeld'
    BY <2>2, <2>13 DEF UpsertContact
  <2>14. CASE UNCHANGED vars
    BY <2>2, <2>14 DEF vars
  <2> QED
    BY <2>4, <2>5, <2>6, <2>7, <2>8, <2>9, <2>10, <2>11, <2>12, <2>13, <2>14
       DEF Next, Extraction
<1> QED  BY <1>1, <1>2, TypeCorrect, PTL DEF Spec

\* addMessage never drops a message nor takes one back in time.
LEMMA AddMessageKeeps ==
    ASSUME NEW t \in Tables, NEW m \in Message, NEW k \in t.messages
    PROVE  \E n \in AddMessage(t, m).messages : n.id = k.id /\ n.ts >= k.ts
<1>1. k \in Message /\ k.ts \in Int /\ m.ts \in Int
  BY DEF Tables, Message
<1>2. CASE k.id = m.id /\ ~ (k.ts > m.ts)
      /\ ~ \E n \in {x \in t.messages : x.id = m.id} : n.ts > m.ts
  <2>1. m \in AddMessage(t, m).messages
    BY <1>2 DEF AddMessage, StoreMessage
  <2> QED  BY <1>1, <1>2, <2>1
<1>3. CASE k.id # m.id \/ \E n \in {x \in t.messages : x.id = m.id} : n.ts > m.ts
  <2>1. k \in AddMessage(t, m).messages
    BY <1>3 DEF AddMessage, StoreMessage
  <2> QED  BY <1>1, <2>1
<1> QED  BY <1>1, <1>2, <1>3

\* Only a swap or a restart drops a stored message or takes it back to an
\* older timestamp, for every interleaving of downloads and writes.
THEOREM OnlySwapRegressesHolds == Spec => OnlySwapRegresses
<1>1. TypeOK /\ [Next]_vars => [KeepsMessages]_vars
  <2> SUFFICES ASSUME TypeOK, Next, up, up', ~SwapStep, NEW k \in db.messages
               PROVE  \E n \in db'.messages : n.id = k.id /\ n.ts >= k.ts
    BY DEF KeepsMessages
  <2>0. db \in Tables /\ k.ts \in Int
    BY DEF TypeOK, Tables, Message
  <2>1. ASSUME db'.messages = db.messages
        PROVE  \E n \in db'.messages : n.id = k.id /\ n.ts >= k.ts
    BY <2>0, <2>1
  <2>2. ASSUME NEW m \in Inputs, AddDirect(m)
        PROVE  \E n \in db'.messages : n.id = k.id /\ n.ts >= k.ts
    BY <2>0, <2>2, AddMessageKeeps, StorageAssumption DEF AddDirect
  <2>3. ASSUME NEW m \in Inputs, WriteQueued(m)
        PROVE  \E n \in db'.messages : n.id = k.id /\ n.ts >= k.ts
    <3>1. m \in Message
      BY StorageAssumption
    <3>2. Parents(m) \in Tables /\ k \in Parents(m).messages
      BY <2>0, <3>1, ParentsFacts DEF Parents
    <3> QED  BY <2>3, <3>1, <3>2, AddMessageKeeps DEF WriteQueued
  <2>4. ASSUME NEW m \in Inputs, WriteQueuedMedia(m)
        PROVE  db'.messages = db.messages
    BY <2>0, <2>4, ParentsFacts, StorageAssumption DEF WriteQueuedMedia, Parents
  <2>5. ASSUME NEW w \in inflight, MediaArrived(w)
        PROVE  \E n \in db'.messages : n.id = k.id /\ n.ts >= k.ts
    <3>1. w.msg \in Message
      BY DEF TypeOK, Write
    <3> QED  BY <2>0, <2>5, <3>1, AddMessageKeeps DEF MediaArrived
  <2>6. ASSUME NEW r \in Resyncs, NEW d \in Dumps, IdbExtracted(r, d)
        PROVE  FALSE
    BY <2>6 DEF IdbExtracted, SwapStep, TypeOK
  <2>7. ASSUME NEW r \in Resyncs, NEW cs \in SUBSET Convs, SidebarExtracted(r, cs)
        PROVE  FALSE
    BY <2>7 DEF SidebarExtracted, SwapStep, TypeOK
  <2>8. CASE \/ \E m \in Inputs : AddDirectMedia(m)
             \/ \E c \in Convs : UpsertConversation(c)
             \/ \E s \in Senders : UpsertContact(s)
             \/ \E r \in Resyncs : StartResync(r) \/ IdbEmpty(r)
    <3>1. db'.messages = db.messages
      BY <2>0, <2>8 DEF AddDirectMedia, UpsertConversation, UpsertContact,
                        StartResync, IdbEmpty, Tables
    <3> QED  BY <2>1, <3>1
  <2>9. ~Crash /\ ~Restart
    BY DEF Crash, Restart
  <2> QED  BY <2>1, <2>2, <2>3, <2>4, <2>5, <2>6, <2>7, <2>8, <2>9
           DEF Next, Extraction
<1>2. Spec => []TypeOK
  BY TypeCorrect
<1> QED  BY <1>1, <1>2, PTL DEF Spec, OnlySwapRegresses
-----------------------------------------------------------------------------
(***************************************************************************)
(* The engine implements DurableStore when no flush fails.  The rows of    *)
(* the store are then what the files hold, whether the process is up or    *)
(* down, so a crash and a restart change none of them.                     *)
(***************************************************************************)

\* The store's view of a set of tables.
View(t) ==
    [messages      |-> t.messages,
     conversations |-> t.conversations,
     known         |-> {s \in Senders : t.contacts[s] # "none"},
     hwm           |-> t.hwm]

\* A suspended write carries a message that a caller handed over.
FromInputs == \A w \in inflight : w.msg \in Inputs

RefInv == IInv /\ Faithful /\ FromInputs

\* What the files hold, through a crash and a restart.
LEMMA RowsAreFiles ==
    ASSUME TypeOK, Faithful
    PROVE  Rows = View(disk)
<1>1. LoadFromDisk(disk) = disk
  BY LoadFacts DEF Faithful, TypeOK
<1> QED
  BY <1>1 DEF Rows, View, Faithful

\* addMessage raises one mark, to the later of the two.
LEMMA RaiseOne ==
    ASSUME NEW hwm \in [Convs -> 0..MaxTs], NEW m \in Message
    PROVE  RaiseHwm(hwm, {m}) = [hwm EXCEPT ![m.conv] = Store!Later(@, m.ts)]
<1>0. m.ts \in 1..MaxTs /\ m.conv \in Convs /\ MaxTs \in Nat
  BY StorageAssumption DEF Message
<1>1. ASSUME NEW c \in Convs
      PROVE  Max({hwm[c]} \cup Stamps({m}, c))
               = IF c = m.conv THEN Store!Later(hwm[c], m.ts) ELSE hwm[c]
  <2> DEFINE S == {hwm[c]} \cup Stamps({m}, c)
  <2>1. S = IF c = m.conv THEN {hwm[c], m.ts} ELSE {hwm[c]}
    BY DEF Stamps
  <2>2. S \in SUBSET (0..MaxTs) /\ S # {}
    BY <1>0, <2>1
  <2>3. Max(S) \in S /\ \A y \in S : Max(S) >= y
    <3> HIDE DEF S
    <3> QED  BY <1>0, <2>2, MaxOfBounded
  <2> HIDE DEF S
  <2>4. Max(S) = IF c = m.conv THEN Store!Later(hwm[c], m.ts) ELSE hwm[c]
    BY <1>0, <2>1, <2>3 DEF Store!Later
  <2> QED
    BY <2>4 DEF S
<1> QED
  BY <1>0, <1>1 DEF RaiseHwm

\* addMessage, seen from outside.
LEMMA ViewOfAdded ==
    ASSUME NEW t \in Tables, NEW m \in Message
    PROVE  View(AddMessage(t, m)) =
             [messages      |-> Store!Newest(t.messages, m),
              conversations |-> t.conversations,
              known         |-> View(t).known \cup {m.sender},
              hwm           |-> [t.hwm EXCEPT ![m.conv] = Store!Later(@, m.ts)]]
<1> DEFINE u == AddMessage(t, m)
<1>1. u.messages = Store!Newest(t.messages, m)
  BY DEF AddMessage, StoreMessage, Store!Newest
<1>2. u.hwm = [t.hwm EXCEPT ![m.conv] = Store!Later(@, m.ts)]
  BY RaiseOne DEF AddMessage, Tables
<1>3. {s \in Senders : u.contacts[s] # "none"}
        = {s \in Senders : t.contacts[s] # "none"} \cup {m.sender}
  BY DEF AddMessage, StubContact, Tables, Message
<1>4. u.conversations = t.conversations
  BY DEF AddMessage
<1> HIDE DEF u
<1> QED
  BY <1>1, <1>2, <1>3, <1>4 DEF View, u

\* The writer's stubs, seen from outside.
LEMMA ViewOfParents ==
    ASSUME NEW t \in Tables, NEW m \in Message
    PROVE  View(EnsureContact(EnsureConversation(t, m), m)) =
             [messages      |-> t.messages,
              conversations |-> t.conversations \cup {m.conv},
              known         |-> View(t).known \cup {m.sender},
              hwm           |-> t.hwm]
<1> DEFINE u == EnsureContact(EnsureConversation(t, m), m)
<1>1. /\ u.messages = t.messages /\ u.hwm = t.hwm
      /\ u.conversations = t.conversations \cup {m.conv}
      /\ u.contacts = StubContact(t.contacts, m.sender)
  BY DEF EnsureContact, EnsureConversation, Tables
<1>2. {s \in Senders : u.contacts[s] # "none"}
        = {s \in Senders : t.contacts[s] # "none"} \cup {m.sender}
  BY <1>1 DEF StubContact, Tables, Message
<1> HIDE DEF u
<1> QED
  BY <1>1, <1>2 DEF View, u

\* Swapped tables are sound rows and take no mark back.
LEMMA ViewOfSwapped ==
    ASSUME NEW st \in Staged, NEW hwm \in [Convs -> 0..MaxTs]
    PROVE  /\ Store!Sound(View(Swapped(st, hwm)))
           /\ \A c \in Convs : View(Swapped(st, hwm)).hwm[c] >= hwm[c]
<1> DEFINE u == Swapped(st, hwm)
<1>1. u \in Tables /\ UniqueIds(u.messages) /\ Sound(u)
  BY SwappedFacts
<1>2. \A c \in Convs : hwm[c] <= u.hwm[c]
  <2>1. DeduplicateMessagesById(st.messages) \in SUBSET Message
    <3>1. \A i \in DOMAIN st.messages : st.messages[i] \in Message
      BY DEF Staged
    <3> QED
      BY <3>1 DEF DeduplicateMessagesById
  <2>2. u.hwm = RaiseHwm(hwm, DeduplicateMessagesById(st.messages))
    BY DEF Swapped
  <2> HIDE DEF u
  <2> QED
    BY <2>1, <2>2, RaiseHwmFacts
<1> HIDE DEF u
<1>3. Store!Sound(View(u))
  BY <1>1 DEF Store!Sound, View, Sound, Related, Marked, UniqueIds, Tables, Message
<1>4. \A c \in Convs : u.hwm[c] \in Int /\ hwm[c] \in Int
  BY <1>1, StorageAssumption DEF Tables
<1> QED
  BY <1>2, <1>3, <1>4 DEF View, u

\* A suspended write stays one of the inputs.
LEMMA FromInputsStep ==
    ASSUME FromInputs, [Next]_vars
    PROVE  FromInputs'
<1>1. \/ inflight' \subseteq inflight
      \/ \E m \in Inputs, q \in BOOLEAN :
           inflight' = inflight \cup {[msg |-> m, queued |-> q]}
  <2>1. ASSUME NEW m \in Inputs, AddDirectMedia(m) \/ WriteQueuedMedia(m)
        PROVE  <1>1!2
    BY <2>1 DEF AddDirectMedia, WriteQueuedMedia
  <2>2. ASSUME NEW m \in Inputs, AddDirect(m) \/ WriteQueued(m)
        PROVE  <1>1!1
    BY <2>2 DEF AddDirect, WriteQueued
  <2>3. ASSUME NEW w \in inflight, MediaArrived(w)
        PROVE  <1>1!1
    BY <2>3 DEF MediaArrived
  <2>4. CASE \/ \E c \in Convs : UpsertConversation(c)
             \/ \E s \in Senders : UpsertContact(s)
             \/ Crash \/ Restart \/ UNCHANGED vars
    BY <2>4 DEF UpsertConversation, UpsertContact, Crash, Restart, vars
  <2>5. ASSUME NEW r \in Resyncs, StartResync(r) \/ Extraction(r)
        PROVE  <1>1!1
    BY <2>5 DEF StartResync, Extraction, IdbExtracted, IdbEmpty, SidebarExtracted
  <2> QED
    BY <2>1, <2>2, <2>3, <2>4, <2>5 DEF Next
<1> QED
  BY <1>1 DEF FromInputs

\* Each step of the engine is a step of the store or none.
LEMMA RefinementStep ==
    ASSUME FlushFaults = {}, RefInv, RefInv', [Next]_vars
    PROVE  [Store!Next]_(Store!storeVars)
<1> DEFINE running == {r \in Resyncs : resync[r] # "idle"}
           Goal    == [Store!Next]_(Store!storeVars)
<1>1. Rows = View(disk) /\ Rows' = View(disk')
  <2>1. Rows = View(disk)
    BY RowsAreFiles DEF RefInv, IInv
  <2>2. TypeOK' /\ Faithful'
    BY DEF RefInv, IInv
  <2>3. (Rows = View(disk))'
    BY <2>2, RowsAreFiles, PTL
  <2> QED
    BY <2>1, <2>3 DEF View
<1>2. /\ db \in Tables /\ disk \in Tables /\ TypeOK
      /\ up => disk = db
      /\ up' => disk' = db'
  BY DEF RefInv, IInv, TypeOK, Faithful
<1>3. Store!storeVars = <<Rows, running>>
  BY DEF Store!storeVars
<1>4. ASSUME Rows' = Rows, running' = running  PROVE Goal
  BY <1>4 DEF Store!storeVars
<1>5. ASSUME NEW m \in Inputs, NEW opened, opened \in {{}, {m.conv}},
             Rows' = Store!Recorded(m, opened), running' = running
      PROVE  Goal
  BY <1>5 DEF Store!Next, Store!Record
<1>6. ASSUME NEW m \in Inputs, up, up', UNCHANGED resync, db' = AddMessage(db, m)
      PROVE  Goal
  <2>1. Rows' = Store!Recorded(m, {})
    BY <1>1, <1>2, <1>6, ViewOfAdded, StorageAssumption DEF View, Store!Recorded
  <2> QED
    BY <1>5, <1>6, <2>1
<1>7. ASSUME NEW r \in Resyncs, NEW st \in Staged, resync[r] # "idle",
             up, up', CommitStagingSwap(st), resync' = [resync EXCEPT ![r] = "idle"]
      PROVE  Goal
  <2>1. db.hwm \in [Convs -> 0..MaxTs] /\ db' = Swapped(st, db.hwm)
    BY <1>2, <1>7 DEF CommitStagingSwap, Tables
  <2>2. /\ Store!Sound(Rows')
        /\ \A c \in Convs : Rows'.hwm[c] >= Rows.hwm[c]
    BY <1>1, <1>2, <1>7, <2>1, ViewOfSwapped DEF View
  <2>3. r \in running /\ running' = running \ {r}
    BY <1>2, <1>7 DEF TypeOK
  <2> QED
    BY <2>2, <2>3 DEF Store!Next, Store!Replace
<1>8. ASSUME NEW m \in Inputs, AddDirect(m) PROVE Goal
  BY <1>6, <1>8 DEF AddDirect
<1>9. ASSUME NEW m \in Inputs, AddDirectMedia(m) PROVE Goal
  BY <1>4, <1>9 DEF AddDirectMedia, Rows
<1>10. ASSUME NEW m \in Inputs, WriteQueued(m) PROVE Goal
  <2>1. m \in Message /\ Parents(m) \in Tables
    BY <1>2, ParentsFacts, StorageAssumption DEF Parents
  <2>2. Rows' = View(AddMessage(Parents(m), m))
    BY <1>1, <1>2, <1>10 DEF WriteQueued
  <2>3. View(Parents(m)) = [messages      |-> db.messages,
                            conversations |-> db.conversations \cup {m.conv},
                            known         |-> View(db).known \cup {m.sender},
                            hwm           |-> db.hwm]
    BY <1>2, <2>1, ViewOfParents DEF Parents
  <2>4. Rows = View(db)
    BY <1>1, <1>2, <1>10 DEF WriteQueued
  <2>5. /\ Parents(m).messages = Rows.messages
        /\ Parents(m).conversations = Rows.conversations \cup {m.conv}
        /\ View(Parents(m)).known = Rows.known \cup {m.sender}
        /\ Parents(m).hwm = Rows.hwm
    BY <2>3, <2>4 DEF View
  <2>6. Rows' = Store!Recorded(m, {m.conv})
    BY <2>1, <2>2, <2>5, ViewOfAdded DEF Store!Recorded
  <2> QED
    BY <1>5, <1>10, <2>6 DEF WriteQueued
<1>11. ASSUME NEW m \in Inputs, WriteQueuedMedia(m) PROVE Goal
  <2>1. m \in Message
    BY StorageAssumption
  <2>2. Rows' = [messages      |-> Rows.messages,
                 conversations |-> Rows.conversations \cup {m.conv},
                 known         |-> Rows.known \cup {m.sender},
                 hwm           |-> Rows.hwm]
    <3>1. Rows = View(db) /\ Rows' = View(Parents(m))
      BY <1>1, <1>2, <1>11 DEF WriteQueuedMedia
    <3>2. Rows' = [messages      |-> db.messages,
                   conversations |-> db.conversations \cup {m.conv},
                   known         |-> View(db).known \cup {m.sender},
                   hwm           |-> db.hwm]
      BY <1>2, <2>1, <3>1, ViewOfParents DEF Parents
    <3> QED
      BY <3>1, <3>2 DEF View
  <2> QED
    BY <1>11, <2>2 DEF WriteQueuedMedia, Store!Next, Store!Prepare
<1>12. ASSUME NEW w \in inflight, MediaArrived(w) PROVE Goal
  BY <1>6, <1>12 DEF MediaArrived, RefInv, FromInputs
<1>13. ASSUME NEW c \in Convs, UpsertConversation(c) PROVE Goal
  <2>1. Rows' = [Rows EXCEPT !.conversations = @ \cup {c}]
    <3>1. /\ db'.messages = db.messages /\ db'.hwm = db.hwm
          /\ db'.contacts = db.contacts
          /\ db'.conversations = db.conversations \cup {c}
      BY <1>2, <1>13 DEF UpsertConversation, Tables
    <3>2. Rows = View(db) /\ Rows' = View(db')
      BY <1>1, <1>2, <1>13 DEF UpsertConversation
    <3> DEFINE known == {x \in Senders : db.contacts[x] # "none"}
    <3>3. /\ Rows = [messages |-> db.messages, conversations |-> db.conversations,
                     known |-> known, hwm |-> db.hwm]
          /\ Rows' = [messages |-> db.messages,
                      conversations |-> db.conversations \cup {c},
                      known |-> known, hwm |-> db.hwm]
      BY <3>1, <3>2 DEF View
    <3> HIDE DEF known
    <3>4. /\ Rows \in [messages : {db.messages}, conversations : {db.conversations},
                       known : {known}, hwm : {db.hwm}]
          /\ Rows.messages = db.messages /\ Rows.conversations = db.conversations
          /\ Rows.known = known /\ Rows.hwm = db.hwm
      BY <3>3
    <3>5. [Rows EXCEPT !.conversations = Rows.conversations \cup {c}]
            = [messages |-> Rows.messages, conversations |-> Rows.conversations \cup {c},
               known |-> Rows.known, hwm |-> Rows.hwm]
      BY <3>4
    <3> QED
      BY <3>3, <3>4, <3>5
  <2> QED
    BY <1>13, <2>1 DEF UpsertConversation, Store!Next, Store!Open
<1>14. ASSUME NEW s \in Senders, UpsertContact(s) PROVE Goal
  <2>1. Rows' = [Rows EXCEPT !.known = @ \cup {s}]
    <3>1. {x \in Senders : db'.contacts[x] # "none"}
            = {x \in Senders : db.contacts[x] # "none"} \cup {s}
      BY <1>2, <1>14 DEF UpsertContact, Tables
    <3>2. /\ db'.messages = db.messages /\ db'.hwm = db.hwm
          /\ db'.conversations = db.conversations
      BY <1>2, <1>14 DEF UpsertContact, Tables
    <3> QED
      <4>1. Rows = View(db) /\ Rows' = View(db')
        BY <1>1, <1>2, <1>14 DEF UpsertContact
      <4> DEFINE known == {x \in Senders : db.contacts[x] # "none"}
      <4>2. /\ Rows = [messages |-> db.messages, conversations |-> db.conversations,
                       known |-> known, hwm |-> db.hwm]
            /\ Rows' = [messages |-> db.messages, conversations |-> db.conversations,
                        known |-> known \cup {s}, hwm |-> db.hwm]
        BY <3>1, <3>2, <4>1 DEF View
      <4> HIDE DEF known
      <4>3. /\ Rows \in [messages : {db.messages}, conversations : {db.conversations},
                         known : {known}, hwm : {db.hwm}]
            /\ Rows.messages = db.messages /\ Rows.conversations = db.conversations
            /\ Rows.known = known /\ Rows.hwm = db.hwm
        BY <4>2
      <4>4. [Rows EXCEPT !.known = Rows.known \cup {s}]
              = [messages |-> Rows.messages, conversations |-> Rows.conversations,
                 known |-> Rows.known \cup {s}, hwm |-> Rows.hwm]
        BY <4>3
      <4> QED
        BY <4>2, <4>3, <4>4
  <2> QED
    BY <1>14, <2>1 DEF UpsertContact, Store!Next, Store!Know
<1>15. ASSUME NEW r \in Resyncs, StartResync(r) PROVE Goal
  <2>1. Rows' = Rows
    BY <1>15 DEF StartResync, Rows
  <2>2. running' = running \cup {r}
    BY <1>2, <1>15 DEF StartResync, TypeOK
  <2> QED
    BY <2>1, <2>2 DEF Store!Next, Store!Begin
<1>16. ASSUME NEW r \in Resyncs, NEW d \in Dumps, IdbExtracted(r, d) PROVE Goal
  <2> DEFINE st == [messages      |-> staging.messages \o d.msgs,
                    conversations |-> staging.conversations \cup d.convs,
                    contacts      |-> [s \in Senders |->
                                         IF s \in d.contacts THEN "real"
                                         ELSE staging.contacts[s]]]
  <2>1. d \in Dump /\ staging \in Staged
    BY <1>2, StorageAssumption DEF TypeOK
  <2>2. st \in Staged
    BY <2>1 DEF Dump, Staged, Level
  <2>3. /\ CommitStagingSwap(st) /\ up /\ up' /\ resync[r] # "idle"
        /\ resync' = [resync EXCEPT ![r] = "idle"]
    BY <1>16 DEF IdbExtracted
  <2> HIDE DEF st
  <2> QED
    BY <1>7, <2>2, <2>3
<1>17. ASSUME NEW r \in Resyncs, IdbEmpty(r) PROVE Goal
  BY <1>2, <1>4, <1>17 DEF IdbEmpty, Rows, TypeOK
<1>18. ASSUME NEW r \in Resyncs, NEW cs \in SUBSET Convs, SidebarExtracted(r, cs)
       PROVE  Goal
  <2> DEFINE st == [staging EXCEPT !.conversations = @ \cup cs]
  <2>1. st \in Staged
    BY <1>2 DEF TypeOK, Staged
  <2>2. /\ CommitStagingSwap(st) /\ up /\ up' /\ resync[r] # "idle"
        /\ resync' = [resync EXCEPT ![r] = "idle"]
    BY <1>18 DEF SidebarExtracted
  <2> HIDE DEF st
  <2> QED
    BY <1>7, <2>1, <2>2
<1>19. ASSUME Crash PROVE Goal
  <2>1. Rows' = Rows
    BY <1>1, <1>19 DEF Crash
  <2>2. running' = {}
    BY <1>19 DEF Crash
  <2> QED
    BY <2>1, <2>2 DEF Store!Next, Store!Stop
<1>20. ASSUME Restart PROVE Goal
  BY <1>1, <1>4, <1>20 DEF Restart
<1>21. ASSUME UNCHANGED vars PROVE Goal
  BY <1>4, <1>21 DEF vars, Rows
<1> HIDE DEF Goal
<1>22. Goal
  BY <1>8, <1>9, <1>10, <1>11, <1>12, <1>13, <1>14, <1>15, <1>16, <1>17, <1>18,
     <1>19, <1>20, <1>21 DEF Next, Extraction
<1> QED
  BY <1>22 DEF Goal

\* As long as no flush fails, the engine of storage.ts is the one relational
\* store that DurableStore describes, for every set of ids, every dump and any
\* number of overlapping downloads, resyncs, crashes and restarts.
THEOREM ImplementsStoreHolds ==
    ASSUME FlushFaults = {}
    PROVE  Spec => ImplementsStore
<1>1. Init => RefInv
  BY InitFacts DEF RefInv, FromInputs, Init
<1>2. RefInv /\ [Next]_vars => RefInv'
  BY StepFacts, FromInputsStep DEF RefInv
<1>3. Init => Store!Init
  <2> SUFFICES ASSUME Init PROVE Store!Init
    OBVIOUS
  <2>1. Rows = [messages |-> {}, conversations |-> {}, known |-> {}, hwm |-> NoMarks]
    BY DEF Init, Rows, EmptyTables, NoContacts
  <2>2. {r \in Resyncs : resync[r] # "idle"} = {}
    BY DEF Init
  <2> QED
    BY <2>1, <2>2 DEF Store!Init, Store!NoRows, NoMarks
<1>4. RefInv /\ RefInv' /\ [Next]_vars => [Store!Next]_(Store!storeVars)
  BY RefinementStep
<1> QED
  BY <1>1, <1>2, <1>3, <1>4, PTL DEF Spec, ImplementsStore, Store!Spec
=============================================================================
