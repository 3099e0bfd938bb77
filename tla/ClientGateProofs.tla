-------------------------- MODULE ClientGateProofs --------------------------
(***************************************************************************)
(* Theorems about the gate of the web client, for any conversations, any   *)
(* finite number of syncs that overlap and any bounds: a dialog that is    *)
(* open has something to wait for unless its sync was lost, and an open    *)
(* stream of states tells the hub's state.                                 *)
(*                                                                         *)
(* Both are inductive with the types.  What each step has to show for the  *)
(* dialog is that a way which it ends turns into another one: a sync into  *)
(* its closing frame, its answer or its loss, a frame into a timer.        *)
(***************************************************************************)
EXTENDS ClientGate, SequenceTheorems, FiniteSetTheorems, TLAPS

Frames == [event : {"CDC_EVENT", "LIVE_SYNC_COMPLETED"}, chats : SUBSET Chats]

HubStates == {"COLD_START", "STAGING_INGESTION", "INTEGRITY_CHECK", "HYDRATED"}

Requests == [at : {"none", "network", "staging"}, way : {"none", "ws", "rest", "other"}]

GateTypeOK ==
    /\ hydration \in HubStates /\ hydrationState \in HubStates
    /\ syncs \in [LiveSyncs -> Requests]
    /\ inbox \in Seq(Frames) /\ states \in Seq(HubStates)
    /\ endings \in Nat

\* What the dialog waits for.
Way ==
    \/ endings > 0
    \/ OverRest # {}
    \/ wsStatus = "CONNECTED" /\ Comes
    \/ lost

GateInv == GateTypeOK /\ (isFullSyncing => Way) /\ StreamCurrent

-----------------------------------------------------------------------------
\* Frames that are appended, the rest of the frames, requests that change.

LEMMA ClosesAppend ==
    ASSUME NEW s \in Seq(Frames), NEW f \in Frames
    PROVE  /\ Append(s, f) \in Seq(Frames)
           /\ Closes(s) => Closes(Append(s, f))
           /\ f.event = "LIVE_SYNC_COMPLETED" => Closes(Append(s, f))
  <1>1. /\ Append(s, f) \in Seq(Frames)
        /\ Len(s) \in Nat /\ DOMAIN s = 1..Len(s)
        /\ DOMAIN Append(s, f) = 1..(Len(s) + 1)
        /\ \A i \in 1..Len(s) : Append(s, f)[i] = s[i]
        /\ Append(s, f)[Len(s) + 1] = f
    OBVIOUS
  <1>2. Closes(s) => Closes(Append(s, f))
    BY <1>1 DEF Closes
  <1>3. f.event = "LIVE_SYNC_COMPLETED" => Closes(Append(s, f))
    <2>1. Len(s) + 1 \in DOMAIN Append(s, f)
      BY <1>1
    <2> QED BY <1>1, <2>1 DEF Closes
  <1> QED BY <1>1, <1>2, <1>3

LEMMA ClosesTail ==
    ASSUME NEW s \in Seq(Frames), s # <<>>
    PROVE  /\ Tail(s) \in Seq(Frames)
           /\ Closes(s) /\ Head(s).event # "LIVE_SYNC_COMPLETED" => Closes(Tail(s))
  <1>1. /\ Tail(s) \in Seq(Frames) /\ Head(s) = s[1]
        /\ Len(s) \in Nat /\ Len(s) >= 1 /\ DOMAIN s = 1..Len(s)
        /\ DOMAIN Tail(s) = 1..(Len(s) - 1)
        /\ \A i \in 1..(Len(s) - 1) : Tail(s)[i] = s[i + 1]
    OBVIOUS
  <1>2. ASSUME Closes(s), Head(s).event # "LIVE_SYNC_COMPLETED"
        PROVE  Closes(Tail(s))
    <2>1. PICK i \in 1..Len(s) : s[i].event = "LIVE_SYNC_COMPLETED"
      BY <1>1, <1>2 DEF Closes
    <2>2. i # 1
      BY <1>1, <1>2, <2>1
    <2>3. i - 1 \in 1..(Len(s) - 1) /\ (i - 1) + 1 = i
      BY <1>1, <2>2
    <2>4. Tail(s)[i - 1] = s[i]
      BY <1>1, <2>3
    <2> QED BY <1>1, <2>1, <2>3, <2>4 DEF Closes
  <1> QED BY <1>1, <1>2

LEMMA NothingCloses == ~Closes(<<>>)
  BY DEF Closes

\* A frame that goes out on the socket, or is lost with it.
LEMMA FrameGoesOut ==
    ASSUME GateTypeOK, NEW f \in Frames, SendFrame(f)
    PROVE  /\ inbox' \in Seq(Frames)
           /\ Closes(inbox) => Closes(inbox')
           /\ f.event = "LIVE_SYNC_COMPLETED" /\ wsStatus = "CONNECTED" => Closes(inbox')
  <1>1. inbox \in Seq(Frames)
    BY DEF GateTypeOK
  <1>2. CASE wsStatus = "CONNECTED"
    <2>1. inbox' = Append(inbox, f)
      BY <1>2 DEF SendFrame
    <2> QED BY <1>1, <2>1, ClosesAppend
  <1>3. CASE wsStatus # "CONNECTED"
    <2>1. inbox' = inbox
      BY <1>3 DEF SendFrame
    <2> QED BY <1>1, <1>3, <2>1 DEF Closes
  <1> QED BY <1>2, <1>3

\* A state that is announced is the last one under way on an open stream.
LEMMA StateAnnounced ==
    ASSUME GateTypeOK, StreamCurrent, NEW s \in HubStates, SetHydrationState(s)
    PROVE  /\ hydration' \in HubStates /\ hydrationState' \in HubStates
           /\ states' \in Seq(HubStates)
           /\ StreamCurrent'
  <1>1. CASE stream = "open"
    <2>1. states' = Append(states, s) /\ hydration' = s
      BY <1>1 DEF SetHydrationState
    <2>2. states \in Seq(HubStates)
      BY DEF GateTypeOK
    <2>3. /\ Append(states, s) \in Seq(HubStates)
          /\ Append(states, s) # <<>>
          /\ Append(states, s)[Len(Append(states, s))] = s
      BY <2>2
    <2> QED BY <2>1, <2>3 DEF SetHydrationState, GateTypeOK, StreamCurrent
  <1>2. CASE stream # "open"
    BY <1>2 DEF SetHydrationState, GateTypeOK, StreamCurrent
  <1> QED BY <1>1, <1>2

-----------------------------------------------------------------------------
\* Every step of the gate keeps the invariant, one lemma for each kind of step.

LEMMA GateStarts == GateInit => GateInv
  BY DEF GateInit, GateInv, GateTypeOK, HubStates, Requests, NoLiveSync, StreamCurrent

LEMMA ChatKeepsGate ==
    ASSUME GateInv, NEW c \in Chats, ChatComesUp(c)
    PROVE  GateInv'
  <1> DEFINE f == [event |-> "CDC_EVENT", chats |-> {c}]
  <1>1. f \in Frames
    BY DEF Frames
  <1>2. SendFrame(f) \/ UNCHANGED inbox
    BY DEF ChatComesUp
  <1>3. GateTypeOK /\ StreamCurrent
    BY DEF GateInv
  <1> HIDE DEF f
  <1>4. inbox' \in Seq(Frames) /\ (Closes(inbox) => Closes(inbox'))
    <2>1. CASE SendFrame(f)
      BY <1>1, <1>3, <2>1, FrameGoesOut
    <2>2. CASE UNCHANGED inbox
      BY <1>3, <2>2 DEF GateTypeOK, Closes
    <2> QED BY <1>2, <2>1, <2>2
  <1>5. UNCHANGED <<hydration, syncs, wsStatus, isFullSyncing, endings, lost, stream,
                    states, hydrationState>>
    BY DEF ChatComesUp, gate, dialog
  <1>6. GateTypeOK'
    BY <1>3, <1>4, <1>5 DEF GateTypeOK
  <1>7. Way => Way'
    BY <1>4, <1>5 DEF Way, Comes, OverRest, OverSocket
  <1>8. StreamCurrent'
    BY <1>3, <1>5 DEF StreamCurrent
  <1> QED BY <1>5, <1>6, <1>7, <1>8 DEF GateInv

\* A request begins: it takes a place that nothing had.
LEMMA AskKeepsOthers ==
    ASSUME GateTypeOK, NEW y \in LiveSyncs, NEW way \in {"ws", "rest", "other"}, Ask(y, way)
    PROVE  /\ syncs' \in [LiveSyncs -> Requests]
           /\ syncs'[y].way = way
           /\ OverRest \subseteq OverRest' /\ OverSocket \subseteq OverSocket'
  <1>1. /\ syncs \in [LiveSyncs -> Requests] /\ syncs[y].way = "none"
        /\ syncs' = [syncs EXCEPT ![y] = [at |-> "network", way |-> way]]
    BY DEF GateTypeOK, Ask, NoLiveSync
  <1>2. [at |-> "network", way |-> way] \in Requests
    BY DEF Requests
  <1>3. /\ syncs' \in [LiveSyncs -> Requests] /\ syncs'[y].way = way
        /\ \A z \in LiveSyncs : z # y => syncs'[z] = syncs[z]
    BY <1>1, <1>2
  <1> QED BY <1>1, <1>3 DEF OverRest, OverSocket

LEMMA OtherKeepsGate ==
    ASSUME GateInv, NEW y \in LiveSyncs, OtherSync(y)
    PROVE  GateInv'
  <1>1. GateTypeOK /\ StreamCurrent
    BY DEF GateInv
  <1>2. Ask(y, "other")
    BY DEF OtherSync
  <1>3. /\ syncs' \in [LiveSyncs -> Requests]
        /\ OverRest \subseteq OverRest' /\ OverSocket \subseteq OverSocket'
    BY <1>1, <1>2, AskKeepsOthers
  <1>4. UNCHANGED <<hydration, wsStatus, inbox, isFullSyncing, endings, lost, stream,
                    states, hydrationState>>
    BY DEF OtherSync, gate, dialog
  <1>5. GateTypeOK'
    BY <1>1, <1>3, <1>4 DEF GateTypeOK
  <1>6. Way => Way'
    BY <1>3, <1>4 DEF Way, Comes, Closes
  <1>7. StreamCurrent'
    BY <1>1, <1>4 DEF StreamCurrent
  <1> QED BY <1>4, <1>5, <1>6, <1>7 DEF GateInv

\* The user starts a sync: the dialog has the way that the sync has taken.
LEMMA TriggerKeepsGate ==
    ASSUME GateInv, NEW y \in LiveSyncs, HandleTriggerLiveSync(y)
    PROVE  GateInv'
  <1> DEFINE way == IF wsStatus = "CONNECTED" THEN "ws" ELSE "rest"
  <1>1. GateTypeOK /\ StreamCurrent
    BY DEF GateInv
  <1>2. Ask(y, way) /\ way \in {"ws", "rest", "other"}
    BY DEF HandleTriggerLiveSync
  <1>3. syncs' \in [LiveSyncs -> Requests] /\ syncs'[y].way = way
    <2> HIDE DEF way
    <2> QED BY <1>1, <1>2, AskKeepsOthers
  <1>4. UNCHANGED <<hydration, wsStatus, inbox, endings, stream, states, hydrationState>>
    BY DEF HandleTriggerLiveSync, gate
  <1>5. GateTypeOK'
    BY <1>1, <1>3, <1>4 DEF GateTypeOK
  <1>6. Way'
    <2>1. CASE wsStatus = "CONNECTED"
      BY <1>3, <1>4, <2>1 DEF Way, Comes, OverSocket
    <2>2. CASE wsStatus # "CONNECTED"
      BY <1>3, <2>2 DEF Way, OverRest
    <2> QED BY <2>1, <2>2
  <1>7. StreamCurrent'
    BY <1>1, <1>4 DEF StreamCurrent
  <1> QED BY <1>5, <1>6, <1>7 DEF GateInv

LEMMA StagingKeepsGate ==
    ASSUME GateInv, NEW y \in LiveSyncs, StartStagingSession(y)
    PROVE  GateInv'
  <1>1. GateTypeOK /\ StreamCurrent
    BY DEF GateInv
  <1>2. "STAGING_INGESTION" \in HubStates /\ SetHydrationState("STAGING_INGESTION")
    BY DEF StartStagingSession, HubStates
  <1>3. /\ hydration' \in HubStates /\ hydrationState' \in HubStates
        /\ states' \in Seq(HubStates)
        /\ StreamCurrent'
    BY <1>1, <1>2, StateAnnounced
  <1>4. /\ syncs' = [syncs EXCEPT ![y].at = "staging"]
        /\ UNCHANGED <<wsStatus, inbox, isFullSyncing, endings, lost>>
    BY DEF StartStagingSession, dialog
  <1>5. /\ syncs' \in [LiveSyncs -> Requests]
        /\ \A z \in LiveSyncs : syncs'[z].way = syncs[z].way
    BY <1>1, <1>4 DEF GateTypeOK, Requests
  <1>6. GateTypeOK'
    BY <1>1, <1>3, <1>4, <1>5 DEF GateTypeOK
  <1>7. Way => Way'
    BY <1>4, <1>5 DEF Way, Comes, Closes, OverRest, OverSocket
  <1> QED BY <1>3, <1>4, <1>6, <1>7 DEF GateInv

\* The end of a request over REST is an answer, of one over the socket its frame
\* or a loss; of another's, nothing that the dialog waits for.
LEMMA AnswerKeepsWay ==
    ASSUME GateTypeOK, NEW y \in LiveSyncs, NEW found \in SUBSET Chats, NEW ok \in BOOLEAN,
           Answer(y, found, ok)
    PROVE  /\ syncs' \in [LiveSyncs -> Requests] /\ inbox' \in Seq(Frames) /\ endings' \in Nat
           /\ Way => Way'
  <1> DEFINE f == [event |-> "LIVE_SYNC_COMPLETED", chats |-> found]
  <1>1. f \in Frames /\ f.event = "LIVE_SYNC_COMPLETED"
    BY DEF Frames
  <1>2. syncs \in [LiveSyncs -> Requests] /\ inbox \in Seq(Frames) /\ endings \in Nat
    BY DEF GateTypeOK
  <1>3. syncs' = [syncs EXCEPT ![y] = NoLiveSync] /\ NoLiveSync \in Requests /\ UNCHANGED wsStatus
    BY DEF Answer, NoLiveSync, Requests
  <1>4. /\ syncs' \in [LiveSyncs -> Requests]
        /\ \A z \in LiveSyncs : z # y => syncs'[z] = syncs[z]
    BY <1>2, <1>3
  <1>5. \/ /\ syncs[y].way = "ws" /\ SendFrame(f) /\ UNCHANGED <<endings, lost>>
        \/ /\ syncs[y].way = "ws" /\ lost' = (lost \/ wsStatus = "CONNECTED")
           /\ UNCHANGED <<inbox, endings>>
        \/ syncs[y].way = "rest" /\ endings' = endings + 1 /\ UNCHANGED <<inbox, lost>>
        \/ syncs[y].way = "other" /\ UNCHANGED <<inbox, endings, lost>>
    BY DEF Answer
  <1> HIDE DEF f
  <1>6. CASE syncs[y].way = "ws" /\ SendFrame(f) /\ UNCHANGED <<endings, lost>>
    <2>1. /\ inbox' \in Seq(Frames) /\ (Closes(inbox) => Closes(inbox'))
          /\ wsStatus = "CONNECTED" => Closes(inbox')
      BY <1>1, <1>6, FrameGoesOut
    <2>2. OverRest # {} => OverRest' # {}
      BY <1>4, <1>6 DEF OverRest
    <2> QED BY <1>2, <1>3, <1>4, <1>6, <2>1, <2>2 DEF Way, Comes
  <1>7. CASE /\ syncs[y].way = "ws" /\ lost' = (lost \/ wsStatus = "CONNECTED")
             /\ UNCHANGED <<inbox, endings>>
    <2>2. OverRest # {} => OverRest' # {}
      BY <1>4, <1>7 DEF OverRest
    <2> QED BY <1>2, <1>3, <1>4, <1>7, <2>2 DEF Way
  <1>8. CASE syncs[y].way = "rest" /\ endings' = endings + 1 /\ UNCHANGED <<inbox, lost>>
    <2>1. endings' \in Nat /\ endings' > 0
      BY <1>2, <1>8
    <2> QED BY <1>2, <1>4, <1>8, <2>1 DEF Way
  <1>9. CASE syncs[y].way = "other" /\ UNCHANGED <<inbox, endings, lost>>
    <2>1. (OverRest # {} => OverRest' # {}) /\ (OverSocket # {} => OverSocket' # {})
      BY <1>4, <1>9 DEF OverRest, OverSocket
    <2>2. Closes(inbox) => Closes(inbox')
      BY <1>9 DEF Closes
    <2> QED BY <1>2, <1>3, <1>4, <1>9, <2>1, <2>2 DEF Way, Comes
  <1> QED BY <1>5, <1>6, <1>7, <1>8, <1>9

LEMMA SwapKeepsGate ==
    ASSUME GateInv, NEW y \in LiveSyncs, NEW found \in SUBSET Chats, NEW ok \in BOOLEAN,
           CommitStagingSwap(y, found, ok)
    PROVE  GateInv'
  <1>1. GateTypeOK /\ StreamCurrent
    BY DEF GateInv
  <1>2. /\ hydration' = "HYDRATED" /\ Answer(y, found, ok)
        /\ UNCHANGED <<stream, hydrationState>>
        /\ states' = IF stream = "open"
                     THEN states \o <<"INTEGRITY_CHECK", "HYDRATED">> ELSE states
    BY DEF CommitStagingSwap
  <1>3. states' \in Seq(HubStates) /\ StreamCurrent'
    <2>1. CASE stream = "open"
      <3> DEFINE t == <<"INTEGRITY_CHECK", "HYDRATED">>
      <3>1. states \in Seq(HubStates) /\ t \in Seq(HubStates)
        BY <1>1 DEF GateTypeOK, HubStates
      <3>2. /\ states \o t \in Seq(HubStates)
            /\ states \o t # <<>>
            /\ (states \o t)[Len(states \o t)] = "HYDRATED"
        BY <3>1
      <3>3. states' = states \o t
        BY <1>2, <2>1
      <3> QED BY <1>2, <3>2, <3>3 DEF StreamCurrent
    <2>2. CASE stream # "open"
      BY <1>1, <1>2, <2>2 DEF GateTypeOK, StreamCurrent
    <2> QED BY <2>1, <2>2
  <1>4. /\ syncs' \in [LiveSyncs -> Requests] /\ inbox' \in Seq(Frames) /\ endings' \in Nat
        /\ Way => Way'
    BY <1>1, <1>2, AnswerKeepsWay
  <1>5. UNCHANGED isFullSyncing
    BY <1>2 DEF Answer
  <1>6. GateTypeOK'
    BY <1>1, <1>2, <1>3, <1>4 DEF GateTypeOK, HubStates
  <1> QED BY <1>3, <1>4, <1>5, <1>6 DEF GateInv

LEMMA FailureKeepsGate ==
    ASSUME GateInv, NEW y \in LiveSyncs, SyncFails(y)
    PROVE  GateInv'
  <1>1. GateTypeOK /\ StreamCurrent
    BY DEF GateInv
  <1>2. /\ Answer(y, {}, FALSE)
        /\ UNCHANGED <<hydration, stream, states, hydrationState>>
    BY DEF SyncFails, gate
  <1>3. {} \in SUBSET Chats /\ FALSE \in BOOLEAN
    OBVIOUS
  <1>4. /\ syncs' \in [LiveSyncs -> Requests] /\ inbox' \in Seq(Frames) /\ endings' \in Nat
        /\ Way => Way'
    BY <1>1, <1>2, <1>3, AnswerKeepsWay
  <1>5. UNCHANGED isFullSyncing
    BY <1>2 DEF Answer
  <1>6. GateTypeOK'
    BY <1>1, <1>2, <1>4 DEF GateTypeOK
  <1>7. StreamCurrent'
    BY <1>1, <1>2 DEF StreamCurrent
  <1> QED BY <1>4, <1>5, <1>6, <1>7 DEF GateInv

\* A restart answers what was asked over REST and loses what was asked over the
\* socket.
LEMMA RestartKeepsGate ==
    ASSUME GateInv, HubRestarts
    PROVE  GateInv'
  <1>1. GateTypeOK
    BY DEF GateInv
  <1>2. /\ hydration' \in HubStates /\ syncs' = [y \in LiveSyncs |-> NoLiveSync]
        /\ wsStatus' = "DISCONNECTED" /\ inbox' = <<>>
        /\ stream' # "open" /\ states' = <<>>
        /\ lost' = (lost \/ (wsStatus = "CONNECTED" /\ Comes))
        /\ endings' = endings + Cardinality(OverRest)
        /\ UNCHANGED <<isFullSyncing, hydrationState>>
    BY DEF HubRestarts, HubStates
  <1>3. IsFiniteSet(OverRest)
    <2>1. OverRest \subseteq LiveSyncs
      BY DEF OverRest
    <2> QED BY <2>1, LiveSyncsAssumption, FS_Subset
  <1>4. Cardinality(OverRest) \in Nat /\ (OverRest # {} => Cardinality(OverRest) > 0)
    <2>1. Cardinality(OverRest) \in Nat /\ (Cardinality(OverRest) = 0 <=> OverRest = {})
      BY <1>3, FS_CardinalityType, FS_EmptySet
    <2> QED BY <2>1
  <1>5. endings \in Nat
    BY <1>1 DEF GateTypeOK
  <1>6. /\ endings' \in Nat
        /\ endings > 0 \/ OverRest # {} => endings' > 0
    BY <1>2, <1>4, <1>5
  <1>7. GateTypeOK'
    BY <1>1, <1>2, <1>6 DEF GateTypeOK, NoLiveSync, Requests
  <1>8. Way => Way'
    BY <1>2, <1>6 DEF Way
  <1>9. StreamCurrent'
    BY <1>2 DEF StreamCurrent
  <1> QED BY <1>2, <1>7, <1>8, <1>9 DEF GateInv

\* A closing frame that is handled becomes a timer.
LEMMA FrameKeepsGate ==
    ASSUME GateInv, OnFrame
    PROVE  GateInv'
  <1>1. GateTypeOK /\ StreamCurrent
    BY DEF GateInv
  <1>2. /\ inbox # <<>> /\ inbox' = Tail(inbox)
        /\ endings' = IF Head(inbox).event = "LIVE_SYNC_COMPLETED"
                      THEN endings + 1 ELSE endings
        /\ UNCHANGED <<hydration, syncs, wsStatus, isFullSyncing, lost, stream, states,
                       hydrationState>>
    BY DEF OnFrame, hubSide, gate
  <1>3. inbox \in Seq(Frames) /\ endings \in Nat
    BY <1>1 DEF GateTypeOK
  <1>4. /\ Tail(inbox) \in Seq(Frames)
        /\ Closes(inbox) /\ Head(inbox).event # "LIVE_SYNC_COMPLETED"
              => Closes(Tail(inbox))
    BY <1>2, <1>3, ClosesTail
  <1>5. endings' \in Nat
    BY <1>2, <1>3
  <1>6. GateTypeOK'
    BY <1>1, <1>2, <1>4, <1>5 DEF GateTypeOK
  <1>7. Way => Way'
    <2>1. CASE Head(inbox).event = "LIVE_SYNC_COMPLETED"
      <3>1. endings' > 0
        BY <1>2, <1>3, <2>1
      <3> QED BY <3>1 DEF Way
    <2>2. CASE Head(inbox).event # "LIVE_SYNC_COMPLETED"
      <3>1. UNCHANGED endings /\ (Closes(inbox) => Closes(inbox'))
        BY <1>2, <1>4, <2>2
      <3> QED BY <1>2, <3>1 DEF Way, Comes, OverRest, OverSocket
    <2> QED BY <2>1, <2>2
  <1>8. StreamCurrent'
    BY <1>1, <1>2 DEF StreamCurrent
  <1> QED BY <1>2, <1>6, <1>7, <1>8 DEF GateInv

\* The steps that touch the socket or the dialog only.
LEMMA CloseKeepsGate ==
    ASSUME GateInv, OnClose
    PROVE  GateInv'
  <1>1. GateTypeOK /\ StreamCurrent
    BY DEF GateInv
  <1>2. /\ inbox' = <<>> /\ lost' = (lost \/ Comes)
        /\ UNCHANGED <<hydration, syncs, isFullSyncing, endings, stream, states,
                       hydrationState>>
    BY DEF OnClose, hubSide, gate
  <1>3. GateTypeOK'
    BY <1>1, <1>2 DEF GateTypeOK
  <1>4. Way => Way'
    BY <1>2 DEF Way, OverRest
  <1>5. StreamCurrent'
    BY <1>1, <1>2 DEF StreamCurrent
  <1> QED BY <1>2, <1>3, <1>4, <1>5 DEF GateInv

LEMMA BreakKeepsGate ==
    ASSUME GateInv, NEW y \in LiveSyncs, SyncRequestBreaks(y)
    PROVE  GateInv'
  <1>1. GateTypeOK /\ StreamCurrent
    BY DEF GateInv
  <1>2. /\ syncs' = [syncs EXCEPT ![y].way = "other"]
        /\ \/ isFullSyncing' = FALSE /\ UNCHANGED endings
           \/ endings' = endings + 1 /\ UNCHANGED isFullSyncing
        /\ UNCHANGED <<hydration, inbox, stream, states, hydrationState>>
    BY DEF SyncRequestBreaks, gate
  <1>3. syncs' \in [LiveSyncs -> Requests] /\ endings' \in Nat
    BY <1>1, <1>2 DEF GateTypeOK, Requests
  <1>4. GateTypeOK'
    BY <1>1, <1>2, <1>3 DEF GateTypeOK
  <1>5. isFullSyncing' => Way'
    <2>1. CASE isFullSyncing' = FALSE
      BY <2>1
    <2>2. CASE endings' = endings + 1
      <3>1. endings' > 0
        BY <1>1, <2>2 DEF GateTypeOK
      <3> QED BY <3>1 DEF Way
    <2> QED BY <1>2, <2>1, <2>2
  <1>6. StreamCurrent'
    BY <1>1, <1>2 DEF StreamCurrent
  <1> QED BY <1>4, <1>5, <1>6 DEF GateInv

LEMMA TimerKeepsGate ==
    ASSUME GateInv, DialogCloses
    PROVE  GateInv'
  <1>1. GateTypeOK /\ StreamCurrent
    BY DEF GateInv
  <1>2. /\ endings > 0 /\ endings' = endings - 1 /\ isFullSyncing' = FALSE
        /\ UNCHANGED <<hydration, syncs, inbox, stream, states, hydrationState>>
    BY DEF DialogCloses, hubSide, gate
  <1>3. endings' \in Nat
    BY <1>1, <1>2 DEF GateTypeOK
  <1>4. GateTypeOK'
    BY <1>1, <1>2, <1>3 DEF GateTypeOK
  <1>5. StreamCurrent'
    BY <1>1, <1>2 DEF StreamCurrent
  <1> QED BY <1>2, <1>4, <1>5 DEF GateInv

\* The stream of states: a new one begins with the hub's state, and what is
\* shown is the first of those under way.
LEMMA StreamKeepsGate ==
    ASSUME GateInv, StreamOpens \/ StreamRefused \/ StreamBreaks \/ StateShown
    PROVE  GateInv'
  <1>1. GateTypeOK /\ StreamCurrent
    BY DEF GateInv
  <1>2. UNCHANGED <<hydration, syncs, wsStatus, inbox, isFullSyncing, endings, lost>>
    BY DEF StreamOpens, StreamRefused, StreamBreaks, StateShown, hubSide, dialog
  <1>3. Way => Way'
    BY <1>2 DEF Way, Comes, Closes, OverRest, OverSocket
  <1>4. /\ states' \in Seq(HubStates) /\ hydrationState' \in HubStates
        /\ StreamCurrent'
    <2>1. hydration \in HubStates /\ states \in Seq(HubStates) /\ hydrationState \in HubStates
      BY <1>1 DEF GateTypeOK
    <2>2. CASE StreamOpens
      BY <1>2, <2>1, <2>2 DEF StreamOpens, StreamCurrent
    <2>3. CASE StreamRefused
      BY <2>1, <2>3 DEF StreamRefused, StreamCurrent
    <2>5. CASE StreamBreaks
      BY <2>1, <2>5 DEF StreamBreaks, StreamCurrent
    <2>4. CASE StateShown
      <3>1. /\ states # <<>> /\ hydrationState' = Head(states)
            /\ states' = Tail(states) /\ UNCHANGED stream
        BY <2>4 DEF StateShown
      <3>2. /\ Tail(states) \in Seq(HubStates) /\ Head(states) \in HubStates
            /\ Tail(states) = <<>> => Head(states) = states[Len(states)]
            /\ Tail(states) # <<>> => Tail(states)[Len(Tail(states))] = states[Len(states)]
        <4>1. /\ Tail(states) \in Seq(HubStates) /\ Head(states) \in HubStates
              /\ Head(states) = states[1]
              /\ Len(states) \in Nat /\ Len(states) >= 1
              /\ Len(Tail(states)) = Len(states) - 1
              /\ \A i \in 1..(Len(states) - 1) : Tail(states)[i] = states[i + 1]
          BY <2>1, <3>1
        <4>2. CASE Tail(states) = <<>>
          <5>1. Len(states) = 1
            <6>1. Len(<<>>) = 0
              OBVIOUS
            <6>2. Len(Tail(states)) = 0
              BY <4>2, <6>1, Zenon
            <6>3. \A n \in Nat : n - 1 = 0 => n = 1
              OBVIOUS
            <6> QED BY <4>1, <6>2, <6>3, Zenon
          <5> QED BY <4>1, <4>2, <5>1
        <4>3. CASE Tail(states) # <<>>
          <5>1. Len(Tail(states)) # 0
            BY <4>1, <4>3, EmptySeq
          <5>2. Len(states) - 1 \in 1..(Len(states) - 1) /\ (Len(states) - 1) + 1 = Len(states)
            BY <4>1, <5>1
          <5> QED BY <4>1, <4>3, <5>2
        <4> QED BY <4>1, <4>2, <4>3
      <3> QED BY <1>1, <1>2, <3>1, <3>2 DEF StreamCurrent
    <2> QED BY <2>2, <2>3, <2>4, <2>5
  <1>5. GateTypeOK'
    BY <1>1, <1>2, <1>4 DEF GateTypeOK
  <1> QED BY <1>2, <1>3, <1>4, <1>5 DEF GateInv

\* A poll touches none of this.
LEMMA RestKeepsGate ==
    ASSUME GateInv, PollGoesOn \/ UNCHANGED gateVars
    PROVE  GateInv'
  <1>1. GateTypeOK /\ StreamCurrent
    BY DEF GateInv
  <1>2. UNCHANGED <<hydration, syncs, wsStatus, inbox, isFullSyncing, endings, lost, stream,
                    states, hydrationState>>
    BY DEF PollGoesOn, PollStarts, PollAnswered, PollPuts, gateVars, hubSide, dialog, gate
  <1>3. GateTypeOK'
    BY <1>1, <1>2 DEF GateTypeOK
  <1>4. Way => Way'
    BY <1>2 DEF Way, Comes, Closes, OverRest, OverSocket
  <1>5. StreamCurrent'
    BY <1>1, <1>2 DEF StreamCurrent
  <1> QED BY <1>2, <1>3, <1>4, <1>5 DEF GateInv

LEMMA GateInvariant == GateSpec => []GateInv
  <1>1. GateInit => GateInv
    BY GateStarts
  <1>2. ASSUME GateInv, [GateNext]_gateVars
        PROVE  GateInv'
    <2>1. ASSUME NEW c \in Chats, ChatComesUp(c)
          PROVE  GateInv'
      BY <1>2, <2>1, ChatKeepsGate
    <2>2. ASSUME NEW y \in LiveSyncs, OtherSync(y)
          PROVE  GateInv'
      BY <1>2, <2>2, OtherKeepsGate
    <2>3. ASSUME NEW y \in LiveSyncs, SyncGoesOn(y)
          PROVE  GateInv'
      <3>1. CASE StartStagingSession(y)
        BY <1>2, <3>1, StagingKeepsGate
      <3>2. CASE SwapSome(y)
        BY <1>2, <3>2, SwapKeepsGate DEF SwapSome
      <3>3. CASE SyncFails(y)
        BY <1>2, <3>3, FailureKeepsGate
      <3> QED BY <2>3, <3>1, <3>2, <3>3 DEF SyncGoesOn
    <2>4. ASSUME NEW y \in LiveSyncs, HandleTriggerLiveSync(y)
          PROVE  GateInv'
      BY <1>2, <2>4, TriggerKeepsGate
    <2>5. ASSUME NEW y \in LiveSyncs, SyncRequestBreaks(y)
          PROVE  GateInv'
      BY <1>2, <2>5, BreakKeepsGate
    <2>6. HubRestarts => GateInv'
      BY <1>2, RestartKeepsGate
    <2>7. OnFrame => GateInv'
      BY <1>2, FrameKeepsGate
    <2>8. OnClose => GateInv'
      BY <1>2, CloseKeepsGate
    <2>9. DialogCloses => GateInv'
      BY <1>2, TimerKeepsGate
    <2>10. StreamOpens \/ StreamRefused \/ StreamBreaks \/ StateShown => GateInv'
      BY <1>2, StreamKeepsGate
    <2>11. PollGoesOn \/ UNCHANGED gateVars => GateInv'
      BY <1>2, RestKeepsGate
    <2> QED BY <1>2, <2>1, <2>2, <2>3, <2>4, <2>5, <2>6, <2>7, <2>8, <2>9, <2>10, <2>11
            DEF GateNext
  <1> QED BY <1>1, <1>2, PTL DEF GateSpec

-----------------------------------------------------------------------------
(***************************************************************************)
(* The theorems.                                                           *)
(***************************************************************************)

\* A dialog that is open has something to wait for, however many syncs overlap,
\* fail, break or are cut off by a restart, unless the end of its last sync was
\* lost: an error over the socket, or a socket that closed
\* (handleTriggerLiveSync and ws.onmessage of page.tsx, START_LIVE_SYNC of
\* index.ts).
THEOREM DialogHasWayHolds == GateSpec => []DialogHasWay
  <1>1. GateInv => DialogHasWay
    BY DEF GateInv, Way, DialogHasWay
  <1> QED BY <1>1, GateInvariant, PTL

\* The last state on an open stream, or the one shown when none is under way, is
\* the hub's, through every break of the stream and restart of the hub
\* (GET /api/sync/status of index.ts and route.ts).
THEOREM StreamCurrentHolds == GateSpec => []StreamCurrent
  <1>1. GateInv => StreamCurrent
    BY DEF GateInv
  <1> QED BY <1>1, GateInvariant, PTL
=============================================================================
