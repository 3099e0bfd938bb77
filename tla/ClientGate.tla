----------------------------- MODULE ClientGate -----------------------------
(***************************************************************************)
(* What decides whether the user of the web client sees the application:   *)
(* the conversations table with its 10 s poll, the dialog of a live sync,  *)
(* and the hydration states of the hub, which reach the client over an     *)
(* EventSource (apps/web-client/src/app/page.tsx, api/sync/status/route.ts *)
(* and the endpoints of services/gateway-hub/src/index.ts).                *)
(*                                                                         *)
(* Contacts are polled, dumped and announced as conversations are, and are *)
(* left out.  The API routes turn every failure of a poll into an empty    *)
(* answer, which the client ignores.  The conversations table only grows,  *)
(* so that a put of many rows is one step; reconcileFullState catches what *)
(* its puts throw, and the wait for it always ends.                        *)
(***************************************************************************)
EXTENDS Integers, Sequences, FiniteSets

CONSTANTS
    Chats,        \* conversations
    LiveSyncs,    \* requests for a resync that the hub works on at a time
    MaxInbox,     \* bound: frames under way
    MaxStates,    \* bound: states under way
    MaxEndings,   \* bound: syncs of this client that have ended
    MaxRestarts   \* bound: restarts of the hub

ASSUME LiveSyncsAssumption == IsFiniteSet(LiveSyncs)

VARIABLES
    hubChats,        \* conversations of the hub
    hydration,       \* its gatekeeper
    syncs,           \* the requests that it works on, and the way they came
    restarts,
    wsStatus,        \* the client's WebSocket
    inbox,           \* frames under way on it
    chats,           \* conversations of the client
    poll,            \* fetchLiveConversations
    isFullSyncing,   \* the dialog of a live sync
    endings,         \* its syncs between their end and their timer
    lost,            \* history: since the last sync was started, one ended
                     \* and the client was not told
    stream, states,  \* the EventSource and the states on it
    hydrationState   \* the state that the client shows

hubSide   == <<hubChats, hydration, syncs, restarts>>
dialog    == <<isFullSyncing, endings, lost>>
gate      == <<stream, states, hydrationState>>
gateVars  == <<hubSide, wsStatus, inbox, chats, poll, dialog, gate>>

Idle == [at |-> "idle", answer |-> {}]

NoLiveSync == [at |-> "none", way |-> "none"]

\* What the hub does for the client over the socket, and over REST.
OverSocket == {y \in LiveSyncs : syncs[y].way = "ws"}
OverRest == {y \in LiveSyncs : syncs[y].way = "rest"}

GateInit ==
    /\ hubChats = {} /\ hydration = "COLD_START"
    /\ syncs = [y \in LiveSyncs |-> NoLiveSync] /\ restarts = 0
    /\ wsStatus = "CONNECTED" /\ inbox = <<>>
    /\ chats = {}
    /\ poll = Idle
    /\ isFullSyncing = FALSE /\ endings = 0 /\ lost = FALSE
    /\ stream = "connecting" /\ states = <<>>
    /\ hydrationState = "HYDRATED"

-----------------------------------------------------------------------------
(***************************************************************************)
(* The hub.                                                                *)
(***************************************************************************)

\* state_changed is written to every open stream.
SetHydrationState(s) ==
    /\ Len(states) < MaxStates
    /\ hydration' = s
    /\ states' = IF stream = "open" THEN Append(states, s) ELSE states
    /\ UNCHANGED <<stream, hydrationState>>

SendFrame(f) ==
    /\ Len(inbox) < MaxInbox
    /\ inbox' = IF wsStatus = "CONNECTED" THEN Append(inbox, f) ELSE inbox

\* A conversation comes up: made by the queue engine, which announces it, or by
\* syncNetworkData or the sidebar scrape, which do not.
ChatComesUp(c) ==
    /\ c \notin hubChats
    /\ hubChats' = hubChats \cup {c}
    /\ \/ SendFrame([event |-> "CDC_EVENT", chats |-> {c}])
       \/ UNCHANGED inbox
    /\ UNCHANGED <<hydration, syncs, restarts, wsStatus, chats, poll, dialog, gate>>

\* A request for a resync: first the hub waits for syncNetworkData.  Nothing
\* keeps a second one from beginning meanwhile.
Ask(y, way) ==
    /\ syncs[y] = NoLiveSync
    /\ syncs' = [syncs EXCEPT ![y] = [at |-> "network", way |-> way]]

\* Somebody else asks.
OtherSync(y) ==
    /\ Ask(y, "other")
    /\ UNCHANGED <<hubChats, hydration, restarts, wsStatus, inbox, chats, poll, dialog,
                   gate>>

\* executeFullMasterResync begins.
StartStagingSession(y) ==
    /\ syncs[y].at = "network"
    /\ syncs' = [syncs EXCEPT ![y].at = "staging"]
    /\ SetHydrationState("STAGING_INGESTION")
    /\ UNCHANGED <<hubChats, restarts, wsStatus, inbox, chats, poll, dialog>>

\* The end of a request.  With success the dump goes out as a frame or as the
\* answer; with an error an answer over REST ends the dialog just the same, but
\* over the socket there is only LIVE_SYNC_PROGRESS with the stage ERROR, which
\* the client logs.
Answer(y, found, ok) ==
    /\ syncs' = [syncs EXCEPT ![y] = NoLiveSync]
    /\ \/ /\ syncs[y].way = "ws" /\ ok
          /\ SendFrame([event |-> "LIVE_SYNC_COMPLETED", chats |-> found])
          /\ UNCHANGED <<chats, endings, lost>>
       \/ /\ syncs[y].way = "ws" /\ ~ok
          /\ lost' = (lost \/ wsStatus = "CONNECTED")
          /\ UNCHANGED <<inbox, chats, endings>>
       \/ /\ syncs[y].way = "rest"
          /\ endings' = endings + 1
          /\ chats' = IF ok THEN chats \cup found ELSE chats
          /\ UNCHANGED <<inbox, lost>>
       \/ syncs[y].way = "other" /\ UNCHANGED <<inbox, chats, endings, lost>>
    /\ UNCHANGED <<restarts, wsStatus, poll, isFullSyncing>>

\* The swap passes through the integrity check and opens the gate.  What follows
\* it, the dump made into text, may still throw.
CommitStagingSwap(y, found, ok) ==
    /\ syncs[y].at = "staging"
    /\ hubChats' = found
    /\ Len(states) + 1 < MaxStates
    /\ hydration' = "HYDRATED"
    /\ states' = IF stream = "open"
                 THEN states \o <<"INTEGRITY_CHECK", "HYDRATED">> ELSE states
    /\ Answer(y, found, ok)
    /\ UNCHANGED <<stream, hydrationState>>

\* Something throws before the swap: the gatekeeper is left as it is.
SyncFails(y) ==
    /\ syncs[y] # NoLiveSync
    /\ Answer(y, {}, FALSE)
    /\ UNCHANGED <<hubChats, hydration, gate>>

\* What closes the dialog over the socket, if the socket stays.
Closes(fs) == \E i \in DOMAIN fs : fs[i].event = "LIVE_SYNC_COMPLETED"

Comes == OverSocket # {} \/ Closes(inbox)

\* The hub restarts: a store with rows in it, conversations or messages without
\* them, is hydrated.  The route answers a sync over REST with an error;
\* sockets and streams break.
HubRestarts ==
    /\ restarts < MaxRestarts
    /\ restarts' = restarts + 1
    /\ syncs' = [y \in LiveSyncs |-> NoLiveSync]
    /\ \/ hydration' = "HYDRATED"
       \/ hydration' = "COLD_START" /\ hubChats = {}
    /\ wsStatus' = "DISCONNECTED" /\ inbox' = <<>>
    /\ lost' = (lost \/ (wsStatus = "CONNECTED" /\ Comes))
    /\ endings' = endings + Cardinality(OverRest)
    /\ stream' = IF stream = "open" THEN "connecting" ELSE stream
    /\ states' = <<>>
    /\ poll' = IF poll.at = "ask" THEN [Idle EXCEPT !.at = "put"] ELSE poll
    /\ UNCHANGED <<hubChats, chats, isFullSyncing, hydrationState>>

-----------------------------------------------------------------------------
(***************************************************************************)
(* The client.                                                             *)
(***************************************************************************)

\* A bug: the conversations of the dump are put, the dialog is not closed.
OnFrameOnlyPuts ==
    /\ inbox # <<>>
    /\ inbox' = Tail(inbox)
    /\ chats' = chats \cup Head(inbox).chats
    /\ UNCHANGED <<hubSide, wsStatus, poll, dialog, gate>>

\* onmessage for conversations and for the end of a sync.
OnFrame ==
    /\ inbox # <<>>
    /\ inbox' = Tail(inbox)
    /\ chats' = chats \cup Head(inbox).chats
    /\ endings' = IF Head(inbox).event = "LIVE_SYNC_COMPLETED"
                  THEN endings + 1 ELSE endings
    /\ UNCHANGED <<hubSide, wsStatus, poll, isFullSyncing, lost, gate>>

\* The socket closes and is not opened again.
OnClose ==
    /\ wsStatus = "CONNECTED"
    /\ wsStatus' = "DISCONNECTED"
    /\ inbox' = <<>>
    /\ lost' = (lost \/ Comes)
    /\ UNCHANGED <<hubSide, chats, poll, isFullSyncing, endings, gate>>

\* One of the two buttons is disabled while isFullSyncing; the one under an empty
\* list is not, so a second sync may be started beside the first.
HandleTriggerLiveSync(y) ==
    /\ endings + Cardinality(OverSocket \cup OverRest) < MaxEndings
    /\ Ask(y, IF wsStatus = "CONNECTED" THEN "ws" ELSE "rest")
    /\ isFullSyncing' = TRUE
    /\ lost' = FALSE
    /\ UNCHANGED <<hubChats, hydration, restarts, wsStatus, inbox, chats, poll, endings,
                   gate>>

\* The request of a sync over REST breaks, or the route gives up waiting and
\* answers with an error; the hub goes on.
SyncRequestBreaks(y) ==
    /\ y \in OverRest
    /\ syncs' = [syncs EXCEPT ![y].way = "other"]
    /\ \/ isFullSyncing' = FALSE /\ UNCHANGED endings
       \/ endings' = endings + 1 /\ UNCHANGED isFullSyncing
    /\ UNCHANGED <<hubChats, hydration, restarts, wsStatus, inbox, chats, poll, lost,
                   gate>>

\* The 1.5 s timer of a sync closes the dialog, whichever sync has opened it.
DialogCloses ==
    /\ endings > 0
    /\ endings' = endings - 1
    /\ isFullSyncing' = FALSE
    /\ UNCHANGED <<hubSide, wsStatus, inbox, chats, poll, lost, gate>>

PollStarts ==
    /\ poll.at = "idle"
    /\ poll' = [Idle EXCEPT !.at = "ask"]
    /\ UNCHANGED <<hubSide, wsStatus, inbox, chats, dialog, gate>>

\* A bug: the hydration guard does not look at the table.
ServeHydratedOnly ==
    IF hydration = "HYDRATED" THEN hubChats ELSE {}

\* GET /api/conversations: 503 while the hub is not hydrated and has none.
ServeConversations ==
    IF hydration # "HYDRATED" /\ hubChats = {} THEN {} ELSE hubChats

PollAnswered ==
    /\ poll.at = "ask"
    /\ poll' = [at |-> "put", answer |-> ServeConversations]
    /\ UNCHANGED <<hubSide, wsStatus, inbox, chats, dialog, gate>>

PollPuts ==
    /\ poll.at = "put"
    /\ chats' = chats \cup poll.answer
    /\ poll' = Idle
    /\ UNCHANGED <<hubSide, wsStatus, inbox, dialog, gate>>

PollGoesOn == PollStarts \/ PollAnswered \/ PollPuts

-----------------------------------------------------------------------------
(***************************************************************************)
(* GET /api/sync/status.                                                   *)
(***************************************************************************)

\* A bug: a stream gets the changes only.
StreamOpensSilently ==
    /\ stream = "connecting"
    /\ stream' = "open" /\ states' = <<>>
    /\ UNCHANGED <<hydrationState, hubSide, wsStatus, inbox, chats, poll,
                   dialog>>

\* The state at the time of the connection is written at once.
StreamOpens ==
    /\ stream = "connecting"
    /\ stream' = "open" /\ states' = <<hydration>>
    /\ UNCHANGED <<hydrationState, hubSide, wsStatus, inbox, chats, poll,
                   dialog>>

\* While the hub cannot be reached the route answers with JSON, which ends an
\* EventSource for good.
StreamRefused ==
    /\ stream = "connecting"
    /\ stream' = "refused"
    /\ UNCHANGED <<states, hydrationState, hubSide, wsStatus, inbox, chats, poll,
                   dialog>>

\* The browser connects again after a break.
StreamBreaks ==
    /\ stream = "open"
    /\ stream' = "connecting" /\ states' = <<>>
    /\ UNCHANGED <<hydrationState, hubSide, wsStatus, inbox, chats, poll,
                   dialog>>

StateShown ==
    /\ states # <<>>
    /\ hydrationState' = Head(states)
    /\ states' = Tail(states)
    /\ UNCHANGED <<stream, hubSide, wsStatus, inbox, chats, poll, dialog>>

SwapSome(y) ==
    \E found \in SUBSET Chats, ok \in BOOLEAN : CommitStagingSwap(y, found, ok)

SyncGoesOn(y) == StartStagingSession(y) \/ SwapSome(y) \/ SyncFails(y)

GateNext ==
    \/ \E c \in Chats : ChatComesUp(c)
    \/ \E y \in LiveSyncs : \/ OtherSync(y) \/ SyncGoesOn(y)
                            \/ HandleTriggerLiveSync(y) \/ SyncRequestBreaks(y)
    \/ HubRestarts
    \/ OnFrame \/ OnClose \/ DialogCloses
    \/ PollGoesOn
    \/ StreamOpens \/ StreamRefused \/ StreamBreaks \/ StateShown

GateSpec == GateInit /\ [][GateNext]_gateVars

-----------------------------------------------------------------------------
\* A dialog that is open has something to wait for: a timer, an answer over
\* REST, or over a socket that holds a sync of the hub's or its closing frame.
\* The exception is a dialog whose last sync was lost: the socket closed before
\* the end came, or the end was an error.
DialogHasWay ==
    isFullSyncing =>
        \/ endings > 0
        \/ OverRest # {}
        \/ wsStatus = "CONNECTED" /\ Comes
        \/ lost

\* No state of the gatekeeper is missed over a break of the stream: on an open
\* one the last state under way, or the one shown when there is none, is the
\* hub's.
StreamCurrent ==
    stream = "open" =>
        hydration = IF states = <<>> THEN hydrationState ELSE states[Len(states)]
=============================================================================
