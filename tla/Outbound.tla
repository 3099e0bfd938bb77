------------------------------ MODULE Outbound ------------------------------
(***************************************************************************)
(* The life of an outgoing message, from the web client's send button to   *)
(* the status it finally shows (apps/web-client/src/app/page.tsx, the      *)
(* outbound endpoints of services/gateway-hub/src/index.ts, and            *)
(* registerOutboundPending of queue_writer.ts).                            *)
(*                                                                         *)
(* The client, the hub's callbacks, its timers, the Zalo network client    *)
(* and the headless dispatcher all interleave.  Time is abstract: a timer  *)
(* that is armed may fire at any later moment, and a send may take longer  *)
(* than the timer.                                                         *)
(***************************************************************************)
EXTENDS Integers, Sequences, FiniteSets

CONSTANTS
    Ids,          \* client message ids
    MaxAttempts   \* bound: sends of one id (the first and its retries)

ASSUME OutboundAssumption == MaxAttempts \in Nat

VARIABLES
    ui,         \* status of each message in the client's Dexie table
    attempts,   \* sends of each id so far
    connected,  \* the client's WebSocket is open
    requests,   \* sends on their way to the hub
    pending,    \* keys of outboundPendingMap
    timers,     \* armed 10 s timers of each id
    stored,     \* status of the hub's own copy of the message
    dispatch,   \* sends in progress at the hub
    wire,       \* OUTBOUND_STATUS_UPDATE events on their way to the client
    sent,       \* how often Zalo has accepted the message
    acked       \* the hub has reported the current attempt as SENT

vars == <<ui, attempts, connected, requests, pending, timers, stored,
          dispatch, wire, sent, acked>>

Request  == [id : Ids, n : 1..MaxAttempts, via : {"ws", "rest"}]
Dispatch == [id : Ids, n : 1..MaxAttempts, via : {"ws", "rest"},
             stage : {"net", "headless"}]
Event    == [id : Ids, status : {"SENT", "FAILED"}]

Init ==
    /\ ui = [i \in Ids |-> "none"]
    /\ attempts = [i \in Ids |-> 0]
    /\ connected = TRUE
    /\ requests = {}
    /\ pending = {}
    /\ timers = [i \in Ids |-> 0]
    /\ stored = [i \in Ids |-> "none"]
    /\ dispatch = {}
    /\ wire = <<>>
    /\ sent = [i \in Ids |-> 0]
    /\ acked = [i \in Ids |-> FALSE]

-----------------------------------------------------------------------------
(***************************************************************************)
(* The web client.                                                         *)
(***************************************************************************)

\* handleSendMessage: the first send of a fresh id, or the retry button that
\* a FAILED message shows, which reuses the id.
HandleSendMessage(i) ==
    /\ ui[i] \in {"none", "FAILED"}
    /\ attempts[i] < MaxAttempts
    /\ ui' = [ui EXCEPT ![i] = "SENDING"]
    /\ attempts' = [attempts EXCEPT ![i] = @ + 1]
    /\ acked' = [acked EXCEPT ![i] = FALSE]
    /\ requests' = requests \cup {[id |-> i, n |-> attempts[i] + 1,
                                   via |-> IF connected THEN "ws" ELSE "rest"]}
    /\ UNCHANGED <<connected, pending, timers, stored, dispatch, wire, sent>>

\* A bug: every update is taken for a success.
StatusAlwaysDelivered(e) ==
    ui' = [ui EXCEPT ![e.id] = IF @ = "none" THEN @ ELSE "DELIVERED"]

\* The client's OUTBOUND_STATUS_UPDATE handler.
ApplyStatus(e) ==
    ui' = [ui EXCEPT ![e.id] =
             IF @ = "none" THEN @
             ELSE IF e.status = "SENT" THEN "DELIVERED" ELSE "FAILED"]

ReceiveStatus ==
    /\ connected
    /\ wire # <<>>
    /\ ApplyStatus(Head(wire))
    /\ wire' = Tail(wire)
    /\ UNCHANGED <<attempts, connected, requests, pending, timers, stored,
                   dispatch, sent, acked>>

\* fetchServerMessages puts the hub's copy over the local one.
FetchServerMessages(i) ==
    /\ stored[i] # "none"
    /\ ui' = [ui EXCEPT ![i] = stored[i]]
    /\ UNCHANGED <<attempts, connected, requests, pending, timers, stored,
                   dispatch, wire, sent, acked>>

\* The socket closes; the client never opens another one.
Disconnect ==
    /\ connected
    /\ connected' = FALSE
    /\ wire' = <<>>
    /\ requests' = {q \in requests : q.via = "rest"}
    /\ UNCHANGED <<ui, attempts, pending, timers, stored, dispatch, sent, acked>>

-----------------------------------------------------------------------------
(***************************************************************************)
(* The hub.                                                                *)
(***************************************************************************)

\* outbound_status is fanned out to the clients that are connected.
Emit(i, s) ==
    wire' = IF connected THEN Append(wire, [id |-> i, status |-> s]) ELSE wire

\* The limiter refuses: the reply does not name the message and nothing is
\* registered.
RateLimited(q) ==
    /\ q.via = "ws"
    /\ requests' = requests \ {q}
    /\ UNCHANGED <<ui, attempts, connected, pending, timers, stored, dispatch,
                   wire, sent, acked>>

\* registerOutboundPending: a second registration of an id replaces the entry
\* and leaves the first one's timer armed.
RegisterOutboundPending(i) ==
    /\ pending' = pending \cup {i}
    /\ timers' = [timers EXCEPT ![i] = @ + 1]

\* The send is accepted: registered, stored as SENDING, and dispatched over
\* the network client when it is ready, else headless; a WebSocket message
\* whose cleaned text is empty is not dispatched at all.
Accept(q, stages) ==
    /\ requests' = requests \ {q}
    /\ RegisterOutboundPending(q.id)
    /\ stored' = [stored EXCEPT ![q.id] = "SENDING"]
    /\ dispatch' = dispatch \cup {[id |-> q.id, n |-> q.n, via |-> q.via,
                                   stage |-> s] : s \in stages}
    /\ UNCHANGED <<ui, attempts, connected, wire, sent, acked>>

AcceptNetwork(q)  == Accept(q, {"net"})
AcceptHeadless(q) == Accept(q, {"headless"})
AcceptEmpty(q)    == q.via = "ws" /\ Accept(q, {})

\* The network client reports success: SENT is emitted, the pending entry
\* and its timer stay.
NetworkSucceeds(d) ==
    /\ d.stage = "net"
    /\ dispatch' = dispatch \ {d}
    /\ sent' = [sent EXCEPT ![d.id] = @ + 1]
    /\ acked' = [acked EXCEPT ![d.id] = @ \/ d.n = attempts[d.id]]
    /\ Emit(d.id, "SENT")
    /\ UNCHANGED <<ui, attempts, connected, requests, pending, timers, stored>>

\* A bug: the fallback starts and the network send is tried again as well.
NetworkFailsRetries(d, taken) ==
    /\ d.stage = "net"
    /\ dispatch' = dispatch \cup {[d EXCEPT !.stage = "headless"]}
    /\ sent' = [sent EXCEPT ![d.id] = @ + taken]
    /\ UNCHANGED <<ui, attempts, connected, requests, pending, timers, stored,
                   wire, acked>>

\* It fails, before or after Zalo took the message: fall back to headless.
NetworkFails(d, taken) ==
    /\ d.stage = "net"
    /\ dispatch' = (dispatch \ {d}) \cup {[d EXCEPT !.stage = "headless"]}
    /\ sent' = [sent EXCEPT ![d.id] = @ + taken]
    /\ UNCHANGED <<ui, attempts, connected, requests, pending, timers, stored,
                   wire, acked>>

\* __INJECTED_SEND__ tries to send in up to three ways in one call: a dispatch
\* to the page's store, whose exception is swallowed even after the store took
\* the message, then an Enter key, then a click on the send button.  What the
\* page makes of each is not looked at: none or all of them may send.
HeadlessWays == 3

\* It reports success after the dispatch or after the click, and that reports
\* nothing to the client.
HeadlessSucceeds(d, taken) ==
    /\ d.stage = "headless"
    /\ dispatch' = dispatch \ {d}
    /\ sent' = [sent EXCEPT ![d.id] = @ + taken]
    /\ UNCHANGED <<ui, attempts, connected, requests, pending, timers, stored,
                   wire, acked>>

\* It fails without an editor, by an exception, or because the call to the
\* browser does; that is reported by the WebSocket path only.
HeadlessFails(d, taken) ==
    /\ d.stage = "headless"
    /\ dispatch' = dispatch \ {d}
    /\ sent' = [sent EXCEPT ![d.id] = @ + taken]
    /\ IF d.via = "ws" THEN Emit(d.id, "FAILED") ELSE UNCHANGED wire
    /\ UNCHANGED <<ui, attempts, connected, requests, pending, timers, stored,
                   acked>>

\* A bug: the entry is left in the map.
TimerFiresKeepsEntry(i) ==
    /\ timers[i] > 0
    /\ timers' = [timers EXCEPT ![i] = @ - 1]
    /\ IF i \in pending THEN Emit(i, "FAILED") ELSE UNCHANGED wire
    /\ UNCHANGED <<ui, attempts, connected, requests, pending, stored,
                   dispatch, sent, acked>>

\* A bug: the entry is removed and nobody is told.
TimerFiresSilently(i) ==
    /\ timers[i] > 0
    /\ timers' = [timers EXCEPT ![i] = @ - 1]
    /\ pending' = pending \ {i}
    /\ UNCHANGED <<ui, attempts, connected, requests, stored, dispatch, wire,
                   sent, acked>>

\* The 10 s timer of a registration.
TimerFires(i) ==
    /\ timers[i] > 0
    /\ timers' = [timers EXCEPT ![i] = @ - 1]
    /\ pending' = pending \ {i}
    /\ IF i \in pending THEN Emit(i, "FAILED") ELSE UNCHANGED wire
    /\ UNCHANGED <<ui, attempts, connected, requests, stored, dispatch, sent,
                   acked>>

Hub(q) == RateLimited(q) \/ AcceptNetwork(q) \/ AcceptHeadless(q) \/ AcceptEmpty(q)

Settle(d) ==
    \/ NetworkSucceeds(d)
    \/ \E taken \in {0, 1} : NetworkFails(d, taken)
    \/ \E taken \in 0..HeadlessWays : HeadlessSucceeds(d, taken) \/ HeadlessFails(d, taken)

Next ==
    \/ \E i \in Ids : HandleSendMessage(i) \/ FetchServerMessages(i) \/ TimerFires(i)
    \/ ReceiveStatus
    \/ Disconnect
    \/ \E q \in requests : Hub(q)
    \/ \E d \in dispatch : Settle(d)

Spec == Init /\ [][Next]_vars

\* Timers fire and frames on an open socket are handled.  Nothing is assumed
\* of the network: a send may never end.
FairSpec ==
    /\ Spec
    /\ WF_vars(ReceiveStatus)
    /\ \A i \in Ids : WF_vars(TimerFires(i))

-----------------------------------------------------------------------------
(***************************************************************************)
(* Properties.                                                             *)
(***************************************************************************)

\* Every variable keeps its shape.
TypeOK ==
    /\ ui \in [Ids -> {"none", "SENDING", "DELIVERED", "FAILED"}]
    /\ attempts \in [Ids -> 0..MaxAttempts]
    /\ connected \in BOOLEAN
    /\ requests \subseteq Request
    /\ pending \subseteq Ids
    /\ timers \in [Ids -> Nat]
    /\ stored \in [Ids -> {"none", "SENDING"}]
    /\ dispatch \subseteq Dispatch
    /\ wire \in Seq(Event)
    /\ sent \in [Ids -> Nat]
    /\ acked \in [Ids -> BOOLEAN]

\* No entry of outboundPendingMap is without an armed timer, also when a
\* retry replaced the entry of an earlier attempt: nothing stays pending.
PendingHasTimer == \A i \in pending : timers[i] > 0

\* A message the client shows as DELIVERED was accepted by Zalo, whatever
\* late events of earlier attempts arrive.
DeliveredIsReal == \A i \in Ids : ui[i] = "DELIVERED" => sent[i] > 0

\* Zalo may get a message four times for one press of the button, once from a
\* network client that fails after the message was taken and three times from
\* the fallback, and over retries and both senders never more often than that.
FourPerPress == \A i \in Ids : sent[i] <= (1 + HeadlessWays) * attempts[i]

\* Every registered send leaves the pending map.
PendingEnds == \A i \in Ids : (i \in pending) ~> (i \notin pending)

\* A client that stays connected sees an outcome of every registered send,
\* if only the timer's.
OutcomeShown ==
    \A i \in Ids : (i \in pending /\ connected) ~>
                     (ui[i] \in {"DELIVERED", "FAILED"} \/ ~connected)

\* What the timer's error text says: no acknowledgement has come for the
\* send that it reports as failed.
TimeoutMeansNoAck ==
    [][\A i \in Ids : timers'[i] < timers[i] /\ i \in pending => ~acked[i]]_vars
=============================================================================
