----------------------------- MODULE CdpClient -----------------------------
(***************************************************************************)
(* The multiplexed CDP session of the hub                                  *)
(* (services/gateway-hub/src/cdp_client.ts): connecting and reconnecting,  *)
(* commands with numbered replies and timeouts, and the close of a socket. *)
(*                                                                         *)
(* A handler of a socket refers to this.ws, not to the socket it belongs   *)
(* to, so the model has every socket that was ever made.  The ws library,  *)
(* Chromium and the process's supervisor are external: a socket may close  *)
(* or fail at any time, a reply may come at any time or never.             *)
(***************************************************************************)
EXTENDS Integers, FiniteSets

CONSTANTS
    Users,        \* commands sent by the rest of the hub
    Setup,        \* commands the open handler sends, one after the other
    MaxSockets,   \* bound: sockets made in one life of the process
    MaxFetches    \* bound: background requests for /json in progress

Sockets == 1..MaxSockets

\* The calls of send(): those of the hub, and command k of the open handler
\* of socket s.
SetupCalls == Sockets \X (1..Setup)
Calls == Users \cup SetupCalls

ASSUME CdpAssumption ==
    /\ Setup \in Nat /\ MaxSockets \in Nat /\ MaxFetches \in Nat \ {0}
    /\ Users \cap SetupCalls = {}

VARIABLES
    sock,             \* readyState of each socket, "none" before it is made
    ws,               \* this.ws, 0 for null
    isConnecting,
    reconnectTimer,
    isDestroyed,
    crashed,          \* an "error" event without a listener ended the process
    fetching,         \* connect() calls of boot and timer that await /json
    outcome,          \* the promise of each call of send()
    on,               \* the socket that each command was written to
    pendingRequests,
    armed             \* commands whose timeout is armed

connection == <<sock, ws, isConnecting, reconnectTimer, isDestroyed, fetching>>
commands == <<outcome, on, pendingRequests, armed>>
vars == <<connection, commands, crashed>>

\* The process has called connect() at boot.
Init ==
    /\ sock = [s \in Sockets |-> "none"]
    /\ ws = 0
    /\ isConnecting = TRUE
    /\ reconnectTimer = FALSE
    /\ isDestroyed = FALSE
    /\ crashed = FALSE
    /\ fetching = 1
    /\ outcome = [c \in Calls |-> "idle"]
    /\ on = [c \in Calls |-> 0]
    /\ pendingRequests = {}
    /\ armed = {}

WsOpen == ws # 0 /\ sock[ws] = "open"

\* connect() goes on to ask for /json.
MayConnect == ~isDestroyed /\ ~WsOpen /\ ~isConnecting

-----------------------------------------------------------------------------
(***************************************************************************)
(* Commands.                                                               *)
(***************************************************************************)

Settle(c, how) == outcome' = [outcome EXCEPT ![c] = how]

\* A bug: the timeout is never armed.
RegisterUntimed(c) ==
    /\ Settle(c, "unsettled")
    /\ on' = [on EXCEPT ![c] = ws]
    /\ pendingRequests' = pendingRequests \cup {c}
    /\ UNCHANGED armed

\* send(), once this.ws is open: number the command, arm its timeout, write.
Register(c) ==
    /\ Settle(c, "unsettled")
    /\ on' = [on EXCEPT ![c] = ws]
    /\ pendingRequests' = pendingRequests \cup {c}
    /\ armed' = armed \cup {c}

\* send() when this.ws is not open after connect(): the call throws.
Refuse(c) == Settle(c, "rejected") /\ UNCHANGED <<on, pendingRequests, armed>>

\* send() from its start to its first await, and on to its end when connect()
\* returns without waiting.
Send(c) ==
    /\ outcome[c] = "idle"
    /\ \/ /\ WsOpen
          /\ Register(c)
          /\ UNCHANGED connection
       \/ /\ MayConnect
          /\ Settle(c, "waiting")
          /\ isConnecting' = TRUE
          /\ UNCHANGED <<sock, ws, reconnectTimer, isDestroyed, fetching, on,
                         pendingRequests, armed>>
       \/ /\ ~WsOpen /\ ~MayConnect
          /\ Refuse(c)
          /\ UNCHANGED connection

Command(c) == c \in Users /\ ~crashed /\ Send(c) /\ UNCHANGED crashed

\* The open handler of socket s goes on to its next command.
SetupNext(s, k) ==
    /\ ~crashed
    /\ k > 1
    /\ outcome[<<s, k - 1>>] \in {"resolved", "rejected"}
    /\ Send(<<s, k>>)
    /\ UNCHANGED crashed

\* A reply with the number of a pending command.
Reply(c, how) ==
    /\ ~crashed
    /\ c \in pendingRequests
    /\ sock[on[c]] \in {"open", "closing"}
    /\ Settle(c, how)
    /\ pendingRequests' = pendingRequests \ {c}
    /\ armed' = armed \ {c}
    /\ UNCHANGED <<connection, on, crashed>>

\* The timeout of a command.
Timeout(c) ==
    /\ ~crashed
    /\ c \in armed
    /\ armed' = armed \ {c}
    /\ pendingRequests' = pendingRequests \ {c}
    /\ outcome' = IF c \in pendingRequests
                  THEN [outcome EXCEPT ![c] = "rejected"] ELSE outcome
    /\ UNCHANGED <<connection, on, crashed>>

\* The socket could not write the command.
WriteFails(c) ==
    /\ ~crashed
    /\ c \in pendingRequests
    /\ sock[on[c]] = "closing"
    /\ armed' = armed \ {c}
    /\ pendingRequests' = pendingRequests \ {c}
    /\ Settle(c, "rejected")
    /\ UNCHANGED <<connection, on, crashed>>

\* A bug: the map is cleared and the timeouts stay armed.
RejectAllKeepsTimers ==
    /\ outcome' = [c \in Calls |-> IF c \in pendingRequests THEN "rejected"
                                   ELSE outcome[c]]
    /\ pendingRequests' = {}
    /\ UNCHANGED <<on, armed>>

\* rejectAllPending: every pending command, whichever socket it went to.
RejectAllPending ==
    /\ outcome' = [c \in Calls |-> IF c \in pendingRequests THEN "rejected"
                                   ELSE outcome[c]]
    /\ armed' = armed \ pendingRequests
    /\ pendingRequests' = {}
    /\ UNCHANGED on

-----------------------------------------------------------------------------
(***************************************************************************)
(* The connection.                                                         *)
(***************************************************************************)

\* A bug: no attempt follows.
ScheduleNothing == UNCHANGED reconnectTimer

ScheduleReconnect == reconnectTimer' = (reconnectTimer \/ ~isDestroyed)

\* The reconnect timer calls connect().
ReconnectTimerFires ==
    /\ ~crashed
    /\ reconnectTimer
    /\ reconnectTimer' = FALSE
    /\ \/ /\ MayConnect
          /\ fetching < MaxFetches
          /\ fetching' = fetching + 1
          /\ isConnecting' = TRUE
       \/ /\ ~MayConnect
          /\ UNCHANGED <<fetching, isConnecting>>
    /\ UNCHANGED <<sock, ws, isDestroyed, commands, crashed>>

\* The connect() of call c, or one of the background, gets its /json answer:
\* a new socket becomes this.ws.  The call that waited finds it not open.
NewSocket(s) ==
    /\ sock[s] = "none"
    /\ \A r \in Sockets : r < s => sock[r] # "none"
    /\ sock' = [sock EXCEPT ![s] = "connecting"]
    /\ ws' = s
    /\ UNCHANGED <<isConnecting, reconnectTimer, isDestroyed, crashed>>

FetchSucceeds(s) ==
    /\ ~crashed
    /\ fetching > 0
    /\ fetching' = fetching - 1
    /\ NewSocket(s)
    /\ UNCHANGED commands

CallFetchSucceeds(c, s) ==
    /\ ~crashed
    /\ outcome[c] = "waiting"
    /\ NewSocket(s)
    /\ Refuse(c)
    /\ UNCHANGED fetching

\* connect()'s catch.
FetchError ==
    /\ isConnecting' = FALSE
    /\ ScheduleReconnect
    /\ UNCHANGED <<sock, ws, isDestroyed, crashed>>

FetchFails ==
    /\ ~crashed
    /\ fetching > 0
    /\ fetching' = fetching - 1
    /\ FetchError
    /\ UNCHANGED commands

CallFetchFails(c) ==
    /\ ~crashed
    /\ outcome[c] = "waiting"
    /\ FetchError
    /\ IF WsOpen THEN Register(c) ELSE Refuse(c)
    /\ UNCHANGED fetching

\* The open handler: its first command goes to this.ws, which may by now be
\* another socket, or null.
OpenHandler(s) ==
    IF Setup = 0 THEN UNCHANGED commands /\ isConnecting' = FALSE
    ELSE LET c == <<s, 1>> IN
         \/ /\ ws # 0 /\ (sock[ws] = "open" \/ ws = s)
            /\ Register(c)
            /\ isConnecting' = FALSE
         \/ /\ ~(ws # 0 /\ (sock[ws] = "open" \/ ws = s))
            /\ IF isDestroyed
               THEN Refuse(c) /\ isConnecting' = FALSE
               ELSE /\ Settle(c, "waiting")
                    /\ isConnecting' = TRUE
                    /\ UNCHANGED <<on, pendingRequests, armed>>

SocketOpens(s) ==
    /\ ~crashed
    /\ sock[s] = "connecting"
    /\ sock' = [sock EXCEPT ![s] = "open"]
    /\ OpenHandler(s)
    /\ UNCHANGED <<ws, reconnectTimer, isDestroyed, fetching, crashed>>

\* The closing handshake starts; the "close" event comes when it has ended.
SocketCloses(s) ==
    /\ ~crashed
    /\ sock[s] = "open"
    /\ sock' = [sock EXCEPT ![s] = "closing"]
    /\ UNCHANGED <<ws, isConnecting, reconnectTimer, isDestroyed, fetching,
                   commands, crashed>>

\* The close handler.
SocketClosed(s) ==
    /\ ~crashed
    /\ sock[s] = "closing"
    /\ sock' = [sock EXCEPT ![s] = "closed"]
    /\ ws' = 0
    /\ isConnecting' = FALSE
    /\ RejectAllPending
    /\ ScheduleReconnect
    /\ UNCHANGED <<isDestroyed, fetching, crashed>>

\* The error handler emits "error", which nobody listens to: the process ends.
SocketError(s) ==
    /\ ~crashed
    /\ sock[s] \in {"connecting", "open", "closing", "aborting"}
    /\ crashed' = TRUE
    /\ isConnecting' = FALSE
    /\ UNCHANGED <<sock, ws, reconnectTimer, isDestroyed, fetching, commands>>

\* The supervisor starts the process again.
Restart ==
    /\ crashed
    /\ crashed' = FALSE
    /\ sock' = [s \in Sockets |-> "none"]
    /\ ws' = 0
    /\ isConnecting' = TRUE
    /\ reconnectTimer' = FALSE
    /\ isDestroyed' = FALSE
    /\ fetching' = 1
    /\ outcome' = [c \in Calls |-> "idle"]
    /\ on' = [c \in Calls |-> 0]
    /\ pendingRequests' = {}
    /\ armed' = {}

\* destroy(): ws.close() starts the closing handshake of an open socket; it
\* aborts one that is still connecting, which then reports an error.
Destroy ==
    /\ ~crashed
    /\ ~isDestroyed
    /\ isDestroyed' = TRUE
    /\ reconnectTimer' = FALSE
    /\ RejectAllPending
    /\ sock' = IF ws = 0 THEN sock
               ELSE [sock EXCEPT ![ws] = CASE @ = "open" -> "closing"
                                           [] @ = "connecting" -> "aborting"
                                           [] OTHER -> @]
    /\ ws' = 0
    /\ UNCHANGED <<isConnecting, fetching, crashed>>

Next ==
    \/ \E c \in Users : Command(c)
    \/ \E s \in Sockets, k \in 1..Setup : SetupNext(s, k)
    \/ \E c \in Calls :
         \/ \E how \in {"resolved", "rejected"} : Reply(c, how)
         \/ Timeout(c) \/ WriteFails(c) \/ CallFetchFails(c)
         \/ \E s \in Sockets : CallFetchSucceeds(c, s)
    \/ \E s \in Sockets :
         \/ FetchSucceeds(s) \/ SocketOpens(s) \/ SocketCloses(s)
         \/ SocketClosed(s) \/ SocketError(s)
    \/ FetchFails
    \/ ReconnectTimerFires
    \/ Restart
    \/ Destroy

Spec == Init /\ [][Next]_vars

\* Timers fire, and a request for /json ends: it has a timeout of its own.
FairSpec ==
    /\ Spec
    /\ \A c \in Calls :
         /\ WF_vars(Timeout(c))
         /\ WF_vars(CallFetchFails(c) \/ \E s \in Sockets : CallFetchSucceeds(c, s))

-----------------------------------------------------------------------------
(***************************************************************************)
(* Properties.                                                             *)
(***************************************************************************)

States == {"none", "connecting", "open", "closing", "closed", "aborting"}

\* Every variable keeps its shape.
TypeOK ==
    /\ sock \in [Sockets -> States]
    /\ ws \in 0..MaxSockets
    /\ isConnecting \in BOOLEAN /\ reconnectTimer \in BOOLEAN
    /\ isDestroyed \in BOOLEAN /\ crashed \in BOOLEAN
    /\ fetching \in 0..MaxFetches
    /\ outcome \in [Calls -> {"idle", "waiting", "unsettled", "resolved", "rejected"}]
    /\ on \in [Calls -> 0..MaxSockets]
    /\ pendingRequests \subseteq Calls
    /\ armed \subseteq Calls

\* The map, the armed timeouts and the unsettled promises are of the same
\* commands, through replies, timeouts, failed writes, closes of this and of
\* older sockets, and destroy().
MapMatchesPromises ==
    /\ pendingRequests = {c \in Calls : outcome[c] = "unsettled"}
    /\ armed = pendingRequests

Attempting == fetching > 0 \/ \E c \in Calls : outcome[c] = "waiting"

\* isConnecting is never left set by an attempt that has ended: connect()
\* would return at once ever after.
NoWedge ==
    isConnecting /\ ~crashed =>
        \/ Attempting
        \/ \E s \in Sockets : sock[s] \in {"connecting", "aborting"}

\* A client that has lost its session is on its way to another one.
Recovering ==
    \/ isDestroyed \/ crashed
    \/ ws # 0 /\ sock[ws] \in {"connecting", "open", "closing"}
    \/ Attempting
    \/ reconnectTimer

\* Every call of send() comes to an end, if only by its timeout.
EverySendSettles ==
    \A c \in Calls :
        (outcome[c] \in {"waiting", "unsettled"}) ~>
            (outcome[c] \notin {"waiting", "unsettled"} \/ crashed)

\* What the comment at boot says: the hub has one CDP connection.
OneSession == Cardinality({s \in Sockets : sock[s] = "open"}) =< 1
=============================================================================
