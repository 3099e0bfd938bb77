----------------------------- MODULE ProxyRelay -----------------------------
(***************************************************************************)
(* One connection through the loopback proxy (crates/zalo-proxy): the      *)
(* SOCKS5 handshake, the choice between a transparent relay, an            *)
(* intercepted HTTPS relay and the WebSocket arbiter (main.rs), the stream *)
(* that gives back the bytes read ahead (PrefixedStream), the arbiter's    *)
(* two tasks and the bounded channel to the frame logger (ws_arbiter.rs,   *)
(* ipc_bridge.rs).                                                         *)
(*                                                                         *)
(* What each side sends is numbered: units of the browser ("up") and of    *)
(* the server ("down").  The browser's first Request units are its HTTP    *)
(* request; the header that asks for a WebSocket ends in UpgradeUnit.      *)
(* After the upgrade a unit is one WebSocket frame.                        *)
(***************************************************************************)
EXTENDS Integers, Sequences, SequencesExt

CONSTANTS
    MaxUnits,     \* bound: units of each direction, by direction
    Request,      \* units of the browser's HTTP request
    UpgradeUnit,  \* the unit of it that completes the Upgrade header
    Texts,        \* units that are text frames: not captured
    ChannelSize   \* capacity of the channel to the logger (1024 in main.rs)

Dirs == {"up", "down"}

ASSUME RelayAssumption ==
    /\ MaxUnits \in [Dirs -> Nat]
    /\ Request \in Nat \ {0} /\ UpgradeUnit \in 1..Request
    /\ ChannelSize \in Nat \ {0}

VARIABLES
    stage,     \* where the connection's task is
    upgrade,   \* the browser's request asks for a WebSocket
    reads,     \* the side that direction d goes to still reads
    sent,      \* units each side has written
    read,      \* units the proxy has taken from each socket
    prefix,    \* read ahead and not given back yet (PrefixedStream)
    task,      \* what each relaying task does with the unit it holds
    out,       \* units delivered to the other side
    ipc,       \* the channel to the logger
    logged     \* frames the logger has printed

relayVars == <<stage, upgrade, reads, sent, read, prefix, task, out, ipc, logged>>

RelayInit ==
    /\ stage = "handshake"
    /\ upgrade \in BOOLEAN
    /\ reads = [d \in Dirs |-> TRUE]
    /\ sent = [d \in Dirs |-> 0]
    /\ read = [d \in Dirs |-> 0]
    /\ prefix = <<>>
    /\ task = [d \in Dirs |-> [at |-> "idle", unit |-> 0]]
    /\ out = [d \in Dirs |-> <<>>]
    /\ ipc = <<>>
    /\ logged = <<>>

Units(from, n) == [i \in 1..n |-> from + i]

Become(s) ==
    /\ stage' = s
    /\ UNCHANGED <<reads, upgrade, sent, read, prefix, task, out, ipc, logged>>

-----------------------------------------------------------------------------
(***************************************************************************)
(* Setting up.  Each step may fail, which drops both sockets.              *)
(***************************************************************************)

\* handshake ends with the success reply, before the target is connected.
Socks5Handshake == stage = "handshake" /\ Become("connecting")

\* TcpStream::connect: chat.zalo.me and wpa.zalo.me on port 443 are
\* intercepted, unless no certificate can be made for them.
Connect == stage = "connecting" /\ \E s \in {"raw", "tlsAccept"} : Become(s)

TlsAccept == stage = "tlsAccept" /\ Become("tlsConnect")
TlsConnect == stage = "tlsConnect" /\ Become("firstRead")

SetupFails ==
    /\ stage \in {"handshake", "connecting", "tlsAccept", "tlsConnect",
                  "firstRead", "wsAccept"}
    /\ Become("ended")

\* The first read decides by the bytes it happened to get.  A request that is
\* not recognised is forwarded at once and relayed; a WebSocket request is
\* put back in front of the stream.
FirstRead(n) ==
    /\ stage = "firstRead"
    /\ n > 0 /\ n <= sent["up"]
    /\ read' = [read EXCEPT !["up"] = n]
    /\ IF upgrade /\ n >= UpgradeUnit
       THEN /\ stage' = "wsAccept"
            /\ prefix' = Units(0, n)
            /\ UNCHANGED out
       ELSE /\ stage' = "https"
            /\ out' = [out EXCEPT !["up"] = Units(0, n)]
            /\ UNCHANGED prefix
    /\ UNCHANGED <<reads, upgrade, sent, task, ipc, logged>>

\* accept_async reads the request from the PrefixedStream, the rest of it from
\* the socket, and the client handshake with the server succeeds.
WsAccept ==
    /\ stage = "wsAccept"
    /\ sent["up"] >= Request
    /\ read' = [read EXCEPT !["up"] = IF @ < Request THEN Request ELSE @]
    /\ stage' = "ws"
    /\ prefix' = SubSeq(prefix, Request + 1, Len(prefix))
    /\ task' = [d \in Dirs |-> [at |-> "read", unit |-> 0]]
    /\ UNCHANGED <<reads, upgrade, sent, out, ipc, logged>>

-----------------------------------------------------------------------------
(***************************************************************************)
(* The two ends.                                                           *)
(***************************************************************************)

\* The browser writes once it has the SOCKS5 reply, the server once it is
\* connected.
SideSends(d) ==
    /\ stage \notin IF d = "up" THEN {"handshake", "ended"}
                    ELSE {"handshake", "connecting", "tlsAccept", "tlsConnect",
                          "firstRead", "wsAccept", "ended"}
    /\ task[d].at # "ended"
    /\ sent[d] < MaxUnits[d]
    /\ sent' = [sent EXCEPT ![d] = @ + 1]
    /\ UNCHANGED <<reads, stage, upgrade, read, prefix, task, out, ipc, logged>>

\* A side stops reading for good.  What is written to it may still go into the
\* buffers on the way, or the write waits for ever.
SideStopsReading(d) ==
    /\ stage # "ended"
    /\ reads[d]
    /\ reads' = [reads EXCEPT ![d] = FALSE]
    /\ UNCHANGED <<stage, upgrade, sent, read, prefix, task, out, ipc, logged>>

\* copy_bidirectional of the raw and of the HTTPS relay.
CopyUnit(d) ==
    /\ stage \in {"raw", "https"}
    /\ read[d] < sent[d]
    /\ read' = [read EXCEPT ![d] = @ + 1]
    /\ out' = [out EXCEPT ![d] = Append(@, read[d] + 1)]
    /\ UNCHANGED <<reads, stage, upgrade, sent, prefix, task, ipc, logged>>

CopyEnds == stage \in {"raw", "https"} /\ Become("ended")

\* A bug: the socket is read although bytes that were read ahead remain.
PollReadInner(d) ==
    /\ read[d] < sent[d]
    /\ task' = [task EXCEPT ![d] = [at |-> "sniff", unit |-> read[d] + 1]]
    /\ read' = [read EXCEPT ![d] = @ + 1]
    /\ UNCHANGED prefix

\* PrefixedStream::poll_read: what was read ahead comes first.
PollRead(d) ==
    \/ /\ d = "up" /\ prefix # <<>>
       /\ task' = [task EXCEPT ![d] = [at |-> "sniff", unit |-> Head(prefix)]]
       /\ prefix' = Tail(prefix)
       /\ UNCHANGED read
    \/ /\ d = "down" \/ prefix = <<>>
       /\ read[d] < sent[d]
       /\ task' = [task EXCEPT ![d] = [at |-> "sniff", unit |-> read[d] + 1]]
       /\ read' = [read EXCEPT ![d] = @ + 1]
       /\ UNCHANGED prefix

\* client_read.next() / server_read.next() yields a frame.
NextFrame(d) ==
    /\ stage = "ws"
    /\ task[d].at = "read"
    /\ PollRead(d)
    /\ UNCHANGED <<reads, stage, upgrade, sent, out, ipc, logged>>

\* A bug: the frame is dropped from the capture when the channel is full.
TrySniff(d) ==
    /\ stage = "ws"
    /\ task[d].at = "sniff"
    /\ ipc' = IF task[d].unit \in Texts \/ Len(ipc) = ChannelSize THEN ipc
              ELSE Append(ipc, [dir |-> d, unit |-> task[d].unit])
    /\ task' = [task EXCEPT ![d].at = "write"]
    /\ UNCHANGED <<reads, stage, upgrade, sent, read, prefix, out, logged>>

\* A binary frame is sent to the logger, waiting while the channel is full.
Sniff(d) ==
    /\ stage = "ws"
    /\ task[d].at = "sniff"
    /\ \/ task[d].unit \in Texts /\ UNCHANGED ipc
       \/ /\ task[d].unit \notin Texts
          /\ Len(ipc) < ChannelSize
          /\ ipc' = Append(ipc, [dir |-> d, unit |-> task[d].unit])
    /\ task' = [task EXCEPT ![d].at = "write"]
    /\ UNCHANGED <<reads, stage, upgrade, sent, read, prefix, out, logged>>

\* The frame is forwarded.
ForwardFrame(d) ==
    /\ stage = "ws"
    /\ task[d].at = "write"
    /\ out' = [out EXCEPT ![d] = Append(@, task[d].unit)]
    /\ task' = [task EXCEPT ![d].at = "read"]
    /\ UNCHANGED <<reads, stage, upgrade, sent, read, prefix, ipc, logged>>

\* A read or a write fails, or the server ends its stream: the task breaks
\* out of its loop.  The end of the browser's stream does not end the
\* upstream task: its other branch waits on a sender that is never dropped.
TaskBreaks(d) ==
    /\ stage = "ws"
    /\ task[d].at \in {"read", "write"}
    /\ task' = [task EXCEPT ![d].at = "ended"]
    /\ UNCHANGED <<reads, stage, upgrade, sent, read, prefix, out, ipc, logged>>

\* try_join! returns when both tasks have ended.
Joined ==
    /\ stage = "ws"
    /\ \A d \in Dirs : task[d].at = "ended"
    /\ Become("ended")

\* A bug: the logger gives up after its first frame.
LogOnce ==
    /\ ipc # <<>> /\ logged = <<>>
    /\ logged' = Append(logged, Head(ipc))
    /\ ipc' = Tail(ipc)
    /\ UNCHANGED <<reads, stage, upgrade, sent, read, prefix, task, out>>

\* start_stream_logger
LogFrame ==
    /\ ipc # <<>>
    /\ logged' = Append(logged, Head(ipc))
    /\ ipc' = Tail(ipc)
    /\ UNCHANGED <<reads, stage, upgrade, sent, read, prefix, task, out>>

\* The steps of a relaying task that end without the other side, and those
\* that write to it.
TakesUnit(d)  == NextFrame(d) \/ Sniff(d)
WritesUnit(d) == CopyUnit(d) \/ ForwardFrame(d)

RelayNext ==
    \/ Socks5Handshake \/ Connect \/ TlsAccept \/ TlsConnect \/ SetupFails
    \/ \E n \in 1..MaxUnits["up"] : FirstRead(n)
    \/ WsAccept \/ CopyEnds \/ Joined \/ LogFrame
    \/ \E d \in Dirs : \/ SideSends(d) \/ SideStopsReading(d)
                       \/ TakesUnit(d) \/ WritesUnit(d) \/ TaskBreaks(d)

-----------------------------------------------------------------------------
\* The units of direction d that reach the other side start here: the arbiter
\* keeps the browser's request and makes its own.
Skipped(d) == IF d = "up" /\ stage \in {"ws", "ended"} /\ task[d].at # "idle"
              THEN Request ELSE 0

\* Each side gets what the other one sent, complete and in order: bytes read
\* ahead to recognise the request are neither lost nor overtaken nor sent
\* twice, whichever relay is chosen and however the first read cut the bytes.
StreamIntact == \A d \in Dirs : out[d] = Units(Skipped(d), Len(out[d]))

\* Where the frames of direction d are among those passed on to the logger.
Captured(d) == {i \in DOMAIN (logged \o ipc) : (logged \o ipc)[i].dir = d}

\* The capture misses no binary frame, doubles none and keeps each direction's
\* order: what was captured is what was delivered, with at most the one frame
\* between the two steps, although both tasks share one bounded channel.
CaptureComplete ==
    \A d \in Dirs : task[d].at \in {"read", "sniff"} =>
        LET unit(i) == (logged \o ipc)[i].unit
        IN  /\ {unit(i) : i \in Captured(d)} = Range(out[d]) \ Texts
            /\ \A i, j \in Captured(d) : i < j => unit(i) < unit(j)

\* Every unit that is written reaches the other side, unless the connection or
\* the task of its direction ends or that side stops reading: neither a full
\* capture channel nor the other direction, with a write that waits for ever,
\* blocks a relay for ever.
EveryUnitArrives ==
    \A d \in Dirs : \A u \in 1..MaxUnits[d] :
        (sent[d] >= u /\ stage \in {"raw", "https", "ws"}) ~>
            \/ \E i \in DOMAIN out[d] : out[d][i] = u
            \/ stage = "ended" \/ task[d].at = "ended" \/ u <= Skipped(d)
            \/ ~reads[d]
=============================================================================
