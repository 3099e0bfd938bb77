-------------------------- MODULE CdpClientProofs --------------------------
(***************************************************************************)
(* Proofs about CdpClient, for any commands and any number of sockets,     *)
(* older sockets that close late included.                                 *)
(*                                                                         *)
(* Recovering needs to know whose attempt isConnecting stands for: a timer *)
(* that finds the flag set does nothing, so the flag must mean a request   *)
(* for /json in progress or that this.ws itself is connecting.             *)
(***************************************************************************)
EXTENDS CdpClient, TLAPS

\* this.ws is never a socket that has ended.
WsLive == ws # 0 => sock[ws] \in {"connecting", "open", "closing"}

\* A set flag stands for an attempt that will end.
FlagOwned ==
    isConnecting /\ ~crashed /\ ~isDestroyed =>
        Attempting \/ (ws # 0 /\ sock[ws] = "connecting")

\* What the invariants say of the connection.
ConnectionInv == NoWedge /\ Recovering /\ WsLive /\ FlagOwned

\* A socket that never opened has not sent its setup commands.
Unsent(s) == sock[s] \in {"none", "connecting"}
SetupIdle ==
    \A s \in Sockets, k \in 1..Setup : Unsent(s) => outcome[<<s, k>>] = "idle"

\* The inductive invariant.
IInv == TypeOK /\ MapMatchesPromises /\ ConnectionInv /\ SetupIdle

Outcomes == {"idle", "waiting", "unsettled", "resolved", "rejected"}

\* The shape of the commands' variables, a part of TypeOK.
CommandsOK ==
    /\ outcome \in [Calls -> Outcomes]
    /\ on \in [Calls -> 0..MaxSockets]
    /\ pendingRequests \subseteq Calls
    /\ armed \subseteq Calls

\* The same calls wait for a connection after the step.
SameWaiting == \A c \in Calls : outcome'[c] = "waiting" <=> outcome[c] = "waiting"

-----------------------------------------------------------------------------
(***************************************************************************)
(* What the operations on commands do.                                     *)
(***************************************************************************)

\* The bounds leave room for no socket and one request.
LEMMA Bounds == 0 \in 0..MaxSockets /\ 1 \in 0..MaxFetches
  BY CdpAssumption

\* Registering a call keeps the map, the timeouts and the promises together.
LEMMA RegisterOK ==
    ASSUME TypeOK, MapMatchesPromises, NEW c \in Calls, Register(c)
    PROVE  CommandsOK' /\ MapMatchesPromises' /\ outcome'[c] = "unsettled"
           /\ \A d \in Calls : d # c => outcome'[d] = outcome[d]
  <1>1. outcome' = [outcome EXCEPT ![c] = "unsettled"] /\ outcome \in [Calls -> Outcomes]
    BY DEF Register, Settle, TypeOK, Outcomes
  <1>2. CommandsOK'
    BY <1>1 DEF Register, TypeOK, CommandsOK, Outcomes
  <1>3. MapMatchesPromises'
    BY <1>1 DEF Register, MapMatchesPromises
  <1> QED  BY <1>1, <1>2, <1>3

\* A call that is not pending may be set to any outcome but unsettled.
LEMMA SettleOK ==
    ASSUME TypeOK, MapMatchesPromises, NEW c \in Calls,
           NEW how \in Outcomes \ {"unsettled"}, Settle(c, how),
           pendingRequests' = pendingRequests \ {c}, armed' = armed \ {c},
           on' = on
    PROVE  CommandsOK' /\ MapMatchesPromises' /\ outcome'[c] = how
           /\ \A d \in Calls : d # c => outcome'[d] = outcome[d]
  <1>1. outcome' = [outcome EXCEPT ![c] = how] /\ outcome \in [Calls -> Outcomes]
    BY DEF Settle, TypeOK, Outcomes
  <1>2. CommandsOK'
    BY <1>1 DEF TypeOK, CommandsOK, Outcomes
  <1>3. MapMatchesPromises'
    BY <1>1 DEF MapMatchesPromises
  <1> QED  BY <1>1, <1>2, <1>3

\* So may a call that is not in the map at all.
LEMMA SettleIdleOK ==
    ASSUME TypeOK, MapMatchesPromises, NEW c \in Calls,
           outcome[c] # "unsettled",
           NEW how \in Outcomes \ {"unsettled"}, Settle(c, how),
           UNCHANGED <<on, pendingRequests, armed>>
    PROVE  CommandsOK' /\ MapMatchesPromises' /\ outcome'[c] = how
           /\ \A d \in Calls : d # c => outcome'[d] = outcome[d]
  <1>1. c \notin pendingRequests /\ c \notin armed
    BY DEF MapMatchesPromises
  <1>2. pendingRequests' = pendingRequests \ {c} /\ armed' = armed \ {c}
    BY <1>1
  <1> QED  BY <1>2, SettleOK

\* rejectAllPending settles exactly the pending commands.
LEMMA RejectAllOK ==
    ASSUME TypeOK, MapMatchesPromises, RejectAllPending
    PROVE  CommandsOK' /\ MapMatchesPromises' /\ SameWaiting
  <1>1. outcome' = [c \in Calls |-> IF c \in pendingRequests THEN "rejected"
                                    ELSE outcome[c]]
    BY DEF RejectAllPending
  <1>2. CommandsOK'
    BY <1>1 DEF RejectAllPending, TypeOK, CommandsOK, Outcomes
  <1>3. MapMatchesPromises'
    BY <1>1 DEF RejectAllPending, MapMatchesPromises
  <1>4. SameWaiting
    BY <1>1 DEF MapMatchesPromises, SameWaiting
  <1> QED  BY <1>2, <1>3, <1>4

\* Commands that leave the connection alone keep what is said of it.
LEMMA ConnectionUntouched ==
    ASSUME ConnectionInv, UNCHANGED <<connection, crashed>>,
           \A c \in Calls : outcome[c] = "waiting" => outcome'[c] = "waiting"
    PROVE  ConnectionInv'
  <1>1. Attempting => Attempting'
    BY DEF Attempting, connection
  <1> QED  BY <1>1 DEF ConnectionInv, NoWedge, Recovering, WsLive, FlagOwned, connection

\* The type invariant, from its two parts.
LEMMA TypeFromParts ==
    ASSUME TypeOK, CommandsOK', UNCHANGED <<connection, crashed>>
    PROVE  TypeOK'
  BY DEF TypeOK, CommandsOK, Outcomes, connection

\* A step that starts no setup command of an unopened socket.
LEMMA SetupKept ==
    ASSUME SetupIdle,
           \A s \in Sockets : Unsent(s)' => Unsent(s),
           \A s \in Sockets, k \in 1..Setup :
               Unsent(s)' /\ outcome[<<s, k>>] = "idle" => outcome'[<<s, k>>] = "idle"
    PROVE  SetupIdle'
  BY DEF SetupIdle

\* A step on one call that was under way starts no other.
LEMMA SetupKeptByOne ==
    ASSUME SetupIdle, NEW c \in Calls, outcome[c] # "idle",
           \A s \in Sockets : Unsent(s)' => Unsent(s),
           \A d \in Calls : d # c => outcome'[d] = outcome[d]
    PROVE  SetupIdle'
  <1>1. \A s \in Sockets, k \in 1..Setup : <<s, k>> \in Calls
    BY DEF Calls, SetupCalls
  <1> QED  BY <1>1, SetupKept

\* send() keeps the invariant, whoever calls it.
LEMMA SendIInv ==
    ASSUME IInv, ~crashed, NEW c \in Calls, Send(c), crashed' = crashed,
           \A s \in Sockets, k \in 1..Setup : Unsent(s) => c # <<s, k>>
    PROVE  IInv'
  <1>1. /\ TypeOK /\ MapMatchesPromises /\ ConnectionInv /\ SetupIdle
        /\ outcome[c] = "idle" /\ outcome[c] # "unsettled"
    BY DEF IInv, Send
  <1>2. ASSUME \A d \in Calls : d # c => outcome'[d] = outcome[d], sock' = sock
        PROVE  SetupIdle'
    <2>1. \A s \in Sockets, k \in 1..Setup : <<s, k>> \in Calls
      BY DEF Calls, SetupCalls
    <2> QED  BY <1>1, <1>2, <2>1 DEF SetupIdle, Unsent
  <1>3. CASE Register(c) /\ UNCHANGED connection
    <2>1. CommandsOK' /\ MapMatchesPromises' /\ outcome'[c] = "unsettled"
          /\ \A d \in Calls : d # c => outcome'[d] = outcome[d]
      BY <1>1, <1>3, RegisterOK
    <2>2. \A d \in Calls : outcome[d] = "waiting" => outcome'[d] = "waiting"
      BY <1>1, <2>1
    <2>3. SetupIdle'
      BY <1>2, <1>3, <2>1 DEF connection
    <2> QED  BY <1>1, <1>3, <2>1, <2>2, <2>3, ConnectionUntouched, TypeFromParts DEF IInv
  <1>4. CASE Refuse(c) /\ UNCHANGED connection
    <2>1. CommandsOK' /\ MapMatchesPromises' /\ outcome'[c] = "rejected"
          /\ \A d \in Calls : d # c => outcome'[d] = outcome[d]
      BY <1>1, <1>4, SettleIdleOK DEF Refuse, Outcomes
    <2>2. \A d \in Calls : outcome[d] = "waiting" => outcome'[d] = "waiting"
      BY <1>1, <2>1
    <2>3. SetupIdle'
      BY <1>2, <1>4, <2>1 DEF connection
    <2> QED  BY <1>1, <1>4, <2>1, <2>2, <2>3, ConnectionUntouched, TypeFromParts DEF IInv
  <1>5. CASE /\ MayConnect
             /\ Settle(c, "waiting")
             /\ isConnecting' = TRUE
             /\ UNCHANGED <<sock, ws, reconnectTimer, isDestroyed, fetching, on,
                            pendingRequests, armed>>
    <2>1. CommandsOK' /\ MapMatchesPromises' /\ outcome'[c] = "waiting"
          /\ \A d \in Calls : d # c => outcome'[d] = outcome[d]
      BY <1>1, <1>5, SettleIdleOK DEF Outcomes
    <2>2. TypeOK'
      BY <1>1, <1>5, <2>1 DEF TypeOK, CommandsOK, Outcomes
    <2>3. Attempting'
      BY <2>1 DEF Attempting
    <2>4. ConnectionInv'
      BY <1>1, <1>5, <2>3 DEF ConnectionInv, NoWedge, Recovering, WsLive, FlagOwned
    <2>5. SetupIdle'
      BY <1>2, <1>5, <2>1
    <2> QED  BY <2>1, <2>2, <2>4, <2>5 DEF IInv
  <1> QED  BY <1>3, <1>4, <1>5 DEF Send

-----------------------------------------------------------------------------
\* The initial states satisfy the inductive invariant.
LEMMA InitIInv == Init => IInv
  <1> SUFFICES ASSUME Init PROVE IInv
    OBVIOUS
  <1>1. TypeOK
    BY Bounds DEF Init, TypeOK, States
  <1>2. MapMatchesPromises
    BY DEF Init, MapMatchesPromises
  <1>3. Attempting
    BY DEF Init, Attempting
  <1>4. ConnectionInv
    BY <1>3 DEF Init, ConnectionInv, NoWedge, Recovering, WsLive, FlagOwned
  <1>5. SetupIdle
    BY DEF Init, SetupIdle, Calls, SetupCalls
  <1> QED  BY <1>1, <1>2, <1>4, <1>5 DEF IInv

\* A settled command leaves the connection alone.
LEMMA SettledIInv ==
    ASSUME IInv, NEW c \in pendingRequests, NEW how \in {"resolved", "rejected"},
           Settle(c, how), pendingRequests' = pendingRequests \ {c},
           armed' = armed \ {c}, UNCHANGED <<connection, on, crashed>>
    PROVE  IInv'
  <1>1. TypeOK /\ MapMatchesPromises /\ ConnectionInv /\ SetupIdle
    BY DEF IInv
  <1>2. c \in Calls /\ outcome[c] = "unsettled"
    BY <1>1 DEF MapMatchesPromises
  <1>3. CommandsOK' /\ MapMatchesPromises' /\ outcome'[c] = how
        /\ \A d \in Calls : d # c => outcome'[d] = outcome[d]
    BY <1>1, <1>2, SettleOK DEF Outcomes
  <1>4. \A d \in Calls : outcome[d] = "waiting" => outcome'[d] = "waiting"
    BY <1>2, <1>3
  <1>5. SetupIdle'
    BY <1>1, <1>2, <1>3, SetupKeptByOne DEF Unsent, connection
  <1> QED  BY <1>1, <1>3, <1>4, <1>5, ConnectionUntouched, TypeFromParts DEF IInv

\* A new socket becomes this.ws.
LEMMA NewSocketOK ==
    ASSUME TypeOK, NEW s \in Sockets, NewSocket(s)
    PROVE  /\ sock' \in [Sockets -> States] /\ ws' \in 0..MaxSockets
           /\ ws' # 0 /\ sock'[ws'] = "connecting" /\ ws' \in Sockets
           /\ \A r \in Sockets : Unsent(r)' => Unsent(r)
  <1>1. s \in 1..MaxSockets /\ s # 0 /\ s \in 0..MaxSockets
    BY CdpAssumption DEF Sockets
  <1> QED  BY <1>1 DEF TypeOK, NewSocket, States, Unsent

\* A connection whose this.ws is connecting needs nothing else.
LEMMA ConnectingWs ==
    ASSUME ws # 0, sock[ws] = "connecting", ws \in Sockets
    PROVE  ConnectionInv
  BY DEF ConnectionInv, NoWedge, Recovering, WsLive, FlagOwned

\* An attempt that failed leaves a timer.
LEMMA FetchErrorOK ==
    ASSUME TypeOK, ConnectionInv, FetchError
    PROVE  ConnectionInv' /\ isConnecting' \in BOOLEAN /\ reconnectTimer' \in BOOLEAN
  BY DEF TypeOK, ConnectionInv, NoWedge, Recovering, WsLive, FlagOwned,
         FetchError, ScheduleReconnect

\* The open handler of a socket.
LEMMA OpensIInv ==
    ASSUME IInv, NEW s \in Sockets, SocketOpens(s)
    PROVE  IInv'
  <1> DEFINE c == <<s, 1>>
  <1>a. TypeOK /\ MapMatchesPromises /\ ConnectionInv /\ SetupIdle
    BY DEF IInv
  <1>1. /\ sock[s] = "connecting" /\ sock' = [sock EXCEPT ![s] = "open"]
        /\ ~crashed /\ OpenHandler(s)
        /\ UNCHANGED <<ws, reconnectTimer, isDestroyed, fetching, crashed>>
    BY DEF SocketOpens
  <1>2. sock' \in [Sockets -> States]
    BY <1>a, <1>1 DEF TypeOK, States
  <1>3. WsLive'
    BY <1>a, <1>1 DEF TypeOK, ConnectionInv, WsLive, Sockets
  <1>4. \A r \in Sockets : Unsent(r)' => Unsent(r) /\ r # s
    BY <1>a, <1>1 DEF TypeOK, Unsent
  <1>5. CASE UNCHANGED commands /\ isConnecting' = FALSE
    <2>1. CommandsOK' /\ MapMatchesPromises'
      BY <1>a, <1>5 DEF TypeOK, CommandsOK, Outcomes, MapMatchesPromises, commands
    <2>2. Attempting' <=> Attempting
      BY <1>1, <1>5 DEF Attempting, commands
    <2>3. ConnectionInv'
      BY <1>a, <1>1, <1>3, <1>5, <2>2
         DEF TypeOK, ConnectionInv, NoWedge, Recovering, FlagOwned, WsLive
    <2>4. TypeOK'
      BY <1>a, <1>1, <1>2, <1>5, <2>1 DEF TypeOK, CommandsOK, Outcomes
    <2>5. SetupIdle'
      BY <1>a, <1>4, <1>5, SetupKept DEF commands
    <2> QED  BY <2>1, <2>3, <2>4, <2>5 DEF IInv
  <1>6. ASSUME Setup # 0 PROVE c \in Calls /\ outcome[c] = "idle"
    <2>1. 1 \in 1..Setup
      BY <1>6, CdpAssumption
    <2> QED  BY <1>a, <1>1, <2>1 DEF Calls, SetupCalls, SetupIdle, Unsent
  <1>7. ASSUME Setup # 0, \A d \in Calls : d # c => outcome'[d] = outcome[d]
        PROVE  SetupIdle'
    <2>1. \A r \in Sockets, k \in 1..Setup :
            <<r, k>> \in Calls /\ (r # s => <<r, k>> # c)
      BY DEF Calls, SetupCalls
    <2> QED  BY <1>a, <1>4, <1>7, <2>1, SetupKept
  <1>8. CASE Setup # 0 /\ ws # 0 /\ Register(c) /\ isConnecting' = FALSE
    <2>1. CommandsOK' /\ MapMatchesPromises'
          /\ \A d \in Calls : d # c => outcome'[d] = outcome[d]
      BY <1>a, <1>6, <1>8, RegisterOK
    <2>2. ConnectionInv'
      BY <1>1, <1>3, <1>8 DEF ConnectionInv, NoWedge, Recovering, FlagOwned, WsLive
    <2>3. TypeOK'
      BY <1>a, <1>1, <1>2, <1>8, <2>1 DEF TypeOK, CommandsOK, Outcomes
    <2> QED  BY <1>7, <1>8, <2>1, <2>2, <2>3 DEF IInv
  <1>9. CASE Setup # 0 /\ isDestroyed /\ Refuse(c) /\ isConnecting' = FALSE
    <2>1. CommandsOK' /\ MapMatchesPromises'
          /\ \A d \in Calls : d # c => outcome'[d] = outcome[d]
      BY <1>a, <1>6, <1>9, SettleIdleOK DEF Refuse, Outcomes
    <2>2. ConnectionInv'
      BY <1>1, <1>3, <1>9 DEF ConnectionInv, NoWedge, Recovering, FlagOwned
    <2>3. TypeOK'
      BY <1>a, <1>1, <1>2, <1>9, <2>1 DEF TypeOK, CommandsOK, Outcomes
    <2> QED  BY <1>7, <1>9, <2>1, <2>2, <2>3 DEF IInv
  <1>10. CASE /\ Setup # 0 /\ Settle(c, "waiting") /\ isConnecting' = TRUE
              /\ UNCHANGED <<on, pendingRequests, armed>>
    <2>1. CommandsOK' /\ MapMatchesPromises' /\ outcome'[c] = "waiting"
          /\ \A d \in Calls : d # c => outcome'[d] = outcome[d]
      BY <1>a, <1>6, <1>10, SettleIdleOK DEF Outcomes
    <2>2. Attempting'
      BY <1>6, <1>10, <2>1 DEF Attempting
    <2>3. ConnectionInv'
      BY <1>3, <2>2 DEF ConnectionInv, NoWedge, Recovering, FlagOwned
    <2>4. TypeOK'
      BY <1>a, <1>1, <1>2, <1>10, <2>1 DEF TypeOK, CommandsOK, Outcomes
    <2> QED  BY <1>7, <1>10, <2>1, <2>3, <2>4 DEF IInv
  <1> QED  BY <1>1, <1>5, <1>8, <1>9, <1>10 DEF OpenHandler

\* Every step keeps the inductive invariant.
LEMMA NextIInv == IInv /\ [Next]_vars => IInv'
  <1> SUFFICES ASSUME IInv, [Next]_vars PROVE IInv'
    OBVIOUS
  <1>a. TypeOK /\ MapMatchesPromises /\ ConnectionInv /\ SetupIdle
    BY DEF IInv
  <1>b. CommandsOK
    BY <1>a DEF TypeOK, CommandsOK, Outcomes
  <1>1. ASSUME NEW c \in Users, Command(c) PROVE IInv'
    <2>1. c \in Calls /\ c \notin SetupCalls
      BY CdpAssumption DEF Calls
    <2>2. \A s \in Sockets, k \in 1..Setup : c # <<s, k>>
      BY <2>1 DEF SetupCalls
    <2> QED  BY <1>1, <2>1, <2>2, SendIInv DEF Command
  <1>2. ASSUME NEW s \in Sockets, NEW k \in 1..Setup, SetupNext(s, k) PROVE IInv'
    <2>1. <<s, k>> \in Calls /\ k - 1 \in 1..Setup
      BY <1>2, CdpAssumption DEF Calls, SetupCalls, SetupNext
    <2>2. ~Unsent(s)
      BY <1>a, <1>2, <2>1 DEF SetupIdle, SetupNext
    <2>3. \A r \in Sockets, j \in 1..Setup : Unsent(r) => <<s, k>> # <<r, j>>
      BY <2>2
    <2> QED  BY <1>2, <2>1, <2>3, SendIInv DEF SetupNext
  <1>3. ASSUME NEW c \in Calls, NEW how \in {"resolved", "rejected"}, Reply(c, how)
        PROVE  IInv'
    BY <1>3, SettledIInv DEF Reply
  <1>4. ASSUME NEW c \in Calls, Timeout(c) PROVE IInv'
    <2>1. c \in pendingRequests
      BY <1>a, <1>4 DEF Timeout, MapMatchesPromises
    <2>2. Settle(c, "rejected")
      BY <1>4, <2>1 DEF Timeout, Settle
    <2> QED  BY <1>4, <2>1, <2>2, SettledIInv DEF Timeout
  <1>5. ASSUME NEW c \in Calls, WriteFails(c) PROVE IInv'
    BY <1>5, SettledIInv DEF WriteFails
  <1>6. ASSUME NEW c \in Calls, CallFetchFails(c) PROVE IInv'
    <2>1. FetchError /\ outcome[c] = "waiting" /\ (Register(c) \/ Refuse(c))
          /\ UNCHANGED fetching
      BY <1>6 DEF CallFetchFails
    <2>2. CommandsOK' /\ MapMatchesPromises'
          /\ \A d \in Calls : d # c => outcome'[d] = outcome[d]
      <3>1. CASE Register(c)
        BY <1>a, <3>1, RegisterOK
      <3>2. CASE Refuse(c)
        BY <1>a, <2>1, <3>2, SettleIdleOK DEF Refuse, Outcomes
      <3> QED  BY <2>1, <3>1, <3>2
    <2>3. ConnectionInv' /\ isConnecting' \in BOOLEAN /\ reconnectTimer' \in BOOLEAN
      BY <1>a, <2>1, FetchErrorOK
    <2>4. TypeOK'
      BY <1>a, <2>1, <2>2, <2>3 DEF TypeOK, CommandsOK, Outcomes, FetchError
    <2>5. SetupIdle'
      BY <1>a, <2>1, <2>2, SetupKeptByOne DEF Unsent, FetchError
    <2> QED  BY <2>2, <2>3, <2>4, <2>5 DEF IInv
  <1>7. ASSUME NEW c \in Calls, NEW s \in Sockets, CallFetchSucceeds(c, s) PROVE IInv'
    <2>1. NewSocket(s) /\ Refuse(c) /\ outcome[c] = "waiting" /\ UNCHANGED fetching
      BY <1>7 DEF CallFetchSucceeds
    <2>2. CommandsOK' /\ MapMatchesPromises'
          /\ \A d \in Calls : d # c => outcome'[d] = outcome[d]
      BY <1>a, <2>1, SettleIdleOK DEF Refuse, Outcomes
    <2>3. /\ sock' \in [Sockets -> States] /\ ws' \in 0..MaxSockets
          /\ ws' # 0 /\ sock'[ws'] = "connecting" /\ ws' \in Sockets
          /\ \A r \in Sockets : Unsent(r)' => Unsent(r)
      BY <1>a, <2>1, NewSocketOK
    <2>4. ConnectionInv'
      BY <2>3 DEF ConnectionInv, NoWedge, Recovering, WsLive, FlagOwned
    <2>5. TypeOK'
      BY <1>a, <2>1, <2>2, <2>3 DEF TypeOK, CommandsOK, Outcomes, NewSocket
    <2>6. SetupIdle'
      BY <1>a, <2>1, <2>2, <2>3, SetupKeptByOne
    <2> QED  BY <2>2, <2>4, <2>5, <2>6 DEF IInv
  <1>8. ASSUME NEW s \in Sockets, FetchSucceeds(s) PROVE IInv'
    <2>1. NewSocket(s) /\ UNCHANGED commands /\ fetching > 0 /\ fetching' = fetching - 1
      BY <1>8 DEF FetchSucceeds
    <2>2. CommandsOK' /\ MapMatchesPromises'
      BY <1>a, <1>b, <2>1 DEF CommandsOK, MapMatchesPromises, commands
    <2>3. /\ sock' \in [Sockets -> States] /\ ws' \in 0..MaxSockets
          /\ ws' # 0 /\ sock'[ws'] = "connecting" /\ ws' \in Sockets
          /\ \A r \in Sockets : Unsent(r)' => Unsent(r)
      BY <1>a, <2>1, NewSocketOK
    <2>4. ConnectionInv'
      BY <2>3 DEF ConnectionInv, NoWedge, Recovering, WsLive, FlagOwned
    <2>5. fetching' \in 0..MaxFetches
      BY <1>a, <2>1, CdpAssumption DEF TypeOK
    <2>6. TypeOK'
      BY <1>a, <2>1, <2>2, <2>3, <2>5 DEF TypeOK, CommandsOK, Outcomes, NewSocket
    <2>7. SetupIdle'
      BY <1>a, <2>1, <2>3, SetupKept DEF commands
    <2> QED  BY <2>2, <2>4, <2>6, <2>7 DEF IInv
  <1>9. ASSUME NEW s \in Sockets, SocketOpens(s) PROVE IInv'
    BY <1>9, OpensIInv
  <1>10. ASSUME NEW s \in Sockets, SocketCloses(s) PROVE IInv'
    <2>1. /\ sock[s] = "open" /\ sock' = [sock EXCEPT ![s] = "closing"]
          /\ UNCHANGED <<ws, isConnecting, reconnectTimer, isDestroyed, fetching,
                         commands, crashed>>
      BY <1>10 DEF SocketCloses
    <2>2. CommandsOK' /\ MapMatchesPromises'
      BY <1>a, <1>b, <2>1 DEF CommandsOK, MapMatchesPromises, commands
    <2>3. TypeOK'
      BY <1>a, <2>1, <2>2 DEF TypeOK, CommandsOK, Outcomes, States
    <2>4. Attempting' <=> Attempting
      BY <2>1 DEF Attempting, commands
    <2>5. ConnectionInv'
      BY <1>a, <2>1, <2>4
         DEF TypeOK, Sockets, ConnectionInv, NoWedge, Recovering, WsLive, FlagOwned
    <2>6. SetupIdle'
      BY <1>a, <2>1, SetupKept DEF commands, Unsent, TypeOK
    <2> QED  BY <2>2, <2>3, <2>5, <2>6 DEF IInv
  <1>11. ASSUME NEW s \in Sockets, SocketClosed(s) PROVE IInv'
    <2>1. /\ sock[s] = "closing" /\ sock' = [sock EXCEPT ![s] = "closed"]
          /\ ws' = 0 /\ isConnecting' = FALSE /\ RejectAllPending
          /\ reconnectTimer' = (reconnectTimer \/ ~isDestroyed)
          /\ UNCHANGED <<isDestroyed, fetching, crashed>>
      BY <1>11 DEF SocketClosed, ScheduleReconnect
    <2>2. CommandsOK' /\ MapMatchesPromises' /\ SameWaiting
      BY <1>a, <2>1, RejectAllOK
    <2>3. reconnectTimer' \in BOOLEAN
      BY <2>1, Zenon
    <2>4. TypeOK'
      BY <1>a, <2>1, <2>2, <2>3, Bounds DEF TypeOK, CommandsOK, Outcomes, States
    <2>5. ConnectionInv'
      BY <1>a, <2>1 DEF TypeOK, ConnectionInv, NoWedge, Recovering, WsLive, FlagOwned
    <2>6. SetupIdle'
      <3>1. \A c \in Calls : outcome[c] = "idle" => outcome'[c] = "idle"
        BY <1>a, <2>1 DEF RejectAllPending, MapMatchesPromises
      <3>2. \A r \in Sockets, k \in 1..Setup : <<r, k>> \in Calls
        BY DEF Calls, SetupCalls
      <3>3. \A r \in Sockets : Unsent(r)' => Unsent(r)
        BY <1>a, <2>1 DEF Unsent, TypeOK
      <3> QED  BY <1>a, <3>1, <3>2, <3>3, SetupKept
    <2> QED  BY <2>2, <2>4, <2>5, <2>6 DEF IInv
  <1>12. ASSUME NEW s \in Sockets, SocketError(s) PROVE IInv'
    <2>1. /\ crashed' = TRUE /\ isConnecting' = FALSE
          /\ UNCHANGED <<sock, ws, reconnectTimer, isDestroyed, fetching, commands>>
      BY <1>12 DEF SocketError
    <2>2. TypeOK' /\ MapMatchesPromises' /\ SetupIdle'
      BY <1>a, <2>1 DEF TypeOK, MapMatchesPromises, SetupIdle, Unsent, commands
    <2>3. ConnectionInv'
      BY <1>a, <2>1 DEF ConnectionInv, NoWedge, Recovering, WsLive, FlagOwned
    <2> QED  BY <2>2, <2>3 DEF IInv
  <1>13. CASE FetchFails
    <2>1. FetchError /\ UNCHANGED commands /\ fetching > 0 /\ fetching' = fetching - 1
      BY <1>13 DEF FetchFails
    <2>2. CommandsOK' /\ MapMatchesPromises'
      BY <1>a, <1>b, <2>1 DEF CommandsOK, MapMatchesPromises, commands
    <2>3. ConnectionInv' /\ isConnecting' \in BOOLEAN /\ reconnectTimer' \in BOOLEAN
      BY <1>a, <2>1, FetchErrorOK
    <2>4. fetching' \in 0..MaxFetches
      BY <1>a, <2>1, CdpAssumption DEF TypeOK
    <2>5. TypeOK'
      BY <1>a, <2>1, <2>2, <2>3, <2>4 DEF TypeOK, CommandsOK, Outcomes, FetchError
    <2>6. SetupIdle'
      BY <1>a, <2>1 DEF SetupIdle, Unsent, FetchError, commands
    <2> QED  BY <2>2, <2>3, <2>5, <2>6 DEF IInv
  <1>14. CASE ReconnectTimerFires
    <2>1. /\ reconnectTimer' = FALSE
          /\ UNCHANGED <<sock, ws, isDestroyed, commands, crashed>>
      BY <1>14 DEF ReconnectTimerFires
    <2>2. CommandsOK' /\ MapMatchesPromises' /\ SetupIdle'
      BY <1>a, <1>b, <2>1 DEF CommandsOK, MapMatchesPromises, SetupIdle, Unsent, commands
    <2>3. CASE fetching < MaxFetches /\ fetching' = fetching + 1 /\ isConnecting' = TRUE
      <3>1. fetching' \in 0..MaxFetches /\ fetching' > 0
        BY <1>a, <2>3, CdpAssumption DEF TypeOK
      <3>2. TypeOK'
        BY <1>a, <2>1, <2>2, <2>3, <3>1 DEF TypeOK, CommandsOK, Outcomes
      <3>3. ConnectionInv'
        BY <1>a, <2>1, <3>1
           DEF ConnectionInv, NoWedge, Recovering, WsLive, FlagOwned, Attempting
      <3> QED  BY <2>2, <3>2, <3>3 DEF IInv
    <2>4. CASE ~MayConnect /\ UNCHANGED <<fetching, isConnecting>>
      <3>1. TypeOK'
        BY <1>a, <2>1, <2>2, <2>4 DEF TypeOK, CommandsOK, Outcomes
      <3>2. Attempting' <=> Attempting
        BY <2>1, <2>4 DEF Attempting, commands
      <3>3. ConnectionInv'
        BY <1>a, <2>1, <2>4, <3>2
           DEF ConnectionInv, NoWedge, Recovering, WsLive, FlagOwned, MayConnect, WsOpen
      <3> QED  BY <2>2, <3>1, <3>3 DEF IInv
    <2> QED  BY <1>14, <2>3, <2>4 DEF ReconnectTimerFires
  <1>15. CASE Restart
    <2>1. TypeOK'
      BY <1>15, Bounds DEF Restart, TypeOK, States
    <2>2. MapMatchesPromises'
      BY <1>15 DEF Restart, MapMatchesPromises
    <2>3. ConnectionInv'
      BY <1>15 DEF Restart, ConnectionInv, NoWedge, Recovering, WsLive, FlagOwned,
                   Attempting
    <2>4. SetupIdle'
      BY <1>15 DEF Restart, SetupIdle, Calls, SetupCalls
    <2> QED  BY <2>1, <2>2, <2>3, <2>4 DEF IInv
  <1>16. CASE Destroy
    <2>1. /\ isDestroyed' = TRUE /\ reconnectTimer' = FALSE /\ RejectAllPending
          /\ sock' = IF ws = 0 THEN sock
                     ELSE [sock EXCEPT ![ws] = CASE @ = "open" -> "closing"
                                                 [] @ = "connecting" -> "aborting"
                                                 [] OTHER -> @]
          /\ ws' = 0 /\ UNCHANGED <<isConnecting, fetching, crashed>>
      BY <1>16 DEF Destroy
    <2>2. CommandsOK' /\ MapMatchesPromises' /\ SameWaiting
      BY <1>a, <2>1, RejectAllOK
    <2>3. /\ sock' \in [Sockets -> States]
          /\ \A r \in Sockets : Unsent(r)' => Unsent(r)
          /\ \A r \in Sockets : sock[r] \in {"connecting", "aborting"} =>
                                   sock'[r] \in {"connecting", "aborting"}
      <3>1. CASE ws = 0
        BY <1>a, <2>1, <3>1 DEF TypeOK, Unsent
      <3>2. CASE ws # 0
        <4>1. ws \in Sockets /\ sock \in [Sockets -> States]
          BY <1>a, <3>2, CdpAssumption DEF TypeOK, Sockets
        <4>2. sock' = [sock EXCEPT ![ws] =
                         IF sock[ws] = "open" THEN "closing"
                         ELSE IF sock[ws] = "connecting" THEN "aborting"
                         ELSE sock[ws]]
          BY <2>1, <3>2
        <4> QED  BY <4>1, <4>2 DEF Unsent, States
      <3> QED  BY <3>1, <3>2
    <2>4. TypeOK'
      BY <1>a, <2>1, <2>2, <2>3, Bounds DEF TypeOK, CommandsOK, Outcomes
    <2>5. Attempting' <=> Attempting
      BY <2>1, <2>2 DEF Attempting, SameWaiting
    <2>6. ConnectionInv'
      BY <1>a, <2>1, <2>3, <2>5
         DEF ConnectionInv, NoWedge, Recovering, WsLive, FlagOwned
    <2>7. SetupIdle'
      <3>1. \A c \in Calls : outcome[c] = "idle" => outcome'[c] = "idle"
        BY <1>a, <2>1 DEF RejectAllPending, MapMatchesPromises
      <3>2. \A r \in Sockets, k \in 1..Setup : <<r, k>> \in Calls
        BY DEF Calls, SetupCalls
      <3> QED  BY <1>a, <2>3, <3>1, <3>2, SetupKept
    <2> QED  BY <2>2, <2>4, <2>6, <2>7 DEF IInv
  <1>17. CASE UNCHANGED vars
    <2>1. UNCHANGED <<connection, commands, crashed>>
      BY <1>17 DEF vars
    <2>2. CommandsOK' /\ MapMatchesPromises' /\ SetupIdle'
      BY <1>a, <1>b, <2>1
         DEF CommandsOK, MapMatchesPromises, SetupIdle, Unsent, commands, connection
    <2>3. \A c \in Calls : outcome[c] = "waiting" => outcome'[c] = "waiting"
      BY <2>1 DEF commands
    <2> QED  BY <1>a, <2>1, <2>2, <2>3, ConnectionUntouched, TypeFromParts DEF IInv
  <1> QED
    BY <1>1, <1>2, <1>3, <1>4, <1>5, <1>6, <1>7, <1>8, <1>9, <1>10, <1>11,
       <1>12, <1>13, <1>14, <1>15, <1>16, <1>17 DEF Next

-----------------------------------------------------------------------------
\* Type correctness of the CDP client.
THEOREM TypeCorrect == Spec => []TypeOK
  <1>1. IInv => TypeOK
    BY DEF IInv
  <1> QED  BY <1>1, InitIInv, NextIInv, PTL DEF Spec

\* pendingRequests, the armed timeouts and the unsettled promises of send()
\* are always of the same commands.
THEOREM MapMatchesPromisesHolds == Spec => []MapMatchesPromises
  <1>1. IInv => MapMatchesPromises
    BY DEF IInv
  <1> QED  BY <1>1, InitIInv, NextIInv, PTL DEF Spec

\* isConnecting is never left set, and a client without a session is always
\* on its way to one, however many sockets close late.
THEOREM Reconnects == Spec => [](NoWedge /\ Recovering)
  <1>1. IInv => NoWedge /\ Recovering
    BY DEF IInv, ConnectionInv
  <1> QED  BY <1>1, InitIInv, NextIInv, PTL DEF Spec
=============================================================================
