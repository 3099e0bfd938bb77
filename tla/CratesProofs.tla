---------------------------- MODULE CratesProofs ----------------------------
(***************************************************************************)
(* Theorems about the crates composed in Crates: the ratchet for any       *)
(* number of messages, the idle-session counter for any number of threads  *)
(* and accounts, the proxy's relay for any amount of traffic, request and  *)
(* channel size, and the sequence NAT for any number of sub-clients.       *)
(***************************************************************************)
EXTENDS Crates, FiniteSetTheorems, SequenceTheorems, TLAPS

-----------------------------------------------------------------------------
(***************************************************************************)
(* Ratchet.                                                                *)
(***************************************************************************)

RatchetTypeOK ==
    /\ send_chain_key \in Nat /\ send_msg_index \in 0..MaxMsgs
    /\ recv_chain_key \in Nat /\ recv_msg_index \in Nat
    /\ packets \subseteq Packet
    /\ skipped_keys \subseteq [index : Nat, key : Nat]

\* Each chain is at the step that its index names, the receiver is not ahead of
\* the sender, and a key carries its index.
InStep ==
    /\ send_chain_key = send_msg_index
    /\ recv_chain_key = recv_msg_index
    /\ recv_msg_index <= send_msg_index
    /\ \A p \in packets : p.key = p.index /\ p.index < send_msg_index
    /\ \A s \in skipped_keys : s.key = s.index

\* What is still to arrive is ahead of the receiver or has its key set aside.
Reachable ==
    \A p \in packets : \/ p.index >= recv_msg_index
                       \/ \E s \in skipped_keys : s.index = p.index

RatchetInv == RatchetTypeOK /\ InStep /\ Reachable /\ EveryArrivalOpens

\* The bound on messages is a number.
LEMMA MaxMsgsNat == MaxMsgs \in Nat
BY RatchetAssumption, SMT

\* A step keeps the chains in step.  A key is used up by the one packet of its
\* index, so that no other packet needs it: this is where a transport that
\* duplicates packets would break the receiver.
LEMMA RatchetStep ==
    ASSUME Duplicates = FALSE, RatchetInv, RatchetNext
    PROVE  RatchetInv'
<1> USE MaxMsgsNat
<1>0. \A p \in packets : /\ p.index \in 0..MaxMsgs
                         /\ p.key = p.index
                         /\ p = [index |-> p.index, key |-> p.index]
  BY DEF RatchetInv, RatchetTypeOK, InStep, Packet
<1>1. CASE Encrypt
  <2> DEFINE new == [index |-> send_msg_index, key |-> send_chain_key]
  <2>1. new \in Packet /\ send_msg_index + 1 \in 0..MaxMsgs
    BY <1>1 DEF Encrypt, RatchetInv, RatchetTypeOK, InStep, Packet
  <2>2. RatchetTypeOK' /\ InStep'
    BY <1>0, <1>1, <2>1 DEF Encrypt, RatchetInv, RatchetTypeOK, InStep
  <2>3. Reachable'
    BY <1>1 DEF Encrypt, RatchetInv, RatchetTypeOK, InStep, Reachable
  <2> QED
    BY <1>1, <2>2, <2>3 DEF Encrypt, RatchetInv, EveryArrivalOpens
<1>2. ASSUME NEW p \in packets, DecryptSkipped(p)  PROVE RatchetInv'
  <2>1. PICK s \in skipped_keys :
          /\ s.index = p.index
          /\ skipped_keys' = skipped_keys \ {s}
          /\ Opens(p, s.key)
          /\ Taken(p)
          /\ UNCHANGED <<send_chain_key, send_msg_index, recv_chain_key, recv_msg_index>>
    BY <1>2 DEF DecryptSkipped
  <2>2. packets' = packets \ {p}
    BY <2>1 DEF Taken
  <2>3. RatchetTypeOK' /\ InStep'
    BY <2>1, <2>2 DEF RatchetInv, RatchetTypeOK, InStep
  <2>4. Reachable'
    <3> SUFFICES ASSUME NEW q \in packets \ {p}
                 PROVE  \/ q.index >= recv_msg_index
                        \/ \E r \in skipped_keys \ {s} : r.index = q.index
      BY <2>1, <2>2 DEF Reachable
    <3>1. q.index # p.index
      BY <1>0
    <3> QED
      BY <2>1, <3>1 DEF RatchetInv, Reachable
  <2>5. unopened' = unopened
    BY <1>0, <2>1 DEF Opens, RatchetInv, InStep
  <2> QED
    BY <2>3, <2>4, <2>5 DEF RatchetInv, EveryArrivalOpens
<1>3. ASSUME NEW p \in packets, DecryptNext(p)  PROVE RatchetInv'
  <2>1. /\ packets' = packets \ {p}
        /\ skipped_keys' = skipped_keys \cup PassedOver(p)
        /\ UNCHANGED <<send_chain_key, send_msg_index>>
    BY <1>3 DEF DecryptNext, Taken
  <2>2. p.index >= recv_msg_index
    BY <1>3 DEF DecryptNext, RatchetInv, Reachable
  <2>3. Gap(p) = p.index - recv_msg_index /\ Gap(p) \in Nat
    BY <1>0, <2>2 DEF Gap, RatchetInv, RatchetTypeOK
  <2>4. /\ recv_msg_index' = p.index + 1
        /\ recv_chain_key' = p.index + 1
        /\ unopened' = unopened
    BY <1>0, <1>3, <2>2, <2>3
       DEF DecryptNext, Opens, RatchetInv, RatchetTypeOK, InStep
  <2>5. PassedOver(p) = {[index |-> i, key |-> i] : i \in recv_msg_index..(p.index - 1)}
    <3>1. \A i \in 0..(Gap(p) - 1) :
            /\ recv_msg_index + i \in recv_msg_index..(p.index - 1)
            /\ recv_chain_key + i = recv_msg_index + i
      BY <1>0, <2>3 DEF RatchetInv, RatchetTypeOK, InStep
    <3>2. \A i \in recv_msg_index..(p.index - 1) :
            i - recv_msg_index \in 0..(Gap(p) - 1) /\ recv_msg_index + (i - recv_msg_index) = i
      BY <1>0, <2>3 DEF RatchetInv, RatchetTypeOK
    <3> QED
      BY <3>1, <3>2 DEF PassedOver
  <2>6. RatchetTypeOK'
    BY <1>0, <2>1, <2>4, <2>5 DEF RatchetInv, RatchetTypeOK
  <2>7. InStep'
    BY <1>0, <2>1, <2>4, <2>5 DEF RatchetInv, RatchetTypeOK, InStep
  <2>8. Reachable'
    <3> SUFFICES ASSUME NEW q \in packets, q # p,
                        ~ (q.index >= p.index + 1)
                 PROVE  \E r \in skipped_keys' : r.index = q.index
      BY <2>1, <2>4 DEF Reachable
    <3>1. CASE \E r \in skipped_keys : r.index = q.index
      BY <2>1, <3>1
    <3>2. CASE q.index >= recv_msg_index
      <4>1. q.index # p.index /\ q.index \in recv_msg_index..(p.index - 1)
        BY <1>0, <3>2 DEF RatchetInv, RatchetTypeOK
      <4>2. [index |-> q.index, key |-> q.index] \in PassedOver(p)
        BY <2>5, <4>1
      <4> QED
        BY <2>1, <4>2
    <3> QED
      BY <3>1, <3>2 DEF RatchetInv, Reachable
  <2> QED
    BY <2>4, <2>6, <2>7, <2>8 DEF RatchetInv, EveryArrivalOpens
<1>4. ASSUME NEW p \in packets, LosePacket(p)  PROVE RatchetInv'
  BY <1>4 DEF LosePacket, RatchetInv, RatchetTypeOK, InStep, Reachable, EveryArrivalOpens
<1> QED
  BY <1>1, <1>2, <1>3, <1>4 DEF RatchetNext

\* A step that is none of the ratchet's leaves its state alone.
LEMMA RatchetStutter ==
    ASSUME RatchetInv, UNCHANGED ratchetVars
    PROVE  RatchetInv'
BY DEF ratchetVars, RatchetInv, RatchetTypeOK, InStep, Reachable, EveryArrivalOpens

\* What the crates' steps are to the ratchet.
LEMMA RatchetInvariant ==
    ASSUME Duplicates = FALSE
    PROVE  CratesSpec => []RatchetInv
<1>1. CratesInit => RatchetInv
  BY MaxMsgsNat DEF CratesInit, RatchetInit, RatchetInv, RatchetTypeOK, InStep,
                    Reachable, EveryArrivalOpens
<1>2. RatchetInv /\ [CratesNext]_cratesVars => RatchetInv'
  <2> SUFFICES ASSUME RatchetInv, [CratesNext]_cratesVars  PROVE RatchetInv'
    OBVIOUS
  <2>1. RatchetNext \/ UNCHANGED ratchetVars
    BY DEF CratesNext, cratesVars
  <2> QED
    BY <2>1, RatchetStep, RatchetStutter
<1> QED
  BY <1>1, <1>2, PTL DEF CratesSpec

\* On a transport that loses and reorders packets but does not duplicate them,
\* decrypt opens every packet that arrives, for any number of messages: the
\* receive chain of ratchet.rs stays in step with the indices, and a key set
\* aside is there when its packet comes.
THEOREM EveryArrivalOpensHolds ==
    ASSUME Duplicates = FALSE
    PROVE  CratesSpec => []EveryArrivalOpens
<1>1. RatchetInv => EveryArrivalOpens
  BY DEF RatchetInv
<1> QED
  BY <1>1, RatchetInvariant, PTL

-----------------------------------------------------------------------------
(***************************************************************************)
(* Idle session hub.                                                       *)
(***************************************************************************)

IdleTypeOK ==
    /\ sessions \subseteq Accounts
    /\ active_count \in 0..UsizeMax
    /\ doing \in [Threads -> {"none", "add", "sub"}]
    /\ calls \in 0..MaxCalls

\* The threads that have changed the map and not yet the counter.
Doing(what) == {t \in Threads : doing[t] = what}

\* The counter owes one to each thread about to add, has one too many for each
\* about to subtract, and may have wrapped any number of times.
Owes(net, wraps) ==
    active_count = net - Cardinality(Doing("add")) + Cardinality(Doing("sub"))
                   + wraps * (UsizeMax + 1)

\* The registrations that no removal has taken back: at least one for each
\* session, since a removal that found its account is matched by one.
Balance ==
    \E net, wraps \in Int :
        /\ Cardinality(sessions) <= net /\ net <= calls
        /\ Owes(net, wraps)

IdleInv == IdleTypeOK /\ Balance

\* Adding one to a usize or taking one from it wraps at most once.
LEMMA UsizeWraps ==
    ASSUME NEW x \in 0..UsizeMax
    PROVE  /\ (x + 1) % (UsizeMax + 1) = IF x = UsizeMax THEN 0 ELSE x + 1
           /\ (x - 1) % (UsizeMax + 1) = IF x = 0 THEN UsizeMax ELSE x - 1
BY IdleAssumption DEF IdleAssumption

\* The threads of a kind when one thread's mark changes.
LEMMA DoingChanges ==
    ASSUME IdleTypeOK, NEW t \in Threads, NEW from, NEW to,
           doing[t] = from, from # to, to \in {"none", "add", "sub"},
           doing' = [doing EXCEPT ![t] = to]
    PROVE  /\ doing' \in [Threads -> {"none", "add", "sub"}]
           /\ Cardinality(Doing(from)') = Cardinality(Doing(from)) - 1
           /\ Cardinality(Doing(to)') = Cardinality(Doing(to)) + 1
           /\ \A what : what \notin {from, to} => Doing(what)' = Doing(what)
           /\ \A what : Cardinality(Doing(what)) \in Nat
<1>1. \A what : IsFiniteSet(Doing(what)) /\ Cardinality(Doing(what)) \in Nat
  BY IdleAssumption, FS_Subset, FS_CardinalityType DEF IdleAssumption, Doing
<1>2. /\ Doing(from)' = Doing(from) \ {t} /\ t \in Doing(from)
      /\ Doing(to)' = Doing(to) \cup {t} /\ t \notin Doing(to)
      /\ \A what : what \notin {from, to} => Doing(what)' = Doing(what)
  BY DEF IdleTypeOK, Doing
<1>3. Cardinality(Doing(from)') = Cardinality(Doing(from)) - 1
  BY <1>1, <1>2, FS_RemoveElement
<1>4. Cardinality(Doing(to)') = Cardinality(Doing(to)) + 1
  BY <1>1, <1>2, FS_AddElement
<1> QED
  BY <1>1, <1>2, <1>3, <1>4 DEF IdleTypeOK

\* The sessions are a finite set, and one operation changes their number by one.
LEMMA SessionsCount ==
    ASSUME IdleTypeOK, NEW a \in Accounts
    PROVE  /\ Cardinality(sessions) \in Nat
           /\ Cardinality(sessions \cup {a}) \in Nat
           /\ Cardinality(sessions \cup {a}) <= Cardinality(sessions) + 1
           /\ Cardinality(sessions \ {a}) \in Nat
           /\ a \in sessions => Cardinality(sessions \ {a}) = Cardinality(sessions) - 1
<1>1. IsFiniteSet(sessions)
  BY IdleAssumption, FS_Subset DEF IdleAssumption, IdleTypeOK
<1> QED
  BY <1>1, FS_AddElement, FS_RemoveElement, FS_CardinalityType

LEMMA IdleStep ==
    ASSUME IdleInv, IdleNext
    PROVE  IdleInv'
<1>1. PICK net, wraps \in Int :
        /\ Cardinality(sessions) <= net /\ net <= calls
        /\ Owes(net, wraps)
  BY DEF IdleInv, Balance
<1>2. IdleTypeOK /\ calls \in Int /\ active_count \in Int
  BY IdleAssumption DEF IdleInv, IdleTypeOK, IdleAssumption
<1>3. UsizeMax \in Nat /\ MaxCalls \in 0..UsizeMax
  BY IdleAssumption DEF IdleAssumption
<1>a. \A what : Cardinality(Doing(what)) \in Nat
  BY IdleAssumption, FS_Subset, FS_CardinalityType DEF IdleAssumption, Doing
<1>4. ASSUME NEW t \in Threads, NEW a \in Accounts, RegisterIdleSession(t, a)
      PROVE  IdleInv'
  <2>1. /\ doing' \in [Threads -> {"none", "add", "sub"}]
        /\ Cardinality(Doing("add")') = Cardinality(Doing("add")) + 1
        /\ Doing("sub")' = Doing("sub")
    <3>1. doing[t] = "none" /\ doing' = [doing EXCEPT ![t] = "add"]
      BY <1>4 DEF RegisterIdleSession
    <3>2. "none" # "add" /\ "add" \in {"none", "add", "sub"}
      OBVIOUS
    <3>3. /\ doing' \in [Threads -> {"none", "add", "sub"}]
          /\ Cardinality(Doing("none")') = Cardinality(Doing("none")) - 1
          /\ Cardinality(Doing("add")') = Cardinality(Doing("add")) + 1
          /\ \A what : what \notin {"none", "add"} => Doing(what)' = Doing(what)
      BY <1>2, <3>1, <3>2, DoingChanges
    <3> QED
      BY <3>3
  <2>2. IdleTypeOK'
    BY <1>2, <1>3, <1>4, <2>1 DEF RegisterIdleSession, IdleTypeOK
  <2>3. Cardinality(sessions') <= net + 1 /\ net + 1 <= calls'
    <3>1. /\ Cardinality(sessions) \in Nat
          /\ Cardinality(sessions \cup {a}) \in Nat
          /\ Cardinality(sessions \cup {a}) <= Cardinality(sessions) + 1
      BY <1>2, SessionsCount
    <3> QED
      BY <1>1, <1>2, <1>4, <3>1 DEF RegisterIdleSession
  <2>4. Owes(net + 1, wraps)'
    BY <1>1, <1>2, <1>3, <1>4, <1>a, <2>1 DEF RegisterIdleSession, Owes
  <2>5. Balance'
    BY <2>3, <2>4 DEF Balance
  <2> QED
    BY <2>2, <2>5 DEF IdleInv
<1>5. ASSUME NEW t \in Threads, NEW a \in Accounts, UnregisterSession(t, a)
      PROVE  IdleInv'
  <2>1. /\ doing' \in [Threads -> {"none", "add", "sub"}]
        /\ Cardinality(Doing("sub")') = Cardinality(Doing("sub")) + 1
        /\ Doing("add")' = Doing("add")
    <3>1. doing[t] = "none" /\ doing' = [doing EXCEPT ![t] = "sub"]
      BY <1>5 DEF UnregisterSession
    <3>2. "none" # "sub" /\ "sub" \in {"none", "add", "sub"}
      OBVIOUS
    <3>3. /\ doing' \in [Threads -> {"none", "add", "sub"}]
          /\ Cardinality(Doing("none")') = Cardinality(Doing("none")) - 1
          /\ Cardinality(Doing("sub")') = Cardinality(Doing("sub")) + 1
          /\ \A what : what \notin {"none", "sub"} => Doing(what)' = Doing(what)
      BY <1>2, <3>1, <3>2, DoingChanges
    <3> QED
      BY <3>3
  <2>2. IdleTypeOK'
    BY <1>2, <1>3, <1>5, <2>1 DEF UnregisterSession, IdleTypeOK
  <2>3. Cardinality(sessions') <= net - 1 /\ net - 1 <= calls'
    BY <1>1, <1>2, <1>5, SessionsCount DEF UnregisterSession
  <2>4. Owes(net - 1, wraps)'
    BY <1>1, <1>2, <1>3, <1>5, <1>a, <2>1 DEF UnregisterSession, Owes
  <2>5. Balance'
    BY <2>3, <2>4 DEF Balance
  <2> QED
    BY <2>2, <2>5 DEF IdleInv
<1>6. ASSUME NEW t \in Threads, FetchAdd(t)
      PROVE  IdleInv'
  <2>1. /\ doing' \in [Threads -> {"none", "add", "sub"}]
        /\ Cardinality(Doing("add")') = Cardinality(Doing("add")) - 1
        /\ Doing("sub")' = Doing("sub")
    <3>1. doing[t] = "add" /\ doing' = [doing EXCEPT ![t] = "none"]
      BY <1>6 DEF FetchAdd
    <3>2. "add" # "none" /\ "none" \in {"none", "add", "sub"}
      OBVIOUS
    <3>3. /\ doing' \in [Threads -> {"none", "add", "sub"}]
          /\ Cardinality(Doing("add")') = Cardinality(Doing("add")) - 1
          /\ Cardinality(Doing("none")') = Cardinality(Doing("none")) + 1
          /\ \A what : what \notin {"add", "none"} => Doing(what)' = Doing(what)
      BY <1>2, <3>1, <3>2, DoingChanges
    <3> QED
      BY <3>3
  <2>2. active_count' = IF active_count = UsizeMax THEN 0 ELSE active_count + 1
    BY <1>2, <1>6, UsizeWraps DEF FetchAdd, IdleTypeOK
  <2>3. IdleTypeOK'
    BY <1>2, <1>3, <1>6, <2>1, <2>2 DEF FetchAdd, IdleTypeOK
  <2>4. PICK k \in Int : active_count' = active_count + 1 + k * (UsizeMax + 1)
    <3>1. CASE active_count = UsizeMax
      <4>1. active_count' = active_count + 1 + (-1) * (UsizeMax + 1)
        BY <1>3, <2>2, <3>1
      <4> QED  BY <4>1
    <3>2. CASE active_count # UsizeMax
      <4>1. active_count' = active_count + 1 + 0 * (UsizeMax + 1)
        BY <1>2, <1>3, <2>2, <3>2
      <4> QED  BY <4>1
    <3> QED  BY <3>1, <3>2
  <2>5. Owes(net, wraps + k)'
    BY <1>1, <1>2, <1>3, <1>6, <1>a, <2>1, <2>4 DEF FetchAdd, Owes
  <2>6. Balance'
    BY <1>1, <1>6, <2>5 DEF FetchAdd, Balance
  <2> QED
    BY <2>3, <2>6 DEF IdleInv
<1>7. ASSUME NEW t \in Threads, FetchSub(t)
      PROVE  IdleInv'
  <2>1. /\ doing' \in [Threads -> {"none", "add", "sub"}]
        /\ Cardinality(Doing("sub")') = Cardinality(Doing("sub")) - 1
        /\ Doing("add")' = Doing("add")
    <3>1. doing[t] = "sub" /\ doing' = [doing EXCEPT ![t] = "none"]
      BY <1>7 DEF FetchSub
    <3>2. "sub" # "none" /\ "none" \in {"none", "add", "sub"}
      OBVIOUS
    <3>3. /\ doing' \in [Threads -> {"none", "add", "sub"}]
          /\ Cardinality(Doing("sub")') = Cardinality(Doing("sub")) - 1
          /\ Cardinality(Doing("none")') = Cardinality(Doing("none")) + 1
          /\ \A what : what \notin {"sub", "none"} => Doing(what)' = Doing(what)
      BY <1>2, <3>1, <3>2, DoingChanges
    <3> QED
      BY <3>3
  <2>2. active_count' = IF active_count = 0 THEN UsizeMax ELSE active_count - 1
    BY <1>2, <1>7, UsizeWraps DEF FetchSub, IdleTypeOK
  <2>3. IdleTypeOK'
    BY <1>2, <1>3, <1>7, <2>1, <2>2 DEF FetchSub, IdleTypeOK
  <2>4. PICK k \in Int : active_count' = active_count - 1 + k * (UsizeMax + 1)
    <3>1. CASE active_count = 0
      <4>1. active_count' = active_count - 1 + 1 * (UsizeMax + 1)
        BY <1>3, <2>2, <3>1
      <4> QED  BY <4>1
    <3>2. CASE active_count # 0
      <4>1. active_count' = active_count - 1 + 0 * (UsizeMax + 1)
        BY <1>2, <1>3, <2>2, <3>2
      <4> QED  BY <4>1
    <3> QED  BY <3>1, <3>2
  <2>5. Owes(net, wraps + k)'
    BY <1>1, <1>2, <1>3, <1>7, <1>a, <2>1, <2>4 DEF FetchSub, Owes
  <2>6. Balance'
    BY <1>1, <1>7, <2>5 DEF FetchSub, Balance
  <2> QED
    BY <2>3, <2>6 DEF IdleInv
<1> QED
  BY <1>4, <1>5, <1>6, <1>7 DEF IdleNext

\* Only a whole number of wraps between 0 and UsizeMax is none.
LEMMA QuietCount ==
    ASSUME IdleInv
    PROVE  CountCovers
<1> SUFFICES ASSUME Quiet
             PROVE  Cardinality(sessions) <= active_count /\ active_count <= calls
  BY DEF CountCovers
<1>1. PICK net, wraps \in Int :
        /\ Cardinality(sessions) <= net /\ net <= calls
        /\ Owes(net, wraps)
  BY DEF IdleInv, Balance
<1>2. Doing("add") = {} /\ Doing("sub") = {}
  BY DEF Quiet, Doing
<1>3. /\ Cardinality(sessions) \in Nat /\ UsizeMax \in Nat /\ calls \in 0..UsizeMax
      /\ active_count \in 0..UsizeMax
  <2>1. IsFiniteSet(sessions)
    BY IdleAssumption, FS_Subset DEF IdleAssumption, IdleInv, IdleTypeOK
  <2> QED
    BY <2>1, IdleAssumption, FS_CardinalityType DEF IdleAssumption, IdleInv, IdleTypeOK
<1>4. active_count = net + wraps * (UsizeMax + 1)
  BY <1>1, <1>2, <1>3, FS_EmptySet DEF Owes
<1>5. wraps = 0
  <2>1. wraps * (UsizeMax + 1) <= UsizeMax /\ - UsizeMax <= wraps * (UsizeMax + 1)
    BY <1>1, <1>3, <1>4
  <2>2. wraps >= 1 => wraps * (UsizeMax + 1) >= UsizeMax + 1
    BY <1>3
  <2>3. wraps <= -1 => wraps * (UsizeMax + 1) <= - (UsizeMax + 1)
    BY <1>3
  <2> QED
    BY <1>3, <2>1, <2>2, <2>3
<1> QED
  BY <1>1, <1>3, <1>4, <1>5

\* With operations of any number of threads interleaved between the map and
\* the counter (epoll_hub.rs), the counter is right whenever none is under way.
THEOREM CountCoversHolds == CratesSpec => []CountCovers
<1>1. CratesInit => IdleInv
  <2> SUFFICES ASSUME IdleInit  PROVE IdleInv
    BY DEF CratesInit
  <2>1. IdleTypeOK
    BY IdleAssumption DEF IdleInit, IdleTypeOK, IdleAssumption
  <2>2. Doing("add") = {} /\ Doing("sub") = {}
    BY DEF IdleInit, Doing
  <2>3. 0 <= 0 /\ 0 = 0 - 0 + 0 + 0 * (UsizeMax + 1)
    BY IdleAssumption DEF IdleAssumption
  <2>4. Balance
    <3>1. Cardinality(sessions) <= 0 /\ 0 <= calls /\ Owes(0, 0)
      BY <2>2, <2>3, FS_EmptySet DEF IdleInit, Owes
    <3> QED  BY <3>1 DEF Balance
  <2> QED
    BY <2>1, <2>4 DEF IdleInv
<1>2. IdleInv /\ [CratesNext]_cratesVars => IdleInv'
  <2> SUFFICES ASSUME IdleInv, [CratesNext]_cratesVars  PROVE IdleInv'
    OBVIOUS
  <2>1. IdleNext \/ UNCHANGED idleVars
    BY DEF CratesNext, cratesVars
  <2>2. CASE UNCHANGED idleVars
    BY <2>2 DEF idleVars, IdleInv, IdleTypeOK, Balance, Owes, Doing
  <2> QED
    BY <2>1, <2>2, IdleStep
<1>3. IdleInv => CountCovers
  BY QuietCount
<1> QED
  BY <1>1, <1>2, <1>3, PTL DEF CratesSpec
-----------------------------------------------------------------------------
(***************************************************************************)
(* The proxy's relay.                                                      *)
(***************************************************************************)

\* Runs of consecutive units: their ends, and what extends or shortens them.
LEMMA UnitsShape ==
    ASSUME NEW a \in Nat, NEW n \in Nat
    PROVE  /\ Units(a, n) \in Seq(Nat)
           /\ Len(Units(a, n)) = n
           /\ n = 0 => Units(a, n) = <<>>
           /\ n > 0 => Units(a, n) # <<>> /\ Head(Units(a, n)) = a + 1
BY DEF Units

LEMMA UnitsAppend ==
    ASSUME NEW a \in Nat, NEW n \in Nat
    PROVE  Append(Units(a, n), a + n + 1) = Units(a, n + 1)
BY DEF Units

LEMMA UnitsTail ==
    ASSUME NEW a \in Nat, NEW n \in Nat \ {0}
    PROVE  Tail(Units(a, n)) = Units(a + 1, n - 1)
BY DEF Units

LEMMA UnitsRest ==
    ASSUME NEW r \in Nat, NEW n \in Nat, r <= n
    PROVE  SubSeq(Units(0, n), r + 1, n) = Units(r, n - r)
BY DEF Units

LEMMA UnitsNone ==
    ASSUME NEW r \in Nat, NEW n \in Nat, n <= r
    PROVE  SubSeq(Units(0, n), r + 1, n) = <<>>
BY DEF Units

SetupStages == {"handshake", "connecting", "tlsAccept", "tlsConnect", "firstRead"}

RelayTypeOK ==
    /\ stage \in SetupStages \cup {"wsAccept", "raw", "https", "ws", "ended"}
    /\ sent \in [Dirs -> Nat] /\ read \in [Dirs -> Nat]
    /\ prefix \in Seq(Nat)
    /\ task \in [Dirs -> [at : {"idle", "read", "sniff", "write", "ended"}, unit : Nat]]
    /\ out \in [Dirs -> Seq(Nat)]

\* In the arbiter the first unit to forward is the one after the request.
FirstUnit(d) == IF d = "up" THEN Request ELSE 0

\* The units a task has taken: those it delivered, and the one it holds.
UnitsTaken(d) == FirstUnit(d) + Len(out[d]) + (IF task[d].at \in {"sniff", "write"} THEN 1 ELSE 0)

\* A task of the arbiter: the unit it holds is the last it took, and what the
\* proxy has read beyond that is read ahead and in order.
InArbiter(d) ==
    /\ task[d].at # "idle"
    /\ task[d].at \in {"sniff", "write"} => task[d].unit = UnitsTaken(d)
    /\ task[d].at # "ended" /\ d = "down" => read[d] = UnitsTaken(d)
    /\ task[d].at # "ended" /\ d = "up" =>
          /\ read[d] >= UnitsTaken(d)
          /\ prefix = Units(UnitsTaken(d), read[d] - UnitsTaken(d))

\* Where the units are that the proxy has read, stage by stage.
Placed ==
    /\ stage \in SetupStages => /\ prefix = <<>> /\ read = [d \in Dirs |-> 0]
                                /\ out = [d \in Dirs |-> <<>>]
    /\ stage \in {"raw", "https"} => \A d \in Dirs : out[d] = Units(0, read[d])
    /\ stage = "wsAccept" => /\ read["down"] = 0 /\ prefix = Units(0, read["up"])
                             /\ out = [d \in Dirs |-> <<>>]
    /\ stage \notin {"ws", "ended"} => \A d \in Dirs : task[d].at = "idle"
    /\ stage = "ws" => \A d \in Dirs : InArbiter(d)

RelayInv == RelayTypeOK /\ Placed /\ StreamIntact

LEMMA RequestNat == Request \in Nat \ {0} /\ FirstUnit("up") = Request /\ FirstUnit("down") = 0
  BY RelayAssumption DEF RelayAssumption, FirstUnit

LEMMA RelayTypes ==
    ASSUME RelayInv, RelayNext
    PROVE  RelayTypeOK'
<1>0. RelayTypeOK
  BY DEF RelayInv
<1> USE DEF RelayTypeOK
<1>1. CASE Socks5Handshake \/ Connect \/ TlsAccept \/ TlsConnect \/ SetupFails
           \/ CopyEnds \/ Joined
  BY <1>0, <1>1 DEF Socks5Handshake, Connect, TlsAccept, TlsConnect, SetupFails,
                    CopyEnds, Joined, Become, SetupStages
<1>2. ASSUME NEW n \in 1..MaxUnits["up"], FirstRead(n) PROVE RelayTypeOK'
  <2>1. n \in Nat
    OBVIOUS
  <2>2. Units(0, n) \in Seq(Nat)
    BY <2>1, UnitsShape
  <2>3. read' \in [Dirs -> Nat] /\ prefix' \in Seq(Nat) /\ out' \in [Dirs -> Seq(Nat)]
    BY <1>0, <1>2, <2>1, <2>2 DEF FirstRead
  <2> QED
    BY <1>0, <1>2, <2>3 DEF FirstRead
<1>3. CASE WsAccept
  <2>1. prefix' \in Seq(Nat)
    BY <1>0, <1>3, RequestNat DEF WsAccept
  <2>2. read' \in [Dirs -> Nat]
    BY <1>0, <1>3, RequestNat DEF WsAccept
  <2> QED
    BY <1>0, <1>3, <2>1, <2>2 DEF WsAccept
<1>4. CASE LogFrame
  BY <1>0, <1>4 DEF LogFrame
<1>5. ASSUME NEW d \in Dirs, SideSends(d) \/ SideStopsReading(d) \/ Sniff(d) \/ TaskBreaks(d)
      PROVE  RelayTypeOK'
  <2>1. CASE SideSends(d) \/ SideStopsReading(d)
    BY <1>0, <2>1 DEF SideSends, SideStopsReading
  <2>2. CASE Sniff(d) \/ TaskBreaks(d)
    BY <1>0, <2>2 DEF Sniff, TaskBreaks
  <2> QED
    BY <1>5, <2>1, <2>2
<1>6. ASSUME NEW d \in Dirs, CopyUnit(d) PROVE RelayTypeOK'
  <2>1. Append(out[d], read[d] + 1) \in Seq(Nat)
    BY <1>0
  <2>2. out' \in [Dirs -> Seq(Nat)] /\ read' \in [Dirs -> Nat]
    BY <1>0, <1>6, <2>1 DEF CopyUnit
  <2> QED
    BY <1>0, <1>6, <2>2 DEF CopyUnit
<1>7. ASSUME NEW d \in Dirs, NextFrame(d) PROVE RelayTypeOK'
  <2>1. prefix' \in Seq(Nat) /\ read' \in [Dirs -> Nat]
    <3>1. \/ prefix # <<>> /\ prefix' = Tail(prefix) /\ UNCHANGED read
          \/ read' = [read EXCEPT ![d] = @ + 1] /\ UNCHANGED prefix
      BY <1>7 DEF NextFrame, PollRead
    <3>2. CASE prefix # <<>> /\ prefix' = Tail(prefix) /\ UNCHANGED read
      BY <1>0, <3>2
    <3>3. CASE read' = [read EXCEPT ![d] = @ + 1] /\ UNCHANGED prefix
      BY <1>0, <3>3
    <3> QED
      BY <3>1, <3>2, <3>3
  <2>2. PICK u \in Nat : task' = [task EXCEPT ![d] = [at |-> "sniff", unit |-> u]]
    BY <1>0, <1>7 DEF NextFrame, PollRead
  <2>3. task' \in [Dirs -> [at : {"idle", "read", "sniff", "write", "ended"}, unit : Nat]]
    BY <1>0, <2>2
  <2> QED
    BY <1>0, <1>7, <2>1, <2>3 DEF NextFrame
<1>8. ASSUME NEW d \in Dirs, ForwardFrame(d) PROVE RelayTypeOK'
  <2>1. Append(out[d], task[d].unit) \in Seq(Nat)
    BY <1>0
  <2>2. out' \in [Dirs -> Seq(Nat)]
    BY <1>0, <1>8, <2>1 DEF ForwardFrame
  <2> QED
    BY <1>0, <1>8, <2>2 DEF ForwardFrame
<1> QED
  BY <1>1, <1>2, <1>3, <1>4, <1>5, <1>6, <1>7, <1>8 DEF RelayNext, TakesUnit, WritesUnit

LEMMA UnitsTakenNat ==
    ASSUME RelayTypeOK, NEW d \in Dirs
    PROVE  FirstUnit(d) \in Nat /\ Len(out[d]) \in Nat /\ UnitsTaken(d) \in Nat
<1>1. out[d] \in Seq(Nat) /\ FirstUnit(d) \in Nat
  BY RequestNat DEF RelayTypeOK, Dirs
<1>2. Len(out[d]) \in Nat
  BY <1>1
<1> QED
  BY <1>1, <1>2 DEF UnitsTaken

\* A step of the arbiter in one direction leaves the other one as it was.
LEMMA OneDirection ==
    ASSUME RelayInv, stage = "ws", UNCHANGED stage, NEW d \in Dirs,
           InArbiter(d)', out'[d] = Units(FirstUnit(d), Len(out'[d])),
           \A e \in Dirs \ {d} : /\ task'[e] = task[e] /\ read'[e] = read[e]
                                 /\ out'[e] = out[e] /\ (e = "up" => prefix' = prefix)
    PROVE  Placed' /\ StreamIntact'
<1>1. \A e \in Dirs \ {d} : InArbiter(e)'
  BY DEF RelayInv, Placed, InArbiter, UnitsTaken
<1>2. \A e \in Dirs : InArbiter(e)'
  BY <1>1
<1>3. \A e \in Dirs : (Skipped(e) = FirstUnit(e)) /\ (Skipped(e) = FirstUnit(e))'
  BY <1>2 DEF RelayInv, Placed, InArbiter, Skipped, FirstUnit
<1>4. StreamIntact'
  BY <1>3 DEF RelayInv, StreamIntact
<1>5. Placed'
  BY <1>2 DEF Placed, SetupStages
<1> QED
  BY <1>4, <1>5

\* The next frame is the one after those taken: from what was read ahead while
\* there is any, and only then from the socket.
LEMMA FrameIsNext ==
    ASSUME RelayInv, NEW d \in Dirs, NextFrame(d)
    PROVE  Placed' /\ StreamIntact'
<1>0. RelayTypeOK /\ RelayTypeOK' /\ InArbiter(d) /\ stage = "ws" /\ task[d].at = "read"
  <2>1. RelayNext
    BY DEF RelayNext, TakesUnit, WritesUnit
  <2> QED
    BY <2>1, RelayTypes DEF RelayInv, Placed, NextFrame
<1> DEFINE k == FirstUnit(d) + Len(out[d])
<1>1. k \in Nat /\ UnitsTaken(d) = k
  BY <1>0, UnitsTakenNat DEF UnitsTaken
<1>2. UNCHANGED <<stage, out>>
  BY DEF NextFrame
<1>3. PICK u : task' = [task EXCEPT ![d] = [at |-> "sniff", unit |-> u]]
  BY DEF NextFrame, PollRead
<1>4. task'[d].at = "sniff" /\ task'[d].unit = u /\ UnitsTaken(d)' = k + 1
  BY <1>0, <1>2, <1>3 DEF RelayTypeOK, UnitsTaken
<1> HIDE DEF k
<1>5. u = k + 1 /\ InArbiter(d)'
  <2>1. CASE d = "down"
    <3>1. read[d] = k /\ read[d] \in Nat
      BY <1>0, <1>1, <2>1 DEF InArbiter, RelayTypeOK
    <3>2. task'[d].unit = read[d] + 1 /\ read'[d] = read[d] + 1
      BY <1>0, <2>1 DEF NextFrame, PollRead, RelayTypeOK
    <3> QED
      BY <1>4, <2>1, <3>1, <3>2 DEF InArbiter
  <2>2. CASE d = "up"
    <3>1. /\ read[d] \in Nat /\ read[d] >= k /\ prefix = Units(k, read[d] - k)
          /\ read[d] - k \in Nat
      BY <1>0, <1>1, <2>2 DEF InArbiter, RelayTypeOK
    <3>4. (read[d] - k > 0) <=> (prefix # <<>>)
      <4> DEFINE n == read[d] - k
      <4>1. n \in Nat /\ prefix = Units(k, n)
        BY <3>1
      <4> HIDE DEF n
      <4>2. n > 0 <=> prefix # <<>>
        <5>1. n = 0 => prefix = <<>>
          BY <1>1, <4>1, UnitsShape
        <5>2. n > 0 => prefix # <<>>
          BY <1>1, <4>1, UnitsShape
        <5> QED
          BY <4>1, <5>1, <5>2
      <4> QED
        BY <4>2 DEF n
    <3>2. CASE prefix # <<>>
      <4>1. read[d] - k > 0
        BY <3>2, <3>4
      <4>2. Head(prefix) = k + 1 /\ Tail(prefix) = Units(k + 1, (read[d] - k) - 1)
        BY <1>1, <3>1, <4>1, UnitsShape, UnitsTail
      <4>3. task'[d].unit = Head(prefix) /\ prefix' = Tail(prefix) /\ read' = read
        BY <1>0, <2>2, <3>2 DEF NextFrame, PollRead, RelayTypeOK
      <4>4. (read[d] - k) - 1 = read[d] - (k + 1) /\ read[d] >= k + 1
        BY <1>1, <3>1, <4>1
      <4> QED
        BY <1>4, <2>2, <4>2, <4>3, <4>4 DEF InArbiter
    <3>3. CASE prefix = <<>>
      <4>1. read[d] = k
        BY <1>1, <3>1, <3>3, <3>4
      <4>2. task'[d].unit = read[d] + 1 /\ read'[d] = read[d] + 1 /\ prefix' = prefix
        BY <1>0, <2>2, <3>3 DEF NextFrame, PollRead, RelayTypeOK
      <4>3. prefix' = Units(k + 1, 0) /\ read'[d] - (k + 1) = 0 /\ read'[d] >= k + 1
        <5>1. Units(k + 1, 0) = <<>>
          BY <1>1, UnitsShape
        <5>2. prefix' = <<>> /\ read'[d] = k + 1
          BY <3>3, <4>1, <4>2
        <5> QED
          BY <1>1, <5>1, <5>2
      <4> QED
        BY <1>4, <2>2, <4>1, <4>2, <4>3 DEF InArbiter
    <3> QED
      BY <3>2, <3>3
  <2> QED
    BY <2>1, <2>2 DEF Dirs
<1>6. \A e \in Dirs \ {d} : /\ task'[e] = task[e] /\ read'[e] = read[e]
                            /\ out'[e] = out[e] /\ (e = "up" => prefix' = prefix)
  BY <1>0, <1>2, <1>3 DEF NextFrame, PollRead, RelayTypeOK
<1>7. out'[d] = Units(FirstUnit(d), Len(out'[d]))
  <2>1. Skipped(d) = FirstUnit(d)
    BY <1>0 DEF InArbiter, Skipped, FirstUnit
  <2> QED
    BY <1>2, <2>1 DEF RelayInv, StreamIntact
<1> QED
  BY <1>0, <1>2, <1>5, <1>6, <1>7, OneDirection

\* The sniffed frame goes on as it is, and is delivered behind the earlier ones.
LEMMA FrameGoesOn ==
    ASSUME RelayInv, NEW d \in Dirs, Sniff(d) \/ ForwardFrame(d) \/ TaskBreaks(d)
    PROVE  Placed' /\ StreamIntact'
<1>0. RelayTypeOK /\ InArbiter(d) /\ stage = "ws" /\ UNCHANGED <<stage, read, prefix>>
  BY DEF RelayInv, Placed, Sniff, ForwardFrame, TaskBreaks
<1>1. Skipped(d) = FirstUnit(d) /\ out[d] = Units(FirstUnit(d), Len(out[d]))
  <2>1. Skipped(d) = FirstUnit(d)
    BY <1>0 DEF InArbiter, Skipped, FirstUnit
  <2> QED
    BY <2>1 DEF RelayInv, StreamIntact
<1>2. CASE Sniff(d)
  <2>1. task[d].at = "sniff" /\ task'[d].at = "write" /\ task'[d].unit = task[d].unit
        /\ UNCHANGED out
    BY <1>0, <1>2 DEF Sniff, RelayTypeOK
  <2>2. \A e \in Dirs \ {d} : task'[e] = task[e]
    BY <1>0, <1>2 DEF Sniff, RelayTypeOK
  <2>3. UnitsTaken(d)' = UnitsTaken(d)
    BY <2>1 DEF UnitsTaken
  <2>4. InArbiter(d)'
    BY <1>0, <2>1, <2>3 DEF InArbiter
  <2> QED
    BY <1>0, <1>1, <2>1, <2>2, <2>4, OneDirection
<1>3. CASE ForwardFrame(d)
  <2>0. FirstUnit(d) \in Nat /\ Len(out[d]) \in Nat /\ out[d] \in Seq(Nat)
    BY <1>0, UnitsTakenNat DEF RelayTypeOK
  <2>1. /\ task[d].at = "write" /\ task'[d].at = "read"
        /\ out'[d] = Append(out[d], task[d].unit)
    BY <1>0, <1>3 DEF ForwardFrame, RelayTypeOK
  <2>2. \A e \in Dirs \ {d} : task'[e] = task[e] /\ out'[e] = out[e]
    BY <1>0, <1>3 DEF ForwardFrame, RelayTypeOK
  <2>3. task[d].unit = FirstUnit(d) + Len(out[d]) + 1
    BY <1>0, <2>1 DEF InArbiter, UnitsTaken
  <2>4. out'[d] = Units(FirstUnit(d), Len(out[d]) + 1)
    BY <1>1, <2>0, <2>1, <2>3, UnitsAppend
  <2>5. Len(out'[d]) = Len(out[d]) + 1
    <3>1. Len(out[d]) + 1 \in Nat
      BY <2>0
    <3> QED
      BY <2>0, <2>4, <3>1, UnitsShape
  <2>6. UnitsTaken(d)' = UnitsTaken(d)
    BY <2>0, <2>1, <2>5 DEF UnitsTaken, FirstUnit
  <2>7. InArbiter(d)'
    BY <1>0, <2>1, <2>6 DEF InArbiter
  <2> QED
    BY <1>0, <2>2, <2>4, <2>5, <2>7, OneDirection
<1>4. CASE TaskBreaks(d)
  <2>1. task'[d].at = "ended" /\ UNCHANGED out
    BY <1>0, <1>4 DEF TaskBreaks, RelayTypeOK
  <2>2. \A e \in Dirs \ {d} : task'[e] = task[e]
    BY <1>0, <1>4 DEF TaskBreaks, RelayTypeOK
  <2>3. InArbiter(d)'
    BY <2>1 DEF InArbiter
  <2> QED
    BY <1>0, <1>1, <2>1, <2>2, <2>3, OneDirection
<1> QED
  BY <1>2, <1>3, <1>4

\* The set-up, the first read and the plain relays.
LEMMA StreamPlaced ==
    ASSUME RelayInv, RelayNext
    PROVE  Placed' /\ StreamIntact'
<1>0. RelayTypeOK /\ Placed /\ StreamIntact
  BY DEF RelayInv
<1> DEFINE NoTask == \A d \in Dirs : task[d].at = "idle"
<1>1. CASE Socks5Handshake \/ Connect \/ TlsAccept \/ TlsConnect \/ SetupFails
           \/ CopyEnds \/ Joined
  <2>1. UNCHANGED <<read, prefix, task, out>>
    BY <1>1 DEF Socks5Handshake, Connect, TlsAccept, TlsConnect, SetupFails,
                CopyEnds, Joined, Become
  <2>2. CASE stage' = "ended"
    <3>1. Placed'
      BY <2>2 DEF Placed, SetupStages
    <3>2. \A d \in Dirs : Skipped(d)' = Skipped(d)
      <4>1. stage \in {"ws", "ended"} \/ NoTask
        BY <1>0 DEF Placed
      <4> QED
        BY <2>1, <2>2, <4>1 DEF Skipped
    <3> QED
      BY <1>0, <2>1, <3>1, <3>2 DEF StreamIntact
  <2>3. CASE stage' # "ended"
    <3>1. stage \in SetupStages /\ stage' \in SetupStages \cup {"raw"}
      BY <1>1, <2>3 DEF Socks5Handshake, Connect, TlsAccept, TlsConnect, SetupFails,
                        CopyEnds, Joined, Become, SetupStages
    <3>2. /\ prefix = <<>> /\ read = [d \in Dirs |-> 0] /\ NoTask
          /\ out = [d \in Dirs |-> <<>>]
      BY <1>0, <3>1 DEF Placed, SetupStages
    <3>3. Units(0, 0) = <<>>
      BY UnitsShape
    <3>4. Placed'
      BY <2>1, <3>1, <3>2, <3>3 DEF Placed, SetupStages
    <3>5. StreamIntact'
      <4>1. \A d \in Dirs : Skipped(d)' = 0 /\ out'[d] = <<>>
        BY <2>1, <3>1, <3>2 DEF Skipped, SetupStages
      <4> QED
        BY <3>3, <4>1 DEF StreamIntact
    <3> QED
      BY <3>4, <3>5
  <2> QED
    BY <2>2, <2>3
<1>2. ASSUME NEW n \in 1..MaxUnits["up"], FirstRead(n) PROVE Placed' /\ StreamIntact'
  <2>0. n \in Nat /\ Units(0, n) \in Seq(Nat) /\ Len(Units(0, n)) = n /\ Units(0, 0) = <<>>
    <3>1. n \in Nat
      OBVIOUS
    <3> QED
      BY <3>1, UnitsShape
  <2>1. /\ read = [d \in Dirs |-> 0] /\ NoTask /\ out = [d \in Dirs |-> <<>>]
        /\ stage = "firstRead"
    BY <1>0, <1>2 DEF Placed, SetupStages, FirstRead
  <2>2. read'["up"] = n /\ read'["down"] = 0 /\ UNCHANGED task
    BY <1>2, <2>1 DEF FirstRead, Dirs
  <2>3. stage' \in {"wsAccept", "https"}
    BY <1>2 DEF FirstRead
  <2>4. \A d \in Dirs : Skipped(d)' = 0
    BY <2>3 DEF Skipped
  <2>5. CASE stage' = "wsAccept"
    <3>1. prefix' = Units(0, n) /\ UNCHANGED out
      BY <1>2, <2>5 DEF FirstRead
    <3>2. Placed'
      BY <2>1, <2>2, <2>5, <3>1 DEF Placed, SetupStages
    <3>3. StreamIntact'
      BY <2>0, <2>1, <2>4, <3>1 DEF StreamIntact
    <3> QED
      BY <3>2, <3>3
  <2>6. CASE stage' = "https"
    <3>1. out' = [out EXCEPT !["up"] = Units(0, n)]
      BY <1>2, <2>6 DEF FirstRead
    <3>2. out'["up"] = Units(0, n) /\ out'["down"] = <<>>
      BY <2>1, <3>1 DEF Dirs
    <3>3. \A d \in Dirs : out'[d] = Units(0, read'[d])
      BY <2>0, <2>2, <3>2 DEF Dirs
    <3>4. Placed'
      BY <2>1, <2>2, <2>6, <3>3 DEF Placed, SetupStages
    <3>5. StreamIntact'
      BY <2>0, <2>2, <2>4, <3>2, <3>3 DEF StreamIntact, Dirs
    <3> QED
      BY <3>4, <3>5
  <2> QED
    BY <2>3, <2>5, <2>6
<1>3. CASE WsAccept
  <2> DEFINE n == read["up"]
  <2>1. /\ stage = "wsAccept" /\ read["down"] = 0 /\ prefix = Units(0, n)
        /\ out = [d \in Dirs |-> <<>>] /\ n \in Nat /\ Request \in Nat \ {0}
    BY <1>0, <1>3, RequestNat DEF WsAccept, Placed, RelayTypeOK, Dirs
  <2>2. /\ stage' = "ws" /\ out' = out
        /\ \A d \in Dirs : task'[d].at = "read" /\ out'[d] = <<>>
        /\ read'["down"] = 0
        /\ read'["up"] = IF n < Request THEN Request ELSE n
        /\ prefix' = SubSeq(prefix, Request + 1, Len(prefix))
    BY <1>0, <1>3, <2>1 DEF WsAccept, RelayTypeOK, Dirs
  <2> HIDE DEF n
  <2>3. prefix' = SubSeq(Units(0, n), Request + 1, n)
    BY <2>1, <2>2, UnitsShape
  <2>4. read'["up"] \in Nat /\ read'["up"] >= Request
        /\ prefix' = Units(Request, read'["up"] - Request)
    <3>1. CASE n < Request
      <4>1. read'["up"] = Request /\ read'["up"] - Request = 0
        BY <2>1, <2>2, <3>1
      <4>2. prefix' = <<>> /\ Units(Request, 0) = <<>>
        <5>1. n <= Request
          BY <2>1, <3>1
        <5>2. Units(Request, 0) = <<>>
          BY <2>1, UnitsShape
        <5> QED
          BY <2>1, <2>3, <5>1, <5>2, UnitsNone
      <4> QED
        BY <2>1, <4>1, <4>2
    <3>2. CASE ~(n < Request)
      <4>1. read'["up"] = n /\ Request <= n
        BY <2>1, <2>2, <3>2
      <4> QED
        BY <2>1, <2>3, <4>1, UnitsRest
    <3> QED
      BY <3>1, <3>2
  <2>5. UnitsTaken("up")' = Request /\ UnitsTaken("down")' = 0
    BY <2>1, <2>2 DEF UnitsTaken, FirstUnit, Dirs
  <2>6. \A d \in Dirs : InArbiter(d)'
    BY <2>2, <2>4, <2>5 DEF InArbiter, Dirs
  <2>7. Placed'
    BY <2>2, <2>6 DEF Placed, SetupStages
  <2>8. StreamIntact'
    <3>1. \A a \in Nat : Units(a, 0) = <<>>
      BY UnitsShape
    <3>2. \A d \in Dirs : Skipped(d)' \in Nat
      BY <2>1 DEF Skipped
    <3> QED
      BY <2>2, <3>1, <3>2 DEF StreamIntact
  <2> QED
    BY <2>7, <2>8
<1>4. ASSUME UNCHANGED <<stage, read, prefix, task, out>> PROVE Placed' /\ StreamIntact'
  BY <1>0, <1>4 DEF Placed, InArbiter, UnitsTaken, StreamIntact, Skipped
<1>5. CASE LogFrame \/ \E d \in Dirs : SideSends(d) \/ SideStopsReading(d)
  BY <1>4, <1>5 DEF LogFrame, SideSends, SideStopsReading
<1>6. ASSUME NEW d \in Dirs, CopyUnit(d) PROVE Placed' /\ StreamIntact'
  <2>1. /\ stage \in {"raw", "https"} /\ NoTask /\ UNCHANGED <<stage, task>>
        /\ \A e \in Dirs : out[e] = Units(0, read[e]) /\ read[e] \in Nat
    BY <1>0, <1>6 DEF CopyUnit, Placed, RelayTypeOK
  <2>2. /\ read'[d] = read[d] + 1 /\ out'[d] = Append(out[d], read[d] + 1)
        /\ \A e \in Dirs \ {d} : read'[e] = read[e] /\ out'[e] = out[e]
    BY <1>0, <1>6 DEF CopyUnit, RelayTypeOK
  <2>3. out'[d] = Units(0, read'[d])
    <3>1. Append(Units(0, read[d]), 0 + read[d] + 1) = Units(0, read[d] + 1)
      BY <2>1, UnitsAppend
    <3> QED
      BY <2>1, <2>2, <3>1
  <2>4. \A e \in Dirs : out'[e] = Units(0, read'[e]) /\ read'[e] \in Nat
    BY <2>1, <2>2, <2>3
  <2>5. Placed'
    BY <2>1, <2>4 DEF Placed, SetupStages
  <2>6. \A e \in Dirs : Skipped(e)' = 0 /\ Len(out'[e]) = read'[e]
    <3>1. \A k \in Nat : Len(Units(0, k)) = k
      BY UnitsShape
    <3> QED
      BY <2>1, <2>4, <3>1 DEF Skipped
  <2>7. StreamIntact'
    BY <2>4, <2>6 DEF StreamIntact
  <2> QED
    BY <2>5, <2>7
<1> QED
  BY <1>1, <1>2, <1>3, <1>5, <1>6, FrameIsNext, FrameGoesOn DEF RelayNext, TakesUnit, WritesUnit

\* RelayInv holds at first and every step keeps it.
LEMMA RelayInitially == CratesInit => RelayInv
<1> SUFFICES ASSUME RelayInit PROVE RelayInv
  BY DEF CratesInit
<1>1. RelayTypeOK
  <2>1. <<>> \in Seq(Nat)
    OBVIOUS
  <2>2. out \in [Dirs -> Seq(Nat)]
    BY <2>1 DEF RelayInit
  <2> QED
    BY <2>1, <2>2 DEF RelayInit, RelayTypeOK, SetupStages
<1>2. Placed
  BY DEF RelayInit, Placed, SetupStages
<1>3. StreamIntact
  <2>1. \A d \in Dirs : Skipped(d) = 0 /\ out[d] = <<>>
    BY DEF RelayInit, Skipped
  <2> QED
    BY <2>1, UnitsShape DEF StreamIntact
<1> QED
  BY <1>1, <1>2, <1>3 DEF RelayInv

LEMMA RelayStep == RelayInv /\ [CratesNext]_cratesVars => RelayInv'
<1> SUFFICES ASSUME RelayInv, [CratesNext]_cratesVars PROVE RelayInv'
  OBVIOUS
<1>1. RelayNext \/ UNCHANGED relayVars
  BY DEF CratesNext, cratesVars
<1>2. CASE UNCHANGED relayVars
  BY <1>2 DEF relayVars, RelayInv, RelayTypeOK, Placed, InArbiter, UnitsTaken,
              StreamIntact, Skipped
<1>3. CASE RelayNext
  BY <1>3, RelayTypes, StreamPlaced DEF RelayInv
<1> QED
  BY <1>1, <1>2, <1>3

\* However the first read cuts the browser's bytes, whichever relay is chosen
\* and whatever both sides send: each side has received a run of consecutive
\* units of the other, from the first one or, behind the arbiter, from the one
\* after the request (the connection's task and PrefixedStream of main.rs,
\* intercept_stream of ws_arbiter.rs).
THEOREM StreamIntactHolds == CratesSpec => []StreamIntact
<1>1. RelayInv => StreamIntact
  BY DEF RelayInv
<1> QED
  BY <1>1, RelayInitially, RelayStep, PTL DEF CratesSpec

-----------------------------------------------------------------------------
(***************************************************************************)
(* The capture.                                                            *)
(***************************************************************************)

LogEntry == [dir : Dirs, unit : Nat]

\* The frames of direction d in F are the binary ones after lo and up to hi,
\* in ascending order.
Catches(F, d, lo, hi) ==
    /\ \A i \in DOMAIN F : F[i].dir = d =>
          lo < F[i].unit /\ F[i].unit <= hi /\ F[i].unit \notin Texts
    /\ \A u \in (lo + 1)..hi : u \notin Texts =>
          \E i \in DOMAIN F : F[i].dir = d /\ F[i].unit = u
    /\ \A i, j \in DOMAIN F :
          F[i].dir = d /\ F[j].dir = d /\ i < j => F[i].unit < F[j].unit

\* The units of direction d that have been passed to the logger's channel, or
\* past it.
UnitsSniffed(d) ==
    FirstUnit(d) + Len(out[d]) + (IF task[d].at = "write" THEN 1 ELSE 0)

CaptureInv ==
    /\ ipc \in Seq(LogEntry) /\ logged \in Seq(LogEntry)
    /\ stage \notin {"ws", "ended"} => ipc = <<>> /\ logged = <<>>
    /\ stage # "ws" => \A d \in Dirs : task[d].at \in {"idle", "ended"}
    /\ stage = "ws" => \A d \in Dirs : task[d].at # "ended" =>
          Catches(logged \o ipc, d, FirstUnit(d), UnitsSniffed(d))

LEMMA FrameAppended ==
    ASSUME NEW F \in Seq(LogEntry), NEW f \in LogEntry
    PROVE  /\ Append(F, f) \in Seq(LogEntry)
           /\ DOMAIN Append(F, f) = 1..(Len(F) + 1) /\ DOMAIN F = 1..Len(F)
           /\ Len(F) \in Nat
           /\ Append(F, f)[Len(F) + 1] = f
           /\ \A i \in DOMAIN F : Append(F, f)[i] = F[i] /\ F[i] \in LogEntry
OBVIOUS

\* The next binary frame enters behind the others of its direction,
LEMMA CatchesNext ==
    ASSUME NEW F \in Seq(LogEntry), NEW d \in Dirs, NEW lo \in Nat, NEW hi \in Nat,
           lo <= hi, Catches(F, d, lo, hi), hi + 1 \notin Texts
    PROVE  Catches(Append(F, [dir |-> d, unit |-> hi + 1]), d, lo, hi + 1)
<1> DEFINE f == [dir |-> d, unit |-> hi + 1]
           G == Append(F, f)
<1>1. f \in LogEntry /\ f.dir = d /\ f.unit = hi + 1
  BY DEF LogEntry
<1> HIDE DEF f
<1>2. /\ DOMAIN G = 1..(Len(F) + 1) /\ DOMAIN F = 1..Len(F) /\ Len(F) \in Nat
      /\ G[Len(F) + 1] = f
      /\ \A i \in DOMAIN F : G[i] = F[i] /\ F[i] \in LogEntry
  BY <1>1, FrameAppended
<1>3. \A i \in DOMAIN F : F[i].unit \in Nat
  BY <1>2 DEF LogEntry
<1> HIDE DEF G
<1>4. ASSUME NEW i \in DOMAIN G, G[i].dir = d
      PROVE  lo < G[i].unit /\ G[i].unit <= hi + 1 /\ G[i].unit \notin Texts
  <2>1. CASE i = Len(F) + 1
    BY <1>1, <1>2, <2>1
  <2>2. CASE i \in DOMAIN F
    BY <1>2, <1>3, <1>4, <2>2 DEF Catches
  <2> QED
    BY <1>2, <2>1, <2>2
<1>5. ASSUME NEW u \in (lo + 1)..(hi + 1), u \notin Texts
      PROVE  \E i \in DOMAIN G : G[i].dir = d /\ G[i].unit = u
  <2>1. CASE u = hi + 1
    BY <1>1, <1>2, <2>1
  <2>2. CASE u # hi + 1
    <3>1. u \in (lo + 1)..hi
      BY <2>2
    <3>2. PICK i \in DOMAIN F : F[i].dir = d /\ F[i].unit = u
      BY <1>5, <3>1 DEF Catches
    <3> QED
      BY <1>2, <3>2
  <2> QED
    BY <2>1, <2>2
<1>6. ASSUME NEW i \in DOMAIN G, NEW j \in DOMAIN G,
             G[i].dir = d, G[j].dir = d, i < j
      PROVE  G[i].unit < G[j].unit
  <2>1. i \in DOMAIN F
    BY <1>2, <1>6
  <2>2. CASE j = Len(F) + 1
    BY <1>1, <1>2, <1>3, <1>6, <2>1, <2>2 DEF Catches
  <2>3. CASE j \in DOMAIN F
    BY <1>2, <1>6, <2>1, <2>3 DEF Catches
  <2> QED
    BY <1>2, <2>2, <2>3
<1>7. Catches(G, d, lo, hi + 1)
  BY <1>4, <1>5, <1>6 DEF Catches
<1> QED
  BY <1>7 DEF G, f

\* a text frame is passed by, and a frame of the other direction is another's.
LEMMA CatchesText ==
    ASSUME NEW F \in Seq(LogEntry), NEW d \in Dirs, NEW lo \in Nat, NEW hi \in Nat,
           Catches(F, d, lo, hi), hi + 1 \in Texts
    PROVE  Catches(F, d, lo, hi + 1)
<1>1. \A i \in DOMAIN F : F[i].unit \in Nat
  <2>1. \A i \in DOMAIN F : F[i] \in LogEntry
    OBVIOUS
  <2> QED
    BY <2>1 DEF LogEntry
<1>2. \A i \in DOMAIN F : F[i].dir = d =>
          lo < F[i].unit /\ F[i].unit <= hi + 1 /\ F[i].unit \notin Texts
  BY <1>1 DEF Catches
<1>3. ASSUME NEW u \in (lo + 1)..(hi + 1), u \notin Texts
      PROVE  \E i \in DOMAIN F : F[i].dir = d /\ F[i].unit = u
  <2>1. u \in (lo + 1)..hi
    BY <1>3
  <2> QED
    BY <1>3, <2>1 DEF Catches
<1> QED
  BY <1>2, <1>3 DEF Catches

LEMMA CatchesOther ==
    ASSUME NEW F \in Seq(LogEntry), NEW d \in Dirs, NEW lo \in Nat, NEW hi \in Nat,
           Catches(F, d, lo, hi), NEW f \in LogEntry, f.dir # d
    PROVE  Catches(Append(F, f), d, lo, hi)
<1> DEFINE G == Append(F, f)
<1>1. /\ DOMAIN G = 1..(Len(F) + 1) /\ DOMAIN F = 1..Len(F) /\ Len(F) \in Nat
      /\ G[Len(F) + 1] = f
      /\ \A i \in DOMAIN F : G[i] = F[i]
  BY FrameAppended
<1> HIDE DEF G
<1>2. \A i \in DOMAIN G : G[i].dir = d => i \in DOMAIN F /\ G[i] = F[i]
  BY <1>1
<1>3. \A i \in DOMAIN F : i \in DOMAIN G /\ G[i] = F[i]
  BY <1>1
<1>4. Catches(G, d, lo, hi)
  <2>1. \A i \in DOMAIN G : G[i].dir = d =>
            lo < G[i].unit /\ G[i].unit <= hi /\ G[i].unit \notin Texts
    BY <1>2 DEF Catches
  <2>2. \A u \in (lo + 1)..hi : u \notin Texts =>
            \E i \in DOMAIN G : G[i].dir = d /\ G[i].unit = u
    BY <1>3 DEF Catches
  <2>3. \A i, j \in DOMAIN G :
            G[i].dir = d /\ G[j].dir = d /\ i < j => G[i].unit < G[j].unit
    BY <1>2 DEF Catches
  <2> QED
    BY <2>1, <2>2, <2>3 DEF Catches
<1> QED
  BY <1>4 DEF G

\* The logger moves a frame from the channel's front to the end of its log.
LEMMA FramesMove ==
    ASSUME NEW l \in Seq(LogEntry), NEW c \in Seq(LogEntry), c # <<>>
    PROVE  /\ Append(l, Head(c)) \in Seq(LogEntry) /\ Tail(c) \in Seq(LogEntry)
           /\ Append(l, Head(c)) \o Tail(c) = l \o c
OBVIOUS

LEMMA FramesJoin ==
    ASSUME NEW l \in Seq(LogEntry), NEW c \in Seq(LogEntry), NEW f \in LogEntry
    PROVE  /\ l \o c \in Seq(LogEntry) /\ Append(c, f) \in Seq(LogEntry)
           /\ l \o Append(c, f) = Append(l \o c, f)
OBVIOUS

LEMMA SniffedNat ==
    ASSUME RelayTypeOK, NEW d \in Dirs
    PROVE  /\ FirstUnit(d) \in Nat /\ UnitsSniffed(d) \in Nat
           /\ FirstUnit(d) <= UnitsSniffed(d)
<1>1. FirstUnit(d) \in Nat /\ Len(out[d]) \in Nat
  BY UnitsTakenNat
<1> QED
  BY <1>1 DEF UnitsSniffed

\* A step of a task that captures nothing.
LEMMA CaptureKept ==
    ASSUME CaptureInv, stage = "ws", UNCHANGED <<stage, ipc, logged>>,
           \A d \in Dirs : task'[d].at # "ended" =>
               task[d].at # "ended" /\ UnitsSniffed(d)' = UnitsSniffed(d)
    PROVE  CaptureInv'
<1>1. \A d \in Dirs : task'[d].at # "ended" =>
          Catches(logged' \o ipc', d, FirstUnit(d), UnitsSniffed(d)')
  BY DEF CaptureInv
<1> QED
  BY <1>1 DEF CaptureInv

\* A task hands a binary frame to the logger, or lets a text frame pass.
LEMMA CaptureSniffs ==
    ASSUME RelayInv, CaptureInv, NEW d \in Dirs, Sniff(d)
    PROVE  CaptureInv'
<1>0. /\ RelayTypeOK /\ InArbiter(d) /\ stage = "ws" /\ task[d].at = "sniff"
      /\ UNCHANGED <<stage, out, logged>>
      /\ ipc \in Seq(LogEntry) /\ logged \in Seq(LogEntry)
  BY DEF RelayInv, Placed, Sniff, CaptureInv
<1> DEFINE F == logged \o ipc
           hi == UnitsSniffed(d)
           f == [dir |-> d, unit |-> hi + 1]
<1>1. /\ hi \in Nat /\ FirstUnit(d) \in Nat /\ FirstUnit(d) <= hi
      /\ F \in Seq(LogEntry)
  BY <1>0, SniffedNat
<1>2. f \in LogEntry /\ f.dir = d
  BY <1>1 DEF LogEntry
<1>3. task[d].unit = hi + 1
  <2>1. Len(out[d]) \in Nat
    BY <1>0, UnitsTakenNat
  <2> QED
    BY <1>0, <1>1, <2>1 DEF InArbiter, UnitsTaken, UnitsSniffed
<1>4. task'[d].at = "write" /\ \A e \in Dirs \ {d} : task'[e] = task[e]
  BY <1>0 DEF Sniff, RelayTypeOK
<1>5. UnitsSniffed(d)' = hi + 1
  <2>1. Len(out[d]) \in Nat
    BY <1>0, UnitsTakenNat
  <2> QED
    BY <1>0, <1>1, <1>4, <2>1 DEF UnitsSniffed
<1>6. \A e \in Dirs \ {d} : UnitsSniffed(e)' = UnitsSniffed(e)
  BY <1>0, <1>4 DEF UnitsSniffed
<1>7. Catches(F, d, FirstUnit(d), hi)
  BY <1>0 DEF CaptureInv
<1>8. \/ task[d].unit \in Texts /\ UNCHANGED ipc
      \/ task[d].unit \notin Texts /\ ipc' = Append(ipc, f)
  BY <1>3 DEF Sniff
<1> HIDE DEF f, hi
<1>9. CASE task[d].unit \in Texts /\ UNCHANGED ipc
  <2>1. Catches(F, d, FirstUnit(d), hi + 1)
    BY <1>1, <1>3, <1>7, <1>9, CatchesText
  <2>2. \A e \in Dirs : task'[e].at # "ended" =>
            Catches(logged' \o ipc', e, FirstUnit(e), UnitsSniffed(e)')
    <3> SUFFICES ASSUME NEW e \in Dirs, task'[e].at # "ended"
                 PROVE  Catches(logged' \o ipc', e, FirstUnit(e), UnitsSniffed(e)')
      OBVIOUS
    <3>1. CASE e = d
      BY <1>0, <1>5, <1>9, <2>1, <3>1
    <3>2. CASE e # d
      BY <1>0, <1>4, <1>6, <1>9, <3>2 DEF CaptureInv
    <3> QED
      BY <3>1, <3>2
  <2> QED
    BY <1>0, <1>9, <2>2 DEF CaptureInv
<1>10. CASE task[d].unit \notin Texts /\ ipc' = Append(ipc, f)
  <2>1. logged' \o ipc' = Append(F, f) /\ ipc' \in Seq(LogEntry)
    BY <1>0, <1>2, <1>10, FramesJoin
  <2>2. Catches(Append(F, f), d, FirstUnit(d), hi + 1)
    BY <1>1, <1>3, <1>7, <1>10, CatchesNext DEF f
  <2>3. \A e \in Dirs : task'[e].at # "ended" =>
            Catches(logged' \o ipc', e, FirstUnit(e), UnitsSniffed(e)')
    <3> SUFFICES ASSUME NEW e \in Dirs, task'[e].at # "ended"
                 PROVE  Catches(logged' \o ipc', e, FirstUnit(e), UnitsSniffed(e)')
      OBVIOUS
    <3>1. CASE e = d
      BY <1>5, <2>1, <2>2, <3>1
    <3>2. CASE e # d
      <4>1. Catches(F, e, FirstUnit(e), UnitsSniffed(e))
        BY <1>0, <1>4, <3>2 DEF CaptureInv
      <4>2. FirstUnit(e) \in Nat /\ UnitsSniffed(e) \in Nat
        BY <1>0, SniffedNat
      <4>3. Catches(Append(F, f), e, FirstUnit(e), UnitsSniffed(e))
        BY <1>1, <1>2, <3>2, <4>1, <4>2, CatchesOther
      <4> QED
        BY <1>6, <2>1, <3>2, <4>3
    <3> QED
      BY <3>1, <3>2
  <2> QED
    BY <1>0, <2>1, <2>3 DEF CaptureInv
<1> QED
  BY <1>8, <1>9, <1>10

\* Every step of the relay keeps the capture complete.
LEMMA CaptureStep ==
    ASSUME RelayInv, CaptureInv, RelayNext
    PROVE  CaptureInv'
<1>0. RelayTypeOK /\ ipc \in Seq(LogEntry) /\ logged \in Seq(LogEntry)
  BY DEF RelayInv, CaptureInv
<1>1. CASE Socks5Handshake \/ Connect \/ TlsAccept \/ TlsConnect \/ SetupFails
           \/ CopyEnds \/ Joined
  <2>1. UNCHANGED <<task, ipc, logged>> /\ stage' # "ws"
        /\ (stage' = "ended" \/ stage \notin {"ws", "ended"})
    BY <1>1 DEF Socks5Handshake, Connect, TlsAccept, TlsConnect, SetupFails,
                CopyEnds, Joined, Become
  <2>2. \A d \in Dirs : task[d].at \in {"idle", "ended"}
    BY <1>1 DEF CaptureInv, Socks5Handshake, Connect, TlsAccept, TlsConnect,
                SetupFails, CopyEnds, Joined
  <2> QED
    BY <2>1, <2>2 DEF CaptureInv
<1>2. ASSUME NEW n \in 1..MaxUnits["up"], FirstRead(n) PROVE CaptureInv'
  BY <1>2 DEF FirstRead, CaptureInv
<1>3. CASE WsAccept
  <2>1. /\ ipc' = <<>> /\ logged' = <<>> /\ stage' = "ws"
        /\ \A d \in Dirs : task'[d].at = "read" /\ out'[d] = <<>>
    BY <1>3 DEF WsAccept, CaptureInv, RelayInv, Placed
  <2>2. \A d \in Dirs : UnitsSniffed(d)' = FirstUnit(d) /\ FirstUnit(d) \in Nat
    BY <1>0, <2>1, SniffedNat DEF UnitsSniffed, FirstUnit
  <2>3. \A d \in Dirs : Catches(<<>>, d, FirstUnit(d), FirstUnit(d))
    BY <2>2 DEF Catches
  <2>4. logged' \o ipc' = <<>>
    BY <2>1
  <2>5. \A d \in Dirs : Catches(logged' \o ipc', d, FirstUnit(d), UnitsSniffed(d)')
    BY <2>2, <2>3, <2>4
  <2> QED
    BY <2>1, <2>5 DEF CaptureInv
<1>4. CASE LogFrame
  <2>1. /\ ipc # <<>> /\ logged' = Append(logged, Head(ipc)) /\ ipc' = Tail(ipc)
        /\ UNCHANGED <<stage, task, out>>
    BY <1>4 DEF LogFrame
  <2>2. /\ logged' \in Seq(LogEntry) /\ ipc' \in Seq(LogEntry)
        /\ logged' \o ipc' = logged \o ipc
    BY <1>0, <2>1, FramesMove
  <2>3. \A d \in Dirs : UnitsSniffed(d)' = UnitsSniffed(d)
    BY <2>1 DEF UnitsSniffed
  <2>4. stage \in {"ws", "ended"}
    BY <2>1 DEF CaptureInv
  <2>5. stage = "ws" => \A d \in Dirs : task'[d].at # "ended" =>
            Catches(logged' \o ipc', d, FirstUnit(d), UnitsSniffed(d)')
    BY <2>1, <2>2, <2>3 DEF CaptureInv
  <2> QED
    BY <2>1, <2>2, <2>4, <2>5 DEF CaptureInv
<1>5. ASSUME NEW d \in Dirs, SideSends(d) \/ SideStopsReading(d) PROVE CaptureInv'
  BY <1>5 DEF SideSends, SideStopsReading, CaptureInv, UnitsSniffed
<1>6. ASSUME NEW d \in Dirs, CopyUnit(d) PROVE CaptureInv'
  BY <1>6 DEF CopyUnit, CaptureInv
<1>7. ASSUME NEW d \in Dirs, NextFrame(d) PROVE CaptureInv'
  <2>1. stage = "ws" /\ task[d].at = "read" /\ UNCHANGED <<stage, out, ipc, logged>>
    BY <1>7 DEF NextFrame
  <2>2. task'[d].at = "sniff" /\ \A e \in Dirs \ {d} : task'[e] = task[e]
    BY <1>0, <1>7 DEF NextFrame, PollRead, RelayTypeOK
  <2>3. \A e \in Dirs : task'[e].at # "ended" =>
            task[e].at # "ended" /\ UnitsSniffed(e)' = UnitsSniffed(e)
    BY <2>1, <2>2 DEF UnitsSniffed
  <2> QED
    BY <2>1, <2>3, CaptureKept
<1>8. ASSUME NEW d \in Dirs, ForwardFrame(d) PROVE CaptureInv'
  <2>0. FirstUnit(d) \in Nat /\ Len(out[d]) \in Nat /\ out[d] \in Seq(Nat)
        /\ task[d].unit \in Nat
    BY <1>0, UnitsTakenNat DEF RelayTypeOK
  <2>1. stage = "ws" /\ task[d].at = "write" /\ UNCHANGED <<stage, ipc, logged>>
    BY <1>8 DEF ForwardFrame
  <2>2. /\ task'[d].at = "read" /\ out'[d] = Append(out[d], task[d].unit)
        /\ \A e \in Dirs \ {d} : task'[e] = task[e] /\ out'[e] = out[e]
    BY <1>0, <1>8 DEF ForwardFrame, RelayTypeOK
  <2>3. Len(out'[d]) = Len(out[d]) + 1
    BY <2>0, <2>2
  <2>4. UnitsSniffed(d)' = UnitsSniffed(d)
    <3>1. UnitsSniffed(d) = FirstUnit(d) + Len(out[d]) + 1
      BY <2>1 DEF UnitsSniffed
    <3>2. UnitsSniffed(d)' = FirstUnit(d) + (Len(out[d]) + 1) + 0
      BY <2>2, <2>3 DEF UnitsSniffed, FirstUnit
    <3> QED
      BY <2>0, <3>1, <3>2
  <2>5. \A e \in Dirs : task'[e].at # "ended" =>
            task[e].at # "ended" /\ UnitsSniffed(e)' = UnitsSniffed(e)
    BY <2>1, <2>2, <2>4 DEF UnitsSniffed
  <2> QED
    BY <2>1, <2>5, CaptureKept
<1>9. ASSUME NEW d \in Dirs, TaskBreaks(d) PROVE CaptureInv'
  <2>1. stage = "ws" /\ UNCHANGED <<stage, out, ipc, logged>>
    BY <1>9 DEF TaskBreaks
  <2>2. task'[d].at = "ended" /\ \A e \in Dirs \ {d} : task'[e] = task[e]
    BY <1>0, <1>9 DEF TaskBreaks, RelayTypeOK
  <2>3. \A e \in Dirs : task'[e].at # "ended" =>
            task[e].at # "ended" /\ UnitsSniffed(e)' = UnitsSniffed(e)
    BY <2>1, <2>2 DEF UnitsSniffed
  <2> QED
    BY <2>1, <2>3, CaptureKept
<1> QED
  BY <1>1, <1>2, <1>3, <1>4, <1>5, <1>6, <1>7, <1>8, <1>9, CaptureSniffs
     DEF RelayNext, TakesUnit, WritesUnit

\* What Catches says is what CaptureComplete asks of a task between frames.
LEMMA CaughtIsDelivered ==
    ASSUME RelayInv, CaptureInv
    PROVE  CaptureComplete
<1> DEFINE F == logged \o ipc
<1> SUFFICES ASSUME NEW d \in Dirs, task[d].at \in {"read", "sniff"}
             PROVE  /\ {F[i].unit : i \in Captured(d)} = Range(out[d]) \ Texts
                    /\ \A i, j \in Captured(d) : i < j => F[i].unit < F[j].unit
  BY DEF CaptureComplete
<1>1. /\ stage = "ws" /\ RelayTypeOK
      /\ Catches(F, d, FirstUnit(d), UnitsSniffed(d))
      /\ F \in Seq(LogEntry)
  BY DEF CaptureInv, RelayInv
<1> DEFINE lo == FirstUnit(d)
           n == Len(out[d])
<1>2. lo \in Nat /\ n \in Nat /\ UnitsSniffed(d) = lo + n
  BY <1>1, UnitsTakenNat DEF UnitsSniffed
<1>3. out[d] = Units(lo, n)
  <2>1. Skipped(d) = FirstUnit(d)
    BY <1>1 DEF RelayInv, Placed, InArbiter, Skipped, FirstUnit
  <2> QED
    BY <2>1 DEF RelayInv, StreamIntact
<1> HIDE DEF lo, n
<1>4. Range(out[d]) = (lo + 1)..(lo + n)
  <2>1. DOMAIN out[d] = 1..n /\ \A i \in 1..n : out[d][i] = lo + i
    BY <1>2, <1>3 DEF Units
  <2>2. \A u \in (lo + 1)..(lo + n) : u - lo \in 1..n /\ u = lo + (u - lo)
    BY <1>2
  <2>3. \A i \in 1..n : lo + i \in (lo + 1)..(lo + n)
    BY <1>2
  <2> QED
    BY <2>1, <2>2, <2>3 DEF Range
<1>5. \A i \in DOMAIN F : F[i].unit \in Nat
  <2>1. \A i \in DOMAIN F : F[i] \in LogEntry
    BY <1>1
  <2> QED
    BY <2>1 DEF LogEntry
<1>6. Catches(F, d, lo, lo + n)
  BY <1>1, <1>2 DEF lo
<1>7. Captured(d) = {i \in DOMAIN F : F[i].dir = d}
  BY DEF Captured
<1> HIDE DEF F
<1>8. \A i \in Captured(d) : F[i].unit \in (lo + 1)..(lo + n) /\ F[i].unit \notin Texts
  BY <1>2, <1>5, <1>6, <1>7 DEF Catches
<1>9. \A u \in (lo + 1)..(lo + n) : u \notin Texts =>
          \E i \in Captured(d) : F[i].unit = u
  BY <1>6, <1>7 DEF Catches
<1>10. {F[i].unit : i \in Captured(d)} = Range(out[d]) \ Texts
  BY <1>4, <1>8, <1>9
<1>11. \A i, j \in Captured(d) : i < j => F[i].unit < F[j].unit
  BY <1>6, <1>7 DEF Catches
<1> QED
  BY <1>10, <1>11

\* Whatever the channel's capacity and however both tasks and the logger take
\* turns: while a task of the arbiter is between two frames, the captured
\* frames of its direction are exactly the binary frames it delivered, each
\* once and in order (ws_arbiter.rs sends to the channel before it forwards).
THEOREM CaptureCompleteHolds == CratesSpec => []CaptureComplete
<1> DEFINE J == RelayInv /\ CaptureInv
<1>1. CratesInit => J
  <2>1. CratesInit => CaptureInv
    BY DEF CratesInit, RelayInit, CaptureInv
  <2> QED
    BY <2>1, RelayInitially
<1>2. J /\ [CratesNext]_cratesVars => J'
  <2> SUFFICES ASSUME RelayInv, CaptureInv, [CratesNext]_cratesVars
               PROVE  RelayInv' /\ CaptureInv'
    OBVIOUS
  <2>1. RelayInv'
    BY RelayStep
  <2>2. RelayNext \/ UNCHANGED relayVars
    BY DEF CratesNext, cratesVars
  <2>3. CASE UNCHANGED relayVars
    BY <2>1, <2>3 DEF relayVars, CaptureInv, UnitsSniffed
  <2> QED
    BY <2>1, <2>2, <2>3, CaptureStep
<1>3. J => CaptureComplete
  BY CaughtIsDelivered
<1> HIDE DEF J
<1> QED
  BY <1>1, <1>2, <1>3, PTL DEF CratesSpec

-----------------------------------------------------------------------------
(***************************************************************************)
(* Sequence NAT, for any number of sub-clients: as long as the operations  *)
(* do not overlap, the numbers rise and every acknowledgement finds its    *)
(* own frame and its place in the browser's numbers.                       *)
(*                                                                         *)
(* WireAscends says nothing of an operation that is under way.  Reserved   *)
(* does: it bounds the numbers given out so far by the counters, one less  *)
(* while an operation holds a number it has not yet put on the wire.       *)
(***************************************************************************)
Busy(t) == op[t].at # "idle"

\* At most one task is in an operation.
OneBusy == \A t, u \in Tasks : Busy(t) /\ Busy(u) => t = u

\* What a task in an operation holds, relative to the counters.
Held(t) ==
    /\ op[t].at \in {"delta", "transform"} =>
           t = Browser /\ op[t].seq = highest_browser_seq
    /\ op[t].at = "transform" => op[t].delta = delta_offset
    /\ op[t].at \in {"browser", "inject"} =>
           t \in Injectors /\ op[t].delta + 1 = delta_offset
    /\ op[t].at = "inject" => op[t].seq = highest_browser_seq

\* The numbers given out so far.
Reserved ==
    \A k \in DOMAIN frames :
        /\ frames[k].wire =< highest_browser_seq + delta_offset
        /\ (\E t \in Tasks : Busy(t)) =>
               frames[k].wire < highest_browser_seq + delta_offset

\* An entry of the table is that of a frame with the entry's number.
Tabled ==
    \A w \in Numbers :
        pending_table[w] # 0 =>
            /\ pending_table[w] \in DOMAIN frames
            /\ frames[pending_table[w]].wire = w

\* The inductive invariant.
IInv ==
    /\ TypeOK
    /\ OneBusy
    /\ \A t \in Tasks : Held(t)
    /\ Reserved
    /\ WireAscends
    /\ Tabled
    /\ AckFindsItsFrame

-----------------------------------------------------------------------------
\* A frame in the sequence is a frame, and its number is a wire number.
LEMMA FrameWire ==
    ASSUME TypeOK, NEW k \in DOMAIN frames
    PROVE  /\ frames[k] \in Frame /\ frames[k].wire \in Numbers
           /\ frames[k].wire \in Int /\ k \in Nat \ {0}
  <1>1. frames \in Seq(Frame) /\ k \in 1..Len(frames)
    BY DEF TypeOK
  <1>2. frames[k] \in Frame
    BY <1>1, ElementOfSeq
  <1> QED  BY <1>1, <1>2, NatAssumption DEF Frame, Numbers

\* The initial states satisfy the inductive invariant.
LEMMA InitIInv == Init => IInv
  <1> SUFFICES ASSUME Init PROVE IInv
    OBVIOUS
  <1>1. frames \in Seq(Frame) /\ DOMAIN frames = {}
    BY DEF Init
  <1>2. TypeOK
    <2>1. op \in [Tasks -> Op]
      BY NatAssumption DEF Init, Idle, At, Op
    <2> QED  BY <1>1, <2>1, NatAssumption DEF Init, TypeOK, Numbers
  <1>3. OneBusy /\ \A t \in Tasks : Held(t)
    BY DEF Init, OneBusy, Busy, Held, Idle, At
  <1>4. Reserved /\ WireAscends
    BY <1>1, Zenon DEF Reserved, WireAscends
  <1>5. Tabled /\ AckFindsItsFrame
    BY DEF Init, Tabled, AckFindsItsFrame
  <1> QED  BY <1>2, <1>3, <1>4, <1>5 DEF IInv

\* A serialised task that starts is alone.
LEMMA StartAlone ==
    ASSUME Serialised = TRUE, NEW t \in Tasks, CanStart(t)
    PROVE  \A u \in Tasks : ~Busy(u)
  BY DEF CanStart, Busy

\* A new frame whose number is above all others keeps what the frames and the
\* table say.
LEMMA PutAscends ==
    ASSUME IInv, NEW t \in Tasks, NEW w \in Numbers, PutOnWire(t, w),
           \A k \in DOMAIN frames : frames[k].wire < w
    PROVE  /\ frames' \in Seq(Frame) /\ op' \in [Tasks -> Op]
           /\ highest_wire_seq' \in Numbers
           /\ pending_table' \in [Numbers -> Nat]
           /\ DOMAIN frames' = 1..(Len(frames) + 1)
           /\ frames'[Len(frames) + 1].wire = w
           /\ \A k \in DOMAIN frames : frames'[k] = frames[k]
           /\ DOMAIN frames = 1..Len(frames) /\ Len(frames) \in Nat
           /\ WireAscends' /\ Tabled'
  <1> DEFINE f == [task |-> t, seq |-> op[t].seq, wire |-> w]
             n == Len(frames)
  <1>1. frames \in Seq(Frame) /\ n \in Nat /\ DOMAIN frames = 1..n
    BY DEF IInv, TypeOK
  <1>2. f \in Frame /\ f.wire = w
    BY DEF IInv, TypeOK, Frame, Op
  <1>3. frames' = Append(frames, f)
    BY DEF PutOnWire
  <1> HIDE DEF f, n
  <1>4. /\ frames' \in Seq(Frame) /\ DOMAIN frames' = 1..(n + 1)
        /\ frames'[n + 1] = f /\ \A k \in DOMAIN frames : frames'[k] = frames[k]
    BY <1>1, <1>2, <1>3 DEF n
  <1>5. op' \in [Tasks -> Op]
    <2>1. Idle \in Op
      BY NatAssumption DEF Idle, At, Op
    <2> QED  BY <2>1 DEF IInv, TypeOK, PutOnWire
  <1>6. highest_wire_seq' \in Numbers
    BY DEF IInv, TypeOK, PutOnWire, LargerOf
  <1>7. pending_table' = [pending_table EXCEPT ![w] = n + 1]
    BY DEF PutOnWire, n
  <1>8. pending_table' \in [Numbers -> Nat]
    BY <1>1, <1>7 DEF IInv, TypeOK
  <1>9. WireAscends'
    <2> SUFFICES ASSUME NEW j \in DOMAIN frames', NEW k \in DOMAIN frames', j < k
                 PROVE  frames'[j].wire < frames'[k].wire
      BY DEF WireAscends
    <2>1. j \in DOMAIN frames
      BY <1>1, <1>4
    <2>2. CASE k \in DOMAIN frames
      BY <1>4, <2>1, <2>2 DEF IInv, WireAscends
    <2>3. CASE k = n + 1
      BY <1>2, <1>4, <2>1, <2>3
    <2> QED  BY <1>1, <1>4, <2>2, <2>3
  <1>10. Tabled'
    <2> SUFFICES ASSUME NEW v \in Numbers, pending_table'[v] # 0
                 PROVE  /\ pending_table'[v] \in DOMAIN frames'
                        /\ frames'[pending_table'[v]].wire = v
      BY DEF Tabled
    <2>1. CASE v = w
      BY <1>1, <1>2, <1>4, <1>7, <2>1 DEF IInv, TypeOK
    <2>2. CASE v # w
      <3>1. pending_table'[v] = pending_table[v]
        BY <1>7, <2>2 DEF IInv, TypeOK
      <3>2. /\ pending_table[v] \in DOMAIN frames
            /\ frames[pending_table[v]].wire = v
        BY <3>1 DEF IInv, Tabled
      <3> QED  BY <1>1, <1>4, <3>1, <3>2
    <2> QED  BY <2>1, <2>2
  <1> QED  BY <1>1, <1>2, <1>4, <1>5, <1>6, <1>8, <1>9, <1>10 DEF n

\* The end of an operation whose number the counters reserved.
LEMMA EndIInv ==
    ASSUME IInv, NEW t \in Tasks, Busy(t),
           PutOnWire(t, highest_browser_seq + delta_offset),
           UNCHANGED <<delta_offset, highest_browser_seq, acks>>
    PROVE  IInv'
  <1> DEFINE w == highest_browser_seq + delta_offset
  <1>1. w \in Numbers /\ w \in Int
    BY NatAssumption DEF IInv, TypeOK, Numbers
  <1>2. \A k \in DOMAIN frames : frames[k].wire < w
    BY DEF IInv, Reserved
  <1>3. /\ frames' \in Seq(Frame) /\ op' \in [Tasks -> Op]
        /\ highest_wire_seq' \in Numbers
        /\ pending_table' \in [Numbers -> Nat]
        /\ DOMAIN frames' = 1..(Len(frames) + 1)
        /\ frames'[Len(frames) + 1].wire = w
        /\ \A k \in DOMAIN frames : frames'[k] = frames[k]
        /\ DOMAIN frames = 1..Len(frames) /\ Len(frames) \in Nat
        /\ WireAscends' /\ Tabled'
    BY <1>1, <1>2, PutAscends
  <1>4. TypeOK'
    BY <1>3 DEF IInv, TypeOK
  <1>5. op' = [op EXCEPT ![t] = Idle] /\ op \in [Tasks -> Op]
    BY DEF PutOnWire, IInv, TypeOK
  <1>6. \A u \in Tasks : ~Busy(u)'
    BY <1>5 DEF Busy, IInv, OneBusy, Idle, At
  <1>7. OneBusy' /\ \A u \in Tasks : Held(u)'
    BY <1>6 DEF OneBusy, Held, Busy
  <1>8. Reserved'
    <2> SUFFICES ASSUME NEW k \in DOMAIN frames' PROVE frames'[k].wire =< w
      BY <1>6 DEF Reserved
    <2>1. CASE k \in DOMAIN frames
      <3>1. frames[k].wire \in Int
        BY <2>1, FrameWire DEF IInv
      <3> QED  BY <1>1, <1>2, <1>3, <2>1, <3>1
    <2>2. CASE k = Len(frames) + 1
      BY <1>1, <1>3, <2>2
    <2> QED  BY <1>3, <2>1, <2>2
  <1>9. AckFindsItsFrame'
    BY DEF IInv, AckFindsItsFrame
  <1> QED  BY <1>3, <1>4, <1>7, <1>8, <1>9 DEF IInv

\* Every step of a serialised system keeps the inductive invariant.
LEMMA NextIInv ==
    ASSUME Serialised = TRUE PROVE IInv /\ [Next]_vars => IInv'
  <1> SUFFICES ASSUME IInv, [Next]_vars PROVE IInv'
    OBVIOUS
  <1>a. Browser \in Tasks /\ \A t \in Injectors : t \in Tasks /\ t # Browser
    BY NatAssumption DEF Tasks
  <1>b. TypeOK /\ op \in [Tasks -> Op]
    BY DEF IInv, TypeOK
  <1>1. ASSUME NEW seq \in 1..MaxSeq, TransformStart(seq) PROVE IInv'
    <2>1. \A u \in Tasks : ~Busy(u)
      BY <1>a, <1>1, StartAlone DEF TransformStart
    <2>2. /\ highest_browser_seq' = seq
          /\ op' = [op EXCEPT ![Browser] =
                      [at |-> "delta", seq |-> seq, delta |-> 0]]
          /\ UNCHANGED <<delta_offset, highest_wire_seq, frames, pending_table, acks>>
          /\ seq > highest_browser_seq
      <3>1. highest_browser_seq \in Int /\ seq \in Int
        BY <1>b, NatAssumption DEF TypeOK
      <3>2. LargerOf(highest_browser_seq, seq) = seq
        BY <1>1, <3>1 DEF TransformStart, LargerOf
      <3> QED  BY <1>1, <3>2 DEF TransformStart, At
    <2>3. TypeOK'
      <3>1. [at |-> "delta", seq |-> seq, delta |-> 0] \in Op
        BY NatAssumption DEF Op
      <3>2. op' \in [Tasks -> Op]
        BY <1>b, <2>2, <3>1
      <3> QED  BY <2>2, <3>2 DEF IInv, TypeOK
    <2>4. OneBusy'
      BY <1>b, <2>1, <2>2 DEF OneBusy, Busy
    <2>5. \A t \in Tasks : Held(t)'
      BY <1>a, <1>b, <2>1, <2>2 DEF Held, Busy
    <2>6. Reserved'
      <3> SUFFICES ASSUME NEW k \in DOMAIN frames
                   PROVE  frames[k].wire < seq + delta_offset
        <4>1. \A k \in DOMAIN frames : frames[k].wire \in Int
          BY FrameWire DEF IInv
        <4> QED  BY <2>2, <4>1 DEF Reserved, IInv, TypeOK
      <3>1. frames[k].wire =< highest_browser_seq + delta_offset /\ frames[k].wire \in Int
        BY FrameWire DEF IInv, Reserved
      <3> QED  BY <2>2, <3>1 DEF IInv, TypeOK
    <2>7. WireAscends' /\ Tabled' /\ AckFindsItsFrame'
      BY <2>2 DEF IInv, WireAscends, Tabled, AckFindsItsFrame
    <2> QED  BY <2>3, <2>4, <2>5, <2>6, <2>7 DEF IInv
  <1>2. CASE TransformLoadDelta
    <2>1. /\ op[Browser].at = "delta"
          /\ op' = [op EXCEPT ![Browser] =
                      [at |-> "transform", seq |-> op[Browser].seq,
                       delta |-> delta_offset]]
          /\ UNCHANGED <<delta_offset, highest_wire_seq, highest_browser_seq,
                         frames, pending_table, acks>>
      BY <1>a, <1>b, <1>2 DEF TransformLoadDelta, At
    <2>2. TypeOK'
      <3>1. [at |-> "transform", seq |-> op[Browser].seq,
             delta |-> delta_offset] \in Op
        BY <1>a, <1>b DEF Op, TypeOK
      <3>2. op' \in [Tasks -> Op]
        BY <1>b, <2>1, <3>1
      <3> QED  BY <2>1, <3>2 DEF IInv, TypeOK
    <2>3. \A t \in Tasks : Busy(t)' <=> Busy(t)
      BY <1>b, <2>1 DEF Busy
    <2>4. OneBusy'
      BY <2>3 DEF IInv, OneBusy
    <2>5. \A t \in Tasks : Held(t)'
      BY <1>a, <1>b, <2>1 DEF IInv, Held
    <2>6. Reserved'
      BY <2>1, <2>3 DEF IInv, Reserved
    <2>7. WireAscends' /\ Tabled' /\ AckFindsItsFrame'
      BY <2>1 DEF IInv, WireAscends, Tabled, AckFindsItsFrame
    <2> QED  BY <2>2, <2>4, <2>5, <2>6, <2>7 DEF IInv
  <1>3. CASE TransformEnd
    <2>1. Busy(Browser) /\ op[Browser].seq + op[Browser].delta
                             = highest_browser_seq + delta_offset
      BY <1>a, <1>3 DEF IInv, Held, Busy, TransformEnd
    <2> QED  BY <1>a, <1>3, <2>1, EndIInv DEF TransformEnd
  <1>4. ASSUME NEW t \in Injectors, InjectStart(t) PROVE IInv'
    <2>1. \A u \in Tasks : ~Busy(u)
      BY <1>a, <1>4, StartAlone DEF InjectStart
    <2>2. /\ delta_offset' = delta_offset + 1 /\ delta_offset < MaxInject
          /\ op' = [op EXCEPT ![t] =
                      [at |-> "browser", seq |-> 0, delta |-> delta_offset]]
          /\ UNCHANGED <<highest_wire_seq, highest_browser_seq, frames,
                         pending_table, acks>>
      BY <1>4 DEF InjectStart, At
    <2>3. TypeOK'
      <3>1. [at |-> "browser", seq |-> 0, delta |-> delta_offset] \in Op
        BY NatAssumption DEF Op, IInv, TypeOK
      <3>2. op' \in [Tasks -> Op]
        BY <1>a, <1>b, <2>2, <3>1
      <3>3. delta_offset' \in 0..MaxInject
        BY <2>2, NatAssumption DEF IInv, TypeOK
      <3> QED  BY <2>2, <3>2, <3>3 DEF IInv, TypeOK
    <2>4. OneBusy'
      BY <1>b, <2>1, <2>2 DEF OneBusy, Busy
    <2>5. \A u \in Tasks : Held(u)'
      BY <1>a, <1>b, <2>1, <2>2 DEF Held, Busy
    <2>6. Reserved'
      <3> SUFFICES ASSUME NEW k \in DOMAIN frames
                   PROVE  frames[k].wire < highest_browser_seq + (delta_offset + 1)
        <4>1. \A k \in DOMAIN frames : frames[k].wire \in Int
          BY FrameWire DEF IInv
        <4> QED  BY <2>2, <4>1 DEF Reserved, IInv, TypeOK
      <3>1. frames[k].wire =< highest_browser_seq + delta_offset /\ frames[k].wire \in Int
        BY FrameWire DEF IInv, Reserved
      <3> QED  BY <3>1 DEF IInv, TypeOK
    <2>7. WireAscends' /\ Tabled' /\ AckFindsItsFrame'
      BY <2>2 DEF IInv, WireAscends, Tabled, AckFindsItsFrame
    <2> QED  BY <2>3, <2>4, <2>5, <2>6, <2>7 DEF IInv
  <1>5. ASSUME NEW t \in Injectors, InjectLoadBrowser(t) PROVE IInv'
    <2>1. /\ op[t].at = "browser"
          /\ op' = [op EXCEPT ![t] =
                      [at |-> "inject", seq |-> highest_browser_seq,
                       delta |-> op[t].delta]]
          /\ UNCHANGED <<delta_offset, highest_wire_seq, highest_browser_seq,
                         frames, pending_table, acks>>
      BY <1>a, <1>b, <1>5 DEF InjectLoadBrowser, At
    <2>2. TypeOK'
      <3>1. [at |-> "inject", seq |-> highest_browser_seq,
             delta |-> op[t].delta] \in Op
        BY <1>a, <1>b DEF Op, TypeOK
      <3>2. op' \in [Tasks -> Op]
        BY <1>a, <1>b, <2>1, <3>1
      <3> QED  BY <2>1, <3>2 DEF IInv, TypeOK
    <2>3. \A u \in Tasks : Busy(u)' <=> Busy(u)
      BY <1>a, <1>b, <2>1 DEF Busy
    <2>4. OneBusy'
      BY <2>3 DEF IInv, OneBusy
    <2>5. \A u \in Tasks : Held(u)'
      BY <1>a, <1>b, <2>1 DEF IInv, Held
    <2>6. Reserved'
      BY <2>1, <2>3 DEF IInv, Reserved
    <2>7. WireAscends' /\ Tabled' /\ AckFindsItsFrame'
      BY <2>1 DEF IInv, WireAscends, Tabled, AckFindsItsFrame
    <2> QED  BY <2>2, <2>4, <2>5, <2>6, <2>7 DEF IInv
  <1>6. ASSUME NEW t \in Injectors, InjectEnd(t) PROVE IInv'
    <2>1. op[t] \in Op /\ op[t].at = "inject"
      BY <1>a, <1>b, <1>6 DEF InjectEnd
    <2>2. Busy(t) /\ op[t].seq + op[t].delta + 1
                       = highest_browser_seq + delta_offset
      <3>1. /\ op[t].seq = highest_browser_seq /\ op[t].delta + 1 = delta_offset
            /\ Busy(t)
        BY <1>a, <2>1 DEF IInv, Held, Busy
      <3>2. op[t].seq \in Int /\ op[t].delta \in Int
        BY <2>1, NatAssumption DEF Op
      <3> QED  BY <3>1, <3>2
    <2> QED  BY <1>a, <1>6, <2>2, EndIInv DEF InjectEnd
  <1>7. ASSUME NEW k \in DOMAIN frames, ResolveAck(k) PROVE IInv'
    <2> DEFINE w == frames[k].wire
               e == pending_table[w]
    <2>1. w \in Numbers /\ k \in Nat /\ e \in Nat
      BY FrameWire DEF IInv, TypeOK
    <2>2. /\ acks' = acks \cup {[frame |-> k, entry |-> e]}
          /\ pending_table' = [pending_table EXCEPT ![w] = 0]
          /\ UNCHANGED <<delta_offset, highest_wire_seq, highest_browser_seq, op,
                         frames>>
      BY <1>7 DEF ResolveAck
    <2>3. e \in {k, 0}
      <3> SUFFICES ASSUME e # 0 PROVE e = k
        OBVIOUS
      <3>1. e \in DOMAIN frames /\ frames[e].wire = w
        BY <2>1 DEF IInv, Tabled
      <3>2. ~(e < k) /\ ~(k < e)
        <4>1. w \in Int
          BY FrameWire DEF IInv
        <4> QED  BY <3>1, <4>1 DEF IInv, WireAscends
      <3> QED  BY <2>1, <3>2
    <2> HIDE DEF w, e
    <2>4. TypeOK'
      BY <2>1, <2>2 DEF IInv, TypeOK
    <2>5. AckFindsItsFrame'
      BY <2>2, <2>3 DEF IInv, AckFindsItsFrame
    <2>6. Tabled'
      BY <2>1, <2>2 DEF IInv, TypeOK, Tabled
    <2>7. OneBusy' /\ (\A t \in Tasks : Held(t)') /\ Reserved' /\ WireAscends'
      BY <2>2 DEF IInv, OneBusy, Held, Busy, Reserved, WireAscends
    <2> QED  BY <2>4, <2>5, <2>6, <2>7 DEF IInv
  <1>8. ASSUME NEW k \in DOMAIN frames, CleanupStaleRequests(k) PROVE IInv'
    <2>1. TypeOK'
      BY <1>8 DEF IInv, TypeOK, CleanupStaleRequests
    <2>2. Tabled'
      BY <1>8 DEF IInv, Tabled, CleanupStaleRequests
    <2>3. /\ OneBusy' /\ (\A t \in Tasks : Held(t)') /\ Reserved'
          /\ WireAscends' /\ AckFindsItsFrame'
      BY <1>8 DEF IInv, OneBusy, Held, Busy, Reserved, WireAscends,
                  AckFindsItsFrame, CleanupStaleRequests
    <2> QED  BY <2>1, <2>2, <2>3 DEF IInv
  <1>9. CASE UNCHANGED vars
    <2>1. TypeOK' /\ WireAscends' /\ Tabled' /\ AckFindsItsFrame'
      BY <1>9 DEF IInv, TypeOK, WireAscends, Tabled, AckFindsItsFrame, vars
    <2>2. OneBusy' /\ (\A t \in Tasks : Held(t)') /\ Reserved'
      BY <1>9 DEF IInv, OneBusy, Held, Busy, Reserved, vars
    <2> QED  BY <2>1, <2>2 DEF IInv
  <1> QED
    BY <1>1, <1>2, <1>3, <1>4, <1>5, <1>6, <1>7, <1>8, <1>9 DEF Next

LEMMA NatRuns == CratesSpec => Spec
  <1>1. CratesInit => Init
    BY DEF CratesInit
  <1>2. [CratesNext]_cratesVars => [Next]_vars
    BY DEF CratesNext, cratesVars
  <1> QED  BY <1>1, <1>2, PTL DEF CratesSpec, Spec

LEMMA NatInvariant == ASSUME Serialised = TRUE PROVE CratesSpec => []IInv
  <1> QED  BY NatRuns, InitIInv, NextIInv, PTL DEF Spec

-----------------------------------------------------------------------------
\* An injection counts in the delta before its frame is numbered.
Injecting == \E t \in Injectors : Busy(t)

\* How far a frame of the browser is from its own number, and from the delta.
Shifted ==
    \A k \in DOMAIN frames :
        frames[k].task = Browser =>
            frames[k].wire + InjectedAfter(k) =
                frames[k].seq + delta_offset - (IF Injecting THEN 1 ELSE 0)

\* The injections after a frame are counted.
LEMMA InjectedAfterNat ==
    ASSUME TypeOK, NEW k \in DOMAIN frames
    PROVE  InjectedAfter(k) \in Nat
  <1>1. DOMAIN frames = 1..Len(frames) /\ Len(frames) \in Nat
    BY DEF TypeOK
  <1>2. IsFiniteSet(DOMAIN frames)
    BY <1>1, FS_Interval
  <1> QED  BY <1>2, FS_Subset, FS_CardinalityType DEF InjectedAfter

\* A frame put on the wire comes after all others: it adds one to their counts
\* when it is injected, and nothing follows it.
LEMMA PutCounts ==
    ASSUME TypeOK, NEW t \in Tasks, NEW w \in Numbers, PutOnWire(t, w)
    PROVE  /\ \A k \in DOMAIN frames :
                 /\ k \in DOMAIN frames' /\ frames'[k] = frames[k]
                 /\ InjectedAfter(k)' =
                        InjectedAfter(k) + (IF t = Browser THEN 0 ELSE 1)
           /\ DOMAIN frames' = DOMAIN frames \cup {Len(frames) + 1}
           /\ frames'[Len(frames) + 1] = [task |-> t, seq |-> op[t].seq, wire |-> w]
           /\ \A k \in {Len(frames) + 1} : InjectedAfter(k)' = 0
  <1> DEFINE f == [task |-> t, seq |-> op[t].seq, wire |-> w]
             n == Len(frames)
             After(k) == {j \in DOMAIN frames : j > k /\ frames[j].task # Browser}
  <1>1. frames \in Seq(Frame) /\ n \in Nat /\ DOMAIN frames = 1..n
    BY DEF TypeOK
  <1>2. f \in Frame /\ f.task = t
    BY DEF TypeOK, Frame, Op
  <1>3. frames' = Append(frames, f)
    BY DEF PutOnWire
  <1> HIDE DEF f, n
  <1>4. /\ DOMAIN frames' = 1..(n + 1) /\ frames'[n + 1] = f
        /\ \A k \in DOMAIN frames : frames'[k] = frames[k]
    BY <1>1, <1>2, <1>3 DEF n
  <1>5. ASSUME NEW k \in DOMAIN frames
        PROVE  InjectedAfter(k)' = InjectedAfter(k) + (IF t = Browser THEN 0 ELSE 1)
    <2>1. {j \in DOMAIN frames' : j > k /\ frames'[j].task # Browser} =
              IF t = Browser THEN After(k) ELSE After(k) \cup {n + 1}
      BY <1>1, <1>2, <1>4
    <2>2. IsFiniteSet(After(k)) /\ n + 1 \notin After(k)
      <3>1. IsFiniteSet(DOMAIN frames)
        BY <1>1, FS_Interval
      <3>2. After(k) \in SUBSET DOMAIN frames
        OBVIOUS
      <3> QED  BY <1>1, <3>1, <3>2, FS_Subset
    <2>3. Cardinality(After(k)) \in Nat
      BY <2>2, FS_CardinalityType
    <2>4. Cardinality(After(k) \cup {n + 1}) = Cardinality(After(k)) + 1
      BY <2>2, FS_AddElement
    <2> HIDE DEF After
    <2>5. InjectedAfter(k)' = Cardinality(IF t = Browser THEN After(k)
                                                        ELSE After(k) \cup {n + 1})
      BY <2>1 DEF InjectedAfter
    <2>6. InjectedAfter(k) = Cardinality(After(k))
      BY DEF InjectedAfter, After
    <2> QED  BY <2>3, <2>4, <2>5, <2>6
  <1>6. ASSUME NEW k \in {n + 1} PROVE InjectedAfter(k)' = 0
    <2>1. {j \in DOMAIN frames' : j > k /\ frames'[j].task # Browser} = {}
      BY <1>1, <1>4
    <2> QED  BY <2>1, FS_EmptySet DEF InjectedAfter
  <1> QED  BY <1>1, <1>4, <1>5, <1>6 DEF f, n

\* A step that puts no frame on the wire and leaves the delta and the injecting
\* tasks alone keeps the shift.
LEMMA ShiftKept ==
    ASSUME Shifted, UNCHANGED <<delta_offset, frames>>, Injecting' = Injecting
    PROVE  Shifted'
  <1>1. \A k \in DOMAIN frames : InjectedAfter(k)' = InjectedAfter(k)
    BY DEF InjectedAfter
  <1> QED  BY <1>1 DEF Shifted

\* Every step of a serialised system keeps the shift.
LEMMA ShiftStep ==
    ASSUME Serialised = TRUE PROVE IInv /\ Shifted /\ [Next]_vars => Shifted'
  <1> SUFFICES ASSUME IInv, Shifted, [Next]_vars PROVE Shifted'
    OBVIOUS
  <1>a. Browser \in Tasks /\ \A t \in Injectors : t \in Tasks /\ t # Browser
    BY NatAssumption DEF Tasks
  <1>b. TypeOK /\ op \in [Tasks -> Op] /\ delta_offset \in Int
    BY NatAssumption DEF IInv, TypeOK
  <1>c. \A k \in DOMAIN frames : /\ frames[k].wire \in Int /\ InjectedAfter(k) \in Int
                                 /\ frames[k].seq \in Int
    <2> SUFFICES ASSUME NEW k \in DOMAIN frames
                 PROVE  /\ frames[k].wire \in Int /\ InjectedAfter(k) \in Int
                        /\ frames[k].seq \in Int
      OBVIOUS
    <2>1. frames[k] \in Frame /\ frames[k].wire \in Int
      BY <1>b, FrameWire
    <2>2. frames[k].seq \in Int
      BY <2>1, NatAssumption DEF Frame
    <2> QED  BY <1>b, <2>1, <2>2, InjectedAfterNat
  <1>1. ASSUME NEW seq \in 1..MaxSeq, TransformStart(seq) PROVE Shifted'
    <2>1. Injecting' = Injecting /\ UNCHANGED <<delta_offset, frames>>
      BY <1>a, <1>b, <1>1 DEF TransformStart, Injecting, Busy
    <2> QED  BY <2>1, ShiftKept
  <1>2. CASE TransformLoadDelta
    <2>1. Injecting' = Injecting /\ UNCHANGED <<delta_offset, frames>>
      BY <1>a, <1>b, <1>2 DEF TransformLoadDelta, Injecting, Busy
    <2> QED  BY <2>1, ShiftKept
  <1>3. CASE TransformEnd
    <2> DEFINE w == highest_browser_seq + delta_offset
               n == Len(frames)
    <2>1. /\ Busy(Browser) /\ op[Browser].seq + op[Browser].delta = w
          /\ op[Browser].seq = highest_browser_seq
      BY <1>a, <1>3 DEF IInv, Held, Busy, TransformEnd
    <2>2. w \in Numbers /\ PutOnWire(Browser, w) /\ delta_offset' = delta_offset
      BY <1>3, <2>1, NatAssumption DEF TransformEnd, IInv, TypeOK, Numbers
    <2>3. ~Injecting
      BY <1>a, <2>1 DEF IInv, OneBusy, Injecting
    <2>4. ~Injecting'
      <3>1. op' = [op EXCEPT ![Browser] = Idle]
        BY <2>2 DEF PutOnWire
      <3> QED  BY <1>a, <1>b, <2>3, <3>1 DEF Injecting, Busy
    <2>5. highest_browser_seq \in Int
      BY NatAssumption DEF IInv, TypeOK
    <2>6. /\ \A k \in DOMAIN frames :
                frames'[k] = frames[k] /\ InjectedAfter(k)' = InjectedAfter(k) + 0
          /\ DOMAIN frames' = DOMAIN frames \cup {n + 1}
          /\ frames'[n + 1] = [task |-> Browser, seq |-> op[Browser].seq, wire |-> w]
          /\ \A k \in {n + 1} : InjectedAfter(k)' = 0
      BY <1>a, <1>b, <2>2, PutCounts
    <2> DEFINE own == op[Browser].seq
    <2>7. own \in Int /\ w = own + delta_offset
      BY <2>1, <2>5
    <2> HIDE DEF w, n, own
    <2>8. ASSUME NEW k \in DOMAIN frames, frames'[k].task = Browser
          PROVE  frames'[k].wire + InjectedAfter(k)' = frames'[k].seq + delta_offset
      BY <1>b, <1>c, <2>3, <2>6, <2>8 DEF Shifted
    <2>9. ASSUME NEW k \in {n + 1}
          PROVE  frames'[k].wire + InjectedAfter(k)' = frames'[k].seq + delta_offset
      BY <1>b, <2>6, <2>7 DEF own
    <2> QED  BY <1>b, <1>c, <2>2, <2>4, <2>6, <2>8, <2>9 DEF Shifted
  <1>4. ASSUME NEW t \in Injectors, InjectStart(t) PROVE Shifted'
    <2>1. ~Injecting
      BY <1>a, <1>4, StartAlone DEF InjectStart, Injecting
    <2>2. /\ delta_offset' = delta_offset + 1 /\ UNCHANGED frames
          /\ op' = [op EXCEPT ![t] = At("browser", 0, delta_offset)]
      BY <1>4 DEF InjectStart
    <2>3. Injecting'
      BY <1>a, <1>b, <2>2 DEF Injecting, Busy, At
    <2>4. \A k \in DOMAIN frames : InjectedAfter(k)' = InjectedAfter(k)
      BY <2>2 DEF InjectedAfter
    <2> QED  BY <1>b, <1>c, <2>1, <2>2, <2>3, <2>4 DEF Shifted
  <1>5. ASSUME NEW t \in Injectors, InjectLoadBrowser(t) PROVE Shifted'
    <2>1. /\ op[t].at = "browser" /\ UNCHANGED <<delta_offset, frames>>
          /\ op' = [op EXCEPT ![t] = At("inject", highest_browser_seq, @.delta)]
      BY <1>5 DEF InjectLoadBrowser
    <2>2. Injecting /\ Injecting'
      BY <1>a, <1>b, <2>1 DEF Injecting, Busy, At
    <2> QED  BY <2>1, <2>2, ShiftKept
  <1>6. ASSUME NEW t \in Injectors, InjectEnd(t) PROVE Shifted'
    <2> DEFINE w == highest_browser_seq + delta_offset
               n == Len(frames)
    <2>1. op[t] \in Op /\ op[t].at = "inject"
      BY <1>a, <1>b, <1>6 DEF InjectEnd
    <2>2. /\ op[t].seq = highest_browser_seq /\ op[t].delta + 1 = delta_offset
          /\ Busy(t)
      BY <1>a, <2>1 DEF IInv, Held, Busy
    <2>3. op[t].seq + op[t].delta + 1 = w
      <3>1. op[t].seq \in Int /\ op[t].delta \in Int
        BY <2>1, NatAssumption DEF Op
      <3> QED  BY <2>2, <3>1
    <2>4. w \in Numbers /\ PutOnWire(t, w) /\ delta_offset' = delta_offset
      BY <1>6, <2>3, NatAssumption DEF InjectEnd, IInv, TypeOK, Numbers
    <2>5. Injecting
      BY <2>2 DEF Injecting
    <2>6. ~Injecting'
      <3>1. op' = [op EXCEPT ![t] = Idle]
        BY <2>4 DEF PutOnWire
      <3>2. \A u \in Injectors : u # t => ~Busy(u)
        BY <1>a, <2>2 DEF IInv, OneBusy
      <3> QED  BY <1>a, <1>b, <3>1, <3>2 DEF Injecting, Busy, Idle, At
    <2>7. /\ \A k \in DOMAIN frames :
                frames'[k] = frames[k] /\ InjectedAfter(k)' = InjectedAfter(k) + 1
          /\ DOMAIN frames' = DOMAIN frames \cup {n + 1}
          /\ frames'[n + 1] = [task |-> t, seq |-> op[t].seq, wire |-> w]
      BY <1>a, <1>b, <2>4, PutCounts
    <2>8. frames'[n + 1].task # Browser
      BY <1>a, <2>7
    <2> HIDE DEF w, n
    <2> QED  BY <1>b, <1>c, <2>4, <2>5, <2>6, <2>7, <2>8 DEF Shifted
  <1>7. ASSUME NEW k \in DOMAIN frames, ResolveAck(k) \/ CleanupStaleRequests(k)
        PROVE  Shifted'
    <2>1. Injecting' = Injecting /\ UNCHANGED <<delta_offset, frames>>
      BY <1>7 DEF ResolveAck, CleanupStaleRequests, Injecting, Busy
    <2> QED  BY <2>1, ShiftKept
  <1>8. CASE UNCHANGED vars
    <2>1. Injecting' = Injecting /\ UNCHANGED <<delta_offset, frames>>
      BY <1>8 DEF vars, Injecting, Busy
    <2> QED  BY <2>1, ShiftKept
  <1> QED
    BY <1>1, <1>2, <1>3, <1>4, <1>5, <1>6, <1>7, <1>8 DEF Next

\* With no injection under way, the delta takes a frame of the browser back to
\* its own number less the injections after it.
LEMMA ShiftTranslates ==
    ASSUME IInv, Shifted
    PROVE  AckTranslates
  <1> SUFFICES ASSUME \A t \in Tasks : op[t].at = "idle",
                      NEW k \in DOMAIN frames, frames[k].task = Browser
               PROVE  TranslateWireToBrowser(frames[k].wire) =
                          IF frames[k].seq - InjectedAfter(k) >= 0
                          THEN frames[k].seq - InjectedAfter(k) ELSE -1
    BY DEF AckTranslates
  <1>1. ~Injecting
    BY DEF Injecting, Busy, Tasks
  <1>2. frames[k].wire + InjectedAfter(k) = frames[k].seq + delta_offset
    <2>1. frames[k].seq \in Int /\ delta_offset \in Int
      BY FrameWire, NatAssumption DEF IInv, TypeOK, Frame
    <2> QED  BY <1>1, <2>1 DEF Shifted
  <1>3. /\ frames[k].wire \in Int /\ InjectedAfter(k) \in Int
        /\ frames[k].seq \in Int /\ delta_offset \in Int
    BY FrameWire, InjectedAfterNat, NatAssumption DEF IInv, TypeOK, Frame
  <1> QED  BY <1>2, <1>3 DEF TranslateWireToBrowser

LEMMA ShiftInvariant == ASSUME Serialised = TRUE PROVE CratesSpec => []Shifted
  <1>1. Init => Shifted
    BY DEF Init, Shifted
  <1> QED  BY <1>1, ShiftStep, NatInvariant, NatRuns, PTL DEF Spec

-----------------------------------------------------------------------------
\* Serialised, the wire numbers of SequenceNat rise strictly, for any number
\* of injecting sub-clients and any rising numbers of the browser.
THEOREM WireAscendsHolds ==
    ASSUME Serialised = TRUE PROVE CratesSpec => []WireAscends
  <1>1. IInv => WireAscends
    BY DEF IInv
  <1> QED  BY <1>1, NatInvariant, PTL

\* Serialised, both ways in which an acknowledgement is resolved, for any number
\* of sub-clients: resolve_ack finds the entry of the frame the server
\* acknowledged or none, also after cleanup_stale_requests and for repeated
\* acknowledgements; and translate_wire_to_browser gives the browser its own
\* number less the injections that came after the frame.
THEOREM AcksResolveHolds ==
    ASSUME Serialised = TRUE PROVE CratesSpec => []AcksResolve
  <1>1. IInv /\ Shifted => AcksResolve
    BY ShiftTranslates DEF IInv, AcksResolve
  <1> QED  BY <1>1, NatInvariant, ShiftInvariant, PTL
=============================================================================
