------------------------------ MODULE Ratchet ------------------------------
(***************************************************************************)
(* The symmetric ratchet (crates/zalo-crypto/src/ratchet.rs), one          *)
(* direction of one conversation: a sender whose send chain and a receiver *)
(* whose receive chain start at the shared root key.                       *)
(*                                                                         *)
(* A chain key is the number of kdf_ck steps that lead to it from the root *)
(* key, and the message key it yields has the same number: AES-GCM opens a *)
(* ciphertext exactly when the two numbers agree.  The transport loses and *)
(* reorders packets; with Duplicates it also delivers one twice.  The      *)
(* bound on messages keeps the u32 indices far from wrapping.              *)
(***************************************************************************)
EXTENDS Integers

CONSTANTS
    MaxMsgs,     \* bound: messages sent
    Duplicates   \* the transport may deliver a packet twice

ASSUME RatchetAssumption ==
    /\ MaxMsgs \in Nat /\ MaxMsgs < 2147483647
    /\ Duplicates \in BOOLEAN

VARIABLES
    send_chain_key, send_msg_index,
    recv_chain_key, recv_msg_index,
    skipped_keys,  \* message keys of indices that were passed over
    packets,       \* packets in transit
    unopened       \* packets whose decryption failed

ratchetVars == <<send_chain_key, send_msg_index, recv_chain_key,
                 recv_msg_index, skipped_keys, packets, unopened>>

Packet == [index : 0..MaxMsgs, key : 0..MaxMsgs]

RatchetInit ==
    /\ send_chain_key = 0 /\ send_msg_index = 0
    /\ recv_chain_key = 0 /\ recv_msg_index = 0
    /\ skipped_keys = {}
    /\ packets = {}
    /\ unopened = {}

Encrypt ==
    /\ send_msg_index < MaxMsgs
    /\ packets' = packets \cup {[index |-> send_msg_index, key |-> send_chain_key]}
    /\ send_chain_key' = send_chain_key + 1
    /\ send_msg_index' = send_msg_index + 1
    /\ UNCHANGED <<recv_chain_key, recv_msg_index, skipped_keys, unopened>>

\* The packet leaves the transport, unless a copy of it stays.
Taken(p) ==
    \/ packets' = packets \ {p}
    \/ Duplicates /\ UNCHANGED packets

\* AES-GCM decryption of p under the message key k.
Opens(p, k) == unopened' = IF k = p.key THEN unopened ELSE unopened \cup {p}

\* decrypt of an index whose key was set aside: the key is used up.
DecryptSkipped(p) ==
    \E s \in skipped_keys :
        /\ s.index = p.index
        /\ skipped_keys' = skipped_keys \ {s}
        /\ Opens(p, s.key)
        /\ Taken(p)
        /\ UNCHANGED <<send_chain_key, send_msg_index, recv_chain_key, recv_msg_index>>

\* How far the receive chain is wound forward, and the keys set aside.
Gap(p) == IF recv_msg_index < p.index THEN p.index - recv_msg_index ELSE 0

\* A bug: the keys passed over are not kept.
PassedOverNothing(p) == {}

PassedOver(p) ==
    {[index |-> recv_msg_index + i, key |-> recv_chain_key + i] :
        i \in 0..(Gap(p) - 1)}

DecryptNext(p) ==
    /\ \A s \in skipped_keys : s.index # p.index
    /\ skipped_keys' = skipped_keys \cup PassedOver(p)
    /\ recv_chain_key' = recv_chain_key + Gap(p) + 1
    /\ recv_msg_index' = recv_msg_index + Gap(p) + 1
    /\ Opens(p, recv_chain_key + Gap(p))
    /\ Taken(p)
    /\ UNCHANGED <<send_chain_key, send_msg_index>>

LosePacket(p) ==
    /\ packets' = packets \ {p}
    /\ UNCHANGED <<send_chain_key, send_msg_index, recv_chain_key,
                   recv_msg_index, skipped_keys, unopened>>

RatchetNext ==
    \/ Encrypt
    \/ \E p \in packets : DecryptSkipped(p) \/ DecryptNext(p) \/ LosePacket(p)

RatchetSpec == RatchetInit /\ [][RatchetNext]_ratchetVars

-----------------------------------------------------------------------------
\* Every packet that arrives is opened, whatever was lost or overtaken before
\* it: the receive chain stays in step with the indices, and the key of an
\* overtaken packet is kept until it arrives.
EveryArrivalOpens == unopened = {}
=============================================================================
