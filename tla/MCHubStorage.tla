---------------------------- MODULE MCHubStorage ----------------------------
(* Instances of HubStorage for TLC. *)
EXTENDS HubStorage

CONSTANTS m1, m2, c1, s1, s2

Msg(i, s, t) == [id |-> i, conv |-> c1, sender |-> s, ts |-> t]

\* One id in two versions, a second id from another sender.
MCInputs == {Msg(m1, s1, 1), Msg(m1, s1, 2), Msg(m2, s2, 1)}

\* A full dump that lists m1 twice, the later entry older, and knows no
\* contact of s2; and a dump with a conversation and nothing else.
MCDumps == {[convs |-> {c1}, contacts |-> {s1},
             msgs |-> <<Msg(m1, s1, 2), Msg(m2, s2, 2), Msg(m1, s1, 1)>>],
            [convs |-> {c1}, contacts |-> {}, msgs |-> <<>>]}
=============================================================================
