----------------------------- MODULE HubClocks -----------------------------
(***************************************************************************)
(* The two objects of the hub that read the wall clock, one of each for    *)
(* all its clients (services/gateway-hub/src/index.ts): the limiter of     *)
(* TokenBucket and the clock of Hlc.  Handlers call either at any time.    *)
(***************************************************************************)
EXTENDS TokenBucket, Hlc

HubInit == Init /\ HlcInit

HubNext ==
    \/ Next /\ UNCHANGED hlcVars
    \/ HlcNext /\ UNCHANGED vars

HubSpec == HubInit /\ [][HubNext]_<<vars, hlcVars>>
=============================================================================
