----------------------------- MODULE SafeParts -----------------------------
(***************************************************************************)
(* What the parts that share no variable with each other may never do: the *)
(* hub's two clocks (HubClocks), the login of the network client           *)
(* (NetworkLogin), the hook in Zalo's page (PageHook), the normaliser      *)
(* (Normalizer) and the gate between hub and web client (ClientGate).  A   *)
(* behaviour of all of them is an interleaving of behaviours of each: one  *)
(* search picks a part and then explores that part alone.                  *)
(***************************************************************************)
EXTENDS HubClocks, NetworkLogin, PageHook, Normalizer, ClientGate

VARIABLE part

clockVars == <<vars, hlcVars>>
partsVars == <<part, clockVars, loginVars, hookVars, normVars, gateVars>>

PartsInit ==
    /\ part \in {"clocks", "login", "hook", "normalizer", "gate"}
    /\ HubInit /\ LoginInit /\ HookInit /\ NormInit /\ GateInit
    /\ part # "clocks" => lastRefillTimestamp = 0 /\ lastPhysicalTime = 0
    /\ part # "hook" => ~hooked /\ fn = {}

PartsNext ==
    /\ UNCHANGED part
    /\ \/ /\ part = "clocks" /\ HubNext
          /\ UNCHANGED <<loginVars, hookVars, normVars, gateVars>>
       \/ /\ part = "login" /\ LoginNext
          /\ UNCHANGED <<clockVars, hookVars, normVars, gateVars>>
       \/ /\ part = "hook" /\ HookNext
          /\ UNCHANGED <<clockVars, loginVars, normVars, gateVars>>
       \/ /\ part = "normalizer" /\ NormNext
          /\ UNCHANGED <<clockVars, loginVars, hookVars, gateVars>>
       \/ /\ part = "gate" /\ GateNext
          /\ UNCHANGED <<clockVars, loginVars, hookVars, normVars>>

PartsSpec == PartsInit /\ [][PartsNext]_partsVars
=============================================================================
