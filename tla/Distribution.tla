---------------------------- MODULE Distribution ----------------------------
(***************************************************************************)
(* The way of an archive: its manifest generated (AppInit), compiled,      *)
(* imported, planned and admitted on one machine (HoloPlan), published to  *)
(* a registry and fetched from it by others (ArtifactRegistry).  Between   *)
(* them it travels as a file; they share no other state, so every          *)
(* interleaving of them is an interleaving of each alone: focus says which *)
(* one a behaviour follows.                                                *)
(***************************************************************************)
EXTENDS HoloPlan, ArtifactRegistry, AppInit

VARIABLE focus

vars == <<focus, compileVars, planVars, registryVars, initVars>>

Init == /\ focus \in {"plan", "registry", "init"}
        /\ PlanInit /\ RegistryInit /\ AppInitInit

Next == /\ UNCHANGED focus
        /\ \/ focus = "plan" /\ PlanNext /\ UNCHANGED <<registryVars, initVars>>
           \/ /\ focus = "registry" /\ RegistryNext
              /\ UNCHANGED <<compileVars, planVars, initVars>>
           \/ /\ focus = "init" /\ InitNext
              /\ UNCHANGED <<compileVars, planVars, registryVars>>

Spec == Init /\ [][Next]_vars
=============================================================================
