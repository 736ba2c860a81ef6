----------------------------- MODULE LocalNode -----------------------------
(***************************************************************************)
(* What one installation keeps, serves and runs: the daemon's files, the   *)
(* completion endpoints, the self-update and the component layers with the *)
(* storage graph they are prepared with.  They share no state, so every    *)
(* interleaving of them is an interleaving of each alone: focus says which *)
(* of them a behaviour follows.  Only the preparation of a graph-read      *)
(* layer depends on a resolution, so the resolution's steps come first.    *)
(***************************************************************************)
EXTENDS Storage, Inference, Update, ComponentHost

CONSTANTS WholeStore, HostLimits \* the store and the limits that layers are prepared with

VARIABLE focus

vars == <<focus, storageVars, inferenceVars, updateVars, graphVars, hostVars>>

Init == /\ focus \in {"files", "completion", "update", "graph", "layers"}
        /\ StorageInit /\ (focus = "files" \/ todo = [t \in Tasks |-> <<>>])
        /\ InferenceInit /\ (focus = "completion" \/ body = <<>>)
        /\ UpdateInit
        /\ HostInit /\ (focus = "layers" <=> \E l \in Layers : layer[l].phase # "absent")
        /\ focus = "graph" \/ (store = WholeStore /\ limits = HostLimits)
        /\ focus \in {"graph", "layers"} \/ roots = <<>>
        /\ GraphInit

Next == /\ UNCHANGED focus
        /\ \/ /\ focus = "files" /\ StorageNext
              /\ UNCHANGED <<inferenceVars, updateVars, graphVars, hostVars>>
           \/ /\ focus = "completion" /\ InferenceNext
              /\ UNCHANGED <<storageVars, updateVars, graphVars, hostVars>>
           \/ /\ focus = "update" /\ UpdateNext
              /\ UNCHANGED <<storageVars, inferenceVars, graphVars, hostVars>>
           \/ /\ focus \in {"graph", "layers"} /\ GraphNext
              /\ UNCHANGED <<storageVars, inferenceVars, updateVars, hostVars>>
           \/ /\ focus = "layers" /\ graph # "resolving" /\ HostNext
              /\ UNCHANGED <<storageVars, inferenceVars, updateVars, graphVars>>

Spec == Init /\ [][Next]_vars /\ InferenceFairness /\ HostFairness
=============================================================================
