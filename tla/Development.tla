---------------------------- MODULE Development ----------------------------
(***************************************************************************)
(* What a developer's machine does with source: builds of Python layers    *)
(* and their execution, the desktop's watched projects, and the windows of *)
(* the Views that run there.  They share no state, so focus says which of  *)
(* them a behaviour follows.                                               *)
(***************************************************************************)
EXTENDS PythonBuild, ApplicationWatch, ViewSurface

VARIABLE focus

vars == <<focus, pythonVars, watchVars, surfaceVars>>

Init == /\ focus \in {"python", "watch", "views"}
        /\ PythonInit
        /\ focus = "python" \/ \A b \in Builds : build[b] = Unbuilt
        /\ WatchInit
        /\ SurfaceInit

Next == /\ UNCHANGED focus
        /\ \/ focus = "python" /\ PythonNext /\ UNCHANGED <<watchVars, surfaceVars>>
           \/ focus = "watch" /\ WatchNext /\ UNCHANGED <<pythonVars, surfaceVars>>
           \/ focus = "views" /\ SurfaceNext /\ UNCHANGED <<pythonVars, watchVars>>

Spec == Init /\ [][Next]_vars
=============================================================================
