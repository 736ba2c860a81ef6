------------------------------ MODULE HoloTree ------------------------------
(***************************************************************************)
(* What RunningApplication (src/src/holo_provider.rs) promises the code    *)
(* that owns one: a tree of layers is a single object with one lifecycle   *)
(* state.  It comes up or fails as a whole, callers are let in only while  *)
(* the state admits them, a stop starts only when nobody is inside, and a  *)
(* stopped tree stays stopped.  HoloLifecycle implements this with layers, *)
(* gates and sweeps; HoloRuntime relies on it.                             *)
(***************************************************************************)
CONSTANTS Callers, Intents

VARIABLES
  life,   \* the LifecycleState
  busy    \* the callers inside a layer of the tree

vars == <<life, busy>>

Init == life = "Preparing" /\ busy = {}

\* The root and every child have started; Views were already attached.
Start ==
  /\ life = "Preparing"
  /\ life' = "Running"
  /\ UNCHANGED busy

\* Some layer failed: what was prepared is rolled back.
StartFails ==
  /\ life = "Preparing"
  /\ life' = "Failed"
  /\ UNCHANGED busy

\* Direct invocations need a running tree.  A View intent is admitted by its
\* primary layer alone, from the attachment of the View until the tree is
\* stopped.
Enter(c) ==
  /\ life # "Stopped"
  /\ c \notin Intents => life = "Running"
  /\ busy' = busy \cup {c}
  /\ UNCHANGED life

Leave(c) ==
  /\ c \in busy
  /\ busy' = busy \ {c}
  /\ UNCHANGED life

BeginStop ==
  /\ life \in {"Running", "Failed"}
  /\ busy = {}
  /\ life' = "Stopping"
  /\ UNCHANGED busy

\* Ok, or Failed when some layer could not be stopped: the stop can then be
\* tried again.
EndStop ==
  /\ life = "Stopping"
  /\ busy = {}
  /\ life' \in {"Stopped", "Failed"}
  /\ UNCHANGED busy

Next ==
  \/ Start \/ StartFails \/ BeginStop \/ EndStop
  \/ \E c \in Callers : Enter(c) \/ Leave(c)

Spec == Init /\ [][Next]_vars

=============================================================================
