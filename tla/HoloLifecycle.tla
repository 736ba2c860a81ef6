---------------------------- MODULE HoloLifecycle ----------------------------
(***************************************************************************)
(* The transactional lifecycle of one application tree                     *)
(* (src/src/holo_provider.rs): prepare every layer, start every layer,     *)
(* roll everything back when one fails, then serve invocations and View    *)
(* intents until some caller stops the tree.                               *)
(*                                                                         *)
(* Applications are numbered 1..NumApps and layers 1..NumLayers in the     *)
(* order lifecycle_application_order flattens them; application 1 is the   *)
(* root.  AppOf gives the application a layer belongs to, Primary the      *)
(* primary layer of an application (0: none), ViewLayers the layers that   *)
(* attach a portable View.                                                 *)
(*                                                                         *)
(* One starter task runs prepare_and_start_with_admitted_grants.  The      *)
(* callers are the tasks that later use the application: Invokers call     *)
(* invoke, OneShots invoke_then_stop, Stoppers stop, and Intents are       *)
(* requests from an attached View handled by ApplicationIntentBroker.      *)
(* A caller in Droppable is an HTTP or gRPC handler, whose future is       *)
(* dropped when the client goes away.                                      *)
(***************************************************************************)
EXTENDS Integers, FiniteSets

CONSTANTS NumApps, NumLayers, AppOf, Primary, ViewLayers,
          Invokers, OneShots, Stoppers, Intents, IntentApp, Droppable, Free

Apps    == 1..NumApps
Layers  == 1..NumLayers
Callers == Invokers \cup OneShots \cup Stoppers \cup Intents
StopCallers == Stoppers \cup OneShots

ASSUME PlanAssumption ==
  /\ NumApps \in Nat \ {0}
  /\ NumLayers \in Nat
  /\ AppOf \in [Layers -> Apps]
  /\ \A i, j \in Layers : i < j => AppOf[i] <= AppOf[j]
  /\ Primary \in [Apps -> 0..NumLayers]
  /\ Primary[1] # 0
  /\ \A a \in Apps : Primary[a] # 0 => AppOf[Primary[a]] = a
  /\ ViewLayers \subseteq Layers
  /\ \A a \in Apps : Primary[a] \notin ViewLayers

ASSUME CallerAssumption ==
  /\ IntentApp \in [Intents -> Apps]
  /\ \A c \in Intents : Primary[IntentApp[c]] # 0
  /\ (Invokers \cup OneShots) \cap (Stoppers \cup Intents) = {}
  /\ Invokers \cap OneShots = {}
  /\ Stoppers \cap Intents = {}
  /\ Droppable \subseteq Callers
  /\ Free \notin Callers

VARIABLES
  state,      \* LifecycleState of the RunningApplication
  phase,      \* where the starter task is
  cursor,     \* the layer the starter prepares, starts or rolls back next
  prepared,   \* how many layers are in the starter's `prepared` vector
  layer,      \* what each layer instance is doing
  bound,      \* applications whose intent broker has its primary
  failures,   \* layers whose stop failed in the current or last sweep
  gate,       \* holder of each application's invocation mutex
  pc,         \* where each caller is
  at,         \* a stop caller's next gate, then its next layer
  acked       \* some stop call has returned Ok

starter == <<phase, cursor, prepared, bound>>
vars == <<state, phase, cursor, prepared, layer, bound, failures, gate, pc, at, acked>>

\* Planned is never stored: the state is created as Preparing.
LifecycleStates == {"Preparing", "Running", "Stopping", "Stopped", "Failed"}
Phases      == {"prepare", "start", "starting", "rollback", "ready", "error"}
LayerStates == {"absent", "prepared", "starting", "started", "stopped"}
CallerPcs   == {"idle", "queued", "executing", "locking", "stopping"}

TypeOK ==
  /\ state \in LifecycleStates
  /\ phase \in Phases
  /\ cursor \in 0..(NumLayers + 1)
  /\ prepared \in 0..NumLayers
  /\ layer \in [Layers -> LayerStates]
  /\ bound \subseteq Apps
  /\ failures \subseteq Layers
  /\ gate \in [Apps -> Callers \cup {Free}]
  /\ pc \in [Callers -> CallerPcs]
  /\ at \in [StopCallers -> 0..(NumApps + NumLayers + 1)]
  /\ acked \in BOOLEAN

Init ==
  /\ state = "Preparing"
  /\ phase = "prepare"
  /\ cursor = 1
  /\ prepared = 0
  /\ layer = [i \in Layers |-> "absent"]
  /\ bound = {}
  /\ failures = {}
  /\ gate = [a \in Apps |-> Free]
  /\ pc = [c \in Callers |-> "idle"]
  /\ at = [c \in StopCallers |-> 0]
  /\ acked = FALSE

-----------------------------------------------------------------------------
(* The starter task.                                                       *)

HasView(a) == \E v \in ViewLayers : AppOf[v] = a

\* Every layer of application a is in the prepared vector.
Complete(a, n) == \A i \in Layers : AppOf[i] = a => i <= n

\* Mutant: the sweep covers only the layers that had started.
BeginRollbackStartedOnly ==
  /\ state' = "Failed"
  /\ phase' = "rollback"
  /\ cursor' = cursor - 1
  /\ failures' = {}

\* Entering the rollback sweep: state becomes Failed, the sweep starts at
\* the last prepared layer.
BeginRollback ==
  /\ state' = "Failed"
  /\ phase' = "rollback"
  /\ cursor' = prepared
  /\ failures' = {}

\* provider.prepare succeeded: the layer joins the prepared vector, and when
\* it is the last one of an application with a View, the application's
\* intent broker is bound to its primary.
PrepareLayer ==
  /\ phase = "prepare"
  /\ cursor <= NumLayers
  /\ HasView(AppOf[cursor]) => Primary[AppOf[cursor]] # 0
  /\ layer' = [layer EXCEPT ![cursor] = "prepared"]
  /\ prepared' = cursor
  /\ cursor' = cursor + 1
  /\ bound' = bound \cup {a \in Apps : a = AppOf[cursor] /\ HasView(a) /\ Complete(a, cursor)}
  /\ UNCHANGED <<state, phase, failures, gate, pc, at, acked>>

\* provider.prepare failed, or an application with a View has no primary.
\* The early returns without a rollback (no provider, another provider, no
\* grant) are not modelled: the plan was resolved by the same registry and
\* admitted for every application before the starter runs.
PrepareFails ==
  /\ phase = "prepare"
  /\ cursor <= NumLayers
  /\ BeginRollback
  /\ UNCHANGED <<prepared, layer, bound, gate, pc, at, acked>>

PreparedAll ==
  /\ phase = "prepare"
  /\ cursor > NumLayers
  /\ phase' = "start"
  /\ cursor' = 1
  /\ UNCHANGED <<state, prepared, layer, bound, failures, gate, pc, at, acked>>

\* layer.start().await begins: a View is attached while it is pending.
StartLayer ==
  /\ phase = "start"
  /\ cursor <= NumLayers
  /\ phase' = "starting"
  /\ layer' = [layer EXCEPT ![cursor] = "starting"]
  /\ UNCHANGED <<state, cursor, prepared, bound, failures, gate, pc, at, acked>>

LayerStarted ==
  /\ phase = "starting"
  /\ phase' = "start"
  /\ layer' = [layer EXCEPT ![cursor] = "started"]
  /\ cursor' = cursor + 1
  /\ UNCHANGED <<state, prepared, bound, failures, gate, pc, at, acked>>

\* The layer's start failed: it is back to merely prepared, and every
\* prepared layer is swept, the ones that never started included.
StartFails ==
  /\ phase = "starting"
  /\ layer' = [layer EXCEPT ![cursor] = "prepared"]
  /\ BeginRollback
  /\ UNCHANGED <<prepared, bound, gate, pc, at, acked>>

StartedAll ==
  /\ phase = "start"
  /\ cursor > NumLayers
  /\ phase' = "ready"
  /\ state' = "Running"
  /\ UNCHANGED <<cursor, prepared, layer, bound, failures, gate, pc, at, acked>>

\* One iteration of stop_reverse on layer i: a layer whose stop fails keeps
\* its state and is reported, the sweep goes on.
StopOne(i, ok) ==
  /\ layer' = IF ok THEN [layer EXCEPT ![i] = "stopped"] ELSE layer
  /\ failures' = IF ok THEN failures ELSE failures \cup {i}

RollbackLayer(ok) ==
  /\ phase = "rollback"
  /\ cursor > 0
  /\ StopOne(cursor, ok)
  /\ cursor' = cursor - 1
  /\ UNCHANGED <<state, phase, prepared, bound, gate, pc, at, acked>>

\* The starter returns the original error; nobody owns the tree any more.
RolledBack ==
  /\ phase = "rollback"
  /\ cursor = 0
  /\ phase' = "error"
  /\ UNCHANGED <<state, cursor, prepared, layer, bound, failures, gate, pc, at, acked>>

-----------------------------------------------------------------------------
(* RunningApplication::invoke and ApplicationIntentBroker::handle.         *)

TargetApp(c) == IF c \in Intents THEN IntentApp[c] ELSE 1
Target(c)    == Primary[TargetApp(c)]

\* The application handle exists only once the starter has returned it.
InvokeRequest(c) ==
  /\ c \in Invokers \cup OneShots
  /\ phase = "ready"
  /\ pc[c] = "idle"
  /\ pc' = [pc EXCEPT ![c] = "queued"]
  /\ UNCHANGED <<state, starter, layer, failures, gate, at, acked>>

Attached(a) == \E v \in ViewLayers : AppOf[v] = a /\ layer[v] \in {"starting", "started"}

\* A request from an attached (or attaching) View.  The broker refuses it
\* when its primary is not bound yet.
IntentRequest(c) ==
  /\ c \in Intents
  /\ pc[c] = "idle"
  /\ Attached(IntentApp[c])
  /\ IntentApp[c] \in bound
  /\ pc' = [pc EXCEPT ![c] = "queued"]
  /\ UNCHANGED <<state, starter, layer, failures, gate, at, acked>>

\* Mutant: the layer does not check that it is running.
AdmitsAnyLayer(c) == c \notin Intents => state = "Running"

\* Under the gate, invoke checks the application's state, an intent does
\* not; the layer itself refuses unless it is running.
Admits(c) ==
  /\ c \notin Intents => state = "Running"
  /\ layer[Target(c)] = "started"

Admit(c) ==
  /\ pc[c] = "queued"
  /\ gate[TargetApp(c)] = Free
  /\ Admits(c)
  /\ gate' = [gate EXCEPT ![TargetApp(c)] = c]
  /\ pc' = [pc EXCEPT ![c] = "executing"]
  /\ UNCHANGED <<state, starter, layer, failures, at, acked>>

\* invoke_then_stop stops the application whatever invoke returned.
AfterInvoke(c) ==
  /\ pc' = [pc EXCEPT ![c] = IF c \in OneShots THEN "locking" ELSE "idle"]
  /\ at' = IF c \in OneShots THEN [at EXCEPT ![c] = 1] ELSE at

Refuse(c) ==
  /\ pc[c] = "queued"
  /\ gate[TargetApp(c)] = Free
  /\ ~Admits(c)
  /\ AfterInvoke(c)
  /\ UNCHANGED <<state, starter, layer, failures, gate, acked>>

\* Mutant: an error path keeps the gate.
ReturnKeepsGate(c) ==
  /\ pc[c] = "executing"
  /\ gate' = gate
  /\ AfterInvoke(c)
  /\ UNCHANGED <<state, starter, layer, failures, acked>>

\* The layer's invoke returns (a result or an error) and the gate is dropped.
Return(c) ==
  /\ pc[c] = "executing"
  /\ gate' = [gate EXCEPT ![TargetApp(c)] = Free]
  /\ AfterInvoke(c)
  /\ UNCHANGED <<state, starter, layer, failures, acked>>

-----------------------------------------------------------------------------
(* RunningApplication::stop.                                               *)

StopRequest(c) ==
  /\ c \in Stoppers
  /\ phase = "ready"
  /\ pc[c] = "idle"
  /\ pc' = [pc EXCEPT ![c] = "locking"]
  /\ at' = [at EXCEPT ![c] = 1]
  /\ UNCHANGED <<state, starter, layer, failures, gate, acked>>

\* Mutant: only the root application's gate is locked.
StopLockRootOnly(c) ==
  /\ pc[c] = "locking"
  /\ at[c] <= NumApps
  /\ gate[at[c]] = Free
  /\ gate' = [gate EXCEPT ![at[c]] = c]
  /\ at' = [at EXCEPT ![c] = NumApps + 1]
  /\ UNCHANGED <<state, starter, layer, failures, pc, acked>>

\* Every gate is locked in application order before the state is looked at.
StopLock(c) ==
  /\ pc[c] = "locking"
  /\ at[c] <= NumApps
  /\ gate[at[c]] = Free
  /\ gate' = [gate EXCEPT ![at[c]] = c]
  /\ at' = [at EXCEPT ![c] = at[c] + 1]
  /\ UNCHANGED <<state, starter, layer, failures, pc, acked>>

Released(c) == [a \in Apps |-> IF gate[a] = c THEN Free ELSE gate[a]]

\* Stopped: return Ok.  Stopping (a stop whose future was dropped): return
\* a Conflict error.
StopReturnsEarly(c) ==
  /\ pc[c] = "locking"
  /\ at[c] > NumApps
  /\ state \in {"Stopped", "Stopping"}
  /\ acked' = (acked \/ state = "Stopped")
  /\ gate' = Released(c)
  /\ pc' = [pc EXCEPT ![c] = "idle"]
  /\ UNCHANGED <<state, starter, layer, failures, at>>

\* Mutant: a stop of a stopped tree sweeps it again.
StopBeginUnchecked(c) ==
  /\ pc[c] = "locking"
  /\ at[c] > NumApps
  /\ state' = "Stopping"
  /\ failures' = {}
  /\ pc' = [pc EXCEPT ![c] = "stopping"]
  /\ at' = [at EXCEPT ![c] = NumLayers]
  /\ UNCHANGED <<starter, layer, gate, acked>>

\* The compare-and-swap to Stopping.
StopBegin(c) ==
  /\ pc[c] = "locking"
  /\ at[c] > NumApps
  /\ state \in {"Running", "Failed"}
  /\ state' = "Stopping"
  /\ failures' = {}
  /\ pc' = [pc EXCEPT ![c] = "stopping"]
  /\ at' = [at EXCEPT ![c] = NumLayers]
  /\ UNCHANGED <<starter, layer, gate, acked>>

\* Mutant: layers are stopped in start order.
StopLayerForward(c, ok) ==
  /\ pc[c] = "stopping"
  /\ at[c] > 0
  /\ StopOne(NumLayers + 1 - at[c], ok)
  /\ at' = [at EXCEPT ![c] = at[c] - 1]
  /\ UNCHANGED <<state, starter, gate, pc, acked>>

StopLayer(c, ok) ==
  /\ pc[c] = "stopping"
  /\ at[c] > 0
  /\ StopOne(at[c], ok)
  /\ at' = [at EXCEPT ![c] = at[c] - 1]
  /\ UNCHANGED <<state, starter, gate, pc, acked>>

StopEnd(c) ==
  /\ pc[c] = "stopping"
  /\ at[c] = 0
  /\ state' = IF failures = {} THEN "Stopped" ELSE "Failed"
  /\ acked' = (acked \/ failures = {})
  /\ gate' = Released(c)
  /\ pc' = [pc EXCEPT ![c] = "idle"]
  /\ UNCHANGED <<starter, layer, failures, at>>

\* The future of a droppable caller is dropped at an await point: its gate
\* guards are released, whatever it had already stored stays.  A guest that
\* a dropped invocation leaves on a blocking thread is nobody's call any more.
Drop(c) ==
  /\ c \in Droppable
  /\ pc[c] # "idle"
  /\ gate' = Released(c)
  /\ pc' = [pc EXCEPT ![c] = "idle"]
  /\ UNCHANGED <<state, starter, layer, failures, at, acked>>

-----------------------------------------------------------------------------
Starter ==
  \/ PrepareLayer \/ PrepareFails \/ PreparedAll
  \/ StartLayer \/ LayerStarted \/ StartFails \/ StartedAll
  \/ RollbackLayer(TRUE) \/ RollbackLayer(FALSE) \/ RolledBack

Invocation(c) == InvokeRequest(c) \/ IntentRequest(c) \/ Admit(c) \/ Refuse(c) \/ Return(c)

Stop(c) ==
  \/ StopRequest(c) \/ StopLock(c) \/ StopReturnsEarly(c) \/ StopBegin(c)
  \/ StopLayer(c, TRUE) \/ StopLayer(c, FALSE) \/ StopEnd(c)

Next ==
  \/ Starter
  \/ \E c \in Callers : Invocation(c) \/ Drop(c)
  \/ \E c \in StopCallers : Stop(c)

Spec == Init /\ [][Next]_vars

\* Tasks are polled while they can run, and tokio mutexes queue fairly, so a
\* waiter that finds the gate free again and again gets it.  Nothing is
\* assumed of a guest: Return is not fair.
Fairness ==
  /\ WF_vars(Starter)
  /\ \A c \in Callers : SF_vars(Admit(c) \/ Refuse(c))
  /\ \A c \in StopCallers :
       /\ SF_vars(StopLock(c))
       /\ WF_vars(StopReturnsEarly(c) \/ StopBegin(c) \/ StopLayer(c, TRUE)
                  \/ StopLayer(c, FALSE) \/ StopEnd(c))

FairSpec == Spec /\ Fairness

-----------------------------------------------------------------------------
(* Properties.                                                             *)

\* "Loading or direct execution succeeds only after the entire tree starts":
\* whenever the application reports Running, every layer of the root and of
\* every child has started and none has been stopped since.
RunningMeansAllStarted ==
  state = "Running" => \A i \in Layers : layer[i] = "started"

\* When prepare_and_start returns an error, every layer it had prepared has
\* been stopped, started or not, except the ones whose own stop failed.
FailedStartReleasesAll ==
  phase = "error" =>
    \A i \in Layers : layer[i] \in {"absent", "stopped"} \/ i \in failures

\* stop locks every gate of the tree before it touches a layer, so once the
\* tree has been handed out no invocation or intent is inside any layer
\* while a stop sweep runs.
StopDrainsInvocations ==
  (\E s \in StopCallers : pc[s] = "stopping") => \A c \in Callers : pc[c] # "executing"

\* A guest is only ever running inside a layer that is started, as long as
\* the start of the tree has not failed.
InFlightLayersStayUp ==
  \A c \in Callers :
    pc[c] = "executing" /\ phase \notin {"rollback", "error"} => layer[Target(c)] = "started"

\* The same without the exception for a failed start: ADR 019 says of the
\* gates that "no provider is detached while an admitted invocation is in
\* flight".
NoLayerStoppedInFlight ==
  \A c \in Callers : pc[c] = "executing" => layer[Target(c)] = "started"

\* Once a stop call has answered Ok the whole tree is stopped, and stays so
\* whatever callers were queued on the gates when it answered.
AckedMeansStopped ==
  acked => state = "Stopped" /\ \A i \in Layers : layer[i] = "stopped"

\* A View is attached only after its application's intent broker is bound to
\* the primary, so an intent sent during attachment finds its target.
AttachedViewsAreBound ==
  \A v \in ViewLayers : layer[v] \in {"starting", "started"} => AppOf[v] \in bound

\* Normal stop and rollback both release layers in the exact reverse of the
\* start order, continuing past a layer whose stop failed.
StopsInReverse ==
  [][\A i \in Layers : layer[i] = "started" /\ layer'[i] = "stopped" =>
       \A j \in Layers : j > i => layer[j] = "stopped" \/ j \in failures]_vars

\* The tree behaves as HoloTree promises its owners: one lifecycle state for
\* all layers, nobody inside when a stop sweep begins or ends, no way back
\* from Stopped.
Tree == INSTANCE HoloTree WITH life <- state, busy <- {c \in Callers : pc[c] = "executing"}
ImplementsTree == Tree!Spec

\* If every guest invocation returns, every stop call returns: intents, root
\* invocations and other stops cannot keep it waiting for the gates.
StopReturns ==
  (\A c \in Callers : []<>(pc[c] # "executing")) =>
    \A c \in StopCallers : pc[c] = "locking" ~> pc[c] = "idle"

=============================================================================
