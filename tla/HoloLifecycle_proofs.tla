------------------------ MODULE HoloLifecycle_proofs ------------------------
(***************************************************************************)
(* Proofs, for every plan and every set of callers, that the lifecycle of  *)
(* HoloLifecycle is transactional: a tree is Running only as a whole, an   *)
(* acknowledged stop stopped every layer, no sweep runs under an           *)
(* invocation, and layers are released in reverse.                         *)
(***************************************************************************)
EXTENDS HoloLifecycle, TLAPS

\* What each phase of the starter implies for the layers and the state.
StarterInv ==
  /\ phase = "prepare" =>
       /\ state = "Preparing"
       /\ cursor \in 1..(NumLayers + 1)
       /\ prepared = cursor - 1
       /\ \A i \in Layers : layer[i] = IF i < cursor THEN "prepared" ELSE "absent"
  /\ phase = "start" =>
       /\ state = "Preparing"
       /\ cursor \in 1..(NumLayers + 1)
       /\ prepared = NumLayers
       /\ \A i \in Layers : layer[i] = IF i < cursor THEN "started" ELSE "prepared"
  /\ phase = "starting" =>
       /\ state = "Preparing"
       /\ cursor \in Layers
       /\ prepared = NumLayers
       /\ \A i \in Layers : layer[i] = IF i < cursor THEN "started"
                                       ELSE IF i = cursor THEN "starting" ELSE "prepared"
  /\ phase \in {"rollback", "error"} =>
       /\ state = "Failed"
       /\ cursor \in 0..prepared
       /\ phase = "error" => cursor = 0
       /\ \A i \in Layers : i > cursor =>
            layer[i] = IF i > prepared THEN "absent" ELSE IF i \in failures THEN layer[i] ELSE "stopped"
  /\ phase = "ready" => state # "Preparing" /\ prepared = NumLayers

\* Layers come up only once everything is prepared.
UpInv ==
  \A i \in Layers : layer[i] \in {"starting", "started"} => prepared = NumLayers

\* The state is an account of the layers.
StateInv ==
  /\ state = "Running" => phase = "ready" /\ \A i \in Layers : layer[i] = "started"
  /\ state = "Stopped" => phase = "ready" /\ \A i \in Layers : layer[i] = "stopped"
  /\ acked => state = "Stopped"

\* Brokers are bound as soon as an application with a View is complete.
BoundInv ==
  \A a \in Apps : HasView(a) /\ Complete(a, prepared) => a \in bound

\* What a caller holds: its gate while it executes, a prefix of the gates
\* while stop locks them, all of them while it sweeps.
CallerHolds(c) ==
  /\ pc[c] = "executing" => gate[TargetApp(c)] = c
  /\ c \notin Intents /\ pc[c] # "idle" => phase = "ready"
  /\ pc[c] \in {"locking", "stopping"} => c \in StopCallers

LockHolds(c) ==
  pc[c] = "locking" =>
    at[c] \in 1..(NumApps + 1) /\ \A a \in Apps : a < at[c] => gate[a] = c

SweepHolds(c) ==
  pc[c] = "stopping" =>
    /\ state = "Stopping"
    /\ at[c] \in 0..NumLayers
    /\ \A a \in Apps : gate[a] = c
    /\ \A i \in Layers : i > at[c] => layer[i] = "stopped" \/ i \in failures

CallerInv ==
  /\ \A c \in Callers : CallerHolds(c)
  /\ \A c \in StopCallers : LockHolds(c) /\ SweepHolds(c)

IInv ==
  /\ TypeOK
  /\ StarterInv
  /\ UpInv
  /\ StateInv
  /\ BoundInv
  /\ CallerInv
  /\ InFlightLayersStayUp

-----------------------------------------------------------------------------
(* Facts about the constants.                                              *)

\* Every caller's target is a layer of the application it locks.
LEMMA Targets == \A c \in Callers : TargetApp(c) \in Apps /\ Target(c) \in Layers
BY PlanAssumption, CallerAssumption DEF TargetApp, Target, Apps, Layers, Callers

\* How the sets of callers overlap.
LEMMA CallerSets ==
  /\ StopCallers \subseteq Callers
  /\ OneShots \subseteq StopCallers
  /\ Intents \cap StopCallers = {}
  /\ Free \notin Callers
BY CallerAssumption DEF Callers, StopCallers

\* The layer indices an action computes stay in range.
LEMMA Ranges ==
  /\ NumApps \in Nat /\ NumLayers \in Nat /\ NumApps > 0
  /\ \A n \in 0..NumLayers : n \in 0..(NumApps + NumLayers + 1)
  /\ \A n \in 1..NumApps : n + 1 \in 0..(NumApps + NumLayers + 1)
  /\ 1 \in 0..(NumApps + NumLayers + 1)
BY PlanAssumption

\* A stop caller that has not passed the last gate has a gate to lock.
LEMMA NextGate ==
  ASSUME NEW k \in 1..(NumApps + 1), k <= NumApps
  PROVE  k \in Apps /\ k + 1 \in 0..(NumApps + NumLayers + 1)
<1>1. k \in 1..NumApps
  BY PlanAssumption
<1> QED
  BY <1>1, Ranges DEF Apps

\* The next position after k in an ascending, and before k in a descending,
\* walk over 1..n.
LEMMA Neighbours ==
  ASSUME NEW n \in Nat, NEW k \in 1..n
  PROVE  /\ k + 1 \in 1..(n + 1)
         /\ \A a \in 1..n : a < k + 1 => a = k \/ a < k
         /\ \A a \in 1..n : a > k - 1 => a = k \/ a > k
OBVIOUS

-----------------------------------------------------------------------------
(* The inductive invariant.                                                *)

\* The initial state satisfies the inductive invariant.
LEMMA InitIInv == Init => IInv
<1> SUFFICES ASSUME Init PROVE IInv
  OBVIOUS
<1> USE PlanAssumption, CallerSets, Ranges DEF Init, Layers, Apps
<1>1. TypeOK
  <2>1. at \in [StopCallers -> 0..(NumApps + NumLayers + 1)]
    OBVIOUS
  <2>2. bound \subseteq Apps /\ failures \subseteq Layers /\ cursor \in 0..(NumLayers + 1) /\ prepared \in 0..NumLayers
    OBVIOUS
  <2> QED
    BY <2>1, <2>2 DEF TypeOK, LifecycleStates, Phases, LayerStates, CallerPcs
<1>2. StarterInv
  BY DEF StarterInv
<1>3. BoundInv
  <2> SUFFICES ASSUME NEW a \in Apps, HasView(a) PROVE ~Complete(a, 0)
    BY DEF BoundInv
  <2> QED
    BY DEF HasView, Complete
<1>4. CallerInv
  BY DEF CallerInv, CallerHolds, LockHolds, SweepHolds
<1> QED
  BY <1>1, <1>2, <1>3, <1>4 DEF IInv, UpInv, StateInv, InFlightLayersStayUp

\* The steps of the starter keep the invariant: no caller but an intent is
\* active, and intents only care about layers that are up.
LEMMA StarterIInv == ASSUME IInv, Starter PROVE IInv'
<1> USE PlanAssumption, CallerSets, Ranges, Targets DEF IInv, Layers, Apps
<1>0. phase # "ready"
  BY DEF Starter, PrepareLayer, PrepareFails, PreparedAll, StartLayer, LayerStarted, StartFails,
         StartedAll, RollbackLayer, RolledBack
<1>c. /\ UNCHANGED <<gate, pc, at, acked>>
      /\ \A c \in StopCallers : pc[c] = "idle"
  BY <1>0 DEF CallerInv, CallerHolds, Starter, PrepareLayer, PrepareFails, PreparedAll, StartLayer,
              LayerStarted, StartFails, StartedAll, RollbackLayer, RolledBack
<1>d. CallerInv'
  BY <1>0, <1>c DEF CallerInv, CallerHolds, LockHolds, SweepHolds, TypeOK
<1>1. CASE PrepareLayer
  <2>1. TypeOK'
    <3>1. (layer \in [Layers -> LayerStates])' /\ (bound \subseteq Apps)'
      BY <1>1 DEF TypeOK, PrepareLayer, LayerStates
    <3> QED
      BY SMTT(40), <1>1, <1>c, <3>1 DEF TypeOK, StarterInv, PrepareLayer
  <2>2. StarterInv' /\ UpInv'
    BY <1>1 DEF TypeOK, StarterInv, UpInv, PrepareLayer
  <2>3. StateInv' /\ InFlightLayersStayUp'
    BY <1>1, <1>c DEF TypeOK, StarterInv, StateInv, InFlightLayersStayUp, Target, TargetApp, PrepareLayer
  <2>4. BoundInv'
    <3> SUFFICES ASSUME NEW a \in Apps, HasView(a), Complete(a, cursor) PROVE a \in bound'
      BY <1>1 DEF BoundInv, PrepareLayer, HasView
    <3>1. CASE a = AppOf[cursor]
      BY <1>1, <3>1 DEF PrepareLayer
    <3>2. CASE a # AppOf[cursor]
      <4>1. Complete(a, prepared)
        BY SMTT(40), <1>1, <3>2 DEF Complete, PrepareLayer, StarterInv, TypeOK
      <4> QED
        BY <1>1, <4>1 DEF BoundInv, PrepareLayer
    <3> QED
      BY <3>1, <3>2
  <2> QED
    BY <1>d, <2>1, <2>2, <2>3, <2>4
<1>2. CASE PrepareFails
  <2>1. TypeOK'
    BY <1>2, <1>c DEF TypeOK, StarterInv, LifecycleStates, Phases, LayerStates, CallerPcs, PrepareFails, BeginRollback
  <2>2. StarterInv' /\ UpInv'
    BY <1>2 DEF TypeOK, StarterInv, UpInv, PrepareFails, BeginRollback
  <2>3. StateInv' /\ InFlightLayersStayUp'
    BY <1>2, <1>c DEF TypeOK, StarterInv, StateInv, InFlightLayersStayUp, Target, TargetApp, PrepareFails, BeginRollback
  <2>4. BoundInv'
    BY <1>2 DEF BoundInv, Complete, HasView, PrepareFails, BeginRollback
  <2> QED
    BY <1>d, <2>1, <2>2, <2>3, <2>4
<1>3. CASE PreparedAll
  <2>1. TypeOK'
    BY <1>3, <1>c DEF TypeOK, StarterInv, LifecycleStates, Phases, LayerStates, CallerPcs, PreparedAll
  <2>2. StarterInv' /\ UpInv'
    BY <1>3 DEF TypeOK, StarterInv, UpInv, PreparedAll
  <2>3. StateInv' /\ InFlightLayersStayUp'
    BY <1>3, <1>c DEF TypeOK, StarterInv, StateInv, InFlightLayersStayUp, Target, TargetApp, PreparedAll
  <2>4. BoundInv'
    BY <1>3 DEF BoundInv, Complete, HasView, PreparedAll
  <2> QED
    BY <1>d, <2>1, <2>2, <2>3, <2>4
<1>4. CASE StartLayer
  <2>1. TypeOK'
    BY <1>4, <1>c DEF TypeOK, StarterInv, LifecycleStates, Phases, LayerStates, CallerPcs, StartLayer
  <2>2. StarterInv' /\ UpInv'
    BY <1>4 DEF TypeOK, StarterInv, UpInv, StartLayer
  <2>3. StateInv' /\ InFlightLayersStayUp'
    BY <1>4, <1>c DEF TypeOK, StarterInv, StateInv, InFlightLayersStayUp, Target, TargetApp, StartLayer
  <2>4. BoundInv'
    BY <1>4 DEF BoundInv, Complete, HasView, StartLayer
  <2> QED
    BY <1>d, <2>1, <2>2, <2>3, <2>4
<1>5. CASE LayerStarted
  <2>1. TypeOK'
    BY <1>5, <1>c DEF TypeOK, StarterInv, LifecycleStates, Phases, LayerStates, CallerPcs, LayerStarted
  <2>2. StarterInv' /\ UpInv'
    BY <1>5 DEF TypeOK, StarterInv, UpInv, LayerStarted
  <2>3. StateInv' /\ InFlightLayersStayUp'
    BY <1>5, <1>c DEF TypeOK, StarterInv, StateInv, InFlightLayersStayUp, Target, TargetApp, LayerStarted
  <2>4. BoundInv'
    BY <1>5 DEF BoundInv, Complete, HasView, LayerStarted
  <2> QED
    BY <1>d, <2>1, <2>2, <2>3, <2>4
<1>6. CASE StartFails
  <2>1. TypeOK'
    BY <1>6, <1>c DEF TypeOK, StarterInv, LifecycleStates, Phases, LayerStates, CallerPcs, StartFails, BeginRollback
  <2>2. StarterInv' /\ UpInv'
    BY <1>6 DEF TypeOK, StarterInv, UpInv, StartFails, BeginRollback
  <2>3. StateInv' /\ InFlightLayersStayUp'
    BY <1>6, <1>c DEF TypeOK, StarterInv, StateInv, InFlightLayersStayUp, Target, TargetApp, StartFails, BeginRollback
  <2>4. BoundInv'
    BY <1>6 DEF BoundInv, Complete, HasView, StartFails, BeginRollback
  <2> QED
    BY <1>d, <2>1, <2>2, <2>3, <2>4
<1>7. CASE StartedAll
  <2>1. TypeOK'
    BY <1>7, <1>c DEF TypeOK, StarterInv, LifecycleStates, Phases, LayerStates, CallerPcs, StartedAll
  <2>2. StarterInv' /\ UpInv'
    BY <1>7 DEF TypeOK, StarterInv, UpInv, StartedAll
  <2>3. StateInv' /\ InFlightLayersStayUp'
    BY <1>7, <1>c DEF TypeOK, StarterInv, StateInv, InFlightLayersStayUp, Target, TargetApp, StartedAll
  <2>4. BoundInv'
    BY <1>7 DEF BoundInv, Complete, HasView, StartedAll
  <2> QED
    BY <1>d, <2>1, <2>2, <2>3, <2>4
<1>8. CASE \E ok \in BOOLEAN : RollbackLayer(ok)
  <2>1. TypeOK'
    BY SMTT(40), <1>8, <1>c DEF TypeOK, StarterInv, LifecycleStates, Phases, LayerStates, CallerPcs, RollbackLayer, StopOne
  <2>2. StarterInv' /\ UpInv'
    BY SMTT(40), <1>8 DEF TypeOK, StarterInv, UpInv, RollbackLayer, StopOne
  <2>3. StateInv' /\ InFlightLayersStayUp'
    BY <1>8, <1>c DEF TypeOK, StarterInv, StateInv, InFlightLayersStayUp, Target, TargetApp, RollbackLayer, StopOne
  <2>4. BoundInv'
    <3>1. prepared' = prepared /\ bound' = bound
      BY <1>8 DEF RollbackLayer
    <3> QED
      BY <3>1 DEF BoundInv, Complete, HasView
  <2> QED
    BY <1>d, <2>1, <2>2, <2>3, <2>4
<1>9. CASE RolledBack
  <2>1. TypeOK'
    BY <1>9, <1>c DEF TypeOK, StarterInv, LifecycleStates, Phases, LayerStates, CallerPcs, RolledBack
  <2>2. StarterInv' /\ UpInv'
    BY <1>9 DEF TypeOK, StarterInv, UpInv, RolledBack
  <2>3. StateInv' /\ InFlightLayersStayUp'
    BY <1>9, <1>c DEF TypeOK, StarterInv, StateInv, InFlightLayersStayUp, Target, TargetApp, RolledBack
  <2>4. BoundInv'
    BY <1>9 DEF BoundInv, Complete, HasView, RolledBack
  <2> QED
    BY <1>d, <2>1, <2>2, <2>3, <2>4
<1> QED
  BY <1>1, <1>2, <1>3, <1>4, <1>5, <1>6, <1>7, <1>8, <1>9 DEF Starter

\* Invocations, intents and dropped futures keep the invariant: they move
\* gates and program counters only.
LEMMA InvocationIInv ==
  ASSUME IInv, NEW c \in Callers, Invocation(c) \/ Drop(c)
  PROVE  IInv'
<1> USE PlanAssumption, CallerSets, Ranges, Targets DEF IInv, Layers, Apps
<1>1. CASE InvokeRequest(c)
  <2>0. CallerHolds(c) /\ (c \in StopCallers => LockHolds(c) /\ SweepHolds(c))
    BY DEF CallerInv
  <2>1. TypeOK'
    BY <1>1, <2>0 DEF TypeOK, LockHolds, LifecycleStates, Phases, LayerStates, CallerPcs, starter, InvokeRequest
  <2>2. StarterInv' /\ UpInv' /\ BoundInv' /\ StateInv'
    BY <1>1 DEF StarterInv, UpInv, BoundInv, StateInv, Complete, HasView, starter, InvokeRequest
  <2>4. ASSUME NEW e \in Callers PROVE CallerHolds(e)'
    BY <1>1, <2>0 DEF TypeOK, CallerInv, CallerHolds, TargetApp, starter, InvokeRequest
  <2>5. ASSUME NEW e \in StopCallers PROVE LockHolds(e)' /\ SweepHolds(e)'
    <3>0. CallerHolds(e) /\ LockHolds(e) /\ SweepHolds(e)
      BY DEF CallerInv
    <3>1. CASE e = c
      <4>1. LockHolds(e)'
        BY <1>1, <2>0, <3>0, <3>1 DEF TypeOK, CallerHolds, LockHolds, SweepHolds, starter, InvokeRequest
      <4>2. SweepHolds(e)'
        BY <1>1, <2>0, <3>0, <3>1 DEF TypeOK, CallerHolds, LockHolds, SweepHolds, starter, InvokeRequest
      <4> QED
        BY <4>1, <4>2
    <3>2. CASE e # c
      <4>1. LockHolds(e)'
        BY <1>1, <2>0, <3>0, <3>2 DEF TypeOK, CallerHolds, LockHolds, SweepHolds, starter, InvokeRequest
      <4>2. SweepHolds(e)'
        BY <1>1, <2>0, <3>0, <3>2 DEF TypeOK, CallerHolds, LockHolds, SweepHolds, starter, InvokeRequest
      <4> QED
        BY <4>1, <4>2
    <3> QED
      BY <3>1, <3>2
  <2>7. InFlightLayersStayUp'
    BY <1>1, <2>0 DEF TypeOK, CallerInv, CallerHolds, SweepHolds, InFlightLayersStayUp, Target, TargetApp, starter, InvokeRequest
  <2> QED
    BY <2>1, <2>2, <2>4, <2>5, <2>7 DEF CallerInv
<1>2. CASE IntentRequest(c)
  <2>0. CallerHolds(c) /\ (c \in StopCallers => LockHolds(c) /\ SweepHolds(c))
    BY DEF CallerInv
  <2>1. TypeOK'
    BY <1>2, <2>0 DEF TypeOK, LockHolds, LifecycleStates, Phases, LayerStates, CallerPcs, starter, IntentRequest
  <2>2. StarterInv' /\ UpInv' /\ BoundInv' /\ StateInv'
    BY <1>2 DEF StarterInv, UpInv, BoundInv, StateInv, Complete, HasView, starter, IntentRequest
  <2>4. ASSUME NEW e \in Callers PROVE CallerHolds(e)'
    BY <1>2, <2>0 DEF TypeOK, CallerInv, CallerHolds, TargetApp, starter, IntentRequest
  <2>5. ASSUME NEW e \in StopCallers PROVE LockHolds(e)' /\ SweepHolds(e)'
    <3>0. CallerHolds(e) /\ LockHolds(e) /\ SweepHolds(e)
      BY DEF CallerInv
    <3>1. CASE e = c
      <4>1. LockHolds(e)'
        BY <1>2, <2>0, <3>0, <3>1 DEF TypeOK, CallerHolds, LockHolds, SweepHolds, starter, IntentRequest
      <4>2. SweepHolds(e)'
        BY <1>2, <2>0, <3>0, <3>1 DEF TypeOK, CallerHolds, LockHolds, SweepHolds, starter, IntentRequest
      <4> QED
        BY <4>1, <4>2
    <3>2. CASE e # c
      <4>1. LockHolds(e)'
        BY <1>2, <2>0, <3>0, <3>2 DEF TypeOK, CallerHolds, LockHolds, SweepHolds, starter, IntentRequest
      <4>2. SweepHolds(e)'
        BY <1>2, <2>0, <3>0, <3>2 DEF TypeOK, CallerHolds, LockHolds, SweepHolds, starter, IntentRequest
      <4> QED
        BY <4>1, <4>2
    <3> QED
      BY <3>1, <3>2
  <2>7. InFlightLayersStayUp'
    BY <1>2, <2>0 DEF TypeOK, CallerInv, CallerHolds, SweepHolds, InFlightLayersStayUp, Target, TargetApp, starter, IntentRequest
  <2> QED
    BY <2>1, <2>2, <2>4, <2>5, <2>7 DEF CallerInv
<1>3. CASE Admit(c)
  <2>0. CallerHolds(c) /\ (c \in StopCallers => LockHolds(c) /\ SweepHolds(c))
    BY DEF CallerInv
  <2>1. TypeOK'
    BY <1>3, <2>0 DEF TypeOK, LockHolds, LifecycleStates, Phases, LayerStates, CallerPcs, starter, Admit, Admits
  <2>2. StarterInv' /\ UpInv' /\ BoundInv' /\ StateInv'
    BY <1>3 DEF StarterInv, UpInv, BoundInv, StateInv, Complete, HasView, starter, Admit, Admits
  <2>4. ASSUME NEW e \in Callers PROVE CallerHolds(e)'
    BY SMTT(40), <1>3, <2>0 DEF TypeOK, CallerInv, CallerHolds, TargetApp, starter, Admit, Admits
  <2>5. ASSUME NEW e \in StopCallers PROVE LockHolds(e)' /\ SweepHolds(e)'
    <3>0. CallerHolds(e) /\ LockHolds(e) /\ SweepHolds(e)
      BY DEF CallerInv
    <3>1. CASE e = c
      <4>1. LockHolds(e)'
        BY <1>3, <2>0, <3>0, <3>1 DEF TypeOK, CallerHolds, LockHolds, SweepHolds, starter, Admit, Admits
      <4>2. SweepHolds(e)'
        BY <1>3, <2>0, <3>0, <3>1 DEF TypeOK, CallerHolds, LockHolds, SweepHolds, starter, Admit, Admits
      <4> QED
        BY <4>1, <4>2
    <3>2. CASE e # c
      <4>1. LockHolds(e)'
        BY <1>3, <2>0, <3>0, <3>2 DEF TypeOK, CallerHolds, LockHolds, SweepHolds, starter, Admit, Admits
      <4>2. SweepHolds(e)'
        BY <1>3, <2>0, <3>0, <3>2 DEF TypeOK, CallerHolds, LockHolds, SweepHolds, starter, Admit, Admits
      <4> QED
        BY <4>1, <4>2
    <3> QED
      BY <3>1, <3>2
  <2>7. InFlightLayersStayUp'
    BY <1>3, <2>0 DEF TypeOK, CallerInv, CallerHolds, SweepHolds, InFlightLayersStayUp, Target, TargetApp, starter, Admit, Admits
  <2> QED
    BY <2>1, <2>2, <2>4, <2>5, <2>7 DEF CallerInv
<1>4. CASE Refuse(c)
  <2>0. CallerHolds(c) /\ (c \in StopCallers => LockHolds(c) /\ SweepHolds(c))
    BY DEF CallerInv
  <2>1. TypeOK'
    BY <1>4, <2>0 DEF TypeOK, LockHolds, LifecycleStates, Phases, LayerStates, CallerPcs, starter, Refuse, AfterInvoke
  <2>2. StarterInv' /\ UpInv' /\ BoundInv' /\ StateInv'
    BY <1>4 DEF StarterInv, UpInv, BoundInv, StateInv, Complete, HasView, starter, Refuse, AfterInvoke
  <2>4. ASSUME NEW e \in Callers PROVE CallerHolds(e)'
    BY <1>4, <2>0 DEF TypeOK, CallerInv, CallerHolds, TargetApp, starter, Refuse, AfterInvoke
  <2>5. ASSUME NEW e \in StopCallers PROVE LockHolds(e)' /\ SweepHolds(e)'
    <3>0. CallerHolds(e) /\ LockHolds(e) /\ SweepHolds(e)
      BY DEF CallerInv
    <3>1. CASE e = c
      <4>1. LockHolds(e)'
        BY <1>4, <2>0, <3>0, <3>1 DEF TypeOK, CallerHolds, LockHolds, SweepHolds, starter, Refuse, AfterInvoke
      <4>2. SweepHolds(e)'
        BY <1>4, <2>0, <3>0, <3>1 DEF TypeOK, CallerHolds, LockHolds, SweepHolds, starter, Refuse, AfterInvoke
      <4> QED
        BY <4>1, <4>2
    <3>2. CASE e # c
      <4>1. LockHolds(e)'
        BY <1>4, <2>0, <3>0, <3>2 DEF TypeOK, CallerHolds, LockHolds, SweepHolds, starter, Refuse, AfterInvoke
      <4>2. SweepHolds(e)'
        BY <1>4, <2>0, <3>0, <3>2 DEF TypeOK, CallerHolds, LockHolds, SweepHolds, starter, Refuse, AfterInvoke
      <4> QED
        BY <4>1, <4>2
    <3> QED
      BY <3>1, <3>2
  <2>7. InFlightLayersStayUp'
    BY <1>4, <2>0 DEF TypeOK, CallerInv, CallerHolds, SweepHolds, InFlightLayersStayUp, Target, TargetApp, starter, Refuse, AfterInvoke
  <2> QED
    BY <2>1, <2>2, <2>4, <2>5, <2>7 DEF CallerInv
<1>5. CASE Return(c)
  <2>0. CallerHolds(c) /\ (c \in StopCallers => LockHolds(c) /\ SweepHolds(c))
    BY DEF CallerInv
  <2>1. TypeOK'
    BY <1>5, <2>0 DEF TypeOK, LockHolds, LifecycleStates, Phases, LayerStates, CallerPcs, starter, Return, AfterInvoke
  <2>2. StarterInv' /\ UpInv' /\ BoundInv' /\ StateInv'
    BY <1>5 DEF StarterInv, UpInv, BoundInv, StateInv, Complete, HasView, starter, Return, AfterInvoke
  <2>4. ASSUME NEW e \in Callers PROVE CallerHolds(e)'
    BY <1>5, <2>0 DEF TypeOK, CallerInv, CallerHolds, TargetApp, starter, Return, AfterInvoke
  <2>5. ASSUME NEW e \in StopCallers PROVE LockHolds(e)' /\ SweepHolds(e)'
    <3>0. CallerHolds(e) /\ LockHolds(e) /\ SweepHolds(e)
      BY DEF CallerInv
    <3>1. CASE e = c
      <4>1. LockHolds(e)'
        BY <1>5, <2>0, <3>0, <3>1 DEF TypeOK, CallerHolds, LockHolds, SweepHolds, starter, Return, AfterInvoke
      <4>2. SweepHolds(e)'
        BY <1>5, <2>0, <3>0, <3>1 DEF TypeOK, CallerHolds, LockHolds, SweepHolds, starter, Return, AfterInvoke
      <4> QED
        BY <4>1, <4>2
    <3>2. CASE e # c
      <4>1. LockHolds(e)'
        BY <1>5, <2>0, <3>0, <3>2 DEF TypeOK, CallerHolds, LockHolds, SweepHolds, starter, Return, AfterInvoke
      <4>2. SweepHolds(e)'
        BY <1>5, <2>0, <3>0, <3>2 DEF TypeOK, CallerHolds, LockHolds, SweepHolds, starter, Return, AfterInvoke
      <4> QED
        BY <4>1, <4>2
    <3> QED
      BY <3>1, <3>2
  <2>7. InFlightLayersStayUp'
    BY <1>5, <2>0 DEF TypeOK, CallerInv, CallerHolds, SweepHolds, InFlightLayersStayUp, Target, TargetApp, starter, Return, AfterInvoke
  <2> QED
    BY <2>1, <2>2, <2>4, <2>5, <2>7 DEF CallerInv
<1>6. CASE Drop(c)
  <2>0. CallerHolds(c) /\ (c \in StopCallers => LockHolds(c) /\ SweepHolds(c))
    BY DEF CallerInv
  <2>1. TypeOK'
    BY <1>6, <2>0 DEF TypeOK, LockHolds, LifecycleStates, Phases, LayerStates, CallerPcs, starter, Drop, Released
  <2>2. StarterInv' /\ UpInv' /\ BoundInv' /\ StateInv'
    BY <1>6 DEF StarterInv, UpInv, BoundInv, StateInv, Complete, HasView, starter, Drop, Released
  <2>4. ASSUME NEW e \in Callers PROVE CallerHolds(e)'
    BY <1>6, <2>0 DEF TypeOK, CallerInv, CallerHolds, TargetApp, starter, Drop, Released
  <2>5. ASSUME NEW e \in StopCallers PROVE LockHolds(e)' /\ SweepHolds(e)'
    <3>0. CallerHolds(e) /\ LockHolds(e) /\ SweepHolds(e)
      BY DEF CallerInv
    <3>1. CASE e = c
      <4>1. LockHolds(e)'
        BY <1>6, <2>0, <3>0, <3>1 DEF TypeOK, CallerHolds, LockHolds, SweepHolds, starter, Drop, Released
      <4>2. SweepHolds(e)'
        BY <1>6, <2>0, <3>0, <3>1 DEF TypeOK, CallerHolds, LockHolds, SweepHolds, starter, Drop, Released
      <4> QED
        BY <4>1, <4>2
    <3>2. CASE e # c
      <4>1. LockHolds(e)'
        BY <1>6, <2>0, <3>0, <3>2 DEF TypeOK, CallerHolds, LockHolds, SweepHolds, starter, Drop, Released
      <4>2. SweepHolds(e)'
        BY <1>6, <2>0, <3>0, <3>2 DEF TypeOK, CallerHolds, LockHolds, SweepHolds, starter, Drop, Released
      <4> QED
        BY <4>1, <4>2
    <3> QED
      BY <3>1, <3>2
  <2>7. InFlightLayersStayUp'
    BY <1>6, <2>0 DEF TypeOK, CallerInv, CallerHolds, SweepHolds, InFlightLayersStayUp, Target, TargetApp, starter, Drop, Released
  <2> QED
    BY <2>1, <2>2, <2>4, <2>5, <2>7 DEF CallerInv
<1> QED
  BY <1>1, <1>2, <1>3, <1>4, <1>5, <1>6 DEF Invocation

\* The steps of stop keep the invariant: a sweep excludes every other caller
\* because it holds every gate.
LEMMA StopIInv ==
  ASSUME IInv, NEW c \in StopCallers, NEW ok \in BOOLEAN,
         StopRequest(c) \/ StopLock(c) \/ StopReturnsEarly(c) \/ StopBegin(c)
         \/ StopLayer(c, ok) \/ StopEnd(c)
  PROVE  IInv'
<1> USE PlanAssumption, CallerSets, Ranges, Targets DEF IInv, Layers, Apps
<1>1. CASE StopRequest(c)
  <2>0. CallerHolds(c) /\ (c \in StopCallers => LockHolds(c) /\ SweepHolds(c))
    BY DEF CallerInv
  <2>1. TypeOK'
    BY <1>1, <2>0 DEF TypeOK, LockHolds, LifecycleStates, Phases, LayerStates, CallerPcs, starter, StopRequest
  <2>2. StarterInv' /\ UpInv' /\ BoundInv' /\ StateInv'
    BY <1>1 DEF StarterInv, UpInv, BoundInv, StateInv, Complete, HasView, starter, StopRequest
  <2>4. ASSUME NEW e \in Callers PROVE CallerHolds(e)'
    BY <1>1, <2>0 DEF TypeOK, CallerInv, CallerHolds, TargetApp, starter, StopRequest
  <2>5. ASSUME NEW e \in StopCallers PROVE LockHolds(e)' /\ SweepHolds(e)'
    <3>0. CallerHolds(e) /\ LockHolds(e) /\ SweepHolds(e)
      BY DEF CallerInv
    <3>1. CASE e = c
      <4>1. LockHolds(e)'
        BY <1>1, <2>0, <3>0, <3>1 DEF TypeOK, CallerHolds, LockHolds, SweepHolds, starter, StopRequest
      <4>2. SweepHolds(e)'
        BY <1>1, <2>0, <3>0, <3>1 DEF TypeOK, CallerHolds, LockHolds, SweepHolds, starter, StopRequest
      <4> QED
        BY <4>1, <4>2
    <3>2. CASE e # c
      <4>1. LockHolds(e)'
        BY <1>1, <2>0, <3>0, <3>2 DEF TypeOK, CallerHolds, LockHolds, SweepHolds, starter, StopRequest
      <4>2. SweepHolds(e)'
        BY <1>1, <2>0, <3>0, <3>2 DEF TypeOK, CallerHolds, LockHolds, SweepHolds, starter, StopRequest
      <4> QED
        BY <4>1, <4>2
    <3> QED
      BY <3>1, <3>2
  <2>7. InFlightLayersStayUp'
    BY <1>1, <2>0 DEF TypeOK, CallerInv, CallerHolds, SweepHolds, InFlightLayersStayUp, Target, TargetApp, starter, StopRequest
  <2> QED
    BY <2>1, <2>2, <2>4, <2>5, <2>7 DEF CallerInv
<1>2. CASE StopLock(c)
  <2>0. CallerHolds(c) /\ (c \in StopCallers => LockHolds(c) /\ SweepHolds(c))
    BY DEF CallerInv
  <2>t. at[c] \in Apps /\ at[c] + 1 \in 0..(NumApps + NumLayers + 1)
    <3>1. at[c] \in 1..(NumApps + 1) /\ at[c] <= NumApps
      BY <1>2, <2>0 DEF LockHolds, StopLock
    <3> QED
      BY <3>1, NextGate
  <2>1. TypeOK'
    BY <1>2, <2>0, <2>t DEF TypeOK, LockHolds, LifecycleStates, Phases, LayerStates, CallerPcs, starter, StopLock
  <2>2. StarterInv' /\ UpInv' /\ BoundInv' /\ StateInv'
    BY <1>2 DEF StarterInv, UpInv, BoundInv, StateInv, Complete, HasView, starter, StopLock
  <2>4. ASSUME NEW e \in Callers PROVE CallerHolds(e)'
    BY SMTT(40), <1>2, <2>0, <2>t DEF TypeOK, CallerInv, CallerHolds, TargetApp, starter, StopLock
  <2>5. ASSUME NEW e \in StopCallers PROVE LockHolds(e)' /\ SweepHolds(e)'
    <3>0. CallerHolds(e) /\ LockHolds(e) /\ SweepHolds(e)
      BY DEF CallerInv
    <3>1. CASE e = c
      <4>0. c \in StopCallers /\ pc[c] = "locking" /\ pc' = pc
        BY <1>2 DEF StopLock
      <4>1. at'[c] = at[c] + 1 /\ \A a \in Apps : gate'[a] = IF a = at[c] THEN c ELSE gate[a]
        BY <1>2, <2>t DEF TypeOK, StopLock
      <4>2. \A a \in Apps : a < at[c] => gate[a] = c
        BY <2>0, <4>0 DEF LockHolds
      <4>3. \A a \in Apps : a < at[c] + 1 => a = at[c] \/ a < at[c]
        BY <2>t, Neighbours
      <4>4. at[c] + 1 \in 1..(NumApps + 1)
        BY <2>t, Neighbours
      <4>5. \A a \in Apps : a < at[c] + 1 => gate'[a] = c
        BY <4>1, <4>2, <4>3
      <4> QED
        BY <3>1, <4>0, <4>1, <4>4, <4>5 DEF LockHolds, SweepHolds
    <3>2. CASE e # c
      <4>1. LockHolds(e)'
        BY <1>2, <2>0, <2>t, <3>0, <3>2 DEF TypeOK, CallerHolds, LockHolds, SweepHolds, starter, StopLock
      <4>2. SweepHolds(e)'
        BY <1>2, <2>0, <2>t, <3>0, <3>2 DEF TypeOK, CallerHolds, LockHolds, SweepHolds, starter, StopLock
      <4> QED
        BY <4>1, <4>2
    <3> QED
      BY <3>1, <3>2
  <2>7. InFlightLayersStayUp'
    BY <1>2, <2>0, <2>t DEF TypeOK, CallerInv, CallerHolds, SweepHolds, InFlightLayersStayUp, Target, TargetApp, starter, StopLock
  <2> QED
    BY <2>1, <2>2, <2>4, <2>5, <2>7 DEF CallerInv
<1>3. CASE StopReturnsEarly(c)
  <2>0. CallerHolds(c) /\ (c \in StopCallers => LockHolds(c) /\ SweepHolds(c))
    BY DEF CallerInv
  <2>1. TypeOK'
    BY <1>3, <2>0 DEF TypeOK, LockHolds, LifecycleStates, Phases, LayerStates, CallerPcs, starter, StopReturnsEarly, Released
  <2>2. StarterInv' /\ UpInv' /\ BoundInv' /\ StateInv'
    BY <1>3 DEF StarterInv, UpInv, BoundInv, StateInv, Complete, HasView, starter, StopReturnsEarly, Released
  <2>4. ASSUME NEW e \in Callers PROVE CallerHolds(e)'
    BY <1>3, <2>0 DEF TypeOK, CallerInv, CallerHolds, TargetApp, starter, StopReturnsEarly, Released
  <2>5. ASSUME NEW e \in StopCallers PROVE LockHolds(e)' /\ SweepHolds(e)'
    <3>0. CallerHolds(e) /\ LockHolds(e) /\ SweepHolds(e)
      BY DEF CallerInv
    <3>1. CASE e = c
      <4>1. LockHolds(e)'
        BY <1>3, <2>0, <3>0, <3>1 DEF TypeOK, CallerHolds, LockHolds, SweepHolds, starter, StopReturnsEarly, Released
      <4>2. SweepHolds(e)'
        BY <1>3, <2>0, <3>0, <3>1 DEF TypeOK, CallerHolds, LockHolds, SweepHolds, starter, StopReturnsEarly, Released
      <4> QED
        BY <4>1, <4>2
    <3>2. CASE e # c
      <4>1. LockHolds(e)'
        BY <1>3, <2>0, <3>0, <3>2 DEF TypeOK, CallerHolds, LockHolds, SweepHolds, starter, StopReturnsEarly, Released
      <4>2. SweepHolds(e)'
        BY <1>3, <2>0, <3>0, <3>2 DEF TypeOK, CallerHolds, LockHolds, SweepHolds, starter, StopReturnsEarly, Released
      <4> QED
        BY <4>1, <4>2
    <3> QED
      BY <3>1, <3>2
  <2>7. InFlightLayersStayUp'
    BY <1>3, <2>0 DEF TypeOK, CallerInv, CallerHolds, SweepHolds, InFlightLayersStayUp, Target, TargetApp, starter, StopReturnsEarly, Released
  <2> QED
    BY <2>1, <2>2, <2>4, <2>5, <2>7 DEF CallerInv
<1>4. CASE StopBegin(c)
  <2>0. CallerHolds(c) /\ (c \in StopCallers => LockHolds(c) /\ SweepHolds(c))
    BY DEF CallerInv
  <2>1. TypeOK'
    BY SMTT(40), <1>4, <2>0 DEF TypeOK, LockHolds, LifecycleStates, Phases, LayerStates, CallerPcs, starter, StopBegin
  <2>2. StarterInv' /\ UpInv' /\ BoundInv'
    BY <1>4, <2>0 DEF TypeOK, StarterInv, UpInv, BoundInv, CallerHolds, Complete, HasView, starter, StopBegin
  <2>3. StateInv'
    BY <1>4, <2>0 DEF TypeOK, StateInv, CallerHolds, SweepHolds, starter, StopBegin
  <2>4. ASSUME NEW e \in Callers PROVE CallerHolds(e)'
    BY <1>4, <2>0 DEF TypeOK, CallerInv, CallerHolds, TargetApp, starter, StopBegin
  <2>5. ASSUME NEW e \in StopCallers PROVE LockHolds(e)' /\ SweepHolds(e)'
    <3>0. CallerHolds(e) /\ LockHolds(e) /\ SweepHolds(e)
      BY DEF CallerInv
    <3>1. CASE e = c
      <4>1. LockHolds(e)'
        BY <1>4, <2>0, <3>0, <3>1 DEF TypeOK, CallerHolds, LockHolds, SweepHolds, starter, StopBegin
      <4>2. SweepHolds(e)'
        BY <1>4, <2>0, <3>0, <3>1 DEF TypeOK, CallerHolds, LockHolds, SweepHolds, starter, StopBegin
      <4> QED
        BY <4>1, <4>2
    <3>2. CASE e # c
      <4>1. LockHolds(e)'
        BY <1>4, <2>0, <3>0, <3>2 DEF TypeOK, CallerHolds, LockHolds, SweepHolds, starter, StopBegin
      <4>2. SweepHolds(e)'
        BY <1>4, <2>0, <3>0, <3>2 DEF TypeOK, CallerHolds, LockHolds, SweepHolds, starter, StopBegin
      <4> QED
        BY <4>1, <4>2
    <3> QED
      BY <3>1, <3>2
  <2>7. InFlightLayersStayUp'
    BY <1>4, <2>0 DEF TypeOK, CallerInv, CallerHolds, SweepHolds, InFlightLayersStayUp, Target, TargetApp, starter, StopBegin
  <2> QED
    BY <2>1, <2>2, <2>3, <2>4, <2>5, <2>7 DEF CallerInv
<1>5. CASE StopLayer(c, ok)
  <2>0. CallerHolds(c) /\ (c \in StopCallers => LockHolds(c) /\ SweepHolds(c))
    BY DEF CallerInv
  <2>t. at[c] \in Layers /\ at[c] - 1 \in 0..NumLayers
    BY SMTT(40), <1>5, <2>0 DEF SweepHolds, TypeOK, StopLayer
  <2>1. TypeOK'
    BY <1>5, <2>0, <2>t DEF TypeOK, LockHolds, LifecycleStates, Phases, LayerStates, CallerPcs, starter, StopLayer, StopOne
  <2>2. StarterInv' /\ UpInv' /\ BoundInv'
    BY <1>5, <2>0, <2>t DEF TypeOK, StarterInv, UpInv, BoundInv, CallerHolds, Complete, HasView, starter, StopLayer, StopOne
  <2>3. StateInv'
    BY <1>5, <2>0, <2>t DEF TypeOK, StateInv, CallerHolds, SweepHolds, starter, StopLayer, StopOne
  <2>4. ASSUME NEW e \in Callers PROVE CallerHolds(e)'
    BY <1>5, <2>0, <2>t DEF TypeOK, CallerInv, CallerHolds, TargetApp, starter, StopLayer, StopOne
  <2>5. ASSUME NEW e \in StopCallers PROVE LockHolds(e)' /\ SweepHolds(e)'
    <3>0. CallerHolds(e) /\ LockHolds(e) /\ SweepHolds(e)
      BY DEF CallerInv
    <3>1. CASE e = c
      <4>0. c \in StopCallers /\ pc[c] = "stopping" /\ pc' = pc /\ gate' = gate /\ state' = state
        BY <1>5 DEF StopLayer
      <4>1. at'[c] = at[c] - 1
        BY <1>5 DEF TypeOK, StopLayer
      <4>2. \A i \in Layers : i > at[c] => layer[i] = "stopped" \/ i \in failures
        BY <2>0, <4>0 DEF SweepHolds
      <4>3. ASSUME NEW i \in Layers, i > at'[c] PROVE layer'[i] = "stopped" \/ i \in failures'
        <5>0. i > at[c] - 1
          BY <4>1, <4>3
        <5>1. i = at[c] \/ i > at[c]
          BY <2>t, <5>0, Neighbours
        <5> QED
          BY <1>5, <2>t, <4>2, <5>1 DEF TypeOK, StopLayer, StopOne
      <4> QED
        BY <2>0, <2>t, <3>1, <4>0, <4>1, <4>3 DEF LockHolds, SweepHolds
    <3>2. CASE e # c
      <4>1. LockHolds(e)'
        BY <1>5, <2>0, <2>t, <3>0, <3>2 DEF TypeOK, CallerHolds, LockHolds, SweepHolds, starter, StopLayer, StopOne
      <4>2. SweepHolds(e)'
        BY <1>5, <2>0, <2>t, <3>0, <3>2 DEF TypeOK, CallerHolds, LockHolds, SweepHolds, starter, StopLayer, StopOne
      <4> QED
        BY <4>1, <4>2
    <3> QED
      BY <3>1, <3>2
  <2>7. InFlightLayersStayUp'
    BY SMTT(40), <1>5, <2>0, <2>t DEF TypeOK, CallerInv, CallerHolds, SweepHolds, InFlightLayersStayUp, Target, TargetApp, starter, StopLayer, StopOne
  <2> QED
    BY <2>1, <2>2, <2>3, <2>4, <2>5, <2>7 DEF CallerInv
<1>6. CASE StopEnd(c)
  <2>0. CallerHolds(c) /\ (c \in StopCallers => LockHolds(c) /\ SweepHolds(c))
    BY DEF CallerInv
  <2>1. TypeOK'
    BY <1>6, <2>0 DEF TypeOK, LockHolds, LifecycleStates, Phases, LayerStates, CallerPcs, starter, StopEnd, Released
  <2>2. StarterInv' /\ UpInv' /\ BoundInv'
    BY <1>6, <2>0 DEF TypeOK, StarterInv, UpInv, BoundInv, CallerHolds, Complete, HasView, starter, StopEnd, Released
  <2>3. StateInv'
    <3>1. failures = {} => \A i \in Layers : layer[i] = "stopped"
      BY <1>6, <2>0 DEF SweepHolds, StopEnd
    <3> QED
      BY <1>6, <2>0, <3>1 DEF StateInv, CallerHolds, SweepHolds, starter, StopEnd
  <2>4. ASSUME NEW e \in Callers PROVE CallerHolds(e)'
    BY <1>6, <2>0 DEF TypeOK, CallerInv, CallerHolds, TargetApp, starter, StopEnd, Released
  <2>5. ASSUME NEW e \in StopCallers PROVE LockHolds(e)' /\ SweepHolds(e)'
    <3>0. CallerHolds(e) /\ LockHolds(e) /\ SweepHolds(e)
      BY DEF CallerInv
    <3>1. CASE e = c
      <4>1. LockHolds(e)'
        BY <1>6, <2>0, <3>0, <3>1 DEF TypeOK, CallerHolds, LockHolds, SweepHolds, starter, StopEnd, Released
      <4>2. SweepHolds(e)'
        BY <1>6, <2>0, <3>0, <3>1 DEF TypeOK, CallerHolds, LockHolds, SweepHolds, starter, StopEnd, Released
      <4> QED
        BY <4>1, <4>2
    <3>2. CASE e # c
      <4>1. LockHolds(e)'
        BY <1>6, <2>0, <3>0, <3>2 DEF TypeOK, CallerHolds, LockHolds, SweepHolds, starter, StopEnd, Released
      <4>2. SweepHolds(e)'
        BY <1>6, <2>0, <3>0, <3>2 DEF TypeOK, CallerHolds, LockHolds, SweepHolds, starter, StopEnd, Released
      <4> QED
        BY <4>1, <4>2
    <3> QED
      BY <3>1, <3>2
  <2>7. InFlightLayersStayUp'
    BY <1>6, <2>0 DEF TypeOK, CallerInv, CallerHolds, SweepHolds, InFlightLayersStayUp, Target, TargetApp, starter, StopEnd, Released
  <2> QED
    BY <2>1, <2>2, <2>3, <2>4, <2>5, <2>7 DEF CallerInv
<1> QED
  BY <1>1, <1>2, <1>3, <1>4, <1>5, <1>6

\* The inductive invariant is preserved by every step and by stuttering.
LEMMA NextIInv == IInv /\ [Next]_vars => IInv'
<1> SUFFICES ASSUME IInv, [Next]_vars PROVE IInv'
  OBVIOUS
<1>1. CASE Starter
  BY <1>1, StarterIInv
<1>2. ASSUME NEW c \in Callers, Invocation(c) \/ Drop(c) PROVE IInv'
  BY <1>2, InvocationIInv
<1>3. ASSUME NEW c \in StopCallers, Stop(c) PROVE IInv'
  <2>1. TRUE \in BOOLEAN /\ FALSE \in BOOLEAN
    OBVIOUS
  <2> QED
    BY <1>3, <2>1, StopIInv DEF Stop
<1>4. CASE UNCHANGED vars
  BY <1>4 DEF vars, IInv, TypeOK, StarterInv, UpInv, StateInv, BoundInv, CallerInv, CallerHolds,
              LockHolds, SweepHolds, InFlightLayersStayUp, Complete, HasView, Target, TargetApp
<1> QED
  BY <1>1, <1>2, <1>3, <1>4 DEF Next

-----------------------------------------------------------------------------
(* The theorems.                                                           *)

\* The inductive invariant holds in every reachable state.
THEOREM Invariance == Spec => []IInv
BY InitIInv, NextIInv, PTL DEF Spec

\* Every reachable state is well typed: the cursors of the starter and of
\* every stop stay inside the layer vector.
THEOREM TypeCorrect == Spec => []TypeOK
<1>1. IInv => TypeOK
  BY DEF IInv
<1> QED
  BY <1>1, Invariance, PTL

\* A tree reports Running only while every layer of every application in it
\* is started.
THEOREM RunningIsWhole == Spec => []RunningMeansAllStarted
<1>1. IInv => RunningMeansAllStarted
  BY DEF IInv, StateInv, RunningMeansAllStarted
<1> QED
  BY <1>1, Invariance, PTL

\* A failed start has swept everything it prepared by the time it returns.
THEOREM FailedStartReleases == Spec => []FailedStartReleasesAll
<1>1. IInv => FailedStartReleasesAll
  BY PlanAssumption DEF IInv, TypeOK, StarterInv, FailedStartReleasesAll, Layers
<1> QED
  BY <1>1, Invariance, PTL

\* No stop sweep runs while an invocation or an intent is inside a layer:
\* the sweep holds every gate and an executing caller holds one of them.
THEOREM StopDrains == Spec => []StopDrainsInvocations
<1>1. IInv => StopDrainsInvocations
  <2> SUFFICES ASSUME IInv,
                      NEW s \in StopCallers, pc[s] = "stopping",
                      NEW c \in Callers, pc[c] = "executing"
               PROVE  FALSE
    BY DEF StopDrainsInvocations
  <2>1. \A a \in Apps : gate[a] = s
    BY DEF IInv, CallerInv, SweepHolds
  <2>2. gate[TargetApp(c)] = c
    BY DEF IInv, CallerInv, CallerHolds
  <2>3. s = c
    BY <2>1, <2>2, Targets
  <2> QED
    BY <2>3
<1> QED
  BY <1>1, Invariance, PTL

\* Outside a failed start, a guest only ever runs in a started layer.
THEOREM InFlightStaysUp == Spec => []InFlightLayersStayUp
<1>1. IInv => InFlightLayersStayUp
  BY DEF IInv
<1> QED
  BY <1>1, Invariance, PTL

\* An acknowledged stop stopped every layer, for good.
THEOREM AckedIsStopped == Spec => []AckedMeansStopped
<1>1. IInv => AckedMeansStopped
  BY DEF IInv, StateInv, AckedMeansStopped
<1> QED
  BY <1>1, Invariance, PTL

\* A View is attached only after its intent broker is bound.
THEOREM ViewsBound == Spec => []AttachedViewsAreBound
<1>1. IInv => AttachedViewsAreBound
  <2> SUFFICES ASSUME IInv, NEW v \in ViewLayers, layer[v] \in {"starting", "started"}
               PROVE  AppOf[v] \in bound
    BY DEF AttachedViewsAreBound
  <2>0. v \in Layers /\ AppOf[v] \in Apps
    BY PlanAssumption
  <2>1. prepared = NumLayers
    BY <2>0 DEF IInv, UpInv
  <2>2. Complete(AppOf[v], NumLayers)
    BY PlanAssumption DEF Complete, Layers
  <2>3. HasView(AppOf[v])
    BY DEF HasView
  <2> QED
    BY <2>0, <2>1, <2>2, <2>3 DEF IInv, BoundInv
<1> QED
  BY <1>1, Invariance, PTL

\* Only the sweeps stop a layer, from the last layer down.
LEMMA StopStep ==
  ASSUME IInv, [Next]_vars, NEW i \in Layers, layer[i] = "started", layer'[i] = "stopped",
         NEW j \in Layers, j > i
  PROVE  layer[j] = "stopped" \/ j \in failures
<1> USE PlanAssumption, CallerSets DEF IInv, Layers
<1>1. CASE RollbackLayer(TRUE) \/ RollbackLayer(FALSE)
  <2>1. cursor = i
    BY <1>1 DEF RollbackLayer, StopOne, TypeOK
  <2>2. phase = "rollback"
    BY <1>1 DEF RollbackLayer
  <2>3. prepared = NumLayers
    BY DEF UpInv
  <2> QED
    BY <2>1, <2>2, <2>3 DEF StarterInv, TypeOK
<1>2. ASSUME NEW c \in StopCallers, StopLayer(c, TRUE) \/ StopLayer(c, FALSE)
      PROVE  layer[j] = "stopped" \/ j \in failures
  <2>1. at[c] = i /\ pc[c] = "stopping"
    BY <1>2 DEF StopLayer, StopOne, TypeOK
  <2> QED
    BY <2>1 DEF CallerInv, SweepHolds
<1>3. CASE PrepareLayer \/ StartLayer \/ LayerStarted \/ StartFails
  BY <1>3 DEF PrepareLayer, StartLayer, LayerStarted, StartFails, TypeOK, StarterInv
<1>4. CASE PrepareFails \/ PreparedAll \/ StartedAll \/ RolledBack \/ UNCHANGED vars
  BY <1>4 DEF PrepareFails, PreparedAll, StartedAll, RolledBack, vars
<1>5. ASSUME NEW c \in Callers, Invocation(c) \/ Drop(c) PROVE FALSE
  BY <1>5 DEF Invocation, InvokeRequest, IntentRequest, Admit, Refuse, Return, Drop
<1>6. ASSUME NEW c \in StopCallers,
             StopRequest(c) \/ StopLock(c) \/ StopReturnsEarly(c) \/ StopBegin(c) \/ StopEnd(c)
      PROVE  FALSE
  BY <1>6 DEF StopRequest, StopLock, StopReturnsEarly, StopBegin, StopEnd
<1> QED
  BY <1>1, <1>2, <1>3, <1>4, <1>5, <1>6 DEF Next, Starter, Stop

\* Rollback and normal stop release layers in the reverse of the start order.
THEOREM ReverseStop == Spec => StopsInReverse
<1>1. IInv /\ [Next]_vars =>
        [\A i \in Layers : layer[i] = "started" /\ layer'[i] = "stopped" =>
           \A j \in Layers : j > i => layer[j] = "stopped" \/ j \in failures]_vars
  BY StopStep
<1> QED
  BY <1>1, Invariance, PTL DEF Spec, StopsInReverse

-----------------------------------------------------------------------------
(* Refinement.                                                             *)

Busy == {c \in Callers : pc[c] = "executing"}

\* Every step of the lifecycle is a step, or a stutter, of the abstract tree.
LEMMA TreeStep == IInv /\ [Next]_vars => [Tree!Next]_(Tree!vars)
<1> SUFFICES ASSUME IInv, [Next]_vars PROVE [Tree!Next]_(Tree!vars)
  OBVIOUS
<1> USE CallerSets, Targets DEF IInv, Busy
<1>1. CASE Starter
  <2>1. Busy' = Busy
    BY <1>1 DEF Starter, PrepareLayer, PrepareFails, PreparedAll, StartLayer, LayerStarted,
                StartFails, StartedAll, RollbackLayer, RolledBack
  <2>2. state' = state \/ (state = "Preparing" /\ state' \in {"Running", "Failed"})
    BY <1>1 DEF StarterInv, Starter, PrepareLayer, PrepareFails, PreparedAll, StartLayer, LayerStarted,
                StartFails, StartedAll, RollbackLayer, RolledBack, BeginRollback
  <2> QED
    BY <2>1, <2>2 DEF Tree!Next, Tree!vars, Tree!Start, Tree!StartFails
<1>2. ASSUME NEW c \in Callers, Invocation(c) \/ Drop(c) PROVE [Tree!Next]_(Tree!vars)
  <2>1. CASE Admit(c)
    <3>1. Busy' = Busy \cup {c} /\ state' = state
      BY <2>1 DEF Admit, TypeOK
    <3>2. state # "Stopped" /\ (c \notin Intents => state = "Running")
      BY <2>1 DEF Admit, Admits, StateInv
    <3> QED
      BY <3>1, <3>2 DEF Tree!Next, Tree!Enter
  <2>2. CASE pc[c] = "executing" /\ (Return(c) \/ Drop(c))
    <3>1. Busy' = Busy \ {c} /\ state' = state /\ c \in Busy
      BY <2>2 DEF Return, Drop, AfterInvoke, TypeOK
    <3> QED
      BY <3>1 DEF Tree!Next, Tree!Leave
  <2>3. CASE \/ InvokeRequest(c) \/ IntentRequest(c) \/ Refuse(c)
             \/ (pc[c] # "executing" /\ (Return(c) \/ Drop(c)))
    <3>1. Busy' = Busy /\ state' = state
      BY <2>3 DEF InvokeRequest, IntentRequest, Refuse, Return, Drop, AfterInvoke, TypeOK
    <3> QED
      BY <3>1 DEF Tree!vars
  <2> QED
    BY <1>2, <2>1, <2>2, <2>3 DEF Invocation
<1>3. ASSUME NEW c \in StopCallers, Stop(c) PROVE [Tree!Next]_(Tree!vars)
  <2>1. Busy' = Busy
    BY <1>3 DEF Stop, StopRequest, StopLock, StopReturnsEarly, StopBegin, StopLayer, StopEnd, TypeOK
  <2>2. CASE StopBegin(c)
    <3>1. at[c] \in 1..(NumApps + 1) /\ \A a \in Apps : gate[a] = c
      BY <2>2, PlanAssumption DEF StopBegin, CallerInv, LockHolds, TypeOK, Apps
    <3>2. Busy = {}
      BY <2>2, <3>1 DEF StopBegin, CallerInv, CallerHolds
    <3>3. state \in {"Running", "Failed"} /\ state' = "Stopping"
      BY <2>2 DEF StopBegin
    <3> QED
      BY <2>1, <3>2, <3>3 DEF Tree!Next, Tree!BeginStop
  <2>3. CASE StopEnd(c)
    <3>1. state = "Stopping" /\ \A a \in Apps : gate[a] = c
      BY <2>3 DEF StopEnd, CallerInv, SweepHolds
    <3>2. Busy = {}
      BY <2>3, <3>1 DEF StopEnd, CallerInv, CallerHolds
    <3>3. state' \in {"Stopped", "Failed"}
      BY <2>3 DEF StopEnd
    <3> QED
      BY <2>1, <3>1, <3>2, <3>3 DEF Tree!Next, Tree!EndStop
  <2>4. CASE ~(StopBegin(c) \/ StopEnd(c))
    <3>1. state' = state
      BY <1>3, <2>4 DEF Stop, StopRequest, StopLock, StopReturnsEarly, StopLayer
    <3> QED
      BY <2>1, <3>1 DEF Tree!vars
  <2> QED
    BY <2>2, <2>3, <2>4
<1>4. CASE UNCHANGED vars
  BY <1>4 DEF vars, Tree!vars
<1> QED
  BY <1>1, <1>2, <1>3, <1>4 DEF Next

\* The layered lifecycle implements the abstract one: owners of a tree may
\* think of it as HoloTree.
THEOREM Refinement == Spec => ImplementsTree
<1>1. Init => Tree!Init
  BY DEF Init, Tree!Init
<1> QED
  BY <1>1, TreeStep, Invariance, PTL DEF Spec, ImplementsTree, Tree!Spec

=============================================================================
