------------------------- MODULE HoloRuntime_proofs -------------------------
(***************************************************************************)
(* Proofs, for every set of kappas and of load, unload and run requests,   *)
(* whichever of them are dropped: a tree is started only once its          *)
(* admission is in the audit file, it has at most one owner and loses it   *)
(* only to a dropped request, and it is used as HoloTree allows.           *)
(***************************************************************************)
EXTENDS HoloRuntime, FiniteSetTheorems, TLAPS

\* A load that waits for the flush has handed its decisions to the audit
\* actor.
AuditInv ==
  \A l \in Loaders : pc[l] = "flushing" => l \in buffered \cup durable

\* Where a load is says what its tree is.  Until the load stops its own
\* tree, or has answered, nobody else touches it.
LoadInv ==
  \A l \in Loaders :
    /\ pc[l] \in {"idle", "recording", "flushing"} => tree[l] = "absent"
    /\ pc[l] = "starting" => tree[l] = "Preparing"
    /\ pc[l] = "inserting" => tree[l] = "Running"
    /\ pc[l] \in {"locking", "stopping"} => target[l] = l

\* The map holds running trees of its kappas whose load has answered.
MapInv ==
  \A k \in Kappas : \A l \in Loaders :
    resident[k] = l => KappaOf[l] = k /\ tree[l] = "Running" /\ pc[l] = "ok"

\* A request that stops a tree has taken it from everybody: it is no longer
\* in the map, its load has answered or is this request, and it is up until
\* the gate is held.
Stops(t) == pc[t] \in {"locking", "stopping"}

TakerInv ==
  \A t \in Tasks : Stops(t) =>
    /\ t \notin Runners
    /\ target[t] \in Loaders
    /\ \A k \in Kappas : resident[k] # target[t]
    /\ target[t] = t \/ pc[target[t]] = "ok"
    /\ pc[t] = "locking" => tree[target[t]] = "Running"
    /\ pc[t] = "stopping" => tree[target[t]] = "Stopping" /\ gate[target[t]] = t

\* Two requests never stop the same tree.
ExclusiveInv ==
  \A t, s \in Tasks : Stops(t) /\ Stops(s) /\ target[t] = target[s] => t = s

\* A run works on a tree that was in the map, and while it executes it holds
\* the gate of a running tree.
RunInv ==
  \A r \in Runners :
    /\ pc[r] \in {"queued", "executing"} => target[r] \in Loaders
    /\ pc[r] = "executing" => gate[target[r]] = r /\ tree[target[r]] = "Running"

\* A tree that is up and was not abandoned is in the map or has a request
\* that is responsible for it.
OwnedInv ==
  \A l \in Loaders : Alive(l) /\ l \notin abandoned =>
    \/ resident[KappaOf[l]] = l
    \/ \E t \in Tasks : Responsible(t, l)

IInv ==
  /\ TypeOK
  /\ AuditedBeforeStart
  /\ AuditInv
  /\ LoadInv
  /\ MapInv
  /\ TakerInv
  /\ ExclusiveInv
  /\ RunInv
  /\ OwnedInv

-----------------------------------------------------------------------------
(* The inductive invariant, one action after the other.                    *)

\* Every request is for a kappa, and the kinds of request are disjoint.
LEMMA Home ==
  /\ \A t \in Tasks : KappaOf[t] \in Kappas
  /\ \A l \in Loaders : l \in Tasks /\ l \notin Unloaders /\ l \notin Runners
  /\ \A u \in Unloaders : u \in Tasks /\ u \notin Runners
BY TaskAssumption DEF Tasks

\* There is nothing in the map, at work or owned before the first request.
LEMMA InitIInv == Init => IInv
<1> USE TaskAssumption DEF Init, Tasks
<1>1. Init => TypeOK
  BY DEF TypeOK, LoaderPcs, OtherPcs, TreeStates
<1>2. Init => AuditedBeforeStart /\ AuditInv /\ LoadInv /\ MapInv
  BY DEF AuditedBeforeStart, AuditInv, LoadInv, MapInv
<1>3. Init => TakerInv /\ ExclusiveInv /\ RunInv /\ OwnedInv
  BY DEF TakerInv, ExclusiveInv, RunInv, OwnedInv, Stops, Alive
<1> QED
  BY <1>1, <1>2, <1>3 DEF IInv

\* A load that finds the kappa in the map only answers.
LEMMA LoadFoundIInv == ASSUME IInv, NEW l \in Loaders, LoadFound(l) PROVE IInv'
<1> USE TaskAssumption DEF IInv, Tasks, Goto, audit, ghosts, LoadFound
<1>1. TypeOK'
  BY DEF TypeOK, LoaderPcs, OtherPcs, TreeStates
<1>2. AuditedBeforeStart' /\ AuditInv'
  BY DEF TypeOK, AuditedBeforeStart, AuditInv
<1>3. LoadInv'
  BY DEF TypeOK, LoadInv
<1>4. MapInv'
  BY DEF TypeOK, MapInv
<1>5. TakerInv'
  BY DEF TypeOK, TakerInv, Stops
<1>6. ExclusiveInv'
  BY DEF TypeOK, ExclusiveInv, Stops
<1>7. RunInv'
  BY DEF TypeOK, RunInv
<1>8. OwnedInv'
  BY DEF TypeOK, OwnedInv, Alive, Responsible
<1> QED
  BY <1>1, <1>2, <1>3, <1>4, <1>5, <1>6, <1>7, <1>8

\* A planned load has not touched a tree.
LEMMA LoadPlannedIInv == ASSUME IInv, NEW l \in Loaders, LoadPlanned(l) PROVE IInv'
<1> USE TaskAssumption DEF IInv, Tasks, Goto, audit, ghosts, LoadPlanned
<1>1. TypeOK'
  BY DEF TypeOK, LoaderPcs, OtherPcs, TreeStates
<1>2. AuditedBeforeStart' /\ AuditInv'
  BY DEF TypeOK, AuditedBeforeStart, AuditInv
<1>3. LoadInv'
  BY DEF TypeOK, LoadInv
<1>4. MapInv'
  BY DEF TypeOK, MapInv
<1>5. TakerInv'
  BY DEF TypeOK, TakerInv, Stops
<1>6. ExclusiveInv'
  BY DEF TypeOK, ExclusiveInv, Stops
<1>7. RunInv'
  BY DEF TypeOK, RunInv
<1>8. OwnedInv'
  BY DEF TypeOK, OwnedInv, Alive, Responsible
<1> QED
  BY <1>1, <1>2, <1>3, <1>4, <1>5, <1>6, <1>7, <1>8

\* Nor has one that cannot be planned.
LEMMA LoadUnplannableIInv == ASSUME IInv, NEW l \in Loaders, LoadUnplannable(l) PROVE IInv'
<1> USE TaskAssumption DEF IInv, Tasks, Goto, audit, ghosts, LoadUnplannable
<1>1. TypeOK'
  BY DEF TypeOK, LoaderPcs, OtherPcs, TreeStates
<1>2. AuditedBeforeStart' /\ AuditInv'
  BY DEF TypeOK, AuditedBeforeStart, AuditInv
<1>3. LoadInv'
  BY DEF TypeOK, LoadInv
<1>4. MapInv'
  BY DEF TypeOK, MapInv
<1>5. TakerInv'
  BY DEF TypeOK, TakerInv, Stops
<1>6. ExclusiveInv'
  BY DEF TypeOK, ExclusiveInv, Stops
<1>7. RunInv'
  BY DEF TypeOK, RunInv
<1>8. OwnedInv'
  BY DEF TypeOK, OwnedInv, Alive, Responsible
<1> QED
  BY <1>1, <1>2, <1>3, <1>4, <1>5, <1>6, <1>7, <1>8

\* The decisions of a load are in the buffer or in the file once recorded.
LEMMA RecordDecisionsIInv == ASSUME IInv, NEW l \in Loaders, RecordDecisions(l) PROVE IInv'
<1> USE TaskAssumption DEF IInv, Tasks, Goto, audit, ghosts, RecordDecisions
<1>1. TypeOK'
  BY DEF TypeOK, LoaderPcs, OtherPcs, TreeStates
<1>2. AuditedBeforeStart' /\ AuditInv'
  BY DEF TypeOK, AuditedBeforeStart, AuditInv
<1>3. LoadInv'
  BY DEF TypeOK, LoadInv
<1>4. MapInv'
  BY DEF TypeOK, MapInv
<1>5. TakerInv'
  BY DEF TypeOK, TakerInv, Stops
<1>6. ExclusiveInv'
  BY DEF TypeOK, ExclusiveInv, Stops
<1>7. RunInv'
  BY DEF TypeOK, RunInv
<1>8. OwnedInv'
  BY DEF TypeOK, OwnedInv, Alive, Responsible
<1> QED
  BY <1>1, <1>2, <1>3, <1>4, <1>5, <1>6, <1>7, <1>8

\* The tree of a load appears in the step that makes its decisions durable.
LEMMA FlushDecisionsIInv == ASSUME IInv, NEW l \in Loaders, FlushDecisions(l) PROVE IInv'
<1> USE TaskAssumption DEF IInv, Tasks, Goto, audit, ghosts, FlushDecisions
<1>1. TypeOK'
  BY DEF TypeOK, LoaderPcs, OtherPcs, TreeStates
<1>2. AuditedBeforeStart' /\ AuditInv'
  BY DEF TypeOK, AuditedBeforeStart, AuditInv
<1>3. LoadInv'
  BY DEF TypeOK, LoadInv
<1>4. MapInv'
  BY DEF TypeOK, MapInv
<1>5. TakerInv'
  BY DEF TypeOK, TakerInv, Stops
<1>6. ExclusiveInv'
  BY DEF TypeOK, ExclusiveInv, Stops
<1>7. RunInv'
  BY DEF TypeOK, RunInv, LoadInv
<1>8. OwnedInv'
  BY DEF TypeOK, OwnedInv, Alive, Responsible
<1> QED
  BY <1>1, <1>2, <1>3, <1>4, <1>5, <1>6, <1>7, <1>8

\* A refused load has no tree.
LEMMA AuditFailsIInv == ASSUME IInv, NEW l \in Loaders, AuditFails(l) PROVE IInv'
<1> USE TaskAssumption DEF IInv, Tasks, Goto, audit, ghosts, AuditFails
<1>1. TypeOK'
  BY DEF TypeOK, LoaderPcs, OtherPcs, TreeStates
<1>2. AuditedBeforeStart' /\ AuditInv'
  BY DEF TypeOK, AuditedBeforeStart, AuditInv
<1>3. LoadInv'
  BY DEF TypeOK, LoadInv
<1>4. MapInv'
  BY DEF TypeOK, MapInv
<1>5. TakerInv'
  BY DEF TypeOK, TakerInv, Stops
<1>6. ExclusiveInv'
  BY DEF TypeOK, ExclusiveInv, Stops
<1>7. RunInv'
  BY DEF TypeOK, RunInv
<1>8. OwnedInv'
  BY DEF TypeOK, OwnedInv, Alive, Responsible
<1> QED
  BY <1>1, <1>2, <1>3, <1>4, <1>5, <1>6, <1>7, <1>8

\* A started tree stays with its load.
LEMMA LoadStartedIInv == ASSUME IInv, NEW l \in Loaders, LoadStarted(l) PROVE IInv'
<1> USE TaskAssumption DEF IInv, Tasks, Goto, audit, ghosts, LoadStarted
<1>1. TypeOK'
  BY DEF TypeOK, LoaderPcs, OtherPcs, TreeStates
<1>2. AuditedBeforeStart' /\ AuditInv'
  BY DEF TypeOK, AuditedBeforeStart, AuditInv, LoadInv
<1>3. LoadInv'
  BY DEF TypeOK, LoadInv
<1>4. MapInv'
  BY DEF TypeOK, MapInv
<1>5. TakerInv'
  BY DEF TypeOK, TakerInv, Stops
<1>6. ExclusiveInv'
  BY DEF TypeOK, ExclusiveInv, Stops
<1>7. RunInv'
  BY DEF TypeOK, RunInv
<1>8. OwnedInv'
  BY DEF TypeOK, OwnedInv, Alive, Responsible
<1> QED
  BY <1>1, <1>2, <1>3, <1>4, <1>5, <1>6, <1>7, <1>8

\* A tree that failed to start needs no owner.
LEMMA LoadStartFailsIInv == ASSUME IInv, NEW l \in Loaders, LoadStartFails(l) PROVE IInv'
<1> USE TaskAssumption DEF IInv, Tasks, Goto, audit, ghosts, LoadStartFails
<1>1. TypeOK'
  BY DEF TypeOK, LoaderPcs, OtherPcs, TreeStates
<1>2. AuditedBeforeStart' /\ AuditInv'
  BY DEF TypeOK, AuditedBeforeStart, AuditInv, LoadInv
<1>3. LoadInv'
  BY DEF TypeOK, LoadInv
<1>4. MapInv'
  BY DEF TypeOK, MapInv
<1>5. TakerInv'
  BY DEF TypeOK, TakerInv, Stops
<1>6. ExclusiveInv'
  BY DEF TypeOK, ExclusiveInv, Stops
<1>7. RunInv'
  BY DEF TypeOK, RunInv, LoadInv
<1>8. OwnedInv'
  BY DEF TypeOK, OwnedInv, Alive, Responsible
<1> QED
  BY <1>1, <1>2, <1>3, <1>4, <1>5, <1>6, <1>7, <1>8

\* The entry API hands the tree to the map, or leaves it to its load.
LEMMA LoadInsertIInv == ASSUME IInv, NEW l \in Loaders, LoadInsert(l) PROVE IInv'
<1> USE TaskAssumption DEF IInv, Tasks, Goto, audit, ghosts, LoadInsert
<1>1. TypeOK'
  BY DEF TypeOK, LoaderPcs, OtherPcs, TreeStates
<1>2. AuditedBeforeStart' /\ AuditInv'
  BY DEF TypeOK, AuditedBeforeStart, AuditInv
<1>3. LoadInv'
  BY DEF TypeOK, LoadInv
<1>4. MapInv'
  BY DEF TypeOK, MapInv, LoadInv
<1>5. TakerInv'
  BY DEF TypeOK, TakerInv, Stops, LoadInv, MapInv
<1>6. ExclusiveInv'
  BY DEF TypeOK, ExclusiveInv, TakerInv, Stops
<1>7. RunInv'
  BY DEF TypeOK, RunInv
<1>8. OwnedInv'
  BY DEF TypeOK, OwnedInv, Alive, Responsible
<1> QED
  BY <1>1, <1>2, <1>3, <1>4, <1>5, <1>6, <1>7, <1>8

\* An unload takes the tree of its kappa out of the map, with which the tree
\* changes owner.
LEMMA UnloadTakeIInv == ASSUME IInv, NEW u \in Unloaders, UnloadTake(u) PROVE IInv'
<1> USE TaskAssumption DEF IInv, Tasks, Goto, audit, ghosts, UnloadTake
<1>1. TypeOK'
  BY DEF TypeOK, LoaderPcs, OtherPcs, TreeStates
<1>2. AuditedBeforeStart' /\ AuditInv'
  BY DEF TypeOK, AuditedBeforeStart, AuditInv
<1>3. LoadInv'
  BY DEF TypeOK, LoadInv
<1>4. MapInv'
  BY DEF TypeOK, MapInv
<1>5. TakerInv'
  <2> SUFFICES ASSUME NEW t \in Tasks, Stops(t)' PROVE
        /\ t \notin Runners
        /\ target'[t] \in Loaders
        /\ \A k \in Kappas : resident'[k] # target'[t]
        /\ target'[t] = t \/ pc'[target'[t]] = "ok"
        /\ pc'[t] = "locking" => tree'[target'[t]] = "Running"
        /\ pc'[t] = "stopping" => tree'[target'[t]] = "Stopping" /\ gate'[target'[t]] = t
    BY DEF TakerInv, Stops
  <2>1. CASE t = u
    <3> DEFINE l == resident[KappaOf[u]]
    <3>1. pc'[t] = "locking" /\ l \in Loaders /\ target'[t] = l
      BY <2>1 DEF TypeOK, Stops
    <3>2. KappaOf[l] = KappaOf[u] /\ tree[l] = "Running" /\ pc[l] = "ok" /\ l # u
      BY <3>1, Home DEF MapInv
    <3>3. pc'[l] = "ok" /\ tree'[l] = "Running"
      BY <3>1, <3>2 DEF TypeOK
    <3>4. \A k \in Kappas : resident'[k] # l
      BY <3>1, Home DEF TypeOK, MapInv
    <3> QED
      BY <2>1, <3>1, <3>3, <3>4
  <2>2. CASE t # u
    BY <2>2 DEF TypeOK, TakerInv, Stops
  <2> QED
    BY <2>1, <2>2
<1>6. ExclusiveInv'
  <2> SUFFICES ASSUME NEW t \in Tasks, NEW s \in Tasks,
                      Stops(t)', Stops(s)', target'[t] = target'[s], t # s
               PROVE  FALSE
    BY DEF ExclusiveInv, Stops
  <2>1. t # u /\ s # u => FALSE
    BY DEF TypeOK, ExclusiveInv, Stops
  <2>2. \A x \in Tasks : x # u /\ Stops(x)' => target'[x] # resident[KappaOf[u]]
    BY Home DEF TypeOK, TakerInv, Stops
  <2>3. target'[u] = resident[KappaOf[u]]
    BY DEF TypeOK
  <2> QED
    BY <2>1, <2>2, <2>3
<1>7. RunInv'
  BY DEF TypeOK, RunInv
<1>8. OwnedInv'
  BY DEF TypeOK, OwnedInv, Alive, Responsible
<1> QED
  BY <1>1, <1>2, <1>3, <1>4, <1>5, <1>6, <1>7, <1>8

\* Nobody executes in a tree when its gate is obtained, and only its one taker
\* can be after it.
LEMMA StopBeginIInv == ASSUME IInv, NEW t \in Loaders \cup Unloaders, StopBegin(t) PROVE IInv'
<1> USE TaskAssumption DEF IInv, Tasks, Goto, audit, ghosts, StopBegin
<1>1. TypeOK'
  BY DEF TypeOK, LoaderPcs, OtherPcs, TreeStates
<1>2. AuditedBeforeStart' /\ AuditInv'
  BY DEF TypeOK, AuditedBeforeStart, AuditInv, LoadInv, TakerInv, Stops, MapInv
<1>3. LoadInv'
  BY DEF TypeOK, LoadInv, TakerInv, Stops
<1>4. MapInv'
  BY DEF TypeOK, MapInv, TakerInv, Stops
<1>5. TakerInv'
  BY DEF TypeOK, TakerInv, Stops, ExclusiveInv, RunInv, LoadInv
<1>6. ExclusiveInv'
  BY DEF TypeOK, ExclusiveInv, Stops
<1>7. RunInv'
  BY DEF TypeOK, RunInv
<1>8. OwnedInv'
  BY DEF TypeOK, OwnedInv, Alive, Responsible
<1> QED
  BY <1>1, <1>2, <1>3, <1>4, <1>5, <1>6, <1>7, <1>8

\* The gate is given back with the tree stopped.
LEMMA StopEndIInv == ASSUME IInv, NEW t \in Loaders \cup Unloaders, StopEnd(t) PROVE IInv'
<1> USE TaskAssumption DEF IInv, Tasks, Goto, audit, ghosts, StopEnd
<1>1. TypeOK'
  BY DEF TypeOK, LoaderPcs, OtherPcs, TreeStates
<1>2. AuditedBeforeStart' /\ AuditInv'
  BY DEF TypeOK, AuditedBeforeStart, AuditInv, LoadInv, TakerInv, Stops, MapInv
<1>3. LoadInv'
  BY DEF TypeOK, LoadInv, TakerInv, Stops
<1>4. MapInv'
  BY DEF TypeOK, MapInv, TakerInv, Stops
<1>5. TakerInv'
  BY DEF TypeOK, TakerInv, Stops
<1>6. ExclusiveInv'
  BY DEF TypeOK, ExclusiveInv, Stops
<1>7. RunInv'
  BY DEF TypeOK, RunInv, MapInv, TakerInv, Stops
<1>8. OwnedInv'
  BY DEF TypeOK, OwnedInv, Alive, Responsible
<1> QED
  BY <1>1, <1>2, <1>3, <1>4, <1>5, <1>6, <1>7, <1>8

\* A run that is handed a tree does not own it.
LEMMA RunTakeIInv == ASSUME IInv, NEW r \in Runners, RunTake(r) PROVE IInv'
<1> USE TaskAssumption DEF IInv, Tasks, Goto, audit, ghosts, RunTake
<1>1. TypeOK'
  BY DEF TypeOK, LoaderPcs, OtherPcs, TreeStates
<1>2. AuditedBeforeStart' /\ AuditInv'
  BY DEF TypeOK, AuditedBeforeStart, AuditInv
<1>3. LoadInv'
  BY DEF TypeOK, LoadInv
<1>4. MapInv'
  BY DEF TypeOK, MapInv
<1>5. TakerInv'
  BY DEF TypeOK, TakerInv, Stops
<1>6. ExclusiveInv'
  BY DEF TypeOK, ExclusiveInv, Stops
<1>7. RunInv'
  BY DEF TypeOK, RunInv
<1>8. OwnedInv'
  BY DEF TypeOK, OwnedInv, Alive, Responsible
<1> QED
  BY <1>1, <1>2, <1>3, <1>4, <1>5, <1>6, <1>7, <1>8

\* A run is let in with the gate, into a running tree.
LEMMA RunEnterIInv == ASSUME IInv, NEW r \in Runners, RunEnter(r) PROVE IInv'
<1> USE TaskAssumption DEF IInv, Tasks, Goto, audit, ghosts, RunEnter
<1>1. TypeOK'
  BY DEF TypeOK, LoaderPcs, OtherPcs, TreeStates
<1>2. AuditedBeforeStart' /\ AuditInv'
  BY DEF TypeOK, AuditedBeforeStart, AuditInv
<1>3. LoadInv'
  BY DEF TypeOK, LoadInv
<1>4. MapInv'
  BY DEF TypeOK, MapInv
<1>5. TakerInv'
  BY DEF TypeOK, TakerInv, Stops
<1>6. ExclusiveInv'
  BY DEF TypeOK, ExclusiveInv, Stops
<1>7. RunInv'
  BY DEF TypeOK, RunInv
<1>8. OwnedInv'
  BY DEF TypeOK, OwnedInv, Alive, Responsible
<1> QED
  BY <1>1, <1>2, <1>3, <1>4, <1>5, <1>6, <1>7, <1>8

\* A refused run changes nothing but itself.
LEMMA RunRefusedIInv == ASSUME IInv, NEW r \in Runners, RunRefused(r) PROVE IInv'
<1> USE TaskAssumption DEF IInv, Tasks, Goto, audit, ghosts, RunRefused
<1>1. TypeOK'
  BY DEF TypeOK, LoaderPcs, OtherPcs, TreeStates
<1>2. AuditedBeforeStart' /\ AuditInv'
  BY DEF TypeOK, AuditedBeforeStart, AuditInv
<1>3. LoadInv'
  BY DEF TypeOK, LoadInv
<1>4. MapInv'
  BY DEF TypeOK, MapInv
<1>5. TakerInv'
  BY DEF TypeOK, TakerInv, Stops
<1>6. ExclusiveInv'
  BY DEF TypeOK, ExclusiveInv, Stops
<1>7. RunInv'
  BY DEF TypeOK, RunInv
<1>8. OwnedInv'
  BY DEF TypeOK, OwnedInv, Alive, Responsible
<1> QED
  BY <1>1, <1>2, <1>3, <1>4, <1>5, <1>6, <1>7, <1>8

\* The gate a run gives back is its own.
LEMMA RunReturnIInv == ASSUME IInv, NEW r \in Runners, RunReturn(r) PROVE IInv'
<1> USE TaskAssumption DEF IInv, Tasks, Goto, audit, ghosts, RunReturn
<1>1. TypeOK'
  BY DEF TypeOK, LoaderPcs, OtherPcs, TreeStates
<1>2. AuditedBeforeStart' /\ AuditInv'
  BY DEF TypeOK, AuditedBeforeStart, AuditInv
<1>3. LoadInv'
  BY DEF TypeOK, LoadInv
<1>4. MapInv'
  BY DEF TypeOK, MapInv
<1>5. TakerInv'
  BY DEF TypeOK, TakerInv, Stops, ExclusiveInv, RunInv, LoadInv
<1>6. ExclusiveInv'
  BY DEF TypeOK, ExclusiveInv, Stops
<1>7. RunInv'
  BY DEF TypeOK, RunInv
<1>8. OwnedInv'
  BY DEF TypeOK, OwnedInv, Alive, Responsible
<1> QED
  BY <1>1, <1>2, <1>3, <1>4, <1>5, <1>6, <1>7, <1>8

\* A dropped request gives back the gates it holds; the tree it was
\* responsible for is recorded as abandoned.
LEMMA DropIInv == ASSUME IInv, NEW t \in Tasks, Drop(t) PROVE IInv'
<1> USE TaskAssumption DEF IInv, Tasks, Goto, audit, ghosts, Drop
<1>1. TypeOK'
  BY DEF TypeOK, LoaderPcs, OtherPcs, TreeStates
<1>2. AuditedBeforeStart' /\ AuditInv'
  BY DEF TypeOK, AuditedBeforeStart, AuditInv
<1>3. LoadInv'
  BY DEF TypeOK, LoadInv
<1>4. MapInv'
  BY DEF TypeOK, MapInv
<1>5. TakerInv'
  BY DEF TypeOK, TakerInv, Stops
<1>6. ExclusiveInv'
  BY DEF TypeOK, ExclusiveInv, Stops
<1>7. RunInv'
  BY DEF TypeOK, RunInv
<1>8. OwnedInv'
  BY DEF TypeOK, OwnedInv, Alive, Responsible
<1> QED
  BY <1>1, <1>2, <1>3, <1>4, <1>5, <1>6, <1>7, <1>8

\* Every step keeps the inductive invariant.
LEMMA NextIInv == IInv /\ [Next]_vars => IInv'
<1> SUFFICES ASSUME IInv, [Next]_vars PROVE IInv'
  OBVIOUS
<1>1. ASSUME NEW l \in Loaders, Load(l) PROVE IInv'
  BY <1>1, LoadFoundIInv, LoadPlannedIInv, LoadUnplannableIInv, RecordDecisionsIInv, FlushDecisionsIInv,
     AuditFailsIInv, LoadStartedIInv, LoadStartFailsIInv, LoadInsertIInv, StopBeginIInv, StopEndIInv DEF Load
<1>2. ASSUME NEW u \in Unloaders, Unload(u) PROVE IInv'
  BY <1>2, UnloadTakeIInv, StopBeginIInv, StopEndIInv DEF Unload
<1>3. ASSUME NEW r \in Runners, Run(r) PROVE IInv'
  BY <1>3, RunTakeIInv, RunEnterIInv, RunRefusedIInv, RunReturnIInv DEF Run
<1>4. CASE UNCHANGED vars
  BY <1>4 DEF IInv, vars, audit, ghosts, TypeOK, AuditedBeforeStart, AuditInv, LoadInv, MapInv, TakerInv,
     ExclusiveInv, RunInv, OwnedInv, Stops, Alive, Responsible
<1> QED
  BY <1>1, <1>2, <1>3, <1>4, DropIInv DEF Next

-----------------------------------------------------------------------------
(* What the runtime guarantees.                                            *)

\* The inductive invariant holds in every reachable state.
THEOREM Invariance == Spec => []IInv
BY InitIInv, NextIInv, PTL DEF Spec

\* Every variable keeps its type, whichever requests are dropped.
THEOREM TypeCorrect == Spec => []TypeOK
<1>1. IInv => TypeOK
  BY DEF IInv
<1> QED
  BY <1>1, Invariance, PTL

\* admit_with_audit flushes before anything is prepared: no tree exists
\* without its decisions in the audit file, and none at all of a denied
\* application.
THEOREM Audited == Spec => []AuditedBeforeStart
<1>1. IInv => AuditedBeforeStart
  BY DEF IInv
<1> QED
  BY <1>1, Invariance, PTL

\* A set whose members are all the same has at most one.
LEMMA AtMostOne ==
  ASSUME NEW S, \A x, y \in S : x = y
  PROVE  Cardinality(S) <= 1
<1>1. CASE S = {}
  BY <1>1, FS_EmptySet
<1>2. CASE S # {}
  <2> PICK x \in S : TRUE
    BY <1>2
  <2>1. S = {x}
    OBVIOUS
  <2> QED
    BY <2>1, FS_Singleton
<1> QED
  BY <1>1, <1>2

\* Two owners of a tree are the same: a load that has not answered is the
\* only one to know its tree, a request that stops a tree took it from the
\* map or lost with it, and the map holds a tree under its own kappa only.
LEMMA OwnersAgree ==
  ASSUME IInv, NEW l \in Loaders, NEW x \in Owners(l), NEW y \in Owners(l)
  PROVE  x = y
<1> USE TaskAssumption DEF IInv, Tasks
<1>1. ASSUME NEW t \in Tasks, NEW s \in Tasks, Responsible(t, l), Responsible(s, l)
      PROVE  t = s
  BY <1>1 DEF Responsible, LoadInv, TakerInv, ExclusiveInv, Stops
<1>2. ASSUME NEW t \in Tasks, NEW k \in Kappas, Responsible(t, l), resident[k] = l
      PROVE  FALSE
  BY <1>2 DEF Responsible, MapInv, TakerInv, Stops
<1>3. ASSUME NEW k \in Kappas, NEW j \in Kappas, resident[k] = l, resident[j] = l
      PROVE  k = j
  BY <1>3 DEF MapInv
<1> QED
  BY <1>1, <1>2, <1>3 DEF Owners

\* The entry API and remove of the map decide every race: no tree has two
\* owners, and one that is up has lost its only owner to a dropped request
\* or still has it.
THEOREM OneOwner == Spec => []SingleOwner
<1>1. IInv => SingleOwner
  <2> SUFFICES ASSUME IInv, NEW l \in Loaders
               PROVE  /\ Cardinality(Owners(l)) <= 1
                      /\ Alive(l) /\ l \notin abandoned => Owners(l) # {}
    BY DEF SingleOwner
  <2>1. Cardinality(Owners(l)) <= 1
    BY OwnersAgree, AtMostOne
  <2>2. Alive(l) /\ l \notin abandoned => Owners(l) # {}
    BY TaskAssumption DEF IInv, OwnedInv, Owners, Tasks
  <2> QED
    BY <2>1, <2>2
<1> QED
  BY <1>1, Invariance, PTL

-----------------------------------------------------------------------------
(* Every tree is used as HoloTree allows.                                  *)

\* The lifecycle state a tree shows to HoloTree.
Life(l) == IF tree[l] = "absent" THEN "Preparing" ELSE tree[l]

\* A step that leaves the state of a tree and its runs alone stutters.
LEMMA TreeStutters ==
  ASSUME NEW l \in Loaders, Life(l)' = Life(l), Inside(l)' = Inside(l)
  PROVE  [T(l)!Next]_(T(l)!vars)
BY DEF T!vars, Life

\* Steps that move no run in or out and no tree but that of t, which they
\* move as HoloTree allows, keep every contract.
LEMMA TreeMoves ==
  ASSUME NEW m \in Loaders,
         \A l \in Loaders : l # m => tree'[l] = tree[l],
         \A l \in Loaders : Inside(l)' = Inside(l),
         T(m)!Next \/ Life(m)' = Life(m),
         NEW l \in Loaders
  PROVE  [T(l)!Next]_(T(l)!vars)
<1>1. CASE l = m /\ T(m)!Next
  BY <1>1
<1>2. CASE Life(l)' = Life(l)
  BY <1>2, TreeStutters
<1> QED
  BY <1>1, <1>2 DEF Life

\* A load or an unload that goes anywhere moves no run.
LEMMA OthersStayInside ==
  ASSUME IInv, NEW t \in Loaders \cup Unloaders, NEW where, Goto(t, where),
         \A r \in Runners : target'[r] = target[r]
  PROVE  \A j \in Loaders : Inside(j)' = Inside(j)
<1>1. \A r \in Runners : pc'[r] = pc[r]
  BY Home DEF IInv, TypeOK, Goto, Tasks
<1> QED
  BY <1>1 DEF Inside

\* A load never moves a run, and moves its own tree from Preparing to Running
\* or Failed.
LEMMA LoadTreeStep ==
  ASSUME IInv, NEW m \in Loaders, Load(m), ~StopBegin(m), ~StopEnd(m), NEW l \in Loaders
  PROVE  [T(l)!Next]_(T(l)!vars)
<1> USE Home DEF IInv, Goto
<1>1. \A j \in Loaders : Inside(j)' = Inside(j)
  <2>1. \E where \in LoaderPcs : Goto(m, where)
    BY DEF LoaderPcs, Load, LoadFound, LoadPlanned, LoadUnplannable, RecordDecisions, FlushDecisions,
           AuditFails, LoadStarted, LoadStartFails, LoadInsert
  <2>2. target' = target \/ target' = [target EXCEPT ![m] = m]
    BY DEF Load, LoadFound, LoadPlanned, LoadUnplannable, RecordDecisions, FlushDecisions,
           AuditFails, LoadStarted, LoadStartFails, LoadInsert
  <2>3. \A r \in Runners : target'[r] = target[r]
    BY <2>2, TaskAssumption DEF TypeOK, Tasks
  <2> QED
    BY <2>1, <2>3, OthersStayInside
<1>2. \A j \in Loaders : j # m => tree'[j] = tree[j]
  BY DEF TypeOK, Load, LoadFound, LoadPlanned, LoadUnplannable, RecordDecisions, FlushDecisions,
         AuditFails, LoadStarted, LoadStartFails, LoadInsert
<1>3. CASE LoadStarted(m)
  BY <1>1, <1>2, <1>3, TreeMoves DEF LoadStarted, LoadInv, TypeOK, T!Next, T!Start
<1>4. CASE LoadStartFails(m)
  BY <1>1, <1>2, <1>4, TreeMoves DEF LoadStartFails, LoadInv, TypeOK, T!Next, T!StartFails
<1>5. CASE FlushDecisions(m)
  <2>1. Life(m)' = Life(m)
    BY <1>5 DEF FlushDecisions, LoadInv, TypeOK, Life
  <2> QED
    BY <1>1, <1>2, <2>1, TreeMoves
<1>6. CASE ~LoadStarted(m) /\ ~LoadStartFails(m) /\ ~FlushDecisions(m)
  <2>1. tree' = tree
    BY <1>6 DEF Load, LoadFound, LoadPlanned, LoadUnplannable, RecordDecisions, AuditFails, LoadInsert
  <2> QED
    BY <1>1, <1>2, <2>1, TreeMoves DEF Life
<1> QED
  BY <1>3, <1>4, <1>5, <1>6

\* A stop begins when nobody executes in the tree and ends with nobody in it.
LEMMA StopTreeStep ==
  ASSUME IInv, NEW t \in Loaders \cup Unloaders, StopBegin(t) \/ StopEnd(t), NEW l \in Loaders
  PROVE  [T(l)!Next]_(T(l)!vars)
<1> USE Home DEF IInv, Goto
<1>0. t \in Tasks /\ target[t] \in Loaders
  BY DEF StopBegin, StopEnd, TakerInv, Stops
<1> PICK m \in Loaders : m = target[t]
  BY <1>0
<1>1. m \in Loaders /\ t \in Tasks /\ target[t] = m
  BY <1>0
<1>2. Inside(m) = {}
  BY <1>1, TaskAssumption DEF StopBegin, StopEnd, Inside, RunInv, TakerInv, Stops, Tasks
<1>3. \A j \in Loaders : Inside(j)' = Inside(j)
  BY OthersStayInside DEF StopBegin, StopEnd
<1>4. \A j \in Loaders : j # m => tree'[j] = tree[j]
  BY <1>1 DEF StopBegin, StopEnd, TypeOK
<1>5. CASE StopBegin(t)
  <2>1. tree[m] = "Running" /\ tree'[m] = "Stopping"
    BY <1>1, <1>5 DEF StopBegin, TypeOK, TakerInv, Stops
  <2>2. T(m)!BeginStop
    BY <1>1, <1>2, <1>3, <2>1 DEF T!BeginStop
  <2> QED
    BY <1>1, <1>3, <1>4, <2>2, TreeMoves DEF T!Next
<1>6. CASE StopEnd(t)
  <2>1. tree[m] = "Stopping" /\ tree'[m] = "Stopped"
    BY <1>1, <1>6 DEF StopEnd, TypeOK, TakerInv, Stops
  <2>2. T(m)!EndStop
    BY <1>1, <1>2, <1>3, <2>1 DEF T!EndStop
  <2> QED
    BY <1>1, <1>3, <1>4, <2>2, TreeMoves DEF T!Next
<1> QED
  BY <1>5, <1>6

\* A request that leaves the executing state leaves the tree it was in.
LEMMA Leaves ==
  ASSUME IInv, NEW t \in Tasks, NEW l \in Loaders, tree' = tree, UNCHANGED target,
         NEW where \in {"ok", "error"}, Goto(t, where)
  PROVE  [T(l)!Next]_(T(l)!vars)
<1> USE Home DEF IInv, Goto
<1>1. CASE t \in Inside(l)
  <2>1. Inside(l)' = Inside(l) \ {t} /\ t \in Runners
    BY <1>1 DEF Inside, TypeOK, Tasks
  <2>2. T(l)!Leave(t)
    BY <1>1, <2>1 DEF T!Leave
  <2> QED
    BY <2>1, <2>2 DEF T!Next
<1>2. CASE t \notin Inside(l)
  <2>1. Inside(l)' = Inside(l)
    BY <1>2 DEF Inside, TypeOK, Tasks
  <2> QED
    BY <2>1, TreeStutters DEF Life
<1> QED
  BY <1>1, <1>2

\* A run enters a running tree only, and leaves the one it is in.
LEMMA RunTreeStep ==
  ASSUME IInv, NEW r \in Runners, Run(r), NEW l \in Loaders
  PROVE  [T(l)!Next]_(T(l)!vars)
<1> USE Home DEF IInv, Goto
<1>0. r \in Tasks /\ tree' = tree
  BY DEF Tasks, Run, RunTake, RunEnter, RunRefused, RunReturn
<1>1. CASE RunTake(r) \/ RunRefused(r)
  <2>1. Inside(l)' = Inside(l)
    BY <1>0, <1>1 DEF RunTake, RunRefused, Inside, TypeOK, Tasks
  <2> QED
    BY <1>0, <2>1, TreeStutters DEF Life
<1>2. CASE RunEnter(r)
  <2>1. CASE l = target[r]
    <3>1. Inside(l)' = Inside(l) \cup {r}
      BY <1>0, <1>2, <2>1 DEF RunEnter, Inside, TypeOK, Tasks
    <3>2. T(l)!Enter(r)
      BY <1>0, <1>2, <2>1, <3>1 DEF RunEnter, T!Enter
    <3> QED
      BY <3>2 DEF T!Next
  <2>2. CASE l # target[r]
    <3>1. Inside(l)' = Inside(l)
      BY <1>0, <1>2, <2>2 DEF RunEnter, Inside, TypeOK, Tasks
    <3> QED
      BY <1>0, <3>1, TreeStutters DEF Life
  <2> QED
    BY <2>1, <2>2
<1>3. CASE RunReturn(r)
  BY <1>0, <1>3, Leaves DEF RunReturn
<1> QED
  BY <1>1, <1>2, <1>3 DEF Run

\* Every step of the runtime is, for every tree, a step of HoloTree or none.
LEMMA TreeStep == IInv /\ [Next]_vars => \A l \in Loaders : [T(l)!Next]_(T(l)!vars)
<1> SUFFICES ASSUME IInv, [Next]_vars, NEW l \in Loaders PROVE [T(l)!Next]_(T(l)!vars)
  OBVIOUS
<1>1. ASSUME NEW m \in Loaders, Load(m) PROVE [T(l)!Next]_(T(l)!vars)
  BY <1>1, LoadTreeStep, StopTreeStep
<1>2. ASSUME NEW u \in Unloaders, Unload(u) PROVE [T(l)!Next]_(T(l)!vars)
  <2>1. CASE UnloadTake(u)
    <3>1. tree' = tree /\ Inside(l)' = Inside(l)
      BY <2>1, Home, TaskAssumption DEF UnloadTake, Goto, IInv, TypeOK, Inside, Tasks
    <3> QED
      BY <3>1, TreeStutters DEF Life
  <2> QED
    BY <1>2, <2>1, StopTreeStep DEF Unload
<1>3. ASSUME NEW t \in Tasks, Drop(t) PROVE [T(l)!Next]_(T(l)!vars)
  BY <1>3, Leaves DEF Drop
<1>4. CASE UNCHANGED vars
  BY <1>4, TreeStutters DEF vars, Life, Inside
<1> QED
  BY <1>1, <1>2, <1>3, <1>4, RunTreeStep DEF Next

\* No run is let into a tree that was stopped while the run was queued, and
\* no tree is stopped under a run: the runtime uses every tree within the
\* contract of HoloTree.
THEOREM Contract == Spec => TreesKeepContract
<1>1. IInv /\ [Next]_vars => [\A l \in Loaders : [T(l)!Next]_(T(l)!vars)]_vars
  BY TreeStep
<1> QED
  BY <1>1, Invariance, PTL DEF Spec, TreesKeepContract

=============================================================================
