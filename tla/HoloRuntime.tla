---------------------------- MODULE HoloRuntime ----------------------------
(***************************************************************************)
(* The resident runtime of the service (HoloRuntime, src/src/holo.rs): a   *)
(* map from an archive kappa to the one application tree loaded for it,    *)
(* shared by concurrent load, unload and run requests.                     *)
(*                                                                         *)
(* The map is behind a synchronous mutex, so every use of it is one step;  *)
(* the audit log, the start of a tree, its invocation gate and its stop    *)
(* are awaited between those steps.  A tree is named by the load that      *)
(* started it and follows the contract of HoloTree.  A request in          *)
(* Droppable comes from HTTP or gRPC: its future is dropped when the       *)
(* client disconnects.  The others are service start-up (load_declared)    *)
(* and in-process callers.                                                 *)
(***************************************************************************)
EXTENDS Naturals, FiniteSets

CONSTANTS Kappas, Loaders, Unloaders, Runners, KappaOf, Denied, Droppable, None

Tasks == Loaders \cup Unloaders \cup Runners

ASSUME TaskAssumption ==
  /\ KappaOf \in [Tasks -> Kappas]
  /\ Denied \subseteq Kappas
  /\ Droppable \subseteq Tasks
  /\ Loaders \cap Unloaders = {} /\ Loaders \cap Runners = {} /\ Unloaders \cap Runners = {}
  /\ None \notin Tasks

VARIABLES
  resident,   \* the map: kappa |-> tree, or None
  tree,       \* LifecycleState of the tree of each load
  gate,       \* holder of each tree's invocation gates
  buffered,   \* loads whose capability decisions are in the audit writer's buffer
  durable,    \* loads whose capability decisions are in the audit file
  pc,         \* where each request is
  target,     \* the tree a request works on
  published,  \* trees that have been in the map
  abandoned,  \* trees whose responsible request was dropped
  owed        \* an unload request's trees: published and not stopped at its arrival

audit == <<buffered, durable>>
ghosts == <<published, abandoned, owed>>
vars == <<resident, tree, gate, audit, pc, target, ghosts>>

TreeStates == {"Preparing", "Running", "Stopping", "Stopped", "Failed"}
LoaderPcs  == {"idle", "recording", "flushing", "starting", "inserting", "locking", "stopping", "ok", "error"}
OtherPcs   == {"idle", "queued", "executing", "locking", "stopping", "ok", "error"}

TypeOK ==
  /\ resident \in [Kappas -> Loaders \cup {None}]
  /\ tree \in [Loaders -> TreeStates \cup {"absent"}]
  /\ gate \in [Loaders -> Tasks \cup {None}]
  /\ buffered \subseteq Loaders
  /\ durable \subseteq Loaders
  /\ pc \in [Tasks -> LoaderPcs \cup OtherPcs]
  /\ target \in [Tasks -> Loaders \cup {None}]
  /\ published \subseteq Loaders
  /\ abandoned \subseteq Loaders
  /\ owed \in [Unloaders -> SUBSET Loaders]

Init ==
  /\ resident = [k \in Kappas |-> None]
  /\ tree = [l \in Loaders |-> "absent"]
  /\ gate = [l \in Loaders |-> None]
  /\ buffered = {}
  /\ durable = {}
  /\ pc = [t \in Tasks |-> "idle"]
  /\ target = [t \in Tasks |-> None]
  /\ published = {}
  /\ abandoned = {}
  /\ owed = [u \in Unloaders |-> {}]

Goto(t, where) == pc' = [pc EXCEPT ![t] = where]

-----------------------------------------------------------------------------
(* load_for.                                                               *)

\* The fast path returns the record of the resident tree.
LoadFound(l) ==
  /\ pc[l] = "idle"
  /\ resident[KappaOf[l]] # None
  /\ Goto(l, "ok")
  /\ UNCHANGED <<resident, tree, gate, audit, target, ghosts>>

\* Reading the archive, planning it and evaluating the grants need no await.
LoadPlanned(l) ==
  /\ pc[l] = "idle"
  /\ resident[KappaOf[l]] = None
  /\ Goto(l, "recording")
  /\ UNCHANGED <<resident, tree, gate, audit, target, ghosts>>

\* The archive is missing or invalid, or a layer has no provider.
LoadUnplannable(l) ==
  /\ pc[l] = "idle"
  /\ resident[KappaOf[l]] = None
  /\ Goto(l, "error")
  /\ UNCHANGED <<resident, tree, gate, audit, target, ghosts>>

\* admit_with_audit: the capability decisions go to the audit actor, whose
\* writer is buffered and may spill at any time ...
RecordDecisions(l) ==
  /\ pc[l] = "recording"
  /\ \/ buffered' = buffered \cup {l} /\ UNCHANGED durable
     \/ durable' = durable \cup buffered \cup {l} /\ buffered' = {}
  /\ Goto(l, "flushing")
  /\ UNCHANGED <<resident, tree, gate, target, ghosts>>

\* Mutant: admission is answered before the audit log is flushed.
FlushDecisionsLater(l) ==
  /\ pc[l] = "flushing"
  /\ Goto(l, IF KappaOf[l] \in Denied THEN "error" ELSE "starting")
  /\ tree' = IF KappaOf[l] \in Denied THEN tree ELSE [tree EXCEPT ![l] = "Preparing"]
  /\ UNCHANGED <<resident, gate, audit, target, ghosts>>

\* ... and are flushed before anything is prepared, whether the admission was
\* granted or denied.
FlushDecisions(l) ==
  /\ pc[l] = "flushing"
  /\ durable' = durable \cup buffered
  /\ buffered' = {}
  /\ Goto(l, IF KappaOf[l] \in Denied THEN "error" ELSE "starting")
  /\ tree' = IF KappaOf[l] \in Denied THEN tree ELSE [tree EXCEPT ![l] = "Preparing"]
  /\ UNCHANGED <<resident, gate, target, ghosts>>

\* A failed write or flush refuses the load even when it was admitted.
AuditFails(l) ==
  /\ pc[l] \in {"recording", "flushing"}
  /\ Goto(l, "error")
  /\ UNCHANGED <<resident, tree, gate, audit, target, ghosts>>

\* prepare_and_start_with_admitted_grants returns.
LoadStarted(l) ==
  /\ pc[l] = "starting"
  /\ tree' = [tree EXCEPT ![l] = "Running"]
  /\ Goto(l, "inserting")
  /\ UNCHANGED <<resident, gate, audit, target, ghosts>>

LoadStartFails(l) ==
  /\ pc[l] = "starting"
  /\ tree' = [tree EXCEPT ![l] = "Failed"]
  /\ Goto(l, "error")
  /\ UNCHANGED <<resident, gate, audit, target, ghosts>>

\* Mutant: the entry is inserted whether or not there is one already.
LoadInsertOverwrites(l) ==
  /\ pc[l] = "inserting"
  /\ resident' = [resident EXCEPT ![KappaOf[l]] = l]
  /\ published' = published \cup {l}
  /\ Goto(l, "ok")
  /\ UNCHANGED <<tree, gate, audit, target, abandoned, owed>>

\* The entry API decides between two loads that both started a tree: the
\* first keeps its tree, the other answers with the first one's record and
\* stops its own.
LoadInsert(l) ==
  /\ pc[l] = "inserting"
  /\ IF resident[KappaOf[l]] = None
     THEN /\ resident' = [resident EXCEPT ![KappaOf[l]] = l]
          /\ published' = published \cup {l}
          /\ Goto(l, "ok")
          /\ UNCHANGED target
     ELSE /\ target' = [target EXCEPT ![l] = l]
          /\ Goto(l, "locking")
          /\ UNCHANGED <<resident, published>>
  /\ UNCHANGED <<tree, gate, audit, abandoned, owed>>

-----------------------------------------------------------------------------
(* unload.                                                                 *)

Alive(l) == tree[l] \in {"Preparing", "Running", "Stopping"}

\* The entry is taken out of the map first; unloading what is not in the map
\* is Ok.
UnloadTake(u) ==
  /\ pc[u] = "idle"
  /\ owed' = [owed EXCEPT ![u] = {l \in published : KappaOf[l] = KappaOf[u] /\ Alive(l)}]
  /\ target' = [target EXCEPT ![u] = resident[KappaOf[u]]]
  /\ resident' = [resident EXCEPT ![KappaOf[u]] = None]
  /\ Goto(u, IF resident[KappaOf[u]] = None THEN "ok" ELSE "locking")
  /\ UNCHANGED <<tree, gate, audit, published, abandoned>>

\* RunningApplication::stop of the target, by an unload or by a load that
\* lost: the gates are locked, then the state is moved to Stopping.
StopBegin(t) ==
  /\ pc[t] = "locking"
  /\ gate[target[t]] = None
  /\ gate' = [gate EXCEPT ![target[t]] = t]
  /\ tree' = [tree EXCEPT ![target[t]] = "Stopping"]
  /\ Goto(t, "stopping")
  /\ UNCHANGED <<resident, audit, target, ghosts>>

\* The sweep ends.  No provider of the resident registry fails to stop.
StopEnd(t) ==
  /\ pc[t] = "stopping"
  /\ tree' = [tree EXCEPT ![target[t]] = "Stopped"]
  /\ gate' = [gate EXCEPT ![target[t]] = None]
  /\ Goto(t, "ok")
  /\ UNCHANGED <<resident, audit, target, ghosts>>

-----------------------------------------------------------------------------
(* run.                                                                    *)

\* The entry is cloned out of the map ...
RunTake(r) ==
  /\ pc[r] = "idle"
  /\ target' = [target EXCEPT ![r] = resident[KappaOf[r]]]
  /\ Goto(r, IF resident[KappaOf[r]] = None THEN "error" ELSE "queued")
  /\ UNCHANGED <<resident, tree, gate, audit, ghosts>>

\* Mutant: the state is not looked at once the gate is held.
RunEnterUnchecked(r) ==
  /\ pc[r] = "queued"
  /\ gate[target[r]] = None
  /\ gate' = [gate EXCEPT ![target[r]] = r]
  /\ Goto(r, "executing")
  /\ UNCHANGED <<resident, tree, audit, target, ghosts>>

\* ... so the tree may have been stopped when its gate is obtained.
RunEnter(r) ==
  /\ pc[r] = "queued"
  /\ gate[target[r]] = None
  /\ tree[target[r]] = "Running"
  /\ gate' = [gate EXCEPT ![target[r]] = r]
  /\ Goto(r, "executing")
  /\ UNCHANGED <<resident, tree, audit, target, ghosts>>

RunRefused(r) ==
  /\ pc[r] = "queued"
  /\ gate[target[r]] = None
  /\ tree[target[r]] # "Running"
  /\ Goto(r, "error")
  /\ UNCHANGED <<resident, tree, gate, audit, target, ghosts>>

\* Mutant: an error path keeps the gate.
RunReturnKeepsGate(r) ==
  /\ pc[r] = "executing"
  /\ Goto(r, "ok")
  /\ UNCHANGED <<resident, tree, gate, audit, target, ghosts>>

\* The guest returns, a result or an error.
RunReturn(r) ==
  /\ pc[r] = "executing"
  /\ gate' = [gate EXCEPT ![target[r]] = None]
  /\ Goto(r, "ok")
  /\ UNCHANGED <<resident, tree, audit, target, ghosts>>

-----------------------------------------------------------------------------
\* The tree, if any, that request t alone is responsible for: the one it is
\* starting, or the one it has taken in order to stop it.
Responsible(t, l) ==
  \/ t = l /\ pc[l] \in {"starting", "inserting"}
  \/ target[t] = l /\ pc[t] \in {"locking", "stopping"}

\* A dropped request lets go of the gate at its await point; nobody finishes
\* what it had begun.
Drop(t) ==
  /\ t \in Droppable
  /\ pc[t] \in {"recording", "flushing", "starting", "locking", "stopping", "queued", "executing"}
  /\ gate' = [l \in Loaders |-> IF gate[l] = t THEN None ELSE gate[l]]
  /\ abandoned' = abandoned \cup {l \in Loaders : Responsible(t, l)}
  /\ Goto(t, "error")
  /\ UNCHANGED <<resident, tree, audit, target, published, owed>>

Load(l) ==
  \/ LoadFound(l) \/ LoadPlanned(l) \/ LoadUnplannable(l)
  \/ RecordDecisions(l) \/ FlushDecisions(l) \/ AuditFails(l)
  \/ LoadStarted(l) \/ LoadStartFails(l) \/ LoadInsert(l)
  \/ StopBegin(l) \/ StopEnd(l)

Unload(u) == UnloadTake(u) \/ StopBegin(u) \/ StopEnd(u)

Run(r) == RunTake(r) \/ RunEnter(r) \/ RunRefused(r) \/ RunReturn(r)

Next ==
  \/ \E l \in Loaders : Load(l)
  \/ \E u \in Unloaders : Unload(u)
  \/ \E r \in Runners : Run(r)
  \/ \E t \in Tasks : Drop(t)

Spec == Init /\ [][Next]_vars

\* Requests are polled while they can move and the gate is a fair tokio
\* mutex; a guest need not return and nobody has to make a request.
Fairness ==
  /\ \A t \in Loaders \cup Unloaders : SF_vars(StopBegin(t)) /\ WF_vars(StopEnd(t))
  /\ \A r \in Runners : SF_vars(RunEnter(r) \/ RunRefused(r))

FairSpec == Spec /\ Fairness

-----------------------------------------------------------------------------
(* Properties.                                                             *)

\* No layer is prepared before the decisions that admitted it are in the
\* audit file, and none at all for a denied application.
AuditedBeforeStart ==
  \A l \in Loaders : tree[l] # "absent" => l \in durable /\ KappaOf[l] \notin Denied

\* A tree that is up has exactly one owner that will stop it: the map or one
\* request.  In particular two racing loads, or a load racing an unload,
\* neither leave a tree behind nor stop one twice.  The only exception is a
\* tree whose request was dropped half way.
Owners(l) ==
  {t \in Tasks : Responsible(t, l)} \cup {k \in Kappas : resident[k] = l}

SingleOwner ==
  \A l \in Loaders :
    /\ Cardinality(Owners(l)) <= 1
    /\ Alive(l) /\ l \notin abandoned => Owners(l) # {}

\* Every tree is used as HoloTree allows: no run is let into a tree that was
\* stopped while the run was queued, and no tree is stopped under a run.
Inside(l) == {r \in Runners : pc[r] = "executing" /\ target[r] = l}
T(l) == INSTANCE HoloTree
          WITH Callers <- Runners, Intents <- {}, busy <- Inside(l),
               life <- IF tree[l] = "absent" THEN "Preparing" ELSE tree[l]
TreesKeepContract == [][\A l \in Loaders : [T(l)!Next]_(T(l)!vars)]_vars

\* If guests return, an unload that took a tree out of the map, and a load
\* whose tree lost the race into it, get their answer: later runs and other
\* stops cannot keep the gate from them.
TakenTreeStops ==
  (\A r \in Runners : []<>(pc[r] # "executing")) =>
    \A t \in Loaders \cup Unloaders : pc[t] = "locking" ~> pc[t] \in {"ok", "error"}

\* "unload and one-shot cleanup stop the entire tree" (ADR 010): when an
\* unload answers Ok, the trees of its kappa that were loaded when it arrived
\* are stopped.
UnloadStopsTree ==
  \A u \in Unloaders : pc[u] = "ok" => \A l \in owed[u] : tree[l] = "Stopped"

=============================================================================
