-------------------------- MODULE LocalNode_proofs --------------------------
(***************************************************************************)
(* Proofs about one installation: a binary stays installed through every   *)
(* update (UpdateInv), every fetch thread has its permit (HostInv), the    *)
(* daemon's files keep what was answered (StorageInv), a resolution reads  *)
(* exactly the closure of its roots (GraphInv), and a completion that ends *)
(* well has told the whole answer (InferenceInv).  Each invariant is about *)
(* the state of one part; the other parts leave it alone.                  *)
(***************************************************************************)
EXTENDS LocalNode, FiniteSetTheorems, WellFoundedInduction, SequenceTheorems, TLAPS

\* Where the binaries are at each step of an update or a rollback.  Only a
\* download of the digest in the manifest is ever written.
UpdateInv ==
  /\ binary \in [Files -> {"good", "none"}]
  /\ step \in {"idle", "check", "write", "clear", "retire", "place", "discard", "demote", "restore"}
  /\ killed \in BOOLEAN
  /\ step = "write" => offered.digest
  /\ step \in {"check", "write", "clear", "retire", "discard", "demote"} => binary["current"] = "good"
  /\ step \in {"clear", "retire", "place"} => binary["temporary"] = "good"
  /\ step \in {"place", "discard", "demote", "restore"} => binary["previous"] = "good"
  /\ step = "restore" => binary["failed"] = "good"
  /\ step = "idle" /\ ~killed => binary["current"] = "good"
  /\ \E f \in {"current", "previous", "failed"} : binary[f] = "good"

LEMMA UpdateInitInv == ASSUME UpdateInit PROVE UpdateInv
BY DEF UpdateInit, UpdateInv, Files

LEMMA UpdateStep ==
  ASSUME UpdateInv, UpdateNext
  PROVE  UpdateInv'
<1> USE DEF UpdateInv, Files, Steady, Return, Move
<1>1. ASSUME NEW r \in Releases, Install(r) PROVE UpdateInv'
  BY <1>1 DEF Install
<1>2. CASE CheckRelease
  BY <1>2 DEF CheckRelease, Accepts
<1>3. CASE WriteTemporary
  BY <1>3 DEF WriteTemporary
<1>4. CASE ClearPrevious
  BY <1>4 DEF ClearPrevious
<1>5. CASE Retire
  BY <1>5 DEF Retire
<1>6. CASE Place
  BY <1>6 DEF Place
<1>7. CASE PlaceFails
  BY <1>7 DEF PlaceFails, Undo
<1>8. CASE Rollback
  BY <1>8 DEF Rollback
<1>9. CASE Discard
  BY <1>9 DEF Discard
<1>10. CASE Demote
  BY <1>10 DEF Demote
<1>11. CASE Restore
  BY <1>11 DEF Restore
<1>12. CASE RestoreFails
  BY <1>12 DEF RestoreFails, Undo
<1>13. CASE MoveFails
  BY <1>13 DEF MoveFails
<1>14. CASE Kill
  BY <1>14 DEF Kill
<1> QED
  BY <1>1, <1>2, <1>3, <1>4, <1>5, <1>6, <1>7, <1>8, <1>9, <1>10, <1>11, <1>12, <1>13, <1>14 DEF UpdateNext

LEMMA UpdateInstalled == ASSUME UpdateInv PROVE BinaryStaysInstalled
BY DEF UpdateInv, BinaryStaysInstalled, Files

\* Through updates, rollbacks, refused renames and kills at any point between
\* two of them: a good binary is there, and a run that was not killed leaves it
\* under its own name.
THEOREM Installed == Spec => []BinaryStaysInstalled
<1>1. Init => UpdateInv
  BY UpdateInitInv DEF Init
<1>2. UpdateInv /\ [Next]_vars => UpdateInv'
  <2>1. ASSUME UpdateInv, UNCHANGED updateVars PROVE UpdateInv'
    BY <2>1 DEF UpdateInv, updateVars
  <2> QED
    BY <2>1, UpdateStep DEF Next, vars
<1> QED
  BY <1>1, <1>2, UpdateInstalled, PTL DEF Spec

----------------------------------------------------------------------------
(* The component host's fetches.                                            *)

Fetching == {i \in Invocations : At(i, "fetching")}

IsTask(x) == x \in [pc : {x.pc}, on : {x.on}, left : {x.left}, ops : {x.ops}, hit : {x.hit}]

\* The two counters of the network are exact: a permit for every invocation
\* inside a fetch, a worker for every thread that is alive.
HostInv ==
  /\ thread = [i \in Invocations |-> thread[i]]
  /\ caller = [i \in Invocations |-> caller[i]]
  /\ \A i \in Invocations : /\ IsTask(thread[i])
                            /\ caller[i] = "idle" => thread[i].pc = "none"
  /\ permits = Cardinality(Fetching)
  /\ threads \in 0..FetchMax
  /\ workers = threads

\* A task one field of which is replaced is a task.
LEMMA SetPc ==
  ASSUME NEW y, IsTask(y), NEW v
  PROVE  IsTask([y EXCEPT !.pc = v]) /\ [y EXCEPT !.pc = v].pc = v
BY DEF IsTask

LEMMA SetOn ==
  ASSUME NEW y, IsTask(y), NEW v
  PROVE  IsTask([y EXCEPT !.on = v]) /\ [y EXCEPT !.on = v].pc = y.pc
BY DEF IsTask

LEMMA SetLeft ==
  ASSUME NEW y, IsTask(y), NEW v
  PROVE  IsTask([y EXCEPT !.left = v]) /\ [y EXCEPT !.left = v].pc = y.pc
BY DEF IsTask

LEMMA SetOps ==
  ASSUME NEW y, IsTask(y), NEW v
  PROVE  IsTask([y EXCEPT !.ops = v]) /\ [y EXCEPT !.ops = v].pc = y.pc
BY DEF IsTask

LEMMA SetHit ==
  ASSUME NEW y, IsTask(y), NEW v
  PROVE  IsTask([y EXCEPT !.hit = v]) /\ [y EXCEPT !.hit = v].pc = y.pc
BY DEF IsTask

LEMMA FetchingFinite == IsFiniteSet(Fetching) /\ Cardinality(Fetching) \in Nat
<1>1. IsFiniteSet(Invocations)
  BY FS_Interval, HostAssumption DEF Invocations
<1> QED
  BY <1>1, FS_Subset, FS_CardinalityType DEF Fetching

LEMMA HostInitInv == ASSUME HostInit PROVE HostInv
<1>1. thread = [i \in Invocations |-> NoTask]
  BY DEF HostInit
<1>2. Fetching = {}
  BY <1>1 DEF Fetching, At, NoTask
<1>3. Cardinality(Fetching) = 0
  BY <1>2, FS_EmptySet
<1>4. \A i \in Invocations : IsTask(thread[i]) /\ thread[i].pc = "none"
  BY <1>1 DEF IsTask, NoTask
<1>5. caller = [i \in Invocations |-> caller[i]]
  BY DEF HostInit
<1> QED
  BY <1>1, <1>3, <1>4, <1>5, HostAssumption DEF HostInit, HostInv

\* No caller goes back to where it can call once more.
CallersWait ==
  /\ caller' = [i \in Invocations |-> caller'[i]]
  /\ \A i \in Invocations : caller'[i] = "idle" => caller[i] = "idle"

\* A thread that moves between two points outside a fetch.
LEMMA NoFetch ==
  ASSUME HostInv, UNCHANGED network,
         thread' = [i \in Invocations |-> thread'[i]],
         caller' = [i \in Invocations |-> caller'[i]],
         \A i \in Invocations : /\ IsTask(thread'[i])
                                /\ thread'[i].pc = "fetching" <=> thread[i].pc = "fetching"
                                /\ caller'[i] = "idle" => thread'[i].pc = "none"
  PROVE  HostInv'
<1>1. Fetching' = Fetching
  BY DEF Fetching, At, Invocations
<1> QED
  BY <1>1 DEF HostInv, network, Invocations

LEMMA Moves ==
  ASSUME HostInv, UNCHANGED network, NEW i \in Invocations, ~At(i, "fetching"),
         NEW x, IsTask(x), x.pc # "fetching",
         thread' = [thread EXCEPT ![i] = x],
         CallersWait, caller'[i] # "idle"
  PROVE  HostInv'
<1>1. thread' = [j \in Invocations |-> thread'[j]]
  BY DEF HostInv
<1>2. \A j \in Invocations : IsTask(thread'[j]) /\ (thread'[j].pc = "fetching" <=> thread[j].pc = "fetching")
                          /\ (caller'[j] = "idle" => thread'[j].pc = "none")
  BY DEF HostInv, At, CallersWait
<1> QED
  BY <1>1, <1>2, NoFetch DEF CallersWait

LEMMA EpochFetches ==
  ASSUME HostInv, UNCHANGED network, NEW l, thread' = Epoch(l), CallersWait
  PROVE  HostInv'
<1>1. thread' = [j \in Invocations |-> thread'[j]]
  BY DEF Epoch
<1>2. \A j \in Invocations : IsTask(thread'[j]) /\ (thread'[j].pc = "fetching" <=> thread[j].pc = "fetching")
                          /\ (caller'[j] = "idle" => thread'[j].pc = "none")
  <2> TAKE j \in Invocations
  <2>1. IsTask(thread[j])
    BY DEF HostInv
  <2>3. thread'[j] = thread[j] \/ thread'[j] = [thread[j] EXCEPT !.hit = TRUE]
    BY DEF Epoch
  <2>2. IsTask(thread'[j]) /\ thread'[j].pc = thread[j].pc
    <3> DEFINE x == [thread[j] EXCEPT !.hit = TRUE]
    <3>1. IsTask(x) /\ x.pc = thread[j].pc
      BY <2>1, SetHit
    <3> HIDE DEF x
    <3>2. thread'[j] = thread[j] \/ thread'[j] = x
      BY <2>3 DEF x
    <3> QED
      BY <2>1, <3>1, <3>2
  <2> QED
    BY <2>2 DEF HostInv, CallersWait
<1> QED
  BY <1>1, <1>2, NoFetch DEF CallersWait

LEMMA SameThreads ==
  ASSUME HostInv, UNCHANGED network, UNCHANGED thread, CallersWait
  PROVE  HostInv'
BY NoFetch DEF HostInv, CallersWait

LEMMA AdvanceFetches ==
  ASSUME HostInv, UNCHANGED network, UNCHANGED caller, NEW i \in Invocations, ~At(i, "fetching"), ~At(i, "none"),
         NEW pc, pc # "fetching", Advance(i, pc)
  PROVE  HostInv'
<1> DEFINE x == [thread[i] EXCEPT !.pc = pc]
<1>1. IsTask(x) /\ x.pc = pc
  BY DEF HostInv, IsTask
<1>2. thread' = [thread EXCEPT ![i] = x]
  BY DEF Advance
<1>3. CallersWait /\ caller'[i] # "idle"
  BY DEF HostInv, CallersWait, At
<1> HIDE DEF x
<1> QED
  BY <1>1, <1>2, <1>3, Moves

LEMMA ReturnFetches ==
  ASSUME HostInv, UNCHANGED network, UNCHANGED caller, NEW i \in Invocations, ~At(i, "fetching"), ~At(i, "none"), ThreadReturns(i)
  PROVE  HostInv'
<1> DEFINE x == [NoTask EXCEPT !.pc = "returned", !.on = LayerOf(i)]
<1>1. IsTask(x) /\ x.pc = "returned"
  <2> DEFINE y == [NoTask EXCEPT !.pc = "returned"]
  <2>1. IsTask(NoTask)
    BY DEF IsTask, NoTask
  <2>2. IsTask(y) /\ y.pc = "returned"
    BY <2>1, SetPc
  <2>3. x = [y EXCEPT !.on = LayerOf(i)]
    BY DEF NoTask
  <2> HIDE DEF x, y
  <2> QED
    BY <2>2, <2>3, SetOn
<1>2. thread' = [thread EXCEPT ![i] = x]
  BY DEF ThreadReturns
<1>3. CallersWait /\ caller'[i] # "idle"
  BY DEF HostInv, CallersWait, At
<1> HIDE DEF x
<1> QED
  BY <1>1, <1>2, <1>3, Moves

LEMMA AnsweredFetches ==
  ASSUME HostInv, UNCHANGED network, UNCHANGED caller, NEW i \in Invocations, At(i, "guest"), Answered(i)
  PROVE  HostInv'
<1> DEFINE x == [thread[i] EXCEPT !.ops = Tail(@)]
<1>1. IsTask(x) /\ x.pc = "guest"
  BY SetOps DEF HostInv, At
<1>2. thread' = [thread EXCEPT ![i] = x]
  BY DEF Answered
<1>3. CallersWait /\ caller'[i] # "idle"
  BY DEF HostInv, CallersWait, At
<1> HIDE DEF x
<1> QED
  BY <1>1, <1>2, <1>3, Moves DEF At

LEMMA LayerStep ==
  ASSUME HostInv, NEW l \in Layers, Prepare(l) \/ Start(l) \/ Stop(l)
  PROVE  HostInv'
<1>1. CASE Prepare(l) \/ Start(l)
  BY <1>1, SameThreads DEF Prepare, Start, interfaces, network, HostInv, CallersWait
<1>2. CASE Stop(l)
  BY <1>2, EpochFetches DEF Stop, interfaces, network, HostInv, CallersWait
<1> QED
  BY <1>1, <1>2

LEMMA CallerStep ==
  ASSUME HostInv, NEW i \in Invocations, Join(i) \/ Deadline(i) \/ Drop(i)
  PROVE  HostInv'
<1>1. CallersWait
  BY DEF Join, Deadline, Drop, HostInv, CallersWait
<1>2. UNCHANGED network
  BY DEF Join, Deadline, Drop, interfaces, network
<1>3. UNCHANGED thread \/ thread' = Epoch(LayerOf(i))
  BY DEF Join, Deadline, Drop, Cancel
<1> QED
  BY <1>1, <1>2, <1>3, EpochFetches, SameThreads

LEMMA InvokeStep ==
  ASSUME HostInv, NEW i \in Invocations, NEW l \in Layers, Invoke(i, l)
  PROVE  HostInv'
<1>1. PICK inputs \in Inputs[l] :
         thread' = [thread EXCEPT ![i] = [NoTask EXCEPT !.pc = "lock", !.on = l, !.left = inputs]]
  BY DEF Invoke
<1> DEFINE x == [NoTask EXCEPT !.pc = "lock", !.on = l, !.left = inputs]
<1>2. IsTask(x) /\ x.pc = "lock"
  <2> DEFINE y == [NoTask EXCEPT !.pc = "lock"]
             z == [y EXCEPT !.on = l]
  <2>1. IsTask(NoTask)
    BY DEF IsTask, NoTask
  <2>2. IsTask(y) /\ y.pc = "lock"
    BY <2>1, SetPc
  <2>3. x = [z EXCEPT !.left = inputs]
    BY DEF NoTask
  <2> HIDE DEF y
  <2>4. IsTask(z) /\ z.pc = "lock"
    BY <2>2, SetOn
  <2> HIDE DEF x, z
  <2> QED
    BY <2>3, <2>4, SetLeft
<1>3. thread' = [thread EXCEPT ![i] = x]
  BY <1>1
<1> HIDE DEF x
<1>4. CallersWait /\ caller'[i] # "idle" /\ ~At(i, "fetching")
  BY DEF Invoke, HostInv, CallersWait, At
<1>5. UNCHANGED network
  BY DEF Invoke, interfaces, network
<1> QED
  BY <1>2, <1>3, <1>4, <1>5, Moves

\* A fetch that starts takes one of each, within the limit.
LEMMA FetchStep ==
  ASSUME HostInv, NEW i \in Invocations, FetchStarts(i)
  PROVE  HostInv'
<1> DEFINE x == [thread[i] EXCEPT !.pc = "fetching"]
<1>1. IsTask(x) /\ x.pc = "fetching" /\ thread[i].pc = "guest"
  BY DEF HostInv, IsTask, FetchStarts, Calling, At
<1>2. thread' = [thread EXCEPT ![i] = x] /\ UNCHANGED caller
  BY DEF FetchStarts, Advance
<1> HIDE DEF x
<1>3. Fetching' = Fetching \cup {i} /\ i \notin Fetching
  BY <1>1, <1>2 DEF Fetching, At, HostInv, Invocations
<1>4. permits' = Cardinality(Fetching')
  BY <1>3, FetchingFinite, FS_AddElement DEF HostInv, FetchStarts
<1>5. \A j \in Invocations : IsTask(thread'[j]) /\ (caller'[j] = "idle" => thread'[j].pc = "none")
  BY <1>1, <1>2 DEF HostInv
<1>6. threads' \in 0..FetchMax /\ workers' = threads'
  BY HostAssumption DEF HostInv, FetchStarts
<1> QED
  BY <1>2, <1>4, <1>5, <1>6 DEF HostInv, Invocations

\* One that returns gives back the permit of the invocation alone.
LEMMA FetchReturnStep ==
  ASSUME HostInv, NEW i \in Invocations, FetchReturns(i)
  PROVE  HostInv'
<1> DEFINE x == [thread[i] EXCEPT !.pc = "guest", !.ops = Tail(@)]
<1>1. IsTask(x) /\ x.pc = "guest" /\ thread[i].pc = "fetching"
  <2> DEFINE y == [thread[i] EXCEPT !.pc = "guest"]
  <2>1. IsTask(thread[i]) /\ thread[i].pc = "fetching"
    BY DEF HostInv, FetchReturns, At
  <2>2. IsTask(y) /\ y.pc = "guest"
    BY <2>1, SetPc
  <2>3. x = [y EXCEPT !.ops = Tail(thread[i].ops)]
    BY <2>1 DEF IsTask
  <2> HIDE DEF x, y
  <2> QED
    BY <2>1, <2>2, <2>3, SetOps
<1>2. thread' = [thread EXCEPT ![i] = x] /\ UNCHANGED caller
  BY DEF FetchReturns, HostInv
<1> HIDE DEF x
<1>3. Fetching' = Fetching \ {i} /\ i \in Fetching
  BY <1>1, <1>2 DEF Fetching, At, HostInv, Invocations
<1>4. permits' = Cardinality(Fetching')
  BY <1>3, FetchingFinite, FS_RemoveElement DEF HostInv, FetchReturns
<1>5. \A j \in Invocations : IsTask(thread'[j]) /\ (caller'[j] = "idle" => thread'[j].pc = "none")
  BY <1>1, <1>2 DEF HostInv
<1> QED
  BY <1>2, <1>4, <1>5 DEF HostInv, Invocations, FetchReturns

LEMMA WorkerStep ==
  ASSUME HostInv, WorkerEnds
  PROVE  HostInv'
<1>1. Fetching' = Fetching
  BY DEF Fetching, At, WorkerEnds, Invocations
<1>2. threads' \in 0..FetchMax /\ workers' = threads'
  BY HostAssumption DEF HostInv, WorkerEnds
<1> QED
  BY <1>1, <1>2 DEF HostInv, WorkerEnds, Invocations

LEMMA GuestStep ==
  ASSUME HostInv, NEW i \in Invocations, Guest(i)
  PROVE  HostInv'
<1> USE DEF interfaces, network
<1>1. CASE TakeSerial(i)
  BY <1>1, AdvanceFetches DEF TakeSerial, At
<1>2. CASE NextInput(i)
  BY <1>2, AdvanceFetches, ReturnFetches DEF NextInput, At
<1>3. CASE NewStore(i)
  <2> DEFINE x == [thread[i] EXCEPT !.pc = "guest", !.ops = Head(thread[i].left), !.left = Tail(@), !.hit = FALSE]
  <2>1. IsTask(x) /\ x.pc = "guest" /\ thread[i].pc = "store"
    <3> DEFINE w == [thread[i] EXCEPT !.pc = "guest"]
               z == [w EXCEPT !.ops = Head(thread[i].left)]
               y == [z EXCEPT !.left = Tail(thread[i].left)]
    <3>1. IsTask(thread[i]) /\ thread[i].pc = "store"
      BY <1>3 DEF HostInv, NewStore, At
    <3>3. x = [y EXCEPT !.hit = FALSE]
      BY <3>1 DEF IsTask
    <3>4. IsTask(w) /\ w.pc = "guest"
      BY <3>1, SetPc
    <3> HIDE DEF w
    <3>5. IsTask(z) /\ z.pc = "guest"
      BY <3>4, SetOps
    <3> HIDE DEF z
    <3>2. IsTask(y) /\ y.pc = "guest"
      BY <3>5, SetLeft
    <3> HIDE DEF x, y
    <3> QED
      BY <3>1, <3>2, <3>3, SetHit
  <2>2. thread' = [thread EXCEPT ![i] = x]
    BY <1>3 DEF NewStore, HostInv
  <2> HIDE DEF x
  <2>3. CallersWait /\ caller'[i] # "idle"
    BY <1>3, <2>1 DEF NewStore, HostInv, CallersWait
  <2> QED
    BY <1>3, <2>1, <2>2, <2>3, Moves DEF NewStore, At
<1>4. CASE Trap(i)
  BY <1>4, ReturnFetches DEF Trap, At
<1>5. CASE GuestReturns(i)
  BY <1>5, AdvanceFetches, ReturnFetches DEF GuestReturns, At
<1>6. CASE Read(i)
  BY <1>6, AnsweredFetches DEF Read, Calling
<1>7. CASE Write(i)
  BY <1>7, AnsweredFetches DEF Write, Calling
<1>8. CASE Publish(i)
  BY <1>8, AnsweredFetches DEF Publish, Calling
<1>9. CASE TryReceive(i)
  BY <1>9, AnsweredFetches DEF TryReceive, Calling
<1>10. CASE FetchRefused(i)
  BY <1>10, AnsweredFetches DEF FetchRefused, Calling
<1> QED
  BY <1>1, <1>2, <1>3, <1>4, <1>5, <1>6, <1>7, <1>8, <1>9, <1>10, FetchStep, FetchReturnStep DEF Guest

\* However many guests are dropped inside a fetch, the threads they leave behind
\* stay within the limit, and no permit is lost or given back twice.
THEOREM PermitsExact == Spec => []PermitsCoverThreads
<1>1. Init => HostInv
  BY HostInitInv DEF Init
<1>2. HostInv /\ [Next]_vars => HostInv'
  <2>1. ASSUME HostInv, UNCHANGED hostVars PROVE HostInv'
    BY <2>1, SameThreads DEF hostVars, network, HostInv, CallersWait
  <2>2. ASSUME HostInv, HostNext PROVE HostInv'
    BY <2>2, LayerStep, CallerStep, InvokeStep, GuestStep, WorkerStep DEF HostNext
  <2> QED
    BY <2>1, <2>2 DEF Next, vars
<1>3. HostInv => PermitsCoverThreads
  BY HostAssumption DEF HostInv, PermitsCoverThreads, Fetching
<1> QED
  BY <1>1, <1>2, <1>3, PTL DEF Spec

----------------------------------------------------------------------------
(* The daemon's files.                                                      *)

StoreOps == {"put", "cache", "rename", "import"}
HistoryOps == {"create", "append", "exchange", "archive", "send"}
TurnOps == {"append", "exchange", "send"}

BlobDoc == [t : {"blob"}]
MetaDoc == [t : {"meta"}, kind : STRING, name : STRING, created : Nat]
ConvDoc == [t : {"conv"}, msgs : Seq({"user", "assistant"} \X STRING), archived : BOOLEAN]
NodesDoc == [t : {"nodes"}, nodes : SUBSET STRING]
Docs == BlobDoc \cup MetaDoc \cup ConvDoc \cup NodesDoc

\* What can be found under a path, or be on its way there.
Fits(p, doc) ==
  /\ \A o \in Objects : (p = Blob(o) => doc \in BlobDoc) /\ (p = Meta(o) => doc \in MetaDoc)
  /\ \A c \in Conversations : p = Conv(c) => doc \in ConvDoc
  /\ p = NodesFile => doc \in NodesDoc

PCs == {"idle", "lock", "read", "transcript", "engine", "meta", "write", "replace", "rename", "credit",
        "find", "erase", "lookup", "purge", "clear", "mkdir", "copy", "done"}
TaskType == [pc : PCs, path : Paths, doc : Docs \cup {Absent}, after : PCs]

Writing(t) == task[t].pc \in {"write", "replace", "rename"}
Writes(t, p) == Writing(t) /\ task[t].path = p
Holding(t) == \/ task[t].pc \in {"read", "meta", "write", "replace", "rename", "credit", "clear"}
              \/ task[t].pc = "done" /\ Op(t).op \in {"put", "cache", "rename", "heartbeat"} \cup HistoryOps

StorageTypeOK ==
  /\ disk \in [Paths -> Docs \cup {Absent}]
  /\ tmp \in [Paths -> Docs \cup {Absent}]
  /\ litter \in [Paths -> SUBSET Docs]
  /\ lock \in [{"store", "history", "nodes"} -> Tasks \cup {Free}]
  /\ task \in [Tasks -> TaskType]
  /\ todo \in [Tasks -> Seq(OpSet)]
  /\ artifacts \in [Objects -> {"none", "partial", "whole"}]
  /\ nodes \subseteq STRING
  /\ clock \in Nat
  /\ acked \subseteq (Conversations \cup {"nodes"}) \X STRING
  /\ credited \in [Objects -> {0, 1}]

DocInv ==
  \A p \in Paths : /\ disk[p] # Absent => Fits(p, disk[p])
                   /\ tmp[p] # Absent => Fits(p, tmp[p])
                   /\ \A doc \in litter[p] : Fits(p, doc)

\* A task at work has an operation that is valid, and holds the lock of the
\* operation from its first read to its last write.
TaskOK(t) ==
  /\ Busy(t) => todo[t] # <<>> /\ Valid(Op(t))
  /\ Holding(t) => LockOf(Op(t).op) # "none" /\ lock[LockOf(Op(t).op)] = t
  /\ task[t].pc = "lock" => LockOf(Op(t).op) # "none"
  /\ task[t].pc \in {"transcript", "engine"} => Op(t).op = "send"
  /\ task[t].pc = "meta" => Op(t).op \in {"put", "import"}
  /\ task[t].pc = "credit" => Op(t).op = "cache"
  /\ task[t].pc \in {"find", "erase"} => Op(t).op \in {"delete", "unlink", "remove"}
  /\ task[t].pc \in {"lookup", "purge"} => Op(t).op = "remove"
  /\ task[t].pc \in {"clear", "mkdir", "copy"} => Op(t).op = "import"

\* The write of each operation, and the temporary that its writer is about to
\* rename.
WriteOK(t) == Writing(t) =>
  /\ Fits(task[t].path, task[t].doc) /\ task[t].doc \in Docs
  /\ \/ /\ task[t].path = Blob(Op(t).obj)
        /\ \/ Op(t).op \in {"put", "import"} /\ task[t].after = "meta"
           \/ Op(t).op = "cache" /\ task[t].after = "credit"
     \/ /\ task[t].path = Meta(Op(t).obj)
        /\ \/ Op(t).op \in {"put", "rename"} /\ task[t].after = "done"
           \/ Op(t).op = "import" /\ task[t].after = "clear"
     \/ task[t].path = Conv(Op(t).obj) /\ Op(t).op \in HistoryOps /\ task[t].after = "done"
     \/ task[t].path = NodesFile /\ Op(t).op = "heartbeat" /\ task[t].after = "done"
  /\ task[t].pc \in {"replace", "rename"} => tmp[task[t].path] = task[t].doc

\* A blob is there before anything names it, and is written once.
BlobInv ==
  \A o \in Objects :
    /\ disk[Meta(o)] # Absent \/ tmp[Meta(o)] # Absent \/ litter[Meta(o)] # {} => Present(Blob(o))
    /\ ~Present(Blob(o)) => credited[o] = 0

BlobOK(t) ==
  /\ task[t].pc = "meta" => Present(Blob(Op(t).obj))
  /\ task[t].pc = "credit" => Present(Blob(Op(t).obj)) /\ credited[Op(t).obj] = 0
  /\ Writes(t, Blob(Op(t).obj)) => ~Present(Blob(Op(t).obj)) /\ task[t].pc # "replace"
  /\ Writes(t, Meta(Op(t).obj)) => Present(Blob(Op(t).obj))

\* A record and its successor have one creation time.
MetaInv ==
  \A o \in Objects : disk[Meta(o)] # Absent /\ tmp[Meta(o)] # Absent =>
     \E t \in Tasks : task[t].pc = "replace" /\ task[t].path = Meta(o)

MetaOK(t) == \A o \in Objects : Writes(t, Meta(o)) =>
  /\ Present(Meta(o)) => task[t].doc.created = disk[Meta(o)].created
  /\ task[t].pc = "rename" => ~Present(Meta(o))

OnModel(t, o) == Busy(t) /\ Op(t).op \in {"import", "remove"} /\ Op(t).obj = o
Settled(o) == KindOf(o) = "model" <=> artifacts[o] = "whole"

\* A model that one operation at a time works on, as each step leaves it.
ModelInv ==
  \A o \in Objects \ unsettled :
    /\ Present(Meta(o)) => disk[Meta(o)].kind = "model"
    /\ (\A t \in Tasks : ~OnModel(t, o)) => Settled(o)
    /\ \A t, u \in Tasks : OnModel(t, o) /\ OnModel(u, o) => t = u

ModelOK(t) ==
  \A o \in Objects \ unsettled :
    /\ Busy(t) /\ Op(t).op \in {"put", "unlink"} => Op(t).obj # o
    /\ Writes(t, Meta(o)) => Op(t).op = "import" /\ task[t].doc.kind = "model"
    /\ OnModel(t, o) /\ task[t].pc \in {"clear", "mkdir", "copy"} => KindOf(o) = "model"
    /\ OnModel(t, o) /\ task[t].pc \in {"lookup", "done"} => Settled(o)
    /\ OnModel(t, o) /\ task[t].pc = "purge" => ~Present(Meta(o))

Acked(c, turns) == \A a \in acked : a[1] = c => a[2] \in turns

\* The creation of a conversation that is still to be performed.
Pending(t, c) == \E i \in DOMAIN todo[t] :
  /\ todo[t][i].op = "create" /\ todo[t][i].obj = c
  /\ i = 1 => task[t].pc \in {"idle", "lock", "read"}

CreateInv ==
  \A t, u \in Tasks : \A i \in DOMAIN todo[t], j \in DOMAIN todo[u] :
     /\ todo[t][i].op = "create" /\ todo[u][j].op = "create" /\ todo[t][i].obj = todo[u][j].obj
     => t = u /\ i = j

\* Every acknowledged turn of a conversation is in its file, or in the temporary
\* that was to replace it.
ConvInv ==
  \A c \in Conversations \ unsettled :
    /\ Present(Conv(c)) => Acked(c, Turns(disk[Conv(c)]))
    /\ \/ Present(Conv(c)) \/ Acked(c, {})
       \/ \E doc \in ({tmp[Conv(c)]} \cup litter[Conv(c)]) \ {Absent} : Acked(c, Turns(doc))

Kept(t, c) == Acked(c, Turns(task[t].doc)) /\ (Op(t).op \in TurnOps => Op(t).turn \in Turns(task[t].doc))
OnFile(t, c) == Present(Conv(c)) /\ Op(t).turn \in Turns(disk[Conv(c)])
Unmade(c) == ~Present(Conv(c)) /\ Acked(c, {}) /\ \A u \in Tasks : ~Writes(u, Conv(c))

PendOK(t) == \A c \in Conversations \ unsettled : Pending(t, c) => Unmade(c)

ConvOK(t) ==
  \A c \in Conversations \ unsettled :
    /\ Busy(t) /\ Op(t).op = "delete" => Op(t).obj # c
    /\ Writes(t, Conv(c)) => Kept(t, c)
    /\ Writes(t, Conv(c)) /\ task[t].pc = "write" => Present(Conv(c)) \/ Acked(c, {})
    /\ task[t].pc = "done" /\ Op(t).obj = c /\ Op(t).op \in TurnOps => OnFile(t, c)

\* Every acknowledged heartbeat is in memory and in the file that is next to be
\* read, or in a temporary of an earlier process.
NodesInv ==
  \A a \in acked : a[1] = "nodes" =>
    \/ \E doc \in litter[NodesFile] : a[2] \in doc.nodes
    \/ /\ a[2] \in nodes
       /\ IF Present(NodesFile) THEN a[2] \in disk[NodesFile].nodes
          ELSE tmp[NodesFile] # Absent /\ a[2] \in tmp[NodesFile].nodes

NodesOK(t) ==
  /\ Writes(t, NodesFile) => task[t].doc.nodes = nodes /\ Op(t).turn \in nodes
  /\ task[t].pc = "done" /\ Op(t).op = "heartbeat" =>
       Op(t).turn \in nodes /\ Present(NodesFile) /\ Op(t).turn \in disk[NodesFile].nodes

StorageInv ==
  /\ StorageTypeOK /\ DocInv /\ BlobInv /\ MetaInv /\ ModelInv /\ CreateInv /\ ConvInv /\ NodesInv
  /\ \A t \in Tasks : /\ TaskOK(t) /\ WriteOK(t) /\ BlobOK(t) /\ MetaOK(t)
                      /\ ModelOK(t) /\ PendOK(t) /\ ConvOK(t) /\ NodesOK(t)

LEMMA PathFacts ==
  /\ \A o \in Objects : Blob(o) \in Paths /\ Meta(o) \in Paths
  /\ \A c \in Conversations : Conv(c) \in Paths
  /\ NodesFile \in Paths
  /\ \A o, q : /\ Blob(o) # Meta(q) /\ Blob(o) # Conv(q) /\ Meta(o) # Conv(q)
               /\ Blob(o) # NodesFile /\ Meta(o) # NodesFile /\ Conv(o) # NodesFile
               /\ Blob(o) = Blob(q) => o = q
               /\ Meta(o) = Meta(q) => o = q
               /\ Conv(o) = Conv(q) => o = q
BY DEF Paths, Blob, Meta, Conv, NodesFile

LEMMA DocFacts ==
  /\ Absent \notin Docs
  /\ \A doc \in MetaDoc : doc \in Docs /\ doc.kind \in STRING /\ doc.created \in Nat
  /\ \A doc \in ConvDoc : doc \in Docs
  /\ \A doc \in NodesDoc : doc \in Docs /\ doc.nodes \in SUBSET STRING
  /\ [t |-> "blob"] \in BlobDoc /\ [t |-> "blob"] \in Docs
BY DEF Docs, BlobDoc, MetaDoc, ConvDoc, NodesDoc, Absent

LEMMA OpFacts ==
  ASSUME StorageTypeOK, NEW t \in Tasks, todo[t] # <<>>
  PROVE  /\ Op(t) \in OpSet /\ Op(t).arg \in STRING /\ Op(t).turn \in STRING
         /\ Op(t) = todo[t][1] /\ 1 \in DOMAIN todo[t] /\ todo[t] # <<>>
         /\ Tail(todo[t]) \in Seq(OpSet)
         /\ DOMAIN Tail(todo[t]) = 1..(Len(todo[t]) - 1)
         /\ \A i \in 1..(Len(todo[t]) - 1) : Tail(todo[t])[i] = todo[t][i + 1] /\ i + 1 \in DOMAIN todo[t]
<1>1. todo[t] \in Seq(OpSet) /\ todo[t] # <<>>
  BY DEF StorageTypeOK
<1>2. Op(t) = todo[t][1] /\ 1 \in DOMAIN todo[t] /\ Op(t) \in OpSet /\ Tail(todo[t]) \in Seq(OpSet)
  BY <1>1 DEF Op
<1>3. /\ DOMAIN Tail(todo[t]) = 1..(Len(todo[t]) - 1)
      /\ \A i \in 1..(Len(todo[t]) - 1) : Tail(todo[t])[i] = todo[t][i + 1] /\ i + 1 \in DOMAIN todo[t]
  BY <1>1
<1>4. Op(t).arg \in STRING /\ Op(t).turn \in STRING
  BY <1>2 DEF OpSet
<1> QED
  BY <1>1, <1>2, <1>3, <1>4

LEMMA EditedTurns ==
  ASSUME NEW o \in OpSet, o.op \in {"append", "exchange", "archive", "send"}, NEW old \in ConvDoc
  PROVE  /\ Edited(o, old) \in ConvDoc
         /\ Turns(old) \subseteq Turns(Edited(o, old))
         /\ o.op \in TurnOps => o.turn \in Turns(Edited(o, old))
<1>1. o.turn \in STRING /\ old.msgs \in Seq({"user", "assistant"} \X STRING) /\ old.archived \in BOOLEAN
  BY DEF OpSet, ConvDoc
<1> DEFINE one == Append(old.msgs, <<"user", o.turn>>)
           two == old.msgs \o << <<"user", o.turn>>, <<"assistant", o.turn>> >>
           n == Len(old.msgs)
<1>2. CASE o.op = "append"
  <2>1. one \in Seq({"user", "assistant"} \X STRING) /\ DOMAIN one = 1..(n + 1) /\ one[n + 1] = <<"user", o.turn>>
        /\ n \in Nat /\ DOMAIN old.msgs = 1..n /\ \A i \in 1..n : one[i] = old.msgs[i]
    BY <1>1
  <2>2. Edited(o, old) = [old EXCEPT !.msgs = one]
    BY <1>2 DEF Edited
  <2> HIDE DEF one
  <2>3. Edited(o, old) \in ConvDoc /\ Edited(o, old).msgs = one
    BY <2>1, <2>2 DEF ConvDoc
  <2> QED
    BY <2>1, <2>3 DEF Turns
<1>3. CASE o.op = "archive"
  BY <1>3 DEF Edited, ConvDoc, Turns, TurnOps
<1>4. CASE o.op \in {"exchange", "send"}
  <2>1. two \in Seq({"user", "assistant"} \X STRING) /\ DOMAIN two = 1..(n + 2) /\ two[n + 1] = <<"user", o.turn>>
        /\ n \in Nat /\ DOMAIN old.msgs = 1..n /\ \A i \in 1..n : two[i] = old.msgs[i]
    BY <1>1
  <2>2. Edited(o, old) = [old EXCEPT !.msgs = two]
    BY <1>4 DEF Edited
  <2> HIDE DEF two
  <2>3. Edited(o, old) \in ConvDoc /\ Edited(o, old).msgs = two
    BY <2>1, <2>2 DEF ConvDoc
  <2>4. n + 1 \in DOMAIN two /\ \A i \in DOMAIN old.msgs : i \in DOMAIN two
    BY <2>1
  <2>5. Turns(Edited(o, old)) = {two[i][2] : i \in DOMAIN two}
    BY <2>3 DEF Turns
  <2>6. o.turn \in Turns(Edited(o, old))
    <3>1. two[n + 1][2] = o.turn
      BY <2>1
    <3> QED
      BY <2>4, <2>5, <3>1
  <2>7. ASSUME NEW x \in Turns(old) PROVE x \in Turns(Edited(o, old))
    <3>1. PICK i \in DOMAIN old.msgs : x = old.msgs[i][2]
      BY DEF Turns
    <3>2. i \in DOMAIN two /\ two[i][2] = x
      BY <2>1, <2>4, <3>1
    <3> QED
      BY <2>5, <3>2
  <2> QED
    BY <2>3, <2>6, <2>7
<1> QED
  BY <1>2, <1>3, <1>4

LEMMA OpCases ==
  ASSUME NEW o \in OpSet
  PROVE  /\ LockOf(o.op) = "store" <=> o.op \in {"put", "cache", "rename", "import"}
         /\ LockOf(o.op) = "history" <=> o.op \in HistoryOps
         /\ LockOf(o.op) = "nodes" <=> o.op = "heartbeat"
         /\ LockOf(o.op) \in {"store", "history", "nodes", "none"}
         /\ o.op \in {"put", "cache", "rename", "import", "unlink", "remove"} => o.obj \in Objects
         /\ o.op \in HistoryOps \cup {"delete"} => o.obj \in Conversations
         /\ o.op = "heartbeat" => o.obj = "nodes"
         /\ o.arg \in STRING /\ o.turn \in STRING
         /\ o.op = "import" /\ Valid(o) => o.arg = "model"
BY DEF OpSet, LockOf, HistoryOps, Valid

\* What a step of a task does to the tasks.
LEMMA GotoFacts ==
  ASSUME StorageTypeOK, NEW t \in Tasks, NEW q \in PCs, Goto(t, q)
  PROVE  /\ task' \in [Tasks -> TaskType]
         /\ task'[t].pc = q /\ task'[t].path = task[t].path /\ task'[t].doc = task[t].doc
         /\ task'[t].after = task[t].after
         /\ \A u \in Tasks : u # t => task'[u] = task[u]
BY DEF StorageTypeOK, Goto, TaskType

LEMMA WriteNextFacts ==
  ASSUME StorageTypeOK, NEW t \in Tasks, NEW p \in Paths, NEW doc \in Docs, NEW q \in PCs, WriteNext(t, p, doc, q)
  PROVE  /\ task' \in [Tasks -> TaskType]
         /\ task'[t].pc = "write" /\ task'[t].path = p /\ task'[t].doc = doc /\ task'[t].after = q
         /\ \A u \in Tasks : u # t => task'[u] = task[u]
BY DEF StorageTypeOK, WriteNext, TaskType, PCs

LEMMA FinishFacts ==
  ASSUME StorageTypeOK, NEW t \in Tasks, todo[t] # <<>>, Finish(t)
  PROVE  /\ task' \in [Tasks -> TaskType] /\ task'[t].pc = "idle"
         /\ todo' \in [Tasks -> Seq(OpSet)] /\ todo'[t] = Tail(todo[t])
         /\ \A u \in Tasks : u # t => task'[u] = task[u] /\ todo'[u] = todo[u]
         /\ lock' \in [{"store", "history", "nodes"} -> Tasks \cup {Free}]
         /\ \A l \in {"store", "history", "nodes"} : lock[l] # t => lock'[l] = lock[l]
<1>1. Idle \in TaskType /\ Idle.pc = "idle"
  BY PathFacts DEF Idle, TaskType, PCs
<1>2. Tail(todo[t]) \in Seq(OpSet)
  BY OpFacts
<1>3. task' \in [Tasks -> TaskType] /\ task'[t].pc = "idle" /\ \A u \in Tasks : u # t => task'[u] = task[u]
  BY <1>1 DEF StorageTypeOK, Finish
<1>4. todo' \in [Tasks -> Seq(OpSet)] /\ todo'[t] = Tail(todo[t]) /\ \A u \in Tasks : u # t => todo'[u] = todo[u]
  BY <1>2 DEF StorageTypeOK, Finish
<1>5. /\ lock' \in [{"store", "history", "nodes"} -> Tasks \cup {Free}]
      /\ \A l \in {"store", "history", "nodes"} : lock[l] # t => lock'[l] = lock[l]
  BY DEF StorageTypeOK, Finish, Unlocked
<1> QED
  BY <1>3, <1>4, <1>5

\* Two tasks never write one file at a time.
LEMMA OneWriter ==
  ASSUME StorageInv, NEW t \in Tasks, NEW u \in Tasks, t # u
  PROVE  /\ Holding(t) /\ Holding(u) => LockOf(Op(t).op) # LockOf(Op(u).op)
         /\ Writing(t) /\ Writing(u) => task[t].path # task[u].path
<1>1. Holding(t) /\ Holding(u) => LockOf(Op(t).op) # LockOf(Op(u).op)
  BY DEF StorageInv, TaskOK
<1>2. ASSUME Writing(t), Writing(u), task[t].path = task[u].path PROVE FALSE
  <2>1. Op(t) \in OpSet /\ Op(u) \in OpSet /\ Holding(t) /\ Holding(u)
    BY <1>2, OpFacts DEF StorageInv, TaskOK, Writing, Holding, Busy
  <2>2. LockOf(Op(t).op) = LockOf(Op(u).op)
    <3>1. WriteOK(t) /\ WriteOK(u)
      BY DEF StorageInv
    <3>2. /\ task[t].path = Blob(Op(t).obj) \/ task[t].path = Meta(Op(t).obj) => LockOf(Op(t).op) = "store"
          /\ task[t].path = Conv(Op(t).obj) => LockOf(Op(t).op) = "history"
          /\ task[t].path = NodesFile => LockOf(Op(t).op) = "nodes"
      BY <1>2, <2>1, <3>1, OpCases, PathFacts DEF WriteOK
    <3>3. /\ task[u].path = Blob(Op(u).obj) \/ task[u].path = Meta(Op(u).obj) => LockOf(Op(u).op) = "store"
          /\ task[u].path = Conv(Op(u).obj) => LockOf(Op(u).op) = "history"
          /\ task[u].path = NodesFile => LockOf(Op(u).op) = "nodes"
      BY <1>2, <2>1, <3>1, OpCases, PathFacts DEF WriteOK
    <3> QED
      BY <1>2, <3>1, <3>2, <3>3, PathFacts DEF WriteOK
  <2> QED
    BY <1>1, <2>1, <2>2
<1> QED
  BY <1>1, <1>2

\* The part of the invariant that is about one task and its present operation.
Right(t) == /\ TaskOK(t) /\ WriteOK(t) /\ BlobOK(t) /\ MetaOK(t)
            /\ ModelOK(t) /\ ConvOK(t) /\ NodesOK(t)

\* A task at work that reads, or that begins to write, disturbs no other.
LEMMA LocalKeeps ==
  ASSUME StorageInv, NEW t \in Tasks,
         task' \in [Tasks -> TaskType], \A u \in Tasks : u # t => task'[u] = task[u],
         UNCHANGED <<disk, tmp, litter, todo, clock, acked, credited, unsettled>>,
         \/ artifacts' = artifacts
         \/ /\ artifacts' \in [Objects -> {"none", "partial", "whole"}]
            /\ \A o \in Objects : artifacts'[o] = artifacts[o] \/ OnModel(t, o),
         lock' \in [{"store", "history", "nodes"} -> Tasks \cup {Free}],
         \A l \in {"store", "history", "nodes"} : lock[l] \in Tasks \ {t} => lock'[l] = lock[l],
         nodes' = nodes \/ (nodes \subseteq nodes' /\ nodes' \subseteq STRING /\ Holding(t) /\ LockOf(Op(t).op) = "nodes"),
         Busy(t), task'[t].pc # "idle", task[t].pc # "replace",
         task'[t].pc \in {"lock", "read"} => task[t].pc \in {"lock", "read"} \/ Op(t).op # "create",
         \A c \in Conversations \ unsettled : Writes(t, Conv(c))' =>
            Present(Conv(c)) \/ (Op(t).op = "create" /\ Op(t).obj = c),
         Right(t)'
  PROVE  StorageInv'
<1> USE DEF StorageInv, Right
<1>1. StorageTypeOK'
  BY DEF StorageTypeOK
<1>2. DocInv' /\ BlobInv' /\ CreateInv' /\ ConvInv'
  BY DEF DocInv, BlobInv, CreateInv, ConvInv, Present, Acked, Fits
<1>3. NodesInv'
  BY DEF NodesInv, Present
<1>4. MetaInv'
  BY DEF MetaInv
<1>5. \A u \in Tasks : Busy(u)' <=> Busy(u)
  BY DEF Busy
<1>6. \A u \in Tasks, o \in Objects : OnModel(u, o)' <=> OnModel(u, o)
  BY <1>5 DEF OnModel, Op
<1>7. \A o \in Objects : ~OnModel(t, o) => (Settled(o)' <=> Settled(o))
  BY DEF Settled, KindOf, Present
<1>10. ModelInv'
  BY <1>6, <1>7 DEF ModelInv, Present
<1>8. ASSUME NEW u \in Tasks, u # t PROVE Right(u)'
  <2>1. TaskOK(u)
    OBVIOUS
  <2>2. TaskOK(u)'
    <3>1. Holding(u)' <=> Holding(u)
      BY <1>8 DEF Holding, Op
    <3>2. Holding(u) => lock'[LockOf(Op(u).op)] = u
      <4>1. CASE Busy(u)
        <5>1. Op(u) \in OpSet
          BY <2>1, <4>1, OpFacts DEF TaskOK
        <5> QED
          BY <1>8, <2>1, <5>1, OpCases DEF TaskOK
      <4> QED
        BY <4>1 DEF Holding, Busy
    <3> QED
      BY <1>5, <1>8, <2>1, <3>1, <3>2 DEF TaskOK, Op
  <2>3. WriteOK(u)'
    BY <1>8 DEF WriteOK, Writing, Op, Fits
  <2>4. BlobOK(u)'
    BY <1>8 DEF BlobOK, Writes, Writing, Op, Present
  <2>5. MetaOK(u)'
    BY <1>8 DEF MetaOK, Writes, Writing, Present
  <2>6. ModelOK(u)'
    <3>1. \A o \in Objects : OnModel(u, o)' <=> OnModel(u, o)
      BY <1>6
    <3>2. ModelOK(u)
      OBVIOUS
    <3>3. \A o \in Objects \ unsettled : OnModel(u, o) => (Settled(o)' <=> Settled(o))
      BY <1>7, <1>8 DEF ModelInv
    <3> QED
      BY <1>5, <1>8, <3>1, <3>2, <3>3 DEF ModelOK, KindOf, Present, Writes, Writing, Op
  <2>7. ConvOK(u)'
    <3>2. ConvOK(u)
      OBVIOUS
    <3>3. \A c \in Conversations \ unsettled : Writes(u, Conv(c))' <=> Writes(u, Conv(c))
      BY <1>8 DEF Writes, Writing
    <3>5. \A c \in Conversations \ unsettled : Kept(u, c)' <=> Kept(u, c)
      BY <1>8 DEF Kept, Acked, Op
    <3>6. \A c \in Conversations \ unsettled : OnFile(u, c)' <=> OnFile(u, c)
      BY <1>8 DEF OnFile, Present, Op
    <3>7. \A c \in Conversations \ unsettled : (Present(Conv(c)) \/ Acked(c, {}))' <=> (Present(Conv(c)) \/ Acked(c, {}))
      BY DEF Present, Acked
    <3> QED
      BY <1>5, <1>8, <3>2, <3>3, <3>5, <3>6, <3>7 DEF ConvOK, Op
  <2>8. NodesOK(u)'
    <3>1. CASE nodes' = nodes
      BY <1>8, <3>1 DEF NodesOK, Writes, Writing, Op, Present
    <3>2. CASE Holding(t) /\ LockOf(Op(t).op) = "nodes"
      <4>1. ~Holding(u) \/ LockOf(Op(u).op) # "nodes"
        BY <1>8, <3>2, OneWriter
      <4>2. ~Writes(u, NodesFile)
        <5>1. SUFFICES ASSUME Writes(u, NodesFile) PROVE FALSE
          OBVIOUS
        <5>2. Op(u) \in OpSet /\ Holding(u)
          BY <5>1, OpFacts DEF TaskOK, Writes, Writing, Holding, Busy
        <5>3. Op(u).op = "heartbeat"
          BY <5>1, PathFacts DEF WriteOK, Writes
        <5> QED
          BY <4>1, <5>2, <5>3, OpCases
      <4>3. ~(task[u].pc = "done" /\ Op(u).op = "heartbeat")
        BY <4>1 DEF Holding, LockOf
      <4> QED
        BY <1>8, <4>2, <4>3 DEF NodesOK, Writes, Writing, Op
    <3> QED
      BY <3>1, <3>2
  <2> QED
    BY <2>2, <2>3, <2>4, <2>5, <2>6, <2>7, <2>8
<1>9. ASSUME NEW u \in Tasks PROVE PendOK(u)'
  <2>1. PendOK(u)
    OBVIOUS
  <2> SUFFICES ASSUME NEW c \in Conversations \ unsettled, Pending(u, c)' PROVE Unmade(c)'
    BY DEF PendOK
  <2>5. PICK i \in DOMAIN todo[u] : /\ todo[u][i].op = "create" /\ todo[u][i].obj = c
                                    /\ i = 1 => task'[u].pc \in {"idle", "lock", "read"}
    BY DEF Pending
  <2>6. todo[t] # <<>> /\ Op(t) = todo[t][1] /\ 1 \in DOMAIN todo[t]
    BY OpFacts DEF TaskOK
  <2>2. Pending(u, c)
    BY <2>5, <2>6 DEF Pending
  <2>7. Unmade(c)
    BY <2>1, <2>2 DEF PendOK
  <2>8. ~Writes(t, Conv(c))'
    <3> SUFFICES ASSUME Writes(t, Conv(c))' PROVE FALSE
      OBVIOUS
    <3>1. Op(t).op = "create" /\ Op(t).obj = c
      BY <2>7 DEF Unmade
    <3>2. u = t /\ i = 1
      BY <2>5, <2>6, <3>1 DEF CreateInv
    <3> QED
      BY <2>5, <3>2 DEF Writes, Writing
  <2>3. Unmade(c) /\ ~Writes(t, Conv(c))'
    BY <2>7, <2>8
  <2>4. \A v \in Tasks : v # t => (Writes(v, Conv(c))' => Writes(v, Conv(c)))
    BY DEF Writes, Writing
  <2> QED
    BY <2>3, <2>4 DEF Unmade, Present, Acked
<1> QED
  BY <1>1, <1>2, <1>3, <1>4, <1>8, <1>9, <1>10

\* The transcript and the answer of an engine are awaited with no lock held.
LEMMA AwaitKeeps ==
  ASSUME StorageInv, NEW t \in Tasks, NEW q \in {"engine", "lock"},
         task[t].pc = (IF q = "engine" THEN "transcript" ELSE "engine"), Goto(t, q),
         UNCHANGED <<disk, tmp, litter, lock, todo, artifacts, nodes, clock, acked, credited, unsettled>>
  PROVE  StorageInv'
<1>1. StorageTypeOK /\ Right(t)
  BY DEF StorageInv, Right
<1>2. /\ task' \in [Tasks -> TaskType] /\ task'[t].pc = q
      /\ \A u \in Tasks : u # t => task'[u] = task[u]
  BY <1>1, GotoFacts DEF PCs
<1>3. Busy(t) /\ Op(t) \in OpSet /\ Op(t).op = "send" /\ Op(t)' = Op(t) /\ Valid(Op(t)) /\ todo[t] # <<>> /\ Op(t) = todo[t][1]
  BY <1>1, OpFacts DEF Right, TaskOK, Busy, Op
<1>4. \A c \in Conversations \ unsettled : ~Writes(t, Conv(c))'
  BY <1>2 DEF Writes, Writing
<1>5. TaskOK(t)'
  <2>1. LockOf(Op(t).op) # "none"
    BY <1>3 DEF LockOf
  <2> QED
    BY <1>2, <1>3, <2>1 DEF TaskOK, Holding, Busy
<1>6. WriteOK(t)' /\ BlobOK(t)' /\ MetaOK(t)' /\ NodesOK(t)'
  BY <1>2 DEF WriteOK, BlobOK, MetaOK, NodesOK, Writes, Writing
<1>7. ModelOK(t)' /\ ConvOK(t)'
  BY <1>2, <1>3, <1>4 DEF ModelOK, ConvOK, OnModel, Writes, Writing
<1> QED
  BY <1>1, <1>2, <1>3, <1>4, <1>5, <1>6, <1>7, LocalKeeps DEF Right, StorageTypeOK

\* The lock of the operation is free, so nobody else has it.
LEMMA AcquireKeeps ==
  ASSUME StorageInv, NEW t \in Tasks, Acquire(t)
  PROVE  StorageInv'
<1>1. StorageTypeOK /\ Right(t) /\ task[t].pc = "lock" /\ Goto(t, "read")
  BY DEF StorageInv, Right, Acquire, Is
<1>2. /\ task' \in [Tasks -> TaskType] /\ task'[t].pc = "read"
      /\ \A u \in Tasks : u # t => task'[u] = task[u]
  BY <1>1, GotoFacts DEF PCs
<1>3. Busy(t) /\ Op(t) \in OpSet /\ Op(t)' = Op(t) /\ Valid(Op(t)) /\ todo[t] # <<>>
  BY <1>1, OpFacts DEF Right, TaskOK, Busy, Op, Acquire
<1>4. LockOf(Op(t).op) \in {"store", "history", "nodes"}
  BY <1>1, <1>3, OpCases DEF Right, TaskOK
<1>5. /\ lock' \in [{"store", "history", "nodes"} -> Tasks \cup {Free}]
      /\ lock'[LockOf(Op(t).op)] = t
      /\ \A l \in {"store", "history", "nodes"} : lock[l] \in Tasks \ {t} => lock'[l] = lock[l]
  <2>1. lock[LockOf(Op(t).op)] \notin Tasks /\ lock' = [lock EXCEPT ![LockOf(Op(t).op)] = t]
    BY StorageAssumption DEF Acquire, Free
  <2> QED
    BY <1>1, <1>4, <2>1 DEF StorageTypeOK
<1>6. TaskOK(t)'
  BY <1>2, <1>3, <1>4, <1>5 DEF TaskOK, Holding, Busy, Acquire
<1>7. WriteOK(t)' /\ BlobOK(t)' /\ MetaOK(t)' /\ NodesOK(t)'
  BY <1>2 DEF WriteOK, BlobOK, MetaOK, NodesOK, Writes, Writing
<1>8. ModelOK(t)'
  BY <1>1, <1>2, <1>3 DEF Right, ModelOK, OnModel, Writes, Writing, Acquire, Busy
<1>9. ConvOK(t)'
  BY <1>1, <1>2, <1>3 DEF Right, ConvOK, Writes, Writing, Acquire, Busy
<1>10. \A c \in Conversations \ unsettled : ~Writes(t, Conv(c))'
  BY <1>2 DEF Writes, Writing
<1>11. UNCHANGED <<disk, tmp, litter, todo, artifacts, clock, acked, credited, unsettled, nodes>>
  BY DEF Acquire
<1> QED
  BY <1>1, <1>2, <1>3, <1>5, <1>6, <1>7, <1>8, <1>9, <1>10, <1>11, LocalKeeps DEF Right

\* A write begins: what its document must be for the invariant.
LEMMA WriteBegins ==
  ASSUME StorageInv, NEW t \in Tasks, task[t].pc \in {"read", "meta"},
         NEW p \in Paths, NEW doc \in Docs, NEW q \in {"meta", "credit", "clear", "done"},
         WriteNext(t, p, doc, q), Untouched, Fits(p, doc),
         \/ nodes' = nodes
         \/ nodes \subseteq nodes' /\ nodes' \subseteq STRING /\ Op(t).op = "heartbeat",
         \/ /\ p = Blob(Op(t).obj) /\ ~Present(Blob(Op(t).obj))
            /\ \/ Op(t).op \in {"put", "import"} /\ q = "meta"
               \/ Op(t).op = "cache" /\ q = "credit"
         \/ /\ p = Meta(Op(t).obj) /\ Present(Blob(Op(t).obj))
            /\ \/ Op(t).op \in {"put", "rename"} /\ q = "done"
               \/ Op(t).op = "import" /\ q = "clear"
            /\ Present(Meta(Op(t).obj)) => doc.created = disk[Meta(Op(t).obj)].created
            /\ Op(t).obj \in unsettled \/ (Op(t).op = "import" /\ doc.kind = "model")
         \/ /\ p = Conv(Op(t).obj) /\ Op(t).op \in HistoryOps /\ q = "done"
            /\ Op(t).obj \notin unsettled =>
                 /\ Acked(Op(t).obj, Turns(doc))
                 /\ Op(t).op \in TurnOps => Op(t).turn \in Turns(doc)
                 /\ Present(Conv(Op(t).obj)) \/ (Op(t).op = "create" /\ Acked(Op(t).obj, {}))
         \/ /\ p = NodesFile /\ Op(t).op = "heartbeat" /\ q = "done"
            /\ doc.nodes = nodes' /\ Op(t).turn \in nodes'
  PROVE  StorageInv'
<1>1. StorageTypeOK /\ Right(t)
  BY DEF StorageInv, Right
<1>2. /\ task' \in [Tasks -> TaskType]
      /\ task'[t].pc = "write" /\ task'[t].path = p /\ task'[t].doc = doc /\ task'[t].after = q
      /\ \A u \in Tasks : u # t => task'[u] = task[u]
  BY <1>1, WriteNextFacts DEF PCs
<1>3. UNCHANGED <<disk, tmp, litter, todo, artifacts, clock, acked, credited, unsettled, lock>>
  BY DEF Untouched
<1>4. Busy(t) /\ Op(t) \in OpSet /\ Op(t)' = Op(t) /\ Valid(Op(t)) /\ todo[t] # <<>> /\ Holding(t)
  BY <1>1, <1>3, OpFacts DEF Right, TaskOK, Busy, Op, Holding
<1>5. TaskOK(t)'
  BY <1>1, <1>2, <1>3, <1>4 DEF Right, TaskOK, Holding, Busy
<1>6. WriteOK(t)'
  BY <1>2, <1>4 DEF WriteOK, Writing, Fits
<1>7. BlobOK(t)'
  BY <1>2, <1>3, <1>4, PathFacts DEF BlobOK, Writes, Writing, Present
<1>8. MetaOK(t)'
  BY <1>2, <1>3, <1>4, PathFacts DEF MetaOK, Writes, Writing, Present
<1>9. ModelOK(t)'
  <2>1. ModelOK(t)
    BY <1>1 DEF Right
  <2> QED
    BY <1>2, <1>3, <1>4, <2>1, PathFacts DEF ModelOK, OnModel, Writes, Writing, Busy
<1>10. ConvOK(t)'
  <2>1. ConvOK(t)
    BY <1>1 DEF Right
  <2>2. \A c \in Conversations \ unsettled : p = Conv(c) =>
          /\ Acked(c, Turns(doc))
          /\ Op(t).op \in TurnOps => Op(t).turn \in Turns(doc)
          /\ Present(Conv(c)) \/ Acked(c, {})
    BY PathFacts
  <2>3. \A c \in Conversations \ unsettled : p = Conv(c) => Kept(t, c)'
    BY <1>2, <1>3, <1>4, <2>2 DEF Kept, Acked
  <2>4. \A c \in Conversations \ unsettled : p = Conv(c) => Present(Conv(c))' \/ Acked(c, {})'
    BY <1>3, <2>2 DEF Acked, Present
  <2> QED
    BY <1>2, <1>3, <1>4, <2>1, <2>2, <2>3, <2>4 DEF ConvOK, Writes, Writing, Busy
<1>11. NodesOK(t)'
  BY <1>2, <1>4, PathFacts DEF NodesOK, Writes, Writing
<1>12. \A c \in Conversations \ unsettled : Writes(t, Conv(c))' => Present(Conv(c)) \/ (Op(t).op = "create" /\ Op(t).obj = c)
  BY <1>2, PathFacts DEF Writes
<1>13. nodes' = nodes \/ (nodes \subseteq nodes' /\ nodes' \subseteq STRING /\ Holding(t) /\ LockOf(Op(t).op) = "nodes")
  BY <1>4, OpCases
<1> QED
  BY <1>1, <1>2, <1>3, <1>4, <1>5, <1>6, <1>7, <1>8, <1>9, <1>10, <1>11, <1>12, <1>13, LocalKeeps DEF Right, StorageTypeOK

LEMMA PutBlobKeeps ==
  ASSUME StorageInv, NEW t \in Tasks, PutBlob(t)
  PROVE  StorageInv'
<1>1. /\ StorageTypeOK /\ Right(t) /\ task[t].pc = "read" /\ Op(t).op \in {"put", "import"}
      /\ Untouched /\ UNCHANGED nodes
  BY DEF StorageInv, Right, PutBlob, Is
<1>2. Busy(t) /\ Op(t) \in OpSet /\ todo[t] # <<>> /\ Valid(Op(t)) /\ Op(t).obj \in Objects
  BY <1>1, OpFacts, OpCases DEF Right, TaskOK, Busy
<1>3. CASE Present(Blob(Op(t).obj)) /\ Goto(t, "meta")
  <2>1. /\ task' \in [Tasks -> TaskType] /\ task'[t].pc = "meta"
        /\ \A u \in Tasks : u # t => task'[u] = task[u]
    BY <1>1, <1>3, GotoFacts DEF PCs
  <2>2. UNCHANGED <<disk, tmp, litter, todo, artifacts, clock, acked, credited, unsettled, lock, nodes>> /\ Op(t)' = Op(t)
    BY <1>1 DEF Untouched, Op
  <2>3. TaskOK(t)'
    BY <1>1, <1>2, <2>1, <2>2 DEF Right, TaskOK, Holding, Busy
  <2>4. WriteOK(t)' /\ MetaOK(t)' /\ NodesOK(t)'
    BY <2>1 DEF WriteOK, MetaOK, NodesOK, Writes, Writing
  <2>5. BlobOK(t)'
    BY <1>3, <2>1, <2>2 DEF BlobOK, Writes, Writing, Present
  <2>6. ModelOK(t)'
    BY <1>1, <1>2, <2>1, <2>2 DEF Right, ModelOK, OnModel, Writes, Writing, Busy
  <2>7. ConvOK(t)'
    BY <1>1, <2>1, <2>2 DEF ConvOK, Writes, Writing
  <2>8. \A c \in Conversations \ unsettled : ~Writes(t, Conv(c))'
    BY <2>1 DEF Writes, Writing
  <2> QED
    BY <1>1, <1>2, <2>1, <2>2, <2>3, <2>4, <2>5, <2>6, <2>7, <2>8, LocalKeeps DEF Right, StorageTypeOK
<1>4. CASE ~Present(Blob(Op(t).obj)) /\ WriteNext(t, Blob(Op(t).obj), [t |-> "blob"], "meta")
  <2> DEFINE doc == [t |-> "blob"]
  <2>1. doc \in Docs /\ Blob(Op(t).obj) \in Paths /\ Fits(Blob(Op(t).obj), doc)
    BY <1>2, DocFacts, PathFacts DEF Fits
  <2> HIDE DEF doc
  <2>2. WriteNext(t, Blob(Op(t).obj), doc, "meta")
    BY <1>4 DEF doc
  <2> QED
    BY <1>1, <1>4, <2>1, <2>2, WriteBegins
<1> QED
  BY <1>3, <1>4 DEF PutBlob

\* The record of a blob that is there keeps the creation time of the old one.
LEMMA PutMetaKeeps ==
  ASSUME StorageInv, NEW t \in Tasks, PutMeta(t)
  PROVE  StorageInv'
<1>1. /\ StorageTypeOK /\ DocInv /\ Right(t) /\ task[t].pc = "meta" /\ Untouched /\ UNCHANGED nodes
  BY DEF StorageInv, Right, PutMeta, Is
<1>2. /\ Busy(t) /\ Op(t) \in OpSet /\ todo[t] # <<>> /\ Valid(Op(t)) /\ Op(t).op \in {"put", "import"}
      /\ Op(t).obj \in Objects /\ Op(t).arg \in STRING /\ Op(t).turn \in STRING
  BY <1>1, OpFacts, OpCases DEF Right, TaskOK, Busy
<1> DEFINE o == Op(t).obj
           time == IF disk[Meta(o)] = Absent THEN clock ELSE disk[Meta(o)].created
           doc == [t |-> "meta", kind |-> Op(t).arg, name |-> Op(t).turn, created |-> time]
           q == IF Op(t).op = "import" THEN "clear" ELSE "done"
<1>3. time \in Nat /\ (Present(Meta(o)) => time = disk[Meta(o)].created)
  <2>1. disk[Meta(o)] # Absent => disk[Meta(o)] \in MetaDoc
    BY <1>1, <1>2, PathFacts DEF DocInv, Fits
  <2> QED
    BY <1>1, <2>1, DocFacts DEF StorageTypeOK, Present
<1> HIDE DEF time
<1>4. doc \in MetaDoc /\ doc.created = time /\ doc.kind = Op(t).arg
  BY <1>2, <1>3 DEF MetaDoc
<1>5. WriteNext(t, Meta(o), doc, q)
  BY DEF PutMeta, time
<1> HIDE DEF doc
<1>6. doc \in Docs /\ Meta(o) \in Paths /\ Fits(Meta(o), doc)
  BY <1>2, <1>4, DocFacts, PathFacts DEF Fits
<1>7. o \in unsettled \/ (Op(t).op = "import" /\ doc.kind = "model")
  BY <1>1, <1>2, <1>4, OpCases DEF Right, ModelOK
<1>8. Present(Blob(o))
  BY <1>1 DEF Right, BlobOK
<1>9. \/ Op(t).op \in {"put", "rename"} /\ q = "done"
      \/ Op(t).op = "import" /\ q = "clear"
  BY <1>2
<1> HIDE DEF q, o
<1>10. q \in {"meta", "credit", "clear", "done"} /\ o = Op(t).obj
  BY <1>9 DEF o
<1> QED
  BY <1>1, <1>3, <1>4, <1>5, <1>6, <1>7, <1>8, <1>9, <1>10, WriteBegins

LEMMA CacheKeeps ==
  ASSUME StorageInv, NEW t \in Tasks, task[t].pc = "read", Op(t).op = "cache", ~Present(Blob(Op(t).obj)),
         WriteNext(t, Blob(Op(t).obj), [t |-> "blob"], "credit"), Untouched, UNCHANGED nodes
  PROVE  StorageInv'
<1>2. Busy(t) /\ Op(t) \in OpSet /\ Op(t).obj \in Objects
  BY OpFacts, OpCases DEF StorageInv, TaskOK, Busy
<1> DEFINE doc == [t |-> "blob"]
<1>3. doc \in Docs /\ Blob(Op(t).obj) \in Paths /\ Fits(Blob(Op(t).obj), doc)
  BY <1>2, DocFacts, PathFacts DEF Fits
<1> HIDE DEF doc
<1>4. WriteNext(t, Blob(Op(t).obj), doc, "credit")
  BY DEF doc
<1> QED
  BY <1>3, <1>4, WriteBegins

\* Only a file is renamed, and a file was put, which settles no model.
LEMMA RenameFileKeeps ==
  ASSUME StorageInv, NEW t \in Tasks, task[t].pc = "read", Op(t).op = "rename", KindOf(Op(t).obj) = "file",
         WriteNext(t, Meta(Op(t).obj), [disk[Meta(Op(t).obj)] EXCEPT !.name = Op(t).turn], "done"),
         Untouched, UNCHANGED nodes
  PROVE  StorageInv'
<1>1. Busy(t) /\ Op(t) \in OpSet /\ Op(t).obj \in Objects /\ Op(t).turn \in STRING
  BY OpFacts, OpCases DEF StorageInv, TaskOK, Busy
<1> DEFINE o == Op(t).obj
           old == disk[Meta(o)]
           doc == [old EXCEPT !.name = Op(t).turn]
<1>2. Present(Meta(o)) /\ old.kind = "file"
  BY DEF KindOf
<1>3. old \in MetaDoc
  BY <1>1, <1>2, PathFacts DEF StorageInv, DocInv, Fits, Present
<1> HIDE DEF old
<1>4. doc \in MetaDoc /\ doc.created = old.created
  BY <1>1, <1>3 DEF MetaDoc
<1> HIDE DEF doc
<1>5. doc \in Docs /\ Meta(o) \in Paths /\ Fits(Meta(o), doc)
  BY <1>1, <1>4, DocFacts, PathFacts DEF Fits
<1>6. WriteNext(t, Meta(o), doc, "done")
  BY DEF doc, old
<1>7. Present(Blob(o)) /\ o \in unsettled
  BY <1>1, <1>2 DEF StorageInv, BlobInv, ModelInv, Present, old
<1> QED
  BY <1>4, <1>5, <1>6, <1>7, WriteBegins DEF old

\* A conversation that is created has never been there.
LEMMA CreateKeeps ==
  ASSUME StorageInv, NEW t \in Tasks, Create(t)
  PROVE  StorageInv'
<1>1. task[t].pc = "read" /\ Op(t).op = "create" /\ Untouched /\ UNCHANGED nodes
  BY DEF Create, Is
<1>2. Busy(t) /\ Op(t) \in OpSet /\ Op(t).obj \in Conversations /\ Op(t) = todo[t][1] /\ 1 \in DOMAIN todo[t]
  BY <1>1, OpFacts, OpCases DEF StorageInv, TaskOK, Busy, HistoryOps
<1> DEFINE c == Op(t).obj
           doc == [t |-> "conv", msgs |-> <<>>, archived |-> FALSE]
<1>3. doc \in ConvDoc
  BY DEF ConvDoc
<1>4. WriteNext(t, Conv(c), doc, "done")
  BY DEF Create
<1> HIDE DEF doc
<1>5. doc \in Docs /\ Conv(c) \in Paths /\ Fits(Conv(c), doc)
  BY <1>2, <1>3, DocFacts, PathFacts DEF Fits
<1>6. c \notin unsettled => Acked(c, {})
  <2>1. Pending(t, c)
    BY <1>1, <1>2 DEF Pending
  <2> QED
    BY <1>2, <2>1 DEF StorageInv, PendOK, Unmade
<1>7. c \notin unsettled => Acked(c, Turns(doc))
  BY <1>6 DEF Acked
<1> QED
  BY <1>1, <1>4, <1>5, <1>6, <1>7, WriteBegins DEF HistoryOps, TurnOps

\* An edit adds to what is acknowledged.
LEMMA EditKeeps ==
  ASSUME StorageInv, NEW t \in Tasks, task[t].pc = "read",
         Op(t).op \in {"append", "exchange", "archive", "send"}, disk[Conv(Op(t).obj)] # Absent,
         WriteNext(t, Conv(Op(t).obj), Edited(Op(t), disk[Conv(Op(t).obj)]), "done"), Untouched, UNCHANGED nodes
  PROVE  StorageInv'
<1>1. Busy(t) /\ Op(t) \in OpSet /\ Op(t).obj \in Conversations
  BY OpFacts, OpCases DEF StorageInv, TaskOK, Busy, HistoryOps
<1> DEFINE c == Op(t).obj
           old == disk[Conv(c)]
           doc == Edited(Op(t), old)
<1>2. old \in ConvDoc /\ Present(Conv(c))
  BY <1>1, PathFacts DEF StorageInv, DocInv, Fits, Present
<1>3. /\ doc \in ConvDoc /\ Turns(old) \subseteq Turns(doc)
      /\ Op(t).op \in TurnOps => Op(t).turn \in Turns(doc)
  BY <1>1, <1>2, EditedTurns
<1>4. c \notin unsettled => Acked(c, Turns(old))
  BY <1>1, <1>2 DEF StorageInv, ConvInv
<1>5. WriteNext(t, Conv(c), doc, "done")
  OBVIOUS
<1> HIDE DEF doc, old
<1>6. c \notin unsettled => Acked(c, Turns(doc))
  BY <1>3, <1>4 DEF Acked
<1>7. doc \in Docs /\ Conv(c) \in Paths /\ Fits(Conv(c), doc)
  BY <1>1, <1>3, DocFacts, PathFacts DEF Fits
<1> QED
  BY <1>2, <1>3, <1>5, <1>6, <1>7, WriteBegins DEF HistoryOps

\* The map in memory goes first, and what is written is all of it.
LEMMA HeartbeatKeeps ==
  ASSUME StorageInv, NEW t \in Tasks, Heartbeat(t)
  PROVE  StorageInv'
<1>1. task[t].pc = "read" /\ Op(t).op = "heartbeat" /\ Untouched /\ nodes' = nodes \cup {Op(t).turn}
  BY DEF Heartbeat, Is
<1>2. Busy(t) /\ Op(t) \in OpSet /\ Op(t).turn \in STRING
  BY <1>1, OpFacts, OpCases DEF StorageInv, TaskOK, Busy
<1>3. nodes \subseteq nodes' /\ nodes' \subseteq STRING /\ Op(t).turn \in nodes'
  BY <1>1, <1>2 DEF StorageInv, StorageTypeOK
<1>4. PICK doc : doc = [t |-> "nodes", nodes |-> nodes']
  OBVIOUS
<1>5. doc \in NodesDoc /\ doc.nodes = nodes'
  BY <1>3, <1>4 DEF NodesDoc
<1>6. WriteNext(t, NodesFile, doc, "done")
  BY <1>4 DEF Heartbeat
<1>7. doc \in Docs /\ NodesFile \in Paths /\ Fits(NodesFile, doc)
  BY <1>5, DocFacts, PathFacts DEF Fits
<1> QED
  BY <1>1, <1>3, <1>5, <1>6, <1>7, WriteBegins

\* What an operation that ends has written is acknowledged, or credited, or
\* neither; a model it was about is settled, or marked.
LEMMA FinishKeeps ==
  ASSUME StorageInv, NEW t \in Tasks, todo[t] # <<>>, Finish(t),
         UNCHANGED <<disk, tmp, litter, artifacts, nodes, clock>>,
         unsettled \subseteq unsettled',
         \/ acked' = acked
         \/ /\ task[t].pc = "done" /\ Op(t).op \in TurnOps \cup {"heartbeat"}
            /\ acked' = acked \cup {<<Op(t).obj, Op(t).turn>>},
         \/ credited' = credited
         \/ task[t].pc = "credit" /\ credited' = [credited EXCEPT ![Op(t).obj] = @ + 1],
         task[t].pc = "replace" => ~Present(task[t].path),
         \A o \in Objects \ unsettled' : OnModel(t, o) => Settled(o)
  PROVE  StorageInv'
<1> USE DEF StorageInv
<1>1. /\ task' \in [Tasks -> TaskType] /\ task'[t].pc = "idle"
      /\ todo' \in [Tasks -> Seq(OpSet)] /\ todo'[t] = Tail(todo[t])
      /\ \A u \in Tasks : u # t => task'[u] = task[u] /\ todo'[u] = todo[u]
      /\ lock' \in [{"store", "history", "nodes"} -> Tasks \cup {Free}]
      /\ \A l \in {"store", "history", "nodes"} : lock[l] # t => lock'[l] = lock[l]
  BY FinishFacts
<1>2. /\ Op(t) \in OpSet /\ Op(t) = todo[t][1] /\ 1 \in DOMAIN todo[t]
      /\ DOMAIN todo'[t] = 1..(Len(todo[t]) - 1)
      /\ \A i \in 1..(Len(todo[t]) - 1) : todo'[t][i] = todo[t][i + 1] /\ i + 1 \in DOMAIN todo[t] /\ i + 1 # 1
  BY <1>1, OpFacts
<1>3. Op(t).turn \in STRING /\ (Op(t).op \in TurnOps => Op(t).obj \in Conversations)
      /\ (Op(t).op = "heartbeat" => Op(t).obj = "nodes") /\ (Op(t).op = "cache" => Op(t).obj \in Objects)
  BY <1>2, OpCases DEF TurnOps, HistoryOps
<1>4. acked' \subseteq (Conversations \cup {"nodes"}) \X STRING /\ acked \subseteq acked'
  BY <1>3 DEF StorageTypeOK
<1>5. task[t].pc = "credit" => /\ Op(t).op = "cache" /\ Op(t).obj \in Objects
                               /\ credited[Op(t).obj] = 0 /\ Present(Blob(Op(t).obj))
  BY <1>3 DEF TaskOK, BlobOK
<1>6. /\ credited' \in [Objects -> {0, 1}]
      /\ \A o \in Objects : credited'[o] = credited[o] \/ (task[t].pc = "credit" /\ o = Op(t).obj)
  BY <1>5 DEF StorageTypeOK
<1>7. StorageTypeOK'
  BY <1>1, <1>4, <1>6 DEF StorageTypeOK
<1>8. DocInv'
  BY DEF DocInv, Fits
<1>9. BlobInv'
  BY <1>5, <1>6 DEF BlobInv, Present
<1>10. MetaInv'
  <2> SUFFICES ASSUME NEW o \in Objects, disk[Meta(o)] # Absent, tmp[Meta(o)] # Absent
               PROVE  \E u \in Tasks : task'[u].pc = "replace" /\ task'[u].path = Meta(o)
    BY DEF MetaInv
  <2>1. PICK u \in Tasks : task[u].pc = "replace" /\ task[u].path = Meta(o)
    BY DEF MetaInv
  <2>2. u # t
    BY <2>1 DEF Present
  <2> QED
    BY <1>1, <2>1, <2>2
<1>11. \A u \in Tasks : (Busy(u)' => u # t) /\ (u # t => (Busy(u)' <=> Busy(u)) /\ Op(u)' = Op(u))
  BY <1>1 DEF Busy, Op
<1>12. \A u \in Tasks, o \in Objects : OnModel(u, o)' <=> u # t /\ OnModel(u, o)
  BY <1>11 DEF OnModel
<1>13. \A o \in Objects : /\ KindOf(o)' = KindOf(o) /\ (Settled(o)' <=> Settled(o))
                          /\ (Present(Meta(o))' <=> Present(Meta(o)))
  BY DEF KindOf, Settled, Present
<1>14. ModelInv'
  <2> SUFFICES ASSUME NEW o \in Objects \ unsettled'
               PROVE  /\ Present(Meta(o)) => disk[Meta(o)].kind = "model"
                      /\ (\A u \in Tasks : ~OnModel(u, o)') => Settled(o)
                      /\ \A u, v \in Tasks : OnModel(u, o)' /\ OnModel(v, o)' => u = v
    BY <1>13 DEF ModelInv
  <2>1. o \in Objects \ unsettled
    OBVIOUS
  <2>2. (\A u \in Tasks : ~OnModel(u, o)') => Settled(o)
    BY <1>12, <2>1 DEF ModelInv
  <2> QED
    BY <1>12, <2>1, <2>2 DEF ModelInv
<1>15. CreateInv'
  <2> SUFFICES ASSUME NEW u \in Tasks, NEW v \in Tasks, NEW i \in DOMAIN todo'[u], NEW j \in DOMAIN todo'[v],
                      todo'[u][i].op = "create", todo'[v][j].op = "create", todo'[u][i].obj = todo'[v][j].obj
               PROVE  u = v /\ i = j
    BY DEF CreateInv
  <2> DEFINE I == IF u = t THEN i + 1 ELSE i
             J == IF v = t THEN j + 1 ELSE j
  <2>1. I \in DOMAIN todo[u] /\ todo[u][I] = todo'[u][i] /\ J \in DOMAIN todo[v] /\ todo[v][J] = todo'[v][j]
    BY <1>1, <1>2
  <2>2. u = v /\ I = J
    BY <2>1 DEF CreateInv
  <2>3. u = t => i \in 1..(Len(todo[t]) - 1) /\ j \in 1..(Len(todo[t]) - 1)
    BY <1>2, <2>2
  <2> QED
    BY <2>2, <2>3
<1>16. \A c \in Conversations \ unsettled' : \A turns :
         Acked(c, turns) => Acked(c, turns)' \/ (task[t].pc = "done" /\ Op(t).op \in TurnOps /\ Op(t).obj = c)
  BY <1>3, StorageAssumption DEF Acked
<1>17. \A c \in Conversations \ unsettled' :
         task[t].pc = "done" /\ Op(t).op \in TurnOps /\ Op(t).obj = c =>
           /\ Present(Conv(c))
           /\ \A turns : Acked(c, turns) /\ Op(t).turn \in turns => Acked(c, turns)'
           /\ Op(t).turn \in Turns(disk[Conv(c)])
           /\ Holding(t) /\ LockOf(Op(t).op) = "history"
  <2>1. ConvOK(t)
    OBVIOUS
  <2>2. Op(t).op \in TurnOps => LockOf(Op(t).op) = "history" /\ Op(t).op \in HistoryOps
    BY DEF TurnOps, LockOf, HistoryOps
  <2> QED
    BY <1>2, <2>1, <2>2 DEF ConvOK, OnFile, Acked, Holding
<1>18. ConvInv'
  <2> SUFFICES ASSUME NEW c \in Conversations \ unsettled'
               PROVE  /\ Present(Conv(c)) => Acked(c, Turns(disk[Conv(c)]))'
                      /\ \/ Present(Conv(c)) \/ Acked(c, {})'
                         \/ \E doc \in ({tmp[Conv(c)]} \cup litter[Conv(c)]) \ {Absent} : Acked(c, Turns(doc))'
    BY DEF ConvInv, Present
  <2>1. CASE task[t].pc = "done" /\ Op(t).op \in TurnOps /\ Op(t).obj = c
    BY <1>17, <2>1 DEF ConvInv
  <2>2. CASE ~(task[t].pc = "done" /\ Op(t).op \in TurnOps /\ Op(t).obj = c)
    <3>1. \A turns : Acked(c, turns) => Acked(c, turns)'
      BY <1>16, <2>2
    <3>2. \A a \in acked' : a[1] = c => a \in acked
      BY <1>3, <2>2, StorageAssumption
    <3> QED
      BY <3>2 DEF ConvInv, Acked
  <2> QED
    BY <2>1, <2>2
<1>19. NodesInv'
  BY <1>3, StorageAssumption DEF NodesInv, NodesOK, Present
<1>20. ASSUME NEW u \in Tasks, u # t PROVE Right(u)'
  <2>1. Op(u)' = Op(u) /\ (Busy(u)' <=> Busy(u)) /\ task'[u] = task[u] /\ todo'[u] = todo[u]
    BY <1>1, <1>11, <1>20
  <2>2. TaskOK(u)'
    <3>1. TaskOK(u) /\ (Holding(u)' <=> Holding(u))
      BY <2>1 DEF Holding
    <3>2. Holding(u) => lock'[LockOf(Op(u).op)] = u
      <4>1. Holding(u) => Op(u) \in OpSet
        BY <3>1, OpFacts DEF TaskOK, Holding, Busy
      <4> QED
        BY <1>1, <1>20, <3>1, <4>1, OpCases DEF TaskOK
    <3> QED
      BY <2>1, <3>1, <3>2 DEF TaskOK
  <2>3. WriteOK(u)'
    BY <2>1 DEF WriteOK, Writing, Fits
  <2>4. BlobOK(u)'
    <3>1. BlobOK(u) /\ TaskOK(u)
      OBVIOUS
    <3>2. task[u].pc = "credit" => task[t].pc # "credit"
      BY <1>20, OneWriter DEF TaskOK, Holding
    <3>3. task[u].pc = "credit" => Op(u).obj \in Objects
      BY <3>1, OpFacts, OpCases DEF TaskOK, Busy
    <3> QED
      BY <1>6, <2>1, <3>1, <3>2, <3>3 DEF BlobOK, Writes, Writing, Present
  <2>5. MetaOK(u)'
    BY <2>1 DEF MetaOK, Writes, Writing, Present
  <2>6. ModelOK(u)'
    <3>1. ModelOK(u)
      OBVIOUS
    <3>2. \A o \in Objects : OnModel(u, o)' <=> OnModel(u, o)
      BY <1>12, <1>20
    <3> QED
      BY <1>13, <2>1, <3>1, <3>2 DEF ModelOK, Writes, Writing
  <2>7. ConvOK(u)'
    <3>1. ConvOK(u)
      OBVIOUS
    <3>2. \A c \in Conversations \ unsettled' : Writes(u, Conv(c)) =>
             ~(task[t].pc = "done" /\ Op(t).op \in TurnOps /\ Op(t).obj = c)
      <4> SUFFICES ASSUME NEW c \in Conversations \ unsettled', Writes(u, Conv(c)), Op(t).obj = c,
                          task[t].pc = "done", Op(t).op \in TurnOps
                   PROVE  FALSE
        OBVIOUS
      <4>1. Holding(u) /\ Op(u) \in OpSet /\ Op(u).op \in HistoryOps
        <5>1. Holding(u) /\ Op(u) \in OpSet
          BY OpFacts DEF TaskOK, Writes, Writing, Holding, Busy
        <5>2. WriteOK(u) /\ Writing(u) /\ task[u].path = Conv(c)
          BY DEF Writes
        <5> QED
          BY <5>1, <5>2, PathFacts DEF WriteOK
      <4>2. LockOf(Op(u).op) = "history"
        BY <4>1, OpCases
      <4> QED
        BY <1>17, <1>20, <4>1, <4>2, OneWriter
    <3>3. \A c \in Conversations \ unsettled' : Writes(u, Conv(c)) /\ Kept(u, c) => Kept(u, c)'
      BY <1>16, <2>1, <3>2 DEF Kept
    <3>4. \A c \in Conversations \ unsettled' : OnFile(u, c) => OnFile(u, c)'
      BY <2>1 DEF OnFile, Present
    <3>5. \A c \in Conversations \ unsettled' : Writes(u, Conv(c)) /\ (Present(Conv(c)) \/ Acked(c, {}))
             => Present(Conv(c))' \/ Acked(c, {})'
      BY <1>16, <3>2 DEF Present
    <3>6. \A c \in Conversations \ unsettled' : Writes(u, Conv(c))' <=> Writes(u, Conv(c))
      BY <2>1 DEF Writes, Writing
    <3> QED
      BY <2>1, <3>1, <3>3, <3>4, <3>5, <3>6 DEF ConvOK
  <2>8. NodesOK(u)'
    BY <2>1 DEF NodesOK, Writes, Writing, Present
  <2> QED
    BY <2>2, <2>3, <2>4, <2>5, <2>6, <2>7, <2>8 DEF Right
<1>21. Right(t)'
  BY <1>1 DEF Right, TaskOK, WriteOK, BlobOK, MetaOK, ModelOK, ConvOK, NodesOK, OnModel, Busy, Holding, Writes, Writing
<1>22. ASSUME NEW u \in Tasks PROVE PendOK(u)'
  <2> SUFFICES ASSUME NEW c \in Conversations \ unsettled', Pending(u, c)' PROVE Unmade(c)'
    BY DEF PendOK
  <2>1. PICK i \in DOMAIN todo'[u] : /\ todo'[u][i].op = "create" /\ todo'[u][i].obj = c
                                     /\ i = 1 => task'[u].pc \in {"idle", "lock", "read"}
    BY DEF Pending
  <2>2. Pending(u, c)
    <3>1. CASE u # t
      BY <1>1, <2>1, <3>1 DEF Pending
    <3>2. CASE u = t
      <4>1. i + 1 \in DOMAIN todo[t] /\ todo[t][i + 1] = todo'[t][i] /\ i + 1 # 1
        BY <1>2, <2>1, <3>2
      <4> QED
        BY <2>1, <3>2, <4>1 DEF Pending
    <3> QED
      BY <3>1, <3>2
  <2>3. Unmade(c)
    BY <2>2 DEF PendOK
  <2>4. ~(task[t].pc = "done" /\ Op(t).op \in TurnOps /\ Op(t).obj = c)
    BY <1>17, <2>3 DEF Unmade
  <2>5. Acked(c, {})'
    BY <1>16, <2>3, <2>4 DEF Unmade
  <2>6. \A v \in Tasks : Writes(v, Conv(c))' => Writes(v, Conv(c))
    BY <1>1 DEF Writes, Writing
  <2> QED
    BY <2>3, <2>5, <2>6 DEF Unmade, Present
<1> QED
  BY <1>7, <1>8, <1>9, <1>10, <1>14, <1>15, <1>18, <1>19, <1>20, <1>21, <1>22 DEF Right

\* A call that fails leaves the files as they are and marks the model it was
\* about.
LEMMA FailKeeps ==
  ASSUME StorageInv, NEW t \in Tasks, Busy(t), Fail(t), UNCHANGED tmp,
         task[t].pc = "replace" => ~Present(task[t].path)
  PROVE  StorageInv'
<1>1. todo[t] # <<>> /\ Finish(t) /\ UNCHANGED <<disk, tmp, litter, artifacts, nodes, clock, acked, credited>>
  BY DEF StorageInv, TaskOK, Fail
<1>2. \A o \in Objects \ unsettled' : ~OnModel(t, o) /\ unsettled \subseteq unsettled'
  BY DEF Fail, OnModel
<1>3. unsettled \subseteq unsettled'
  BY DEF Fail
<1> QED
  BY <1>1, <1>2, <1>3, FinishKeeps

LEMMA RefuseKeeps ==
  ASSUME StorageInv, NEW t \in Tasks, Refuse(t)
  PROVE  StorageInv'
<1>1. /\ todo[t] # <<>> /\ Finish(t) /\ task[t].pc = "idle" /\ ~Busy(t)
      /\ UNCHANGED <<disk, tmp, litter, artifacts, nodes, clock, acked, credited, unsettled>>
  BY DEF Refuse, Is, Busy
<1> QED
  BY <1>1, FinishKeeps DEF OnModel

LEMMA CreditKeeps ==
  ASSUME StorageInv, NEW t \in Tasks, Credit(t)
  PROVE  StorageInv'
<1>1. /\ Finish(t) /\ task[t].pc = "credit" /\ credited' = [credited EXCEPT ![Op(t).obj] = @ + 1]
      /\ UNCHANGED <<disk, tmp, litter, artifacts, nodes, clock, acked, unsettled>>
  BY DEF Credit, Is
<1>2. todo[t] # <<>> /\ Op(t).op = "cache"
  BY <1>1 DEF StorageInv, TaskOK, Busy
<1> QED
  BY <1>1, <1>2, FinishKeeps DEF OnModel

\* The answer is given when the document is in place.
LEMMA DoneKeeps ==
  ASSUME StorageInv, NEW t \in Tasks, Done(t)
  PROVE  StorageInv'
<1>1. /\ Finish(t) /\ task[t].pc = "done"
      /\ UNCHANGED <<disk, tmp, litter, artifacts, nodes, clock, credited, unsettled>>
      /\ \/ acked' = acked
         \/ Op(t).op \in TurnOps \cup {"heartbeat"} /\ acked' = acked \cup {<<Op(t).obj, Op(t).turn>>}
  BY DEF Done, Is, Succeed, TurnOps
<1>2. todo[t] # <<>>
  BY <1>1 DEF StorageInv, TaskOK, Busy
<1>3. \A o \in Objects \ unsettled : OnModel(t, o) => Settled(o)
  BY <1>1 DEF StorageInv, ModelOK
<1> QED
  BY <1>1, <1>2, <1>3, FinishKeeps

\* A step of an operation that has no lock, or is past its writes: nothing but
\* the artifacts of its model can change.
LEMMA StepKeeps ==
  ASSUME StorageInv, NEW t \in Tasks,
         task[t].pc \in {"find", "lookup", "purge", "clear", "mkdir", "copy"},
         NEW q \in {"find", "erase", "purge", "mkdir", "copy", "done"}, Goto(t, q),
         UNCHANGED <<disk, tmp, litter, todo, nodes, clock, acked, credited, unsettled>>,
         \/ lock' = lock
         \/ task[t].pc = "clear" /\ lock' = Unlocked(t),
         \/ artifacts' = artifacts
         \/ /\ Op(t).op \in {"import", "remove"}
            /\ \E a \in {"none", "partial", "whole"} : artifacts' = [artifacts EXCEPT ![Op(t).obj] = a],
         Op(t).op \in {"import", "remove", "delete", "unlink"},
         q \in {"find", "erase"} => Op(t).op # "import",
         q = "purge" => Op(t).op = "remove" /\ ~Present(Meta(Op(t).obj)),
         q \in {"mkdir", "copy"} => Op(t).op = "import" /\ task[t].pc \in {"clear", "mkdir"},
         q = "done" =>
           \/ Op(t).op \in {"delete", "unlink"}
           \/ /\ KindOf(Op(t).obj) = "model" <=> Op(t).op = "import" \/ Op(t).obj \in unsettled
              /\ artifacts'[Op(t).obj] = "whole" <=> Op(t).op = "import"
           \/ Op(t).obj \in unsettled
  PROVE  StorageInv'
<1>1. StorageTypeOK /\ Right(t)
  BY DEF StorageInv, Right
<1>2. /\ task' \in [Tasks -> TaskType] /\ task'[t].pc = q
      /\ \A u \in Tasks : u # t => task'[u] = task[u]
  BY <1>1, GotoFacts DEF PCs
<1>3. Busy(t) /\ Op(t) \in OpSet /\ Op(t)' = Op(t) /\ Valid(Op(t)) /\ todo[t] # <<>>
  BY <1>1, OpFacts DEF Right, TaskOK, Busy, Op
<1>4. Op(t).op \in {"import", "remove"} => Op(t).obj \in Objects /\ OnModel(t, Op(t).obj)
  BY <1>3, OpCases DEF OnModel
<1>5. \/ artifacts' = artifacts
      \/ /\ artifacts' \in [Objects -> {"none", "partial", "whole"}]
         /\ \A o \in Objects : artifacts'[o] = artifacts[o] \/ OnModel(t, o)
  BY <1>1, <1>4 DEF StorageTypeOK
<1>6. /\ lock' \in [{"store", "history", "nodes"} -> Tasks \cup {Free}]
      /\ \A l \in {"store", "history", "nodes"} : lock[l] \in Tasks \ {t} => lock'[l] = lock[l]
  BY <1>1 DEF StorageTypeOK, Unlocked
<1>7. TaskOK(t)'
  BY <1>2, <1>3 DEF TaskOK, Holding, Busy, HistoryOps
<1>8. WriteOK(t)' /\ BlobOK(t)' /\ MetaOK(t)' /\ NodesOK(t)'
  BY <1>2, <1>3 DEF WriteOK, BlobOK, MetaOK, NodesOK, Writes, Writing
<1>9. ModelOK(t)'
  <2>1. ModelOK(t)
    BY <1>1 DEF Right
  <2> SUFFICES ASSUME NEW o \in Objects \ unsettled
               PROVE  /\ Busy(t)' /\ Op(t).op \in {"put", "unlink"} => Op(t).obj # o
                      /\ Writes(t, Meta(o))' => FALSE
                      /\ OnModel(t, o)' /\ q \in {"clear", "mkdir", "copy"} => KindOf(o) = "model"
                      /\ OnModel(t, o)' /\ q \in {"lookup", "done"} => Settled(o)'
                      /\ OnModel(t, o)' /\ q = "purge" => ~Present(Meta(o))
    BY <1>2, <1>3 DEF ModelOK, KindOf, Present
  <2>2. ~Writes(t, Meta(o))'
    BY <1>2 DEF Writes, Writing
  <2>3. OnModel(t, o)' <=> OnModel(t, o)
    BY <1>2, <1>3 DEF OnModel, Busy
  <2>4. KindOf(o)' = KindOf(o)
    BY DEF KindOf, Present
  <2>5. OnModel(t, o)' /\ q = "done" => Settled(o)'
    BY <2>3, <2>4 DEF OnModel, Settled
  <2>6. OnModel(t, o) /\ q \in {"mkdir", "copy"} => KindOf(o) = "model"
    BY <2>1 DEF ModelOK
  <2> QED
    BY <1>3, <2>1, <2>2, <2>3, <2>5, <2>6 DEF ModelOK, OnModel
<1>10. ConvOK(t)'
  BY <1>1, <1>2, <1>3 DEF Right, ConvOK, Writes, Writing, TurnOps, Busy
<1>11. \A c \in Conversations \ unsettled : ~Writes(t, Conv(c))'
  BY <1>2 DEF Writes, Writing
<1> QED
  BY <1>1, <1>2, <1>3, <1>5, <1>6, <1>7, <1>8, <1>9, <1>10, <1>11, LocalKeeps DEF Right

LEMMA FindKeeps ==
  ASSUME StorageInv, NEW t \in Tasks, Find(t)
  PROVE  StorageInv'
<1>1. task[t].pc = "find" /\ Op(t).op \in {"delete", "unlink", "remove"}
      /\ UNCHANGED <<disk, tmp, litter, lock, todo, artifacts, nodes, clock, acked, credited, unsettled>>
  BY DEF Find, Is, StorageInv, TaskOK, Untouched
<1>2. CASE Goto(t, "erase")
  BY <1>1, <1>2, StepKeeps
<1>3. CASE Op(t).op = "remove" /\ ~Present(Meta(Op(t).obj)) /\ Goto(t, "purge")
  BY <1>1, <1>3, StepKeeps
<1>4. CASE Op(t).op \in {"delete", "unlink"} /\ Goto(t, "done")
  BY <1>1, <1>4, StepKeeps
<1> QED
  BY <1>1, <1>2, <1>3, <1>4 DEF Find, PathOf

\* A model that is not found has no artifacts either, or is marked.
LEMMA LookupKeeps ==
  ASSUME StorageInv, NEW t \in Tasks, Lookup(t)
  PROVE  StorageInv'
<1>1. task[t].pc = "lookup" /\ Op(t).op = "remove" /\ todo[t] # <<>> /\ ModelOK(t)
  BY DEF Lookup, Is, StorageInv, TaskOK, Busy
<1>2. CASE Goto(t, "find") /\ Untouched /\ UNCHANGED nodes
  <2>1. UNCHANGED <<disk, tmp, litter, lock, todo, artifacts, nodes, clock, acked, credited, unsettled>>
    BY <1>2 DEF Untouched
  <2> QED
    BY <1>1, <1>2, <2>1, StepKeeps
<1>3. CASE Finish(t) /\ UNCHANGED <<disk, tmp, litter, artifacts, nodes, clock, acked, credited, unsettled>>
  <2>1. \A o \in Objects \ unsettled : OnModel(t, o) => Settled(o)
    BY <1>1 DEF ModelOK
  <2> QED
    BY <1>1, <1>3, <2>1, FinishKeeps
<1> QED
  BY <1>2, <1>3 DEF Lookup

\* The steps on the artifacts of a model, whose record is written (or erased)
\* before them.
LEMMA PurgeKeeps ==
  ASSUME StorageInv, NEW t \in Tasks, Purge(t)
  PROVE  StorageInv'
<1>1. /\ task[t].pc = "purge" /\ Op(t).op = "remove" /\ Busy(t) /\ todo[t] # <<>> /\ ModelOK(t)
      /\ artifacts' = [artifacts EXCEPT ![Op(t).obj] = "none"] /\ Goto(t, "done")
      /\ UNCHANGED <<disk, tmp, litter, lock, todo, nodes, clock, acked, credited, unsettled>>
  BY DEF Purge, Is, StorageInv, TaskOK, Busy
<1>2. Op(t).obj \in Objects /\ OnModel(t, Op(t).obj)
  BY <1>1, OpFacts, OpCases DEF StorageInv, OnModel
<1>3. artifacts'[Op(t).obj] = "none"
  BY <1>1, <1>2 DEF StorageInv, StorageTypeOK
<1>4. Op(t).obj \in unsettled \/ KindOf(Op(t).obj) = "none"
  BY <1>1, <1>2 DEF ModelOK, KindOf
<1> QED
  BY <1>1, <1>3, <1>4, StepKeeps

LEMMA ClearKeeps ==
  ASSUME StorageInv, NEW t \in Tasks, Clear(t)
  PROVE  StorageInv'
<1>1. /\ task[t].pc = "clear" /\ Op(t).op = "import"
      /\ artifacts' = [artifacts EXCEPT ![Op(t).obj] = "none"] /\ Goto(t, "mkdir") /\ lock' = Unlocked(t)
      /\ UNCHANGED <<disk, tmp, litter, todo, nodes, clock, acked, credited, unsettled>>
  BY DEF Clear, Is, StorageInv, TaskOK
<1> QED
  BY <1>1, StepKeeps

LEMMA MakeDirectoryKeeps ==
  ASSUME StorageInv, NEW t \in Tasks, MakeDirectory(t)
  PROVE  StorageInv'
<1>1. /\ task[t].pc = "mkdir" /\ Op(t).op = "import"
      /\ artifacts' = [artifacts EXCEPT ![Op(t).obj] = "partial"] /\ Goto(t, "copy")
      /\ UNCHANGED <<disk, tmp, litter, lock, todo, nodes, clock, acked, credited, unsettled>>
  BY DEF MakeDirectory, Is, StorageInv, TaskOK
<1> QED
  BY <1>1, StepKeeps

LEMMA CopyDirectoryKeeps ==
  ASSUME StorageInv, NEW t \in Tasks, task[t].pc = "copy",
         artifacts' = [artifacts EXCEPT ![Op(t).obj] = "whole"], Goto(t, "done"),
         UNCHANGED <<disk, tmp, litter, lock, todo, nodes, clock, acked, credited, unsettled>>
  PROVE  StorageInv'
<1>1. Op(t).op = "import" /\ Busy(t) /\ todo[t] # <<>> /\ ModelOK(t)
  BY DEF StorageInv, TaskOK, Busy
<1>2. Op(t).obj \in Objects /\ OnModel(t, Op(t).obj)
  BY <1>1, OpFacts, OpCases DEF StorageInv, OnModel
<1>3. artifacts'[Op(t).obj] = "whole"
  BY <1>1, <1>2 DEF StorageInv, StorageTypeOK
<1>4. Op(t).obj \in unsettled \/ KindOf(Op(t).obj) = "model"
  BY <1>1, <1>2 DEF ModelOK
<1> QED
  BY <1>1, <1>3, <1>4, StepKeeps

\* A request that begins overlaps another, or finds its model settled.
LEMMA BeginKeeps ==
  ASSUME StorageInv, NEW t \in Tasks, Begin(t)
  PROVE  StorageInv'
<1> USE DEF StorageInv
<1>1. /\ task[t].pc = "idle" /\ ~Busy(t) /\ todo[t] # <<>> /\ Valid(Op(t)) /\ Goto(t, FirstStep(Op(t)))
      /\ unsettled \subseteq unsettled'
      /\ Op(t).op \in {"delete", "put", "unlink"} => Op(t).obj \in unsettled'
      /\ Op(t).op \in {"import", "remove"} /\ Overlaps(t) => Op(t).obj \in unsettled'
      /\ UNCHANGED <<disk, tmp, litter, lock, todo, artifacts, nodes, clock, acked, credited>>
  BY DEF Begin, Is, Busy
<1>2. Op(t) \in OpSet /\ Op(t) = todo[t][1] /\ 1 \in DOMAIN todo[t] /\ Op(t)' = Op(t)
  BY <1>1, OpFacts DEF Op
<1>3. /\ FirstStep(Op(t)) \in {"find", "lookup", "engine", "transcript", "lock"}
      /\ FirstStep(Op(t)) = "find" => Op(t).op \in {"delete", "unlink", "remove"}
      /\ FirstStep(Op(t)) = "lookup" => Op(t).op = "remove"
      /\ FirstStep(Op(t)) \in {"transcript", "engine"} => Op(t).op = "send"
      /\ FirstStep(Op(t)) = "lock" => LockOf(Op(t).op) # "none"
  BY <1>2 DEF FirstStep, OpSet, LockOf
<1>4. /\ task' \in [Tasks -> TaskType] /\ task'[t].pc = FirstStep(Op(t))
      /\ \A u \in Tasks : u # t => task'[u] = task[u]
  BY <1>1, <1>3, GotoFacts DEF PCs
<1>5. StorageTypeOK'
  BY <1>1, <1>4 DEF StorageTypeOK
<1>6. DocInv' /\ BlobInv' /\ CreateInv'
  BY <1>1 DEF DocInv, BlobInv, CreateInv, Present, Fits
<1>7. ConvInv'
  BY <1>1 DEF ConvInv, Present, Acked
<1>8. NodesInv'
  BY <1>1 DEF NodesInv, Present
<1>9. MetaInv'
  BY <1>1, <1>4 DEF MetaInv
<1>10. Busy(t)' /\ \A u \in Tasks : u # t => (Busy(u)' <=> Busy(u)) /\ Op(u)' = Op(u)
  BY <1>1, <1>3, <1>4 DEF Busy, Op
<1>11. \A u \in Tasks, o \in Objects : u # t => (OnModel(u, o)' <=> OnModel(u, o))
  BY <1>10 DEF OnModel
<1>12. \A o \in Objects : OnModel(t, o)' <=> Op(t).op \in {"import", "remove"} /\ Op(t).obj = o
  BY <1>2, <1>10 DEF OnModel
<1>13. \A o \in Objects \ unsettled', u \in Tasks : OnModel(t, o)' => ~OnModel(u, o)
  <2> SUFFICES ASSUME NEW o \in Objects \ unsettled', NEW u \in Tasks, OnModel(t, o)', OnModel(u, o) PROVE FALSE
    OBVIOUS
  <2>1. u # t /\ Busy(u) /\ Op(u).obj = Op(t).obj
    BY <1>1, <1>12 DEF OnModel
  <2>2. Overlaps(t)
    BY <2>1 DEF Overlaps, Busy
  <2> QED
    BY <1>1, <1>12, <2>2
<1>14. \A o \in Objects : (Settled(o)' <=> Settled(o)) /\ KindOf(o)' = KindOf(o) /\ (Present(Meta(o))' <=> Present(Meta(o)))
  BY <1>1 DEF Settled, KindOf, Present
<1>15. ModelInv'
  <2> SUFFICES ASSUME NEW o \in Objects \ unsettled'
               PROVE  /\ Present(Meta(o)) => disk[Meta(o)].kind = "model"
                      /\ (\A u \in Tasks : ~OnModel(u, o)') => Settled(o)
                      /\ \A u, v \in Tasks : OnModel(u, o)' /\ OnModel(v, o)' => u = v
    BY <1>1, <1>14 DEF ModelInv
  <2>1. o \in Objects \ unsettled
    BY <1>1
  <2>2. ~OnModel(t, o)
    BY <1>1 DEF OnModel
  <2>3. (\A u \in Tasks : ~OnModel(u, o)') => Settled(o)
    BY <1>11, <2>1, <2>2 DEF ModelInv
  <2>4. ASSUME NEW u \in Tasks, NEW v \in Tasks, OnModel(u, o)', OnModel(v, o)' PROVE u = v
    BY <1>11, <1>13, <2>1, <2>4 DEF ModelInv
  <2> QED
    BY <2>1, <2>3, <2>4 DEF ModelInv
<1>16. \A c : Acked(c, {})' = Acked(c, {})
  BY <1>1 DEF Acked
<1>20. ASSUME NEW u \in Tasks, u # t PROVE Right(u)'
  <2>1. Op(u)' = Op(u) /\ (Busy(u)' <=> Busy(u)) /\ task'[u] = task[u]
    BY <1>4, <1>10, <1>20
  <2>2. TaskOK(u)'
    BY <1>1, <2>1 DEF TaskOK, Holding
  <2>3. WriteOK(u)'
    BY <1>1, <2>1 DEF WriteOK, Writing, Fits
  <2>4. BlobOK(u)' /\ MetaOK(u)' /\ NodesOK(u)'
    BY <1>1, <2>1 DEF BlobOK, MetaOK, NodesOK, Writes, Writing, Present
  <2>5. ModelOK(u)'
    <3>1. ModelOK(u)
      OBVIOUS
    <3> QED
      BY <1>1, <1>11, <1>14, <1>20, <2>1, <3>1 DEF ModelOK, Writes, Writing
  <2>6. ConvOK(u)'
    <3>1. ConvOK(u)
      OBVIOUS
    <3>2. \A c \in Conversations : (Kept(u, c)' <=> Kept(u, c)) /\ (OnFile(u, c)' <=> OnFile(u, c))
      BY <1>1, <2>1 DEF Kept, OnFile, Acked, Present
    <3> QED
      BY <1>1, <2>1, <3>1, <3>2 DEF ConvOK, Writes, Writing, Present, Acked
  <2> QED
    BY <2>2, <2>3, <2>4, <2>5, <2>6 DEF Right
<1>21. TaskOK(t)' /\ WriteOK(t)' /\ BlobOK(t)' /\ MetaOK(t)' /\ NodesOK(t)'
  <2>1. TaskOK(t)'
    BY <1>1, <1>2, <1>3, <1>4 DEF TaskOK, Holding, Busy
  <2> QED
    BY <1>3, <1>4, <2>1 DEF WriteOK, BlobOK, MetaOK, NodesOK, Writes, Writing
<1>22. ModelOK(t)'
  <2>1. ~Writing(t)'
    BY <1>3, <1>4 DEF Writing
  <2>2. \A o \in Objects \ unsettled' : OnModel(t, o)' => Settled(o)'
    BY <1>1, <1>13, <1>14 DEF ModelInv
  <2> QED
    BY <1>1, <1>2, <1>3, <1>4, <2>1, <2>2 DEF ModelOK, Writes
<1>23. ConvOK(t)'
  BY <1>1, <1>2, <1>3, <1>4 DEF ConvOK, Writes, Writing
<1>24. ASSUME NEW u \in Tasks PROVE PendOK(u)'
  <2>1. \A c : Pending(u, c)' => Pending(u, c)
    BY <1>1, <1>4 DEF Pending
  <2>2. \A v \in Tasks, c \in Conversations : Writes(v, Conv(c))' => Writes(v, Conv(c))
    BY <1>3, <1>4 DEF Writes, Writing
  <2> QED
    BY <1>1, <2>1, <2>2 DEF PendOK, Unmade, Present, Acked
<1> QED
  BY <1>5, <1>6, <1>7, <1>8, <1>9, <1>15, <1>20, <1>21, <1>22, <1>23, <1>24 DEF Right

\* A step of a task on one path, as the others see it: what they are writing,
\* hold or have found there is not changed.
LEMMA OthersKeep ==
  ASSUME StorageInv, NEW t \in Tasks, NEW p \in Paths,
         \A u \in Tasks : u # t => task'[u] = task[u],
         UNCHANGED <<litter, lock, todo, artifacts, nodes, acked, credited, unsettled>>,
         \A q \in Paths : q # p => disk'[q] = disk[q] /\ tmp'[q] = tmp[q],
         \/ tmp' = tmp /\ disk'[p] = Absent
         \/ \A u \in Tasks : u # t => ~Writes(u, p),
         \A o \in Objects : p = Blob(o) => disk'[p] = disk[p] \/ disk'[p] # Absent,
         \A o \in Objects \ unsettled : p = Meta(o) => disk'[p] = disk[p] \/ OnModel(t, o),
         \A c \in Conversations \ unsettled : p = Conv(c) =>
            disk'[p] = disk[p] \/ \A u \in Tasks : u # t => ~(Holding(u) /\ LockOf(Op(u).op) = "history"),
         p = NodesFile =>
            disk'[p] = disk[p] \/ \A u \in Tasks : u # t => ~(Holding(u) /\ LockOf(Op(u).op) = "nodes"),
         NEW u \in Tasks, u # t
  PROVE  Right(u)'
<1>1. /\ Op(u)' = Op(u) /\ (Busy(u)' <=> Busy(u)) /\ task'[u] = task[u]
      /\ (Holding(u)' <=> Holding(u)) /\ (Writing(u)' <=> Writing(u))
  BY DEF Busy, Op, Holding, Writing
<1>2. TaskOK(u)
  BY DEF StorageInv
<1>3. Busy(u) => Op(u) \in OpSet
  BY <1>2, OpFacts DEF StorageInv, TaskOK
<1>4. TaskOK(u)'
  BY <1>1, <1>2 DEF TaskOK
<1>5. WriteOK(u)'
  <2>1. WriteOK(u)
    BY DEF StorageInv
  <2>2. Writing(u) => task[u].path \in Paths
    BY DEF StorageInv, StorageTypeOK, TaskType
  <2>3. Writing(u) => tmp'[task[u].path] = tmp[task[u].path]
    BY <2>2 DEF Writes
  <2> QED
    BY <1>1, <2>1, <2>3 DEF WriteOK, Writing, Fits
<1>6. BlobOK(u)'
  <2>1. BlobOK(u)
    BY DEF StorageInv
  <2>2. \A o \in Objects : /\ Present(Blob(o)) => disk'[Blob(o)] # Absent
                           /\ Writes(u, Blob(o)) /\ ~Present(Blob(o)) => disk'[Blob(o)] = Absent
    BY PathFacts DEF Present
  <2>3. Busy(u) /\ Op(u).op \in StoreOps => Op(u).obj \in Objects
    BY <1>3, OpCases DEF StoreOps
  <2>4. /\ task[u].pc \in {"meta", "credit"} => Op(u).op \in StoreOps /\ Busy(u)
        /\ Writes(u, Blob(Op(u).obj)) \/ Writes(u, Meta(Op(u).obj)) => Op(u).op \in StoreOps /\ Busy(u)
    <3>1. WriteOK(u)
      BY DEF StorageInv
    <3> QED
      BY <1>2, <3>1, PathFacts DEF TaskOK, WriteOK, Writes, Writing, Busy, StoreOps
  <2> QED
    BY <1>1, <2>1, <2>2, <2>3, <2>4 DEF BlobOK, Writes, Present
<1>7. MetaOK(u)'
  <2>1. MetaOK(u)
    BY DEF StorageInv
  <2> QED
    BY <1>1, <2>1, PathFacts DEF MetaOK, Writes, Present
<1>8. ModelOK(u)'
  <2>1. ModelOK(u)
    BY DEF StorageInv
  <2>2. \A o \in Objects : OnModel(u, o)' <=> OnModel(u, o)
    BY <1>1 DEF OnModel
  <2>3. \A o \in Objects \ unsettled : OnModel(u, o) => disk'[Meta(o)] = disk[Meta(o)]
    BY PathFacts DEF StorageInv, ModelInv
  <2>4. \A o \in Objects \ unsettled : OnModel(u, o) =>
          /\ KindOf(o)' = KindOf(o) /\ (Settled(o)' <=> Settled(o)) /\ (Present(Meta(o))' <=> Present(Meta(o)))
    BY <2>3 DEF KindOf, Settled, Present
  <2> QED
    BY <1>1, <2>1, <2>2, <2>4 DEF ModelOK, Writes
<1>9. ConvOK(u)'
  <2>1. ConvOK(u)
    BY DEF StorageInv
  <2>2. Op(u).op \in TurnOps => LockOf(Op(u).op) = "history" /\ Op(u).op \in HistoryOps
    BY DEF TurnOps, HistoryOps, LockOf
  <2>3. \A c \in Conversations \ unsettled :
          task[u].pc = "done" /\ Op(u).obj = c /\ Op(u).op \in TurnOps => disk'[Conv(c)] = disk[Conv(c)]
    BY <2>2, PathFacts DEF Holding
  <2>4. \A c \in Conversations \ unsettled : Writes(u, Conv(c)) => disk'[Conv(c)] = disk[Conv(c)]
    <3> SUFFICES ASSUME NEW c \in Conversations \ unsettled, Writes(u, Conv(c)) PROVE disk'[Conv(c)] = disk[Conv(c)]
      OBVIOUS
    <3>1. Op(u).op \in HistoryOps
      <4>1. WriteOK(u)
        BY DEF StorageInv
      <4> QED
        BY <4>1, PathFacts DEF WriteOK, Writes
    <3>2. Holding(u) /\ LockOf(Op(u).op) = "history"
      BY <1>3, <3>1, OpCases DEF Holding, Writes, Writing, Busy
    <3> QED
      BY <3>2, PathFacts
  <2>5. \A c \in Conversations : Kept(u, c)' <=> Kept(u, c)
    BY <1>1 DEF Kept, Acked
  <2> QED
    BY <1>1, <2>1, <2>3, <2>4, <2>5 DEF ConvOK, OnFile, Writes, Present, Acked
<1>10. NodesOK(u)'
  <2>1. NodesOK(u)
    BY DEF StorageInv
  <2>2. task[u].pc = "done" /\ Op(u).op = "heartbeat" => disk'[NodesFile] = disk[NodesFile]
    BY PathFacts DEF Holding, LockOf
  <2> QED
    BY <1>1, <2>1, <2>2 DEF NodesOK, Writes, Present
<1> QED
  BY <1>4, <1>5, <1>6, <1>7, <1>8, <1>9, <1>10 DEF Right

\* What a writer is about to put in place.
LEMMA WriterFacts ==
  ASSUME StorageInv, NEW t \in Tasks, Writing(t)
  PROVE  /\ task[t].path \in Paths /\ task[t].doc \in Docs /\ task[t].doc # Absent
         /\ Fits(task[t].path, task[t].doc) /\ Op(t) \in OpSet /\ todo[t] # <<>> /\ Busy(t) /\ Holding(t)
         /\ Writes(t, task[t].path)
         /\ \A u \in Tasks : u # t => ~Writes(u, task[t].path)
         /\ \A o \in Objects : task[t].path = Blob(o) \/ task[t].path = Meta(o) => Op(t).obj = o
         /\ \A o \in Objects \ unsettled : task[t].path = Meta(o) => OnModel(t, o) /\ Op(t).op = "import"
         /\ \A c \in Conversations : task[t].path = Conv(c) => Op(t).obj = c /\ Op(t).op \in HistoryOps
         /\ task[t].path = NodesFile => Op(t).op = "heartbeat"
         /\ \A c \in Conversations, u \in Tasks : task[t].path = Conv(c) /\ u # t => ~(Holding(u) /\ LockOf(Op(u).op) = "history")
         /\ \A u \in Tasks : task[t].path = NodesFile /\ u # t => ~(Holding(u) /\ LockOf(Op(u).op) = "nodes")
<1>1. task[t].path \in Paths
  BY DEF StorageInv, StorageTypeOK, TaskType
<1>2. WriteOK(t) /\ TaskOK(t) /\ ModelOK(t)
  BY DEF StorageInv
<1>3. Op(t) \in OpSet /\ todo[t] # <<>> /\ Busy(t) /\ Holding(t) /\ Writes(t, task[t].path)
  BY <1>2, OpFacts DEF StorageInv, TaskOK, Writing, Busy, Holding, Writes
<1>4. task[t].doc \in Docs /\ task[t].doc # Absent /\ Fits(task[t].path, task[t].doc)
  BY <1>2, DocFacts DEF WriteOK
<1>5. \A u \in Tasks : u # t => ~Writes(u, task[t].path)
  BY OneWriter DEF Writes
<1>6. /\ \A o \in Objects : task[t].path = Blob(o) \/ task[t].path = Meta(o) => Op(t).obj = o
      /\ \A c \in Conversations : task[t].path = Conv(c) => Op(t).obj = c /\ Op(t).op \in HistoryOps
      /\ task[t].path = NodesFile => Op(t).op = "heartbeat"
  BY <1>2, PathFacts DEF WriteOK
<1>7. \A o \in Objects \ unsettled : task[t].path = Meta(o) => OnModel(t, o) /\ Op(t).op = "import"
  BY <1>2, <1>3, <1>6 DEF ModelOK, OnModel, Writes
<1>8. /\ \A c \in Conversations : task[t].path = Conv(c) => LockOf(Op(t).op) = "history"
      /\ task[t].path = NodesFile => LockOf(Op(t).op) = "nodes"
  BY <1>3, <1>6, OpCases
<1> QED
  BY <1>1, <1>3, <1>4, <1>5, <1>6, <1>7, <1>8, OneWriter

\* A creation that is still to be performed: nobody writes it yet.
LEMMA PendKeeps ==
  ASSUME StorageInv, NEW t \in Tasks, task[t].pc # "idle", task'[t].pc \notin {"idle", "lock", "read", "write"},
         task'[t].path = task[t].path, Writing(t)' => Writing(t),
         \A u \in Tasks : u # t => task'[u] = task[u],
         UNCHANGED <<todo, acked, unsettled>>,
         \A c \in Conversations \ unsettled : ~Present(Conv(c)) /\ disk'[Conv(c)] # Absent => Writes(t, Conv(c)),
         NEW u \in Tasks
  PROVE  PendOK(u)'
<1>1. \A c : Pending(u, c)' => Pending(u, c)
  BY DEF Pending
<1>2. \A v \in Tasks, c \in Conversations : Writes(v, Conv(c))' => Writes(v, Conv(c))
  BY DEF Writes, Writing
<1>3. PendOK(u)
  BY DEF StorageInv
<1> QED
  BY <1>1, <1>2, <1>3 DEF PendOK, Unmade, Present, Acked

\* The temporary is written beside the file that it will replace.
LEMMA WriteTmpKeeps ==
  ASSUME StorageInv, NEW t \in Tasks, WriteTmp(t)
  PROVE  StorageInv'
<1> DEFINE q == IF Present(task[t].path) THEN "replace" ELSE "rename"
<1>1. /\ task[t].pc = "write" /\ Writing(t) /\ Goto(t, q) /\ tmp' = [tmp EXCEPT ![task[t].path] = task[t].doc]
      /\ UNCHANGED <<disk, litter, lock, todo, artifacts, nodes, clock, acked, credited, unsettled>>
  BY DEF WriteTmp, Is, Writing
<1>2. PICK p : p = task[t].path
  OBVIOUS
<1>3. PICK doc : doc = task[t].doc
  OBVIOUS
<1>4. /\ p \in Paths /\ doc \in Docs /\ doc # Absent /\ Fits(p, doc) /\ Op(t) \in OpSet /\ todo[t] # <<>>
      /\ Busy(t) /\ Holding(t) /\ Writes(t, p) /\ \A u \in Tasks : u # t => ~Writes(u, p)
      /\ \A o \in Objects : p = Blob(o) \/ p = Meta(o) => Op(t).obj = o
      /\ \A o \in Objects \ unsettled : p = Meta(o) => OnModel(t, o) /\ Op(t).op = "import"
      /\ \A c \in Conversations : p = Conv(c) => Op(t).obj = c /\ Op(t).op \in HistoryOps
      /\ p = NodesFile => Op(t).op = "heartbeat"
  BY <1>1, <1>2, <1>3, WriterFacts
<1>5. /\ task' \in [Tasks -> TaskType] /\ task'[t].pc = q /\ task'[t].path = p /\ task'[t].doc = doc
      /\ task'[t].after = task[t].after
      /\ \A u \in Tasks : u # t => task'[u] = task[u]
  BY <1>1, <1>2, <1>3, GotoFacts DEF StorageInv, PCs
<1>6. /\ tmp' \in [Paths -> Docs \cup {Absent}] /\ tmp'[p] = doc
      /\ \A r \in Paths : r # p => tmp'[r] = tmp[r]
  BY <1>1, <1>2, <1>3, <1>4 DEF StorageInv, StorageTypeOK
<1>7. /\ q = "replace" => Present(p)
      /\ q = "rename" => ~Present(p)
      /\ q \in {"replace", "rename"}
  BY <1>2
<1> HIDE DEF q
<1>8. Op(t)' = Op(t)
  BY <1>1 DEF Op
<1>9. StorageTypeOK'
  BY <1>1, <1>5, <1>6 DEF StorageInv, StorageTypeOK
<1>10. DocInv'
  BY <1>1, <1>4, <1>6 DEF StorageInv, DocInv, Fits
<1>11. BlobInv'
  <2>1. \A o \in Objects : p = Meta(o) => Present(Blob(o))
    BY <1>4 DEF StorageInv, BlobOK
  <2> QED
    BY <1>1, <1>6, <2>1, PathFacts DEF StorageInv, BlobInv, Present
<1>12. MetaInv'
  BY <1>1, <1>5, <1>6, <1>7, PathFacts DEF StorageInv, MetaInv, Present
<1>13. ModelInv'
  <2>1. \A u \in Tasks, o \in Objects : OnModel(u, o)' <=> OnModel(u, o)
    BY <1>1, <1>4, <1>5, <1>7 DEF OnModel, Busy, Op
  <2> QED
    BY <1>1, <2>1 DEF StorageInv, ModelInv, Settled, KindOf, Present
<1>14. CreateInv'
  BY <1>1 DEF StorageInv, CreateInv
<1>15. ConvInv'
  <2>1. \A c \in Conversations \ unsettled : p = Conv(c) => Acked(c, Turns(doc))
    BY <1>3, <1>4 DEF StorageInv, ConvOK, Kept
  <2> QED
    BY <1>1, <1>4, <1>6, <2>1, PathFacts DEF StorageInv, ConvInv, Present, Acked
<1>16. NodesInv'
  <2>1. p = NodesFile => doc.nodes = nodes
    BY <1>3, <1>4 DEF StorageInv, NodesOK
  <2> QED
    BY <1>1, <1>4, <1>6, <2>1, PathFacts DEF StorageInv, NodesInv, Present
<1>17. ASSUME NEW u \in Tasks, u # t PROVE Right(u)'
  BY <1>1, <1>4, <1>5, <1>6, <1>17, OthersKeep
<1>18. TaskOK(t)'
  BY <1>1, <1>4, <1>5, <1>7, <1>8 DEF StorageInv, TaskOK, Holding, Busy
<1>19. WriteOK(t)'
  <2>1. WriteOK(t)
    BY DEF StorageInv
  <2> QED
    BY <1>1, <1>2, <1>3, <1>4, <1>5, <1>6, <1>8, <2>1 DEF WriteOK, Writing, Fits
<1>20. BlobOK(t)'
  <2>1. BlobOK(t)
    BY DEF StorageInv
  <2> QED
    BY <1>1, <1>2, <1>5, <1>7, <1>8, <2>1 DEF BlobOK, Writes, Writing, Present
<1>21. MetaOK(t)'
  <2>1. MetaOK(t)
    BY DEF StorageInv
  <2> QED
    BY <1>1, <1>2, <1>3, <1>5, <1>7, <2>1 DEF MetaOK, Writes, Writing, Present
<1>22. ModelOK(t)'
  <2>1. ModelOK(t)
    BY DEF StorageInv
  <2> QED
    BY <1>1, <1>2, <1>3, <1>4, <1>5, <1>7, <1>8, <2>1 DEF ModelOK, Writes, Writing, Busy, OnModel, KindOf, Present
<1>23. ConvOK(t)'
  <2>1. ConvOK(t)
    BY DEF StorageInv
  <2>2. \A c \in Conversations : Kept(t, c)' <=> Kept(t, c)
    BY <1>1, <1>3, <1>5, <1>8 DEF Kept, Acked
  <2> QED
    BY <1>1, <1>2, <1>4, <1>5, <1>7, <1>8, <2>1, <2>2 DEF ConvOK, Writes, Writing, Busy
<1>24. NodesOK(t)'
  <2>1. NodesOK(t)
    BY DEF StorageInv
  <2> QED
    BY <1>1, <1>2, <1>3, <1>5, <1>7, <1>8, <2>1 DEF NodesOK, Writes, Writing
<1>25. ASSUME NEW u \in Tasks PROVE PendOK(u)'
  BY <1>1, <1>2, <1>5, <1>7, PendKeeps DEF Present
<1> QED
  BY <1>9, <1>10, <1>11, <1>12, <1>13, <1>14, <1>15, <1>16, <1>17, <1>18, <1>19, <1>20, <1>21, <1>22, <1>23, <1>24, <1>25
     DEF Right, StorageInv

\* The old file goes while its successor lies beside it.
LEMMA RemoveOldKeeps ==
  ASSUME StorageInv, NEW t \in Tasks, task[t].pc = "replace", Present(task[t].path),
         disk' = [disk EXCEPT ![task[t].path] = Absent], Goto(t, "rename"),
         UNCHANGED <<tmp, litter, lock, todo, artifacts, nodes, clock, acked, credited, unsettled>>
  PROVE  StorageInv'
<1>1. Writing(t)
  BY DEF Writing
<1>2. PICK p : p = task[t].path
  OBVIOUS
<1>3. PICK doc : doc = task[t].doc
  OBVIOUS
<1>4. /\ p \in Paths /\ doc \in Docs /\ doc # Absent /\ Fits(p, doc) /\ Op(t) \in OpSet /\ todo[t] # <<>>
      /\ Busy(t) /\ Holding(t) /\ Writes(t, p) /\ \A u \in Tasks : u # t => ~Writes(u, p)
      /\ \A o \in Objects : p = Blob(o) \/ p = Meta(o) => Op(t).obj = o
      /\ \A o \in Objects \ unsettled : p = Meta(o) => OnModel(t, o) /\ Op(t).op = "import"
      /\ \A c \in Conversations : p = Conv(c) => Op(t).obj = c /\ Op(t).op \in HistoryOps
      /\ p = NodesFile => Op(t).op = "heartbeat"
      /\ \A c \in Conversations, u \in Tasks : p = Conv(c) /\ u # t => ~(Holding(u) /\ LockOf(Op(u).op) = "history")
      /\ \A u \in Tasks : p = NodesFile /\ u # t => ~(Holding(u) /\ LockOf(Op(u).op) = "nodes")
  BY <1>1, <1>2, <1>3, WriterFacts
<1>5. /\ task' \in [Tasks -> TaskType] /\ task'[t].pc = "rename" /\ task'[t].path = p /\ task'[t].doc = doc
      /\ task'[t].after = task[t].after
      /\ \A u \in Tasks : u # t => task'[u] = task[u]
  BY <1>2, <1>3, GotoFacts DEF StorageInv, PCs
<1>6. /\ disk' \in [Paths -> Docs \cup {Absent}] /\ disk'[p] = Absent
      /\ \A r \in Paths : r # p => disk'[r] = disk[r]
  BY <1>2, <1>4 DEF StorageInv, StorageTypeOK
<1>7. tmp[p] = doc /\ \A o \in Objects : p # Blob(o)
  <2>1. WriteOK(t) /\ BlobOK(t)
    BY DEF StorageInv
  <2> QED
    BY <1>1, <1>2, <1>3, <1>4, <2>1 DEF WriteOK, BlobOK
<1>8. Op(t)' = Op(t)
  BY DEF Op
<1>9. StorageTypeOK'
  BY <1>5, <1>6 DEF StorageInv, StorageTypeOK
<1>10. DocInv'
  BY <1>6 DEF StorageInv, DocInv, Fits
<1>11. BlobInv'
  BY <1>6, <1>7, PathFacts DEF StorageInv, BlobInv, Present
<1>12. MetaInv'
  BY <1>2, <1>5, <1>6, PathFacts DEF StorageInv, MetaInv
<1>13. ModelInv'
  <2>1. \A u \in Tasks, o \in Objects : OnModel(u, o)' <=> OnModel(u, o)
    BY <1>4, <1>5 DEF OnModel, Busy, Op
  <2>2. \A o \in Objects \ unsettled : (\A u \in Tasks : ~OnModel(u, o)) => disk'[Meta(o)] = disk[Meta(o)]
    BY <1>4, <1>6, PathFacts
  <2>3. \A o \in Objects : disk'[Meta(o)] # Absent => disk'[Meta(o)] = disk[Meta(o)]
    BY <1>6, PathFacts
  <2> QED
    BY <2>1, <2>2, <2>3 DEF StorageInv, ModelInv, Settled, KindOf, Present
<1>14. CreateInv'
  BY DEF StorageInv, CreateInv
<1>15. ConvInv'
  <2>1. \A c \in Conversations \ unsettled : p = Conv(c) => Acked(c, Turns(doc))
    BY <1>3, <1>4 DEF StorageInv, ConvOK, Kept
  <2> QED
    BY <1>4, <1>6, <1>7, <2>1, PathFacts DEF StorageInv, ConvInv, Present, Acked
<1>16. NodesInv'
  <2>1. p = NodesFile => doc.nodes = nodes
    BY <1>3, <1>4 DEF StorageInv, NodesOK
  <2> QED
    BY <1>4, <1>6, <1>7, <2>1, PathFacts DEF StorageInv, NodesInv, Present
<1>17. ASSUME NEW u \in Tasks, u # t PROVE Right(u)'
  BY <1>4, <1>5, <1>6, <1>7, <1>17, OthersKeep
<1>18. TaskOK(t)'
  BY <1>4, <1>5, <1>8 DEF StorageInv, TaskOK, Holding, Busy
<1>19. WriteOK(t)'
  <2>1. WriteOK(t)
    BY DEF StorageInv
  <2> QED
    BY <1>1, <1>2, <1>3, <1>4, <1>5, <1>6, <1>7, <1>8, <2>1 DEF WriteOK, Writing, Fits
<1>20. BlobOK(t)'
  <2>1. BlobOK(t)
    BY DEF StorageInv
  <2>2. Writes(t, Meta(Op(t).obj)) => Present(Blob(Op(t).obj)) /\ Op(t).obj \in Objects
    <3>1. WriteOK(t)
      BY DEF StorageInv
    <3> QED
      BY <1>4, <2>1, <3>1, OpCases, PathFacts DEF WriteOK, BlobOK, Writes
  <2>3. p # Blob(Op(t).obj)
    BY <1>2, <1>4, <2>1 DEF BlobOK
  <2> QED
    BY <1>2, <1>4, <1>5, <1>6, <1>7, <1>8, <2>1, <2>2, <2>3, PathFacts DEF BlobOK, Writes, Writing, Present
<1>21. MetaOK(t)'
  BY <1>5, <1>6 DEF MetaOK, Writes, Writing, Present
<1>22. ModelOK(t)'
  <2>1. ModelOK(t)
    BY DEF StorageInv
  <2> QED
    BY <1>1, <1>2, <1>3, <1>4, <1>5, <1>8, <2>1 DEF ModelOK, Writes, Writing, Busy, OnModel
<1>23. ConvOK(t)'
  <2>1. ConvOK(t)
    BY DEF StorageInv
  <2>2. \A c \in Conversations : Kept(t, c)' <=> Kept(t, c)
    BY <1>3, <1>5, <1>8 DEF Kept, Acked
  <2> QED
    BY <1>1, <1>2, <1>4, <1>5, <1>8, <2>1, <2>2 DEF ConvOK, Writes, Writing, Busy
<1>24. NodesOK(t)'
  <2>1. NodesOK(t)
    BY DEF StorageInv
  <2> QED
    BY <1>1, <1>2, <1>3, <1>5, <1>8, <2>1 DEF NodesOK, Writes, Writing
<1>25. ASSUME NEW u \in Tasks PROVE PendOK(u)'
  <2>1. \A c \in Conversations \ unsettled : ~Present(Conv(c)) => disk'[Conv(c)] = Absent
    BY <1>6, PathFacts DEF Present
  <2> QED
    BY <1>1, <1>2, <1>5, <2>1, PendKeeps
<1> QED
  BY <1>9, <1>10, <1>11, <1>12, <1>13, <1>14, <1>15, <1>16, <1>17, <1>18, <1>19, <1>20, <1>21, <1>22, <1>23, <1>24, <1>25
     DEF Right, StorageInv

\* The successor takes the name; the operation goes on behind it.
LEMMA RenameKeeps ==
  ASSUME StorageInv, NEW t \in Tasks, Rename(t)
  PROVE  StorageInv'
<1>1. /\ task[t].pc = "rename" /\ Writing(t) /\ Goto(t, task[t].after)
      /\ disk' = [disk EXCEPT ![task[t].path] = tmp[task[t].path]]
      /\ tmp' = [tmp EXCEPT ![task[t].path] = Absent]
      /\ UNCHANGED <<litter, lock, todo, artifacts, nodes, clock, acked, credited, unsettled>>
  BY DEF Rename, Is, Writing
<1>2. PICK p : p = task[t].path
  OBVIOUS
<1>3. PICK doc : doc = task[t].doc
  OBVIOUS
<1>4. PICK q : q = task[t].after
  OBVIOUS
<1>5. /\ p \in Paths /\ doc \in Docs /\ doc # Absent /\ Fits(p, doc) /\ Op(t) \in OpSet /\ todo[t] # <<>>
      /\ Busy(t) /\ Holding(t) /\ Writes(t, p) /\ \A u \in Tasks : u # t => ~Writes(u, p)
      /\ \A o \in Objects : p = Blob(o) \/ p = Meta(o) => Op(t).obj = o
      /\ \A o \in Objects \ unsettled : p = Meta(o) => OnModel(t, o) /\ Op(t).op = "import"
      /\ \A c \in Conversations : p = Conv(c) => Op(t).obj = c /\ Op(t).op \in HistoryOps
      /\ p = NodesFile => Op(t).op = "heartbeat"
      /\ \A c \in Conversations, u \in Tasks : p = Conv(c) /\ u # t => ~(Holding(u) /\ LockOf(Op(u).op) = "history")
      /\ \A u \in Tasks : p = NodesFile /\ u # t => ~(Holding(u) /\ LockOf(Op(u).op) = "nodes")
  BY <1>1, <1>2, <1>3, WriterFacts
<1>6. /\ \/ p = Blob(Op(t).obj) /\ Op(t).obj \in Objects /\ Op(t).op \in {"put", "import"} /\ q = "meta"
         \/ p = Blob(Op(t).obj) /\ Op(t).obj \in Objects /\ Op(t).op = "cache" /\ q = "credit"
         \/ p = Meta(Op(t).obj) /\ Op(t).obj \in Objects /\ Op(t).op \in {"put", "rename"} /\ q = "done"
         \/ p = Meta(Op(t).obj) /\ Op(t).obj \in Objects /\ Op(t).op = "import" /\ q = "clear"
         \/ p = Conv(Op(t).obj) /\ Op(t).op \in HistoryOps /\ q = "done"
         \/ p = NodesFile /\ Op(t).op = "heartbeat" /\ q = "done"
      /\ tmp[p] = doc
  <2>1. WriteOK(t)
    BY DEF StorageInv
  <2> QED
    BY <1>1, <1>2, <1>3, <1>4, <1>5, <2>1, OpCases DEF WriteOK
<1>7. q \in {"meta", "credit", "clear", "done"}
  BY <1>6
<1>8. /\ task' \in [Tasks -> TaskType] /\ task'[t].pc = q /\ task'[t].path = p
      /\ \A u \in Tasks : u # t => task'[u] = task[u]
  BY <1>1, <1>2, <1>4, <1>7, GotoFacts DEF StorageInv, PCs
<1>9. /\ disk' \in [Paths -> Docs \cup {Absent}] /\ disk'[p] = doc
      /\ tmp' \in [Paths -> Docs \cup {Absent}] /\ tmp'[p] = Absent
      /\ \A r \in Paths : r # p => disk'[r] = disk[r] /\ tmp'[r] = tmp[r]
  BY <1>1, <1>2, <1>5, <1>6 DEF StorageInv, StorageTypeOK
<1>10. Op(t)' = Op(t)
  BY <1>1 DEF Op
<1>11. StorageTypeOK'
  BY <1>1, <1>8, <1>9 DEF StorageInv, StorageTypeOK
<1>12. DocInv'
  BY <1>1, <1>5, <1>9 DEF StorageInv, DocInv, Fits
<1>13. BlobInv'
  <2>1. \A o \in Objects : p = Meta(o) => Present(Blob(o))
    BY <1>5 DEF StorageInv, BlobOK
  <2> QED
    BY <1>1, <1>5, <1>9, <2>1, PathFacts DEF StorageInv, BlobInv, Present
<1>14. MetaInv'
  BY <1>1, <1>8, <1>9, PathFacts DEF StorageInv, MetaInv
<1>15. \A o \in Objects \ unsettled : p = Meta(o) => doc.kind = "model" /\ q = "clear"
  BY <1>3, <1>5, <1>6, PathFacts DEF StorageInv, ModelOK
<1>16. ModelInv'
  <2>1. \A u \in Tasks, o \in Objects : OnModel(u, o)' <=> OnModel(u, o)
    BY <1>1, <1>5, <1>7, <1>8 DEF OnModel, Busy, Op
  <2>2. \A o \in Objects \ unsettled : (\A u \in Tasks : ~OnModel(u, o)) => disk'[Meta(o)] = disk[Meta(o)]
    BY <1>5, <1>9, PathFacts
  <2>3. \A o \in Objects \ unsettled : disk'[Meta(o)] # Absent =>
          disk'[Meta(o)] = disk[Meta(o)] \/ disk'[Meta(o)].kind = "model"
    BY <1>9, <1>15, PathFacts
  <2> QED
    BY <1>1, <2>1, <2>2, <2>3 DEF StorageInv, ModelInv, Settled, KindOf, Present
<1>17. CreateInv'
  BY <1>1 DEF StorageInv, CreateInv
<1>18. \A c \in Conversations \ unsettled : p = Conv(c) =>
         Acked(c, Turns(doc)) /\ (Op(t).op \in TurnOps => Op(t).turn \in Turns(doc))
  BY <1>3, <1>5 DEF StorageInv, ConvOK, Kept
<1>19. ConvInv'
  BY <1>1, <1>5, <1>9, <1>18, PathFacts DEF StorageInv, ConvInv, Present, Acked
<1>20. p = NodesFile => doc.nodes = nodes /\ Op(t).turn \in nodes
  BY <1>3, <1>5 DEF StorageInv, NodesOK
<1>21. NodesInv'
  BY <1>1, <1>5, <1>9, <1>20, PathFacts DEF StorageInv, NodesInv, Present
<1>22. ASSUME NEW u \in Tasks, u # t PROVE Right(u)'
  BY <1>1, <1>5, <1>8, <1>9, <1>22, OthersKeep
<1>23. TaskOK(t)'
  <2>1. TaskOK(t)
    BY DEF StorageInv
  <2> QED
    BY <1>1, <1>5, <1>6, <1>8, <1>10, <2>1 DEF TaskOK, Holding, Busy
<1>24. ~Writing(t)'
  BY <1>7, <1>8 DEF Writing
<1>25. WriteOK(t)' /\ MetaOK(t)'
  BY <1>24 DEF WriteOK, MetaOK, Writes
<1>26. BlobOK(t)'
  <2>1. q = "credit" => credited[Op(t).obj] = 0
    <3>1. BlobOK(t) /\ BlobInv
      BY DEF StorageInv
    <3> QED
      BY <1>5, <1>6, <3>1 DEF BlobOK, BlobInv
  <2>2. q \in {"meta", "credit"} => p = Blob(Op(t).obj)
    BY <1>6
  <2> QED
    BY <1>1, <1>5, <1>8, <1>9, <1>10, <1>24, <2>1, <2>2 DEF BlobOK, Writes, Present
<1>27. ModelOK(t)'
  <2>1. ModelOK(t)
    BY DEF StorageInv
  <2>2. \A o \in Objects \ unsettled : OnModel(t, o)' => q # "done" /\ (q = "clear" => p = Meta(o))
    BY <1>6, <1>10 DEF OnModel, HistoryOps
  <2>3. \A o \in Objects \ unsettled : p = Meta(o) => KindOf(o)' = "model"
    BY <1>5, <1>9, <1>15 DEF KindOf, Present
  <2> QED
    BY <1>1, <1>5, <1>7, <1>8, <1>10, <1>24, <2>1, <2>2, <2>3 DEF ModelOK, Writes
<1>28. ConvOK(t)'
  <2>1. ConvOK(t)
    BY DEF StorageInv
  <2>2. Op(t).op \in TurnOps => p = Conv(Op(t).obj)
    BY <1>6 DEF TurnOps
  <2> QED
    BY <1>1, <1>5, <1>8, <1>9, <1>10, <1>18, <1>24, <2>1, <2>2 DEF ConvOK, Writes, OnFile, Present
<1>29. NodesOK(t)'
  <2>1. Op(t).op = "heartbeat" => p = NodesFile
    BY <1>6 DEF HistoryOps
  <2> QED
    BY <1>1, <1>5, <1>8, <1>9, <1>10, <1>20, <1>24, <2>1 DEF NodesOK, Writes, Present
<1>30. ASSUME NEW u \in Tasks PROVE PendOK(u)'
  <2>1. \A c \in Conversations \ unsettled : ~Present(Conv(c)) /\ disk'[Conv(c)] # Absent => Writes(t, Conv(c))
    BY <1>5, <1>9, PathFacts DEF Present
  <2> QED
    BY <1>1, <1>2, <1>7, <1>8, <1>24, <2>1, PendKeeps
<1> QED
  BY <1>11, <1>12, <1>13, <1>14, <1>16, <1>17, <1>19, <1>21, <1>22, <1>23, <1>25, <1>26, <1>27, <1>28, <1>29, <1>30
     DEF Right, StorageInv

\* A removal takes no lock: it takes away a record of which nothing is claimed,
\* or that of a model it is the only one to work on.
LEMMA EraseKeeps ==
  ASSUME StorageInv, NEW t \in Tasks, task[t].pc = "erase", Present(PathOf(Op(t))),
         disk' = [disk EXCEPT ![PathOf(Op(t))] = Absent],
         Goto(t, IF Op(t).op = "remove" THEN "purge" ELSE "done"),
         UNCHANGED <<tmp, litter, lock, todo, artifacts, nodes, clock, acked, credited, unsettled>>
  PROVE  StorageInv'
<1>1. PICK p : p = PathOf(Op(t))
  OBVIOUS
<1>2. PICK q : q = (IF Op(t).op = "remove" THEN "purge" ELSE "done")
  OBVIOUS
<1>3. Op(t) \in OpSet /\ todo[t] # <<>> /\ Busy(t) /\ Valid(Op(t)) /\ Op(t).op \in {"delete", "unlink", "remove"}
  BY OpFacts DEF StorageInv, TaskOK, Busy
<1>4. \/ p = Conv(Op(t).obj) /\ Op(t).obj \in Conversations /\ Op(t).op = "delete" /\ q = "done"
      \/ p = Meta(Op(t).obj) /\ Op(t).obj \in Objects /\ Op(t).op = "unlink" /\ q = "done"
      \/ p = Meta(Op(t).obj) /\ Op(t).obj \in Objects /\ Op(t).op = "remove" /\ q = "purge"
  BY <1>1, <1>2, <1>3, OpCases DEF PathOf
<1>5. /\ p \in Paths /\ p # NodesFile /\ \A o \in Objects : p # Blob(o)
      /\ \A o \in Objects \ unsettled : p = Meta(o) => OnModel(t, o) /\ Op(t).op = "remove"
      /\ \A c \in Conversations \ unsettled : p # Conv(c)
  <2>1. ModelOK(t) /\ ConvOK(t)
    BY DEF StorageInv
  <2> QED
    BY <1>3, <1>4, <2>1, PathFacts DEF ModelOK, ConvOK, OnModel
<1>6. /\ task' \in [Tasks -> TaskType] /\ task'[t].pc = q /\ task'[t].path = task[t].path
      /\ \A u \in Tasks : u # t => task'[u] = task[u]
  BY <1>2, GotoFacts DEF StorageInv, PCs
<1>7. /\ disk' \in [Paths -> Docs \cup {Absent}] /\ disk'[p] = Absent
      /\ \A r \in Paths : r # p => disk'[r] = disk[r]
  BY <1>1, <1>5 DEF StorageInv, StorageTypeOK
<1>8. Op(t)' = Op(t) /\ q \in {"purge", "done"}
  BY <1>2 DEF Op
<1>9. StorageTypeOK'
  BY <1>6, <1>7 DEF StorageInv, StorageTypeOK
<1>10. DocInv'
  BY <1>7 DEF StorageInv, DocInv, Fits
<1>11. BlobInv'
  BY <1>5, <1>7, PathFacts DEF StorageInv, BlobInv, Present
<1>12. MetaInv'
  BY <1>6, <1>7, PathFacts DEF StorageInv, MetaInv
<1>13. ModelInv'
  <2>1. \A u \in Tasks, o \in Objects : OnModel(u, o)' <=> OnModel(u, o)
    BY <1>3, <1>6, <1>8 DEF OnModel, Busy, Op
  <2>2. \A o \in Objects \ unsettled : (\A u \in Tasks : ~OnModel(u, o)) => disk'[Meta(o)] = disk[Meta(o)]
    BY <1>5, <1>7, PathFacts
  <2>3. \A o \in Objects : disk'[Meta(o)] # Absent => disk'[Meta(o)] = disk[Meta(o)]
    BY <1>7, PathFacts
  <2> QED
    BY <2>1, <2>2, <2>3 DEF StorageInv, ModelInv, Settled, KindOf, Present
<1>14. CreateInv'
  BY DEF StorageInv, CreateInv
<1>15. ConvInv'
  BY <1>5, <1>7, PathFacts DEF StorageInv, ConvInv, Present, Acked
<1>16. NodesInv'
  BY <1>5, <1>7, PathFacts DEF StorageInv, NodesInv, Present
<1>17. ASSUME NEW u \in Tasks, u # t PROVE Right(u)'
  BY <1>5, <1>6, <1>7, <1>17, OthersKeep
<1>18. TaskOK(t)'
  BY <1>3, <1>4, <1>6, <1>8 DEF TaskOK, Holding, Busy, HistoryOps
<1>19. ~Writing(t)'
  BY <1>6, <1>8 DEF Writing
<1>20. WriteOK(t)' /\ MetaOK(t)' /\ BlobOK(t)'
  BY <1>6, <1>8, <1>19 DEF WriteOK, MetaOK, BlobOK, Writes
<1>21. ModelOK(t)'
  <2>1. ModelOK(t)
    BY DEF StorageInv
  <2>2. \A o \in Objects \ unsettled : OnModel(t, o)' => q = "purge" /\ p = Meta(o)
    BY <1>4, <1>8 DEF OnModel
  <2> QED
    BY <1>3, <1>6, <1>7, <1>8, <1>19, <2>1, <2>2 DEF ModelOK, Writes, Present
<1>22. ConvOK(t)'
  <2>1. ConvOK(t)
    BY DEF StorageInv
  <2> QED
    BY <1>3, <1>6, <1>8, <1>19, <2>1 DEF ConvOK, Writes, TurnOps
<1>23. NodesOK(t)'
  BY <1>3, <1>6, <1>8, <1>19 DEF NodesOK, Writes
<1>24. ASSUME NEW u \in Tasks PROVE PendOK(u)'
  <2>1. \A c \in Conversations \ unsettled : ~Present(Conv(c)) => disk'[Conv(c)] = Absent
    BY <1>7, PathFacts DEF Present
  <2> QED
    BY <1>6, <1>8, <1>19, <2>1, PendKeeps
<1> QED
  BY <1>9, <1>10, <1>11, <1>12, <1>13, <1>14, <1>15, <1>16, <1>17, <1>18, <1>20, <1>21, <1>22, <1>23, <1>24
     DEF Right, StorageInv

\* Whatever the daemon was doing, its files stay as they are, and what it had
\* written beside them stays there too.
LEMMA CrashKeeps ==
  ASSUME StorageInv, CrashAndRestart
  PROVE  StorageInv'
<1>1. UNCHANGED <<disk, artifacts, clock, acked, credited>> /\ unsettled \subseteq unsettled'
  BY DEF CrashAndRestart
<1>2. /\ task' = [t \in Tasks |-> Idle] /\ Idle \in TaskType /\ Idle.pc = "idle"
      /\ \A t \in Tasks : task'[t].pc = "idle"
  BY PathFacts DEF CrashAndRestart, Idle, TaskType, PCs
<1>3. /\ tmp' = [p \in Paths |-> Absent]
      /\ litter' \in [Paths -> SUBSET Docs]
      /\ \A p \in Paths : litter'[p] = litter[p] \cup ({tmp[p]} \ {Absent})
  BY DEF CrashAndRestart, StorageInv, StorageTypeOK
<1>4. ASSUME NEW t \in Tasks
      PROVE  /\ todo'[t] \in Seq(OpSet)
             /\ \A i \in DOMAIN todo'[t] : LET j == IF Busy(t) THEN i + 1 ELSE i IN
                   /\ j \in DOMAIN todo[t] /\ todo'[t][i] = todo[t][j] /\ i \in Nat /\ (Busy(t) => j # 1)
  <2>1. CASE Busy(t)
    <3>1. todo[t] # <<>> /\ todo'[t] = Tail(todo[t])
      BY <2>1 DEF CrashAndRestart, StorageInv, TaskOK
    <3> QED
      BY <2>1, <3>1, OpFacts DEF StorageInv
  <2>2. CASE ~Busy(t)
    <3>1. todo'[t] = todo[t] /\ todo[t] \in Seq(OpSet)
      BY <2>2 DEF CrashAndRestart, StorageInv, StorageTypeOK
    <3> QED
      BY <2>2, <3>1
  <2> QED
    BY <2>1, <2>2
<1>5. todo' \in [Tasks -> Seq(OpSet)]
  <2>1. todo' = [t \in Tasks |-> IF Busy(t) THEN Tail(todo[t]) ELSE todo[t]]
    BY DEF CrashAndRestart
  <2> QED
    BY <1>4, <2>1
<1>6. lock' \in [{"store", "history", "nodes"} -> Tasks \cup {Free}]
  BY DEF CrashAndRestart, StorageInv, StorageTypeOK
<1>7. nodes' = (IF Present(NodesFile) THEN disk[NodesFile].nodes ELSE {}) /\ nodes' \subseteq STRING
  <2>1. Present(NodesFile) => disk[NodesFile] \in NodesDoc
    BY PathFacts DEF StorageInv, DocInv, Present, Fits
  <2> QED
    BY <2>1, DocFacts DEF CrashAndRestart
<1>8. StorageTypeOK'
  BY <1>1, <1>2, <1>3, <1>5, <1>6, <1>7 DEF StorageInv, StorageTypeOK
<1>9. DocInv'
  BY <1>1, <1>3 DEF StorageInv, DocInv, Fits
<1>10. BlobInv'
  BY <1>1, <1>3, PathFacts DEF StorageInv, BlobInv, Present
<1>11. MetaInv'
  BY <1>3, PathFacts DEF MetaInv
<1>12. ModelInv'
  <2>1. \A t \in Tasks, o \in Objects : ~OnModel(t, o)'
    BY <1>2 DEF OnModel, Busy
  <2>2. \A t \in Tasks, o \in Objects \ unsettled' : ~OnModel(t, o)
    BY DEF CrashAndRestart, OnModel
  <2> QED
    BY <1>1, <2>1, <2>2 DEF StorageInv, ModelInv, Settled, KindOf, Present
<1>13. CreateInv'
  <2> SUFFICES ASSUME NEW u \in Tasks, NEW v \in Tasks, NEW i \in DOMAIN todo'[u], NEW j \in DOMAIN todo'[v],
                      todo'[u][i].op = "create", todo'[v][j].op = "create", todo'[u][i].obj = todo'[v][j].obj
               PROVE  u = v /\ i = j
    BY DEF CreateInv
  <2> DEFINE I == IF Busy(u) THEN i + 1 ELSE i
             J == IF Busy(v) THEN j + 1 ELSE j
  <2>1. /\ I \in DOMAIN todo[u] /\ todo[u][I] = todo'[u][i] /\ J \in DOMAIN todo[v] /\ todo[v][J] = todo'[v][j]
        /\ i \in Nat /\ j \in Nat
    BY <1>4
  <2>2. u = v /\ I = J
    BY <2>1 DEF StorageInv, CreateInv
  <2> QED
    BY <2>1, <2>2
<1>14. ConvInv'
  BY <1>1, <1>3, PathFacts DEF StorageInv, ConvInv, Present, Acked
<1>15. NodesInv'
  BY <1>1, <1>3, <1>7, PathFacts DEF StorageInv, NodesInv, Present
<1>16. ASSUME NEW t \in Tasks PROVE Right(t)'
  BY <1>2 DEF Right, TaskOK, WriteOK, BlobOK, MetaOK, ModelOK, ConvOK, NodesOK, OnModel, Busy, Holding, Writes, Writing
<1>17. ASSUME NEW u \in Tasks PROVE PendOK(u)'
  <2> SUFFICES ASSUME NEW c \in Conversations \ unsettled', Pending(u, c)' PROVE Unmade(c)'
    BY DEF PendOK
  <2>1. PICK i \in DOMAIN todo'[u] : todo'[u][i].op = "create" /\ todo'[u][i].obj = c
    BY DEF Pending
  <2>2. Pending(u, c)
    <3> DEFINE j == IF Busy(u) THEN i + 1 ELSE i
    <3>1. j \in DOMAIN todo[u] /\ todo[u][j] = todo'[u][i] /\ (j = 1 => ~Busy(u))
      BY <1>4, <2>1
    <3> QED
      BY <2>1, <3>1 DEF Pending, Busy
  <2>3. Unmade(c) /\ c \in Conversations \ unsettled
    BY <1>1, <2>2 DEF StorageInv, PendOK
  <2> QED
    BY <1>1, <1>2, <2>3 DEF Unmade, Writes, Writing, Present, Acked
<1> QED
  BY <1>8, <1>9, <1>10, <1>11, <1>12, <1>13, <1>14, <1>15, <1>16, <1>17 DEF Right, StorageInv

LEMMA ClockKeeps ==
  ASSUME StorageInv, clock' \in Nat,
         UNCHANGED <<disk, tmp, litter, lock, task, todo, artifacts, nodes, acked, credited, unsettled>>
  PROVE  StorageInv'
<1>1. StorageTypeOK' /\ DocInv' /\ BlobInv'
  BY DEF StorageInv, StorageTypeOK, DocInv, BlobInv, Present, Fits
<1>2. MetaInv' /\ CreateInv' /\ NodesInv'
  BY DEF StorageInv, MetaInv, CreateInv, NodesInv, Present
<1>3. ModelInv'
  BY DEF StorageInv, ModelInv, OnModel, Busy, Op, Settled, KindOf, Present
<1>4. ConvInv'
  BY DEF StorageInv, ConvInv, Present, Acked
<1>5. ASSUME NEW t \in Tasks PROVE TaskOK(t)' /\ WriteOK(t)'
  BY DEF StorageInv, TaskOK, WriteOK, Busy, Op, Holding, Writing, Fits
<1>6. ASSUME NEW t \in Tasks PROVE BlobOK(t)' /\ MetaOK(t)' /\ NodesOK(t)'
  BY DEF StorageInv, BlobOK, MetaOK, NodesOK, Op, Writes, Writing, Present
<1>7. ASSUME NEW t \in Tasks PROVE ModelOK(t)'
  BY DEF StorageInv, ModelOK, OnModel, Busy, Op, Writes, Writing, Settled, KindOf, Present
<1>8. ASSUME NEW t \in Tasks PROVE ConvOK(t)'
  BY DEF StorageInv, ConvOK, Kept, OnFile, Busy, Op, Writes, Writing, Present, Acked
<1>9. ASSUME NEW t \in Tasks PROVE PendOK(t)'
  BY DEF StorageInv, PendOK, Pending, Unmade, Writes, Writing, Present, Acked
<1> QED
  BY <1>1, <1>2, <1>3, <1>4, <1>5, <1>6, <1>7, <1>8, <1>9 DEF StorageInv

LEMMA StorageStarts ==
  ASSUME StorageInit
  PROVE  StorageInv
<1>1. /\ \A p \in Paths : disk[p] = Absent /\ tmp[p] = Absent /\ litter[p] = {}
      /\ acked = {} /\ \A o \in Objects : credited[o] = 0 /\ artifacts[o] = "none"
      /\ todo \in Ops
  BY DEF StorageInit
<1>2. \A t \in Tasks : task[t] = Idle /\ task[t].pc = "idle" /\ Idle \in TaskType
  BY PathFacts DEF StorageInit, Idle, TaskType, PCs
<1>3. StorageTypeOK
  <2>1. task \in [Tasks -> TaskType]
    BY <1>2 DEF StorageInit
  <2>2. todo \in [Tasks -> Seq(OpSet)]
    BY <1>1, StorageAssumption
  <2> QED
    BY <2>1, <2>2 DEF StorageInit, StorageTypeOK
<1>4. DocInv /\ BlobInv /\ MetaInv /\ NodesInv
  BY <1>1, PathFacts DEF DocInv, BlobInv, MetaInv, NodesInv
<1>5. CreateInv
  BY <1>1, StorageAssumption DEF CreateInv
<1>6. ModelInv
  BY <1>1, <1>2, PathFacts DEF ModelInv, OnModel, Busy, Settled, KindOf, Present
<1>7. ConvInv
  BY <1>1, PathFacts DEF ConvInv, Present, Acked
<1>8. ASSUME NEW t \in Tasks PROVE Right(t)
  BY <1>2 DEF Right, TaskOK, WriteOK, BlobOK, MetaOK, ModelOK, ConvOK, NodesOK, OnModel, Busy, Holding, Writes, Writing
<1>9. ASSUME NEW t \in Tasks PROVE PendOK(t)
  BY <1>1, <1>2, PathFacts DEF PendOK, Unmade, Writes, Writing, Present, Acked
<1> QED
  BY <1>3, <1>4, <1>5, <1>6, <1>7, <1>8, <1>9 DEF Right, StorageInv

LEMMA StorageStep ==
  ASSUME StorageInv, StorageNext
  PROVE  StorageInv'
<1>1. ASSUME NEW t \in Tasks, Begin(t) \/ Refuse(t) PROVE StorageInv'
  BY <1>1, BeginKeeps, RefuseKeeps
<1>2. ASSUME NEW t \in Tasks, Transcript(t) PROVE StorageInv'
  <2>1. CASE Fail(t) /\ UNCHANGED tmp
    BY <1>2, <2>1, FailKeeps DEF Transcript, Is, Busy
  <2>2. CASE Goto(t, "engine") /\ UNCHANGED <<disk, tmp, litter, lock, todo, artifacts, nodes, clock, acked, credited, unsettled>>
    BY <1>2, <2>2, AwaitKeeps DEF Transcript, Is
  <2> QED
    BY <1>2, <2>1, <2>2 DEF Transcript
<1>3. ASSUME NEW t \in Tasks, Complete(t) PROVE StorageInv'
  <2>1. CASE Fail(t) /\ UNCHANGED tmp
    BY <1>3, <2>1, FailKeeps DEF Complete, Is, Busy
  <2>2. CASE Goto(t, "lock") /\ UNCHANGED <<disk, tmp, litter, lock, todo, artifacts, nodes, clock, acked, credited, unsettled>>
    BY <1>3, <2>2, AwaitKeeps DEF Complete, Is
  <2> QED
    BY <1>3, <2>1, <2>2 DEF Complete
<1>4. ASSUME NEW t \in Tasks, Acquire(t) PROVE StorageInv'
  BY <1>4, AcquireKeeps
<1>5. ASSUME NEW t \in Tasks, WriteTmp(t) \/ Rename(t) PROVE StorageInv'
  BY <1>5, WriteTmpKeeps, RenameKeeps
<1>6. ASSUME NEW t \in Tasks, RemoveOld(t) PROVE StorageInv'
  <2>1. CASE ~Present(task[t].path) /\ Fail(t) /\ UNCHANGED tmp
    BY <1>6, <2>1, FailKeeps DEF RemoveOld, Is, Busy
  <2>2. CASE /\ Present(task[t].path) /\ disk' = [disk EXCEPT ![task[t].path] = Absent] /\ Goto(t, "rename")
             /\ UNCHANGED <<tmp, litter, lock, todo, artifacts, nodes, clock, acked, credited, unsettled>>
    BY <1>6, <2>2, RemoveOldKeeps DEF RemoveOld, Is
  <2> QED
    BY <1>6, <2>1, <2>2 DEF RemoveOld
<1>7. ASSUME NEW t \in Tasks, WriteFails(t) PROVE StorageInv'
  BY <1>7, FailKeeps DEF WriteFails, Busy
<1>8. ASSUME NEW t \in Tasks, PutBlob(t) \/ PutMeta(t) \/ Create(t) \/ Heartbeat(t) PROVE StorageInv'
  BY <1>8, PutBlobKeeps, PutMetaKeeps, CreateKeeps, HeartbeatKeeps
<1>9. ASSUME NEW t \in Tasks, Cache(t) PROVE StorageInv'
  <2>1. CASE Fail(t) /\ UNCHANGED tmp
    BY <1>9, <2>1, FailKeeps DEF Cache, Is, Busy
  <2>2. CASE /\ ~Present(Blob(Op(t).obj)) /\ WriteNext(t, Blob(Op(t).obj), [t |-> "blob"], "credit")
             /\ Untouched /\ UNCHANGED nodes
    BY <1>9, <2>2, CacheKeeps DEF Cache, Is
  <2> QED
    BY <1>9, <2>1, <2>2 DEF Cache
<1>10. ASSUME NEW t \in Tasks, RenameFile(t) PROVE StorageInv'
  <2>1. CASE Fail(t) /\ UNCHANGED tmp
    BY <1>10, <2>1, FailKeeps DEF RenameFile, Is, Busy
  <2>2. CASE KindOf(Op(t).obj) = "file"
    BY <1>10, <2>2, RenameFileKeeps DEF RenameFile, Is
  <2> QED
    BY <1>10, <2>1, <2>2 DEF RenameFile
<1>11. ASSUME NEW t \in Tasks, Edit(t) PROVE StorageInv'
  <2>1. CASE Fail(t) /\ UNCHANGED tmp
    BY <1>11, <2>1, FailKeeps DEF Edit, Is, Busy
  <2>2. CASE disk[Conv(Op(t).obj)] # Absent
    BY <1>11, <2>2, EditKeeps DEF Edit, Is
  <2> QED
    BY <1>11, <2>1, <2>2 DEF Edit
<1>12. ASSUME NEW t \in Tasks, Credit(t) \/ Done(t) PROVE StorageInv'
  BY <1>12, CreditKeeps, DoneKeeps
<1>13. ASSUME NEW t \in Tasks, Find(t) \/ Lookup(t) \/ Purge(t) \/ Clear(t) \/ MakeDirectory(t) PROVE StorageInv'
  BY <1>13, FindKeeps, LookupKeeps, PurgeKeeps, ClearKeeps, MakeDirectoryKeeps
<1>14. ASSUME NEW t \in Tasks, Erase(t) PROVE StorageInv'
  <2>1. CASE ~Present(PathOf(Op(t))) /\ Fail(t) /\ UNCHANGED tmp
    BY <1>14, <2>1, FailKeeps DEF Erase, Is, Busy
  <2>2. CASE /\ Present(PathOf(Op(t))) /\ disk' = [disk EXCEPT ![PathOf(Op(t))] = Absent]
             /\ Goto(t, IF Op(t).op = "remove" THEN "purge" ELSE "done")
             /\ UNCHANGED <<tmp, litter, lock, todo, artifacts, nodes, clock, acked, credited, unsettled>>
    BY <1>14, <2>2, EraseKeeps DEF Erase, Is
  <2> QED
    BY <1>14, <2>1, <2>2 DEF Erase
<1>15. ASSUME NEW t \in Tasks, CopyDirectory(t) PROVE StorageInv'
  <2>1. CASE Fail(t) /\ UNCHANGED tmp
    BY <1>15, <2>1, FailKeeps DEF CopyDirectory, Is, Busy
  <2>2. CASE /\ artifacts' = [artifacts EXCEPT ![Op(t).obj] = "whole"] /\ Goto(t, "done")
             /\ UNCHANGED <<disk, tmp, litter, lock, todo, nodes, clock, acked, credited, unsettled>>
    BY <1>15, <2>2, CopyDirectoryKeeps DEF CopyDirectory, Is
  <2> QED
    BY <1>15, <2>1, <2>2 DEF CopyDirectory
<1>16. CASE Tick
  BY <1>16, ClockKeeps DEF Tick, StorageInv, StorageTypeOK
<1>17. CASE CrashAndRestart
  BY <1>17, CrashKeeps
<1> QED
  BY <1>1, <1>2, <1>3, <1>4, <1>5, <1>6, <1>7, <1>8, <1>9, <1>10, <1>11, <1>12, <1>13, <1>14, <1>15, <1>16, <1>17
     DEF StorageNext, Step

LEMMA FilesAreSound == ASSUME StorageInv PROVE RecordsAreSound
<1>1. ASSUME NEW o \in Objects, Anywhere(Meta(o)) # {} PROVE Present(Blob(o))
  BY <1>1 DEF StorageInv, BlobInv, Anywhere
<1>2. ASSUME NEW o \in Objects, NEW d \in {disk[Meta(o)], tmp[Meta(o)]} \ {Absent},
             NEW e \in {disk[Meta(o)], tmp[Meta(o)]} \ {Absent}
      PROVE  d.created = e.created
  <2>1. CASE disk[Meta(o)] # Absent /\ tmp[Meta(o)] # Absent
    <3>1. PICK t \in Tasks : task[t].pc = "replace" /\ task[t].path = Meta(o)
      BY <2>1 DEF StorageInv, MetaInv
    <3>2. WriteOK(t) /\ MetaOK(t) /\ Writes(t, Meta(o))
      BY <3>1 DEF StorageInv, Writes, Writing
    <3> QED
      BY <2>1, <3>1, <3>2 DEF WriteOK, MetaOK, Writes, Present
  <2> QED
    BY <2>1
<1>3. ASSUME NEW o \in Objects PROVE credited[o] <= 1 /\ (credited[o] = 1 => Present(Blob(o)))
  <2>1. credited[o] \in {0, 1}
    BY DEF StorageInv, StorageTypeOK
  <2> QED
    BY <2>1 DEF StorageInv, BlobInv
<1>4. ASSUME NEW o \in Objects \ unsettled, \A t \in Tasks : Busy(t) => Op(t).obj # o
      PROVE  KindOf(o) = "model" <=> artifacts[o] = "whole"
  BY <1>4 DEF StorageInv, ModelInv, OnModel, Settled
<1> QED
  BY <1>1, <1>2, <1>3, <1>4 DEF RecordsAreSound

LEMMA AnswersAreKept == ASSUME StorageInv PROVE AckedWritesSurvive
<1>1. ASSUME NEW c \in Conversations \ unsettled, {a[2] : a \in {b \in acked : b[1] = c}} # {}
      PROVE  \E doc \in Anywhere(Conv(c)) : {a[2] : a \in {b \in acked : b[1] = c}} \subseteq Turns(doc)
  <2>1. \A turns : Acked(c, turns) => {a[2] : a \in {b \in acked : b[1] = c}} \subseteq turns
    BY DEF Acked
  <2>2. ~Acked(c, {})
    BY <1>1 DEF Acked
  <2>3. PICK doc \in Anywhere(Conv(c)) : Acked(c, Turns(doc))
    BY <2>2 DEF StorageInv, ConvInv, Anywhere, Present
  <2> QED
    BY <2>1, <2>3
<1>2. ASSUME NEW a \in acked, a[1] = "nodes" PROVE \E doc \in Anywhere(NodesFile) : a[2] \in doc.nodes
  <2>1. NodesInv /\ StorageTypeOK
    BY DEF StorageInv
  <2>2. \A doc \in litter[NodesFile] : doc # Absent
    BY <2>1, PathFacts, DocFacts DEF StorageTypeOK
  <2> QED
    BY <1>2, <2>1, <2>2 DEF NodesInv, Anywhere, Present
<1> QED
  BY <1>1, <1>2 DEF AckedWritesSurvive

LEMMA StorageKeeps == ASSUME StorageInv, [Next]_vars PROVE StorageInv'
<1>1. CASE StorageNext
  BY <1>1, StorageStep
<1>2. CASE UNCHANGED storageVars
  BY <1>2, ClockKeeps DEF storageVars, StorageInv, StorageTypeOK
<1> QED
  BY <1>1, <1>2 DEF Next, vars

\* The inductive invariant of the daemon's files, in every state: the others
\* below are read off it.
THEOREM FilesInvariance == Spec => []StorageInv
<1>1. Init => StorageInv
  BY StorageStarts DEF Init
<1>2. StorageInv /\ [Next]_vars => StorageInv'
  BY StorageKeeps
<1> QED
  BY <1>1, <1>2, PTL DEF Spec

\* The disk, the temporaries beside it, the locks and the tasks stay of their
\* types, and every document has the form of the path that it lies under.
THEOREM FilesTyped == Spec => [](StorageTypeOK /\ DocInv)
<1>1. StorageInv => StorageTypeOK /\ DocInv
  BY DEF StorageInv
<1> QED
  BY <1>1, FilesInvariance, PTL

\* For any number of tasks, requests, failures and crashes: a record that is in
\* the catalogue, or on its way there, names a blob that is on the disk and keeps
\* its creation time; a blob is credited once; and a model that one request at a
\* time works on is in the catalogue exactly when its artifacts are whole.
THEOREM CatalogueSound == Spec => []RecordsAreSound
<1>1. StorageInv => RecordsAreSound
  BY FilesAreSound
<1> QED
  BY <1>1, FilesInvariance, PTL

\* For any number of tasks, requests, failures and crashes: the turns and the
\* heartbeats that were answered Ok are in the file, or in a temporary beside it.
THEOREM AnswersSurvive == Spec => []AckedWritesSurvive
<1>1. StorageInv => AckedWritesSurvive
  BY AnswersAreKept
<1> QED
  BY <1>1, FilesInvariance, PTL

----------------------------------------------------------------------------
(* Induction over the naturals, for sets and for functions: what a recursive *)
(* definition computes.                                                     *)

\* A set of naturals that is not empty has a least element.
LEMMA Least ==
  ASSUME NEW T \in SUBSET Nat, T # {}
  PROVE  \E m \in T : \A k \in T : m <= k
<1>1. PICK m \in T : \A k \in T : ~(<<k, m>> \in OpToRel(<, Nat))
  BY NatLessThanWellFounded, WFMin
<1>2. \A k \in T : ~(k < m)
  BY <1>1 DEF OpToRel
<1> QED
  BY <1>2

\* A set that has zero and with every number the next one has them all.
LEMMA Inducts ==
  ASSUME NEW S, 0 \in S, \A n \in Nat : n \in S => n + 1 \in S
  PROVE  Nat \subseteq S
<1> SUFFICES ASSUME Nat \ S # {} PROVE FALSE
  OBVIOUS
<1>1. PICK m \in Nat \ S : \A k \in Nat \ S : m <= k
  BY Least
<1>2. m - 1 \in Nat /\ m - 1 \notin Nat \ S
  BY <1>1
<1> QED
  BY <1>1, <1>2

\* A recursion has a solution, and only one.
Solves(f, c, st, n) == f[0] = c /\ \A i \in 1..n : f[i] = st[i][f[i - 1]]

LEMMA SolvesOnce ==
  ASSUME NEW f, NEW g, NEW c, NEW st, NEW n \in Nat, Solves(f, c, st, n), Solves(g, c, st, n)
  PROVE  \A i \in 0..n : f[i] = g[i]
<1> DEFINE S == {i \in Nat : i \in 0..n => f[i] = g[i]}
<1>1. 0 \in S
  BY DEF Solves
<1>2. ASSUME NEW i \in Nat, i \in S PROVE i + 1 \in S
  <2> SUFFICES ASSUME i + 1 \in 0..n PROVE f[i + 1] = g[i + 1]
    OBVIOUS
  <2>1. i + 1 \in 1..n /\ (i + 1) - 1 = i /\ i \in 0..n
    OBVIOUS
  <2> QED
    BY <1>2, <2>1 DEF Solves
<1> HIDE DEF S
<1>3. Nat \subseteq S
  BY <1>1, <1>2, Inducts
<1> QED
  BY <1>3 DEF S

LEMMA SolvesUpTo ==
  ASSUME NEW V, NEW c \in V, NEW st \in [Nat -> [V -> V]]
  PROVE  \A n \in Nat : \E f \in [Nat -> V] : Solves(f, c, st, n)
<1> DEFINE S == {n \in Nat : \E f \in [Nat -> V] : Solves(f, c, st, n)}
<1>1. 0 \in S
  <2>1. [i \in Nat |-> c] \in [Nat -> V] /\ Solves([i \in Nat |-> c], c, st, 0)
    BY DEF Solves
  <2> QED
    BY <2>1
<1>2. ASSUME NEW n \in Nat, n \in S PROVE n + 1 \in S
  <2> PICK f \in [Nat -> V] : Solves(f, c, st, n)
    BY <1>2
  <2> DEFINE g == [f EXCEPT ![n + 1] = st[n + 1][f[n]]]
  <2>1. st[n + 1] \in [V -> V] /\ f[n] \in V
    OBVIOUS
  <2>2. g \in [Nat -> V]
    BY <2>1
  <2>3. \A i \in 0..n : g[i] = f[i]
    OBVIOUS
  <2>4. g[n + 1] = st[n + 1][f[n]]
    OBVIOUS
  <2> HIDE DEF g
  <2>5. g[0] = c
    BY <2>3 DEF Solves
  <2>6. ASSUME NEW i \in 1..n + 1 PROVE g[i] = st[i][g[i - 1]]
    <3>1. CASE i = n + 1
      BY <2>3, <2>4, <3>1
    <3>2. CASE i \in 1..n
      <4>1. i - 1 \in 0..n /\ i \in 0..n
        BY <3>2
      <4>2. f[i] = st[i][f[i - 1]]
        BY <3>2 DEF Solves
      <4> QED
        BY <2>3, <4>1, <4>2
    <3> QED
      BY <3>1, <3>2
  <2> QED
    BY <2>2, <2>5, <2>6 DEF Solves
<1> HIDE DEF S
<1>3. Nat \subseteq S
  BY <1>1, <1>2, Inducts
<1> QED
  BY <1>3 DEF S

LEMMA Recursion ==
  ASSUME NEW V, NEW c \in V, NEW st \in [Nat -> [V -> V]]
  PROVE  \E f \in [Nat -> V] : f[0] = c /\ \A i \in Nat \ {0} : f[i] = st[i][f[i - 1]]
<1> DEFINE upto == [n \in Nat |-> CHOOSE f \in [Nat -> V] : Solves(f, c, st, n)]
           g == [n \in Nat |-> upto[n][n]]
<1>1. \A n \in Nat : upto[n] \in [Nat -> V] /\ Solves(upto[n], c, st, n)
  BY SolvesUpTo
<1> HIDE DEF upto
<1>2. g \in [Nat -> V]
  BY <1>1
<1>3. g[0] = c
  BY <1>1 DEF Solves
<1>4. ASSUME NEW i \in Nat \ {0} PROVE g[i] = st[i][g[i - 1]]
  <2>1. i - 1 \in Nat /\ i - 1 \in 0..i - 1 /\ i \in 1..i
    OBVIOUS
  <2>2. Solves(upto[i], c, st, i - 1)
    BY <1>1, <2>1 DEF Solves
  <2>3. upto[i][i - 1] = upto[i - 1][i - 1]
    BY <1>1, <2>1, <2>2, SolvesOnce
  <2>4. upto[i][i] = st[i][upto[i][i - 1]]
    BY <1>1, <2>1 DEF Solves
  <2> QED
    BY <2>1, <2>3, <2>4
<1> QED
  BY <1>2, <1>3, <1>4

\* A step taken again and again from a first value.
LEMMA Iterates ==
  ASSUME NEW V, NEW c \in V, NEW op \in [V -> V]
  PROVE  \E f \in [Nat -> V] : f[0] = c /\ \A i \in Nat : f[i + 1] = op[f[i]]
<1>1. \A st \in [Nat -> [V -> V]] : \E f \in [Nat -> V] : f[0] = c /\ \A i \in Nat \ {0} : f[i] = st[i][f[i - 1]]
  BY Recursion
<1>2. [i \in Nat |-> op] \in [Nat -> [V -> V]]
  OBVIOUS
<1>3. PICK f \in [Nat -> V] : f[0] = c /\ \A i \in Nat \ {0} : f[i] = [j \in Nat |-> op][i][f[i - 1]]
  BY <1>1, <1>2
<1>4. \A i \in Nat : i + 1 \in Nat \ {0} /\ (i + 1) - 1 = i
  OBVIOUS
<1>5. \A i \in Nat : f[i + 1] = op[f[i]]
  BY <1>3, <1>4
<1> QED
  BY <1>3, <1>5

----------------------------------------------------------------------------
(* Sums over a finite set, as MapThenSumSet computes them.                  *)

\* What holds of a subset when it holds of all smaller ones holds of all of them.
LEMMA SubsetsInduct ==
  ASSUME NEW S, IsFiniteSet(S), NEW P,
         \A t \in SUBSET S : (\A u \in SUBSET t : u # t => u \in P) => t \in P
  PROVE  SUBSET S \subseteq P
<1> SUFFICES ASSUME NEW t0 \in SUBSET S, t0 \notin P PROVE FALSE
  OBVIOUS
<1> DEFINE C == {Cardinality(t) : t \in (SUBSET S) \ P}
<1>1. C \in SUBSET Nat /\ C # {}
  BY FS_Subset, FS_CardinalityType
<1>2. PICK m \in C : \A k \in C : m <= k
  BY <1>1, Least
<1>3. PICK t \in (SUBSET S) \ P : m = Cardinality(t)
  BY <1>2
<1>4. ASSUME NEW u \in SUBSET t, u # t PROVE u \in P
  <2>1. IsFiniteSet(t)
    BY FS_Subset
  <2>2. Cardinality(u) < Cardinality(t) /\ Cardinality(u) \in Nat /\ Cardinality(t) \in Nat
    BY <1>4, <2>1, FS_Subset, FS_CardinalityType
  <2>3. ~(Cardinality(t) <= Cardinality(u))
    BY <2>2
  <2> QED
    BY <1>2, <1>3, <2>3
<1> QED
  BY <1>3, <1>4

Pick(s) == CHOOSE x \in s : TRUE
OneSum(w, t, g) == IF t = {} THEN 0 ELSE w[Pick(t)] + g[t \ {Pick(t)}]
SumsUp(f, w, S) == f = [t \in SUBSET S |-> OneSum(w, t, f)]
Sum(w, S) == (CHOOSE f : SumsUp(f, w, S))[S]

LEMMA SumExists ==
  ASSUME NEW S, IsFiniteSet(S), NEW w, \A x \in S : w[x] \in Nat
  PROVE  \E f \in [SUBSET S -> Nat] : SumsUp(f, w, S)
<1> DEFINE V == [SUBSET S -> Nat]
           next(g) == [t \in SUBSET S |-> OneSum(w, t, g)]
           c == [t \in SUBSET S |-> 0]
<1>1. ASSUME NEW g \in V PROVE next(g) \in V
  <2>1. ASSUME NEW t \in SUBSET S PROVE OneSum(w, t, g) \in Nat
    <3>1. CASE t = {}
      BY <3>1 DEF OneSum
    <3>2. CASE t # {}
      <4>1. Pick(t) \in t /\ t \ {Pick(t)} \in SUBSET S
        BY <3>2 DEF Pick
      <4>2. w[Pick(t)] \in Nat /\ g[t \ {Pick(t)}] \in Nat
        BY <4>1
      <4> QED
        BY <3>2, <4>2 DEF OneSum
    <3> QED
      BY <3>1, <3>2
  <2> QED
    BY <2>1
<1> DEFINE op == [g \in V |-> next(g)]
<1>2. c \in V /\ op \in [V -> V]
  BY <1>1
<1> HIDE DEF c, next, V, op
<1>c. \A c1 \in V : \A op1 \in [V -> V] : \E F \in [Nat -> V] : F[0] = c1 /\ \A i \in Nat : F[i + 1] = op1[F[i]]
  BY Iterates
<1>3. PICK F \in [Nat -> V] : F[0] = c /\ \A i \in Nat : F[i + 1] = op[F[i]]
  BY <1>2, <1>c
<1>4. \A i \in Nat : F[i + 1] = next(F[i])
  BY <1>3 DEF op
<1>5. \A t \in SUBSET S : Cardinality(t) \in Nat /\ IsFiniteSet(t)
  BY FS_Subset, FS_CardinalityType
<1> DEFINE P == {i \in Nat : \A t \in SUBSET S : Cardinality(t) <= i => F[i + 1][t] = F[i][t]}
<1>b. \A i \in Nat : F[i] \in V
  OBVIOUS
<1>a. ASSUME NEW g \in V, NEW h \in V, NEW i \in Nat, NEW t \in SUBSET S, Cardinality(t) <= i + 1,
             \A u \in SUBSET S : Cardinality(u) <= i => g[u] = h[u]
      PROVE  next(g)[t] = next(h)[t]
  <2>1. CASE t = {}
    BY <2>1 DEF next, OneSum
  <2>2. CASE t # {}
    <3> DEFINE u == t \ {Pick(t)}
    <3>1. Pick(t) \in t
      BY <2>2 DEF Pick
    <3>2. u \in SUBSET S /\ Cardinality(u) = Cardinality(t) - 1
      BY <1>5, <3>1, FS_RemoveElement
    <3>3. g[u] = h[u]
      BY <1>5, <1>a, <3>2
    <3> QED
      BY <2>2, <3>3 DEF next, OneSum
  <2> QED
    BY <2>1, <2>2
<1>6. 0 \in P
  <2>1. ASSUME NEW t \in SUBSET S, Cardinality(t) <= 0 PROVE t = {}
    BY <1>5, <2>1, FS_EmptySet
  <2>2. F[0][{}] = 0
    BY <1>3 DEF c
  <2>3. F[0 + 1] = next(F[0])
    BY <1>4
  <2>4. F[0 + 1][{}] = 0
    BY <2>3 DEF next, OneSum
  <2> QED
    BY <2>1, <2>2, <2>4
<1>7. ASSUME NEW i \in Nat, i \in P PROVE i + 1 \in P
  <2>1. F[i + 1] = next(F[i]) /\ F[(i + 1) + 1] = next(F[i + 1])
    BY <1>4
  <2>2. F[i] \in V /\ F[i + 1] \in V
    BY <1>b
  <2>3. \A u \in SUBSET S : Cardinality(u) <= i => F[i + 1][u] = F[i][u]
    BY <1>7
  <2>4. ASSUME NEW t \in SUBSET S, Cardinality(t) <= i + 1
        PROVE  next(F[i + 1])[t] = next(F[i])[t]
    BY <1>a, <2>2, <2>3, <2>4
  <2> QED
    BY <2>1, <2>4
<1> HIDE DEF P
<1>8. Nat \subseteq P
  BY <1>6, <1>7, Inducts
<1> DEFINE n == Cardinality(S)
           f == F[n]
<1>9. n \in Nat /\ \A t \in SUBSET S : Cardinality(t) <= n
  BY FS_CardinalityType, FS_Subset
<1>10. \A t \in SUBSET S : next(f)[t] = f[t]
  BY <1>4, <1>8, <1>9 DEF P
<1>11. f \in V /\ next(f) \in V
  BY <1>1, <1>9, <1>b
<1>12. next(f) = f
  BY <1>10, <1>11 DEF V
<1>13. SumsUp(f, w, S)
  BY <1>12 DEF SumsUp, next
<1> QED
  BY <1>11, <1>13 DEF V

\* Two sums over sets of which one has the other agree on the smaller one.
LEMMA SumsAgree ==
  ASSUME NEW S, IsFiniteSet(S), NEW T \in SUBSET S, NEW w, NEW f, NEW g,
         SumsUp(f, w, S), SumsUp(g, w, T)
  PROVE  \A t \in SUBSET T : f[t] = g[t]
<1> DEFINE P == {t \in SUBSET T : f[t] = g[t]}
<1>1. ASSUME NEW t \in SUBSET T, \A u \in SUBSET t : u # t => u \in P PROVE t \in P
  <2>1. f[t] = OneSum(w, t, f) /\ g[t] = OneSum(w, t, g)
    BY DEF SumsUp
  <2>2. CASE t = {}
    BY <2>1, <2>2 DEF OneSum
  <2>3. CASE t # {}
    <3>1. Pick(t) \in t
      BY <2>3 DEF Pick
    <3>2. f[t \ {Pick(t)}] = g[t \ {Pick(t)}]
      BY <1>1, <3>1
    <3> QED
      BY <2>1, <2>3, <3>2 DEF OneSum
  <2> QED
    BY <2>2, <2>3
<1>2. IsFiniteSet(T)
  BY FS_Subset
<1> HIDE DEF P
<1>3. SUBSET T \subseteq P
  BY <1>1, <1>2, SubsetsInduct
<1> QED
  BY <1>3 DEF P

LEMMA SumOf ==
  ASSUME NEW S, IsFiniteSet(S), NEW w, \A x \in S : w[x] \in Nat,
         NEW f, SumsUp(f, w, S), NEW T \in SUBSET S
  PROVE  f[T] = Sum(w, T) /\ Sum(w, T) \in Nat
<1>1. IsFiniteSet(T) /\ \A x \in T : w[x] \in Nat
  BY FS_Subset
<1>2. \E g \in [SUBSET T -> Nat] : SumsUp(g, w, T)
  BY <1>1, SumExists
<1> DEFINE h == CHOOSE g : SumsUp(g, w, T)
<1>3. SumsUp(h, w, T)
  BY <1>2
<1> HIDE DEF h
<1>4. f[T] = h[T]
  BY <1>3, SumsAgree
<1>5. \E g \in [SUBSET T -> Nat] : g[T] = h[T]
  BY <1>1, <1>2, <1>3, SumsAgree
<1> QED
  BY <1>4, <1>5 DEF Sum, h

\* Whichever element is taken out first, the sum is the same.
LEMMA SumWithout ==
  ASSUME NEW S, IsFiniteSet(S), NEW w, \A x \in S : w[x] \in Nat, NEW x \in S
  PROVE  Sum(w, S) = w[x] + Sum(w, S \ {x})
<1> PICK f \in [SUBSET S -> Nat] : SumsUp(f, w, S)
  BY SumExists
<1> DEFINE P == {t \in SUBSET S : \A y \in t : f[t] = w[y] + f[t \ {y}]}
<1>1. ASSUME NEW t \in SUBSET S, \A u \in SUBSET t : u # t => u \in P, NEW y \in t
      PROVE  f[t] = w[y] + f[t \ {y}]
  <2> DEFINE p == Pick(t)
  <2>1. p \in t
    BY DEF Pick
  <2>2. f[t] = w[p] + f[t \ {p}]
    BY DEF SumsUp, OneSum
  <2>3. CASE y = p
    BY <2>2, <2>3
  <2>4. CASE y # p
    <3>1. t \ {p} \in P /\ t \ {y} \in P /\ y \in t \ {p} /\ p \in t \ {y}
      BY <1>1, <2>1, <2>4
    <3>2. f[t \ {p}] = w[y] + f[(t \ {p}) \ {y}] /\ f[t \ {y}] = w[p] + f[(t \ {y}) \ {p}]
      BY <3>1
    <3>3. (t \ {p}) \ {y} = (t \ {y}) \ {p} /\ (t \ {p}) \ {y} \in SUBSET S
      OBVIOUS
    <3>4. f[(t \ {p}) \ {y}] \in Nat /\ w[p] \in Nat /\ w[y] \in Nat
      BY <2>1, <3>3
    <3>5. f[(t \ {p}) \ {y}] = f[(t \ {y}) \ {p}]
      BY <3>3
    <3> HIDE DEF p
    <3> QED
      BY ONLY <2>2, <3>2, <3>4, <3>5
  <2> QED
    BY <2>3, <2>4
<1>2. \A t \in SUBSET S : (\A u \in SUBSET t : u # t => u \in P) => t \in P
  BY <1>1
<1> HIDE DEF P
<1>3. S \in P
  BY <1>2, SubsetsInduct
<1>4. f[S] = w[x] + f[S \ {x}]
  BY <1>3 DEF P
<1>5. f[S] = Sum(w, S) /\ f[S \ {x}] = Sum(w, S \ {x})
  BY SumOf
<1> QED
  BY <1>4, <1>5

LEMMA SumNat ==
  ASSUME NEW S, IsFiniteSet(S), NEW w, \A x \in S : w[x] \in Nat
  PROVE  Sum(w, S) \in Nat
  BY SumExists, SumOf

LEMMA SumEmpty == ASSUME NEW w PROVE Sum(w, {}) = 0
<1>1. IsFiniteSet({})
  BY FS_EmptySet
<1> PICK f \in [SUBSET {} -> Nat] : SumsUp(f, w, {})
  BY <1>1, SumExists
<1>2. f[{}] = 0
  BY DEF SumsUp, OneSum
<1> QED
  BY <1>1, <1>2, SumOf

LEMMA SumWith ==
  ASSUME NEW S, IsFiniteSet(S), NEW w, \A y \in S : w[y] \in Nat, NEW x, x \notin S, w[x] \in Nat
  PROVE  Sum(w, S \cup {x}) = Sum(w, S) + w[x]
<1>1. IsFiniteSet(S \cup {x}) /\ (S \cup {x}) \ {x} = S
  BY FS_AddElement
<1>2. Sum(w, S) \in Nat
  BY SumNat
<1>3. \A y \in S \cup {x} : w[y] \in Nat
  OBVIOUS
<1>4. Sum(w, S \cup {x}) = w[x] + Sum(w, (S \cup {x}) \ {x})
  BY <1>1, <1>3, SumWithout
<1>5. Sum(w, (S \cup {x}) \ {x}) = Sum(w, S)
  BY <1>1
<1> QED
  BY <1>2, <1>4, <1>5

LEMMA SumMonotone ==
  ASSUME NEW S, IsFiniteSet(S), NEW w, \A y \in S : w[y] \in Nat, NEW T \in SUBSET S
  PROVE  Sum(w, T) <= Sum(w, S)
<1> DEFINE P == {t \in SUBSET S : T \subseteq t => Sum(w, T) <= Sum(w, t)}
<1>0. \A t \in SUBSET S : Sum(w, t) \in Nat
  BY SumNat, FS_Subset
<1>1. ASSUME NEW t \in SUBSET S, \A u \in SUBSET t : u # t => u \in P, T \subseteq t
      PROVE  Sum(w, T) <= Sum(w, t)
  <2>1. CASE T = t
    BY <1>0, <2>1
  <2>2. CASE T # t
    <3> PICK x \in t : x \notin T
      BY <1>1, <2>2
    <3>1. T \subseteq t \ {x} /\ t \ {x} \in P /\ t \ {x} \in SUBSET S
      BY <1>1
    <3>2. Sum(w, T) <= Sum(w, t \ {x})
      BY <3>1
    <3>3. IsFiniteSet(t)
      BY FS_Subset
    <3>4. Sum(w, t) = w[x] + Sum(w, t \ {x})
      BY <3>3, SumWithout
    <3>5. w[x] \in Nat /\ Sum(w, t \ {x}) \in Nat /\ Sum(w, T) \in Nat
      BY <1>0, <3>1
    <3> QED
      BY <3>2, <3>4, <3>5
  <2> QED
    BY <2>1, <2>2
<1>2. \A t \in SUBSET S : (\A u \in SUBSET t : u # t => u \in P) => t \in P
  BY <1>1
<1> HIDE DEF P
<1>3. S \in P
  BY <1>2, SubsetsInduct
<1> QED
  BY <1>3 DEF P

\* The model's sums over a set of objects are those sums.
SizeOfObject(s) == [o \in Addresses |-> s[o].size]
EdgesOfObject(s) == [o \in Addresses |-> Len(s[o].refs)]

LEMMA SizesSum ==
  ASSUME NEW s, NEW S \in SUBSET Addresses, IsFiniteSet(S), \A o \in S : s[o].size \in Nat
  PROVE  MapThenSumSet(LAMBDA o : s[o].size, S) = Sum(SizeOfObject(s), S)
<1> DEFINE w == SizeOfObject(s)
           eq(f) == f = [t \in SUBSET S |-> IF t = {} THEN 0 ELSE s[Pick(t)].size + f[t \ {Pick(t)}]]
           h == CHOOSE f : eq(f)
<1>1. MapThenSumSet(LAMBDA o : s[o].size, S) = h[S]
  BY DEF MapThenSumSet, MapThenFoldSet, Pick
<1>2. ASSUME NEW f PROVE eq(f) <=> SumsUp(f, w, S)
  <2>1. \A t \in SUBSET S : t # {} => Pick(t) \in Addresses
    BY DEF Pick
  <2>2. \A t \in SUBSET S : (IF t = {} THEN 0 ELSE s[Pick(t)].size + f[t \ {Pick(t)}]) = OneSum(w, t, f)
    BY <2>1 DEF OneSum, SizeOfObject
  <2>3. [t \in SUBSET S |-> IF t = {} THEN 0 ELSE s[Pick(t)].size + f[t \ {Pick(t)}]]
          = [t \in SUBSET S |-> OneSum(w, t, f)]
    BY <2>2
  <2> QED
    BY <2>3 DEF SumsUp
<1>3. \A o \in S : w[o] \in Nat
  BY DEF SizeOfObject
<1> HIDE DEF eq, w
<1>4. \E f : SumsUp(f, w, S)
  BY <1>3, SumExists
<1>5. eq(h)
  BY <1>2, <1>4
<1>6. SumsUp(h, w, S)
  BY <1>2, <1>5
<1> HIDE DEF h
<1>7. h[S] = Sum(w, S)
  BY <1>3, <1>6, SumOf
<1> QED
  BY <1>1, <1>7 DEF w

LEMMA EdgesSum ==
  ASSUME NEW s, NEW S \in SUBSET Addresses, IsFiniteSet(S), \A o \in S : Len(s[o].refs) \in Nat
  PROVE  MapThenSumSet(LAMBDA o : Len(s[o].refs), S) = Sum(EdgesOfObject(s), S)
<1> DEFINE w == EdgesOfObject(s)
           eq(f) == f = [t \in SUBSET S |-> IF t = {} THEN 0 ELSE Len(s[Pick(t)].refs) + f[t \ {Pick(t)}]]
           h == CHOOSE f : eq(f)
<1>1. MapThenSumSet(LAMBDA o : Len(s[o].refs), S) = h[S]
  BY DEF MapThenSumSet, MapThenFoldSet, Pick
<1>2. ASSUME NEW f PROVE eq(f) <=> SumsUp(f, w, S)
  <2>1. \A t \in SUBSET S : t # {} => Pick(t) \in Addresses
    BY DEF Pick
  <2>2. \A t \in SUBSET S : (IF t = {} THEN 0 ELSE Len(s[Pick(t)].refs) + f[t \ {Pick(t)}]) = OneSum(w, t, f)
    BY <2>1 DEF OneSum, EdgesOfObject
  <2>3. [t \in SUBSET S |-> IF t = {} THEN 0 ELSE Len(s[Pick(t)].refs) + f[t \ {Pick(t)}]]
          = [t \in SUBSET S |-> OneSum(w, t, f)]
    BY <2>2
  <2> QED
    BY <2>3 DEF SumsUp
<1>3. \A o \in S : w[o] \in Nat
  BY DEF EdgesOfObject
<1> HIDE DEF eq, w
<1>4. \E f : SumsUp(f, w, S)
  BY <1>3, SumExists
<1>5. eq(h)
  BY <1>2, <1>4
<1>6. SumsUp(h, w, S)
  BY <1>2, <1>5
<1> HIDE DEF h
<1>7. h[S] = Sum(w, S)
  BY <1>3, <1>6, SumOf
<1> QED
  BY <1>1, <1>7 DEF w

\* The levels of the closure, each made from the one before.
LEMMA Levels ==
  ASSUME NEW s, NEW r, ToSet(r) \subseteq Addresses,
         \A S \in SUBSET Addresses : ReferencesOf(s, S) \in SUBSET Addresses
  PROVE  /\ Within(s, r) \in [Nat -> SUBSET Addresses]
         /\ Within(s, r)[0] = ToSet(r)
         /\ \A n \in Nat : Within(s, r)[n + 1] = ReferencesOf(s, Within(s, r)[n])
<1> DEFINE V == SUBSET Addresses
           op == [S \in V |-> ReferencesOf(s, S)]
           c == ToSet(r)
           eq(f) == f = [n \in Nat |-> IF n = 0 THEN ToSet(r) ELSE ReferencesOf(s, f[n - 1])]
<1>1. c \in V /\ op \in [V -> V]
  OBVIOUS
<1> HIDE DEF V, op, c
<1>2. \A c1 \in V : \A op1 \in [V -> V] : \E F \in [Nat -> V] : F[0] = c1 /\ \A i \in Nat : F[i + 1] = op1[F[i]]
  BY Iterates
<1>3. PICK F \in [Nat -> V] : F[0] = c /\ \A i \in Nat : F[i + 1] = op[F[i]]
  BY <1>1, <1>2
<1>4. \A n \in Nat : F[n] = IF n = 0 THEN ToSet(r) ELSE ReferencesOf(s, F[n - 1])
  <2> TAKE n \in Nat
  <2>1. CASE n = 0
    BY <1>3, <2>1 DEF c
  <2>2. CASE n # 0
    <3>1. n - 1 \in Nat /\ (n - 1) + 1 = n
      BY <2>2
    <3>2. F[n] = op[F[n - 1]] /\ F[n - 1] \in V
      BY <1>3, <3>1
    <3> QED
      BY <2>2, <3>2 DEF op
  <2> QED
    BY <2>1, <2>2
<1>5. eq(F)
  BY <1>3, <1>4
<1>6. eq(CHOOSE f : eq(f))
  BY <1>5
<1>7. Within(s, r) = CHOOSE f : eq(f)
  BY DEF Within
<1> DEFINE h == Within(s, r)
<1>8. eq(h)
  BY <1>6, <1>7
<1> HIDE DEF h
<1>9. h[0] = c /\ \A n \in Nat : h[n + 1] = ReferencesOf(s, h[n])
  <2>1. h[0] = ToSet(r)
    BY <1>8
  <2>2. ASSUME NEW n \in Nat PROVE h[n + 1] = ReferencesOf(s, h[n])
    <3>1. n + 1 \in Nat /\ n + 1 # 0 /\ (n + 1) - 1 = n
      OBVIOUS
    <3>2. h[n + 1] = IF n + 1 = 0 THEN ToSet(r) ELSE ReferencesOf(s, h[(n + 1) - 1])
      BY <1>8, <3>1
    <3> QED
      BY <3>1, <3>2
  <2> QED
    BY <2>1, <2>2 DEF c
<1> DEFINE Q == {n \in Nat : h[n] \in V}
<1>10. 0 \in Q /\ \A n \in Nat : n \in Q => n + 1 \in Q
  BY <1>1, <1>9 DEF V
<1> HIDE DEF Q
<1>11. Nat \subseteq Q
  BY <1>10, Inducts
<1>12. \A n \in Nat : h[n] \in V
  BY <1>11 DEF Q
<1>13. h = [n \in Nat |-> h[n]]
  BY <1>8
<1>14. h \in [Nat -> V]
  BY <1>12, <1>13
<1> QED
  BY <1>9, <1>14 DEF h, V, c

----------------------------------------------------------------------------
(* The breadth-first queue.                                                 *)

\* Depths never fall along the queue, and rise by at most one.
Ordered(q) == \A i, j \in 1..Len(q) : i <= j => q[i][2] <= q[j][2] /\ q[j][2] <= q[i][2] + 1

Entries(refs, depth) == [k \in DOMAIN refs |-> <<refs[k], depth>>]

AtDepth(depth, S) == {<<o, depth>> : o \in S}

LEMMA EntriesAre ==
  ASSUME NEW S, NEW refs \in Seq(S), NEW depth \in Nat
  PROVE  /\ Entries(refs, depth) \in Seq(S \X Nat)
         /\ Len(Entries(refs, depth)) = Len(refs)
         /\ ToSet(Entries(refs, depth)) = AtDepth(depth, ToSet(refs))
<1> DEFINE new == Entries(refs, depth)
<1>1. DOMAIN refs = 1..Len(refs) /\ Len(refs) \in Nat /\ \A k \in 1..Len(refs) : refs[k] \in S
  OBVIOUS
<1>2. new = [k \in 1..Len(refs) |-> <<refs[k], depth>>]
  BY <1>1 DEF Entries
<1>3. new \in Seq(S \X Nat) /\ Len(new) = Len(refs) /\ DOMAIN new = 1..Len(refs)
  BY <1>1, <1>2
<1>4. \A k \in 1..Len(refs) : new[k] = <<refs[k], depth>>
  BY <1>2
<1> HIDE DEF new
<1>5. ToSet(new) = AtDepth(depth, ToSet(refs))
  BY <1>1, <1>3, <1>4 DEF ToSet, AtDepth
<1> QED
  BY <1>3, <1>5 DEF new

\* One entry leaves at the head and others join at the end.
TailMoves(q, n, new, m, q2) == Len(q) = n + 1 /\ Len(new) = m /\ q2 = Tail(q) \o new
Holds(q2, q, n, new, m) == ToSet(q2) = {q[i + 1] : i \in 1..n} \cup {new[k] : k \in 1..m}

LEMMA TailThen ==
  ASSUME NEW E, NEW q \in Seq(E), NEW new \in Seq(E), NEW n \in Nat, NEW m \in Nat,
         NEW q2, TailMoves(q, n, new, m, q2)
  PROVE  /\ q2 \in Seq(E) /\ Len(q2) = n + m
         /\ \A i \in 1..n : q2[i] = q[i + 1]
         /\ \A k \in 1..m : q2[n + k] = new[k]
         /\ Holds(q2, q, n, new, m)
<1>0. Len(q) = n + 1 /\ Len(new) = m /\ q2 = Tail(q) \o new
  BY DEF TailMoves
<1> DEFINE old == Tail(q)
<1>1. old \in Seq(E) /\ Len(old) = n /\ \A i \in 1..n : old[i] = q[i + 1]
  BY ONLY <1>0, q \in Seq(E), n \in Nat
<1>2. q2 = old \o new
  BY <1>0
<1> HIDE DEF old
<1>3. q2 \in Seq(E) /\ Len(q2) = Len(old) + Len(new)
      /\ \A i \in 1..Len(old) + Len(new) : q2[i] = IF i <= Len(old) THEN old[i] ELSE new[i - Len(old)]
  BY ONLY <1>1, <1>2, new \in Seq(E), ConcatProperties
<1>4. Len(q2) = n + m /\ \A i \in 1..n + m : q2[i] = IF i <= n THEN old[i] ELSE new[i - n]
  BY ONLY <1>0, <1>1, <1>3
<1>5. \A i \in 1..n : i \in 1..n + m /\ i <= n
  BY ONLY n \in Nat, m \in Nat
<1>6. \A i \in 1..n : q2[i] = q[i + 1]
  BY ONLY <1>1, <1>4, <1>5
<1>7. \A k \in 1..m : n + k \in 1..n + m /\ ~(n + k <= n) /\ (n + k) - n = k
  BY ONLY n \in Nat, m \in Nat
<1>8. \A k \in 1..m : q2[n + k] = new[k]
  BY ONLY <1>4, <1>7
<1>9. \A i \in 1..n + m : i \in 1..n \/ \E k \in 1..m : i = n + k
  <2> SUFFICES ASSUME NEW i \in 1..n + m, i \notin 1..n PROVE i - n \in 1..m /\ i = n + (i - n)
    OBVIOUS
  <2> QED
    BY ONLY i \in 1..n + m, i \notin 1..n, n \in Nat, m \in Nat
<1>10. ToSet(q2) = {q2[i] : i \in 1..n + m}
  <2>1. q2 \in Seq(E)
    BY <1>3
  <2>2. DOMAIN q2 = 1..Len(q2)
    BY ONLY <2>1
  <2> QED
    BY ONLY <1>4, <2>2 DEF ToSet
<1>11. ToSet(q2) \subseteq {q[i + 1] : i \in 1..n} \cup {new[k] : k \in 1..m}
  <2>1. ASSUME NEW i \in 1..n + m PROVE q2[i] \in {q[j + 1] : j \in 1..n} \cup {new[k] : k \in 1..m}
    <3>1. CASE i \in 1..n
      BY ONLY <1>6, <3>1
    <3>2. CASE \E k \in 1..m : i = n + k
      BY ONLY <1>8, <3>2
    <3> QED
      BY ONLY <1>9, <3>1, <3>2, i \in 1..n + m
  <2> QED
    BY ONLY <1>10, <2>1
<1>12. {q[i + 1] : i \in 1..n} \cup {new[k] : k \in 1..m} \subseteq ToSet(q2)
  <2>1. ASSUME NEW i \in 1..n PROVE q[i + 1] \in ToSet(q2)
    BY ONLY <1>5, <1>6, <1>10, <2>1
  <2>2. ASSUME NEW k \in 1..m PROVE new[k] \in ToSet(q2)
    BY ONLY <1>7, <1>8, <1>10, <2>2
  <2> QED
    BY ONLY <2>1, <2>2
<1> QED
  BY <1>3, <1>4, <1>6, <1>8, <1>11, <1>12 DEF Holds

LEMMA OneMore ==
  ASSUME NEW x, x \in Nat, NEW d \in Nat, d <= x, x <= d + 1
  PROVE  x = d \/ x = d + 1
  OBVIOUS

\* The first entry leaves; those that join are one deeper.
HeadGoes(q, d, refs, q2) ==
  Len(q) > 0 /\ Ordered(q) /\ d = q[1][2] /\ q2 = Tail(q) \o Entries(refs, d + 1)

LEMMA QueueMoves ==
  ASSUME NEW S, NEW q \in Seq(S \X Nat), NEW refs \in Seq(S), NEW d \in Nat,
         NEW q2, HeadGoes(q, d, refs, q2)
  PROVE  /\ q2 \in Seq(S \X Nat) /\ Ordered(q2)
         /\ ToSet(q2) \subseteq ToSet(q) \cup AtDepth(d + 1, ToSet(refs))
         /\ ToSet(q) \cup AtDepth(d + 1, ToSet(refs)) \subseteq {q[1]} \cup ToSet(q2)
         /\ \A e \in ToSet(q2) : e[2] \in {d, d + 1} /\ q2[1][2] <= e[2]
<1>h. Len(q) > 0 /\ Ordered(q) /\ d = q[1][2] /\ q2 = Tail(q) \o Entries(refs, d + 1)
  BY DEF HeadGoes
<1>e. PICK new : new = Entries(refs, d + 1)
  OBVIOUS
<1>n. \E k \in Nat : Len(q) = k + 1
  <2>1. Len(q) - 1 \in Nat /\ Len(q) = (Len(q) - 1) + 1
    BY <1>h, LenProperties
  <2> QED
    BY <2>1
<1>m. \E k \in Nat : Len(refs) = k
  BY LenProperties
<1> PICK n \in Nat : Len(q) = n + 1
  BY <1>n
<1> PICK m \in Nat : Len(refs) = m
  BY <1>m
<1>1. \A i \in 1..n + 1 : q[i] \in S \X Nat /\ q[i][2] \in Nat
  BY ONLY q \in Seq(S \X Nat), Len(q) = n + 1, n \in Nat
<1>2. d + 1 \in Nat
  BY ONLY d \in Nat
<1>3. new \in Seq(S \X Nat) /\ Len(new) = m /\ ToSet(new) = AtDepth(d + 1, ToSet(refs))
  BY ONLY <1>2, <1>e, EntriesAre, refs \in Seq(S), Len(refs) = m
<1>5. \A k \in 1..m : new[k][2] = d + 1
  BY ONLY <1>e, refs \in Seq(S), Len(refs) = m DEF Entries
<1>6. q2 = Tail(q) \o new
  BY <1>e, <1>h
<1>7. /\ q2 \in Seq(S \X Nat) /\ Len(q2) = n + m
      /\ \A i \in 1..n : q2[i] = q[i + 1]
      /\ \A k \in 1..m : q2[n + k] = new[k]
      /\ Holds(q2, q, n, new, m)
  <2> PICK E : E = S \X Nat
    OBVIOUS
  <2>1. q \in Seq(E) /\ new \in Seq(E)
    BY <1>3
  <2>2. /\ q2 \in Seq(E) /\ Len(q2) = n + m
        /\ \A i \in 1..n : q2[i] = q[i + 1]
        /\ \A k \in 1..m : q2[n + k] = new[k]
        /\ Holds(q2, q, n, new, m)
    <3>1. Len(new) = m
      BY <1>3
    <3>2. q \in Seq(E) /\ new \in Seq(E) /\ n \in Nat /\ m \in Nat /\ Len(q) = n + 1 /\ q2 = Tail(q) \o new
      BY <1>6, <2>1
    <3>3. TailMoves(q, n, new, m, q2)
      BY <3>1, <3>2 DEF TailMoves
    <3>b. q \in Seq(E) /\ new \in Seq(E) /\ n \in Nat /\ m \in Nat
      BY <3>2
    <3>a. q2 \in Seq(E)
      BY ONLY <3>b, <3>3, TailThen
    <3>4. Len(q2) = n + m
      BY ONLY <3>b, <3>3, TailThen
    <3>5. \A i \in 1..n : q2[i] = q[i + 1]
      BY ONLY <3>b, <3>3, TailThen
    <3>6. ASSUME NEW k \in 1..m PROVE q2[n + k] = new[k]
      BY ONLY <3>b, <3>3, <3>6, TailThen
    <3>7. Holds(q2, q, n, new, m)
      BY ONLY <3>b, <3>3, TailThen
    <3> QED
      BY <3>a, <3>4, <3>5, <3>6, <3>7
  <2> QED
    BY <2>2
<1>8. \A i \in 1..n + m : \/ i + 1 \in 1..n + 1 /\ i \in 1..n /\ q2[i] = q[i + 1]
                          \/ i > n /\ q2[i][2] = d + 1
  <2> TAKE i \in 1..n + m
  <2>1. CASE i <= n
    BY <1>7, <2>1
  <2>2. CASE ~(i <= n)
    <3>1. i - n \in 1..m /\ n + (i - n) = i /\ i > n
      BY ONLY <2>2, i \in 1..n + m, n \in Nat, m \in Nat
    <3> QED
      BY <1>5, <1>7, <3>1
  <2> QED
    BY <2>1, <2>2
<1>9. \A i \in 1..n + 1 : d <= q[i][2] /\ q[i][2] <= d + 1 /\ q[i][2] \in Nat
  <2>1. 1 \in 1..n + 1 /\ \A i \in 1..n + 1 : 1 <= i
    BY ONLY n \in Nat
  <2>2. \A i, j \in 1..n + 1 : i <= j => q[i][2] <= q[j][2] /\ q[j][2] <= q[i][2] + 1
    BY ONLY <1>h, Len(q) = n + 1 DEF Ordered
  <2>3. \A j \in 1..n + 1 : q[1][2] <= q[j][2] /\ q[j][2] <= q[1][2] + 1
    BY ONLY <2>1, <2>2
  <2> QED
    BY ONLY <1>1, <2>3, <1>h
<1>10. \A i \in 1..n + m : d <= q2[i][2] /\ q2[i][2] <= d + 1 /\ q2[i][2] \in Nat
  <2> TAKE i \in 1..n + m
  <2>1. CASE i + 1 \in 1..n + 1 /\ i \in 1..n /\ q2[i] = q[i + 1]
    BY ONLY <1>9, <2>1
  <2>2. CASE i > n /\ q2[i][2] = d + 1
    BY ONLY <2>2, d \in Nat
  <2> QED
    BY ONLY <1>8, <2>1, <2>2, i \in 1..n + m
<1>11. \A i, j \in 1..n + m : i <= j => q2[i][2] <= q2[j][2] /\ q2[j][2] <= q2[i][2] + 1
  <2> SUFFICES ASSUME NEW i \in 1..n + m, NEW j \in 1..n + m, i <= j
               PROVE  q2[i][2] <= q2[j][2] /\ q2[j][2] <= q2[i][2] + 1
    OBVIOUS
  <2>1. CASE j > n
    <3>1. q2[j][2] = d + 1
      BY ONLY <1>8, <2>1, j \in 1..n + m, n \in Nat
    <3> QED
      BY ONLY <1>10, <3>1, d \in Nat, i \in 1..n + m
  <2>2. CASE ~(j > n)
    <3>1. ~(i > n)
      BY ONLY <2>2, i \in 1..n + m, j \in 1..n + m, n \in Nat, m \in Nat, i <= j
    <3>2. i + 1 \in 1..n + 1 /\ j + 1 \in 1..n + 1 /\ q2[i] = q[i + 1] /\ q2[j] = q[j + 1]
      BY ONLY <1>8, <2>2, <3>1, i \in 1..n + m, j \in 1..n + m
    <3>3. i + 1 <= j + 1
      BY ONLY i <= j, i \in 1..n + m, j \in 1..n + m, n \in Nat, m \in Nat
    <3> QED
      BY ONLY <3>2, <3>3, <1>h, Len(q) = n + 1 DEF Ordered
  <2> QED
    BY <2>1, <2>2
<1>12. ToSet(q) = {q[i] : i \in 1..n + 1} /\ ToSet(new) = {new[k] : k \in 1..m}
       /\ ToSet(q2) = {q2[i] : i \in 1..n + m}
  <2>1. q2 \in Seq(S \X Nat) /\ new \in Seq(S \X Nat) /\ Len(q2) = n + m /\ Len(new) = m
    BY <1>3, <1>7
  <2>2. DOMAIN q2 = 1..n + m /\ DOMAIN new = 1..m /\ DOMAIN q = 1..n + 1
    BY ONLY <2>1, q \in Seq(S \X Nat), Len(q) = n + 1
  <2> QED
    BY ONLY <2>2 DEF ToSet
<1>13. \A i \in 1..n : i + 1 \in 1..n + 1
  BY ONLY n \in Nat
<1>14. \A i \in 1..n + 1 : i = 1 \/ \E j \in 1..n : i = j + 1
  <2> SUFFICES ASSUME NEW i \in 1..n + 1, i # 1 PROVE i - 1 \in 1..n /\ i = (i - 1) + 1
    OBVIOUS
  <2> QED
    BY ONLY i \in 1..n + 1, i # 1, n \in Nat
<1>15. ToSet(q2) \subseteq ToSet(q) \cup ToSet(new)
  BY ONLY <1>7, <1>12, <1>13 DEF Holds
<1>16. ToSet(q) \cup ToSet(new) \subseteq {q[1]} \cup ToSet(q2)
  <2>1. ASSUME NEW i \in 1..n + 1 PROVE q[i] \in {q[1]} \cup ToSet(q2)
    <3>1. CASE i = 1
      BY ONLY <3>1
    <3>2. CASE \E j \in 1..n : i = j + 1
      BY ONLY <1>7, <3>2 DEF Holds
    <3> QED
      BY ONLY <1>14, <3>1, <3>2, i \in 1..n + 1
  <2>2. ToSet(new) \subseteq ToSet(q2)
    BY ONLY <1>7, <1>12 DEF Holds
  <2> QED
    BY ONLY <1>12, <2>1, <2>2
<1>17. ASSUME NEW e \in ToSet(q2) PROVE e[2] \in {d, d + 1} /\ q2[1][2] <= e[2]
  <2> PICK i \in 1..n + m : e = q2[i]
    BY ONLY <1>12, <1>17
  <2>1. 1 \in 1..n + m /\ 1 <= i
    BY ONLY n \in Nat, m \in Nat, i \in 1..n + m
  <2>2. q2[1][2] <= q2[i][2]
    BY ONLY <1>11, <2>1, i \in 1..n + m
  <2>3. d <= q2[i][2] /\ q2[i][2] <= d + 1 /\ q2[i][2] \in Nat
    BY ONLY <1>10, i \in 1..n + m
  <2>4. q2[i][2] = d \/ q2[i][2] = d + 1
    BY ONLY <2>3, d \in Nat, OneMore
  <2> QED
    BY ONLY <2>2, <2>4, e = q2[i]
<1>18. Ordered(q2)
  BY ONLY <1>7, <1>11 DEF Ordered
<1> QED
  BY ONLY <1>3, <1>7, <1>15, <1>16, <1>17, <1>18

----------------------------------------------------------------------------
(* The resolution of a storage graph.                                       *)

GraphTypes == store \in Stores /\ roots \in RootLists /\ limits \in Limits

\* The addresses within n references of the roots.
Reach(n) == Within(store, roots)[n]

LEMMA GraphData ==
  ASSUME GraphTypes
  PROVE  /\ IsFiniteSet(Addresses) /\ roots \in Seq(Addresses) /\ ToSet(roots) \subseteq Addresses
         /\ \A o \in Addresses : /\ store[o].refs \in Seq(Addresses) /\ ToSet(store[o].refs) \subseteq Addresses
                                 /\ store[o].size \in Nat /\ Len(store[o].refs) \in Nat
         /\ limits.depth \in Nat /\ limits.objects \in Nat /\ limits.edges \in Nat /\ limits.bytes \in Nat
<1>1. roots \in Seq(Addresses)
  BY GraphAssumption DEF GraphTypes
<1>2. ASSUME NEW s \in Seq(Addresses) PROVE ToSet(s) \subseteq Addresses /\ Len(s) \in Nat
  BY <1>2 DEF ToSet
<1>3. store \in [Addresses -> [present : BOOLEAN, hashes : BOOLEAN, framed : BOOLEAN,
                               size : Nat, refs : Seq(Addresses)]]
  BY GraphAssumption DEF GraphTypes
<1>4. \A o \in Addresses : store[o].refs \in Seq(Addresses) /\ store[o].size \in Nat
  BY <1>3
<1>5. limits \in [depth : Nat, objects : Nat, edges : Nat, bytes : Nat]
  BY GraphAssumption DEF GraphTypes
<1> QED
  BY <1>1, <1>2, <1>4, <1>5, GraphAssumption

LEMMA ReferencesIn ==
  ASSUME GraphTypes, NEW S \in SUBSET Addresses
  PROVE  ReferencesOf(store, S) \in SUBSET Addresses
  BY GraphData DEF ReferencesOf

LEMMA Reaches ==
  ASSUME GraphTypes
  PROVE  /\ Reach(0) = ToSet(roots)
         /\ \A n \in Nat : Reach(n) \subseteq Addresses
         /\ \A n \in Nat : Reach(n + 1) = ReferencesOf(store, Reach(n))
         /\ \A n \in Nat : Reach(n) \subseteq Reach(n + 1)
<1>1. \A S \in SUBSET Addresses : ReferencesOf(store, S) \in SUBSET Addresses
  BY ReferencesIn
<1>2. ToSet(roots) \subseteq Addresses
  BY GraphData
<1>3. /\ Within(store, roots) \in [Nat -> SUBSET Addresses]
      /\ Within(store, roots)[0] = ToSet(roots)
      /\ \A n \in Nat : Within(store, roots)[n + 1] = ReferencesOf(store, Within(store, roots)[n])
  BY <1>1, <1>2, Levels
<1>4. \A S : S \subseteq ReferencesOf(store, S)
  BY DEF ReferencesOf
<1> QED
  BY <1>3, <1>4 DEF Reach

LEMMA ReachGrows ==
  ASSUME GraphTypes, NEW m \in Nat, NEW n \in Nat, m <= n
  PROVE  Reach(m) \subseteq Reach(n)
<1> DEFINE S == {k \in Nat : Reach(m) \subseteq Reach(m + k)}
<1>1. 0 \in S
  BY m + 0 = m
<1>2. ASSUME NEW k \in Nat, k \in S PROVE k + 1 \in S
  <2>1. m + (k + 1) = (m + k) + 1 /\ m + k \in Nat
    OBVIOUS
  <2>2. Reach(m + k) \subseteq Reach((m + k) + 1)
    BY <2>1, Reaches
  <2> QED
    BY <1>2, <2>1, <2>2
<1> HIDE DEF S
<1>3. Nat \subseteq S
  BY <1>1, <1>2, Inducts
<1>4. n - m \in Nat /\ m + (n - m) = n
  OBVIOUS
<1>5. n - m \in S
  BY <1>3, <1>4
<1> QED
  BY <1>4, <1>5 DEF S

LEMMA ClosureIs ==
  ASSUME GraphTypes
  PROVE  /\ Closure \subseteq Addresses /\ ToSet(roots) \subseteq Closure
         /\ \A o \in Closure : Sound(store[o]) => ToSet(store[o].refs) \subseteq Closure
         /\ \A S \in SUBSET Addresses : HoldsRoots(S) => Closure \subseteq S
<1>1. ToSet(roots) \subseteq Addresses /\ \A o \in Addresses : ToSet(store[o].refs) \subseteq Addresses
  BY GraphData
<1>2. Closure \subseteq Addresses /\ \A S \in SUBSET Addresses : HoldsRoots(S) => Closure \subseteq S
  BY DEF Closure
<1>3. ToSet(roots) \subseteq Closure
  BY <1>1 DEF Closure, HoldsRoots
<1>4. ASSUME NEW o \in Closure, Sound(store[o]), NEW p \in ToSet(store[o].refs) PROVE p \in Closure
  <2>1. ASSUME NEW S \in SUBSET Addresses, HoldsRoots(S) PROVE p \in S
    <3>1. o \in S
      BY <1>2, <2>1
    <3> QED
      BY <1>4, <2>1, <3>1 DEF HoldsRoots, ReferencesOf
  <2> QED
    BY <1>1, <1>2, <2>1 DEF Closure
<1> QED
  BY <1>2, <1>3, <1>4

Answerable == roots # <<>> /\ 0 \notin {limits.objects, limits.edges, limits.bytes}

\* What was read is a part of the closure, counted once and within the limits.
GraphCounts ==
  /\ visited \subseteq Closure /\ \A o \in visited : Sound(store[o])
  /\ readable \in Seq(Addresses) /\ ToSet(readable) = visited /\ Len(readable) = Cardinality(visited)
  /\ bytes = Sum(SizeOfObject(store), visited) /\ edges = Sum(EdgesOfObject(store), visited)
  /\ Len(readable) <= limits.objects /\ bytes <= limits.bytes /\ edges <= limits.edges

\* What waits is in the closure, at the depth it waits with.
GraphQueue ==
  /\ queue \in Seq(Addresses \X Nat) /\ Ordered(queue)
  /\ \A e \in ToSet(queue) : e[1] \in Closure /\ e[2] <= limits.depth /\ e[1] \in Reach(e[2])

Awaited(o) == o \in visited \/ \E e \in ToSet(queue) : e[1] = o

\* Nothing the closure has is forgotten, and levels are read one after the other.
GraphReached ==
  /\ \A o \in visited : store[o].refs # <<>> => limits.depth > 0 /\ o \in Reach(limits.depth - 1)
  /\ \A o \in ToSet(roots) : Awaited(o)
  /\ \A p \in visited : \A o \in ToSet(store[p].refs) : Awaited(o)

\* The levels above the head of the queue are read; its own is read or waits.
GraphLevels ==
  Len(queue) > 0 =>
    /\ \A n \in Nat : n < queue[1][2] => Reach(n) \subseteq visited
    /\ \A o \in Reach(queue[1][2]) : o \in visited \/ <<o, queue[1][2]>> \in ToSet(queue)

\* What permits the closure, with its sums.
GraphPermits ==
  /\ Answerable
  /\ \A o \in Closure : Sound(store[o])
  /\ Cardinality(Closure) <= limits.objects
  /\ Sum(SizeOfObject(store), Closure) <= limits.bytes
  /\ Sum(EdgesOfObject(store), Closure) <= limits.edges
  /\ \A o \in Closure : store[o].refs # <<>> => limits.depth > 0 /\ o \in Reach(limits.depth - 1)

GraphInv ==
  /\ GraphTypes
  /\ graph \in {"resolving", "resolved", "refused"}
  /\ graph # "refused" => Answerable /\ GraphCounts /\ GraphQueue /\ GraphReached /\ GraphLevels
  /\ graph = "resolved" => Len(queue) = 0
  /\ graph = "refused" => ~GraphPermits

\* What one object adds to the sums.
LEMMA GraphSums ==
  ASSUME GraphTypes, NEW S \in SUBSET Addresses
  PROVE  /\ IsFiniteSet(S) /\ Cardinality(S) \in Nat
         /\ Sum(SizeOfObject(store), S) \in Nat /\ Sum(EdgesOfObject(store), S) \in Nat
         /\ \A o \in Addresses \ S :
              /\ Cardinality(S \cup {o}) = Cardinality(S) + 1
              /\ Sum(SizeOfObject(store), S \cup {o}) = Sum(SizeOfObject(store), S) + store[o].size
              /\ Sum(EdgesOfObject(store), S \cup {o}) = Sum(EdgesOfObject(store), S) + Len(store[o].refs)
         /\ \A T \in SUBSET S :
              /\ Cardinality(T) <= Cardinality(S)
              /\ Sum(SizeOfObject(store), T) <= Sum(SizeOfObject(store), S)
              /\ Sum(EdgesOfObject(store), T) <= Sum(EdgesOfObject(store), S)
         /\ MapThenSumSet(LAMBDA o : store[o].size, S) = Sum(SizeOfObject(store), S)
         /\ MapThenSumSet(LAMBDA o : Len(store[o].refs), S) = Sum(EdgesOfObject(store), S)
<1>1. \A o \in Addresses : store[o].size \in Nat /\ Len(store[o].refs) \in Nat
  BY GraphData
<1>2. IsFiniteSet(S)
  BY GraphData, FS_Subset
<1>w. PICK w : w = SizeOfObject(store)
  OBVIOUS
<1>x. PICK x : x = EdgesOfObject(store)
  OBVIOUS
<1>3. \A o \in Addresses : w[o] = store[o].size /\ x[o] = Len(store[o].refs) /\ w[o] \in Nat /\ x[o] \in Nat
  BY <1>1, <1>w, <1>x DEF SizeOfObject, EdgesOfObject
<1>4. \A o \in S : w[o] \in Nat /\ x[o] \in Nat
  BY <1>3
<1>5. Sum(w, S) \in Nat /\ Sum(x, S) \in Nat /\ Cardinality(S) \in Nat
  BY <1>2, <1>4, SumNat, FS_CardinalityType
<1>6. ASSUME NEW o \in Addresses \ S
      PROVE  Cardinality(S \cup {o}) = Cardinality(S) + 1
             /\ Sum(w, S \cup {o}) = Sum(w, S) + w[o] /\ Sum(x, S \cup {o}) = Sum(x, S) + x[o]
  <2>1. o \notin S /\ w[o] \in Nat /\ x[o] \in Nat
    BY <1>3, <1>6
  <2>2. Sum(w, S \cup {o}) = Sum(w, S) + w[o]
    BY <1>2, <1>4, <2>1, SumWith
  <2>3. Sum(x, S \cup {o}) = Sum(x, S) + x[o]
    BY <1>2, <1>4, <2>1, SumWith
  <2>4. Cardinality(S \cup {o}) = Cardinality(S) + 1
    BY <1>2, <2>1, FS_AddElement
  <2> QED
    BY <2>2, <2>3, <2>4
<1>7. ASSUME NEW T \in SUBSET S
      PROVE  Cardinality(T) <= Cardinality(S) /\ Sum(w, T) <= Sum(w, S) /\ Sum(x, T) <= Sum(x, S)
  <2>1. Cardinality(T) <= Cardinality(S)
    BY <1>2, FS_Subset
  <2>2. Sum(w, T) <= Sum(w, S)
    BY <1>2, <1>4, SumMonotone
  <2>3. Sum(x, T) <= Sum(x, S)
    BY <1>2, <1>4, SumMonotone
  <2> QED
    BY <2>1, <2>2, <2>3
<1>8. MapThenSumSet(LAMBDA o : store[o].size, S) = Sum(SizeOfObject(store), S)
  BY <1>1, <1>2, SizesSum
<1>9. MapThenSumSet(LAMBDA o : Len(store[o].refs), S) = Sum(EdgesOfObject(store), S)
  BY <1>1, <1>2, EdgesSum
<1>10. \A o \in Addresses \ S :
              /\ Cardinality(S \cup {o}) = Cardinality(S) + 1
              /\ Sum(SizeOfObject(store), S \cup {o}) = Sum(SizeOfObject(store), S) + store[o].size
              /\ Sum(EdgesOfObject(store), S \cup {o}) = Sum(EdgesOfObject(store), S) + Len(store[o].refs)
  BY <1>3, <1>6, <1>w, <1>x
<1>11. \A T \in SUBSET S :
              /\ Cardinality(T) <= Cardinality(S)
              /\ Sum(SizeOfObject(store), T) <= Sum(SizeOfObject(store), S)
              /\ Sum(EdgesOfObject(store), T) <= Sum(EdgesOfObject(store), S)
  BY <1>7, <1>w, <1>x
<1> QED
  BY <1>2, <1>5, <1>8, <1>9, <1>10, <1>11, <1>w, <1>x

LEMMA PermitsIs ==
  ASSUME GraphTypes
  PROVE  Permitted <=> GraphPermits
<1>1. Closure \in SUBSET Addresses /\ limits.depth \in Nat
  BY ClosureIs, GraphData
<1>2. MapThenSumSet(LAMBDA o : store[o].size, Closure) = Sum(SizeOfObject(store), Closure)
      /\ MapThenSumSet(LAMBDA o : Len(store[o].refs), Closure) = Sum(EdgesOfObject(store), Closure)
  BY <1>1, GraphSums
<1>3. (\A o \in Closure \ (IF limits.depth = 0 THEN {} ELSE Within(store, roots)[limits.depth - 1]) :
          store[o].refs = <<>>)
      <=> \A o \in Closure : store[o].refs # <<>> => limits.depth > 0 /\ o \in Reach(limits.depth - 1)
  BY <1>1 DEF Reach
<1> QED
  BY <1>2, <1>3 DEF Permitted, GraphPermits, Answerable

LEMMA GraphInitInv == ASSUME GraphInit PROVE GraphInv
<1>1. GraphTypes /\ graph \in {"resolving", "refused"}
  BY DEF GraphInit, GraphTypes
<1>2. graph = "refused" => ~GraphPermits
  BY DEF GraphInit, GraphPermits, Answerable
<1>3. graph # "refused" => Answerable
  BY DEF GraphInit, Answerable
<1>4. GraphCounts
  <2>1. Sum(SizeOfObject(store), {}) = 0 /\ Sum(EdgesOfObject(store), {}) = 0
    BY SumEmpty
  <2>2. Cardinality({}) = 0
    BY FS_EmptySet
  <2>3. visited = {} /\ readable = <<>> /\ edges = 0 /\ bytes = 0
    BY DEF GraphInit
  <2>4. limits.objects \in Nat /\ limits.edges \in Nat /\ limits.bytes \in Nat
    BY <1>1, GraphData
  <2>5. readable \in Seq(Addresses) /\ Len(readable) = 0 /\ ToSet(readable) = {}
    BY <2>3 DEF ToSet
  <2> QED
    BY <2>1, <2>2, <2>3, <2>4, <2>5 DEF GraphCounts
<1>5. /\ queue \in Seq(Addresses \X Nat) /\ ToSet(queue) = {<<o, 0>> : o \in ToSet(roots)}
      /\ Len(queue) = Len(roots) /\ \A k \in 1..Len(queue) : queue[k][2] = 0
  <2>1. queue = Entries(roots, 0) /\ roots \in Seq(Addresses)
    BY <1>1, GraphData DEF GraphInit, Entries
  <2>2. queue \in Seq(Addresses \X Nat) /\ ToSet(queue) = {<<o, 0>> : o \in ToSet(roots)} /\ Len(queue) = Len(roots)
    BY <2>1, EntriesAre DEF AtDepth
  <2>3. DOMAIN roots = 1..Len(roots)
    BY <2>1
  <2>4. \A k \in 1..Len(roots) : queue[k][2] = 0
    BY <2>1, <2>3 DEF Entries
  <2> QED
    BY <2>2, <2>4
<1>6. Reach(0) = ToSet(roots) /\ ToSet(roots) \subseteq Closure /\ limits.depth \in Nat
  BY <1>1, Reaches, ClosureIs, GraphData
<1>7. GraphQueue
  BY <1>5, <1>6 DEF GraphQueue, Ordered
<1>8. GraphReached
  <2>1. visited = {}
    BY DEF GraphInit
  <2>2. ASSUME NEW o \in ToSet(roots) PROVE \E e \in ToSet(queue) : e[1] = o
    <3>1. <<o, 0>> \in ToSet(queue) /\ <<o, 0>>[1] = o
      BY <1>5
    <3> QED
      BY <3>1
  <2> QED
    BY <2>1, <2>2 DEF GraphReached, Awaited
<1>9. GraphLevels
  <2> SUFFICES ASSUME Len(queue) > 0 PROVE GraphLevels
    BY DEF GraphLevels
  <2>1. queue[1][2] = 0
    BY <1>5
  <2> QED
    BY <1>5, <1>6, <2>1 DEF GraphLevels
<1> QED
  BY <1>1, <1>2, <1>3, <1>4, <1>7, <1>8, <1>9 DEF GraphInv

\* Whichever way the head of the queue is left, the queue keeps its order, what
\* waited still waits or was read, and the levels stay whole.
LEMMA HeadLeaves ==
  ASSUME GraphInv, graph # "refused", Len(queue) > 0,
         NEW o, NEW d, queue[1] = <<o, d>>, o \in Addresses, d \in Nat,
         NEW refs, refs \in Seq(Addresses),
         queue' = Tail(queue) \o Entries(refs, d + 1), visited' = visited \cup {o},
         refs = store[o].refs \/ (o \in visited /\ refs = <<>>),
         refs # <<>> => Sound(store[o]) /\ d < limits.depth,
         store[o].refs # <<>> => o \in visited \/ d < limits.depth,
         UNCHANGED <<store, roots, limits>>
  PROVE  GraphQueue' /\ GraphReached' /\ GraphLevels'
<1>1. GraphTypes /\ GraphQueue /\ GraphReached /\ GraphLevels /\ GraphCounts
  BY DEF GraphInv
<1>2. Closure' = Closure /\ store' = store /\ roots' = roots /\ limits' = limits
  BY DEF Closure, HoldsRoots
<1>3. \A n : Reach(n)' = Reach(n)
  BY <1>2 DEF Reach
<1>4. queue \in Seq(Addresses \X Nat) /\ Ordered(queue) /\ d = queue[1][2] /\ <<o, d>> \in ToSet(queue)
  <2>1. queue \in Seq(Addresses \X Nat) /\ Ordered(queue)
    BY <1>1 DEF GraphQueue
  <2>2. 1 \in DOMAIN queue
    BY ONLY <2>1, Len(queue) > 0
  <2>3. queue[1] \in ToSet(queue)
    BY ONLY <2>2 DEF ToSet
  <2> QED
    BY <2>1, <2>3
<1>5. PICK q2 : q2 = queue'
  OBVIOUS
<1>6. /\ q2 \in Seq(Addresses \X Nat) /\ Ordered(q2)
      /\ ToSet(q2) \subseteq ToSet(queue) \cup AtDepth(d + 1, ToSet(refs))
      /\ ToSet(queue) \cup AtDepth(d + 1, ToSet(refs)) \subseteq {queue[1]} \cup ToSet(q2)
      /\ \A e \in ToSet(q2) : e[2] \in {d, d + 1} /\ q2[1][2] <= e[2]
  <2>1. q2 = Tail(queue) \o Entries(refs, d + 1)
    BY <1>5
  <2>2. queue \in Seq(Addresses \X Nat) /\ refs \in Seq(Addresses) /\ d \in Nat
    BY <1>4
  <2>0. HeadGoes(queue, d, refs, q2)
    BY <1>4, <2>1 DEF HeadGoes
  <2>3. q2 \in Seq(Addresses \X Nat)
    BY ONLY <2>0, <2>2, QueueMoves
  <2>4. Ordered(q2)
    BY ONLY <2>0, <2>2, QueueMoves
  <2>5. ToSet(q2) \subseteq ToSet(queue) \cup AtDepth(d + 1, ToSet(refs))
    BY ONLY <2>0, <2>2, QueueMoves
  <2>6. ToSet(queue) \cup AtDepth(d + 1, ToSet(refs)) \subseteq {queue[1]} \cup ToSet(q2)
    BY ONLY <2>0, <2>2, QueueMoves
  <2>7. \A e \in ToSet(q2) : e[2] \in {d, d + 1} /\ q2[1][2] <= e[2]
    BY ONLY <2>0, <2>2, QueueMoves
  <2> QED
    BY <2>3, <2>4, <2>5, <2>6, <2>7
<1>7. o \in Closure /\ d <= limits.depth /\ o \in Reach(d)
  BY <1>1, <1>4 DEF GraphQueue
<1>8. limits.depth \in Nat
  BY <1>1, GraphData
<1>9. ASSUME NEW p \in ToSet(refs) PROVE p \in Closure /\ d + 1 <= limits.depth /\ p \in Reach(d + 1)
  <2>1. refs # <<>>
    BY <1>9 DEF ToSet
  <2>2. refs = store[o].refs \/ refs = <<>>
    OBVIOUS
  <2>3. p \in ToSet(store[o].refs)
    BY <1>9, <2>1, <2>2
  <2>4. Sound(store[o]) /\ d < limits.depth
    BY <2>1
  <2>5. p \in Closure
    BY <1>1, <1>7, <2>3, <2>4, ClosureIs
  <2>6. p \in ReferencesOf(store, Reach(d))
    BY <1>7, <2>3, <2>4 DEF ReferencesOf
  <2>7. p \in Reach(d + 1)
    BY <1>1, <2>6, Reaches
  <2> QED
    BY <1>8, <2>4, <2>5, <2>7
<1>10. ASSUME NEW e \in ToSet(q2) PROVE e[1] \in Closure /\ e[2] <= limits.depth /\ e[1] \in Reach(e[2])
  <2>1. CASE e \in ToSet(queue)
    BY <1>1, <2>1 DEF GraphQueue
  <2>2. CASE \E p \in ToSet(refs) : e = <<p, d + 1>>
    BY <1>9, <2>2
  <2> QED
    BY <1>6, <2>1, <2>2 DEF AtDepth
<1>11. GraphQueue'
  <2>1. queue' \in Seq(Addresses \X Nat) /\ Ordered(queue')
    BY <1>5, <1>6
  <2>2. \A e \in ToSet(queue') : e[1] \in Closure' /\ e[2] <= limits'.depth /\ e[1] \in Reach(e[2])'
    BY <1>2, <1>3, <1>5, <1>10
  <2> QED
    BY ONLY <2>1, <2>2 DEF GraphQueue
<1>12. ASSUME NEW p, Awaited(p) PROVE Awaited(p)'
  <2>1. CASE p \in visited
    BY <2>1 DEF Awaited
  <2>2. ASSUME NEW e \in ToSet(queue), e[1] = p PROVE Awaited(p)'
    <3>1. e = queue[1] \/ e \in ToSet(q2)
      BY <1>6
    <3>2. CASE e = queue[1]
      BY <2>2, <3>2 DEF Awaited
    <3>3. CASE e \in ToSet(q2)
      BY <1>5, <2>2, <3>3 DEF Awaited
    <3> QED
      BY <3>1, <3>2, <3>3
  <2> QED
    BY <1>12, <2>1, <2>2 DEF Awaited
<1>13. ASSUME NEW p \in ToSet(store[o].refs) PROVE Awaited(p)'
  <2>1. CASE o \in visited
    BY <1>1, <1>12, <2>1 DEF GraphReached
  <2>2. CASE refs = store[o].refs
    <3>1. <<p, d + 1>> \in {queue[1]} \cup ToSet(q2)
      BY <1>6, <2>2 DEF AtDepth
    <3>2. <<p, d + 1>> # queue[1] /\ <<p, d + 1>>[1] = p
      OBVIOUS
    <3> QED
      BY <1>5, <3>1, <3>2 DEF Awaited
  <2> QED
    BY <2>1, <2>2
<1>14. ASSUME NEW p \in visited \cup {o}, store[p].refs # <<>>
       PROVE  limits.depth > 0 /\ p \in Reach(limits.depth - 1)
  <2>1. CASE p \in visited
    BY <1>1, <1>14, <2>1 DEF GraphReached
  <2>2. CASE p = o /\ d < limits.depth
    <3>1. limits.depth - 1 \in Nat /\ d <= limits.depth - 1 /\ limits.depth > 0
      BY <1>8, <2>2
    <3>2. Reach(d) \subseteq Reach(limits.depth - 1)
      BY <1>1, <3>1, ReachGrows
    <3> QED
      BY <1>7, <2>2, <3>1, <3>2
  <2> QED
    BY <1>14, <2>1, <2>2
<1>15. GraphReached'
  <2>1. \A p \in visited' : store'[p].refs # <<>> => limits'.depth > 0 /\ p \in Reach(limits.depth - 1)'
    BY <1>2, <1>3, <1>14
  <2>2. \A p \in ToSet(roots') : Awaited(p)'
    BY <1>1, <1>2, <1>12 DEF GraphReached
  <2>3. ASSUME NEW r \in visited', NEW p \in ToSet(store'[r].refs) PROVE Awaited(p)'
    BY <1>1, <1>2, <1>12, <1>13, <2>3 DEF GraphReached
  <2> QED
    BY <2>1, <2>2, <2>3 DEF GraphReached
<1>16. ASSUME NEW p \in Reach(d) PROVE p \in visited' \/ <<p, d>> \in ToSet(q2)
  <2>1. p \in visited \/ <<p, d>> \in ToSet(queue)
    BY <1>1, <1>4 DEF GraphLevels
  <2>2. CASE <<p, d>> \in ToSet(queue)
    <3>1. <<p, d>> = queue[1] \/ <<p, d>> \in ToSet(q2)
      BY <1>6, <2>2
    <3>2. <<p, d>> = queue[1] => p = o
      OBVIOUS
    <3> QED
      BY <3>1, <3>2
  <2> QED
    BY <2>1, <2>2
<1>17. \A n \in Nat : n < d => Reach(n) \subseteq visited
  BY <1>1, <1>4 DEF GraphLevels
<1>18. GraphLevels'
  <2> SUFFICES ASSUME Len(q2) > 0
               PROVE  /\ \A n \in Nat : n < q2[1][2] => Reach(n) \subseteq visited'
                      /\ \A p \in Reach(q2[1][2]) : p \in visited' \/ <<p, q2[1][2]>> \in ToSet(q2)
    BY <1>3, <1>5 DEF GraphLevels
  <2>1. q2[1] \in ToSet(q2)
    <3>1. 1 \in DOMAIN q2
      BY ONLY <1>6, Len(q2) > 0
    <3> QED
      BY ONLY <3>1 DEF ToSet
  <2>2. q2[1][2] \in {d, d + 1}
    BY <1>6, <2>1
  <2>3. CASE q2[1][2] = d
    BY <1>16, <1>17, <2>3
  <2>4. CASE q2[1][2] = d + 1
    <3>1. ASSUME NEW p \in Reach(d) PROVE p \in visited'
      <4>1. ASSUME <<p, d>> \in ToSet(q2) PROVE FALSE
        <5>1. d + 1 <= <<p, d>>[2]
          BY <1>6, <2>4, <4>1
        <5> QED
          BY <5>1
      <4> QED
        BY <1>16, <4>1
    <3>2. ASSUME NEW n \in Nat, n < d + 1 PROVE Reach(n) \subseteq visited'
      <4>1. n < d \/ n = d
        BY <3>2
      <4> QED
        BY <1>17, <3>1, <4>1
    <3>3. ASSUME NEW p \in Reach(d + 1), p \notin visited' PROVE <<p, d + 1>> \in ToSet(q2)
      <4>1. p \in ReferencesOf(store, Reach(d))
        BY <1>1, <3>3, Reaches
      <4>2. PICK r \in Reach(d) : Sound(store[r]) /\ p \in ToSet(store[r].refs)
        BY <3>1, <3>3, <4>1 DEF ReferencesOf
      <4>3. Awaited(p)'
        <5>1. r \in visited'
          BY <3>1
        <5>2. \A s \in visited' : \A t \in ToSet(store'[s].refs) : Awaited(t)'
          BY <1>15 DEF GraphReached
        <5> QED
          BY <1>2, <4>2, <5>1, <5>2
      <4>4. PICK e \in ToSet(q2) : e[1] = p
        BY <1>5, <3>3, <4>3 DEF Awaited
      <4>5. e[2] \in {d, d + 1} /\ d + 1 <= e[2]
        BY <1>6, <2>4
      <4>6. e[2] = d + 1
        BY <4>5
      <4>7. e \in Addresses \X Nat
        BY <1>6 DEF ToSet
      <4>8. e = <<e[1], e[2]>>
        BY <4>7
      <4> QED
        BY <4>4, <4>6, <4>8
    <3> QED
      BY <2>4, <3>2, <3>3
  <2> QED
    BY <2>2, <2>3, <2>4
<1> QED
  BY <1>11, <1>15, <1>18

LEMMA NoEntries ==
  ASSUME NEW S, NEW q \in Seq(S), NEW refs, refs = <<>>, NEW depth
  PROVE  q \o Entries(refs, depth) = q
<1>1. DOMAIN refs = {}
  OBVIOUS
<1>2. Entries(refs, depth) = [k \in {} |-> <<refs[k], depth>>]
  BY <1>1 DEF Entries
<1>3. [k \in {} |-> <<refs[k], depth>>] = <<>>
  OBVIOUS
<1>4. q \o <<>> = q
  BY ConcatEmptySeq
<1> QED
  BY <1>2, <1>3, <1>4

\* An object that cannot be read within the limits leaves no way to permit the
\* whole closure: what was read and that object are part of it.
LEMMA RefusalIsDue ==
  ASSUME GraphInv, graph # "refused", Len(queue) > 0,
         NEW o, NEW d, queue[1] = <<o, d>>, o \in Addresses, d \in Nat,
         <<o, d>> \in ToSet(queue), o \notin visited, ~WithinLimits(o, d)
  PROVE  ~GraphPermits
<1> SUFFICES ASSUME GraphPermits PROVE FALSE
  OBVIOUS
<1>1. GraphTypes /\ GraphQueue /\ GraphLevels /\ GraphCounts
  BY DEF GraphInv
<1>2. o \in Closure /\ d <= limits.depth /\ visited \subseteq Closure /\ Closure \in SUBSET Addresses
  BY <1>1, ClosureIs DEF GraphQueue, GraphCounts
<1>3. /\ limits.depth \in Nat /\ limits.objects \in Nat /\ limits.edges \in Nat /\ limits.bytes \in Nat
      /\ store[o].size \in Nat /\ Len(store[o].refs) \in Nat
  BY <1>1, GraphData
<1>4. /\ Cardinality(Closure) <= limits.objects
      /\ Sum(SizeOfObject(store), Closure) <= limits.bytes
      /\ Sum(EdgesOfObject(store), Closure) <= limits.edges
      /\ \A p \in Closure : Sound(store[p])
  BY DEF GraphPermits
<1>5. visited \in SUBSET Addresses /\ visited \cup {o} \in SUBSET Closure /\ o \in Addresses \ visited
  BY <1>2
<1>6. /\ Cardinality(visited \cup {o}) <= Cardinality(Closure)
      /\ Sum(SizeOfObject(store), visited \cup {o}) <= Sum(SizeOfObject(store), Closure)
      /\ Sum(EdgesOfObject(store), visited \cup {o}) <= Sum(EdgesOfObject(store), Closure)
      /\ Cardinality(Closure) \in Nat
      /\ Sum(SizeOfObject(store), Closure) \in Nat /\ Sum(EdgesOfObject(store), Closure) \in Nat
  BY <1>1, <1>2, <1>5, GraphSums
<1>7. /\ Cardinality(visited \cup {o}) = Cardinality(visited) + 1
      /\ Sum(SizeOfObject(store), visited \cup {o}) = Sum(SizeOfObject(store), visited) + store[o].size
      /\ Sum(EdgesOfObject(store), visited \cup {o}) = Sum(EdgesOfObject(store), visited) + Len(store[o].refs)
      /\ Cardinality(visited) \in Nat
      /\ Sum(SizeOfObject(store), visited) \in Nat /\ Sum(EdgesOfObject(store), visited) \in Nat
  BY <1>1, <1>5, GraphSums
<1>8. Len(readable) = Cardinality(visited) /\ bytes = Sum(SizeOfObject(store), visited)
      /\ edges = Sum(EdgesOfObject(store), visited)
  BY <1>1 DEF GraphCounts
<1>9. Len(readable) < limits.objects
  BY ONLY <1>3, <1>4, <1>6, <1>7, <1>8
<1>10. bytes + store[o].size <= limits.bytes
  BY ONLY <1>3, <1>4, <1>6, <1>7, <1>8
<1>11. edges + Len(store[o].refs) <= limits.edges
  BY ONLY <1>3, <1>4, <1>6, <1>7, <1>8
<1>12. d = limits.depth => store[o].refs = <<>>
  <2> SUFFICES ASSUME d = limits.depth, store[o].refs # <<>> PROVE FALSE
    OBVIOUS
  <2>2. limits.depth # 0 /\ o \in Reach(limits.depth - 1)
    BY <1>2, <1>3 DEF GraphPermits
  <2>3. limits.depth - 1 \in Nat /\ limits.depth - 1 < queue[1][2]
    BY <1>3, <2>2
  <2>4. Reach(limits.depth - 1) \subseteq visited
    BY <1>1, <2>3 DEF GraphLevels
  <2> QED
    BY <2>2, <2>4
<1> QED
  BY <1>2, <1>4, <1>9, <1>10, <1>11, <1>12 DEF WithinLimits

LEMMA VisitKeeps ==
  ASSUME GraphInv, Visit
  PROVE  GraphInv'
<1>1. GraphTypes /\ GraphQueue /\ GraphCounts /\ GraphReached /\ Answerable
  BY DEF GraphInv, Visit
<1>2. /\ graph = "resolving" /\ queue # <<>> /\ UNCHANGED <<store, roots, limits>>
  BY DEF Visit
<1>3. queue \in Seq(Addresses \X Nat)
  BY <1>1 DEF GraphQueue
<1>4. Len(queue) > 0 /\ Head(queue) = queue[1] /\ queue[1] \in Addresses \X Nat /\ 1 \in DOMAIN queue
  BY <1>2, <1>3
<1>o. PICK o \in Addresses : \E d \in Nat : queue[1] = <<o, d>>
  BY <1>4
<1>d. PICK d \in Nat : queue[1] = <<o, d>>
  BY <1>o
<1>5. <<o, d>> \in ToSet(queue) /\ Head(queue)[1] = o /\ Head(queue)[2] = d
  <2>1. queue[1] \in ToSet(queue)
    BY <1>4 DEF ToSet
  <2> QED
    BY <1>4, <1>d, <2>1
<1>6. GraphTypes' /\ (Closure' = Closure) /\ (GraphPermits' = GraphPermits) /\ (Answerable' = Answerable)
  <2>1. Closure' = Closure
    BY <1>2 DEF Closure, HoldsRoots
  <2> QED
    BY <1>1, <1>2, <2>1 DEF GraphTypes, GraphPermits, Answerable, Reach
<1>7. store[o].refs \in Seq(Addresses) /\ limits.depth \in Nat /\ Tail(queue) \in Seq(Addresses \X Nat)
  BY <1>1, <1>3, <1>4, GraphData
<1>8. CASE o \in visited /\ queue' = Tail(queue) /\ UNCHANGED <<visited, readable, edges, bytes, graph>>
  <2>0. <<>> \in Seq(Addresses)
    OBVIOUS
  <2>1. PICK refs \in Seq(Addresses) : refs = <<>>
    BY <2>0, Zenon
  <2>2. queue' = Tail(queue) \o Entries(refs, d + 1)
    BY <1>7, <1>8, <2>1, NoEntries
  <2>3. visited' = visited \cup {o}
    BY <1>8
  <2>4. GraphQueue' /\ GraphReached' /\ GraphLevels'
    BY <1>2, <1>4, <1>8, <1>d, <2>1, <2>2, <2>3, HeadLeaves
  <2>5. GraphCounts'
    BY <1>1, <1>2, <1>6, <1>8 DEF GraphCounts
  <2> QED
    BY <1>1, <1>2, <1>6, <1>8, <2>4, <2>5 DEF GraphInv
<1>9. CASE o \notin visited /\ ~WithinLimits(o, d) /\ RefuseGraph
  <2>1. ~GraphPermits
    BY <1>2, <1>4, <1>5, <1>9, <1>d, RefusalIsDue
  <2>2. graph' = "refused"
    BY <1>9 DEF RefuseGraph
  <2> QED
    BY <1>6, <2>1, <2>2 DEF GraphInv
<1>10. CASE /\ o \notin visited /\ WithinLimits(o, d)
            /\ visited' = visited \cup {o}
            /\ readable' = Append(readable, o)
            /\ bytes' = bytes + store[o].size
            /\ edges' = edges + Len(store[o].refs)
            /\ queue' = Enqueue(store[o].refs, d)
            /\ UNCHANGED graph
  <2>1. PICK refs \in Seq(Addresses) : refs = store[o].refs
    BY <1>7
  <2>2. queue' = Tail(queue) \o Entries(refs, d + 1)
    BY <1>10, <2>1 DEF Enqueue, Entries
  <2>3. /\ Len(readable) < limits.objects /\ d <= limits.depth /\ Sound(store[o])
        /\ bytes + store[o].size <= limits.bytes /\ edges + Len(store[o].refs) <= limits.edges
        /\ (d = limits.depth => store[o].refs = <<>>)
    BY <1>10 DEF WithinLimits
  <2>4. store[o].refs # <<>> => d < limits.depth
    BY <1>7, <2>3
  <2>5. GraphQueue' /\ GraphReached' /\ GraphLevels'
    <3>1. (refs # <<>> => Sound(store[o]) /\ d < limits.depth)
          /\ (store[o].refs # <<>> => o \in visited \/ d < limits.depth)
      BY <2>1, <2>3, <2>4
    <3>2. (refs = store[o].refs \/ (o \in visited /\ refs = <<>>)) /\ graph # "refused" /\ visited' = visited \cup {o}
      BY <1>2, <1>10, <2>1
    <3> QED
      BY <1>2, <1>4, <1>d, <2>2, <3>1, <3>2, HeadLeaves
  <2>6. GraphCounts'
    <3>1. o \in Closure /\ visited \in SUBSET Addresses /\ o \in Addresses \ visited
      BY <1>1, <1>5, <1>10, ClosureIs DEF GraphQueue, GraphCounts
    <3>2. /\ Cardinality(visited \cup {o}) = Cardinality(visited) + 1
          /\ Sum(SizeOfObject(store), visited \cup {o}) = Sum(SizeOfObject(store), visited) + store[o].size
          /\ Sum(EdgesOfObject(store), visited \cup {o}) = Sum(EdgesOfObject(store), visited) + Len(store[o].refs)
      BY <1>1, <3>1, GraphSums
    <3>3. readable \in Seq(Addresses) /\ ToSet(readable) = visited /\ Len(readable) = Cardinality(visited)
      BY <1>1 DEF GraphCounts
    <3>4. Append(readable, o) \in Seq(Addresses) /\ Len(Append(readable, o)) = Len(readable) + 1
          /\ ToSet(Append(readable, o)) = ToSet(readable) \cup {o} /\ Len(readable) \in Nat
      <4>1. PICK n \in Nat : n = Len(readable)
        BY <3>3
      <4>2. Append(readable, o) \in Seq(Addresses) /\ Len(Append(readable, o)) = n + 1
            /\ Append(readable, o)[n + 1] = o /\ \A i \in 1..n : Append(readable, o)[i] = readable[i]
        BY <3>3, <4>1
      <4>3. DOMAIN Append(readable, o) = 1..n + 1 /\ DOMAIN readable = 1..n /\ 1..n + 1 = 1..n \cup {n + 1}
        BY <3>3, <4>1, <4>2
      <4>4. ToSet(Append(readable, o)) = ToSet(readable) \cup {o}
        BY <4>2, <4>3 DEF ToSet
      <4> QED
        BY <4>1, <4>2, <4>4
    <3>5. Len(Append(readable, o)) <= limits.objects
      BY <1>1, <2>3, <3>4, GraphData
    <3>6. bytes = Sum(SizeOfObject(store), visited) /\ edges = Sum(EdgesOfObject(store), visited)
          /\ visited \subseteq Closure /\ \A p \in visited : Sound(store[p])
      BY <1>1 DEF GraphCounts
    <3>7. /\ visited' \subseteq Closure' /\ \A p \in visited' : Sound(store'[p])
      BY <1>2, <1>6, <1>10, <2>3, <3>1, <3>6
    <3>8. /\ readable' \in Seq(Addresses) /\ ToSet(readable') = visited' /\ Len(readable') = Cardinality(visited')
          /\ Len(readable') <= limits'.objects
      BY <1>2, <1>10, <3>2, <3>3, <3>4, <3>5
    <3>9. /\ bytes' = Sum(SizeOfObject(store'), visited') /\ edges' = Sum(EdgesOfObject(store'), visited')
          /\ bytes' <= limits'.bytes /\ edges' <= limits'.edges
      BY <1>2, <1>10, <2>3, <3>2, <3>6
    <3> QED
      BY <3>7, <3>8, <3>9 DEF GraphCounts
  <2> QED
    BY <1>1, <1>2, <1>6, <1>10, <2>5, <2>6 DEF GraphInv
<1>11. \/ /\ o \in visited
          /\ queue' = Tail(queue)
          /\ UNCHANGED <<visited, readable, edges, bytes, graph>>
       \/ o \notin visited /\ ~WithinLimits(o, d) /\ RefuseGraph
       \/ /\ o \notin visited /\ WithinLimits(o, d)
          /\ visited' = visited \cup {o}
          /\ readable' = Append(readable, o)
          /\ bytes' = bytes + store[o].size
          /\ edges' = edges + Len(store[o].refs)
          /\ queue' = Enqueue(store[o].refs, d)
          /\ UNCHANGED graph
  BY <1>5 DEF Visit
<1> QED
  BY <1>8, <1>9, <1>10, <1>11

LEMMA GraphStep ==
  ASSUME GraphInv, GraphNext
  PROVE  GraphInv'
<1>1. CASE Visit
  BY <1>1, VisitKeeps
<1>2. CASE Resolved
  <2>1. graph = "resolving" /\ queue = <<>> /\ graph' = "resolved"
        /\ UNCHANGED <<store, roots, limits, queue, visited, readable, edges, bytes>>
    BY <1>2 DEF Resolved
  <2>2. Len(queue) = 0
    BY <2>1
  <2>3. GraphTypes /\ Answerable /\ GraphCounts /\ GraphQueue /\ GraphReached /\ GraphLevels
    BY <2>1 DEF GraphInv
  <2>4. Closure' = Closure /\ \A n : Reach(n)' = Reach(n)
    BY <2>1 DEF Closure, HoldsRoots, Reach
  <2>5. GraphTypes' /\ Answerable'
    BY <2>1, <2>3 DEF GraphTypes, Answerable
  <2>6. GraphCounts' /\ GraphQueue'
    BY <2>1, <2>3, <2>4 DEF GraphCounts, GraphQueue
  <2>7. GraphReached' /\ GraphLevels'
    BY <2>1, <2>3, <2>4 DEF GraphReached, GraphLevels, Awaited
  <2> QED
    BY <2>1, <2>2, <2>5, <2>6, <2>7 DEF GraphInv
<1> QED
  BY <1>1, <1>2 DEF GraphNext

LEMMA GraphStays ==
  ASSUME GraphInv, UNCHANGED graphVars
  PROVE  GraphInv'
<1>1. UNCHANGED <<store, roots, limits, queue, visited, readable, edges, bytes, graph>>
  BY DEF graphVars
<1>2. Closure' = Closure /\ \A n : Reach(n)' = Reach(n)
  BY <1>1 DEF Closure, HoldsRoots, Reach
<1>3. GraphPermits' = GraphPermits
  BY <1>1, <1>2 DEF GraphPermits, Answerable
<1>4. (GraphTypes' = GraphTypes) /\ (Answerable' = Answerable) /\ (GraphCounts' = GraphCounts) /\ (GraphQueue' = GraphQueue)
  BY <1>1, <1>2 DEF GraphTypes, Answerable, GraphCounts, GraphQueue
<1>5. (GraphReached' = GraphReached) /\ (GraphLevels' = GraphLevels)
  BY <1>1, <1>2 DEF GraphReached, GraphLevels, Awaited
<1> QED
  BY <1>1, <1>3, <1>4, <1>5 DEF GraphInv

\* Once nothing waits, what was read is the closure.
LEMMA GraphInvIsClosure == ASSUME GraphInv PROVE GraphIsClosure
<1> SUFFICES ASSUME graph = "resolved"
             PROVE  Permitted /\ ToSet(readable) = Closure /\ Len(readable) = Cardinality(Closure)
  BY PermitsIs DEF GraphInv, GraphIsClosure
<1>1. GraphTypes /\ Answerable /\ GraphCounts /\ GraphQueue /\ GraphReached /\ Len(queue) = 0
  BY DEF GraphInv
<1>2. ToSet(queue) = {}
  <2>1. queue \in Seq(Addresses \X Nat) /\ Len(queue) = 0
    BY <1>1 DEF GraphQueue
  <2>2. DOMAIN queue = {}
    BY ONLY <2>1
  <2> QED
    BY ONLY <2>2 DEF ToSet
<1>3. visited \in SUBSET Addresses /\ visited \subseteq Closure /\ Closure \in SUBSET Addresses
  BY <1>1, ClosureIs DEF GraphCounts
<1>4. HoldsRoots(visited)
  <2>1. ToSet(roots) \subseteq visited /\ \A p \in visited : ToSet(store[p].refs) \subseteq visited
    BY <1>1, <1>2 DEF GraphReached, Awaited
  <2> QED
    BY <2>1 DEF HoldsRoots, ReferencesOf
<1>5. Closure = visited
  BY <1>1, <1>3, <1>4, ClosureIs
<1>7. /\ ToSet(readable) = Closure /\ Len(readable) = Cardinality(Closure)
      /\ Sum(SizeOfObject(store), Closure) <= limits.bytes
      /\ Sum(EdgesOfObject(store), Closure) <= limits.edges
      /\ Cardinality(Closure) <= limits.objects
      /\ \A o \in Closure : Sound(store[o])
  BY <1>1, <1>5 DEF GraphCounts
<1>8. GraphPermits
  BY <1>1, <1>5, <1>7 DEF GraphPermits, GraphReached
<1> QED
  BY <1>1, <1>7, <1>8, PermitsIs

\* A resolution that ends in any store, for any roots and limits, has read exactly
\* the closure of the roots, each object of it once, when the closure is within
\* the limits, and refuses it otherwise, in whatever order shared objects are met.
THEOREM GraphResolvesClosure == Spec => []GraphIsClosure
<1>1. Init => GraphInv
  BY GraphInitInv DEF Init
<1>2. GraphInv /\ [Next]_vars => GraphInv'
  <2> SUFFICES ASSUME GraphInv, [Next]_vars PROVE GraphInv'
    OBVIOUS
  <2>1. CASE GraphNext
    BY <2>1, GraphStep
  <2>2. CASE UNCHANGED graphVars
    BY <2>2, GraphStays
  <2> QED
    BY <2>1, <2>2 DEF Next, vars
<1>3. GraphInv => GraphIsClosure
  BY GraphInvIsClosure
<1> QED
  BY <1>1, <1>2, <1>3, PTL DEF Spec

----------------------------------------------------------------------------
(* What an answer says, and what a client is shown.                         *)

\* A recursion over the first positions only.
LEMMA BoundedRecursion ==
  ASSUME NEW V, NEW c \in V, NEW st \in [Nat -> [V -> V]], NEW n \in Nat
  PROVE  \E f \in [0..n -> V] : Solves(f, c, st, n)
<1>1. PICK g \in [Nat -> V] : Solves(g, c, st, n)
  BY SolvesUpTo
<1> DEFINE f == [i \in 0..n |-> g[i]]
<1>2. f \in [0..n -> V] /\ f[0] = c
  BY <1>1 DEF Solves
<1>3. ASSUME NEW i \in 1..n PROVE f[i] = st[i][f[i - 1]]
  <2>1. i \in 0..n /\ i - 1 \in 0..n
    OBVIOUS
  <2> QED
    BY <1>1, <2>1 DEF Solves
<1>4. Solves(f, c, st, n)
  BY <1>2, <1>3 DEF Solves
<1> QED
  BY <1>2, <1>4

\* What holds at first and is handed on holds at every one of the first positions.
LEMMA InductsUpTo ==
  ASSUME NEW n \in Nat, NEW m \in Nat, NEW P, m \in P, \A i \in Nat : m <= i /\ i < n /\ i \in P => i + 1 \in P
  PROVE  \A i \in Nat : m <= i /\ i <= n => i \in P
<1> DEFINE S == {k \in Nat : m + k <= n => m + k \in P}
<1>1. 0 \in S
  BY m + 0 = m
<1>2. ASSUME NEW k \in Nat, k \in S PROVE k + 1 \in S
  <2> SUFFICES ASSUME m + (k + 1) <= n PROVE m + (k + 1) \in P
    OBVIOUS
  <2>1. m + (k + 1) = (m + k) + 1 /\ m + k \in Nat /\ m <= m + k /\ m + k < n /\ m + k <= n
    OBVIOUS
  <2> QED
    BY <1>2, <2>1
<1> HIDE DEF S
<1>3. Nat \subseteq S
  BY <1>1, <1>2, Inducts
<1>4. ASSUME NEW i \in Nat, m <= i, i <= n PROVE i \in P
  <2>1. i - m \in Nat /\ m + (i - m) = i
    BY <1>4
  <2>2. i - m \in S
    BY <1>3, <2>1
  <2> QED
    BY <1>4, <2>1, <2>2 DEF S
<1> QED
  BY <1>4

\* The text of the first n pieces.
TextOf(fs, f) == f = [n \in 0..Len(fs) |-> IF n = 0 THEN <<>> ELSE f[n - 1] \o fs[n].text]

LEMMA TextExists ==
  ASSUME NEW R, NEW T, NEW fs \in Seq(R), \A r \in R : r.text \in Seq(T)
  PROVE  \E f \in [0..Len(fs) -> Seq(T)] : TextOf(fs, f)
<1>k. Len(fs) \in Nat
  OBVIOUS
<1>n. PICK n \in Nat : n = Len(fs)
  BY <1>k
<1>v. PICK V : V = Seq(T)
  OBVIOUS
<1> DEFINE st == [i \in Nat |-> [v \in V |-> IF i \in 1..n THEN v \o fs[i].text ELSE v]]
<1>1. \A i \in 1..n : fs[i].text \in Seq(T)
  BY <1>n
<1>2. \A i \in 1..n : \A v \in V : v \o fs[i].text \in V
  BY <1>1, <1>v
<1>3. st \in [Nat -> [V -> V]] /\ <<>> \in V
  BY <1>2, <1>v
<1>4. \A i \in 1..n : \A v \in V : st[i][v] = v \o fs[i].text
  OBVIOUS
<1>s. PICK s : s = st
  OBVIOUS
<1> HIDE DEF st
<1>c. PICK c \in V : c = <<>>
  BY <1>3, Zenon
<1>5. s \in [Nat -> [V -> V]]
  BY <1>3, <1>s
<1>6. PICK f \in [0..n -> V] : Solves(f, c, s, n)
  BY <1>5, BoundedRecursion
<1>7. ASSUME NEW i \in 0..n PROVE f[i] = IF i = 0 THEN <<>> ELSE f[i - 1] \o fs[i].text
  <2>1. CASE i = 0
    BY <1>6, <1>c, <2>1 DEF Solves
  <2>2. CASE i # 0
    <3>1. i \in 1..n /\ i - 1 \in 0..n
      BY <2>2
    <3>2. f[i] = s[i][f[i - 1]] /\ f[i - 1] \in V
      BY <1>6, <3>1 DEF Solves
    <3> QED
      BY <1>4, <1>s, <2>2, <3>1, <3>2
  <2> QED
    BY <2>1, <2>2
<1>8. f = [i \in 0..n |-> IF i = 0 THEN <<>> ELSE f[i - 1] \o fs[i].text]
  BY <1>6, <1>7
<1>9. TextOf(fs, f)
  BY <1>8, <1>n DEF TextOf
<1>10. f \in [0..Len(fs) -> Seq(T)]
  BY <1>6, <1>n, <1>v
<1> QED
  BY <1>9, <1>10

Piecewise(fs, f) == f[0] = <<>> /\ \A n \in 1..Len(fs) : f[n] = f[n - 1] \o fs[n].text

LEMMA ConcatIs ==
  ASSUME NEW R, NEW T, NEW fs \in Seq(R), \A r \in R : r.text \in Seq(T)
  PROVE  Concat(fs) \in Seq(T) /\ \E f : Concat(fs) = f[Len(fs)] /\ Piecewise(fs, f)
<1>1. PICK g \in [0..Len(fs) -> Seq(T)] : TextOf(fs, g)
  BY TextExists
<1>h. PICK h : h = CHOOSE f : TextOf(fs, f)
  OBVIOUS
<1>2. Concat(fs) = h[Len(fs)]
  BY <1>h DEF Concat, TextOf
<1>3. TextOf(fs, h)
  BY <1>1, <1>h
<1>4. h[0] = <<>> /\ \A n \in 1..Len(fs) : h[n] = h[n - 1] \o fs[n].text
  <2>1. Len(fs) \in Nat /\ 0 \in 0..Len(fs)
    OBVIOUS
  <2>2. \A n \in 0..Len(fs) : h[n] = IF n = 0 THEN <<>> ELSE h[n - 1] \o fs[n].text
    BY <1>3 DEF TextOf
  <2>3. h[0] = <<>>
    BY <2>1, <2>2
  <2>4. \A n \in 1..Len(fs) : n \in 0..Len(fs) /\ n # 0
    BY <2>1
  <2> QED
    BY <2>2, <2>3, <2>4
<1>5. g[0] = <<>> /\ \A n \in 1..Len(fs) : g[n] = g[n - 1] \o fs[n].text
  <2>1. Len(fs) \in Nat /\ 0 \in 0..Len(fs)
    OBVIOUS
  <2>2. \A n \in 0..Len(fs) : g[n] = IF n = 0 THEN <<>> ELSE g[n - 1] \o fs[n].text
    BY <1>1 DEF TextOf
  <2>3. g[0] = <<>>
    BY <2>1, <2>2
  <2>4. \A n \in 1..Len(fs) : n \in 0..Len(fs) /\ n # 0
    BY <2>1
  <2> QED
    BY <2>2, <2>3, <2>4
<1> DEFINE P == {i \in Nat : i <= Len(fs) => h[i] = g[i]}
<1>6. Len(fs) \in Nat /\ 0 \in P
  BY <1>4, <1>5
<1>7. ASSUME NEW i \in Nat, 0 <= i, i < Len(fs), i \in P PROVE i + 1 \in P
  <2>1. i + 1 \in 1..Len(fs) /\ (i + 1) - 1 = i
    BY <1>6, <1>7
  <2>2. h[i + 1] = h[i] \o fs[i + 1].text /\ g[i + 1] = g[i] \o fs[i + 1].text
    BY <1>4, <1>5, <2>1
  <2>3. h[i] = g[i]
    BY <1>6, <1>7
  <2>4. h[i + 1] = g[i + 1]
    BY ONLY <2>2, <2>3
  <2> QED
    BY <1>6, <2>4
<1> HIDE DEF P
<1>8. \A i \in Nat : 0 <= i /\ i <= Len(fs) => i \in P
  BY <1>6, <1>7, InductsUpTo
<1>9. h[Len(fs)] = g[Len(fs)]
  BY <1>6, <1>8 DEF P
<1>10. Piecewise(fs, h)
  BY <1>4 DEF Piecewise
<1>11. Concat(fs) \in Seq(T)
  BY <1>2, <1>6, <1>9
<1> QED
  BY <1>2, <1>10, <1>11

\* Pieces with the same texts make the same text; what comes last is added last.
LEMMA ConcatExtends ==
  ASSUME NEW R, NEW T, NEW fs \in Seq(R), NEW gs \in Seq(R), \A r \in R : r.text \in Seq(T),
         Len(fs) <= Len(gs), \A i \in 1..Len(fs) : fs[i].text = gs[i].text
  PROVE  /\ Len(fs) = Len(gs) => Concat(gs) = Concat(fs)
         /\ Len(gs) = Len(fs) + 1 => Concat(gs) = Concat(fs) \o gs[Len(gs)].text
<1>f. PICK f : Concat(fs) = f[Len(fs)] /\ Piecewise(fs, f)
  BY ConcatIs
<1>g. PICK g : Concat(gs) = g[Len(gs)] /\ Piecewise(gs, g)
  BY ConcatIs
<1>1. /\ Concat(fs) = f[Len(fs)] /\ f[0] = <<>>
      /\ \A n \in 1..Len(fs) : f[n] = f[n - 1] \o fs[n].text
  BY <1>f DEF Piecewise
<1>2. /\ Concat(gs) = g[Len(gs)] /\ g[0] = <<>>
      /\ \A n \in 1..Len(gs) : g[n] = g[n - 1] \o gs[n].text
  BY <1>g DEF Piecewise
<1>3. Len(fs) \in Nat /\ Len(gs) \in Nat
  OBVIOUS
<1> DEFINE P == {i \in Nat : i <= Len(fs) => g[i] = f[i]}
<1>4. 0 \in P
  BY <1>1, <1>2
<1>5. ASSUME NEW i \in Nat, 0 <= i, i < Len(fs), i \in P PROVE i + 1 \in P
  <2>1. i + 1 \in 1..Len(fs) /\ i + 1 \in 1..Len(gs) /\ (i + 1) - 1 = i
    BY <1>3, <1>5
  <2>2. f[i + 1] = f[i] \o fs[i + 1].text /\ g[i + 1] = g[i] \o gs[i + 1].text
    BY <1>1, <1>2, <2>1
  <2>3. f[i] = g[i] /\ fs[i + 1].text = gs[i + 1].text
    BY <1>3, <1>5, <2>1
  <2>4. g[i + 1] = f[i + 1]
    BY ONLY <2>2, <2>3
  <2> QED
    BY <1>3, <2>4
<1> HIDE DEF P
<1>6. \A i \in Nat : 0 <= i /\ i <= Len(fs) => i \in P
  BY <1>3, <1>4, <1>5, InductsUpTo
<1>7. g[Len(fs)] = f[Len(fs)]
  BY <1>3, <1>6 DEF P
<1>8. ASSUME Len(gs) = Len(fs) + 1 PROVE Concat(gs) = Concat(fs) \o gs[Len(gs)].text
  <2>1. Len(gs) \in 1..Len(gs) /\ Len(gs) - 1 = Len(fs)
    BY <1>3, <1>8
  <2>2. g[Len(gs)] = g[Len(gs) - 1] \o gs[Len(gs)].text
    BY <1>2, <2>1
  <2> QED
    BY <1>1, <1>2, <1>7, <2>1, <2>2
<1> QED
  BY <1>1, <1>2, <1>7, <1>8

LEMMA ConcatNothing ==
  ASSUME NEW fs, fs = <<>>
  PROVE  Concat(fs) = <<>>
<1> PICK R : R = {}
  OBVIOUS
<1>1. fs \in Seq(R) /\ Len(fs) = 0 /\ \A r \in R : r.text \in Seq(R)
  OBVIOUS
<1>2. PICK f : Concat(fs) = f[Len(fs)] /\ Piecewise(fs, f)
  BY <1>1, ConcatIs
<1>3. f[0] = <<>>
  BY <1>2 DEF Piecewise
<1> QED
  BY <1>1, <1>2, <1>3

\* What is read of an answer.
Reading == [line : Seq(Symbols), text : Seq(Texts), end : {"open", "done", "broken"}]

LEMMA JsonIs ==
  ASSUME NEW line \in DOMAIN Json
  PROVE  Json[line].text \in Seq(Texts) /\ Json[line].done \in BOOLEAN
         /\ Json[line] = [text |-> Json[line].text, done |-> Json[line].done]
<1>1. Json[line] \in [text : Seq(Texts), done : BOOLEAN]
  BY InferenceAssumption
<1> QED
  BY <1>1

LEMMA ReadSymbolIs ==
  ASSUME NEW before \in Reading, NEW symbol \in Symbols
  PROVE  ReadSymbol(before, symbol) \in Reading
<1>1. before.line \in Seq(Symbols) /\ before.text \in Seq(Texts)
  BY DEF Reading
<1>2. CASE before.end # "open" \/ (symbol = NL /\ before.line = <<>>)
  BY <1>2 DEF ReadSymbol
<1>3. CASE before.end = "open" /\ symbol # NL
  <2>1. Append(before.line, symbol) \in Seq(Symbols)
    BY <1>1
  <2> QED
    BY <1>1, <1>3, <2>1 DEF ReadSymbol, Reading
<1>4. CASE before.end = "open" /\ symbol = NL /\ before.line # <<>> /\ before.line \notin DOMAIN Json
  <2>1. <<>> \in Seq(Symbols)
    OBVIOUS
  <2>2. ReadSymbol(before, symbol) = [line |-> <<>>, text |-> before.text, end |-> "broken"]
    BY <1>4 DEF ReadSymbol
  <2> QED
    BY <1>1, <2>1, <2>2 DEF Reading
<1>5. CASE before.end = "open" /\ symbol = NL /\ before.line # <<>> /\ before.line \in DOMAIN Json
  <2>1. <<>> \in Seq(Symbols) /\ before.text \o Json[before.line].text \in Seq(Texts)
    <3>1. Json[before.line].text \in Seq(Texts)
      BY <1>5, JsonIs
    <3> QED
      BY <1>1, <3>1
  <2>2. PICK e \in {"open", "done"} : e = IF Json[before.line].done THEN "done" ELSE "open"
    OBVIOUS
  <2>3. ReadSymbol(before, symbol) = [line |-> <<>>, text |-> before.text \o Json[before.line].text, end |-> e]
    BY <1>5, <2>2 DEF ReadSymbol
  <2> QED
    BY <2>1, <2>3 DEF Reading
<1> QED
  BY <1>2, <1>3, <1>4, <1>5

LEMMA ReadIs ==
  ASSUME NEW b \in Seq(Symbols)
  PROVE  /\ ReadUpto(b)[0] = NothingRead
         /\ \A n \in 1..Len(b) : ReadUpto(b)[n] = ReadSymbol(ReadUpto(b)[n - 1], b[n])
         /\ \A n \in 0..Len(b) : ReadUpto(b)[n] \in Reading
<1> DEFINE eq(f) == f = [n \in 0..Len(b) |-> IF n = 0 THEN NothingRead ELSE ReadSymbol(f[n - 1], b[n])]
<1>k. Len(b) \in Nat
  OBVIOUS
<1>n. PICK m \in Nat : m = Len(b)
  BY <1>k
<1>0. \A i \in 1..m : b[i] \in Symbols
  BY <1>n
<1> DEFINE st == [i \in Nat |-> [v \in Reading |-> IF i \in 1..m THEN ReadSymbol(v, b[i]) ELSE v]]
<1>1. \A i \in 1..m : \A v \in Reading : ReadSymbol(v, b[i]) \in Reading
  BY <1>0, ReadSymbolIs
<1>2. st \in [Nat -> [Reading -> Reading]]
  BY <1>1
<1>3. \A i \in 1..m : \A v \in Reading : st[i][v] = ReadSymbol(v, b[i])
  OBVIOUS
<1>4. NothingRead \in Reading
  <2>1. <<>> \in Seq(Symbols) /\ <<>> \in Seq(Texts)
    OBVIOUS
  <2> QED
    BY <2>1 DEF NothingRead, Reading
<1>s. PICK s : s = st
  OBVIOUS
<1>c. PICK c \in Reading : c = NothingRead
  BY <1>4
<1>v. PICK V : V = Reading
  OBVIOUS
<1> HIDE DEF st
<1>5. s \in [Nat -> [V -> V]] /\ c \in V
  BY <1>2, <1>s, <1>v
<1>6. PICK f \in [0..m -> V] : Solves(f, c, s, m)
  BY <1>5, BoundedRecursion
<1>7. ASSUME NEW i \in 0..m PROVE f[i] = IF i = 0 THEN NothingRead ELSE ReadSymbol(f[i - 1], b[i])
  <2>1. CASE i = 0
    BY <1>6, <1>c, <2>1 DEF Solves
  <2>2. CASE i # 0
    <3>1. i \in 1..m /\ i - 1 \in 0..m
      BY <2>2
    <3>2. f[i] = s[i][f[i - 1]] /\ f[i - 1] \in Reading
      BY <1>6, <1>v, <3>1 DEF Solves
    <3> QED
      BY <1>3, <1>s, <2>2, <3>1, <3>2
  <2> QED
    BY <2>1, <2>2
<1>8. eq(f)
  <2>1. f = [i \in 0..m |-> f[i]]
    BY <1>6
  <2> QED
    BY <1>7, <1>n, <2>1
<1>h. PICK h : h = CHOOSE g : eq(g)
  OBVIOUS
<1>9. eq(h)
  BY <1>8, <1>h
<1>10. ReadUpto(b) = h
  BY <1>h DEF ReadUpto
<1>11. \A n \in 0..m : h[n] = IF n = 0 THEN NothingRead ELSE ReadSymbol(h[n - 1], b[n])
  BY <1>9, <1>n
<1> HIDE DEF eq
<1>12. h[0] = NothingRead
  BY <1>11
<1>13. \A n \in 1..m : h[n] = ReadSymbol(h[n - 1], b[n])
  <2>1. \A n \in 1..m : n \in 0..m /\ n # 0
    OBVIOUS
  <2> QED
    BY <1>11, <2>1
<1> DEFINE P == {i \in Nat : i <= m => h[i] \in Reading}
<1>14. 0 \in P
  BY <1>4, <1>12
<1>15. ASSUME NEW i \in Nat, 0 <= i, i < m, i \in P PROVE i + 1 \in P
  <2>1. i + 1 \in 1..m /\ (i + 1) - 1 = i /\ h[i] \in Reading
    BY <1>15
  <2>2. h[i + 1] = ReadSymbol(h[i], b[i + 1])
    BY <1>13, <2>1
  <2>3. ReadSymbol(h[i], b[i + 1]) \in Reading
    BY <1>1, <2>1
  <2> QED
    BY <2>2, <2>3
<1> HIDE DEF P
<1>16. \A i \in Nat : 0 <= i /\ i <= m => i \in P
  BY <1>14, <1>15, InductsUpTo
<1>17. \A n \in 0..m : h[n] \in Reading
  BY <1>16 DEF P
<1> QED
  BY <1>10, <1>12, <1>13, <1>17, <1>n

IsLine(b, c, k, line) == Len(line) = k /\ \A j \in 1..k : line[j] = b[c + j] /\ b[c + j] # NL

\* Up to its newline, a line is gathered symbol by symbol.
LEMMA GathersLine ==
  ASSUME NEW b \in Seq(Symbols), NEW c \in Nat, NEW k \in Nat, c + k <= Len(b),
         ReadUpto(b)[c].end = "open", ReadUpto(b)[c].line = <<>>,
         NEW line \in Seq(Symbols), IsLine(b, c, k, line)
  PROVE  /\ ReadUpto(b)[c + k].end = "open" /\ ReadUpto(b)[c + k].line = line
         /\ ReadUpto(b)[c + k].text = ReadUpto(b)[c].text
<1>r. PICK r : r = ReadUpto(b)
  OBVIOUS
<1>l. Len(b) \in Nat
  OBVIOUS
<1>i. Len(line) = k /\ \A j \in 1..k : line[j] = b[c + j] /\ b[c + j] # NL
  BY DEF IsLine
<1>1. (\A n \in 1..Len(b) : r[n] = ReadSymbol(r[n - 1], b[n])) /\ \A n \in 0..Len(b) : r[n] \in Reading
  BY <1>r, ReadIs
<1> DEFINE P == {j \in Nat : j <= k => /\ r[c + j].end = "open" /\ r[c + j].text = r[c].text
                                       /\ Len(r[c + j].line) = j /\ \A i \in 1..j : r[c + j].line[i] = line[i]}
<1>2. 0 \in P
  BY <1>r, c + 0 = c
<1>3. ASSUME NEW j \in Nat, 0 <= j, j < k, j \in P PROVE j + 1 \in P
  <2>1. c + (j + 1) \in 1..Len(b) /\ (c + (j + 1)) - 1 = c + j /\ c + j \in 0..Len(b) /\ j + 1 \in 1..k /\ j <= k
    BY <1>3, <1>l
  <2>2. r[c + (j + 1)] = ReadSymbol(r[c + j], b[c + (j + 1)])
    BY <1>1, <2>1
  <2>3. r[c + j].end = "open" /\ r[c + j].text = r[c].text /\ Len(r[c + j].line) = j
        /\ \A i \in 1..j : r[c + j].line[i] = line[i]
    BY <1>3, <2>1
  <2>4. b[c + (j + 1)] # NL /\ line[j + 1] = b[c + (j + 1)]
    BY <1>i, <2>1
  <2>5. r[c + (j + 1)] = [line |-> Append(r[c + j].line, b[c + (j + 1)]), text |-> r[c + j].text, end |-> "open"]
    BY <2>2, <2>3, <2>4 DEF ReadSymbol
  <2>6. r[c + j].line \in Seq(Symbols) /\ b[c + (j + 1)] \in Symbols
    BY <1>1, <2>1 DEF Reading
  <2>7. Len(r[c + (j + 1)].line) = j + 1 /\ \A i \in 1..j + 1 : r[c + (j + 1)].line[i] = line[i]
    <3>1. PICK old \in Seq(Symbols) : old = r[c + j].line
      BY <2>6
    <3>2. PICK x \in Symbols : x = b[c + (j + 1)]
      BY <2>6
    <3>3. Len(Append(old, x)) = Len(old) + 1 /\ (\A i \in 1..Len(old) : Append(old, x)[i] = old[i])
          /\ Append(old, x)[Len(old) + 1] = x
      BY ONLY old \in Seq(Symbols), x \in Symbols, AppendProperties
    <3>4. Len(old) = j /\ x = line[j + 1] /\ \A i \in 1..j : old[i] = line[i]
      BY <2>3, <2>4, <3>1, <3>2
    <3>5. \A i \in 1..j + 1 : i \in 1..j \/ i = j + 1
      OBVIOUS
    <3>6. r[c + (j + 1)].line = Append(old, x)
      BY <2>5, <3>1, <3>2
    <3> QED
      BY ONLY <3>3, <3>4, <3>5, <3>6, j \in Nat
  <2>8. r[c + (j + 1)].end = "open" /\ r[c + (j + 1)].text = r[c + j].text
    BY <2>5
  <2>9. r[c + (j + 1)].text = r[c].text
    BY <2>3, <2>8
  <2> QED
    BY <2>7, <2>8, <2>9
<1> HIDE DEF P
<1>4. \A j \in Nat : 0 <= j /\ j <= k => j \in P
  BY <1>2, <1>3, InductsUpTo
<1>5. /\ r[c + k].end = "open" /\ r[c + k].text = r[c].text
      /\ Len(r[c + k].line) = k /\ \A i \in 1..k : r[c + k].line[i] = line[i]
  BY <1>4 DEF P
<1>6. c + k \in 0..Len(b)
  BY <1>l
<1>7. r[c + k].line \in Seq(Symbols)
  BY <1>1, <1>6 DEF Reading
<1>8. r[c + k].line = line
  BY <1>5, <1>7, <1>i, SeqEqual
<1> QED
  BY <1>5, <1>8, <1>r

\* What a whole line adds.
LEMMA ReadsLine ==
  ASSUME NEW b \in Seq(Symbols), NEW c \in Nat, NEW k \in Nat, c + k < Len(b),
         ReadUpto(b)[c].end = "open", ReadUpto(b)[c].line = <<>>,
         NEW line \in Seq(Symbols), IsLine(b, c, k, line),
         b[c + (k + 1)] = NL
  PROVE  /\ line = <<>> => /\ ReadUpto(b)[c + (k + 1)].end = "open" /\ ReadUpto(b)[c + (k + 1)].line = <<>>
                           /\ ReadUpto(b)[c + (k + 1)].text = ReadUpto(b)[c].text
         /\ line # <<>> /\ line \in DOMAIN Json =>
              /\ ReadUpto(b)[c + (k + 1)].end = IF Json[line].done THEN "done" ELSE "open"
              /\ ReadUpto(b)[c + (k + 1)].line = <<>>
              /\ ReadUpto(b)[c + (k + 1)].text = ReadUpto(b)[c].text \o Json[line].text
<1>r. PICK r : r = ReadUpto(b)
  OBVIOUS
<1>l. Len(b) \in Nat
  OBVIOUS
<1>1. r[c + k].end = "open" /\ r[c + k].line = line /\ r[c + k].text = r[c].text
  <2>1. c + k <= Len(b)
    BY <1>l
  <2> QED
    BY <1>r, <2>1, GathersLine
<1>2. c + (k + 1) \in 1..Len(b) /\ (c + (k + 1)) - 1 = c + k
  BY <1>l
<1>3. r[c + (k + 1)] = ReadSymbol(r[c + k], NL)
  <2>1. \A n \in 1..Len(b) : r[n] = ReadSymbol(r[n - 1], b[n])
    BY <1>r, ReadIs
  <2> QED
    BY <1>2, <2>1
<1>4. CASE line = <<>>
  BY <1>1, <1>3, <1>4, <1>r DEF ReadSymbol
<1>5. CASE line # <<>> /\ line \in DOMAIN Json
  <2>e. PICK e : e = IF Json[line].done THEN "done" ELSE "open"
    OBVIOUS
  <2>t. PICK t : t = r[c + k].text \o Json[line].text
    OBVIOUS
  <2>1. r[c + (k + 1)] = [line |-> <<>>, text |-> t, end |-> e]
    BY <1>1, <1>3, <1>5, <2>e, <2>t DEF ReadSymbol
  <2>2. r[c + (k + 1)].line = <<>> /\ r[c + (k + 1)].text = t /\ r[c + (k + 1)].end = e
    BY <2>1
  <2> QED
    BY <1>1, <1>5, <1>r, <2>2, <2>e, <2>t
<1> QED
  BY <1>4, <1>5

\* Nothing is read after the end.
LEMMA ReadsNoMore ==
  ASSUME NEW b \in Seq(Symbols), NEW c \in Nat, c <= Len(b), ReadUpto(b)[c].end # "open"
  PROVE  ReadUpto(b)[Len(b)] = ReadUpto(b)[c]
<1>r. PICK r : r = ReadUpto(b)
  OBVIOUS
<1>l. Len(b) \in Nat
  OBVIOUS
<1>1. \A n \in 1..Len(b) : r[n] = ReadSymbol(r[n - 1], b[n])
  BY <1>r, ReadIs
<1> DEFINE P == {j \in Nat : r[j] = r[c]}
<1>2. c \in P
  OBVIOUS
<1>3. ASSUME NEW i \in Nat, c <= i, i < Len(b), i \in P PROVE i + 1 \in P
  <2>1. i + 1 \in 1..Len(b) /\ (i + 1) - 1 = i
    BY <1>3, <1>l
  <2>2. r[i + 1] = ReadSymbol(r[i], b[i + 1])
    BY <1>1, <2>1
  <2>3. r[i] = r[c] /\ r[c].end # "open"
    BY <1>3, <1>r
  <2>4. r[i + 1] = r[c]
    BY ONLY <2>2, <2>3 DEF ReadSymbol
  <2> QED
    BY <2>4
<1> HIDE DEF P
<1>4. \A i \in Nat : c <= i /\ i <= Len(b) => i \in P
  BY <1>2, <1>3, <1>l, InductsUpTo
<1> QED
  BY <1>4, <1>l, <1>r DEF P

Items == [f : {"role", "delta", "stop", "usage", "[DONE]", "error"}, text : Seq(Texts)]
         \cup [e : {"delta", "done", "err"}, text : Seq(Texts)]
FrameSet == [f : {"role", "delta", "stop", "usage", "[DONE]", "error"}, text : Seq(Texts)]
EventSet == [e : {"delta", "done", "err"}, text : Seq(Texts)]

LEMMA ItemsAre ==
  /\ \A x \in Items : x.text \in Seq(Texts)
  /\ FrameSet \subseteq Items /\ EventSet \subseteq Items
  /\ Seq(FrameSet) \subseteq Seq(Items) /\ Seq(EventSet) \subseteq Seq(Items)
<1>1. FrameSet \subseteq Items /\ EventSet \subseteq Items
  BY DEF Items, FrameSet, EventSet
<1>2. \A x \in Items : x.text \in Seq(Texts)
  BY DEF Items
<1> QED
  BY <1>1, <1>2, SeqMonotonic

LEMMA ConcatAppend ==
  ASSUME NEW fs \in Seq(Items), NEW x \in Items
  PROVE  /\ Concat(fs) \in Seq(Texts) /\ Append(fs, x) \in Seq(Items)
         /\ Concat(Append(fs, x)) = Concat(fs) \o x.text
         /\ x.text = <<>> => Concat(Append(fs, x)) = Concat(fs)
<1>1. \A y \in Items : y.text \in Seq(Texts)
  BY ItemsAre
<1>t. PICK T : T = Texts
  OBVIOUS
<1>r. PICK R : R = Items
  OBVIOUS
<1>2. fs \in Seq(R) /\ \A y \in R : y.text \in Seq(T)
  BY <1>1, <1>t, <1>r
<1>3. Concat(fs) \in Seq(T)
  BY ONLY <1>2, ConcatIs
<1>g. PICK gs \in Seq(R) : gs = Append(fs, x)
  <2>1. Append(fs, x) \in Seq(R)
    BY <1>r
  <2> QED
    BY <2>1
<1>4. Len(fs) \in Nat /\ Len(gs) = Len(fs) + 1 /\ gs[Len(gs)] = x /\ \A i \in 1..Len(fs) : gs[i] = fs[i]
  BY <1>2, <1>g, <1>r, AppendProperties
<1>5. Len(fs) <= Len(gs) /\ \A i \in 1..Len(fs) : fs[i].text = gs[i].text
  BY <1>4
<1>6. Concat(gs) = Concat(fs) \o gs[Len(gs)].text
  BY ONLY <1>2, <1>4, <1>5, gs \in Seq(R), ConcatExtends
<1>7. Concat(gs) = Concat(fs) \o x.text
  BY <1>4, <1>6
<1>8. x.text = <<>> => Concat(fs) \o x.text = Concat(fs)
  <2>1. Concat(fs) \o <<>> = Concat(fs)
    BY <1>3, ConcatEmptySeq
  <2> QED
    BY <2>1
<1> QED
  BY <1>3, <1>7, <1>8, <1>g, <1>t, <1>r

LEMMA ConcatSame ==
  ASSUME NEW fs \in Seq(Items), NEW gs \in Seq(Items), Len(fs) = Len(gs),
         \A i \in 1..Len(fs) : fs[i].text = gs[i].text
  PROVE  Concat(gs) = Concat(fs)
<1>1. \A y \in Items : y.text \in Seq(Texts)
  BY ItemsAre
<1>t. PICK T : T = Texts
  OBVIOUS
<1>r. PICK R : R = Items
  OBVIOUS
<1>2. fs \in Seq(R) /\ gs \in Seq(R) /\ \A y \in R : y.text \in Seq(T)
  BY <1>1, <1>t, <1>r
<1>3. Len(fs) <= Len(gs)
  <2>1. Len(fs) \in Nat
    OBVIOUS
  <2> QED
    BY <2>1
<1>4. Len(fs) = Len(gs) => Concat(gs) = Concat(fs)
  BY ONLY <1>2, <1>3, \A i \in 1..Len(fs) : fs[i].text = gs[i].text, ConcatExtends
<1> QED
  BY <1>4

\* The head of a sequence that moves to the end of the one before it.
LEMMA HeadMoves ==
  ASSUME NEW R, NEW s \in Seq(R), NEW q \in Seq(R), q # <<>>
  PROVE  /\ Head(q) \in R /\ Tail(q) \in Seq(R) /\ Append(s, Head(q)) \in Seq(R)
         /\ Append(s, Head(q)) \o Tail(q) = s \o q
<1>1. Head(q) \in R /\ Tail(q) \in Seq(R) /\ Len(q) > 0
  OBVIOUS
<1>h. PICK h \in R : h = Head(q)
  BY <1>1
<1>t. PICK t \in Seq(R) : t = Tail(q)
  BY <1>1
<1>2. q = <<h>> \o t
  <2>1. Len(q) \in Nat \ {0} /\ h = q[1] /\ Len(t) = Len(q) - 1 /\ \A i \in 1..Len(q) - 1 : t[i] = q[i + 1]
    BY <1>1, <1>h, <1>t
  <2>s. <<h>> \in Seq(R)
    OBVIOUS
  <2>o. PICK o \in Seq(R) : o = <<h>>
    BY <2>s, Zenon
  <2>2. Len(o) = 1 /\ o[1] = h
    BY <2>o
  <2>p. PICK p : p = o \o t
    OBVIOUS
  <2>3. p \in Seq(R) /\ Len(p) = Len(o) + Len(t) /\ \A i \in 1..Len(o) + Len(t) : p[i] = IF i <= Len(o) THEN o[i] ELSE t[i - Len(o)]
    BY ONLY <2>p, o \in Seq(R), t \in Seq(R), ConcatProperties
  <2>n. PICK n \in Nat \ {0} : n = Len(q)
    BY <2>1
  <2>4. Len(p) = n /\ \A i \in 1..n : p[i] = IF i <= 1 THEN o[i] ELSE t[i - 1]
    BY ONLY <2>1, <2>2, <2>3, <2>n
  <2>5. ASSUME NEW i \in 1..n PROVE p[i] = q[i]
    <3>1. CASE i = 1
      BY <2>1, <2>2, <2>4, <3>1
    <3>2. CASE i # 1
      <4>1. i - 1 \in 1..n - 1 /\ ~(i <= 1) /\ (i - 1) + 1 = i
        BY <3>2
      <4>2. p[i] = t[i - 1] /\ t[i - 1] = q[i]
        BY <2>1, <2>4, <2>n, <4>1
      <4> QED
        BY <4>2
    <3> QED
      BY <3>1, <3>2
  <2>6. p = q
    BY <2>3, <2>4, <2>5, <2>n, SeqEqual
  <2> QED
    BY <2>6, <2>o, <2>p
<1>3. Append(s, h) = s \o <<h>> /\ Append(s, h) \in Seq(R)
  BY AppendIsConcat
<1>4. <<h>> \in Seq(R)
  OBVIOUS
<1>5. (s \o <<h>>) \o t = s \o (<<h>> \o t)
  BY <1>4, ConcatAssociative
<1>6. Append(s, h) \o t = s \o q
  BY ONLY <1>2, <1>3, <1>5
<1> QED
  BY <1>1, <1>3, <1>6, <1>h, <1>t

\* What is added at the end of a concatenation.
LEMMA AppendMoves ==
  ASSUME NEW R, NEW s \in Seq(R), NEW q \in Seq(R), NEW x \in R
  PROVE  s \o Append(q, x) = Append(s \o q, x) /\ s \o q \in Seq(R)
<1>1. s \o q \in Seq(R) /\ <<x>> \in Seq(R)
  BY ConcatProperties
<1>2. Append(q, x) = q \o <<x>>
  BY AppendIsConcat
<1>3. Append(s \o q, x) = (s \o q) \o <<x>>
  BY <1>1, AppendIsConcat
<1>4. (s \o q) \o <<x>> = s \o (q \o <<x>>)
  BY <1>1, ConcatAssociative
<1> QED
  BY <1>1, <1>2, <1>3, <1>4

\* A client is told of a clean end only with the whole text before it.
Clean(fs, whole, text) ==
  \A i \in 1..Len(fs) : fs[i].f = "stop" =>
    /\ whole /\ Concat(SubSeq(fs, 1, i)) = text
    /\ \A j \in 1..Len(fs) : j > i => fs[j].f \in {"usage", "[DONE]"}
    /\ \A j \in 1..Len(fs) : fs[j].f # "error"

LEMMA CleanPrefix ==
  ASSUME NEW s \in Seq(FrameSet), NEW t \in Seq(FrameSet), NEW whole, NEW text, Clean(s \o t, whole, text)
  PROVE  Clean(s, whole, text)
<1>p. PICK p : p = s \o t
  OBVIOUS
<1>c. Clean(p, whole, text)
  BY <1>p
<1>1. p \in Seq(FrameSet) /\ Len(p) = Len(s) + Len(t) /\ Len(s) \in Nat /\ Len(t) \in Nat
      /\ \A i \in 1..Len(s) + Len(t) : p[i] = IF i <= Len(s) THEN s[i] ELSE t[i - Len(s)]
  <2>1. p \in Seq(FrameSet) /\ Len(p) = Len(s) + Len(t)
        /\ \A i \in 1..Len(s) + Len(t) : p[i] = IF i <= Len(s) THEN s[i] ELSE t[i - Len(s)]
    BY ONLY <1>p, s \in Seq(FrameSet), t \in Seq(FrameSet), ConcatProperties
  <2> QED
    BY <2>1
<1>2. \A i \in 1..Len(s) : i \in 1..Len(p) /\ p[i] = s[i]
  <2>1. \A i \in 1..Len(s) : i \in 1..Len(s) + Len(t) /\ i <= Len(s)
    BY <1>1
  <2> QED
    BY ONLY <1>1, <2>1
<1>3. ASSUME NEW i \in 1..Len(s) PROVE SubSeq(p, 1, i) = SubSeq(s, 1, i)
  <2>1. 1 \in 1..Len(s)
    BY <1>1
  <2>2. SubSeq(s \o t, 1, i) = SubSeq(s, 1, i)
    BY ONLY <2>1, i \in 1..Len(s), s \in Seq(FrameSet), t \in Seq(FrameSet), SubSeqOfConcat1
  <2> QED
    BY <1>p, <2>2
<1>4. ASSUME NEW i \in 1..Len(s), s[i].f = "stop"
      PROVE  /\ whole /\ Concat(SubSeq(s, 1, i)) = text
             /\ \A j \in 1..Len(s) : j > i => s[j].f \in {"usage", "[DONE]"}
             /\ \A j \in 1..Len(s) : s[j].f # "error"
  BY <1>2, <1>3, <1>4, <1>c DEF Clean
<1> QED
  BY <1>4 DEF Clean

\* The closing frames of a clean end, after all the text.
LEMMA CleanStop ==
  ASSUME NEW s \in Seq(FrameSet), NEW q \in Seq(FrameSet), Len(q) > 0,
         \A i \in 1..Len(s) : s[i].f \in {"role", "delta"},
         q[1].f = "stop", q[1].text = <<>>, \A j \in 1..Len(q) : j > 1 => q[j].f \in {"usage", "[DONE]"},
         NEW text, Concat(s) = text
  PROVE  Clean(s \o q, TRUE, text)
<1>p. PICK p : p = s \o q
  OBVIOUS
<1>1. p \in Seq(FrameSet) /\ Len(p) = Len(s) + Len(q) /\ Len(s) \in Nat /\ Len(q) \in Nat
      /\ \A i \in 1..Len(s) + Len(q) : p[i] = IF i <= Len(s) THEN s[i] ELSE q[i - Len(s)]
  <2>1. p \in Seq(FrameSet) /\ Len(p) = Len(s) + Len(q)
        /\ \A i \in 1..Len(s) + Len(q) : p[i] = IF i <= Len(s) THEN s[i] ELSE q[i - Len(s)]
    BY ONLY <1>p, s \in Seq(FrameSet), q \in Seq(FrameSet), ConcatProperties
  <2> QED
    BY <2>1
<1>n. PICK n \in Nat : n = Len(s)
  BY <1>1
<1>m. PICK m \in Nat : m = Len(q)
  BY <1>1
<1>2. \A i \in 1..n : p[i] = s[i] /\ p[i].f \in {"role", "delta"}
  <2>1. \A i \in 1..n : i \in 1..n + m /\ i <= n
    OBVIOUS
  <2>2. \A i \in 1..n : p[i] = s[i]
    BY ONLY <1>1, <1>n, <1>m, <2>1
  <2> QED
    BY <1>n, <2>2
<1>3. \A k \in 1..m : p[n + k] = q[k]
  <2>1. \A k \in 1..m : n + k \in 1..n + m /\ ~(n + k <= n) /\ (n + k) - n = k
    OBVIOUS
  <2> QED
    BY ONLY <1>1, <1>n, <1>m, <2>1
<1>4. \A i \in 1..n + m : i \in 1..n \/ i = n + 1 \/ (i - n \in 1..m /\ i - n > 1 /\ n + (i - n) = i)
  OBVIOUS
<1>5. ASSUME NEW i \in 1..n + m, i > n + 1 PROVE p[i].f \in {"usage", "[DONE]"}
  <2>1. i - n \in 1..m /\ i - n > 1 /\ n + (i - n) = i
    BY <1>5
  <2>2. p[i] = q[i - n]
    BY <1>3, <2>1
  <2> QED
    BY <1>m, <2>1, <2>2
<1>6. 1 \in 1..m /\ p[n + 1] = q[1]
  BY <1>3, <1>m
<1>7. ASSUME NEW i \in 1..n + m, p[i].f = "stop" PROVE i = n + 1
  BY <1>2, <1>4, <1>5, <1>7
<1>8. ASSUME NEW i \in 1..n + m PROVE p[i].f # "error"
  BY <1>2, <1>4, <1>5, <1>6, <1>8
<1>9. Concat(SubSeq(p, 1, n + 1)) = text
  <2>g. PICK g : g = SubSeq(p, 1, n + 1)
    OBVIOUS
  <2>1. \A i \in 1..n + 1 : p[i] \in FrameSet
    BY <1>1, <1>6, <1>n, <1>m
  <2>2. g \in Seq(FrameSet) /\ Len(g) = n + 1 /\ \A i \in 1..n + 1 : g[i] = p[i]
    <3>1. 1 \in Int /\ n + 1 \in Int /\ (n + 1) - 1 + 1 = n + 1 /\ 1 <= n + 1 /\ \A i \in 1..n + 1 : 1 + i - 1 = i
      OBVIOUS
    <3>2. SubSeq(p, 1, n + 1) \in Seq(FrameSet) /\ Len(SubSeq(p, 1, n + 1)) = (IF 1 <= n + 1 THEN (n + 1) - 1 + 1 ELSE 0)
          /\ \A i \in 1..(n + 1) - 1 + 1 : SubSeq(p, 1, n + 1)[i] = p[1 + i - 1]
      BY <2>1, <3>1, SubSeqProperties
    <3> QED
      BY <2>g, <3>1, <3>2
  <2>3. s \in Seq(Items) /\ q[1] \in Items /\ g \in Seq(Items)
    BY <1>6, <1>m, <2>2, ItemsAre
  <2>a. PICK a : a = Append(s, q[1])
    OBVIOUS
  <2>4. a \in Seq(Items) /\ Len(a) = n + 1 /\ a[n + 1] = q[1] /\ \A i \in 1..n : a[i] = s[i]
    BY <1>n, <2>3, <2>a, AppendProperties
  <2>5. \A i \in 1..n + 1 : i \in 1..n \/ i = n + 1
    OBVIOUS
  <2>6. \A i \in 1..n + 1 : a[i] = g[i]
    BY <1>2, <1>6, <2>2, <2>4, <2>5
  <2>7. a = g
    BY <2>2, <2>3, <2>4, <2>6, SeqEqual
  <2>8. Concat(a) = Concat(s)
    BY <2>3, <2>a, ConcatAppend
  <2> QED
    BY <2>7, <2>8, <2>g
<1>10. Clean(p, TRUE, text)
  <2>1. Len(p) = n + m
    BY <1>1, <1>n, <1>m
  <2>2. ASSUME NEW i \in 1..n + m, p[i].f = "stop"
        PROVE  /\ Concat(SubSeq(p, 1, i)) = text
               /\ \A j \in 1..n + m : j > i => p[j].f \in {"usage", "[DONE]"}
               /\ \A j \in 1..n + m : p[j].f # "error"
    <3>1. i = n + 1
      BY <1>7, <2>2
    <3> QED
      BY <1>5, <1>8, <1>9, <3>1
  <2> QED
    BY <2>1, <2>2 DEF Clean
<1> QED
  BY <1>10, <1>p

----------------------------------------------------------------------------
(* A completion request, from its answer to its client.                     *)

\* The frames on their way to the client, and with them the events behind those.
Shown == (seen \o frames) \o relay.queue
Told == Shown \o events

\* The part of the answer that is still to be taken in lines.
Rest == buffered \o upstream
Position == Len(body) - Len(Rest)

Unbegun ==
  /\ seen = <<>> /\ frames = <<>> /\ events = <<>> /\ relay = Off /\ reader = "off"
  /\ buffered = <<>> /\ upstream = body /\ pending = NoLine /\ client = "reading"

\* What was taken says what was told and what is about to be.
Reads ==
  /\ buffered \in Seq(Symbols) /\ upstream \in Seq(Symbols) /\ Position \in Nat
  /\ \A i \in 1..Len(Rest) : Rest[i] = body[Position + i]
  /\ ReadUpto(body)[Position].line = <<>>
  /\ reader # "send" => /\ ReadUpto(body)[Position].end = "open"
                        /\ ReadUpto(body)[Position].text = Concat(Told)
  /\ reader = "send" => /\ pending \in [text : Seq(Texts), done : BOOLEAN]
                        /\ ReadUpto(body)[Position].end = IF pending.done THEN "done" ELSE "open"
                        /\ ReadUpto(body)[Position].text = Concat(Told) \o pending.text

\* The engine's task has ended with the one event that says how.
Ended ==
  /\ Len(events) > 0
  /\ \A i \in 1..Len(events) : i < Len(events) => events[i].e = "delta"
  /\ events[Len(events)].e \in {"done", "err"} /\ events[Len(events)].text = <<>>
  /\ events[Len(events)].e = "done" => Answer.whole /\ Concat(Told) = Answer.text

Ongoing ==
  /\ events \in Seq(EventSet)
  /\ \A i \in 1..Len(Shown) : Shown[i].f \in {"role", "delta"}
  /\ reader \in {"read", "drain", "send", "fail", "done"}
  /\ reader # "done" => \A i \in 1..Len(events) : events[i].e = "delta"
  /\ reader = "done" => Ended
  /\ reader \in {"read", "drain", "send"} => Reads

Streaming ==
  /\ seen \in Seq(FrameSet) /\ frames \in Seq(FrameSet)
  /\ relay \in [on : BOOLEAN, queue : Seq(FrameSet), last : BOOLEAN]
  /\ Clean(Shown, Answer.whole, Answer.text)
  /\ relay.on /\ ~relay.last => Ongoing

InferenceInv ==
  /\ body \in Bodies
  /\ phase \in {"idle", "resolving", "calling", "refused", "answered", "streaming"}
  /\ seen \in Seq(FrameSet) /\ Clean(seen, Answer.whole, Answer.text)
  /\ phase \notin {"streaming", "answered"} => Unbegun
  /\ phase = "answered" => relay = Off /\ frames = <<>> /\ reader = "off"
  /\ phase = "streaming" /\ client = "reading" => Streaming

LEMMA AnswerIs ==
  ASSUME body \in Bodies
  PROVE  /\ body \in Seq(Symbols) /\ Len(body) \in Nat
         /\ Answer.text \in Seq(Texts) /\ Answer.text = ReadUpto(body)[Len(body)].text
         /\ Answer.whole <=> ReadUpto(body)[Len(body)].end = "done"
<1>1. body \in Seq(Symbols)
  BY InferenceAssumption
<1>2. Len(body) \in Nat /\ Len(body) \in 0..Len(body)
  BY <1>1
<1>3. ReadUpto(body)[Len(body)] \in Reading
  BY <1>1, <1>2, ReadIs
<1>4. Answer.text = ReadUpto(body)[Len(body)].text /\ (Answer.whole <=> ReadUpto(body)[Len(body)].end = "done")
  BY DEF Answer
<1> QED
  BY <1>1, <1>2, <1>3, <1>4 DEF Reading

LEMMA CleanNothing ==
  ASSUME NEW fs, \A i \in 1..Len(fs) : fs[i].f # "stop", NEW whole, NEW text
  PROVE  Clean(fs, whole, text)
  BY DEF Clean

LEMMA InferenceInitInv == ASSUME InferenceInit PROVE InferenceInv
<1>1. /\ body \in Bodies /\ phase = "idle" /\ seen = <<>> /\ frames = <<>> /\ events = <<>>
      /\ relay = Off /\ reader = "off" /\ buffered = <<>> /\ upstream = body /\ pending = NoLine
      /\ client = "reading"
  BY DEF InferenceInit
<1>2. Unbegun
  BY <1>1 DEF Unbegun
<1>3. seen \in Seq(FrameSet) /\ Len(seen) = 0
  BY <1>1
<1>4. Clean(seen, Answer.whole, Answer.text)
  BY <1>3 DEF Clean
<1> QED
  BY <1>1, <1>2, <1>3, <1>4 DEF InferenceInv

\* The property is the part of the invariant about what was seen.
LEMMA InvIsClean == ASSUME InferenceInv PROVE CleanEndIsComplete
<1>1. seen \in Seq(FrameSet) /\ Clean(seen, Answer.whole, Answer.text)
  BY DEF InferenceInv
<1>2. DOMAIN seen = 1..Len(seen)
  BY <1>1
<1> QED
  BY <1>1, <1>2 DEF CleanEndIsComplete, Clean, Kinds

\* Before the response is committed.
LEMMA QuietSteps ==
  ASSUME InferenceInv, phase' \in {"resolving", "calling", "refused"}, phase \in {"idle", "resolving", "calling"}, Quiet
  PROVE  InferenceInv'
<1>1. UNCHANGED <<upstream, body, buffered, reader, pending, events, relay, frames, seen, client>>
  BY DEF Quiet
<1>2. Unbegun'
  BY <1>1 DEF InferenceInv, Unbegun
<1>3. Answer' = Answer
  BY <1>1 DEF Answer
<1>4. (body \in Bodies)' /\ (seen \in Seq(FrameSet))' /\ Clean(seen', Answer'.whole, Answer'.text)
  BY <1>1, <1>3 DEF InferenceInv
<1> QED
  BY <1>2, <1>4 DEF InferenceInv

LEMMA BufferedStep ==
  ASSUME InferenceInv, CompleteBuffered
  PROVE  InferenceInv'
<1>1. /\ phase = "calling" /\ Answer.whole /\ phase' = "answered"
      /\ seen' = <<Frame("delta", Answer.text), Frame("stop", <<>>)>>
      /\ UNCHANGED <<ask, upstream, body, buffered, reader, pending, events, relay, frames, client>>
  BY DEF CompleteBuffered
<1>2. Unbegun /\ body \in Bodies
  BY <1>1 DEF InferenceInv
<1>3. Answer' = Answer /\ Answer.text \in Seq(Texts)
  BY <1>1, <1>2, AnswerIs DEF Answer
<1>t. PICK t \in Seq(Texts) : t = Answer.text
  BY <1>3
<1>e. <<>> \in Seq(Texts)
  OBVIOUS
<1>d. PICK d \in FrameSet : d = Frame("delta", t)
  BY DEF FrameSet, Frame
<1>s. PICK s \in FrameSet : s = Frame("stop", <<>>)
  BY <1>e DEF FrameSet, Frame
<1>4. d.f = "delta" /\ d.text = t /\ s.f = "stop" /\ s.text = <<>>
  BY <1>d, <1>s DEF Frame
<1>5. seen' = <<d, s>>
  BY <1>1, <1>d, <1>s, <1>t
<1>o. <<d>> \in Seq(FrameSet) /\ <<s>> \in Seq(FrameSet) /\ <<d>> \o <<s>> = <<d, s>>
  <2>1. <<d>> \in Seq(FrameSet) /\ <<s>> \in Seq(FrameSet)
    OBVIOUS
  <2>2. PICK p \in Seq(FrameSet) : p = <<d>>
    BY <2>1
  <2>3. PICK q \in Seq(FrameSet) : q = <<s>>
    BY <2>1
  <2>4. PICK w \in Seq(FrameSet) : w = <<d, s>>
    <3>1. <<d, s>> \in Seq(FrameSet)
      OBVIOUS
    <3> QED
      BY <3>1
  <2>5. Len(p) = 1 /\ p[1] = d /\ Len(q) = 1 /\ q[1] = s
    BY <2>2, <2>3
  <2>6. Len(w) = 2 /\ w[1] = d /\ w[2] = s
    BY <2>4
  <2>7. /\ p \o q \in Seq(FrameSet) /\ Len(p \o q) = Len(p) + Len(q)
        /\ \A i \in 1..Len(p) + Len(q) : (p \o q)[i] = IF i <= Len(p) THEN p[i] ELSE q[i - Len(p)]
    BY ConcatProperties
  <2>8. p \o q = w
    <3>1. Len(p \o q) = 2 /\ (p \o q)[1] = d /\ (p \o q)[2] = s
      BY <2>5, <2>7
    <3>2. \A i \in 1..Len(p \o q) : (p \o q)[i] = w[i]
      BY <2>6, <3>1
    <3> QED
      BY <2>6, <2>7, <3>1, <3>2, SeqEqual
  <2> QED
    BY <2>1, <2>2, <2>3, <2>4, <2>8
<1>p. PICK p \in Seq(FrameSet) : p = <<d>>
  BY <1>o
<1>q. PICK q \in Seq(FrameSet) : q = <<s>>
  BY <1>o
<1>6. Len(p) = 1 /\ p[1] = d /\ Len(q) = 1 /\ q[1] = s
  BY <1>p, <1>q
<1>7. Concat(p) = t
  <2>n. PICK z \in Seq(Items) : z = <<>>
    <3>1. <<>> \in Seq(Items)
      OBVIOUS
    <3> QED
      BY <3>1
  <2>1. Concat(z) = <<>>
    BY <2>n, ConcatNothing
  <2>2. d \in Items
    BY ItemsAre
  <2>3. Append(z, d) = <<d>>
    BY <2>n
  <2>4. Concat(Append(z, d)) = Concat(z) \o d.text
    BY <2>2, ConcatAppend
  <2>5. <<>> \o t = t
    BY ConcatEmptySeq
  <2> QED
    BY <1>4, <1>p, <2>1, <2>3, <2>4, <2>5
<1>8. Clean(p \o q, TRUE, t)
  <2>1. Len(q) > 0 /\ (\A i \in 1..Len(p) : p[i].f \in {"role", "delta"})
        /\ q[1].f = "stop" /\ q[1].text = <<>> /\ \A j \in 1..Len(q) : j > 1 => q[j].f \in {"usage", "[DONE]"}
    BY <1>4, <1>6
  <2> QED
    BY <1>7, <2>1, CleanStop
<1>9. seen' = p \o q /\ p \o q \in Seq(FrameSet)
  BY <1>5, <1>o, <1>p, <1>q
<1>10. Clean(seen', Answer'.whole, Answer'.text)
  <2>1. Answer'.whole = TRUE
    BY <1>1, <1>3 DEF Answer
  <2> QED
    BY <1>3, <1>8, <1>9, <1>t, <2>1
<1>11. (relay = Off /\ frames = <<>> /\ reader = "off")'
  BY <1>1, <1>2 DEF Unbegun
<1> QED
  BY <1>1, <1>2, <1>9, <1>10, <1>11 DEF InferenceInv

\* The empty sequence under a name, for every set it is a sequence over.
LEMMA SomeEmpty ==
  \E z : /\ z = <<>> /\ Len(z) = 0 /\ Concat(z) = <<>>
         /\ z \in Seq(FrameSet) /\ z \in Seq(EventSet) /\ z \in Seq(Items)
<1>1. <<>> \in Seq(FrameSet) /\ <<>> \in Seq(EventSet) /\ <<>> \in Seq(Items) /\ Len(<<>>) = 0
  OBVIOUS
<1>2. PICK z : z = <<>>
  OBVIOUS
<1>3. Concat(z) = <<>>
  BY <1>2, ConcatNothing
<1> QED
  BY <1>1, <1>2, <1>3

\* A stream that begins has told nothing, and the client may have been told its role.
LEMMA SpawnedIs ==
  /\ Spawned \in [on : BOOLEAN, queue : Seq(FrameSet), last : BOOLEAN]
  /\ Spawned.queue \in Seq(FrameSet) /\ Concat(Spawned.queue) = <<>>
  /\ \A i \in 1..Len(Spawned.queue) : Spawned.queue[i].f = "role"
<1>z. PICK z : /\ z = <<>> /\ Len(z) = 0 /\ Concat(z) = <<>>
               /\ z \in Seq(FrameSet) /\ z \in Seq(EventSet) /\ z \in Seq(Items)
  BY SomeEmpty
<1>e. <<>> \in Seq(Texts)
  OBVIOUS
<1>r. PICK r \in FrameSet : r = Frame("role", <<>>)
  BY <1>e DEF FrameSet, Frame
<1>1. r.f = "role" /\ r.text = <<>> /\ r \in Items
  BY <1>r, ItemsAre DEF Frame
<1>2. <<r>> \in Seq(FrameSet) /\ Append(z, r) = <<r>>
  <2>1. Append(z, r) \in Seq(FrameSet) /\ Append(z, r) = <<r>>
    BY <1>z
  <2> QED
    BY <2>1
<1>3. PICK p \in Seq(FrameSet) : p = <<r>>
  BY <1>2
<1>4. Len(p) = 1 /\ p[1] = r
  BY <1>3
<1>5. Concat(p) = <<>>
  <2>1. Concat(Append(z, r)) = Concat(z)
    BY <1>1, <1>z, ConcatAppend
  <2> QED
    BY <1>2, <1>3, <1>z, <2>1
<1>q. PICK q : q = Spawned.queue
  OBVIOUS
<1>6. q = p \/ q = z
  BY <1>3, <1>r, <1>z, <1>q DEF Spawned
<1>7. q \in Seq(FrameSet) /\ Concat(q) = <<>>
  BY <1>5, <1>6, <1>z
<1>8. \A i \in 1..Len(q) : q[i].f = "role"
  <2>1. \A i \in 1..Len(p) : p[i].f = "role"
    BY <1>1, <1>4
  <2>2. \A i \in 1..Len(z) : z[i].f = "role"
    BY <1>z
  <2> QED
    BY <1>6, <2>1, <2>2
<1>9. Spawned \in [on : BOOLEAN, queue : Seq(FrameSet), last : BOOLEAN]
  <2>1. Spawned = [on |-> TRUE, last |-> FALSE, queue |-> q]
    BY <1>q DEF Spawned
  <2> QED
    BY <1>7, <2>1
<1> QED
  BY <1>7, <1>8, <1>9, <1>q

\* What is shown and told when nothing but the role and the events is on its way.
LEMMA BeginsWith ==
  ASSUME NEW z, z = <<>>, NEW q \in Seq(FrameSet), NEW e \in Seq(EventSet)
  PROVE  /\ (z \o z) \o q = q /\ q \o e \in Seq(Items)
         /\ Len(q \o e) = Len(q) + Len(e)
<1>1. (z \o z) \o q = q
  <2>1. <<>> \in Seq(FrameSet) /\ <<>> \o <<>> = <<>>
    BY ConcatEmptySeq
  <2>2. <<>> \o q = q
    BY ConcatEmptySeq
  <2> QED
    BY <2>1, <2>2
<1>2. q \in Seq(Items) /\ e \in Seq(Items)
  BY ItemsAre
<1>3. q \o e \in Seq(Items) /\ Len(q \o e) = Len(q) + Len(e)
  BY <1>2, ConcatProperties
<1> QED
  BY <1>1, <1>3

LEMMA NativeStep ==
  ASSUME InferenceInv, StreamNative
  PROVE  InferenceInv'
<1>1. /\ phase = "calling" /\ phase' = "streaming" /\ reader' = "read" /\ relay' = Spawned
      /\ UNCHANGED <<ask, upstream, body, buffered, pending, events, frames, seen, client>>
  BY DEF StreamNative
<1>2. /\ body \in Bodies /\ seen = <<>> /\ frames = <<>> /\ events = <<>>
      /\ buffered = <<>> /\ upstream = body
  BY <1>1 DEF InferenceInv, Unbegun
<1>3. body \in Seq(Symbols) /\ Len(body) \in Nat
  BY <1>2, AnswerIs
<1>q. PICK q \in Seq(FrameSet) : q = Spawned.queue
  BY SpawnedIs
<1>z. PICK z : /\ z = <<>> /\ Len(z) = 0 /\ Concat(z) = <<>>
               /\ z \in Seq(FrameSet) /\ z \in Seq(EventSet) /\ z \in Seq(Items)
  BY SomeEmpty
<1>4. Concat(q) = <<>> /\ relay' \in [on : BOOLEAN, queue : Seq(FrameSet), last : BOOLEAN] /\ relay'.queue = q
      /\ \A i \in 1..Len(q) : q[i].f = "role"
  BY <1>1, <1>q, SpawnedIs
<1>5. Shown' = q
  <2>1. (z \o z) \o q = q
    BY <1>z, BeginsWith
  <2>2. seen' = z /\ frames' = z
    BY <1>1, <1>2, <1>z
  <2> QED
    BY <1>4, <2>1, <2>2 DEF Shown
<1>6. Concat(Told') = <<>>
  <2>1. q \o z = q
    BY <1>z, ConcatEmptySeq
  <2>2. Told' = q \o z
    BY <1>1, <1>2, <1>5, <1>z DEF Told
  <2> QED
    BY <1>4, <2>1, <2>2
<1>7. Rest' = body /\ buffered' \in Seq(Symbols) /\ upstream' \in Seq(Symbols)
  <2>1. <<>> \in Seq(Symbols) /\ <<>> \o body = body
    BY <1>3, ConcatEmptySeq
  <2> QED
    BY <1>1, <1>2, <1>3, <2>1 DEF Rest
<1>8. Position' = 0
  BY <1>1, <1>3, <1>7 DEF Position
<1>9. ReadUpto(body)[0] = NothingRead
  BY <1>3, ReadIs
<1>10. Reads'
  <2>1. NothingRead.line = <<>> /\ NothingRead.text = <<>> /\ NothingRead.end = "open"
    BY DEF NothingRead
  <2>2. /\ ReadUpto(body')[Position'].line = <<>> /\ ReadUpto(body')[Position'].text = Concat(Told')
        /\ ReadUpto(body')[Position'].end = "open"
    BY <1>1, <1>6, <1>8, <1>9, <2>1
  <2>3. \A i \in 1..Len(Rest') : Rest'[i] = body'[Position' + i]
    BY <1>1, <1>3, <1>7, <1>8
  <2>4. Position' \in Nat /\ reader' # "send"
    BY <1>1, <1>8
  <2> QED
    BY <1>7, <2>2, <2>3, <2>4 DEF Reads
<1>14. seen' \in Seq(FrameSet) /\ frames' \in Seq(FrameSet) /\ events' \in Seq(EventSet)
  BY <1>1, <1>2, <1>z
<1>11. Ongoing'
  <2>1. \A i \in 1..Len(events') : events'[i].e = "delta"
    <3>1. events' = z
      BY <1>1, <1>2, <1>z
    <3> QED
      BY <1>z, <3>1
  <2>2. \A i \in 1..Len(Shown') : Shown'[i].f \in {"role", "delta"}
    BY <1>4, <1>5
  <2> QED
    BY <1>1, <1>10, <1>14, <2>1, <2>2 DEF Ongoing
<1>12. Answer' = Answer
  BY <1>1 DEF Answer
<1>13. Clean(q, Answer'.whole, Answer'.text)
  BY <1>4, CleanNothing
<1>15. Streaming'
  BY <1>4, <1>5, <1>11, <1>13, <1>14 DEF Streaming
<1>16. Clean(seen', Answer'.whole, Answer'.text)
  BY <1>1, <1>12 DEF InferenceInv
<1> QED
  BY <1>1, <1>2, <1>14, <1>15, <1>16 DEF InferenceInv

LEMMA ReplayedStep ==
  ASSUME InferenceInv, StreamReplayed
  PROVE  InferenceInv'
<1>1. /\ phase = "calling" /\ phase' = "streaming" /\ reader' = "done" /\ relay' = Spawned /\ Answer.whole
      /\ events' = <<Delta(Answer.text), EDone>>
      /\ UNCHANGED <<ask, upstream, body, buffered, pending, frames, seen, client>>
  BY DEF StreamReplayed
<1>2. body \in Bodies /\ seen = <<>> /\ frames = <<>>
  BY <1>1 DEF InferenceInv, Unbegun
<1>t. PICK t \in Seq(Texts) : t = Answer.text
  BY <1>2, AnswerIs
<1>q. PICK q \in Seq(FrameSet) : q = Spawned.queue
  BY SpawnedIs
<1>z. PICK z : /\ z = <<>> /\ Len(z) = 0 /\ Concat(z) = <<>>
               /\ z \in Seq(FrameSet) /\ z \in Seq(EventSet) /\ z \in Seq(Items)
  BY SomeEmpty
<1>e. <<>> \in Seq(Texts)
  OBVIOUS
<1>d. PICK d \in EventSet : d = Delta(t)
  BY DEF EventSet, Delta
<1>s. PICK s \in EventSet : s = EDone
  BY <1>e DEF EventSet, EDone
<1>3. d.e = "delta" /\ d.text = t /\ s.e = "done" /\ s.text = <<>> /\ d \in Items /\ s \in Items
  BY <1>d, <1>s, ItemsAre DEF Delta, EDone
<1>v. PICK v \in Seq(EventSet) : v = <<d, s>>
  <2>1. <<d, s>> \in Seq(EventSet)
    OBVIOUS
  <2> QED
    BY <2>1
<1>4. Len(v) = 2 /\ v[1] = d /\ v[2] = s /\ events' = v
  BY <1>1, <1>d, <1>s, <1>t, <1>v
<1>5. /\ Concat(q) = <<>> /\ relay' \in [on : BOOLEAN, queue : Seq(FrameSet), last : BOOLEAN]
      /\ relay'.queue = q /\ \A i \in 1..Len(q) : q[i].f = "role"
  BY <1>1, <1>q, SpawnedIs
<1>6. Shown' = q
  <2>1. (z \o z) \o q = q
    BY <1>z, BeginsWith
  <2>2. seen' = z /\ frames' = z
    BY <1>1, <1>2, <1>z
  <2> QED
    BY <1>5, <2>1, <2>2 DEF Shown
<1>7. Concat(Told') = t
  <2>q. q \in Seq(Items) /\ v \in Seq(Items)
    BY ItemsAre
  <2>1. /\ q \o v \in Seq(Items) /\ Len(q \o v) = Len(q) + Len(v)
        /\ \A i \in 1..Len(q) + Len(v) : (q \o v)[i] = IF i <= Len(q) THEN q[i] ELSE v[i - Len(q)]
    BY <2>q, ConcatProperties
  <2>2. PICK w \in Seq(Items) : w = Append(q, d)
    BY <1>3, <2>q, ConcatAppend
  <2>3. PICK x \in Seq(Items) : x = Append(w, s)
    BY <1>3, ConcatAppend
  <2>4. /\ Len(w) = Len(q) + 1 /\ (\A i \in 1..Len(q) : w[i] = q[i]) /\ w[Len(q) + 1] = d
    BY <1>3, <2>q, <2>2, AppendProperties
  <2>5. /\ Len(x) = Len(w) + 1 /\ (\A i \in 1..Len(w) : x[i] = w[i]) /\ x[Len(w) + 1] = s
    BY <1>3, <2>3, AppendProperties
  <2>6. q \o v = x
    <3>1. Len(q) \in Nat
      BY <1>q
    <3>2. Len(q \o v) = Len(x)
      BY <1>4, <2>1, <2>4, <2>5, <3>1
    <3>3. ASSUME NEW i \in 1..Len(x) PROVE (q \o v)[i] = x[i]
      <4>1. i \in Nat /\ 1 <= i /\ i <= Len(q) + 2
        BY <2>4, <2>5, <3>1
      <4>2. CASE i <= Len(q)
        BY <1>4, <2>1, <2>4, <2>5, <3>1, <4>1, <4>2
      <4>3. CASE i = Len(q) + 1
        BY <1>4, <2>1, <2>4, <2>5, <3>1, <4>1, <4>3
      <4>4. CASE i = Len(q) + 2
        BY <1>4, <2>1, <2>4, <2>5, <3>1, <4>1, <4>4
      <4>5. i <= Len(q) \/ i = Len(q) + 1 \/ i = Len(q) + 2
        BY ONLY <3>1, <4>1
      <4> QED
        BY <4>2, <4>3, <4>4, <4>5
    <3> QED
      BY <2>1, <3>2, <3>3, SeqEqual
  <2>7. Concat(w) = Concat(q) \o d.text /\ Concat(x) = Concat(w)
    <3>1. Concat(w) = Concat(q) \o d.text
      BY <1>3, <2>q, <2>2, ConcatAppend
    <3>2. Concat(x) = Concat(w)
      BY <1>3, <2>3, ConcatAppend
    <3> QED
      BY <3>1, <3>2
  <2>8. <<>> \o t = t
    BY ConcatEmptySeq
  <2>9. Told' = q \o v
    BY <1>4, <1>6 DEF Told
  <2>10. Concat(x) = t
    BY <1>3, <1>5, <2>7, <2>8
  <2> QED
    BY <2>6, <2>9, <2>10
<1>8. Answer' = Answer
  BY <1>1 DEF Answer
<1>9. Ended'
  <2>1. /\ Len(events') > 0 /\ \A i \in 1..Len(events') : i < Len(events') => events'[i].e = "delta"
    <3>1. \A i \in 1..2 : i < 2 => i = 1
      OBVIOUS
    <3>2. \A i \in 1..Len(v) : i < Len(v) => v[i].e = "delta"
      BY ONLY <1>3, <1>4, <3>1
    <3>3. Len(v) > 0
      BY <1>4
    <3>4. events' = v
      BY <1>4
    <3> QED
      BY ONLY <3>2, <3>3, <3>4, Zenon
  <2>2. events'[Len(events')].e \in {"done", "err"} /\ events'[Len(events')].text = <<>>
    BY <1>3, <1>4
  <2>3. Answer'.whole /\ Concat(Told') = Answer'.text
    BY <1>1, <1>7, <1>8, <1>t
  <2> QED
    BY <2>1, <2>2, <2>3 DEF Ended
<1>12. seen' \in Seq(FrameSet) /\ frames' \in Seq(FrameSet) /\ events' \in Seq(EventSet)
  BY <1>1, <1>2, <1>4, <1>z
<1>10. Ongoing'
  <2>1. \A i \in 1..Len(Shown') : Shown'[i].f \in {"role", "delta"}
    BY <1>5, <1>6
  <2> QED
    BY <1>1, <1>9, <1>12, <2>1 DEF Ongoing
<1>11. Clean(q, Answer'.whole, Answer'.text)
  BY <1>5, CleanNothing
<1>13. Streaming'
  BY <1>5, <1>6, <1>10, <1>11, <1>12 DEF Streaming
<1>14. Clean(seen', Answer'.whole, Answer'.text)
  BY <1>1, <1>8 DEF InferenceInv
<1> QED
  BY <1>1, <1>2, <1>12, <1>13, <1>14 DEF InferenceInv

\* What a streaming state says of its parts.
LEMMA StreamIs ==
  ASSUME InferenceInv, Streaming, Ongoing
  PROVE  /\ body \in Seq(Symbols) /\ Len(body) \in Nat
         /\ seen \in Seq(FrameSet) /\ frames \in Seq(FrameSet) /\ events \in Seq(EventSet)
         /\ relay.queue \in Seq(FrameSet) /\ seen \o frames \in Seq(FrameSet)
         /\ Shown \in Seq(FrameSet) /\ Told \in Seq(Items) /\ Shown \in Seq(Items) /\ events \in Seq(Items)
         /\ Concat(Told) \in Seq(Texts)
<1>1. body \in Seq(Symbols) /\ Len(body) \in Nat
  BY AnswerIs DEF InferenceInv
<1>2. /\ seen \in Seq(FrameSet) /\ frames \in Seq(FrameSet) /\ events \in Seq(EventSet)
      /\ relay.queue \in Seq(FrameSet)
  BY DEF Streaming, Ongoing
<1>3. seen \o frames \in Seq(FrameSet)
  BY <1>2, ConcatProperties
<1>4. Shown \in Seq(FrameSet)
  BY <1>2, <1>3, ConcatProperties DEF Shown
<1>5. Shown \in Seq(Items) /\ events \in Seq(Items)
  BY <1>2, <1>4, ItemsAre
<1>6. Told \in Seq(Items)
  BY <1>5, ConcatProperties DEF Told
<1>7. Concat(Told) \in Seq(Texts)
  <2>1. <<>> \in Seq(Texts)
    OBVIOUS
  <2>2. [e |-> "done", text |-> <<>>] \in Items
    BY <2>1 DEF Items
  <2> QED
    BY <1>6, <2>2, ConcatAppend
<1> QED
  BY <1>1, <1>2, <1>3, <1>4, <1>5, <1>6, <1>7

\* A step of the engine's task only has to keep what the two tasks have of the
\* answer between them while the client may still be shown it.
LEMMA ReaderGoes ==
  ASSUME InferenceInv, ReaderOnly, reader # "off",
         Streaming /\ Ongoing /\ relay.on => Ongoing'
  PROVE  InferenceInv'
<1>1. UNCHANGED <<ask, phase, body, relay, frames, seen, client>>
  BY DEF ReaderOnly
<1>2. phase = "streaming"
  BY DEF InferenceInv, Unbegun
<1>3. Answer' = Answer /\ Shown' = Shown
  BY <1>1 DEF Answer, Shown
<1>4. ASSUME client = "reading" PROVE Streaming'
  <2>1. Streaming
    BY <1>2, <1>4 DEF InferenceInv
  <2>2. /\ seen' \in Seq(FrameSet) /\ frames' \in Seq(FrameSet)
        /\ relay' \in [on : BOOLEAN, queue : Seq(FrameSet), last : BOOLEAN]
    BY <1>1, <2>1 DEF Streaming
  <2>3. Clean(Shown', Answer'.whole, Answer'.text)
    BY <1>3, <2>1 DEF Streaming
  <2>4. relay'.on /\ ~relay'.last => Ongoing'
    BY <1>1, <2>1 DEF Streaming
  <2> QED
    BY <2>2, <2>3, <2>4 DEF Streaming
<1>5. (body \in Bodies)' /\ (seen \in Seq(FrameSet))' /\ Clean(seen', Answer'.whole, Answer'.text)
  BY <1>1, <1>3 DEF InferenceInv
<1> QED
  BY <1>1, <1>2, <1>4, <1>5 DEF InferenceInv

\* The engine's task that has not ended keeps the events it has sent.
LEMMA ReaderHolds ==
  ASSUME InferenceInv, Streaming, Ongoing, ReaderOnly, UNCHANGED events,
         reader # "done", reader' \in {"read", "drain", "send", "fail"},
         reader' \in {"read", "drain", "send"} => Reads'
  PROVE  Ongoing'
<1>1. UNCHANGED <<ask, phase, body, relay, frames, seen, client>>
  BY DEF ReaderOnly
<1>2. Shown' = Shown
  BY <1>1 DEF Shown
<1>3. \A i \in 1..Len(Shown') : Shown'[i].f \in {"role", "delta"}
  BY <1>2 DEF Ongoing
<1>4. \A i \in 1..Len(events') : events'[i].e = "delta"
  BY DEF Ongoing
<1>5. events' \in Seq(EventSet)
  BY DEF Ongoing
<1> QED
  BY <1>3, <1>4, <1>5 DEF Ongoing

LEMMA ReadChunkStep ==
  ASSUME InferenceInv, ReadChunk
  PROVE  InferenceInv'
<1>1. reader = "read" /\ UNCHANGED <<pending, events>> /\ ReaderOnly
  BY DEF ReadChunk
<1>2. PICK n \in 1..MaxChunk :
        /\ n <= Len(upstream) /\ buffered' = buffered \o SubSeq(upstream, 1, n)
        /\ reader' \in {"fail", "drain"} /\ upstream' = SubSeq(upstream, n + 1, Len(upstream))
  BY DEF ReadChunk
<1>3. n \in Nat /\ 1 <= n
  BY InferenceAssumption
<1>4. ASSUME Streaming, Ongoing PROVE Ongoing'
  <2>1. Reads /\ buffered \in Seq(Symbols) /\ upstream \in Seq(Symbols) /\ Len(upstream) \in Nat
    BY <1>1, <1>4 DEF Ongoing, Reads
  <2>2. /\ SubSeq(upstream, 1, n) \in Seq(Symbols)
        /\ SubSeq(upstream, n + 1, Len(upstream)) \in Seq(Symbols)
    BY <1>2, <1>3, <2>1
  <2>3. SubSeq(upstream, 1, n) \o SubSeq(upstream, n + 1, Len(upstream)) = upstream
    <3>1. /\ 1 \in 1..Len(upstream) + 1 /\ n \in 1 - 1..Len(upstream)
          /\ Len(upstream) \in n..Len(upstream)
      BY <1>2, <1>3, <2>1
    <3>2. SubSeq(upstream, 1, n) \o SubSeq(upstream, n + 1, Len(upstream)) = SubSeq(upstream, 1, Len(upstream))
      BY <2>1, <3>1, ConcatAdjacentSubSeq
    <3> QED
      BY <2>1, <3>2, SubSeqFull
  <2>4. Rest' = Rest
    <3>1. (buffered \o SubSeq(upstream, 1, n)) \o SubSeq(upstream, n + 1, Len(upstream))
            = buffered \o (SubSeq(upstream, 1, n) \o SubSeq(upstream, n + 1, Len(upstream)))
      <4>1. PICK s \in Seq(Symbols) : s = SubSeq(upstream, 1, n)
        BY <2>2
      <4>2. PICK t \in Seq(Symbols) : t = SubSeq(upstream, n + 1, Len(upstream))
        BY <2>2
      <4>3. (buffered \o s) \o t = buffered \o (s \o t)
        BY ONLY <2>1, ConcatAssociative
      <4> QED
        BY <4>1, <4>2, <4>3
    <3> QED
      BY <1>2, <2>3, <3>1 DEF Rest
  <2>5. buffered' \in Seq(Symbols) /\ upstream' \in Seq(Symbols)
    BY <1>2, <2>1, <2>2, ConcatProperties
  <2>6. body' = body /\ Told' = Told /\ Position' = Position
    BY <1>1, <2>4 DEF ReaderOnly, Told, Shown, Position
  <2>7. Reads'
    <3>1. reader # "send" /\ reader' # "send"
      BY <1>1, <1>2
    <3>2. Position' \in Nat /\ \A i \in 1..Len(Rest') : Rest'[i] = body'[Position' + i]
      BY <2>1, <2>4, <2>6 DEF Reads
    <3>3. /\ ReadUpto(body')[Position'].line = <<>> /\ ReadUpto(body')[Position'].end = "open"
          /\ ReadUpto(body')[Position'].text = Concat(Told')
      BY <2>1, <2>6, <3>1 DEF Reads
    <3> QED
      BY <2>5, <3>1, <3>2, <3>3 DEF Reads
  <2>8. reader # "done" /\ reader' \in {"read", "drain", "send", "fail"}
    BY <1>1, <1>2
  <2> QED
    BY <1>1, <1>4, <2>7, <2>8, ReaderHolds
<1> QED
  BY <1>1, <1>4, ReaderGoes

LEMMA BodyEndsStep ==
  ASSUME InferenceInv, BodyEnds
  PROVE  InferenceInv'
<1>1. reader = "read" /\ reader' = "fail" /\ UNCHANGED <<upstream, buffered, pending, events>> /\ ReaderOnly
  BY DEF BodyEnds
<1>2. ASSUME Streaming, Ongoing PROVE Ongoing'
  BY <1>1, <1>2, ReaderHolds
<1> QED
  BY <1>1, <1>2, ReaderGoes

LEMMA DrainedStep ==
  ASSUME InferenceInv, Drained
  PROVE  InferenceInv'
<1>1. reader = "drain" /\ reader' = "read" /\ UNCHANGED <<upstream, buffered, pending, events>> /\ ReaderOnly
  BY DEF Drained
<1>2. ASSUME Streaming, Ongoing PROVE Ongoing'
  <2>1. Reads
    BY <1>1, <1>2 DEF Ongoing
  <2>2. body' = body /\ Told' = Told /\ Position' = Position /\ Rest' = Rest
    BY <1>1 DEF ReaderOnly, Told, Shown, Position, Rest
  <2>3. Reads'
    BY <1>1, <2>1, <2>2 DEF Reads
  <2> QED
    BY <1>1, <1>2, <2>3, ReaderHolds
<1> QED
  BY <1>1, <1>2, ReaderGoes

LEMMA SendFailsStep ==
  ASSUME InferenceInv, SendFails
  PROVE  InferenceInv'
<1>1. reader # "off" /\ ~relay.on /\ UNCHANGED <<upstream, buffered, pending, events>> /\ ReaderOnly
  BY DEF SendFails, ReceiverGone
<1> QED
  BY <1>1, ReaderGoes

\* r is what b has from behind its c-th symbol; the first newline of f is its i-th symbol.
Ends(b, r, c) == c + Len(r) = Len(b) /\ \A j \in 1..Len(r) : r[j] = b[c + j]
FirstNewline(f, i) == f[i] = NL /\ \A k \in 1..Len(f) : f[k] = NL => i <= k

\* The line that is next, where it stops, and what has been read when it was taken.
LineAhead(b, c, k, line) ==
  /\ c + k < Len(b) /\ b[c + (k + 1)] = NL /\ IsLine(b, c, k, line)
LineTaken(before, now, line) ==
  /\ line = <<>> => now.end = "open" /\ now.line = <<>> /\ now.text = before.text
  /\ line # <<>> /\ line \in DOMAIN Json =>
       /\ now.end = (IF Json[line].done THEN "done" ELSE "open") /\ now.line = <<>>
       /\ now.text = before.text \o Json[line].text

LEMMA ReadsLineAhead ==
  ASSUME NEW b \in Seq(Symbols), NEW c \in Nat, NEW k \in Nat, NEW line \in Seq(Symbols),
         ReadUpto(b)[c].end = "open", ReadUpto(b)[c].line = <<>>, LineAhead(b, c, k, line)
  PROVE  LineTaken(ReadUpto(b)[c], ReadUpto(b)[c + (k + 1)], line)
<1>1. c + k < Len(b) /\ b[c + (k + 1)] = NL /\ IsLine(b, c, k, line)
  BY DEF LineAhead
<1> QED
  BY <1>1, ReadsLine DEF LineTaken

\* Taking a line leaves the rest of the answer from behind its newline.
Takes(b, u, c, i, line, g) ==
  /\ i - 1 \in Nat /\ line \in Seq(Symbols) /\ LineAhead(b, c, i - 1, line)
  /\ g \in Seq(Symbols) /\ Ends(b, g \o u, c + i)

LEMMA TakesLine ==
  ASSUME NEW b \in Seq(Symbols), NEW f \in Seq(Symbols), NEW u \in Seq(Symbols), NEW c \in Nat,
         Ends(b, f \o u, c), NEW i \in Nat, i \in 1..Len(f), FirstNewline(f, i)
  PROVE  Takes(b, u, c, i, SubSeq(f, 1, i - 1), SubSeq(f, i + 1, Len(f)))
<1>a. PICK line : line = SubSeq(f, 1, i - 1)
  OBVIOUS
<1>b. PICK g : g = SubSeq(f, i + 1, Len(f))
  OBVIOUS
<1>0. f \in Seq(Symbols) /\ u \in Seq(Symbols)
  OBVIOUS
<1>1. Len(f) \in Nat /\ Len(u) \in Nat /\ Len(b) \in Nat /\ i \in Nat /\ 1 <= i /\ i <= Len(f)
  OBVIOUS
<1>2. /\ Len(f \o u) = Len(f) + Len(u)
      /\ \A j \in 1..Len(f) + Len(u) : (f \o u)[j] = IF j <= Len(f) THEN f[j] ELSE u[j - Len(f)]
  BY ConcatProperties
<1>3. c + (Len(f) + Len(u)) = Len(b) /\ \A j \in 1..Len(f) + Len(u) : (f \o u)[j] = b[c + j]
  BY <1>2 DEF Ends
<1>4. /\ \A j \in 1..Len(f) : f[j] = b[c + j]
      /\ \A j \in 1..Len(u) : u[j] = b[c + (Len(f) + j)]
  <2>1. ASSUME NEW j \in 1..Len(f) PROVE f[j] = b[c + j]
    <3>1. j \in 1..Len(f) + Len(u) /\ j <= Len(f)
      BY <1>1
    <3> QED
      BY ONLY <1>2, <1>3, <3>1
  <2>2. ASSUME NEW j \in 1..Len(u) PROVE u[j] = b[c + (Len(f) + j)]
    <3>1. Len(f) + j \in 1..Len(f) + Len(u) /\ ~(Len(f) + j <= Len(f)) /\ (Len(f) + j) - Len(f) = j
      BY <1>1
    <3> QED
      BY ONLY <1>2, <1>3, <3>1
  <2> QED
    BY <2>1, <2>2
<1>5. line \in Seq(Symbols) /\ Len(line) = i - 1 /\ \A j \in 1..i - 1 : line[j] = f[j]
  <2>1. \A j \in 1..i - 1 : f[j] \in Symbols
    BY <1>1
  <2>2. /\ SubSeq(f, 1, i - 1) \in Seq(Symbols)
        /\ Len(SubSeq(f, 1, i - 1)) = IF 1 <= i - 1 THEN i - 1 - 1 + 1 ELSE 0
        /\ \A j \in 1..i - 1 - 1 + 1 : SubSeq(f, 1, i - 1)[j] = f[1 + j - 1]
    BY <1>1, <2>1, SubSeqProperties
  <2>3. \A j \in 1..i - 1 : j \in 1..i - 1 - 1 + 1 /\ 1 + j - 1 = j
    BY <1>1
  <2> QED
    BY <1>1, <2>2, <2>3, <1>a
<1>6. IsLine(b, c, i - 1, line)
  <2>1. ASSUME NEW j \in 1..i - 1 PROVE line[j] = b[c + j] /\ b[c + j] # NL
    <3>1. j \in 1..Len(f) /\ ~(i <= j)
      BY <1>1
    <3> QED
      BY <1>4, <1>5, <3>1 DEF FirstNewline
  <2> QED
    BY <1>5, <2>1 DEF IsLine
<1>7. g \in Seq(Symbols) /\ Len(g) = Len(f) - i /\ \A j \in 1..Len(f) - i : g[j] = f[i + j]
  <2>1. \A j \in i + 1..Len(f) : f[j] \in Symbols
    BY <1>1
  <2>2. /\ SubSeq(f, i + 1, Len(f)) \in Seq(Symbols)
        /\ Len(SubSeq(f, i + 1, Len(f))) = IF i + 1 <= Len(f) THEN Len(f) - (i + 1) + 1 ELSE 0
        /\ \A j \in 1..Len(f) - (i + 1) + 1 : SubSeq(f, i + 1, Len(f))[j] = f[(i + 1) + j - 1]
    BY <1>1, <2>1, SubSeqProperties
  <2>3. \A j \in 1..Len(f) - i : j \in 1..Len(f) - (i + 1) + 1 /\ (i + 1) + j - 1 = i + j
    BY <1>1
  <2> QED
    BY <1>1, <2>2, <2>3, <1>b
<1>8. /\ Len(g \o u) = Len(g) + Len(u)
      /\ \A j \in 1..Len(g) + Len(u) : (g \o u)[j] = IF j <= Len(g) THEN g[j] ELSE u[j - Len(g)]
  BY ONLY <1>0, <1>7, ConcatProperties
<1>9. ASSUME NEW j \in 1..Len(g \o u) PROVE (g \o u)[j] = b[(c + i) + j]
  <2>0. PICK n \in Nat, p \in Nat : n = Len(g) /\ p = Len(u)
    <3>1. g \in Seq(Symbols)
      BY ONLY <1>7
    <3>2. Len(g) \in Nat
      BY ONLY <3>1, LenProperties
    <3>3. Len(u) \in Nat
      BY ONLY <1>1
    <3> QED
      BY ONLY <3>2, <3>3
  <2>1. j \in Nat /\ 1 <= j /\ j <= n + p /\ j \in 1..Len(g) + Len(u) /\ n = Len(f) - i
    BY ONLY <1>7, <1>8, <2>0, j \in 1..Len(g \o u)
  <2>2. CASE j <= Len(g)
    <3>1. j \in 1..Len(f) - i /\ i + j \in 1..Len(f) /\ c + (i + j) = (c + i) + j
      BY ONLY <1>1, <2>0, <2>1, <2>2, c \in Nat
    <3> QED
      BY ONLY <1>4, <1>7, <1>8, <2>1, <2>2, <3>1
  <2>3. CASE ~(j <= Len(g))
    <3>1. j - Len(g) \in 1..Len(u) /\ c + (Len(f) + (j - Len(g))) = (c + i) + j
      BY ONLY <1>1, <2>0, <2>1, <2>3, c \in Nat
    <3> QED
      BY ONLY <1>4, <1>8, <2>1, <2>3, <3>1
  <2> QED
    BY <2>2, <2>3
<1>10. i - 1 \in Nat /\ c + (i - 1) < Len(b) /\ (i - 1) + 1 = i /\ i \in 1..Len(f)
  BY <1>1, <1>3
<1>11. Ends(b, g \o u, c + i)
  <2>0. PICK n \in Nat, p \in Nat : n = Len(f) /\ p = Len(u)
    BY ONLY <1>1
  <2>q. PICK q : q = Len(g \o u)
    OBVIOUS
  <2>d. Len(g) = n - i
    BY ONLY <1>7, <2>0
  <2>e. q = Len(g) + p
    BY ONLY <1>8, <2>0, <2>q
  <2>a. q = (n - i) + p
    BY ONLY <2>d, <2>e
  <2>b. c + (n + p) = Len(b)
    BY ONLY <1>3, <2>0
  <2>c. (c + i) + q = c + (n + p)
    BY ONLY <1>1, <2>0, <2>a, c \in Nat
  <2>1. (c + i) + Len(g \o u) = Len(b)
    BY ONLY <2>q, <2>b, <2>c
  <2> QED
    BY <1>9, <2>1 DEF Ends
<1>12. f[i] = NL
  BY DEF FirstNewline
<1> QED
  <2>1. LineAhead(b, c, i - 1, line)
    BY ONLY <1>4, <1>6, <1>10, <1>12 DEF LineAhead
  <2> QED
    BY ONLY <1>a, <1>b, <1>5, <1>7, <1>10, <1>11, <2>1 DEF Takes

LEMMA DrainLineStep ==
  ASSUME InferenceInv, DrainLine
  PROVE  InferenceInv'
<1>1. reader = "drain" /\ Newlines # {} /\ UNCHANGED <<upstream, events>> /\ ReaderOnly
  BY DEF DrainLine
<1> DEFINE i == CHOOSE j \in Newlines : \A k \in Newlines : j <= k
           line == SubSeq(buffered, 1, i - 1)
<1>2. /\ buffered' = SubSeq(buffered, i + 1, Len(buffered))
      /\ reader' = IF line = <<>> THEN "drain" ELSE IF line \in DOMAIN Json THEN "send" ELSE "fail"
      /\ pending' = IF line \in DOMAIN Json THEN Json[line] ELSE NoLine
  BY DEF DrainLine
<1>3. ASSUME Streaming, Ongoing PROVE Ongoing'
  <2>1. Reads /\ body \in Seq(Symbols) /\ buffered \in Seq(Symbols) /\ upstream \in Seq(Symbols)
    BY <1>1, <1>3, StreamIs DEF Ongoing, Reads
  <2>2. i \in Newlines /\ \A k \in Newlines : i <= k
    <3>1. Newlines \in SUBSET Nat
      BY <2>1 DEF Newlines
    <3>2. \E j \in Newlines : \A k \in Newlines : j <= k
      BY <1>1, <3>1, Least
    <3> QED
      BY <3>2
  <2>i. PICK m : m = i
    OBVIOUS
  <2>l. PICK l : l = line
    OBVIOUS
  <2>c. PICK c : c = Position
    OBVIOUS
  <2>g. PICK g : g = buffered'
    OBVIOUS
  <2> HIDE DEF i, line
  <2>3. m \in 1..Len(buffered) /\ FirstNewline(buffered, m)
    BY <2>1, <2>2, <2>i DEF Newlines, FirstNewline
  <2>4. l = SubSeq(buffered, 1, m - 1) /\ g = SubSeq(buffered, m + 1, Len(buffered))
    BY <1>2, <2>i, <2>l, <2>g DEF line
  <2>5. c \in Nat /\ Ends(body, buffered \o upstream, c)
    <3>1. Len(buffered \o upstream) \in Nat /\ Len(body) \in Nat
      BY <2>1, ConcatProperties
    <3>2. c \in Nat /\ c = Len(body) - Len(buffered \o upstream)
          /\ \A j \in 1..Len(buffered \o upstream) : (buffered \o upstream)[j] = body[c + j]
      BY <2>1, <2>c DEF Reads, Position, Rest
    <3> QED
      BY <3>1, <3>2 DEF Ends
  <2>6. /\ m \in Nat /\ m - 1 \in Nat /\ l \in Seq(Symbols) /\ LineAhead(body, c, m - 1, l)
        /\ g \in Seq(Symbols) /\ Ends(body, g \o upstream, c + m)
    <3>1. m \in Nat
      BY <2>1, <2>3
    <3>2. Takes(body, upstream, c, m, SubSeq(buffered, 1, m - 1), SubSeq(buffered, m + 1, Len(buffered)))
      BY ONLY <2>1, <2>3, <2>5, <3>1, TakesLine
    <3> QED
      BY ONLY <2>4, <3>1, <3>2 DEF Takes
  <2>7. ReadUpto(body)[c].end = "open" /\ ReadUpto(body)[c].line = <<>> /\ ReadUpto(body)[c].text = Concat(Told)
    BY <1>1, <2>1, <2>c DEF Reads
  <2>8. c + ((m - 1) + 1) = c + m
    BY <2>5, <2>6
  <2>9. LineTaken(ReadUpto(body)[c], ReadUpto(body)[c + m], l)
    <3>1. PICK k \in Nat : k = m - 1
      BY <2>6
    <3>2. LineAhead(body, c, k, l)
      BY <2>6, <3>1
    <3>3. LineTaken(ReadUpto(body)[c], ReadUpto(body)[c + (k + 1)], l)
      BY ONLY <2>1, <2>5, <2>6, <2>7, <3>1, <3>2, ReadsLineAhead
    <3> QED
      BY ONLY <2>8, <3>1, <3>3
  <2>10. body' = body /\ upstream' = upstream /\ Told' = Told /\ Rest' = g \o upstream /\ Position' = c + m
    <3>1. body' = body /\ upstream' = upstream /\ Told' = Told
      BY <1>1 DEF ReaderOnly, Told, Shown
    <3>2. Rest' = g \o upstream
      BY <2>g, <3>1 DEF Rest
    <3>3. Len(g \o upstream) \in Nat /\ Len(body) \in Nat /\ c + m \in Nat
      BY ONLY <2>1, <2>5, <2>6, ConcatProperties
    <3>4. (c + m) + Len(g \o upstream) = Len(body)
      BY <2>6 DEF Ends
    <3>5. Position' = Len(body) - Len(g \o upstream)
      BY <3>1, <3>2 DEF Position
    <3>6. Position' = c + m
      BY ONLY <3>3, <3>4, <3>5
    <3> QED
      BY <3>1, <3>2, <3>6
  <2>11. /\ buffered' \in Seq(Symbols) /\ upstream' \in Seq(Symbols) /\ Position' \in Nat
         /\ \A j \in 1..Len(Rest') : Rest'[j] = body'[Position' + j]
    BY <2>1, <2>5, <2>6, <2>10, <2>g DEF Ends
  <2>12. /\ reader' = IF l = <<>> THEN "drain" ELSE IF l \in DOMAIN Json THEN "send" ELSE "fail"
         /\ pending' = IF l \in DOMAIN Json THEN Json[l] ELSE NoLine
    BY <1>2, <2>l
  <2>13. ASSUME reader' \in {"read", "drain", "send"} PROVE Reads'
    <3>1. CASE l = <<>>
      <4>1. reader' # "send"
        BY <2>12, <3>1
      <4> QED
        BY <2>7, <2>9, <2>10, <2>11, <3>1, <4>1 DEF Reads, LineTaken
    <3>2. CASE l # <<>> /\ l \in DOMAIN Json
      <4>1. reader' = "send" /\ pending' = Json[l]
        BY <2>12, <3>2
      <4>2. Json[l] \in [text : Seq(Texts), done : BOOLEAN]
        BY <3>2, InferenceAssumption
      <4> QED
        BY <2>7, <2>9, <2>10, <2>11, <3>2, <4>1, <4>2 DEF Reads, LineTaken
    <3> QED
      BY <2>12, <2>13, <3>1, <3>2
  <2>14. reader # "done" /\ reader' \in {"read", "drain", "send", "fail"} /\ UNCHANGED events
    BY <1>1, <2>12
  <2> QED
    BY <1>1, <1>3, <2>13, <2>14, ReaderHolds
<1> HIDE DEF i, line
<1> QED
  BY <1>1, <1>3, ReaderGoes

\* A symbol of text more: what an event that is sent adds to what was told.
LEMMA SendsEvent ==
  ASSUME InferenceInv, Streaming, Ongoing, ReaderOnly, NEW x \in EventSet, events' = Append(events, x)
  PROVE  /\ events' \in Seq(EventSet) /\ Shown' = Shown /\ Told' = Append(Told, x) /\ Told' \in Seq(Items)
         /\ Len(events') = Len(events) + 1 /\ Len(events) \in Nat
         /\ \A i \in 1..Len(events) : events'[i] = events[i]
         /\ events'[Len(events) + 1] = x
         /\ Concat(Told') = Concat(Told) \o x.text
         /\ x.text = <<>> => Concat(Told') = Concat(Told)
<1>1. events \in Seq(EventSet) /\ events \in Seq(Items) /\ Shown \in Seq(Items) /\ Told \in Seq(Items) /\ x \in Items
  BY StreamIs, ItemsAre
<1>2. Shown' = Shown
  BY DEF ReaderOnly, Shown
<1>3. /\ events' \in Seq(EventSet) /\ Len(events') = Len(events) + 1 /\ Len(events) \in Nat
      /\ \A i \in 1..Len(events) : events'[i] = events[i]
      /\ events'[Len(events) + 1] = x
  <2>1. PICK e : e = Append(events, x)
    OBVIOUS
  <2>2. /\ e \in Seq(EventSet) /\ Len(e) = Len(events) + 1 /\ \A i \in 1..Len(events) : e[i] = events[i]
        /\ e[Len(events) + 1] = x
    BY <1>1, <2>1, AppendProperties
  <2>3. Len(events) \in Nat
    BY <1>1
  <2>4. events' = e
    BY <2>1
  <2> QED
    BY ONLY <2>2, <2>3, <2>4, Zenon
<1>4. Shown \o Append(events, x) = Append(Shown \o events, x)
  BY <1>1, AppendMoves
<1>5. Told' = Append(Told, x)
  BY <1>2, <1>4 DEF Told
<1>6. Append(Told, x) \in Seq(Items) /\ Concat(Append(Told, x)) = Concat(Told) \o x.text
      /\ (x.text = <<>> => Concat(Append(Told, x)) = Concat(Told))
  BY <1>1, ConcatAppend
<1> QED
  BY <1>2, <1>3, <1>5, <1>6

\* All that was sent before a delta or an end was deltas.
LEMMA AllButLast ==
  ASSUME NEW S, NEW n \in Nat, NEW a, NEW b, \A i \in 1..n : a[i].e = "delta", \A i \in 1..n : b[i] = a[i]
  PROVE  \A i \in 1..n + 1 : i < n + 1 => b[i].e = "delta"
OBVIOUS

LEMMA SendDeltaStep ==
  ASSUME InferenceInv, SendDelta
  PROVE  InferenceInv'
<1>1. /\ reader = "send" /\ events' = Append(events, Delta(pending.text)) /\ ReaderOnly
      /\ pending' = [pending EXCEPT !.text = <<>>] /\ UNCHANGED <<upstream, buffered, reader>>
  BY DEF SendDelta
<1>2. ASSUME Streaming, Ongoing PROVE Ongoing'
  <2>1. Reads /\ pending \in [text : Seq(Texts), done : BOOLEAN]
    BY <1>1, <1>2 DEF Ongoing, Reads
  <2>x. PICK x \in EventSet : x = Delta(pending.text)
    BY <2>1 DEF EventSet, Delta
  <2>2. x.e = "delta" /\ x.text = pending.text
    BY <2>x DEF Delta
  <2>3. /\ events' \in Seq(EventSet) /\ Shown' = Shown
        /\ Len(events') = Len(events) + 1 /\ Len(events) \in Nat
        /\ \A i \in 1..Len(events) : events'[i] = events[i]
        /\ events'[Len(events) + 1] = x
        /\ Concat(Told') = Concat(Told) \o x.text
    <3>1. events' = Append(events, x)
      BY <1>1, <2>x
    <3> QED
      BY <1>1, <1>2, <3>1, SendsEvent
  <2>4. \A i \in 1..Len(events') : events'[i].e = "delta"
    <3>1. \A i \in 1..Len(events) : events[i].e = "delta"
      BY <1>1, <1>2 DEF Ongoing
    <3>2. PICK n \in Nat : n = Len(events)
      BY <2>3
    <3>3. ASSUME NEW i \in 1..n + 1 PROVE events'[i].e = "delta"
      <4>1. i \in 1..n \/ i = n + 1
        BY <3>2
      <4> QED
        BY ONLY <2>2, <2>3, <3>1, <3>2, <4>1
    <3> QED
      BY ONLY <2>3, <3>2, <3>3
  <2>5. pending' \in [text : Seq(Texts), done : BOOLEAN] /\ pending'.done = pending.done /\ pending'.text = <<>>
    <3>1. <<>> \in Seq(Texts)
      OBVIOUS
    <3> QED
      BY <1>1, <2>1, <3>1
  <2>6. body' = body /\ Rest' = Rest /\ Position' = Position
    BY <1>1 DEF ReaderOnly, Position, Rest
  <2>7. Concat(Told') \o pending'.text = Concat(Told')
    <3>1. Concat(Told) \in Seq(Texts) /\ pending.text \in Seq(Texts)
      BY <1>2, <2>1, StreamIs
    <3>2. Concat(Told') \in Seq(Texts)
      BY <2>2, <2>3, <3>1, ConcatProperties
    <3> QED
      BY <2>5, <3>2, ConcatEmptySeq
  <2>8. Reads'
    <3>1. /\ ReadUpto(body)[Position].text = Concat(Told) \o pending.text
          /\ ReadUpto(body)[Position].end = IF pending.done THEN "done" ELSE "open"
          /\ ReadUpto(body)[Position].line = <<>>
      BY <1>1, <2>1 DEF Reads
    <3>2. /\ ReadUpto(body')[Position'].text = Concat(Told') \o pending'.text
          /\ ReadUpto(body')[Position'].end = IF pending'.done THEN "done" ELSE "open"
          /\ ReadUpto(body')[Position'].line = <<>>
      BY <2>2, <2>3, <2>5, <2>6, <2>7, <3>1
    <3>3. /\ buffered' \in Seq(Symbols) /\ upstream' \in Seq(Symbols) /\ Position' \in Nat
          /\ \A i \in 1..Len(Rest') : Rest'[i] = body'[Position' + i]
      BY <1>1, <2>1, <2>6 DEF Reads
    <3> QED
      BY <1>1, <2>5, <3>2, <3>3 DEF Reads
  <2>9. \A i \in 1..Len(Shown') : Shown'[i].f \in {"role", "delta"}
    BY <1>2, <2>3 DEF Ongoing
  <2> QED
    BY <1>1, <2>3, <2>4, <2>8, <2>9 DEF Ongoing
<1> QED
  BY <1>1, <1>2, ReaderGoes

\* The engine's task ends with the event that says how.
LEMMA EndsWith ==
  ASSUME InferenceInv, Streaming, Ongoing, ReaderOnly, reader # "done", reader' = "done",
         NEW x \in EventSet, events' = Append(events, x), x.e \in {"done", "err"}, x.text = <<>>,
         x.e = "done" => Answer.whole /\ Concat(Told) = Answer.text
  PROVE  Ongoing'
<1>1. /\ events' \in Seq(EventSet) /\ Shown' = Shown
      /\ Len(events') = Len(events) + 1 /\ Len(events) \in Nat
      /\ \A i \in 1..Len(events) : events'[i] = events[i]
      /\ events'[Len(events) + 1] = x
      /\ Concat(Told') = Concat(Told)
  BY SendsEvent
<1>2. \A i \in 1..Len(events) : events[i].e = "delta"
  BY DEF Ongoing
<1>3. \A i \in 1..Len(events') : i < Len(events') => events'[i].e = "delta"
  <2>1. PICK n \in Nat : n = Len(events)
    BY <1>1
  <2>2. \A i \in 1..n + 1 : i < n + 1 => i \in 1..n
    OBVIOUS
  <2> QED
    BY ONLY <1>1, <1>2, <2>1, <2>2
<1>4. Answer' = Answer
  BY DEF ReaderOnly, Answer
<1>5. Ended'
  <2>1. Len(events') > 0 /\ events'[Len(events')] = x
    BY ONLY <1>1
  <2>2. events'[Len(events')].e \in {"done", "err"} /\ events'[Len(events')].text = <<>>
    BY <2>1
  <2>3. events'[Len(events')].e = "done" => Answer'.whole /\ Concat(Told') = Answer'.text
    BY <1>1, <1>4, <2>1
  <2> QED
    BY <1>3, <2>1, <2>2, <2>3 DEF Ended
<1>6. \A i \in 1..Len(Shown') : Shown'[i].f \in {"role", "delta"}
  BY <1>1 DEF Ongoing
<1> QED
  BY <1>1, <1>5, <1>6 DEF Ongoing

LEMMA EventsAre ==
  /\ EDone \in EventSet /\ EDone.e = "done" /\ EDone.text = <<>>
  /\ EErr \in EventSet /\ EErr.e = "err" /\ EErr.text = <<>>
<1>1. <<>> \in Seq(Texts)
  OBVIOUS
<1> QED
  BY <1>1 DEF EventSet, EDone, EErr

LEMMA SendErrorStep ==
  ASSUME InferenceInv, SendError
  PROVE  InferenceInv'
<1>1. reader = "fail" /\ reader' = "done" /\ events' = Append(events, EErr) /\ ReaderOnly
  BY DEF SendError
<1>2. ASSUME Streaming, Ongoing PROVE Ongoing'
  <2>1. EErr \in EventSet /\ EErr.e \in {"done", "err"} /\ EErr.text = <<>> /\ EErr.e # "done"
    BY EventsAre
  <2> QED
    BY <1>1, <1>2, <2>1, EndsWith
<1> QED
  BY <1>1, <1>2, ReaderGoes

LEMMA SendDoneStep ==
  ASSUME InferenceInv, SendDone
  PROVE  InferenceInv'
<1>1. /\ reader = "send" /\ pending.text = <<>> /\ UNCHANGED <<upstream, buffered, pending>> /\ ReaderOnly
      /\ \/ pending.done /\ events' = Append(events, EDone) /\ reader' = "done"
         \/ ~pending.done /\ reader' = "drain" /\ UNCHANGED events
  BY DEF SendDone
<1>2. ASSUME Streaming, Ongoing PROVE Ongoing'
  <2>1. Reads /\ body \in Seq(Symbols) /\ Concat(Told) \in Seq(Texts)
    BY <1>1, <1>2, StreamIs DEF Ongoing
  <2>2. Concat(Told) \o pending.text = Concat(Told)
    BY <1>1, <2>1, ConcatEmptySeq
  <2>c. PICK c : c = Position
    OBVIOUS
  <2>3. /\ ReadUpto(body)[c].text = Concat(Told) /\ ReadUpto(body)[c].line = <<>>
        /\ ReadUpto(body)[c].end = IF pending.done THEN "done" ELSE "open"
    BY <1>1, <2>1, <2>2, <2>c DEF Reads
  <2>4. c \in Nat /\ c <= Len(body)
    <3>1. buffered \o upstream \in Seq(Symbols)
      BY <2>1, ConcatProperties DEF Reads
    <3>2. Len(Rest) \in Nat /\ Len(body) \in Nat
      BY <2>1, <3>1 DEF Rest
    <3> QED
      BY <2>1, <2>c, <3>2 DEF Reads, Position
  <2>5. CASE pending.done /\ events' = Append(events, EDone) /\ reader' = "done"
    <3>1. ReadUpto(body)[c].end = "done"
      BY <2>3, <2>5
    <3>2. ReadUpto(body)[Len(body)] = ReadUpto(body)[c]
      <4>1. ReadUpto(body)[c].end # "open"
        BY <3>1
      <4> QED
        BY ONLY <2>1, <2>4, <4>1, ReadsNoMore
    <3>3. Answer.whole /\ Concat(Told) = Answer.text
      <4>1. body \in Bodies
        BY DEF InferenceInv
      <4> QED
        BY <2>3, <3>1, <3>2, <4>1, AnswerIs
    <3>4. EDone \in EventSet /\ EDone.e \in {"done", "err"} /\ EDone.text = <<>>
      BY EventsAre
    <3> QED
      BY <1>1, <1>2, <2>5, <3>3, <3>4, EndsWith
  <2>6. CASE ~pending.done /\ reader' = "drain" /\ UNCHANGED events
    <3>1. body' = body /\ Told' = Told /\ Rest' = Rest /\ Position' = c
      BY <1>1, <2>6, <2>c DEF ReaderOnly, Told, Shown, Position, Rest
    <3>2. /\ ReadUpto(body')[Position'].line = <<>> /\ ReadUpto(body')[Position'].end = "open"
          /\ ReadUpto(body')[Position'].text = Concat(Told')
      BY <2>3, <2>6, <3>1
    <3>3. /\ buffered' \in Seq(Symbols) /\ upstream' \in Seq(Symbols) /\ Position' \in Nat
          /\ \A i \in 1..Len(Rest') : Rest'[i] = body'[Position' + i]
      BY <1>1, <2>1, <2>c, <3>1 DEF Reads
    <3>4. Reads'
      BY <2>6, <3>2, <3>3 DEF Reads
    <3> QED
      BY <1>1, <1>2, <2>6, <3>4, ReaderHolds
  <2> QED
    BY <1>1, <2>5, <2>6
<1> QED
  BY <1>1, <1>2, ReaderGoes

LEMMA ReaderStep ==
  ASSUME InferenceInv, Reader
  PROVE  InferenceInv'
BY ReadChunkStep, BodyEndsStep, DrainLineStep, DrainedStep, SendDeltaStep, SendDoneStep,
   SendErrorStep, SendFailsStep DEF Reader

\* A frame that only moves on changes nothing of what is shown and told.
LEMMA StaysOngoing ==
  ASSUME Ongoing, Shown' = Shown, UNCHANGED <<body, events, reader, buffered, upstream, pending>>
  PROVE  Ongoing'
<1>1. Told' = Told /\ Rest' = Rest /\ Position' = Position /\ Answer' = Answer
  BY DEF Told, Rest, Position, Answer
<1>2. Reads => Reads'
  BY <1>1 DEF Reads
<1>3. Ended => Ended'
  BY <1>1 DEF Ended
<1> QED
  BY <1>2, <1>3 DEF Ongoing

\* A step of the endpoint's task only has to keep what the client is shown.
LEMMA RelayGoes ==
  ASSUME InferenceInv, RelayOnly, relay.on, UNCHANGED seen,
         client = "reading" /\ Streaming => Streaming'
  PROVE  InferenceInv'
<1>1. UNCHANGED <<ask, phase, upstream, body, buffered, reader, pending, client>>
  BY DEF RelayOnly
<1>2. phase = "streaming"
  BY DEF InferenceInv, Unbegun, Off
<1>3. Answer' = Answer
  BY <1>1 DEF Answer
<1> QED
  BY <1>1, <1>2, <1>3 DEF InferenceInv

LEMMA SendFrameStep ==
  ASSUME InferenceInv, SendFrame
  PROVE  InferenceInv'
<1>1. /\ relay.on /\ relay.queue # <<>> /\ frames' = Append(frames, Head(relay.queue))
      /\ relay' = [relay EXCEPT !.queue = Tail(relay.queue)] /\ UNCHANGED <<events, seen>> /\ RelayOnly
  BY DEF SendFrame
<1>2. ASSUME Streaming PROVE Streaming'
  <2>1. /\ seen \in Seq(FrameSet) /\ frames \in Seq(FrameSet) /\ relay.queue \in Seq(FrameSet)
        /\ relay \in [on : BOOLEAN, queue : Seq(FrameSet), last : BOOLEAN]
    BY <1>2 DEF Streaming
  <2>q. PICK q \in Seq(FrameSet) : q = relay.queue
    BY <2>1
  <2>h. PICK h \in FrameSet : h = Head(q)
    BY <1>1, <2>q, HeadMoves
  <2>t. PICK t \in Seq(FrameSet) : t = Tail(q)
    BY <1>1, <2>q, HeadMoves
  <2>2. seen \o frames \in Seq(FrameSet)
    BY <2>1, ConcatProperties
  <2>3. Append(frames, h) \in Seq(FrameSet) /\ seen \o Append(frames, h) = Append(seen \o frames, h)
    BY <2>1, AppendMoves
  <2>4. Append(seen \o frames, Head(q)) \o Tail(q) = (seen \o frames) \o q
    <3>1. PICK w \in Seq(FrameSet) : w = seen \o frames
      BY <2>2
    <3>2. Append(w, Head(q)) \o Tail(q) = w \o q
      <4>1. q # <<>>
        BY <1>1, <2>q
      <4>2. w \in Seq(FrameSet) /\ q \in Seq(FrameSet)
        BY <3>1, <2>q
      <4> QED
        BY ONLY <4>1, <4>2, HeadMoves
    <3> QED
      BY ONLY <3>1, <3>2
  <2>5. frames' = Append(frames, h) /\ relay' = [relay EXCEPT !.queue = t]
    BY <1>1, <2>q, <2>h, <2>t
  <2>6. /\ relay'.queue = t /\ relay'.on = relay.on /\ relay'.last = relay.last
        /\ relay' \in [on : BOOLEAN, queue : Seq(FrameSet), last : BOOLEAN]
    BY <2>1, <2>5
  <2>7. Shown' = Shown
    <3>1. Shown' = (seen \o Append(frames, h)) \o t
      BY <1>1, <2>5, <2>6 DEF Shown
    <3>2. Shown = (seen \o frames) \o q
      BY <2>q DEF Shown
    <3> QED
      BY <2>3, <2>4, <2>h, <2>t, <3>1, <3>2
  <2>8. UNCHANGED <<body, events, reader, buffered, upstream, pending>> /\ Answer' = Answer
    BY <1>1 DEF RelayOnly, Answer
  <2>9. relay'.on /\ ~relay'.last => Ongoing'
    BY <1>2, <2>6, <2>7, <2>8, StaysOngoing DEF Streaming
  <2>10. Clean(Shown', Answer'.whole, Answer'.text)
    BY <1>2, <2>7, <2>8 DEF Streaming
  <2>11. seen' \in Seq(FrameSet) /\ frames' \in Seq(FrameSet)
    BY <1>1, <2>1, <2>3, <2>5
  <2> QED
    BY <2>6, <2>9, <2>10, <2>11 DEF Streaming
<1> QED
  BY <1>1, <1>2, RelayGoes

LEMMA RelayReturnsStep ==
  ASSUME InferenceInv, RelayReturns
  PROVE  InferenceInv'
<1>1. /\ relay.on /\ (relay.queue = <<>> \/ client = "gone")
      /\ relay' = Off /\ UNCHANGED <<events, frames, seen>> /\ RelayOnly
  BY DEF RelayReturns
<1>2. ASSUME client = "reading", Streaming PROVE Streaming'
  <2>1. <<>> \in Seq(FrameSet)
    OBVIOUS
  <2>2. /\ relay'.queue = <<>> /\ relay'.on = FALSE
        /\ relay' \in [on : BOOLEAN, queue : Seq(FrameSet), last : BOOLEAN]
    BY <1>1, <2>1 DEF Off
  <2>3. Shown' = Shown /\ Answer' = Answer
    BY <1>1, <1>2, <2>2 DEF Shown, Answer, RelayOnly
  <2> QED
    BY <1>1, <1>2, <2>2, <2>3 DEF Streaming
<1> QED
  BY <1>1, <1>2, RelayGoes

LEMMA ClientReadsStep ==
  ASSUME InferenceInv, ClientReads
  PROVE  InferenceInv'
<1>1. /\ client = "reading" /\ frames # <<>> /\ seen' = Append(seen, Head(frames)) /\ frames' = Tail(frames)
      /\ UNCHANGED <<ask, phase, upstream, body, buffered, reader, pending, events, relay, client>>
  BY DEF ClientReads
<1>2. phase = "streaming"
  BY <1>1 DEF InferenceInv, Unbegun
<1>3. Streaming
  BY <1>1, <1>2 DEF InferenceInv
<1>4. seen \in Seq(FrameSet) /\ frames \in Seq(FrameSet) /\ relay.queue \in Seq(FrameSet)
  BY <1>3 DEF Streaming
<1>5. /\ seen' \in Seq(FrameSet) /\ frames' \in Seq(FrameSet)
      /\ seen' \o frames' = seen \o frames
  <2>1. /\ Append(seen, Head(frames)) \in Seq(FrameSet) /\ Tail(frames) \in Seq(FrameSet)
        /\ Append(seen, Head(frames)) \o Tail(frames) = seen \o frames
    BY <1>1, <1>4, HeadMoves
  <2> QED
    BY <1>1, <2>1
<1>6. Shown' = Shown /\ Answer' = Answer
  BY <1>1, <1>5 DEF Shown, Answer
<1>7. relay'.on /\ ~relay'.last => Ongoing'
  BY <1>1, <1>3, <1>6, StaysOngoing DEF Streaming
<1>8. Clean(Shown', Answer'.whole, Answer'.text)
  BY <1>3, <1>6 DEF Streaming
<1>9. Streaming'
  BY <1>1, <1>3, <1>5, <1>7, <1>8 DEF Streaming
<1>10. Clean(seen', Answer'.whole, Answer'.text)
  <2>a. PICK a \in Seq(FrameSet) : a = seen'
    BY <1>5
  <2>b. PICK b \in Seq(FrameSet) : b = frames'
    BY <1>5
  <2>c. PICK c \in Seq(FrameSet) : c = relay.queue
    BY <1>4
  <2>1. a \o b \in Seq(FrameSet) /\ Shown' = (a \o b) \o c
    BY <1>1, <2>a, <2>b, <2>c, ConcatProperties DEF Shown
  <2>w. PICK w : w = Answer'.whole
    OBVIOUS
  <2>t. PICK t : t = Answer'.text
    OBVIOUS
  <2>2. Clean((a \o b) \o c, w, t)
    BY <1>8, <2>1, <2>w, <2>t
  <2>3. Clean(a \o b, w, t)
    BY ONLY <2>1, <2>2, <2>c, CleanPrefix
  <2>4. Clean(a, w, t)
    BY ONLY <2>3, <2>a, <2>b, CleanPrefix
  <2> QED
    BY <2>4, <2>a, <2>w, <2>t
<1>11. (body \in Bodies)' /\ phase' = "streaming"
  BY <1>1, <1>2 DEF InferenceInv
<1> QED
  BY <1>5, <1>9, <1>10, <1>11 DEF InferenceInv

LEMMA ClientLeavesStep ==
  ASSUME InferenceInv, ClientLeaves
  PROVE  InferenceInv'
<1>1. /\ relay.on /\ client' = "gone"
      /\ UNCHANGED <<ask, phase, upstream, body, buffered, reader, pending, events, relay, seen>>
  BY DEF ClientLeaves
<1>2. phase = "streaming"
  BY <1>1 DEF InferenceInv, Unbegun, Off
<1>3. Answer' = Answer
  BY <1>1 DEF Answer
<1> QED
  BY <1>1, <1>2, <1>3 DEF InferenceInv

LEMMA InferenceStays ==
  ASSUME InferenceInv, UNCHANGED inferenceVars
  PROVE  InferenceInv'
<1>1. UNCHANGED <<ask, phase, upstream, body, buffered, reader, pending, events, relay, frames, seen, client>>
  BY DEF inferenceVars
<1>2. Answer' = Answer /\ Shown' = Shown
  BY <1>1 DEF Answer, Shown
<1>3. Ongoing => Ongoing'
  BY <1>1, <1>2, StaysOngoing
<1>4. Unbegun => Unbegun'
  BY <1>1 DEF Unbegun
<1>5. Streaming => Streaming'
  BY <1>1, <1>2, <1>3 DEF Streaming
<1> QED
  BY <1>1, <1>2, <1>4, <1>5 DEF InferenceInv

\* The frames that close a stream.
LEMMA StopFramesAre ==
  /\ StopFrames \in Seq(FrameSet) /\ Len(StopFrames) > 0
  /\ StopFrames[1].f = "stop" /\ StopFrames[1].text = <<>>
  /\ \A j \in 1..Len(StopFrames) : j > 1 => StopFrames[j].f \in {"usage", "[DONE]"}
<1>e. <<>> \in Seq(Texts)
  OBVIOUS
<1>s. PICK s \in FrameSet : s = Frame("stop", <<>>)
  BY <1>e DEF FrameSet, Frame
<1>u. PICK u \in FrameSet : u = Frame("usage", <<>>)
  BY <1>e DEF FrameSet, Frame
<1>d. PICK d \in FrameSet : d = Frame("[DONE]", <<>>)
  BY <1>e DEF FrameSet, Frame
<1>1. s.f = "stop" /\ s.text = <<>> /\ u.f = "usage" /\ d.f = "[DONE]"
  BY <1>s, <1>u, <1>d DEF Frame
<1>2. <<s>> \in Seq(FrameSet) /\ <<u>> \in Seq(FrameSet) /\ <<d>> \in Seq(FrameSet) /\ <<>> \in Seq(FrameSet)
  OBVIOUS
<1>p. PICK p \in Seq(FrameSet) : p = <<s>>
  BY <1>2
<1>q. PICK q \in Seq(FrameSet) : q = <<u>>
  BY <1>2
<1>r. PICK r \in Seq(FrameSet) : r = <<d>>
  BY <1>2
<1>z. PICK z \in Seq(FrameSet) : z = <<>>
  BY <1>2
<1>m. PICK m \in Seq(FrameSet) : m = (IF ask.usage THEN q ELSE z)
  OBVIOUS
<1>3. /\ Len(p) = 1 /\ p[1] = s /\ Len(q) = 1 /\ q[1] = u /\ Len(r) = 1 /\ r[1] = d /\ Len(z) = 0
  BY <1>p, <1>q, <1>r, <1>z
<1>4. StopFrames = (p \o m) \o r \/ StopFrames = p
  BY <1>s, <1>u, <1>d, <1>p, <1>q, <1>r, <1>z, <1>m DEF StopFrames
<1>5. /\ p \o m \in Seq(FrameSet) /\ Len(p \o m) = Len(p) + Len(m)
      /\ \A j \in 1..Len(p) + Len(m) : (p \o m)[j] = IF j <= Len(p) THEN p[j] ELSE m[j - Len(p)]
  BY ConcatProperties
<1>6. Len(m) \in {0, 1} /\ (Len(m) = 1 => m[1] = u)
  BY <1>3, <1>m
<1>w. PICK w \in Seq(FrameSet) : w = p \o m
  BY <1>5
<1>7. Len(w) = 1 + Len(m) /\ w[1] = s /\ (Len(m) = 1 => w[2] = u)
  BY ONLY <1>3, <1>5, <1>6, <1>w
<1>8. /\ w \o r \in Seq(FrameSet) /\ Len(w \o r) = Len(w) + Len(r)
      /\ \A j \in 1..Len(w) + Len(r) : (w \o r)[j] = IF j <= Len(w) THEN w[j] ELSE r[j - Len(w)]
  BY ConcatProperties
<1>x. PICK x : x = w \o r
  OBVIOUS
<1>9. /\ x \in Seq(FrameSet) /\ Len(x) > 0 /\ x[1] = s
      /\ \A j \in 1..Len(x) : j > 1 => x[j] = u \/ x[j] = d
  <2>1. CASE Len(m) = 0
    BY ONLY <1>3, <1>7, <1>8, <1>x, <2>1
  <2>2. CASE Len(m) = 1
    <3>1. Len(x) = 3 /\ x[1] = s /\ x[2] = u /\ x[3] = d /\ x \in Seq(FrameSet)
      BY ONLY <1>3, <1>7, <1>8, <1>x, <2>2
    <3>2. \A j \in 1..3 : j > 1 => j = 2 \/ j = 3
      OBVIOUS
    <3> QED
      BY ONLY <3>1, <3>2
  <2> QED
    BY <1>6, <2>1, <2>2
<1>10. CASE StopFrames = x
  BY <1>1, <1>9, <1>10
<1>11. CASE StopFrames = p
  <2>1. \A j \in 1..Len(p) : ~(j > 1)
    BY <1>3
  <2>2. p \in Seq(FrameSet) /\ Len(p) > 0 /\ p[1].f = "stop" /\ p[1].text = <<>>
    BY <1>1, <1>3
  <2>3. \A j \in 1..Len(p) : j > 1 => p[j].f \in {"usage", "[DONE]"}
    BY <2>1
  <2> QED
    BY ONLY <1>11, <2>2, <2>3, Zenon
<1> QED
  BY <1>4, <1>10, <1>11, <1>w, <1>x

LEMMA ErrorFramesAre ==
  /\ ErrorFrames \in Seq(FrameSet)
  /\ \A j \in 1..Len(ErrorFrames) : ErrorFrames[j].f # "stop"
<1>e. <<>> \in Seq(Texts)
  OBVIOUS
<1>s. PICK s \in FrameSet : s = Frame("error", <<>>)
  BY <1>e DEF FrameSet, Frame
<1>d. PICK d \in FrameSet : d = Frame("[DONE]", <<>>)
  BY <1>e DEF FrameSet, Frame
<1>1. s.f = "error" /\ d.f = "[DONE]"
  BY <1>s, <1>d DEF Frame
<1>2. <<s>> \in Seq(FrameSet) /\ <<s, d>> \in Seq(FrameSet)
  OBVIOUS
<1>p. PICK p \in Seq(FrameSet) : p = <<s>>
  BY <1>2
<1>q. PICK q \in Seq(FrameSet) : q = <<s, d>>
  BY <1>2
<1>3. Len(p) = 1 /\ p[1] = s
  BY <1>p
<1>4. Len(q) = 2 /\ q[1] = s /\ q[2] = d
  BY <1>q
<1>5. ErrorFrames = p \/ ErrorFrames = q
  BY <1>s, <1>d, <1>p, <1>q DEF ErrorFrames
<1>6. \A j \in 1..Len(p) : p[j].f # "stop"
  BY <1>1, <1>3
<1>7. \A j \in 1..Len(q) : q[j].f # "stop"
  <2>1. \A j \in 1..2 : j = 1 \/ j = 2
    OBVIOUS
  <2> QED
    BY ONLY <1>1, <1>4, <2>1
<1> QED
  BY <1>5, <1>6, <1>7

\* The next event of a stream goes on, or closes it.
LEMMA NextEventIs ==
  ASSUME InferenceInv, NextEvent, Streaming
  PROVE  /\ Ongoing /\ events # <<>> /\ Head(events) \in EventSet /\ Tail(events) \in Seq(EventSet)
         /\ Head(events) = events[1] /\ Len(events) \in Nat \ {0}
         /\ Len(Tail(events)) = Len(events) - 1 /\ \A i \in 1..Len(events) - 1 : Tail(events)[i] = events[i + 1]
         /\ relay' = IF Head(events).e = "delta"
                     THEN [relay EXCEPT !.queue = <<Frame("delta", Head(events).text)>>]
                     ELSE [relay EXCEPT !.queue = FramesFor(Head(events)), !.last = TRUE]
         /\ events' = Tail(events)
<1>1. /\ relay.on /\ ~relay.last /\ (events # <<>> \/ reader = "done")
  BY DEF NextEvent
<1>2. Ongoing /\ events \in Seq(EventSet)
  BY <1>1 DEF Streaming, Ongoing
<1>3. events # <<>>
  <2> SUFFICES ASSUME events = <<>> PROVE FALSE
    OBVIOUS
  <2>1. Len(events) > 0
    BY <1>1, <1>2 DEF Ongoing, Ended
  <2>2. Len(<<>>) = 0
    OBVIOUS
  <2>3. Len(events) = 0
    BY <2>2
  <2> QED
    BY <2>1, <2>3
<1>4. /\ Head(events) \in EventSet /\ Tail(events) \in Seq(EventSet) /\ Head(events) = events[1]
      /\ Len(events) \in Nat \ {0}
      /\ Len(Tail(events)) = Len(events) - 1 /\ \A i \in 1..Len(events) - 1 : Tail(events)[i] = events[i + 1]
  BY <1>2, <1>3
<1>5. /\ relay' = IF Head(events).e = "delta"
                  THEN [relay EXCEPT !.queue = <<Frame("delta", Head(events).text)>>]
                  ELSE [relay EXCEPT !.queue = FramesFor(Head(events)), !.last = TRUE]
      /\ events' = Tail(events)
  BY <1>3 DEF NextEvent
<1> QED
  BY <1>2, <1>3, <1>4, <1>5

\* Shown and told without the queue, when it is empty.
LEMMA NothingQueued ==
  ASSUME InferenceInv, Streaming, Ongoing, relay.queue = <<>>
  PROVE  seen \o frames \in Seq(FrameSet) /\ Shown = seen \o frames
<1>1. seen \o frames \in Seq(FrameSet)
  BY StreamIs
<1>2. (seen \o frames) \o <<>> = seen \o frames
  BY <1>1, ConcatEmptySeq
<1>3. Shown = (seen \o frames) \o <<>>
  BY DEF Shown
<1> QED
  BY <1>1, <1>2, <1>3

\* A delta becomes a frame with its text.
LEMMA DeltaStep ==
  ASSUME InferenceInv, NextEvent, Streaming, Head(events).e = "delta"
  PROVE  Streaming'
<1>1. /\ relay.on /\ relay.queue = <<>> /\ ~relay.last /\ UNCHANGED <<frames, seen>> /\ RelayOnly
  BY DEF NextEvent
<1>2. /\ Ongoing /\ Head(events) \in EventSet /\ Tail(events) \in Seq(EventSet)
      /\ Head(events) = events[1] /\ Len(events) \in Nat \ {0} /\ events # <<>>
      /\ Len(Tail(events)) = Len(events) - 1 /\ \A i \in 1..Len(events) - 1 : Tail(events)[i] = events[i + 1]
      /\ relay' = [relay EXCEPT !.queue = <<Frame("delta", Head(events).text)>>]
      /\ events' = Tail(events)
  BY NextEventIs
<1>h. PICK h \in EventSet : h = Head(events)
  BY <1>2
<1>v. PICK v \in Seq(EventSet) : v = Tail(events)
  BY <1>2
<1>d. PICK d \in FrameSet : d = Frame("delta", h.text)
  BY DEF FrameSet, EventSet, Frame
<1>3. d.f = "delta" /\ d.text = h.text /\ h \in Items /\ d \in Items
  BY <1>d, ItemsAre DEF Frame
<1>q. PICK q \in Seq(FrameSet) : q = <<d>>
  <2>1. <<d>> \in Seq(FrameSet)
    OBVIOUS
  <2> QED
    BY <2>1
<1>4. Len(q) = 1 /\ q[1] = d
  BY <1>q
<1>5. /\ relay'.queue = q /\ relay'.on = relay.on /\ relay'.last = relay.last
      /\ relay' \in [on : BOOLEAN, queue : Seq(FrameSet), last : BOOLEAN]
  <2>1. relay \in [on : BOOLEAN, queue : Seq(FrameSet), last : BOOLEAN]
    BY DEF Streaming
  <2>2. relay' = [relay EXCEPT !.queue = q]
    BY <1>2, <1>h, <1>d, <1>q
  <2> QED
    BY <2>1, <2>2
<1>s. PICK s \in Seq(FrameSet) : s = seen \o frames
  BY <1>2, StreamIs
<1>6. Shown = s
  BY <1>1, <1>2, <1>s, NothingQueued
<1>7. Shown' = Append(s, d)
  <2>1. Shown' = s \o <<d>>
    BY <1>1, <1>5, <1>q, <1>s DEF Shown
  <2>2. Append(s, d) = s \o <<d>>
    BY AppendIsConcat
  <2> QED
    BY <2>1, <2>2
<1>a. PICK a \in Seq(FrameSet) : a = Append(s, d)
  BY ONLY <1>s, <1>d, AppendProperties
<1>8. Len(a) = Len(s) + 1 /\ (\A i \in 1..Len(s) : a[i] = s[i]) /\ a[Len(s) + 1] = d
  BY <1>a, AppendProperties
<1>9. \A i \in 1..Len(a) : a[i].f \in {"role", "delta"}
  <2>1. \A i \in 1..Len(s) : s[i].f \in {"role", "delta"}
    BY <1>2, <1>6 DEF Ongoing
  <2>2. ASSUME NEW i \in 1..Len(a) PROVE a[i].f \in {"role", "delta"}
    <3>1. Len(s) \in Nat
      OBVIOUS
    <3>2. i \in 1..Len(s) \/ i = Len(s) + 1
      BY <1>8, <3>1
    <3> QED
      BY <1>3, <1>8, <2>1, <3>2
  <2> QED
    BY <2>2
<1>10. Concat(Told') = Concat(Told)
  <2>i. s \in Seq(Items) /\ v \in Seq(Items) /\ events \in Seq(Items) /\ a \in Seq(Items)
    BY <1>2, <1>v, ItemsAre, StreamIs
  <2>b. PICK b \in Seq(Items) : b = Append(s, h)
    BY <1>3, <2>i, AppendProperties
  <2>1. Told = b \o v
    <3>1. Append(s, Head(events)) \o Tail(events) = s \o events
      BY <1>2, <2>i, HeadMoves
    <3> QED
      BY <1>6, <1>h, <1>v, <2>b, <3>1 DEF Told
  <2>2. Told' = a \o v
    BY <1>2, <1>7, <1>a, <1>v DEF Told
  <2>3. Len(b) = Len(s) + 1 /\ (\A i \in 1..Len(s) : b[i] = s[i]) /\ b[Len(s) + 1] = h
    BY <1>3, <2>i, <2>b, AppendProperties
  <2>4. Len(a) = Len(b) /\ \A i \in 1..Len(a) : a[i].text = b[i].text
    <3>1. PICK n \in Nat : n = Len(s)
      OBVIOUS
    <3>2. ASSUME NEW i \in 1..Len(a) PROVE a[i].text = b[i].text
      <4>1. i \in 1..n \/ i = n + 1
        BY ONLY <1>8, <3>1, i \in 1..Len(a)
      <4> QED
        BY ONLY <1>3, <1>8, <2>3, <3>1, <4>1
    <3> QED
      BY <1>8, <2>3, <3>2
  <2>5. /\ a \o v \in Seq(Items) /\ Len(a \o v) = Len(a) + Len(v)
        /\ \A i \in 1..Len(a) + Len(v) : (a \o v)[i] = IF i <= Len(a) THEN a[i] ELSE v[i - Len(a)]
    BY ONLY <2>i, ConcatProperties
  <2>6. /\ b \o v \in Seq(Items) /\ Len(b \o v) = Len(b) + Len(v)
        /\ \A i \in 1..Len(b) + Len(v) : (b \o v)[i] = IF i <= Len(b) THEN b[i] ELSE v[i - Len(b)]
    BY <2>i, ConcatProperties
  <2>7. \A i \in 1..Len(b \o v) : (b \o v)[i].text = (a \o v)[i].text
    <3>0. PICK n \in Nat, m \in Nat : n = Len(a) /\ m = Len(v)
      BY <2>i
    <3>1. ASSUME NEW i \in 1..Len(b \o v) PROVE (b \o v)[i].text = (a \o v)[i].text
      <4>1. i \in 1..n + m
        BY ONLY <2>4, <2>6, <3>0, i \in 1..Len(b \o v)
      <4>2. CASE i <= n
        <5>1. i \in 1..n
          BY <4>1, <4>2
        <5> QED
          BY ONLY <2>4, <2>5, <2>6, <3>0, <4>1, <4>2, <5>1
      <4>3. CASE ~(i <= n)
        BY ONLY <2>4, <2>5, <2>6, <3>0, <4>1, <4>3
      <4> QED
        BY <4>2, <4>3
    <3> QED
      BY <3>1
  <2>8. Concat(a \o v) = Concat(b \o v)
    <3>1. Len(b \o v) = Len(a \o v)
      BY ONLY <2>4, <2>5, <2>6
    <3>2. PICK x \in Seq(Items) : x = b \o v
      BY <2>6
    <3>3. PICK y \in Seq(Items) : y = a \o v
      BY <2>5
    <3>4. Len(x) = Len(y) /\ \A i \in 1..Len(x) : x[i].text = y[i].text
      BY ONLY <2>7, <3>1, <3>2, <3>3
    <3>5. Concat(y) = Concat(x)
      BY ONLY <3>2, <3>3, <3>4, ConcatSame
    <3> QED
      BY ONLY <3>2, <3>3, <3>5
  <2> QED
    BY <2>1, <2>2, <2>8
<1>11. body' = body /\ Answer' = Answer /\ Rest' = Rest /\ Position' = Position
  BY <1>1 DEF RelayOnly, Answer, Rest, Position
<1>12. \A i \in 1..Len(v) : v[i] = events[i + 1]
  BY <1>2, <1>v
<1>13. Ended => Ended'
  <2> SUFFICES ASSUME Ended PROVE Ended'
    OBVIOUS
  <2>n. PICK n \in Nat : n = Len(v)
    OBVIOUS
  <2>1. n + 1 = Len(events)
    BY <1>2, <1>v, <2>n
  <2>2. /\ \A i \in 1..n + 1 : i < n + 1 => events[i].e = "delta"
        /\ events[n + 1].e \in {"done", "err"} /\ events[n + 1].text = <<>>
        /\ events[n + 1].e = "done" => Answer.whole /\ Concat(Told) = Answer.text
    BY <2>1 DEF Ended
  <2>3. n > 0
    <3>1. events[1].e = "delta"
      BY <1>2
    <3>2. n # 0
      BY <2>2, <3>1
    <3> QED
      BY ONLY <2>n, <3>2
  <2>4. v[n] = events[n + 1] /\ \A i \in 1..n : v[i] = events[i + 1]
    BY ONLY <1>12, <2>n, <2>3
  <2>5. \A i \in 1..n : i < n => v[i].e = "delta"
    <3>1. \A i \in 1..n : i < n => i + 1 \in 1..n + 1 /\ i + 1 < n + 1
      OBVIOUS
    <3> QED
      BY ONLY <2>2, <2>4, <3>1
  <2>6. /\ v[n].e \in {"done", "err"} /\ v[n].text = <<>>
        /\ v[n].e = "done" => Answer.whole /\ Concat(Told) = Answer.text
    BY <2>2, <2>4
  <2>7. events' = v /\ Len(events') = n
    BY <1>2, <1>v, <2>n
  <2> QED
    BY <1>10, <1>11, <2>3, <2>5, <2>6, <2>7 DEF Ended
<1>14. Reads => Reads'
  BY <1>1, <1>10, <1>11 DEF Reads, RelayOnly
<1>15. (\A i \in 1..Len(events) : events[i].e = "delta") => \A i \in 1..Len(v) : v[i].e = "delta"
  <2>1. \A i \in 1..Len(v) : i + 1 \in 1..Len(events)
    BY <1>2, <1>v
  <2> QED
    BY <1>12, <2>1
<1>16. Ongoing'
  <2>1. reader' = reader /\ events' = v
    BY <1>1, <1>2, <1>v DEF RelayOnly
  <2>2. \A i \in 1..Len(Shown') : Shown'[i].f \in {"role", "delta"}
    BY <1>7, <1>9, <1>a
  <2> QED
    BY <1>2, <1>13, <1>14, <1>15, <2>1, <2>2 DEF Ongoing
<1>17. Clean(Shown', Answer'.whole, Answer'.text)
  <2>1. Clean(a, Answer'.whole, Answer'.text)
    BY <1>9, CleanNothing
  <2> QED
    BY <1>7, <1>a, <2>1
<1> QED
  BY <1>1, <1>5, <1>16, <1>17 DEF Streaming

\* Done and an error make the last frames.
LEMMA ClosingStep ==
  ASSUME InferenceInv, NextEvent, Streaming, Head(events).e # "delta"
  PROVE  Streaming'
<1>1. /\ relay.on /\ relay.queue = <<>> /\ ~relay.last /\ UNCHANGED <<frames, seen>> /\ RelayOnly
  BY DEF NextEvent
<1>2. /\ Ongoing /\ Head(events) \in EventSet
      /\ Head(events) = events[1] /\ Len(events) \in Nat \ {0} /\ events # <<>>
      /\ relay' = [relay EXCEPT !.queue = FramesFor(Head(events)), !.last = TRUE]
  BY NextEventIs
<1>h. PICK h \in EventSet : h = Head(events)
  BY <1>2
<1>q. PICK q \in Seq(FrameSet) : q = FramesFor(h)
  BY StopFramesAre, ErrorFramesAre DEF FramesFor
<1>3. /\ relay'.queue = q /\ relay'.last
      /\ relay' \in [on : BOOLEAN, queue : Seq(FrameSet), last : BOOLEAN]
  <2>1. relay \in [on : BOOLEAN, queue : Seq(FrameSet), last : BOOLEAN]
    BY DEF Streaming
  <2>2. relay' = [relay EXCEPT !.queue = q, !.last = TRUE]
    BY <1>2, <1>h, <1>q
  <2> QED
    BY <2>1, <2>2
<1>s. PICK s \in Seq(FrameSet) : s = seen \o frames
  BY <1>2, StreamIs
<1>4. Shown = s /\ Shown' = s \o q
  BY <1>1, <1>2, <1>3, <1>s, NothingQueued DEF Shown
<1>5. \A i \in 1..Len(s) : s[i].f \in {"role", "delta"}
  BY <1>2, <1>4 DEF Ongoing
<1>6. Ended
  <2>1. ~(\A i \in 1..Len(events) : events[i].e = "delta")
    BY <1>2
  <2> QED
    BY <1>2, <2>1 DEF Ongoing
<1>7. Len(events) = 1 /\ h = events[1]
  <2>1. ~(1 < Len(events))
    BY <1>2, <1>6 DEF Ended
  <2>2. PICK n \in Nat \ {0} : n = Len(events)
    BY <1>2
  <2>3. n = 1
    BY ONLY <2>1, <2>2
  <2>4. h = events[1]
    BY <1>2, <1>h
  <2> QED
    BY ONLY <2>2, <2>3, <2>4
<1>8. /\ h.e \in {"done", "err"} /\ h.text = <<>>
      /\ h.e = "done" => Answer.whole /\ Concat(Told) = Answer.text
  BY <1>6, <1>7 DEF Ended
<1>9. Concat(Told) = Concat(s)
  <2>1. s \in Seq(Items) /\ events \in Seq(Items) /\ h \in Items
    BY <1>2, ItemsAre, StreamIs
  <2>2. Append(s, h) = s \o <<h>>
    BY <2>1, AppendIsConcat
  <2>3. events = <<h>>
    BY <1>7, <2>1
  <2>4. Told = Append(s, h)
    BY <1>4, <2>2, <2>3 DEF Told
  <2> QED
    BY <1>8, <2>1, <2>4, ConcatAppend
<1>10. Answer' = Answer
  BY <1>1 DEF RelayOnly, Answer
<1>11. Clean(s \o q, Answer.whole, Answer.text)
  <2>1. CASE h.e = "done"
    <3>1. q = StopFrames
      BY <1>q, <2>1 DEF FramesFor
    <3>2. /\ Len(q) > 0 /\ q[1].f = "stop" /\ q[1].text = <<>>
          /\ \A j \in 1..Len(q) : j > 1 => q[j].f \in {"usage", "[DONE]"}
      BY <3>1, StopFramesAre
    <3>t. PICK t : t = Answer.text
      OBVIOUS
    <3>3. Concat(s) = t /\ s \in Seq(FrameSet) /\ q \in Seq(FrameSet)
      BY <1>8, <1>9, <2>1, <3>t
    <3>4. Clean(s \o q, TRUE, t)
      BY ONLY <1>5, <3>2, <3>3, CleanStop
    <3>5. Answer.whole = TRUE
      BY <1>8, <2>1 DEF Answer
    <3> QED
      BY <3>4, <3>5, <3>t
  <2>2. CASE h.e # "done"
    <3>1. q = ErrorFrames
      BY <1>8, <1>q, <2>2 DEF FramesFor
    <3>2. \A j \in 1..Len(q) : q[j].f # "stop"
      BY <3>1, ErrorFramesAre
    <3>3. /\ s \o q \in Seq(FrameSet) /\ Len(s \o q) = Len(s) + Len(q)
          /\ \A j \in 1..Len(s) + Len(q) : (s \o q)[j] = IF j <= Len(s) THEN s[j] ELSE q[j - Len(s)]
      BY ONLY <1>s, <1>q, ConcatProperties
    <3>4. PICK n \in Nat, m \in Nat : n = Len(s) /\ m = Len(q)
      BY ONLY <1>s, <1>q, LenProperties
    <3>x. PICK x : x = s \o q
      OBVIOUS
    <3>5. ASSUME NEW j \in 1..Len(x) PROVE x[j].f # "stop"
      <4>1. j \in 1..n + m
        BY ONLY <3>3, <3>4, <3>x, j \in 1..Len(x)
      <4>2. CASE j <= n
        <5>1. j \in 1..n
          BY <4>1, <4>2
        <5> QED
          BY ONLY <1>5, <3>3, <3>4, <3>x, <4>1, <4>2, <5>1
      <4>3. CASE ~(j <= n)
        <5>1. j - n \in 1..m
          BY <4>1, <4>3
        <5> QED
          BY ONLY <3>2, <3>3, <3>4, <3>x, <4>1, <4>3, <5>1
      <4> QED
        BY <4>2, <4>3
    <3> QED
      BY <3>5, <3>x, CleanNothing
  <2> QED
    BY <2>1, <2>2
<1>12. Clean(Shown', Answer'.whole, Answer'.text)
  BY <1>4, <1>10, <1>11
<1> QED
  BY <1>1, <1>3, <1>12 DEF Streaming

LEMMA RelayStep ==
  ASSUME InferenceInv, Relay
  PROVE  InferenceInv'
<1>1. CASE NextEvent
  <2>1. relay.on /\ UNCHANGED seen /\ RelayOnly
    BY <1>1 DEF NextEvent
  <2>2. Streaming => Streaming'
    BY <1>1, DeltaStep, ClosingStep
  <2> QED
    BY <2>1, <2>2, RelayGoes
<1> QED
  BY <1>1, SendFrameStep, RelayReturnsStep DEF Relay

LEMMA InferenceStep ==
  ASSUME InferenceInv, InferenceNext
  PROVE  InferenceInv'
<1>1. CASE \E a \in Asks : Submit(a)
  <2>1. phase = "idle" /\ phase' \in {"refused", "resolving"} /\ Quiet
    BY <1>1 DEF Submit
  <2> QED
    BY <2>1, QuietSteps
<1>2. CASE ResolveModel
  <2>1. phase = "resolving" /\ phase' \in {"refused", "calling"} /\ Quiet
    BY <1>2 DEF ResolveModel
  <2> QED
    BY <2>1, QuietSteps
<1>3. CASE EngineFails
  <2>1. phase = "calling" /\ phase' = "refused" /\ Quiet
    BY <1>3 DEF EngineFails
  <2> QED
    BY <2>1, QuietSteps
<1> QED
  BY <1>1, <1>2, <1>3, BufferedStep, ReplayedStep, NativeStep, ReaderStep, RelayStep, ClientReadsStep,
     ClientLeavesStep DEF InferenceNext

\* A client that is told its answer is complete has all of it and nothing else,
\* whatever the upstream sends and wherever it is split, however small the
\* channels are, and whichever of the two tasks and the client runs.
THEOREM CleanEndHasAll == Spec => []CleanEndIsComplete
<1>1. Init => InferenceInv
  BY InferenceInitInv DEF Init
<1>2. InferenceInv /\ [Next]_vars => InferenceInv'
  <2> SUFFICES ASSUME InferenceInv, [Next]_vars PROVE InferenceInv'
    OBVIOUS
  <2>1. CASE InferenceNext
    BY <2>1, InferenceStep
  <2>2. CASE UNCHANGED inferenceVars
    BY <2>2, InferenceStays
  <2> QED
    BY <2>1, <2>2 DEF Next, vars
<1>3. InferenceInv => CleanEndIsComplete
  BY InvIsClean
<1> QED
  BY <1>1, <1>2, <1>3, PTL DEF Spec
=============================================================================
