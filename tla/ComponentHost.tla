--------------------------- MODULE ComponentHost ---------------------------
(***************************************************************************)
(* Component layers and the host interfaces they are given                 *)
(* (src/holo_component.rs, src/holo_channel.rs, src/holo_fetch.rs): the    *)
(* preparation of each contract profile, invocations that queue on the     *)
(* component's serial lock, the deadline and the dropped caller, which     *)
(* cancel by raising the engine's epoch, and the mediated interfaces:      *)
(* reads and quota-bound writes of the store, bounded channels, and HTTPS  *)
(* fetches on worker threads that may outlive the guest's wait for them.   *)
(*                                                                         *)
(* A guest is the list of host calls it makes for one input, each a        *)
(* <<name, target>>; "spin" is a loop that only fuel or the epoch ends,    *)
(* "fail" an error the guest returns or an output over the limit.          *)
(***************************************************************************)
EXTENDS StorageGraph

CONSTANTS Layers,       \* component layers, each with an engine of its own
          Applications, \* sets of layers that are prepared together
          Profile,      \* its contract profile
          Admitted,     \* roots, channels or endpoints of its capability request
          Quota,        \* its storage_quota_bytes
          World,        \* the profile whose world its bytes import and export
          InvocationMax, \* calls of ComponentLayer::invoke, numbered in their order
          Inputs,       \* the input lists a layer may be called with
          SizeOf,       \* bytes of an object
          MailboxCapacity, \* DEFAULT_MAILBOX_CAPACITY
          FetchMax      \* FETCH_CONCURRENCY_MAX

ASSUME HostAssumption == InvocationMax \in Nat /\ FetchMax \in Nat

VARIABLES layer,      \* [phase, serial, quota] per layer
          thread,       \* the blocking thread of each invocation
          caller,     \* the future that awaits it
          cancelled,  \* the flag the two share
          queued,     \* ComponentLayer.queued
          blobs,      \* objects in the store
          mailbox,    \* messages waiting, per channel
          permits,    \* FetchRuntime.in_flight
          workers,    \* permits of acquire_network_worker in use
          threads     \* hologram-fetch threads alive

hostVars == <<layer, thread, caller, cancelled, queued, blobs, mailbox, permits,
              workers, threads>>

Nobody == 0
Invocations == 1..InvocationMax
Channels == UNION {Admitted[l] : l \in {k \in Layers : Profile[k] \in {"publish", "subscribe"}}}
NoTask == [pc |-> "none", on |-> "", left |-> <<>>, ops |-> <<>>, hit |-> FALSE]

HostInit ==
    /\ \E A \in Applications :
          layer = [l \in Layers |-> [phase |-> IF l \in A THEN "unprepared" ELSE "absent",
                                     serial |-> Nobody, quota |-> Quota[l]]]
    /\ thread = [i \in Invocations |-> NoTask]
    /\ caller = [i \in Invocations |-> "idle"]
    /\ cancelled = [i \in Invocations |-> FALSE]
    /\ queued = [l \in Layers |-> 0]
    /\ blobs = {}
    /\ mailbox = [c \in Channels |-> 0]
    /\ permits = 0 /\ workers = 0 /\ threads = 0

----------------------------------------------------------------------------
(* Preparation, start and stop.                                             *)

At(i, pc) == thread[i].pc = pc
Advance(i, pc) == thread' = [thread EXCEPT ![i].pc = pc]
LayerOf(i) == thread[i].on
network == <<permits, workers, threads>>
interfaces == <<blobs, mailbox, network>>

\* A profile needs a non-empty admitted set, a non-zero quota to write, and the
\* closure of the roots to read the graph.
Grants(l) ==
    /\ Profile[l] # "import-free" => Admitted[l] # {}
    /\ Profile[l] = "write" => Quota[l] > 0
    /\ Profile[l] = "graph-read" => graph = "resolved"

\* The trial instantiation links the interface of the profile and no other; both
\* profiles that read have the same world.
Instantiates(l) == World[l] = IF Profile[l] = "graph-read" THEN "read" ELSE Profile[l]

Prepare(l) ==
    /\ layer[l].phase = "unprepared"
    /\ Profile[l] = "graph-read" => graph # "resolving"
    /\ layer' = [layer EXCEPT ![l].phase =
                    IF Grants(l) /\ Instantiates(l) THEN "prepared" ELSE "refused"]
    /\ UNCHANGED <<thread, caller, cancelled, queued, interfaces>>

Start(l) ==
    /\ layer[l].phase = "prepared"
    /\ layer' = [layer EXCEPT ![l].phase = "running"]
    /\ UNCHANGED <<thread, caller, cancelled, queued, interfaces>>

\* increment_epoch: the store that exists on the engine now is past its deadline,
\* whoever's it is; one created later is not.
Epoch(l) == [i \in Invocations |->
    IF thread[i].on = l /\ thread[i].pc \in {"guest", "fetching"}
    THEN [thread[i] EXCEPT !.hit = TRUE] ELSE thread[i]]

Stop(l) ==
    /\ layer[l].phase = "running"
    /\ layer' = [layer EXCEPT ![l].phase = "stopped"]
    /\ thread' = Epoch(l)
    /\ UNCHANGED <<caller, cancelled, queued, interfaces>>

----------------------------------------------------------------------------
(* The caller: ComponentLayer::invoke.                                      *)

Invoke(i, l) ==
    /\ caller[i] = "idle" /\ (i > 1 => caller[i - 1] # "idle")
    /\ layer[l].phase = "running"
    /\ caller' = [caller EXCEPT ![i] = "waiting"]
    /\ queued' = [queued EXCEPT ![l] = @ + 1]
    /\ \E inputs \in Inputs[l] :
          thread' = [thread EXCEPT ![i] = [NoTask EXCEPT !.pc = "lock", !.on = l, !.left = inputs]]
    /\ UNCHANGED <<layer, cancelled, interfaces>>

\* The thread ended: within the deadline, which disarms the guard, or after it.
Join(i) ==
    /\ caller[i] \in {"waiting", "late"} /\ At(i, "returned")
    /\ caller' = [caller EXCEPT ![i] = "answered"]
    /\ queued' = [queued EXCEPT ![LayerOf(i)] = @ - 1]
    /\ UNCHANGED <<layer, thread, cancelled, interfaces>>

\* CancellationGuard::cancel: the flag, then the epoch.
Cancel(i) ==
    /\ cancelled' = [cancelled EXCEPT ![i] = TRUE]
    /\ thread' = Epoch(LayerOf(i))

\* The deadline passes, counted from invoke and so also while the thread still
\* waits for the serial lock; the caller then waits for the thread.
Deadline(i) ==
    /\ caller[i] = "waiting" /\ thread[i].pc # "returned"
    /\ caller' = [caller EXCEPT ![i] = "late"]
    /\ Cancel(i)
    /\ UNCHANGED <<layer, queued, interfaces>>

\* The caller's future is dropped: both guards run, the thread goes on alone.
Drop(i) ==
    /\ caller[i] \in {"waiting", "late"}
    /\ caller' = [caller EXCEPT ![i] = "dropped"]
    /\ queued' = [queued EXCEPT ![LayerOf(i)] = @ - 1]
    /\ \/ caller[i] = "waiting" /\ Cancel(i)
       \/ caller[i] = "late" /\ UNCHANGED <<cancelled, thread>>
    /\ UNCHANGED <<layer, interfaces>>

----------------------------------------------------------------------------
(* The thread: PreparedComponent::run_inputs and run_once.                    *)

TakeSerial(i) ==
    /\ At(i, "lock") /\ layer[LayerOf(i)].serial = Nobody
    /\ layer' = [layer EXCEPT ![LayerOf(i)].serial = i]
    /\ Advance(i, "check")
    /\ UNCHANGED <<caller, cancelled, queued, interfaces>>

\* The thread's result; the serial guard goes with it.
ThreadReturns(i) ==
    /\ thread' = [thread EXCEPT ![i] = [NoTask EXCEPT !.pc = "returned", !.on = LayerOf(i)]]
    /\ layer' = [layer EXCEPT ![LayerOf(i)].serial = Nobody]

\* Before each input the flag is read; with no input left the outputs are returned.
NextInput(i) ==
    /\ At(i, "check")
    /\ \/ thread[i].left # <<>> /\ ~cancelled[i] /\ Advance(i, "store") /\ UNCHANGED layer
       \/ (thread[i].left = <<>> \/ cancelled[i]) /\ ThreadReturns(i)
    /\ UNCHANGED <<caller, cancelled, queued, interfaces>>

\* A store of its own per input, whose deadline is the next epoch from now: a
\* cancellation between the flag's check and this step is not noticed by the guest.
NewStore(i) ==
    /\ At(i, "store")
    /\ thread' = [thread EXCEPT ![i].pc = "guest", ![i].ops = Head(thread[i].left), ![i].left = Tail(@),
                            ![i].hit = FALSE]
    /\ UNCHANGED <<layer, caller, cancelled, queued, interfaces>>

Calling(i, name) == At(i, "guest") /\ thread[i].ops # <<>> /\ Head(thread[i].ops)[1] = name

\* Mutant: the store is given no fuel.
TrapOnEpoch(i) ==
    /\ At(i, "guest") /\ thread[i].hit
    /\ ThreadReturns(i)
    /\ UNCHANGED <<caller, cancelled, queued, interfaces>>

\* The guest notices the epoch, or runs out of fuel in a loop.
Trap(i) ==
    /\ At(i, "guest")
    /\ thread[i].hit \/ Calling(i, "spin")
    /\ ThreadReturns(i)
    /\ UNCHANGED <<caller, cancelled, queued, interfaces>>

\* An input is done, with an output that counts or an error that ends the thread.
GuestReturns(i) ==
    /\ At(i, "guest")
    /\ \/ thread[i].ops = <<>> /\ Advance(i, "check") /\ UNCHANGED layer
       \/ Calling(i, "fail") /\ ThreadReturns(i)
    /\ UNCHANGED <<caller, cancelled, queued, interfaces>>

----------------------------------------------------------------------------
(* The host interfaces; a refused call is an error the guest sees and        *)
(* survives.                                                                *)

Target(i) == Head(thread[i].ops)[2]
Answered(i) == thread' = [thread EXCEPT ![i].ops = Tail(@)]
Admits(i) == Target(i) \in Admitted[LayerOf(i)]

\* store.read: the bytes of an admitted root or, for a graph profile, of an object
\* of the closure, or an error; neither changes anything.
Read(i) ==
    /\ Calling(i, "read")
    /\ Answered(i)
    /\ UNCHANGED <<layer, caller, cancelled, queued, interfaces>>

\* store.write: bytes that exist already cost nothing; new ones are created
\* within what is left of the quota, which is charged under its mutex.
Write(i) ==
    LET l == LayerOf(i)
        created == Admits(i) /\ Target(i) \notin blobs /\ SizeOf[Target(i)] <= layer[l].quota
    IN /\ Calling(i, "write")
       /\ Answered(i)
       /\ blobs' = IF created THEN blobs \cup {Target(i)} ELSE blobs
       /\ layer' = IF created THEN [layer EXCEPT ![l].quota = @ - SizeOf[Target(i)]] ELSE layer
       /\ UNCHANGED <<caller, cancelled, queued, mailbox, network>>

Publish(i) ==
    /\ Calling(i, "publish")
    /\ Answered(i)
    /\ mailbox' = IF Admits(i) /\ mailbox[Target(i)] < MailboxCapacity
                  THEN [mailbox EXCEPT ![Target(i)] = @ + 1] ELSE mailbox
    /\ UNCHANGED <<layer, caller, cancelled, queued, blobs, network>>

TryReceive(i) ==
    /\ Calling(i, "receive")
    /\ Answered(i)
    /\ mailbox' = IF Admits(i) /\ mailbox[Target(i)] > 0
                  THEN [mailbox EXCEPT ![Target(i)] = @ - 1] ELSE mailbox
    /\ UNCHANGED <<layer, caller, cancelled, queued, blobs, network>>

\* network.fetch within the admitted scopes: a permit of the runtime and one of
\* the worker that resolves, filters the addresses and reads the answer.
FetchStarts(i) ==
    /\ Calling(i, "fetch") /\ Admits(i) /\ permits < FetchMax /\ workers < FetchMax
    /\ permits' = permits + 1 /\ workers' = workers + 1 /\ threads' = threads + 1
    /\ Advance(i, "fetching")
    /\ UNCHANGED <<layer, caller, cancelled, queued, blobs, mailbox>>

FetchRefused(i) ==
    /\ Calling(i, "fetch") /\ ~(Admits(i) /\ permits < FetchMax /\ workers < FetchMax)
    /\ Answered(i)
    /\ UNCHANGED <<layer, caller, cancelled, queued, interfaces>>

\* Mutant: the worker's permit is given back when the guest stops waiting.
FetchReturnsAll(i) ==
    /\ At(i, "fetching")
    /\ thread' = [thread EXCEPT ![i].pc = "guest", ![i].ops = Tail(@)]
    /\ permits' = permits - 1
    /\ workers' = IF workers > 0 THEN workers - 1 ELSE 0
    /\ UNCHANGED <<layer, caller, cancelled, queued, blobs, mailbox, threads>>

\* An answer, an error or recv_timeout: the guest goes on and the runtime's
\* permit is free; the thread keeps its own until it ends.
FetchReturns(i) ==
    /\ At(i, "fetching")
    /\ thread' = [thread EXCEPT ![i].pc = "guest", ![i].ops = Tail(@)]
    /\ permits' = permits - 1
    /\ UNCHANGED <<layer, caller, cancelled, queued, blobs, mailbox, workers, threads>>

WorkerEnds ==
    /\ threads > 0
    /\ threads' = threads - 1
    /\ workers' = IF workers > 0 THEN workers - 1 ELSE 0
    /\ UNCHANGED <<layer, thread, caller, cancelled, queued, blobs, mailbox, permits>>

----------------------------------------------------------------------------
Guest(i) == TakeSerial(i) \/ NextInput(i) \/ NewStore(i) \/ Trap(i) \/ GuestReturns(i)
            \/ Read(i) \/ Write(i) \/ Publish(i) \/ TryReceive(i)
            \/ FetchStarts(i) \/ FetchRefused(i) \/ FetchReturns(i)

HostNext ==
    \/ \E l \in Layers : Prepare(l) \/ Start(l) \/ Stop(l)
    \/ \E i \in Invocations, l \in Layers : Invoke(i, l)
    \/ \E i \in Invocations : Join(i) \/ Deadline(i) \/ Drop(i) \/ Guest(i)
    \/ WorkerEnds

\* Blocking tasks run and awaited futures are polled; neither the deadline nor
\* the end of a fetch thread is needed.
HostFairness == \A i \in Invocations : WF_hostVars(Guest(i)) /\ WF_hostVars(Join(i))

----------------------------------------------------------------------------
(* Properties.                                                              *)

\* Fetch threads that outlive their guest's deadline are counted until they end,
\* so there are never more than the limit of them, and an invocation that is not
\* inside a fetch holds no permit of the runtime.
PermitsCoverThreads ==
    /\ threads <= FetchMax
    /\ permits = Cardinality({i \in Invocations : At(i, "fetching")})

\* Every invocation comes to an end whatever its guest does, its neighbours'
\* deadlines included: fuel ends a loop and recv_timeout a fetch, so the serial
\* lock is passed on and every caller that stays is answered.
InvocationsEnd == []<>(\A i \in Invocations :
    /\ thread[i].pc \in {"none", "returned"}
    /\ caller[i] \in {"idle", "answered", "dropped"})
=============================================================================
