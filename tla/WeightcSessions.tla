-------------------------- MODULE WeightcSessions --------------------------
(***************************************************************************)
(* Resident inference sessions (src/src/inference/weightc): a table from   *)
(* a session key to the actor that serves it, bounded by Max with LRU      *)
(* eviction.  An actor owns one `weightc enter` child, which holds the     *)
(* conversation's context; it handles its mailbox one message at a time.   *)
(*                                                                         *)
(* The table is behind a tokio mutex that session_actor keeps while it     *)
(* evicts and spawns; the turn itself is asked after the mutex is          *)
(* released, and a broken session is removed, by key, under a second       *)
(* acquisition.  Actors are numbered as they are spawned.                  *)
(***************************************************************************)
EXTENDS Naturals, Sequences, FiniteSets

CONSTANTS Keys, Requests, KeyOf, Droppable, Max, None

\* A request spawns one actor at most.
MaxActors == Cardinality(Requests)
Actors == 1..MaxActors
Stop == "stop"    \* the StopSession message
Halt == "halt"    \* stop_gracefully

ASSUME TableAssumption ==
  /\ KeyOf \in [Requests -> Keys]
  /\ Droppable \subseteq Requests
  /\ Max \in Nat \ {0}
  /\ IsFiniteSet(Requests)
  /\ None \notin Requests

VARIABLES
  table,     \* SessionTable.actors: key |-> actor, 0 when absent
  recency,   \* SessionTable.recency, least recently used first
  lock,      \* the request that holds the table's mutex
  actor,     \* each actor: not there yet, alive or dead
  child,     \* whether the actor has a child process
  mail,      \* the actor's mailbox
  pc,        \* where each request is
  ref,       \* the actor a request holds a reference to
  closed,    \* the server has stopped serving and engine shutdown has begun
  victims,   \* actors that shutdown drained, with the message it sends next
  context,   \* the actor whose child answered the key's last good turn; 0 once that child is gone
  excused    \* keys that lost their context to an error they were told of, an eviction or shutdown

tableVars == <<table, recency>>
actorVars == <<actor, child, mail>>
shutdown == <<closed, victims>>
contexts == <<context, excused>>
vars == <<tableVars, lock, actorVars, pc, ref, shutdown, contexts>>

RequestPcs == {"idle", "evicting", "halting", "waiting", "asking", "asked", "removing", "done"}

TypeOK ==
  /\ table \in [Keys -> 0..MaxActors]
  /\ recency \in Seq(Keys)
  /\ lock \in Requests \cup {None}
  /\ actor \in [Actors -> {"none", "alive", "dead"}]
  /\ child \in [Actors -> BOOLEAN]
  /\ mail \in [Actors -> Seq(Requests \cup {Stop, Halt})]
  /\ pc \in [Requests -> RequestPcs]
  /\ ref \in [Requests -> 0..MaxActors]
  /\ closed \in BOOLEAN
  /\ victims \subseteq Actors \X {Stop, Halt}
  /\ context \in [Keys -> 0..MaxActors \cup {None}]
  /\ excused \subseteq Keys

Init ==
  /\ table = [k \in Keys |-> 0]
  /\ recency = <<>>
  /\ lock = None
  /\ actor = [a \in Actors |-> "none"]
  /\ child = [a \in Actors |-> FALSE]
  /\ mail = [a \in Actors |-> <<>>]
  /\ pc = [r \in Requests |-> "idle"]
  /\ ref = [r \in Requests |-> 0]
  /\ closed = FALSE
  /\ victims = {}
  /\ context = [k \in Keys |-> None]
  /\ excused = {}

Goto(r, where) == pc' = [pc EXCEPT ![r] = where]
Size == Cardinality({k \in Keys : table[k] # 0})

\* recency.retain(|entry| entry != key): the entries kept, in their order.
Without(s, k) ==
  LET kept == {i \in DOMAIN s : s[i] # k}
  IN [j \in 1..Cardinality(kept) |->
        s[CHOOSE i \in kept : Cardinality({h \in kept : h <= i}) = j]]

-----------------------------------------------------------------------------
(* session_actor.                                                          *)

\* The key has a live actor: it becomes the most recently used.
Get(r) ==
  /\ pc[r] = "idle" /\ ~closed
  /\ lock = None
  /\ table[KeyOf[r]] # 0
  /\ actor[table[KeyOf[r]]] = "alive"
  /\ recency' = Append(Without(recency, KeyOf[r]), KeyOf[r])
  /\ ref' = [ref EXCEPT ![r] = table[KeyOf[r]]]
  /\ Goto(r, "asking")
  /\ UNCHANGED <<table, lock, actorVars, shutdown, contexts>>

\* No actor, or a dead one, whose entry is dropped: a new one is to be
\* spawned, under the lock.
Miss(r) ==
  /\ pc[r] = "idle" /\ ~closed
  /\ lock = None
  /\ table[KeyOf[r]] # 0 => actor[table[KeyOf[r]]] = "dead"
  /\ table' = [table EXCEPT ![KeyOf[r]] = 0]
  /\ recency' = Without(recency, KeyOf[r])
  /\ lock' = r
  /\ Goto(r, "evicting")
  /\ UNCHANGED <<actorVars, ref, shutdown, contexts>>

\* The same when the default model has no artifact directory: the request
\* fails after the dead entry was dropped.
MissFails(r) ==
  /\ pc[r] = "idle" /\ ~closed
  /\ lock = None
  /\ table[KeyOf[r]] # 0 => actor[table[KeyOf[r]]] = "dead"
  /\ table' = [table EXCEPT ![KeyOf[r]] = 0]
  /\ recency' = Without(recency, KeyOf[r])
  /\ Goto(r, "done")
  /\ UNCHANGED <<lock, actorVars, ref, shutdown, contexts>>

Send(a, m) == mail' = [mail EXCEPT ![a] = IF actor[a] = "alive" THEN Append(@, m) ELSE @]

\* evict_oldest: the least recently used entry goes, its actor is asked to
\* stop its child ...
Evict(r) ==
  /\ pc[r] = "evicting"
  /\ Size >= Max
  /\ recency' = Tail(recency)
  /\ table' = [table EXCEPT ![Head(recency)] = 0]
  /\ ref' = [ref EXCEPT ![r] = table[Head(recency)]]
  /\ Send(table[Head(recency)], Stop)
  /\ excused' = excused \cup {Head(recency)}
  /\ Goto(r, "halting")
  /\ UNCHANGED <<lock, actor, child, shutdown, context>>

\* ... and, when it has answered or five seconds have passed, to stop ...
EvictHalt(r) ==
  /\ pc[r] = "halting"
  /\ Send(ref[r], Halt)
  /\ Goto(r, "waiting")
  /\ UNCHANGED <<tableVars, lock, actor, child, ref, shutdown, contexts>>

\* ... which is awaited for another five seconds at most.
EvictDone(r) ==
  /\ pc[r] = "waiting"
  /\ ref' = [ref EXCEPT ![r] = 0]
  /\ Goto(r, "evicting")
  /\ UNCHANGED <<tableVars, lock, actorVars, shutdown, contexts>>

\* The new actor.
Fresh == Cardinality({a \in Actors : actor[a] # "none"}) + 1

\* The new actor enters the table and the lock is released.
Spawn(r) ==
  /\ pc[r] = "evicting"
  /\ Size < Max
  /\ actor' = [actor EXCEPT ![Fresh] = "alive"]
  /\ table' = [table EXCEPT ![KeyOf[r]] = Fresh]
  /\ recency' = Append(recency, KeyOf[r])
  /\ ref' = [ref EXCEPT ![r] = Fresh]
  /\ lock' = None
  /\ Goto(r, "asking")
  /\ UNCHANGED <<child, mail, shutdown, contexts>>

-----------------------------------------------------------------------------
(* complete_resident.                                                      *)

\* The turn is put in the actor's mailbox; a dead actor fails the request.
Ask(r) ==
  /\ pc[r] = "asking"
  /\ Send(ref[r], r)
  /\ Goto(r, IF actor[ref[r]] = "alive" THEN "asked" ELSE "removing")
  /\ UNCHANGED <<tableVars, lock, actor, child, ref, shutdown, contexts>>

\* Mutant: recency is not cleaned with the table.
RemoveKeepsRecency(r) ==
  /\ pc[r] = "removing"
  /\ lock = None
  /\ table' = [table EXCEPT ![KeyOf[r]] = 0]
  /\ ref' = [ref EXCEPT ![r] = 0]
  /\ Goto(r, "done")
  /\ UNCHANGED <<recency, lock, actorVars, shutdown, contexts>>

\* Mutant: the failed request keeps its reference to the actor.
RemoveKeepsRef(r) ==
  /\ pc[r] = "removing"
  /\ lock = None
  /\ table' = [table EXCEPT ![KeyOf[r]] = 0]
  /\ recency' = Without(recency, KeyOf[r])
  /\ Goto(r, "done")
  /\ UNCHANGED <<lock, actorVars, ref, shutdown, contexts>>

\* The session broke or its actor is gone: whatever actor the key has by now
\* leaves the table, and the request fails with an error that names the key.
Remove(r) ==
  /\ pc[r] = "removing"
  /\ lock = None
  /\ table' = [table EXCEPT ![KeyOf[r]] = 0]
  /\ recency' = Without(recency, KeyOf[r])
  /\ ref' = [ref EXCEPT ![r] = 0]
  /\ Goto(r, "done")
  /\ UNCHANGED <<lock, actorVars, shutdown, contexts>>

-----------------------------------------------------------------------------
(* The session actor.                                                      *)

Next1(a) == Head(mail[a])
Handles(a, m) == actor[a] = "alive" /\ mail[a] # <<>> /\ Next1(a) = m

\* The answer reaches the request unless it was dropped.
Reply(r, where) ==
  /\ Goto(r, IF pc[r] = "asked" THEN where ELSE pc[r])
  /\ ref' = [ref EXCEPT ![r] = IF pc[r] = "asked" /\ where = "done" THEN 0 ELSE @]

\* The child of actor a, if it has one, is gone.
LosesChild(a) ==
  /\ child' = [child EXCEPT ![a] = FALSE]
  /\ context' = [k \in Keys |-> IF context[k] = a THEN 0 ELSE context[k]]

\* A good turn; ensure_child has spawned a child if there was none.
TurnAnswered(a, r) ==
  /\ Handles(a, r)
  /\ mail' = [mail EXCEPT ![a] = Tail(@)]
  /\ child' = [child EXCEPT ![a] = TRUE]
  /\ context' = [context EXCEPT ![KeyOf[r]] = a]
  /\ excused' = excused \ {KeyOf[r]}
  /\ Reply(r, "done")
  /\ UNCHANGED <<tableVars, lock, actor, shutdown>>

\* weightc reports an error line: the session goes on.
TurnReported(a, r) ==
  /\ Handles(a, r)
  /\ mail' = [mail EXCEPT ![a] = Tail(@)]
  /\ child' = [child EXCEPT ![a] = TRUE]
  /\ Reply(r, "done")
  /\ UNCHANGED <<tableVars, lock, actor, shutdown, contexts>>

\* The child does not start, dies, times out or breaks the protocol: it is
\* torn down and the request is told.  The actor itself goes on.
TurnBroken(a, r) ==
  /\ Handles(a, r)
  /\ mail' = [mail EXCEPT ![a] = Tail(@)]
  /\ LosesChild(a)
  /\ excused' = excused \cup (IF pc[r] = "asked" THEN {KeyOf[r]} ELSE {})
  /\ Reply(r, "removing")
  /\ UNCHANGED <<tableVars, lock, actor, shutdown>>

StopChild(a) ==
  /\ Handles(a, Stop)
  /\ mail' = [mail EXCEPT ![a] = Tail(@)]
  /\ LosesChild(a)
  /\ UNCHANGED <<tableVars, lock, actor, pc, ref, shutdown, excused>>

\* Mutant: requests whose actor ends are not told.
EndsSilently(a) ==
  /\ actor' = [actor EXCEPT ![a] = "dead"]
  /\ LosesChild(a)
  /\ mail' = [mail EXCEPT ![a] = <<>>]
  /\ UNCHANGED <<tableVars, lock, pc, ref, shutdown, excused>>

\* The actor ends: kill_on_drop ends its child, and whoever waits for an
\* answer is told that the actor is unavailable.
Ends(a) ==
  LET waiting == {r \in Requests : pc[r] = "asked" /\ ref[r] = a} IN
  /\ actor' = [actor EXCEPT ![a] = "dead"]
  /\ LosesChild(a)
  /\ mail' = [mail EXCEPT ![a] = <<>>]
  /\ pc' = [r \in Requests |-> IF r \in waiting THEN "removing" ELSE pc[r]]
  /\ excused' = excused \cup {KeyOf[r] : r \in waiting}
  /\ UNCHANGED <<tableVars, lock, ref, shutdown>>

ActorHalts(a) == Handles(a, Halt) /\ Ends(a)

\* An actor nobody refers to any more stops by itself (kameo).
Unreferenced(a) ==
  /\ \A k \in Keys : table[k] # a
  /\ \A r \in Requests : ref[r] # a
  /\ \A v \in victims : v[1] # a
ActorCollected(a) == actor[a] = "alive" /\ mail[a] = <<>> /\ Unreferenced(a) /\ Ends(a)

-----------------------------------------------------------------------------
(* InferenceEngine::shutdown.                                              *)

\* Once every connection is finished the table is emptied; its actors are
\* stopped, each message answered or given up after five seconds.
Drain ==
  /\ ~closed
  /\ \A r \in Requests : pc[r] \in {"idle", "done"}
  /\ closed' = TRUE
  /\ victims' = {<<table[k], Stop>> : k \in {e \in Keys : table[e] # 0}}
  /\ table' = [k \in Keys |-> 0]
  /\ recency' = <<>>
  /\ excused' = Keys
  /\ UNCHANGED <<lock, actorVars, pc, ref, context>>

\* StopSession first, then stop_gracefully.
ShutdownSend(a, m) ==
  /\ <<a, m>> \in victims
  /\ Send(a, m)
  /\ victims' = (victims \ {<<a, m>>}) \cup (IF m = Stop THEN {<<a, Halt>>} ELSE {})
  /\ UNCHANGED <<tableVars, lock, actor, child, pc, ref, closed, contexts>>

-----------------------------------------------------------------------------
\* The request's client goes away at an await point: the lock and the actor
\* reference are let go, a turn in the mailbox stays there.
Drop(r) ==
  /\ r \in Droppable
  /\ pc[r] \in {"evicting", "halting", "waiting", "asked", "removing"}
  /\ lock' = IF lock = r THEN None ELSE lock
  /\ ref' = [ref EXCEPT ![r] = 0]
  /\ Goto(r, "done")
  /\ UNCHANGED <<tableVars, actorVars, shutdown, contexts>>

Request(r) ==
  \/ Get(r) \/ Miss(r) \/ MissFails(r) \/ Evict(r) \/ EvictHalt(r) \/ EvictDone(r) \/ Spawn(r)
  \/ Ask(r) \/ Remove(r)

Actor(a) ==
  \/ \E r \in Requests : TurnAnswered(a, r) \/ TurnReported(a, r) \/ TurnBroken(a, r)
  \/ StopChild(a) \/ ActorHalts(a) \/ ActorCollected(a)

Next ==
  \/ \E r \in Requests : Request(r) \/ Drop(r)
  \/ \E a \in Actors : Actor(a) \/ ShutdownSend(a, Stop) \/ ShutdownSend(a, Halt)
  \/ Drain

Spec == Init /\ [][Next]_vars

\* Requests and actors are polled while they can move; the timeouts of the
\* turn and of the eviction make every await end; the mutex is fair.
Fairness ==
  /\ \A r \in Requests :
       /\ WF_vars(Evict(r) \/ EvictHalt(r) \/ EvictDone(r) \/ Spawn(r) \/ Ask(r))
       /\ SF_vars(Remove(r))
  /\ \A a \in Actors : WF_vars(Actor(a)) /\ WF_vars(ShutdownSend(a, Stop) \/ ShutdownSend(a, Halt))

FairSpec == Spec /\ Fairness

-----------------------------------------------------------------------------
(* Properties.                                                             *)

\* The recency queue lists exactly the keys of the table, each once, and there
\* are never more than the limit, however hits, evictions, removals by late
\* requests, shutdown and dropped futures interleave.  A key missing from the
\* queue could never be evicted, and spawn would loop for ever over an empty
\* queue.
TableAgrees ==
  /\ {recency[i] : i \in DOMAIN recency} = {k \in Keys : table[k] # 0}
  /\ Len(recency) = Size
  /\ Size <= Max

\* Every turn gets an answer, whatever happens to its actor meanwhile: it is
\* evicted, drained by shutdown, removed by another request, or dies.
RequestsEnd == \A r \in Requests : pc[r] # "idle" ~> pc[r] = "done"

\* An actor that has left the table ends, and its child process with it.
RemovedActorsEnd ==
  \A a \in Actors :
    (actor[a] = "alive" /\ \A k \in Keys : table[k] # a) ~> (actor[a] = "dead" /\ ~child[a])

\* "When a child dies or breaks the protocol, the request that discovers it
\* fails with a typed error naming the lost session": a good turn of a key is
\* answered by the child that answered its previous good turn, unless in
\* between a request of the key was told of a loss, the key was evicted or
\* the service shut down.
NoSilentLoss ==
  [][\A k \in Keys : context[k] # None /\ context'[k] \notin {context[k], 0} => k \in excused]_vars

=============================================================================
