---------------------------- MODULE StorageGraph ----------------------------
(***************************************************************************)
(* The typed closure of admitted storage roots (src/holo_graph.rs), which   *)
(* is what a store-graph-read component may read.  One step pops one entry *)
(* of the breadth-first queue.  Content addresses make the graph acyclic.  *)
(***************************************************************************)
EXTENDS Integers, Sequences, FiniteSets, SequencesExt, FiniteSetsExt

CONSTANTS Addresses,  \* content addresses
          Stores,     \* stores to resolve in: a Blob per object
          RootLists,  \* admitted storage_roots
          Limits      \* StorageGraphLimits: [depth, objects, edges, bytes]

ASSUME GraphAssumption ==
    /\ IsFiniteSet(Addresses) /\ RootLists \subseteq Seq(Addresses)
    /\ Stores \subseteq [Addresses -> [present : BOOLEAN, hashes : BOOLEAN, framed : BOOLEAN,
                                      size : Nat, refs : Seq(Addresses)]]
    /\ Limits \subseteq [depth : Nat, objects : Nat, edges : Nat, bytes : Nat]

VARIABLES store, roots, limits, queue, visited, readable, edges, bytes, graph

graphVars == <<store, roots, limits, queue, visited, readable, edges, bytes, graph>>

(***************************************************************************)
(* A Blob: whether the file is there, whether its bytes hash to its        *)
(* address, and how its frame reads: a list of references (empty when the  *)
(* bytes are untyped) or "malformed".                                      *)
(***************************************************************************)
Sound(b) == b.present /\ b.hashes /\ b.framed

GraphInit ==
    /\ store \in Stores /\ roots \in RootLists /\ limits \in Limits
    /\ queue = [k \in DOMAIN roots |-> <<roots[k], 0>>]
    /\ visited = {} /\ readable = <<>> /\ edges = 0 /\ bytes = 0
    /\ graph = IF roots = <<>> \/ 0 \in {limits.objects, limits.edges, limits.bytes}
               THEN "refused" ELSE "resolving"

\* A refusal discards what was resolved so far.
RefuseGraph == /\ graph' = "refused"
               /\ queue' = <<>> /\ visited' = {} /\ readable' = <<>> /\ edges' = 0 /\ bytes' = 0

\* Whether the object popped at this depth is within every limit, in the order
\* the limits are tested.
WithinLimits(o, depth) ==
    /\ Len(readable) < limits.objects
    /\ depth <= limits.depth
    /\ Sound(store[o])
    /\ bytes + store[o].size <= limits.bytes
    /\ edges + Len(store[o].refs) <= limits.edges
    /\ depth = limits.depth => store[o].refs = <<>>

\* Mutant: the references are visited before the rest of the queue.
EnqueueFirst(refs, depth) == [k \in DOMAIN refs |-> <<refs[k], depth + 1>>] \o Tail(queue)

Enqueue(refs, depth) == Tail(queue) \o [k \in DOMAIN refs |-> <<refs[k], depth + 1>>]

Visit ==
    /\ graph = "resolving" /\ queue # <<>>
    /\ LET o == Head(queue)[1]
           depth == Head(queue)[2]
       IN \/ /\ o \in visited
             /\ queue' = Tail(queue)
             /\ UNCHANGED <<visited, readable, edges, bytes, graph>>
          \/ o \notin visited /\ ~WithinLimits(o, depth) /\ RefuseGraph
          \/ /\ o \notin visited /\ WithinLimits(o, depth)
             /\ visited' = visited \cup {o}
             /\ readable' = Append(readable, o)
             /\ bytes' = bytes + store[o].size
             /\ edges' = edges + Len(store[o].refs)
             /\ queue' = Enqueue(store[o].refs, depth)
             /\ UNCHANGED graph
    /\ UNCHANGED <<store, roots, limits>>

Resolved ==
    /\ graph = "resolving" /\ queue = <<>>
    /\ graph' = "resolved"
    /\ UNCHANGED <<store, roots, limits, queue, visited, readable, edges, bytes>>

GraphNext == Visit \/ Resolved

----------------------------------------------------------------------------
(* What the closure promises, without a queue.                             *)

ReferencesOf(s, S) == S \cup UNION {ToSet(s[o].refs) : o \in {p \in S : Sound(s[p])}}

\* The addresses within n references of the roots r, for each n.
Within(s, r) ==
    LET level[n \in Nat] == IF n = 0 THEN ToSet(r) ELSE ReferencesOf(s, level[n - 1])
    IN  level

\* What has the roots, and whatever its sound objects reference.
HoldsRoots(S) == ToSet(roots) \subseteq S /\ ReferencesOf(store, S) \subseteq S

Closure == {o \in Addresses : \A S \in SUBSET Addresses : HoldsRoots(S) => o \in S}

\* The closure is whole, within the limits, and ends above the depth limit.
Permitted ==
    /\ roots # <<>> /\ 0 \notin {limits.objects, limits.edges, limits.bytes}
    /\ \A o \in Closure : Sound(store[o])
    /\ Cardinality(Closure) <= limits.objects
    /\ MapThenSumSet(LAMBDA o : store[o].size, Closure) <= limits.bytes
    /\ MapThenSumSet(LAMBDA o : Len(store[o].refs), Closure) <= limits.edges
    /\ \A o \in Closure \ (IF limits.depth = 0 THEN {} ELSE Within(store, roots)[limits.depth - 1]) :
          store[o].refs = <<>>

\* A graph-read component is given exactly the objects its roots reach, each once:
\* never a part of the closure, never an unverified object, and no closure within
\* the limits is refused because of the order in which shared objects are met.
GraphIsClosure ==
    /\ graph = "resolved" => /\ Permitted
                             /\ ToSet(readable) = Closure
                             /\ Len(readable) = Cardinality(Closure)
    /\ graph = "refused" => ~Permitted
=============================================================================
