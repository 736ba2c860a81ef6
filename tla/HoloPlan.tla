------------------------------- MODULE HoloPlan -------------------------------
(***************************************************************************)
(* From an archive to an admitted plan: the catalog of archives and the    *)
(* content cache behind it (HoloCatalog in holo.rs, store.rs), the closure *)
(* of an application over embedded and stored objects under the planning   *)
(* limits (application_plan.rs), the choice of providers                   *)
(* (ProviderRegistry in holo_provider.rs) and the attenuation of           *)
(* capabilities along the tree of children (holo_capability.rs).           *)
(*                                                                         *)
(* The planner reads the store once per object, while other requests       *)
(* import archives into it, remove catalog entries and the disk under it   *)
(* may rot.  Archives come from the compilers of HoloCompile and from      *)
(* elsewhere (Foreign).                                                    *)
(***************************************************************************)
EXTENDS HoloCompile

CONSTANTS
    Foreign,       \* archives that other tools produced
    Grants,        \* the capability sets a trusted context may grant
    Surfaces,      \* the targets whose host publishes a portable surface
    MaxLayers, MaxApplications, MaxDepth, MaxObjects, MaxResolvedBytes,
    MaxImports,    \* bound on the imports started
    MaxRot         \* bound on the objects that rot on disk

ASSUME PlanAssumption ==
    /\ \A n \in {MaxLayers, MaxApplications, MaxDepth, MaxObjects, MaxResolvedBytes,
                  MaxImports, MaxRot} : n \in Nat
    /\ Surfaces \subseteq {"direct", "resident"}

VARIABLES
    catalog,     \* the archives with `holo` metadata
    store,       \* the objects in the content cache
    rotten,      \* those whose bytes no longer match their label
    importing,   \* the archive being imported, with the blobs still to cache
    plan         \* the planner and the admission that follows it

planVars == <<catalog, store, rotten, importing, plan>>
plannerVars == <<compileVars, planVars>>

--------------------------------------------------------------------------------
(* The catalog *)

(* inspect_bytes; an archive without a manifest is catalogued too. *)
Inspects(a) ==
    /\ RequireCurrent(a)
    /\ IF IsApp(a.manifest) THEN DirectoryVerifies(a) ELSE a.directory = "none"

NoImport(n) == [archive |-> NoArchive, blobs |-> {}, count |-> n]
Importing == importing.archive # NoArchive

(* HoloCatalog::import: every embedded blob is cached before the archive    *)
(* gets its metadata.                                                       *)
ImportStart(a) ==
    /\ ~Importing /\ importing.count < MaxImports
    /\ Inspects(a)
    /\ importing' = [archive |-> a, blobs |-> a.blobs, count |-> importing.count + 1]
    /\ UNCHANGED <<compileVars, catalog, store, rotten, plan>>

(* cache_addressed writes the object unless a file of its label is there    *)
(* already, whatever that file holds: a rotten copy stays.  The blobs of an *)
(* archive come in one order.                                               *)
CacheBlob ==
    LET o == CHOOSE o \in importing.blobs : TRUE
    IN  /\ importing.blobs # {}
        /\ store' = store \cup {o}
        /\ importing' = [importing EXCEPT !.blobs = @ \ {o}]
        /\ UNCHANGED <<compileVars, catalog, rotten, plan>>

\* Mutant: the metadata is written first and the content cached after it.
ImportEndEarly ==
    /\ Importing
    /\ catalog' = catalog \cup {importing.archive}
    /\ importing' = NoImport(importing.count)
    /\ UNCHANGED <<compileVars, store, rotten, plan>>

ImportEnd ==
    /\ Importing /\ importing.blobs = {}
    /\ catalog' = catalog \cup {importing.archive}
    /\ importing' = NoImport(importing.count)
    /\ UNCHANGED <<compileVars, store, rotten, plan>>

(* A blob that cannot be written ends the import; the blobs before it stay. *)
ImportFails ==
    /\ importing.blobs # {}
    /\ importing' = NoImport(importing.count)
    /\ UNCHANGED <<compileVars, catalog, store, rotten, plan>>

(* remove_metadata leaves the cached content where it is. *)
RemoveEntry(a) ==
    /\ a \in catalog
    /\ catalog' = catalog \ {a}
    /\ UNCHANGED <<compileVars, store, rotten, importing, plan>>

(* What rots matters when a plan reads it. *)
Rot(o) ==
    /\ o \in store \ rotten /\ Cardinality(rotten) < MaxRot
    /\ plan.phase = "resolving"
    /\ rotten' = rotten \cup {o}
    /\ plan' = [plan EXCEPT !.intact = @ \ {o}]
    /\ UNCHANGED <<compileVars, catalog, store, importing>>

--------------------------------------------------------------------------------
(* The planner *)

IdlePlan == [phase |-> "idle"]

Weight(o) ==
    IF "file" \in DOMAIN o THEN Bytes(o.file, o.version)
    ELSE IF "view" \in DOMAIN o THEN BundleBytes(o.view) ELSE 1

NoCaps == [none |-> TRUE]

Pending(index, admission, m, depth, path) ==
    [index |-> index, admission |-> admission, manifest |-> m, depth |-> depth, path |-> path]

(* The edges of one application, in the order in which they are resolved. *)
Edges(m) ==
    <<[edge |-> "requires", at |-> 0]>>
    \o [i \in DOMAIN m.layers |-> [edge |-> "layer", at |-> i]]
    \o [i \in DOMAIN m.children |-> [edge |-> "delegated", at |-> i]]

(* explain_application up to its loop: the archive has to verify.  A direct *)
(* run resolves from the archive alone; a resident one from the store too,  *)
(* and only for an archive that is catalogued.                              *)
PlanStart(a, target) ==
    /\ plan.phase = "idle"
    /\ target = "resident" => a \in catalog
    /\ IF RequireCurrent(a) /\ DirectoryVerifies(a)
       THEN plan' = [phase |-> "resolving", archive |-> a, target |-> target, grant |-> NoCaps,
                     intact |-> store \ rotten,
                     pending |-> IF MaxApplications < 1 THEN <<>>
                                 ELSE <<Pending(0, 0, a.manifest, 0, <<a.manifest>>)>>,
                     app |-> NoApp, todo |-> <<>>, delegated |-> NoCaps,
                     objects |-> {}, missing |-> {}, mismatched |-> {}, referenced |-> {},
                     bytes |-> 0, halted |-> FALSE,
                     count |-> 1, limited |-> MaxApplications < 1, layers |-> 0,
                     blockers |-> IF MaxApplications < 1 THEN <<"limit">> ELSE <<>>,
                     requested |-> NoCaps, admissions |-> <<>>,
                     grants |-> <<>>, decisions |-> <<>>]
       ELSE plan' = [IdlePlan EXCEPT !.phase = "refused"]
    /\ UNCHANGED <<compileVars, catalog, store, rotten, importing>>

(* ClosureResolver::resolve.  Found, or the blocker it reports ("" when it  *)
(* has already halted), with the caches it updates.                         *)
Embedded(o) == o \in plan.archive.blobs
Stored(o) == plan.target = "resident" /\ o \in store
Bad(o) == ~Embedded(o) /\ o \in rotten

Resolve(o) ==
    LET known == o \in plan.objects
        cached == o \in plan.missing \cup plan.mismatched
        tooMany == o \notin plan.referenced
                   /\ Cardinality(plan.referenced) + 1 > MaxObjects
        held == Embedded(o) \/ Stored(o)
        tooBig == plan.bytes + Weight(o) > MaxResolvedBytes
        outcome == CASE known -> "found"
                     [] ~known /\ cached -> IF o \in plan.missing THEN "missing" ELSE "mismatch"
                     [] ~known /\ ~cached /\ plan.halted -> "halted"
                     [] ~known /\ ~cached /\ ~plan.halted /\ tooMany -> "limit"
                     [] OTHER -> IF ~held THEN "missing"
                                 ELSE IF Bad(o) THEN "mismatch"
                                 ELSE IF tooBig THEN "limit" ELSE "found"
        fresh == ~known /\ ~cached /\ ~plan.halted
    IN  [found |-> outcome = "found",
         plan |-> [plan EXCEPT
            !.referenced = IF fresh /\ ~tooMany THEN @ \cup {o} ELSE @,
            !.objects = IF outcome = "found" THEN @ \cup {o} ELSE @,
            !.bytes = IF fresh /\ outcome = "found" THEN @ + Weight(o) ELSE @,
            !.missing = IF outcome = "missing" THEN @ \cup {o} ELSE @,
            !.mismatched = IF outcome = "mismatch" THEN @ \cup {o} ELSE @,
            !.halted = @ \/ outcome = "limit",
            !.blockers = IF outcome \in {"found", "halted"} THEN @ ELSE Append(@, outcome)]]

Resolving == plan.phase = "resolving"
Blocked(p, blocker) == [p EXCEPT !.blockers = Append(@, blocker)]

(* The head of the work list; the limit on layers ends the walk. *)
PopApplication ==
    LET app == Head(plan.pending)
        total == plan.layers + Len(app.manifest.layers)
        popped == [plan EXCEPT
            !.pending = Tail(@), !.layers = total,
            !.admissions = IF app.admission = 0 THEN @
                           ELSE [@ EXCEPT ![app.admission].layers = app.manifest.layers]]
    IN  /\ Resolving /\ plan.todo = <<>> /\ plan.pending # <<>> /\ ~plan.halted
        /\ plan' = IF total > MaxLayers
                   THEN [Blocked(popped, "limit") EXCEPT !.pending = <<>>]
                   ELSE [popped EXCEPT !.app = app, !.todo = Edges(app.manifest)]
        /\ UNCHANGED <<compileVars, catalog, store, rotten, importing>>

NextEdge(kind) == Resolving /\ plan.todo # <<>> /\ Head(plan.todo).edge = kind
Child == plan.app.manifest.children[Head(plan.todo).at]

(* The required capabilities of the root and of an admitted child are kept. *)
ResolveRequires ==
    LET o == plan.app.manifest.requires
        r == Resolve(o)
        p == [r.plan EXCEPT !.todo = Tail(@)]
    IN  /\ NextEdge("requires")
        /\ plan' = IF ~r.found THEN p
                   ELSE IF ~IsCaps(o) THEN Blocked(p, "capabilities")
                   ELSE IF plan.app.depth = 0 THEN [p EXCEPT !.requested = o]
                   ELSE IF plan.app.admission # 0
                        THEN [p EXCEPT !.admissions[plan.app.admission].requested = o]
                   ELSE p
        /\ UNCHANGED <<compileVars, catalog, store, rotten, importing>>

ResolveLayer ==
    /\ NextEdge("layer")
    /\ plan' = [Resolve(plan.app.manifest.layers[Head(plan.todo).at].content).plan
                    EXCEPT !.todo = Tail(@)]
    /\ UNCHANGED <<compileVars, catalog, store, rotten, importing>>

(* The planner that reached a limit stops before the children. *)
Halt ==
    /\ Resolving /\ plan.halted
    /\ \/ plan.todo = <<>>
       \/ NextEdge("delegated") /\ Head(plan.todo).at = 1
    /\ plan' = [plan EXCEPT !.todo = <<>>, !.pending = <<>>, !.phase = "resolved"]
    /\ UNCHANGED <<compileVars, catalog, store, rotten, importing>>

ChildCycle == \E i \in DOMAIN plan.app.path : plan.app.path[i] = Child.application
TooDeep == plan.app.depth + 1 > MaxDepth
\* Mutant: the limit is compared with the applications already admitted.
TooManyApplicationsLoose == plan.limited \/ plan.count > MaxApplications

TooManyApplications == plan.limited \/ plan.count >= MaxApplications

SkipChild ==
    /\ NextEdge("delegated") /\ ~(plan.halted /\ Head(plan.todo).at = 1)
    /\ ChildCycle \/ TooDeep \/ TooManyApplications
    /\ plan' = [plan EXCEPT
            !.todo = Tail(@),
            !.limited = @ \/ ~(ChildCycle \/ TooDeep),
            !.blockers = IF ChildCycle THEN Append(@, "cycle")
                         ELSE IF TooDeep \/ ~plan.limited THEN Append(@, "limit") ELSE @]
    /\ UNCHANGED <<compileVars, catalog, store, rotten, importing>>

ResolveDelegated ==
    LET o == Child.capabilities
        r == Resolve(o)
        p == [r.plan EXCEPT !.count = @ + 1,
                            !.todo = <<[edge |-> "child", at |-> Head(@).at]>> \o Tail(@),
                            !.delegated = NoCaps]
    IN  /\ NextEdge("delegated") /\ ~(plan.halted /\ Head(plan.todo).at = 1)
        /\ ~ChildCycle /\ ~TooDeep /\ ~TooManyApplications
        /\ plan' = IF ~r.found THEN p
                   ELSE IF ~IsCaps(o) THEN Blocked(p, "capabilities")
                   ELSE [p EXCEPT !.delegated = o]
        /\ UNCHANGED <<compileVars, catalog, store, rotten, importing>>

(* A child whose manifest decodes is walked in any case; it is admitted     *)
(* later only if its delegated capabilities were there.                     *)
ResolveChild ==
    LET o == Child.application
        r == Resolve(o)
        p == [r.plan EXCEPT !.todo = Tail(@)]
        admitted == plan.delegated # NoCaps
        admission == [parent |-> plan.app.index, index |-> plan.count - 1, app |-> o,
                      delegated |-> plan.delegated, requested |-> NoCaps, layers |-> <<>>]
    IN  /\ NextEdge("child")
        /\ plan' = IF ~r.found THEN p
                   ELSE IF ~ValidApp(o) THEN Blocked(p, "child")
                   ELSE [p EXCEPT
                       !.admissions = IF admitted THEN Append(@, admission) ELSE @,
                       !.pending = Append(@, Pending(plan.count - 1,
                            IF admitted THEN Len(plan.admissions) + 1 ELSE 0,
                            o, plan.app.depth + 1, Append(plan.app.path, o)))]
        /\ UNCHANGED <<compileVars, catalog, store, rotten, importing>>

WalkDone ==
    /\ Resolving /\ plan.todo = <<>> /\ plan.pending = <<>> /\ ~plan.halted
    /\ plan' = [plan EXCEPT !.phase = "resolved"]
    /\ UNCHANGED <<compileVars, catalog, store, rotten, importing>>

--------------------------------------------------------------------------------
(* Providers: ProviderRegistry::select and the providers' availability. *)

Offered == [direct |-> {"wasm", "rootfs", "view"}, resident |-> {"wasm", "view"}]

Available(l, target) ==
    /\ l.kind \in Offered[target]
    /\ l.kind = "wasm" => KnownContract(l.contract)
    /\ l.kind = "view" => DecodesView(l.content) /\ target \in Surfaces

(* evaluate_layer_set passes over a layer whose content was not resolved. *)
Unavailable(layers) ==
    {i \in DOMAIN layers : /\ layers[i].content \in plan.objects
                           /\ ~Available(layers[i], plan.target)}
Unresolved(layers) == {i \in DOMAIN layers : layers[i].content \notin plan.objects}

Evaluated(p) ==
    LET library == IF p.archive.manifest.primary = 0 THEN <<"library">> ELSE <<>>
        lacking == IF Unavailable(p.archive.manifest.layers) # {}
                      \/ \E i \in DOMAIN p.admissions : Unavailable(p.admissions[i].layers) # {}
                   THEN <<"provider">> ELSE <<>>
    IN  p.blockers \o library \o lacking

(* into_application_plan: the first blocker is the error; without one, what *)
(* the walk collected has to be complete.                                   *)
Lost(p) ==
    \/ p.requested = NoCaps
    \/ Unresolved(p.archive.manifest.layers) # {}
    \/ \E i \in DOMAIN p.admissions :
          p.admissions[i].requested = NoCaps \/ Unresolved(p.admissions[i].layers) # {}

IntoPlan ==
    /\ plan.phase = "resolved"
    /\ plan' = [plan EXCEPT !.blockers = Evaluated(plan),
                            !.phase = IF Evaluated(plan) # <<>> THEN "blocked"
                                      ELSE IF Lost(plan) THEN "lost" ELSE "planned"]
    /\ UNCHANGED <<compileVars, catalog, store, rotten, importing>>

--------------------------------------------------------------------------------
(* Admission: admitted_grants_with and authorize_child_delegation *)

\* Mutant: one right beyond the grant is let through.
AdmitsOneMore(grant, request) == Cardinality(request.caps \ grant.caps) <= 1

Admits(grant, request) == request.caps \subseteq grant.caps

\* authorize_child_delegation: the delegation attenuates the parent's grant, and
\* the child asks for no more than it is delegated.
AuthorizeChild(parent, c) == Admits(parent, c.delegated) /\ Admits(c.delegated, c.requested)

Decision(relation, app, allowed) ==
    [relation |-> relation, app |-> app, outcome |-> IF allowed THEN "allowed" ELSE "denied"]

AdmitRoot(grant) ==
    LET ok == Admits(grant, plan.requested)
    IN  /\ plan.phase = "planned"
        /\ plan' = [plan EXCEPT
                !.decisions = <<Decision("application_request", 0, ok)>>,
                !.grant = grant,
                !.grants = IF ok THEN (0 :> grant) ELSE <<>>,
                !.phase = IF ok THEN "admitting" ELSE "denied"]
        /\ UNCHANGED <<compileVars, catalog, store, rotten, importing>>

(* The children are admitted in the order of the walk, so a parent has its  *)
(* grant before its children are looked at.                                 *)
AdmitChild ==
    LET n == Cardinality(DOMAIN plan.grants)
        c == plan.admissions[n]
        delegates == Admits(plan.grants[c.parent], c.delegated)
        requests == Admits(c.delegated, c.requested)
        authorized == AuthorizeChild(plan.grants[c.parent], c)
        made == <<Decision("child_delegation", c.index, delegates)>>
                \o (IF delegates THEN <<Decision("application_request", c.index, requests)>> ELSE <<>>)
    IN  /\ plan.phase = "admitting" /\ n <= Len(plan.admissions)
        /\ c.parent \in DOMAIN plan.grants
        /\ plan' = [plan EXCEPT
                !.decisions = @ \o made,
                !.grants = IF authorized THEN (c.index :> c.delegated) @@ @ ELSE @,
                !.phase = IF authorized THEN @ ELSE "denied"]
        /\ UNCHANGED <<compileVars, catalog, store, rotten, importing>>

Admitted ==
    /\ plan.phase = "admitting"
    /\ Cardinality(DOMAIN plan.grants) = Len(plan.admissions) + 1
    /\ plan' = [plan EXCEPT !.phase = "admitted"]
    /\ UNCHANGED <<compileVars, catalog, store, rotten, importing>>

PlanEnd ==
    /\ plan.phase \in {"refused", "blocked", "denied", "admitted"}
    /\ plan' = IdlePlan
    /\ UNCHANGED <<compileVars, catalog, store, rotten, importing>>

--------------------------------------------------------------------------------
Archives == built \cup {a \in Foreign : ~IsApp(a.manifest)}

PlanInit ==
    /\ CompileInit
    /\ catalog = {} /\ store = {} /\ rotten = {}
    /\ importing = NoImport(0)
    /\ plan = IdlePlan

DirectArchives ==
    IF importing # NoImport(0) THEN {}
    ELSE IF compiles = 0 THEN Foreign ELSE Range(out)

PlanStep ==
    \/ \E a \in DirectArchives : PlanStart(a, "direct")
    \/ \E a \in catalog : PlanStart(a, "resident")
    \/ PopApplication \/ ResolveRequires \/ ResolveLayer \/ Halt \/ SkipChild
    \/ ResolveDelegated \/ ResolveChild \/ WalkDone
    \/ IntoPlan
    \/ \E g \in Grants : AdmitRoot(Caps(g))
    \/ AdmitChild \/ Admitted \/ PlanEnd

CompiledAll == compiles = MaxCompiles /\ TornArchive \notin Range(out)

CatalogStep ==
    \/ CompiledAll /\ \E a \in Archives : ImportStart(a)
    \/ CacheBlob \/ ImportEnd \/ ImportFails
    \/ plan = IdlePlan /\ \E a \in catalog : RemoveEntry(a)
    \/ \E o \in store : Rot(o)

(* An import and the planner read an archive once, whole, when they start,  *)
(* and write nothing a compiler reads: the steps of the two sides commute.  *)
(* The model therefore compiles first, lets the planner also meet a torn    *)
(* file, and imports any archive that was ever written.  A direct plan      *)
(* reads no store at all: it is explored before the imports, for Foreign    *)
(* archives before the compilations; a plan has read its archive when the   *)
(* entry of the catalog goes.                                               *)
Quiet == plan = IdlePlan /\ importing = NoImport(0)
Settled == \A j \in Jobs : job[j].phase \in {"idle", "writing"}

PlanNext ==
    \/ Quiet /\ (\E j \in Jobs : CompileStep(j)) /\ UNCHANGED planVars
    \/ Quiet /\ (\E f \in Files : Edit(f)) /\ UNCHANGED planVars
    \/ Settled /\ CatalogStep
    \/ Settled /\ PlanStep

--------------------------------------------------------------------------------
(* The tree an archive denotes, by unfolding its manifest: a node is the    *)
(* sequence of the positions that lead to it.                               *)

Children(o) == IF ValidApp(o) THEN o.children ELSE <<>>
Along(m, node) ==
    LET app[n \in 0 .. Len(node)] ==
            IF n = 0 THEN m ELSE app[n - 1].children[node[n]].application
    IN  app
AppAt(m, node) == Along(m, node)[Len(node)]
Edge(m, node) == AppAt(m, Front(node)).children[Last(node)]

Level(m) ==
    LET level[n \in 0 .. MaxDepth + 1] ==
            IF n = 0 THEN {<<>>}
            ELSE UNION {{Append(p, i) : i \in DOMAIN Children(AppAt(m, p))} : p \in level[n - 1]}
    IN  level

Tree(m) == UNION Range(Level(m))
Inner(m) == Tree(m) \ {<<>>}
Sound(m) == {p \in Tree(m) : ValidApp(AppAt(m, p))}
TreeLayers(m) == UNION {{<<p, i>> : i \in DOMAIN AppAt(m, p).layers} : p \in Sound(m)}
LayerAt(m, l) == AppAt(m, l[1]).layers[l[2]]

Needs(m) ==
    {AppAt(m, p) : p \in Inner(m)} \cup {Edge(m, p).capabilities : p \in Inner(m)}
    \cup {AppAt(m, p).requires : p \in Sound(m)}
    \cup {LayerAt(m, l).content : l \in TreeLayers(m)}

(* What decodes has finite lists, and an object has a length. *)
WellFormed(m) ==
    /\ \A p \in Sound(m) : ListOf(AppAt(m, p).layers) /\ ListOf(AppAt(m, p).children)
    /\ \A o \in Needs(m) : Weight(o) \in Nat

ASSUME ForeignAssumption ==
    \A a \in Foreign : RequireCurrent(a) /\ ValidApp(a.manifest) => WellFormed(a.manifest)

Plannable(a, held, target) ==
    LET m == a.manifest
    IN  /\ m.primary # 0
        /\ Level(m)[MaxDepth + 1] = {} /\ Cardinality(Tree(m)) <= MaxApplications
        /\ Sound(m) = Tree(m)
        /\ \A p \in Tree(m) : IsCaps(AppAt(m, p).requires)
        /\ \A p \in Inner(m) : IsCaps(Edge(m, p).capabilities)
        /\ Cardinality(TreeLayers(m)) <= MaxLayers
        /\ \A l \in TreeLayers(m) : Available(LayerAt(m, l), target)
        /\ Needs(m) \subseteq a.blobs \cup (IF target = "resident" THEN held ELSE {})
        /\ Cardinality(Needs(m)) <= MaxObjects
        /\ MapThenSumSet(Weight, Needs(m)) <= MaxResolvedBytes

(* PlanIsExact: the planner (explain_application, evaluate_providers and    *)
(* into_application_plan) never loses what it collected; it plans an        *)
(* application only if the whole tree resolves, decodes, has providers and  *)
(* stays within the limits, and it reports a blocker only if that was not   *)
(* so with the objects that were intact all along, however the store        *)
(* changes between two of its reads.                                        *)
PlanIsExact ==
    /\ plan.phase # "lost"
    /\ plan.phase \in {"planned", "admitting", "admitted", "denied"} =>
          Plannable(plan.archive, store, plan.target)
    /\ plan.phase = "blocked" => ~Plannable(plan.archive, plan.intact, plan.target)

(* Every application of the tree requests no more than it is granted, and  *)
(* every delegation attenuates the grant of the application it comes from. *)
Attenuated(m, grant) ==
    LET granted(p) == IF p = <<>> THEN grant ELSE Edge(m, p).capabilities
    IN  /\ \A p \in Tree(m) : AppAt(m, p).requires.caps \subseteq granted(p).caps
        /\ \A p \in Inner(m) : granted(p).caps \subseteq granted(Front(p)).caps

(* AdmissionIsExact: an application is admitted exactly when the requests   *)
(* and delegations of its whole tree attenuate the grant                    *)
(* (admitted_grants_with); the log of decisions ends with the denial if      *)
(* there is one, and otherwise has every decision.                          *)
AdmissionIsExact ==
    /\ plan.phase = "admitted" => /\ Attenuated(plan.archive.manifest, plan.grant)
                                  /\ \A i \in DOMAIN plan.decisions :
                                        plan.decisions[i].outcome = "allowed"
                                  /\ Len(plan.decisions)
                                        = 2 * Cardinality(Tree(plan.archive.manifest)) - 1
    /\ plan.phase = "denied" => /\ ~Attenuated(plan.archive.manifest, plan.grant)
                                /\ \A i \in DOMAIN plan.decisions :
                                      plan.decisions[i].outcome = "denied"
                                        <=> i = Len(plan.decisions)

(* ArchivesAreWhole: an archive that the compiler writes with its content   *)
(* carries everything its tree of children needs (compile_child's check of  *)
(* self-containedness), whatever was compiled, edited or torn meanwhile;    *)
(* and a catalogued archive has its content in the cache, also after an     *)
(* import that broke off (HoloCatalog::import).                             *)
ArchivesAreWhole ==
    /\ \A s \in Specs : RequireCurrent(out[s]) /\ out[s].blobs # {} =>
          Needs(out[s].manifest) \subseteq out[s].blobs
    /\ \A a \in catalog : a.blobs \subseteq store
================================================================================
