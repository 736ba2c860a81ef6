--------------------------- MODULE ArtifactRegistry ---------------------------
(***************************************************************************)
(* The clients of an external kappa-registry: publishing and fetching      *)
(* named artifacts (artifact_push.rs, artifact_pull.rs,                    *)
(* artifact_manifest.rs, artifact_ref.rs), the registry provider of a      *)
(* daemon with its metadata cache (registry/kappa.rs) and the reassembly   *)
(* of chunked files (repo_manifest.rs).                                    *)
(*                                                                         *)
(* Requests run concurrently, on several nodes, and every one of them      *)
(* makes several calls to the server; a call may fail, before or after it  *)
(* took effect.  The server keeps tags that anybody may move, accepts      *)
(* manifests whose layers it does not hold, and may lose or corrupt a      *)
(* blob.                                                                   *)
(***************************************************************************)
EXTENDS RepoManifest

CONSTANTS
    Tasks,          \* concurrent requests
    Nodes,          \* machines, each with a content store and a daemon
    OpsOf,          \* the operations each task may be asked for
    Pushable,       \* archives: [blob, layers], the layers not embedded
    Blobs,          \* labels of archives and payloads
    InputRefs,      \* artifact references as users write them
    Endpoint, Namespace,    \* registry.endpoint and registry.namespace
    Published,      \* manifests other tools publish
    Objects,        \* kappas of provider objects, ordered
    OtherTags,      \* tags of the namespace that name no object, in that order
    Kind,           \* the kind each object is stored under
    Stocked,        \* the nodes whose content store has every payload
    Existing,       \* the objects the registry starts with
    Repos,          \* repository manifests that reassembly is asked for
    Names,          \* file names
    Limit, PageSize, MaxScanPages, MetadataEntries,
    MaxOps, MaxFaults    \* bounds on the requests and on the server's faults

ASSUME RegistryAssumption ==
    /\ \A n \in {Limit, PageSize, MaxScanPages, MetadataEntries} : n \in Nat \ {0}
    /\ MaxOps \in Nat /\ MaxFaults \in Nat
    /\ Objects \cap OtherTags = {} /\ (Objects \cup OtherTags) \subseteq Nat \ {0}
    /\ IsFiniteSet(Objects \cup OtherTags) /\ IsFiniteSet(Blobs)
    /\ Blobs \subseteq Nat /\ Pushable \subseteq [blob : Blobs, layers : SUBSET Blobs]
    /\ Published \subseteq
          [by : {"other"}, archive : Blobs,
           layers : Seq([blob : Blobs, role : {"archive", "layer"}, axis : STRING])]

VARIABLES
    tags,       \* the server's artifact tags: repository and tag to manifest
    held,       \* the server's blobs by repository: absent, good or bad
    faults,     \* the blobs it lost or corrupted
    sidecar,    \* the server's object manifests
    contentStore, \* the content store of each node
    cache,      \* the provider's fresh metadata records on each node
    ops,        \* requests so far
    task        \* what each task is doing

registryVars == <<tags, held, faults, sidecar, contentStore, cache, ops, task>>

None == [none |-> TRUE]

(* A set of numbers in ascending order. *)
Ascending(S) == [i \in 1 .. Cardinality(S) |-> CHOOSE x \in S : Cardinality({y \in S : y < x}) = i - 1]

--------------------------------------------------------------------------------
(* References and manifests *)

(* ArtifactRef::parse: every part is given, absent ("none") or malformed    *)
(* ("bad"); the defaults come from the configuration.  The client sends     *)
(* every request to its configured endpoint: of the reference only the      *)
(* repository and the tag reach it, the host is checked and shown.          *)
Default(part, value) == IF part = "none" THEN value ELSE part

ParseRef(in) ==
    LET ref == [host |-> Default(in.host, Endpoint),
                namespace |-> Default(in.namespace, Namespace),
                name |-> in.name, tag |-> Default(in.tag, "latest")]
    IN  IF \A part \in DOMAIN ref : ref[part] \notin {"bad", "none"}
        THEN [repository |-> <<ref.namespace, ref.name>>, tag |-> ref.tag] ELSE None

Refs == {ParseRef(in) : in \in InputRefs} \ {None}
RepoNames == {ref.repository : ref \in Refs}
TagNames == {<<ref.repository, ref.tag>> : ref \in Refs}
Home == <<Namespace>>

(* external_payloads: the content of the archive's layers that it does not  *)
(* embed, in label order.                                                   *)
ExternalPayloads(a) == Ascending(a.layers)

(* The manifest push builds: the archive, then the payloads. *)
ManifestOf(a) ==
    [by |-> "push", archive |-> a.blob,
     layers |-> <<[blob |-> a.blob, role |-> "archive", axis |-> "blake3"]>>
                \o [i \in DOMAIN ExternalPayloads(a) |->
                       [blob |-> ExternalPayloads(a)[i], role |-> "layer", axis |-> "blake3"]]]

(* ArtifactManifest::decode and ::archive. *)
ManifestDecodes(m) ==
    /\ \A i \in DOMAIN m.layers : m.layers[i].axis = "blake3"
    /\ Cardinality({i \in DOMAIN m.layers : m.layers[i].role = "archive"}) = 1

--------------------------------------------------------------------------------
(* Requests *)

Idle(t) == task[t].pc \in {"idle", "done", "failed"}

Begin(t, op) ==
    /\ Idle(t) /\ ops < MaxOps /\ op.op \in OpsOf[t]
    /\ ops' = ops + 1
    /\ task' = [task EXCEPT ![t] = op]

Busy == \E t \in Tasks : ~Idle(t)

(* A request that ends keeps only what it reports. *)
Ended(t, pc) ==
    IF pc = "failed" \/ (pc = "done" /\ task[t].op \in {"push", "put", "rename"})
    THEN [op |-> "none", pc |-> pc] ELSE [task[t] EXCEPT !.pc = pc]

Goto(t, pc) == task' = [task EXCEPT ![t] = Ended(t, pc)]

(* A call that fails, a client that crashes: the request ends where it is.  *)
Fails(t) ==
    /\ ~Idle(t)
    /\ Goto(t, "failed")
    /\ UNCHANGED <<tags, held, faults, sidecar, contentStore, cache, ops>>

(* The server itself.  It takes any manifest from anybody.  What it does    *)
(* matters to the requests under way, as does the passing of time.          *)
ForeignPublish(tag, m) ==
    /\ Busy /\ Cardinality(faults) < MaxFaults
    /\ faults' = faults \cup {<<tag[1], 0>>}
    /\ tags' = [tags EXCEPT ![tag] = m]
    /\ UNCHANGED <<held, sidecar, contentStore, cache, ops, task>>

ServerFault(place, state) ==
    /\ held[place] = "good" /\ Busy /\ Cardinality(faults) < MaxFaults
    /\ held' = [held EXCEPT ![place] = state]
    /\ faults' = faults \cup {place}
    /\ UNCHANGED <<tags, sidecar, contentStore, cache, ops, task>>

PutBlob(place) == held' = [held EXCEPT ![place] = "good"]

--------------------------------------------------------------------------------
(* push *)

Push(t, n, a, in, force) ==
    /\ ParseRef(in) # None
    /\ Begin(t, [op |-> "push", pc |-> "check", node |-> n, archive |-> a, ref |-> ParseRef(in),
                 force |-> force, left |-> ExternalPayloads(a)])
    /\ UNCHANGED <<tags, held, faults, sidecar, contentStore, cache>>

TagOf(t) == <<task[t].ref.repository, task[t].ref.tag>>
PlaceOf(t, b) == <<task[t].ref.repository, b>>

(* What the server answers about a tag and a blob of a repository. *)
TagExists(t) == tags[TagOf(t)] # None
ManifestAt(t) == tags[TagOf(t)]
Fetched(t, b) == held[PlaceOf(t, b)]

(* The payloads are read from the publisher's store. *)
GathersPayloads(t) == \A b \in task[t].archive.layers : contentStore[task[t].node][b] # "absent"

(* tag_exists, then the payloads are gathered: nothing has been written yet *)
(* when either refuses.                                                     *)
PushCheck(t) ==
    /\ task[t].op = "push" /\ task[t].pc = "check"
    /\ Goto(t, IF (TagExists(t) => task[t].force) /\ GathersPayloads(t)
               THEN "archive" ELSE "failed")
    /\ UNCHANGED <<tags, held, faults, sidecar, contentStore, cache, ops>>

PushArchive(t) ==
    /\ task[t].op = "push" /\ task[t].pc = "archive"
    /\ PutBlob(PlaceOf(t, task[t].archive.blob))
    /\ Goto(t, "payload")
    /\ UNCHANGED <<tags, faults, sidecar, contentStore, cache, ops>>

PushPayload(t) ==
    /\ task[t].op = "push" /\ task[t].pc = "payload" /\ task[t].left # <<>>
    /\ PutBlob(PlaceOf(t, Head(task[t].left)))
    /\ task' = [task EXCEPT ![t].left = Tail(@)]
    /\ UNCHANGED <<tags, faults, sidecar, contentStore, cache, ops>>

\* Mutant: the manifest is published while payloads are still to come.
PushManifestEarly(t) ==
    /\ task[t].op = "push" /\ task[t].pc = "payload"
    /\ tags' = [tags EXCEPT ![TagOf(t)] = ManifestOf(task[t].archive)]
    /\ Goto(t, "done")
    /\ UNCHANGED <<held, faults, sidecar, contentStore, cache, ops>>

(* The manifest goes last. *)
PushManifest(t) ==
    /\ task[t].op = "push" /\ task[t].pc = "payload" /\ task[t].left = <<>>
    /\ tags' = [tags EXCEPT ![TagOf(t)] = ManifestOf(task[t].archive)]
    /\ Goto(t, "done")
    /\ UNCHANGED <<held, faults, sidecar, contentStore, cache, ops>>

--------------------------------------------------------------------------------
(* pull *)

Pull(t, n, in) ==
    /\ ParseRef(in) # None
    /\ Begin(t, [op |-> "pull", pc |-> "resolve", node |-> n, ref |-> ParseRef(in),
                 manifest |-> None, at |-> 1])
    /\ UNCHANGED <<tags, held, faults, sidecar, contentStore, cache>>

PullResolve(t) ==
    LET m == ManifestAt(t)
    IN  /\ task[t].op = "pull" /\ task[t].pc = "resolve"
        /\ IF m # None /\ ManifestDecodes(m)
           THEN task' = [task EXCEPT ![t].pc = "layers", ![t].manifest = m]
           ELSE Goto(t, "failed")
        /\ UNCHANGED <<tags, held, faults, sidecar, contentStore, cache, ops>>

PullLayerOf(t) == task[t].manifest.layers[task[t].at].blob

\* Mutant: the bytes are stored under the label they were asked for.
AdmitsBytesAny(state) == state \in {"good", "bad"}

(* cache_addressed hashes the bytes before it stores them. *)
AdmitsBytes(state) == state = "good"

(* One layer: present already, or fetched from the repository of the        *)
(* reference and verified.  A layer the server lacks or serves corrupt ends *)
(* the pull.                                                                *)
PullLayer(t) ==
    LET n == task[t].node
        b == PullLayerOf(t)
    IN  /\ task[t].op = "pull" /\ task[t].pc = "layers" /\ task[t].at <= Len(task[t].manifest.layers)
        /\ \/ /\ contentStore[n][b] # "absent"
              /\ task' = [task EXCEPT ![t].at = @ + 1]
              /\ UNCHANGED contentStore
           \/ /\ contentStore[n][b] = "absent" /\ AdmitsBytes(Fetched(t, b))
              /\ contentStore' = [contentStore EXCEPT ![n][b] = Fetched(t, b)]
              /\ task' = [task EXCEPT ![t].at = @ + 1]
           \/ /\ contentStore[n][b] = "absent" /\ ~AdmitsBytes(Fetched(t, b))
              /\ Goto(t, "failed")
              /\ UNCHANGED contentStore
        /\ UNCHANGED <<tags, held, faults, sidecar, cache, ops>>

\* Mutant: the report resolves the tag once more.
ReportedAgain(t) == tags[TagOf(t)]

(* The manifest whose digest the report records: the one resolved at the    *)
(* start, whatever the tag has become.                                      *)
Reported(t) == task[t].manifest

PullReport(t) ==
    /\ task[t].op = "pull" /\ task[t].pc = "layers" /\ task[t].at > Len(task[t].manifest.layers)
    /\ IF \A i \in DOMAIN task[t].manifest.layers :
             contentStore[task[t].node][task[t].manifest.layers[i].blob] # "absent"
       THEN task' = [task EXCEPT ![t].pc = "done", ![t].manifest = Reported(t)]
       ELSE Goto(t, "failed")
    /\ UNCHANGED <<tags, held, faults, sidecar, contentStore, cache, ops>>

--------------------------------------------------------------------------------
(* The provider: one blob and one sidecar manifest per object *)

HasRecord(o) == sidecar[o] # None

(* A record the cache serves, and the manifest and the blob of an object as *)
(* the server has them.                                                     *)
Cached(n, o) == o \in DOMAIN cache[n]
GetManifest(o) == sidecar[o]
GetBlob(o) == held[<<Home, o>>]

(* remember: a full cache is started again.  An expired record only counts  *)
(* towards the bound and goes first, so it is one the cache does not have.  *)
Remember(n, o, record) ==
    LET kept == IF Cardinality(DOMAIN cache[n]) >= MetadataEntries /\ o \notin DOMAIN cache[n]
                THEN <<>> ELSE cache[n]
    IN  cache' = [cache EXCEPT ![n] = [p \in {o} \cup DOMAIN kept |-> IF p = o THEN record ELSE kept[p]]]

(* METADATA_TTL passes. *)
Expire(n, o) ==
    /\ o \in DOMAIN cache[n] /\ Busy
    /\ cache' = [cache EXCEPT ![n] = [p \in DOMAIN @ \ {o} |-> @[p]]]
    /\ UNCHANGED <<tags, held, faults, sidecar, contentStore, ops, task>>

(* put_object, get_object and rename_file start with the object's record.   *)
ObjectRequest(t, n, op, o, name) ==
    /\ op = "rename" => name # ""
    /\ Begin(t, [op |-> op, pc |-> "lookup", node |-> n, object |-> o, name |-> name,
                 record |-> None, fill |-> FALSE])
    /\ UNCHANGED <<tags, held, faults, sidecar, contentStore, cache>>

(* metadata_by_tag, first half: the cache, or else the server. *)
Lookup(t) ==
    LET n == task[t].node
        o == task[t].object
        hit == Cached(n, o)
    IN  /\ task[t].op \in {"put", "get", "rename"} /\ task[t].pc = "lookup"
        /\ task' = [task EXCEPT ![t].pc = "looked", ![t].fill = ~hit /\ HasRecord(o),
                                ![t].record = IF hit THEN cache[n][o] ELSE GetManifest(o)]
        /\ UNCHANGED <<tags, held, faults, sidecar, contentStore, cache, ops>>

(* Second half: what the server said is remembered, then the operation goes *)
(* on.  A put takes the creation time of the record it found and the clock  *)
(* when it found none.                                                      *)
Fill(t) == IF task[t].fill THEN Remember(task[t].node, task[t].object, task[t].record)
           ELSE UNCHANGED cache

PutLooked(t) ==
    /\ task[t].op = "put" /\ task[t].pc = "looked"
    /\ task' = [task EXCEPT ![t].pc = "blob",
                   ![t].record = [name |-> task[t].name,
                                  created |-> IF @ = None THEN ops ELSE @.created]]
    /\ Fill(t)
    /\ UNCHANGED <<tags, held, faults, sidecar, contentStore, ops>>

(* A record that cannot be read counts as none. *)
PutLookupFails(t) ==
    /\ task[t].op = "put" /\ task[t].pc = "lookup"
    /\ task' = [task EXCEPT ![t].pc = "blob", ![t].record = [name |-> task[t].name, created |-> ops]]
    /\ UNCHANGED <<tags, held, faults, sidecar, contentStore, cache, ops>>

PutObjectBlob(t) ==
    /\ task[t].op = "put" /\ task[t].pc = "blob"
    /\ PutBlob(<<Home, task[t].object>>)
    /\ Goto(t, "sidecar")
    /\ UNCHANGED <<tags, faults, sidecar, contentStore, cache, ops>>

RenameLooked(t) ==
    /\ task[t].op = "rename" /\ task[t].pc = "looked"
    /\ IF task[t].record # None /\ Kind[task[t].object] = "file"
       THEN task' = [task EXCEPT ![t].pc = "sidecar", ![t].record.name = task[t].name]
       ELSE Goto(t, "failed")
    /\ Fill(t)
    /\ UNCHANGED <<tags, held, faults, sidecar, contentStore, ops>>

PutSidecar(t) ==
    /\ task[t].op \in {"put", "rename"} /\ task[t].pc = "sidecar"
    /\ sidecar' = [sidecar EXCEPT ![task[t].object] = task[t].record]
    /\ Goto(t, "remember")
    /\ UNCHANGED <<tags, held, faults, contentStore, cache, ops>>

PutRemember(t) ==
    /\ task[t].op \in {"put", "rename"} /\ task[t].pc = "remember"
    /\ Remember(task[t].node, task[t].object, task[t].record)
    /\ Goto(t, "done")
    /\ UNCHANGED <<tags, held, faults, sidecar, contentStore, ops>>

(* get_object: the record, the blob, verify_content. *)
GetLooked(t) ==
    /\ task[t].op = "get" /\ task[t].pc = "looked"
    /\ Goto(t, IF task[t].record = None THEN "failed" ELSE "blob")
    /\ Fill(t)
    /\ UNCHANGED <<tags, held, faults, sidecar, contentStore, ops>>

GetObjectBlob(t) ==
    LET state == GetBlob(task[t].object)
    IN  /\ task[t].op = "get" /\ task[t].pc = "blob"
        /\ task' = [task EXCEPT ![t].pc = IF AdmitsBytes(state) THEN "done" ELSE "failed",
                                ![t].name = state]
        /\ UNCHANGED <<tags, held, faults, sidecar, contentStore, cache, ops>>

--------------------------------------------------------------------------------
(* Search: the pages of a tag walk, and the cursors a caller follows *)

Listed == OtherTags \cup {o \in Objects : HasRecord(o)}

(* KappaClient::list_tags; a full page implies that more may remain. *)
ListTags(after) ==
    LET rest == Ascending({tag \in Listed : tag > after})
        page == SubSeq(rest, 1, IF Len(rest) < PageSize THEN Len(rest) ELSE PageSize)
    IN  [page |-> page, next |-> IF Len(page) = PageSize THEN Last(page) ELSE 0]

Search(t, n, kind) ==
    /\ Begin(t, [op |-> "search", pc |-> "list", node |-> n, kind |-> kind, cursor |-> 0,
                 pages |-> 0, page |-> <<>>, next |-> 0, batch |-> <<>>, all |-> <<>>,
                 truncated |-> FALSE, present |-> {o \in Objects : HasRecord(o) /\ Kind[o] = kind}])
    /\ UNCHANGED <<tags, held, faults, sidecar, contentStore, cache>>

(* The page of results goes out; a caller that got a cursor asks again.     *)
Answer(t, cursor, truncated) ==
    task' = [task EXCEPT ![t].all = @ \o task[t].batch, ![t].batch = <<>>, ![t].pages = 0,
                         ![t].page = <<>>, ![t].cursor = cursor, ![t].next = 0,
                         ![t].truncated = @ \/ truncated,
                         ![t].pc = IF cursor = 0 THEN "done" ELSE "list"]

LastOf(batch) == IF batch = <<>> THEN 0 ELSE Last(batch)

SearchList(t) ==
    LET got == ListTags(task[t].cursor)
    IN  /\ task[t].op = "search" /\ task[t].pc = "list"
        /\ IF task[t].pages = MaxScanPages THEN Answer(t, LastOf(task[t].batch), TRUE)
           ELSE IF got.page = <<>> THEN Answer(t, 0, FALSE)
           ELSE task' = [task EXCEPT ![t].pc = "scan", ![t].pages = @ + 1,
                                     ![t].page = got.page, ![t].next = got.next]
        /\ UNCHANGED <<tags, held, faults, sidecar, contentStore, cache, ops>>

\* Mutant: the cursor of a full page is the match that did not fit.
FullCursorLate(batch, tag) == tag

(* The cursor of a full page: its last object. *)
FullCursor(batch, tag) == Last(batch)

(* ObjectQuery::matches; the filters are stood for by the kind. *)
Matches(t, tag) == tag \in Objects /\ Kind[tag] = task[t].kind

(* One tag of the page: not an object, not a match, one match too many, or  *)
(* a match.  The record comes through the cache.                            *)
SearchTag(t) ==
    LET tag == Head(task[t].page)
        match == Matches(t, tag)
    IN  /\ task[t].op = "search" /\ task[t].pc = "scan" /\ task[t].page # <<>>
        /\ IF match /\ Len(task[t].batch) = Limit
           THEN Answer(t, FullCursor(task[t].batch, tag), FALSE)
           ELSE task' = [task EXCEPT ![t].page = Tail(@),
                                     ![t].batch = IF match THEN Append(@, tag) ELSE @]
        /\ IF tag \in Objects /\ ~Cached(task[t].node, tag)
           THEN Remember(task[t].node, tag, GetManifest(tag)) ELSE UNCHANGED cache
        /\ UNCHANGED <<tags, held, faults, sidecar, contentStore, ops>>

SearchNext(t) ==
    /\ task[t].op = "search" /\ task[t].pc = "scan" /\ task[t].page = <<>>
    /\ IF task[t].next = 0 THEN Answer(t, 0, FALSE)
       ELSE task' = [task EXCEPT ![t].pc = "list", ![t].cursor = task[t].next]
    /\ UNCHANGED <<tags, held, faults, sidecar, contentStore, cache, ops>>

--------------------------------------------------------------------------------
(* Reassembling a file of a repository manifest *)

Assemble(t, repo, i) ==
    /\ Begin(t, [op |-> "assemble", pc |-> "chunks", file |-> repo.files[i], at |-> 1,
                 sink |-> <<>>])
    /\ Decodes(repo)
    /\ UNCHANGED <<tags, held, faults, sidecar, contentStore, cache>>

(* The fetch closure answers with the chunk, with other bytes of the same   *)
(* or another length, or not at all.                                        *)
AssembleChunk(t) ==
    LET chunk == task[t].file.chunks[task[t].at]
        right == chunk.kappa.kappa
    IN  /\ task[t].op = "assemble" /\ task[t].pc = "chunks" /\ task[t].at <= Len(task[t].file.chunks)
        /\ \E bytes \in {right, Reverse(right), Append(right, 0)} :
              IF ChunkVerifies(chunk, bytes)
              THEN task' = [task EXCEPT ![t].at = @ + 1, ![t].sink = @ \o bytes]
              ELSE Goto(t, "failed")
        /\ UNCHANGED <<tags, held, faults, sidecar, contentStore, cache, ops>>

AssembleEnd(t) ==
    /\ task[t].op = "assemble" /\ task[t].pc = "chunks" /\ task[t].at > Len(task[t].file.chunks)
    /\ Goto(t, IF WholeVerifies(task[t].file, task[t].sink) THEN "done" ELSE "failed")
    /\ UNCHANGED <<tags, held, faults, sidecar, contentStore, cache, ops>>

--------------------------------------------------------------------------------
Places == (RepoNames \X Blobs) \cup ({Home} \X Objects)

RegistryInit ==
    /\ tags = [tag \in TagNames |-> None]
    /\ held = [place \in Places |-> IF place[2] \in Existing /\ place[1] = Home THEN "good" ELSE "absent"]
    /\ faults = {}
    /\ sidecar = [o \in Objects |-> IF o \in Existing THEN [name |-> "a", created |-> 0] ELSE None]
    /\ contentStore = [n \in Nodes |-> [b \in Blobs |-> IF n \in Stocked THEN "good" ELSE "absent"]]
    /\ cache = [n \in Nodes |-> <<>>]
    /\ ops = 0
    /\ task = [t \in Tasks |-> [op |-> "none", pc |-> "idle"]]

Step(t) ==
    \/ PushCheck(t) \/ PushArchive(t) \/ PushPayload(t) \/ PushManifest(t)
    \/ PullResolve(t) \/ PullLayer(t) \/ PullReport(t)
    \/ Lookup(t) \/ PutLooked(t) \/ PutLookupFails(t) \/ PutObjectBlob(t) \/ RenameLooked(t)
    \/ PutSidecar(t) \/ PutRemember(t) \/ GetLooked(t) \/ GetObjectBlob(t)
    \/ SearchList(t) \/ SearchTag(t) \/ SearchNext(t)
    \/ AssembleChunk(t) \/ AssembleEnd(t)
    \/ Fails(t)

Request(t) ==
    \/ \E n \in Nodes, a \in Pushable, in \in InputRefs, force \in BOOLEAN : Push(t, n, a, in, force)
    \/ \E n \in Nodes, in \in InputRefs : Pull(t, n, in)
    \/ \E n \in Nodes, op \in {"put", "get", "rename"}, o \in Objects, name \in Names :
          ObjectRequest(t, n, op, o, name)
    \/ \E n \in Nodes, kind \in {Kind[o] : o \in Objects} : Search(t, n, kind)
    \/ \E repo \in Repos : \E i \in DOMAIN repo.files : Assemble(t, repo, i)

RegistryNext ==
    \/ \E t \in Tasks : Request(t) \/ Step(t)
    \/ \E tag \in TagNames, m \in Published : ForeignPublish(tag, m)
    \/ \E place \in Places, state \in {"absent", "bad"} : ServerFault(place, state)
    \/ \E n \in Nodes, o \in Objects : Expire(n, o)

--------------------------------------------------------------------------------
(* Properties *)

(* A tag that push wrote names only blobs that the server was given before, *)
(* whatever happened to the push: an interrupted one leaves blobs without a *)
(* tag, never a tag without its blobs.  Only what the server itself lost or *)
(* damaged may be missing.                                                  *)
PushedTagsResolve ==
    \A tag \in TagNames :
       tags[tag] # None /\ tags[tag].by = "push" =>
          \A i \in DOMAIN tags[tag].layers :
             LET place == <<tag[1], tags[tag].layers[i].blob>>
             IN  held[place] = "good" \/ place \in faults

(* A pull that reports success has every layer of the manifest it reports   *)
(* in the node's store, however the tag moved meanwhile and whatever the    *)
(* server lost: the report names one published version and that version is  *)
(* there.                                                                   *)
PulledIsComplete ==
    \A t \in Tasks :
       task[t].op = "pull" /\ task[t].pc = "done" =>
          \A i \in DOMAIN task[t].manifest.layers :
             contentStore[task[t].node][task[t].manifest.layers[i].blob] # "absent"

(* Bytes that the server damaged never enter a content store and are never  *)
(* served to a client, and a reassembled file is the one whose address the  *)
(* manifest gives: for a manifest that lists valid chunks of another file   *)
(* as much as for a fetch that answers with other bytes.                    *)
ContentIsVerified ==
    /\ \A n \in Nodes, b \in Blobs : contentStore[n][b] # "bad"
    /\ \A t \in Tasks : task[t].op = "get" /\ task[t].pc = "done" => task[t].name = "good"
    /\ \A t \in Tasks :
          task[t].op = "assemble" /\ task[t].pc = "done" => KappaOf(task[t].sink) = task[t].file.blake3

(* A search whose cursors were followed to the end, and that was never      *)
(* reported truncated, found every matching object that was there when it   *)
(* began, each exactly once and in order, while others wrote objects,       *)
(* records expired and the cache was started again.                         *)
SearchIsComplete ==
    \A t \in Tasks :
       task[t].op = "search" /\ task[t].pc = "done" =>
          /\ ~task[t].truncated => task[t].present \subseteq ToSet(task[t].all)
          /\ \A i, j \in DOMAIN task[t].all : i < j => task[t].all[i] < task[t].all[j]
================================================================================
