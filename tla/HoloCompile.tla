------------------------------ MODULE HoloCompile ------------------------------
(***************************************************************************)
(* `hologram compile`: from a source manifest and the files it names to a  *)
(* `.holo` archive (compile.rs, cli/compile.rs), with the canonical        *)
(* payload of View layers (holo_view.rs), the capability sources           *)
(* (holo_capability.rs), the archive directory (holo_directory.rs) and the *)
(* guest contracts (holo_contract.rs).                                     *)
(*                                                                         *)
(* A content label (a BLAKE3 kappa) is taken to be injective, so the model *)
(* uses an object itself as its label: an application manifest contains    *)
(* its children, and a cycle of labels cannot exist.  The four kinds of    *)
(* object are told apart by their fields: [caps], [file, version], [view]  *)
(* and [primary, requires, layers, children].                              *)
(*                                                                         *)
(* Compilers are processes that share the disk with a developer who edits  *)
(* the sources, and with each other: a parent reads the archive that the   *)
(* compilation of a child writes.                                          *)
(***************************************************************************)
EXTENDS Integers, FiniteSets, Sequences, SequencesExt, FiniteSetsExt, Functions

CONSTANTS
    Jobs,          \* the compiler processes
    Specs,         \* names of the source manifests; Manifest[s] is s's text
    Manifest,
    Files,         \* the files layers and View directories are read from
    Size,          \* Size[f][v]: length of f in its version v, for each version it gets
    MaxCompiles,   \* bound on the compilations started
    Portable,      \* the files whose path inside a View is portable
    Fold,          \* Fold[f]: that path in lower case
    Entry,         \* the files called index.html at the top of a View
    MaxFiles, MaxFileBytes, MaxBundleBytes    \* the limits of holo_view.rs

\* A list: manifests are read from documents that end.
ListOf(s) == s \in Seq(Range(s))

ASSUME CompileAssumption ==
    /\ MaxCompiles \in Nat
    /\ DOMAIN Size = Files /\ \A f \in Files : Size[f] \in Seq(Nat) \ {<<>>}
    /\ Fold \in [Files -> Files]
    /\ Portable \subseteq Files /\ Entry \subseteq Files
    /\ \A s \in Specs :
          /\ ListOf(Manifest[s].layers) /\ ListOf(Manifest[s].children)
          /\ \A i \in DOMAIN Manifest[s].layers :
                LET l == Manifest[s].layers[i]
                IN  l.kind # "view" \/ l.from # "path" => l.file \in Files
          /\ \A i \in DOMAIN Manifest[s].children :
                Manifest[s].children[i].application \in Specs

VARIABLES
    disk,      \* disk[f]: the version of file f
    out,       \* out[s]: the archive file of manifest s
    job,       \* job[j]: what compiler j is doing
    built,     \* every archive that was written: copies of it may be anywhere
    compiles   \* the number of compilations started

compileVars == <<disk, out, job, built, compiles>>

--------------------------------------------------------------------------------
(* Objects *)

Caps(rights) == [caps |-> rights]
Content(f, v) == [file |-> f, version |-> v]
View(files) == [view |-> files]
App(primary, requires, layers, children) ==
    [primary |-> primary, requires |-> requires, layers |-> layers, children |-> children]

IsCaps(o) == "caps" \in DOMAIN o
IsApp(o) == "layers" \in DOMAIN o

(* AppManifest::validate of the hologram crate: the primary position, where *)
(* there is one (0 stands for none), names a layer.                         *)
ValidApp(o) == IsApp(o) /\ o.primary \in 0 .. Len(o.layers)

NoApp == [app |-> "none"]
NoArchive == [format |-> 0]
TornArchive == [format |-> 1]
CurrentVersion == 4

(* What every object of the manifest m names: Realization::references. *)
References(m) ==
    {m.requires} \cup {m.layers[i].content : i \in DOMAIN m.layers}
                 \cup {m.children[i].application : i \in DOMAIN m.children}
                 \cup {m.children[i].capabilities : i \in DOMAIN m.children}

Archive(m, blobs) ==
    [format |-> CurrentVersion, manifest |-> m, blobs |-> blobs,
     labelled |-> TRUE, directory |-> "derived"]

(* Archives with a footer that verifies and the current version. *)
RequireCurrent(a) == a.format = CurrentVersion

CoreContract == "core@1"
ComponentContracts ==
    {"component@1", "store-read@1", "store-graph-read@1", "store-write@1",
     "channel-publish@1", "channel-subscribe@1", "network-fetch@1"}

(* normalize_wasm_contract accepts exactly the identifiers it knows. *)
KnownContract(c) == c \in {CoreContract} \cup ComponentContracts

(* holo_directory::verify_required: exactly one directory, equal to the one *)
(* derived from the manifest, whose contracts have to be known, and from    *)
(* blobs whose labels are rederived.                                        *)
DirectoryVerifies(a) ==
    /\ a.directory = "derived" /\ a.labelled /\ ValidApp(a.manifest)
    /\ \A i \in DOMAIN a.manifest.layers :
          a.manifest.layers[i].kind = "wasm" => KnownContract(a.manifest.layers[i].contract)

--------------------------------------------------------------------------------
(* The source manifest.  A layer gives some of the optional fields; the     *)
(* values that matter are kept: the contract, whether the entry is "run",   *)
(* whether the surface is "portable".                                       *)

LayerRule ==
    [wasm              |-> [needs |-> {"entry", "contract"}, rejects |-> {"arch", "surface", "engine"}],
     tensor            |-> [needs |-> {}, rejects |-> {"contract", "arch", "surface", "engine"}],
     rootfs            |-> [needs |-> {"arch"}, rejects |-> {"contract", "surface", "engine"}],
     view              |-> [needs |-> {"surface"}, rejects |-> {"contract", "arch", "engine", "entry"}],
     inference_model   |-> [needs |-> {"entry", "engine"}, rejects |-> {"contract", "arch", "surface"}]]

BuildsLayer(l) ==
    /\ LayerRule[l.kind].needs \subseteq l.given
    /\ LayerRule[l.kind].rejects \cap l.given = {}
    /\ l.kind = "wasm" =>
         /\ KnownContract(l.contract)
         /\ l.contract \in ComponentContracts => l.entry = "run"
    /\ l.kind = "view" => l.surface = "portable"

ValidLayerSource(l) ==
    \/ l.from = "path"
    \/ l.from = "python-rootfs" /\ l.kind = "rootfs" /\ "entry" \notin l.given
    \/ /\ l.from = "wasi-component" /\ l.kind = "wasm"
       /\ l.entry = "run" /\ l.contract = "component@1" /\ "arch" \notin l.given

ValidManifest(m) ==
    /\ m.schema = 4
    /\ m.library <=> (m.primary = 0)
    /\ \A i \in DOMAIN m.layers : ValidLayerSource(m.layers[i]) /\ BuildsLayer(m.layers[i])
    /\ m.primary \in 0 .. Len(m.layers)

(* CapabilitySource::canonicalize.  flag is the legacy boolean ("none",     *)
(* "false" or "true"); ordered says that the labels and the endpoints are   *)
(* canonical and strictly ascending.                                        *)
CompilesCaps(c) ==
    /\ \/ c.schema = 2 /\ c.flag = "none"
       \/ c.schema = 1 /\ ~c.endpoints /\ c.flag # "true"
    /\ c.ordered

--------------------------------------------------------------------------------
(* View bundles *)

Bytes(f, v) == Size[f][v]
BundleBytes(files) ==
    FoldFunction(+, 0, [f \in DOMAIN files |-> Bytes(f, files[f])])

PortablePath(f) == f \in Portable

(* validate_bundle, of what encode is about to write and of what decode has *)
(* read; the order of the files is the order of their paths on both sides.  *)
ValidBundle(files) ==
    /\ DOMAIN files # {} /\ Cardinality(DOMAIN files) <= MaxFiles
    /\ \A f \in DOMAIN files : PortablePath(f) /\ Bytes(f, files[f]) <= MaxFileBytes
    /\ IsInjective([f \in DOMAIN files |-> Fold[f]])
    /\ BundleBytes(files) <= MaxBundleBytes
    /\ DOMAIN files \cap Entry # {}

(* decode, of content that a View layer names. *)
DecodesView(o) == "view" \in DOMAIN o /\ ValidBundle(o.view)

--------------------------------------------------------------------------------
IdleJob == [phase |-> "idle"]

CompileInit ==
    /\ disk = [f \in Files |-> 1]
    /\ out = [s \in Specs |-> NoArchive]
    /\ job = [j \in Jobs |-> IdleJob]
    /\ built = {} /\ compiles = 0

Fail(j) == job' = [job EXCEPT ![j] = IdleJob]

(* compile --check refuses to be combined with the output options. *)
CompileStart(j, s, mode) ==
    LET m == Manifest[s]
    IN  /\ job[j].phase = "idle" /\ compiles < MaxCompiles
        /\ compiles' = compiles + 1
        /\ IF ValidManifest(m) /\ CompilesCaps(m.requires)
           THEN job' = [job EXCEPT ![j] =
                    [phase |-> "layers", spec |-> s, mode |-> mode, layers |-> <<>>,
                     children |-> <<>>, blobs |-> {Caps(m.requires.rights)},
                     files |-> <<>>, stat |-> 0, statted |-> {}]]
           ELSE Fail(j)
        /\ UNCHANGED <<disk, out, built>>

Source(j) == Manifest[job[j].spec]
NextLayer(j) == Source(j).layers[Len(job[j].layers) + 1]
MoreLayers(j) == job[j].phase = "layers" /\ Len(job[j].layers) < Len(Source(j).layers)

(* compile_layer_content and build_layer for one layer: its content becomes *)
(* a blob, and the layer names it.                                          *)
AddLayer(j, content) ==
    LET layer == [kind |-> NextLayer(j).kind, contract |-> NextLayer(j).contract,
                  content |-> content]
    IN  job' = [job EXCEPT ![j].phase = "layers", ![j].files = <<>>, ![j].stat = 0,
                           ![j].statted = {}, ![j].layers = Append(@, layer),
                           ![j].blobs = @ \cup {content}]

ReadLayer(j) ==
    /\ MoreLayers(j) /\ NextLayer(j).from = "path" /\ NextLayer(j).kind # "view"
    /\ AddLayer(j, Content(NextLayer(j).file, disk[NextLayer(j).file]))
    /\ UNCHANGED <<disk, out, built, compiles>>

(* The Python builders (PythonBuild): a bundle of the project as it is now, *)
(* or an error that ends the compilation.                                   *)
BuildPython(j) ==
    /\ MoreLayers(j) /\ NextLayer(j).from # "path"
    /\ \/ AddLayer(j, Content(NextLayer(j).file, disk[NextLayer(j).file]))
       \/ Fail(j)
    /\ UNCHANGED <<disk, out, built, compiles>>

(* compile_directory: the directory is opened. *)
OpenView(j) ==
    /\ MoreLayers(j) /\ NextLayer(j).kind = "view"
    /\ job' = [job EXCEPT ![j].phase = "collect"]
    /\ UNCHANGED <<disk, out, built, compiles>>

Accepts(j, f) ==
    /\ Cardinality(DOMAIN job[j].files) < MaxFiles
    /\ Bytes(f, disk[f]) <= MaxFileBytes
    /\ job[j].stat + Bytes(f, disk[f]) <= MaxBundleBytes
    /\ PortablePath(f)
    /\ \A g \in DOMAIN job[j].files : Fold[g] # Fold[f]

(* collect_files checks the length that stat reported; the file is read     *)
(* after that, whatever it holds by then.                                   *)
StatFile(j, f) ==
    /\ job[j].phase = "collect" /\ job[j].statted = {}
    /\ f \in NextLayer(j).dir \ DOMAIN job[j].files
    /\ IF Accepts(j, f)
       THEN job' = [job EXCEPT ![j].stat = @ + Bytes(f, disk[f]), ![j].statted = {f}]
       ELSE Fail(j)
    /\ UNCHANGED <<disk, out, built, compiles>>

ReadFile(j) ==
    /\ job[j].phase = "collect"
    /\ \E f \in job[j].statted :
          job' = [job EXCEPT ![j].statted = {},
                             ![j].files = [g \in DOMAIN @ \cup {f} |->
                                              IF g = f THEN disk[f] ELSE @[g]]]
    /\ UNCHANGED <<disk, out, built, compiles>>

(* encode refuses what decode would refuse. *)
Encodes(files) == ValidBundle(files)

EncodeView(j) ==
    /\ job[j].phase = "collect" /\ job[j].statted = {}
    /\ DOMAIN job[j].files = NextLayer(j).dir
    /\ IF Encodes(job[j].files) THEN AddLayer(j, View(job[j].files)) ELSE Fail(j)
    /\ UNCHANGED <<disk, out, built, compiles>>

(* compile_child: the archive of the child, as it is on disk now, has to    *)
(* verify and to embed everything its manifest names.                       *)
SelfContained(a) == References(a.manifest) \subseteq a.blobs \cup {a.manifest}

AcceptsChild(a) ==
    RequireCurrent(a) /\ DirectoryVerifies(a) /\ SelfContained(a)

CompileChild(j) ==
    LET i == Len(job[j].children) + 1
        c == Source(j).children[i]
        a == out[c.application]
        delegated == Caps(c.capabilities.rights)
    IN  /\ job[j].phase = "layers" /\ ~MoreLayers(j)
        /\ i <= Len(Source(j).children)
        /\ IF AcceptsChild(a) /\ CompilesCaps(c.capabilities)
           THEN job' = [job EXCEPT
                    ![j].children = Append(@, [application |-> a.manifest,
                                               capabilities |-> delegated]),
                    ![j].blobs = @ \cup a.blobs \cup {a.manifest, delegated}]
           ELSE Fail(j)
        /\ UNCHANGED <<disk, out, built, compiles>>

Compiled(j) ==
    LET m == App(Source(j).primary, Caps(Source(j).requires.rights),
                 job[j].layers, job[j].children)
    IN  Archive(m, IF job[j].mode = "thin" THEN {} ELSE job[j].blobs)

Assembled(j) ==
    /\ job[j].phase = "layers" /\ ~MoreLayers(j)
    /\ Len(job[j].children) = Len(Source(j).children)

(* check_manifest ends here, having written nothing. *)
CheckDone(j) ==
    /\ Assembled(j) /\ job[j].mode = "check"
    /\ Fail(j) /\ UNCHANGED <<disk, out, built, compiles>>

(* The command inspects its own archive and writes it in place: opening the *)
(* file truncates it.  A manifest is compiled by one process at a time.     *)
WriteBegin(j) ==
    /\ Assembled(j) /\ job[j].mode # "check"
    /\ \A k \in Jobs : job[k].phase = "writing" => job[k].spec # job[j].spec
    /\ DirectoryVerifies(Compiled(j))
    /\ out' = [out EXCEPT ![job[j].spec] = TornArchive]
    /\ job' = [job EXCEPT ![j].phase = "writing"]
    /\ UNCHANGED <<disk, built, compiles>>

WriteEnd(j) ==
    /\ job[j].phase = "writing"
    /\ out' = [out EXCEPT ![job[j].spec] = Compiled(j)]
    /\ built' = built \cup {Compiled(j)}
    /\ Fail(j) /\ UNCHANGED <<disk, compiles>>

(* The compiler is killed between two steps. *)
Killed(j) ==
    /\ job[j].phase # "idle"
    /\ Fail(j) /\ UNCHANGED <<disk, out, built, compiles>>

Edit(f) ==
    /\ disk[f] < Len(Size[f])
    /\ disk' = [disk EXCEPT ![f] = @ + 1]
    /\ UNCHANGED <<out, job, built, compiles>>

CompileStep(j) ==
    \/ \E s \in Specs, mode \in {"fat", "thin", "check"} : CompileStart(j, s, mode)
    \/ ReadLayer(j) \/ BuildPython(j) \/ OpenView(j)
    \/ \E f \in Files : StatFile(j, f)
    \/ ReadFile(j) \/ EncodeView(j) \/ CompileChild(j)
    \/ CheckDone(j) \/ WriteBegin(j) \/ WriteEnd(j) \/ Killed(j)
================================================================================
