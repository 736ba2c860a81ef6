----------------------------- MODULE PythonBuild -----------------------------
(***************************************************************************)
(* Python layers: the builds of holo_python.rs (rootfs profile, through    *)
(* Docker) and holo_python_component.rs (wasi-component profile), and the  *)
(* direct execution of rootfs bundles.  Processes share the project        *)
(* directory, which a developer edits meanwhile, and Docker's tag table:   *)
(* every docker command is a step of its own.                              *)
(***************************************************************************)
EXTENDS Naturals, Sequences, FiniteSets

CONSTANTS
  Builds,     \* invocations of `hologram compile`
  Runs,       \* direct executions of a rootfs layer
  MaxVersion, \* source versions the developer makes
  Bases,      \* images the registry may answer for a mutable base tag
  Inputs,     \* number of inputs of one execution
  Project,    \* the editable project of the lock file
  Packages,   \* its other packages
  Requires,   \* [Packages \cup {Project} -> Seq(Packages)]
  Foreign     \* bundles built elsewhere that an execution may be given

VARIABLES
  source,     \* version of the project directory
  tags,       \* Docker: image of each image tag
  builders,   \* Docker: image of each temporary builder tag
  build,      \* state of each compile
  exec        \* state of each execution

pythonVars == <<source, tags, builders, build, exec>>

Versions == 1 .. MaxVersion
Profiles == {"rootfs", "wasi-component"}
None == "none"

\* image_tag hashes the project, so a tag is named by the version it hashed.
Image == [src : 0 .. MaxVersion, base : Bases \cup {0}]
NoImage == [src |-> 0, base |-> 0]
NoBundle == [tag |-> 0, claims |-> NoImage, holds |-> NoImage, loads |-> 0, defect |-> None]
BundleType ==
  [tag : Versions, claims : Image, holds : Image, loads : Versions,
   defect : {None, "magic", "metadata", "arch", "expansion"}]

ASSUME PythonAssumption ==
  /\ MaxVersion \in Nat \ {0} /\ Inputs \in Nat
  /\ Requires \in [Packages \cup {Project} -> Seq(Packages)]
  /\ Foreign \subseteq BundleType

(***************************************************************************)
(* Source checks.  A project has at most one defect.                       *)
(***************************************************************************)
Defects == {None, "entry", "base", "absolute path", "no docker", "inputs",
            "lock", "wheel"}

ValidEntry(defect) == defect # "entry"
ValidBase(defect) == defect # "base"
ValidSource(profile, defect) ==
  /\ ValidEntry(defect)
  /\ profile = "rootfs" => ValidBase(defect)
  /\ defect # "absolute path"
EnsureDocker(defect) == defect # "no docker"
ResolveInputs(defect) == defect # "inputs"

Unbuilt == [pc |-> "start", profile |-> "rootfs", wheels |-> TRUE, prov |-> 0,
            staged |-> 0, base |-> 0, tag |-> 0, runtime |-> 0, container |-> NoImage,
            saved |-> NoImage, bundle |-> NoBundle, queue |-> <<>>, deps |-> {}, leak |-> FALSE]

Idle == [pc |-> "idle", bundle |-> NoBundle, left |-> 0, container |-> NoImage,
         moved |-> FALSE, foul |-> FALSE, leak |-> FALSE]

PythonInit ==
  /\ source = 1
  /\ tags = [t \in Versions |-> NoImage]
  /\ builders = [t \in Versions |-> NoImage]
  /\ \E profile \in [Builds -> Profiles] :
       build = [b \in Builds |-> [Unbuilt EXCEPT !.profile = profile[b]]]
  /\ exec = [r \in Runs |-> Idle]

\* The developer saves a file.
Edit == /\ source < MaxVersion
        /\ source' = source + 1
        /\ UNCHANGED <<tags, builders, build, exec>>

\* Executions notice (as history) that the tag they verified names something else.
Retag(t, image) ==
  /\ tags' = [tags EXCEPT ![t] = image]
  /\ exec' = [r \in Runs |->
       IF exec[r].bundle # NoBundle /\ exec[r].pc \in {"run", "wait"}
            /\ exec[r].bundle.tag = t /\ exec[r].bundle.claims # image
       THEN [exec[r] EXCEPT !.moved = TRUE] ELSE exec[r]]

Step(b, pc) == build[b].pc = pc
Goto(b, record) == build' = [build EXCEPT ![b] = record]
Forget(b) == [Unbuilt EXCEPT !.profile = build[b].profile, !.staged = build[b].staged,
                             !.tag = build[b].tag, !.leak = build[b].leak]
Fail(b) == Goto(b, [Forget(b) EXCEPT !.pc = "failed"])

(***************************************************************************)
(* Rootfs profile.  Its provenance records the hash of the project before  *)
(* staging; nothing later depends on it.                                   *)
(***************************************************************************)
Start(b) ==
  /\ Step(b, "start")
  /\ build[b].profile = "rootfs"
  /\ \E d \in Defects :
       IF ValidSource("rootfs", d) /\ EnsureDocker(d) /\ ResolveInputs(d)
       THEN Goto(b, [build[b] EXCEPT !.pc = "base"])
       ELSE Fail(b)
  /\ UNCHANGED <<source, tags, builders, exec>>

ResolveBase(b) ==
  /\ Step(b, "base")
  /\ \/ \E image \in Bases : Goto(b, [build[b] EXCEPT !.pc = "stage", !.base = image])
     \/ Fail(b)                       \* registry unreachable, bad manifest
  /\ UNCHANGED <<source, tags, builders, exec>>

Stage(b) ==
  /\ Step(b, "stage")
  /\ build[b].profile = "rootfs"
  /\ Goto(b, [build[b] EXCEPT !.pc = "tag", !.staged = source])
  /\ UNCHANGED <<source, tags, builders, exec>>

\* image_tag hashes the project directory, not the staged copy.
ImageTag(b) ==
  /\ Step(b, "tag")
  /\ Goto(b, [build[b] EXCEPT !.pc = "builder", !.tag = source])
  /\ UNCHANGED <<source, tags, builders, exec>>

BuilderTag(b) == build[b].tag

BuildBuilder(b) ==
  /\ Step(b, "builder")
  /\ \/ /\ builders' = [builders EXCEPT ![BuilderTag(b)] =
                          [src |-> build[b].staged, base |-> build[b].base]]
        /\ Goto(b, [build[b] EXCEPT !.pc = "create"])
     \/ Fail(b) /\ UNCHANGED builders
  /\ UNCHANGED <<source, tags, exec>>

\* copy_image_file: create a container of the builder image, copy, remove it.
CreateContainer(b) ==
  /\ Step(b, "create")
  /\ \/ /\ builders[BuilderTag(b)] # NoImage
        /\ Goto(b, [build[b] EXCEPT !.pc = "copy", !.container = builders[BuilderTag(b)]])
     \/ Goto(b, [build[b] EXCEPT !.pc = "untag"])
  /\ UNCHANGED <<source, tags, builders, exec>>

CopyOut(b) ==
  /\ Step(b, "copy")
  /\ \E copied, removed \in BOOLEAN :
       Goto(b, [build[b] EXCEPT !.pc = "untag",
                  !.runtime = IF copied THEN build[b].container.src ELSE 0,
                  !.container = IF removed THEN NoImage ELSE @,
                  !.leak = @ \/ ~removed])
  /\ UNCHANGED <<source, tags, builders, exec>>

\* Mutant: the builder tag is only removed after a successful copy.
RemoveBuilderTagOnSuccess(b) ==
  /\ Step(b, "untag")
  /\ \E removed \in BOOLEAN :
       /\ builders' = IF removed /\ build[b].runtime # 0
                      THEN [builders EXCEPT ![BuilderTag(b)] = NoImage] ELSE builders
       /\ Goto(b, [build[b] EXCEPT !.pc = IF build[b].runtime = 0 THEN "failed" ELSE "image",
                     !.container = NoImage, !.leak = @ \/ ~removed])
  /\ UNCHANGED <<source, tags, exec>>
\* remove_image_tag is best effort; only then does the error of the copy count.
RemoveBuilderTag(b) ==
  /\ Step(b, "untag")
  /\ \E removed \in BOOLEAN :
       /\ builders' = IF removed THEN [builders EXCEPT ![BuilderTag(b)] = NoImage] ELSE builders
       /\ Goto(b, [build[b] EXCEPT !.pc = IF build[b].runtime = 0 THEN "failed" ELSE "image",
                     !.container = NoImage, !.leak = @ \/ ~removed])
  /\ UNCHANGED <<source, tags, exec>>

BuildImage(b) ==
  /\ Step(b, "image")
  /\ \/ /\ Retag(build[b].tag, [src |-> build[b].runtime, base |-> build[b].base])
        /\ Goto(b, [build[b] EXCEPT !.pc = "save"])
     \/ Fail(b) /\ UNCHANGED <<tags, exec>>
  /\ UNCHANGED <<source, builders>>

SaveImage(b) ==
  /\ Step(b, "save")
  /\ \/ /\ tags[build[b].tag] # NoImage
        /\ Goto(b, [build[b] EXCEPT !.pc = "inspect", !.saved = tags[build[b].tag]])
     \/ Fail(b)
  /\ UNCHANGED <<source, tags, builders, exec>>

\* normalize re-addresses the saved members by content, so that the image is
\* named by its config whatever order and names docker gave them.
Normalize(saved) == [id |-> saved, members |-> saved]

Bundle(b, image) == [tag |-> build[b].tag, claims |-> image.id, holds |-> image.members,
                     loads |-> build[b].tag, defect |-> None]

\* The archive must be the image the tag names now; then it is bundled.
BundleImage(b) ==
  LET normalized == Normalize(build[b].saved) IN
  /\ Step(b, "inspect")
  /\ \/ /\ normalized.id = tags[build[b].tag]
        /\ Goto(b, [Forget(b) EXCEPT !.pc = "done", !.bundle = Bundle(b, normalized)])
     \/ Fail(b)                       \* unsafe archive, or the tag has moved
  /\ UNCHANGED <<source, tags, builders, exec>>

(***************************************************************************)
(* Wasi-component profile: plan the locked packages breadth first, stage,  *)
(* hash the staged copy into the provenance, install, componentize.        *)
(***************************************************************************)
StartComponent(b) ==
  /\ Step(b, "start")
  /\ build[b].profile = "wasi-component"
  /\ \E d \in Defects :
       IF ValidSource("wasi-component", d) /\ ResolveInputs(d) /\ d # "lock"
       THEN Goto(b, [build[b] EXCEPT !.pc = "deps", !.queue = Requires[Project],
                                     !.wheels = d # "wheel"])
       ELSE Fail(b)
  /\ UNCHANGED <<source, tags, builders, exec>>

\* Mutant: only the project's own dependencies are planned.
PlanDependencyShallow(b) ==
  /\ Step(b, "deps")
  /\ build[b].queue # <<>>
  /\ Goto(b, [build[b] EXCEPT !.queue = Tail(@), !.deps = @ \cup {Head(build[b].queue)}])
  /\ UNCHANGED <<source, tags, builders, exec>>
PlanDependency(b) ==
  /\ Step(b, "deps")
  /\ build[b].queue # <<>>
  /\ LET p == Head(build[b].queue)
         more == IF p \in build[b].deps THEN <<>> ELSE Requires[p]
     IN Goto(b, [build[b] EXCEPT !.queue = Tail(@) \o more, !.deps = @ \cup {p}])
  /\ UNCHANGED <<source, tags, builders, exec>>

\* Every planned package is a registry package with a portable wheel and its hash.
PortableDependencies(b) == build[b].wheels \/ build[b].deps = {}

PlannedDependencies(b) ==
  /\ Step(b, "deps")
  /\ build[b].queue = <<>>
  /\ IF ~PortableDependencies(b)
     THEN Fail(b)
     ELSE Goto(b, [build[b] EXCEPT !.pc = "stage", !.prov = source])
  /\ UNCHANGED <<source, tags, builders, exec>>

StageComponent(b) ==
  /\ Step(b, "stage")
  /\ build[b].profile = "wasi-component"
  /\ Goto(b, [build[b] EXCEPT !.pc = "install", !.staged = source, !.prov = source])
  /\ UNCHANGED <<source, tags, builders, exec>>

\* Into the staging directory, by hash; the installed tree must be portable.
InstallDependencies(b) ==
  /\ Step(b, "install")
  /\ \/ Goto(b, [build[b] EXCEPT !.pc = "componentize"])
     \/ build[b].deps # {} /\ Fail(b)    \* uv missing or failed, native payload
  /\ UNCHANGED <<source, tags, builders, exec>>

Componentize(b) ==
  /\ Step(b, "componentize")
  /\ \/ Goto(b, [build[b] EXCEPT !.pc = "done"])
     \/ Fail(b)                       \* uvx missing, componentize-py failed
  /\ UNCHANGED <<source, tags, builders, exec>>

(***************************************************************************)
(* Direct execution of a rootfs bundle.                                    *)
(***************************************************************************)
Bundles == ({build[b].bundle : b \in Builds} \ {NoBundle}) \cup Foreign

\* validate_bundle_metadata, for the layer that carries the bundle.
ValidMetadata(bundle) == bundle.defect \notin {"metadata", "arch"}
Decodes(bundle) == bundle.defect # "magic" /\ ValidMetadata(bundle)

Prepare(r) ==
  /\ exec[r].pc = "idle"
  /\ \E bundle \in Bundles :
       exec' = [exec EXCEPT ![r] =
                  IF Decodes(bundle)
                  THEN [@ EXCEPT !.pc = "prepared", !.bundle = bundle, !.left = Inputs]
                  ELSE [@ EXCEPT !.pc = "failed"]]
  /\ UNCHANGED <<source, tags, builders, build>>

\* start asks for Docker; invoke decodes again and starts with the cache.
StartLayer(r) ==
  /\ exec[r].pc = "prepared"
  /\ \E pc \in {"cache", "failed"} : exec' = [exec EXCEPT ![r].pc = pc]
  /\ UNCHANGED <<source, tags, builders, build>>

\* Mutant: any image under the tag will do.
CachedImageMatchesTag(bundle) == tags[bundle.tag] # NoImage
CachedImageMatches(bundle) == tags[bundle.tag] = bundle.claims

CheckCache(r) ==
  /\ exec[r].pc = "cache"
  /\ \/ exec' = [exec EXCEPT ![r].pc =
                   IF CachedImageMatches(exec[r].bundle) THEN "run" ELSE "load"]
     \/ exec' = [exec EXCEPT ![r].pc = "failed"]     \* docker image inspect
  /\ UNCHANGED <<source, tags, builders, build>>

LoadImage(r) ==
  LET bundle == exec[r].bundle IN
  /\ exec[r].pc = "load"
  /\ IF bundle.defect = "expansion"          \* decompress_image
     THEN exec' = [exec EXCEPT ![r].pc = "failed"] /\ UNCHANGED tags
     ELSE /\ tags' = [tags EXCEPT ![bundle.loads] = bundle.holds]
          /\ exec' = [q \in Runs |->
               IF q = r THEN [exec[q] EXCEPT !.pc = "verify"]
               ELSE IF exec[q].pc \in {"run", "wait"} /\ exec[q].bundle.tag = bundle.loads
                         /\ exec[q].bundle.claims # bundle.holds
                    THEN [exec[q] EXCEPT !.moved = TRUE] ELSE exec[q]]
  /\ UNCHANGED <<source, builders, build>>

VerifyLoaded(r) ==
  /\ exec[r].pc = "verify"
  /\ exec' = [exec EXCEPT ![r].pc =
                IF tags[exec[r].bundle.tag] = exec[r].bundle.claims THEN "run" ELSE "failed"]
  /\ UNCHANGED <<source, tags, builders, build>>

\* run_container starts the image by its tag, once per input.
RunContainer(r) ==
  /\ exec[r].pc = "run"
  /\ \/ /\ tags[exec[r].bundle.tag] # NoImage
        /\ exec' = [exec EXCEPT ![r] = [exec[r] EXCEPT !.pc = "wait",
                      !.container = tags[exec[r].bundle.tag],
                      !.foul = @ \/ tags[exec[r].bundle.tag] # exec[r].bundle.claims]]
     \/ exec' = [exec EXCEPT ![r].pc = "failed"]
  /\ UNCHANGED <<source, tags, builders, build>>

\* The guest exits in time; --rm removes its container.
GuestExits(r) ==
  /\ exec[r].pc = "wait"
  /\ \E ok \in BOOLEAN :
       exec' = [exec EXCEPT ![r] = [exec[r] EXCEPT !.container = NoImage, !.left = @ - 1,
                  !.pc = IF ~ok THEN "failed"
                         ELSE IF exec[r].left = 1 THEN "done" ELSE "run"]]
  /\ UNCHANGED <<source, tags, builders, build>>

\* recv_timeout: docker rm --force, whose own failure is ignored.
TimesOut(r) ==
  /\ exec[r].pc = "wait"
  /\ \E removed \in BOOLEAN :
       exec' = [exec EXCEPT ![r] = [exec[r] EXCEPT !.pc = "failed",
                  !.container = IF removed THEN NoImage ELSE @, !.leak = ~removed]]
  /\ UNCHANGED <<source, tags, builders, build>>

BuildStep(b) ==
  \/ Start(b) \/ ResolveBase(b) \/ Stage(b) \/ ImageTag(b) \/ BuildBuilder(b)
  \/ CreateContainer(b) \/ CopyOut(b) \/ RemoveBuilderTag(b) \/ BuildImage(b)
  \/ SaveImage(b) \/ BundleImage(b)
  \/ StartComponent(b) \/ PlanDependency(b) \/ PlannedDependencies(b)
  \/ StageComponent(b) \/ InstallDependencies(b) \/ Componentize(b)

RunStep(r) ==
  \/ StartLayer(r) \/ CheckCache(r) \/ LoadImage(r) \/ VerifyLoaded(r)
  \/ RunContainer(r) \/ TimesOut(r)

PythonNext ==
  \/ Edit
  \/ \E b \in Builds : BuildStep(b)
  \/ \E r \in Runs : Prepare(r) \/ RunStep(r) \/ GuestExits(r)

(***************************************************************************)
(* Properties.                                                             *)
(***************************************************************************)
\* execute runs the image its bundle claims: another one only if the tag was moved
\* by somebody else after cached_image_matches or load_embedded_image verified it.
RunsClaimedImage == \A r \in Runs : exec[r].foul => exec[r].moved

\* Temporary builder tags and containers, and the containers of executions, are gone
\* when the work that needs them is over, unless docker refused to remove one.
NothingLeftBehind ==
  /\ \A t \in Versions : builders[t] # NoImage =>
       \E b \in Builds : \/ build[b].tag = t /\ build[b].pc \in {"create", "copy", "untag"}
                         \/ build[b].leak
  /\ \A b \in Builds : build[b].container # NoImage => build[b].pc = "copy" \/ build[b].leak
  /\ \A r \in Runs : exec[r].container # NoImage => exec[r].pc = "wait" \/ exec[r].leak

\* The packages the project requires, directly or not: those in every set that
\* has its requirements and, with a package, the requirements of that package.
Required(p) == {Requires[p][i] : i \in DOMAIN Requires[p]}
Locked ==
  {p \in Packages : \A S \in SUBSET Packages :
     Required(Project) \subseteq S /\ (\A q \in S : Required(q) \subseteq S) => p \in S}

\* What the provenance of a finished component build says: the hash of the source
\* that was componentized, and every package the lock file requires, directly or not.
ComponentAttested ==
  \A b \in Builds :
    build[b].profile = "wasi-component" /\ build[b].pc = "done"
    => /\ build[b].prov = build[b].staged
       /\ build[b].deps = Locked

=============================================================================
