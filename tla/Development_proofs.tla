------------------------- MODULE Development_proofs -------------------------
(***************************************************************************)
(* Proofs about what a developer's machine does with source, for any       *)
(* number of builds, executions, projects, workers and Views, any lock     *)
(* file and any bundles built elsewhere.                                   *)
(***************************************************************************)
EXTENDS Development, TLAPS

-----------------------------------------------------------------------------
(* Python layers: the inductive invariant.                                 *)

BuildType ==
  [pc : {"start", "base", "stage", "tag", "builder", "create", "copy", "untag", "image", "save",
         "inspect", "deps", "install", "componentize", "done", "failed"},
   profile : Profiles, wheels : BOOLEAN, prov : 0..MaxVersion, staged : 0..MaxVersion,
   base : Bases \cup {0}, tag : 0..MaxVersion, runtime : 0..MaxVersion,
   container : Image, saved : Image, bundle : BundleType \cup {NoBundle},
   queue : Seq(Packages), deps : SUBSET Packages, leak : BOOLEAN]

ExecType ==
  [pc : {"idle", "prepared", "cache", "load", "verify", "run", "wait", "done", "failed"},
   bundle : BundleType \cup {NoBundle}, left : Int, container : Image,
   moved : BOOLEAN, foul : BOOLEAN, leak : BOOLEAN]

PythonTypeOK ==
  /\ source \in Versions
  /\ tags \in [Versions -> Image] /\ builders \in [Versions -> Image]
  /\ build \in [Builds -> BuildType]
  /\ exec \in [Runs -> ExecType]

\* A build that has hashed its project has a tag, and a container only to copy from.
HasTag(k) ==
  k.pc \in {"builder", "create", "copy", "untag", "image", "save", "inspect"} => k.tag \in Versions
Contained(k) == k.container # NoImage => k.pc = "copy" \/ k.leak

\* The plan of a component build: what it took and what it has still to take are
\* required, and what the packages it took require is taken or still to be taken.
Listed(s) == {s[i] : i \in DOMAIN s}
Plan(queue, deps) ==
  /\ deps \cup Listed(queue) \subseteq Locked
  /\ Required(Project) \subseteq deps \cup Listed(queue)
  /\ \A p \in deps : Required(p) \subseteq deps \cup Listed(queue)
Planned(k) ==
  k.profile = "wasi-component" =>
    /\ k.pc \in {"start", "deps", "stage", "install", "componentize", "done", "failed"}
    /\ k.pc = "start" => k.deps = {}
    /\ k.pc = "deps" => Plan(k.queue, k.deps)
    /\ k.pc \in {"stage", "install", "componentize", "done"} => k.deps = Locked
    /\ k.pc \in {"install", "componentize", "done"} => k.prov = k.staged
BuildInv(k) == HasTag(k) /\ Contained(k) /\ Planned(k)

\* A builder image is somebody's who will remove it.
Accounted(images, builds) ==
  \A t \in Versions : images[t] # NoImage =>
    \E b \in Builds : \/ builds[b].tag = t /\ builds[b].pc \in {"create", "copy", "untag"}
                      \/ builds[b].leak

\* An execution that started has a bundle; between its check of the tag and the
\* end of its container the tag names the claimed image, or it was moved.
Checked(x, names) ==
  /\ x.pc \notin {"idle", "failed"} => x.bundle \in BundleType
  /\ x.pc \in {"run", "wait"} => x.moved \/ names[x.bundle.tag] = x.bundle.claims
  /\ x.foul => x.moved
  /\ x.container # NoImage => x.pc = "wait" \/ x.leak

PythonInv ==
  /\ PythonTypeOK
  /\ \A b \in Builds : BuildInv(build[b])
  /\ Accounted(builders, build)
  /\ \A r \in Runs : Checked(exec[r], tags)

LEMMA PlainTyped == /\ NoImage \in Image /\ NoBundle \in BundleType \cup {NoBundle}
                    /\ 0 \in 0..MaxVersion /\ 1 \in Versions /\ Versions \subseteq 0..MaxVersion
  BY PythonAssumption DEF NoImage, Image, Versions

LEMMA UnbuiltTyped == Unbuilt \in BuildType
<1>1. "rootfs" \in Profiles
  BY DEF Profiles
<1> QED
  BY <1>1, PlainTyped DEF Unbuilt, BuildType

LEMMA ForgetTyped == ASSUME PythonTypeOK, NEW b \in Builds
  PROVE /\ Forget(b) \in BuildType /\ Forget(b).profile = build[b].profile /\ Forget(b).staged = build[b].staged
        /\ Forget(b).tag = build[b].tag /\ Forget(b).leak = build[b].leak /\ Forget(b).container = NoImage
        /\ Forget(b).deps = {} /\ Forget(b).prov = 0
<1>1. build[b] \in BuildType
  BY DEF PythonTypeOK
<1> QED
  BY <1>1, UnbuiltTyped DEF Forget, Unbuilt, BuildType

LEMMA ListedConcat == ASSUME NEW S, NEW s \in Seq(S), NEW m \in Seq(S)
  PROVE s \o m \in Seq(S) /\ Listed(s \o m) = Listed(s) \cup Listed(m)
<1>1. s \o m \in Seq(S) /\ Len(s \o m) = Len(s) + Len(m)
  OBVIOUS
<1>2. ASSUME NEW x \in Listed(s \o m) PROVE x \in Listed(s) \cup Listed(m)
  <2>1. PICK i \in 1..(Len(s) + Len(m)) : x = (s \o m)[i]
    BY <1>1 DEF Listed
  <2>2. CASE i <= Len(s)
    BY <2>1, <2>2 DEF Listed
  <2>3. CASE i > Len(s)
    <3>1. (s \o m)[i] = m[i - Len(s)] /\ i - Len(s) \in 1..Len(m)
      BY <2>1, <2>3
    <3> QED
      BY <2>1, <3>1 DEF Listed
  <2> QED
    BY <2>1, <2>2, <2>3
<1>3. ASSUME NEW i \in DOMAIN s PROVE s[i] \in Listed(s \o m)
  <2>1. i \in 1..(Len(s) + Len(m)) /\ (s \o m)[i] = s[i]
    BY <1>3
  <2> QED
    BY <1>1, <2>1 DEF Listed
<1>4. ASSUME NEW i \in DOMAIN m PROVE m[i] \in Listed(s \o m)
  <2>1. Len(s) + i \in 1..(Len(s) + Len(m)) /\ (s \o m)[Len(s) + i] = m[i]
    BY <1>4
  <2> QED
    BY <1>1, <2>1 DEF Listed
<1> QED
  BY <1>1, <1>2, <1>3, <1>4 DEF Listed

LEMMA ListedTail == ASSUME NEW S, NEW s \in Seq(S), s # <<>>
  PROVE Head(s) \in S /\ Tail(s) \in Seq(S) /\ Listed(s) = {Head(s)} \cup Listed(Tail(s))
<1>1. Head(s) \in S /\ Tail(s) \in Seq(S) /\ Head(s) = s[1] /\ Len(s) \in Nat \ {0} /\ Len(Tail(s)) = Len(s) - 1
  OBVIOUS
<1>2. \A i \in 1..Len(Tail(s)) : Tail(s)[i] = s[i + 1] /\ i + 1 \in 1..Len(s)
  BY <1>1
<1>3. ASSUME NEW i \in 1..Len(s), i # 1 PROVE i - 1 \in 1..Len(Tail(s)) /\ Tail(s)[i - 1] = s[i]
  BY <1>1, <1>3
<1>4. ASSUME NEW i \in DOMAIN s PROVE s[i] \in {Head(s)} \cup Listed(Tail(s))
  <2>1. i \in 1..Len(s) /\ DOMAIN Tail(s) = 1..Len(Tail(s))
    BY <1>1
  <2> QED
    BY <2>1, <1>1, <1>3 DEF Listed
<1>5. {Head(s)} \cup Listed(Tail(s)) \subseteq Listed(s)
  <2>1. Head(s) \in Listed(s)
    BY <1>1 DEF Listed
  <2>2. Listed(Tail(s)) \subseteq Listed(s)
    BY <1>1, <1>2 DEF Listed
  <2> QED
    BY <2>1, <2>2
<1>6. Listed(s) \subseteq {Head(s)} \cup Listed(Tail(s))
  BY <1>4 DEF Listed
<1> QED
  BY <1>1, <1>5, <1>6

LEMMA RequiredListed == ASSUME NEW p \in Packages \cup {Project}
  PROVE Requires[p] \in Seq(Packages) /\ Required(p) = Listed(Requires[p]) /\ Required(p) \subseteq Packages
  BY PythonAssumption DEF Required, Listed

LEMMA LockedClosed ==
  /\ Required(Project) \subseteq Locked
  /\ \A q \in Locked : Required(q) \subseteq Locked
  /\ \A S \in SUBSET Packages :
       Required(Project) \subseteq S /\ (\A q \in S : Required(q) \subseteq S) => Locked \subseteq S
<1>1. Required(Project) \subseteq Locked
  BY RequiredListed DEF Locked
<1>2. ASSUME NEW q \in Locked, NEW p \in Required(q) PROVE p \in Locked
  <2>1. p \in Packages /\ q \in Packages
    BY RequiredListed DEF Locked
  <2>2. ASSUME NEW S \in SUBSET Packages, Required(Project) \subseteq S, \A x \in S : Required(x) \subseteq S PROVE p \in S
    <3>1. q \in S
      BY <2>2 DEF Locked
    <3> QED
      BY <3>1, <2>2
  <2> QED
    BY <2>1, <2>2 DEF Locked
<1>3. ASSUME NEW S \in SUBSET Packages, Required(Project) \subseteq S, \A q \in S : Required(q) \subseteq S
      PROVE  Locked \subseteq S
  BY <1>3 DEF Locked
<1> QED
  BY <1>1, <1>2, <1>3

LEMMA PlanStarts == Plan(Requires[Project], {})
<1>1. Listed(Requires[Project]) = Required(Project)
  BY RequiredListed
<1> QED
  BY <1>1, LockedClosed DEF Plan

\* What a package adds to the queue: its requirements, unless it was taken before.
LEMMA PlanMore ==
  ASSUME NEW p \in Packages, NEW D \in SUBSET Packages
  PROVE  \E m \in Seq(Packages) : /\ m = IF p \in D THEN <<>> ELSE Requires[p]
                                  /\ Listed(m) \subseteq Required(p) /\ (p \notin D => Listed(m) = Required(p))
<1>1. CASE p \in D
  <2>1. <<>> \in Seq(Packages) /\ Listed(<<>>) = {}
    BY DEF Listed
  <2> QED
    BY <1>1, <2>1
<1>2. CASE p \notin D
  BY <1>2, RequiredListed
<1> QED
  BY <1>1, <1>2

\* One package is taken from the queue, and what it adds is put at its end.
LEMMA PlanGoesOn ==
  ASSUME NEW s \in Seq(Packages), NEW p \in Packages, NEW rest \in Seq(Packages), Listed(s) = {p} \cup Listed(rest),
         NEW D \in SUBSET Packages, Plan(s, D),
         NEW m \in Seq(Packages), Listed(m) \subseteq Required(p), p \notin D => Listed(m) = Required(p)
  PROVE  rest \o m \in Seq(Packages) /\ Plan(rest \o m, D \cup {p})
<1>1. rest \o m \in Seq(Packages) /\ Listed(rest \o m) = Listed(rest) \cup Listed(m)
  BY ListedConcat
<1> DEFINE P == D \cup Listed(s)
           Q == D \cup {p} \cup Listed(rest \o m)
<1>2. P \subseteq Q /\ Q \subseteq P \cup Required(p) /\ (p \notin D => Required(p) \subseteq Q)
  BY <1>1
<1>3. p \in Locked /\ Required(p) \subseteq Locked /\ P \subseteq Locked
  BY LockedClosed DEF Plan
<1>4. \A q \in D \cup {p} : Required(q) \subseteq Q
  BY <1>2 DEF Plan
<1>5. Required(Project) \subseteq Q /\ Q \subseteq Locked
  BY <1>2, <1>3 DEF Plan
<1> QED
  BY <1>1, <1>4, <1>5 DEF Plan

LEMMA PlanEnds == ASSUME NEW D \in SUBSET Packages, Plan(<<>>, D) PROVE D = Locked
<1>1. Listed(<<>>) = {}
  BY DEF Listed
<1>2. D \subseteq Locked /\ Required(Project) \subseteq D /\ \A p \in D : Required(p) \subseteq D
  BY <1>1 DEF Plan
<1> QED
  BY <1>2, LockedClosed

\* A build goes on alone: what it owes to docker it still owes, or leaks.
LEMMA OneBuild ==
  ASSUME PythonInv, NEW b \in Builds, NEW k \in BuildType, Goto(b, k), UNCHANGED <<source, tags, builders, exec>>,
         BuildInv(k), build[b].leak => k.leak,
         build[b].pc \in {"create", "copy", "untag"} =>
            k.leak \/ (k.tag = build[b].tag /\ k.pc \in {"create", "copy", "untag"})
  PROVE  PythonInv'
<1>1. build' \in [Builds -> BuildType] /\ \A a \in Builds : build'[a] = IF a = b THEN k ELSE build[a]
  BY DEF Goto, PythonInv, PythonTypeOK
<1>2. PythonTypeOK'
  BY <1>1 DEF PythonInv, PythonTypeOK
<1>3. \A a \in Builds : BuildInv(build'[a])
  BY <1>1 DEF PythonInv
<1>4. Accounted(builders', build')
  <2>1. ASSUME NEW t \in Versions, builders[t] # NoImage
        PROVE  \E a \in Builds : (build'[a].tag = t /\ build'[a].pc \in {"create", "copy", "untag"}) \/ build'[a].leak
    <3>1. PICK a \in Builds : (build[a].tag = t /\ build[a].pc \in {"create", "copy", "untag"}) \/ build[a].leak
      BY <2>1 DEF PythonInv, Accounted
    <3> QED
      BY <3>1, <1>1
  <2> QED
    BY <2>1 DEF Accounted
<1>5. \A r \in Runs : Checked(exec'[r], tags')
  BY DEF PythonInv
<1> QED
  BY <1>2, <1>3, <1>4, <1>5 DEF PythonInv

LEMMA Failed == ASSUME PythonTypeOK, NEW b \in Builds
  PROVE  /\ [Forget(b) EXCEPT !.pc = "failed"] \in BuildType
         /\ [Forget(b) EXCEPT !.pc = "failed"].pc = "failed"
         /\ [Forget(b) EXCEPT !.pc = "failed"].leak = build[b].leak
         /\ BuildInv([Forget(b) EXCEPT !.pc = "failed"])
<1> DEFINE f == Forget(b)
           k == [f EXCEPT !.pc = "failed"]
<1>1. f \in BuildType /\ f.container = NoImage /\ f.leak = build[b].leak
  BY ForgetTyped
<1> HIDE DEF f
<1>2. k \in BuildType /\ k.pc = "failed" /\ k.container = NoImage /\ k.leak = build[b].leak
  BY <1>1 DEF BuildType
<1> HIDE DEF k
<1>3. BuildInv(k)
  BY <1>2 DEF BuildInv, HasTag, Contained, Planned
<1> QED
  BY <1>2, <1>3 DEF k, f

\* An error ends a build that has nothing in docker.
LEMMA FailKeeps ==
  ASSUME PythonInv, NEW b \in Builds, build[b].pc \notin {"create", "copy", "untag"}, Fail(b),
         UNCHANGED <<source, tags, builders, exec>>
  PROVE  PythonInv'
<1>1. PythonTypeOK
  BY DEF PythonInv
<1> QED
  BY <1>1, Failed, OneBuild DEF Fail

LEMMA StartKeeps == ASSUME PythonInv, NEW b \in Builds, Start(b) PROVE PythonInv'
<1> DEFINE k == [build[b] EXCEPT !.pc = "base"]
<1>1. build[b] \in BuildType /\ BuildInv(build[b]) /\ build[b].pc = "start" /\ build[b].profile = "rootfs"
  BY DEF Start, Step, PythonInv, PythonTypeOK
<1>2. k \in BuildType /\ k.pc = "base" /\ k.profile = "rootfs" /\ k.leak = build[b].leak /\ k.container = build[b].container
  BY <1>1 DEF BuildType
<1>3. Goto(b, k) \/ Fail(b)
  BY DEF Start
<1> HIDE DEF k
<1>4. BuildInv(k)
  BY <1>1, <1>2 DEF BuildInv, HasTag, Contained, Planned
<1> QED
  BY <1>1, <1>2, <1>3, <1>4, OneBuild, FailKeeps DEF Start

LEMMA BaseKeeps == ASSUME PythonInv, NEW b \in Builds, ResolveBase(b) PROVE PythonInv'
<1>1. build[b] \in BuildType /\ BuildInv(build[b]) /\ build[b].pc = "base"
  BY DEF ResolveBase, Step, PythonInv, PythonTypeOK
<1>2. ASSUME NEW image \in Bases, Goto(b, [build[b] EXCEPT !.pc = "stage", !.base = image]) PROVE PythonInv'
  <2> DEFINE k == [build[b] EXCEPT !.pc = "stage", !.base = image]
  <2>1. /\ k \in BuildType /\ k.pc = "stage" /\ k.profile = build[b].profile /\ k.leak = build[b].leak
        /\ k.container = build[b].container
    BY <1>1 DEF BuildType
  <2> HIDE DEF k
  <2>2. BuildInv(k)
    BY <1>1, <2>1 DEF BuildInv, HasTag, Contained, Planned
  <2> QED
    BY <1>1, <1>2, <2>1, <2>2, OneBuild DEF ResolveBase, k
<1> QED
  BY <1>1, <1>2, FailKeeps DEF ResolveBase

LEMMA StageKeeps == ASSUME PythonInv, NEW b \in Builds, Stage(b) PROVE PythonInv'
<1> DEFINE k == [build[b] EXCEPT !.pc = "tag", !.staged = source]
<1>1. /\ build[b] \in BuildType /\ BuildInv(build[b]) /\ build[b].pc = "stage" /\ build[b].profile = "rootfs"
      /\ source \in 0..MaxVersion
  BY PlainTyped DEF Stage, Step, PythonInv, PythonTypeOK
<1>2. k \in BuildType /\ k.pc = "tag" /\ k.profile = "rootfs" /\ k.leak = build[b].leak /\ k.container = build[b].container
  BY <1>1 DEF BuildType
<1>3. Goto(b, k)
  BY DEF Stage
<1> HIDE DEF k
<1>4. BuildInv(k)
  BY <1>1, <1>2 DEF BuildInv, HasTag, Contained, Planned
<1> QED
  BY <1>1, <1>2, <1>3, <1>4, OneBuild DEF Stage

LEMMA TagKeeps == ASSUME PythonInv, NEW b \in Builds, ImageTag(b) PROVE PythonInv'
<1> DEFINE k == [build[b] EXCEPT !.pc = "builder", !.tag = source]
<1>1. /\ build[b] \in BuildType /\ BuildInv(build[b]) /\ build[b].pc = "tag" /\ source \in Versions
      /\ source \in 0..MaxVersion
  BY PlainTyped DEF ImageTag, Step, PythonInv, PythonTypeOK
<1>2. /\ k \in BuildType /\ k.pc = "builder" /\ k.tag = source /\ k.profile = build[b].profile /\ k.leak = build[b].leak
      /\ k.container = build[b].container
  BY <1>1 DEF BuildType
<1>3. Goto(b, k)
  BY DEF ImageTag
<1> HIDE DEF k
<1>4. BuildInv(k)
  BY <1>1, <1>2 DEF BuildInv, HasTag, Contained, Planned
<1> QED
  BY <1>1, <1>2, <1>3, <1>4, OneBuild DEF ImageTag

\* The image under the builder tag is the build's, which is about to use it.
LEMMA BuilderKeeps == ASSUME PythonInv, NEW b \in Builds, BuildBuilder(b) PROVE PythonInv'
<1> DEFINE k == [build[b] EXCEPT !.pc = "create"]
           image == [src |-> build[b].staged, base |-> build[b].base]
<1>1. /\ build[b] \in BuildType /\ BuildInv(build[b]) /\ build[b].pc = "builder"
      /\ UNCHANGED <<source, tags, exec>>
  BY DEF BuildBuilder, Step, PythonInv, PythonTypeOK
<1>2. CASE Fail(b) /\ UNCHANGED builders
  BY <1>1, <1>2, FailKeeps
<1>3. CASE builders' = [builders EXCEPT ![BuilderTag(b)] = image] /\ Goto(b, k)
  <2>1. /\ k \in BuildType /\ k.pc = "create" /\ k.tag = build[b].tag /\ k.profile = build[b].profile
        /\ k.leak = build[b].leak /\ k.container = build[b].container
    BY <1>1 DEF BuildType
  <2>2. image \in Image
    BY <1>1 DEF BuildType, Image
  <2> HIDE DEF k, image
  <2>3. BuildInv(k) /\ k.tag \in Versions
    BY <1>1, <2>1 DEF BuildInv, HasTag, Contained, Planned
  <2>4. build' \in [Builds -> BuildType] /\ \A a \in Builds : build'[a] = IF a = b THEN k ELSE build[a]
    BY <1>3, <2>1 DEF Goto, PythonInv, PythonTypeOK
  <2>5. builders' \in [Versions -> Image] /\ \A t \in Versions : t # k.tag => builders'[t] = builders[t]
    BY <1>3, <2>1, <2>2, <2>3 DEF BuilderTag, PythonInv, PythonTypeOK
  <2>6. PythonTypeOK'
    BY <1>1, <2>4, <2>5 DEF PythonInv, PythonTypeOK
  <2>7. Accounted(builders', build')
    <3>1. ASSUME NEW t \in Versions, builders'[t] # NoImage
          PROVE  \E a \in Builds : (build'[a].tag = t /\ build'[a].pc \in {"create", "copy", "untag"}) \/ build'[a].leak
      <4>1. CASE t = k.tag
        BY <4>1, <2>1, <2>4
      <4>2. CASE t # k.tag
        <5>1. PICK a \in Builds : (build[a].tag = t /\ build[a].pc \in {"create", "copy", "untag"}) \/ build[a].leak
          BY <3>1, <4>2, <2>5 DEF PythonInv, Accounted
        <5> QED
          BY <5>1, <2>1, <2>4, <1>1
      <4> QED
        BY <4>1, <4>2
    <3> QED
      BY <3>1 DEF Accounted
  <2> QED
    BY <1>1, <2>3, <2>4, <2>6, <2>7 DEF PythonInv
<1> QED
  BY <1>2, <1>3 DEF BuildBuilder

LEMMA CreateKeeps == ASSUME PythonInv, NEW b \in Builds, CreateContainer(b) PROVE PythonInv'
<1>1. /\ build[b] \in BuildType /\ BuildInv(build[b]) /\ build[b].pc = "create"
      /\ UNCHANGED <<source, tags, builders, exec>> /\ builders[build[b].tag] \in Image
  BY DEF CreateContainer, Step, PythonInv, PythonTypeOK, BuildInv, HasTag
<1>2. CASE Goto(b, [build[b] EXCEPT !.pc = "copy", !.container = builders[BuilderTag(b)]])
  <2> DEFINE k == [build[b] EXCEPT !.pc = "copy", !.container = builders[BuilderTag(b)]]
  <2>1. /\ k \in BuildType /\ k.pc = "copy" /\ k.tag = build[b].tag /\ k.profile = build[b].profile
        /\ k.leak = build[b].leak
    BY <1>1 DEF BuildType, BuilderTag
  <2> HIDE DEF k
  <2>2. BuildInv(k)
    BY <1>1, <2>1 DEF BuildInv, HasTag, Contained, Planned
  <2> QED
    BY <1>1, <1>2, <2>1, <2>2, OneBuild DEF k
<1>3. CASE Goto(b, [build[b] EXCEPT !.pc = "untag"])
  <2> DEFINE k == [build[b] EXCEPT !.pc = "untag"]
  <2>1. /\ k \in BuildType /\ k.pc = "untag" /\ k.tag = build[b].tag /\ k.profile = build[b].profile
        /\ k.leak = build[b].leak /\ k.container = build[b].container
    BY <1>1 DEF BuildType
  <2> HIDE DEF k
  <2>2. BuildInv(k)
    BY <1>1, <2>1 DEF BuildInv, HasTag, Contained, Planned
  <2> QED
    BY <1>1, <1>3, <2>1, <2>2, OneBuild DEF k
<1> QED
  BY <1>2, <1>3 DEF CreateContainer

LEMMA CopyKeeps == ASSUME PythonInv, NEW b \in Builds, CopyOut(b) PROVE PythonInv'
<1>1. /\ build[b] \in BuildType /\ BuildInv(build[b]) /\ build[b].pc = "copy"
      /\ UNCHANGED <<source, tags, builders, exec>>
  BY DEF CopyOut, Step, PythonInv, PythonTypeOK
<1>2. PICK copied \in BOOLEAN, removed \in BOOLEAN :
        Goto(b, [build[b] EXCEPT !.pc = "untag",
                   !.runtime = IF copied THEN build[b].container.src ELSE 0,
                   !.container = IF removed THEN NoImage ELSE @,
                   !.leak = @ \/ ~removed])
  BY DEF CopyOut
<1> DEFINE run == IF copied THEN build[b].container.src ELSE 0
           box == IF removed THEN NoImage ELSE build[b].container
           out == build[b].leak \/ ~removed
           k == [build[b] EXCEPT !.pc = "untag", !.runtime = run, !.container = box, !.leak = out]
<1>3. run \in 0..MaxVersion /\ box \in Image /\ out \in BOOLEAN /\ (box # NoImage => out) /\ (build[b].leak => out)
  BY <1>1, PlainTyped DEF BuildType, Image
<1> HIDE DEF run, box, out
<1>4. /\ k \in BuildType /\ k.pc = "untag" /\ k.tag = build[b].tag /\ k.profile = build[b].profile
      /\ k.leak = out /\ k.container = box
  BY <1>1, <1>3 DEF BuildType
<1>5. Goto(b, k)
  BY <1>2 DEF run, box, out
<1> HIDE DEF k
<1>6. BuildInv(k)
  BY <1>1, <1>3, <1>4 DEF BuildInv, HasTag, Contained, Planned
<1> QED
  BY <1>1, <1>3, <1>4, <1>5, <1>6, OneBuild

\* The builder tag is gone, or the build leaks.
LEMMA UntagKeeps == ASSUME PythonInv, NEW b \in Builds, RemoveBuilderTag(b) PROVE PythonInv'
<1>1. /\ build[b] \in BuildType /\ BuildInv(build[b]) /\ build[b].pc = "untag"
      /\ UNCHANGED <<source, tags, exec>>
  BY DEF RemoveBuilderTag, Step, PythonInv, PythonTypeOK
<1>2. PICK removed \in BOOLEAN :
        /\ builders' = IF removed THEN [builders EXCEPT ![BuilderTag(b)] = NoImage] ELSE builders
        /\ Goto(b, [build[b] EXCEPT !.pc = IF build[b].runtime = 0 THEN "failed" ELSE "image",
                      !.container = NoImage, !.leak = @ \/ ~removed])
  BY DEF RemoveBuilderTag
<1> DEFINE where == IF build[b].runtime = 0 THEN "failed" ELSE "image"
           out == build[b].leak \/ ~removed
           k == [build[b] EXCEPT !.pc = where, !.container = NoImage, !.leak = out]
<1>3. where \in {"failed", "image"} /\ out \in BOOLEAN /\ (build[b].leak => out) /\ (~removed => out)
  BY <1>1 DEF BuildType
<1>4. Goto(b, k)
  BY <1>2
<1> HIDE DEF where, out
<1>5. /\ k \in BuildType /\ k.pc = where /\ k.tag = build[b].tag /\ k.profile = build[b].profile
      /\ k.leak = out /\ k.container = NoImage
  BY <1>1, <1>3, PlainTyped DEF BuildType
<1> HIDE DEF k
<1>6. BuildInv(k) /\ build[b].tag \in Versions
  BY <1>1, <1>3, <1>5 DEF BuildInv, HasTag, Contained, Planned
<1>7. build' \in [Builds -> BuildType] /\ \A a \in Builds : build'[a] = IF a = b THEN k ELSE build[a]
  BY <1>4, <1>5 DEF Goto, PythonInv, PythonTypeOK
<1>8. /\ builders' \in [Versions -> Image] /\ \A t \in Versions : t # build[b].tag => builders'[t] = builders[t]
      /\ removed => builders'[build[b].tag] = NoImage
  BY <1>2, <1>6, PlainTyped DEF BuilderTag, PythonInv, PythonTypeOK
<1>9. PythonTypeOK'
  BY <1>1, <1>7, <1>8 DEF PythonInv, PythonTypeOK
<1>10. Accounted(builders', build')
  <2>1. ASSUME NEW t \in Versions, builders'[t] # NoImage
        PROVE  \E a \in Builds : (build'[a].tag = t /\ build'[a].pc \in {"create", "copy", "untag"}) \/ build'[a].leak
    <3>1. CASE ~removed
      BY <3>1, <1>3, <1>5, <1>7
    <3>2. CASE removed
      <4>1. t # build[b].tag /\ builders[t] # NoImage
        BY <2>1, <3>2, <1>8
      <4>2. PICK a \in Builds : (build[a].tag = t /\ build[a].pc \in {"create", "copy", "untag"}) \/ build[a].leak
        BY <4>1 DEF PythonInv, Accounted
      <4> QED
        BY <4>1, <4>2, <1>3, <1>5, <1>7
    <3> QED
      BY <3>1, <3>2
  <2> QED
    BY <2>1 DEF Accounted
<1> QED
  BY <1>1, <1>6, <1>7, <1>9, <1>10 DEF PythonInv

LEMMA BundleNot == ASSUME NEW bundle \in BundleType PROVE bundle # NoBundle /\ bundle.tag \in Versions
<1>1. bundle.tag \in Versions /\ NoBundle.tag = 0 /\ 0 \notin Versions
  BY PythonAssumption DEF BundleType, NoBundle, Versions
<1> QED
  BY <1>1

\* A history variable of an execution is set: nothing else of it changes.
LEMMA MovedTyped == ASSUME NEW x \in ExecType
  PROVE /\ [x EXCEPT !.moved = TRUE] \in ExecType /\ [x EXCEPT !.moved = TRUE].moved = TRUE
        /\ [x EXCEPT !.moved = TRUE].pc = x.pc /\ [x EXCEPT !.moved = TRUE].bundle = x.bundle
        /\ [x EXCEPT !.moved = TRUE].foul = x.foul /\ [x EXCEPT !.moved = TRUE].leak = x.leak
        /\ [x EXCEPT !.moved = TRUE].container = x.container
  BY DEF ExecType

\* A tag that gets another image moves under the executions that checked it.
LEMMA RetagKeeps ==
  ASSUME PythonInv, NEW t \in Versions, NEW image \in Image, Retag(t, image)
  PROVE  /\ tags' \in [Versions -> Image] /\ exec' \in [Runs -> ExecType]
         /\ \A r \in Runs : Checked(exec'[r], tags')
<1>1. tags' = [tags EXCEPT ![t] = image] /\ tags' \in [Versions -> Image]
  BY DEF Retag, PythonInv, PythonTypeOK
<1>2. exec' = [r \in Runs |->
        IF exec[r].bundle # NoBundle /\ exec[r].pc \in {"run", "wait"}
             /\ exec[r].bundle.tag = t /\ exec[r].bundle.claims # image
        THEN [exec[r] EXCEPT !.moved = TRUE] ELSE exec[r]]
  BY DEF Retag
<1>3. \A r \in Runs : exec[r] \in ExecType /\ Checked(exec[r], tags)
  BY DEF PythonInv, PythonTypeOK
<1>4. exec' \in [Runs -> ExecType]
  BY <1>2, <1>3, MovedTyped
<1>5. ASSUME NEW r \in Runs PROVE Checked(exec'[r], tags')
  <2>1. CASE exec[r].bundle # NoBundle /\ exec[r].pc \in {"run", "wait"}
             /\ exec[r].bundle.tag = t /\ exec[r].bundle.claims # image
    <3>1. exec'[r] = [exec[r] EXCEPT !.moved = TRUE]
      BY <1>2, <2>1
    <3>2. /\ exec'[r].moved = TRUE /\ exec'[r].pc = exec[r].pc /\ exec'[r].bundle = exec[r].bundle
          /\ exec'[r].leak = exec[r].leak /\ exec'[r].container = exec[r].container
      BY <3>1, <1>3, MovedTyped
    <3> QED
      BY <3>2, <1>3 DEF Checked
  <2>2. CASE ~(exec[r].bundle # NoBundle /\ exec[r].pc \in {"run", "wait"}
             /\ exec[r].bundle.tag = t /\ exec[r].bundle.claims # image)
    <3>1. exec'[r] = exec[r]
      BY <1>2, <2>2
    <3>2. ASSUME exec[r].pc \in {"run", "wait"}
          PROVE  exec[r].moved \/ tags'[exec[r].bundle.tag] = exec[r].bundle.claims
      <4>1. exec[r].bundle # NoBundle /\ exec[r].bundle.tag \in Versions
        BY <3>2, <1>3, BundleNot DEF Checked
      <4>2. CASE exec[r].bundle.tag = t
        BY <4>1, <4>2, <3>2, <2>2, <1>1 DEF PythonInv, PythonTypeOK
      <4>3. CASE exec[r].bundle.tag # t
        BY <4>1, <4>3, <3>2, <1>1, <1>3 DEF PythonInv, PythonTypeOK, Checked
      <4> QED
        BY <4>2, <4>3
    <3> QED
      BY <3>1, <3>2, <1>3 DEF Checked
  <2> QED
    BY <2>1, <2>2
<1> QED
  BY <1>1, <1>4, <1>5

LEMMA ImageKeeps == ASSUME PythonInv, NEW b \in Builds, BuildImage(b) PROVE PythonInv'
<1> DEFINE k == [build[b] EXCEPT !.pc = "save"]
           image == [src |-> build[b].runtime, base |-> build[b].base]
<1>1. /\ build[b] \in BuildType /\ BuildInv(build[b]) /\ build[b].pc = "image"
      /\ UNCHANGED <<source, builders>>
  BY DEF BuildImage, Step, PythonInv, PythonTypeOK
<1>2. CASE Fail(b) /\ UNCHANGED <<tags, exec>>
  BY <1>1, <1>2, FailKeeps
<1>3. CASE Retag(build[b].tag, image) /\ Goto(b, k)
  <2>1. /\ k \in BuildType /\ k.pc = "save" /\ k.tag = build[b].tag /\ k.profile = build[b].profile
        /\ k.leak = build[b].leak /\ k.container = build[b].container
    BY <1>1 DEF BuildType
  <2>2. image \in Image /\ build[b].tag \in Versions
    BY <1>1 DEF BuildType, Image, BuildInv, HasTag
  <2> HIDE DEF k, image
  <2>3. BuildInv(k)
    BY <1>1, <2>1 DEF BuildInv, HasTag, Contained, Planned
  <2>4. build' \in [Builds -> BuildType] /\ \A a \in Builds : build'[a] = IF a = b THEN k ELSE build[a]
    BY <1>3, <2>1 DEF Goto, PythonInv, PythonTypeOK
  <2>5. tags' \in [Versions -> Image] /\ exec' \in [Runs -> ExecType] /\ \A r \in Runs : Checked(exec'[r], tags')
    BY <1>3, <2>2, RetagKeeps
  <2>6. PythonTypeOK'
    BY <1>1, <2>4, <2>5 DEF PythonInv, PythonTypeOK
  <2>7. Accounted(builders', build')
    <3>1. ASSUME NEW t \in Versions, builders[t] # NoImage
          PROVE  \E a \in Builds : (build'[a].tag = t /\ build'[a].pc \in {"create", "copy", "untag"}) \/ build'[a].leak
      <4>1. PICK a \in Builds : (build[a].tag = t /\ build[a].pc \in {"create", "copy", "untag"}) \/ build[a].leak
        BY <3>1 DEF PythonInv, Accounted
      <4> QED
        BY <4>1, <1>1, <2>1, <2>4
    <3> QED
      BY <3>1, <1>1 DEF Accounted
  <2> QED
    BY <2>3, <2>4, <2>5, <2>6, <2>7 DEF PythonInv
<1> QED
  BY <1>2, <1>3 DEF BuildImage

LEMMA SaveKeeps == ASSUME PythonInv, NEW b \in Builds, SaveImage(b) PROVE PythonInv'
<1> DEFINE k == [build[b] EXCEPT !.pc = "inspect", !.saved = tags[build[b].tag]]
<1>1. /\ build[b] \in BuildType /\ BuildInv(build[b]) /\ build[b].pc = "save" /\ tags[build[b].tag] \in Image
      /\ UNCHANGED <<source, tags, builders, exec>>
  BY DEF SaveImage, Step, PythonInv, PythonTypeOK, BuildInv, HasTag
<1>2. /\ k \in BuildType /\ k.pc = "inspect" /\ k.tag = build[b].tag /\ k.profile = build[b].profile
      /\ k.leak = build[b].leak /\ k.container = build[b].container
  BY <1>1 DEF BuildType
<1>3. Goto(b, k) \/ Fail(b)
  BY DEF SaveImage
<1> HIDE DEF k
<1>4. BuildInv(k)
  BY <1>1, <1>2 DEF BuildInv, HasTag, Contained, Planned
<1> QED
  BY <1>1, <1>2, <1>3, <1>4, OneBuild, FailKeeps

LEMMA BundleKeeps == ASSUME PythonInv, NEW b \in Builds, BundleImage(b) PROVE PythonInv'
<1> DEFINE f == Forget(b)
           u == Bundle(b, Normalize(build[b].saved))
           k == [f EXCEPT !.pc = "done", !.bundle = u]
<1>1. /\ build[b] \in BuildType /\ BuildInv(build[b]) /\ build[b].pc = "inspect" /\ build[b].tag \in Versions
      /\ UNCHANGED <<source, tags, builders, exec>>
  BY DEF BundleImage, Step, PythonInv, PythonTypeOK, BuildInv, HasTag
<1>2. f \in BuildType /\ f.container = NoImage /\ f.leak = build[b].leak /\ f.profile = build[b].profile
  BY ForgetTyped DEF PythonInv
<1>3. u \in BundleType
  <2>1. build[b].saved \in Image
    BY <1>1 DEF BuildType
  <2> QED
    BY <1>1, <2>1 DEF Bundle, Normalize, BundleType
<1>4. Goto(b, k) \/ Fail(b)
  BY DEF BundleImage
<1> HIDE DEF f, u
<1>5. k \in BuildType /\ k.pc = "done" /\ k.container = NoImage /\ k.leak = build[b].leak /\ k.profile = build[b].profile
  BY <1>2, <1>3 DEF BuildType
<1> HIDE DEF k
<1>6. BuildInv(k)
  BY <1>1, <1>5 DEF BuildInv, HasTag, Contained, Planned
<1> QED
  BY <1>1, <1>4, <1>5, <1>6, OneBuild, FailKeeps

LEMMA ComponentKeeps == ASSUME PythonInv, NEW b \in Builds, StartComponent(b) PROVE PythonInv'
<1>1. /\ build[b] \in BuildType /\ BuildInv(build[b]) /\ build[b].pc = "start" /\ build[b].profile = "wasi-component"
      /\ UNCHANGED <<source, tags, builders, exec>>
  BY DEF StartComponent, Step, PythonInv, PythonTypeOK
<1>2. PICK d \in Defects :
        Goto(b, [build[b] EXCEPT !.pc = "deps", !.queue = Requires[Project], !.wheels = d # "wheel"]) \/ Fail(b)
  BY DEF StartComponent
<1> DEFINE portable == d # "wheel"
           k == [build[b] EXCEPT !.pc = "deps", !.queue = Requires[Project], !.wheels = portable]
<1>3. portable \in BOOLEAN /\ Requires[Project] \in Seq(Packages) /\ (Goto(b, k) \/ Fail(b))
  BY <1>2, RequiredListed
<1> HIDE DEF portable
<1>4. /\ k \in BuildType /\ k.pc = "deps" /\ k.profile = build[b].profile /\ k.leak = build[b].leak
      /\ k.container = build[b].container /\ k.queue = Requires[Project] /\ k.deps = build[b].deps
  BY <1>1, <1>3 DEF BuildType
<1> HIDE DEF k
<1>5. BuildInv(k)
  BY <1>1, <1>4, PlanStarts DEF BuildInv, HasTag, Contained, Planned
<1> QED
  BY <1>1, <1>3, <1>4, <1>5, OneBuild, FailKeeps

LEMMA PlanKeeps == ASSUME PythonInv, NEW b \in Builds, PlanDependency(b) PROVE PythonInv'
<1>1. /\ build[b] \in BuildType /\ BuildInv(build[b]) /\ build[b].pc = "deps" /\ build[b].queue # <<>>
      /\ build[b].queue \in Seq(Packages) /\ build[b].deps \in SUBSET Packages
      /\ UNCHANGED <<source, tags, builders, exec>>
  BY DEF PlanDependency, Step, PythonInv, PythonTypeOK, BuildType
<1>2. /\ Head(build[b].queue) \in Packages /\ Tail(build[b].queue) \in Seq(Packages)
      /\ Listed(build[b].queue) = {Head(build[b].queue)} \cup Listed(Tail(build[b].queue))
  BY <1>1, ListedTail
<1>3. PICK p \in Packages, rest \in Seq(Packages) :
        p = Head(build[b].queue) /\ rest = Tail(build[b].queue) /\ Listed(build[b].queue) = {p} \cup Listed(rest)
  BY <1>2, Zenon
<1>4. PICK m \in Seq(Packages) : /\ m = IF p \in build[b].deps THEN <<>> ELSE Requires[p]
                                 /\ Listed(m) \subseteq Required(p)
                                 /\ p \notin build[b].deps => Listed(m) = Required(p)
  BY <1>1, PlanMore
<1> DEFINE s == rest \o m
           D == build[b].deps \cup {p}
           k == [build[b] EXCEPT !.queue = s, !.deps = D]
<1>5. Goto(b, k)
  BY <1>3, <1>4 DEF PlanDependency
<1>6. s \in Seq(Packages) /\ D \in SUBSET Packages
  BY <1>1
<1>7. build[b].profile = "wasi-component" => Plan(s, D)
  <2>1. PICK q \in Seq(Packages), E \in SUBSET Packages : q = build[b].queue /\ E = build[b].deps
    BY <1>1
  <2>2. Plan(q, E) => Plan(s, E \cup {p})
    BY <1>3, <1>4, <2>1, PlanGoesOn
  <2>3. build[b].profile = "wasi-component" => Plan(build[b].queue, build[b].deps)
    BY <1>1 DEF BuildInv, Planned
  <2> HIDE DEF s
  <2> QED
    BY <2>1, <2>2, <2>3
<1> HIDE DEF s, D
<1>8. /\ k \in BuildType /\ k.pc = "deps" /\ k.profile = build[b].profile /\ k.leak = build[b].leak
      /\ k.container = build[b].container /\ k.queue = s /\ k.deps = D
  BY <1>1, <1>6 DEF BuildType
<1> HIDE DEF k
<1>9. BuildInv(k)
  BY <1>1, <1>7, <1>8 DEF BuildInv, HasTag, Contained, Planned
<1> QED
  BY <1>1, <1>5, <1>8, <1>9, OneBuild

LEMMA PlannedKeeps == ASSUME PythonInv, NEW b \in Builds, PlannedDependencies(b) PROVE PythonInv'
<1> DEFINE k == [build[b] EXCEPT !.pc = "stage", !.prov = source]
<1>1. /\ build[b] \in BuildType /\ BuildInv(build[b]) /\ build[b].pc = "deps" /\ build[b].queue = <<>>
      /\ source \in 0..MaxVersion /\ build[b].deps \in SUBSET Packages
      /\ UNCHANGED <<source, tags, builders, exec>>
  BY PlainTyped DEF PlannedDependencies, Step, PythonInv, PythonTypeOK, BuildType
<1>2. /\ k \in BuildType /\ k.pc = "stage" /\ k.profile = build[b].profile /\ k.leak = build[b].leak
      /\ k.container = build[b].container /\ k.deps = build[b].deps
  BY <1>1 DEF BuildType
<1>3. Goto(b, k) \/ Fail(b)
  BY DEF PlannedDependencies
<1> HIDE DEF k
<1>4. build[b].profile = "wasi-component" => build[b].deps = Locked
  BY <1>1, PlanEnds DEF BuildInv, Planned
<1>5. BuildInv(k)
  BY <1>1, <1>2, <1>4 DEF BuildInv, HasTag, Contained, Planned
<1> QED
  BY <1>1, <1>2, <1>3, <1>5, OneBuild, FailKeeps

LEMMA StageComponentKeeps == ASSUME PythonInv, NEW b \in Builds, StageComponent(b) PROVE PythonInv'
<1> DEFINE k == [build[b] EXCEPT !.pc = "install", !.staged = source, !.prov = source]
<1>1. /\ build[b] \in BuildType /\ BuildInv(build[b]) /\ build[b].pc = "stage" /\ build[b].profile = "wasi-component"
      /\ source \in 0..MaxVersion /\ UNCHANGED <<source, tags, builders, exec>>
  BY PlainTyped DEF StageComponent, Step, PythonInv, PythonTypeOK
<1>2. /\ k \in BuildType /\ k.pc = "install" /\ k.profile = build[b].profile /\ k.leak = build[b].leak
      /\ k.container = build[b].container /\ k.deps = build[b].deps /\ k.prov = source /\ k.staged = source
  BY <1>1 DEF BuildType
<1>3. Goto(b, k)
  BY DEF StageComponent
<1> HIDE DEF k
<1>4. BuildInv(k)
  BY <1>1, <1>2 DEF BuildInv, HasTag, Contained, Planned
<1> QED
  BY <1>1, <1>2, <1>3, <1>4, OneBuild

LEMMA InstallKeeps == ASSUME PythonInv, NEW b \in Builds, InstallDependencies(b) PROVE PythonInv'
<1> DEFINE k == [build[b] EXCEPT !.pc = "componentize"]
<1>1. /\ build[b] \in BuildType /\ BuildInv(build[b]) /\ build[b].pc = "install"
      /\ UNCHANGED <<source, tags, builders, exec>>
  BY DEF InstallDependencies, Step, PythonInv, PythonTypeOK
<1>2. /\ k \in BuildType /\ k.pc = "componentize" /\ k.profile = build[b].profile /\ k.leak = build[b].leak
      /\ k.container = build[b].container /\ k.deps = build[b].deps /\ k.prov = build[b].prov /\ k.staged = build[b].staged
  BY <1>1 DEF BuildType
<1>3. Goto(b, k) \/ Fail(b)
  BY DEF InstallDependencies
<1> HIDE DEF k
<1>4. BuildInv(k)
  BY <1>1, <1>2 DEF BuildInv, HasTag, Contained, Planned
<1> QED
  BY <1>1, <1>2, <1>3, <1>4, OneBuild, FailKeeps

LEMMA ComponentizeKeeps == ASSUME PythonInv, NEW b \in Builds, Componentize(b) PROVE PythonInv'
<1> DEFINE k == [build[b] EXCEPT !.pc = "done"]
<1>1. /\ build[b] \in BuildType /\ BuildInv(build[b]) /\ build[b].pc = "componentize"
      /\ UNCHANGED <<source, tags, builders, exec>>
  BY DEF Componentize, Step, PythonInv, PythonTypeOK
<1>2. /\ k \in BuildType /\ k.pc = "done" /\ k.profile = build[b].profile /\ k.leak = build[b].leak
      /\ k.container = build[b].container /\ k.deps = build[b].deps /\ k.prov = build[b].prov /\ k.staged = build[b].staged
  BY <1>1 DEF BuildType
<1>3. Goto(b, k) \/ Fail(b)
  BY DEF Componentize
<1> HIDE DEF k
<1>4. BuildInv(k)
  BY <1>1, <1>2 DEF BuildInv, HasTag, Contained, Planned
<1> QED
  BY <1>1, <1>2, <1>3, <1>4, OneBuild, FailKeeps

\* An execution goes on alone.
LEMMA OneRun ==
  ASSUME PythonInv, NEW r \in Runs, NEW x \in ExecType, exec' = [exec EXCEPT ![r] = x], Checked(x, tags),
         UNCHANGED <<source, tags, builders, build>>
  PROVE  PythonInv'
<1>1. exec' \in [Runs -> ExecType] /\ \A q \in Runs : exec'[q] = IF q = r THEN x ELSE exec[q]
  BY DEF PythonInv, PythonTypeOK
<1>2. PythonTypeOK'
  BY <1>1 DEF PythonInv, PythonTypeOK
<1>3. \A q \in Runs : Checked(exec'[q], tags')
  BY <1>1 DEF PythonInv
<1> QED
  BY <1>2, <1>3 DEF PythonInv

\* An execution that only moves on to another place, and what it needs there.
LEMMA Moves ==
  ASSUME NEW x \in ExecType, NEW names, Checked(x, names),
         NEW pc \in {"prepared", "cache", "load", "verify", "run", "failed"},
         x.pc # "wait", x.pc \in {"idle", "failed"} => pc = "failed",
         pc = "run" => x.moved \/ names[x.bundle.tag] = x.bundle.claims
  PROVE  [x EXCEPT !.pc = pc] \in ExecType /\ Checked([x EXCEPT !.pc = pc], names)
<1> DEFINE y == [x EXCEPT !.pc = pc]
<1>1. /\ y \in ExecType /\ y.pc = pc /\ y.bundle = x.bundle /\ y.moved = x.moved /\ y.foul = x.foul
      /\ y.container = x.container /\ y.leak = x.leak
  BY DEF ExecType
<1> HIDE DEF y
<1>2. Checked(y, names)
  BY <1>1 DEF Checked
<1> QED
  BY <1>1, <1>2 DEF y

LEMMA PrepareKeeps == ASSUME PythonInv, NEW r \in Runs, Prepare(r) PROVE PythonInv'
<1>1. /\ exec[r] \in ExecType /\ Checked(exec[r], tags) /\ exec[r].pc = "idle"
      /\ UNCHANGED <<source, tags, builders, build>>
  BY DEF Prepare, PythonInv, PythonTypeOK
<1>2. PICK bundle \in Bundles :
        exec' = [exec EXCEPT ![r] =
                  IF Decodes(bundle)
                  THEN [@ EXCEPT !.pc = "prepared", !.bundle = bundle, !.left = Inputs]
                  ELSE [@ EXCEPT !.pc = "failed"]]
  BY DEF Prepare
<1>3. bundle \in BundleType /\ Inputs \in Int
  BY PythonAssumption DEF Bundles, PythonInv, PythonTypeOK, BuildType
<1> DEFINE u == [exec[r] EXCEPT !.pc = "prepared", !.bundle = bundle, !.left = Inputs]
           v == [exec[r] EXCEPT !.pc = "failed"]
<1>4. CASE Decodes(bundle)
  <2>1. /\ u \in ExecType /\ u.pc = "prepared" /\ u.bundle = bundle /\ u.foul = exec[r].foul /\ u.moved = exec[r].moved
        /\ u.container = exec[r].container /\ u.leak = exec[r].leak
    BY <1>1, <1>3 DEF ExecType
  <2>2. exec' = [exec EXCEPT ![r] = u]
    BY <1>2, <1>4
  <2> HIDE DEF u
  <2>3. Checked(u, tags)
    BY <1>1, <1>3, <2>1 DEF Checked
  <2> QED
    BY <1>1, <2>1, <2>2, <2>3, OneRun
<1>5. CASE ~Decodes(bundle)
  <2>1. exec' = [exec EXCEPT ![r] = v]
    BY <1>2, <1>5
  <2>2. v \in ExecType /\ Checked(v, tags)
    BY <1>1, Moves
  <2> QED
    BY <1>1, <2>1, <2>2, OneRun
<1> QED
  BY <1>4, <1>5

\* Starting the layer, looking at the cache and looking at what was loaded.
LEMMA ChecksKeep ==
  ASSUME PythonInv, NEW r \in Runs, StartLayer(r) \/ CheckCache(r) \/ VerifyLoaded(r)
  PROVE  PythonInv'
<1>1. /\ exec[r] \in ExecType /\ Checked(exec[r], tags) /\ exec[r].pc \in {"prepared", "cache", "verify"}
      /\ UNCHANGED <<source, tags, builders, build>>
  BY DEF StartLayer, CheckCache, VerifyLoaded, PythonInv, PythonTypeOK
<1>2. PICK pc \in {"prepared", "cache", "load", "verify", "run", "failed"} :
        /\ exec' = [exec EXCEPT ![r].pc = pc]
        /\ pc = "run" => tags[exec[r].bundle.tag] = exec[r].bundle.claims
  <2>1. CASE StartLayer(r)
    BY <2>1 DEF StartLayer
  <2>2. CASE CheckCache(r)
    BY <2>2 DEF CheckCache, CachedImageMatches
  <2>3. CASE VerifyLoaded(r)
    BY <2>3 DEF VerifyLoaded
  <2> QED
    BY <2>1, <2>2, <2>3
<1> DEFINE x == [exec[r] EXCEPT !.pc = pc]
<1>3. x \in ExecType /\ Checked(x, tags)
  BY <1>1, <1>2, Moves
<1>4. exec' = [exec EXCEPT ![r] = x]
  BY <1>2
<1> HIDE DEF x
<1> QED
  BY <1>1, <1>3, <1>4, OneRun

LEMMA LoadKeeps == ASSUME PythonInv, NEW r \in Runs, LoadImage(r) PROVE PythonInv'
<1> DEFINE bundle == exec[r].bundle
<1>1. /\ exec[r] \in ExecType /\ Checked(exec[r], tags) /\ exec[r].pc = "load"
      /\ UNCHANGED <<source, builders, build>>
  BY DEF LoadImage, PythonInv, PythonTypeOK
<1>2. bundle \in BundleType /\ bundle.loads \in Versions /\ bundle.holds \in Image
  BY <1>1 DEF Checked, BundleType
<1>3. CASE bundle.defect = "expansion"
  <2> DEFINE x == [exec[r] EXCEPT !.pc = "failed"]
  <2>1. exec' = [exec EXCEPT ![r] = x] /\ UNCHANGED tags
    BY <1>3 DEF LoadImage
  <2>2. x \in ExecType /\ Checked(x, tags)
    BY <1>1, Moves
  <2> HIDE DEF x
  <2> QED
    BY <1>1, <2>1, <2>2, OneRun
<1>4. CASE bundle.defect # "expansion"
  <2>1. /\ tags' = [tags EXCEPT ![bundle.loads] = bundle.holds]
        /\ exec' = [q \in Runs |->
             IF q = r THEN [exec[q] EXCEPT !.pc = "verify"]
             ELSE IF exec[q].pc \in {"run", "wait"} /\ exec[q].bundle.tag = bundle.loads
                       /\ exec[q].bundle.claims # bundle.holds
                  THEN [exec[q] EXCEPT !.moved = TRUE] ELSE exec[q]]
    BY <1>4 DEF LoadImage
  <2>2. /\ tags' \in [Versions -> Image] /\ tags'[bundle.loads] = bundle.holds
        /\ \A t \in Versions : t # bundle.loads => tags'[t] = tags[t]
    BY <2>1, <1>2 DEF PythonInv, PythonTypeOK
  <2>3. \A q \in Runs : exec[q] \in ExecType /\ Checked(exec[q], tags)
    BY DEF PythonInv, PythonTypeOK
  <2>4. ASSUME NEW q \in Runs PROVE exec'[q] \in ExecType /\ Checked(exec'[q], tags')
    <3>1. CASE q = r
      <4>1. exec'[q] = [exec[r] EXCEPT !.pc = "verify"]
        BY <2>1, <3>1
      <4>2. exec'[q] \in ExecType /\ Checked(exec'[q], tags)
        BY <4>1, <1>1, Moves
      <4>3. exec'[q].pc = "verify"
        BY <4>1, <1>1 DEF ExecType
      <4> QED
        BY <4>2, <4>3 DEF Checked
    <3>2. CASE q # r /\ exec[q].pc \in {"run", "wait"} /\ exec[q].bundle.tag = bundle.loads
                  /\ exec[q].bundle.claims # bundle.holds
      <4>1. exec'[q] = [exec[q] EXCEPT !.moved = TRUE]
        BY <2>1, <3>2
      <4>2. /\ exec'[q] \in ExecType /\ exec'[q].moved = TRUE /\ exec'[q].pc = exec[q].pc
            /\ exec'[q].bundle = exec[q].bundle /\ exec'[q].leak = exec[q].leak
            /\ exec'[q].container = exec[q].container
        BY <4>1, <2>3, MovedTyped
      <4> QED
        BY <4>2, <2>3 DEF Checked
    <3>3. CASE q # r /\ ~(exec[q].pc \in {"run", "wait"} /\ exec[q].bundle.tag = bundle.loads
                  /\ exec[q].bundle.claims # bundle.holds)
      <4>1. exec'[q] = exec[q]
        BY <2>1, <3>3
      <4>2. ASSUME exec[q].pc \in {"run", "wait"}
            PROVE  exec[q].moved \/ tags'[exec[q].bundle.tag] = exec[q].bundle.claims
        <5>1. exec[q].bundle.tag \in Versions
          BY <4>2, <2>3, BundleNot DEF Checked
        <5>2. CASE exec[q].bundle.tag = bundle.loads
          BY <5>2, <4>2, <3>3, <2>2
        <5>3. CASE exec[q].bundle.tag # bundle.loads
          BY <5>1, <5>3, <4>2, <2>2, <2>3 DEF Checked
        <5> QED
          BY <5>2, <5>3
      <4> QED
        BY <4>1, <4>2, <2>3 DEF Checked
    <3> QED
      BY <3>1, <3>2, <3>3
  <2>5. exec' \in [Runs -> ExecType]
    <3>1. exec' = [q \in Runs |-> exec'[q]]
      BY <2>1
    <3> QED
      BY <3>1, <2>4
  <2>6. PythonTypeOK'
    BY <1>1, <2>2, <2>5 DEF PythonInv, PythonTypeOK
  <2> QED
    BY <1>1, <2>4, <2>6 DEF PythonInv
<1> QED
  BY <1>3, <1>4

\* The container runs what the tag names: it is foul only if the tag moved.
LEMMA RunKeeps == ASSUME PythonInv, NEW r \in Runs, RunContainer(r) PROVE PythonInv'
<1>1. /\ exec[r] \in ExecType /\ Checked(exec[r], tags) /\ exec[r].pc = "run"
      /\ UNCHANGED <<source, tags, builders, build>>
  BY DEF RunContainer, PythonInv, PythonTypeOK
<1>2. CASE exec' = [exec EXCEPT ![r].pc = "failed"]
  <2> DEFINE x == [exec[r] EXCEPT !.pc = "failed"]
  <2>1. exec' = [exec EXCEPT ![r] = x]
    BY <1>2
  <2>2. x \in ExecType /\ Checked(x, tags)
    BY <1>1, Moves
  <2> HIDE DEF x
  <2> QED
    BY <1>1, <2>1, <2>2, OneRun
<1>3. CASE exec' = [exec EXCEPT ![r] = [exec[r] EXCEPT !.pc = "wait",
                      !.container = tags[exec[r].bundle.tag],
                      !.foul = @ \/ tags[exec[r].bundle.tag] # exec[r].bundle.claims]]
  <2> DEFINE image == tags[exec[r].bundle.tag]
             bad == exec[r].foul \/ image # exec[r].bundle.claims
             x == [exec[r] EXCEPT !.pc = "wait", !.container = image, !.foul = bad]
  <2>1. exec' = [exec EXCEPT ![r] = x]
    BY <1>3
  <2>2. image \in Image /\ bad \in BOOLEAN /\ (bad => exec[r].moved)
    BY <1>1, BundleNot DEF Checked, ExecType, PythonInv, PythonTypeOK
  <2>3. exec[r].moved \/ tags[exec[r].bundle.tag] = exec[r].bundle.claims
    BY <1>1 DEF Checked
  <2> HIDE DEF image, bad
  <2>4. /\ x \in ExecType /\ x.pc = "wait" /\ x.foul = bad /\ x.moved = exec[r].moved /\ x.bundle = exec[r].bundle
    BY <1>1, <2>2 DEF ExecType
  <2> HIDE DEF x
  <2>5. Checked(x, tags)
    BY <1>1, <2>2, <2>3, <2>4 DEF Checked
  <2> QED
    BY <1>1, <2>1, <2>4, <2>5, OneRun
<1> QED
  BY <1>2, <1>3 DEF RunContainer

LEMMA ExitKeeps == ASSUME PythonInv, NEW r \in Runs, GuestExits(r) PROVE PythonInv'
<1>1. /\ exec[r] \in ExecType /\ Checked(exec[r], tags) /\ exec[r].pc = "wait"
      /\ UNCHANGED <<source, tags, builders, build>>
  BY DEF GuestExits, PythonInv, PythonTypeOK
<1>2. PICK ok \in BOOLEAN : exec' = [exec EXCEPT ![r] = [exec[r] EXCEPT !.container = NoImage, !.left = @ - 1,
                  !.pc = IF ~ok THEN "failed" ELSE IF exec[r].left = 1 THEN "done" ELSE "run"]]
  BY DEF GuestExits
<1> DEFINE where == IF ~ok THEN "failed" ELSE IF exec[r].left = 1 THEN "done" ELSE "run"
           more == exec[r].left - 1
           x == [exec[r] EXCEPT !.container = NoImage, !.left = more, !.pc = where]
<1>3. exec' = [exec EXCEPT ![r] = x] /\ where \in {"failed", "done", "run"} /\ more \in Int
  BY <1>1, <1>2 DEF ExecType
<1> HIDE DEF where, more
<1>4. /\ x \in ExecType /\ x.pc = where /\ x.container = NoImage /\ x.foul = exec[r].foul /\ x.moved = exec[r].moved
      /\ x.bundle = exec[r].bundle
  BY <1>1, <1>3, PlainTyped DEF ExecType
<1> HIDE DEF x
<1>5. Checked(x, tags)
  BY <1>1, <1>3, <1>4 DEF Checked
<1> QED
  BY <1>1, <1>3, <1>4, <1>5, OneRun

LEMMA TimeOutKeeps == ASSUME PythonInv, NEW r \in Runs, TimesOut(r) PROVE PythonInv'
<1>1. /\ exec[r] \in ExecType /\ Checked(exec[r], tags) /\ exec[r].pc = "wait"
      /\ UNCHANGED <<source, tags, builders, build>>
  BY DEF TimesOut, PythonInv, PythonTypeOK
<1>2. PICK removed \in BOOLEAN : exec' = [exec EXCEPT ![r] = [exec[r] EXCEPT !.pc = "failed",
                  !.container = IF removed THEN NoImage ELSE @, !.leak = ~removed]]
  BY DEF TimesOut
<1> DEFINE box == IF removed THEN NoImage ELSE exec[r].container
           out == ~removed
           x == [exec[r] EXCEPT !.pc = "failed", !.container = box, !.leak = out]
<1>3. exec' = [exec EXCEPT ![r] = x] /\ box \in Image /\ out \in BOOLEAN /\ (box # NoImage => out)
  BY <1>1, <1>2, PlainTyped DEF ExecType
<1> HIDE DEF box, out
<1>4. /\ x \in ExecType /\ x.pc = "failed" /\ x.container = box /\ x.foul = exec[r].foul /\ x.moved = exec[r].moved
      /\ x.leak = out
  BY <1>1, <1>3 DEF ExecType
<1> HIDE DEF x
<1>5. Checked(x, tags)
  BY <1>1, <1>3, <1>4 DEF Checked
<1> QED
  BY <1>1, <1>3, <1>4, <1>5, OneRun

LEMMA PythonStarts == ASSUME PythonInit PROVE PythonInv
<1>1. PICK profile \in [Builds -> Profiles] : build = [b \in Builds |-> [Unbuilt EXCEPT !.profile = profile[b]]]
  BY DEF PythonInit
<1>2. ASSUME NEW b \in Builds PROVE build[b] \in BuildType /\ BuildInv(build[b])
  <2> DEFINE k == [Unbuilt EXCEPT !.profile = profile[b]]
  <2>1. k \in BuildType
    BY UnbuiltTyped DEF BuildType
  <2>2. k.pc = "start" /\ k.container = NoImage /\ k.deps = {}
    BY DEF Unbuilt
  <2>3. build[b] = k
    BY <1>1
  <2> HIDE DEF k
  <2> QED
    BY <2>1, <2>2, <2>3 DEF BuildInv, HasTag, Contained, Planned
<1>3. Idle \in ExecType /\ Idle.pc = "idle" /\ Idle.foul = FALSE /\ Idle.container = NoImage
  BY PlainTyped DEF Idle, ExecType
<1>4. /\ source = 1 /\ tags = [t \in Versions |-> NoImage] /\ builders = [t \in Versions |-> NoImage]
      /\ exec = [r \in Runs |-> Idle]
  BY DEF PythonInit
<1>5. PythonTypeOK
  <2>1. build \in [Builds -> BuildType]
    BY <1>1, <1>2
  <2> QED
    BY <2>1, <1>3, <1>4, PlainTyped DEF PythonTypeOK
<1>6. Accounted(builders, build)
  BY <1>4 DEF Accounted
<1>7. \A r \in Runs : Checked(exec[r], tags)
  BY <1>3, <1>4 DEF Checked
<1> QED
  BY <1>2, <1>5, <1>6, <1>7 DEF PythonInv

LEMMA PythonStep == ASSUME PythonInv, PythonNext \/ UNCHANGED pythonVars PROVE PythonInv'
<1>1. CASE UNCHANGED pythonVars
  BY <1>1 DEF pythonVars, PythonInv, PythonTypeOK
<1>2. CASE Edit
  <2>1. source' \in Versions
    BY <1>2, PythonAssumption DEF Edit, PythonInv, PythonTypeOK, Versions
  <2> QED
    BY <1>2, <2>1 DEF Edit, PythonInv, PythonTypeOK
<1>3. ASSUME NEW b \in Builds, BuildStep(b) PROVE PythonInv'
  BY <1>3, StartKeeps, BaseKeeps, StageKeeps, TagKeeps, BuilderKeeps, CreateKeeps, CopyKeeps, UntagKeeps, ImageKeeps,
     SaveKeeps, BundleKeeps, ComponentKeeps, PlanKeeps, PlannedKeeps, StageComponentKeeps, InstallKeeps, ComponentizeKeeps
     DEF BuildStep
<1>4. ASSUME NEW r \in Runs, Prepare(r) \/ RunStep(r) \/ GuestExits(r) PROVE PythonInv'
  BY <1>4, PrepareKeeps, ChecksKeep, LoadKeeps, RunKeeps, ExitKeeps, TimeOutKeeps DEF RunStep
<1> QED
  BY <1>1, <1>2, <1>3, <1>4 DEF PythonNext

LEMMA PythonPromises == ASSUME PythonInv PROVE RunsClaimedImage /\ NothingLeftBehind /\ ComponentAttested
<1>1. RunsClaimedImage
  BY DEF PythonInv, Checked, RunsClaimedImage
<1>2. NothingLeftBehind
  BY DEF PythonInv, BuildInv, Contained, Accounted, Checked, NothingLeftBehind
<1>3. ComponentAttested
  BY DEF PythonInv, BuildInv, Planned, ComponentAttested
<1> QED
  BY <1>1, <1>2, <1>3
-----------------------------------------------------------------------------
(* Watched projects: the inductive invariant.                              *)

WatchStatus == {"none", "watching", "compiling", "ready", "failed"}
Archive == {0, 1} \cup Contents
FileRecord == [status : WatchStatus, kappa : Archive]
Handle == [status : WatchStatus, kappa : Archive, worker : Workers \cup {"none"}]
BuildingPcs == {"input", "compiling", "importing", "retiring", "ready", "failing", "saving"}
Thread ==
  [project : Projects \cup {"none"},
   pc : BuildingPcs \cup {"unused", "watching", "waiting", "debouncing"},
   queued : BOOLEAN, previous : Archive, built : Archive]
Commander ==
  [pc : {"idle", "insert", "save", "forget"}, project : Projects \cup {"none"},
   worker : Workers \cup {"none"}, previous : FileRecord]
Saver ==
  {NoSaver} \cup [owner : Workers \cup {"main"}, list : [Projects -> FileRecord]]

WatchTypeOK ==
  /\ content \in [Projects -> Archive] /\ output \in [Projects -> Archive]
  /\ watches \in [Projects -> Handle]
  /\ threads \in [Workers -> Thread]
  /\ commander \in Commander
  /\ restoring \subseteq Projects
  /\ saver \in Saver
  /\ saved \in [Projects -> FileRecord]
  /\ saveFaults \in Nat

Registered(p) == watches[p] # NoWatch
Registering == commander.pc \in {"insert", "save"}

\* A registered project has a worker of its own, which knows it; a build is of
\* a project, and of its registration unless that was removed meanwhile.
OwnWorkers ==
  /\ \A p \in Projects : Registered(p) =>
       /\ watches[p].worker \in Workers
       /\ threads[watches[p].worker].project = p
       /\ threads[watches[p].worker].pc # "unused"
  /\ \A w \in Workers : threads[w].pc # "unused" => threads[w].project \in Projects
  /\ \A w \in Workers : Building(w) =>
       threads[w].project \in crossed \/ watches[threads[w].project].worker = w

\* What the main thread is registering, and what it still has to restore.
Registration ==
  /\ \A w \in Workers : threads[w].pc = "watching" => Registering /\ commander.worker = w
  /\ Registering =>
       /\ commander.worker \in Workers
       /\ threads[commander.worker].pc = "watching"
       /\ threads[commander.worker].project = commander.project
       /\ commander.project \notin restoring
  /\ commander.pc = "insert" => ~Registered(commander.project)
  /\ commander.pc = "save" => watches[commander.project].worker = commander.worker
  /\ \A p \in restoring : ~Registered(p)

\* The worker's build result, from the compiler to the record.
Current(t, v, p) == t.queued \/ v = content[p]
Recorded(t, h, p) ==
  h.status = "failed" \/ (h.status = "ready" /\ Current(t, h.kappa, p) /\ <<p, h.kappa>> \in catalogued)
Waits(t) == t.pc = "waiting" /\ ~t.queued

Progress(p) ==
  LET h == watches[p]
      t == threads[watches[p].worker]
  IN  /\ t.pc = "importing" => Current(t, output[p], p)
      /\ t.pc \in {"retiring", "ready"} => Current(t, t.built, p) /\ <<p, t.built>> \in catalogued
      /\ t.pc = "saving" \/ Waits(t) => Recorded(t, h, p)

\* A list taken by the worker's own save, or while the worker waits, has the record.
Persisted(p) ==
  LET h == watches[p]
      w == watches[p].worker
  IN  /\ Waits(threads[w]) /\ saver # NoSaver => saver.list[p] = Record(h)
      /\ saver.owner = w => saver.list[p] = Record(h)
      /\ Waits(threads[w]) /\ saveFaults = 0 => saved[p] = Record(h)

WatchInv ==
  /\ WatchTypeOK
  /\ OwnWorkers
  /\ Registration
  /\ \A w \in Workers : saver.owner = w => threads[w].pc = "saving"
  /\ \A p \in Projects \ crossed : Registered(p) => Progress(p) /\ Persisted(p)

LEMMA SaverFacts == ASSUME WatchTypeOK
  PROVE /\ saver = NoSaver <=> saver.owner = "none"
        /\ saver # NoSaver => saver.list \in [Projects -> FileRecord] /\ saver.owner \in Workers \cup {"main"}
  BY WatchAssumption DEF WatchTypeOK, Saver, NoSaver

LEMMA RecordTyped == ASSUME NEW h \in Handle PROVE Record(h) \in FileRecord
  BY DEF Record, Handle, FileRecord

LEMMA ListTyped == ASSUME WatchTypeOK PROVE List \in [Projects -> FileRecord]
  BY RecordTyped DEF WatchTypeOK, List

LEMMA ListTakes == ASSUME WatchTypeOK, NEW owner \in Workers \cup {"main"}, saver' = [owner |-> owner, list |-> List]
  PROVE /\ saver' \in Saver /\ saver'.owner = owner /\ saver' # NoSaver
        /\ \A p \in Projects : saver'.list[p] = Record(watches[p])
<1>1. saver'.owner = owner /\ saver'.list = List
  OBVIOUS
<1>2. saver' \in Saver
  BY ListTyped DEF Saver
<1> QED
  BY <1>1, <1>2, WatchAssumption DEF NoSaver, List

LEMMA WorkerOf == ASSUME WatchInv, NEW w \in Workers, Watched(w)
  PROVE Registered(threads[w].project) /\ watches[threads[w].project].worker = w /\ threads[w].project \in Projects
<1>1. PICK p \in Projects : watches[p].worker = w
  BY DEF Watched
<1>2. Registered(p)
  BY <1>1, WatchAssumption DEF Registered, NoWatch
<1> QED
  BY <1>1, <1>2 DEF WatchInv, OwnWorkers

\* A step of worker w that is neither its start nor its end, and the records it
\* changes without touching their registrations.
LEMMA WorkerFrame ==
  ASSUME WatchInv, NEW w \in Workers, NEW t \in Thread, threads' = [threads EXCEPT ![w] = t],
         threads[w].pc \notin {"unused", "watching"}, t.pc \notin {"unused", "watching"},
         t.project = threads[w].project,
         t.pc \in BuildingPcs => Building(w) \/ Watched(w),
         watches' \in [Projects -> Handle],
         \A p \in Projects : watches'[p].worker = watches[p].worker /\ (watches'[p] = NoWatch <=> watches[p] = NoWatch),
         UNCHANGED <<crossed, commander, restoring>>
  PROVE  OwnWorkers' /\ Registration'
<1>1. threads' \in [Workers -> Thread] /\ \A v \in Workers : threads'[v] = IF v = w THEN t ELSE threads[v]
  BY DEF WatchInv, WatchTypeOK
<1>2. \A v \in Workers : /\ threads'[v].project = threads[v].project
                         /\ threads'[v].pc = "unused" <=> threads[v].pc = "unused"
                         /\ threads'[v].pc = "watching" <=> threads[v].pc = "watching"
  BY <1>1
<1>3. \A p \in Projects : Registered(p)' <=> Registered(p)
  BY DEF Registered
<1>4. ASSUME NEW v \in Workers, Building(v)'
      PROVE  threads'[v].project \in crossed' \/ watches'[threads'[v].project].worker = v
  <2>1. threads[v].project \in Projects
    BY <1>1, <1>4 DEF WatchInv, OwnWorkers, Building
  <2>2. CASE Building(v)
    BY <2>1, <2>2, <1>2 DEF WatchInv, OwnWorkers
  <2>3. CASE ~Building(v)
    <3>1. v = w /\ Watched(w)
      BY <2>3, <1>1, <1>4 DEF Building, BuildingPcs
    <3> QED
      BY <3>1, <2>1, <1>2, WorkerOf
  <2> QED
    BY <2>2, <2>3
<1>5. OwnWorkers'
  <2>1. ASSUME NEW p \in Projects, Registered(p)'
        PROVE  /\ watches'[p].worker \in Workers /\ threads'[watches'[p].worker].project = p
               /\ threads'[watches'[p].worker].pc # "unused"
    BY <2>1, <1>2, <1>3 DEF WatchInv, OwnWorkers
  <2>2. \A v \in Workers : threads'[v].pc # "unused" => threads'[v].project \in Projects
    BY <1>2 DEF WatchInv, OwnWorkers
  <2> QED
    BY <2>1, <2>2, <1>4 DEF OwnWorkers
<1>6. Registration'
  <2>1. Registering' <=> Registering
    BY DEF Registering
  <2>2. Registering => commander.worker \in Workers /\ commander.project \in Projects
    <3>1. Registering => /\ commander.worker \in Workers /\ threads[commander.worker].pc = "watching"
                         /\ threads[commander.worker].project = commander.project
      BY DEF WatchInv, Registration
    <3> QED
      BY <3>1 DEF WatchInv, OwnWorkers
  <2>3. commander.pc = "insert" => ~Registered(commander.project)'
    BY <2>2, <1>3 DEF WatchInv, Registration, Registering
  <2>4. commander.pc = "save" => watches'[commander.project].worker = commander.worker
    BY <2>2 DEF WatchInv, Registration, Registering
  <2>5. \A p \in restoring : ~Registered(p)'
    BY <1>3 DEF WatchInv, Registration, WatchTypeOK
  <2> QED
    BY <1>2, <2>1, <2>2, <2>3, <2>4, <2>5 DEF WatchInv, Registration, Registered
<1> QED
  BY <1>5, <1>6

\* Other projects do not notice a step of worker w.
LEMMA Unnoticed ==
  ASSUME WatchInv, NEW p \in Projects \ crossed, Registered(p),
         watches'[p] = watches[p], threads'[watches[p].worker] = threads[watches[p].worker],
         content'[p] = content[p], output'[p] = output[p],
         \A a : <<p, a>> \in catalogued => <<p, a>> \in catalogued',
         \/ UNCHANGED <<saver, saved, saveFaults>>
         \/ /\ UNCHANGED <<saved, saveFaults>>
            /\ saver'.list[p] = Record(watches[p])
         \/ /\ saver # NoSaver /\ saver' = NoSaver
            /\ (saved' = saver.list /\ saveFaults' = saveFaults) \/ (saveFaults' > 0)
  PROVE  Progress(p)' /\ Persisted(p)'
<1>1. Progress(p) /\ Persisted(p) /\ watches[p].worker \in Workers
  BY DEF WatchInv, OwnWorkers
<1>2. Progress(p)'
  BY <1>1 DEF Progress, Recorded, Current, Waits
<1>3. Persisted(p)'
  <2>1. CASE UNCHANGED <<saver, saved, saveFaults>>
    BY <2>1, <1>1 DEF Persisted, Waits, Record
  <2>2. CASE UNCHANGED <<saved, saveFaults>> /\ saver'.list[p] = Record(watches[p])
    BY <2>2, <1>1 DEF Persisted, Waits, Record
  <2>3. CASE /\ saver # NoSaver /\ saver' = NoSaver
             /\ (saved' = saver.list /\ saveFaults' = saveFaults) \/ (saveFaults' > 0)
    <3>1. saver'.owner = "none"
      BY <2>3 DEF NoSaver
    <3>2. watches'[p].worker # "none"
      BY <1>1, WatchAssumption
    <3> QED
      BY <2>3, <3>1, <3>2, <1>1 DEF Persisted, Waits, Record
  <2> QED
    BY <2>1, <2>2, <2>3
<1> QED
  BY <1>2, <1>3

\* Steps of worker w that leave the file and the list that is being saved alone.
LEMMA QuietStep ==
  ASSUME WatchInv, NEW w \in Workers, NEW t \in Thread, threads' = [threads EXCEPT ![w] = t],
         threads[w].pc \notin {"unused", "watching", "saving"}, t.pc \notin {"unused", "watching"},
         t.project = threads[w].project,
         t.pc \in BuildingPcs => Building(w) \/ Watched(w),
         watches' \in [Projects -> Handle], output' \in [Projects -> Archive],
         \A p \in Projects : watches'[p].worker = watches[p].worker /\ (watches'[p] = NoWatch <=> watches[p] = NoWatch),
         UNCHANGED <<crossed, commander, restoring, content, saver, saved, saveFaults>>,
         \A p \in Projects \ crossed : Registered(p) /\ watches[p].worker # w =>
            /\ watches'[p] = watches[p] /\ output'[p] = output[p]
            /\ \A a : <<p, a>> \in catalogued => <<p, a>> \in catalogued',
         \A p \in Projects \ crossed : Registered(p) /\ watches[p].worker = w => ~Waits(t) /\ Progress(p)'
  PROVE  WatchInv'
<1>1. threads' \in [Workers -> Thread] /\ \A v \in Workers : threads'[v] = IF v = w THEN t ELSE threads[v]
  BY DEF WatchInv, WatchTypeOK
<1>2. OwnWorkers' /\ Registration'
  BY WorkerFrame
<1>3. WatchTypeOK'
  BY <1>1 DEF WatchInv, WatchTypeOK
<1>4. saver.owner # w /\ \A v \in Workers : saver'.owner = v => threads'[v].pc = "saving"
  BY <1>1 DEF WatchInv
<1>5. ASSUME NEW p \in Projects \ crossed, Registered(p) PROVE Progress(p)' /\ Persisted(p)'
  <2>1. CASE watches[p].worker = w
    <3>1. Progress(p)' /\ ~Waits(t)
      BY <2>1, <1>5
    <3>2. watches'[p].worker = w /\ threads'[w] = t
      BY <2>1, <1>1
    <3> QED
      BY <3>1, <3>2, <1>4 DEF Persisted, Waits
  <2>2. CASE watches[p].worker # w
    <3>1. threads'[watches[p].worker] = threads[watches[p].worker]
      BY <2>2, <1>1, <1>5 DEF WatchInv, OwnWorkers
    <3> QED
      BY <3>1, <2>2, <1>5, Unnoticed
  <2> QED
    BY <2>1, <2>2
<1>6. \A p \in Projects : Registered(p)' <=> Registered(p)
  BY DEF Registered
<1> QED
  BY <1>2, <1>3, <1>4, <1>5, <1>6 DEF WatchInv

\* A project that w builds and that was never crossed is registered with w only.
LEMMA Builds1 == ASSUME WatchInv, NEW w \in Workers, Building(w), NEW p \in Projects \ crossed
  PROVE  /\ threads[w].project \in Projects
         /\ p = threads[w].project => watches[p].worker = w
         /\ Registered(p) /\ watches[p].worker = w => p = threads[w].project
  BY DEF WatchInv, OwnWorkers, Building

LEMMA ReceiveKeeps == ASSUME WatchInv, NEW w \in Workers, Receive(w), UNCHANGED <<content, commander, restoring, crossed>>
  PROVE WatchInv'
<1> DEFINE t == [threads[w] EXCEPT !.queued = FALSE, !.pc = "debouncing"]
<1>1. /\ t \in Thread /\ t.pc = "debouncing" /\ t.project = threads[w].project
      /\ threads' = [threads EXCEPT ![w] = t] /\ threads'[w] = t
  BY DEF Receive, Work, WatchInv, WatchTypeOK, Thread
<1>2. ASSUME NEW p \in Projects \ crossed, watches[p].worker = w PROVE Progress(p)'
  BY <1>1, <1>2 DEF Receive, Progress, Waits
<1> HIDE DEF t
<1> QED
  BY <1>1, <1>2, QuietStep DEF Receive, WatchInv, WatchTypeOK, Waits, BuildingPcs

LEMMA DebouncedKeeps == ASSUME WatchInv, NEW w \in Workers, Debounced(w), UNCHANGED <<content, commander, restoring, crossed>>
  PROVE WatchInv'
<1> DEFINE t == [threads[w] EXCEPT !.pc = "input"]
<1>1. /\ t \in Thread /\ t.pc = "input" /\ t.project = threads[w].project
      /\ threads' = [threads EXCEPT ![w] = t] /\ threads'[w] = t
  BY DEF Debounced, Work, WatchInv, WatchTypeOK, Thread, BuildingPcs
<1>2. ASSUME NEW p \in Projects \ crossed, watches[p].worker = w PROVE Progress(p)'
  BY <1>1, <1>2 DEF Debounced, Progress, Waits
<1> HIDE DEF t
<1> QED
  BY <1>1, <1>2, QuietStep DEF Debounced, Worker, WatchInv, WatchTypeOK, Waits

LEMMA HandleKeeps == ASSUME WatchInv, NEW p \in Projects, Registered(p), NEW h \in Handle,
                            h.worker = watches[p].worker, watches' = [watches EXCEPT ![p] = h]
  PROVE /\ watches' \in [Projects -> Handle]
        /\ \A q \in Projects : watches'[q].worker = watches[q].worker /\ (watches'[q] = NoWatch <=> watches[q] = NoWatch)
        /\ watches'[p] = h /\ \A q \in Projects \ {p} : watches'[q] = watches[q]
<1>1. h # NoWatch
  BY WatchAssumption DEF WatchInv, OwnWorkers, NoWatch
<1> QED
  BY <1>1 DEF WatchInv, WatchTypeOK, Registered

LEMMA InputKeeps == ASSUME WatchInv, NEW w \in Workers, ProjectBuildInput(w),
                           UNCHANGED <<content, commander, restoring, crossed>>
  PROVE WatchInv'
<1> DEFINE q == threads[w].project
           u == [threads[w] EXCEPT !.pc = "waiting"]
           t == [threads[w] EXCEPT !.pc = "compiling", !.previous = watches[q].kappa]
           h == [watches[q] EXCEPT !.status = "compiling"]
<1>1. Building(w) /\ q \in Projects /\ threads[w] \in Thread /\ watches[q] \in Handle /\ threads[w].pc = "input"
  BY DEF ProjectBuildInput, Worker, Building, WatchInv, OwnWorkers, WatchTypeOK
<1>2. CASE watches[q] = NoWatch
  <2>1. /\ u \in Thread /\ u.pc = "waiting" /\ u.project = threads[w].project
        /\ threads' = [threads EXCEPT ![w] = u] /\ UNCHANGED watches
    BY <1>1, <1>2 DEF ProjectBuildInput, Work, Thread
  <2>2. \A p \in Projects \ crossed : ~(Registered(p) /\ watches[p].worker = w)
    BY <1>1, <1>2, Builds1 DEF Registered
  <2> HIDE DEF u
  <2> QED
    BY <1>1, <2>1, <2>2, QuietStep DEF ProjectBuildInput, WatchInv, WatchTypeOK, BuildingPcs
<1>3. CASE watches[q] # NoWatch
  <2>1. t \in Thread /\ t.pc = "compiling" /\ t.project = threads[w].project
    BY <1>1 DEF Thread, Handle, BuildingPcs
  <2>2. h \in Handle /\ h.worker = watches[q].worker
    BY <1>1 DEF Handle, WatchStatus
  <2>3. threads' = [threads EXCEPT ![w] = t] /\ watches' = [watches EXCEPT ![q] = h] /\ threads'[w] = t
    BY <1>1, <1>3 DEF ProjectBuildInput, Work, WatchInv, WatchTypeOK
  <2> HIDE DEF t, h
  <2>4. ASSUME NEW p \in Projects \ crossed, Registered(p), watches[p].worker = w PROVE Progress(p)'
    <3>1. watches'[p].worker = w
      BY <1>1, <1>3, <2>2, <2>3, <2>4, HandleKeeps DEF Registered
    <3> QED
      BY <3>1, <2>1, <2>3 DEF Progress, Waits
  <2>5. \A p \in Projects \ crossed : Registered(p) /\ watches[p].worker # w => p # q
    BY <1>1, Builds1
  <2>6. UNCHANGED <<output, catalogued, saver, saved, saveFaults>> /\ output \in [Projects -> Archive] /\ ~Waits(t)
    BY <2>1 DEF ProjectBuildInput, WatchInv, WatchTypeOK, Waits
  <2>7. /\ watches' \in [Projects -> Handle]
        /\ \A p \in Projects : watches'[p].worker = watches[p].worker /\ (watches'[p] = NoWatch <=> watches[p] = NoWatch)
        /\ \A p \in Projects \ {q} : watches'[p] = watches[p]
    BY <1>1, <1>3, <2>2, <2>3, HandleKeeps DEF Registered
  <2> QED
    BY <1>1, <2>1, <2>3, <2>4, <2>5, <2>6, <2>7, QuietStep
<1> QED
  BY <1>2, <1>3

LEMMA CompileKeeps == ASSUME WatchInv, NEW w \in Workers, Compile(w), UNCHANGED <<content, commander, restoring, crossed>>
  PROVE WatchInv'
<1> DEFINE t == [threads[w] EXCEPT !.pc = "importing"]
           q == threads[w].project
<1>1. Building(w) /\ q \in Projects /\ threads[w] \in Thread /\ threads[w].pc = "compiling"
  BY DEF Compile, Worker, Building, WatchInv, OwnWorkers, WatchTypeOK
<1>2. /\ t \in Thread /\ t.pc = "importing" /\ t.project = threads[w].project
      /\ threads' = [threads EXCEPT ![w] = t] /\ threads'[w] = t
  BY <1>1 DEF Compile, Work, WatchInv, WatchTypeOK, Thread, BuildingPcs
<1>3. output' = [output EXCEPT ![q] = content[q]] /\ output' \in [Projects -> Archive] /\ output'[q] = content[q]
  BY <1>1 DEF Compile, WatchInv, WatchTypeOK
<1>4. ASSUME NEW p \in Projects \ crossed, Registered(p), watches[p].worker = w PROVE Progress(p)'
  <2>1. p = q
    BY <1>1, <1>4, Builds1
  <2> QED
    BY <2>1, <1>2, <1>3, <1>4 DEF Compile, Progress, Current, Waits
<1>5. \A p \in Projects \ crossed : Registered(p) /\ watches[p].worker # w => p # q
  BY <1>1, Builds1
<1>6. UNCHANGED <<watches, catalogued, saver, saved, saveFaults>> /\ watches \in [Projects -> Handle]
  BY DEF Compile, WatchInv, WatchTypeOK
<1>7. \A p \in Projects \ crossed : Registered(p) /\ watches[p].worker # w => output'[p] = output[p]
  BY <1>3, <1>5 DEF WatchInv, WatchTypeOK
<1> HIDE DEF t, q
<1> QED
  BY <1>1, <1>2, <1>3, <1>4, <1>6, <1>7, QuietStep DEF Waits

LEMMA ImportKeeps == ASSUME WatchInv, NEW w \in Workers, ImportOutput(w), UNCHANGED <<content, commander, restoring, crossed>>
  PROVE WatchInv'
<1> DEFINE q == threads[w].project
           t == [threads[w] EXCEPT !.pc = "retiring", !.built = output[q]]
<1>1. Building(w) /\ q \in Projects /\ threads[w] \in Thread /\ threads[w].pc = "importing" /\ output[q] \in Archive
  BY DEF ImportOutput, Worker, Building, WatchInv, OwnWorkers, WatchTypeOK
<1>2. /\ t \in Thread /\ t.pc = "retiring" /\ t.project = threads[w].project /\ t.built = output[q]
      /\ t.queued = threads[w].queued
  BY <1>1 DEF Thread, BuildingPcs
<1>3. threads' = [threads EXCEPT ![w] = t] /\ threads'[w] = t
  BY <1>1 DEF ImportOutput, Work, WatchInv, WatchTypeOK
<1>4. catalogued' = catalogued \cup {<<q, output[q]>>}
  BY DEF ImportOutput
<1>5. UNCHANGED <<watches, output, saver, saved, saveFaults>> /\ watches \in [Projects -> Handle] /\ output \in [Projects -> Archive]
  BY DEF ImportOutput, WatchInv, WatchTypeOK
<1>6. ASSUME NEW p \in Projects \ crossed, Registered(p), watches[p].worker = w PROVE Progress(p)'
  <2>1. p = q /\ Progress(p)
    BY <1>1, <1>6, Builds1 DEF WatchInv
  <2>2. Current(threads[w], output[p], p)
    BY <2>1, <1>1, <1>6 DEF Progress
  <2> HIDE DEF t
  <2> QED
    BY <2>1, <2>2, <1>2, <1>3, <1>4, <1>5, <1>6 DEF Progress, Current, Waits
<1> HIDE DEF t
<1> QED
  BY <1>1, <1>2, <1>3, <1>4, <1>5, <1>6, QuietStep DEF Waits

LEMMA FailsKeeps == ASSUME WatchInv, NEW w \in Workers, BuildFails(w), UNCHANGED <<content, commander, restoring, crossed>>
  PROVE WatchInv'
<1> DEFINE t == [threads[w] EXCEPT !.pc = "failing"]
<1>1. Building(w) /\ threads[w] \in Thread /\ threads[w].pc \in {"compiling", "importing"}
  BY DEF BuildFails, Building, WatchInv, WatchTypeOK
<1>2. /\ t \in Thread /\ t.pc = "failing" /\ t.project = threads[w].project
      /\ threads' = [threads EXCEPT ![w] = t] /\ threads'[w] = t
  BY <1>1 DEF BuildFails, Work, WatchInv, WatchTypeOK, Thread, BuildingPcs
<1>3. ASSUME NEW p \in Projects \ crossed, watches[p].worker = w PROVE Progress(p)'
  BY <1>2, <1>3 DEF BuildFails, Progress, Waits
<1>4. UNCHANGED <<watches, catalogued, output, saver, saved, saveFaults>> /\ watches \in [Projects -> Handle] /\ output \in [Projects -> Archive]
  BY DEF BuildFails, WatchInv, WatchTypeOK
<1> HIDE DEF t
<1> QED
  BY <1>1, <1>2, <1>3, <1>4, QuietStep DEF Waits

LEMMA RetireKeeps == ASSUME WatchInv, NEW w \in Workers, RetirePrevious(w), UNCHANGED <<content, commander, restoring, crossed>>
  PROVE WatchInv'
<1> DEFINE t == [threads[w] EXCEPT !.pc = "ready"]
           q == threads[w].project
<1>1. Building(w) /\ q \in Projects /\ threads[w] \in Thread /\ threads[w].pc = "retiring"
  BY DEF RetirePrevious, Worker, Building, WatchInv, OwnWorkers, WatchTypeOK
<1>2. /\ t \in Thread /\ t.pc = "ready" /\ t.project = threads[w].project /\ t.built = threads[w].built
      /\ t.queued = threads[w].queued /\ threads' = [threads EXCEPT ![w] = t] /\ threads'[w] = t
  BY <1>1 DEF RetirePrevious, Work, WatchInv, WatchTypeOK, Thread, BuildingPcs
<1>3. \A p, a : <<p, a>> \in catalogued /\ (p # q \/ a = threads[w].built) => <<p, a>> \in catalogued'
  BY DEF RetirePrevious, Replaced
<1>4. ASSUME NEW p \in Projects \ crossed, Registered(p), watches[p].worker = w PROVE Progress(p)'
  <2>1. p = q /\ Progress(p)
    BY <1>1, <1>4, Builds1 DEF WatchInv
  <2>2. Current(threads[w], threads[w].built, p) /\ <<p, threads[w].built>> \in catalogued
    BY <2>1, <1>1, <1>4 DEF Progress
  <2>3. <<p, t.built>> \in catalogued' /\ Current(t, t.built, p)
    BY <2>2, <1>2, <1>3 DEF Current
  <2> HIDE DEF t
  <2> QED
    BY <2>1, <2>3, <1>2, <1>4 DEF RetirePrevious, Progress, Current, Waits
<1>5. UNCHANGED <<watches, output, saver, saved, saveFaults>> /\ watches \in [Projects -> Handle] /\ output \in [Projects -> Archive]
  BY DEF RetirePrevious, WatchInv, WatchTypeOK
<1>6. \A p \in Projects \ crossed : Registered(p) /\ watches[p].worker # w => p # q
  BY <1>1, Builds1
<1> HIDE DEF t, q
<1> QED
  BY <1>1, <1>2, <1>3, <1>4, <1>5, <1>6, QuietStep DEF Waits

\* update_record on the way to the save: the own registration, if it is there,
\* gets the result of the build.
LEMMA MarkKeeps ==
  ASSUME WatchInv, NEW w \in Workers, threads[w].pc \in {"ready", "failing"},
         NEW h \in Handle, h.worker = watches[threads[w].project].worker,
         UpdateRecord(threads[w].project, h),
         threads' = [threads EXCEPT ![w] = [threads[w] EXCEPT !.pc = "saving"]],
         UNCHANGED <<content, commander, restoring, crossed, saver, saved, output, catalogued, saveFaults>>,
         \A p \in Projects \ crossed : Registered(p) /\ watches[p].worker = w => Recorded(threads[w], h, p)
  PROVE  WatchInv'
<1> DEFINE t == [threads[w] EXCEPT !.pc = "saving"]
           q == threads[w].project
<1>1. Building(w) /\ q \in Projects /\ threads[w] \in Thread /\ watches \in [Projects -> Handle]
  BY DEF Building, WatchInv, OwnWorkers, WatchTypeOK
<1>2. /\ t \in Thread /\ t.pc = "saving" /\ t.project = threads[w].project /\ t.queued = threads[w].queued
      /\ threads' = [threads EXCEPT ![w] = t] /\ threads'[w] = t
  BY <1>1 DEF WatchInv, WatchTypeOK, Thread, BuildingPcs
<1>3. /\ watches' \in [Projects -> Handle]
      /\ \A p \in Projects : watches'[p].worker = watches[p].worker /\ (watches'[p] = NoWatch <=> watches[p] = NoWatch)
      /\ \A p \in Projects \ {q} : watches'[p] = watches[p]
      /\ Registered(q) => watches'[q] = h
  <2>1. CASE Registered(q)
    BY <2>1, <1>1, HandleKeeps DEF UpdateRecord, Registered
  <2>2. CASE ~Registered(q)
    BY <2>2, <1>1 DEF UpdateRecord, Registered
  <2> QED
    BY <2>1, <2>2
<1>4. ASSUME NEW p \in Projects \ crossed, Registered(p), watches[p].worker = w PROVE Progress(p)'
  <2>1. p = q /\ Recorded(threads[w], h, p) /\ watches'[p] = h
    BY <1>1, <1>3, <1>4, Builds1
  <2>2. Recorded(t, h, p)'
    BY <2>1, <1>2 DEF Recorded, Current
  <2>3. watches'[p].worker = w
    BY <1>3, <1>4
  <2> HIDE DEF t
  <2> QED
    BY <2>1, <2>2, <2>3, <1>2 DEF Progress, Recorded, Current, Waits
<1>5. output \in [Projects -> Archive] /\ \A p \in Projects \ crossed : Registered(p) /\ watches[p].worker # w => p # q
  BY <1>1, Builds1 DEF WatchInv, WatchTypeOK
<1>6. \A p \in Projects \ crossed : Registered(p) /\ watches[p].worker # w => watches'[p] = watches[p]
  BY <1>3, <1>5
<1>7. ~Waits(t) /\ threads[w].pc \notin {"unused", "watching", "saving"} /\ t.pc \notin {"unused", "watching"}
  BY <1>2 DEF Waits
<1>8. /\ watches' \in [Projects -> Handle]
      /\ \A p \in Projects : watches'[p].worker = watches[p].worker /\ (watches'[p] = NoWatch <=> watches[p] = NoWatch)
  BY <1>3
<1>9. t \in Thread /\ t.project = threads[w].project /\ threads' = [threads EXCEPT ![w] = t]
  BY <1>2
<1>10. /\ output' \in [Projects -> Archive]
       /\ \A p \in Projects \ crossed : Registered(p) /\ watches[p].worker # w =>
             /\ watches'[p] = watches[p] /\ output'[p] = output[p]
             /\ \A a : <<p, a>> \in catalogued => <<p, a>> \in catalogued'
  BY <1>5, <1>6
<1>11. \A p \in Projects \ crossed : Registered(p) /\ watches[p].worker = w => ~Waits(t) /\ Progress(p)'
  BY <1>4, <1>7
<1>12. UNCHANGED <<crossed, commander, restoring, content, saver, saved, saveFaults>>
  OBVIOUS
<1>13. t.pc \in BuildingPcs => Building(w) \/ Watched(w)
  BY <1>1
<1> HIDE DEF t, q
<1> QED
  BY <1>7, <1>8, <1>9, <1>10, <1>11, <1>12, <1>13, QuietStep

LEMMA ReadyKeeps == ASSUME WatchInv, NEW w \in Workers, MarkReady(w), UNCHANGED <<content, commander, restoring, crossed>>
  PROVE WatchInv'
<1> DEFINE q == threads[w].project
           h == [watches[q] EXCEPT !.status = "ready", !.kappa = threads[w].built]
<1>1. q \in Projects /\ watches[q] \in Handle /\ threads[w] \in Thread /\ threads[w].pc = "ready" /\ Building(w)
  BY DEF MarkReady, Worker, WatchInv, OwnWorkers, WatchTypeOK, Building
<1>2. h \in Handle /\ h.worker = watches[q].worker /\ h.status = "ready" /\ h.kappa = threads[w].built
  BY <1>1 DEF Handle, WatchStatus, Thread
<1>3. UpdateRecord(q, h) /\ threads' = [threads EXCEPT ![w] = [threads[w] EXCEPT !.pc = "saving"]]
  BY DEF MarkReady, Work
<1>4. ASSUME NEW p \in Projects \ crossed, Registered(p), watches[p].worker = w PROVE Recorded(threads[w], h, p)
  <2>1. p = q /\ Progress(p)
    BY <1>1, <1>4, Builds1 DEF WatchInv
  <2> QED
    BY <2>1, <1>1, <1>2, <1>4 DEF Progress, Recorded
<1> HIDE DEF h
<1> QED
  BY <1>1, <1>2, <1>3, <1>4, MarkKeeps DEF MarkReady

LEMMA FailedKeeps == ASSUME WatchInv, NEW w \in Workers, MarkFailed(w), UNCHANGED <<content, commander, restoring, crossed>>
  PROVE WatchInv'
<1> DEFINE q == threads[w].project
           h == [watches[q] EXCEPT !.status = "failed"]
<1>1. q \in Projects /\ watches[q] \in Handle /\ threads[w] \in Thread /\ threads[w].pc = "failing"
  BY DEF MarkFailed, Worker, WatchInv, OwnWorkers, WatchTypeOK
<1>2. h \in Handle /\ h.worker = watches[q].worker /\ h.status = "failed"
  BY <1>1 DEF Handle, WatchStatus
<1>3. UpdateRecord(q, h) /\ threads' = [threads EXCEPT ![w] = [threads[w] EXCEPT !.pc = "saving"]]
  BY DEF MarkFailed, Work
<1> HIDE DEF h
<1> QED
  BY <1>1, <1>2, <1>3, MarkKeeps DEF MarkFailed, Recorded

LEMMA SavesKeeps == ASSUME WatchInv, NEW w \in Workers, WorkerSaves(w), UNCHANGED <<content, commander, restoring, crossed>>
  PROVE WatchInv'
<1>1. /\ threads[w].pc = "saving" /\ saver = NoSaver /\ saver' = [owner |-> w, list |-> List]
      /\ UNCHANGED <<watches, threads, saved, output, catalogued, saveFaults>>
  BY DEF WorkerSaves, Saves, Worker
<1>2. saver' \in Saver /\ saver'.owner = w /\ \A p \in Projects : saver'.list[p] = Record(watches[p])
  BY <1>1, ListTakes DEF WatchInv
<1>3. WatchTypeOK'
  BY <1>1, <1>2 DEF WatchInv, WatchTypeOK
<1>4. OwnWorkers' /\ Registration'
  BY <1>1 DEF WatchInv, OwnWorkers, Registration, Registered, Registering, Building
<1>5. ASSUME NEW p \in Projects \ crossed, Registered(p) PROVE Progress(p)' /\ Persisted(p)'
  BY <1>1, <1>2, <1>5, Unnoticed
<1> QED
  BY <1>1, <1>2, <1>3, <1>4, <1>5 DEF WatchInv, Registered

\* What a save that ended did to the file and to the lock.
LEMMA SaveEnds == ASSUME WatchInv, NEW owner \in Workers \cup {"main"}, Saved(owner) \/ SaveFails(owner)
  PROVE /\ saver # NoSaver /\ saver' = NoSaver /\ saver' \in Saver /\ saver'.owner = "none"
        /\ saved' \in [Projects -> FileRecord] /\ saveFaults' \in Nat
        /\ (saved' = saver.list /\ saveFaults' = saveFaults) \/ saveFaults' > 0
<1>1. saver # NoSaver /\ saver.list \in [Projects -> FileRecord] /\ saver.owner = owner
  <2>1. saver.owner = owner /\ owner # "none"
    BY WatchAssumption DEF Saved, SaveFails
  <2> QED
    BY <2>1, SaverFacts DEF WatchInv
<1>2. saver' = NoSaver /\ saver' \in Saver /\ saver'.owner = "none"
  BY DEF Saved, SaveFails, Saver, NoSaver
<1>3. CASE Saved(owner)
  BY <1>1, <1>2, <1>3 DEF Saved, WatchInv, WatchTypeOK
<1>4. CASE SaveFails(owner)
  <2>1. saveFaults' = saveFaults + 1 /\ saveFaults \in Nat /\ saved' = saved /\ saved \in [Projects -> FileRecord]
    BY <1>4 DEF SaveFails, WatchInv, WatchTypeOK
  <2> QED
    BY <2>1, <1>1, <1>2
<1> QED
  BY <1>3, <1>4

LEMMA SavedKeeps == ASSUME WatchInv, NEW w \in Workers, WorkerSaved(w), UNCHANGED <<content, commander, restoring, crossed>>
  PROVE WatchInv'
<1> DEFINE t == [threads[w] EXCEPT !.pc = "waiting", !.previous = 0, !.built = 0]
<1>1. threads[w].pc = "saving" /\ threads[w] \in Thread /\ Building(w) /\ saver.owner = w
  BY DEF WorkerSaved, Worker, WatchInv, WatchTypeOK, Building, Saved, SaveFails
<1>2. /\ t \in Thread /\ t.pc = "waiting" /\ t.project = threads[w].project /\ t.queued = threads[w].queued
      /\ threads' = [threads EXCEPT ![w] = t]
  BY <1>1 DEF WorkerSaved, Work, WatchInv, WatchTypeOK, Thread, Archive
<1> HIDE DEF t
<1>3. threads' \in [Workers -> Thread] /\ \A v \in Workers : threads'[v] = IF v = w THEN t ELSE threads[v]
  BY <1>2 DEF WatchInv, WatchTypeOK
<1>4. /\ saver # NoSaver /\ saver' = NoSaver /\ saver' \in Saver /\ saver'.owner = "none"
      /\ saved' \in [Projects -> FileRecord] /\ saveFaults' \in Nat
      /\ (saved' = saver.list /\ saveFaults' = saveFaults) \/ saveFaults' > 0
  BY SaveEnds DEF WorkerSaved
<1>5. UNCHANGED <<watches, output, catalogued>>
  BY DEF WorkerSaved
<1>6. WatchTypeOK'
  BY <1>3, <1>4, <1>5 DEF WatchInv, WatchTypeOK
<1>7. OwnWorkers' /\ Registration'
  BY <1>1, <1>2, <1>5, WorkerFrame DEF WatchInv, WatchTypeOK
<1>8. ASSUME NEW p \in Projects \ crossed, Registered(p) PROVE Progress(p)' /\ Persisted(p)'
  <2>1. CASE watches[p].worker = w
    <3>1. /\ Recorded(threads[w], watches[p], p) /\ saver.list[p] = Record(watches[p])
      BY <2>1, <1>1, <1>8 DEF WatchInv, Progress, Persisted
    <3>2. watches'[p] = watches[p] /\ watches'[p].worker = w /\ threads'[w] = t
      BY <2>1, <1>3, <1>5
    <3>3. Progress(p)'
      BY <3>1, <3>2, <1>2, <1>5 DEF Progress, Recorded, Current, Waits
    <3>4. Persisted(p)'
      BY <3>1, <3>2, <1>4, WatchAssumption DEF Persisted, Record
    <3> QED
      BY <3>3, <3>4
  <2>2. CASE watches[p].worker # w
    <3>1. threads'[watches[p].worker] = threads[watches[p].worker]
      BY <2>2, <1>3, <1>8 DEF WatchInv, OwnWorkers
    <3> QED
      BY <3>1, <1>4, <1>5, <1>8, Unnoticed
  <2> QED
    BY <2>1, <2>2
<1> QED
  BY <1>4, <1>5, <1>6, <1>7, <1>8, WatchAssumption DEF WatchInv, Registered

\* The channel of a worker that no registration has is empty: it ends.
LEMMA DisconnectedKeeps ==
  ASSUME WatchInv, NEW w \in Workers, Disconnected(w), UNCHANGED <<content, commander, restoring, crossed>>
  PROVE  WatchInv'
<1>1. Unused \in Thread
  BY DEF Unused, Thread, Archive
<1>2. /\ threads' = [threads EXCEPT ![w] = Unused] /\ ~Watched(w) /\ threads[w].pc \in {"waiting", "debouncing"}
      /\ UNCHANGED <<watches, saver, saved, output, catalogued, saveFaults>>
  BY DEF Disconnected, Work
<1>3. threads' \in [Workers -> Thread] /\ \A v \in Workers : threads'[v] = IF v = w THEN Unused ELSE threads[v]
  BY <1>1, <1>2 DEF WatchInv, WatchTypeOK
<1>4. Unused.pc = "unused"
  BY DEF Unused
<1>5. \A p \in Projects : watches[p].worker # w
  BY <1>2 DEF Watched
<1>6. WatchTypeOK'
  BY <1>2, <1>3 DEF WatchInv, WatchTypeOK
<1>7. OwnWorkers'
  BY <1>2, <1>3, <1>4, <1>5 DEF WatchInv, OwnWorkers, Registered, Building
<1>8. Registration'
  BY <1>2, <1>3, <1>4 DEF WatchInv, Registration, Registered, Registering
<1>9. ASSUME NEW p \in Projects \ crossed, Registered(p) PROVE Progress(p)' /\ Persisted(p)'
  <2>1. threads'[watches[p].worker] = threads[watches[p].worker]
    BY <1>3, <1>5, <1>9 DEF WatchInv, OwnWorkers
  <2> QED
    BY <2>1, <1>2, <1>9, Unnoticed
<1> QED
  BY <1>2, <1>3, <1>6, <1>7, <1>8, <1>9 DEF WatchInv, Registered

LEMMA WorkerKeeps == ASSUME WatchInv, NEW w \in Workers, WorkerStep(w) PROVE WatchInv'
  BY ReceiveKeeps, DisconnectedKeeps, DebouncedKeeps, InputKeeps, CompileKeeps, ImportKeeps, FailsKeeps,
     RetireKeeps, ReadyKeeps, FailedKeeps, SavesKeeps, SavedKeeps DEF WorkerStep

\* Steps that change the threads of workers of other projects only, or nothing
\* but the queue of p's own.
LEMMA RegisterKeeps ==
  ASSUME WatchInv, commander = Resting, NEW p \in Projects, ~Registered(p), NEW f \in FileRecord, Register(p, f),
         restoring' \subseteq restoring \ {p},
         UNCHANGED <<content, watches, saver, saved, output, catalogued, crossed, saveFaults>>
  PROVE  WatchInv'
<1> DEFINE n == [Unused EXCEPT !.project = p, !.pc = "watching"]
<1>1. PICK w \in Workers : /\ threads[w] = Unused /\ threads' = [threads EXCEPT ![w] = n]
                           /\ commander' = [pc |-> "insert", project |-> p, worker |-> w, previous |-> f]
  BY DEF Register
<1>2. n \in Thread /\ n.project = p /\ n.pc = "watching" /\ n.queued = FALSE
  BY DEF Unused, Thread, Archive
<1>3. commander' \in Commander /\ commander'.pc = "insert" /\ commander'.project = p /\ commander'.worker = w
  BY <1>1 DEF Commander
<1> HIDE DEF n
<1>4. threads' \in [Workers -> Thread] /\ \A v \in Workers : threads'[v] = IF v = w THEN n ELSE threads[v]
  BY <1>1, <1>2 DEF WatchInv, WatchTypeOK
<1>5. threads[w].pc = "unused" /\ commander.pc = "idle"
  BY <1>1 DEF Unused, Resting
<1>6. \A q \in Projects : Registered(q) => watches[q].worker # w
  BY <1>5 DEF WatchInv, OwnWorkers
<1>7. WatchTypeOK'
  BY <1>3, <1>4 DEF WatchInv, WatchTypeOK
<1>8. OwnWorkers'
  <2>1. ASSUME NEW v \in Workers, Building(v)' PROVE v # w /\ Building(v)
    BY <2>1, <1>2, <1>4 DEF Building
  <2> QED
    BY <2>1, <1>2, <1>4, <1>6 DEF WatchInv, OwnWorkers, Registered
<1>9. Registration'
  <2>1. \A v \in Workers : threads[v].pc # "watching"
    BY <1>5 DEF WatchInv, Registration, Registering
  <2> QED
    BY <2>1, <1>2, <1>3, <1>4 DEF WatchInv, Registration, Registering, Registered
<1>10. ASSUME NEW q \in Projects \ crossed, Registered(q) PROVE Progress(q)' /\ Persisted(q)'
  <2>1. threads'[watches[q].worker] = threads[watches[q].worker]
    BY <1>4, <1>6, <1>10 DEF WatchInv, OwnWorkers
  <2> QED
    BY <2>1, <1>10, Unnoticed
<1>11. ASSUME NEW v \in Workers, saver'.owner = v PROVE threads'[v].pc = "saving"
  BY <1>4, <1>5, <1>11 DEF WatchInv
<1> QED
  BY <1>7, <1>8, <1>9, <1>10, <1>11 DEF WatchInv, Registered

LEMMA AddKeeps == ASSUME WatchInv, NEW p \in Projects, Add(p) PROVE WatchInv'
<1>1. NoRecord \in FileRecord
  BY DEF NoRecord, FileRecord, WatchStatus, Archive
<1> QED
  BY <1>1, RegisterKeeps DEF Add, Registered

LEMMA RestoreKeeps == ASSUME WatchInv, NEW p \in Projects, Restore(p) PROVE WatchInv'
<1>1. saved[p] \in FileRecord /\ ~Registered(p)
  BY DEF WatchInv, WatchTypeOK, Restore, Registration
<1> QED
  BY <1>1, RegisterKeeps DEF Restore

LEMMA InsertKeeps == ASSUME WatchInv, Insert PROVE WatchInv'
<1> DEFINE q == commander.project
           w == commander.worker
           h == [status |-> "watching", kappa |-> commander.previous.kappa, worker |-> w]
<1>1. /\ q \in Projects /\ w \in Workers /\ ~Registered(q) /\ q \notin restoring
      /\ threads[w].pc = "watching" /\ threads[w].project = q /\ commander \in Commander
  BY DEF Insert, WatchInv, Registration, Registering, OwnWorkers, WatchTypeOK
<1>2. h \in Handle /\ h.worker = w /\ h # NoWatch
  BY <1>1, WatchAssumption DEF Handle, Commander, FileRecord, WatchStatus, NoWatch
<1>3. watches' = [watches EXCEPT ![q] = h] /\ commander' = [commander EXCEPT !.pc = "save"]
  BY DEF Insert
<1>4. /\ commander' \in Commander /\ commander'.pc = "save" /\ commander'.project = q /\ commander'.worker = w
  BY <1>1, <1>3 DEF Commander
<1> HIDE DEF h
<1>5. watches' \in [Projects -> Handle] /\ watches'[q] = h /\ \A p \in Projects \ {q} : watches'[p] = watches[p]
  BY <1>1, <1>2, <1>3 DEF WatchInv, WatchTypeOK
<1>6. UNCHANGED <<content, threads, restoring, saver, saved, output, catalogued, crossed, saveFaults>>
  BY DEF Insert
<1>7. WatchTypeOK'
  BY <1>4, <1>5, <1>6 DEF WatchInv, WatchTypeOK
<1>8. OwnWorkers'
  <2>1. ASSUME NEW p \in Projects, Registered(p)'
        PROVE  /\ watches'[p].worker \in Workers /\ threads'[watches'[p].worker].project = p
               /\ threads'[watches'[p].worker].pc # "unused"
    <3>1. CASE p = q
      BY <3>1, <1>1, <1>2, <1>5, <1>6
    <3>2. CASE p # q
      BY <3>2, <2>1, <1>5, <1>6 DEF WatchInv, OwnWorkers, Registered
    <3> QED
      BY <3>1, <3>2
  <2>2. ASSUME NEW v \in Workers, Building(v)'
        PROVE  threads'[v].project \in crossed' \/ watches'[threads'[v].project].worker = v
    <3>1. threads[v].project \in crossed \/ (threads[v].project \in Projects /\ watches[threads[v].project].worker = v)
      BY <2>2, <1>6 DEF WatchInv, OwnWorkers, Building
    <3>2. CASE threads[v].project = q /\ threads[v].project \notin crossed
      <4>1. watches[q].worker = v
        BY <3>1, <3>2
      <4> QED
        BY <4>1, <1>1, WatchAssumption DEF Registered, NoWatch
    <3> QED
      BY <3>1, <3>2, <1>5, <1>6
  <2>3. \A v \in Workers : threads'[v].pc # "unused" => threads'[v].project \in Projects
    BY <1>6 DEF WatchInv, OwnWorkers
  <2> QED
    BY <2>1, <2>2, <2>3 DEF OwnWorkers
<1>9. Registration'
  <2>1. \A p \in restoring' : ~Registered(p)'
    BY <1>1, <1>5, <1>6 DEF WatchInv, Registration, Registered, WatchTypeOK
  <2>2. Registering /\ \A v \in Workers : threads[v].pc = "watching" => w = v
    BY DEF WatchInv, Registration, Registering, Insert
  <2> QED
    BY <2>1, <2>2, <1>1, <1>2, <1>4, <1>5, <1>6 DEF Registration, Registering, Registered
<1>10. ASSUME NEW p \in Projects \ crossed, Registered(p)' PROVE Progress(p)' /\ Persisted(p)'
  <2>1. CASE p = q
    <3>1. watches'[p].worker = w /\ threads'[w].pc = "watching"
      BY <2>1, <1>1, <1>2, <1>5, <1>6
    <3>2. saver'.owner # w
      BY <1>1, <1>6 DEF WatchInv
    <3> QED
      BY <3>1, <3>2 DEF Progress, Persisted, Waits
  <2>2. CASE p # q
    <3>1. Registered(p) /\ watches'[p] = watches[p]
      BY <2>2, <1>5, <1>10 DEF Registered
    <3> QED
      BY <3>1, <1>6, Unnoticed
  <2> QED
    BY <2>1, <2>2
<1> QED
  BY <1>6, <1>7, <1>8, <1>9, <1>10 DEF WatchInv

LEMMA CommanderSavesKeeps == ASSUME WatchInv, CommanderSaves PROVE WatchInv'
<1>1. /\ saver = NoSaver /\ saver' = [owner |-> "main", list |-> List]
      /\ UNCHANGED <<content, watches, threads, commander, restoring, saved, output, catalogued, crossed, saveFaults>>
  BY DEF CommanderSaves, Saves
<1>2. saver' \in Saver /\ saver'.owner = "main" /\ \A p \in Projects : saver'.list[p] = Record(watches[p])
  BY <1>1, ListTakes DEF WatchInv
<1>3. WatchTypeOK'
  BY <1>1, <1>2 DEF WatchInv, WatchTypeOK
<1>4. OwnWorkers' /\ Registration'
  BY <1>1 DEF WatchInv, OwnWorkers, Registration, Registered, Registering, Building
<1>5. ASSUME NEW p \in Projects \ crossed, Registered(p) PROVE Progress(p)' /\ Persisted(p)'
  BY <1>1, <1>2, <1>5, Unnoticed
<1> QED
  BY <1>1, <1>2, <1>3, <1>4, <1>5, WatchAssumption DEF WatchInv, Registered

LEMMA RestingTyped == Resting \in Commander /\ Resting.pc = "idle"
  BY DEF Resting, Commander, NoRecord, FileRecord, WatchStatus, Archive

\* The worker of a registration that was saved starts with a message to read.
LEMMA SpawnKeeps == ASSUME WatchInv, Spawn PROVE WatchInv'
<1> DEFINE w == commander.worker
           t == [threads[w] EXCEPT !.pc = "waiting", !.queued = TRUE]
<1>1. /\ w \in Workers /\ threads[w] \in Thread /\ threads[w].pc = "watching" /\ threads[w].project \in Projects
      /\ \A v \in Workers : threads[v].pc = "watching" => v = w
  BY DEF Spawn, WatchInv, Registration, Registering, OwnWorkers, WatchTypeOK
<1>2. t \in Thread /\ t.pc = "waiting" /\ t.queued = TRUE /\ t.project = threads[w].project
  BY <1>1 DEF Thread, BuildingPcs
<1>3. threads' = [threads EXCEPT ![w] = t]
  BY <1>1 DEF Spawn, WatchInv, WatchTypeOK
<1> HIDE DEF t
<1>4. threads' \in [Workers -> Thread] /\ \A v \in Workers : threads'[v] = IF v = w THEN t ELSE threads[v]
  BY <1>1, <1>2, <1>3 DEF WatchInv, WatchTypeOK
<1>5. /\ UNCHANGED <<content, watches, restoring, output, catalogued, crossed>> /\ commander' = Resting
      /\ saver.owner = "main"
  BY DEF Spawn, Saved
<1>6. /\ saver # NoSaver /\ saver' = NoSaver /\ saver' \in Saver /\ saver'.owner = "none"
      /\ saved' \in [Projects -> FileRecord] /\ saveFaults' \in Nat
      /\ (saved' = saver.list /\ saveFaults' = saveFaults) \/ saveFaults' > 0
  BY SaveEnds DEF Spawn
<1>7. WatchTypeOK'
  BY <1>4, <1>5, <1>6, RestingTyped DEF WatchInv, WatchTypeOK
<1>8. OwnWorkers'
  <2>1. ASSUME NEW v \in Workers, Building(v)' PROVE v # w /\ Building(v)
    BY <2>1, <1>2, <1>4 DEF Building
  <2>2. \A v \in Workers : threads'[v].project = threads[v].project /\ (threads'[v].pc = "unused" <=> threads[v].pc = "unused")
    BY <1>1, <1>2, <1>4
  <2> QED
    BY <2>1, <2>2, <1>5 DEF WatchInv, OwnWorkers, Registered
<1>9. Registration'
  <2>1. \A v \in Workers : threads'[v].pc # "watching"
    BY <1>1, <1>2, <1>4
  <2> QED
    BY <2>1, <1>5, RestingTyped DEF WatchInv, Registration, Registering, Registered
<1>10. ASSUME NEW p \in Projects \ crossed, Registered(p) PROVE Progress(p)' /\ Persisted(p)'
  <2>1. CASE watches[p].worker = w
    <3>1. watches'[p].worker = w /\ threads'[w] = t
      BY <2>1, <1>1, <1>4, <1>5
    <3>2. saver'.owner # w
      BY <1>1, <1>6, WatchAssumption
    <3> QED
      BY <3>1, <3>2, <1>2 DEF Progress, Persisted, Waits
  <2>2. CASE watches[p].worker # w
    <3>1. threads'[watches[p].worker] = threads[watches[p].worker]
      BY <2>2, <1>4, <1>10 DEF WatchInv, OwnWorkers
    <3> QED
      BY <3>1, <1>5, <1>6, <1>10, Unnoticed
  <2> QED
    BY <2>1, <2>2
<1> QED
  BY <1>5, <1>6, <1>7, <1>8, <1>9, <1>10, WatchAssumption DEF WatchInv, Registered

\* The registration that could not be saved leaves nothing: its worker never ran.
LEMMA RegisterFailsKeeps == ASSUME WatchInv, RegisterFails PROVE WatchInv'
<1> DEFINE q == commander.project
           w == commander.worker
<1>1. /\ w \in Workers /\ threads[w].pc = "watching" /\ threads[w].project = q /\ q \in Projects
      /\ watches[q].worker = w /\ \A v \in Workers : threads[v].pc = "watching" => v = w
  BY DEF RegisterFails, WatchInv, Registration, Registering, OwnWorkers, WatchTypeOK
<1>2. NoWatch \in Handle /\ Unused \in Thread /\ Unused.pc = "unused" /\ NoWatch.worker = "none"
  BY DEF NoWatch, Unused, Handle, Thread, Archive, WatchStatus
<1>3. /\ threads' = [threads EXCEPT ![w] = Unused] /\ watches' = [watches EXCEPT ![q] = NoWatch] /\ commander' = Resting
      /\ UNCHANGED <<content, restoring, output, catalogued, crossed>> /\ saver.owner = "main"
  BY DEF RegisterFails, SaveFails
<1>4. threads' \in [Workers -> Thread] /\ \A v \in Workers : threads'[v] = IF v = w THEN Unused ELSE threads[v]
  BY <1>1, <1>2, <1>3 DEF WatchInv, WatchTypeOK
<1>5. watches' \in [Projects -> Handle] /\ watches'[q] = NoWatch /\ \A p \in Projects \ {q} : watches'[p] = watches[p]
  BY <1>1, <1>2, <1>3 DEF WatchInv, WatchTypeOK
<1>6. /\ saver # NoSaver /\ saver' = NoSaver /\ saver' \in Saver /\ saver'.owner = "none"
      /\ saved' \in [Projects -> FileRecord] /\ saveFaults' \in Nat
      /\ (saved' = saver.list /\ saveFaults' = saveFaults) \/ saveFaults' > 0
  BY SaveEnds DEF RegisterFails
<1>7. WatchTypeOK'
  BY <1>3, <1>4, <1>5, <1>6, RestingTyped DEF WatchInv, WatchTypeOK
<1>8. \A p \in Projects : Registered(p)' => p # q /\ Registered(p)
  BY <1>5 DEF Registered
<1>9. \A p \in Projects : Registered(p) /\ p # q => watches[p].worker # w
  BY <1>1 DEF WatchInv, OwnWorkers
<1>10. OwnWorkers'
  <2>1. ASSUME NEW p \in Projects, Registered(p)'
        PROVE  /\ watches'[p].worker \in Workers /\ threads'[watches'[p].worker].project = p
               /\ threads'[watches'[p].worker].pc # "unused"
    <3>1. p # q /\ Registered(p) /\ watches[p].worker # w /\ watches'[p] = watches[p]
      BY <2>1, <1>5, <1>8, <1>9
    <3> QED
      BY <3>1, <1>4 DEF WatchInv, OwnWorkers
  <2>2. ASSUME NEW v \in Workers, Building(v)'
        PROVE  threads'[v].project \in crossed' \/ watches'[threads'[v].project].worker = v
    <3>1. v # w /\ Building(v) /\ threads'[v] = threads[v]
      BY <2>2, <1>2, <1>4 DEF Building
    <3>2. threads[v].project \in crossed \/ (threads[v].project \in Projects /\ watches[threads[v].project].worker = v)
      BY <3>1 DEF WatchInv, OwnWorkers, Building
    <3> QED
      BY <3>1, <3>2, <1>1, <1>3, <1>5
  <2>3. \A v \in Workers : threads'[v].pc # "unused" => threads'[v].project \in Projects
    BY <1>2, <1>4 DEF WatchInv, OwnWorkers
  <2> QED
    BY <2>1, <2>2, <2>3 DEF OwnWorkers
<1>11. Registration'
  <2>1. \A v \in Workers : threads'[v].pc # "watching"
    BY <1>1, <1>2, <1>4
  <2> QED
    BY <2>1, <1>3, <1>8, RestingTyped DEF WatchInv, Registration, Registering, WatchTypeOK
<1>12. ASSUME NEW p \in Projects \ crossed, Registered(p)' PROVE Progress(p)' /\ Persisted(p)'
  <2>1. p # q /\ Registered(p) /\ watches'[p] = watches[p] /\ watches[p].worker # w
    BY <1>5, <1>8, <1>9, <1>12
  <2>2. threads'[watches[p].worker] = threads[watches[p].worker]
    BY <2>1, <1>4 DEF WatchInv, OwnWorkers
  <2> QED
    BY <2>1, <2>2, <1>3, <1>6, Unnoticed
<1> QED
  BY <1>3, <1>6, <1>7, <1>10, <1>11, <1>12, WatchAssumption DEF WatchInv

\* A removed project that is being built is crossed from then on.
LEMMA RemoveKeeps == ASSUME WatchInv, NEW p \in Projects, Remove(p) PROVE WatchInv'
<1> DEFINE late == \E w \in Workers : threads[w].project = p /\ Building(w)
<1>1. /\ commander' = [Resting EXCEPT !.pc = "forget"] /\ commander.pc = "idle" /\ restoring = {}
      /\ watches' = [watches EXCEPT ![p] = NoWatch] /\ crossed' = crossed \cup {q \in {p} : late}
      /\ UNCHANGED <<content, threads, restoring, saver, saved, output, catalogued, saveFaults>>
  BY DEF Remove, Resting
<1>2. commander' \in Commander /\ commander'.pc = "forget"
  BY <1>1, RestingTyped DEF Commander
<1>3. NoWatch \in Handle
  BY DEF NoWatch, Handle, WatchStatus, Archive
<1>4. watches' \in [Projects -> Handle] /\ watches'[p] = NoWatch /\ \A q \in Projects \ {p} : watches'[q] = watches[q]
  BY <1>1, <1>3 DEF WatchInv, WatchTypeOK
<1>5. WatchTypeOK'
  BY <1>1, <1>2, <1>4 DEF WatchInv, WatchTypeOK
<1>6. \A q \in Projects : Registered(q)' => q # p /\ Registered(q) /\ watches'[q] = watches[q]
  BY <1>4 DEF Registered
<1>7. OwnWorkers'
  <2>1. ASSUME NEW q \in Projects, Registered(q)'
        PROVE  /\ watches'[q].worker \in Workers /\ threads'[watches'[q].worker].project = q
               /\ threads'[watches'[q].worker].pc # "unused"
    BY <2>1, <1>1, <1>6 DEF WatchInv, OwnWorkers
  <2>2. ASSUME NEW v \in Workers, Building(v)'
        PROVE  threads'[v].project \in crossed' \/ watches'[threads'[v].project].worker = v
    <3>1. Building(v) /\ threads'[v] = threads[v]
      BY <2>2, <1>1 DEF Building
    <3>2. threads[v].project \in crossed \/ (threads[v].project \in Projects /\ watches[threads[v].project].worker = v)
      BY <3>1 DEF WatchInv, OwnWorkers, Building
    <3>3. CASE threads[v].project = p
      BY <3>1, <3>3, <1>1
    <3>4. CASE threads[v].project # p
      BY <3>1, <3>2, <3>4, <1>1, <1>4
    <3> QED
      BY <3>3, <3>4
  <2>3. \A v \in Workers : threads'[v].pc # "unused" => threads'[v].project \in Projects
    BY <1>1 DEF WatchInv, OwnWorkers
  <2> QED
    BY <2>1, <2>2, <2>3 DEF OwnWorkers
<1>8. Registration'
  BY <1>1, <1>2 DEF WatchInv, Registration, Registering
<1>9. ASSUME NEW q \in Projects \ crossed', Registered(q)' PROVE Progress(q)' /\ Persisted(q)'
  <2>1. q \notin crossed /\ Registered(q) /\ watches'[q] = watches[q]
    BY <1>1, <1>6, <1>9
  <2> QED
    BY <2>1, <1>1, Unnoticed
<1> QED
  BY <1>1, <1>5, <1>7, <1>8, <1>9 DEF WatchInv

LEMMA RemoveEndsKeeps == ASSUME WatchInv, RemoveEnds PROVE WatchInv'
<1>1. /\ commander.pc = "forget" /\ commander' = Resting /\ saver.owner = "main"
      /\ UNCHANGED <<content, watches, threads, restoring, output, catalogued, crossed>>
  BY DEF RemoveEnds, Saved, SaveFails
<1>2. /\ saver # NoSaver /\ saver' = NoSaver /\ saver' \in Saver /\ saver'.owner = "none"
      /\ saved' \in [Projects -> FileRecord] /\ saveFaults' \in Nat
      /\ (saved' = saver.list /\ saveFaults' = saveFaults) \/ saveFaults' > 0
  BY SaveEnds DEF RemoveEnds
<1>3. WatchTypeOK'
  BY <1>1, <1>2, RestingTyped DEF WatchInv, WatchTypeOK
<1>4. OwnWorkers' /\ Registration'
  BY <1>1, RestingTyped DEF WatchInv, OwnWorkers, Registration, Registered, Registering, Building
<1>5. ASSUME NEW p \in Projects \ crossed, Registered(p) PROVE Progress(p)' /\ Persisted(p)'
  BY <1>1, <1>2, <1>5, Unnoticed
<1> QED
  BY <1>1, <1>2, <1>3, <1>4, <1>5, WatchAssumption DEF WatchInv, Registered

\* Messages to workers, and an edit of the project of all workers that get one.
LEMMA TriggeredKeeps ==
  ASSUME WatchInv, NEW W \in SUBSET Workers, threads' = Triggered(W), content' \in [Projects -> Archive],
         \A p \in Projects : Registered(p) => content'[p] = content[p] \/ watches[p].worker \in W,
         UNCHANGED <<watches, commander, restoring, saver, saved, output, catalogued, crossed, saveFaults>>
  PROVE  WatchInv'
<1>1. \A w \in Workers : threads[w] \in Thread
  BY DEF WatchInv, WatchTypeOK
<1>2. \A w \in Workers : /\ [threads[w] EXCEPT !.queued = TRUE] \in Thread
                         /\ [threads[w] EXCEPT !.queued = TRUE].queued
                         /\ [threads[w] EXCEPT !.queued = TRUE].pc = threads[w].pc
                         /\ [threads[w] EXCEPT !.queued = TRUE].built = threads[w].built
                         /\ [threads[w] EXCEPT !.queued = TRUE].project = threads[w].project
  BY <1>1 DEF Thread
<1>3. /\ threads' \in [Workers -> Thread]
      /\ \A w \in Workers : /\ threads'[w].pc = threads[w].pc /\ threads'[w].project = threads[w].project
                            /\ threads'[w].built = threads[w].built
                            /\ w \in W => threads'[w].queued
                            /\ threads'[w].queued = TRUE \/ threads'[w] = threads[w]
  BY <1>1, <1>2 DEF Triggered
<1>4. WatchTypeOK'
  BY <1>3 DEF WatchInv, WatchTypeOK
<1>5. OwnWorkers'
  BY <1>3 DEF WatchInv, OwnWorkers, Registered, Building
<1>6. Registration'
  BY <1>3 DEF WatchInv, Registration, Registered, Registering
<1>7. ASSUME NEW p \in Projects \ crossed, Registered(p) PROVE Progress(p)' /\ Persisted(p)'
  <2>1. Progress(p) /\ Persisted(p) /\ watches[p].worker \in Workers /\ watches'[p] = watches[p]
    BY <1>7 DEF WatchInv, OwnWorkers
  <2>2. CASE threads'[watches[p].worker].queued = TRUE
    <3>1. Progress(p)'
      BY <2>1, <2>2, <1>3 DEF Progress, Recorded, Current, Waits
    <3>2. Persisted(p)'
      BY <2>1, <2>2 DEF Persisted, Waits, Record
    <3> QED
      BY <3>1, <3>2
  <2>3. CASE threads'[watches[p].worker] = threads[watches[p].worker] /\ content'[p] = content[p]
    BY <2>1, <2>3, <1>7, Unnoticed
  <2> QED
    BY <2>1, <2>2, <2>3, <1>3, <1>7
<1> QED
  BY <1>3, <1>4, <1>5, <1>6, <1>7 DEF WatchInv, Registered

LEMMA ScheduleKeeps == ASSUME WatchInv, ScheduleAll PROVE WatchInv'
<1> DEFINE W == {w \in Workers : Watched(w)}
<1>1. W \in SUBSET Workers /\ threads' = Triggered(W)
  BY DEF ScheduleAll
<1> HIDE DEF W
<1> QED
  BY <1>1, TriggeredKeeps DEF ScheduleAll, WatchInv, WatchTypeOK

LEMMA EditKeeps == ASSUME WatchInv, NEW p \in Projects, EditProject(p) PROVE WatchInv'
<1> DEFINE W == {w \in Workers : threads[w].project = p /\ (Watched(w) \/ threads[w].pc = "watching")}
<1>1. W \in SUBSET Workers /\ threads' = Triggered(W)
  BY DEF EditProject
<1>2. PICK v \in Contents : content' = [content EXCEPT ![p] = v]
  BY DEF EditProject
<1>3. content' \in [Projects -> Archive] /\ \A q \in Projects : q # p => content'[q] = content[q]
  BY <1>2 DEF WatchInv, WatchTypeOK, Archive
<1>4. Registered(p) => watches[p].worker \in W
  BY DEF WatchInv, OwnWorkers, Watched
<1> HIDE DEF W
<1> QED
  BY <1>1, <1>3, <1>4, TriggeredKeeps DEF EditProject

LEMMA EmptyWatch ==
  ASSUME WatchTypeOK, threads = [w \in Workers |-> Unused], watches = [p \in Projects |-> NoWatch], commander = Resting,
         saver = NoSaver
  PROVE  WatchInv
<1>1. \A w \in Workers : threads[w].pc = "unused"
  BY DEF Unused
<1>2. \A p \in Projects : ~Registered(p)
  BY DEF Registered
<1>3. ~Registering /\ commander.pc = "idle" /\ saver.owner = "none"
  BY RestingTyped DEF Registering, NoSaver
<1>4. OwnWorkers
  BY <1>1, <1>2 DEF OwnWorkers, Building
<1>5. Registration
  BY <1>1, <1>2, <1>3 DEF Registration, WatchTypeOK
<1> QED
  BY <1>2, <1>3, <1>4, <1>5, WatchAssumption DEF WatchInv

LEMMA RelaunchKeeps == ASSUME WatchInv, Relaunch PROVE WatchInv'
<1>1. Unused \in Thread /\ NoWatch \in Handle /\ NoSaver \in Saver
  BY DEF Unused, Thread, Archive, NoWatch, Handle, WatchStatus, Saver
<1>2. /\ watches' = [p \in Projects |-> NoWatch] /\ threads' = [w \in Workers |-> Unused]
      /\ commander' = Resting /\ saver' = NoSaver /\ restoring' \subseteq Projects
      /\ UNCHANGED <<content, saved, output, saveFaults>>
  BY DEF Relaunch
<1>3. WatchTypeOK'
  BY <1>1, <1>2, RestingTyped DEF WatchInv, WatchTypeOK
<1>4. OwnWorkers' /\ Registration' /\ saver'.owner = "none"
  <2>1. \A w \in Workers : threads'[w].pc = "unused"
    BY <1>2 DEF Unused
  <2>2. \A p \in Projects : ~Registered(p)'
    BY <1>2 DEF Registered
  <2>3. commander'.pc = "idle" /\ saver'.owner = "none"
    BY <1>2, RestingTyped DEF NoSaver
  <2> QED
    BY <1>2, <2>1, <2>2, <2>3 DEF OwnWorkers, Registration, Registering, Building
<1>5. \A p \in Projects : ~Registered(p)'
  BY <1>2 DEF Registered
<1> QED
  BY <1>3, <1>4, <1>5, WatchAssumption DEF WatchInv

LEMMA WatchStarts == ASSUME WatchInit PROVE WatchInv
<1>1. Unused \in Thread /\ NoWatch \in Handle /\ NoSaver \in Saver /\ NoRecord \in FileRecord /\ 1 \in Archive /\ 0 \in Archive
  BY DEF Unused, Thread, Archive, NoWatch, Handle, WatchStatus, Saver, NoRecord, FileRecord
<1>2. WatchTypeOK
  BY <1>1, RestingTyped DEF WatchInit, WatchTypeOK
<1> QED
  BY <1>2, EmptyWatch DEF WatchInit

LEMMA WatchStep == ASSUME WatchInv, WatchNext \/ UNCHANGED watchVars PROVE WatchInv'
<1>1. CASE UNCHANGED watchVars
  <2>1. WatchTypeOK' /\ OwnWorkers' /\ Registration'
    BY <1>1 DEF watchVars, WatchInv, WatchTypeOK, OwnWorkers, Registration, Registered, Registering, Building
  <2>2. ASSUME NEW p \in Projects \ crossed, Registered(p) PROVE Progress(p)' /\ Persisted(p)'
    BY <1>1, <2>2, Unnoticed DEF watchVars
  <2> QED
    BY <1>1, <2>1, <2>2 DEF watchVars, WatchInv, Registered
<1>2. CASE WatchNext
  BY <1>2, AddKeeps, RestoreKeeps, RemoveKeeps, EditKeeps, InsertKeeps, CommanderSavesKeeps, SpawnKeeps,
     RegisterFailsKeeps, RemoveEndsKeeps, ScheduleKeeps, WorkerKeeps, RelaunchKeeps DEF WatchNext
<1> QED
  BY <1>1, <1>2

LEMMA WatchSettled == ASSUME WatchInv PROVE SettledIsCurrent
  BY DEF WatchInv, SettledIsCurrent, Progress, Persisted, Recorded, Current, Waits, Registered

-----------------------------------------------------------------------------
(* Views: the inductive invariant.                                         *)

AskType ==
  [phase : {"idle", "sent", "queued", "invoking", "answered"},
   from : Views \cup {"none"}, host : Views \cup {"none"},
   kind : Kinds \cup {"none"}, got : Views \cup {"none", "error"}]

SurfaceTypeOK ==
  /\ tree \in [Views -> {"idle", "starting", "running", "rollback", "stopping",
                         "stopped", "failed", "dropped", "abandoned"}]
  /\ layer \in [Views -> {"Prepared", "Attached", "Stopped"}]
  /\ step \in [Views -> {"rest", "opening", "undoing", "closing"}]
  /\ up \subseteq Views
  /\ swept \in [Views -> {"no", "ok", "err"}]
  /\ attachments \subseteq Views
  /\ window \subseteq Views
  /\ gate \in [Views -> Asks \cup {"none", "stop"}]
  /\ ask \in [Asks -> AskType]
  /\ faults \in 0..MaxWindowFaults

\* What attach and detach of a View wait for says where its assets and its
\* window are.
AttachInv ==
  \A v \in Views :
    /\ step[v] \in {"opening", "undoing"} =>
         tree[v] = "starting" /\ layer[v] = "Prepared" /\ v \in attachments /\ v \notin window
    /\ step[v] = "closing" =>
         tree[v] \in {"stopping", "rollback"} /\ layer[v] = "Attached" /\ v \notin attachments /\ swept[v] = "no"
    /\ step[v] = "rest" =>
         /\ v \in attachments <=> layer[v] = "Attached"
         /\ v \in window => layer[v] = "Attached"

\* The state of a tree is an account of its View layer: the sweep that ends
\* well has stopped it, the one that does not leaves it attached.
TreeInv ==
  \A v \in Views :
    /\ tree[v] = "idle" => layer[v] = "Prepared" /\ v \notin up
    /\ tree[v] \notin {"starting", "stopping", "rollback"} => step[v] = "rest"
    /\ tree[v] \in {"idle", "starting", "running"} => swept[v] = "no"
    /\ tree[v] = "starting" /\ step[v] = "rest" => layer[v] = "Attached"
    /\ tree[v] \in {"running", "failed", "abandoned"} => layer[v] = "Attached"
    /\ tree[v] \in {"stopped", "dropped"} => layer[v] = "Stopped"
    /\ tree[v] = "stopped" => v \notin up
    /\ tree[v] \in {"stopping", "rollback"} =>
         /\ swept[v] = "ok" => layer[v] = "Stopped" /\ step[v] = "rest"
         /\ swept[v] = "err" => layer[v] = "Attached" /\ step[v] = "rest"

\* A stop has the gate for its whole sweep, an intent while it runs.
GateInv ==
  /\ \A v \in Views : tree[v] = "stopping" <=> gate[v] = "stop"
  /\ \A r \in Asks : ask[r].phase = "invoking" =>
       gate[ask[r].host] = r /\ tree[ask[r].host] \notin {"idle", "stopped"}

\* A request comes from a View, an intent goes to the View it comes from, and
\* what a request got is of that View.
AskInv ==
  \A r \in Asks :
    /\ ask[r].phase = "sent" => ask[r].from \in Views
    /\ ask[r].phase \in {"queued", "invoking"} => ask[r].host \in Views /\ ask[r].host = ask[r].from
    /\ ask[r].got \in {"none", "error", ask[r].from}

SurfaceInv ==
  /\ SurfaceTypeOK
  /\ AttachInv
  /\ TreeInv
  /\ GateInv
  /\ AskInv

-----------------------------------------------------------------------------
(* The inductive invariant, one action after the other.                    *)

\* An answered request keeps its type.
LEMMA AnswerType ==
  ASSUME ask \in [Asks -> AskType], NEW r \in Asks, NEW got \in Views \cup {"none", "error"}, Answer(r, got)
  PROVE  ask' \in [Asks -> AskType]
<1>1. ask[r] \in AskType
  OBVIOUS
<1>2. [ask[r] EXCEPT !.phase = "answered", !.got = got] \in AskType
  BY <1>1 DEF AskType
<1>3. ask' = [ask EXCEPT ![r] = [ask[r] EXCEPT !.phase = "answered", !.got = got]]
  BY DEF Answer
<1> QED
  BY <1>2, <1>3

\* At first no tree is up and nobody asks.
LEMMA SurfaceStarts == SurfaceInit => SurfaceInv
<1> USE SurfaceAssumption DEF SurfaceInit, NoAsk
<1>1. SurfaceInit => SurfaceTypeOK
  BY DEF SurfaceTypeOK, AskType
<1>2. SurfaceInit => AttachInv /\ TreeInv /\ GateInv
  BY DEF AttachInv, TreeInv, GateInv
<1>3. SurfaceInit => AskInv
  BY DEF AskInv
<1> QED
  BY <1>1, <1>2, <1>3 DEF SurfaceInv

\* The assets are in the store before there is a window.
LEMMA StageAssetsSurface ==
  ASSUME SurfaceInv, NEW v \in Views, StageAssets(v)
  PROVE  SurfaceInv'
<1> USE SurfaceAssumption DEF SurfaceInv, StageAssets, Begins
<1>1. SurfaceTypeOK'
  BY DEF SurfaceTypeOK
<1>2. AttachInv'
  BY DEF SurfaceTypeOK, AttachInv, TreeInv
<1>3. TreeInv'
  BY DEF SurfaceTypeOK, TreeInv
<1>4. GateInv'
  BY DEF SurfaceTypeOK, GateInv
<1>5. AskInv'
  BY DEF SurfaceTypeOK, AskInv
<1> QED
  BY <1>1, <1>2, <1>3, <1>4, <1>5

\* The window opens on assets that are there.
LEMMA OpenWindowSurface ==
  ASSUME SurfaceInv, NEW v \in Views, OpenWindow(v)
  PROVE  SurfaceInv'
<1> USE SurfaceAssumption DEF SurfaceInv, OpenWindow
<1>1. SurfaceTypeOK'
  BY DEF SurfaceTypeOK
<1>2. AttachInv'
  BY DEF SurfaceTypeOK, AttachInv
<1>3. TreeInv'
  BY DEF SurfaceTypeOK, TreeInv
<1>4. GateInv'
  BY DEF SurfaceTypeOK, GateInv
<1>5. AskInv'
  BY DEF SurfaceTypeOK, AskInv
<1> QED
  BY <1>1, <1>2, <1>3, <1>4, <1>5

\* A window that did not open leaves the assets to be rolled back.
LEMMA OpenFailsSurface ==
  ASSUME SurfaceInv, NEW v \in Views, OpenFails(v)
  PROVE  SurfaceInv'
<1> USE SurfaceAssumption DEF SurfaceInv, OpenFails
<1>1. SurfaceTypeOK'
  BY DEF SurfaceTypeOK
<1>2. AttachInv'
  BY DEF SurfaceTypeOK, AttachInv
<1>3. TreeInv'
  BY DEF SurfaceTypeOK, TreeInv
<1>4. GateInv'
  BY DEF SurfaceTypeOK, GateInv
<1>5. AskInv'
  BY DEF SurfaceTypeOK, AskInv
<1> QED
  BY <1>1, <1>2, <1>3, <1>4, <1>5

\* The rolled back attachment leaves a layer that was never attached.
LEMMA RollBackAttachmentSurface ==
  ASSUME SurfaceInv, NEW v \in Views, RollBackAttachment(v)
  PROVE  SurfaceInv'
<1> USE SurfaceAssumption DEF SurfaceInv, RollBackAttachment
<1>1. SurfaceTypeOK'
  BY DEF SurfaceTypeOK
<1>2. AttachInv'
  BY DEF SurfaceTypeOK, AttachInv
<1>3. TreeInv'
  BY DEF SurfaceTypeOK, TreeInv
<1>4. GateInv'
  BY DEF SurfaceTypeOK, GateInv, AttachInv
<1>5. AskInv'
  BY DEF SurfaceTypeOK, AskInv
<1> QED
  BY <1>1, <1>2, <1>3, <1>4, <1>5

\* The primary comes up without the View layer.
LEMMA PrimaryStartsSurface ==
  ASSUME SurfaceInv, NEW v \in Views, PrimaryStarts(v)
  PROVE  SurfaceInv'
<1> USE SurfaceAssumption DEF SurfaceInv, PrimaryStarts, Rest
<1>1. SurfaceTypeOK'
  BY DEF SurfaceTypeOK
<1>2. AttachInv'
  BY DEF SurfaceTypeOK, AttachInv
<1>3. TreeInv'
  BY DEF SurfaceTypeOK, TreeInv
<1>4. GateInv'
  BY DEF SurfaceTypeOK, GateInv
<1>5. AskInv'
  BY DEF SurfaceTypeOK, AskInv
<1> QED
  BY <1>1, <1>2, <1>3, <1>4, <1>5

\* A running tree has its View attached.
LEMMA TreeStartsSurface ==
  ASSUME SurfaceInv, NEW v \in Views, TreeStarts(v)
  PROVE  SurfaceInv'
<1> USE SurfaceAssumption DEF SurfaceInv, TreeStarts, Rest
<1>1. SurfaceTypeOK'
  BY DEF SurfaceTypeOK
<1>2. AttachInv'
  BY DEF SurfaceTypeOK, AttachInv
<1>3. TreeInv'
  BY DEF SurfaceTypeOK, TreeInv
<1>4. GateInv'
  BY DEF SurfaceTypeOK, GateInv
<1>5. AskInv'
  BY DEF SurfaceTypeOK, AskInv
<1> QED
  BY <1>1, <1>2, <1>3, <1>4, <1>5

\* A failed start is rolled back with its View attached.
LEMMA TreeFailsSurface ==
  ASSUME SurfaceInv, NEW v \in Views, TreeFails(v)
  PROVE  SurfaceInv'
<1> USE SurfaceAssumption DEF SurfaceInv, TreeFails, Rest
<1>1. SurfaceTypeOK'
  BY DEF SurfaceTypeOK
<1>2. AttachInv'
  BY DEF SurfaceTypeOK, AttachInv
<1>3. TreeInv'
  BY DEF SurfaceTypeOK, TreeInv
<1>4. GateInv'
  BY DEF SurfaceTypeOK, GateInv
<1>5. AskInv'
  BY DEF SurfaceTypeOK, AskInv
<1> QED
  BY <1>1, <1>2, <1>3, <1>4, <1>5

\* A stop has the gate, so no intent of the tree runs.
LEMMA StopTreeSurface ==
  ASSUME SurfaceInv, NEW v \in Views, StopTree(v)
  PROVE  SurfaceInv'
<1> USE SurfaceAssumption DEF SurfaceInv, StopTree, Stopping
<1>1. SurfaceTypeOK'
  BY DEF SurfaceTypeOK
<1>2. AttachInv'
  BY DEF SurfaceTypeOK, AttachInv
<1>3. TreeInv'
  BY DEF SurfaceTypeOK, TreeInv
<1>4. GateInv'
  BY DEF SurfaceTypeOK, GateInv
<1>5. AskInv'
  BY DEF SurfaceTypeOK, AskInv
<1> QED
  BY <1>1, <1>2, <1>3, <1>4, <1>5

\* The primary goes down without the View layer.
LEMMA PrimaryStopsSurface ==
  ASSUME SurfaceInv, NEW v \in Views, PrimaryStops(v)
  PROVE  SurfaceInv'
<1> USE SurfaceAssumption DEF SurfaceInv, PrimaryStops, Sweeping, Rest
<1>1. SurfaceTypeOK'
  BY DEF SurfaceTypeOK
<1>2. AttachInv'
  BY DEF SurfaceTypeOK, AttachInv
<1>3. TreeInv'
  BY DEF SurfaceTypeOK, TreeInv
<1>4. GateInv'
  BY DEF SurfaceTypeOK, GateInv
<1>5. AskInv'
  BY DEF SurfaceTypeOK, AskInv
<1> QED
  BY <1>1, <1>2, <1>3, <1>4, <1>5

\* A layer that is not attached has nothing in the store.
LEMMA StopDetachedSurface ==
  ASSUME SurfaceInv, NEW v \in Views, StopDetached(v)
  PROVE  SurfaceInv'
<1> USE SurfaceAssumption DEF SurfaceInv, StopDetached, ViewsTurn, Sweeping, Rest
<1>1. SurfaceTypeOK'
  BY DEF SurfaceTypeOK
<1>2. AttachInv'
  BY DEF SurfaceTypeOK, AttachInv
<1>3. TreeInv'
  BY DEF SurfaceTypeOK, TreeInv
<1>4. GateInv'
  BY DEF SurfaceTypeOK, GateInv
<1>5. AskInv'
  BY DEF SurfaceTypeOK, AskInv
<1> QED
  BY <1>1, <1>2, <1>3, <1>4, <1>5

\* detach takes the assets out before the window is closed.
LEMMA DetachSurface ==
  ASSUME SurfaceInv, NEW v \in Views, Detach(v)
  PROVE  SurfaceInv'
<1> USE SurfaceAssumption DEF SurfaceInv, Detach, ViewsTurn, Sweeping, Rest
<1>1. SurfaceTypeOK'
  BY DEF SurfaceTypeOK
<1>2. AttachInv'
  BY DEF SurfaceTypeOK, AttachInv
<1>3. TreeInv'
  BY DEF SurfaceTypeOK, TreeInv
<1>4. GateInv'
  BY DEF SurfaceTypeOK, GateInv
<1>5. AskInv'
  BY DEF SurfaceTypeOK, AskInv
<1> QED
  BY <1>1, <1>2, <1>3, <1>4, <1>5

\* A closed window ends the detachment.
LEMMA CloseWindowSurface ==
  ASSUME SurfaceInv, NEW v \in Views, CloseWindow(v)
  PROVE  SurfaceInv'
<1> USE SurfaceAssumption DEF SurfaceInv, CloseWindow
<1>1. SurfaceTypeOK'
  BY DEF SurfaceTypeOK
<1>2. AttachInv'
  BY DEF SurfaceTypeOK, AttachInv
<1>3. TreeInv'
  BY DEF SurfaceTypeOK, TreeInv, AttachInv
<1>4. GateInv'
  BY DEF SurfaceTypeOK, GateInv
<1>5. AskInv'
  BY DEF SurfaceTypeOK, AskInv
<1> QED
  BY <1>1, <1>2, <1>3, <1>4, <1>5

\* A window that does not close has its assets again.
LEMMA CloseFailsSurface ==
  ASSUME SurfaceInv, NEW v \in Views, CloseFails(v)
  PROVE  SurfaceInv'
<1> USE SurfaceAssumption DEF SurfaceInv, CloseFails
<1>1. SurfaceTypeOK'
  BY DEF SurfaceTypeOK
<1>2. AttachInv'
  BY DEF SurfaceTypeOK, AttachInv
<1>3. TreeInv'
  BY DEF SurfaceTypeOK, TreeInv, AttachInv
<1>4. GateInv'
  BY DEF SurfaceTypeOK, GateInv
<1>5. AskInv'
  BY DEF SurfaceTypeOK, AskInv
<1> QED
  BY <1>1, <1>2, <1>3, <1>4, <1>5

\* The end of a sweep records how the View layer fared.
LEMMA SweepEndsSurface ==
  ASSUME SurfaceInv, NEW v \in Views, SweepEnds(v)
  PROVE  SurfaceInv'
<1> USE SurfaceAssumption DEF SurfaceInv, SweepEnds, Sweeping, Rest
<1>1. SurfaceTypeOK'
  BY DEF SurfaceTypeOK
<1>2. AttachInv'
  BY DEF SurfaceTypeOK, AttachInv
<1>3. TreeInv'
  BY DEF SurfaceTypeOK, TreeInv
<1>4. GateInv'
  BY DEF SurfaceTypeOK, GateInv
<1>5. AskInv'
  BY DEF SurfaceTypeOK, AskInv
<1> QED
  BY <1>1, <1>2, <1>3, <1>4, <1>5

\* A window the user closes leaves its attachment to the stop.
LEMMA CloseRequestedSurface ==
  ASSUME SurfaceInv, NEW v \in Views, CloseRequested(v)
  PROVE  SurfaceInv'
<1> USE SurfaceAssumption DEF SurfaceInv, CloseRequested
<1>1. SurfaceTypeOK'
  BY DEF SurfaceTypeOK
<1>2. AttachInv'
  BY DEF SurfaceTypeOK, AttachInv
<1>3. TreeInv'
  BY DEF SurfaceTypeOK, TreeInv
<1>4. GateInv'
  BY DEF SurfaceTypeOK, GateInv
<1>5. AskInv'
  BY DEF SurfaceTypeOK, AskInv
<1> QED
  BY <1>1, <1>2, <1>3, <1>4, <1>5

\* A request has got nothing yet.
LEMMA RequestSurface ==
  ASSUME SurfaceInv, NEW r \in Asks, NEW v \in Views, NEW host \in Views, NEW kind \in Kinds, Request(r, v, host, kind)
  PROVE  SurfaceInv'
<1> USE SurfaceAssumption DEF SurfaceInv, Request, NoAsk
<1>1. SurfaceTypeOK'
  BY DEF SurfaceTypeOK, AskType, Kinds
<1>2. AttachInv'
  BY DEF SurfaceTypeOK, AttachInv
<1>3. TreeInv'
  BY DEF SurfaceTypeOK, TreeInv
<1>4. GateInv'
  BY DEF SurfaceTypeOK, GateInv
<1>5. AskInv'
  BY DEF SurfaceTypeOK, AskInv
<1> QED
  BY <1>1, <1>2, <1>3, <1>4, <1>5

\* An asset is looked up under the label of the webview.
LEMMA LookUpSurface ==
  ASSUME SurfaceInv, NEW r \in Asks, LookUp(r)
  PROVE  SurfaceInv'
<1> USE SurfaceAssumption DEF SurfaceInv, LookUp, Answer, Admits
<1>1. SurfaceTypeOK'
  <2> DEFINE got == IF Admits(r) /\ ask[r].kind = "asset" THEN ask[r].host ELSE "error"
  <2>1. got \in Views \cup {"none", "error"}
    BY DEF SurfaceTypeOK
  <2>2. Answer(r, got)
    OBVIOUS
  <2>3. ask' \in [Asks -> AskType]
    BY <2>1, <2>2, AnswerType DEF SurfaceTypeOK
  <2> QED
    BY <2>3 DEF SurfaceTypeOK
<1>2. AttachInv'
  BY DEF SurfaceTypeOK, AttachInv
<1>3. TreeInv'
  BY DEF SurfaceTypeOK, TreeInv
<1>4. GateInv'
  BY DEF SurfaceTypeOK, GateInv
<1>5. AskInv'
  BY DEF SurfaceTypeOK, AskInv
<1> QED
  BY <1>1, <1>2, <1>3, <1>4, <1>5

\* An intent goes on to the View it comes from.
LEMMA IntentTargetSurface ==
  ASSUME SurfaceInv, NEW r \in Asks, IntentTarget(r)
  PROVE  SurfaceInv'
<1> USE SurfaceAssumption DEF SurfaceInv, IntentTarget, Answer, Admits
<1>1. SurfaceTypeOK'
  BY DEF SurfaceTypeOK, AskType, Kinds
<1>2. AttachInv'
  BY DEF SurfaceTypeOK, AttachInv
<1>3. TreeInv'
  BY DEF SurfaceTypeOK, TreeInv
<1>4. GateInv'
  BY DEF SurfaceTypeOK, GateInv, AskInv, AskType
<1>5. AskInv'
  BY DEF SurfaceTypeOK, AskInv, AskType
<1> QED
  BY <1>1, <1>2, <1>3, <1>4, <1>5

\* An intent enters with the gate, so the tree is not being stopped.
LEMMA IntentEntersSurface ==
  ASSUME SurfaceInv, NEW r \in Asks, IntentEnters(r)
  PROVE  SurfaceInv'
<1> USE SurfaceAssumption DEF SurfaceInv, IntentEnters, Answer
<1>1. SurfaceTypeOK'
  BY DEF SurfaceTypeOK, AskType, Kinds
<1>2. AttachInv'
  BY DEF SurfaceTypeOK, AttachInv
<1>3. TreeInv'
  BY DEF SurfaceTypeOK, TreeInv
<1>4. GateInv'
  <2>1. \A v \in Views : tree'[v] = "stopping" <=> gate'[v] = "stop"
    BY DEF SurfaceTypeOK, GateInv
  <2>2. ASSUME NEW q \in Asks, ask'[q].phase = "invoking"
        PROVE  gate'[ask'[q].host] = q /\ tree'[ask'[q].host] \notin {"idle", "stopped"}
    <3>1. CASE q = r
      BY <2>2, <3>1 DEF SurfaceTypeOK, AskInv, TreeInv, AskType
    <3>2. CASE q # r
      <4>1. ask'[q] = ask[q]
        BY <3>2 DEF SurfaceTypeOK
      <4>2. gate[ask[q].host] = q /\ tree[ask[q].host] \notin {"idle", "stopped"}
        BY <2>2, <4>1 DEF GateInv
      <4>3. gate' = gate \/ (gate' = [gate EXCEPT ![ask[r].host] = r] /\ gate[ask[r].host] = "none")
        OBVIOUS
      <4>4. q # "none"
        BY SurfaceAssumption
      <4>5. ask[r].host # ask[q].host \/ gate' = gate
        BY <4>2, <4>3, <4>4
      <4>6. ask[q].host \in Views
        BY <2>2, <4>1 DEF AskInv
      <4>7. gate'[ask[q].host] = gate[ask[q].host] /\ tree' = tree
        BY <4>3, <4>5, <4>6 DEF SurfaceTypeOK
      <4> QED
        BY <4>1, <4>2, <4>7
    <3> QED
      BY <3>1, <3>2
  <2> QED
    BY <2>1, <2>2 DEF GateInv
<1>5. AskInv'
  BY DEF SurfaceTypeOK, AskInv, AskType
<1> QED
  BY <1>1, <1>2, <1>3, <1>4, <1>5

\* The gate an intent gives back is its own.
LEMMA IntentReturnsSurface ==
  ASSUME SurfaceInv, NEW r \in Asks, IntentReturns(r)
  PROVE  SurfaceInv'
<1> USE SurfaceAssumption DEF SurfaceInv, IntentReturns, Answer
<1>1. SurfaceTypeOK'
  <2> PICK got \in {"error", ask[r].host} : Answer(r, got)
    OBVIOUS
  <2>1. ask[r].host \in Views
    BY DEF AskInv
  <2>2. ask' \in [Asks -> AskType]
    BY <2>1, AnswerType DEF SurfaceTypeOK
  <2> QED
    BY <2>1, <2>2 DEF SurfaceTypeOK
<1>2. AttachInv'
  BY DEF SurfaceTypeOK, AttachInv
<1>3. TreeInv'
  BY DEF SurfaceTypeOK, TreeInv
<1>4. GateInv'
  BY DEF SurfaceTypeOK, GateInv
<1>5. AskInv'
  BY DEF SurfaceTypeOK, AskInv
<1> QED
  BY <1>1, <1>2, <1>3, <1>4, <1>5

\* Every step keeps the inductive invariant.
LEMMA SurfaceStep == SurfaceInv /\ [SurfaceNext]_surfaceVars => SurfaceInv'
<1> SUFFICES ASSUME SurfaceInv, [SurfaceNext]_surfaceVars PROVE SurfaceInv'
  OBVIOUS
<1>1. CASE UNCHANGED surfaceVars
  BY <1>1 DEF surfaceVars, SurfaceInv, SurfaceTypeOK, AttachInv, TreeInv, GateInv, AskInv
<1> QED
  BY <1>1, StageAssetsSurface, OpenWindowSurface, OpenFailsSurface, RollBackAttachmentSurface, PrimaryStartsSurface,
     TreeStartsSurface, TreeFailsSurface, StopTreeSurface, PrimaryStopsSurface, StopDetachedSurface, DetachSurface,
     CloseWindowSurface, CloseFailsSurface, SweepEndsSurface, CloseRequestedSurface, RequestSurface, LookUpSurface,
     IntentTargetSurface, IntentEntersSurface, IntentReturnsSurface DEF SurfaceNext

LEMMA SurfacePromises == ASSUME SurfaceInv PROVE WindowsAreServed
<1>1. ASSUME NEW v \in Views
      PROVE  /\ v \in window => v \in attachments \/ step[v] = "closing"
             /\ layer[v] = "Attached" /\ step[v] = "rest" => v \in attachments
             /\ tree[v] \in {"stopped", "dropped"} => v \notin attachments \cup window
  BY <1>1 DEF SurfaceInv, SurfaceTypeOK, AttachInv, TreeInv
<1>2. ASSUME NEW r \in Asks, ask[r].phase = "invoking", ask[r].host \notin attachments
      PROVE  tree[ask[r].host] \in {"rollback", "dropped"}
  <2> DEFINE v == ask[r].host
  <2>1. v \in Views /\ tree[v] \notin {"idle", "stopped"} /\ gate[v] = r
    BY <1>2 DEF SurfaceInv, GateInv, AskInv
  <2>2. tree[v] # "stopping"
    BY <2>1, SurfaceAssumption DEF SurfaceInv, GateInv
  <2> QED
    BY <1>2, <2>1, <2>2 DEF SurfaceInv, SurfaceTypeOK, AttachInv, TreeInv
<1> QED
  BY <1>1, <1>2 DEF SurfaceInv, AskInv, WindowsAreServed

-----------------------------------------------------------------------------
(* The components together: each keeps its invariant while the others move. *)

DevelopmentInv == PythonInv /\ WatchInv /\ SurfaceInv

\* The inductive invariant, in every state.
THEOREM Invariance == Spec => []DevelopmentInv
<1>1. Init => DevelopmentInv
  BY PythonStarts, WatchStarts, SurfaceStarts DEF Init, DevelopmentInv
<1>2. DevelopmentInv /\ [Next]_vars => DevelopmentInv'
  <2> SUFFICES ASSUME DevelopmentInv, [Next]_vars PROVE DevelopmentInv'
    OBVIOUS
  <2>1. PythonInv'
    BY PythonStep DEF DevelopmentInv, Next, vars
  <2>2. WatchInv'
    BY WatchStep DEF DevelopmentInv, Next, vars
  <2>3. SurfaceInv'
    BY SurfaceStep DEF DevelopmentInv, Next, vars
  <2> QED
    BY <2>1, <2>2, <2>3 DEF DevelopmentInv
<1> QED
  BY <1>1, <1>2, PTL DEF Spec

\* holo_python.rs, execute: a container that runs another image than its bundle
\* claims started after somebody moved the tag that the execution had checked.
THEOREM ClaimedRuns == Spec => []RunsClaimedImage
<1>1. DevelopmentInv => RunsClaimedImage
  BY PythonPromises DEF DevelopmentInv
<1> QED
  BY <1>1, Invariance, PTL

\* copy_image_file, remove_image_tag and run_container clean up after themselves,
\* on every path through a build or an execution and however two builds of one
\* project share their builder tag.
THEOREM CleanedUp == Spec => []NothingLeftBehind
<1>1. DevelopmentInv => NothingLeftBehind
  BY PythonPromises DEF DevelopmentInv
<1> QED
  BY <1>1, Invariance, PTL

\* holo_python_component.rs: for any lock file, cycles included, a finished build
\* has taken exactly the packages its project requires, and its provenance names
\* the source that was componentized, whatever the developer saved meanwhile.
THEOREM Attested == Spec => []ComponentAttested
<1>1. DevelopmentInv => ComponentAttested
  BY PythonPromises DEF DevelopmentInv
<1> QED
  BY <1>1, Invariance, PTL

\* holo_watch.rs: for any number of projects and workers, edits, requests, restarts
\* and failing writes, a worker at rest has built the content as it is, its archive
\* is in the catalog and the file that restores the project says so.
THEOREM Settled == Spec => []SettledIsCurrent
<1>1. DevelopmentInv => SettledIsCurrent
  BY WatchSettled DEF DevelopmentInv
<1> QED
  BY <1>1, Invariance, PTL

\* attach and detach of the desktop host, whichever window fails to open or
\* to close: a window nobody is closing has its assets, a tree that ended
\* leaves nothing, and a webview hears from its own View only, whose stop
\* waits for its intents.
THEOREM Served == Spec => []WindowsAreServed
<1>1. DevelopmentInv => WindowsAreServed
  BY SurfacePromises DEF DevelopmentInv
<1> QED
  BY <1>1, Invariance, PTL
=============================================================================
