------------------------------ MODULE MCDistribution ------------------------------
(* A small world to plan in: a leaf, a library with a View, a suite with    *)
(* the leaf as its child, a manifest of an old schema, and archives of      *)
(* other tools at and beyond each limit and with an unknown guest contract. *)
EXTENDS Distribution, TLC

Source1(rights) == [schema |-> 2, flag |-> "none", endpoints |-> FALSE, ordered |-> TRUE, rights |-> rights]
Layer(kind, from, file, dir, given, contract, entry, surface) ==
    [kind |-> kind, from |-> from, file |-> file, dir |-> dir, given |-> given,
     contract |-> contract, entry |-> entry, surface |-> surface]
Wasm(f) == Layer("wasm", "path", f, {}, {"entry", "contract"}, "core@1", "main", "")
ViewLayer(dir) == Layer("view", "path", "none", dir, {"surface"}, "", "", "portable")
Python(f) == Layer("rootfs", "python-rootfs", f, {}, {"arch"}, "", "", "")
Text(primary, rights, layers, children) ==
    [schema |-> 4, library |-> primary = 0, primary |-> primary, requires |-> Source1(rights),
     layers |-> layers, children |-> children]
ChildOf(s, rights) == [application |-> s, capabilities |-> Source1(rights)]

MCManifest ==
    [leaf  |-> Text(1, {"r"}, <<Wasm("a")>>, <<>>),
     page  |-> Text(0, {}, <<ViewLayer({"h", "i"})>>, <<>>),
     suite |-> Text(1, {}, <<Python("h")>>, <<ChildOf("leaf", {"r"})>>),
     old   |-> [Text(1, {}, <<Wasm("a")>>, <<>>) EXCEPT !.schema = 3]]
MCSize == [a |-> <<1, 2>>, h |-> <<1>>, i |-> <<1, 3>>]
MCFold == [a |-> "a", h |-> "h", i |-> "i"]
LayerOf(f, v) == [kind |-> "wasm", contract |-> "core@1", content |-> Content(f, v)]
Leaf == App(1, Caps({}), <<LayerOf("a", 1)>>, <<>>)
Wide == App(1, Caps({}), <<LayerOf("a", 1), LayerOf("i", 2), LayerOf("h", 1), LayerOf("a", 1)>>, <<>>)
Under(m, c) == [application |-> m, capabilities |-> c]
Parent(children) == App(1, Caps({}), Leaf.layers, children)
ForeignBlobs ==
    {Leaf, Wide, Parent(<<Under(Leaf, Caps({}))>>), Caps({}), Caps({"r"}), NoApp,
     Content("a", 1), Content("h", 1), Content("i", 2)}
MCForeign ==
    {[format |-> 4, manifest |-> NoApp, blobs |-> {}, labelled |-> TRUE, directory |-> "none"]}
    \cup {Archive(m, ForeignBlobs) : m \in
            {Parent(<<Under(Parent(<<Under(Leaf, Caps({}))>>), Caps({}))>>),
             Parent(<<Under(Caps({}), NoApp), Under(Leaf, Caps({}))>>),
             Parent(<<Under(Leaf, NoApp), Under(Wide, Caps({"r"}))>>),
             Parent(<<Under(Leaf, Caps({})), Under(Leaf, Caps({}))>>),
             Parent(<<Under(Leaf, Caps({})), Under(Leaf, Caps({})), Under(Leaf, Caps({}))>>),
             Parent(<<Under(Wide, Caps({}))>>),
             [Wide EXCEPT !.children = <<Under(Leaf, Caps({}))>>],
             App(1, NoApp, Leaf.layers, <<>>),
             App(1, Caps({}), <<[LayerOf("a", 1) EXCEPT !.contract = "other@1"]>>, <<>>)}}

(* Command lines of app init: one for each kind and each profile, for every *)
(* contract without an entry, and with a field too many or too few.         *)
NoFlags == [python |-> FALSE, kind |-> "none", path |-> FALSE, given |-> {}, contract |-> "",
            entry |-> "", surface |-> "", profile |-> "none", base |-> FALSE, project |-> FALSE,
            primary |-> 0, noPrimary |-> FALSE, children |-> 0, delegations |-> 0,
            yes |-> FALSE, force |-> FALSE]
ForLayer(kind, given) ==
    [NoFlags EXCEPT !.kind = kind, !.path = TRUE, !.given = given, !.surface = "portable"]
Template(given, profile) ==
    [NoFlags EXCEPT !.python = TRUE, !.given = given, !.profile = profile, !.entry = "m:f"]
MCFlags ==
    {NoFlags, [NoFlags EXCEPT !.yes = TRUE], [NoFlags EXCEPT !.project = TRUE],
     [NoFlags EXCEPT !.force = TRUE, !.primary = 2], [NoFlags EXCEPT !.yes = TRUE, !.force = TRUE],
     ForLayer("view", {"surface"}), ForLayer("view", {}), ForLayer("rootfs", {"arch"}),
     [ForLayer("rootfs", {"arch"}) EXCEPT !.noPrimary = TRUE],
     [ForLayer("tensor", {}) EXCEPT !.primary = 1, !.children = 1, !.delegations = 1],
     [ForLayer("tensor", {"arch"}) EXCEPT !.children = 1],
     ForLayer("inference_model", {"entry", "engine"}),
     Template({"entry"}, "none"), Template({"entry"}, "wasi-component"), Template({}, "none"),
     [Template({"entry"}, "wasi-component") EXCEPT !.base = TRUE],
     [ForLayer("wasm", {"contract", "entry"}) EXCEPT !.contract = "store-read@1", !.entry = "main"]}
    \cup {[ForLayer("wasm", {"contract"}) EXCEPT !.contract = c] :
            c \in ComponentContracts \cup {"other@1"}}
MCChosen == {[contract |-> "", entry |-> "", surface |-> ""],
             [contract |-> "store-write@1", entry |-> "", surface |-> "native"]}

(* For the registry: two requests at a time, on two nodes, against one server. *)
CONSTANTS n1, n2, t1, t2

MCOpsOf == (t1 :> {"push", "put", "rename", "assemble"})
           @@ (t2 :> {"push", "pull", "get", "search"})

(* A fat archive and a thin one. *)
MCPushable == {[blob |-> 1, layers |-> {}], [blob |-> 2, layers |-> {3, 4}]}
MCBlobs == 1 .. 4

Ref(h, ns, name, tag) == [host |-> h, namespace |-> ns, name |-> name, tag |-> tag]
MCInputRefs == {Ref("none", "none", "demo", "none"), Ref("h2", "none", "demo", "latest"),
                Ref("none", "none", "bad", "none")}

PubLayer(b, role, axis) == [blob |-> b, role |-> role, axis |-> axis]
MCPublished ==
    {[by |-> "other", archive |-> 1, layers |-> <<PubLayer(3, "layer", "blake3"), PubLayer(1, "archive", "blake3")>>],
     [by |-> "other", archive |-> 1, layers |-> <<PubLayer(1, "archive", "blake3"), PubLayer(2, "archive", "blake3")>>],
     [by |-> "other", archive |-> 1, layers |-> <<PubLayer(1, "archive", "sha256")>>]}

MCObjects == {1, 3, 4}
MCOtherTags == {2}
MCKind == [o \in MCObjects |-> IF o = 1 THEN "other" ELSE "file"]

Path(file, p) == file @@ [path |-> p]
Small == Path(DescribeFile(<<1, 2, 1>>, 2), 1)
Shuffled == [Small EXCEPT !.chunks = [i \in 1 .. 2 |->
                [DescribeFile(<<1, 2, 1>>, 2).chunks[3 - i] EXCEPT !.offset = IF i = 1 THEN 0 ELSE 1]]]
Gap == [Small EXCEPT !.chunks[2].offset = 3]
MCRepos == {[formed |-> TRUE, files |-> <<Small, Path(DescribeFile(<<>>, 2), 2)>>],
            [formed |-> TRUE, files |-> <<Shuffled>>],
            [formed |-> TRUE, files |-> <<Gap>>],
            [formed |-> TRUE, files |-> <<[Small EXCEPT !.sha256 = <<>>]>>],
            [formed |-> TRUE, files |-> <<[Small EXCEPT !.sha256 = <<<<1>>>>]>>],
            [formed |-> TRUE, files |-> <<Path(DescribeFile(<<>>, 2), 2), Small>>],
            [formed |-> TRUE, files |-> <<Small, Small>>]}
================================================================================
