---------------------------- MODULE MCLocalNode ----------------------------
(* Tasks on shared documents, a request at every endpoint over every kind   *)
(* of upstream answer, and three updates or rollbacks in a row.             *)
EXTENDS LocalNode, TLC

O(op, obj, arg, turn) == [op |-> op, obj |-> obj, arg |-> arg, turn |-> turn]

\* Pairs of requests that meet on one document, each from an empty store.
MCOps == {
    [t1 |-> <<>>, t2 |-> <<>>, t3 |-> <<>>],
    [t1 |-> <<O("create", "c1", "ok", "-"), O("append", "c1", "ok", "m1")>>,
     t2 |-> <<O("send", "c1", "ok", "m2"), O("archive", "c1", "ok", "-")>>,
     t3 |-> <<O("exchange", "c1", "ok", "m3")>>],
    [t1 |-> <<O("create", "c1", "ok", "-"), O("append", "c1", "ok", "m1"),
              O("create", "c2", "bad", "-")>>,
     t2 |-> <<O("delete", "c1", "ok", "-")>>,
     t3 |-> <<O("send", "c1", "session", "m2")>>],
    [t1 |-> <<O("put", "o1", "file", "f1"), O("put", "o1", "other", "f1")>>,
     t2 |-> <<O("cache", "o1", "fits", "-"), O("unlink", "o1", "ok", "-")>>,
     t3 |-> <<O("rename", "o1", "ok", "f2")>>],
    [t1 |-> <<O("cache", "o1", "fits", "-"), O("cache", "o2", "large", "-")>>,
     t2 |-> <<O("heartbeat", "nodes", "ok", "n1"), O("heartbeat", "nodes", "ok", "n2")>>,
     t3 |-> <<O("cache", "o1", "fits", "-"), O("heartbeat", "nodes", "ok", "n3")>>],
    [t1 |-> <<O("import", "o2", "model", "v"), O("remove", "o2", "ok", "-")>>,
     t2 |-> <<O("import", "o2", "model", "v"), O("remove", "o2", "ok", "-")>>,
     t3 |-> <<>>] }

Ask(api, stream, messages, model, usage, engine) ==
    [api |-> api, stream |-> stream, messages |-> messages, model |-> model,
     usage |-> usage, engine |-> engine]
MCAsks == {Ask("openai", TRUE, TRUE, "tag", TRUE, "ollama"),
           Ask("openai", TRUE, TRUE, "", FALSE, "weightc"),
           Ask("openai", FALSE, FALSE, "tag", FALSE, "ollama"),
           Ask("generate", TRUE, FALSE, "known", FALSE, "ollama"),
           Ask("generate", FALSE, FALSE, "other", FALSE, "echo"),
           Ask("chat", TRUE, TRUE, "tag", FALSE, "ollama"),
           Ask("chat", TRUE, TRUE, "other", FALSE, "ollama")}

\* "h1" "h2" is one line in two pieces; "d" says done with a text, "e" without;
\* a line of "l" is longer than MaxLine and read only when its newline comes with it.
MCJson == (<<"h1", "h2">> :> [text |-> <<"h">>, done |-> FALSE])
          @@ (<<"i">> :> [text |-> <<"i">>, done |-> FALSE])
          @@ (<<"l", "l", "l", "l">> :> [text |-> <<"l">>, done |-> FALSE])
          @@ (<<"n">> :> [text |-> <<>>, done |-> FALSE])
          @@ (<<"d">> :> [text |-> <<"d">>, done |-> TRUE])
          @@ (<<"e">> :> [text |-> <<>>, done |-> TRUE])

MCBodies == {<<>>,
             <<"h1", "h2", NL, NL, "i", NL, "n", NL, "i", NL, "d", NL>>,
             <<"i", NL, "e", NL>>,
             <<"i", NL, "x", NL, "e", NL>>,
             <<"h1", "h1", "h1", "h1", NL, "e", NL>>,
             <<"l", "l", "l", "l", NL, "e", NL>>,
             <<"i", NL, "h1", "h2">>}

\* A release that passes every check, and one that fails each of them.
Good == [f \in DOMAIN NoRelease |-> TRUE]
MCReleases == {Good} \cup {[Good EXCEPT ![f] = FALSE] : f \in DOMAIN NoRelease}

\* Four addresses, where a references b, c, d and so on down; the layers of every
\* profile, and guests that call each interface.
CONSTANTS a, b, c, d

MCSize == (a :> 1) @@ (b :> 2) @@ (c :> 1) @@ (d :> 1)
Stored(o, refs) == [present |-> TRUE, hashes |-> TRUE, framed |-> TRUE, size |-> MCSize[o], refs |-> refs]
Faulty(o) == {[Stored(o, <<>>) EXCEPT !.present = FALSE], [Stored(o, <<>>) EXCEPT !.hashes = FALSE],
              [Stored(o, <<>>) EXCEPT !.framed = FALSE]}
Lists(S) == {<<>>} \cup {<<x>> : x \in S} \cup {<<x, y>> : x \in S, y \in S}
StoredAny(o, S) == {Stored(o, refs) : refs \in Lists(S)}
MCStores == {(a :> ba) @@ (b :> bb) @@ (c :> bc) @@ (d :> bd) :
                ba \in StoredAny(a, {b, c, d}) \cup Faulty(a), bb \in StoredAny(b, {c, d}) \cup Faulty(b),
                bc \in StoredAny(c, {d}), bd \in StoredAny(d, {}) \cup Faulty(d)}
MCWhole == (a :> Stored(a, <<b>>)) @@ (b :> Stored(b, <<>>)) @@ (c :> Stored(c, <<>>)) @@ (d :> Stored(d, <<>>))
MCRoots == {<<a>>, <<a, b>>, <<>>}
MCHostLimits == [depth |-> 2, objects |-> 3, edges |-> 3, bytes |-> 4]
MCLimits == {MCHostLimits,
             [depth |-> 1, objects |-> 4, edges |-> 4, bytes |-> 5],
             [depth |-> 2, objects |-> 4, edges |-> 5, bytes |-> 5]}

MCProfile == [writer |-> "write", caller |-> "fetch", sender |-> "publish", reader |-> "subscribe",
              walker |-> "graph-read", poor |-> "write", odd |-> "import-free", closed |-> "fetch"]
MCLayers == DOMAIN MCProfile
MCApplications == {{}, {"writer"}, {"caller"}, {"sender", "reader"}, {"walker", "poor"}, {"odd", "closed"}}
MCWorld == [MCProfile EXCEPT !.walker = "read", !.odd = "read"]
MCAdmitted == [writer |-> {a, b}, caller |-> {"site"}, sender |-> {"topic"}, reader |-> {"topic"},
               walker |-> {a}, poor |-> {a}, odd |-> {}, closed |-> {}]
MCQuota == [l \in MCLayers |-> IF l = "writer" THEN 2 ELSE 0]
MCInputs == [l \in MCLayers |->
    CASE l = "writer" -> {<<<<<<"write", a>>, <<"write", b>>>>, <<<<"write", c>>, <<"fail", a>>>>>>}
      [] l = "caller" -> {<<<<<<"fetch", "site">>, <<"fetch", "elsewhere">>>>,
                            <<<<"fetch", "site">>, <<"spin", "site">>>>, <<>>>>}
      [] l = "sender" -> {<<<<<<"publish", "topic">>, <<"publish", "topic">>>>>>}
      [] l = "reader" -> {<<<<<<"receive", "topic">>>>, <<<<"receive", "other">>>>>>}
      [] OTHER -> {<<<<<<"read", a>>>>>>}]
=============================================================================
