----------------------------- MODULE MCService -----------------------------
(* Two process identities, one lifecycle command and one call.           *)
EXTENDS Service, TLC

CONSTANTS p1, p2, c1, c2

MCCommands == (c1 :> {"stop", "restart"}) @@ (c2 :> {"start", "put", "get", "plugin"})
MCModules ==
    [system |-> [deps |-> {}, operations |-> {"shutdown", "plugin"}],
     registry |-> [deps |-> {"system"}, operations |-> {"put", "get"}],
     twin |-> [deps |-> {}, operations |-> {"put"}]]
MCConfig ==
    [schema |-> 2, listen |-> "loopback", auth |-> FALSE, token |-> FALSE, grant |-> FALSE,
     limits |-> TRUE, plugins |-> {"echo"}, pinned |-> TRUE, extra |-> {},
     enabled |-> {"system", "registry"}]
\* The plugin's host; an older file with a retired key, for a public address;
\* files that are refused when read or when built.
MCConfigFiles ==
    {MCConfig,
     [MCConfig EXCEPT !.schema = 1, !.extra = {2}, !.plugins = {}, !.enabled = {"system"},
                      !.auth = TRUE, !.token = TRUE],
     [MCConfig EXCEPT !.schema = 3],
     [MCConfig EXCEPT !.plugins = {"system"}],
     [MCConfig EXCEPT !.schema = 1, !.plugins = {}, !.enabled = {"system", "registry", "twin"}]}
MCServes == {"public"}
=============================================================================
