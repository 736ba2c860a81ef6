------------------------- MODULE MCDesktopSessions -------------------------
(***************************************************************************)
(* Two archives: `suite` embeds `tool` two levels down, so its directory   *)
(* does not list it, and `copy` is another archive of the tool.            *)
(***************************************************************************)
EXTENDS DesktopSessions

CONSTANTS suite, copy, root, tool, s1, s2, s3
MCAppsOf    == [a \in Archives |-> IF a = suite THEN {root, tool} ELSE {tool}]
MCInspected == [a \in Archives |-> IF a = suite THEN {root} ELSE {tool}]
MCViewApp   == [a \in Archives |-> tool]
MCArchiveOf == [w \in Labels |-> IF w = s1 THEN suite ELSE copy]

=============================================================================
