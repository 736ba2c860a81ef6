--------------------------- MODULE MCDevelopment ---------------------------
(***************************************************************************)
(* Two builds of one project and an execution; the lock file has a shared  *)
(* dependency and a cycle.  The foreign bundles: one built elsewhere from  *)
(* the same source on an older base, one whose archive loads another tag   *)
(* than its metadata names, and one for each check of its encoding.  One   *)
(* watched project, enough worker names for a removal and a second         *)
(* registration beside a build of the first.                               *)
(***************************************************************************)
EXTENDS Development, TLC

CONSTANTS app, web, json, core
MCRequires == (app :> <<web, json>>) @@ (web :> <<core>>) @@ (json :> <<core>>)
              @@ (core :> <<json>>)

Elsewhere == [src |-> 1, base |-> 0]
Good == [tag |-> 1, claims |-> Elsewhere, holds |-> Elsewhere, loads |-> 1, defect |-> None]
Mislabelled == [Good EXCEPT !.claims.src = 2, !.holds.src = 2, !.loads = 2]
MCForeign ==
  {Good, Mislabelled, [Good EXCEPT !.defect = "magic"],
   [Good EXCEPT !.defect = "expansion"]}
=============================================================================
