------------------------- MODULE MCWeightcSessions -------------------------
(***************************************************************************)
(* Two conversations that compete for one slot (or have one each): three   *)
(* requests of the first, one of which may be dropped, and one of the      *)
(* second.                                                                 *)
(***************************************************************************)
EXTENDS WeightcSessions

CONSTANTS chat, other, q1
MCKeyOf == [r \in Requests |-> IF r = q1 THEN other ELSE chat]

=============================================================================
