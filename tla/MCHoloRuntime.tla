--------------------------- MODULE MCHoloRuntime ---------------------------
(***************************************************************************)
(* Requests for one admitted kappa that can race in every order, and one   *)
(* load of a denied kappa.                                                 *)
(***************************************************************************)
EXTENDS HoloRuntime

CONSTANTS app, refused, probe
MCKappaOf == [t \in Tasks |-> IF t = probe THEN refused ELSE app]

=============================================================================
