--------------------------- MODULE MCHoloLifecycle ---------------------------
(***************************************************************************)
(* A root application (a View declared before its primary) with one child  *)
(* (a primary and then a View): both orders of View and primary, a gate    *)
(* for each application, and a layer after every View whose start can      *)
(* still fail.                                                             *)
(***************************************************************************)
EXTENDS HoloLifecycle

MCAppOf   == <<1, 1, 2, 2>>
MCPrimary == <<2, 3>>
MCViews   == {1, 4}
CONSTANT rootView
MCIntentApp == [c \in Intents |-> IF c = rootView THEN 1 ELSE 2]

=============================================================================
