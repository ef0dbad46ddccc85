--------------------------- MODULE MCServerLifecycle ---------------------------
(***************************************************************************)
(* Model values for ServerLifecycle: four container ids leave a fresh one  *)
(* beside the row's and the two that a tick may remember.                  *)
(***************************************************************************)
EXTENDS ServerLifecycle

CONSTANTS c1, c2, c3, c4
MCIds == {c1, c2, c3, c4}
=============================================================================
