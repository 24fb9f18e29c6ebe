------------------------------ MODULE MCClient ------------------------------
(* Model checking of Client. *)
EXTENDS ClientProperties
=============================================================================
