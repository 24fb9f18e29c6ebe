---------------------------- MODULE MCTransport ----------------------------
(* Model checking of Transport. *)
EXTENDS TransportProperties
=============================================================================
