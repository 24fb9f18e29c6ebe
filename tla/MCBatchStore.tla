---------------------------- MODULE MCBatchStore ----------------------------
(* Model checking of BatchStore. *)
EXTENDS BatchStoreProperties
=============================================================================
