------------------------------ MODULE MCSync ------------------------------
(* A node downloads a short chain in batches of two blocks. *)
EXTENDS Sync
============================================================================
