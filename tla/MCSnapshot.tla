----------------------------- MODULE MCSnapshot -----------------------------
(* Snapshot as it is; the configuration gives the bounds. *)
EXTENDS Snapshot
=============================================================================
