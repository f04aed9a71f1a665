------------------------------- MODULE MCSync -------------------------------
(* A small table for TLC.                                                   *)
EXTENDS Sync
=============================================================================
