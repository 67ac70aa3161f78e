------------------------------ MODULE MCServer ------------------------------
(* Small instances of Server for TLC. *)
EXTENDS Server

CONSTANTS c1, t1, t2
=============================================================================
