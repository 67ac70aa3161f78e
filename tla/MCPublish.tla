----------------------------- MODULE MCPublish ------------------------------
(* Small instances of Publish for TLC. *)
EXTENDS Publish

CONSTANTS p1, p2, b1, b2
=============================================================================
