----------------------------- MODULE MCManager ------------------------------
(* Small instances of Manager for TLC. *)
EXTENDS Manager

CONSTANTS e1, e2, e3, t1, t2

PrimaryAndStandby == <<e1, e2>>
=============================================================================
