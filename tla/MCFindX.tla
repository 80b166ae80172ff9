------------------------------- MODULE MCFindX -------------------------------
(* Instances of FindX for TLC.                                             *)
EXTENDS FindX

CONSTANTS c1, c2, c3, a, b, bad
=============================================================================
