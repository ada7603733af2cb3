------------------------------- MODULE MCWhenDone -------------------------------
(* Instances of WhenDone. *)
EXTENDS WhenDone

CONSTANTS s1, s2, e1, e2, e3
=================================================================================
