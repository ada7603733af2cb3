------------------------------ MODULE MCRegistry ------------------------------
(* Instances of Registry. *)
EXTENDS Registry

CONSTANTS s1, s2, t1, t2
===============================================================================
