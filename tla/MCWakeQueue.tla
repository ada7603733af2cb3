------------------------------ MODULE MCWakeQueue ------------------------------
(* Instances of WakeQueue. *)
EXTENDS WakeQueue

CONSTANTS d1, d2, d3
================================================================================
