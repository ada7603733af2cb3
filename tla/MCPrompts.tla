------------------------------- MODULE MCPrompts -------------------------------
(* Instances of Prompts. *)
EXTENDS Prompts

CONSTANTS p1, q1, q2, c1
================================================================================
