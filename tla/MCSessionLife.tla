---------------------------- MODULE MCSessionLife ----------------------------
(* Instances of SessionLife. *)
EXTENDS SessionLife

CONSTANTS t1, t2

==============================================================================
