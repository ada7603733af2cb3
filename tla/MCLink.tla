---------------------------------- MODULE MCLink ----------------------------------
(* Instances of Link. *)
EXTENDS Link

CONSTANTS u1, p1, p2
===================================================================================
