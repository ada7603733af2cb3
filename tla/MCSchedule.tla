------------------------------ MODULE MCSchedule ------------------------------
(* Instances of Schedule: items of one session, or one of them a new chat.   *)
EXTENDS Schedule

CONSTANTS i1, i2, s1, n1

OneSession == [i \in Ids |-> s1]
MessageAndNewChat == [i \in Ids |-> IF i = i1 THEN s1 ELSE None]
===============================================================================
