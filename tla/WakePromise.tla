------------------------------ MODULE WakePromise ------------------------------
(***************************************************************************)
(* What a wake queue promises those who put a line in: the session is told *)
(* the line once, or the line is still waiting, or newer lines have pushed *)
(* it out of a full queue.  How lines are batched, who delivers them and   *)
(* how often a delivery has to be tried is left open.                      *)
(***************************************************************************)
EXTENDS Naturals, FiniteSets

CONSTANTS
    Queues,
    Lines,
    Capped, \* the queues with a cap
    Cap     \* how many lines these hold

VARIABLES
    waiting, \* the lines of each queue that have not been told
    told     \* those the session has been told

wakeVars == <<waiting, told>>

WakeInit ==
    /\ waiting = [q \in Queues |-> {}]
    /\ told = [q \in Queues |-> {}]

\* A line comes in; a full queue may lose an older one for it.
Put(q, n) ==
    /\ n \notin waiting[q] \cup told[q]
    /\ \/ waiting' = [waiting EXCEPT ![q] = @ \cup {n}]
       \/ /\ q \in Capped /\ Cardinality(waiting[q]) >= Cap
          /\ \E old \in waiting[q] :
                waiting' = [waiting EXCEPT ![q] = (@ \ {old}) \cup {n}]
    /\ UNCHANGED told

\* The session is told some of the lines, in one prompt.
Tell(q, batch) ==
    /\ waiting' = [waiting EXCEPT ![q] = @ \ batch]
    /\ told' = [told EXCEPT ![q] = @ \cup batch]

WakeNext ==
    \E q \in Queues : (\E n \in Lines : Put(q, n))
                      \/ \E batch \in SUBSET waiting[q] : Tell(q, batch)

WakeSpec == WakeInit /\ [][WakeNext]_wakeVars
================================================================================
