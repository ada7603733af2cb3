--------------------------- MODULE SchedulePromise ---------------------------
(***************************************************************************)
(* What a schedule promises, whoever may ask it to fire and whenever it is *)
(* edited: a prompt goes out only on a claim, a claim uses up an arming of *)
(* its item, and a claim is good for one prompt at most.  How armings come *)
(* about (the user, a recurrence, a requeue) is left open.                 *)
(***************************************************************************)
EXTENDS Naturals

CONSTANTS
    Items,
    Prompts \* what items send

VARIABLES
    armed,  \* the items that wait to be fired
    taken,  \* claims that have neither sent a prompt nor given up
    sent    \* how often each prompt went out

promiseVars == <<armed, taken, sent>>

PromiseInit ==
    /\ armed = {}
    /\ taken = [i \in Items |-> 0]
    /\ sent = [p \in Prompts |-> 0]

\* Items are armed and disarmed, by hand or by the scheduler.
Rearm ==
    /\ armed' \in SUBSET Items
    /\ UNCHANGED <<taken, sent>>

Take(i) ==
    /\ i \in armed
    /\ armed' = armed \ {i}
    /\ taken' = [taken EXCEPT ![i] = @ + 1]
    /\ UNCHANGED sent

Deliver(i, p) ==
    /\ taken[i] > 0
    /\ taken' = [taken EXCEPT ![i] = @ - 1]
    /\ sent' = [sent EXCEPT ![p] = @ + 1]
    /\ UNCHANGED armed

GiveUp(i) ==
    /\ taken[i] > 0
    /\ taken' = [taken EXCEPT ![i] = @ - 1]
    /\ UNCHANGED <<armed, sent>>

\* A crash forgets every claim, and arms nothing.
Forget ==
    /\ taken' = [i \in Items |-> 0]
    /\ UNCHANGED <<armed, sent>>

PromiseNext ==
    \/ \E i \in Items : Take(i) \/ GiveUp(i) \/ \E p \in Prompts : Deliver(i, p)
    \/ Rearm \/ Forget

PromiseSpec == PromiseInit /\ [][PromiseNext]_promiseVars
=============================================================================
