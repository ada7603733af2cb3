------------------------------ MODULE SessionLife ------------------------------
(***************************************************************************)
(* The life of one chat session's child processes: who spawns them, who    *)
(* kills them, and what the daemon's SessionMap and the registry's row say *)
(* meanwhile.                                                              *)
(*                                                                         *)
(* Operations are RPC handlers and the daemon's own senders.  Each is a    *)
(* task that goes through the stretches of code between two awaits, or     *)
(* between two looks at a structure that other threads use.  Everything is *)
(* keyed by the session id, which a child shares with the one before it.   *)
(* What turns do to the row is in Turn; the config files a child is given  *)
(* are left out.                                                           *)
(***************************************************************************)
EXTENDS Naturals

CONSTANTS
    Tasks,      \* handlers that run operations
    Ops,        \* the operations they run, see AllOps
    Env,        \* what the environment may do, see EnvChoices
    MaxProcs    \* bound: incarnations of the child

(* "send"      send_message_with_respawn: the wake queues, the remote API,
               the Jarvis fleet
   "start"     start_session with the id of an existing session
   "restart"   restart_session
   "setModel"  set_session_model: restarts a live session, and goes on
   "freeze"    freeze_session
   "unfreeze"  unfreeze_session
   "end"       end_session
   "move"      move_session_to_account, as far as the old session goes
   "mark"      mark_session_ended                                          *)
AllOps == {"send", "start", "restart", "setModel", "freeze", "unfreeze",
           "end", "move", "mark"}

\* The operations that may spawn a child.
Spawners == {"send", "start", "restart", "setModel", "unfreeze"}

(* "spawnsRace" an operation that may spawn a child may begin while another
                one is under way
   "slow"       a teardown may take longer than kill_and_wait waits for it *)
EnvChoices == {"spawnsRace", "slow"}

ASSUME ConstantsAssumption ==
    /\ Ops \subseteq AllOps
    /\ Env \subseteq EnvChoices
    /\ MaxProcs \in Nat \ {0}

Procs == 1..MaxProcs

VARIABLES
    map,    \* the SessionMap: the incarnation it holds, 0 for none
    child,  \* the processes
    pump,   \* their stdout pumps
    row,    \* the session's row in the Registry
    task,   \* the operations under way
    overlapped \* history: two operations have been under way at once

vars == <<map, child, pump, row, task, overlapped>>

RowType == [ended : BOOLEAN, frozen : BOOLEAN, needsContinue : BOOLEAN]

\* target: the incarnation end_session holds.
TaskType == [pc : {"idle", "looking", "checking", "spawning", "registering",
                   "asking", "killing", "waiting", "resuming", "freezing",
                   "thawing", "closing", "ending", "marking"},
             op : AllOps, target : Procs \cup {0}]

Idle == [pc |-> "idle", op |-> "send", target |-> 0]

Init ==
    /\ map = 0
    /\ child = [p \in Procs |-> "unborn"]
    /\ pump = [p \in Procs |-> "off"]
    /\ row = [ended |-> FALSE, frozen |-> FALSE, needsContinue |-> FALSE]
    /\ task = [t \in Tasks |-> Idle]
    /\ overlapped = FALSE

-----------------------------------------------------------------------------
(* Tasks *)

At(t, pc) == task[t].pc = pc

Goto(t, pc) == task' = [task EXCEPT ![t].pc = pc]

Return(t) == task' = [task EXCEPT ![t] = Idle]

Entry(op) ==
    CASE op = "send"                   -> "looking"
      [] op = "start"                  -> "checking"
      [] op = "restart"                -> "killing"
      [] op \in {"setModel", "freeze"} -> "asking"
      [] op = "unfreeze"               -> "thawing"
      [] op \in {"end", "move"}        -> "closing"
      [] op = "mark"                   -> "marking"

\* An operation that may spawn is under way.
MaySpawn(t) == ~At(t, "idle") /\ task[t].op \in Spawners

Begin(t, op) ==
    /\ At(t, "idle")
    /\ "spawnsRace" \in Env \/ op \notin Spawners \/ ~\E u \in Tasks : MaySpawn(u)
    /\ task' = [task EXCEPT ![t] = [pc |-> Entry(op), op |-> op, target |-> 0]]
    /\ overlapped' = (overlapped \/ \E u \in Tasks : ~At(u, "idle"))
    /\ UNCHANGED <<map, child, pump, row>>

-----------------------------------------------------------------------------
(* Spawns *)

\* Mutant: an ended row may be resumed.
ResumableIfThawed == ~row.frozen

\* respawn_interactive's look at the row.
Resumable == ~row.ended /\ ~row.frozen

\* send_message_with_respawn: a live child gets the message, else the
\* session is resumed.
Look(t) ==
    /\ At(t, "looking")
    /\ IF map = 0 /\ Resumable THEN Goto(t, "checking") ELSE Return(t)
    /\ UNCHANGED <<map, child, pump, row>>

\* Mutant: the guard against a second child is dropped.
MayStartAnyway == ~row.frozen

\* Mutant: the guard against a frozen row is dropped.
MayStartFrozen == map = 0

\* spawn_session's guards.
MayStart == map = 0 /\ ~row.frozen

\* spawn_session up to the spawn.
Check(t) ==
    /\ At(t, "checking")
    /\ IF MayStart THEN Goto(t, "spawning") ELSE Return(t)
    /\ UNCHANGED <<map, child, pump, row>>

\* Account, billing or process creation errors.
SpawnFails(t) ==
    /\ At(t, "checking") \/ At(t, "spawning")
    /\ Return(t)
    /\ UNCHANGED <<map, child, pump, row>>

\* What an operation does after its spawn; set_session_model sends
\* "continue" if it has interrupted something.
AfterSpawn(t) ==
    IF task[t].op = "start" THEN {[task[t] EXCEPT !.pc = "registering"]}
    ELSE IF task[t].op = "setModel"
    THEN {Idle, [task[t] EXCEPT !.pc = "looking", !.op = "send"]}
    ELSE {Idle}

\* The child is spawned, enters the SessionMap, and its pump starts.
Spawn(t) ==
    /\ At(t, "spawning")
    /\ \E p \in Procs :
         /\ child[p] = "unborn"
         /\ \A q \in 1..(p - 1) : child[q] # "unborn"
         /\ child' = [child EXCEPT ![p] = "up"]
         /\ map' = p
         /\ pump' = [pump EXCEPT ![p] = "reading"]
    /\ \E next \in AfterSpawn(t) : task' = [task EXCEPT ![t] = next]
    /\ UNCHANGED row

\* start_session registers the session once it is live: upsert_interactive
\* takes the end mark back.
Register(t) ==
    /\ At(t, "registering")
    /\ row' = [row EXCEPT !.ended = FALSE]
    /\ Return(t)
    /\ UNCHANGED <<map, child, pump>>

-----------------------------------------------------------------------------
(* Kills *)

\* The early returns of set_session_model and freeze_session; then they list
\* the open prompts.
Ask(t) ==
    /\ At(t, "asking")
    /\ IF \/ task[t].op = "setModel" /\ map = 0
          \/ task[t].op = "freeze" /\ row.frozen
       THEN Return(t) ELSE Goto(t, "killing")
    /\ UNCHANGED <<map, child, pump, row>>

AfterTeardown(t) == IF task[t].op = "freeze" THEN "freezing" ELSE "resuming"

KillChild(p) == child' = [child EXCEPT ![p] = "dead"]

\* kill_and_wait_for_teardown
Kill(t) ==
    /\ At(t, "killing")
    /\ IF map = 0 THEN Goto(t, AfterTeardown(t)) /\ UNCHANGED child
                  ELSE KillChild(map) /\ Goto(t, "waiting")
    /\ UNCHANGED <<map, pump, row>>

TornDown(t) ==
    /\ At(t, "waiting") /\ map = 0
    /\ Goto(t, AfterTeardown(t))
    /\ UNCHANGED <<map, child, pump, row>>

\* Mutant: no deadline.
TeardownNeverTimesOut(t) == FALSE /\ UNCHANGED vars

\* After five seconds of an entry in the map, this child's or the next one's.
TeardownTimesOut(t) ==
    /\ At(t, "waiting") /\ map # 0
    /\ child[map] = "up" \/ "slow" \in Env
    /\ Goto(t, AfterTeardown(t))
    /\ UNCHANGED <<map, child, pump, row>>

\* restart_session resumes the session, unless its row has changed meanwhile.
Resume(t) ==
    /\ At(t, "resuming")
    /\ IF Resumable THEN Goto(t, "checking") ELSE Return(t)
    /\ UNCHANGED <<map, child, pump, row>>

\* freeze_session marks the row after the teardown; needsContinue is what it
\* found the session doing.
Freeze(t) ==
    /\ At(t, "freezing")
    /\ \E doing \in BOOLEAN :
         row' = [row EXCEPT !.frozen = TRUE, !.needsContinue = doing]
    /\ Return(t)
    /\ UNCHANGED <<map, child, pump>>

\* unfreeze_session sends "continue" if the freeze interrupted something.
Thaw(t) ==
    /\ At(t, "thawing")
    /\ row' = [row EXCEPT !.frozen = FALSE, !.needsContinue = FALSE]
    /\ IF row.needsContinue THEN Goto(t, "looking") ELSE Return(t)
    /\ UNCHANGED <<map, child, pump>>

-----------------------------------------------------------------------------
(* Ends *)

MarkEnded == row' = [row EXCEPT !.ended = TRUE]

\* end_session shuts the child's stdin.  Without a child the RPC fails, while
\* move_session_to_account goes on to the mark.
Close(t) ==
    /\ At(t, "closing")
    /\ IF map # 0
       THEN /\ task' = [task EXCEPT ![t].pc = "ending", ![t].target = map]
            /\ UNCHANGED row
       ELSE /\ Return(t)
            /\ IF task[t].op = "move" THEN MarkEnded ELSE UNCHANGED row
    /\ UNCHANGED <<map, child, pump>>

\* The entry has left the map, and the row is marked.
EndSeen(t) ==
    /\ At(t, "ending") /\ map = 0
    /\ MarkEnded
    /\ Return(t)
    /\ UNCHANGED <<map, child, pump>>

\* Mutant: after three seconds the child is left alone.
EndTimesOutKillingNothing(t) ==
    /\ At(t, "ending")
    /\ MarkEnded
    /\ Return(t)
    /\ UNCHANGED <<map, child, pump>>

\* Three seconds are over: the child it holds is killed.
EndTimesOut(t) ==
    /\ At(t, "ending")
    /\ KillChild(task[t].target)
    /\ MarkEnded
    /\ Return(t)
    /\ UNCHANGED <<map, pump>>

Mark(t) ==
    /\ At(t, "marking")
    /\ MarkEnded
    /\ Return(t)
    /\ UNCHANGED <<map, child, pump>>

-----------------------------------------------------------------------------
(* The child and its pump *)

\* claude exits after its turn, at the end of its stdin, or in a crash.
ChildExits(p) ==
    /\ child[p] = "up"
    /\ KillChild(p)
    /\ UNCHANGED <<map, pump, row, task, overlapped>>

\* End of stdout: the map's entry for the id goes, whichever child it holds.
Eof(p) ==
    /\ pump[p] = "reading" /\ child[p] = "dead"
    /\ map' = 0
    /\ pump' = [pump EXCEPT ![p] = "gone"]
    /\ UNCHANGED <<child, row, task, overlapped>>

-----------------------------------------------------------------------------
SpawnStep(t) == Look(t) \/ Check(t) \/ SpawnFails(t) \/ Spawn(t) \/ Register(t)

KillStep(t) ==
    \/ Ask(t) \/ Kill(t) \/ TornDown(t) \/ TeardownTimesOut(t)
    \/ Resume(t) \/ Freeze(t) \/ Thaw(t)

EndStep(t) == Close(t) \/ EndSeen(t) \/ EndTimesOut(t) \/ Mark(t)

TaskStep(t) ==
    /\ SpawnStep(t) \/ KillStep(t) \/ EndStep(t)
    /\ UNCHANGED overlapped

Next ==
    \/ \E t \in Tasks : TaskStep(t) \/ \E op \in Ops : Begin(t, op)
    \/ \E p \in Procs : ChildExits(p) \/ Eof(p)

\* The runtime runs every ready task, and timers fire.
Fairness ==
    /\ \A t \in Tasks : WF_vars(TaskStep(t))
    /\ \A p \in Procs : WF_vars(Eof(p))

Spec == Init /\ [][Next]_vars

FairSpec == Spec /\ Fairness

-----------------------------------------------------------------------------
(* Properties *)

\* What the variables hold; a killed child is a dead one.
TypeOK ==
    /\ map \in Procs \cup {0}
    /\ child \in [Procs -> {"unborn", "up", "dead"}]
    /\ pump \in [Procs -> {"off", "reading", "gone"}]
    /\ row \in RowType
    /\ task \in [Tasks -> TaskType]
    /\ overlapped \in BOOLEAN

Up(p) == child[p] = "up"

\* As long as operations that spawn do not overlap each other, a running child
\* is the one the SessionMap holds: nothing that goes through the map (end,
\* freeze, cancel, the shutdown sweep) can miss it, and there are never two
\* (session.rs: a Session is owned by the SessionMap).
ChildIsOwned == \A p \in Procs : Up(p) => map = p

\* As long as no operations have overlapped a frozen session has no child
\* (spawn_session's guard against "silent resurrection").
FrozenMeansDown == ~overlapped => (row.frozen => \A p \in Procs : ~Up(p))

\* As long as no operations have overlapped the session has no child any more
\* when end_session returns.
EndLeavesNoChild ==
    [][\A t \in Tasks : (~overlapped /\ (EndSeen(t) \/ EndTimesOut(t))) =>
            \A p \in Procs : child'[p] # "up"]_vars

\* The child the map holds is one whose pump still reads, so that its end
\* will be seen: no entry blocks every later respawn.
EntryIsServed == map # 0 => pump[map] = "reading"

\* As long as no operations have overlapped only start_session brings an ended
\* session back (send_message_with_respawn resumes what the registry considers a live
\* chat).
EndedStaysDown ==
    [][\A t \in Tasks : (~overlapped /\ Spawn(t) /\ row.ended) => task[t].op = "start"]_vars

\* No operation waits for ever, whatever the others do.
OpsReturn == \A t \in Tasks : ~At(t, "idle") ~> At(t, "idle")
=============================================================================
