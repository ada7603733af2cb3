-------------------------- MODULE SessionLife_proofs --------------------------
(***************************************************************************)
(* Theorems about SessionLife, for every set of tasks and operations and   *)
(* every number of children.                                               *)
(***************************************************************************)
EXTENDS SessionLife, TLAPS

\* Moving a task to another stretch keeps the types.
LEMMA TaskMoves ==
    ASSUME TypeOK, NEW t \in Tasks, NEW to \in TaskType,
           task' = [task EXCEPT ![t] = to]
    PROVE  task' \in [Tasks -> TaskType]
  BY DEF TypeOK

\* So do the moves the actions make.
LEMMA Moves ==
    ASSUME TypeOK, NEW t \in Tasks
    PROVE  /\ Idle \in TaskType
           /\ [task[t] EXCEPT !.pc = "looking", !.op = "send"] \in TaskType
           /\ \A pc \in {"checking", "spawning", "registering", "killing",
                         "waiting", "resuming", "freezing", "looking", "ending"} :
                [task[t] EXCEPT !.pc = pc] \in TaskType
  BY DEF TypeOK, TaskType, Idle, AllOps

LEMMA GotoType ==
    ASSUME TypeOK, NEW t \in Tasks,
           NEW pc \in {"checking", "spawning", "registering", "killing",
                       "waiting", "resuming", "freezing", "looking", "ending"},
           Goto(t, pc)
    PROVE  task' \in [Tasks -> TaskType]
<1>1. [task[t] EXCEPT !.pc = pc] \in TaskType
  BY Moves
<1>2. task' = [task EXCEPT ![t] = [task[t] EXCEPT !.pc = pc]]
  BY DEF Goto, TypeOK, TaskType
<1>3. QED
  BY <1>1, <1>2, TaskMoves

LEMMA ReturnType ==
    ASSUME TypeOK, NEW t \in Tasks, Return(t)
    PROVE  task' \in [Tasks -> TaskType]
  BY Moves, TaskMoves DEF Return

LEMMA KillType ==
    ASSUME TypeOK, NEW p \in Procs, KillChild(p)
    PROVE  child' \in [Procs -> {"unborn", "up", "dead"}]
  BY DEF TypeOK, KillChild

LEMMA MarkType ==
    ASSUME TypeOK, MarkEnded
    PROVE  row' \in RowType
  BY DEF TypeOK, MarkEnded, RowType

-----------------------------------------------------------------------------
\* The spawning stretches keep the types.
LEMMA SpawnTypeStep ==
    ASSUME TypeOK, NEW t \in Tasks, SpawnStep(t), UNCHANGED overlapped
    PROVE  TypeOK'
<1>1. CASE Look(t)
  <2>1. task' \in [Tasks -> TaskType]
    BY <1>1, GotoType, ReturnType DEF Look
  <2>2. QED
    BY <1>1, <2>1 DEF Look, TypeOK
<1>2. CASE Check(t)
  <2>1. task' \in [Tasks -> TaskType]
    BY <1>2, GotoType, ReturnType DEF Check
  <2>2. QED
    BY <1>2, <2>1 DEF Check, TypeOK
<1>3. CASE SpawnFails(t)
  <2>1. task' \in [Tasks -> TaskType]
    BY <1>3, ReturnType DEF SpawnFails
  <2>2. QED
    BY <1>3, <2>1 DEF SpawnFails, TypeOK
<1>4. CASE Spawn(t)
  <2>1. PICK next \in AfterSpawn(t) : task' = [task EXCEPT ![t] = next]
    BY <1>4 DEF Spawn
  <2>2. next \in TaskType
    BY Moves DEF AfterSpawn
  <2>3. task' \in [Tasks -> TaskType]
    BY <2>1, <2>2, TaskMoves
  <2>4. QED
    BY <1>4, <2>3 DEF Spawn, TypeOK
<1>5. CASE Register(t)
  <2>1. task' \in [Tasks -> TaskType]
    BY <1>5, ReturnType DEF Register
  <2>2. row' \in RowType
    BY <1>5 DEF Register, TypeOK, RowType
  <2>3. QED
    BY <1>5, <2>1, <2>2 DEF Register, TypeOK
<1>6. QED
  BY <1>1, <1>2, <1>3, <1>4, <1>5 DEF SpawnStep

\* The killing stretches keep the types.
LEMMA KillTypeStep ==
    ASSUME TypeOK, NEW t \in Tasks, KillStep(t), UNCHANGED overlapped
    PROVE  TypeOK'
<1>0. AfterTeardown(t) \in {"resuming", "freezing"}
  BY DEF AfterTeardown
<1>1. CASE Ask(t)
  <2>1. task' \in [Tasks -> TaskType]
    BY <1>1, GotoType, ReturnType DEF Ask
  <2>2. QED
    BY <1>1, <2>1 DEF Ask, TypeOK
<1>2. CASE Kill(t)
  <2>1. task' \in [Tasks -> TaskType]
    BY <1>0, <1>2, GotoType DEF Kill
  <2>2. child' \in [Procs -> {"unborn", "up", "dead"}]
    BY <1>2, KillType DEF Kill, TypeOK
  <2>3. QED
    BY <1>2, <2>1, <2>2 DEF Kill, TypeOK
<1>3. CASE TornDown(t)
  <2>1. task' \in [Tasks -> TaskType]
    BY <1>0, <1>3, GotoType DEF TornDown
  <2>2. QED
    BY <1>3, <2>1 DEF TornDown, TypeOK
<1>4. CASE TeardownTimesOut(t)
  <2>1. task' \in [Tasks -> TaskType]
    BY <1>0, <1>4, GotoType DEF TeardownTimesOut
  <2>2. QED
    BY <1>4, <2>1 DEF TeardownTimesOut, TypeOK
<1>5. CASE Resume(t)
  <2>1. task' \in [Tasks -> TaskType]
    BY <1>5, GotoType, ReturnType DEF Resume
  <2>2. QED
    BY <1>5, <2>1 DEF Resume, TypeOK
<1>6. CASE Freeze(t)
  <2>1. task' \in [Tasks -> TaskType]
    BY <1>6, ReturnType DEF Freeze
  <2>2. row' \in RowType
    BY <1>6 DEF Freeze, TypeOK, RowType
  <2>3. QED
    BY <1>6, <2>1, <2>2 DEF Freeze, TypeOK
<1>7. CASE Thaw(t)
  <2>1. task' \in [Tasks -> TaskType]
    BY <1>7, GotoType, ReturnType DEF Thaw
  <2>2. row' \in RowType
    BY <1>7 DEF Thaw, TypeOK, RowType
  <2>3. QED
    BY <1>7, <2>1, <2>2 DEF Thaw, TypeOK
<1>8. QED
  BY <1>1, <1>2, <1>3, <1>4, <1>5, <1>6, <1>7 DEF KillStep

-----------------------------------------------------------------------------
\* The child an ending task holds was in the map once.
Held(t) == At(t, "ending") => task[t].target \in Procs

TypeInv == TypeOK /\ \A t \in Tasks : Held(t)

\* The ending stretches keep the types; a task that ends a child holds one.
LEMMA EndTypeStep ==
    ASSUME TypeInv, NEW t \in Tasks, EndStep(t), UNCHANGED overlapped
    PROVE  TypeInv'
<1> USE DEF TypeInv
<1>1. CASE Close(t)
  <2>1. CASE map # 0
    <3> DEFINE to == [task[t] EXCEPT !.pc = "ending", !.target = map]
    <3>1. to \in TaskType /\ to.target \in Procs
      BY <2>1 DEF TypeOK, TaskType
    <3>2. task' = [task EXCEPT ![t] = to]
      BY <1>1, <2>1 DEF Close, TypeOK, TaskType
    <3>3. task' \in [Tasks -> TaskType]
      BY <3>1, <3>2, TaskMoves
    <3>4. \A u \in Tasks : Held(u)'
      BY <3>1, <3>2 DEF Held, At, TypeOK
    <3>5. QED
      BY <1>1, <2>1, <3>3, <3>4 DEF Close, TypeOK
  <2>2. CASE map = 0
    <3>1. Return(t) /\ (MarkEnded \/ UNCHANGED row)
      BY <1>1, <2>2 DEF Close
    <3>2. task' \in [Tasks -> TaskType] /\ row' \in RowType
      BY <3>1, ReturnType, MarkType DEF TypeOK
    <3>3. \A u \in Tasks : Held(u)'
      BY <3>1 DEF Return, Held, At, TypeOK, Idle
    <3>4. QED
      BY <1>1, <3>2, <3>3 DEF Close, TypeOK
  <2>3. QED
    BY <2>1, <2>2
<1>2. ASSUME Return(t), MarkEnded,
             child' \in [Procs -> {"unborn", "up", "dead"}], UNCHANGED <<map, pump>>
      PROVE  TypeInv'
  <2>1. task' \in [Tasks -> TaskType] /\ row' \in RowType
    BY <1>2, ReturnType, MarkType
  <2>2. \A u \in Tasks : Held(u)'
    BY <1>2 DEF Return, Held, At, TypeOK, Idle
  <2>3. QED
    BY <1>2, <2>1, <2>2 DEF TypeOK
<1>3. CASE EndSeen(t)
  BY <1>2, <1>3 DEF EndSeen, TypeOK
<1>4. CASE EndTimesOut(t)
  <2>1. task[t].target \in Procs
    BY <1>4 DEF EndTimesOut, Held
  <2>2. child' \in [Procs -> {"unborn", "up", "dead"}]
    BY <1>4, <2>1, KillType DEF EndTimesOut
  <2>3. QED
    BY <1>2, <1>4, <2>2 DEF EndTimesOut
<1>5. CASE Mark(t)
  BY <1>2, <1>5 DEF Mark, TypeOK
<1>6. QED
  BY <1>1, <1>3, <1>4, <1>5 DEF EndStep

\* A task is the only one its own step moves, and only Close brings it to
\* "ending".
LEMMA HeldStep ==
    ASSUME TypeOK, NEW t \in Tasks, SpawnStep(t) \/ KillStep(t)
    PROVE  /\ ~At(t, "ending")'
           /\ \A u \in Tasks : u # t => task'[u] = task[u]
<1>0. AfterTeardown(t) \in {"resuming", "freezing"}
  BY DEF AfterTeardown
<1>1. \A pc : Goto(t, pc) => task'[t].pc = pc /\ \A u \in Tasks : u # t => task'[u] = task[u]
  BY DEF Goto, TypeOK, TaskType
<1>2. Return(t) => task'[t].pc = "idle" /\ \A u \in Tasks : u # t => task'[u] = task[u]
  BY DEF Return, TypeOK, Idle
<1>3. CASE Spawn(t)
  <2>1. PICK next \in AfterSpawn(t) : task' = [task EXCEPT ![t] = next]
    BY <1>3 DEF Spawn
  <2>0. task[t] \in TaskType
    BY DEF TypeOK
  <2>2. next.pc \in {"idle", "registering", "looking"}
    <3> DEFINE registers == [task[t] EXCEPT !.pc = "registering"]
    <3> DEFINE sends == [task[t] EXCEPT !.pc = "looking", !.op = "send"]
    <3>1. next \in {Idle, registers, sends}
      BY DEF AfterSpawn
    <3>2. Idle.pc = "idle" /\ registers.pc = "registering" /\ sends.pc = "looking"
      BY <2>0 DEF Idle, TaskType
    <3>3. QED
      BY <3>1, <3>2
  <2>3. QED
    BY <2>1, <2>2 DEF At, TypeOK
<1>4. CASE SpawnStep(t) /\ ~Spawn(t)
  <2>1. Return(t) \/ Goto(t, "checking") \/ Goto(t, "spawning")
    BY <1>4 DEF SpawnStep, Look, Check, SpawnFails, Register
  <2>2. QED
    BY <1>1, <1>2, <2>1 DEF At
<1>5. CASE KillStep(t)
  <2>1. \/ Return(t)
        \/ \E pc \in {"killing", "waiting", "resuming", "freezing", "checking",
                     "looking"} : Goto(t, pc)
    BY <1>0, <1>5
    DEF KillStep, Ask, Kill, TornDown, TeardownTimesOut, Resume, Freeze, Thaw
  <2>2. QED
    BY <1>1, <1>2, <2>1 DEF At
<1>6. QED
  BY <1>3, <1>4, <1>5

\* Every step keeps the types.
LEMMA TypeStep == TypeInv /\ [Next]_vars => TypeInv'
<1> SUFFICES ASSUME TypeInv, [Next]_vars PROVE TypeInv'
  OBVIOUS
<1> USE DEF TypeInv
<1>1. ASSUME NEW t \in Tasks, SpawnStep(t) \/ KillStep(t), UNCHANGED overlapped
      PROVE  TypeInv'
  <2>1. TypeOK'
    BY <1>1, SpawnTypeStep, KillTypeStep
  <2>2. \A u \in Tasks : Held(u)'
    BY <1>1, HeldStep DEF Held, At
  <2>3. QED
    BY <2>1, <2>2
<1>2. ASSUME NEW t \in Tasks, EndStep(t), UNCHANGED overlapped PROVE TypeInv'
  BY <1>2, EndTypeStep
<1>3. ASSUME NEW t \in Tasks, NEW op \in Ops, Begin(t, op) PROVE TypeInv'
  <2> DEFINE to == [pc |-> Entry(op), op |-> op, target |-> 0]
  <2>1. to \in TaskType /\ to.pc # "ending"
    BY ConstantsAssumption DEF ConstantsAssumption, AllOps, TaskType, Entry
  <2>2. task' \in [Tasks -> TaskType]
    BY <1>3, <2>1, TaskMoves DEF Begin
  <2>3. \A u \in Tasks : Held(u)'
    BY <1>3, <2>1 DEF Begin, Held, At, TypeOK
  <2>4. QED
    BY <1>3, <2>2, <2>3 DEF Begin, TypeOK
<1>4. ASSUME NEW p \in Procs, ChildExits(p) \/ Eof(p) PROVE TypeInv'
  BY <1>4, KillType DEF ChildExits, Eof, TypeOK, Held, At
<1>5. CASE UNCHANGED vars
  BY <1>5 DEF vars, TypeOK, Held, At
<1>6. QED
  BY <1>1, <1>2, <1>3, <1>4, <1>5 DEF Next, TaskStep

LEMMA TypeInit == Init => TypeInv
<1> SUFFICES ASSUME Init PROVE TypeInv
  OBVIOUS
<1>1. Idle \in TaskType /\ Idle.pc # "ending"
  BY DEF Idle, TaskType, AllOps
<1>2. task \in [Tasks -> TaskType] /\ \A t \in Tasks : Held(t)
  BY <1>1 DEF Init, Held, At
<1>3. overlapped \in BOOLEAN
  BY DEF Init
<1>4. QED
  BY <1>2, <1>3 DEF Init, TypeInv, TypeOK, RowType

\* The variables keep their types, whatever overlaps.
THEOREM TypeCorrect == Spec => []TypeOK
<1>1. TypeInv => TypeOK
  BY DEF TypeInv
<1>2. QED
  BY <1>1, TypeInit, TypeStep, PTL DEF Spec

-----------------------------------------------------------------------------
(* As long as no operations have overlapped.  The invariant says which      *)
(* stretch may find the session in which state.                            *)

\* A frozen session has no child.
FrozenDown == row.frozen => \A p \in Procs : ~Up(p)

\* One task is under way.
Alone == \A t, u \in Tasks : At(t, "idle") \/ At(u, "idle") \/ t = u

\* A running child's pump reads, and the map holds the child of such a pump.
Pumped == \A p \in Procs :
    /\ Up(p) => pump[p] = "reading"
    /\ pump[p] = "reading" => map = p

\* What Check saw still holds at the spawn.
Clear(t) == At(t, "spawning") => map = 0 /\ ~row.frozen

\* What Look and Resume saw still holds at the spawn.
Alive(t) ==
    task[t].pc \in {"checking", "spawning"} /\ task[t].op # "start" => ~row.ended

\* Once the child is killed there is none.
Down(t) == task[t].pc \in {"waiting", "freezing"} => \A p \in Procs : ~Up(p)

\* The child an ending task holds is still the map's, unless it is gone.
Holds(t) == At(t, "ending") => map \in {0, task[t].target}

UnderWay(t) == Clear(t) /\ Alive(t) /\ Down(t) /\ Holds(t)

Calm ==
    /\ TypeInv
    /\ Alone
    /\ Pumped
    /\ FrozenDown
    /\ \A t \in Tasks : UnderWay(t)

LEMMA Going ==
    ASSUME TypeOK, NEW t \in Tasks
    PROVE  /\ \A pc : Goto(t, pc) => /\ task'[t].pc = pc
                                     /\ task'[t].op = task[t].op
                                     /\ task'[t].target = task[t].target
           /\ Return(t) => task'[t].pc = "idle"
  BY DEF Goto, Return, TypeOK, TaskType, Idle

\* A step of a task is of one that is under way, and leaves the others alone.
LEMMA OneMoves ==
    ASSUME TypeOK, NEW t \in Tasks, TaskStep(t)
    PROVE  ~At(t, "idle") /\ \A u \in Tasks : u # t => task'[u] = task[u]
<1>1. CASE SpawnStep(t) \/ KillStep(t)
  BY <1>1, HeldStep
  DEF SpawnStep, Look, Check, SpawnFails, Spawn, Register, KillStep, Ask, Kill,
      TornDown, TeardownTimesOut, Resume, Freeze, Thaw, At
<1>2. CASE EndStep(t)
  BY <1>2 DEF EndStep, Close, EndSeen, EndTimesOut, Mark, Return, At, TypeOK
<1>3. QED
  BY <1>1, <1>2 DEF TaskStep

\* With the map empty there is no child, and the killed one was the only one.
LEMMA NoChild ==
    ASSUME Pumped
    PROVE  map = 0 => \A p \in Procs : ~Up(p)
  BY DEF Pumped, Procs

LEMMA KillsAll ==
    ASSUME TypeOK, Pumped, NEW q \in Procs, map \in {0, q}, KillChild(q)
    PROVE  \A p \in Procs : ~Up(p)'
  BY NoChild DEF KillChild, Up, TypeOK, Pumped

\* Killing a child disturbs neither what is pumped nor what is down.
LEMMA KillQuiet ==
    ASSUME TypeOK, NEW q \in Procs, KillChild(q)
    PROVE  \A p \in Procs : Up(p)' => Up(p)
  BY DEF KillChild, Up, TypeOK

-----------------------------------------------------------------------------
\* What a spawning stretch keeps.
LEMMA SpawnCalm ==
    ASSUME Calm, NEW t \in Tasks, SpawnStep(t)
    PROVE  Pumped' /\ FrozenDown' /\ UnderWay(t)'
<1>0. TypeOK /\ Pumped /\ FrozenDown /\ UnderWay(t)
  BY DEF Calm, TypeInv
<1>a. ASSUME UNCHANGED <<map, child, pump, row>>
      PROVE  Pumped' /\ FrozenDown'
  BY <1>0, <1>a DEF Pumped, FrozenDown, Up
<1>b. ASSUME Return(t) PROVE UnderWay(t)'
  BY <1>0, <1>b, Going DEF UnderWay, Clear, Alive, Down, Holds, At
<1>1. CASE Look(t)
  <2>1. Goto(t, "checking") /\ ~row.ended => UnderWay(t)'
    BY <1>0, <1>1, Going DEF Look, UnderWay, Clear, Alive, Down, Holds, At
  <2>2. QED
    BY <1>1, <1>a, <1>b, <2>1 DEF Look, Resumable
<1>2. CASE Check(t)
  <2>1. Goto(t, "spawning") /\ MayStart => UnderWay(t)'
    BY <1>0, <1>2, Going DEF Check, MayStart, UnderWay, Clear, Alive, Down, Holds, At
  <2>2. QED
    BY <1>2, <1>a, <1>b, <2>1 DEF Check
<1>3. CASE SpawnFails(t)
  BY <1>3, <1>a, <1>b DEF SpawnFails
<1>4. CASE Spawn(t)
  <2>1. map = 0 /\ ~row.frozen
    BY <1>0, <1>4 DEF Spawn, UnderWay, Clear
  <2>2. PICK p \in Procs : /\ child' = [child EXCEPT ![p] = "up"]
                           /\ map' = p
                           /\ pump' = [pump EXCEPT ![p] = "reading"]
    BY <1>4 DEF Spawn
  <2>3. Pumped'
    BY <1>0, <2>1, <2>2 DEF Pumped, Up, TypeOK, Procs
  <2>4. FrozenDown'
    BY <1>4, <2>1 DEF Spawn, FrozenDown
  <2>5. ~At(t, "ending")' /\ task'[t].pc \in {"idle", "registering", "looking"}
    <3>1. PICK next \in AfterSpawn(t) : task' = [task EXCEPT ![t] = next]
      BY <1>4 DEF Spawn
    <3>2. next.pc \in {"idle", "registering", "looking"}
      <4> DEFINE registers == [task[t] EXCEPT !.pc = "registering"]
      <4> DEFINE sends == [task[t] EXCEPT !.pc = "looking", !.op = "send"]
      <4>1. next \in {Idle, registers, sends}
        BY DEF AfterSpawn
      <4>2. task[t] \in TaskType
        BY <1>0 DEF TypeOK
      <4>3. Idle.pc = "idle" /\ registers.pc = "registering" /\ sends.pc = "looking"
        BY <4>2 DEF Idle, TaskType
      <4>4. QED
        BY <4>1, <4>3
    <3>3. QED
      BY <1>0, <3>1, <3>2 DEF At, TypeOK
  <2>6. UnderWay(t)'
    BY <2>5 DEF UnderWay, Clear, Alive, Down, Holds, At
  <2>7. QED
    BY <2>3, <2>4, <2>6
<1>5. CASE Register(t)
  <2>1. row'.frozen = row.frozen
    BY <1>0, <1>5 DEF Register, TypeOK, RowType
  <2>2. Pumped' /\ FrozenDown'
    BY <1>0, <1>5, <2>1 DEF Register, Pumped, FrozenDown, Up
  <2>3. QED
    BY <1>5, <1>b, <2>2 DEF Register
<1>6. QED
  BY <1>1, <1>2, <1>3, <1>4, <1>5 DEF SpawnStep

\* What a killing stretch keeps.
LEMMA KillCalm ==
    ASSUME Calm, NEW t \in Tasks, KillStep(t)
    PROVE  Pumped' /\ FrozenDown' /\ UnderWay(t)'
<1>0. TypeOK /\ Pumped /\ FrozenDown /\ UnderWay(t)
  BY DEF Calm, TypeInv
<1>a. ASSUME UNCHANGED <<map, child, pump, row>>
      PROVE  Pumped' /\ FrozenDown'
  BY <1>0, <1>a DEF Pumped, FrozenDown, Up
<1>b. ASSUME Return(t) \/ Goto(t, "killing") \/ Goto(t, "resuming") \/ Goto(t, "looking")
      PROVE  UnderWay(t)'
  BY <1>0, <1>b, Going DEF UnderWay, Clear, Alive, Down, Holds, At
<1>c. ASSUME Goto(t, "waiting") \/ Goto(t, "freezing") \/ Goto(t, "resuming"),
             \A p \in Procs : ~Up(p)'
      PROVE  UnderWay(t)'
  BY <1>0, <1>c, Going DEF UnderWay, Clear, Alive, Down, Holds, At
<1>d. AfterTeardown(t) \in {"resuming", "freezing"}
  BY DEF AfterTeardown
<1>1. CASE Ask(t)
  BY <1>1, <1>a, <1>b DEF Ask
<1>2. CASE Kill(t)
  <2>1. CASE map = 0
    <3>1. UNCHANGED child /\ (Goto(t, "freezing") \/ Goto(t, "resuming"))
      BY <1>2, <1>d, <2>1 DEF Kill
    <3>2. \A p \in Procs : ~Up(p)'
      BY <1>0, <2>1, <3>1, NoChild DEF Up
    <3>3. QED
      BY <1>2, <1>a, <1>c, <3>1, <3>2 DEF Kill
  <2>2. CASE map # 0
    <3>1. map \in Procs /\ KillChild(map) /\ Goto(t, "waiting")
      BY <1>0, <1>2, <2>2 DEF Kill, TypeOK
    <3>2. \A p \in Procs : ~Up(p)'
      BY <1>0, <3>1, KillsAll
    <3>3. Pumped' /\ FrozenDown'
      BY <1>0, <1>2, <3>2 DEF Kill, Pumped, FrozenDown
    <3>4. QED
      BY <1>c, <3>1, <3>2, <3>3
  <2>3. QED
    BY <2>1, <2>2
<1>3. CASE TornDown(t) \/ TeardownTimesOut(t)
  <2>1. Goto(t, "freezing") \/ Goto(t, "resuming")
    BY <1>3, <1>d DEF TornDown, TeardownTimesOut
  <2>2. UNCHANGED <<map, child, pump, row>>
    BY <1>3 DEF TornDown, TeardownTimesOut
  <2>3. \A p \in Procs : ~Up(p)'
    BY <1>0, <1>3, <2>2 DEF TornDown, TeardownTimesOut, UnderWay, Down, At, Up
  <2>4. QED
    BY <1>a, <1>c, <2>1, <2>2, <2>3
<1>4. CASE Resume(t)
  <2>1. Goto(t, "checking") /\ ~row.ended => UnderWay(t)'
    BY <1>0, <1>4, Going DEF Resume, UnderWay, Clear, Alive, Down, Holds, At
  <2>2. QED
    BY <1>4, <1>a, <1>b, <2>1 DEF Resume, Resumable
<1>5. CASE Freeze(t)
  <2>1. \A p \in Procs : ~Up(p)'
    BY <1>0, <1>5 DEF Freeze, UnderWay, Down, At, Up
  <2>2. Pumped' /\ FrozenDown'
    BY <1>0, <1>5, <2>1 DEF Freeze, Pumped, FrozenDown, Up
  <2>3. QED
    BY <1>5, <1>b, <2>2 DEF Freeze
<1>6. CASE Thaw(t)
  <2>1. ~row'.frozen
    BY <1>0, <1>6 DEF Thaw, TypeOK, RowType
  <2>2. Pumped' /\ FrozenDown'
    BY <1>0, <1>6, <2>1 DEF Thaw, Pumped, FrozenDown, Up
  <2>3. QED
    BY <1>6, <1>b, <2>2 DEF Thaw
<1>7. QED
  BY <1>1, <1>2, <1>3, <1>4, <1>5, <1>6 DEF KillStep

\* What an ending stretch keeps, and that it leaves no child at its end.
LEMMA EndCalm ==
    ASSUME Calm, NEW t \in Tasks, EndStep(t)
    PROVE  /\ Pumped' /\ FrozenDown' /\ UnderWay(t)'
           /\ EndSeen(t) \/ EndTimesOut(t) => \A p \in Procs : ~Up(p)'
<1>0. TypeOK /\ Pumped /\ FrozenDown /\ UnderWay(t) /\ Held(t)
  BY DEF Calm, TypeInv
<1>a. UNCHANGED row \/ MarkEnded => row'.frozen = row.frozen
  BY <1>0 DEF MarkEnded, TypeOK, RowType
<1>b. ASSUME Return(t) PROVE UnderWay(t)'
  BY <1>0, <1>b, Going DEF UnderWay, Clear, Alive, Down, Holds, At
<1>1. CASE Close(t)
  <2>1. row'.frozen = row.frozen
    BY <1>1, <1>a DEF Close
  <2>2. Pumped' /\ FrozenDown'
    BY <1>0, <1>1, <2>1 DEF Close, Pumped, FrozenDown, Up
  <2>3. UnderWay(t)'
    <3>1. CASE map # 0
      <4> DEFINE to == [task[t] EXCEPT !.pc = "ending", !.target = map]
      <4>1. task[t] \in TaskType
        BY <1>0 DEF TypeOK
      <4>2. to.pc = "ending" /\ to.target = map
        BY <4>1 DEF TaskType
      <4>3. task' = [task EXCEPT ![t] = to]
        BY <1>1, <3>1, <4>1 DEF Close, TaskType
      <4>4. task'[t].pc = "ending" /\ task'[t].target = map
        BY <1>0, <4>2, <4>3 DEF TypeOK
      <4>5. QED
        BY <1>1, <4>4 DEF Close, UnderWay, Clear, Alive, Down, Holds, At
    <3>2. CASE map = 0
      BY <1>1, <1>b, <3>2 DEF Close
    <3>3. QED
      BY <3>1, <3>2
  <2>4. ~EndSeen(t) /\ ~EndTimesOut(t)
    BY <1>1 DEF Close, EndSeen, EndTimesOut, At
  <2>5. QED
    BY <2>2, <2>3, <2>4
<1>2. CASE EndSeen(t) \/ EndTimesOut(t)
  <2>1. \A p \in Procs : ~Up(p)'
    <3>1. CASE EndSeen(t)
      BY <1>0, <3>1, NoChild DEF EndSeen, Up
    <3>2. CASE EndTimesOut(t)
      BY <1>0, <3>2, KillsAll DEF EndTimesOut, Held, UnderWay, Holds
    <3>3. QED
      BY <1>2, <3>1, <3>2
  <2>2. Pumped'
    BY <1>0, <1>2, <2>1 DEF EndSeen, EndTimesOut, Pumped
  <2>3. QED
    BY <1>2, <1>b, <2>1, <2>2 DEF EndSeen, EndTimesOut, FrozenDown
<1>3. CASE Mark(t)
  <2>1. row'.frozen = row.frozen
    BY <1>3, <1>a DEF Mark
  <2>2. Pumped' /\ FrozenDown'
    BY <1>0, <1>3, <2>1 DEF Mark, Pumped, FrozenDown, Up
  <2>3. ~EndSeen(t) /\ ~EndTimesOut(t)
    BY <1>3 DEF Mark, EndSeen, EndTimesOut, At
  <2>4. QED
    BY <1>3, <1>b, <2>2, <2>3 DEF Mark
<1>4. QED
  BY <1>1, <1>2, <1>3 DEF EndStep

-----------------------------------------------------------------------------
CalmSoFar == TypeInv /\ (~overlapped => Calm)

LEMMA CalmInit == Init => CalmSoFar
<1> SUFFICES ASSUME Init PROVE Calm
  BY DEF CalmSoFar, Calm
<1>1. TypeInv
  BY TypeInit
<1>2. \A t \in Tasks : task[t].pc = "idle"
  BY DEF Init, Idle
<1>3. Alone /\ \A t \in Tasks : UnderWay(t)
  BY <1>2 DEF Alone, UnderWay, Clear, Alive, Down, Holds, At
<1>4. Pumped /\ FrozenDown
  BY DEF Init, Pumped, FrozenDown, Up
<1>5. QED
  BY <1>1, <1>3, <1>4 DEF Calm

\* Until operations overlap every step keeps the invariant.
LEMMA CalmStep == CalmSoFar /\ [Next]_vars => CalmSoFar'
<1>s. ASSUME TypeInv, [Next]_vars, overlapped PROVE overlapped'
  BY <1>s DEF Next, TaskStep, Begin, ChildExits, Eof, vars
<1> SUFFICES ASSUME Calm, [Next]_vars, ~overlapped' PROVE Calm'
  BY <1>s, TypeStep DEF CalmSoFar, TypeInv, TypeOK
<1>0. TypeOK /\ Alone /\ Pumped /\ FrozenDown /\ \A t \in Tasks : UnderWay(t)
  BY DEF Calm, TypeInv
<1>a. TypeInv'
  BY TypeStep DEF Calm
<1>1. ASSUME NEW t \in Tasks, TaskStep(t) PROVE Calm'
  <2>1. Pumped' /\ FrozenDown' /\ UnderWay(t)'
    BY <1>1, SpawnCalm, KillCalm, EndCalm DEF TaskStep
  <2>2. \A u \in Tasks : u # t => At(u, "idle") /\ task'[u] = task[u]
    BY <1>0, <1>1, OneMoves DEF Alone
  <2>3. \A u \in Tasks : u # t => task'[u].pc = "idle"
    BY <2>2 DEF At
  <2>4. Alone'
    BY <2>3 DEF Alone, At
  <2>5. \A u \in Tasks : u # t => UnderWay(u)'
    BY <2>3 DEF UnderWay, Clear, Alive, Down, Holds, At
  <2>6. QED
    BY <1>a, <2>1, <2>4, <2>5 DEF Calm
<1>2. ASSUME NEW t \in Tasks, NEW op \in Ops, Begin(t, op) PROVE Calm'
  <2>1. \A u \in Tasks : At(u, "idle")
    BY <1>2 DEF Begin
  <2>2. /\ task'[t].pc = Entry(op) /\ task'[t].op = op
        /\ \A u \in Tasks : u # t => task'[u] = task[u]
    BY <1>0, <1>2 DEF Begin, TypeOK
  <2>3. Alone'
    BY <2>1, <2>2 DEF Alone, At
  <2>4. Pumped' /\ FrozenDown'
    BY <1>0, <1>2 DEF Begin, Pumped, FrozenDown, Up
  <2>5. /\ Entry(op) \in {"looking", "checking", "killing", "asking", "thawing",
                          "closing", "marking"}
        /\ Entry(op) = "checking" => op = "start"
    BY ConstantsAssumption DEF ConstantsAssumption, AllOps, Entry
  <2>6. UnderWay(t)'
    BY <2>2, <2>5 DEF UnderWay, Clear, Alive, Down, Holds, At
  <2>7. \A u \in Tasks : u # t => UnderWay(u)'
    BY <2>1, <2>2 DEF UnderWay, Clear, Alive, Down, Holds, At
  <2>8. QED
    BY <1>a, <2>3, <2>4, <2>6, <2>7 DEF Calm
<1>3. ASSUME NEW p \in Procs, ChildExits(p) PROVE Calm'
  <2>1. \A q \in Procs : Up(q)' => Up(q)
    BY <1>0, <1>3, KillQuiet DEF ChildExits
  <2>2. Pumped' /\ FrozenDown'
    BY <1>0, <1>3, <2>1 DEF ChildExits, Pumped, FrozenDown
  <2>3. \A t \in Tasks : UnderWay(t)'
    BY <1>0, <1>3, <2>1 DEF ChildExits, UnderWay, Clear, Alive, Down, Holds, At
  <2>4. Alone'
    BY <1>0, <1>3 DEF ChildExits, Alone, At
  <2>5. QED
    BY <1>a, <2>2, <2>3, <2>4 DEF Calm
<1>4. ASSUME NEW p \in Procs, Eof(p) PROVE Calm'
  <2>1. map = p /\ \A q \in Procs : pump'[q] # "reading" /\ ~Up(q)'
    BY <1>0, <1>4 DEF Eof, Pumped, Up, TypeOK
  <2>2. Pumped' /\ FrozenDown'
    BY <2>1 DEF Pumped, FrozenDown
  <2>3. \A t \in Tasks : UnderWay(t)'
    BY <1>0, <1>4, <2>1 DEF Eof, UnderWay, Clear, Alive, Down, Holds, At
  <2>4. Alone'
    BY <1>0, <1>4 DEF Eof, Alone, At
  <2>5. QED
    BY <1>a, <2>2, <2>3, <2>4 DEF Calm
<1>5. CASE UNCHANGED vars
  BY <1>0, <1>5, <1>a
  DEF vars, Calm, Alone, Pumped, FrozenDown, UnderWay, Clear, Alive, Down,
      Holds, At, Up
<1>6. QED
  BY <1>1, <1>2, <1>3, <1>4, <1>5 DEF Next

\* The map's child has a pump that reads, whatever overlaps: no entry is left
\* behind to block every later respawn.
THEOREM Served == Spec => []EntryIsServed
<1>1. Init => TypeInv /\ EntryIsServed
  BY TypeInit DEF Init, EntryIsServed
<1>2. TypeInv /\ EntryIsServed /\ [Next]_vars => TypeInv' /\ EntryIsServed'
  <2> SUFFICES ASSUME TypeInv, EntryIsServed, [Next]_vars
               PROVE  TypeInv' /\ EntryIsServed'
    OBVIOUS
  <2>1. ASSUME NEW t \in Tasks, Spawn(t) PROVE EntryIsServed'
    BY <2>1 DEF Spawn, EntryIsServed, TypeInv, TypeOK
  <2>2. ASSUME NEW p \in Procs, Eof(p) PROVE EntryIsServed'
    BY <2>2 DEF Eof, EntryIsServed
  <2>3. ASSUME NEW t \in Tasks, TaskStep(t), ~Spawn(t)
        PROVE  UNCHANGED <<map, pump>>
    BY <2>3
    DEF TaskStep, SpawnStep, Look, Check, SpawnFails, Register, KillStep, Ask,
        Kill, TornDown, TeardownTimesOut, Resume, Freeze, Thaw, EndStep, Close,
        EndSeen, EndTimesOut, Mark
  <2>4. UNCHANGED <<map, pump>> => EntryIsServed'
    BY DEF EntryIsServed
  <2>5. EntryIsServed'
    BY <2>1, <2>2, <2>3, <2>4 DEF Next, Begin, ChildExits, vars
  <2>6. QED
    BY <2>5, TypeStep
<1>3. QED
  BY <1>1, <1>2, PTL DEF Spec

\* As long as no operations have overlapped a frozen session has no child.
THEOREM FrozenStaysDown == Spec => []FrozenMeansDown
<1>1. CalmSoFar => FrozenMeansDown
  BY DEF CalmSoFar, Calm, FrozenMeansDown, FrozenDown
<1>2. QED
  BY <1>1, CalmInit, CalmStep, PTL DEF Spec

\* As long as no operations have overlapped no child is left when end_session
\* returns.
THEOREM EndWorks == Spec => EndLeavesNoChild
<1>1. CalmSoFar /\ [Next]_vars =>
        [\A t \in Tasks : (~overlapped /\ (EndSeen(t) \/ EndTimesOut(t))) =>
            \A p \in Procs : child'[p] # "up"]_vars
  BY EndCalm DEF CalmSoFar, EndStep, Up
<1>2. QED
  BY <1>1, CalmInit, CalmStep, PTL DEF Spec, EndLeavesNoChild

\* As long as no operations have overlapped only start_session brings an ended
\* session back.
THEOREM EndedNotResumed == Spec => EndedStaysDown
<1>1. CalmSoFar /\ [Next]_vars =>
        [\A t \in Tasks : (~overlapped /\ Spawn(t) /\ row.ended) =>
            task[t].op = "start"]_vars
  BY DEF CalmSoFar, Calm, UnderWay, Alive, Spawn, At
<1>2. QED
  BY <1>1, CalmInit, CalmStep, PTL DEF Spec, EndedStaysDown

-----------------------------------------------------------------------------
(* One spawner at a time, whatever else overlaps. *)

OneSpawner == \A t, u \in Tasks : MaySpawn(t) /\ MaySpawn(u) => t = u

\* Which operations come to which stretch.
Fits(t) ==
    /\ task[t].pc \in {"looking", "checking", "spawning", "registering",
                       "resuming", "thawing"} => task[t].op \in Spawners
    /\ task[t].pc \in {"asking", "killing", "waiting"} =>
            task[t].op \in Spawners \cup {"freeze"}

\* Nobody else has filled the map since the spawner looked.
Vacant(t) == At(t, "spawning") => map = 0

Serial ==
    /\ TypeInv
    /\ OneSpawner
    /\ Pumped
    /\ \A t \in Tasks : Fits(t) /\ Vacant(t)

\* A step of a task that is not a spawner makes none of it.
LEMMA SpawnerStays ==
    ASSUME Serial, NEW t \in Tasks, TaskStep(t)
    PROVE  MaySpawn(t)' => MaySpawn(t)
<1>0. TypeOK /\ ~At(t, "idle") /\ (Spawn(t) => task[t].op \in Spawners)
  BY OneMoves DEF Serial, TypeInv, Fits, Spawn, At
<1>1. CASE Spawn(t)
  BY <1>0, <1>1 DEF MaySpawn
<1>2. CASE Close(t)
  <2>1. Return(t) \/ task'[t].op = task[t].op
    BY <1>0, <1>2 DEF Close, TypeOK, TaskType
  <2>2. QED
    BY <1>0, <2>1, Going DEF MaySpawn, At
<1>3. CASE TaskStep(t) /\ ~Spawn(t) /\ ~Close(t)
  <2>1. Return(t) \/ \E pc : Goto(t, pc)
    BY <1>3
    DEF TaskStep, SpawnStep, Look, Check, SpawnFails, Register, KillStep, Ask,
        Kill, TornDown, TeardownTimesOut, Resume, Freeze, Thaw, EndStep,
        EndSeen, EndTimesOut, Mark
  <2>2. QED
    BY <1>0, <2>1, Going DEF MaySpawn, At
<1>4. QED
  BY <1>1, <1>2, <1>3

\* What a spawning stretch keeps.
LEMMA SpawnSerial ==
    ASSUME Serial, NEW t \in Tasks, SpawnStep(t)
    PROVE  Pumped' /\ Fits(t)' /\ Vacant(t)'
<1>0. TypeOK /\ Pumped /\ Fits(t) /\ Vacant(t)
  BY DEF Serial, TypeInv
<1>a. Return(t) => Fits(t)' /\ Vacant(t)'
  BY <1>0, Going DEF Fits, Vacant, At
<1>b. UNCHANGED <<map, child, pump>> => Pumped'
  BY <1>0 DEF Pumped, Up
<1>1. CASE Look(t) \/ Check(t)
  <2>1. Return(t) \/ Goto(t, "checking") \/ (Goto(t, "spawning") /\ map = 0)
    BY <1>1 DEF Look, Check, MayStart
  <2>2. task[t].op \in Spawners /\ map' = map
    BY <1>0, <1>1 DEF Look, Check, Fits, At
  <2>3. Goto(t, "checking") \/ (Goto(t, "spawning") /\ map = 0)
            => Fits(t)' /\ Vacant(t)'
    BY <1>0, <2>2, Going DEF Fits, Vacant, At
  <2>4. QED
    BY <1>1, <1>a, <1>b, <2>1, <2>3 DEF Look, Check
<1>2. CASE SpawnFails(t) \/ Register(t)
  BY <1>2, <1>a, <1>b DEF SpawnFails, Register
<1>3. CASE Spawn(t)
  <2>1. map = 0
    BY <1>0, <1>3 DEF Spawn, Vacant
  <2>2. PICK p \in Procs : /\ child' = [child EXCEPT ![p] = "up"]
                           /\ map' = p
                           /\ pump' = [pump EXCEPT ![p] = "reading"]
    BY <1>3 DEF Spawn
  <2>3. Pumped'
    BY <1>0, <2>1, <2>2 DEF Pumped, Up, TypeOK, Procs
  <2>4. PICK next \in AfterSpawn(t) : task' = [task EXCEPT ![t] = next]
    BY <1>3 DEF Spawn
  <2> DEFINE registers == [task[t] EXCEPT !.pc = "registering"]
  <2> DEFINE sends == [task[t] EXCEPT !.pc = "looking", !.op = "send"]
  <2>5. next = Idle \/ (next = registers /\ task[t].op = "start") \/ next = sends
    BY DEF AfterSpawn
  <2>6. task[t] \in TaskType
    BY <1>0 DEF TypeOK
  <2>7. /\ Idle.pc = "idle"
        /\ registers.pc = "registering" /\ registers.op = task[t].op
        /\ sends.pc = "looking" /\ sends.op = "send"
    BY <2>6 DEF Idle, TaskType
  <2>8. task'[t] = next
    BY <1>0, <2>4 DEF TypeOK
  <2>9. Fits(t)' /\ Vacant(t)'
    BY <2>5, <2>7, <2>8 DEF Fits, Vacant, At, Spawners
  <2>10. QED
    BY <2>3, <2>9
<1>4. QED
  BY <1>1, <1>2, <1>3 DEF SpawnStep

\* What a killing stretch keeps.
LEMMA KillSerial ==
    ASSUME Serial, NEW t \in Tasks, KillStep(t)
    PROVE  Pumped' /\ Fits(t)' /\ Vacant(t)'
<1>0. TypeOK /\ Pumped /\ Fits(t) /\ task[t] \in TaskType
  BY DEF Serial, TypeInv, TypeOK
<1>1. Pumped'
  <2>1. \A p \in Procs : Up(p)' => Up(p)
    <3>1. CASE Kill(t) /\ map # 0
      BY <1>0, <3>1, KillQuiet DEF Kill, TypeOK
    <3>2. CASE ~(Kill(t) /\ map # 0)
      BY <3>2 DEF KillStep, Ask, Kill, TornDown, TeardownTimesOut, Resume, Freeze,
                  Thaw, Up
    <3>3. QED
      BY <3>1, <3>2
  <2>2. UNCHANGED <<map, pump>>
    BY DEF KillStep, Ask, Kill, TornDown, TeardownTimesOut, Resume, Freeze, Thaw
  <2>3. QED
    BY <1>0, <2>1, <2>2 DEF Pumped
<1>2. \/ Return(t)
      \/ Goto(t, "killing") /\ At(t, "asking")
      \/ Goto(t, "waiting") /\ At(t, "killing")
      \/ Goto(t, AfterTeardown(t)) /\ (At(t, "killing") \/ At(t, "waiting"))
      \/ Goto(t, "checking") /\ At(t, "resuming")
      \/ Goto(t, "looking") /\ At(t, "thawing")
  BY DEF KillStep, Ask, Kill, TornDown, TeardownTimesOut, Resume, Freeze, Thaw
<1>3. CASE Return(t)
  BY <1>0, <1>1, <1>3, Going DEF Fits, Vacant, At
<1>4. CASE \/ Goto(t, "killing") /\ At(t, "asking")
           \/ Goto(t, "waiting") /\ At(t, "killing")
           \/ Goto(t, "checking") /\ At(t, "resuming")
           \/ Goto(t, "looking") /\ At(t, "thawing")
  BY <1>0, <1>1, <1>4, Going DEF Fits, Vacant, At
<1>5. CASE Goto(t, AfterTeardown(t)) /\ (At(t, "killing") \/ At(t, "waiting"))
  <2>1. \/ AfterTeardown(t) = "freezing"
        \/ AfterTeardown(t) = "resuming" /\ task[t].op \in Spawners
    BY <1>0, <1>5 DEF AfterTeardown, Fits, At
  <2>2. QED
    BY <1>0, <1>1, <1>5, <2>1, Going DEF Fits, Vacant, At
<1>6. QED
  BY <1>2, <1>3, <1>4, <1>5

\* What an ending stretch keeps.
LEMMA EndSerial ==
    ASSUME Serial, NEW t \in Tasks, EndStep(t)
    PROVE  Pumped' /\ Fits(t)' /\ Vacant(t)'
<1>0. TypeOK /\ Pumped /\ Held(t) /\ task[t] \in TaskType
  BY DEF Serial, TypeInv, TypeOK
<1>1. task'[t].pc \in {"idle", "ending"}
  <2>1. CASE Return(t)
    BY <1>0, <2>1, Going
  <2>2. CASE ~Return(t)
    <3>1. task' = [task EXCEPT ![t].pc = "ending", ![t].target = map]
      BY <2>2 DEF EndStep, Close, EndSeen, EndTimesOut, Mark
    <3>2. QED
      BY <1>0, <3>1 DEF TypeOK, TaskType
  <2>3. QED
    BY <2>1, <2>2
<1>2. \A p \in Procs : Up(p)' => Up(p)
  <2>1. CASE EndTimesOut(t)
    BY <1>0, <2>1, KillQuiet DEF EndTimesOut, Held
  <2>2. CASE ~EndTimesOut(t)
    BY <2>2 DEF EndStep, Close, EndSeen, Mark, Up
  <2>3. QED
    BY <2>1, <2>2
<1>3. UNCHANGED <<map, pump>>
  BY DEF EndStep, Close, EndSeen, EndTimesOut, Mark
<1>4. QED
  BY <1>0, <1>1, <1>2, <1>3 DEF Pumped, Fits, Vacant, At

\* With one spawner at a time every step keeps the invariant.
LEMMA SerialStep ==
    ASSUME "spawnsRace" \notin Env
    PROVE  Serial /\ [Next]_vars => Serial'
<1> SUFFICES ASSUME Serial, [Next]_vars PROVE Serial'
  OBVIOUS
<1>0. /\ TypeOK /\ OneSpawner /\ Pumped
      /\ \A t \in Tasks : Fits(t) /\ Vacant(t)
  BY DEF Serial, TypeInv
<1>a. TypeInv'
  BY TypeStep DEF Serial
<1>1. ASSUME NEW t \in Tasks, TaskStep(t) PROVE Serial'
  <2>1. Pumped' /\ Fits(t)' /\ Vacant(t)'
    BY <1>1, SpawnSerial, KillSerial, EndSerial DEF TaskStep
  <2>2. \A u \in Tasks : u # t => task'[u] = task[u]
    BY <1>0, <1>1, OneMoves
  <2>3. MaySpawn(t)' => MaySpawn(t)
    BY <1>1, SpawnerStays
  <2>4. \A u \in Tasks : MaySpawn(u)' => MaySpawn(u)
    BY <2>2, <2>3 DEF MaySpawn, At
  <2>5. OneSpawner'
    BY <1>0, <2>4 DEF OneSpawner
  <2>6. \A u \in Tasks : u # t => Fits(u)' /\ Vacant(u)'
    <3>1. CASE Spawn(t)
      <4>1. MaySpawn(t)
        BY <1>0, <3>1 DEF Spawn, Fits, MaySpawn, At
      <4>2. \A u \in Tasks : u # t => ~At(u, "spawning")
        BY <1>0, <4>1 DEF OneSpawner, Fits, MaySpawn, At
      <4>3. QED
        BY <1>0, <2>2, <4>2 DEF Fits, Vacant, At
    <3>2. CASE ~Spawn(t)
      <4>1. map' = map
        BY <1>1, <3>2
        DEF TaskStep, SpawnStep, Look, Check, SpawnFails, Register, KillStep,
            Ask, Kill, TornDown, TeardownTimesOut, Resume, Freeze, Thaw,
            EndStep, Close, EndSeen, EndTimesOut, Mark
      <4>2. QED
        BY <1>0, <2>2, <4>1 DEF Fits, Vacant, At
    <3>3. QED
      BY <3>1, <3>2
  <2>7. QED
    BY <1>a, <2>1, <2>5, <2>6 DEF Serial
<1>2. ASSUME NEW t \in Tasks, NEW op \in Ops, Begin(t, op) PROVE Serial'
  <2>1. /\ task'[t].pc = Entry(op) /\ task'[t].op = op
        /\ \A u \in Tasks : u # t => task'[u] = task[u]
    BY <1>0, <1>2 DEF Begin, TypeOK
  <2>2. op \in Spawners => \A u \in Tasks : ~MaySpawn(u)
    BY <1>2 DEF Begin
  <2>3. \A u \in Tasks : u # t => (MaySpawn(u)' => MaySpawn(u))
    BY <2>1 DEF MaySpawn, At
  <2>4. MaySpawn(t)' => op \in Spawners
    BY <2>1 DEF MaySpawn
  <2>5. OneSpawner'
    BY <1>0, <2>2, <2>3, <2>4 DEF OneSpawner
  <2>6. /\ Entry(op) \in {"looking", "checking", "thawing"} => op \in Spawners
        /\ Entry(op) \in {"killing", "asking"} => op \in Spawners \cup {"freeze"}
        /\ Entry(op) \in {"looking", "checking", "killing", "asking", "thawing",
                          "closing", "marking"}
    BY ConstantsAssumption DEF ConstantsAssumption, AllOps, Entry, Spawners
  <2>7. \A u \in Tasks : Fits(u)' /\ Vacant(u)'
    BY <1>0, <1>2, <2>1, <2>6 DEF Begin, Fits, Vacant, At
  <2>8. Pumped'
    BY <1>0, <1>2 DEF Begin, Pumped, Up
  <2>9. QED
    BY <1>a, <2>5, <2>7, <2>8 DEF Serial
<1>3. ASSUME NEW p \in Procs, ChildExits(p) PROVE Serial'
  <2>1. \A q \in Procs : Up(q)' => Up(q)
    BY <1>0, <1>3, KillQuiet DEF ChildExits
  <2>2. Pumped' /\ OneSpawner' /\ \A t \in Tasks : Fits(t)' /\ Vacant(t)'
    BY <1>0, <1>3, <2>1
    DEF ChildExits, Pumped, OneSpawner, MaySpawn, Fits, Vacant, At
  <2>3. QED
    BY <1>a, <2>2 DEF Serial
<1>4. ASSUME NEW p \in Procs, Eof(p) PROVE Serial'
  <2>1. \A q \in Procs : pump'[q] # "reading" /\ ~Up(q)'
    BY <1>0, <1>4 DEF Eof, Pumped, Up, TypeOK
  <2>2. Pumped' /\ OneSpawner' /\ \A t \in Tasks : Fits(t)' /\ Vacant(t)'
    BY <1>0, <1>4, <2>1 DEF Eof, Pumped, OneSpawner, MaySpawn, Fits, Vacant, At
  <2>3. QED
    BY <1>a, <2>2 DEF Serial
<1>5. CASE UNCHANGED vars
  BY <1>0, <1>5, <1>a
  DEF vars, Serial, OneSpawner, MaySpawn, Pumped, Fits, Vacant, At, Up
<1>6. QED
  BY <1>1, <1>2, <1>3, <1>4, <1>5 DEF Next

\* As long as operations that spawn do not overlap each other, a running child
\* is the map's, whatever freezes, ends and kills go on beside them.
THEOREM Owned ==
    ASSUME "spawnsRace" \notin Env
    PROVE  Spec => []ChildIsOwned
<1>1. Init => Serial
  <2> SUFFICES ASSUME Init PROVE Serial
    OBVIOUS
  <2>1. \A t \in Tasks : task[t].pc = "idle"
    BY DEF Init, Idle
  <2>2. OneSpawner /\ \A t \in Tasks : Fits(t) /\ Vacant(t)
    BY <2>1 DEF OneSpawner, MaySpawn, Fits, Vacant, At
  <2>3. Pumped
    BY DEF Init, Pumped, Up
  <2>4. QED
    BY <2>2, <2>3, TypeInit DEF Serial
<1>2. Serial => ChildIsOwned
  BY DEF Serial, Pumped, ChildIsOwned
<1>3. QED
  BY <1>1, <1>2, SerialStep, PTL DEF Spec
===============================================================================
