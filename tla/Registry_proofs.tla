---------------------------- MODULE Registry_proofs ----------------------------
(***************************************************************************)
(* Theorems about Registry, for every set of sessions and handlers and     *)
(* every environment, but for what a theorem's hypothesis excludes.        *)
(***************************************************************************)
EXTENDS Registry, FiniteSetTheorems, TLAPS

RowsType == [Sessions -> RowType \cup {None}]

TaskType == [pc : {"idle", "record", "list", "write"}, session : Sessions \cup {None},
             goal : {"open", "closed", "unsure"}, saved : SUBSET Sessions]

DetectorType == [pc : {"asleep", "scanned", "judging"}, live : SUBSET Pids,
                 todo : SUBSET [of : Sessions, pid : Pids]]

-----------------------------------------------------------------------------
(* Rows *)

LEMMA KnownRow ==
    ASSUME row \in RowsType, NEW s \in Sessions, Known(s)
    PROVE  row[s] \in RowType
  BY DEF RowsType, Known

LEMMA UpsertType ==
    ASSUME row \in RowsType, NEW s \in Sessions
    PROVE  Upsert(s) \in RowType
<1>1. 0 \in 0..MaxProcs
  BY ConstantsAssumption DEF ConstantsAssumption
<1>2. CASE Known(s)
  BY <1>2, KnownRow DEF Upsert, RowType
<1>3. CASE ~Known(s)
  BY <1>1, <1>3 DEF Upsert, RowType
<1>4. QED
  BY <1>2, <1>3

LEMMA RegisteredType ==
    ASSUME row \in RowsType, NEW s \in Sessions, NEW pid \in 0..MaxProcs
    PROVE  Registered(row, s, pid) \in RowType
  BY DEF RowsType, Registered, RowType

LEMMA MarkEndedType ==
    ASSUME row \in RowsType, NEW s \in Sessions
    PROVE  MarkEnded(s) \in RowsType
<1>1. CASE Known(s)
  <2>1. [row[s] EXCEPT !.ended = TRUE] \in RowType
    BY <1>1, KnownRow DEF RowType
  <2>2. MarkEnded(s) = [row EXCEPT ![s] = [row[s] EXCEPT !.ended = TRUE]]
    BY <1>1 DEF MarkEnded, RowsType
  <2>3. QED
    BY <2>1, <2>2 DEF RowsType
<1>2. CASE ~Known(s)
  BY <1>2 DEF MarkEnded
<1>3. QED
  BY <1>1, <1>2

LEMMA PidType == Pids \subseteq 0..MaxProcs
  BY ConstantsAssumption DEF ConstantsAssumption, Pids

-----------------------------------------------------------------------------
(* Type correctness *)

LEMMA BeginType ==
    ASSUME TypeOK, NEW t \in Tasks, NEW s \in Sessions,
           NEW pc \in {"record", "list"}, NEW goal \in {"open", "closed"},
           Begin(t, s, pc, goal), row' \in RowsType,
           proc' \in [Pids -> ProcType],
           \A p \in Pids : proc'[p].alive \/ proc'[p].hook # "done" => proc'[p].of \in Sessions
    PROVE  TypeOK'
<1>1. task' \in [Tasks -> TaskType] /\ task'[t].session = s
      /\ \A u \in Tasks \ {t} : task'[u] = task[u]
  BY DEF Begin, TypeOK, TaskType
<1>2. told' \in [Sessions -> {"open", "closed", "unsure"}]
  BY DEF Begin, TypeOK
<1>3. QED
  BY <1>1, <1>2 DEF Begin, TypeOK, RowsType, TaskType

LEMMA RpcType ==
    ASSUME TypeOK, NEW t \in Tasks, NEW s \in Sessions,
           Open(t, s) \/ End(t, s) \/ Externalize(t, s) \/ Takeover(t, s) \/ TurnEnds(t, s)
    PROVE  TypeOK'
<1>0. row \in RowsType
  BY DEF TypeOK, RowsType
<1>1. CASE Open(t, s)
  <2>1. row' \in RowsType
    BY <1>0, <1>1, UpsertType DEF Open, RowsType
  <2>2. Begin(t, s, "list", "open") /\ UNCHANGED proc
    BY <1>1 DEF Open
  <2>3. QED
    BY <2>1, <2>2, BeginType DEF TypeOK
<1>2. CASE End(t, s)
  <2>1. row' \in RowsType
    BY <1>0, <1>2, MarkEndedType DEF End
  <2>2. Begin(t, s, "list", "closed") /\ UNCHANGED proc
    BY <1>2 DEF End
  <2>3. QED
    BY <2>1, <2>2, BeginType DEF TypeOK
<1>3. CASE Externalize(t, s)
  <2>1. row[s] \in RowType /\ 0 \in 0..MaxProcs
    BY <1>0, <1>3, KnownRow, ConstantsAssumption
       DEF Externalize, Chat, Live, ConstantsAssumption
  <2>2. row' \in RowsType
    BY <1>0, <1>3, <2>1 DEF Externalize, RowsType, RowType
  <2>3. Begin(t, s, "list", "closed") /\ UNCHANGED proc
    BY <1>3 DEF Externalize
  <2>4. QED
    BY <2>2, <2>3, BeginType DEF TypeOK
<1>4. CASE Takeover(t, s)
  <2>1. row' \in RowsType /\ Begin(t, s, "record", "open")
    BY <1>0, <1>4 DEF Takeover
  <2>2. proc' = [proc EXCEPT ![row[s].pid].alive = FALSE]
    BY <1>4 DEF Takeover
  <2>3. proc' \in [Pids -> ProcType]
    <3>1. row[s].pid \in Pids
      <4>1. row[s] \in RowType /\ row[s].pid # 0
        BY <1>0, <1>4, KnownRow DEF Takeover, Terminal, Live
      <4>2. QED
        BY <4>1, ConstantsAssumption DEF RowType, Pids, ConstantsAssumption
    <3>2. [proc[row[s].pid] EXCEPT !.alive = FALSE] \in ProcType
      BY <3>1 DEF TypeOK, ProcType
    <3>3. proc' = [proc EXCEPT ![row[s].pid] = [proc[row[s].pid] EXCEPT !.alive = FALSE]]
      BY <2>2, <3>1 DEF TypeOK
    <3>4. QED
      BY <3>2, <3>3 DEF TypeOK
  <2>4. \A p \in Pids : /\ proc'[p].hook = proc[p].hook /\ proc'[p].of = proc[p].of
                        /\ proc'[p].alive => proc[p].alive
    BY <2>2 DEF TypeOK, ProcType
  <2>5. \A p \in Pids : proc'[p].alive \/ proc'[p].hook # "done" => proc'[p].of \in Sessions
    BY <2>4 DEF TypeOK
  <2>6. QED
    BY <2>1, <2>3, <2>5, BeginType
<1>5. CASE TurnEnds(t, s)
  <2>1. /\ task' \in [Tasks -> TaskType] /\ task'[t].session = s
        /\ \A u \in Tasks \ {t} : task'[u] = task[u]
    BY <1>5 DEF TurnEnds, TypeOK, TaskType
  <2>2. QED
    BY <1>5, <2>1 DEF TurnEnds, TypeOK, TaskType
<1>6. QED
  BY <1>1, <1>2, <1>3, <1>4, <1>5

LEMMA HandlerType ==
    ASSUME TypeOK, NEW t \in Tasks, Handler(t)
    PROVE  TypeOK'
<1>1. CASE Record(t)
  <2>1. task[t].session \in Sessions /\ row \in RowsType
    BY <1>1 DEF Record, TypeOK, RowsType
  <2>2. row' \in RowsType
    BY <1>1, <2>1, UpsertType DEF Record, RowsType
  <2>3. task' \in [Tasks -> TaskType] /\ \A u \in Tasks : task'[u].session = task[u].session
        /\ (task'[u].pc # "idle" => task[u].pc # "idle")
    BY <1>1 DEF Record, TypeOK, TaskType
  <2>4. QED
    BY <1>1, <2>2, <2>3 DEF Record, TypeOK, RowsType, TaskType
<1>2. CASE List(t)
  <2> DEFINE chats == {s \in Sessions : Chat(s)}
  <2>0. /\ task' = [task EXCEPT ![t].pc = "write", ![t].saved = chats]
        /\ chats \in SUBSET Sessions /\ task[t].pc # "idle"
    BY <1>2 DEF List
  <2> HIDE DEF chats
  <2>1. task' \in [Tasks -> TaskType] /\ \A u \in Tasks : task'[u].session = task[u].session
        /\ (task'[u].pc # "idle" => task[u].pc # "idle")
    <3> DEFINE rec == [task[t] EXCEPT !.pc = "write", !.saved = chats]
    <3>1. rec \in TaskType /\ rec.session = task[t].session
      BY <2>0 DEF TypeOK, TaskType
    <3>2. task' = [task EXCEPT ![t] = rec]
      BY <2>0 DEF TypeOK
    <3> HIDE DEF rec
    <3>3. \A u \in Tasks : task'[u] = IF u = t THEN rec ELSE task[u]
      BY <3>2 DEF TypeOK
    <3>4. task' \in [Tasks -> TaskType]
      BY <3>1, <3>2 DEF TypeOK, TaskType
    <3>5. QED
      BY <2>0, <3>1, <3>3, <3>4
  <2>2. QED
    BY <1>2, <2>1 DEF List, TypeOK, TaskType
<1>3. CASE Write(t)
  <2>1. task[t] \in TaskType
    BY DEF TypeOK, TaskType
  <2>2. file' \subseteq Sessions
    BY <1>3, <2>1 DEF Write, TypeOK, TaskType
  <2>3. told' \in [Sessions -> {"open", "closed", "unsure"}]
    BY <1>3, <2>1 DEF Write, TypeOK, TaskType
  <2>4. task' \in [Tasks -> TaskType]
    BY <1>3 DEF Write, TypeOK, TaskType, Idle
  <2>5. \A u \in Tasks : task'[u].pc # "idle" => task'[u].session \in Sessions
    BY <1>3 DEF Write, TypeOK, Idle
  <2>6. QED
    BY <1>3, <2>2, <2>3, <2>4, <2>5 DEF Write, TypeOK, TaskType
<1>4. QED
  BY <1>1, <1>2, <1>3 DEF Handler

LEMMA TerminalType ==
    ASSUME TypeOK,
           \/ \E s \in Sessions : TerminalStarts(s)
           \/ \E p \in Pids : \/ OnSessionStart(p) \/ SetPid(p)
                              \/ OnSessionEnd(p) \/ TerminalDies(p)
    PROVE  TypeOK'
<1>0. row \in RowsType
  BY DEF TypeOK, RowsType
<1>1. ASSUME NEW s \in Sessions, TerminalStarts(s) PROVE TypeOK'
  <2>1. PICK p \in Pids :
          proc' = [proc EXCEPT ![p] = [of |-> s, alive |-> TRUE, hook |-> "due"]]
    BY <1>1 DEF TerminalStarts
  <2>2. /\ proc' \in [Pids -> ProcType]
        /\ \A q \in Pids : proc'[q].alive \/ proc'[q].hook # "done" => proc'[q].of \in Sessions
    BY <2>1 DEF TypeOK, ProcType
  <2>3. QED
    BY <1>1, <2>2 DEF TerminalStarts, TypeOK
<1>a. ASSUME NEW p \in Pids, NEW hook \in {"enrich", "done"}, proc[p].hook # "done",
             proc' = [proc EXCEPT ![p].hook = hook]
      PROVE  /\ proc' \in [Pids -> ProcType]
             /\ \A q \in Pids : proc'[q].alive \/ proc'[q].hook # "done"
                                    => proc'[q].of \in Sessions
  BY <1>a DEF TypeOK, ProcType
<1>b. ASSUME NEW p \in Pids, proc' = [proc EXCEPT ![p].alive = FALSE]
      PROVE  /\ proc' \in [Pids -> ProcType]
             /\ \A q \in Pids : proc'[q].alive \/ proc'[q].hook # "done"
                                    => proc'[q].of \in Sessions
  <2> DEFINE rec == [proc[p] EXCEPT !.alive = FALSE]
  <2>1. rec \in ProcType /\ rec.of = proc[p].of /\ rec.hook = proc[p].hook /\ ~rec.alive
    BY DEF TypeOK, ProcType
  <2>2. proc' = [proc EXCEPT ![p] = rec]
    BY <1>b DEF TypeOK
  <2> HIDE DEF rec
  <2>3. \A q \in Pids : proc'[q] = IF q = p THEN rec ELSE proc[q]
    BY <2>2 DEF TypeOK
  <2>4. proc' \in [Pids -> ProcType]
    BY <2>1, <2>2 DEF TypeOK
  <2>5. QED
    BY <2>1, <2>3, <2>4 DEF TypeOK
<1>2. ASSUME NEW p \in Pids, OnSessionStart(p) PROVE TypeOK'
  <2>1. proc[p].of \in Sessions /\ proc[p].hook # "done"
    BY <1>2 DEF OnSessionStart, TypeOK
  <2>2. row' \in RowsType
    <3>1. Registered(row, proc[p].of, 0) \in RowType
      BY <1>0, <2>1, RegisteredType, ConstantsAssumption DEF ConstantsAssumption
    <3>2. QED
      BY <1>0, <1>2, <2>1, <3>1 DEF OnSessionStart, RowsType
  <2>3. \E hook \in {"enrich", "done"} : proc' = [proc EXCEPT ![p].hook = hook]
    BY <1>2 DEF OnSessionStart
  <2>4. QED
    BY <1>2, <1>a, <2>1, <2>2, <2>3 DEF OnSessionStart, TypeOK, RowsType
<1>3. ASSUME NEW p \in Pids, SetPid(p) PROVE TypeOK'
  <2>1. proc[p].of \in Sessions /\ proc[p].hook # "done"
    BY <1>3 DEF SetPid, TypeOK
  <2>2. PICK pid \in Pids :
          row' = IF Known(proc[p].of) THEN [row EXCEPT ![proc[p].of].pid = pid] ELSE row
    BY <1>3 DEF SetPid, FilesOf
  <2>3. row' \in RowsType
    <3>1. CASE Known(proc[p].of)
      <4>1. row[proc[p].of] \in RowType /\ pid \in 0..MaxProcs
        BY <1>0, <2>1, <3>1, KnownRow, PidType
      <4>2. QED
        BY <1>0, <2>1, <2>2, <3>1, <4>1 DEF RowsType, RowType
    <3>2. CASE ~Known(proc[p].of)
      BY <1>0, <2>2, <3>2
    <3>3. QED
      BY <3>1, <3>2
  <2>4. proc' = [proc EXCEPT ![p].hook = "done"]
    BY <1>3 DEF SetPid
  <2>5. QED
    BY <1>3, <1>a, <2>1, <2>3, <2>4 DEF SetPid, TypeOK, RowsType
<1>4. ASSUME NEW p \in Pids, OnSessionEnd(p) PROVE TypeOK'
  <2>1. proc[p].of \in Sessions
    BY <1>4 DEF OnSessionEnd, TypeOK
  <2>2. row' \in RowsType /\ proc' = [proc EXCEPT ![p].alive = FALSE]
    BY <1>0, <1>4, <2>1, MarkEndedType DEF OnSessionEnd
  <2>3. QED
    BY <1>4, <1>b, <2>2 DEF OnSessionEnd, TypeOK, RowsType
<1>5. ASSUME NEW p \in Pids, TerminalDies(p) PROVE TypeOK'
  BY <1>5, <1>b DEF TerminalDies, TypeOK
<1>6. QED
  BY <1>1, <1>2, <1>3, <1>4, <1>5

LEMMA PassType == TypeOK /\ Pass => TypeOK'
<1> SUFFICES ASSUME TypeOK, Pass PROVE TypeOK'
  OBVIOUS
<1>0. row \in RowsType
  BY DEF TypeOK, RowsType
<1>1. CASE Scan
  BY <1>1 DEF Scan, Alive, TypeOK
<1>2. CASE ListRows
  <2>1. \A s \in Judged : [of |-> s, pid |-> row[s].pid] \in [of : Sessions, pid : Pids]
    <3> SUFFICES ASSUME NEW s \in Judged
                 PROVE  row[s].pid \in Pids
      BY DEF Judged
    <3>1. row[s] \in RowType /\ row[s].pid # 0
      BY <1>0, KnownRow DEF Judged, Terminal, Live
    <3>2. QED
      BY <3>1, ConstantsAssumption DEF RowType, Pids, ConstantsAssumption
  <2>2. {[of |-> s, pid |-> row[s].pid] : s \in Judged} \in SUBSET [of : Sessions, pid : Pids]
    BY <2>1
  <2>3. QED
    BY <1>2, <2>2 DEF ListRows, TypeOK
<1>3. CASE PassEnds
  BY <1>3 DEF PassEnds, Asleep, TypeOK
<1>4. ASSUME NEW e \in detector.todo, Judge(e) PROVE TypeOK'
  <2>1. e.of \in Sessions
    BY DEF TypeOK
  <2>2. row' \in RowsType
    BY <1>0, <1>4, <2>1, MarkEndedType DEF Judge
  <2>3. strikes' \subseteq Sessions
    BY <1>4, <2>1 DEF Judge, TypeOK
  <2>4. detector' \in DetectorType
    BY <1>4 DEF Judge, TypeOK, DetectorType
  <2>5. QED
    BY <1>4, <2>2, <2>3, <2>4 DEF Judge, TypeOK, RowsType, DetectorType
<1>5. QED
  BY <1>1, <1>2, <1>3, <1>4 DEF Pass

LEMMA StartType == TypeOK /\ (Crash \/ Start \/ \E s \in Sessions : Prune(s)) => TypeOK'
<1> SUFFICES ASSUME TypeOK, Crash \/ Start \/ \E s \in Sessions : Prune(s) PROVE TypeOK'
  OBVIOUS
<1>0. row \in RowsType
  BY DEF TypeOK, RowsType
<1>1. CASE Crash
  BY <1>1 DEF Crash, Idle, Asleep, TypeOK
<1>2. CASE Boot \/ LoadSnapshot
  BY <1>2 DEF Boot, LoadSnapshot, TypeOK
<1>3. CASE PopulateRegistry
  <2>1. PICK there \in SUBSET Sessions :
          row' = [s \in Sessions |-> IF s \in there THEN Upsert(s) ELSE row[s]]
    <3>1. \A there \in IF "unmounted" \in Env THEN SUBSET loaded ELSE {loaded} :
             there \in SUBSET Sessions
      BY DEF TypeOK
    <3>2. QED
      BY <1>3, <3>1 DEF PopulateRegistry
  <2>2. row' \in RowsType
    BY <1>0, <2>1, UpsertType DEF RowsType
  <2>3. QED
    BY <1>3, <2>2 DEF PopulateRegistry, TypeOK, RowsType
<1>4. CASE AdoptExternalSessions
  <2>1. ASSUME NEW s \in Sessions, Runs(s)
        PROVE  Registered(row, s, CHOOSE p \in Alive : proc[p].of = s) \in RowType
    <3>1. (CHOOSE p \in Alive : proc[p].of = s) \in Pids
      BY <2>1 DEF Runs, Alive
    <3>2. QED
      BY <1>0, <3>1, PidType, RegisteredType
  <2>2. row' \in RowsType
    BY <1>0, <1>4, <2>1 DEF AdoptExternalSessions, RowsType
  <2>3. QED
    BY <1>4, <2>2 DEF AdoptExternalSessions, TypeOK, RowsType
<1>5. ASSUME NEW s \in Sessions, Prune(s) PROVE TypeOK'
  <2>1. row' \in RowsType
    BY <1>0, <1>5 DEF Prune, RowsType
  <2>2. QED
    BY <1>5, <2>1 DEF Prune, TypeOK, RowsType
<1>6. QED
  BY <1>1, <1>2, <1>3, <1>4, <1>5 DEF Start

LEMMA RegistryInitType == Init => TypeOK
  BY DEF Init, Idle, Asleep, TypeOK, ProcType

LEMMA RegistryTypeStep == TypeOK /\ [Next]_vars => TypeOK'
<1>1. TypeOK /\ UNCHANGED vars => TypeOK'
  BY DEF vars, TypeOK
<1>2. QED
  BY <1>1, RpcType, HandlerType, TerminalType, PassType, StartType DEF Next

\* The registry's rows, its snapshot, the handlers, the detector and the
\* terminals keep their types over crashes and restarts.
THEOREM TypeCorrect == Spec => []TypeOK
  BY RegistryInitType, RegistryTypeStep, PTL DEF Spec

-----------------------------------------------------------------------------
(* The snapshot, where handlers run one at a time and apart from the detector,
   nothing is opened before the restore, and the disk takes every write. *)

Sound == Env \cap {"overlap", "early", "diskFull", "unmounted"} = {}

Active(t) == task[t].pc # "idle"

Untouched(s) == \A t \in Tasks : Active(t) => task[t].session # s

\* One handler at a time, only in a daemon that serves, and no pass beside it.
Alone ==
    /\ \A t, u \in Tasks : Active(t) /\ Active(u) => t = u
    /\ \A t \in Tasks : Active(t) => up = "up" /\ detector.pc = "asleep"

\* A pass has no in-app chat to judge.
TodoIsTerminal ==
    /\ \A e \in detector.todo : ~Chat(e.of)
    /\ detector.pc # "judging" => detector.todo = {}

\* Until the snapshot is restored the daemon has no chat and leaves the file.
NoChatsYet ==
    /\ up \in {"down", "booting", "loaded"} => \A s \in Sessions : ~Chat(s)
    /\ up = "loaded" => loaded = file

\* From then on the file has the chats, but for the one a handler is about to
\* save.
FileHasChats ==
    up \in {"restored", "up"} =>
        \A s \in Sessions : Untouched(s) => (s \in file <=> Chat(s))

\* What the user was told outlives a crash.
FileIsTold ==
    \A s \in Sessions : /\ told[s] = "open" => s \in file
                        /\ told[s] = "closed" => s \notin file

\* A handler that has changed its row will write what it is going to tell.
HandlerTruth ==
    \A t \in Tasks : Active(t) =>
        /\ told[task[t].session] \in {"unsure", task[t].goal}
        /\ task[t].pc = "record" => told[task[t].session] = "unsure" /\ task[t].goal = "open"
        /\ task[t].pc # "record" =>
              /\ task[t].goal = "open" => Chat(task[t].session)
              /\ task[t].goal = "closed" => ~Chat(task[t].session)
        /\ task[t].pc = "write" => \A s \in Sessions : s \in task[t].saved <=> Chat(s)

SnapshotInv ==
    /\ Alone /\ TodoIsTerminal /\ NoChatsYet
    /\ FileHasChats /\ FileIsTold /\ HandlerTruth

\* Steps that leave the chats, the file and the handlers alone.
LEMMA SnapshotKept ==
    ASSUME TypeOK, SnapshotInv, UNCHANGED <<up, file, loaded, task, told>>,
           \A s \in Sessions : Chat(s)' <=> Chat(s),
           \A t \in Tasks : Active(t) => detector'.pc = "asleep",
           TodoIsTerminal'
    PROVE  SnapshotInv'
<1>1. \A t \in Tasks : Active(t)' <=> Active(t)
  BY DEF Active
<1>2. Alone'
  BY <1>1 DEF SnapshotInv, Alone
<1>3. NoChatsYet' /\ FileIsTold'
  BY DEF SnapshotInv, NoChatsYet, FileIsTold
<1>4. FileHasChats'
  <2>1. \A s \in Sessions : Untouched(s)' <=> Untouched(s)
    BY <1>1 DEF Untouched
  <2>2. QED
    BY <2>1 DEF SnapshotInv, FileHasChats
<1>5. HandlerTruth'
  <2>1. \A t \in Tasks : Active(t) => task[t].session \in Sessions
    BY DEF TypeOK, Active
  <2>2. QED
    BY <1>1, <2>1 DEF SnapshotInv, HandlerTruth
<1>6. QED
  BY <1>2, <1>3, <1>4, <1>5 DEF SnapshotInv

\* A row that is made for a terminal is not a chat's, and a chat's is kept.
LEMMA RegisteredChat ==
    ASSUME TypeOK, NEW s \in Sessions, NEW pid, row'[s] = Registered(row, s, pid)
    PROVE  Chat(s)' <=> Chat(s)
<1>1. CASE row[s] = None
  <2>1. row'[s].kind = "external"
    BY <1>1 DEF Registered
  <2>2. QED
    BY <1>1, <2>1 DEF Chat, Live, Known
<1>2. CASE row[s] # None
  BY <1>2 DEF Registered, Chat, Live, Known
<1>3. QED
  BY <1>1, <1>2

LEMMA MarkEndedRow ==
    ASSUME TypeOK, NEW s \in Sessions
    PROVE  /\ \A r \in Sessions \ {s} : MarkEnded(s)[r] = row[r]
           /\ ~Known(s) => MarkEnded(s)[s] = row[s]
           /\ Known(s) => MarkEnded(s)[s].ended
<1>1. row \in RowsType
  BY DEF TypeOK, RowsType
<1>2. CASE Known(s)
  <2>1. [row[s] EXCEPT !.ended = TRUE].ended
    BY <1>1, <1>2, KnownRow DEF RowType
  <2>2. MarkEnded(s) = [row EXCEPT ![s] = [row[s] EXCEPT !.ended = TRUE]]
    BY <1>1, <1>2 DEF MarkEnded, RowsType
  <2> HIDE DEF MarkEnded
  <2>3. QED
    BY <1>1, <1>2, <2>1, <2>2 DEF RowsType
<1>3. CASE ~Known(s)
  BY <1>3 DEF MarkEnded
<1>4. QED
  BY <1>2, <1>3

\* Ending a session that is no chat changes no chat.
LEMMA MarkEndedChats ==
    ASSUME TypeOK, NEW s \in Sessions, ~Chat(s), row' = MarkEnded(s)
    PROVE  \A r \in Sessions : Chat(r)' <=> Chat(r)
<1>1. ASSUME NEW r \in Sessions \ {s} PROVE Chat(r)' <=> Chat(r)
  <2>1. row'[r] = row[r]
    BY MarkEndedRow
  <2>2. QED
    BY <2>1 DEF Chat, Live, Known
<1>2. ~Chat(s)'
  <2>1. CASE Known(s)
    <3>1. row'[s].ended
      BY <2>1, MarkEndedRow
    <3>2. QED
      BY <3>1 DEF Chat, Live
  <2>2. CASE ~Known(s)
    <3>1. row'[s] = row[s]
      BY <2>2, MarkEndedRow
    <3>2. QED
      BY <3>1 DEF Chat, Live, Known
  <2>3. QED
    BY <2>1, <2>2
<1>3. QED
  BY <1>1, <1>2

\* Terminals come and go without touching a chat.
LEMMA TerminalChats ==
    ASSUME TypeOK,
           \/ \E s \in Sessions : TerminalStarts(s)
           \/ \E p \in Pids : \/ OnSessionStart(p) \/ SetPid(p)
                              \/ OnSessionEnd(p) \/ TerminalDies(p)
    PROVE  /\ UNCHANGED <<up, file, loaded, task, told, detector>>
           /\ \A s \in Sessions : Chat(s)' <=> Chat(s)
<1>0. row \in RowsType
  BY DEF TypeOK, RowsType
<1>1. ASSUME NEW s \in Sessions, TerminalStarts(s)
      PROVE  UNCHANGED <<up, file, loaded, task, told, detector, row>>
  BY <1>1 DEF TerminalStarts
<1>2. ASSUME NEW p \in Pids, OnSessionStart(p)
      PROVE  /\ UNCHANGED <<up, file, loaded, task, told, detector>>
             /\ \A s \in Sessions : Chat(s)' <=> Chat(s)
  <2>1. proc[p].of \in Sessions
    BY <1>2 DEF OnSessionStart, TypeOK
  <2>2. CASE up = "down"
    BY <1>2, <2>2 DEF OnSessionStart, Chat, Live, Known
  <2>3. CASE up # "down"
    <3>1. row'[proc[p].of] = Registered(row, proc[p].of, 0)
      BY <1>0, <1>2, <2>1, <2>3 DEF OnSessionStart, RowsType
    <3>2. \A s \in Sessions \ {proc[p].of} : row'[s] = row[s]
      BY <1>0, <1>2, <2>1, <2>3 DEF OnSessionStart, RowsType
    <3>3. \A s \in Sessions \ {proc[p].of} : Chat(s)' <=> Chat(s)
      BY <3>2 DEF Chat, Live, Known
    <3>4. QED
      BY <1>2, <2>1, <3>1, <3>3, RegisteredChat DEF OnSessionStart
  <2>4. QED
    BY <2>2, <2>3
<1>3. ASSUME NEW p \in Pids, SetPid(p)
      PROVE  /\ UNCHANGED <<up, file, loaded, task, told, detector>>
             /\ \A s \in Sessions : Chat(s)' <=> Chat(s)
  <2>1. proc[p].of \in Sessions
    BY <1>3 DEF SetPid, TypeOK
  <2>2. PICK pid \in Pids :
          row' = IF Known(proc[p].of) THEN [row EXCEPT ![proc[p].of].pid = pid] ELSE row
    BY <1>3 DEF SetPid, FilesOf
  <2>3. CASE ~Known(proc[p].of)
    BY <1>3, <2>2, <2>3 DEF SetPid, Chat, Live, Known
  <2>4. CASE Known(proc[p].of)
    <3> DEFINE rec == [row[proc[p].of] EXCEPT !.pid = pid]
    <3>1. row[proc[p].of] \in RowType /\ pid \in 0..MaxProcs
      BY <1>0, <2>1, <2>4, KnownRow, PidType
    <3>2. /\ rec \in RowType /\ rec.kind = row[proc[p].of].kind
          /\ rec.ended = row[proc[p].of].ended
      BY <3>1 DEF RowType
    <3>3. row' = [row EXCEPT ![proc[p].of] = rec]
      BY <1>0, <2>2, <2>4 DEF RowsType
    <3> HIDE DEF rec
    <3>4. \A s \in Sessions : row'[s] = IF s = proc[p].of THEN rec ELSE row[s]
      BY <1>0, <3>3 DEF RowsType
    <3>5. rec # None /\ row[proc[p].of] # None
      BY <2>4, <3>2, ConstantsAssumption DEF ConstantsAssumption, RowType, Known
    <3>6. \A s \in Sessions : Chat(s)' <=> Chat(s)
      BY <3>2, <3>4, <3>5 DEF Chat, Live, Known
    <3>7. QED
      BY <1>3, <3>6 DEF SetPid
  <2>5. QED
    BY <2>3, <2>4
<1>4. ASSUME NEW p \in Pids, OnSessionEnd(p)
      PROVE  /\ UNCHANGED <<up, file, loaded, task, told, detector>>
             /\ \A s \in Sessions : Chat(s)' <=> Chat(s)
  <2>1. proc[p].of \in Sessions
    BY <1>4 DEF OnSessionEnd, TypeOK
  <2>2. CASE Chat(proc[p].of)
    BY <1>4, <2>2 DEF OnSessionEnd, Chat, Live, Known
  <2>3. CASE ~Chat(proc[p].of)
    BY <1>4, <2>1, <2>3, MarkEndedChats DEF OnSessionEnd
  <2>4. QED
    BY <2>2, <2>3
<1>5. ASSUME NEW p \in Pids, TerminalDies(p)
      PROVE  UNCHANGED <<up, file, loaded, task, told, detector, row>>
  BY <1>5 DEF TerminalDies
<1>6. UNCHANGED row => \A s \in Sessions : Chat(s)' <=> Chat(s)
  BY DEF Chat, Live, Known
<1>7. QED
  BY <1>1, <1>2, <1>3, <1>4, <1>5, <1>6

LEMMA SnapshotTerminal ==
    ASSUME TypeOK, SnapshotInv,
           \/ \E s \in Sessions : TerminalStarts(s)
           \/ \E p \in Pids : \/ OnSessionStart(p) \/ SetPid(p)
                              \/ OnSessionEnd(p) \/ TerminalDies(p)
    PROVE  SnapshotInv'
<1>1. /\ UNCHANGED <<up, file, loaded, task, told, detector>>
      /\ \A s \in Sessions : Chat(s)' <=> Chat(s)
  BY TerminalChats
<1>2. \A e \in detector.todo : e.of \in Sessions
  BY DEF TypeOK
<1>3. TodoIsTerminal'
  BY <1>1, <1>2 DEF SnapshotInv, TodoIsTerminal
<1>4. \A t \in Tasks : Active(t) => detector'.pc = "asleep"
  BY <1>1 DEF SnapshotInv, Alone
<1>5. QED
  BY <1>1, <1>3, <1>4, SnapshotKept

\* The detector's pass judges no chat.
LEMMA SnapshotPass ==
    ASSUME Sound, TypeOK, SnapshotInv, Pass \/ \E s \in Sessions : Prune(s)
    PROVE  SnapshotInv'
<1>s. \A e \in detector.todo : e.of \in Sessions
  BY DEF TypeOK
<1>u. UNCHANGED row => \A s \in Sessions : Chat(s)' <=> Chat(s)
  BY DEF Chat, Live, Known
<1>1. CASE Scan
  <2>1. /\ UNCHANGED <<up, file, loaded, task, told, row>>
        /\ \A t \in Tasks : ~Active(t)
        /\ detector'.todo = {} /\ detector'.pc = "scanned"
    BY <1>1 DEF Scan, Calm, Active, Sound
  <2>2. TodoIsTerminal'
    BY <2>1 DEF TodoIsTerminal
  <2>3. QED
    BY <1>u, <2>1, <2>2, SnapshotKept
<1>2. CASE ListRows
  <2>1. /\ UNCHANGED <<up, file, loaded, task, told, row>>
        /\ \A t \in Tasks : ~Active(t)
        /\ detector' = [detector EXCEPT !.pc = "judging",
                              !.todo = {[of |-> s, pid |-> row[s].pid] : s \in Judged}]
    BY <1>2 DEF ListRows, SnapshotInv, Alone
  <2>2. \A s \in Judged : s \in Sessions /\ ~Chat(s)
    BY DEF Judged, Terminal, Chat
  <2>3. detector'.pc = "judging" /\ \A e \in detector'.todo : e.of \in Judged
    BY <2>1 DEF TypeOK
  <2>4. TodoIsTerminal'
    BY <1>u, <2>1, <2>2, <2>3 DEF TodoIsTerminal
  <2>5. QED
    BY <1>u, <2>1, <2>4, SnapshotKept
<1>3. CASE PassEnds
  <2>1. /\ UNCHANGED <<up, file, loaded, task, told, row>>
        /\ detector'.pc = "asleep" /\ detector'.todo = {}
    BY <1>3 DEF PassEnds, Asleep
  <2>2. TodoIsTerminal'
    BY <2>1 DEF TodoIsTerminal
  <2>3. QED
    BY <1>u, <2>1, <2>2, SnapshotKept
<1>4. ASSUME NEW e \in detector.todo, Judge(e) PROVE SnapshotInv'
  <2>1. /\ UNCHANGED <<up, file, loaded, task, told>>
        /\ detector'.pc = detector.pc /\ detector'.todo = detector.todo \ {e}
        /\ row' = row \/ row' = MarkEnded(e.of)
    BY <1>4 DEF Judge, TypeOK
  <2>2. ~Chat(e.of) /\ e.of \in Sessions
    BY <1>s DEF SnapshotInv, TodoIsTerminal
  <2>3. \A s \in Sessions : Chat(s)' <=> Chat(s)
    BY <1>u, <2>1, <2>2, MarkEndedChats
  <2>4. TodoIsTerminal'
    BY <1>s, <2>1, <2>3 DEF SnapshotInv, TodoIsTerminal
  <2>5. \A t \in Tasks : Active(t) => detector'.pc = "asleep"
    BY <2>1 DEF SnapshotInv, Alone
  <2>6. QED
    BY <2>1, <2>3, <2>4, <2>5, SnapshotKept
<1>5. ASSUME NEW s \in Sessions, Prune(s) PROVE SnapshotInv'
  <2>1. /\ UNCHANGED <<up, file, loaded, task, told, detector>>
        /\ row' = [row EXCEPT ![s] = None] /\ row[s].ended
    BY <1>5 DEF Prune
  <2>2. \A r \in Sessions : Chat(r)' <=> Chat(r)
    <3>1. ~Chat(s) /\ ~Chat(s)'
      BY <2>1 DEF Chat, Live, Known, TypeOK
    <3>2. ASSUME NEW r \in Sessions \ {s} PROVE Chat(r)' <=> Chat(r)
      <4>1. row'[r] = row[r]
        BY <2>1 DEF TypeOK
      <4>2. QED
        BY <4>1 DEF Chat, Live, Known
    <3>3. QED
      BY <3>1, <3>2
  <2>3. TodoIsTerminal'
    BY <1>s, <2>1, <2>2 DEF SnapshotInv, TodoIsTerminal
  <2>4. \A t \in Tasks : Active(t) => detector'.pc = "asleep"
    BY <2>1 DEF SnapshotInv, Alone
  <2>5. QED
    BY <2>1, <2>2, <2>3, <2>4, SnapshotKept
<1>6. QED
  BY <1>1, <1>2, <1>3, <1>4, <1>5 DEF Pass

\* A handler that begins finds no other, and leaves the other rows alone.
LEMMA SnapshotBegin ==
    ASSUME TypeOK, SnapshotInv, NEW t \in Tasks, NEW s \in Sessions,
           NEW pc \in {"record", "list"}, NEW goal \in {"open", "closed"},
           Begin(t, s, pc, goal), up = "up", detector.pc = "asleep",
           \A u \in Tasks : ~Active(u),
           \A r \in Sessions \ {s} : row'[r] = row[r],
           pc = "list" => (Chat(s)' <=> goal = "open"),
           pc = "record" => goal = "open"
    PROVE  SnapshotInv'
<1>1. /\ UNCHANGED <<up, file, loaded, detector>>
      /\ task'[t] = [pc |-> pc, session |-> s, goal |-> goal, saved |-> {}]
      /\ \A u \in Tasks \ {t} : task'[u] = task[u]
      /\ told'[s] = "unsure" /\ \A r \in Sessions \ {s} : told'[r] = told[r]
  BY DEF Begin, TypeOK
<1>2. \A r \in Sessions \ {s} : Chat(r)' <=> Chat(r)
  BY DEF Chat, Live, Known
<1>3. Active(t)' /\ \A u \in Tasks \ {t} : ~Active(u)'
  BY <1>1 DEF Active
<1>4. Alone'
  BY <1>1, <1>3 DEF Alone
<1>5. TodoIsTerminal'
  <2>1. detector.todo = {}
    BY DEF SnapshotInv, TodoIsTerminal
  <2>2. QED
    BY <1>1, <2>1 DEF TodoIsTerminal
<1>6. NoChatsYet'
  BY <1>1 DEF NoChatsYet
<1>7. FileHasChats'
  <2>1. ~Untouched(s)'
    BY <1>1, <1>3 DEF Untouched
  <2>2. \A r \in Sessions : Untouched(r)
    BY DEF Untouched
  <2>3. \A r \in Sessions \ {s} : r \in file <=> Chat(r)
    BY <2>2 DEF SnapshotInv, FileHasChats
  <2>4. QED
    BY <1>1, <1>2, <2>1, <2>3 DEF FileHasChats
<1>8. FileIsTold'
  BY <1>1 DEF SnapshotInv, FileIsTold
<1>9. HandlerTruth'
  BY <1>1, <1>3 DEF HandlerTruth
<1>10. QED
  BY <1>4, <1>5, <1>6, <1>7, <1>8, <1>9 DEF SnapshotInv

LEMMA SnapshotRpc ==
    ASSUME Sound, TypeOK, SnapshotInv, NEW t \in Tasks, NEW s \in Sessions,
           Open(t, s) \/ End(t, s) \/ Externalize(t, s) \/ Takeover(t, s)
    PROVE  SnapshotInv'
<1>0. row \in RowsType
  BY DEF TypeOK, RowsType
<1>1. up = "up" /\ detector.pc = "asleep" /\ \A u \in Tasks : ~Active(u)
  BY DEF Open, End, Externalize, Takeover, Accepts, Calm, Active, Sound
<1>2. CASE Open(t, s)
  <2>1. /\ Begin(t, s, "list", "open") /\ row' = [row EXCEPT ![s] = Upsert(s)]
    BY <1>2 DEF Open
  <2>2. row'[s] = Upsert(s) /\ \A r \in Sessions \ {s} : row'[r] = row[r]
    BY <1>0, <2>1 DEF RowsType
  <2>3. Chat(s)'
    <3>1. Upsert(s).kind = "interactive" /\ ~Upsert(s).ended
      BY DEF Upsert
    <3>2. Upsert(s) # None
      BY <1>0, UpsertType, ConstantsAssumption DEF ConstantsAssumption, RowType
    <3>3. QED
      BY <2>2, <3>1, <3>2 DEF Chat, Live, Known
  <2>4. QED
    BY <1>1, <2>1, <2>2, <2>3, SnapshotBegin
<1>3. CASE End(t, s)
  <2>1. /\ Begin(t, s, "list", "closed") /\ row' = MarkEnded(s) /\ Known(s)
    BY <1>3 DEF End, Chat, Live
  <2>2. row'[s].ended /\ \A r \in Sessions \ {s} : row'[r] = row[r]
    BY <2>1, MarkEndedRow
  <2>3. ~Chat(s)'
    BY <2>2 DEF Chat, Live
  <2>4. QED
    BY <1>1, <2>1, <2>2, <2>3, SnapshotBegin
<1>4. CASE Externalize(t, s)
  <2>1. /\ Begin(t, s, "list", "closed") /\ Known(s)
        /\ row' = [row EXCEPT ![s].kind = "external", ![s].pid = 0]
    BY <1>4 DEF Externalize, Chat, Live
  <2>2. row[s] \in RowType
    BY <1>0, <2>1, KnownRow
  <2>3. row'[s].kind = "external" /\ \A r \in Sessions \ {s} : row'[r] = row[r]
    BY <1>0, <2>1, <2>2 DEF RowsType, RowType
  <2>4. ~Chat(s)'
    BY <2>3 DEF Chat
  <2>5. QED
    BY <1>1, <2>1, <2>3, <2>4, SnapshotBegin
<1>5. CASE Takeover(t, s)
  <2>1. Begin(t, s, "record", "open") /\ UNCHANGED row
    BY <1>5 DEF Takeover
  <2>2. QED
    BY <1>1, <2>1, SnapshotBegin
<1>6. QED
  BY <1>2, <1>3, <1>4, <1>5

\* A turn's end saves what the user already knows.
LEMMA SnapshotTurn ==
    ASSUME Sound, TypeOK, SnapshotInv, NEW t \in Tasks, NEW s \in Sessions,
           TurnEnds(t, s)
    PROVE  SnapshotInv'
<1>1. /\ up = "up" /\ detector.pc = "asleep" /\ \A u \in Tasks : ~Active(u)
      /\ Chat(s)
  BY DEF TurnEnds, Accepts, Calm, Active, Sound
<1>2. /\ UNCHANGED <<up, row, file, loaded, detector, told>>
      /\ task'[t] = [pc |-> "list", session |-> s, goal |-> told[s], saved |-> {}]
      /\ \A u \in Tasks \ {t} : task'[u] = task[u]
  BY DEF TurnEnds, TypeOK
<1>3. \A r \in Sessions : Chat(r)' <=> Chat(r)
  BY <1>2 DEF Chat, Live, Known
<1>4. \A r \in Sessions : r \in file <=> Chat(r)
  BY <1>1 DEF SnapshotInv, FileHasChats, Untouched
<1>5. told[s] # "closed"
  BY <1>1, <1>4 DEF SnapshotInv, FileIsTold
<1>6. Active(t)' /\ \A u \in Tasks \ {t} : ~Active(u)'
  BY <1>1, <1>2 DEF Active
<1>7. Alone'
  BY <1>1, <1>2, <1>6 DEF Alone
<1>8. TodoIsTerminal' /\ NoChatsYet' /\ FileIsTold'
  <2>1. detector.todo = {}
    BY <1>1 DEF SnapshotInv, TodoIsTerminal
  <2>2. QED
    BY <1>1, <1>2, <2>1 DEF SnapshotInv, TodoIsTerminal, NoChatsYet, FileIsTold
<1>9. FileHasChats'
  BY <1>2, <1>3, <1>4 DEF FileHasChats
<1>10. HandlerTruth'
  BY <1>1, <1>2, <1>3, <1>5, <1>6 DEF HandlerTruth
<1>11. QED
  BY <1>7, <1>8, <1>9, <1>10 DEF SnapshotInv

\* The handler of one session while it runs: nobody else does.
LEMMA OneHandler ==
    ASSUME TypeOK, SnapshotInv, NEW t \in Tasks, Active(t)
    PROVE  /\ up = "up" /\ detector.pc = "asleep" /\ detector.todo = {}
           /\ task[t].session \in Sessions
           /\ \A u \in Tasks \ {t} : ~Active(u)
           /\ \A r \in Sessions \ {task[t].session} : r \in file <=> Chat(r)
<1>1. up = "up" /\ detector.pc = "asleep" /\ detector.todo = {}
  BY DEF SnapshotInv, Alone, TodoIsTerminal
<1>2. task[t].session \in Sessions /\ \A u \in Tasks \ {t} : ~Active(u)
  BY DEF SnapshotInv, Alone, TypeOK, Active
<1>3. \A r \in Sessions \ {task[t].session} : Untouched(r)
  BY <1>2 DEF Untouched
<1>4. QED
  BY <1>1, <1>2, <1>3 DEF SnapshotInv, FileHasChats

LEMMA SnapshotRecord ==
    ASSUME TypeOK, SnapshotInv, NEW t \in Tasks, Record(t)
    PROVE  SnapshotInv'
<1>0. row \in RowsType /\ Active(t)
  BY DEF TypeOK, RowsType, Record, Active
<1>s. PICK s \in Sessions : s = task[t].session
  BY <1>0, OneHandler
<1>1. /\ up = "up" /\ detector.pc = "asleep" /\ detector.todo = {} /\ s \in Sessions
      /\ \A u \in Tasks \ {t} : ~Active(u)
      /\ \A r \in Sessions \ {s} : r \in file <=> Chat(r)
  BY <1>0, <1>s, OneHandler
<1>2. /\ UNCHANGED <<up, file, loaded, detector, told>>
      /\ row' = [row EXCEPT ![s] = Upsert(s)]
      /\ task' = [task EXCEPT ![t].pc = "list"]
      /\ task[t].pc = "record"
  BY <1>s DEF Record
<1>3. row'[s] = Upsert(s) /\ \A r \in Sessions \ {s} : row'[r] = row[r]
  BY <1>0, <1>1, <1>2 DEF RowsType
<1>4. Chat(s)'
  <2>1. Upsert(s).kind = "interactive" /\ ~Upsert(s).ended
    BY DEF Upsert
  <2>2. Upsert(s) # None
    BY <1>0, <1>1, UpsertType, ConstantsAssumption DEF ConstantsAssumption, RowType
  <2>3. QED
    BY <1>3, <2>1, <2>2 DEF Chat, Live, Known
<1>5. \A r \in Sessions \ {s} : Chat(r)' <=> Chat(r)
  BY <1>3 DEF Chat, Live, Known
<1>6. /\ task'[t].pc = "list" /\ task'[t].session = s /\ task'[t].goal = task[t].goal
      /\ \A u \in Tasks \ {t} : task'[u] = task[u]
  BY <1>2, <1>s DEF TypeOK
<1>7. told[s] = "unsure" /\ task[t].goal = "open"
  BY <1>0, <1>2, <1>s DEF SnapshotInv, HandlerTruth
<1>8. Active(t)' /\ \A u \in Tasks \ {t} : ~Active(u)'
  BY <1>1, <1>6 DEF Active
<1>9. Alone' /\ TodoIsTerminal' /\ NoChatsYet' /\ FileIsTold'
  BY <1>1, <1>2, <1>8 DEF SnapshotInv, Alone, TodoIsTerminal, NoChatsYet, FileIsTold
<1>10. FileHasChats'
  <2>1. ~Untouched(s)'
    BY <1>6, <1>8 DEF Untouched
  <2>2. QED
    BY <1>1, <1>2, <1>5, <2>1 DEF FileHasChats
<1>11. HandlerTruth'
  BY <1>2, <1>4, <1>6, <1>7, <1>8 DEF HandlerTruth
<1>12. QED
  BY <1>9, <1>10, <1>11 DEF SnapshotInv

LEMMA SnapshotList ==
    ASSUME TypeOK, SnapshotInv, NEW t \in Tasks, List(t)
    PROVE  SnapshotInv'
<1> DEFINE chats == {s \in Sessions : Chat(s)}
<1>0. Active(t)
  BY DEF List, Active
<1>1. /\ \A u \in Tasks \ {t} : ~Active(u)
      /\ task[t].session \in Sessions
  BY <1>0, OneHandler
<1>2. /\ UNCHANGED <<up, row, file, loaded, detector, told>>
      /\ task' = [task EXCEPT ![t].pc = "write", ![t].saved = chats]
      /\ task[t].pc = "list"
  BY DEF List
<1>c. \A r \in Sessions : r \in chats <=> Chat(r)
  OBVIOUS
<1> HIDE DEF chats
<1>3. \A r \in Sessions : Chat(r)' <=> Chat(r)
  BY <1>2 DEF Chat, Live, Known
<1>4. /\ task'[t].pc = "write" /\ task'[t].session = task[t].session
      /\ task'[t].goal = task[t].goal /\ task'[t].saved = chats
      /\ \A u \in Tasks \ {t} : task'[u] = task[u]
  <2> DEFINE rec == [task[t] EXCEPT !.pc = "write", !.saved = chats]
  <2>1. /\ rec.pc = "write" /\ rec.session = task[t].session
        /\ rec.goal = task[t].goal /\ rec.saved = chats
    BY DEF TypeOK
  <2>2. task' = [task EXCEPT ![t] = rec]
    BY <1>2 DEF TypeOK
  <2> HIDE DEF rec
  <2>3. QED
    BY <2>1, <2>2 DEF TypeOK
<1>5. \A u \in Tasks : Active(u)' <=> Active(u)
  BY <1>0, <1>4 DEF Active
<1>6. Alone' /\ TodoIsTerminal' /\ NoChatsYet' /\ FileIsTold'
  <2>1. \A e \in detector.todo : e.of \in Sessions
    BY DEF TypeOK
  <2>2. QED
    BY <1>2, <1>3, <1>5, <2>1
       DEF SnapshotInv, Alone, TodoIsTerminal, NoChatsYet, FileIsTold
<1>7. FileHasChats'
  <2>1. \A u \in Tasks : task'[u].session = task[u].session
    BY <1>4
  <2>2. \A r \in Sessions : Untouched(r)' <=> Untouched(r)
    BY <1>5, <2>1 DEF Untouched
  <2>3. QED
    BY <1>2, <1>3, <2>2 DEF SnapshotInv, FileHasChats
<1>8. HandlerTruth'
  <2>1. \A u \in Tasks \ {t} : ~Active(u)'
    BY <1>1, <1>5
  <2>2. /\ told[task[t].session] \in {"unsure", task[t].goal}
        /\ task[t].goal = "open" => Chat(task[t].session)
        /\ task[t].goal = "closed" => ~Chat(task[t].session)
    BY <1>0, <1>2 DEF SnapshotInv, HandlerTruth
  <2>3. QED
    BY <1>1, <1>2, <1>3, <1>4, <1>c, <2>1, <2>2 DEF HandlerTruth
<1>9. QED
  BY <1>6, <1>7, <1>8 DEF SnapshotInv

\* The list is never refused: the file it replaces has at most one chat more.
LEMMA SnapshotWrite ==
    ASSUME Sound, TypeOK, SnapshotInv, NEW t \in Tasks, Write(t)
    PROVE  SnapshotInv'
<1> DEFINE s == task[t].session
           saved == task[t].saved
<1>0. Active(t) /\ task[t].pc = "write"
  BY DEF Write, Active
<1>1. /\ up = "up" /\ detector.pc = "asleep" /\ detector.todo = {} /\ s \in Sessions
      /\ \A u \in Tasks \ {t} : ~Active(u)
      /\ \A r \in Sessions \ {s} : r \in file <=> Chat(r)
  BY <1>0, OneHandler
<1>2. /\ \A r \in Sessions : r \in saved <=> Chat(r)
      /\ task[t].goal = "open" => Chat(s)
      /\ task[t].goal = "closed" => ~Chat(s)
  BY <1>0 DEF SnapshotInv, HandlerTruth
<1>3. ~Refused(saved)
  <2> SUFFICES ASSUME saved = {} PROVE ~(Cardinality(file) > 1)
    BY DEF Refused
  <2>1. file \in SUBSET {s}
    BY <1>1, <1>2 DEF TypeOK
  <2>2. IsFiniteSet({s}) /\ Cardinality({s}) = 1
    BY FS_Singleton
  <2>3. IsFiniteSet(file) /\ Cardinality(file) <= Cardinality({s})
    BY <2>1, <2>2, FS_Subset
  <2>4. Cardinality(file) \in Nat
    BY <2>3, FS_CardinalityType
  <2>5. QED
    BY <2>2, <2>3, <2>4
<1>4. /\ UNCHANGED <<up, row, loaded, detector>>
      /\ file' = saved
      /\ task' = [task EXCEPT ![t] = Idle]
      /\ told' = [told EXCEPT ![s] = task[t].goal]
  BY <1>3 DEF Write, Sound
<1>5. \A r \in Sessions : Chat(r)' <=> Chat(r)
  BY <1>4 DEF Chat, Live, Known
<1>6. \A u \in Tasks : ~Active(u)'
  BY <1>1, <1>4 DEF Active, Idle, TypeOK
<1>7. /\ told'[s] = task[t].goal /\ \A r \in Sessions \ {s} : told'[r] = told[r]
  BY <1>1, <1>4 DEF TypeOK
<1> HIDE DEF s, saved
<1>8. Alone' /\ TodoIsTerminal' /\ NoChatsYet' /\ HandlerTruth'
  BY <1>1, <1>4, <1>6 DEF Alone, TodoIsTerminal, NoChatsYet, HandlerTruth
<1>9. FileHasChats'
  BY <1>2, <1>4, <1>5 DEF FileHasChats
<1>10. FileIsTold'
  <2>1. \A r \in Sessions \ {s} : /\ told[r] = "open" => r \in saved
                                  /\ told[r] = "closed" => r \notin saved
    BY <1>1, <1>2 DEF SnapshotInv, FileIsTold
  <2>2. QED
    BY <1>2, <1>4, <1>7, <2>1 DEF FileIsTold
<1>11. QED
  BY <1>8, <1>9, <1>10 DEF SnapshotInv

\* A crash forgets the rows; the start makes them again from the file.
LEMMA SnapshotStart ==
    ASSUME Sound, TypeOK, SnapshotInv, Crash \/ Start
    PROVE  SnapshotInv'
<1>0. row \in RowsType
  BY DEF TypeOK, RowsType
<1>1. CASE Crash
  <2>1. /\ UNCHANGED <<file, told>> /\ up' = "down"
        /\ row' = [r \in Sessions |-> None] /\ task' = [t \in Tasks |-> Idle]
        /\ detector' = Asleep
    BY <1>1 DEF Crash
  <2>2. (\A t \in Tasks : ~Active(t)') /\ detector'.pc = "asleep" /\ detector'.todo = {}
    BY <2>1 DEF Active, Idle, Asleep
  <2>3. \A r \in Sessions : ~Chat(r)'
    BY <2>1 DEF Chat, Live, Known
  <2>4. QED
    BY <2>1, <2>2, <2>3
       DEF SnapshotInv, Alone, TodoIsTerminal, NoChatsYet, FileHasChats, FileIsTold, HandlerTruth
<1>2. CASE Start
  <2>1. up # "up" /\ UNCHANGED <<file, task, detector, told>>
    BY <1>2 DEF Start, Boot, LoadSnapshot, PopulateRegistry, AdoptExternalSessions
  <2>2. \A t \in Tasks : ~Active(t)
    BY <2>1 DEF SnapshotInv, Alone
  <2>3. \A t \in Tasks : ~Active(t)'
    BY <2>1, <2>2 DEF Active
  <2>4. Alone' /\ HandlerTruth' /\ FileIsTold'
    BY <2>1, <2>3 DEF Alone, HandlerTruth, FileIsTold, SnapshotInv
  <2>e. \A e \in detector.todo : e.of \in Sessions
    BY DEF TypeOK
  <2>u. UNCHANGED row => \A r \in Sessions : Chat(r)' <=> Chat(r)
    BY DEF Chat, Live, Known
  <2>5. CASE Boot \/ LoadSnapshot
    <3>1. /\ UNCHANGED row /\ up \in {"down", "booting"} /\ up' \in {"booting", "loaded"}
          /\ up' = "loaded" => loaded' = file
      BY <2>5 DEF Boot, LoadSnapshot
    <3>2. TodoIsTerminal' /\ NoChatsYet' /\ FileHasChats'
      BY <2>1, <2>e, <2>u, <3>1
         DEF SnapshotInv, TodoIsTerminal, NoChatsYet, FileHasChats
    <3>3. QED
      BY <2>4, <3>2 DEF SnapshotInv
  <2>6. CASE PopulateRegistry
    <3>1. /\ up = "loaded" /\ up' = "restored" /\ detector.pc = "asleep"
          /\ row' = [r \in Sessions |-> IF r \in loaded THEN Upsert(r) ELSE row[r]]
      BY <2>6 DEF PopulateRegistry, Sound
    <3>2. loaded = file /\ (\A r \in Sessions : ~Chat(r)) /\ detector.todo = {}
      BY <3>1 DEF SnapshotInv, NoChatsYet, TodoIsTerminal
    <3>3. ASSUME NEW r \in Sessions PROVE Chat(r)' <=> r \in file
      <4>1. CASE r \in file
        <5>1. row'[r] = Upsert(r)
          BY <3>1, <3>2, <4>1
        <5>2. Upsert(r).kind = "interactive" /\ ~Upsert(r).ended
          BY DEF Upsert
        <5>3. Upsert(r) # None
          BY <1>0, UpsertType, ConstantsAssumption DEF ConstantsAssumption, RowType
        <5>4. QED
          BY <4>1, <5>1, <5>2, <5>3 DEF Chat, Live, Known
      <4>2. CASE r \notin file
        <5>1. row'[r] = row[r]
          BY <3>1, <3>2, <4>2
        <5>2. QED
          BY <3>2, <4>2, <5>1 DEF Chat, Live, Known
      <4>3. QED
        BY <4>1, <4>2
    <3>4. TodoIsTerminal' /\ NoChatsYet' /\ FileHasChats'
      BY <2>1, <3>1, <3>2, <3>3 DEF TodoIsTerminal, NoChatsYet, FileHasChats
    <3>5. QED
      BY <2>4, <3>4 DEF SnapshotInv
  <2>7. CASE AdoptExternalSessions
    <3>1. /\ up = "restored" /\ up' = "up" /\ UNCHANGED loaded
          /\ \A r \in Sessions :
                \/ row'[r] = row[r]
                \/ \E pid \in Pids : row'[r] = Registered(row, r, pid)
      <4>1. /\ up = "restored" /\ up' = "up" /\ UNCHANGED loaded
            /\ row' = [r \in Sessions |->
                         IF Runs(r)
                         THEN Registered(row, r, CHOOSE p \in Alive : proc[p].of = r)
                         ELSE row[r]]
        BY <2>7 DEF AdoptExternalSessions
      <4>2. ASSUME NEW r \in Sessions, Runs(r)
            PROVE  (CHOOSE p \in Alive : proc[p].of = r) \in Pids
        BY <4>2 DEF Runs, Alive
      <4>3. QED
        BY <4>1, <4>2
    <3>2. ASSUME NEW r \in Sessions PROVE Chat(r)' <=> Chat(r)
      <4>1. CASE row'[r] = row[r]
        BY <4>1 DEF Chat, Live, Known
      <4>2. ASSUME NEW pid \in Pids, row'[r] = Registered(row, r, pid)
            PROVE  Chat(r)' <=> Chat(r)
        BY <4>2, RegisteredChat
      <4>3. QED
        BY <3>1, <4>1, <4>2
    <3>3. \A r \in Sessions : Untouched(r)
      BY <2>2 DEF Untouched
    <3>4. TodoIsTerminal' /\ NoChatsYet' /\ FileHasChats'
      BY <2>1, <2>e, <3>1, <3>2, <3>3
         DEF SnapshotInv, TodoIsTerminal, NoChatsYet, FileHasChats
    <3>5. QED
      BY <2>4, <3>4 DEF SnapshotInv
  <2>8. QED
    BY <1>2, <2>5, <2>6, <2>7 DEF Start
<1>3. QED
  BY <1>1, <1>2

LEMMA SnapshotStep ==
    ASSUME Sound, TypeOK, SnapshotInv, [Next]_vars
    PROVE  SnapshotInv'
<1>1. ASSUME UNCHANGED vars PROVE SnapshotInv'
  <2>1. \A s \in Sessions : Chat(s)' <=> Chat(s)
    BY <1>1 DEF vars, Chat, Live, Known
  <2>2. \A e \in detector.todo : e.of \in Sessions
    BY DEF TypeOK
  <2>3. TodoIsTerminal' /\ \A t \in Tasks : Active(t) => detector'.pc = "asleep"
    BY <1>1, <2>1, <2>2 DEF vars, SnapshotInv, Alone, TodoIsTerminal
  <2>4. QED
    BY <1>1, <2>1, <2>3, SnapshotKept DEF vars
<1>2. ASSUME NEW t \in Tasks, Handler(t) PROVE SnapshotInv'
  BY <1>2, SnapshotRecord, SnapshotList, SnapshotWrite DEF Handler
<1>3. QED
  BY <1>1, <1>2, SnapshotRpc, SnapshotTurn, SnapshotTerminal, SnapshotPass, SnapshotStart
     DEF Next

\* The daemon that serves has the in-app chats the user was told are open and
\* none of those he was told are closed (persistence.rs:1-12), however often it
\* crashes between two steps of a handler and restores its snapshot.
THEOREM SnapshotRestores ==
    ASSUME Sound
    PROVE  Spec => []ServesWhatWasTold
<1>1. Init => SnapshotInv
  BY DEF Init, SnapshotInv, Alone, TodoIsTerminal, NoChatsYet, FileHasChats,
     FileIsTold, HandlerTruth, Active, Idle, Asleep, Chat, Live, Known
<1>2. TypeOK /\ SnapshotInv /\ [Next]_vars => SnapshotInv'
  BY SnapshotStep
<1>3. ASSUME TypeOK, SnapshotInv PROVE ServesWhatWasTold
  <2> SUFFICES ASSUME up = "up", NEW s \in Sessions
               PROVE  /\ told[s] = "open" => Chat(s)
                      /\ told[s] = "closed" => ~Chat(s)
    BY DEF ServesWhatWasTold
  <2>1. CASE Untouched(s)
    BY <1>3, <2>1 DEF SnapshotInv, FileHasChats, FileIsTold
  <2>2. ASSUME NEW t \in Tasks, Active(t), task[t].session = s
        PROVE  /\ told[s] = "open" => Chat(s)
               /\ told[s] = "closed" => ~Chat(s)
    BY <1>3, <2>2 DEF SnapshotInv, HandlerTruth
  <2>3. QED
    BY <2>1, <2>2 DEF Untouched
<1>4. QED
  BY <1>1, <1>2, <1>3, TypeCorrect, PTL DEF Spec

-----------------------------------------------------------------------------
(* The two strikes, where a session is resumed only when the daemon has let go
   of it, and a session file names the process that runs. *)

Apart == Env \cap {"overlap", "resume", "staleFiles"} = {}

Booting == up \in {"booting", "loaded", "restored"}

\* A session has one process at a time, and none starts before the hook of the
\* last one is through.
OneProcess ==
    \A p, q \in Pids :
        proc[p].of = proc[q].of /\ p # q /\ (proc[p].alive \/ proc[p].hook # "done")
        => ~proc[q].alive /\ proc[q].hook = "done"

\* The pid of a terminal's row is that of the process that runs it, if any does.
PidIsCurrent ==
    \A s \in Sessions : Terminal(s) /\ row[s].pid # 0 =>
        \A q \in Alive : proc[q].of = s => q = row[s].pid

Gone(s) == Terminal(s) /\ row[s].pid # 0 /\ ~Runs(s)

\* A row that was gone, and may have been restored as an in-app chat since.
NotBack(s) == Gone(s) \/ (Chat(s) /\ ~Runs(s))

\* What a pass has not seen, and has seen absent before, is gone.
ScanIsTrue ==
    detector.pc = "scanned" =>
        \A s \in Sessions :
            /\ Terminal(s) /\ row[s].pid # 0 /\ row[s].pid \notin detector.live
            /\ s \in strikes \/ Booting
            => ~Runs(s)

TodoIsTrue ==
    /\ \A e \in detector.todo : Absent(e) /\ (e.of \in strikes \/ Booting) => NotBack(e.of)
    /\ \A e, f \in detector.todo : e.of = f.of => e = f
    /\ detector.pc # "judging" => detector.todo = {}

\* While the daemon starts, a strike is about a row it still has.
StrikesAreTrue ==
    /\ Booting => \A s \in strikes : Chat(s) \/ Gone(s)
    /\ up = "down" => strikes = {} /\ detector.pc = "asleep"

\* What a pass knows of the processes, apart from who handles what.
PassInv == PidIsCurrent /\ ScanIsTrue /\ TodoIsTrue /\ StrikesAreTrue

\* Processes that were there, some of them gone by now, their hooks further on.
FewerProcesses ==
    \A p \in Pids : /\ proc'[p].of = proc[p].of
                    /\ proc'[p].alive => proc[p].alive
                    /\ proc'[p].hook # "done" => proc[p].hook # "done"

LEMMA ProcessEnds ==
    ASSUME TypeOK, NEW p, proc' = [proc EXCEPT ![p].alive = FALSE]
    PROVE  FewerProcesses
<1> DEFINE rec == [proc[p] EXCEPT !.alive = FALSE]
<1>1. p \in Pids => rec.of = proc[p].of /\ rec.hook = proc[p].hook /\ ~rec.alive
  BY DEF TypeOK, ProcType
<1>2. proc' = [proc EXCEPT ![p] = rec]
  OBVIOUS
<1> HIDE DEF rec
<1>3. \A q \in Pids : proc'[q] = IF q = p THEN rec ELSE proc[q]
  BY <1>2 DEF TypeOK
<1>4. QED
  BY <1>1, <1>3 DEF FewerProcesses

\* No step but a start brings a process.
LEMMA ProcessSteps ==
    ASSUME TypeOK, [Next]_vars
    PROVE  FewerProcesses \/ \E s \in Sessions : TerminalStarts(s)
<1>1. ASSUME NEW p \in Pids, NEW hook, proc[p].hook # "done" \/ hook = "done",
             proc' = [proc EXCEPT ![p].hook = hook]
      PROVE  FewerProcesses
  BY <1>1 DEF FewerProcesses, TypeOK, ProcType
<1>2. ASSUME NEW p, proc' = [proc EXCEPT ![p].alive = FALSE]
      PROVE  FewerProcesses
  BY <1>2, ProcessEnds
<1>3. ASSUME UNCHANGED proc PROVE FewerProcesses
  BY <1>3 DEF FewerProcesses
<1>4. ASSUME NEW t \in Tasks, NEW s \in Sessions,
             Open(t, s) \/ End(t, s) \/ Externalize(t, s) \/ Takeover(t, s) \/ TurnEnds(t, s)
      PROVE  FewerProcesses
  BY <1>2, <1>3, <1>4 DEF Open, End, Externalize, Takeover, TurnEnds
<1>5. ASSUME NEW t \in Tasks, Handler(t) PROVE FewerProcesses
  BY <1>3, <1>5 DEF Handler, Record, List, Write
<1>6. ASSUME NEW p \in Pids, OnSessionStart(p) \/ SetPid(p) \/ OnSessionEnd(p) \/ TerminalDies(p)
      PROVE  FewerProcesses
  BY <1>1, <1>2, <1>6 DEF OnSessionStart, SetPid, OnSessionEnd, TerminalDies
<1>7. Pass \/ Crash \/ Start \/ UNCHANGED vars \/ (\E s \in Sessions : Prune(s)) => FewerProcesses
  BY <1>3 DEF Pass, Scan, ListRows, PassEnds, Judge, Crash, Start, Boot, LoadSnapshot,
     PopulateRegistry, AdoptExternalSessions, Prune, vars
<1>8. QED
  BY <1>4, <1>5, <1>6, <1>7 DEF Next

\* A terminal that starts, in a session that has none and no hook under way.
LEMMA ProcessStarts ==
    ASSUME Apart, TypeOK, NEW s \in Sessions, TerminalStarts(s)
    PROVE  /\ UNCHANGED <<up, row, task, detector, strikes>>
           /\ ~Runs(s) /\ Settled(s)
           /\ ~Known(s) \/ (Terminal(s) /\ row[s].pid = 0)
           /\ \E p \in Pids : /\ proc'[p].of = s
                              /\ \A q \in Pids \ {p} : proc'[q] = proc[q]
<1>1. PICK p \in Pids :
        proc' = [proc EXCEPT ![p] = [of |-> s, alive |-> TRUE, hook |-> "due"]]
  BY DEF TerminalStarts
<1>2. proc'[p].of = s /\ \A q \in Pids \ {p} : proc'[q] = proc[q]
  BY <1>1 DEF TypeOK
<1>3. /\ UNCHANGED <<up, row, task, detector, strikes>>
      /\ ~Runs(s) /\ Settled(s)
      /\ ~Known(s) \/ (Terminal(s) /\ row[s].pid = 0)
  BY DEF TerminalStarts, Apart
<1>4. QED
  BY <1>2, <1>3

LEMMA OneProcessStep ==
    ASSUME Apart, TypeOK, OneProcess, [Next]_vars
    PROVE  OneProcess'
<1>1. CASE FewerProcesses
  BY <1>1 DEF FewerProcesses, OneProcess
<1>2. ASSUME NEW s \in Sessions, TerminalStarts(s) PROVE OneProcess'
  <2>1. PICK p \in Pids : /\ proc'[p].of = s
                          /\ \A q \in Pids \ {p} : proc'[q] = proc[q]
    BY <1>2, ProcessStarts
  <2>2. \A q \in Pids : proc[q].of = s => ~proc[q].alive /\ proc[q].hook = "done"
    BY <1>2, ProcessStarts DEF Runs, Settled, Alive
  <2>3. QED
    BY <2>1, <2>2 DEF OneProcess
<1>3. QED
  BY <1>1, <1>2, ProcessSteps

\* A row's pid stays current while the row stays and no process comes.
LEMMA PidKept ==
    ASSUME PidIsCurrent, FewerProcesses,
           \A s \in Sessions : \/ row'[s] = row[s]
                               \/ Terminal(s)' => row'[s].pid = 0
    PROVE  PidIsCurrent'
<1> SUFFICES ASSUME NEW s \in Sessions, Terminal(s)', row'[s].pid # 0,
                    NEW q \in Alive', proc'[q].of = s
             PROVE  q = row'[s].pid
  BY DEF PidIsCurrent
<1>1. row'[s] = row[s] /\ Terminal(s)
  BY DEF Terminal, Live, Known
<1>2. q \in Alive /\ proc[q].of = s
  BY DEF FewerProcesses, Alive
<1>3. QED
  BY <1>1, <1>2 DEF PidIsCurrent

\* A pass keeps its truth while the rows it is about stay, and none of their
\* processes comes.
LEMMA StrikesKept ==
    ASSUME TypeOK, ScanIsTrue, TodoIsTrue, StrikesAreTrue,
           UNCHANGED <<up, detector, strikes>>,
           \A s \in Sessions : NotBack(s) => NotBack(s)',
           Booting => \A s \in Sessions : Chat(s) => Chat(s)',
           detector.pc = "scanned" =>
              \A s \in Sessions : Terminal(s)' /\ row'[s].pid # 0
                                  => row'[s] = row[s] /\ (~Runs(s) => ~Runs(s)')
    PROVE  ScanIsTrue' /\ TodoIsTrue' /\ StrikesAreTrue'
<1>1. Booting' <=> Booting
  BY DEF Booting
<1>2. ScanIsTrue'
  <2> SUFFICES ASSUME detector.pc = "scanned", NEW s \in Sessions, Terminal(s)',
                      row'[s].pid # 0, row'[s].pid \notin detector.live,
                      s \in strikes \/ Booting
               PROVE  ~Runs(s)'
    BY <1>1 DEF ScanIsTrue
  <2>1. row'[s] = row[s] /\ (~Runs(s) => ~Runs(s)')
    OBVIOUS
  <2>2. Terminal(s)
    BY <2>1 DEF Terminal, Live, Known
  <2>3. QED
    BY <2>1, <2>2 DEF ScanIsTrue
<1>3. TodoIsTrue'
  <2>1. \A e \in detector.todo : e.of \in Sessions
    BY DEF TypeOK
  <2>2. QED
    BY <1>1, <2>1 DEF TodoIsTrue, Absent
<1>4. StrikesAreTrue'
  BY <1>1 DEF StrikesAreTrue, TypeOK, NotBack
<1>5. QED
  BY <1>2, <1>3, <1>4

LEMMA GoneStays ==
    ASSUME FewerProcesses
    PROVE  /\ \A s : ~Runs(s) => ~Runs(s)'
           /\ \A s : UNCHANGED row /\ Gone(s) => Gone(s)'
           /\ \A s \in Sessions : row'[s] = row[s] /\ Gone(s) => Gone(s)'
           /\ \A s \in Sessions : row'[s] = row[s] /\ NotBack(s) => NotBack(s)'
<1>1. \A s : ~Runs(s) => ~Runs(s)'
  BY DEF FewerProcesses, Runs, Alive
<1>2. QED
  BY <1>1 DEF NotBack, Gone, Chat, Terminal, Live, Known

LEMMA AwakeOnly ==
    ASSUME TypeOK, detector'.pc = "asleep", detector'.todo = {}, up' = "up"
    PROVE  ScanIsTrue' /\ TodoIsTrue' /\ StrikesAreTrue'
  BY DEF ScanIsTrue, TodoIsTrue, StrikesAreTrue, Booting

LEMMA PassRpc ==
    ASSUME Apart, TypeOK, PassInv, NEW t \in Tasks,
           \/ \E s \in Sessions : \/ Open(t, s) \/ End(t, s) \/ Externalize(t, s)
                                  \/ Takeover(t, s) \/ TurnEnds(t, s)
           \/ Handler(t)
    PROVE  PassInv'
<1>0. row \in RowsType
  BY DEF TypeOK, RowsType
<1>1. UNCHANGED <<up, detector, strikes>>
  BY DEF Open, End, Externalize, Takeover, TurnEnds, Begin, Handler, Record, List, Write
<1>3. FewerProcesses
  <2>1. CASE \E s \in Sessions : Takeover(t, s)
    <3>1. PICK p : proc' = [proc EXCEPT ![p].alive = FALSE]
      BY <2>1 DEF Takeover
    <3>2. QED
      BY <3>1, ProcessEnds
  <2>2. CASE ~\E s \in Sessions : Takeover(t, s)
    <3>1. UNCHANGED proc
      BY <2>2 DEF Open, End, Externalize, TurnEnds, Handler, Record, List, Write
    <3>2. QED
      BY <3>1 DEF FewerProcesses
  <2>3. QED
    BY <2>1, <2>2
<1>4. \A s \in Sessions : row'[s] = row[s] \/ (Terminal(s)' => row'[s].pid = 0)
  <2>1. ASSUME NEW s \in Sessions, row' = [row EXCEPT ![s] = Upsert(s)], NEW r \in Sessions
        PROVE  row'[r] = row[r] \/ (Terminal(r)' => row'[r].pid = 0)
    <3>1. row'[s].kind = "interactive" /\ \A q \in Sessions \ {s} : row'[q] = row[q]
      BY <1>0, <2>1 DEF RowsType, Upsert
    <3>2. ~Terminal(s)'
      BY <3>1 DEF Terminal
    <3>3. QED
      BY <3>1, <3>2
  <2>2. ASSUME NEW s \in Sessions, End(t, s), NEW r \in Sessions
        PROVE  row'[r] = row[r] \/ (Terminal(r)' => row'[r].pid = 0)
    <3>1. row' = MarkEnded(s) /\ Known(s)
      BY <2>2 DEF End, Chat, Live
    <3>2. row'[s].ended /\ \A q \in Sessions \ {s} : row'[q] = row[q]
      BY <3>1, MarkEndedRow
    <3>3. ~Terminal(s)'
      BY <3>2 DEF Terminal, Live
    <3>4. QED
      BY <3>2, <3>3
  <2>3. ASSUME NEW s \in Sessions, Externalize(t, s), NEW r \in Sessions
        PROVE  row'[r] = row[r] \/ (Terminal(r)' => row'[r].pid = 0)
    <3>1. Known(s) /\ row' = [row EXCEPT ![s].kind = "external", ![s].pid = 0]
      BY <2>3 DEF Externalize, Chat, Live
    <3>2. row[s] \in RowType
      BY <1>0, <3>1, KnownRow
    <3>3. row'[s].pid = 0 /\ \A q \in Sessions \ {s} : row'[q] = row[q]
      BY <1>0, <3>1, <3>2 DEF RowsType, RowType
    <3>4. QED
      BY <3>3
  <2>4. ASSUME UNCHANGED row, NEW r \in Sessions PROVE row'[r] = row[r]
    BY <2>4
  <2>5. CASE Handler(t)
    <3>1. UNCHANGED row \/ Record(t)
      BY <2>5 DEF Handler, List, Write
    <3>2. Record(t) => /\ task[t].session \in Sessions
                       /\ row' = [row EXCEPT ![task[t].session] = Upsert(task[t].session)]
      BY DEF Record, TypeOK
    <3>3. PICK s : s = task[t].session
      OBVIOUS
    <3>4. QED
      BY <2>1, <2>4, <3>1, <3>2, <3>3
  <2>6. ASSUME NEW s \in Sessions, Open(t, s) PROVE row' = [row EXCEPT ![s] = Upsert(s)]
    BY <2>6 DEF Open
  <2>7. ASSUME NEW s \in Sessions, Takeover(t, s) \/ TurnEnds(t, s) PROVE UNCHANGED row
    BY <2>7 DEF Takeover, TurnEnds
  <2>8. QED
    BY <2>1, <2>2, <2>3, <2>4, <2>5, <2>6, <2>7
<1>5. PidIsCurrent'
  BY <1>3, <1>4, PidKept DEF PassInv
<1>6. CASE \E s \in Sessions : End(t, s) \/ Externalize(t, s)
  <2>1. up = "up" /\ detector.pc = "asleep" /\ detector.todo = {}
    BY <1>6 DEF End, Externalize, Accepts, Calm, Apart, PassInv, TodoIsTrue
  <2>2. QED
    BY <1>1, <1>5, <2>1, AwakeOnly DEF PassInv
<1>7. CASE ~\E s \in Sessions : End(t, s) \/ Externalize(t, s)
  <2>1. \A s \in Sessions : row'[s] = row[s] \/ (Chat(s)' /\ ~Terminal(s)')
    <3>1. ASSUME NEW s \in Sessions, row' = [row EXCEPT ![s] = Upsert(s)]
          PROVE  \A r \in Sessions : row'[r] = row[r] \/ (Chat(r)' /\ ~Terminal(r)')
      <4>1. row'[s] = Upsert(s) /\ \A r \in Sessions \ {s} : row'[r] = row[r]
        BY <1>0, <3>1 DEF RowsType
      <4>2. Upsert(s).kind = "interactive" /\ ~Upsert(s).ended
        BY DEF Upsert
      <4>3. Upsert(s) # None
        BY <1>0, UpsertType, ConstantsAssumption DEF ConstantsAssumption, RowType
      <4>4. QED
        BY <4>1, <4>2, <4>3 DEF Chat, Terminal, Live, Known
    <3>2. CASE Handler(t)
      <4>1. UNCHANGED row \/ Record(t)
        BY <3>2 DEF Handler, List, Write
      <4>2. Record(t) => /\ task[t].session \in Sessions
                         /\ row' = [row EXCEPT ![task[t].session] = Upsert(task[t].session)]
        BY DEF Record, TypeOK
      <4>3. PICK s : s = task[t].session
        OBVIOUS
      <4>4. QED
        BY <3>1, <4>1, <4>2, <4>3
    <3>3. ASSUME NEW s \in Sessions, Open(t, s) PROVE row' = [row EXCEPT ![s] = Upsert(s)]
      BY <3>3 DEF Open
    <3>4. ASSUME NEW s \in Sessions, Takeover(t, s) \/ TurnEnds(t, s) PROVE UNCHANGED row
      BY <3>4 DEF Takeover, TurnEnds
    <3>5. QED
      BY <1>7, <3>1, <3>2, <3>3, <3>4
  <2>2. \A s \in Sessions : NotBack(s) => NotBack(s)'
    BY <1>3, <2>1, GoneStays DEF NotBack, Gone
  <2>3. \A s \in Sessions : Chat(s) => Chat(s)'
    <3>1. \A s \in Sessions : row'[s] = row[s] /\ Chat(s) => Chat(s)'
      BY DEF Chat, Live, Known
    <3>2. QED
      BY <2>1, <3>1
  <2>4. \A s \in Sessions : Terminal(s)' /\ row'[s].pid # 0
                            => row'[s] = row[s] /\ (~Runs(s) => ~Runs(s)')
    BY <1>3, <2>1, GoneStays
  <2>5. QED
    BY <1>1, <1>5, <2>2, <2>3, <2>4, StrikesKept DEF PassInv
<1>8. QED
  BY <1>6, <1>7

LEMMA PassTerminal ==
    ASSUME Apart, TypeOK, OneProcess, PassInv,
           \/ \E s \in Sessions : TerminalStarts(s) \/ Prune(s)
           \/ \E p \in Pids : \/ OnSessionStart(p) \/ SetPid(p)
                              \/ OnSessionEnd(p) \/ TerminalDies(p)
    PROVE  PassInv'
<1>0. row \in RowsType
  BY DEF TypeOK, RowsType
<1>1. ASSUME NEW s \in Sessions, TerminalStarts(s) PROVE PassInv'
  <2>1. /\ UNCHANGED <<up, row, task, detector, strikes>>
        /\ ~Known(s) \/ (Terminal(s) /\ row[s].pid = 0)
    BY <1>1, ProcessStarts
  <2>2. PICK p \in Pids : /\ proc'[p].of = s
                          /\ \A q \in Pids \ {p} : proc'[q] = proc[q]
    BY <1>1, ProcessStarts
  <2>3. \A r \in Sessions : /\ Terminal(r)' <=> Terminal(r)
                            /\ Chat(r)' <=> Chat(r)
    BY <2>1 DEF Terminal, Chat, Live, Known
  <2>4. ~(Terminal(s) /\ row[s].pid # 0)
    BY <2>1 DEF Terminal, Live
  <2>5. \A r \in Sessions \ {s}, q \in Alive' : proc'[q].of = r => q \in Alive /\ proc[q].of = r
    BY <2>2 DEF Alive
  <2>6. \A r \in Sessions \ {s} : ~Runs(r) => ~Runs(r)'
    BY <2>5 DEF Runs
  <2>7. PidIsCurrent'
    BY <2>1, <2>3, <2>4, <2>5 DEF PassInv, PidIsCurrent
  <2>8. \A r \in Sessions : NotBack(r) => NotBack(r)'
    <3>1. ~NotBack(s)
      BY <2>1, <2>4 DEF NotBack, Gone, Chat, Terminal, Live
    <3>2. QED
      BY <2>1, <2>3, <2>6, <3>1 DEF NotBack, Gone
  <2>9. \A r \in Sessions : Terminal(r)' /\ row'[r].pid # 0
                            => row'[r] = row[r] /\ (~Runs(r) => ~Runs(r)')
    BY <2>1, <2>3, <2>4, <2>6
  <2>10. QED
    BY <2>1, <2>3, <2>7, <2>8, <2>9, StrikesKept DEF PassInv
<1>2. ASSUME FewerProcesses, UNCHANGED <<up, detector, strikes>>,
             \A s \in Sessions : Chat(s)' <=> Chat(s),
             \A s \in Sessions : \/ row'[s] = row[s]
                                 \/ ~Gone(s) /\ (Terminal(s)' => row'[s].pid = 0)
      PROVE  PassInv'
  <2>1. PidIsCurrent'
    BY <1>2, PidKept DEF PassInv
  <2>2. \A s \in Sessions : NotBack(s) => NotBack(s)'
    BY <1>2, GoneStays DEF NotBack
  <2>3. \A s \in Sessions : Terminal(s)' /\ row'[s].pid # 0
                            => row'[s] = row[s] /\ (~Runs(s) => ~Runs(s)')
    BY <1>2, GoneStays
  <2>4. QED
    BY <1>2, <2>1, <2>2, <2>3, StrikesKept DEF PassInv
<1>3. ASSUME NEW s \in Sessions, Prune(s) PROVE PassInv'
  <2>1. /\ UNCHANGED <<up, detector, strikes, proc>>
        /\ row' = [row EXCEPT ![s] = None] /\ row[s].ended
    BY <1>3 DEF Prune
  <2>2. row'[s] = None /\ \A r \in Sessions \ {s} : row'[r] = row[r]
    BY <2>1 DEF TypeOK
  <2>3. ~Gone(s) /\ ~Chat(s) /\ ~Chat(s)' /\ ~Terminal(s)'
    BY <2>1, <2>2 DEF Gone, Terminal, Chat, Live, Known
  <2>4. \A r \in Sessions \ {s} : Chat(r)' <=> Chat(r)
    BY <2>2 DEF Chat, Live, Known
  <2>5. FewerProcesses
    BY <2>1 DEF FewerProcesses
  <2>6. QED
    BY <1>2, <2>1, <2>2, <2>3, <2>4, <2>5
<1>4. ASSUME NEW p \in Pids, OnSessionStart(p) PROVE PassInv'
  <2>1. /\ UNCHANGED <<up, detector, strikes>> /\ \A s \in Sessions : Chat(s)' <=> Chat(s)
    BY <1>4, TerminalChats DEF OnSessionStart
  <2>2. FewerProcesses
    BY <1>4 DEF OnSessionStart, FewerProcesses, TypeOK, ProcType
  <2>3. \A s \in Sessions : \/ row'[s] = row[s]
                            \/ ~Gone(s) /\ (Terminal(s)' => row'[s].pid = 0)
    <3>1. proc[p].of \in Sessions
      BY <1>4 DEF OnSessionStart, TypeOK
    <3>2. CASE up = "down"
      BY <1>4, <3>2 DEF OnSessionStart
    <3>3. CASE up # "down"
      <4>1. /\ row'[proc[p].of] = Registered(row, proc[p].of, 0)
            /\ \A s \in Sessions \ {proc[p].of} : row'[s] = row[s]
        BY <1>0, <1>4, <3>1, <3>3 DEF OnSessionStart, RowsType
      <4>2. \/ row'[proc[p].of] = row[proc[p].of]
            \/ row[proc[p].of] = None /\ row'[proc[p].of].pid = 0
        BY <4>1 DEF Registered
      <4>3. row[proc[p].of] = None => ~Gone(proc[p].of)
        BY DEF Gone, Terminal, Live, Known
      <4>4. QED
        BY <4>1, <4>2, <4>3
    <3>4. QED
      BY <3>2, <3>3
  <2>4. QED
    BY <1>2, <2>1, <2>2, <2>3
<1>5. ASSUME NEW p \in Pids, SetPid(p) PROVE PassInv'
  <2>0. /\ proc[p].of \in Sessions /\ proc[p].hook # "done" /\ detector.pc # "scanned"
        /\ UNCHANGED <<up, detector, strikes>>
    BY <1>5 DEF SetPid, TypeOK, Apart
  <2>1. row' = IF Known(proc[p].of) THEN [row EXCEPT ![proc[p].of].pid = p] ELSE row
    BY <1>5 DEF SetPid, FilesOf, Apart
  <2>2. /\ FewerProcesses /\ \A s \in Sessions : Chat(s)' <=> Chat(s)
    BY <1>5, TerminalChats DEF SetPid, FewerProcesses, TypeOK, ProcType
  <2>3. ASSUME NEW s \in Sessions, s # proc[p].of PROVE row'[s] = row[s]
    BY <1>0, <2>0, <2>1, <2>3 DEF RowsType
  <2>4. PICK o \in Sessions : o = proc[p].of
    BY <2>0
  <2>5. Known(o) => /\ row'[o].pid = p /\ row'[o].kind = row[o].kind
                    /\ row'[o].ended = row[o].ended /\ Known(o)'
    <3> SUFFICES ASSUME Known(o)
                 PROVE  /\ row'[o].pid = p /\ row'[o].kind = row[o].kind
                        /\ row'[o].ended = row[o].ended /\ Known(o)'
      OBVIOUS
    <3> DEFINE rec == [row[o] EXCEPT !.pid = p]
    <3>1. row[o] \in RowType /\ p \in 0..MaxProcs
      BY <1>0, KnownRow, PidType
    <3>2. /\ rec \in RowType /\ rec.kind = row[o].kind /\ rec.ended = row[o].ended
          /\ rec.pid = p
      BY <3>1 DEF RowType
    <3>3. row' = [row EXCEPT ![o] = rec]
      BY <1>0, <2>1, <2>4 DEF RowsType
    <3> HIDE DEF rec
    <3>4. row'[o] = rec /\ rec # None
      BY <1>0, <3>2, <3>3, ConstantsAssumption DEF RowsType, RowType, ConstantsAssumption
    <3>5. QED
      BY <3>2, <3>4 DEF Known
  <2>6. ~Known(o) => row'[o] = row[o]
    BY <2>1, <2>4
  <2>7. p # 0
    BY ConstantsAssumption DEF Pids, ConstantsAssumption
  <2>8. \A s \in Sessions : NotBack(s) => NotBack(s)'
    <3>1. NotBack(o) => NotBack(o)'
      BY <2>2, <2>5, <2>7, GoneStays DEF NotBack, Gone, Chat, Terminal, Live
    <3>2. QED
      BY <2>2, <2>3, <2>4, <3>1, GoneStays
  <2>9. PidIsCurrent'
    <3>1. ASSUME NEW q \in Alive', proc'[q].of = o, Known(o) PROVE q = row'[o].pid
      <4>1. q \in Pids /\ proc[q].alive /\ proc[q].of = o
        BY <2>2, <3>1 DEF Alive, FewerProcesses
      <4>2. q = p
        BY <2>0, <2>4, <4>1 DEF OneProcess
      <4>3. QED
        BY <2>5, <3>1, <4>2
    <3>2. ASSUME NEW s \in Sessions, s # o, Terminal(s)', row'[s].pid # 0,
                 NEW q \in Alive', proc'[q].of = s
          PROVE  q = row'[s].pid
      <4>1. row'[s] = row[s] /\ Terminal(s)
        BY <2>3, <2>4, <3>2 DEF Terminal, Live, Known
      <4>2. q \in Alive /\ proc[q].of = s
        BY <2>2, <3>2 DEF FewerProcesses, Alive
      <4>3. QED
        BY <3>2, <4>1, <4>2 DEF PassInv, PidIsCurrent
    <3>3. ~Known(o) => ~Terminal(o)'
      BY <2>6 DEF Terminal, Live, Known
    <3>4. QED
      BY <3>1, <3>2, <3>3 DEF PidIsCurrent
  <2>10. QED
    BY <2>0, <2>2, <2>8, <2>9, StrikesKept DEF PassInv
<1>6. ASSUME NEW p \in Pids, OnSessionEnd(p) PROVE PassInv'
  <2>1. PICK o \in Sessions : o = proc[p].of
    BY <1>6 DEF OnSessionEnd, TypeOK
  <2>2. /\ UNCHANGED <<up, detector, strikes>> /\ \A s \in Sessions : Chat(s)' <=> Chat(s)
    BY <1>6, TerminalChats DEF OnSessionEnd
  <2>3. FewerProcesses
    <3>1. proc' = [proc EXCEPT ![p].alive = FALSE]
      BY <1>6 DEF OnSessionEnd
    <3>2. QED
      BY <3>1, ProcessEnds
  <2>4. Runs(o)
    BY <1>6, <2>1 DEF OnSessionEnd, Runs, Alive
  <2>5. \A s \in Sessions : \/ row'[s] = row[s]
                            \/ ~Gone(s) /\ (Terminal(s)' => row'[s].pid = 0)
    <3>1. row' = row \/ row' = MarkEnded(o)
      BY <1>6, <2>1 DEF OnSessionEnd
    <3>2. ASSUME row' = MarkEnded(o), NEW s \in Sessions, row'[s] # row[s]
          PROVE  ~Gone(s) /\ (Terminal(s)' => row'[s].pid = 0)
      <4>1. s = o /\ row'[s].ended
        BY <3>2, MarkEndedRow
      <4>2. ~Terminal(s)' /\ ~Gone(s)
        BY <2>4, <4>1 DEF Terminal, Live, Gone
      <4>3. QED
        BY <4>2
    <3>3. QED
      BY <3>1, <3>2
  <2>6. QED
    BY <1>2, <2>2, <2>3, <2>5
<1>7. ASSUME NEW p \in Pids, TerminalDies(p) PROVE PassInv'
  <2>1. /\ UNCHANGED <<up, detector, strikes, row>> /\ \A s \in Sessions : Chat(s)' <=> Chat(s)
    BY <1>7, TerminalChats DEF TerminalDies
  <2>2. FewerProcesses
    <3>1. proc' = [proc EXCEPT ![p].alive = FALSE]
      BY <1>7 DEF TerminalDies
    <3>2. QED
      BY <3>1, ProcessEnds
  <2>3. QED
    BY <1>2, <2>1, <2>2
<1>8. QED
  BY <1>1, <1>3, <1>4, <1>5, <1>6, <1>7

LEMMA PassDetector ==
    ASSUME TypeOK, PassInv, Pass
    PROVE  PassInv'
<1>e. \A e \in detector.todo : e.of \in Sessions
  BY DEF TypeOK
<1>u. UNCHANGED <<row, proc>> =>
        \A s \in Sessions : /\ Gone(s)' <=> Gone(s)
                            /\ NotBack(s)' <=> NotBack(s)
                            /\ Chat(s)' <=> Chat(s)
                            /\ Terminal(s)' <=> Terminal(s)
                            /\ Runs(s)' <=> Runs(s)
  BY DEF NotBack, Gone, Chat, Terminal, Live, Known, Runs, Alive
<1>p. UNCHANGED <<row, proc>> => PidIsCurrent'
  <2> SUFFICES ASSUME UNCHANGED <<row, proc>> PROVE PidIsCurrent'
    OBVIOUS
  <2>1. FewerProcesses
    BY DEF FewerProcesses
  <2>2. QED
    BY <2>1, PidKept DEF PassInv
<1>b. UNCHANGED up => (Booting' <=> Booting)
  BY DEF Booting
<1>1. CASE Scan
  <2>1. /\ UNCHANGED <<up, row, strikes, proc>> /\ up # "down"
        /\ detector'.pc = "scanned" /\ detector'.live = Alive /\ detector'.todo = {}
    BY <1>1 DEF Scan
  <2>2. ScanIsTrue'
    <3> SUFFICES ASSUME NEW s \in Sessions, Terminal(s), row[s].pid # 0,
                        row[s].pid \notin Alive, Runs(s)
                 PROVE  FALSE
      BY <1>u, <2>1 DEF ScanIsTrue
    <3>1. QED
      BY DEF PassInv, PidIsCurrent, Runs
  <2>3. TodoIsTrue'
    BY <2>1 DEF TodoIsTrue
  <2>4. StrikesAreTrue'
    BY <1>u, <1>b, <2>1 DEF PassInv, StrikesAreTrue, TypeOK
  <2>5. QED
    BY <1>p, <2>1, <2>2, <2>3, <2>4 DEF PassInv
<1>2. CASE ListRows
  <2>1. /\ UNCHANGED <<up, row, strikes, proc>> /\ detector.pc = "scanned"
        /\ detector'.pc = "judging" /\ detector'.live = detector.live
        /\ detector'.todo = {[of |-> s, pid |-> row[s].pid] : s \in Judged}
    BY <1>2 DEF ListRows, TypeOK
  <2>2. ScanIsTrue'
    BY <2>1 DEF ScanIsTrue
  <2>3. TodoIsTrue'
    <3>1. \A e \in detector'.todo : /\ e.of \in Judged /\ e.pid = row[e.of].pid
                                    /\ e = [of |-> e.of, pid |-> e.pid]
      BY <2>1
    <3>2. ASSUME NEW e \in detector'.todo, e.pid \notin detector.live,
                 e.of \in strikes \/ Booting
          PROVE  NotBack(e.of)
      BY <2>1, <3>1, <3>2 DEF PassInv, ScanIsTrue, Judged, NotBack, Gone
    <3>3. \A e \in detector'.todo : e.of \in Sessions
      BY <3>1 DEF Judged
    <3>4. QED
      BY <1>b, <1>u, <2>1, <3>1, <3>2, <3>3 DEF TodoIsTrue, Absent
  <2>4. StrikesAreTrue'
    BY <1>u, <1>b, <2>1 DEF PassInv, StrikesAreTrue, TypeOK
  <2>5. QED
    BY <1>p, <2>1, <2>2, <2>3, <2>4 DEF PassInv
<1>3. CASE PassEnds
  <2>1. /\ UNCHANGED <<up, row, strikes, proc>>
        /\ detector'.pc = "asleep" /\ detector'.todo = {}
    BY <1>3 DEF PassEnds, Asleep
  <2>2. ScanIsTrue' /\ TodoIsTrue'
    BY <2>1 DEF ScanIsTrue, TodoIsTrue
  <2>3. StrikesAreTrue'
    BY <1>u, <1>b, <2>1 DEF PassInv, StrikesAreTrue, TypeOK
  <2>4. QED
    BY <1>p, <2>1, <2>2, <2>3 DEF PassInv
<1>4. ASSUME NEW e \in detector.todo, Judge(e) PROVE PassInv'
  <2>1. /\ UNCHANGED <<up, proc>>
        /\ detector'.pc = detector.pc /\ detector'.live = detector.live
        /\ detector'.todo = detector.todo \ {e}
        /\ strikes' = IF Absent(e) /\ e.of \notin strikes THEN strikes \cup {e.of}
                      ELSE strikes \ {e.of}
        /\ row' = IF Absent(e) /\ e.of \in strikes THEN MarkEnded(e.of) ELSE row
    BY <1>4 DEF Judge, TypeOK
  <2>2. e.of \in Sessions /\ detector.pc = "judging"
    BY <1>e DEF PassInv, TodoIsTrue
  <2>3. FewerProcesses
    BY <2>1 DEF FewerProcesses
  <2>4. \A s \in Sessions \ {e.of} : row'[s] = row[s]
    BY <2>1, <2>2, MarkEndedRow
  <2>5. row'[e.of] = row[e.of] \/ ~Terminal(e.of)'
    <3>1. CASE Known(e.of) /\ row' = MarkEnded(e.of)
      <4>1. row'[e.of].ended
        BY <2>2, <3>1, MarkEndedRow
      <4>2. QED
        BY <4>1 DEF Terminal, Live
    <3>2. CASE ~(Known(e.of) /\ row' = MarkEnded(e.of))
      BY <2>1, <2>2, <3>2, MarkEndedRow
    <3>3. QED
      BY <3>1, <3>2
  <2>6. PidIsCurrent'
    <3>1. \A s \in Sessions : row'[s] = row[s] \/ (Terminal(s)' => row'[s].pid = 0)
      BY <2>4, <2>5
    <3>2. QED
      BY <2>3, <3>1, PidKept DEF PassInv
  <2>7. ScanIsTrue'
    BY <2>1, <2>2 DEF ScanIsTrue
  <2>8. TodoIsTrue'
    <3>1. ASSUME NEW f \in detector.todo \ {e}, Absent(f), f.of \in strikes' \/ Booting
          PROVE  NotBack(f.of)'
      <4>1. f.of # e.of /\ f.of \in Sessions
        BY <1>e, <3>1 DEF PassInv, TodoIsTrue
      <4>2. f.of \in strikes \/ Booting
        BY <2>1, <3>1, <4>1
      <4>3. NotBack(f.of)
        BY <3>1, <4>2 DEF PassInv, TodoIsTrue
      <4>4. QED
        BY <2>3, <2>4, <4>1, <4>3, GoneStays
    <3>2. \A f \in detector'.todo : Absent(f)' <=> Absent(f)
      BY <2>1 DEF Absent
    <3>3. \A f, g \in detector'.todo : f.of = g.of => f = g
      BY <2>1 DEF PassInv, TodoIsTrue
    <3>4. QED
      BY <1>b, <2>1, <2>2, <3>1, <3>2, <3>3 DEF TodoIsTrue
  <2>9. StrikesAreTrue'
    <3>1. up # "down"
      BY <2>2 DEF PassInv, StrikesAreTrue
    <3>2. ASSUME Booting, NEW s \in strikes' PROVE Chat(s)' \/ Gone(s)'
      <4>1. CASE s = e.of
        <5>1. Absent(e) /\ e.of \notin strikes
          BY <2>1, <3>2, <4>1
        <5>2. Gone(s) \/ Chat(s)
          BY <3>2, <4>1, <5>1 DEF PassInv, TodoIsTrue, NotBack
        <5>3. row' = row
          BY <2>1, <5>1
        <5>4. QED
          BY <1>u, <2>1, <2>2, <4>1, <5>2, <5>3
      <4>2. CASE s # e.of
        <5>1. s \in strikes /\ s \in Sessions
          BY <2>1, <3>2, <4>2 DEF TypeOK
        <5>2. Chat(s) \/ Gone(s)
          BY <3>2, <5>1 DEF PassInv, StrikesAreTrue
        <5>3. row'[s] = row[s]
          BY <2>4, <4>2, <5>1
        <5>4. Chat(s) => Chat(s)'
          BY <5>3 DEF Chat, Live, Known
        <5>5. QED
          BY <2>3, <5>1, <5>2, <5>3, <5>4, GoneStays
      <4>3. QED
        BY <4>1, <4>2
    <3>3. QED
      BY <1>b, <2>1, <3>1, <3>2 DEF StrikesAreTrue
  <2>10. QED
    BY <2>6, <2>7, <2>8, <2>9 DEF PassInv
<1>5. QED
  BY <1>1, <1>2, <1>3, <1>4 DEF Pass

LEMMA PassStart ==
    ASSUME Apart, TypeOK, OneProcess, PassInv, Crash \/ Start
    PROVE  PassInv'
<1>0. row \in RowsType
  BY DEF TypeOK, RowsType
<1>f. FewerProcesses
  <2>1. UNCHANGED proc
    BY DEF Crash, Start, Boot, LoadSnapshot, PopulateRegistry, AdoptExternalSessions
  <2>2. QED
    BY <2>1 DEF FewerProcesses
<1>1. CASE Crash
  <2>1. /\ up' = "down" /\ row' = [s \in Sessions |-> None]
        /\ detector' = Asleep /\ strikes' = {}
    BY <1>1 DEF Crash
  <2>2. \A s \in Sessions : ~Terminal(s)'
    BY <2>1 DEF Terminal, Live, Known
  <2>3. QED
    BY <2>1, <2>2 DEF PassInv, PidIsCurrent, ScanIsTrue, TodoIsTrue, StrikesAreTrue,
       Booting, Asleep
<1>2. CASE Boot
  <2>1. /\ UNCHANGED <<row, detector, strikes>> /\ up' = "booting"
        /\ strikes = {} /\ detector.pc = "asleep" /\ detector.todo = {}
    BY <1>2 DEF Boot, PassInv, StrikesAreTrue, TodoIsTrue
  <2>2. PidIsCurrent'
    BY <1>f, <2>1, PidKept DEF PassInv
  <2>3. ScanIsTrue' /\ TodoIsTrue' /\ StrikesAreTrue'
    BY <2>1 DEF ScanIsTrue, TodoIsTrue, StrikesAreTrue
  <2>4. QED
    BY <2>2, <2>3 DEF PassInv
<1>3. CASE LoadSnapshot
  <2>1. /\ UNCHANGED <<row, detector, strikes, proc>> /\ up' = "loaded" /\ Booting
    BY <1>3 DEF LoadSnapshot, Booting
  <2>2. Booting'
    BY <2>1 DEF Booting
  <2>3. PidIsCurrent'
    BY <1>f, <2>1, PidKept DEF PassInv
  <2>4. \A s : /\ (Gone(s)' <=> Gone(s)) /\ (Chat(s)' <=> Chat(s))
               /\ (NotBack(s)' <=> NotBack(s))
               /\ (Terminal(s)' <=> Terminal(s)) /\ (Runs(s)' <=> Runs(s))
    BY <2>1 DEF NotBack, Gone, Chat, Terminal, Live, Known, Runs, Alive
  <2>5. ScanIsTrue' /\ TodoIsTrue' /\ StrikesAreTrue'
    BY <2>1, <2>2, <2>4 DEF PassInv, ScanIsTrue, TodoIsTrue, StrikesAreTrue, Absent
  <2>6. QED
    BY <2>3, <2>5 DEF PassInv
<1>4. CASE PopulateRegistry
  <2>1. /\ UNCHANGED <<detector, strikes>> /\ up' = "restored" /\ Booting /\ Booting'
    BY <1>4 DEF PopulateRegistry, Booting
  <2>2. PICK there \in SUBSET Sessions :
          row' = [s \in Sessions |-> IF s \in there THEN Upsert(s) ELSE row[s]]
    <3>1. \A there \in IF "unmounted" \in Env THEN SUBSET loaded ELSE {loaded} :
             there \in SUBSET Sessions
      BY DEF TypeOK
    <3>2. QED
      BY <1>4, <3>1 DEF PopulateRegistry
  <2>3. ASSUME NEW s \in there PROVE Chat(s)' /\ ~Terminal(s)'
    <3>1. row'[s] = Upsert(s)
      BY <2>2, <2>3
    <3>2. Upsert(s).kind = "interactive" /\ ~Upsert(s).ended
      BY DEF Upsert
    <3>3. Upsert(s) # None
      BY <1>0, <2>3, UpsertType, ConstantsAssumption DEF ConstantsAssumption, RowType
    <3>4. QED
      BY <3>1, <3>2, <3>3 DEF Chat, Terminal, Live, Known
  <2>4. \A s \in Sessions \ there : row'[s] = row[s]
    BY <2>2
  <2>5. PidIsCurrent'
    <3>1. \A s \in Sessions : row'[s] = row[s] \/ (Terminal(s)' => row'[s].pid = 0)
      BY <2>3, <2>4
    <3>2. QED
      BY <1>f, <3>1, PidKept DEF PassInv
  <2>6. StrikesAreTrue'
    <3>1. ASSUME NEW s \in strikes PROVE Chat(s)' \/ Gone(s)'
      <4>1. (Chat(s) \/ Gone(s)) /\ s \in Sessions
        BY <2>1 DEF PassInv, StrikesAreTrue, TypeOK
      <4>2. s \notin there => row'[s] = row[s]
        BY <2>4, <4>1
      <4>3. row'[s] = row[s] /\ Chat(s) => Chat(s)'
        BY DEF Chat, Live, Known
      <4>4. QED
        BY <1>f, <2>3, <4>1, <4>2, <4>3, GoneStays
    <3>2. QED
      BY <2>1, <3>1 DEF StrikesAreTrue
  <2>7. ScanIsTrue'
    <3> SUFFICES ASSUME detector.pc = "scanned", NEW s \in Sessions, Terminal(s)',
                        row'[s].pid # 0, row'[s].pid \notin detector.live
                 PROVE  ~Runs(s)'
      BY <2>1 DEF ScanIsTrue
    <3>1. row'[s] = row[s]
      BY <2>3, <2>4
    <3>2. Terminal(s)
      BY <3>1 DEF Terminal, Live, Known
    <3>3. ~Runs(s)
      BY <2>1, <3>1, <3>2 DEF PassInv, ScanIsTrue
    <3>4. QED
      BY <1>f, <3>3, GoneStays
  <2>8. TodoIsTrue'
    <3>1. \A s \in Sessions : NotBack(s) => NotBack(s)'
      BY <1>f, <2>3, <2>4, GoneStays DEF NotBack, Gone
    <3>2. \A e \in detector.todo : e.of \in Sessions
      BY DEF TypeOK
    <3>3. QED
      BY <2>1, <3>1, <3>2 DEF PassInv, TodoIsTrue, Absent
  <2>9. QED
    BY <2>5, <2>6, <2>7, <2>8 DEF PassInv
<1>5. CASE AdoptExternalSessions
  <2>1. /\ UNCHANGED <<detector, strikes, proc>> /\ up' = "up" /\ Booting
        /\ row' = [s \in Sessions |->
                     IF Runs(s)
                     THEN Registered(row, s, CHOOSE p \in Alive : proc[p].of = s)
                     ELSE row[s]]
    BY <1>5 DEF AdoptExternalSessions, Booting
  <2>2. ~Booting'
    BY <2>1 DEF Booting
  <2>3. ASSUME NEW s \in Sessions, row'[s] # row[s]
        PROVE  /\ row[s] = None
               /\ row'[s].pid \in Alive /\ proc[row'[s].pid].of = s
    <3>1. Runs(s) /\ row'[s] = Registered(row, s, CHOOSE p \in Alive : proc[p].of = s)
      BY <2>1, <2>3
    <3>2. /\ (CHOOSE p \in Alive : proc[p].of = s) \in Alive
          /\ proc[CHOOSE p \in Alive : proc[p].of = s].of = s
      BY <3>1 DEF Runs
    <3>3. QED
      BY <2>3, <3>1, <3>2 DEF Registered
  <2>4. ASSUME NEW s \in Sessions, row[s] # None PROVE row'[s] = row[s]
    BY <2>3, <2>4
  <2>5. PidIsCurrent'
    <3> SUFFICES ASSUME NEW s \in Sessions, Terminal(s)', row'[s].pid # 0,
                        NEW q \in Alive, proc[q].of = s
                 PROVE  q = row'[s].pid
      BY <2>1 DEF PidIsCurrent, Alive
    <3>1. CASE row'[s] = row[s]
      BY <3>1 DEF PassInv, PidIsCurrent, Terminal, Live, Known
    <3>2. CASE row'[s] # row[s]
      BY <2>3, <3>2 DEF OneProcess, Alive
    <3>3. QED
      BY <3>1, <3>2
  <2>6. \A s \in Sessions : NotBack(s) => NotBack(s)'
    <3>1. \A s \in Sessions : NotBack(s) => row[s] # None
      BY DEF NotBack, Gone, Chat, Terminal, Live, Known
    <3>2. QED
      BY <1>f, <2>4, <3>1, GoneStays
  <2>7. ScanIsTrue'
    <3> SUFFICES ASSUME detector.pc = "scanned", NEW s \in Sessions, Terminal(s)',
                        row'[s].pid # 0, row'[s].pid \notin detector.live, s \in strikes
                 PROVE  ~Runs(s)
      BY <2>1, <2>2 DEF ScanIsTrue, Runs, Alive
    <3>1. row[s] # None
      BY <2>1 DEF PassInv, StrikesAreTrue, Gone, Chat, Terminal, Live, Known
    <3>2. row'[s] = row[s] /\ Terminal(s)
      BY <2>4, <3>1 DEF Terminal, Live, Known
    <3>3. QED
      BY <3>2 DEF PassInv, ScanIsTrue
  <2>8. TodoIsTrue'
    <3>1. \A e \in detector.todo : e.of \in Sessions
      BY DEF TypeOK
    <3>2. QED
      BY <2>1, <2>2, <2>6, <3>1 DEF PassInv, TodoIsTrue, Absent
  <2>9. StrikesAreTrue'
    BY <2>1, <2>2 DEF StrikesAreTrue
  <2>10. QED
    BY <2>5, <2>7, <2>8, <2>9 DEF PassInv
<1>6. QED
  BY <1>1, <1>2, <1>3, <1>4, <1>5 DEF Start

LEMMA StrikeStep ==
    ASSUME Apart, TypeOK, OneProcess, PassInv, [Next]_vars
    PROVE  OneProcess' /\ PassInv'
<1>1. ASSUME UNCHANGED vars PROVE PassInv'
  BY <1>1 DEF vars, PassInv, PidIsCurrent, ScanIsTrue, TodoIsTrue, StrikesAreTrue, Booting,
     Absent, NotBack, Gone, Chat, Terminal, Live, Known, Runs, Alive
<1>2. PassInv'
  BY <1>1, PassRpc, PassTerminal, PassDetector, PassStart DEF Next
<1>3. QED
  BY <1>2, OneProcessStep

\* Two strikes never end a session under a terminal that runs it (detector.rs),
\* also when the daemon restores its rows, adopts a terminal or starts a chat
\* while a pass that knows of none of it is under way, unless a session is
\* resumed before the daemon has let go of it, handlers overlap with a pass, or
\* a hook takes its pid from a file that is stale.
THEOREM StrikesAreFair ==
    ASSUME Apart
    PROVE  Spec => NotEndedWhileItRuns
<1>1. Init => OneProcess /\ PassInv
  BY DEF Init, OneProcess, PassInv, PidIsCurrent, ScanIsTrue, TodoIsTrue,
     StrikesAreTrue, Booting, Asleep, Terminal, Live, Known
<1>2. TypeOK /\ OneProcess /\ PassInv /\ [Next]_vars => OneProcess' /\ PassInv'
  BY StrikeStep
<1>3. ASSUME TypeOK, PassInv, NEW e \in detector.todo, Judge(e), Live(e.of),
             row'[e.of].ended
      PROVE  ~Runs(e.of)
  <2>1. Absent(e) /\ e.of \in strikes
    BY <1>3 DEF Judge, Live
  <2>2. QED
    BY <1>3, <2>1 DEF PassInv, TodoIsTrue, NotBack, Gone
<1>4. TypeOK /\ PassInv =>
        [\A e \in detector.todo : (Judge(e) /\ Live(e.of) /\ row'[e.of].ended) => ~Runs(e.of)]_vars
  BY <1>3
<1>5. QED
  BY <1>1, <1>2, <1>4, TypeCorrect, PTL DEF Spec, NotEndedWhileItRuns
=============================================================================
