------------------------------- MODULE Registry -------------------------------
(***************************************************************************)
(* The daemon's registry of sessions over its restarts: the rows it keeps  *)
(* in memory, the snapshot of the in-app chats it saves after every change *)
(* and restores at its start, the terminal sessions it hears of through    *)
(* hooks or adopts, and the detector that ends those whose process is gone.*)
(***************************************************************************)
EXTENDS Naturals, FiniteSets

CONSTANTS
    Sessions,
    Tasks,     \* RPC handlers
    MaxProcs,  \* terminal processes that ever run
    Env,       \* what the environment may do, see EnvChoices
    None

(* "overlap"    RPC handlers run beside each other and beside the detector
   "early"      a scheduled chat starts, or a pass of the detector is under
                way, while the daemon restores its rows
   "diskFull"   a write of the snapshot fails, which is only logged
   "unmounted"  a session's directory may be missing when the daemon starts
   "staleFiles" a killed terminal's session file is read for a live one
   "resume"     a session known to the daemon is resumed in a terminal       *)
EnvChoices == {"overlap", "early", "diskFull", "unmounted", "staleFiles", "resume"}

ASSUME ConstantsAssumption ==
    /\ MaxProcs \in Nat
    /\ Env \subseteq EnvChoices
    /\ None \notin [kind : {"interactive", "external"}, ended : BOOLEAN, pid : 0..MaxProcs]

VARIABLES
    up,       \* the daemon
    row,      \* Registry.inner
    file,     \* interactive-sessions.json
    loaded,   \* what the start has read from it
    task,     \* RPC handlers under way
    detector, \* the detector's pass
    strikes,  \* sessions with one strike
    proc,     \* terminal processes, by pid
    told      \* history: what the user knows of each session as an in-app chat

vars == <<up, row, file, loaded, task, detector, strikes, proc, told>>

Pids == 1..MaxProcs

RowType == [kind : {"interactive", "external"}, ended : BOOLEAN, pid : 0..MaxProcs]

\* hook: what is left of the process's SessionStart hook.
ProcType == [of : Sessions \cup {None}, alive : BOOLEAN, hook : {"due", "enrich", "done"}]

Idle == [pc |-> "idle", session |-> None, goal |-> "open", saved |-> {}]
Asleep == [pc |-> "asleep", live |-> {}, todo |-> {}]

Init ==
    /\ up = "up"
    /\ row = [s \in Sessions |-> None]
    /\ file = {} /\ loaded = {}
    /\ task = [t \in Tasks |-> Idle]
    /\ detector = Asleep /\ strikes = {}
    /\ proc = [p \in Pids |-> [of |-> None, alive |-> FALSE, hook |-> "done"]]
    /\ told = [s \in Sessions |-> "closed"]

Known(s) == row[s] # None
Live(s) == Known(s) /\ ~row[s].ended
Chat(s) == Live(s) /\ row[s].kind = "interactive"
Terminal(s) == Live(s) /\ row[s].kind = "external"

Alive == {p \in Pids : proc[p].alive}
Runs(s) == \E p \in Alive : proc[p].of = s

\* No hook of a terminal that ran s is still on its way.
Settled(s) == \A p \in Pids : proc[p].of = s => proc[p].hook = "done"

-----------------------------------------------------------------------------
(* Operations on a row *)

\* upsert_interactive, record_interactive_session: the pid is kept.
Upsert(s) == [kind |-> "interactive", ended |-> FALSE,
              pid |-> IF Known(s) THEN row[s].pid ELSE 0]

\* Registry::register: a row that exists is left alone.
Registered(rows, s, pid) ==
    IF rows[s] # None THEN rows[s]
    ELSE [kind |-> "external", ended |-> FALSE, pid |-> pid]

MarkEnded(s) == IF Known(s) THEN [row EXCEPT ![s].ended = TRUE] ELSE row

-----------------------------------------------------------------------------
(* RPC handlers: each changes a row, lists the chats, and writes the list *)

Calm == "overlap" \in Env \/ (detector.pc = "asleep" /\ \A t \in Tasks : task[t].pc = "idle")

Accepts(t) == task[t].pc = "idle" /\ up = "up" /\ Calm

Begin(t, s, pc, goal) ==
    /\ task' = [task EXCEPT ![t] = [pc |-> pc, session |-> s, goal |-> goal, saved |-> {}]]
    /\ told' = [told EXCEPT ![s] = "unsure"]
    /\ UNCHANGED <<up, file, loaded, detector, strikes>>

\* start_session, a scheduled new chat, register_historical.
Open(t, s) ==
    /\ Accepts(t) \/ ("early" \in Env /\ up = "booting" /\ task[t].pc = "idle")
    /\ ~Live(s) /\ ~Runs(s) /\ ("resume" \in Env \/ Settled(s))
    /\ row' = [row EXCEPT ![s] = Upsert(s)]
    /\ Begin(t, s, "list", "open")
    /\ UNCHANGED proc

\* end_session, mark_session_ended, a confirmed /close.
End(t, s) ==
    /\ Accepts(t) /\ Chat(s)
    /\ row' = MarkEnded(s)
    /\ Begin(t, s, "list", "closed")
    /\ UNCHANGED proc

\* externalize_session: the user goes on in a terminal.
Externalize(t, s) ==
    /\ Accepts(t) /\ Chat(s)
    /\ row' = [row EXCEPT ![s].kind = "external", ![s].pid = 0]
    /\ Begin(t, s, "list", "closed")
    /\ UNCHANGED proc

\* takeover_manual: the terminal's process is killed ...
Takeover(t, s) ==
    /\ Accepts(t) /\ Terminal(s) /\ row[s].pid # 0
    /\ proc' = [proc EXCEPT ![row[s].pid].alive = FALSE]
    /\ Begin(t, s, "record", "open")
    /\ UNCHANGED row

\* ... and the session is recorded as an in-app chat.
Record(t) ==
    /\ task[t].pc = "record"
    /\ row' = [row EXCEPT ![task[t].session] = Upsert(task[t].session)]
    /\ task' = [task EXCEPT ![t].pc = "list"]
    /\ UNCHANGED <<up, file, loaded, detector, strikes, proc, told>>

\* The end of a turn saves too.
TurnEnds(t, s) ==
    /\ Accepts(t) /\ Chat(s)
    /\ task' = [task EXCEPT ![t] = [pc |-> "list", session |-> s, goal |-> told[s],
                                    saved |-> {}]]
    /\ UNCHANGED <<up, row, file, loaded, detector, strikes, proc, told>>

\* save_snapshot: the live in-app chats are listed ...
List(t) ==
    /\ task[t].pc = "list"
    /\ task' = [task EXCEPT ![t].pc = "write", ![t].saved = {s \in Sessions : Chat(s)}]
    /\ UNCHANGED <<up, row, file, loaded, detector, strikes, proc, told>>

\* Mutant: a shrinking list is never written.
RefusedIfSmaller(saved) == Cardinality(saved) < Cardinality(file)

\* Nothing is never written over several chats.
Refused(saved) == saved = {} /\ Cardinality(file) > 1

\* ... and written over the file; the call returns.
Write(t) ==
    /\ task[t].pc = "write"
    /\ LET saved == task[t].saved IN
         IF Refused(saved) THEN UNCHANGED file
         ELSE file' = saved \/ ("diskFull" \in Env /\ file' = file)
    /\ task' = [task EXCEPT ![t] = Idle]
    /\ told' = [told EXCEPT ![task[t].session] = task[t].goal]
    /\ UNCHANGED <<up, row, loaded, detector, strikes, proc>>

-----------------------------------------------------------------------------
(* Terminals and their hooks *)

\* A session the daemon knows is resumed in a terminal at once only by "resume".
TerminalStarts(s) ==
    /\ ~Runs(s)
    /\ \/ Settled(s) /\ ~Known(s) /\ told[s] = "closed"
       \/ Settled(s) /\ Terminal(s) /\ row[s].pid = 0
       \/ "resume" \in Env
    /\ \E p \in Pids :
         /\ proc[p].of = None /\ \A q \in 1..(p - 1) : proc[q].of # None
         /\ proc' = [proc EXCEPT ![p] = [of |-> s, alive |-> TRUE, hook |-> "due"]]
    /\ UNCHANGED <<up, row, file, loaded, task, detector, strikes, told>>

\* on_session_start; a daemon that is down does not hear of it.
OnSessionStart(p) ==
    /\ proc[p].hook = "due"
    /\ IF up = "down"
       THEN /\ proc' = [proc EXCEPT ![p].hook = "done"]
            /\ UNCHANGED row
       ELSE /\ proc' = [proc EXCEPT ![p].hook = "enrich"]
            /\ row' = [row EXCEPT ![proc[p].of] = Registered(row, proc[p].of, 0)]
    /\ UNCHANGED <<up, file, loaded, task, detector, strikes, told>>

\* The session files that name s; a process that exits by itself removes its own.
FilesOf(p) ==
    IF "staleFiles" \in Env THEN {q \in Pids : proc[q].of = proc[p].of} ELSE {p}

\* The background half of the hook finds the pid.
SetPid(p) ==
    /\ proc[p].hook = "enrich" /\ up # "down"
    /\ "overlap" \in Env \/ detector.pc # "scanned"
    /\ \E pid \in FilesOf(p) :
         row' = IF Known(proc[p].of) THEN [row EXCEPT ![proc[p].of].pid = pid] ELSE row
    /\ proc' = [proc EXCEPT ![p].hook = "done"]
    /\ UNCHANGED <<up, file, loaded, task, detector, strikes, told>>

\* A terminal exits: with a SessionEnd hook, which never ends an in-app chat ...
OnSessionEnd(p) ==
    /\ proc[p].alive /\ proc[p].hook = "done" /\ up # "down"
    /\ proc' = [proc EXCEPT ![p].alive = FALSE]
    /\ row' = IF Chat(proc[p].of) THEN row ELSE MarkEnded(proc[p].of)
    /\ UNCHANGED <<up, file, loaded, task, detector, strikes, told>>

\* ... or without.
TerminalDies(p) ==
    /\ proc[p].alive
    /\ proc' = [proc EXCEPT ![p].alive = FALSE]
    /\ UNCHANGED <<up, row, file, loaded, task, detector, strikes, told>>

-----------------------------------------------------------------------------
(* The detector *)

\* A pass reads which processes live, ...
Scan ==
    /\ up # "down" /\ detector.pc = "asleep" /\ Calm
    /\ detector' = [pc |-> "scanned", live |-> Alive, todo |-> {}]
    /\ UNCHANGED <<up, row, file, loaded, task, strikes, proc, told>>

\* Mutant: a row whose pid is not known yet is judged as well.
JudgedUnknown == {s \in Sessions : Terminal(s)}

\* In-app chats have no process between turns, and a row may have no pid yet.
Judged == {s \in Sessions : Terminal(s) /\ row[s].pid # 0}

\* ... lists the rows, ...
ListRows ==
    /\ detector.pc = "scanned"
    /\ detector' = [detector EXCEPT !.pc = "judging",
                                    !.todo = {[of |-> s, pid |-> row[s].pid] : s \in Judged}]
    /\ UNCHANGED <<up, row, file, loaded, task, strikes, proc, told>>

Absent(e) == e.pid \notin detector.live

\* Mutant: a strike is forgotten when the next one comes.
JudgeForgetting(e) ==
    /\ strikes' = IF Absent(e) /\ e.of \notin strikes THEN strikes \cup {e.of}
                  ELSE strikes \ {e.of}
    /\ detector' = [detector EXCEPT !.todo = @ \ {e}]
    /\ UNCHANGED <<up, row, file, loaded, task, proc, told>>

\* ... and ends what was absent twice.
Judge(e) ==
    /\ strikes' = IF Absent(e) /\ e.of \notin strikes THEN strikes \cup {e.of}
                  ELSE strikes \ {e.of}
    /\ row' = IF Absent(e) /\ e.of \in strikes THEN MarkEnded(e.of) ELSE row
    /\ detector' = [detector EXCEPT !.todo = @ \ {e}]
    /\ UNCHANGED <<up, file, loaded, task, proc, told>>

PassEnds ==
    /\ detector.pc = "judging" /\ detector.todo = {}
    /\ detector' = Asleep
    /\ UNCHANGED <<up, row, file, loaded, task, strikes, proc, told>>

\* prune_ended_before: rows that ended two days ago.
Prune(s) ==
    /\ up # "down" /\ Known(s) /\ row[s].ended
    /\ row' = [row EXCEPT ![s] = None]
    /\ UNCHANGED <<up, file, loaded, task, detector, strikes, proc, told>>

-----------------------------------------------------------------------------
(* Crash and start *)

Crash ==
    /\ up # "down"
    /\ up' = "down"
    /\ row' = [s \in Sessions |-> None]
    /\ loaded' = {}
    /\ task' = [t \in Tasks |-> Idle]
    /\ detector' = Asleep /\ strikes' = {}
    /\ UNCHANGED <<file, proc, told>>

\* The hook server and the detector start first, ...
Boot ==
    /\ up = "down"
    /\ up' = "booting"
    /\ UNCHANGED <<row, file, loaded, task, detector, strikes, proc, told>>

\* ... then the snapshot is read, ...
LoadSnapshot ==
    /\ up = "booting"
    /\ up' = "loaded"
    /\ loaded' = file
    /\ UNCHANGED <<row, file, task, detector, strikes, proc, told>>

\* ... its chats become rows, but for those whose directory is gone, ...
PopulateRegistry ==
    /\ up = "loaded" /\ ("early" \in Env \/ detector.pc = "asleep")
    /\ up' = "restored"
    /\ \E there \in IF "unmounted" \in Env THEN SUBSET loaded ELSE {loaded} :
         row' = [s \in Sessions |-> IF s \in there THEN Upsert(s) ELSE row[s]]
    /\ loaded' = {}
    /\ UNCHANGED <<file, task, detector, strikes, proc, told>>

\* ... running terminals that are not known yet become rows, and the RPC
\* server starts.
AdoptExternalSessions ==
    /\ up = "restored"
    /\ up' = "up"
    /\ row' = [s \in Sessions |->
                 IF Runs(s) THEN Registered(row, s, CHOOSE p \in Alive : proc[p].of = s)
                 ELSE row[s]]
    /\ UNCHANGED <<file, loaded, task, detector, strikes, proc, told>>

-----------------------------------------------------------------------------

Handler(t) ==
    \/ Record(t) \/ List(t) \/ Write(t)

Start == Boot \/ LoadSnapshot \/ PopulateRegistry \/ AdoptExternalSessions

Pass ==
    \/ Scan \/ ListRows \/ PassEnds
    \/ \E e \in detector.todo : Judge(e)

Next ==
    \/ \E t \in Tasks, s \in Sessions :
         Open(t, s) \/ End(t, s) \/ Externalize(t, s) \/ Takeover(t, s) \/ TurnEnds(t, s)
    \/ \E t \in Tasks : Handler(t)
    \/ \E s \in Sessions : TerminalStarts(s) \/ Prune(s)
    \/ \E p \in Pids : OnSessionStart(p) \/ SetPid(p) \/ OnSessionEnd(p) \/ TerminalDies(p)
    \/ Pass \/ Crash \/ Start

Spec == Init /\ [][Next]_vars

\* The detector's timer fires again and again, also between the handlers that
\* a run without "overlap" keeps apart from it; the runtime runs every ready
\* task; the app starts a daemon that is down.
Fairness == SF_vars(Pass) /\ WF_vars(Start) /\ \A t \in Tasks : WF_vars(Handler(t))

FairSpec == Spec /\ Fairness

-----------------------------------------------------------------------------
(* Properties *)

TypeOK ==
    /\ up \in {"down", "booting", "loaded", "restored", "up"}
    /\ row \in [Sessions -> RowType \cup {None}]
    /\ file \subseteq Sessions /\ loaded \subseteq Sessions
    /\ task \in [Tasks -> [pc : {"idle", "record", "list", "write"},
                           session : Sessions \cup {None},
                           goal : {"open", "closed", "unsure"}, saved : SUBSET Sessions]]
    /\ \A t \in Tasks : task[t].pc # "idle" => task[t].session \in Sessions
    /\ detector \in [pc : {"asleep", "scanned", "judging"}, live : SUBSET Pids,
                     todo : SUBSET [of : Sessions, pid : Pids]]
    /\ strikes \subseteq Sessions
    /\ proc \in [Pids -> ProcType]
    /\ \A p \in Pids : proc[p].alive \/ proc[p].hook # "done" => proc[p].of \in Sessions
    /\ told \in [Sessions -> {"open", "closed", "unsure"}]

\* persistence.rs:1-12: whatever crashes, the daemon that serves has the chats
\* the user was told are open, and none of those he was told are closed.
ServesWhatWasTold ==
    up = "up" => \A s \in Sessions : /\ told[s] = "open" => Chat(s)
                                     /\ told[s] = "closed" => ~Chat(s)

\* detector.rs: "2-strikes-and-you're-out": a session is not ended under a
\* terminal that runs it.
NotEndedWhileItRuns ==
    [][\A e \in detector.todo : (Judge(e) /\ Live(e.of) /\ row'[e.of].ended) => ~Runs(e.of)]_vars

\* A terminal session whose process is gone does not stay in the list.
GoneIsEnded ==
    \A s \in Sessions :
        LET gone == Terminal(s) /\ row[s].pid # 0 /\ ~proc[row[s].pid].alive
        IN gone ~> ~gone
===============================================================================
