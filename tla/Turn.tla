-------------------------------- MODULE Turn --------------------------------
(***************************************************************************)
(* One chat session of the daemon, turn by turn: the clients that write    *)
(* prompts into the `claude` child's stdin, the child, the stdout pump     *)
(* that reads its lines, and the session's row in the Registry (busy,      *)
(* awaiting, closing, turn_gen), which every window shows.                 *)
(*                                                                         *)
(* The difficulty is that nothing tells the pump which prompt a line       *)
(* belongs to.  A send bumps row.gen after it has written the prompt; the  *)
(* pump copies row.gen when it takes a line for the first of a live turn,  *)
(* and at the turn's result line clears busy only if row.gen is still that *)
(* copy.                                                                   *)
(*                                                                         *)
(* Steps are the stretches of code between two awaits.  Sessions are       *)
(* independent of each other here, so one is enough.                       *)
(***************************************************************************)
EXTENDS Naturals, Sequences, FiniteSets

CONSTANTS
    Clients,    \* tasks that send or cancel: RPC handlers, drains, schedules
    Env,        \* what the environment may do, see EnvChoices
    PromptKinds,\* the kinds of prompt clients send, see AllPromptKinds
    Statuses,   \* the statuses turns report or mark, see AllStatuses
    MaxGen,     \* bound: prompts written
    MaxProcs,   \* bound: incarnations of the child
    MaxStream,  \* bound: stream_event lines per turn
    PipeSize,   \* bound: lines in the stdout pipe
    None

(* "overlap"    a client may send while the row is busy (held-messages.ts
                and the wake queues' drains only send when it is not)
   "fast"       the child may answer a prompt before its sender has
                recorded it in the registry
   "teardown"   a client may send between a child's end of file and the end
                of its pump's teardown
   "cancel"     clients use cancel_turn
   "earlyDeath" the child may die before a turn's first stream_event
   "lateDeath"  the child may die after it
   "background" a turn may leave background tasks running
   "rejection"  the account may be out of quota
   "silent"     a turn may end without any stream_event                    *)
EnvChoices == {"overlap", "fast", "teardown", "cancel", "earlyDeath",
               "lateDeath", "background", "rejection", "silent"}

\* An ordinary prompt, "/close", and "/close --dont-close".
AllPromptKinds == {"work", "close", "dryClose"}

IsClosePrompt(k) == k \in {"close", "dryClose"}

\* What report_turn_status accepts, and detect_awaiting finds in a text.
AllStatuses == {"done", "question", "waiting", "working"}

ASSUME ConstantsAssumption ==
    /\ Env \subseteq EnvChoices
    /\ PromptKinds \subseteq AllPromptKinds
    /\ Statuses \subseteq AllStatuses
    /\ None \notin AllStatuses
    /\ MaxGen \in Nat /\ MaxProcs \in Nat \ {0}
    /\ MaxStream \in Nat \ {0} /\ PipeSize \in Nat \ {0}

Procs == 1..MaxProcs

\* The last <cc-status:...> marker of a result line's text, if it has one.
Marks == Statuses \cup {None}

\* A line of stdout; turn is the number of its prompt, a history variable:
\* nothing in the real line says it.  Result lines of history replayed by
\* --resume belong to no prompt, turn 0.
Lines == [kind : {"init", "stream", "limit", "result"}, turn : Nat, mark : Marks]

VARIABLES
    row,        \* the session's row in the Registry
    side,       \* the Registry's side maps, for this session
    live,       \* the SessionMap: the incarnation it holds, 0 for none
    child,      \* the `claude` processes
    pipe,       \* their stdout
    pump,       \* run_stdout_pump's local variables
    lastPrompt, \* Session.last_prompt of each incarnation
    client,     \* where each client task is
    prompts     \* history: the kinds of the prompts written so far

vars == <<row, side, live, child, pipe, pump, lastPrompt, client, prompts>>

-----------------------------------------------------------------------------
(* State *)

RowType == [busy : BOOLEAN, closing : BOOLEAN, ended : BOOLEAN, gen : Nat,
            awaiting : AllStatuses \cup {None, "close_failed"}]

\* by: history, the turn that reported.
SideType == [closeRequested : BOOLEAN, background : BOOLEAN,
             reported : [gen : Nat, status : Statuses, by : Nat] \cup {None}]

\* turn: the number of the prompt the child works on, 0 for none.
ChildType == [state : {"unborn", "up", "dead"}, stdin : Seq(Nat), turn : Nat,
              streamed : 0..MaxStream, rejected : BOOLEAN, interrupted : BOOLEAN]

PumpType == [pc : {"off", "reading", "removed", "settled", "gone"},
             latch : BOOLEAN,    \* ParserContext.saw_stream_event
             saw : BOOLEAN,      \* saw_stream_turn
             gen : Nat,          \* pump_turn_gen
             closing : BOOLEAN]  \* closing_flagged

ClientPC == {"idle", "written", "interrupted"}

Unborn == [state |-> "unborn", stdin |-> <<>>, turn |-> 0, streamed |-> 0,
           rejected |-> FALSE, interrupted |-> FALSE]

FreshPump == [pc |-> "off", latch |-> FALSE, saw |-> FALSE, gen |-> 0,
              closing |-> FALSE]

Init ==
    /\ row = [busy |-> FALSE, closing |-> FALSE, ended |-> FALSE, gen |-> 0,
              awaiting |-> None]
    /\ side = [closeRequested |-> FALSE, background |-> FALSE, reported |-> None]
    /\ live = 0
    /\ child = [p \in Procs |-> Unborn]
    /\ pipe = [p \in Procs |-> <<>>]
    /\ pump = [p \in Procs |-> FreshPump]
    /\ lastPrompt = [p \in Procs |-> None]
    /\ client = [c \in Clients |-> "idle"]
    /\ prompts = <<>>

-----------------------------------------------------------------------------
(* The child, as src/ sees it: prompts in, lines out, tool calls between.   *)

Working(p) == child[p].state = "up" /\ child[p].turn # 0

HasRoom(p) == Len(pipe[p]) < PipeSize

Emit(p, kind, turn, mark) ==
    pipe' = [pipe EXCEPT ![p] = Append(@, [kind |-> kind, turn |-> turn, mark |-> mark])]

Idle(ch) == [ch EXCEPT !.turn = 0, !.streamed = 0, !.rejected = FALSE,
                       !.interrupted = FALSE]

\* The child needs longer for anything than the sender of a prompt.
Recorded == "fast" \in Env \/ \A c \in Clients : client[c] # "written"

\* A turn opens: claude writes a system/init line at the start of every turn.
ChildOpens(p) ==
    /\ child[p].state = "up" /\ child[p].turn = 0
    /\ child[p].stdin # <<>> /\ ~child[p].interrupted
    /\ Recorded /\ HasRoom(p)
    /\ child' = [child EXCEPT ![p].turn = Head(child[p].stdin), ![p].stdin = Tail(@)]
    /\ Emit(p, "init", Head(child[p].stdin), None)
    /\ UNCHANGED <<row, side, live, pump, lastPrompt, client, prompts>>

ChildStreams(p) ==
    /\ Working(p) /\ ~child[p].rejected /\ ~child[p].interrupted
    /\ child[p].streamed < MaxStream /\ HasRoom(p)
    /\ child' = [child EXCEPT ![p].streamed = @ + 1]
    /\ Emit(p, "stream", child[p].turn, None)
    /\ UNCHANGED <<row, side, live, pump, lastPrompt, client, prompts>>

\* rate_limit_event with status "rejected", before any output or after some.
ChildRejected(p) ==
    /\ "rejection" \in Env
    /\ Working(p) /\ ~child[p].rejected /\ HasRoom(p)
    /\ child' = [child EXCEPT ![p].rejected = TRUE]
    /\ Emit(p, "limit", child[p].turn, None)
    /\ UNCHANGED <<row, side, live, pump, lastPrompt, client, prompts>>

\* The Stop hook records the background tasks, then the result line goes out.
ChildFinishes(p) ==
    /\ Working(p) /\ HasRoom(p)
    /\ \/ child[p].streamed > 0
       \/ child[p].rejected \/ child[p].interrupted
       \/ "silent" \in Env
    /\ child' = [child EXCEPT ![p] = Idle(@)]
    /\ \E mark \in Marks : Emit(p, "result", child[p].turn, mark)
    /\ \E b \in IF "background" \in Env THEN BOOLEAN ELSE {FALSE} :
         side' = IF live = 0 THEN side ELSE [side EXCEPT !.background = b]
    /\ UNCHANGED <<row, live, pump, lastPrompt, client, prompts>>

\* An interrupt that finds no turn does nothing.
ChildIgnoresInterrupt(p) ==
    /\ child[p].state = "up" /\ child[p].turn = 0 /\ child[p].interrupted
    /\ child' = [child EXCEPT ![p].interrupted = FALSE]
    /\ UNCHANGED <<row, side, live, pipe, pump, lastPrompt, client, prompts>>

\* The process exits: between turns, or in the middle of one.
ChildDies(p) ==
    /\ child[p].state = "up"
    /\ \/ child[p].turn = 0 /\ child[p].stdin = <<>>
       \/ "earlyDeath" \in Env /\ Recorded
       \/ "lateDeath" \in Env /\ child[p].streamed > 0 /\ child[p].stdin = <<>>
    /\ child' = [child EXCEPT ![p].state = "dead"]
    /\ UNCHANGED <<row, side, live, pipe, pump, lastPrompt, client, prompts>>

\* report_turn_status: the report is stamped with the registry's turn_gen.
ReportStatus(p, s) ==
    /\ Working(p) /\ child[p].streamed > 0
    /\ side' = [side EXCEPT !.reported =
                  [gen |-> row.gen, status |-> s, by |-> child[p].turn]]
    /\ UNCHANGED <<row, live, child, pipe, pump, lastPrompt, client, prompts>>

\* The close_session tool, which the /close skill calls in its last phase; the
\* handler takes it from any turn.
OnCloseConfirm(p) ==
    /\ Working(p) /\ child[p].streamed > 0
    /\ side' = [side EXCEPT !.closeRequested = TRUE]
    /\ UNCHANGED <<row, live, child, pipe, pump, lastPrompt, client, prompts>>

-----------------------------------------------------------------------------
(* Clients *)

\* What a write of prompt k to incarnation p changes.
WritePrompt(p, k) ==
    /\ Len(prompts) < MaxGen
    /\ prompts' = Append(prompts, k)
    /\ lastPrompt' = [lastPrompt EXCEPT ![p] = k]

MaySend ==
    /\ "overlap" \in Env \/ (~row.busy /\ \A c \in Clients : client[c] = "idle")
    /\ "teardown" \in Env \/ \A p \in Procs : pump[p].pc \notin {"removed", "settled"}

\* send_message into the live child.  A write to a dead child fails.
Send(c, k) ==
    /\ client[c] = "idle" /\ MaySend
    /\ live # 0
    /\ IF child[live].state = "up"
       THEN /\ WritePrompt(live, k)
            /\ child' = [child EXCEPT ![live].stdin = Append(@, Len(prompts) + 1)]
            /\ client' = [client EXCEPT ![c] = "written"]
       ELSE /\ lastPrompt' = [lastPrompt EXCEPT ![live] = k]
            /\ UNCHANGED <<child, client, prompts>>
    /\ UNCHANGED <<row, side, live, pipe, pump>>

\* What a resumed child may replay of its history.
Replays == {<<>>} \cup {<<[kind |-> "result", turn |-> 0, mark |-> m]>> : m \in Marks}

\* send_message_with_respawn when the SessionMap has no entry: the session
\* is resumed, unless its row is ended, and gets the message.
RespawnAndSend(c, k) ==
    /\ client[c] = "idle" /\ MaySend
    /\ live = 0 /\ ~row.ended
    /\ \E p \in Procs :
         /\ child[p].state = "unborn"
         /\ \A q \in 1..(p - 1) : child[q].state # "unborn"
         /\ WritePrompt(p, k)
         /\ live' = p
         /\ child' = [child EXCEPT ![p].state = "up", ![p].stdin = <<Len(prompts) + 1>>]
         /\ pump' = [pump EXCEPT ![p].pc = "reading"]
         /\ \E replay \in Replays :
              /\ row.gen = 0 => replay = <<>>
              /\ pipe' = [pipe EXCEPT ![p] = replay]
    /\ client' = [client EXCEPT ![c] = "written"]
    /\ UNCHANGED <<row, side>>

\* The sender comes back from the write and records the turn.
RecordSend(c) ==
    /\ client[c] = "written"
    /\ row' = [row EXCEPT !.awaiting = None, !.busy = TRUE, !.gen = @ + 1]
    /\ client' = [client EXCEPT ![c] = "idle"]
    /\ UNCHANGED <<side, live, child, pipe, pump, lastPrompt, prompts>>

\* cancel_turn: the interrupt is written ...
CancelTurn(c) ==
    /\ "cancel" \in Env
    /\ client[c] = "idle" /\ live # 0 /\ child[live].state = "up"
    /\ child' = [child EXCEPT ![live].interrupted = TRUE]
    /\ client' = [client EXCEPT ![c] = "interrupted"]
    /\ UNCHANGED <<row, side, live, pipe, pump, lastPrompt, prompts>>

\* ... and the row is set idle without waiting for the result line.
RecordCancel(c) ==
    /\ client[c] = "interrupted"
    /\ row' = [row EXCEPT !.busy = FALSE, !.awaiting = None]
    /\ client' = [client EXCEPT ![c] = "idle"]
    /\ UNCHANGED <<side, live, child, pipe, pump, lastPrompt, prompts>>

-----------------------------------------------------------------------------
(* run_stdout_pump *)

\* The parser notes a stream_event, then the pump, when it has not seen the
\* turn's first one yet, takes the note and captures the generation.
Captures(p, line) ==
    ~pump[p].saw /\ (pump[p].latch \/ line.kind = "stream")

\* Mutant: the generation is not captured.
AfterFeedWithoutGen(p, line) ==
    LET captures == Captures(p, line) IN
    [pump[p] EXCEPT
        !.latch = IF captures THEN FALSE ELSE @ \/ line.kind = "stream",
        !.saw = @ \/ captures,
        !.closing = @ \/ (captures /\ IsClosePrompt(lastPrompt[p]))]

\* Mutant: the pump does not remember that it put up the badge.
AfterFeedWithoutFlag(p, line) ==
    LET captures == Captures(p, line) IN
    [pump[p] EXCEPT
        !.latch = IF captures THEN FALSE ELSE @ \/ line.kind = "stream",
        !.saw = @ \/ captures,
        !.gen = IF captures THEN row.gen ELSE @]

AfterFeed(p, line) ==
    LET captures == Captures(p, line) IN
    [pump[p] EXCEPT
        !.latch = IF captures THEN FALSE ELSE @ \/ line.kind = "stream",
        !.saw = @ \/ captures,
        !.gen = IF captures THEN row.gen ELSE @,
        !.closing = @ \/ (captures /\ IsClosePrompt(lastPrompt[p]))]

RowAfterFeed(p, line) ==
    [row EXCEPT !.closing =
        @ \/ (Captures(p, line) /\ IsClosePrompt(lastPrompt[p]))]

ReadLine(p) ==
    /\ pump[p].pc = "reading" /\ pipe[p] # <<>>
    /\ pipe' = [pipe EXCEPT ![p] = Tail(@)]

\* A line that changes nothing beyond the capture.
ReadPlain(p) ==
    /\ ReadLine(p)
    /\ LET line == Head(pipe[p]) IN
         /\ line.kind \in {"init", "stream"}
         /\ pump' = [pump EXCEPT ![p] = AfterFeed(p, line)]
         /\ row' = RowAfterFeed(p, line)
    /\ UNCHANGED <<side, live, child, lastPrompt, client, prompts>>

ReadLimit(p) ==
    /\ ReadLine(p)
    /\ LET line == Head(pipe[p]) IN
         /\ line.kind = "limit"
         /\ pump' = [pump EXCEPT ![p] = AfterFeed(p, line)]
         /\ row' = RowAfterFeed(p, line)
    /\ UNCHANGED <<side, live, child, lastPrompt, client, prompts>>

\* Mutant: whose report it is does not matter.
EndStatusOfAnyTurn(gen, mark) ==
    IF side.reported = None THEN mark ELSE side.reported.status

\* The status a live turn ends with: the report of this generation, else the
\* marker of the result line, unless it claims "done", or there is none, while
\* background tasks run.
EndStatus(gen, mark) ==
    LET rep  == side.reported
        told == IF rep # None /\ rep.gen = gen THEN rep.status ELSE mark
    IN IF told \in {None, "done"} /\ side.background THEN "working" ELSE told

\* Kills the incarnation p when a close was confirmed (finalize_close).
KillIf(confirmed, p) ==
    IF confirmed THEN [child EXCEPT ![p].state = "dead"] ELSE child

\* Mutant: no turn is ever too old to clear the row.
IsAlwaysNewest(gen) == TRUE

\* No prompt has been recorded since gen was (set_busy_false_if_gen,
\* set_awaiting_if_gen).
IsNewestGen(gen) == row.gen = gen

\* The pump's turn-scoped locals are reset.
AfterResult(locals) == [locals EXCEPT !.saw = FALSE, !.closing = FALSE]

\* The result line: the turn is over.
ReadResult(p) ==
    /\ ReadLine(p)
    /\ LET line      == Head(pipe[p])
           after     == AfterFeed(p, line)
           fed       == RowAfterFeed(p, line)
           isCurrent == IsNewestGen(after.gen)
           confirmed == side.closeRequested
           failed    == after.closing /\ ~confirmed /\ lastPrompt[p] # "dryClose"
       IN /\ line.kind = "result"
          /\ row' = [fed EXCEPT
                !.busy = @ /\ ~isCurrent,
                !.awaiting = IF failed THEN "close_failed"
                             ELSE IF after.saw /\ isCurrent THEN EndStatus(after.gen, line.mark)
                             ELSE @,
                !.ended = @ \/ confirmed,
                !.closing = @ /\ ~after.closing]
          /\ side' = [side EXCEPT
                !.reported = IF after.saw THEN None ELSE @,
                !.closeRequested = FALSE]
          /\ pump' = [pump EXCEPT ![p] = AfterResult(after)]
          /\ child' = KillIf(confirmed, p)
    /\ UNCHANGED <<live, lastPrompt, client, prompts>>

\* Stdout is at its end: the entry leaves the SessionMap first ...
Eof(p) ==
    /\ pump[p].pc = "reading" /\ pipe[p] = <<>> /\ child[p].state = "dead"
    /\ pump' = [pump EXCEPT ![p].pc = "removed"]
    /\ live' = 0
    /\ UNCHANGED <<row, side, child, pipe, lastPrompt, client, prompts>>

\* Mutant: busy is left to the result line that never came.
EofSettlesNothing(p) ==
    /\ pump[p].pc = "removed"
    /\ pump' = [pump EXCEPT ![p].pc = "settled"]
    /\ UNCHANGED <<row, side, live, child, pipe, lastPrompt, client, prompts>>

\* ... then busy is cleared ...
EofSettles(p) ==
    /\ pump[p].pc = "removed"
    /\ pump' = [pump EXCEPT ![p].pc = "settled"]
    /\ row' = [row EXCEPT !.busy = @ /\ ~IsNewestGen(pump[p].gen)]
    /\ UNCHANGED <<side, live, child, pipe, lastPrompt, client, prompts>>

\* Mutant: a confirmed close is dropped.
EofClosesWithoutEnd(p) ==
    /\ pump[p].pc = "settled"
    /\ row' = [row EXCEPT !.closing = @ /\ ~pump[p].closing]
    /\ side' = [side EXCEPT !.closeRequested = FALSE]
    /\ pump' = [pump EXCEPT ![p].pc = "gone", ![p].closing = FALSE]
    /\ UNCHANGED <<live, child, pipe, lastPrompt, client, prompts>>

\* ... and, after the session's prompts are expired, a /close in progress
\* is settled.  Unlike at a result line, a dry run is no excuse here.
EofCloses(p) ==
    /\ pump[p].pc = "settled"
    /\ LET confirmed == side.closeRequested
           flagged   == pump[p].closing
       IN /\ row' = [row EXCEPT
                !.awaiting = IF flagged /\ ~confirmed THEN "close_failed" ELSE @,
                !.closing = @ /\ ~flagged,
                !.ended = @ \/ confirmed]
          /\ side' = [side EXCEPT !.closeRequested = FALSE]
    /\ pump' = [pump EXCEPT ![p].pc = "gone", ![p].closing = FALSE]
    /\ UNCHANGED <<live, child, pipe, lastPrompt, client, prompts>>

-----------------------------------------------------------------------------
ChildStep(p) ==
    \/ ChildOpens(p) \/ ChildStreams(p) \/ ChildRejected(p) \/ ChildFinishes(p)
    \/ ChildIgnoresInterrupt(p) \/ ChildDies(p)
    \/ \E s \in Statuses : ReportStatus(p, s)
    \/ OnCloseConfirm(p)

PumpStep(p) ==
    ReadPlain(p) \/ ReadLimit(p) \/ ReadResult(p) \/ Eof(p) \/ EofSettles(p) \/ EofCloses(p)

ClientStep(c) ==
    \/ \E k \in PromptKinds : Send(c, k) \/ RespawnAndSend(c, k)
    \/ RecordSend(c) \/ CancelTurn(c) \/ RecordCancel(c)

Next ==
    \/ \E p \in Procs : ChildStep(p) \/ PumpStep(p)
    \/ \E c \in Clients : ClientStep(c)

\* The runtime runs every ready task; the child gets on with its turn.
Fairness ==
    /\ \A p \in Procs :
         /\ WF_vars(PumpStep(p))
         /\ WF_vars(ChildOpens(p) \/ ChildStreams(p) \/ ChildIgnoresInterrupt(p))
         /\ WF_vars(ChildFinishes(p))
    /\ \A c \in Clients : WF_vars(RecordSend(c) \/ RecordCancel(c))

Spec == Init /\ [][Next]_vars

FairSpec == Spec /\ Fairness

-----------------------------------------------------------------------------
(* Properties *)

TypeOK ==
    /\ row \in RowType
    /\ side \in SideType
    /\ live \in Procs \cup {0}
    /\ child \in [Procs -> ChildType]
    /\ pipe \in [Procs -> Seq(Lines)]
    /\ pump \in [Procs -> PumpType]
    /\ lastPrompt \in [Procs -> PromptKinds \cup {None}]
    /\ client \in [Clients -> ClientPC]
    /\ prompts \in Seq(PromptKinds)

\* Nothing is left to happen without a client: no send under way, no prompt
\* unanswered, no line unread.
Quiet ==
    /\ \A c \in Clients : client[c] = "idle"
    /\ \A p \in Procs :
         \/ pump[p].pc \in {"off", "gone"}
         \/ /\ pump[p].pc = "reading" /\ pipe[p] = <<>>
            /\ child[p].state = "up" /\ child[p].turn = 0 /\ child[p].stdin = <<>>
            /\ ~child[p].interrupted

\* No turn, no spinner: when nothing is going on the row is not busy.  A
\* latched row holds every later drain and scheduled message back (pump.rs:
\* the result line and the EOF branch both promise to clear busy).
QuietMeansNotBusy == Quiet => ~row.busy

\* The "Closing" badge never outlives the turn that set it.
QuietMeansNotClosing == Quiet => ~row.closing

\* Whenever the badge is up, some pump is bound to take it down again.
ClosingHasOwner ==
    row.closing => \E p \in Procs : /\ pump[p].closing
                                    /\ pump[p].pc \in {"reading", "removed", "settled"}

\* A result line clears busy only when no newer prompt has been written: the
\* late result of an old turn must not free a session whose next turn runs.
ClearedByNewestTurn ==
    [][\A p \in Procs : (ReadResult(p) /\ row.busy /\ ~row'.busy) =>
            Head(pipe[p]).turn = Len(prompts)]_vars

\* The status of the turn whose result line is read: what it reported itself,
\* else the marker in its text.
OwnStatus(line) ==
    IF side.reported # None /\ side.reported.by = line.turn
    THEN side.reported.status
    ELSE line.mark

\* A status reaches the row only from the turn whose result line is read, and
\* that turn's report goes before its marker: never from an older turn's
\* report, never from a replayed line.  Only running background tasks overrule.
StatusFromItsOwnTurn ==
    [][\A p \in Procs :
        (ReadResult(p) /\ row'.awaiting \in AllStatuses /\ row'.awaiting # row.awaiting) =>
            /\ Head(pipe[p]).turn # 0
            /\ \/ row'.awaiting = OwnStatus(Head(pipe[p]))
               \/ side.background /\ row'.awaiting = "working"]_vars

\* A confirmed close ends the session, whether the child's result line or
\* its death comes first.
ConfirmedCloseEnds == side.closeRequested ~> row.ended

\* Every turn that shows as busy ends.
BusyEnds == row.busy ~> ~row.busy
=============================================================================
