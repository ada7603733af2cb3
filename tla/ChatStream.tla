------------------------------ MODULE ChatStream ------------------------------
(***************************************************************************)
(* The stream of one session's chat, from the child's output to a window:  *)
(* the pump folds text into StreamingText and publishes deltas, a task per *)
(* attached client forwards the events of the broadcast channel, and the   *)
(* window's event store rebuilds the text and keeps the transcript.  The   *)
(* store also has the file watcher of the transcript and reads pages of    *)
(* it, when the chat is opened and at a heartbeat.                         *)
(*                                                                         *)
(* A turn is text blocks, with or without a tool call after each, and runs *)
(* in a child of its own with its own channel, as `claude -p` exits after  *)
(* each turn.  A chunk of text is <<turn, block, n>>, a text the sequence  *)
(* of its chunks, and a tool call a text of one chunk numbered 0.          *)
(***************************************************************************)
EXTENDS Integers, Sequences, SequencesExt

CONSTANTS
    Loads,     \* calls of loadInitial
    Env,       \* what the environment may do, see EnvChoices
    Capacity,  \* BROADCAST_CAPACITY
    MaxBlocks, \* bound: text blocks, of one turn or of several
    MaxChunks  \* bound: chunks of a block

(* "hasty"      a client may attach anew before it was sent all of the old
                channel, or between a turn's last event and the end of its text
   "phone"      a phone's socket may take a new channel, for which it gets no
                snapshot, after the first text of the turn
   "lateWatch"  the watcher may bring a text or a tool call when the next
                block is streamed
   "lateLive"   ten seconds may pass between two copies of one event
   "busyLoads"  a page may be loaded while events come in               *)
EnvChoices == {"hasty", "phone", "lateWatch", "lateLive", "busyLoads"}

ASSUME ConstantsAssumption ==
    /\ Env \subseteq EnvChoices
    /\ Capacity \in Nat \ {0}
    /\ MaxBlocks \in Nat /\ MaxChunks \in Nat

VARIABLES
    turn,      \* the child's turn: number, block, its chunks, phase
    streaming, \* the daemon's StreamingText
    done,      \* the texts and tool calls the child has finished
    logged,    \* how many of them the transcript file holds
    chan,      \* events published and not yet forwarded
    lagged,    \* the channel has dropped some
    fwd,       \* the forwarding task
    store,     \* the window's CacheEntry
    load,      \* calls of loadInitial
    reconcile, \* the call of reconcileLatest
    watched    \* how much of the transcript the watcher has brought; -1: off

vars == <<turn, streaming, done, logged, chan, lagged, fwd, store, load,
          reconcile, watched>>

Text(c) == [i \in 1..c[3] |-> <<c[1], c[2], i>>]

ToolCall(c) == << <<c[1], c[2], 0>> >>

IsTool(text) == Head(text)[3] = 0

SameBlock(c, d) == c[1] = d[1] /\ c[2] = d[2]

Event(k, c) == [k |-> k, c |-> c]

None == [block |-> 0, seq |-> 0, text |-> <<>>, ref |-> <<>>]

Init ==
    /\ turn = [t |-> 0, b |-> 0, s |-> 0, phase |-> "over"]
    /\ streaming = [block |-> 0, seq |-> 0]
    /\ done = <<>> /\ logged = 0
    /\ chan = <<>> /\ lagged = FALSE /\ fwd = "off"
    /\ store = [shown |-> <<>>, acc |-> None, recent |-> {}, loaded |-> FALSE]
    /\ load = [l \in Loads |-> [pc |-> "no", before |-> {}, page |-> <<>>]]
    /\ reconcile = [pc |-> "no", page |-> <<>>]
    /\ watched = -1

Current == <<turn.t, turn.b, turn.s>>

\* Text blocks the child has finished.
Finished == Cardinality({i \in DOMAIN done : ~IsTool(done[i])})

-----------------------------------------------------------------------------
(* The child and the pump *)

\* broadcast::send: a full channel drops its oldest event.
Published(e) ==
    IF fwd = "off" THEN <<>>
    ELSE Append(IF Len(chan) < Capacity THEN chan ELSE Tail(chan), e)

Publish(e) ==
    /\ chan' = Published(e)
    /\ lagged' = (lagged \/ (fwd # "off" /\ Len(chan) = Capacity))

Loading == \E l \in Loads : load[l].pc \in {"asked", "read"}

\* A child is spawned for the next turn; the old channel has closed.
TurnStarts ==
    /\ turn.phase = "over" /\ Finished < MaxBlocks
    /\ "hasty" \in Env \/ (chan = <<>> /\ fwd \in {"off", "on"})
    /\ "busyLoads" \in Env \/ ~Loading
    /\ turn' = [t |-> turn.t + 1, b |-> 1, s |-> 0, phase |-> "text"]
    /\ streaming' = [block |-> 0, seq |-> 0]
    /\ chan' = <<>> /\ lagged' = FALSE /\ fwd' = "off"
    /\ UNCHANGED <<done, logged, store, load, reconcile, watched>>

\* flush_pending_delta: first the accumulator, under its lock, ...
Apply ==
    /\ turn.phase = "text" /\ turn.s < MaxChunks
    /\ turn' = [turn EXCEPT !.s = @ + 1, !.phase = "flushing"]
    /\ streaming' = [block |-> turn.b,
                     seq |-> IF streaming.block = turn.b THEN streaming.seq + 1 ELSE 1]
    /\ UNCHANGED <<done, logged, chan, lagged, fwd, store, load, reconcile, watched>>

\* ... and then the event.
PublishDelta ==
    /\ turn.phase = "flushing"
    /\ turn' = [turn EXCEPT !.phase = "text"]
    /\ Publish(Event("delta", Current))
    /\ UNCHANGED <<streaming, done, logged, fwd, store, load, reconcile, watched>>

\* The next block begins, with or without a tool call in between.
NextBlock ==
    /\ turn.phase = "text" /\ turn.s > 0 /\ Finished + 1 < MaxBlocks
    /\ turn' = [turn EXCEPT !.b = @ + 1, !.s = 0]
    /\ \/ /\ done' = Append(done, Text(Current))
          /\ UNCHANGED <<chan, lagged>>
       \/ /\ done' = done \o <<Text(Current), ToolCall(Current)>>
          /\ Publish(Event("tool", Current))
    /\ UNCHANGED <<streaming, logged, fwd, store, load, reconcile, watched>>

\* The result line: the last block's text is finalized, ...
TurnEnds ==
    /\ turn.phase = "text" /\ turn.s > 0
    /\ turn' = [turn EXCEPT !.phase = "ending"]
    /\ done' = Append(done, Text(Current))
    /\ Publish(Event("final", Current))
    /\ UNCHANGED <<streaming, logged, fwd, store, load, reconcile, watched>>

\* ... and the accumulator cleared.
Clear ==
    /\ turn.phase = "ending"
    /\ turn' = [turn EXCEPT !.phase = "over"]
    /\ streaming' = [block |-> 0, seq |-> 0]
    /\ UNCHANGED <<done, logged, chan, lagged, fwd, store, load, reconcile, watched>>

\* The child writes its transcript.
Log ==
    /\ logged < Len(done)
    /\ logged' = logged + 1
    /\ UNCHANGED <<turn, streaming, done, chan, lagged, fwd, store, load,
                   reconcile, watched>>

-----------------------------------------------------------------------------
(* The event store *)

Entry(text, partial, src) == [text |-> text, partial |-> partial, src |-> src]

\* Mutant: what was already told is not looked at.
IsNewAnyway(st, text) == TRUE

\* deliver's gate: the same event was not told within the window.
IsNew(st, text) == text \notin st.recent

\* A finalized message or a usage ends the accumulation, and leaves what was
\* accumulated as told.
Closed(st) ==
    [st EXCEPT !.acc = None,
               !.recent = IF st.acc = None THEN @ ELSE @ \cup {st.acc.text}]

Told(st, text, src) ==
    IF IsNew(st, text)
    THEN [st EXCEPT !.shown = Append(@, Entry(text, FALSE, src)),
                    !.recent = @ \cup {text}]
    ELSE st

\* The pump takes only the tool calls out of an assistant line, so no usage
\* follows them.
DeliverItem(st, text) ==
    Told(IF IsTool(text) THEN st ELSE Closed(st), text, "live")

\* The synthesized partial takes the place of the last one, if nothing has
\* come in between; a text already told in full is not told again.
Surface(st) ==
    LET synth == Entry(st.acc.text, TRUE, "live")
        put == IF st.shown # <<>> /\ st.acc.ref = Last(st.shown).text
                                  /\ Last(st.shown).partial
               THEN Append(Front(st.shown), synth)
               ELSE Append(st.shown, synth)
    IN  IF \E told \in st.recent : IsPrefix(st.acc.text, told) THEN st
        ELSE [st EXCEPT !.shown = put, !.acc.ref = synth.text]

\* Mutant: what the accumulator covers is appended again.
CoveredNever(st, c) == FALSE

Covered(st, c) == c[2] = st.acc.block /\ c[3] <= st.acc.seq

\* applyDelta for a snapshot.
ApplySnapshot(st, c) ==
    IF Covered(st, c) THEN st
    ELSE Surface([st EXCEPT !.acc.block = c[2], !.acc.seq = c[3], !.acc.text = Text(c)])

\* applyDelta for a chunk: the first of its block begins the text anew.
ApplyDelta(st, c) ==
    IF st.acc = None \/ c[2] # st.acc.block \/ c[3] = 1
    THEN Surface([st EXCEPT !.acc.block = c[2], !.acc.seq = c[3], !.acc.text = <<c>>])
    ELSE IF Covered(st, c) THEN st
    ELSE Surface([st EXCEPT !.acc.seq = c[3], !.acc.text = Append(@, c)])

Delivered(st, e) ==
    CASE e.k = "delta" -> ApplyDelta(st, e.c)
      [] e.k = "snap"  -> ApplySnapshot(st, e.c)
      [] e.k = "tool"  -> DeliverItem(st, ToolCall(e.c))
      [] e.k = "final" -> DeliverItem(st, Text(e.c))

-----------------------------------------------------------------------------
(* The forwarding task *)

MayAttach ==
    IF "hasty" \in Env THEN fwd \in {"off", "on"}
    ELSE fwd = "off" /\ turn.phase # "ending"

\* attach_session: subscribe, and then send what has been streamed.
Attach ==
    /\ turn.t > 0 /\ MayAttach
    /\ fwd' = "resync" /\ chan' = <<>> /\ lagged' = FALSE
    /\ UNCHANGED <<turn, streaming, done, logged, store, load, reconcile, watched>>

\* wait_for_respawn subscribes only.
Resubscribe ==
    /\ turn.t > 0 /\ fwd = "off"
    /\ "phone" \in Env \/ (turn.phase = "text" /\ streaming.seq = 0)
    /\ fwd' = "on" /\ chan' = <<>> /\ lagged' = FALSE
    /\ UNCHANGED <<turn, streaming, done, logged, store, load, reconcile, watched>>

Snapshot == Event("snap", <<turn.t, streaming.block, streaming.seq>>)

Resync ==
    /\ fwd = "resync"
    /\ fwd' = "on"
    /\ store' = IF streaming.seq = 0 THEN store ELSE Delivered(store, Snapshot)
    /\ UNCHANGED <<turn, streaming, done, logged, chan, lagged, load, reconcile, watched>>

AfterLag == "resync"

\* The channel has dropped events: the client is told to read the transcript.
Lagged ==
    /\ fwd = "on" /\ lagged
    /\ lagged' = FALSE /\ fwd' = AfterLag
    /\ reconcile' = IF reconcile.pc = "no" THEN [reconcile EXCEPT !.pc = "asked"]
                                           ELSE reconcile
    /\ UNCHANGED <<turn, streaming, done, logged, chan, store, load, watched>>

Forward ==
    /\ fwd = "on" /\ ~lagged /\ chan # <<>>
    /\ "busyLoads" \in Env \/ ~Loading
    /\ store' = Delivered(store, Head(chan))
    /\ chan' = Tail(chan)
    /\ UNCHANGED <<turn, streaming, done, logged, lagged, fwd, load, reconcile, watched>>

-----------------------------------------------------------------------------
(* Pages of the transcript *)

Page == SubSeq(done, 1, logged)

\* The elements of s at the places in P, in their order: a set of one sequence.
Filtered(s, P) ==
    LET inOrder == {f \in [1..Cardinality(P) -> P] :
                        \A m, n \in DOMAIN f : m < n => f[m] < f[n]}
    IN  {[n \in DOMAIN f |-> s[f[n]]] : f \in inOrder}

MayLoad ==
    \/ "busyLoads" \in Env
    \/ ~Loading /\ turn.phase = "over" /\ chan = <<>> /\ logged = Len(done)

\* loadInitial remembers what was shown before it asks.
LoadAsks(l) ==
    /\ load[l].pc = "no" /\ MayLoad
    /\ load' = [load EXCEPT ![l].pc = "asked", ![l].before = ToSet(store.shown)]
    /\ UNCHANGED <<turn, streaming, done, logged, chan, lagged, fwd, store,
                   reconcile, watched>>

LoadReads(l) ==
    /\ load[l].pc = "asked"
    /\ load' = [load EXCEPT ![l].pc = "read", ![l].page = Page]
    /\ UNCHANGED <<turn, streaming, done, logged, chan, lagged, fwd, store,
                   reconcile, watched>>

\* The page is followed by what has come in since.
LoadLands(l) ==
    /\ load[l].pc = "read"
    /\ \E since \in Filtered(store.shown, {i \in DOMAIN store.shown :
                                               store.shown[i] \notin load[l].before}) :
         store' = [store EXCEPT
                      !.shown = [i \in DOMAIN load[l].page |->
                                    Entry(load[l].page[i], FALSE, l)] \o since,
                      !.loaded = TRUE]
    /\ load' = [load EXCEPT ![l] = [pc |-> "done", before |-> {}, page |-> <<>>]]
    /\ UNCHANGED <<turn, streaming, done, logged, chan, lagged, fwd, reconcile, watched>>

\* The heartbeat, and a window that gets the focus.
ReconcileAsks ==
    /\ reconcile.pc = "no" /\ store.loaded
    /\ reconcile' = [reconcile EXCEPT !.pc = "asked"]
    /\ UNCHANGED <<turn, streaming, done, logged, chan, lagged, fwd, store,
                   load, watched>>

ReconcileReads ==
    /\ reconcile.pc = "asked" /\ store.loaded
    /\ reconcile' = [pc |-> "read", page |-> Page]
    /\ UNCHANGED <<turn, streaming, done, logged, chan, lagged, fwd, store,
                   load, watched>>

Has(st, text) == \E i \in DOMAIN st.shown : st.shown[i].text = text

\* Mutant: a text that has begun to be shown counts as shown.
MissingBegun(text) ==
    ~\E i \in DOMAIN store.shown : IsPrefix(store.shown[i].text, text)

\* A partial with all of a text counts as the text.
Missing(text) == ~Has(store, text)

RecoveredTold(missing) == store.recent \cup ToSet(missing)

\* What is missing goes to the end.
ReconcileLands ==
    /\ reconcile.pc = "read"
    /\ \E missing \in Filtered(reconcile.page, {i \in DOMAIN reconcile.page :
                                                    Missing(reconcile.page[i])}) :
         store' = [store EXCEPT
                      !.shown = @ \o [i \in DOMAIN missing |->
                                         Entry(missing[i], FALSE, "page")],
                      !.recent = RecoveredTold(missing)]
    /\ reconcile' = [pc |-> "no", page |-> <<>>]
    /\ UNCHANGED <<turn, streaming, done, logged, chan, lagged, fwd, load, watched>>

\* watch_session_transcript begins at the end of the file.
WatchStarts ==
    /\ watched = -1 /\ store.loaded
    /\ watched' = logged
    /\ UNCHANGED <<turn, streaming, done, logged, chan, lagged, fwd, store,
                   load, reconcile>>

\* What belongs to another block would end the one being rebuilt.
InTime(text) ==
    \/ "lateWatch" \in Env
    \/ store.acc # None => SameBlock(Head(text), Head(store.acc.text))

\* A line of the transcript is a text or a tool call, and after it its usage,
\* which too ends the accumulation.
DeliverLine(st, text) == Closed(DeliverItem(st, text))

Watch ==
    /\ watched >= 0 /\ watched < logged
    /\ "busyLoads" \in Env \/ ~Loading
    /\ InTime(done[watched + 1])
    /\ watched' = watched + 1
    /\ store' = DeliverLine(store, done[watched + 1])
    /\ UNCHANGED <<turn, streaming, done, logged, chan, lagged, fwd, load, reconcile>>

\* Nothing is under way that would tell an event a second time.
Quiet ==
    /\ turn.phase = "over" /\ chan = <<>> /\ fwd \in {"off", "on"}
    /\ logged = Len(done) /\ watched \in {-1, logged}

\* DEDUP_WINDOW_MS, ten seconds, pass.
Forget ==
    /\ "lateLive" \in Env \/ Quiet
    /\ store.recent # {}
    /\ store' = [store EXCEPT !.recent = {}]
    /\ UNCHANGED <<turn, streaming, done, logged, chan, lagged, fwd, load,
                   reconcile, watched>>

-----------------------------------------------------------------------------

Child == TurnStarts \/ Apply \/ PublishDelta \/ NextBlock \/ TurnEnds \/ Clear \/ Log

Client == Attach \/ Resubscribe \/ Resync \/ Lagged \/ Forward

Transcript ==
    \/ \E l \in Loads : LoadAsks(l) \/ LoadReads(l) \/ LoadLands(l)
    \/ ReconcileAsks \/ ReconcileReads \/ ReconcileLands
    \/ WatchStarts \/ Watch \/ Forget

Next == Child \/ Client \/ Transcript

Spec == Init /\ [][Next]_vars

(* The child writes what it has said, the heartbeat comes round and a page   *)
(* is returned.  Nobody promises that a client attaches or that the watcher  *)
(* runs.                                                                     *)
Fairness ==
    /\ WF_vars(Log)
    /\ WF_vars(ReconcileAsks) /\ WF_vars(ReconcileReads) /\ WF_vars(ReconcileLands)

FairSpec == Spec /\ Fairness

-----------------------------------------------------------------------------
(* Properties *)

\* The text a window rebuilds from the deltas of the block in progress is that
\* block from its beginning, with no chunk missing or repeated, whatever the
\* channel dropped and whenever the client attached.
TextIsWhole ==
    LET acc == store.acc
    IN  turn.phase \in {"text", "flushing"}
        /\ acc # None /\ Last(acc.text)[1] = turn.t /\ Last(acc.text)[2] = turn.b
        => acc.text = Text(<<turn.t, turn.b, acc.seq>>)

\* No message and no tool call is in the transcript twice, although three
\* sources tell each of them.
NoMessageTwice ==
    \A i, j \in DOMAIN store.shown :
        /\ store.shown[i].text = store.shown[j].text
        /\ ~store.shown[i].partial /\ ~store.shown[j].partial
        => i = j

\* What the child has said is shown in full at some time, whether or not the
\* client was attached and whatever the channel dropped.
Recovered ==
    \A i \in 1..(2 * MaxBlocks) :
        (i <= Len(done) /\ store.loaded) ~> (store.loaded /\ i <= Len(done) /\ Has(store, done[i]))

=============================================================================
