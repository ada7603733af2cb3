------------------------------- MODULE WakeQueue -------------------------------
(***************************************************************************)
(* The wake queues of one session: the fleet's lines to a Jarvis           *)
(* (jarvis_wake) and the repository channel's lines to any session         *)
(* (repo_channel_wake).  Both are queues of lines with the same drain: if  *)
(* the row is idle, take everything, send it as one prompt, and mark the   *)
(* row busy once the send has returned.                                    *)
(*                                                                         *)
(* A drain is a task of its own.  It is started whenever a line is put in, *)
(* and by the pump for both queues when a turn ends.  Others send to the   *)
(* session too.  The texts of the lines are left out; a line is its number *)
(* in the order in which lines were put in.  Cancelled turns are Turn's.   *)
(***************************************************************************)
EXTENDS Integers, Sequences, SequencesExt

CONSTANTS
    Queues,     \* "fleet" and "channel", or one of them
    Drains,     \* drain tasks
    Cap,        \* MAX_QUEUED_LINES of the channel
    Env,        \* what the environment may do, see EnvChoices
    MaxLines,   \* bound: lines put in
    MaxSends    \* bound: prompts of others

(* "overlap"    a task may look at the row while another one that has looked
               is not through with its send
   "failures"   a send may fail
   "lateDeath"  the child may die in a turn
   "earlyDeath" it may die before a turn's first stream_event
   "silent"     a turn may end without any, as one does that is rejected
   "unmarked"   others may send without marking the row busy, as Jarvis's
               send_to_session, unfreeze_session and set_session_model do   *)
EnvChoices == {"overlap", "failures", "lateDeath", "earlyDeath", "silent", "unmarked"}

ASSUME ConstantsAssumption ==
    /\ Queues \subseteq {"fleet", "channel"}
    /\ Cap \in Nat \ {0}
    /\ Env \subseteq EnvChoices
    /\ MaxLines \in Nat
    /\ MaxSends \in Nat

Capped == {"channel"}

VARIABLES
    queue,  \* the lines that wait
    drain,  \* the drain tasks
    sender, \* another task that sends to the session
    row,    \* the session's row in the Registry
    child,  \* the session's child, and the prompts it has not answered
    made,   \* lines put in so far
    sends,  \* prompts of others so far
    got,    \* history: the lines the session was told, per queue
    owed    \* history: a queue whose lines nobody will send before something
            \* new happens, since a send failed or a turn died

vars == <<queue, drain, sender, row, child, made, sends, got, owed>>

Lines == 1..MaxLines

RowType == [busy : BOOLEAN, ended : BOOLEAN, gen : Nat]

\* left: prompts not answered; gen: what the child's pump captured last, if ever.
ChildType == [live : BOOLEAN, left : Nat, streaming : BOOLEAN, gen : Nat]

PCs == {"idle", "looking", "taking", "sending", "written"}

DrainType == [pc : PCs, q : {"fleet", "channel"}, lines : Seq(Nat)]

Resting == [pc |-> "idle", q |-> "channel", lines |-> <<>>]

Init ==
    /\ queue = [q \in Queues |-> <<>>]
    /\ drain = [d \in Drains |-> Resting]
    /\ sender = "idle"
    /\ row = [busy |-> FALSE, ended |-> FALSE, gen |-> 0]
    /\ child = [live |-> TRUE, left |-> 0, streaming |-> FALSE, gen |-> 0]
    /\ made = 0
    /\ sends = 0
    /\ got = [q \in Queues |-> <<>>]
    /\ owed = [q \in Queues |-> FALSE]

At(d, pc) == drain[d].pc = pc

Start(q) == [pc |-> "looking", q |-> q, lines |-> <<>>]

Step(d, pc, lines) == [pc |-> pc, q |-> drain[d].q, lines |-> lines]

Becomes(d, rec) == drain' = [drain EXCEPT ![d] = rec]

\* A task that has found the row idle and has not yet marked it busy.
SendUnderWay ==
    \/ \E d \in Drains : drain[d].pc \in {"taking", "sending", "written"}
    \/ sender # "idle"

MayLook == "overlap" \in Env \/ ~SendUnderWay

-----------------------------------------------------------------------------
(* Putting lines in *)

\* The queue with room for a line: the channel's drops its oldest at the cap.
Room(q) ==
    IF q \in Capped /\ Len(queue[q]) >= Cap THEN Tail(queue[q]) ELSE queue[q]

\* post_message, or one of the fleet's reports: enqueue, then drain.
Post(q, d) ==
    /\ made < MaxLines /\ At(d, "idle")
    /\ q = "channel" => ~row.ended
    /\ made' = made + 1
    /\ queue' = [queue EXCEPT ![q] = Append(Room(q), made + 1)]
    /\ Becomes(d, Start(q))
    /\ owed' = [owed EXCEPT ![q] = FALSE]
    /\ UNCHANGED <<sender, row, child, sends, got>>

-----------------------------------------------------------------------------
(* The drain *)

\* Mutant: the row's busy flag is not looked at.
IdleIfLive == ~row.ended

Idle == ~row.ended /\ ~row.busy

Look(d) ==
    /\ At(d, "looking") /\ MayLook
    /\ Becomes(d, IF Idle THEN Step(d, "taking", <<>>) ELSE Resting)
    /\ UNCHANGED <<queue, sender, row, child, made, sends, got, owed>>

Take(d) ==
    LET q == drain[d].q IN
    /\ At(d, "taking")
    /\ Becomes(d, IF queue[q] = <<>> THEN Resting ELSE Step(d, "sending", queue[q]))
    /\ queue' = [queue EXCEPT ![q] = <<>>]
    /\ UNCHANGED <<sender, row, child, made, sends, got, owed>>

\* A live child takes the prompt, else the session must be fit to be resumed.
Sendable == child.live \/ ~row.ended

\* A new child has a new pump.
Prompted ==
    [live |-> TRUE, left |-> child.left + 1, streaming |-> child.streaming,
     gen |-> IF child.live THEN child.gen ELSE 0]

\* send_message_with_respawn has written the prompt.
Write(d) ==
    /\ At(d, "sending") /\ Sendable
    /\ child' = Prompted
    /\ got' = [got EXCEPT ![drain[d].q] = @ \o drain[d].lines]
    /\ Becomes(d, Step(d, "written", <<>>))
    /\ UNCHANGED <<queue, sender, row, made, sends, owed>>

\* Mutant: the lines go to the back of the queue.
PutBackBehind(d) == queue[drain[d].q] \o drain[d].lines

\* Mutant: the lines are given up.
PutBackNothing(d) == queue[drain[d].q]

\* The lines go to the front again, whatever the cap says.
PutBack(d) == drain[d].lines \o queue[drain[d].q]

Fails(d) ==
    /\ At(d, "sending") /\ ("failures" \in Env \/ ~Sendable)
    /\ queue' = [queue EXCEPT ![drain[d].q] = PutBack(d)]
    /\ Becomes(d, Resting)
    /\ owed' = [owed EXCEPT ![drain[d].q] = TRUE]
    /\ UNCHANGED <<sender, row, child, made, sends, got>>

Busy == [busy |-> TRUE, ended |-> row.ended, gen |-> row.gen + 1]

Note(d) ==
    /\ At(d, "written")
    /\ row' = Busy
    /\ Becomes(d, Resting)
    /\ UNCHANGED <<queue, sender, child, made, sends, got, owed>>

-----------------------------------------------------------------------------
(* Others who send.  Clients hold messages back while the row is busy, and
   send_to_session refuses to send then. *)

SenderLooks ==
    /\ sender = "idle" /\ sends < MaxSends /\ Idle /\ MayLook
    /\ sender' = "sending" /\ sends' = sends + 1
    /\ UNCHANGED <<queue, drain, row, child, made, got, owed>>

SenderWrites ==
    /\ sender = "sending" /\ Sendable
    /\ child' = Prompted
    /\ sender' \in {"written"} \cup (IF "unmarked" \in Env THEN {"idle"} ELSE {})
    /\ UNCHANGED <<queue, drain, row, made, sends, got, owed>>

SenderNotes ==
    /\ sender = "written"
    /\ row' = Busy /\ sender' = "idle"
    /\ UNCHANGED <<queue, drain, child, made, sends, got, owed>>

SenderFails ==
    /\ sender = "sending" /\ ("failures" \in Env \/ ~Sendable)
    /\ sender' = "idle"
    /\ UNCHANGED <<queue, drain, row, child, made, sends, got, owed>>

-----------------------------------------------------------------------------
(* The child and its pump *)

\* Senders record a prompt before the child has done anything with it.
Recorded == sender # "written" /\ \A d \in Drains : ~At(d, "written")

Unbegun == child.left > 0 /\ ~child.streaming /\ Recorded

\* The first stream_event: the pump captures the turn's generation.
TurnStarts ==
    /\ Unbegun
    /\ child' = [child EXCEPT !.streaming = TRUE, !.gen = row.gen]
    /\ UNCHANGED <<queue, drain, sender, row, made, sends, got, owed>>

\* set_busy_false_if_gen: a newer prompt keeps the row busy.
Quieted == IF row.gen = child.gen THEN [row EXCEPT !.busy = FALSE] ELSE row

\* Mutant: only the channel's queue is drained when a turn ends.
ToDrainChannel == Queues \cap {"channel"}

ToDrain == Queues

\* The result line: the row goes idle, unless the pump did not see the turn begin,
\* and both queues are drained.
TurnEnds ==
    /\ child.streaming \/ ("silent" \in Env /\ Unbegun)
    /\ child' = [child EXCEPT !.streaming = FALSE, !.left = @ - 1]
    /\ row' = Quieted
    /\ \E task \in [ToDrain -> {d \in Drains : At(d, "idle")}] :
          /\ \A p, q \in ToDrain : task[p] = task[q] => p = q
          /\ drain' = [d \in Drains |-> IF \E q \in ToDrain : task[q] = d
                                        THEN Start(CHOOSE q \in ToDrain : task[q] = d)
                                        ELSE drain[d]]
    /\ owed' = [q \in Queues |-> FALSE]
    /\ UNCHANGED <<queue, sender, made, sends, got>>

\* The process exits between turns, as `claude -p` does.
ChildExits ==
    /\ child.live /\ child.left = 0
    /\ child' = [child EXCEPT !.live = FALSE]
    /\ UNCHANGED <<queue, drain, sender, row, made, sends, got, owed>>

\* It dies in a turn: the end of file clears busy, if the pump saw the turn begin,
\* and drains nothing.
ChildDies ==
    /\ \/ "lateDeath" \in Env /\ child.streaming
       \/ "earlyDeath" \in Env /\ Unbegun
    /\ child' = [child EXCEPT !.live = FALSE, !.left = 0, !.streaming = FALSE]
    /\ row' = Quieted
    /\ owed' = [q \in Queues |-> TRUE]
    /\ UNCHANGED <<queue, drain, sender, made, sends, got>>

End ==
    /\ ~row.ended
    /\ row' = [row EXCEPT !.ended = TRUE]
    /\ UNCHANGED <<queue, drain, sender, child, made, sends, got, owed>>

-----------------------------------------------------------------------------

DrainNext(d) == Look(d) \/ Take(d) \/ Write(d) \/ Fails(d) \/ Note(d)

SenderNext == SenderWrites \/ SenderNotes \/ SenderFails

Next ==
    \/ \E d \in Drains : (\E q \in Queues : Post(q, d)) \/ DrainNext(d)
    \/ SenderLooks \/ SenderNext
    \/ TurnStarts \/ TurnEnds \/ ChildExits \/ ChildDies \/ End

Spec == Init /\ [][Next]_vars

\* tokio runs the tasks, a send returns, and a turn begun comes to its end.
Fairness ==
    /\ \A d \in Drains : WF_vars(DrainNext(d))
    /\ WF_vars(SenderNext)
    /\ WF_vars(TurnStarts)
    /\ WF_vars(TurnEnds \/ ChildDies)

FairSpec == Spec /\ Fairness

-----------------------------------------------------------------------------
(* Properties *)

TypeOK ==
    /\ queue \in [Queues -> Seq(Nat)]
    /\ drain \in [Drains -> DrainType]
    /\ \A d \in Drains : ~At(d, "idle") => drain[d].q \in Queues
    /\ sender \in {"idle", "sending", "written"}
    /\ row \in RowType
    /\ child \in ChildType
    /\ child.streaming => child.left > 0
    /\ made \in Nat
    /\ sends \in Nat
    /\ got \in [Queues -> Seq(Nat)]
    /\ owed \in [Queues -> BOOLEAN]

\* The lines a queue has given to drains that have not sent them.
Held(q) == UNION {ToSet(drain[d].lines) : d \in {e \in Drains : drain[e].q = q}}

\* A line is told once, waits, or made room in a full channel: a drain that
\* fails, two that overlap or a session that dies in between lose and repeat
\* none.
Promise == INSTANCE WakePromise
    WITH waiting <- [q \in Queues |-> ToSet(queue[q]) \cup Held(q)],
         told <- [q \in Queues |-> ToSet(got[q])]
KeepsPromise == Promise!WakeSpec

\* Lines of a queue are told in the order they were put in, also when a send
\* fails while newer lines come in.
InOrder == \A q \in Queues : \A i, j \in DOMAIN got[q] :
              i < j => got[q][i] < got[q][j]

\* jarvis_wake.rs:6: a drain never writes into a running turn.
NeverMidTurn ==
    [][\A d \in Drains : At(d, "sending") /\ drain'[d].pc = "written"
                            => child.left = 0]_vars

\* The row is busy with a turn that is over and whose beginning the pump never
\* saw: no turn's end and no drain will do anything.
Stranded == row.busy /\ child.left = 0 /\ child.gen # row.gen

\* A line that waits is told, unless the session ends: whoever finds the row
\* busy may leave, since the turn's end drains both queues.  After a failed
\* send or a dead turn it takes a new line or a turn's end.  After a turn that
\* ended or died before it streamed the row stays busy, and the line waits.
WaitingIsTold ==
    \A q \in Queues :
        queue[q] # <<>> ~> (queue[q] = <<>> \/ row.ended \/ owed[q] \/ Stranded)
================================================================================
