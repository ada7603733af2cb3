------------------------------ MODULE Schedule ------------------------------
(***************************************************************************)
(* Scheduled messages and scheduled new chats: the store of items          *)
(* (sessions/scheduled_items.rs), the daemon's tick loop and fire_now that *)
(* fire them (daemon/schedule.rs, schedule_fire.rs), the RPC methods that  *)
(* edit them (methods/schedule.rs), the rate limit that requeues them, and *)
(* the daemon's crash and restart.                                         *)
(*                                                                         *)
(* A fire is not one step: the item is claimed, the target is checked, the *)
(* prompt is sent (a spawn and a pipe write, both awaited) and the outcome *)
(* is written back.  The tick handles its items one after the other, from  *)
(* a list it read at its start; RPC handlers run on other threads.         *)
(*                                                                         *)
(* One account, and one recurrence rule ("daily", every Period).           *)
(***************************************************************************)
EXTENDS Naturals, FiniteSets

CONSTANTS
    Ids,        \* items; each is created at most once (they are uuids)
    Sessions,
    SessionOf,  \* the session a Message item targets, None for a NewChat
    NowTasks,   \* handlers of schedule_fire_now
    Env,        \* what happens around the scheduler, see EnvChoices
    Times,      \* the fire times users pick
    Grace,      \* the grace window
    Period,     \* of a recurrence
    ResumeDelay, Stagger,   \* RESUME_DELAY_SECS, RESUME_STAGGER_SECS
    MaxTime,    \* bound on the clock
    MaxVersions,\* bound: creates and edits
    MaxSends,   \* bound: how often one prompt goes out; further sends fail
    None

(* "update", "delete"  the user edits, deletes items
   "recurring"         some items recur
   "fireNow"           the user fires items by hand
   "limit"             the account runs out of quota
   "otherSends"        clients send to the sessions while they are not busy
   "crash"             the daemon dies and is started again
   "diskFull"          write_atomic fails, which the store only logs       *)
EnvChoices == {"update", "delete", "recurring", "fireNow", "limit",
               "otherSends", "crash", "diskFull"}

ASSUME ConstantsAssumption ==
    /\ Env \subseteq EnvChoices
    /\ SessionOf \in [Ids -> Sessions \cup {None}]
    /\ "tick" \notin NowTasks
    /\ Times \subseteq Nat
    /\ Grace \in Nat \ {0} /\ Period \in Nat \ {0}
    /\ ResumeDelay \in Nat /\ Stagger \in Nat
    /\ MaxTime \in Nat /\ MaxVersions \in Nat /\ MaxSends \in Nat
    /\ IsFiniteSet(Ids) /\ IsFiniteSet(NowTasks)

Firers == NowTasks \cup {"tick"}

Versions == 1..MaxVersions

\* "interrupted" is Failed with the reason that the daemon restarted mid-fire.
Statuses == {"pending", "firing", "sent", "failed", "interrupted", "missed"}

\* version: history, the number of the create or edit the record stems from;
\* waiting: last_result says that the account was still rate limited.
ItemType == [version : Versions, recurring : BOOLEAN, fireAt : Nat,
             status : Statuses, waiting : BOOLEAN]

VARIABLES
    store,    \* scheduled-items.json
    used,     \* history: ids given out
    version,  \* history: creates and edits so far
    sent,     \* history: how often each version's prompt went out
    now,
    up,       \* the daemon: "down", "booting", "up"
    tick,     \* the tick loop
    job,      \* what each firer has claimed
    edit,     \* the schedule_update call under way
    busy,     \* Instance.busy of the sessions
    turn,     \* sessions whose child is in the middle of a turn
    resetsAt  \* rate_limited_resets_at of the account's sessions, 0 for none

vars == <<store, used, version, sent, now, up, tick, job, edit, busy, turn, resetsAt>>

NoJob == [pc |-> "idle"]
NoEdit == [pc |-> "idle"]
Asleep == [pc |-> "asleep", now |-> 0, todo |-> {}]

StoreType == [Ids -> ItemType \cup {None}]

\* todo: what is left of the list the tick read at its start.
TickType == [pc : {"asleep", "scanning"}, now : Nat,
             todo : SUBSET [id : Ids, fireAt : Nat]]

\* item: the claimed record, from "sent" or "done" on the outcome.
JobType == {NoJob} \cup [pc : {"claimed", "sending", "sent", "done"}, id : Ids,
                         item : ItemType, now : Nat]

EditType == {NoEdit} \cup [pc : {"checked"}, id : Ids, item : ItemType]

TypeOK ==
    /\ store \in StoreType
    /\ used \in SUBSET Ids
    /\ version \in 0..MaxVersions
    /\ sent \in [Versions -> Nat]
    /\ now \in 0..MaxTime
    /\ up \in {"down", "booting", "up"}
    /\ tick \in TickType
    /\ job \in [Firers -> JobType]
    /\ edit \in EditType
    /\ busy \in [Sessions -> BOOLEAN]
    /\ turn \in [Sessions -> BOOLEAN]
    /\ resetsAt \in Nat

Init ==
    /\ store = [i \in Ids |-> None]
    /\ used = {} /\ version = 0
    /\ sent = [v \in Versions |-> 0]
    /\ now = 0 /\ up = "up"
    /\ tick = Asleep
    /\ job = [f \in Firers |-> NoJob]
    /\ edit = NoEdit
    /\ busy = [s \in Sessions |-> FALSE]
    /\ turn = [s \in Sessions |-> FALSE]
    /\ resetsAt = 0

-----------------------------------------------------------------------------
(* The store *)

HasStatus(i, status) == store[i] # None /\ store[i].status = status

Pending(i) == HasStatus(i, "pending")

\* write_atomic: the whole map replaces the file; an error is only logged.
WriteMap(map) ==
    store' = map \/ ("diskFull" \in Env /\ store' = store)

\* Mutant: the item is not looked at again under the store's lock.
ClaimUnchecked(i) ==
    /\ store[i] # None
    /\ WriteMap([store EXCEPT ![i].status = "firing"])

\* claim_for_fire
Claim(i) ==
    /\ Pending(i)
    /\ WriteMap([store EXCEPT ![i].status = "firing"])

\* Mutant: the outcome of a fire is written if the item still exists.
FinishFireIfThere(i, item) ==
    IF store[i] # None THEN WriteMap([store EXCEPT ![i] = item]) ELSE UNCHANGED store

\* Mutant: the outcome is written to a pending record, as the claim is.
FinishFireOfPending(i, item) ==
    IF Pending(i) THEN WriteMap([store EXCEPT ![i] = item]) ELSE UNCHANGED store

\* finish_fire: only a record that is still firing is overwritten.
FinishFire(i, item) ==
    IF HasStatus(i, "firing") THEN WriteMap([store EXCEPT ![i] = item])
    ELSE UNCHANGED store

-----------------------------------------------------------------------------
(* RPC methods *)

\* The record a user writes when he picks a time for item i.
Picked(recurring, time) ==
    [version |-> version + 1, recurring |-> recurring, fireAt |-> time,
     status |-> "pending", waiting |-> FALSE]

MayRecur == IF "recurring" \in Env THEN BOOLEAN ELSE {FALSE}

\* schedule_create
Create(i) ==
    /\ up # "down" /\ i \notin used /\ version < MaxVersions
    /\ \E recurring \in MayRecur, time \in Times :
         WriteMap([store EXCEPT ![i] = Picked(recurring, time)])
    /\ used' = used \cup {i}
    /\ version' = version + 1
    /\ UNCHANGED <<sent, now, up, tick, job, edit, busy, turn, resetsAt>>

\* schedule_update: it looks whether the id exists ...
UpdateChecks(i) ==
    /\ "update" \in Env /\ up # "down"
    /\ edit = NoEdit /\ store[i] # None /\ version < MaxVersions
    /\ \E time \in Times :
         edit' = [pc |-> "checked", id |-> i, item |-> Picked(store[i].recurring, time)]
    /\ version' = version + 1
    /\ UNCHANGED <<store, used, sent, now, up, tick, job, busy, turn, resetsAt>>

\* ... and then writes, whatever the store holds by now.
UpdateWrites ==
    /\ edit # NoEdit
    /\ WriteMap([store EXCEPT ![edit.id] = edit.item])
    /\ edit' = NoEdit
    /\ UNCHANGED <<used, version, sent, now, up, tick, job, busy, turn, resetsAt>>

\* schedule_delete
Delete(i) ==
    /\ "delete" \in Env /\ up # "down"
    /\ store[i] # None
    /\ WriteMap([store EXCEPT ![i] = None])
    /\ UNCHANGED <<used, version, sent, now, up, tick, job, edit, busy, turn, resetsAt>>

-----------------------------------------------------------------------------
(* Outcomes of a fire *)

\* next_occurrence, strictly after t.
NextOccurrence(t) == Period * (t \div Period + 1)

Settled(item, status, t) ==
    IF item.recurring
    THEN [item EXCEPT !.status = "pending", !.fireAt = NextOccurrence(t), !.waiting = FALSE]
    ELSE [item EXCEPT !.status = status, !.waiting = FALSE]

\* next_stagger_slot: one slot further per pending message of the account.
NextStaggerSlot(map, resets) ==
    resets + ResumeDelay + Stagger *
        Cardinality({i \in Ids : /\ SessionOf[i] # None
                                 /\ map[i] # None /\ map[i].status = "pending"})

Requeued(item) ==
    [item EXCEPT !.status = "pending", !.waiting = TRUE,
                 !.fireAt = NextStaggerSlot(store, resetsAt)]

Claimed(i, pc, item, t) == [pc |-> pc, id |-> i, item |-> item, now |-> t]

Firing(item) == [item EXCEPT !.status = "firing"]

-----------------------------------------------------------------------------
(* The tick *)

\* The list a tick works through; a tick that finds nothing due is a stutter.
DueEntries ==
    {[id |-> i, fireAt |-> store[i].fireAt] :
        i \in {j \in Ids : Pending(j) /\ store[j].fireAt <= now}}

TickStarts ==
    /\ up = "up" /\ tick.pc = "asleep" /\ DueEntries # {}
    /\ tick' = [pc |-> "scanning", now |-> now, todo |-> DueEntries]
    /\ UNCHANGED <<store, used, version, sent, now, up, job, edit, busy, turn, resetsAt>>

Lateness(entry) == tick.now - entry.fireAt

\* Mutant: every target counts as idle.
TargetNeverBusy(i) == FALSE

TargetBusy(i) == SessionOf[i] # None /\ busy[SessionOf[i]]

\* Mutant: a busy target is waited for without end.
DefersForEver(entry) == TargetBusy(entry.id)

Defers(entry) == Lateness(entry) < Grace /\ TargetBusy(entry.id)

Handled(entry) == tick' = [tick EXCEPT !.todo = @ \ {entry}]

\* Within the grace window a busy target is left alone until the next tick;
\* an item somebody else has claimed, edited away or deleted is skipped.
TickSkips(entry) ==
    /\ job["tick"] = NoJob
    /\ Defers(entry) \/ ~Pending(entry.id)
    /\ Handled(entry)
    /\ UNCHANGED <<store, used, version, sent, now, up, job, edit, busy, turn, resetsAt>>

\* The item is fired, or, past the grace window, missed.
TickClaims(entry) ==
    /\ job["tick"] = NoJob
    /\ ~Defers(entry)
    /\ Claim(entry.id)
    /\ LET item == Firing(store[entry.id]) IN
         job' = [job EXCEPT !["tick"] =
                   IF Lateness(entry) >= Grace
                   THEN Claimed(entry.id, "done", Settled(item, "missed", tick.now), tick.now)
                   ELSE Claimed(entry.id, "claimed", item, tick.now)]
    /\ Handled(entry)
    /\ UNCHANGED <<used, version, sent, now, up, edit, busy, turn, resetsAt>>

TickEnds ==
    /\ tick.pc = "scanning" /\ tick.todo = {} /\ job["tick"] = NoJob
    /\ tick' = Asleep
    /\ UNCHANGED <<store, used, version, sent, now, up, job, edit, busy, turn, resetsAt>>

\* schedule_fire_now: whatever the item's fire time.
FireNow(f, i) ==
    /\ "fireNow" \in Env /\ up # "down"
    /\ job[f] = NoJob
    /\ Claim(i)
    /\ job' = [job EXCEPT ![f] = Claimed(i, "claimed", Firing(store[i]), now)]
    /\ UNCHANGED <<used, version, sent, now, up, tick, edit, busy, turn, resetsAt>>

-----------------------------------------------------------------------------
(* fire_kind, for the tick and for fire_now *)

\* fire_message refuses a limited account, then a busy target.
CheckTarget(f) ==
    /\ job[f].pc = "claimed"
    /\ LET i    == job[f].id
           item == job[f].item
       IN job' = [job EXCEPT ![f] =
            IF SessionOf[i] # None /\ resetsAt > now
            THEN Claimed(i, "done", Requeued(item), @.now)
            ELSE IF TargetBusy(i)
            THEN Claimed(i, "done", Settled(item, "failed", @.now), @.now)
            ELSE Claimed(i, "sending", item, @.now)]
    /\ UNCHANGED <<store, used, version, sent, now, up, tick, edit, busy, turn, resetsAt>>

\* The target, or a new chat, gets the prompt.
SendSucceeds(f) ==
    /\ job[f].pc = "sending" /\ sent[job[f].item.version] < MaxSends
    /\ LET item == job[f].item
           s    == SessionOf[job[f].id]
       IN /\ sent' = [sent EXCEPT ![item.version] = @ + 1]
          /\ turn' = IF s = None THEN turn ELSE [turn EXCEPT ![s] = TRUE]
          /\ job' = [job EXCEPT ![f] =
                Claimed(@.id, "sent", Settled(item, "sent", @.now), @.now)]
    /\ UNCHANGED <<store, used, version, now, up, tick, edit, busy, resetsAt>>

\* Mutant: an error is taken for a success.
SendFailsUnnoticed(f) ==
    /\ job[f].pc = "sending"
    /\ job' = [job EXCEPT ![f] =
          Claimed(@.id, "done", Settled(@.item, "sent", @.now), @.now)]
    /\ UNCHANGED <<store, used, version, sent, now, up, tick, edit, busy, turn, resetsAt>>

\* The spawn or the write fails.
SendFails(f) ==
    /\ job[f].pc = "sending"
    /\ job' = [job EXCEPT ![f] =
          Claimed(@.id, "done", Settled(@.item, "failed", @.now), @.now)]
    /\ UNCHANGED <<store, used, version, sent, now, up, tick, edit, busy, turn, resetsAt>>

\* The row is marked busy and the outcome written back.
Finish(f) ==
    /\ job[f].pc \in {"sent", "done"}
    /\ LET s == SessionOf[job[f].id] IN
         busy' = IF job[f].pc = "sent" /\ s # None THEN [busy EXCEPT ![s] = TRUE] ELSE busy
    /\ FinishFire(job[f].id, job[f].item)
    /\ job' = [job EXCEPT ![f] = NoJob]
    /\ UNCHANGED <<used, version, sent, now, up, tick, edit, turn, resetsAt>>

-----------------------------------------------------------------------------
(* The sessions, as the scheduler sees them *)

TurnEnds(s) ==
    /\ turn[s] /\ busy[s]
    /\ turn' = [turn EXCEPT ![s] = FALSE]
    /\ busy' = [busy EXCEPT ![s] = FALSE]
    /\ UNCHANGED <<store, used, version, sent, now, up, tick, job, edit, resetsAt>>

\* A window sends; windows hold their messages back while the row is busy.
OtherSends(s) ==
    /\ "otherSends" \in Env /\ up # "down"
    /\ ~busy[s]
    /\ turn' = [turn EXCEPT ![s] = TRUE]
    /\ busy' = [busy EXCEPT ![s] = TRUE]
    /\ UNCHANGED <<store, used, version, sent, now, up, tick, job, edit, resetsAt>>

\* handle_rate_limit_rejection: the account is out of quota, and the turn
\* that learnt it is queued as item i in place of the session's pending ones.
Rejected(i) ==
    /\ "limit" \in Env /\ up # "down"
    /\ SessionOf[i] # None /\ turn[SessionOf[i]]
    /\ i \notin used /\ version < MaxVersions
    /\ \E resets \in (now + 1)..MaxTime :
         /\ resetsAt' = resets
         /\ LET purged == [j \in Ids |->
                  IF SessionOf[j] = SessionOf[i] /\ Pending(j) THEN None ELSE store[j]]
            IN WriteMap([purged EXCEPT ![i] =
                  Picked(FALSE, NextStaggerSlot(purged, resets))])
    /\ used' = used \cup {i}
    /\ version' = version + 1
    /\ UNCHANGED <<sent, now, up, tick, job, edit, busy, turn>>

Clock ==
    /\ now < MaxTime
    /\ now' = now + 1
    /\ UNCHANGED <<store, used, version, sent, up, tick, job, edit, busy, turn, resetsAt>>

-----------------------------------------------------------------------------
(* Crash and restart *)

\* The store stays; tasks, children and rows' busy flags are gone.
Crash ==
    /\ "crash" \in Env /\ up = "up"
    /\ up' = "down"
    /\ tick' = Asleep
    /\ job' = [f \in Firers |-> NoJob]
    /\ edit' = NoEdit
    /\ busy' = [s \in Sessions |-> FALSE]
    /\ turn' = [s \in Sessions |-> FALSE]
    /\ UNCHANGED <<store, used, version, sent, now, resetsAt>>

Restart ==
    /\ up = "down" /\ up' = "booting"
    /\ UNCHANGED <<store, used, version, sent, now, tick, job, edit, busy, turn, resetsAt>>

\* Mutant: a fire the crash cut short is tried again.
SweepRetries ==
    /\ up = "booting" /\ up' = "up"
    /\ WriteMap([i \in Ids |-> IF HasStatus(i, "firing")
                               THEN [store[i] EXCEPT !.status = "pending"]
                               ELSE store[i]])
    /\ UNCHANGED <<used, version, sent, now, tick, job, edit, busy, turn, resetsAt>>

\* sweep_firing_to_failed, before the first tick.
Sweep ==
    /\ up = "booting" /\ up' = "up"
    /\ WriteMap([i \in Ids |-> IF HasStatus(i, "firing")
                               THEN [store[i] EXCEPT !.status = "interrupted"]
                               ELSE store[i]])
    /\ UNCHANGED <<used, version, sent, now, tick, job, edit, busy, turn, resetsAt>>

-----------------------------------------------------------------------------
TickStep ==
    \/ TickStarts \/ TickEnds
    \/ \E entry \in tick.todo : TickSkips(entry) \/ TickClaims(entry)

FireStep(f) == CheckTarget(f) \/ SendSucceeds(f) \/ SendFails(f) \/ Finish(f)

Next ==
    \/ \E i \in Ids : Create(i) \/ UpdateChecks(i) \/ Delete(i) \/ Rejected(i)
    \/ UpdateWrites
    \/ TickStep
    \/ \E f \in NowTasks, i \in Ids : FireNow(f, i)
    \/ \E f \in Firers : FireStep(f)
    \/ \E s \in Sessions : TurnEnds(s) \/ OtherSends(s)
    \/ Clock \/ Crash \/ Restart \/ Sweep

\* The runtime runs every ready task, time passes, the daemon is restarted.
\* Nothing says that turns end or that users do anything.
Fairness ==
    /\ WF_vars(TickStep) /\ WF_vars(Clock) /\ WF_vars(Restart) /\ WF_vars(Sweep)
    /\ \A f \in Firers : WF_vars(FireStep(f))

Spec == Init /\ [][Next]_vars

FairSpec == Spec /\ Fairness
-----------------------------------------------------------------------------
(* Properties *)

\* The claims on i that have neither sent its prompt nor given up.
Claims(i) == {f \in Firers : job[f].pc \in {"claimed", "sending"} /\ job[f].id = i}

Promise == INSTANCE SchedulePromise WITH
    Items   <- Ids,
    Prompts <- Versions,
    armed   <- {i \in Ids : Pending(i)},
    taken   <- [i \in Ids |-> Cardinality(Claims(i))]

\* Every prompt that goes out was claimed, and every claim used up an arming
\* (scheduled_items.rs: claim_for_fire, the write-before-send guard).
KeepsPromise == Promise!PromiseSpec

\* The prompt of a one-shot goes out once for each time the user wrote it,
\* however often the daemon dies, the item is requeued or is fired by hand.
OneShotOnce ==
    [][\A f \in Firers :
        (SendSucceeds(f) /\ ~job[f].item.recurring) => sent[job[f].item.version] = 0]_vars

\* What an item shows is what happened: "sent" only if the prompt went out,
\* "missed" and "failed" only if it did not.
OutcomeIsTrue ==
    \A i \in Ids :
        /\ HasStatus(i, "sent") => sent[store[i].version] > 0
        /\ (HasStatus(i, "missed") \/ HasStatus(i, "failed")) => sent[store[i].version] = 0

\* An item shows as firing only while somebody fires it, or until the sweep.
FiringHasOwner ==
    \A i \in Ids : HasStatus(i, "firing") =>
        up # "up" \/ \E f \in Firers : job[f] # NoJob /\ job[f].id = i

\* Neither a failure nor a missed occurrence ends a recurrence; only a crash
\* in the middle of a fire does.
RecurringStaysArmed ==
    \A i \in Ids : store[i] # None =>
        (store[i].recurring => store[i].status \in {"pending", "firing", "interrupted"})

\* The user's word is the last (scheduled_items.rs: finish_fire): the outcome of a
\* fire never overwrites what was written after its claim, and a deleted item
\* does not come back, unless a schedule_update found it before it was deleted.
UsersWordIsLast ==
    [][/\ \A f \in Firers :
           (Finish(f) /\ store[job[f].id] # None) =>
               store'[job[f].id].version = store[job[f].id].version
       /\ \A i \in used :
           (store[i] = None /\ (edit = NoEdit \/ edit.id # i)) => store'[i] = None]_vars

\* No prompt is written into the middle of a turn (schedule_fire.rs).
NeverIntoATurn ==
    [][\A f \in Firers :
        (SendSucceeds(f) /\ SessionOf[job[f].id] # None) => ~turn[SessionOf[job[f].id]]]_vars

\* A due item is fired, missed, moved or deleted, even if its target stays
\* busy for ever.  (Later fire times lie beyond the bounded clock.)
DueItemsSettle ==
    \A i \in Ids :
        LET overdue == Pending(i) /\ store[i].fireAt + Grace <= MaxTime
        IN overdue ~> ~overdue

\* No item shows as firing for ever.
FiringResolves ==
    \A i \in Ids : HasStatus(i, "firing") ~> ~HasStatus(i, "firing")
=============================================================================
