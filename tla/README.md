# Verification of claude-conductor

TLA+ models of the parts of claude-conductor where several tasks work on the
same state, TLC configurations that check them on small instances, and TLAPS
proofs of the theorems that matter most. Paths are relative to the repository.

Check a run with `tlc -config MCTurnCalm.cfg MCTurn`, a proof with
`tlapm Turn_proofs.tla`.

## 1. The system and its parts

claude-conductor is a desktop application (Tauri, Rust and TypeScript) around a
long-lived **daemon** (`src-tauri/src/daemon`). The daemon starts one `claude`
child process per chat session, writes prompts into its stdin, reads
stream-json from its stdout, and keeps a row per session in a **registry** that
every window, phone and MCP client shows. It runs on tokio's multi-threaded
runtime with four workers: two tasks interleave at every `.await`, and two
synchronous handlers may run side by side between two locks.

| part | state | operations | what is hard | correct means |
|---|---|---|---|---|
| **Turn bookkeeping** `pump.rs`, `lifecycle.rs`, `methods/lifecycle.rs`, `registry.rs`, `chat/parser.rs` | `Instance.busy/awaiting/closing/ended_at/turn_gen`; side maps `close_requested`, `background_tasks`, `reported_status`; the pump's locals `saw_stream_turn`, `pump_turn_gen`, `closing_flagged`; the parser's latch | send, respawn and send, cancel; each kind of stdout line; end of file; `report_turn_status`; `close_session` | no line says which prompt it answers; a child dies at any point; `--resume` replays lines; /close has a confirmation that may never come | a quiet session is neither busy nor closing; statuses belong to their turn; a confirmed close ends the session |
| **Commit lock** `state.rs`, `hooks_server/commit_lock.rs`, `claude_config.rs` | project -> (session, Instant) | poll for it, release it, expire | holders die without releasing; three timeouts (TTL, poll budget, curl) must fit together | no two sessions commit in a project together; every hook is answered in time |
| **Scheduled items** `sessions/scheduled_items.rs`, `daemon/schedule.rs`, `schedule_fire.rs`, `methods/schedule.rs`, `rate_limit.rs` | `scheduled-items.json`, the tick's list, the claims in flight | create, update, delete, fire now, tick, fire, finish, requeue, sweep | the tick works for minutes from an old list; a crash between claim and write-back; edits during a fire | a one-shot goes out once; no item stays firing; edits and deletions survive |
| **Wake queues** `jarvis_wake.rs`, `repo_channel_wake.rs` | session -> queued lines, two maps | enqueue, drain, push back | busy is read before and set after an awaited send | a line is told once, in order, never into a turn, and not left waiting |
| **Session life** `lifecycle.rs`, `methods/registry.rs`, `methods/lifecycle.rs` | SessionMap, row's `ended`, `frozen`, account | spawn, kill and wait, restart, freeze, unfreeze, end, move to an account | respawns under the same id race the old child's teardown | one live child per session; a frozen or ended session stays so |
| **Prompts** `hooks_server/permission.rs`, `methods/permission.rs`, `state.rs` | `pending` one-shot senders, `prompts` cards, the row's `awaiting` | ask, answer, time out, expire at end of file and at a cancel | an answer races the hook's timeout, the child's death and the expiry | nobody waits without a card; nothing is left over; "input needed" has a question |
| **Streaming** `session.rs`, `broadcast.rs`, `pump.rs`, `methods/lifecycle.rs` | `StreamingText`, a bounded broadcast channel, a forwarding task per client | fold, publish, attach, lag, resync | a client attaches in mid-stream, or loses events | the text a client rebuilds is whole |
| **Window's event store** `shared/chat/event-store.ts`, `ipc/chat/watcher.rs` | transcript, accumulator, recently told texts | deliver, load a page, reconcile, watch the file | three sources bring the same message in any order | each message once, and all of them |
| **Session registry** `sessions/registry.rs`, `persistence.rs`, `detector.rs`, `hooks_server/lifecycle.rs`, `channel_adopt.rs`, `takeover.rs` | rows; `interactive-sessions.json`; strikes | open, end, externalize, take over, save, restore, adopt, detect, prune | the daemon restarts at any point; hooks come late; a pass works from an old list | what was open is open; what runs is not ended; what is gone is |
| **When-done** `when_done/` | armed action, engine task, countdown | arm, cancel, watch, close each session, count down, act | sessions, the list of them and the user move on while the engine awaits | never acts over a running turn, nor when called off |
| **App's link** `daemon_link.rs`, `daemon_client/mod.rs`, `rpc.rs`, `transport_common.rs` | pending replies, subscriptions, the client's slot, the cached list, the prompts shown | call, read, close, connect anew, seed, follow, poll | one pipe carries every task's calls and the notifications, and dies at any moment | no call waits for ever; list and cards come to agree with the daemon's again |
| **Daemon start** `daemon/mod.rs`, `lockfile.rs`, `handshake.rs`, `daemon_link.rs` | lockfile, pipe, protocol version | take the lock, probe, replace, reconnect | two starts race; a stale lockfile | one daemon |
| **Channels, accounts, remote access, voice, usage, tokens, storage, settings, notifications, MCP, skills, views, Android shell** | files, processes, SQL, DOM | | mostly I/O | see PROJECT.json for why each is left out |

How they interact: RPC handlers, the wake queues' drains, the schedule's tick and
the auto-resume all end in `send_message_with_respawn`. The pump of the
session's child is the one reader of its stdout; it clears what senders set, and
its end-of-turn branch triggers the drains. The claude CLI calls back into the
daemon through HTTP hooks (stop, close, permission, commit lock). Everything
shared sits behind a mutex per structure and no lock is held over an `.await`, so
what can go wrong is almost always a value read under one lock and used under the
next one. The hazards in PROJECT.json list those places.

## 2. Modules

One module per part, each with its parameters as CONSTANTS and one action per
operation; none has a RECURSIVE operator, so that all can be proved about.

| module | models | abstract specification | proofs |
|---|---|---|---|
| `CommitLock` | the commit lock and its two hooks | | `Hooks_proofs` |
| `Turn` | the busy, awaiting and closing of one session | | `Turn_proofs` |
| `Schedule` | the scheduled items, tick and fires | `SchedulePromise` | `Schedule_proofs` |
| `SessionLife` | spawn, kill, freeze and end of one session | | `SessionLife_proofs` |
| `WakeQueue` | both wake queues of one session, over a send and a turn | `WakePromise` | `WakeQueue_proofs` |
| `Prompts` | permission requests, questions and cards of one session | | `Hooks_proofs` |
| `WhenDone` | the when-done engine over the sessions | | `WhenDone_proofs` |
| `ChatStream` | one chat from the child's output to a window | | `ChatStream_proofs` |
| `Registry` | the rows over crashes, terminals and the detector | | `Registry_proofs` |
| `Link` | the app's calls, loop and poll over one connection after another | | none: its properties are liveness |

`MCx` modules and their `.cfg` files are the instances TLC checks.

### How the modules correspond to the code

**CommitLock.** `holder` and `age` are the `CommitLock` entries of
`DaemonState`; `pc`, `wait`, `sleep` follow each hook request through
`commit_lock_decision_with_budget` and on into git. Time is discrete. The code
only compares ages with bounds, so ages are kept, saturated at those bounds, and
there is no absolute clock. `Tick` waits for a poll that is due, which is what
makes the timeouts meaningful. `Killed(s)` is the death of a session's process
tree, `ReleaseLost` a release hook that does not run.

**Turn.** One session. `row` is its `Instance`, `side` the registry's side maps,
`live` the SessionMap's entry, `child[p]`, `pipe[p]` and `pump[p]` the
incarnations of the child with their stdout and their pump. `Send` and
`RespawnAndSend` are the awaited write, `RecordSend` what the RPC handler does
once the write has returned. The pump's actions are one per kind of line; each
begins with the `feed` of `AfterFeed`, which is where the generation is
captured. The end of file takes three steps (`Eof`, `EofSettles`, `EofCloses`),
as the code awaits between them. A result line ends its turn with the status that
was reported under the captured generation, else with the marker in its text
(`EndStatus`); replayed lines carry markers too. `OnCloseConfirm` may come in any
turn, as the hook does not ask which. History variables are `prompts`, the `turn`
of a line and `by` of a report: only properties read them. The
child is external; what it may do is chosen with `Env`.

**Schedule.** `store` is the JSON file (the code reads and writes it whole under
one lock), `tick` the list the tick read at its start, `job[f]` the item each
firer (the tick, or a `fire_now` handler) has claimed and how far its fire is,
`edit` the `schedule_update` call between its check and its write. `busy` and
`turn` are the targets' rows and what their children really do. `Rejected` is
the rate limit's requeue, in one step: its read and its write are separate locks
in the code, but no run needs that. `Crash` loses everything but the file.
`SchedulePromise` is what a schedule promises; `KeepsPromise` instantiates it
with armed = the pending items and taken = the claims that have neither sent nor
given up.

**SessionLife.** One session again, but all the operations that spawn, kill,
freeze or end its child. `map` is the SessionMap's entry, `child[p]` and
`pump[p]` the incarnations that share the session's id, `row` the fields of the
`Instance` that the guards read, and `task[t]` an RPC handler (or wake) with the
stretch of code it is in. A stretch ends where the code awaits, or where it looks
again at a structure another thread may have changed: `Check` and `Spawn` are
the two halves of `spawn_session`, which tests the map and the row long before it
inserts. `respawn_interactive` is `Look`'s or `Resume`'s test of the row followed
by both. `overlapped` is history: two
operations have been under way at once. The five seconds of `kill_and_wait_for_teardown` and the three of
`end_session` are timeouts that may fire as soon as they could. What turns do to
the row is `Turn`'s.

**WakeQueue.** `queue` holds the waiting lines of both maps for one session, a
line being its number; `drain[d]` is a `spawn_drain` task at one of `drain`'s
stretches: `Look` tests the row, `Take` empties the queue, `Write` or `Fails` is
the awaited `send_message_with_respawn`, `Note` sets busy. `sender` is any other
task that sends. `TurnEnds` is the pump's result branch, which clears busy under
the generation's guard and starts a drain per queue; `ChildDies` is its end of
file, which has the same guard and starts none. The generation is captured at a
turn's first stream_event (`TurnStarts`); a turn that ends or dies before it
(`"silent"`, `"earlyDeath"`) leaves the row busy. `got` (what the session was told) and
`owed` (nobody will drain before something new happens) are history.
`WakePromise` is a queue whose lines are told once, wait, or are pushed out of a
full queue; `waiting` maps to the queue together with what drains hold.

**Prompts.** `hook[r]` is the handler of one request, `pending` and `listed` the
two maps of `DaemonState`, `resp[r]` the `respond_permission` or
`respond_question` call, which takes the sender, looks up the session and settles
in three locks. `expire` are the two callers of `expire_prompts_for_session`,
each between its two locks. `Gone` is axum dropping a handler where it awaits,
since the hook's curl died with the child. `SendMessage` clears the row's mark, and
`TurnEnds` writes the status that the turn reported, "question" or another;
`reported`, history, says that the mark is such a one. A durable card (`Cards`) has no sender
and its handler returns at once.

**WhenDone.** `phase` is `WhenDoneInner.state.phase`, `handle` its task, and
`arming` the engines between `spawn` and the store of their handle; `engine[e]`
is `run_engine_with_deps` between two awaits, with the locals each loop keeps.
`session` are the daemon's rows, `cached` the app's list of them, which is all
the engine sees. "working" is a session whose background tasks will bring a turn.

**ChatStream.** `turn` is the child, `streaming` the daemon's `StreamingText`,
`chan` and `lagged` the broadcast receiver, `fwd` the forwarding task (`resync`
is between its subscription, or a lag, and its snapshot), `store` the window's
`CacheEntry` with `shown` = events, `acc` = streamAcc and `recent` = recently
delivered signatures. A chunk of text is a triple, so a text says itself whether
it is whole. `done` and `logged` are what the child has finished and written to
its transcript; pages and the watcher read the latter. A line that the watcher brings
is a message or a tool call followed by its usage (`DeliverLine`), which closes the
accumulator whatever the line was; the pump takes only the tool calls out of such
a line. What a page or a
reconciliation keeps of a list (`filter` in the code) is `Filtered`, stated as the
elements at given places in their order. A lag's reconciliation is that of the
heartbeat; one at a time.

**Registry.** `row` is `Registry.inner`, `file` the snapshot of in-app chats,
`task[t]` an RPC handler: it changes a row, lists the chats and writes the list in
three steps, as nothing serialises `save_snapshot`. `proc` are claude processes in
terminals with what is left of their SessionStart hook; `detector` a pass between
its scan of the processes, its list of the rows and its judgement of each.
`Crash` loses all but the file and the terminals; the start has the order of
`run_daemon_main`. `told` is history: what the last call that returned told the
user of the chat.

**Link.** `conn[g]` is the connection of one generation, both ends: `pending`,
`listens` and `told` are the client's map of senders, its global subscription and
that subscription's channel; `requests` and `served` are the daemon's tasks between
a request and its reply, `news` what the forwarding task has yet to pass on, `frames`
the outbound queue and the pipe. The reader's end has the code's three steps
(`Stops`, `DropSubs`, `MarkClosed`); what is
left of an old connection when the loop connects anew, which nobody calls on any
more, is forgotten. `loop` is `run_app_subscription`, with
`Following` the calls it begins with; `poll` the task that lists open prompts;
`user[u]` a command that changes the list and asks for it. `holder` is the mutex of
the slot, which the code holds over the call. A list is its version. Of
notifications only `instances_changed` is there. Who publishes it reads the list
(`Change`) and broadcasts what it has read (`Publish`) in two steps, and several do
at once: `daemon.read` holds the lists read and not yet broadcast, which go out in
any order. A receiver that is behind is told the last that was broadcast.
`reseeded`, and `crossed` (what was broadcast last is older than what was before),
are history.

Definitions called *Mutant* are never used by a specification: each changes one
definition as a plausible bug would, and a property must then fail.

## 3. Runs

| run | instance | shows | states |
|---|---|---|---|
| `commit_lock` | 3 sessions (one unknown to the registry), 1 project, TTL 5, budget 3, interval 2, curl 5, commits up to 4 | commits exclude each other, every hook is answered before curl gives up, no lock outlives its TTL | 26 k |
| `turn_calm` | 1 client, 2 prompts, 2 incarnations, /close and dry runs, reports, markers, background tasks, death after output | everything the bookkeeping promises: busy, awaiting, and statuses | 68 k |
| `turn_wild` | as above with sends into a busy turn and into a teardown, cancels, early deaths, rejections, silent turns | what holds whatever happens: the Closing badge has an owner, a confirmed close ends the session | 532 k |
| `schedule_item` | 1 item, tick and `fire_now`, edits, deletions, recurrence, quota, crashes, other senders, clock up to 3 | `KeepsPromise`, one-shots once, firing resolves, outcomes are true | 197 k |
| `schedule_tick` | a message and a new chat, edits, deletions, recurrence, tick only | every due item settles, edits survive, no prompt into a turn, nothing comes back | 125 k |
| `session` | 9 operations, 2 at a time but never two that spawn, 4 incarnations; children exit at any point, teardowns outlast their wait | a running child is the SessionMap's, every operation returns; until two have overlapped, a frozen session has no child, an ended one gets none, `end_session` leaves none | 34 k |
| `wake_queue` | both queues, a cap of 1, 3 lines, 3 drain tasks, 1 other send, failures, turns that die or end at any point, the session's end | `KeepsPromise`, lines in order, none into a turn, none left waiting by an idle session | 332 k |
| `prompts` | 1 permission, 1 question, 1 durable card, 2 children, turns that report a question | a waiter has a card, nothing is left over, "input needed" has a question or was reported | 1.7 M |
| `when_done` | 2 sessions, 3 armings, a countdown of 2 | acts over idle sessions only, for the last arming only, and closing ends | 32 k |
| `chat_stream` | 2 blocks of 2 chunks in one turn or two, a channel of 1 event, 1 page load, heartbeat, watcher | the rebuilt text is whole, no message twice, all is shown in the end | 323 k |
| `registry` | 2 sessions, 2 terminal processes, 1 handler, crashes at any point | serves what the user was told, ends no session that runs and every one that is gone | 169 k |
| `link` | the loop, the poll and a command, 1 prompt, 2 connections, 2 changes of the list, a channel of 1; lists read and broadcast in any order; the daemon dies, the pipe breaks | every call returns, the app's list becomes the daemon's again, every open prompt is shown | 318 k |

**Bounds.** `MaxGen` 2 prompts and `MaxProcs` 2 children are the fewest with a
newer turn and a newer child, which every stale value of `Turn` is about;
`MaxStream` 2 lets a turn stream after the capture (1 in `turn_wild`, to keep it
small), `PipeSize` 2 lets the pump fall one turn behind. The lock's times keep the
order of the code's constants (interval < budget < curl; commit < TTL). The clock
of `Schedule` runs to `MaxTime` 3 with `Grace` 2, so an item can be due, late and
past its grace; `MaxVersions` 3 allows two edits, `MaxSends` 2 lets a prompt that
must go out once go out twice. Four incarnations in `SessionLife` are an old
child, the one that takes its place, one that comes while the second is torn
down, and one after it. A cap of one line and three lines in `WakeQueue` overflow the channel while
a drain holds a line, and three drains are the two of a turn's end beside one of a
new line. Two children in `Prompts` let a prompt of the first expire beside one of
the second. Three armings in `WhenDone` arm over a running engine, and again after
a cancel. A channel of one event lags at every second one; two chunks and two
blocks tell a missing chunk from a repeated one and one block from the next. Two
sessions are the fewest for the snapshot's guard (many to none), two processes for
a terminal that is restarted. Two connections in `Link` are one that breaks at any
point and the one that takes its place, which does not, so that something can be
promised. Bounds sit in guards: a run that reaches one stops
there, which is why those runs do not check for deadlock.

**Which environment each property needs.** Each module has a set `Env` of what
the environment may do, named at its head. A run leaves out what makes its
properties fail: section 5 says how the code meets it.

- `turn_calm`: the child dies only after it has streamed, and nobody sends into a
  running turn, as the windows' held messages (`held-messages.ts`) see to.
  `turn_wild` has the rest.
- `session`: no two operations that spawn overlap. Nothing in the daemon forbids
  it, nor the overlaps that `overlapped` remembers: the properties say what the
  code relies on its callers for.
- `schedule_item`, `schedule_tick`: all but failing writes (`"diskFull"`).
- `wake_queue`: the looks and sends of several tasks do not overlap, and every
  sender marks the row. What is lost without that is `NeverMidTurn`, and with
  overlapping drains the order; `KeepsPromise` is proved without it.
  `WaitingIsTold` excuses a line whose send failed or whose turn died (`owed`), and
  one behind a row that a turn left busy before it streamed (`Stranded`).
- `prompts`: a question is answered after its handler has marked the row, a child
  does not die, and its turn is not cancelled, while a hook of its is arriving, and
  it does not ask while prompts are being expired. A mark that a turn's end has
  reported needs no question.
- `when_done`: no turn begins once sessions are being closed, the list is as
  new as the engine's sleep of a second is long, a /close ends within its three
  minutes, and one arming is over before the next.
- `chat_stream`: pages are loaded between turns, and a client attaches once it has
  got what the old channel held; copies of an event come within ten seconds, and the
  watcher brings a text or a tool call before the next block is streamed.
- `registry`: handlers run one at a time and not beside a pass of the detector,
  nothing overtakes the start, writes succeed, directories are there, session
  files are those of live processes.
- `link`: no more notifications come while the loop is busy than its channel holds
  (256 in the code, one in the run). `CacheFollows` excuses what a command has stored
  until the loop stores a list, and an older list that was broadcast after a newer
  one until the next publication or reconnection.

**Fairness.** Weak, for the steps of tasks that are ready: the pump, the tick, a
fire under way, a drain, a handler, the engine, the answer of a hook, the return
of a send. tokio runs every ready task. The child gets on with a turn it has begun
(weak fairness of its steps); nothing forces it to confirm a close, to report, or
to die. Time goes on and the daemon is restarted. Users do nothing they are not
seen to do, and in `Schedule` nothing says that turns end. Strong fairness is used
in four places: the slot of the app's client (tokio's mutex is handed on in the order of
asking), the detector's pass (its timer fires again and again, also between
the handlers that the run keeps apart from it), the engine's wait for a close (it
polls each second) and the end of a turn without new background tasks (a session
does not start them for ever). In `ChatStream` the child writes its transcript and
the heartbeat comes round; that a client attaches or the watcher runs is not
assumed.

## 4. Proofs

| theorem | says | argument |
|---|---|---|
| `Hooks_proofs!LockTypeCorrect` | types | one case per action |
| `Hooks_proofs!MutualExclusion` | `SequentialCalls` and `MaxCommit < TTL` give exclusion | `LockInv`: a committing registered session holds its project's lock, and the lock is no older than the commit |
| `Hooks_proofs!AnswerInTime` | if Budget + Interval <= ClientMaxTime, curl never gives up first | `WaitInv`: wait + sleep stays below budget + interval |
| `Turn_proofs!TypeCorrect` | types | one case per action |
| `Turn_proofs!ClosingOwned`, `BadgeComesDown` | the Closing badge has an owner; a quiet session has none up | `BadgeInv`: the owner's flag is set only between its first line and its last step, and a pump that is idle between turns has cleared it |
| `Turn_proofs!NothingStaysBusy` | in a calm environment (`Env` within late deaths and background tasks) a quiet session is not busy | `CalmInv`: a busy row has a child with the newest prompt in its stdin, at work on it, or with its result in the pipe, or a pump that is settling; each line in a pipe is a replayed one or the newest prompt's; a pump that has seen the turn has captured the row's generation |
| `Turn_proofs!OnlyNewestTurnClears` | without sends into a turn or cancels, only the newest prompt's result frees the row | `OrderInv`: a child has no prompt but the newest, each line in a pipe is a replayed one or the newest prompt's, and a pump that is torn down beside a new child has captured an older generation |
| `Turn_proofs!StatusIsItsTurns` | if also no child is faster than its sender, the status that a result line brings is what its turn reported, else the marker in its text | `StampInv`: a report is stamped with the generation of the turn that made it, and no child works on a prompt that its sender has not recorded; `OrderInv`: the line is the newest prompt's, or a replayed one, which the pump does not take for a live turn's |
| `Schedule_proofs!ScheduleTypeCorrect` | types | one case per action, with lemmas for each record |
| `Schedule_proofs!PromiseKept` | unless writes fail, `Schedule` implements `SchedulePromise` | each action maps to a step of the promise or a stutter; cardinality lemmas for the claims |
| `Schedule_proofs!RecurrencesGoOn` | a recurring item is pending, firing or interrupted, also when writes fail | inductive with the claimed records: a job's record recurs exactly if it is settled to pending |
| `Schedule_proofs!FiringOwned` | unless writes fail, an item shown as firing is some task's, or is still to be swept | inductive with the jobs: what a job has claimed is firing in the store or no longer there |
| `Schedule_proofs!OutcomesAreTrue`, `OneShotsGoOnce` | unless writes fail, what an item shows is what happened to its prompt, and a one-shot's prompt goes out once for each time it was written | `VersionInv`: versions are numbered as they are written, each is of one item and held by one firer, a claimed one is not offered again, one being edited is no other's; with that, each record says how often its version was sent |
| `Schedule_proofs!UserHasTheLastWord` | without `"fireNow"` or without `"update"`, no outcome is written over what came after its claim, and deleted items stay deleted | `WordInv`: with one firer, a record that shows as firing is the one it claimed; without edits, an item keeps its version |
| `Schedule_proofs!NeverMidTurn` | without `"fireNow"` and `"otherSends"`, no scheduled prompt goes into a turn | `TurnInv`: a session in a turn is busy, or is the target of the tick that has just sent; the tick's target is not busy until the send |
| `SessionLife_proofs!TypeCorrect` | types | one case per action; an ending task holds a child |
| `SessionLife_proofs!Served` | whatever overlaps, the map's entry has a pump that reads | inductive with the types |
| `SessionLife_proofs!Owned` | without `"spawnsRace"`, a running child is the map's | `Serial`: one spawner; the map stays empty from its test to its insertion; a reading pump's child is in the map |
| `SessionLife_proofs!FrozenStaysDown`, `EndWorks`, `EndedNotResumed` | until operations overlap, frozen means no child, `end_session` leaves none, ended sessions are not resumed | `CalmSoFar`: until then, what each stretch may still rely on, e.g. no child runs from the kill to the freeze |
| `WakeQueue_proofs!TypeCorrect`, `LineInvariant` | types; a line is in one place | each line's number is in the queue, with one drain, or told, and below `made` |
| `WakeQueue_proofs!PromiseKept` | whatever overlaps or fails, `WakeQueue` implements `WakePromise` | each action maps to a step of the promise or a stutter; a full queue's set has at least `Cap` members as its lines are distinct |
| `WakeQueue_proofs!LinesInOrder` | without `"overlap"`, lines are told in order, also when failed sends put them back | `Sorted`: what was told, what the drain holds and what waits increase, in this order |
| `WakeQueue_proofs!DrainsBetweenTurns` | without `"overlap"` and `"unmarked"`, a drain writes into no turn | `AtRest`: a row that is not busy, with no send to be recorded, has a child that rests |
| `Hooks_proofs!TypeCorrect` | types | one case per action |
| `Hooks_proofs!WaiterIsShown` | in every environment, a waiter whose sender is there has a card, or is in the expiry's hands | `PromptInv`: a sender without a card belongs to a handler that has not listed it, or to an expiry between its two locks |
| `Hooks_proofs!CardOutlives` | in every environment, a durable card is removed by its answer only | each step that removes cards removes none of `Cards`, or settles the answer |
| `Hooks_proofs!RestLeavesNoGhosts` | without `"early"`, a session at rest has no sender and no card but durable ones | `RestInv`: a sender has its card or is about to be dropped and goes before its handler; a handler that returned has no card; a dead child's cards are the pump's to remove |
| `Hooks_proofs!MarkIsTrue` | with an empty `Env`, "input needed" has a question, is about to be cleared, or was reported by a turn's end | `MarkInv`: a mark has a listed question, or the pump's expiry before it, or was reported; a handler about to mark has its card; no handler arrives during an expiry |
| `WhenDone_proofs!TypeCorrect` | types | one case per action |
| `WhenDone_proofs!ShownIsThere` | in every environment, a phase that is shown as under way has an engine | inductive: who gives up or acts says so in the phase |
| `WhenDone_proofs!ArmedFires` | without `"parallel"`, only the last arming's engine acts, and only if not cancelled | at most one engine is alive, and it is the one of `armed`; cancelling aborts it or leaves it to see the phase |
| `WhenDone_proofs!SleepsOverIdle` | with an empty `Env`, the action falls on no turn and no background task | `IdleInv`: once closing begins only the session being closed may have a turn, and from the countdown on none |
| `Registry_proofs!TypeCorrect` | types | one case per action |
| `Registry_proofs!SnapshotRestores` | if handlers run one at a time after the start and the disk serves (`Sound`), a serving daemon has the chats the user was told of, over crashes at any step | `SnapshotInv`: until the restore there are no chats and the file is as it was; from then on it has the chats, but for the one that the one handler is about to save; what was told is in the file; what a handler will tell is in its row and in the list it holds |
| `Registry_proofs!StrikesAreFair` | if handlers and passes keep apart, nothing resumes what still ends and session files are alive (`Apart`), no session that runs is ended, also when a pass is under way while the daemon restores its rows or a chat starts | `PassInv`: a live row's pid is that of its process, what a pass has not seen, and has a strike or is judged before the daemon serves, is gone and, if it is a row still, at most an in-app chat by now |
| `ChatStream_proofs!WholeText` | if no client hurries, no phone changes channels in a block and the watcher is on time (`Orderly`), the rebuilt text is the block's beginning | `StreamInv`: what the window lacks of the block is in the channel, unless that has lost some and a snapshot is to come; the accumulator is of this turn, and the block in progress from its beginning; a line of the watcher ends it, and is then of that very block; a turn that has ended has its final in the channel while there is text for it to close |
| `ChatStream_proofs!ToldOnce` | with at most one page load, between turns, and copies within the ten seconds (`OnTime`, `LoadedOnce`), no message is shown twice | `OnceInv`: whatever is shown and still to come from the channel or the watcher is noted as told; what is shown is done; no page is loaded once one is, and a reconciliation's page is the beginning of what is done; `FilteredOnce` and its neighbours say what `Filtered` keeps |

The theorems hold for every value of the constants that meets
`ConstantsAssumption`: all sets of sessions, clients, items, tasks and requests,
all bounds, and all environments but for what a row names. They go where the runs
cannot: `KeepsPromise` of the wake queues is checked for sends that do not overlap
and proved for those that do. The mutual exclusion's assumptions are real:
`SequentialCalls` excludes parallel commits of one session (section 5), and a
commit longer than the TTL of the code is let through by design. In `Turn`,
`None` must not be one of the statuses a turn may report.

**What the hypotheses exclude.** Where a row excludes choices of the environment,
TLC finds the property violated when one of them alone is let in, beside what the
run has, so that nothing is assumed for the sake of the proof:

| property | violated under each of |
|---|---|
| `QuietMeansNotBusy` | `overlap`, `fast`, `teardown`, `cancel`, `earlyDeath`, `rejection`, `silent` |
| `ClearedByNewestTurn` | `overlap`, `cancel` |
| `StatusFromItsOwnTurn` | `overlap`, `cancel` (with a `PipeSize` of 3), `fast` |
| `OutcomeIsTrue`, `OneShotOnce` | `diskFull` |
| `UsersWordIsLast` | `fireNow` together with `update` |
| `NeverIntoATurn` | `fireNow`, `otherSends` |
| `InOrder` | `overlap` |
| `NeverMidTurn` | `overlap`, `unmarked` |
| `NoGhosts` | `early` |
| `InputNeededHasQuestion` | `early`, `hasty`, `quick` (with two questions) |
| `FiresOverIdle` | `wakes`, `lag`, `slow`, `parallel` |
| `ServesWhatWasTold` | `overlap`, `early`, `diskFull`, `unmounted` |
| `NotEndedWhileItRuns` | `overlap`, `resume`, `staleFiles` |
| `TextIsWhole` | `hasty`, `phone`, `lateWatch` |
| `NoMessageTwice` | `lateLive`, `busyLoads`, two page loads |

Every safety and action property of a run is a theorem. Only model-checked is
liveness (`LockNeverStuck`, `ConfirmedCloseEnds`, `BusyEnds`, `DueItemsSettle`,
`FiringResolves`, `OpsReturn`, `WaitingIsTold`, `ClosingEnds`, `Recovered`,
`GoneIsEnded`, and all of `Link`: `CallsReturn`, `CacheFollows`, `CardsFollow`),
since the proof system has no ENABLED and so no fairness.

## 5. What the code does outside those environments

The models show each of these when the environment named at the head of a module
is let in. Most contradict nothing the source says; where a comment says
otherwise it is quoted.

**Turns.** A child that dies after its prompt was recorded and before its first
stream event leaves the row busy: the end of file compares the generation with
one that was never captured. The parser's note of a stream event outlives its
turn, so the next turn's first line counts as output, and a rejected turn that
produced nothing is resumed with a nudge instead of its prompt
(`rate_limit.rs:49`). A turn that is answered before its sender records it, or
rejected before any output, leaves busy set; a cancel recorded after a newer send
clears that send's busy; a prompt sent during /close makes the close look failed.
A turn without a report ends with the marker of its own text. `close_session` is
taken from any turn, and its session ends with that turn although nobody asked for
a /close.

**Scheduled items.** A recurring item fired by hand while the tick works is fired
again by the tick, whose list is old. `schedule_update` writes back an item
deleted after its check. An item that is edited during a fire and then fired
by hand is overwritten by the first fire's outcome, although `finish_fire` writes
"ONLY if the item is still the same `Firing` record this process claimed"
(`scheduled_items.rs:283`): it compares the status, not the record. Items requeued
together share a slot; a failed write of the store still grants the claim; a
target that becomes busy between the tick's check and the fire's ends as Failed.
Two firers of one session both find it idle.

**Session life.** A message that respawns the session while `freeze_session` waits
for the teardown leaves a frozen session with a running child. Two overlapping
spawns leave one of the children outside the SessionMap, where no end, freeze or
cancel finds it. A session that is ended between a respawn's test of the row and
its insertion has a child again.

**Commit lock.** It is re-entrant per session without a count, so of two commits
one session runs in parallel the first to end lets another session in beside the
second.

**Wake queues.** `jarvis_wake.rs:6` says that a drain never writes mid-turn. A
Jarvis's turn end starts a drain for each of its queues; both may find the row
idle, and the second prompt goes into the first one's turn. `send_to_session`,
`unfreeze_session` and `set_session_model` send without marking the row busy, with
the same effect. Overlapping drains may tell lines out of order. What a failed
drain pushes back may exceed the cap. A failed send is not tried again before the
next line or turn's end, and a child that dies in its turn triggers no drain. A turn
that ends or dies before its first stream event leaves the row busy (`pump.rs:350`,
`:456` compare with a generation that was not captured); every drain is then
refused (`jarvis_wake.rs:52`), and the lines wait until somebody else's prompt
streams and ends.

**Prompts.** A question answered before its handler, which first wakes the Jarvis,
has marked the row leaves it at "input needed" for good; so does one whose child
dies or is cancelled, or that is asked, in the middle of an expiry. The responder
is told its answer was delivered when the handler has just given up. Of two open
questions, answering one clears the mark. A turn that ends with the status
"question" (`pump.rs:278`, `:320`) shows "input needed" with no card to answer, as
it is meant to: the user answers with the next prompt.

**When-done.** A turn that begins during the countdown, or while other sessions
are being closed, is not seen; nor is one that the app's list does not show yet. A
close that takes more than three minutes is passed over. Arming while another
arming has not stored its handle, or cancelling in between, leaves an engine that
nobody aborts.

**Chat stream.** `deliver` (`event-store.ts:406`) records the accumulated text as
told before it looks for a duplicate, as "a no-op double-record on the ordinary
path". It is not: the final that equals the streamed text is then dropped as a
duplicate of itself, and its bubble stays the partial one, where line 446 says
"the turn-end finalized message replaces the bubble wholesale anyway". Pages never
record what they bring, so an event that is on a page and live is shown twice, as
are the messages of two loads that overlap. A snapshot of a block that is finished
but not the turn's last is shown beside its final; a client that attaches between a
turn's last event and the clearing of its text gets the old turn's. The watcher's
late copy of an earlier block, a text or a tool call, ends the one being rebuilt,
since its usage does (`event-store.ts:397`): what is shown then begins in the middle
of the block. A phone that takes a new
channel gets no snapshot. A reconciliation appends what was missing at the end.
Two equal texts within ten seconds are one.

**Registry.** Two handlers may list and write the snapshot in opposite orders. A
hook, or a scheduled chat, served before the snapshot is restored
(`daemon/mod.rs` starts both earlier) replaces the file. The guard against an empty
list also refuses the last save when several chats end before the first of their
saves. A chat whose directory is missing at the start is forgotten at the next
save. A killed terminal's session file gives a resumed session the dead pid, and
the detector ends it; so does a list of rows read before a takeover. A hook's
`register` leaves a row ended that is resumed in a terminal. Strikes of rows that
were skipped or pruned stay.

**App's link.** `daemon_client/mod.rs:146` says that the connection cannot wedge, of
a pipe that dies. While it lives it can: the reader awaits room in the loop's full
channel with the subscriptions' lock held, and when the loop awaits a reply that
is behind the notification, that lock (to detach), or the slot of a task whose
reply is behind it, nobody moves again. A card whose prompt was settled while the
link was down stays: the poll forgets what it has shown before it looks what is
gone, where `daemon_link.rs:155` says that the removal goes by the reliable poll. A
command's list, read before a change, may be stored after the notification of it. Two
publishers may read the list in one order and broadcast in the other (`pump.rs:179`,
`detector_task.rs:60`, `notifier.rs:25`): the older list then stays in the app until
the next publication or reconnection.
`serve_connection` drops a request of which it has read a part when a notification
is ready, and takes what follows for a length (the model's `Break`).

## 6. Not modelled

Inside the modelled parts: event contents, sounds, wording, several accounts,
weekly recurrences and time zones, JarvisHygiene items, the detail of how a
hook's JSON is read. `Turn` has one live entry of the SessionMap at a time and
serialises respawns (`SessionLife` does not). `SessionLife` leaves out models and
efforts, session kinds, a /close that ends the session, the new session of an
account move, and the config files that a pump removes by session id after its
entry has left the map. `ChatStream` has one client, leaves out legacy clients,
older pages, eviction, the user's own messages and the coalescing of chunks, which
changes where chunks begin and not what they say. `Registry` leaves out names,
models, accounts, Jarvis flags, channels and automated sessions, and the 30-second
grace that the detector is passed and does not use. `Prompts` has one session.
`Link` leaves out the channels' list, the other notifications, the chats' own
subscriptions and the sessions attached (`daemon_bridge.rs`: an attach that finds no
client leaves its mark, and the next takes the session for attached).

Left out as a whole, with the reasons in PROJECT.json: the daemon's lockfile,
handshake and framing, where what could go wrong (two daemons that start
together: `lockfile.rs:18`, `daemon/mod.rs:125`) depends on which process the
operating system lets bind a pipe; network polling and scraping; SQL; audio; files
and settings; accounts and the keychain; remote access, which is HTTP in front of
the same RPC methods; and everything that only draws. Together these are most of
the repository's lines, and hold little of its shared state.
