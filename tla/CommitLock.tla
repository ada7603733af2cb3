----------------------------- MODULE CommitLock -----------------------------
(***************************************************************************)
(* The daemon's per-project commit mutex: `git commit` tool calls of chat  *)
(* sessions working in one repository ask the PreToolUse hook              *)
(* /hooks/commit-lock-request before they run, and the PostToolUse hook    *)
(* /hooks/commit-lock-release afterwards.                                  *)
(*                                                                         *)
(* Time is discrete.  The code compares an Instant with a duration in two  *)
(* places (the lock's age with its TTL, a request's wait with its budget), *)
(* so the model keeps just those ages, saturated at the bound they are     *)
(* compared with; no absolute clock is needed and the state stays finite.  *)
(***************************************************************************)
EXTENDS Naturals, FiniteSets

CONSTANTS
    Sessions,       \* chat sessions
    Calls,          \* Bash tool calls that run `git commit`
    Projects,       \* project ids
    SessionOf,      \* the session that makes a call
    ProjectOf,      \* the project the registry records for a session
    Registered,     \* the sessions the registry knows
    NoSession,      \* no holder
    TTL,            \* COMMIT_LOCK_TTL, in ticks
    Budget,         \* COMMIT_LOCK_POLL_BUDGET, in ticks
    Interval,       \* COMMIT_LOCK_POLL_INTERVAL, in ticks
    ClientMaxTime,  \* curl --max-time of the request hook, in ticks
    MaxCommit       \* bound: how long a commit may run, in ticks

ASSUME LockAssumption ==
    /\ SessionOf \in [Calls -> Sessions]
    /\ ProjectOf \in [Sessions -> Projects]
    /\ Registered \subseteq Sessions
    /\ NoSession \notin Sessions
    /\ TTL \in Nat \ {0} /\ Budget \in Nat /\ Interval \in Nat \ {0}
    /\ ClientMaxTime \in Nat /\ MaxCommit \in Nat

VARIABLES
    holder,         \* project -> session holding its lock, or NoSession
    age,            \* project -> elapsed() of the lock, saturated at TTL
    pc,             \* call -> where its hook or its git process is
    wait,           \* call -> time since its request, saturated
    sleep,          \* call -> ticks left before its next poll
    run             \* call -> how long its git process has been running

lockVars == <<holder, age, pc, wait, sleep, run>>

\* "resting": the call is over; the model needs a tick before its next one.
CallPCs == {"resting", "idle", "polling", "committing", "finished"}

Project(c) == ProjectOf[SessionOf[c]]

IsRegistered(c) == SessionOf[c] \in Registered

\* Saturating increment.
UpTo(n, bound) == IF n < bound THEN n + 1 ELSE bound

LockInit ==
    /\ holder = [p \in Projects |-> NoSession]
    /\ age    = [p \in Projects |-> 0]
    /\ pc     = [c \in Calls |-> "idle"]
    /\ wait   = [c \in Calls |-> 0]
    /\ sleep  = [c \in Calls |-> 0]
    /\ run    = [c \in Calls |-> 0]

-----------------------------------------------------------------------------
(* DaemonState: the lock itself *)

\* Mutant: the TTL is taken for the poll interval.
AcquirableTooSoon(p, s) ==
    \/ holder[p] \in {NoSession, s}
    \/ age[p] >= Interval

\* Mutant: a lock is only ever released.
AcquirableOnlyIfReleased(p, s) == holder[p] \in {NoSession, s}

\* try_acquire_commit_lock succeeds unless another session holds the lock
\* and its TTL has not elapsed.
Acquirable(p, s) ==
    \/ holder[p] \in {NoSession, s}
    \/ age[p] >= TTL

\* release_commit_lock removes the entry only when it is this session's.
ReleaseLock(p, s) ==
    holder' = IF holder[p] = s THEN [holder EXCEPT ![p] = NoSession] ELSE holder

-----------------------------------------------------------------------------
(* commit_lock_decision: the polling loop of the request hook *)

\* A registered session's `git commit` starts to poll; a session the
\* registry does not know is let through without a lock (fail open).
Request(c) ==
    /\ pc[c] = "idle"
    /\ \/ /\ IsRegistered(c)
          /\ pc' = [pc EXCEPT ![c] = "polling"]
          /\ wait' = [wait EXCEPT ![c] = 0]
          /\ sleep' = [sleep EXCEPT ![c] = 0]
          /\ UNCHANGED run
       \/ /\ ~IsRegistered(c)
          /\ pc' = [pc EXCEPT ![c] = "committing"]
          /\ run' = [run EXCEPT ![c] = 0]
          /\ UNCHANGED <<wait, sleep>>
    /\ UNCHANGED <<holder, age>>

PollAllowed(c) ==
    /\ pc[c] = "polling" /\ sleep[c] = 0
    /\ Acquirable(Project(c), SessionOf[c])
    /\ holder' = [holder EXCEPT ![Project(c)] = SessionOf[c]]
    /\ age' = [age EXCEPT ![Project(c)] = 0]
    /\ pc' = [pc EXCEPT ![c] = "committing"]
    /\ run' = [run EXCEPT ![c] = 0]
    /\ UNCHANGED <<wait, sleep>>

\* Mutant: no budget.
PollAgainAnyway(c) ==
    /\ pc[c] = "polling" /\ sleep[c] = 0
    /\ ~Acquirable(Project(c), SessionOf[c])
    /\ sleep' = [sleep EXCEPT ![c] = Interval]
    /\ UNCHANGED <<holder, age, pc, wait, run>>

PollAgain(c) ==
    /\ pc[c] = "polling" /\ sleep[c] = 0
    /\ ~Acquirable(Project(c), SessionOf[c])
    /\ wait[c] < Budget
    /\ sleep' = [sleep EXCEPT ![c] = Interval]
    /\ UNCHANGED <<holder, age, pc, wait, run>>

PollDenied(c) ==
    /\ pc[c] = "polling" /\ sleep[c] = 0
    /\ ~Acquirable(Project(c), SessionOf[c])
    /\ wait[c] >= Budget
    /\ pc' = [pc EXCEPT ![c] = "resting"]
    /\ UNCHANGED <<holder, age, wait, sleep, run>>

-----------------------------------------------------------------------------
(* The git process and the release hook *)

CommitEnds(c) ==
    /\ pc[c] = "committing"
    /\ pc' = [pc EXCEPT ![c] = "finished"]
    /\ UNCHANGED <<holder, age, wait, sleep, run>>

\* on_commit_lock_release: only a session the registry knows has a project
\* whose lock can be released.
OnCommitLockRelease(c) ==
    /\ pc[c] = "finished"
    /\ IF IsRegistered(c) THEN ReleaseLock(Project(c), SessionOf[c])
                          ELSE UNCHANGED holder
    /\ pc' = [pc EXCEPT ![c] = "resting"]
    /\ UNCHANGED <<age, wait, sleep, run>>

\* The PostToolUse hook fails to fire, or its request is lost.
ReleaseLost(c) ==
    /\ pc[c] = "finished"
    /\ pc' = [pc EXCEPT ![c] = "resting"]
    /\ UNCHANGED <<holder, age, wait, sleep, run>>

\* The session's process tree is killed: its hook requests are dropped, its
\* git processes die, no release hook runs.
Killed(s) ==
    /\ \E c \in Calls : SessionOf[c] = s /\ pc[c] \notin {"idle", "resting"}
    /\ pc' = [c \in Calls |-> IF SessionOf[c] = s THEN "resting" ELSE pc[c]]
    /\ UNCHANGED <<holder, age, wait, sleep, run>>

\* Time passes.  A poll whose sleep is over runs before the next tick, and
\* no commit runs for longer than MaxCommit.
Tick ==
    /\ \A c \in Calls : /\ pc[c] = "polling" => sleep[c] > 0
                        /\ pc[c] = "committing" => run[c] < MaxCommit
    /\ age' = [p \in Projects |-> IF holder[p] = NoSession THEN 0
                                  ELSE UpTo(age[p], TTL)]
    /\ wait' = [c \in Calls |-> IF pc[c] = "polling"
                                THEN UpTo(wait[c], ClientMaxTime) ELSE 0]
    /\ sleep' = [c \in Calls |-> IF pc[c] = "polling" THEN sleep[c] - 1 ELSE 0]
    /\ run' = [c \in Calls |-> IF pc[c] = "committing" THEN run[c] + 1 ELSE 0]
    /\ pc' = [c \in Calls |-> IF pc[c] = "resting" THEN "idle" ELSE pc[c]]
    /\ UNCHANGED holder

-----------------------------------------------------------------------------
LockNext ==
    \/ \E c \in Calls : \/ Request(c)
                        \/ PollAllowed(c)
                        \/ PollAgain(c)
                        \/ PollDenied(c)
                        \/ CommitEnds(c)
                        \/ OnCommitLockRelease(c)
                        \/ ReleaseLost(c)
    \/ \E s \in Sessions : Killed(s)
    \/ Tick

\* The runtime polls a woken handler, and time goes on.
LockFairness ==
    /\ WF_lockVars(Tick)
    /\ \A c \in Calls : /\ WF_lockVars(PollAllowed(c) \/ PollAgain(c) \/ PollDenied(c))
                        /\ WF_lockVars(CommitEnds(c))

LockSpec == LockInit /\ [][LockNext]_lockVars

LockFairSpec == LockSpec /\ LockFairness

-----------------------------------------------------------------------------
(* Properties *)

LockTypeOK ==
    /\ holder \in [Projects -> Sessions \cup {NoSession}]
    /\ age \in [Projects -> 0..TTL]
    /\ pc \in [Calls -> CallPCs]
    /\ wait \in [Calls -> 0..ClientMaxTime]
    /\ sleep \in [Calls -> 0..Interval]
    /\ run \in [Calls -> 0..MaxCommit]

\* Two sessions the registry knows never run `git commit` in the same
\* project at the same time (the promise of hooks_server/commit_lock.rs).
CommitsExclusive ==
    \A c, d \in Calls :
        (/\ pc[c] = "committing" /\ pc[d] = "committing"
         /\ IsRegistered(c) /\ IsRegistered(d)
         /\ Project(c) = Project(d)) => SessionOf[c] = SessionOf[d]

\* The daemon answers a waiting hook before the hook's curl gives up, so a
\* timed out request is never taken for a permission.
AnsweredBeforeCurlGivesUp ==
    \A c \in Calls : pc[c] = "polling" => wait[c] < ClientMaxTime

\* A lock whose holder is gone does not outlive its TTL: it is released, taken
\* again, or becomes free for every session to take.
LockNeverStuck ==
    \A p \in Projects :
        age[p] = 1 ~> (age[p] = 0 \/ \A s \in Sessions : Acquirable(p, s))
=============================================================================
