---------------------------- MODULE Hooks_proofs ----------------------------
(***************************************************************************)
(* Theorems about the two services of hooks_server/ whose callers, hooks   *)
(* of the claude CLI, wait on the daemon: CommitLock and Prompts.  They    *)
(* hold for every set of sessions, calls and projects, every TTL, budget   *)
(* and interval, and every set of requests.  The environment of Prompts is *)
(* arbitrary, so that a child dies, a turn is cancelled or a question is   *)
(* answered at the worst moment, but where a theorem names what it may not *)
(* do.                                                                     *)
(***************************************************************************)
EXTENDS CommitLock, Prompts, TLAPS

-----------------------------------------------------------------------------
(* The commit lock *)

\* A session runs one commit call at a time (the CLI awaits a tool call).
SequentialCalls ==
    \A c, d \in Calls : SessionOf[c] = SessionOf[d] => c = d

\* While a registered session commits, the lock is its own and is no older
\* than the commit.
LockInv ==
    \A c \in Calls :
        (pc[c] = "committing" /\ IsRegistered(c)) =>
            /\ holder[Project(c)] = SessionOf[c]
            /\ age[Project(c)] <= run[c]

\* A waiting request is at most one sleep past its budget.
WaitInv ==
    \A c \in Calls : pc[c] = "polling" => wait[c] + sleep[c] < Budget + Interval

-----------------------------------------------------------------------------
LEMMA ProjectType ==
    \A c \in Calls : SessionOf[c] \in Sessions /\ Project(c) \in Projects
  BY LockAssumption DEF LockAssumption, Project

LEMMA UpToType ==
    ASSUME NEW bound \in Nat, NEW n \in 0..bound
    PROVE  UpTo(n, bound) \in 0..bound /\ UpTo(n, bound) <= n + 1
  BY DEF UpTo

\* Every step keeps the variables of the lock, the hooks and the git
\* processes in their types.
LEMMA LockTypeStep == LockTypeOK /\ [LockNext]_lockVars => LockTypeOK'
<1> SUFFICES ASSUME LockTypeOK, [LockNext]_lockVars PROVE LockTypeOK'
  OBVIOUS
<1> USE LockAssumption DEF LockAssumption, LockTypeOK, CallPCs
<1>1. ASSUME NEW c \in Calls, Request(c) PROVE LockTypeOK'
  BY <1>1 DEF Request
<1>2. ASSUME NEW c \in Calls, PollAllowed(c) PROVE LockTypeOK'
  <2>1. SessionOf[c] \in Sessions /\ Project(c) \in Projects
    BY ProjectType
  <2>2. QED
    BY <1>2, <2>1 DEF PollAllowed
<1>3. ASSUME NEW c \in Calls, PollAgain(c) PROVE LockTypeOK'
  BY <1>3 DEF PollAgain
<1>4. ASSUME NEW c \in Calls, PollDenied(c) PROVE LockTypeOK'
  BY <1>4 DEF PollDenied
<1>5. ASSUME NEW c \in Calls, CommitEnds(c) PROVE LockTypeOK'
  BY <1>5 DEF CommitEnds
<1>6. ASSUME NEW c \in Calls, OnCommitLockRelease(c) PROVE LockTypeOK'
  <2>1. Project(c) \in Projects
    BY ProjectType
  <2>2. QED
    BY <1>6, <2>1 DEF OnCommitLockRelease, ReleaseLock
<1>7. ASSUME NEW c \in Calls, ReleaseLost(c) PROVE LockTypeOK'
  BY <1>7 DEF ReleaseLost
<1>8. ASSUME NEW s \in Sessions, Killed(s) PROVE LockTypeOK'
  BY <1>8 DEF Killed
<1>9. CASE Tick
  <2>1. age' \in [Projects -> 0..TTL]
    BY <1>9, UpToType DEF Tick
  <2>2. wait' \in [Calls -> 0..ClientMaxTime]
    BY <1>9, UpToType DEF Tick
  <2>3. sleep' \in [Calls -> 0..Interval]
    BY <1>9 DEF Tick
  <2>4. run' \in [Calls -> 0..MaxCommit]
    BY <1>9 DEF Tick
  <2>5. QED
    BY <1>9, <2>1, <2>2, <2>3, <2>4 DEF Tick
<1>10. CASE UNCHANGED lockVars
  BY <1>10 DEF lockVars
<1>11. QED
  BY <1>1, <1>2, <1>3, <1>4, <1>5, <1>6, <1>7, <1>8, <1>9, <1>10 DEF LockNext

\* Type correctness of the commit lock and its hooks.
THEOREM LockTypeCorrect == LockSpec => []LockTypeOK
<1>1. LockInit => LockTypeOK
  BY LockAssumption DEF LockAssumption, LockInit, LockTypeOK, CallPCs
<1>2. QED
  BY <1>1, LockTypeStep, PTL DEF LockSpec

-----------------------------------------------------------------------------
\* The holder of the lock keeps it while it commits: nobody else takes it,
\* because it is younger than its TTL, and only its own call releases it.
LEMMA LockStep ==
    ASSUME SequentialCalls, MaxCommit < TTL,
           LockTypeOK, LockInv, [LockNext]_lockVars
    PROVE  LockInv'
<1> SUFFICES ASSUME NEW d \in Calls, pc'[d] = "committing", IsRegistered(d)
             PROVE  /\ holder'[Project(d)] = SessionOf[d]
                    /\ age'[Project(d)] <= run'[d]
  BY DEF LockInv, IsRegistered, Project
<1> USE LockAssumption DEF LockAssumption
<1>0. SessionOf[d] \in Sessions /\ Project(d) \in Projects
  BY ProjectType
<1>a. pc[d] = "committing" => /\ holder[Project(d)] = SessionOf[d]
                              /\ age[Project(d)] <= run[d]
  BY DEF LockInv
<1>b. /\ age[Project(d)] \in 0..TTL
      /\ run[d] \in 0..MaxCommit
  BY <1>0 DEF LockTypeOK
<1>1. ASSUME NEW c \in Calls, Request(c) PROVE (/\ holder'[Project(d)] = SessionOf[d]
                                               /\ age'[Project(d)] <= run'[d])
  <2>1. c # d
    BY <1>1 DEF Request, LockTypeOK
  <2>2. QED
    BY <1>1, <1>a, <2>1 DEF Request, LockTypeOK
<1>2. ASSUME NEW c \in Calls, PollAllowed(c) PROVE (/\ holder'[Project(d)] = SessionOf[d]
                                               /\ age'[Project(d)] <= run'[d])
  <2>1. CASE c = d
    BY <1>2, <1>0, <2>1 DEF PollAllowed, LockTypeOK
  <2>2. CASE c # d
    <3>1. pc[d] = "committing"
      BY <1>2, <2>2 DEF PollAllowed, LockTypeOK
    <3>2. SessionOf[c] # SessionOf[d]
      BY <2>2 DEF SequentialCalls
    <3>3. Project(c) # Project(d)
      BY <1>2, <1>0, <1>a, <1>b, <3>1, <3>2 DEF PollAllowed, Acquirable
    <3>4. QED
      BY <1>2, <1>a, <1>0, <2>2, <3>1, <3>3 DEF PollAllowed, LockTypeOK
  <2>3. QED
    BY <2>1, <2>2
<1>3. ASSUME NEW c \in Calls, PollAgain(c) PROVE (/\ holder'[Project(d)] = SessionOf[d]
                                               /\ age'[Project(d)] <= run'[d])
  BY <1>3, <1>a DEF PollAgain
<1>4. ASSUME NEW c \in Calls, PollDenied(c) PROVE (/\ holder'[Project(d)] = SessionOf[d]
                                               /\ age'[Project(d)] <= run'[d])
  BY <1>4, <1>a DEF PollDenied, LockTypeOK
<1>5. ASSUME NEW c \in Calls, CommitEnds(c) PROVE (/\ holder'[Project(d)] = SessionOf[d]
                                               /\ age'[Project(d)] <= run'[d])
  BY <1>5, <1>a DEF CommitEnds, LockTypeOK
<1>6. ASSUME NEW c \in Calls, OnCommitLockRelease(c) PROVE (/\ holder'[Project(d)] = SessionOf[d]
                                               /\ age'[Project(d)] <= run'[d])
  <2>1. pc[d] = "committing" /\ c # d
    BY <1>6 DEF OnCommitLockRelease, LockTypeOK
  <2>2. SessionOf[c] # SessionOf[d]
    BY <2>1 DEF SequentialCalls
  <2>3. holder'[Project(d)] = holder[Project(d)]
    BY <1>6, <1>0, <1>a, <2>1, <2>2, ProjectType
       DEF OnCommitLockRelease, ReleaseLock, LockTypeOK
  <2>4. QED
    BY <1>6, <1>a, <2>1, <2>3 DEF OnCommitLockRelease
<1>7. ASSUME NEW c \in Calls, ReleaseLost(c) PROVE (/\ holder'[Project(d)] = SessionOf[d]
                                               /\ age'[Project(d)] <= run'[d])
  BY <1>7, <1>a DEF ReleaseLost, LockTypeOK
<1>8. ASSUME NEW s \in Sessions, Killed(s) PROVE (/\ holder'[Project(d)] = SessionOf[d]
                                               /\ age'[Project(d)] <= run'[d])
  BY <1>8, <1>a DEF Killed, LockTypeOK
<1>9. CASE Tick
  <2>1. pc[d] = "committing"
    BY <1>9 DEF Tick, LockTypeOK
  <2>2. age'[Project(d)] <= age[Project(d)] + 1
    <3>1. age'[Project(d)] \in {0, UpTo(age[Project(d)], TTL)}
      BY <1>9, <1>0 DEF Tick
    <3>2. UpTo(age[Project(d)], TTL) <= age[Project(d)] + 1
      BY <1>b, UpToType
    <3>3. QED
      BY <1>b, <3>1, <3>2
  <2>3. run'[d] = run[d] + 1
    BY <1>9, <2>1 DEF Tick
  <2>4. age'[Project(d)] \in Nat
    BY <1>9, <1>0, LockTypeStep DEF LockTypeOK
  <2>5. QED
    BY <1>9, <1>a, <1>b, <2>1, <2>2, <2>3, <2>4 DEF Tick
<1>10. CASE UNCHANGED lockVars
  BY <1>10, <1>a DEF lockVars
<1>11. QED
  BY <1>1, <1>2, <1>3, <1>4, <1>5, <1>6, <1>7, <1>8, <1>9, <1>10 DEF LockNext

\* Two registered sessions never commit in one project at the same time,
\* provided a session runs one commit at a time and a commit ends before the
\* lock's TTL does.
THEOREM MutualExclusion ==
    ASSUME SequentialCalls, MaxCommit < TTL
    PROVE  LockSpec => []CommitsExclusive
<1>1. LockInit => LockInv
  BY LockAssumption DEF LockInit, LockInv
<1>2. LockTypeOK /\ LockInv /\ [LockNext]_lockVars => LockInv'
  BY LockStep
<1>3. LockInv => CommitsExclusive
  BY DEF LockInv, CommitsExclusive
<1>4. QED
  BY <1>1, <1>2, <1>3, LockTypeCorrect, PTL DEF LockSpec

-----------------------------------------------------------------------------
\* The daemon's answer beats curl's --max-time when that is at least the
\* poll budget plus one poll interval.
THEOREM AnswerInTime ==
    ASSUME Budget + Interval <= ClientMaxTime
    PROVE  LockSpec => []AnsweredBeforeCurlGivesUp
<1> USE LockAssumption DEF LockAssumption
<1>1. LockInit => WaitInv
  BY DEF LockInit, WaitInv
<1>2. LockTypeOK /\ WaitInv /\ [LockNext]_lockVars => WaitInv'
  <2> SUFFICES ASSUME LockTypeOK, WaitInv, [LockNext]_lockVars,
                      NEW d \in Calls, pc'[d] = "polling"
               PROVE  wait'[d] + sleep'[d] < Budget + Interval
    BY DEF WaitInv
  <2>a. /\ wait[d] \in 0..ClientMaxTime
        /\ sleep[d] \in 0..Interval
        /\ pc[d] = "polling" => wait[d] + sleep[d] < Budget + Interval
    BY DEF LockTypeOK, WaitInv
  <2>1. ASSUME NEW c \in Calls, Request(c) PROVE wait'[d] + sleep'[d] < Budget + Interval
    BY <2>1, <2>a DEF Request, LockTypeOK
  <2>2. ASSUME NEW c \in Calls, PollAgain(c) PROVE wait'[d] + sleep'[d] < Budget + Interval
    BY <2>2, <2>a DEF PollAgain, LockTypeOK
  <2>3. ASSUME NEW c \in Calls,
               \/ PollAllowed(c) \/ PollDenied(c) \/ CommitEnds(c)
               \/ OnCommitLockRelease(c) \/ ReleaseLost(c)
        PROVE  wait'[d] + sleep'[d] < Budget + Interval
    BY <2>3, <2>a DEF PollAllowed, PollDenied, CommitEnds,
                      OnCommitLockRelease, ReleaseLost, LockTypeOK
  <2>4. ASSUME NEW s \in Sessions, Killed(s) PROVE wait'[d] + sleep'[d] < Budget + Interval
    BY <2>4, <2>a DEF Killed, LockTypeOK
  <2>5. CASE Tick
    <3>1. pc[d] = "polling" /\ sleep[d] > 0
      BY <2>5 DEF Tick, LockTypeOK
    <3>2. wait'[d] <= wait[d] + 1 /\ wait'[d] \in 0..ClientMaxTime
      BY <2>5, <2>a, <3>1, UpToType DEF Tick
    <3>3. sleep'[d] = sleep[d] - 1
      BY <2>5, <3>1 DEF Tick
    <3>4. QED
      BY <2>a, <3>1, <3>2, <3>3
  <2>6. CASE UNCHANGED lockVars
    BY <2>6, <2>a DEF lockVars
  <2>7. QED
    BY <2>1, <2>2, <2>3, <2>4, <2>5, <2>6 DEF LockNext
<1>3. LockTypeOK /\ WaitInv => AnsweredBeforeCurlGivesUp
  BY DEF LockTypeOK, WaitInv, AnsweredBeforeCurlGivesUp
<1>4. QED
  BY <1>1, <1>2, <1>3, LockTypeCorrect, PTL DEF LockSpec

-----------------------------------------------------------------------------
(* Prompts and questions *)

LEMMA TypeStep == TypeOK /\ [Next]_vars => TypeOK'
<1> SUFFICES ASSUME TypeOK, [Next]_vars PROVE TypeOK'
  OBVIOUS
<1> USE ConstantsAssumption DEF ConstantsAssumption, TypeOK, PCs, ExpireType,
        Expirers, Goto, At, Cleared
<1>1. ASSUME NEW r \in Requests, Ask(r) PROVE TypeOK'
  BY <1>1 DEF Ask
<1>2. ASSUME NEW r \in Requests, AddPrompt(r) PROVE TypeOK'
  BY <1>2 DEF AddPrompt
<1>3. ASSUME NEW r \in Requests, Woken(r) PROVE TypeOK'
  BY <1>3 DEF Woken
<1>4. ASSUME NEW r \in Requests, Answered(r) PROVE TypeOK'
  BY <1>4 DEF Answered
<1>5. ASSUME NEW r \in Requests, GivesUp(r) \/ DropSender(r) \/ Settle(r) PROVE TypeOK'
  BY <1>5 DEF GivesUp, DropSender, Settle
<1>6. ASSUME NEW r \in Requests, Gone(r) PROVE TypeOK'
  BY <1>6 DEF Gone
<1>7. ASSUME NEW r \in Requests, Respond(r) PROVE TypeOK'
  BY <1>7 DEF Respond, Receives, Arriving
<1>8. ASSUME NEW r \in Requests, LooksUp(r) \/ Settles(r) PROVE TypeOK'
  BY <1>8 DEF LooksUp, Settles
<1>9. ASSUME NEW e \in Expirers, ExpireRecords(e) PROVE TypeOK'
  BY <1>9 DEF ExpireRecords, Expirable
<1>10. ASSUME NEW e \in Expirers, ExpireSenders(e) PROVE TypeOK'
  BY <1>10 DEF ExpireSenders
<1>11. CASE ExpireRow
  BY <1>11 DEF ExpireRow
<1>12. CASE CancelTurn
  BY <1>12 DEF CancelTurn
<1>13. CASE ChildDies
  BY <1>13 DEF ChildDies
<1>14. CASE Respawn
  BY <1>14 DEF Respawn
<1>15. CASE SendMessage \/ TurnEnds
  BY <1>15 DEF SendMessage, TurnEnds
<1>16. CASE UNCHANGED vars
  BY <1>16 DEF vars
<1>17. QED
  BY <1>1, <1>2, <1>3, <1>4, <1>5, <1>6, <1>7, <1>8, <1>9, <1>10, <1>11,
     <1>12, <1>13, <1>14, <1>15, <1>16 DEF Next, HookNext, RespNext, ExpireNext

\* Type correctness of the handlers, the cards and the senders.
THEOREM TypeCorrect == Spec => []TypeOK
<1>1. Init => TypeOK
  <2> SUFFICES ASSUME Init PROVE TypeOK
    OBVIOUS
  <2>1. reported \in BOOLEAN
    BY Zenon DEF Init
  <2>2. QED
    BY <2>1, ConstantsAssumption
       DEF ConstantsAssumption, Init, TypeOK, PCs, ExpireType, Expirers
<1>2. QED
  BY <1>1, TypeStep, PTL DEF Spec

-----------------------------------------------------------------------------
(* A sender and its card *)

\* A sender that an answer has not taken, and that is not about to be dropped,
\* has its card from the moment the handler has added it.
SenderHasCard ==
    \A r \in Requests :
        hook[r] \in {"waking", "waiting"} /\ r \in pending
        => r \in listed \/ Expiring(r)

\* An answer takes the sender, and nobody answers what has not been asked.
AnswerTakesSender ==
    \A r \in Requests : resp[r] # "no" => r \notin pending /\ hook[r] # "unasked"

\* A durable card's handler never waits.
CardsReturn ==
    \A r \in Cards : hook[r] \in {"unasked", "registered", "waking", "done", "gone"}

UnaskedIsNowhere ==
    \A r \in Requests : hook[r] = "unasked" => r \notin pending /\ r \notin listed

PromptInv == SenderHasCard /\ AnswerTakesSender /\ CardsReturn /\ UnaskedIsNowhere

LEMMA PromptStep == TypeOK /\ PromptInv /\ [Next]_vars => PromptInv'
<1> SUFFICES ASSUME TypeOK, PromptInv, [Next]_vars PROVE PromptInv'
  OBVIOUS
<1> USE ConstantsAssumption DEF ConstantsAssumption, TypeOK, PCs, ExpireType,
        Expirers, Goto, At, Cleared, Requests, Asking, Expiring, PromptInv,
        SenderHasCard, AnswerTakesSender, CardsReturn, UnaskedIsNowhere
<1>1. ASSUME NEW r \in Requests, Ask(r) PROVE PromptInv'
  BY <1>1 DEF Ask
<1>2. ASSUME NEW r \in Requests, AddPrompt(r) PROVE PromptInv'
  BY <1>2 DEF AddPrompt
<1>3. ASSUME NEW r \in Requests, Woken(r) PROVE PromptInv'
  BY <1>3 DEF Woken
<1>4. ASSUME NEW r \in Requests, Answered(r) PROVE PromptInv'
  BY <1>4 DEF Answered
<1>5. ASSUME NEW r \in Requests, GivesUp(r) \/ DropSender(r) \/ Settle(r) PROVE PromptInv'
  BY <1>5 DEF GivesUp, DropSender, Settle
<1>6. ASSUME NEW r \in Requests, Gone(r) PROVE PromptInv'
  BY <1>6 DEF Gone, Running
<1>7. ASSUME NEW r \in Requests, Respond(r) PROVE PromptInv'
  BY <1>7 DEF Respond
<1>8. ASSUME NEW r \in Requests, LooksUp(r) \/ Settles(r) PROVE PromptInv'
  BY <1>8 DEF LooksUp, Settles
<1>9. ASSUME NEW e \in Expirers, ExpireRecords(e) PROVE PromptInv'
  BY <1>9 DEF ExpireRecords, Expirable
<1>10. ASSUME NEW e \in Expirers, ExpireSenders(e) PROVE PromptInv'
  BY <1>10 DEF ExpireSenders
<1>11. CASE ExpireRow
  BY <1>11 DEF ExpireRow
<1>12. CASE CancelTurn
  BY <1>12 DEF CancelTurn
<1>13. CASE ChildDies
  BY <1>13 DEF ChildDies
<1>14. CASE Respawn
  BY <1>14 DEF Respawn
<1>15. CASE SendMessage \/ TurnEnds
  BY <1>15 DEF SendMessage, TurnEnds
<1>16. CASE UNCHANGED vars
  BY <1>16 DEF vars
<1>17. QED
  BY <1>1, <1>2, <1>3, <1>4, <1>5, <1>6, <1>7, <1>8, <1>9, <1>10, <1>11,
     <1>12, <1>13, <1>14, <1>15, <1>16 DEF Next, HookNext, RespNext, ExpireNext

LEMMA PromptInvariant == Spec => []PromptInv
<1>1. Init => PromptInv
  BY ConstantsAssumption DEF ConstantsAssumption, Init, PromptInv, SenderHasCard,
     AnswerTakesSender, CardsReturn, UnaskedIsNowhere, Requests
<1>2. QED
  BY <1>1, PromptStep, TypeCorrect, PTL DEF Spec

\* Nobody waits for an answer that no card asks for.
THEOREM WaiterIsShown == Spec => []WaiterHasCard
<1>1. PromptInv => WaiterHasCard
  BY DEF PromptInv, SenderHasCard, WaiterHasCard, At
<1>2. QED
  BY <1>1, PromptInvariant, PTL

\* A durable card stays until it is answered, whatever becomes of its child.
THEOREM CardOutlives == Spec => CardsStay
<1> DEFINE Stay == \A r \in Cards \cap listed : r \in listed' \/ resp'[r] = "answered"
<1>1. TypeOK /\ PromptInv /\ [Next]_vars => [Stay]_vars
  <2> SUFFICES ASSUME TypeOK, PromptInv, Next,
                      NEW c \in Cards \cap listed, c \notin listed'
               PROVE  resp'[c] = "answered"
    OBVIOUS
  <2> USE ConstantsAssumption DEF ConstantsAssumption, Requests
  <2>1. ASSUME NEW r \in Requests, Settle(r) PROVE resp'[c] = "answered"
    <3>1. c = r
      BY <2>1 DEF Settle
    <3>2. hook[c] # "settling"
      BY DEF PromptInv, CardsReturn
    <3>3. QED
      BY <2>1, <3>1, <3>2 DEF Settle, At
  <2>2. ASSUME NEW r \in Requests, Settles(r) PROVE resp'[c] = "answered"
    BY <2>2 DEF Settles, TypeOK
  <2>3. ASSUME NEW e \in Expirers, ExpireRecords(e) PROVE FALSE
    BY <2>3 DEF ExpireRecords, Expirable
  <2>4. ASSUME NEW r \in Requests, Ask(r) \/ AddPrompt(r) \/ Woken(r) \/ Answered(r)
                                  \/ GivesUp(r) \/ DropSender(r) \/ Gone(r)
                                  \/ Respond(r) \/ LooksUp(r)
        PROVE  FALSE
    BY <2>4 DEF Ask, AddPrompt, Woken, Answered, GivesUp, DropSender, Gone, Respond, LooksUp
  <2>5. ASSUME NEW e \in Expirers, ExpireSenders(e) PROVE FALSE
    BY <2>5 DEF ExpireSenders
  <2>6. ASSUME ExpireRow \/ CancelTurn \/ ChildDies \/ Respawn
               \/ SendMessage \/ TurnEnds
        PROVE  FALSE
    BY <2>6 DEF ExpireRow, CancelTurn, ChildDies, Respawn, SendMessage, TurnEnds
  <2>7. QED
    BY <2>1, <2>2, <2>3, <2>4, <2>5, <2>6 DEF Next, HookNext, RespNext, ExpireNext
<1>2. QED
  BY <1>1, TypeCorrect, PromptInvariant, PTL DEF Spec, CardsStay

-----------------------------------------------------------------------------
(* What a session at rest has left, where children die and turns are cancelled
   only while every hook of the child waits. *)

\* A handler that has yet to get to its wait has its child.
ArrivesAlive ==
    /\ \A r \in Requests : born[r] <= life.n
    /\ \A r \in Requests : Arriving(r) => ~Dead(r)
    /\ \A r \in Requests : hook[r] = "gone" => Dead(r)

\* A card of a dead child's handler is the pump's to remove.
DeadIsExpired ==
    \A r \in listed \ Cards : Dead(r) => expire["pump"].pc = "records"

\* A sender has its card, or is about to be dropped, also after its handler
\* has gone; it goes before its handler does.
SenderIsShown ==
    /\ pending \cap Cards = {}
    /\ \A r \in Requests : hook[r] = "unasked" => ~reply[r]
    /\ \A r \in pending : /\ ~reply[r] /\ hook[r] \notin {"settling", "done"}
                          /\ hook[r] # "registered" => r \in listed \/ Expiring(r)

\* A handler that has returned leaves no card, unless it is a durable one.
ReturnedIsGone ==
    \A r \in Requests \ Cards : hook[r] \in {"unasked", "registered", "done"} => r \notin listed

\* Only what has its card is answered, and the answer removes it.
AnsweredIsGone ==
    \A r \in Requests : /\ resp[r] # "no" => hook[r] \notin {"unasked", "registered"}
                        /\ resp[r] = "answered" => r \notin listed

RestInv == ArrivesAlive /\ DeadIsExpired /\ SenderIsShown /\ ReturnedIsGone /\ AnsweredIsGone

LEMMA RestStep ==
    ASSUME "early" \notin Env, TypeOK, PromptInv, RestInv, [Next]_vars
    PROVE  RestInv'
<1> USE ConstantsAssumption DEF ConstantsAssumption, TypeOK, PCs, ExpireType,
        Expirers, Goto, At, Arriving, Dead, Expiring, RestInv, ArrivesAlive,
        DeadIsExpired, SenderIsShown, ReturnedIsGone, AnsweredIsGone
<1>1. ASSUME NEW r \in Requests, Ask(r) PROVE RestInv'
  BY <1>1 DEF Ask, PromptInv, UnaskedIsNowhere
<1>2. ASSUME NEW r \in Requests, AddPrompt(r) PROVE RestInv'
  BY <1>2 DEF AddPrompt
<1>3. ASSUME NEW r \in Requests, Woken(r) PROVE RestInv'
  BY <1>3 DEF Woken
<1>4. ASSUME NEW r \in Requests, Answered(r) PROVE RestInv'
  BY <1>4 DEF Answered
<1>5. ASSUME NEW r \in Requests, GivesUp(r) \/ DropSender(r) \/ Settle(r) PROVE RestInv'
  BY <1>5 DEF GivesUp, DropSender, Settle
<1>6. ASSUME NEW r \in Requests, Gone(r) PROVE RestInv'
  BY <1>6 DEF Gone, Running
<1>7. ASSUME NEW r \in Requests, Respond(r) PROVE RestInv'
  BY <1>7 DEF Respond, Receives, PromptInv, UnaskedIsNowhere
<1>8. ASSUME NEW r \in Requests, LooksUp(r) \/ Settles(r) PROVE RestInv'
  BY <1>8 DEF LooksUp, Settles, PromptInv, AnswerTakesSender
<1>9. ASSUME NEW e \in Expirers, ExpireRecords(e) PROVE RestInv'
  BY <1>9 DEF ExpireRecords, Expirable
<1>10. ASSUME NEW e \in Expirers, ExpireSenders(e) PROVE RestInv'
  BY <1>10 DEF ExpireSenders
<1>11. CASE ExpireRow
  BY <1>11 DEF ExpireRow
<1>12. CASE CancelTurn
  BY <1>12 DEF CancelTurn
<1>13. CASE ChildDies
  BY <1>13 DEF ChildDies, MayStop
<1>14. CASE Respawn
  BY <1>14 DEF Respawn
<1>15. CASE SendMessage \/ TurnEnds
  BY <1>15 DEF SendMessage, TurnEnds
<1>16. CASE UNCHANGED vars
  BY <1>16 DEF vars
<1>17. QED
  BY <1>1, <1>2, <1>3, <1>4, <1>5, <1>6, <1>7, <1>8, <1>9, <1>10, <1>11,
     <1>12, <1>13, <1>14, <1>15, <1>16 DEF Next, HookNext, RespNext, ExpireNext

LEMMA RestInvariant ==
    ASSUME "early" \notin Env
    PROVE  Spec => []RestInv
<1>1. Init => RestInv
  BY ConstantsAssumption DEF ConstantsAssumption, Init, RestInv, ArrivesAlive,
     DeadIsExpired, SenderIsShown, ReturnedIsGone, AnsweredIsGone, Arriving, Requests
<1>2. TypeOK /\ PromptInv /\ RestInv /\ [Next]_vars => RestInv'
  BY RestStep
<1>3. QED
  BY <1>1, <1>2, TypeCorrect, PromptInvariant, PTL DEF Spec

\* A session at rest keeps no sender, and only the durable cards nobody has
\* answered (permission.rs: expire_prompts_for_session), also when questions
\* are answered at once and the next child asks while prompts are expired.
THEOREM RestLeavesNoGhosts ==
    ASSUME "early" \notin Env
    PROVE  Spec => []NoGhosts
<1>1. ASSUME TypeOK, PromptInv, RestInv, Quiet
      PROVE  listed \subseteq {r \in Cards : resp[r] = "no"} /\ pending = {}
  <2>1. /\ \A r \in Requests : hook[r] \in {"unasked", "done", "gone"}
        /\ \A r \in Requests : resp[r] \in {"no", "answered"}
        /\ \A r : ~Expiring(r)
        /\ expire["pump"].pc = "idle"
    BY <1>1 DEF Quiet, Running, Expiring, Expirers
  <2>2. ASSUME NEW r \in listed \ Cards PROVE FALSE
    <3>1. r \in Requests
      BY <1>1 DEF TypeOK
    <3>2. hook[r] = "gone"
      BY <1>1, <2>1, <2>2, <3>1 DEF RestInv, ReturnedIsGone
    <3>3. QED
      BY <1>1, <2>1, <2>2, <3>1, <3>2 DEF RestInv, ArrivesAlive, DeadIsExpired
  <2>3. ASSUME NEW r \in pending PROVE FALSE
    <3>1. r \in Requests /\ r \notin Cards
      BY <1>1, <2>3 DEF TypeOK, RestInv, SenderIsShown
    <3>2. hook[r] = "gone"
      BY <1>1, <2>1, <2>3, <3>1 DEF PromptInv, UnaskedIsNowhere, RestInv, SenderIsShown
    <3>3. r \in listed
      BY <1>1, <2>1, <2>3, <3>2 DEF RestInv, SenderIsShown
    <3>4. QED
      BY <2>2, <3>1, <3>3
  <2>4. \A r \in listed : r \in Cards /\ resp[r] = "no"
    BY <1>1, <2>1, <2>2 DEF TypeOK, RestInv, AnsweredIsGone
  <2>5. QED
    BY <2>3, <2>4
<1>2. TypeOK /\ PromptInv /\ RestInv => NoGhosts
  BY <1>1 DEF NoGhosts
<1>3. QED
  BY <1>2, TypeCorrect, PromptInvariant, RestInvariant, PTL

-----------------------------------------------------------------------------
(* The row's mark, where in addition nobody answers before the row is marked
   and no child asks while prompts are being expired. *)

\* While prompts are being expired no handler arrives, and a cancelled turn
\* has taken the mark back, unless its end has written one since.
CalmExpiry ==
    /\ \A e \in Expirers : expire[e].pc # "idle" => \A r \in Requests : ~Arriving(r)
    /\ expire["cancel"].pc # "idle" => awaiting = "none" \/ reported

\* A handler about to mark the row has its card; a responder that found none
\* has none to remove.
MarksWhatIsListed ==
    /\ \A r \in Asking : hook[r] = "waking" => r \in listed
    /\ \A r \in Asking : hook[r] \in {"registered", "waking"} => resp[r] = "no"
    /\ \A r \in Requests : resp[r] = "lost" => r \notin listed

MarkHasQuestion ==
    awaiting = "question" =>
        \/ reported
        \/ listed \cap Asking # {}
        \/ expire["pump"].pc \in {"senders", "row"}

MarkInv == CalmExpiry /\ MarksWhatIsListed /\ MarkHasQuestion

LEMMA MarkStep ==
    ASSUME Env = {}, TypeOK, PromptInv, RestInv, MarkInv, [Next]_vars
    PROVE  MarkInv'
<1> USE ConstantsAssumption DEF ConstantsAssumption, TypeOK, PCs, ExpireType,
        Expirers, Goto, At, Arriving, Asking, Requests, Cleared, MarkInv,
        CalmExpiry, MarksWhatIsListed, MarkHasQuestion
<1>1. ASSUME NEW r \in Requests, Ask(r) PROVE MarkInv'
  BY <1>1 DEF Ask, PromptInv, AnswerTakesSender
<1>2. ASSUME NEW r \in Requests, AddPrompt(r) PROVE MarkInv'
  BY <1>2 DEF AddPrompt, RestInv, AnsweredIsGone
<1>3. ASSUME NEW r \in Requests, Woken(r) PROVE MarkInv'
  BY <1>3 DEF Woken
<1>4. ASSUME NEW r \in Requests, Answered(r) PROVE MarkInv'
  BY <1>4 DEF Answered
<1>5. ASSUME NEW r \in Requests, GivesUp(r) \/ DropSender(r) PROVE MarkInv'
  BY <1>5 DEF GivesUp, DropSender
<1>6. ASSUME NEW r \in Requests, Settle(r) PROVE MarkInv'
  BY <1>6 DEF Settle, PromptInv, CardsReturn
<1>7. ASSUME NEW r \in Requests, Gone(r) PROVE MarkInv'
  BY <1>7 DEF Gone, Running
<1>8. ASSUME NEW r \in Requests, Respond(r) PROVE MarkInv'
  BY <1>8 DEF Respond
<1>9. ASSUME NEW r \in Requests, LooksUp(r) PROVE MarkInv'
  BY <1>9 DEF LooksUp
<1>10. ASSUME NEW r \in Requests, Settles(r) PROVE MarkInv'
  BY <1>10 DEF Settles, SettlesRow
<1>11. ASSUME NEW e \in Expirers, ExpireRecords(e) PROVE MarkInv'
  BY <1>11 DEF ExpireRecords, Expirable
<1>12. ASSUME NEW e \in Expirers, ExpireSenders(e) PROVE MarkInv'
  BY <1>12 DEF ExpireSenders
<1>13. CASE ExpireRow
  BY <1>13 DEF ExpireRow
<1>14. CASE CancelTurn \/ ChildDies
  BY <1>14 DEF CancelTurn, ChildDies, MayStop, RestInv, ArrivesAlive
<1>15. CASE Respawn \/ SendMessage \/ UNCHANGED vars
  BY <1>15 DEF Respawn, SendMessage, vars
<1>16. CASE TurnEnds
  BY <1>16 DEF TurnEnds
<1>17. QED
  BY <1>1, <1>2, <1>3, <1>4, <1>5, <1>6, <1>7, <1>8, <1>9, <1>10, <1>11,
     <1>12, <1>13, <1>14, <1>15, <1>16 DEF Next, HookNext, RespNext, ExpireNext

\* The row asks for input only while there is a question to answer, or the
\* pump is about to take the mark back, or because a turn ended with that
\* status (pump.rs: set_awaiting_if_gen), unless a question is answered, a child
\* dies or the next one asks at a moment when the daemon is not done with it
\* (permission.rs: clear_awaiting_if_question).
THEOREM MarkIsTrue ==
    ASSUME Env = {}
    PROVE  Spec => []InputNeededHasQuestion
<1>1. Init => MarkInv
  BY DEF Init, MarkInv, CalmExpiry, MarksWhatIsListed, MarkHasQuestion, Expirers,
     Asking, Requests, Arriving
<1>2. TypeOK /\ PromptInv /\ RestInv /\ MarkInv /\ [Next]_vars => MarkInv'
  BY MarkStep
<1>3. MarkInv => InputNeededHasQuestion
  BY DEF MarkInv, MarkHasQuestion, InputNeededHasQuestion
<1>4. Spec => []RestInv
  BY RestInvariant
<1>5. QED
  BY <1>1, <1>2, <1>3, <1>4, TypeCorrect, PromptInvariant, PTL DEF Spec
=================================================================================
