-------------------------------- MODULE WhenDone --------------------------------
(***************************************************************************)
(* The app's when-done engine: armed with an action (sleep, shut down), a  *)
(* task watches the sessions until all are idle, closes each of them,      *)
(* counts down and acts.  Arming again and cancelling abort the task.      *)
(*                                                                         *)
(* The engine sees the daemon's sessions through the app's cached list. It *)
(* answers open prompts at every tick, which changes nothing here.  A step *)
(* of the engine is the code between two awaits.                           *)
(***************************************************************************)
EXTENDS Naturals, FiniteSets

CONSTANTS
    Sessions,
    Engines,    \* engine tasks; each is spawned once
    Countdown,  \* COUNTDOWN_SECS
    Env         \* what the environment may do, see EnvChoices

(* "wakes"     sessions may begin a turn while others are being closed
   "lag"       the cached list may be a tick old
   "slow"      a turn with /close may outlast the wait for it
   "parallel"  the action may be armed again while it is being armed, which
               may take longer than a tick                                  *)
EnvChoices == {"wakes", "lag", "slow", "parallel"}

ASSUME ConstantsAssumption ==
    /\ Countdown \in Nat \ {0}
    /\ Env \subseteq EnvChoices

VARIABLES
    phase,   \* WhenDoneInner.state.phase
    handle,  \* WhenDoneInner.task: at most one engine
    arming,  \* engines that have been spawned and not yet stored
    engine,  \* the engine tasks
    session, \* the daemon's rows
    cached,  \* the app's copy of them
    armed    \* history: the engine of the last arming, unless cancelled

vars == <<phase, handle, arming, engine, session, cached, armed>>

Phases == {"disarmed", "watching", "closing", "countingDown", "firing"}

\* "working" is awaiting = "working": background tasks will bring a turn.
States == {"idle", "busy", "working", "ended"}

InFlight == {"busy", "working"}

\* The sessions that lived, and those in flight.
SigType == [live : SUBSET Sessions, flight : SUBSET Sessions]

NoSig == [live |-> {}, flight |-> {}]

\* last: the signature at the last tick; todo, saw: the session at the head
\* of what is left to close is cur once /close was sent, and was seen busy.
EngineType ==
    [pc : {"none", "sleeping", "resolving", "closing", "polling", "counting",
           "over"},
     last : SigType, ticked : BOOLEAN, todo : SUBSET Sessions,
     cur : SUBSET Sessions, saw : BOOLEAN, left : 0..Countdown]

Fresh == [pc |-> "none", last |-> NoSig, ticked |-> FALSE, todo |-> {},
          cur |-> {}, saw |-> FALSE, left |-> 0]

Init ==
    /\ phase = "disarmed"
    /\ handle = {}
    /\ arming = {}
    /\ engine = [e \in Engines |-> Fresh]
    /\ session \in [Sessions -> {"idle", "busy"}]
    /\ cached = session
    /\ armed = {}

At(e, pc) == engine[e].pc = pc

Live == {s \in Sessions : cached[s] # "ended"}

\* live_busy_map, waiting_on_ids
WaitingOn == {s \in Sessions : cached[s] \in InFlight}

\* The list is as new as the engine's last sleep is long.
UpToDate == "lag" \in Env \/ cached = session

-----------------------------------------------------------------------------
(* Commands *)

\* Abort takes effect where the task awaits, which it does between any two of
\* its steps.
Aborted == [e \in Engines |-> IF e \in handle THEN [Fresh EXCEPT !.pc = "over"]
                                              ELSE engine[e]]

MayArm == "parallel" \in Env \/ arming = {}

\* Mutant: the engine that runs is not aborted.
ArmBeside(e) ==
    /\ At(e, "none") /\ MayArm
    /\ phase' = "watching"
    /\ engine' = [engine EXCEPT ![e] = [Fresh EXCEPT !.pc = "sleeping"]]
    /\ handle' = {} /\ arming' = arming \cup {e} /\ armed' = {e}
    /\ UNCHANGED <<session, cached>>

\* arm_when_done: what runs is aborted, and a new engine is spawned ...
Arm(e) ==
    /\ At(e, "none") /\ MayArm
    /\ phase' = "watching"
    /\ engine' = [Aborted EXCEPT ![e] = [Fresh EXCEPT !.pc = "sleeping"]]
    /\ handle' = {} /\ arming' = arming \cup {e} /\ armed' = {e}
    /\ UNCHANGED <<session, cached>>

\* ... and its handle is stored.
Store(e) ==
    /\ e \in arming
    /\ handle' = {e} /\ arming' = arming \ {e}
    /\ UNCHANGED <<phase, engine, session, cached, armed>>

Cancel ==
    /\ phase # "disarmed"
    /\ phase' = "disarmed"
    /\ engine' = Aborted
    /\ handle' = {} /\ armed' = {}
    /\ UNCHANGED <<arming, session, cached>>

-----------------------------------------------------------------------------
(* The engine *)

Cancelled == phase = "disarmed"

Set(e, rec) == engine' = [engine EXCEPT ![e] = rec]

Over(e) == Set(e, [Fresh EXCEPT !.pc = "over"])

\* A loop's test of is_cancelled.
Stop(e) ==
    /\ Cancelled /\ engine[e].pc \in {"sleeping", "closing", "polling", "counting"}
    /\ Over(e)
    /\ UNCHANGED <<phase, handle, arming, session, cached, armed>>

\* The second's sleep is over, and the open prompts are being answered.
Tick(e) ==
    /\ At(e, "sleeping") /\ ~Cancelled /\ ("parallel" \in Env \/ e \notin arming)
    /\ Set(e, [engine[e] EXCEPT !.pc = "resolving"])
    /\ UNCHANGED <<phase, handle, arming, session, cached, armed>>

Signature == [live |-> Live, flight |-> WaitingOn]

Unchanged(e) == engine[e].ticked /\ engine[e].last = Signature

\* Mutant: background tasks do not count.
AllQuiet == \A s \in Live : cached[s] # "busy"

\* all_sessions_idle
AllIdle == \A s \in Live : cached[s] \notin InFlight

\* Some session is in flight: watch on.
Watch(e) ==
    /\ At(e, "resolving") /\ UpToDate /\ ~AllIdle
    /\ phase' = "watching"
    /\ Set(e, [engine[e] EXCEPT !.pc = "sleeping", !.last = Signature,
                                !.ticked = TRUE])
    /\ UNCHANGED <<handle, arming, session, cached, armed>>

\* Nothing has moved for three minutes: disarm.
GiveUp(e) ==
    /\ At(e, "resolving") /\ UpToDate /\ Unchanged(e)
    /\ phase' = "disarmed"
    /\ Over(e)
    /\ UNCHANGED <<handle, arming, session, cached, armed>>

\* All are idle: every live session is to be closed.
BeginClosing(e) ==
    /\ At(e, "resolving") /\ UpToDate /\ AllIdle
    /\ phase' = "closing"
    /\ Set(e, [Fresh EXCEPT !.pc = "closing", !.todo = Live])
    /\ UNCHANGED <<handle, arming, session, cached, armed>>

\* /close is sent to one of them, and begins a turn, ...
InjectClose(e, s) ==
    /\ At(e, "closing") /\ ~Cancelled /\ s \in engine[e].todo
    /\ session[s] # "ended"
    /\ session' = [session EXCEPT ![s] = "busy"]
    /\ Set(e, [engine[e] EXCEPT !.pc = "polling", !.cur = {s}, !.saw = FALSE])
    /\ UNCHANGED <<phase, handle, arming, cached, armed>>

\* ... or the send fails, and the session is passed over.
InjectFails(e, s) ==
    /\ At(e, "closing") /\ ~Cancelled /\ s \in engine[e].todo
    /\ Set(e, [engine[e] EXCEPT !.todo = @ \ {s}])
    /\ UNCHANGED <<phase, handle, arming, session, cached, armed>>

\* close_turn_complete: it is gone, or was busy and is idle again.
Complete(e, s) ==
    cached[s] = "ended" \/ (cached[s] \notin InFlight /\ engine[e].saw)

\* Mutant: the wait has no deadline.
ClosedUntimed(e, s) ==
    /\ At(e, "polling") /\ ~Cancelled /\ s \in engine[e].cur /\ UpToDate
    /\ Complete(e, s)
    /\ Set(e, [engine[e] EXCEPT !.pc = "closing", !.todo = @ \ {s}, !.cur = {}])
    /\ UNCHANGED <<phase, handle, arming, session, cached, armed>>

\* The wait for a session's /close is over, or has lasted three minutes.
Closed(e, s) ==
    /\ At(e, "polling") /\ ~Cancelled /\ s \in engine[e].cur /\ UpToDate
    /\ Complete(e, s) \/ "slow" \in Env \/ session[s] \notin InFlight
    /\ Set(e, [engine[e] EXCEPT !.pc = "closing", !.todo = @ \ {s}, !.cur = {}])
    /\ UNCHANGED <<phase, handle, arming, session, cached, armed>>

Poll(e, s) ==
    /\ At(e, "polling") /\ ~Cancelled /\ s \in engine[e].cur /\ UpToDate
    /\ cached[s] \in InFlight
    /\ Set(e, [engine[e] EXCEPT !.saw = TRUE])
    /\ UNCHANGED <<phase, handle, arming, session, cached, armed>>

BeginCountdown(e) ==
    /\ At(e, "closing") /\ ~Cancelled /\ engine[e].todo = {}
    /\ phase' = "countingDown"
    /\ Set(e, [Fresh EXCEPT !.pc = "counting", !.left = Countdown])
    /\ UNCHANGED <<handle, arming, session, cached, armed>>

CountDown(e) ==
    /\ At(e, "counting") /\ ~Cancelled /\ engine[e].left > 1
    /\ Set(e, [engine[e] EXCEPT !.left = @ - 1])
    /\ UNCHANGED <<phase, handle, arming, session, cached, armed>>

\* The last second is over: act.  Nothing is looked at again.
Fire(e) ==
    /\ At(e, "counting") /\ ~Cancelled /\ engine[e].left = 1
    /\ phase' = "firing"
    /\ Over(e)
    /\ UNCHANGED <<handle, arming, session, cached, armed>>

-----------------------------------------------------------------------------
(* The sessions *)

TurnStarts(s) ==
    /\ session[s] = "idle"
    /\ "wakes" \in Env \/ phase \in {"disarmed", "watching"}
    /\ session' = [session EXCEPT ![s] = "busy"]
    /\ UNCHANGED <<phase, handle, arming, engine, cached, armed>>

TurnEnds(s) ==
    /\ session[s] = "busy"
    /\ \E st \in {"idle", "working", "ended"} : session' = [session EXCEPT ![s] = st]
    /\ UNCHANGED <<phase, handle, arming, engine, cached, armed>>

\* A background task is done and brings a turn.
Reinvoked(s) ==
    /\ session[s] = "working"
    /\ session' = [session EXCEPT ![s] = "busy"]
    /\ UNCHANGED <<phase, handle, arming, engine, cached, armed>>

\* instances_changed arrives.
Refresh ==
    /\ cached # session
    /\ cached' = session
    /\ UNCHANGED <<phase, handle, arming, engine, session, armed>>

-----------------------------------------------------------------------------

EngineNext(e) ==
    \/ Stop(e) \/ Tick(e) \/ Watch(e) \/ GiveUp(e) \/ BeginClosing(e)
    \/ \E s \in Sessions : \/ InjectClose(e, s) \/ InjectFails(e, s)
                           \/ Closed(e, s) \/ Poll(e, s)
    \/ BeginCountdown(e) \/ CountDown(e) \/ Fire(e)

Next ==
    \/ \E e \in Engines : Arm(e) \/ Store(e) \/ EngineNext(e)
    \/ Cancel
    \/ \E s \in Sessions : TurnStarts(s) \/ TurnEnds(s) \/ Reinvoked(s)
    \/ Refresh

Spec == Init /\ [][Next]_vars

\* The engine and the arming command run, events arrive, turns end, and a
\* session does not start background tasks for ever.
Fairness ==
    /\ \A e \in Engines : WF_vars(EngineNext(e)) /\ WF_vars(Store(e))
    /\ \A e \in Engines, s \in Sessions : SF_vars(Closed(e, s))
    /\ WF_vars(Refresh)
    /\ \A s \in Sessions : /\ WF_vars(Reinvoked(s))
                           /\ SF_vars(TurnEnds(s) /\ session'[s] # "working")

FairSpec == Spec /\ Fairness

-----------------------------------------------------------------------------
(* Properties *)

TypeOK ==
    /\ phase \in Phases
    /\ handle \subseteq Engines
    /\ arming \subseteq Engines
    /\ engine \in [Engines -> EngineType]
    /\ session \in [Sessions -> States]
    /\ cached \in [Sessions -> States]
    /\ armed \subseteq Engines

Fires(e) == At(e, "counting") /\ phase # "firing" /\ phase' = "firing"
                              /\ engine'[e].pc = "over"

\* engine.rs:50: the machine is not put to sleep over a turn, or over
\* background tasks that will bring one.
FiresOverIdle ==
    [][\A e \in Engines : Fires(e) => \A s \in Sessions : session[s] \notin InFlight]_vars

\* Only the engine of the last arming acts, and not if it has been cancelled.
OnlyTheArmedFires == [][\A e \in Engines : Fires(e) => e \in armed]_vars

\* What the windows show is there: a phase under way has its engine.
ShownIsRunning ==
    phase \in {"watching", "closing", "countingDown"} =>
        \E e \in Engines : engine[e].pc \notin {"none", "over"}

\* Once sessions are being closed, the action follows or the user calls it off.
ClosingEnds == phase = "closing" ~> phase # "closing"
==================================================================================
