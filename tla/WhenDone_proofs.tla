---------------------------- MODULE WhenDone_proofs ----------------------------
(***************************************************************************)
(* Theorems about WhenDone, for every set of sessions and engines and      *)
(* every countdown, and for every environment but where a theorem says so. *)
(***************************************************************************)
EXTENDS WhenDone, TLAPS

EngineStep ==
    \E e \in Engines :
        \/ Stop(e) \/ Tick(e) \/ Watch(e) \/ GiveUp(e) \/ BeginClosing(e)
        \/ \E s \in Sessions : \/ InjectClose(e, s) \/ InjectFails(e, s)
                               \/ Closed(e, s) \/ Poll(e, s)
        \/ BeginCountdown(e) \/ CountDown(e) \/ Fire(e)

SessionStep ==
    \/ \E s \in Sessions : TurnStarts(s) \/ TurnEnds(s) \/ Reinvoked(s)
    \/ Refresh

LEMMA EngineRecords ==
    ASSUME TypeOK
    PROVE  /\ Fresh \in EngineType
           /\ [Fresh EXCEPT !.pc = "over"] \in EngineType
           /\ [Fresh EXCEPT !.pc = "sleeping"] \in EngineType
           /\ Aborted \in [Engines -> EngineType]
<1>1. Fresh \in EngineType
  <2>1. NoSig \in SigType
    BY DEF NoSig, SigType
  <2>2. QED
    BY <2>1, ConstantsAssumption DEF ConstantsAssumption, Fresh, EngineType
<1>2. /\ [Fresh EXCEPT !.pc = "over"] \in EngineType
      /\ [Fresh EXCEPT !.pc = "sleeping"] \in EngineType
  BY <1>1 DEF EngineType
<1>3. Aborted \in [Engines -> EngineType]
  BY <1>2 DEF Aborted, TypeOK
<1>4. QED
  BY <1>1, <1>2, <1>3

LEMMA TypeStep == TypeOK /\ [Next]_vars => TypeOK'
<1> SUFFICES ASSUME TypeOK, [Next]_vars PROVE TypeOK'
  OBVIOUS
<1> USE ConstantsAssumption DEF ConstantsAssumption, Phases, States, At, Over, Set
<1>r. Fresh \in EngineType /\ [Fresh EXCEPT !.pc = "over"] \in EngineType
  BY EngineRecords
<1>c. /\ Live \in SUBSET Sessions /\ WaitingOn \in SUBSET Sessions
      /\ Signature \in SigType
      /\ \A e \in Engines : engine[e] \in EngineType
  BY DEF Live, WaitingOn, Signature, SigType, TypeOK
<1>1. ASSUME NEW e \in Engines, Arm(e) PROVE TypeOK'
  BY <1>1, EngineRecords DEF Arm, TypeOK
<1>2. ASSUME NEW e \in Engines, Store(e) PROVE TypeOK'
  BY <1>2 DEF Store, TypeOK
<1>3. CASE Cancel
  BY <1>3, EngineRecords DEF Cancel, TypeOK
<1>4. ASSUME NEW e \in Engines, Stop(e) \/ GiveUp(e) \/ Fire(e) PROVE TypeOK'
  BY <1>4, <1>r DEF Stop, GiveUp, Fire, TypeOK
<1>5. ASSUME NEW e \in Engines, Tick(e) PROVE TypeOK'
  BY <1>5, <1>c DEF Tick, TypeOK, EngineType
<1>6. ASSUME NEW e \in Engines, Watch(e) PROVE TypeOK'
  BY <1>6, <1>c DEF Watch, TypeOK, EngineType
<1>7. ASSUME NEW e \in Engines, BeginClosing(e) PROVE TypeOK'
  <2>1. [Fresh EXCEPT !.pc = "closing", !.todo = Live] \in EngineType
    BY <1>c, <1>r DEF EngineType
  <2>2. QED
    BY <1>7, <2>1 DEF BeginClosing, TypeOK
<1>8. ASSUME NEW e \in Engines, NEW s \in Sessions, InjectClose(e, s) PROVE TypeOK'
  BY <1>8, <1>c DEF InjectClose, TypeOK, EngineType
<1>9. ASSUME NEW e \in Engines, NEW s \in Sessions, InjectFails(e, s) PROVE TypeOK'
  BY <1>9, <1>c DEF InjectFails, TypeOK, EngineType
<1>10. ASSUME NEW e \in Engines, NEW s \in Sessions, Closed(e, s) PROVE TypeOK'
  BY <1>10, <1>c DEF Closed, TypeOK, EngineType
<1>11. ASSUME NEW e \in Engines, NEW s \in Sessions, Poll(e, s) PROVE TypeOK'
  BY <1>11, <1>c DEF Poll, TypeOK, EngineType
<1>12. ASSUME NEW e \in Engines, BeginCountdown(e) PROVE TypeOK'
  <2>1. [Fresh EXCEPT !.pc = "counting", !.left = Countdown] \in EngineType
    <3>1. Countdown \in 0..Countdown
      OBVIOUS
    <3>2. QED
      BY <1>r, <3>1 DEF EngineType
  <2>2. QED
    BY <1>12, <2>1 DEF BeginCountdown, TypeOK
<1>13. ASSUME NEW e \in Engines, CountDown(e) PROVE TypeOK'
  <2>1. engine[e].left - 1 \in 0..Countdown
    BY <1>13, <1>c DEF CountDown, EngineType
  <2>2. QED
    BY <1>13, <1>c, <2>1 DEF CountDown, TypeOK, EngineType
<1>14. CASE SessionStep
  BY <1>14 DEF SessionStep, TurnStarts, TurnEnds, Reinvoked, Refresh, TypeOK
<1>15. CASE UNCHANGED vars
  BY <1>15 DEF vars, TypeOK
<1>16. QED
  BY <1>1, <1>2, <1>3, <1>4, <1>5, <1>6, <1>7, <1>8, <1>9, <1>10, <1>11,
     <1>12, <1>13, <1>14, <1>15 DEF Next, EngineNext, SessionStep

\* Type correctness of the engine and its handle.
THEOREM TypeCorrect == Spec => []TypeOK
<1>1. Init => TypeOK
  <2>1. NoSig \in SigType
    BY DEF NoSig, SigType
  <2>2. QED
    BY <2>1, ConstantsAssumption
       DEF ConstantsAssumption, Init, TypeOK, Phases, States, EngineType, Fresh
<1>2. QED
  BY <1>1, TypeStep, PTL DEF Spec

-----------------------------------------------------------------------------
(* A phase that is shown has its engine *)

Active(e) == engine[e].pc \notin {"none", "over"}

LEMMA ShownStep == TypeOK /\ ShownIsRunning /\ [Next]_vars => ShownIsRunning'
<1> SUFFICES ASSUME TypeOK, ShownIsRunning, [Next]_vars,
                    phase' \in {"watching", "closing", "countingDown"}
             PROVE  \E e \in Engines : Active(e)'
  BY DEF ShownIsRunning, Active
<1> USE DEF At, Over, Set, Active
<1>1. ASSUME NEW e \in Engines, Arm(e) PROVE Active(e)'
  <2>1. Aborted \in [Engines -> EngineType]
    BY EngineRecords
  <2>2. QED
    BY <1>1, <2>1 DEF Arm, Fresh
<1>2. ASSUME UNCHANGED <<phase, engine>> PROVE \E e \in Engines : Active(e)'
  BY <1>2 DEF ShownIsRunning
<1>3. ASSUME NEW e \in Engines, Store(e) PROVE \E f \in Engines : Active(f)'
  BY <1>2, <1>3 DEF Store
<1>4. CASE Cancel
  BY <1>4 DEF Cancel
<1>5. ASSUME NEW e \in Engines, Stop(e) \/ GiveUp(e) \/ Fire(e) PROVE FALSE
  BY <1>5 DEF Stop, Cancelled, GiveUp, Fire
<1>6. ASSUME NEW e \in Engines, Tick(e) \/ Watch(e) \/ BeginClosing(e)
                                \/ BeginCountdown(e) \/ CountDown(e)
      PROVE  Active(e)'
  BY <1>6 DEF Tick, Watch, BeginClosing, BeginCountdown, CountDown, TypeOK, EngineType, Fresh
<1>7. ASSUME NEW e \in Engines, NEW s \in Sessions,
             InjectClose(e, s) \/ InjectFails(e, s) \/ Closed(e, s) \/ Poll(e, s)
      PROVE  Active(e)'
  <2>1. engine[e] \in EngineType
    BY DEF TypeOK
  <2>2. CASE InjectClose(e, s)
    BY <2>1, <2>2 DEF InjectClose, TypeOK, EngineType
  <2>3. CASE InjectFails(e, s)
    BY <2>1, <2>3 DEF InjectFails, TypeOK, EngineType
  <2>4. CASE Closed(e, s)
    BY <2>1, <2>4 DEF Closed, TypeOK, EngineType
  <2>5. CASE Poll(e, s)
    BY <2>1, <2>5 DEF Poll, TypeOK, EngineType
  <2>6. QED
    BY <1>7, <2>2, <2>3, <2>4, <2>5
<1>8. CASE SessionStep
  BY <1>2, <1>8 DEF SessionStep, TurnStarts, TurnEnds, Reinvoked, Refresh
<1>9. CASE UNCHANGED vars
  BY <1>2, <1>9 DEF vars
<1>10. QED
  BY <1>1, <1>3, <1>4, <1>5, <1>6, <1>7, <1>8, <1>9 DEF Next, EngineNext, SessionStep

\* What the windows show is there, in every environment (mod.rs: get).
THEOREM ShownIsThere == Spec => []ShownIsRunning
<1>1. Init => ShownIsRunning
  BY DEF Init, ShownIsRunning
<1>2. QED
  BY <1>1, ShownStep, TypeCorrect, PTL DEF Spec

-----------------------------------------------------------------------------
(* One engine at a time *)

\* The engine that runs is the one stored or about to be, it is past its first
\* sleep only when stored, and it is the armed one unless cancelled.
OneEngine ==
    /\ \A e, f \in handle \cup arming : e = f
    /\ handle \cap arming = {}
    /\ \A e \in Engines : Active(e) => e \in handle \cup arming
    /\ \A e \in Engines : Active(e) /\ e \notin handle => At(e, "sleeping")
    /\ \A e \in Engines : Active(e) /\ phase # "disarmed" => e \in armed
    /\ \A e \in Engines : Active(e) /\ phase = "disarmed" => At(e, "sleeping")

LEMMA OneEngineStep ==
    ASSUME "parallel" \notin Env, TypeOK, OneEngine, [Next]_vars
    PROVE  OneEngine'
<1> USE DEF At, Over, Set, Active
<1>r. \A e \in Engines : Active(e) => engine[e].pc # "none"
  OBVIOUS
<1>1. ASSUME NEW e \in Engines, Arm(e) PROVE OneEngine'
  <2>1. arming = {} /\ handle' = {} /\ arming' = {e} /\ armed' = {e} /\ phase' = "watching"
    BY <1>1 DEF Arm, MayArm
  <2>2. engine'[e].pc = "sleeping"
    BY <1>1, EngineRecords DEF Arm, Fresh
  <2>3. \A f \in Engines \ {e} : ~Active(f)'
    BY <1>1, <2>1 DEF Arm, Aborted, Fresh, OneEngine, TypeOK
  <2>4. QED
    BY <2>1, <2>2, <2>3 DEF OneEngine
<1>2. ASSUME NEW e \in Engines, Store(e) PROVE OneEngine'
  <2>1. handle' = {e} /\ arming' = {} /\ handle \subseteq {e}
    BY <1>2 DEF Store, OneEngine
  <2>2. UNCHANGED <<phase, engine, armed>>
    BY <1>2 DEF Store
  <2>3. QED
    BY <2>1, <2>2, <1>2 DEF Store, OneEngine
<1>3. CASE Cancel
  <2>1. \A e \in Engines : engine'[e] = engine[e] \/ (engine'[e].pc = "over" /\ e \in handle)
    BY <1>3 DEF Cancel, Aborted, Fresh, TypeOK
  <2>2. \A e \in handle : ~Active(e)'
    BY <1>3 DEF Cancel, Aborted, Fresh, TypeOK
  <2>3. QED
    BY <1>3, <2>1, <2>2 DEF Cancel, OneEngine
<1>4. ASSUME NEW e \in Engines, Stop(e) \/ GiveUp(e) \/ Fire(e) PROVE OneEngine'
  <2>1. /\ UNCHANGED <<handle, arming, armed>> /\ engine'[e].pc = "over" /\ Active(e)
        /\ \A f \in Engines \ {e} : engine'[f] = engine[f]
    BY <1>4 DEF Stop, GiveUp, Fire, Fresh, TypeOK
  <2>2. phase' = "disarmed" => phase = "disarmed" \/ \A f \in Engines \ {e} : ~Active(f)
    BY <2>1 DEF OneEngine
  <2>3. phase = "disarmed" => phase' = "disarmed"
    BY <1>4 DEF Stop, GiveUp, Fire, Cancelled
  <2>4. QED
    BY <2>1, <2>2, <2>3 DEF OneEngine
<1>5. ASSUME NEW e \in Engines,
             \/ Tick(e) \/ Watch(e) \/ BeginClosing(e) \/ BeginCountdown(e) \/ CountDown(e)
             \/ \E s \in Sessions : \/ InjectClose(e, s) \/ InjectFails(e, s)
                                    \/ Closed(e, s) \/ Poll(e, s)
      PROVE  OneEngine'
  <2>1. /\ UNCHANGED <<handle, arming, armed>> /\ Active(e)
        /\ \A f \in Engines \ {e} : engine'[f] = engine[f]
    BY <1>5 DEF Tick, Watch, BeginClosing, BeginCountdown, CountDown, InjectClose,
                InjectFails, Closed, Poll, TypeOK
  <2>2. phase # "disarmed" /\ phase' # "disarmed"
    BY <1>5 DEF Tick, Watch, BeginClosing, BeginCountdown, CountDown, InjectClose,
                InjectFails, Closed, Poll, Cancelled, OneEngine
  <2>3. e \in handle
    BY <1>5, <2>1 DEF Tick, Watch, BeginClosing, BeginCountdown, CountDown, InjectClose,
                      InjectFails, Closed, Poll, OneEngine
  <2>4. QED
    BY <2>1, <2>2, <2>3 DEF OneEngine
<1>6. CASE SessionStep
  BY <1>6 DEF SessionStep, TurnStarts, TurnEnds, Reinvoked, Refresh, OneEngine
<1>7. CASE UNCHANGED vars
  BY <1>7 DEF vars, OneEngine
<1>8. QED
  BY <1>1, <1>2, <1>3, <1>4, <1>5, <1>6, <1>7 DEF Next, EngineNext, SessionStep

LEMMA OneEngineInvariant == ASSUME "parallel" \notin Env PROVE Spec => []OneEngine
<1>1. Init => OneEngine
  BY DEF Init, OneEngine, Active, Fresh
<1>2. QED
  BY <1>1, OneEngineStep, TypeCorrect, PTL DEF Spec

\* A cancelled or replaced engine does not act, as long as the action is armed
\* once at a time (mod.rs: arm).
THEOREM ArmedFires == ASSUME "parallel" \notin Env PROVE Spec => OnlyTheArmedFires
<1> DEFINE Good == \A e \in Engines : Fires(e) => e \in armed
<1>1. TypeOK /\ OneEngine /\ [Next]_vars => [Good]_vars
  <2> SUFFICES ASSUME TypeOK, OneEngine, Next, NEW e \in Engines, Fires(e)
               PROVE  e \in armed
    OBVIOUS
  <2>1. Active(e) /\ ~At(e, "sleeping")
    BY DEF Fires, Active, At
  <2>2. QED
    BY <2>1 DEF OneEngine
<1>2. QED
  BY <1>1, TypeCorrect, OneEngineInvariant, PTL DEF Spec, OnlyTheArmedFires

-----------------------------------------------------------------------------
(* What the engine has seen still holds when it acts                        *)

InTurn(s) == session[s] \in InFlight

\* Once closing begins only the session being closed may have a turn, and
\* from the countdown on none has.
SeesTheSessions(e) ==
    /\ At(e, "closing") => phase = "closing" /\ \A s \in Sessions : ~InTurn(s)
    /\ At(e, "polling") => /\ phase = "closing"
                           /\ \A s \in Sessions : InTurn(s) => s \in engine[e].cur
                           /\ \A s, t \in engine[e].cur : s = t
    /\ At(e, "counting") => phase = "countingDown" /\ \A s \in Sessions : ~InTurn(s)

IdleInv == \A e \in Engines : SeesTheSessions(e)

\* What an engine has seen depends on its own record, the phase and the rows.
LEMMA SightStays ==
    ASSUME NEW e \in Engines, SeesTheSessions(e), engine'[e] = engine[e],
           UNCHANGED <<phase, session>>
    PROVE  SeesTheSessions(e)'
  BY DEF SeesTheSessions, InTurn, At

LEMMA IdleStep ==
    ASSUME Env = {}, TypeOK, OneEngine, IdleInv, [Next]_vars
    PROVE  IdleInv'
<1> USE DEF At, Over, Set, Active
<1>r. \A e \in Engines : engine[e] \in EngineType
  BY DEF TypeOK
<1>u. UpToDate => cached = session
  BY DEF UpToDate
\* No other engine is past its first sleep.
<1>o. ASSUME NEW e \in Engines, Active(e), NEW f \in Engines \ {e},
             engine'[f] = engine[f]
      PROVE  SeesTheSessions(f)'
  <2>1. ~Active(f)
    BY <1>o DEF OneEngine
  <2>2. QED
    BY <1>o, <2>1 DEF SeesTheSessions
<1>1. ASSUME NEW e \in Engines, Arm(e) PROVE IdleInv'
  <2>1. \A f \in Engines : engine'[f].pc \in {"none", "over", "sleeping", "resolving"}
    <3>1. arming = {}
      BY <1>1 DEF Arm, MayArm
    <3>2. \A f \in Engines \ {e} : engine'[f] = Aborted[f]
      BY <1>1, EngineRecords DEF Arm
    <3>3. engine'[e].pc = "sleeping"
      BY <1>1, EngineRecords DEF Arm, Fresh
    <3>4. \A f \in Engines : Aborted[f].pc \in {"none", "over"}
      BY <3>1 DEF Aborted, Fresh, OneEngine
    <3>5. QED
      BY <3>2, <3>3, <3>4
  <2>2. QED
    BY <2>1 DEF IdleInv, SeesTheSessions
<1>2. ASSUME UNCHANGED <<phase, engine, session>> PROVE IdleInv'
  BY <1>2, SightStays DEF IdleInv
<1>3. ASSUME NEW e \in Engines, Store(e) PROVE IdleInv'
  BY <1>2, <1>3 DEF Store
<1>4. CASE Cancel
  <2>1. \A e \in Engines : engine'[e].pc \in {"none", "over", "sleeping"}
    <3>1. engine' = Aborted
      BY <1>4 DEF Cancel
    <3>2. QED
      BY <3>1 DEF Aborted, Fresh, OneEngine
  <2>2. QED
    BY <2>1 DEF IdleInv, SeesTheSessions
<1>5. ASSUME NEW e \in Engines, Stop(e) \/ GiveUp(e) \/ Fire(e) \/ Tick(e) \/ Watch(e)
      PROVE  IdleInv'
  <2>1. /\ engine'[e].pc \in {"over", "resolving", "sleeping"} /\ Active(e)
        /\ \A f \in Engines \ {e} : engine'[f] = engine[f]
    <3>1. CASE Stop(e) \/ GiveUp(e) \/ Fire(e)
      BY <3>1 DEF Stop, GiveUp, Fire, Fresh, TypeOK
    <3>2. CASE Tick(e)
      BY <1>r, <3>2 DEF Tick, TypeOK, EngineType
    <3>3. CASE Watch(e)
      BY <1>r, <3>3 DEF Watch, TypeOK, EngineType
    <3>4. QED
      BY <1>5, <3>1, <3>2, <3>3
  <2>2. SeesTheSessions(e)'
    BY <2>1 DEF SeesTheSessions
  <2>3. QED
    BY <1>o, <2>1, <2>2 DEF IdleInv
<1>6. ASSUME NEW e \in Engines, BeginClosing(e) PROVE IdleInv'
  <2>1. /\ engine'[e].pc = "closing" /\ Active(e) /\ phase' = "closing"
        /\ \A f \in Engines \ {e} : engine'[f] = engine[f]
    BY <1>6 DEF BeginClosing, Fresh, TypeOK
  <2>2. \A s \in Sessions : ~InTurn(s)'
    BY <1>6, <1>u DEF BeginClosing, AllIdle, Live, InTurn, InFlight
  <2>3. SeesTheSessions(e)'
    BY <2>1, <2>2 DEF SeesTheSessions
  <2>4. QED
    BY <1>o, <2>1, <2>3 DEF IdleInv
<1>7. ASSUME NEW e \in Engines, NEW s \in Sessions, InjectClose(e, s) PROVE IdleInv'
  <2>1. /\ Active(e) /\ phase = "closing" /\ \A t \in Sessions : ~InTurn(t)
        /\ \A f \in Engines \ {e} : engine'[f] = engine[f]
    BY <1>7 DEF InjectClose, IdleInv, SeesTheSessions, TypeOK
  <2>2. phase' = phase /\ engine'[e].pc = "polling" /\ engine'[e].cur = {s}
    BY <1>7, <1>r DEF InjectClose, EngineType, TypeOK
  <2>3. \A t \in Sessions : t # s => ~InTurn(t)'
    BY <1>7, <2>1 DEF InjectClose, InTurn, TypeOK
  <2>4. SeesTheSessions(e)'
    BY <2>1, <2>2, <2>3 DEF SeesTheSessions
  <2>5. QED
    BY <1>o, <2>1, <2>4 DEF IdleInv
<1>8. ASSUME NEW e \in Engines, NEW s \in Sessions, InjectFails(e, s) PROVE IdleInv'
  <2>1. /\ Active(e) /\ phase = "closing" /\ \A t \in Sessions : ~InTurn(t)
        /\ \A f \in Engines \ {e} : engine'[f] = engine[f]
    BY <1>8 DEF InjectFails, IdleInv, SeesTheSessions, TypeOK
  <2>2. phase' = phase /\ session' = session /\ engine'[e].pc = "closing"
    BY <1>8, <1>r DEF InjectFails, EngineType, TypeOK
  <2>3. SeesTheSessions(e)'
    BY <2>1, <2>2 DEF SeesTheSessions, InTurn
  <2>4. QED
    BY <1>o, <2>1, <2>3 DEF IdleInv
<1>9. ASSUME NEW e \in Engines, NEW s \in Sessions, Closed(e, s) PROVE IdleInv'
  <2>1. /\ Active(e) /\ phase = "closing" /\ s \in engine[e].cur
        /\ \A t \in Sessions : InTurn(t) => t = s
        /\ \A f \in Engines \ {e} : engine'[f] = engine[f]
    BY <1>9 DEF Closed, IdleInv, SeesTheSessions, TypeOK
  <2>2. phase' = phase /\ session' = session /\ engine'[e].pc = "closing"
    BY <1>9, <1>r DEF Closed, EngineType, TypeOK
  <2>3. ~InTurn(s)
    BY <1>9, <1>u DEF Closed, Complete, InTurn, InFlight
  <2>4. SeesTheSessions(e)'
    BY <2>1, <2>2, <2>3 DEF SeesTheSessions, InTurn
  <2>5. QED
    BY <1>o, <2>1, <2>4 DEF IdleInv
<1>10. ASSUME NEW e \in Engines, NEW s \in Sessions, Poll(e, s) PROVE IdleInv'
  <2>1. /\ Active(e) /\ UNCHANGED <<phase, session>>
        /\ engine'[e].pc = engine[e].pc /\ engine'[e].cur = engine[e].cur
        /\ \A f \in Engines \ {e} : engine'[f] = engine[f]
    BY <1>10, <1>r DEF Poll, TypeOK, EngineType
  <2>2. SeesTheSessions(e)'
    BY <2>1 DEF IdleInv, SeesTheSessions, InTurn
  <2>3. QED
    BY <1>o, <2>1, <2>2 DEF IdleInv
<1>11. ASSUME NEW e \in Engines, BeginCountdown(e) \/ CountDown(e) PROVE IdleInv'
  <2>1. /\ Active(e) /\ session' = session
        /\ engine'[e].pc = "counting" /\ engine[e].pc \in {"closing", "counting"}
        /\ \A f \in Engines \ {e} : engine'[f] = engine[f]
    <3>1. CASE BeginCountdown(e)
      BY <3>1 DEF BeginCountdown, Fresh, TypeOK
    <3>2. CASE CountDown(e)
      BY <1>r, <3>2 DEF CountDown, TypeOK, EngineType
    <3>3. QED
      BY <1>11, <3>1, <3>2
  <2>2. phase' = "countingDown"
    BY <1>11 DEF BeginCountdown, CountDown, IdleInv, SeesTheSessions
  <2>3. SeesTheSessions(e)'
    BY <2>1, <2>2 DEF IdleInv, SeesTheSessions, InTurn
  <2>4. QED
    BY <1>o, <2>1, <2>3 DEF IdleInv
\* A turn begins only while no engine is past its watch.
<1>12. ASSUME NEW s \in Sessions, TurnStarts(s) PROVE IdleInv'
  <2>1. phase' \in {"disarmed", "watching"} /\ phase' = phase /\ engine' = engine
    BY <1>12 DEF TurnStarts
  <2>2. \A e \in Engines : engine[e].pc \notin {"closing", "polling", "counting"}
    BY <2>1 DEF IdleInv, SeesTheSessions
  <2>3. QED
    BY <2>1, <2>2 DEF IdleInv, SeesTheSessions
<1>13. ASSUME NEW s \in Sessions, TurnEnds(s) \/ Reinvoked(s) PROVE IdleInv'
  <2>1. InTurn(s) /\ UNCHANGED <<phase, engine>>
    BY <1>13 DEF TurnEnds, Reinvoked, InTurn, InFlight
  <2>2. \A t \in Sessions : InTurn(t)' => InTurn(t)
    BY <1>13, <2>1 DEF TurnEnds, Reinvoked, InTurn, TypeOK
  <2>3. QED
    BY <2>1, <2>2 DEF IdleInv, SeesTheSessions
<1>14. CASE Refresh
  BY <1>2, <1>14 DEF Refresh
<1>15. CASE UNCHANGED vars
  BY <1>2, <1>15 DEF vars
<1>16. QED
  BY <1>1, <1>3, <1>4, <1>5, <1>6, <1>7, <1>8, <1>9, <1>10, <1>11, <1>12, <1>13,
     <1>14, <1>15 DEF Next, EngineNext

\* The machine is put to sleep over no turn and over no background task, when
\* nothing happens that the engine does not look for: every session that may
\* wake was closed, the cached list is up to date, a /close takes no longer
\* than the wait for it, and the action is armed once at a time
\* (engine.rs: run, close_all_sessions, countdown).
THEOREM SleepsOverIdle == ASSUME Env = {} PROVE Spec => FiresOverIdle
<1> DEFINE Good == \A e \in Engines : Fires(e) => \A s \in Sessions : session[s] \notin InFlight
<1>1. Init => IdleInv
  BY DEF Init, IdleInv, SeesTheSessions, At, Fresh
<1>2. TypeOK /\ OneEngine /\ IdleInv /\ [Next]_vars => IdleInv'
  BY IdleStep
<1>3. IdleInv /\ [Next]_vars => [Good]_vars
  BY DEF IdleInv, SeesTheSessions, InTurn, Fires, At
<1>4. "parallel" \notin Env
  OBVIOUS
<1>5. Spec => []OneEngine
  BY <1>4, OneEngineInvariant
<1>6. QED
  BY <1>1, <1>2, <1>3, <1>5, TypeCorrect, PTL DEF Spec, FiresOverIdle
================================================================================
