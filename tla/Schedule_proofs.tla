--------------------------- MODULE Schedule_proofs ---------------------------
(***************************************************************************)
(* Theorems about Schedule, for every set of items, sessions and tasks,    *)
(* every bound and every environment, but for what a theorem excludes.     *)
(***************************************************************************)
EXTENDS Schedule, FiniteSetTheorems, TLAPS

-----------------------------------------------------------------------------
(* Types of the outcomes *)

LEMMA NextOccurrenceType == ASSUME NEW t \in Nat PROVE NextOccurrence(t) \in Nat
<1>1. Period \in Nat \ {0}
  BY ConstantsAssumption DEF ConstantsAssumption
<1>2. t \div Period \in Nat
  BY <1>1
<1>3. QED
  BY <1>1, <1>2 DEF NextOccurrence

LEMMA SettledType ==
    ASSUME NEW item \in ItemType, NEW status \in Statuses, NEW t \in Nat
    PROVE  Settled(item, status, t) \in ItemType
<1>1. NextOccurrence(t) \in Nat /\ "pending" \in Statuses
  BY NextOccurrenceType DEF Statuses
<1> HIDE DEF NextOccurrence
<1>2. QED
  BY <1>1 DEF Settled, ItemType

LEMMA SlotType ==
    ASSUME NEW map, NEW resets \in Nat
    PROVE  NextStaggerSlot(map, resets) \in Nat
<1> DEFINE S == {i \in Ids : /\ SessionOf[i] # None
                             /\ map[i] # None /\ map[i].status = "pending"}
<1>1. IsFiniteSet(S)
  BY ConstantsAssumption, FS_Subset DEF ConstantsAssumption
<1>2. Cardinality(S) \in Nat
  BY <1>1, FS_CardinalityType
<1> HIDE DEF S
<1>3. resets + ResumeDelay + Stagger * Cardinality(S) \in Nat
  BY <1>2, ConstantsAssumption DEF ConstantsAssumption
<1>4. QED
  BY <1>3 DEF NextStaggerSlot, S

LEMMA RequeuedType ==
    ASSUME TypeOK, NEW item \in ItemType
    PROVE  Requeued(item) \in ItemType
<1>1. NextStaggerSlot(store, resetsAt) \in Nat
  BY SlotType DEF TypeOK
<1>2. QED
  BY <1>1 DEF Requeued, ItemType, Statuses

LEMMA PickedType ==
    ASSUME TypeOK, version < MaxVersions, NEW recurring \in BOOLEAN, NEW time \in Nat
    PROVE  /\ Picked(recurring, time) \in ItemType
           /\ version + 1 \in 0..MaxVersions
<1>1. version + 1 \in Versions /\ version + 1 \in 0..MaxVersions
  BY ConstantsAssumption DEF ConstantsAssumption, TypeOK, Versions
<1>2. QED
  BY <1>1 DEF Picked, ItemType, Statuses

LEMMA StoredType ==
    ASSUME TypeOK, NEW i \in Ids, store[i] # None
    PROVE  store[i] \in ItemType
  BY DEF TypeOK, StoreType

LEMMA WriteType ==
    ASSUME TypeOK, NEW map \in StoreType, WriteMap(map)
    PROVE  store' \in StoreType
  BY DEF WriteMap, TypeOK

LEMMA ClaimType ==
    ASSUME TypeOK, NEW i \in Ids, Claim(i)
    PROVE  store' \in StoreType /\ Firing(store[i]) \in ItemType
<1>1. store[i] \in ItemType
  BY StoredType DEF Claim, Pending, HasStatus
<1>2. Firing(store[i]) \in ItemType
  BY <1>1 DEF Firing, ItemType, Statuses
<1>3. [store EXCEPT ![i].status = "firing"] = [store EXCEPT ![i] = Firing(store[i])]
  BY DEF Firing, TypeOK, StoreType
<1>4. [store EXCEPT ![i] = Firing(store[i])] \in StoreType
  BY <1>2 DEF TypeOK, StoreType
<1>5. QED
  BY <1>2, <1>3, <1>4, WriteType DEF Claim

LEMMA ClaimedType ==
    ASSUME NEW i \in Ids, NEW pc \in {"claimed", "sending", "sent", "done"},
           NEW item \in ItemType, NEW t \in Nat
    PROVE  Claimed(i, pc, item, t) \in JobType
  BY DEF Claimed, JobType

LEMMA JobFields ==
    ASSUME TypeOK, NEW f \in Firers, job[f] # NoJob
    PROVE  job[f].id \in Ids /\ job[f].item \in ItemType /\ job[f].now \in Nat
  BY DEF TypeOK, JobType

-----------------------------------------------------------------------------
(* Type correctness *)

LEMMA RpcType ==
    ASSUME TypeOK, NEW i \in Ids,
           Create(i) \/ UpdateChecks(i) \/ Delete(i) \/ Rejected(i)
    PROVE  TypeOK'
<1> USE DEF TypeOK
<1>1. CASE Create(i)
  <2>1. PICK recurring \in BOOLEAN, time \in Nat :
           WriteMap([store EXCEPT ![i] = Picked(recurring, time)])
    BY <1>1, ConstantsAssumption DEF Create, MayRecur, ConstantsAssumption
  <2>2. Picked(recurring, time) \in ItemType /\ version + 1 \in 0..MaxVersions
    BY <1>1, PickedType DEF Create
  <2>3. store' \in StoreType
    <3>1. [store EXCEPT ![i] = Picked(recurring, time)] \in StoreType
      BY <2>2 DEF StoreType
    <3>2. QED
      BY <2>1, <3>1, WriteType
  <2>4. QED
    BY <1>1, <2>2, <2>3 DEF Create
<1>2. CASE UpdateChecks(i)
  <2>1. PICK time \in Nat :
           edit' = [pc |-> "checked", id |-> i, item |-> Picked(store[i].recurring, time)]
    BY <1>2, ConstantsAssumption DEF UpdateChecks, ConstantsAssumption
  <2>2. store[i].recurring \in BOOLEAN
    BY <1>2, StoredType DEF UpdateChecks, ItemType
  <2>3. Picked(store[i].recurring, time) \in ItemType /\ version + 1 \in 0..MaxVersions
    BY <1>2, <2>2, PickedType DEF UpdateChecks
  <2>4. edit' \in EditType
    BY <2>1, <2>3 DEF EditType
  <2>5. QED
    BY <1>2, <2>3, <2>4 DEF UpdateChecks
<1>3. CASE Delete(i)
  <2>1. [store EXCEPT ![i] = None] \in StoreType
    BY DEF StoreType
  <2>2. store' \in StoreType
    BY <1>3, <2>1, WriteType DEF Delete
  <2>3. QED
    BY <1>3, <2>2 DEF Delete
<1>4. CASE Rejected(i)
  <2> DEFINE purged == [j \in Ids |->
                  IF SessionOf[j] = SessionOf[i] /\ Pending(j) THEN None ELSE store[j]]
  <2>1. PICK resets \in (now + 1)..MaxTime :
          /\ resetsAt' = resets
          /\ WriteMap([purged EXCEPT ![i] = Picked(FALSE, NextStaggerSlot(purged, resets))])
    BY <1>4 DEF Rejected
  <2>2. purged \in StoreType
    BY DEF StoreType
  <2>3. resets \in Nat
    BY <2>1, ConstantsAssumption DEF ConstantsAssumption
  <2> HIDE DEF purged
  <2>4. NextStaggerSlot(purged, resets) \in Nat
    BY <2>3, SlotType
  <2>5. /\ Picked(FALSE, NextStaggerSlot(purged, resets)) \in ItemType
        /\ version + 1 \in 0..MaxVersions
    BY <1>4, <2>4, PickedType DEF Rejected
  <2>6. [purged EXCEPT ![i] = Picked(FALSE, NextStaggerSlot(purged, resets))] \in StoreType
    BY <2>2, <2>5 DEF StoreType
  <2>7. store' \in StoreType
    BY <2>1, <2>6, WriteType
  <2>8. QED
    BY <1>4, <2>1, <2>3, <2>5, <2>7 DEF Rejected
<1>5. QED
  BY <1>1, <1>2, <1>3, <1>4
LEMMA UpdateWritesType == TypeOK /\ UpdateWrites => TypeOK'
<1> SUFFICES ASSUME TypeOK, UpdateWrites PROVE TypeOK'
  OBVIOUS
<1>1. edit.id \in Ids /\ edit.item \in ItemType
  BY DEF UpdateWrites, TypeOK, EditType
<1>2. [store EXCEPT ![edit.id] = edit.item] \in StoreType
  BY <1>1 DEF TypeOK, StoreType
<1>3. store' \in StoreType
  BY <1>2, WriteType DEF UpdateWrites
<1>4. QED
  BY <1>3 DEF UpdateWrites, TypeOK, EditType

LEMMA TickStepType == TypeOK /\ TickStep => TypeOK'
<1> SUFFICES ASSUME TypeOK, TickStep PROVE TypeOK'
  OBVIOUS
<1>1. CASE TickStarts
  <2>1. DueEntries \in SUBSET [id : Ids, fireAt : Nat]
    <3> SUFFICES ASSUME NEW i \in Ids, Pending(i)
                 PROVE  [id |-> i, fireAt |-> store[i].fireAt] \in [id : Ids, fireAt : Nat]
      BY DEF DueEntries
    <3>1. store[i] \in ItemType
      BY StoredType DEF Pending, HasStatus
    <3>2. QED
      BY <3>1 DEF ItemType
  <2>2. tick' \in TickType
    BY <1>1, <2>1, ConstantsAssumption DEF TickStarts, TickType, TypeOK, ConstantsAssumption
  <2>3. QED
    BY <1>1, <2>2 DEF TickStarts, TypeOK
<1>2. CASE TickEnds
  BY <1>2 DEF TickEnds, Asleep, TickType, TypeOK
<1>a. ASSUME NEW entry \in tick.todo
      PROVE  /\ entry.id \in Ids /\ entry.fireAt \in Nat /\ tick.now \in Nat
             /\ Handled(entry) => tick' \in TickType
  <2>1. tick \in TickType
    BY DEF TypeOK
  <2>2. entry \in [id : Ids, fireAt : Nat]
    BY <2>1 DEF TickType
  <2>3. QED
    BY <2>1, <2>2 DEF TickType, Handled
<1>3. ASSUME NEW entry \in tick.todo, TickSkips(entry) PROVE TypeOK'
  BY <1>3, <1>a DEF TickSkips, TypeOK
<1>4. ASSUME NEW entry \in tick.todo, TickClaims(entry) PROVE TypeOK'
  <2> DEFINE item == Firing(store[entry.id])
  <2>1. entry.id \in Ids /\ tick.now \in Nat /\ tick' \in TickType
    BY <1>4, <1>a DEF TickClaims
  <2>2. store' \in StoreType /\ item \in ItemType
    BY <1>4, <2>1, ClaimType DEF TickClaims
  <2> HIDE DEF item
  <2>3. Settled(item, "missed", tick.now) \in ItemType
    BY <2>1, <2>2, SettledType DEF Statuses
  <2>4. /\ Claimed(entry.id, "done", Settled(item, "missed", tick.now), tick.now) \in JobType
        /\ Claimed(entry.id, "claimed", item, tick.now) \in JobType
    BY <2>1, <2>2, <2>3, ClaimedType
  <2>5. job' \in [Firers -> JobType]
    BY <1>4, <2>4 DEF TickClaims, TypeOK, item, Firers
  <2>6. QED
    BY <1>4, <2>1, <2>2, <2>5 DEF TickClaims, TypeOK
<1>5. QED
  BY <1>1, <1>2, <1>3, <1>4 DEF TickStep

LEMMA FireNowType ==
    ASSUME TypeOK, NEW f \in NowTasks, NEW i \in Ids, FireNow(f, i)
    PROVE  TypeOK'
<1>1. store' \in StoreType /\ Firing(store[i]) \in ItemType
  BY ClaimType DEF FireNow
<1>2. Claimed(i, "claimed", Firing(store[i]), now) \in JobType
  BY <1>1, ClaimedType, ConstantsAssumption DEF TypeOK, ConstantsAssumption
<1>3. job' \in [Firers -> JobType]
  BY <1>2 DEF FireNow, TypeOK, Firers
<1>4. QED
  BY <1>1, <1>3 DEF FireNow, TypeOK

LEMMA FireStepType ==
    ASSUME TypeOK, NEW f \in Firers, FireStep(f)
    PROVE  TypeOK'
<1> DEFINE i    == job[f].id
           item == job[f].item
           t    == job[f].now
<1>1. i \in Ids /\ item \in ItemType /\ t \in Nat
  <2>1. job[f] # NoJob
    BY DEF FireStep, CheckTarget, SendSucceeds, SendFails, Finish, NoJob
  <2>2. QED
    BY <2>1, JobFields
<1>2. \A status \in Statuses : Settled(item, status, t) \in ItemType
  BY <1>1, SettledType
<1>3. Requeued(item) \in ItemType
  BY <1>1, RequeuedType
<1>a. ASSUME NEW pc \in {"claimed", "sending", "sent", "done"}, NEW it \in ItemType,
             job' = [job EXCEPT ![f] = Claimed(i, pc, it, t)]
      PROVE  job' \in [Firers -> JobType]
  BY <1>1, <1>a, ClaimedType DEF TypeOK
<1>4. CASE CheckTarget(f)
  <2>1. PICK pc \in {"claimed", "sending", "sent", "done"}, it \in ItemType :
           job' = [job EXCEPT ![f] = Claimed(i, pc, it, t)]
    <3>1. Settled(item, "failed", t) \in ItemType
      BY <1>2 DEF Statuses
    <3>2. \/ job' = [job EXCEPT ![f] = Claimed(i, "done", Requeued(item), t)]
          \/ job' = [job EXCEPT ![f] = Claimed(i, "done", Settled(item, "failed", t), t)]
          \/ job' = [job EXCEPT ![f] = Claimed(i, "sending", item, t)]
      BY <1>4 DEF CheckTarget, TypeOK
    <3>3. QED
      BY <1>1, <1>3, <3>1, <3>2
  <2>2. QED
    BY <1>4, <1>a, <2>1 DEF CheckTarget, TypeOK
<1>5. CASE SendSucceeds(f)
  <2>1. sent' \in [Versions -> Nat]
    BY <1>1, <1>5 DEF SendSucceeds, TypeOK, ItemType
  <2>2. turn' \in [Sessions -> BOOLEAN]
    BY <1>5 DEF SendSucceeds, TypeOK
  <2>3. Settled(item, "sent", t) \in ItemType
    BY <1>2 DEF Statuses
  <2>4. job' \in [Firers -> JobType]
    BY <1>5, <1>a, <2>3 DEF SendSucceeds, TypeOK
  <2>5. QED
    BY <1>5, <2>1, <2>2, <2>4 DEF SendSucceeds, TypeOK
<1>6. CASE SendFails(f)
  <2>1. Settled(item, "failed", t) \in ItemType
    BY <1>2 DEF Statuses
  <2>2. job' \in [Firers -> JobType]
    BY <1>6, <1>a, <2>1 DEF SendFails, TypeOK
  <2>3. QED
    BY <1>6, <2>2 DEF SendFails, TypeOK
<1>7. CASE Finish(f)
  <2>1. store' \in StoreType
    <3>1. [store EXCEPT ![i] = item] \in StoreType
      BY <1>1 DEF TypeOK, StoreType
    <3>2. QED
      BY <1>7, <3>1, WriteType DEF Finish, FinishFire, TypeOK
  <2>2. busy' \in [Sessions -> BOOLEAN]
    BY <1>7 DEF Finish, TypeOK
  <2>3. job' \in [Firers -> JobType]
    BY <1>7 DEF Finish, TypeOK, JobType
  <2>4. QED
    BY <1>7, <2>1, <2>2, <2>3 DEF Finish, TypeOK
<1>8. QED
  BY <1>4, <1>5, <1>6, <1>7 DEF FireStep

LEMMA OutsideType ==
    ASSUME TypeOK,
           \/ \E s \in Sessions : TurnEnds(s) \/ OtherSends(s)
           \/ Clock \/ Crash \/ Restart
    PROVE  TypeOK'
<1>1. ASSUME NEW s \in Sessions, TurnEnds(s) \/ OtherSends(s) PROVE TypeOK'
  BY <1>1 DEF TurnEnds, OtherSends, TypeOK
<1>2. CASE Clock
  BY <1>2, ConstantsAssumption DEF Clock, TypeOK, ConstantsAssumption
<1>3. CASE Crash
  BY <1>3 DEF Crash, TypeOK, Asleep, TickType, JobType, EditType
<1>4. CASE Restart
  BY <1>4 DEF Restart, TypeOK
<1>5. QED
  BY <1>1, <1>2, <1>3, <1>4

LEMMA SweepType == TypeOK /\ Sweep => TypeOK'
<1> SUFFICES ASSUME TypeOK, Sweep PROVE TypeOK'
  OBVIOUS
<1> DEFINE swept == [i \in Ids |-> IF HasStatus(i, "firing")
                                   THEN [store[i] EXCEPT !.status = "interrupted"]
                                   ELSE store[i]]
<1>1. swept \in StoreType
  <2> SUFFICES ASSUME NEW i \in Ids PROVE swept[i] \in ItemType \cup {None}
    BY DEF StoreType
  <2>1. CASE HasStatus(i, "firing")
    <3>1. store[i] \in ItemType
      BY <2>1, StoredType DEF HasStatus
    <3>2. QED
      BY <2>1, <3>1 DEF ItemType, Statuses
  <2>2. CASE ~HasStatus(i, "firing")
    BY <2>2 DEF TypeOK, StoreType
  <2>3. QED
    BY <2>1, <2>2
<1> HIDE DEF swept
<1>2. store' \in StoreType
  BY <1>1, WriteType DEF Sweep, swept
<1>3. QED
  BY <1>2 DEF Sweep, TypeOK

LEMMA ScheduleInitType == Init => TypeOK
<1> SUFFICES ASSUME Init PROVE TypeOK
  OBVIOUS
<1>1. 0 \in 0..MaxVersions /\ 0 \in 0..MaxTime
  BY ConstantsAssumption DEF ConstantsAssumption
<1>2. QED
  BY <1>1 DEF Init, TypeOK, StoreType, Asleep, TickType, JobType, EditType

LEMMA ScheduleTypeStep == TypeOK /\ [Next]_vars => TypeOK'
<1>1. TypeOK /\ UNCHANGED vars => TypeOK'
  BY DEF vars, TypeOK
<1>2. QED
  BY <1>1, RpcType, UpdateWritesType, TickStepType, FireNowType, FireStepType,
     OutsideType, SweepType DEF Next

\* Type correctness of the store, the firers' claims and the daemon's state.
THEOREM ScheduleTypeCorrect == Spec => []TypeOK
  BY ScheduleInitType, ScheduleTypeStep, PTL DEF Spec

-----------------------------------------------------------------------------
(* The schedule keeps its promise.  A claim is outstanding while its firer  *)
(* is at "claimed" or "sending"; what a step does to these claims decides   *)
(* which step of the promise it is.                                         *)

Outstanding(f) == job[f].pc \in {"claimed", "sending"}

Armed == {i \in Ids : Pending(i)}
Taken == [i \in Ids |-> Cardinality(Claims(i))]

LEMMA ClaimsFinite == \A i \in Ids : IsFiniteSet(Claims(i)) /\ Cardinality(Claims(i)) \in Nat
<1>1. IsFiniteSet(Firers)
  BY ConstantsAssumption, FS_AddElement DEF ConstantsAssumption, Firers
<1>2. \A i \in Ids : Claims(i) \subseteq Firers
  BY DEF Claims
<1>3. \A i \in Ids : IsFiniteSet(Claims(i))
  BY <1>1, <1>2, FS_Subset
<1>4. QED
  BY <1>3, FS_CardinalityType

\* A step that keeps the outstanding claims rearms, or does nothing.
LEMMA KeepsClaims ==
    ASSUME UNCHANGED sent,
           \A f \in Firers : /\ Outstanding(f)' = Outstanding(f)
                             /\ Outstanding(f) => job'[f].id = job[f].id
    PROVE  Promise!PromiseNext
<1>1. \A i \in Ids : Claims(i)' = Claims(i)
  BY DEF Claims, Outstanding
<1>2. Taken' = Taken
  BY <1>1 DEF Taken
<1>3. Armed' \in SUBSET Ids
  BY DEF Armed
<1>4. Promise!Rearm
  BY <1>2, <1>3 DEF Promise!Rearm, Taken, Armed
<1>5. QED
  BY <1>4 DEF Promise!PromiseNext

\* A step by which firer f gets a claim on i.
LEMMA AddsClaim ==
    ASSUME TypeOK, NEW f \in Firers, NEW i \in Ids,
           ~Outstanding(f), Outstanding(f)', job'[f].id = i,
           \A g \in Firers \ {f} : job'[g] = job[g]
    PROVE  Taken' = [Taken EXCEPT ![i] = @ + 1]
<1>1. Claims(i)' = Claims(i) \cup {f} /\ f \notin Claims(i)
  BY DEF Claims, Outstanding
<1>2. \A j \in Ids \ {i} : Claims(j)' = Claims(j)
  BY DEF Claims, Outstanding
<1>3. Cardinality(Claims(i)') = Cardinality(Claims(i)) + 1
  BY <1>1, ClaimsFinite, FS_AddElement
<1>4. QED
  BY <1>2, <1>3 DEF Taken

\* A step by which firer f loses its claim.
LEMMA DropsClaim ==
    ASSUME TypeOK, NEW f \in Firers, Outstanding(f), ~Outstanding(f)',
           \A g \in Firers \ {f} : job'[g] = job[g]
    PROVE  /\ job[f].id \in Ids /\ Taken[job[f].id] > 0
           /\ Taken' = [Taken EXCEPT ![job[f].id] = @ - 1]
<1>1. PICK i \in Ids : i = job[f].id
  <2>1. job[f] # NoJob
    BY DEF Outstanding, NoJob
  <2>2. QED
    BY <2>1, JobFields
<1>2. Claims(i)' = Claims(i) \ {f} /\ f \in Claims(i)
  BY <1>1 DEF Claims, Outstanding
<1>3. \A j \in Ids \ {i} : Claims(j)' = Claims(j)
  BY <1>1 DEF Claims, Outstanding
<1>4. Cardinality(Claims(i)') = Cardinality(Claims(i)) - 1
  BY <1>1, <1>2, ClaimsFinite, FS_RemoveElement
<1>5. Cardinality(Claims(i)) > 0
  <2>1. Claims(i) # {}
    BY <1>2
  <2>2. QED
    BY <1>1, <2>1, ClaimsFinite, FS_EmptySet
<1>6. QED
  BY <1>1, <1>3, <1>4, <1>5 DEF Taken

\* Claiming takes an armed item, if the store can be written.
LEMMA ClaimDisarms ==
    ASSUME TypeOK, "diskFull" \notin Env, NEW i \in Ids, Claim(i)
    PROVE  i \in Armed /\ Armed' = Armed \ {i}
<1>1. store' = [store EXCEPT ![i].status = "firing"]
  BY DEF Claim, WriteMap
<1>2. store[i] \in ItemType
  BY StoredType DEF Claim, Pending, HasStatus
<1>3. ~Pending(i)'
  <2>1. store'[i].status = "firing"
    BY <1>1, <1>2 DEF TypeOK, StoreType, ItemType
  <2>2. QED
    BY <2>1 DEF Pending, HasStatus
<1>4. \A j \in Ids \ {i} : store'[j] = store[j]
  BY <1>1 DEF TypeOK, StoreType
<1>5. i \in Armed
  BY DEF Claim, Armed
<1>6. \A j \in Ids \ {i} : Pending(j)' = Pending(j)
  BY <1>4 DEF Pending, HasStatus
<1>7. QED
  BY <1>3, <1>5, <1>6 DEF Armed

LEMMA TakeStep ==
    ASSUME TypeOK, "diskFull" \notin Env, NEW f \in Firers, NEW i \in Ids, Claim(i),
           job[f] = NoJob, UNCHANGED sent,
           NEW item, NEW t, job' = [job EXCEPT ![f] = Claimed(i, "claimed", item, t)]
    PROVE  Promise!PromiseNext
<1>1. job'[f] = Claimed(i, "claimed", item, t) /\ \A g \in Firers \ {f} : job'[g] = job[g]
  BY DEF TypeOK
<1>2. ~Outstanding(f) /\ Outstanding(f)' /\ job'[f].id = i
  BY <1>1 DEF Outstanding, NoJob, Claimed
<1>3. Taken' = [Taken EXCEPT ![i] = @ + 1]
  BY <1>1, <1>2, AddsClaim
<1>4. i \in Armed /\ Armed' = Armed \ {i}
  BY ClaimDisarms
<1>5. Promise!Take(i)
  BY <1>3, <1>4 DEF Promise!Take, Taken, Armed
<1>6. QED
  BY <1>5 DEF Promise!PromiseNext

LEMMA GiveUpStep ==
    ASSUME TypeOK, NEW f \in Firers, Outstanding(f), UNCHANGED <<store, sent>>,
           NEW item, NEW t, job' = [job EXCEPT ![f] = Claimed(job[f].id, "done", item, t)]
    PROVE  Promise!PromiseNext
<1>1. /\ job'[f] = Claimed(job[f].id, "done", item, t)
      /\ \A g \in Firers \ {f} : job'[g] = job[g]
  BY DEF TypeOK
<1>2. ~Outstanding(f)'
  BY <1>1 DEF Outstanding, Claimed
<1>3. /\ job[f].id \in Ids /\ Taken[job[f].id] > 0
      /\ Taken' = [Taken EXCEPT ![job[f].id] = @ - 1]
  BY <1>1, <1>2, DropsClaim
<1>4. Armed' = Armed
  BY DEF Armed, Pending, HasStatus
<1>5. Promise!GiveUp(job[f].id)
  BY <1>3, <1>4 DEF Promise!GiveUp, Taken, Armed
<1>6. QED
  BY <1>3, <1>5 DEF Promise!PromiseNext

LEMMA PromiseStep ==
    ASSUME TypeOK, "diskFull" \notin Env, Next
    PROVE  Promise!PromiseNext
<1>a. ASSUME UNCHANGED <<job, sent>> PROVE Promise!PromiseNext
  BY <1>a, KeepsClaims DEF Outstanding
<1>1. ASSUME NEW i \in Ids, Create(i) \/ UpdateChecks(i) \/ Delete(i) \/ Rejected(i)
      PROVE  Promise!PromiseNext
  BY <1>1, <1>a DEF Create, UpdateChecks, Delete, Rejected
<1>2. CASE \/ UpdateWrites \/ TickStarts \/ TickEnds \/ Clock \/ Restart \/ Sweep
           \/ \E entry \in tick.todo : TickSkips(entry)
           \/ \E s \in Sessions : TurnEnds(s) \/ OtherSends(s)
  BY <1>2, <1>a DEF UpdateWrites, TickStarts, TickEnds, Clock, Restart, Sweep,
     TickSkips, TurnEnds, OtherSends
<1>3. ASSUME NEW entry \in tick.todo, TickClaims(entry) PROVE Promise!PromiseNext
  <2>1. entry.id \in Ids /\ "tick" \in Firers
    BY DEF TypeOK, TickType, Firers
  <2>2. CASE Lateness(entry) >= Grace
    <3> DEFINE item == Settled(Firing(store[entry.id]), "missed", tick.now)
    <3>1. job' = [job EXCEPT !["tick"] = Claimed(entry.id, "done", item, tick.now)]
      BY <1>3, <2>2 DEF TickClaims
    <3> HIDE DEF item
    <3>2. ~Outstanding("tick") /\ ~Outstanding("tick")'
      BY <1>3, <2>1, <3>1 DEF TickClaims, Outstanding, NoJob, Claimed, TypeOK
    <3>3. \A g \in Firers \ {"tick"} : job'[g] = job[g]
      BY <3>1 DEF TypeOK
    <3>4. QED
      BY <1>3, <3>2, <3>3, KeepsClaims DEF TickClaims, Outstanding
  <2>3. CASE ~(Lateness(entry) >= Grace)
    <3>1. job' = [job EXCEPT !["tick"] =
                    Claimed(entry.id, "claimed", Firing(store[entry.id]), tick.now)]
      BY <1>3, <2>3 DEF TickClaims
    <3>2. job["tick"] = NoJob /\ Claim(entry.id) /\ UNCHANGED sent
      BY <1>3 DEF TickClaims
    <3>3. QED
      BY <2>1, <3>1, <3>2, TakeStep
  <2>4. QED
    BY <2>2, <2>3
<1>4. ASSUME NEW f \in NowTasks, NEW i \in Ids, FireNow(f, i) PROVE Promise!PromiseNext
  <2>1. f \in Firers
    BY DEF Firers
  <2>2. /\ job[f] = NoJob /\ Claim(i) /\ UNCHANGED sent
        /\ job' = [job EXCEPT ![f] = Claimed(i, "claimed", Firing(store[i]), now)]
    BY <1>4 DEF FireNow
  <2>3. QED
    BY <2>1, <2>2, TakeStep
<1>5. ASSUME NEW f \in Firers, CheckTarget(f) PROVE Promise!PromiseNext
  <2>1. Outstanding(f) /\ UNCHANGED <<store, sent>>
    BY <1>5 DEF CheckTarget, Outstanding
  <2>2. \/ \E item : job' = [job EXCEPT ![f] = Claimed(job[f].id, "done", item, job[f].now)]
        \/ job' = [job EXCEPT ![f] = Claimed(job[f].id, "sending", job[f].item, job[f].now)]
    BY <1>5 DEF CheckTarget, TypeOK
  <2>3. CASE \E item : job' = [job EXCEPT ![f] = Claimed(job[f].id, "done", item, job[f].now)]
    BY <2>1, <2>3, GiveUpStep
  <2>4. CASE job' = [job EXCEPT ![f] = Claimed(job[f].id, "sending", job[f].item, job[f].now)]
    <3>1. /\ job'[f] = Claimed(job[f].id, "sending", job[f].item, job[f].now)
          /\ \A g \in Firers \ {f} : job'[g] = job[g]
      BY <2>4 DEF TypeOK
    <3>2. Outstanding(f)' /\ job'[f].id = job[f].id
      BY <3>1 DEF Outstanding, Claimed
    <3>3. QED
      BY <2>1, <3>1, <3>2, KeepsClaims DEF Outstanding
  <2>5. QED
    BY <2>2, <2>3, <2>4
<1>6. ASSUME NEW f \in Firers, SendSucceeds(f) PROVE Promise!PromiseNext
  <2> DEFINE i == job[f].id
             v == job[f].item.version
             s == Settled(job[f].item, "sent", job[f].now)
  <2>1. job' = [job EXCEPT ![f] = Claimed(i, "sent", s, job[f].now)]
    BY <1>6 DEF SendSucceeds, TypeOK
  <2> HIDE DEF s
  <2>2. /\ job'[f] = Claimed(i, "sent", s, job[f].now)
        /\ \A g \in Firers \ {f} : job'[g] = job[g]
    BY <2>1 DEF TypeOK
  <2>3. Outstanding(f) /\ ~Outstanding(f)'
    BY <1>6, <2>2 DEF SendSucceeds, Outstanding, Claimed
  <2>4. i \in Ids /\ Taken[i] > 0 /\ Taken' = [Taken EXCEPT ![i] = @ - 1]
    BY <2>2, <2>3, DropsClaim
  <2>5. v \in Versions
    <3>1. job[f] # NoJob
      BY <1>6 DEF SendSucceeds, NoJob
    <3>2. QED
      BY <3>1, JobFields DEF ItemType
  <2>6. sent' = [sent EXCEPT ![v] = @ + 1] /\ Armed' = Armed
    BY <1>6 DEF SendSucceeds, Armed, Pending, HasStatus
  <2>7. Promise!Deliver(i, v)
    BY <2>4, <2>6 DEF Promise!Deliver, Taken, Armed
  <2>8. QED
    BY <2>4, <2>5, <2>7 DEF Promise!PromiseNext
<1>7. ASSUME NEW f \in Firers, SendFails(f) PROVE Promise!PromiseNext
  <2>1. Outstanding(f) /\ UNCHANGED <<store, sent>>
    BY <1>7 DEF SendFails, Outstanding
  <2>2. job' = [job EXCEPT ![f] = Claimed(job[f].id, "done",
                   Settled(job[f].item, "failed", job[f].now), job[f].now)]
    BY <1>7 DEF SendFails, TypeOK
  <2>3. QED
    BY <2>1, <2>2, GiveUpStep
<1>8. ASSUME NEW f \in Firers, Finish(f) PROVE Promise!PromiseNext
  <2>1. ~Outstanding(f) /\ ~Outstanding(f)' /\ UNCHANGED sent
    BY <1>8 DEF Finish, Outstanding, NoJob, TypeOK
  <2>2. \A g \in Firers \ {f} : job'[g] = job[g]
    BY <1>8 DEF Finish, TypeOK
  <2>3. QED
    BY <2>1, <2>2, KeepsClaims DEF Outstanding
<1>9. CASE Crash
  <2>1. \A i \in Ids : Claims(i)' = {}
    BY <1>9 DEF Crash, Claims, NoJob
  <2>2. Taken' = [i \in Ids |-> 0]
    BY <2>1, FS_EmptySet DEF Taken
  <2>3. Armed' = Armed /\ UNCHANGED sent
    BY <1>9 DEF Crash, Armed, Pending, HasStatus
  <2>4. Promise!Forget
    BY <2>2, <2>3 DEF Promise!Forget, Taken, Armed
  <2>5. QED
    BY <2>4 DEF Promise!PromiseNext
<1>10. QED
  BY <1>1, <1>2, <1>3, <1>4, <1>5, <1>6, <1>7, <1>8, <1>9
     DEF Next, TickStep, FireStep

LEMMA PromiseInitially == Init => Promise!PromiseInit
<1> SUFFICES ASSUME Init PROVE Promise!PromiseInit
  OBVIOUS
<1>1. Armed = {}
  BY DEF Init, Armed, Pending, HasStatus
<1>2. \A i \in Ids : Claims(i) = {}
  BY DEF Init, Claims, NoJob
<1>3. Taken = [i \in Ids |-> 0]
  BY <1>2, FS_EmptySet DEF Taken
<1>4. QED
  BY <1>1, <1>3 DEF Init, Promise!PromiseInit, Taken, Armed

\* Every prompt that goes out was claimed and every claim used up an arming:
\* the scheduler implements SchedulePromise, as long as the store can be
\* written (scheduled_items.rs: claim_for_fire).
THEOREM PromiseKept ==
    ASSUME "diskFull" \notin Env
    PROVE  Spec => KeepsPromise
<1>1. TypeOK /\ [Next]_vars => [Promise!PromiseNext]_(Promise!promiseVars)
  <2>1. UNCHANGED vars => UNCHANGED Promise!promiseVars
    <3> SUFFICES ASSUME UNCHANGED vars PROVE UNCHANGED Promise!promiseVars
      OBVIOUS
    <3>1. Armed' = Armed /\ UNCHANGED sent
      BY DEF vars, Armed, Pending, HasStatus
    <3>2. \A i \in Ids : Claims(i)' = Claims(i)
      BY DEF vars, Claims
    <3>3. Taken' = Taken
      BY <3>2 DEF Taken
    <3>4. QED
      BY <3>1, <3>3 DEF Promise!promiseVars, Armed, Taken
  <2>2. QED
    BY <2>1, PromiseStep
<1>2. QED
  BY <1>1, PromiseInitially, ScheduleTypeCorrect, PTL DEF Spec, KeepsPromise, Promise!PromiseSpec

-----------------------------------------------------------------------------
(* What a firing item and a recurring one may look like.  Both invariants    *)
(* need to know of the records that are about to be written: what an update  *)
(* has picked and how a fire has come out.                                   *)

\* A recurring record is armed, being fired, or was cut short by a crash.
StaysArmed(item) ==
    item.recurring => item.status \in {"pending", "firing", "interrupted"}

\* What a firer writes back is not firing.
OutcomesSettled ==
    \A f \in Firers : job[f].pc \in {"sent", "done"} => job[f].item.status # "firing"

RecordsInv ==
    /\ RecurringStaysArmed
    /\ OutcomesSettled
    /\ \A f \in Firers : job[f] # NoJob => StaysArmed(job[f].item)
    /\ edit # NoEdit => edit.item.status = "pending"

LEMMA SettledRecord ==
    ASSUME NEW item \in ItemType, NEW status \in {"sent", "failed", "missed"}, NEW t
    PROVE  /\ StaysArmed(Settled(item, status, t))
           /\ Settled(item, status, t).status # "firing"
  BY DEF Settled, StaysArmed, ItemType

LEMMA RequeuedRecord ==
    ASSUME NEW item \in ItemType
    PROVE  StaysArmed(Requeued(item)) /\ Requeued(item).status # "firing"
  BY DEF Requeued, StaysArmed, ItemType

\* A write keeps the store's recurring records armed if all of its own are.
LEMMA WriteKeepsArmed ==
    ASSUME RecurringStaysArmed, NEW map, WriteMap(map),
           \A i \in Ids : map[i] # None => StaysArmed(map[i])
    PROVE  RecurringStaysArmed'
  BY DEF WriteMap, RecurringStaysArmed, StaysArmed

LEMMA OneWriteKeepsArmed ==
    ASSUME TypeOK, RecurringStaysArmed, NEW i \in Ids, NEW item, StaysArmed(item),
           WriteMap([store EXCEPT ![i] = item])
    PROVE  RecurringStaysArmed'
<1> DEFINE map == [store EXCEPT ![i] = item]
<1>1. \A j \in Ids : map[j] = IF j = i THEN item ELSE store[j]
  BY DEF TypeOK, StoreType
<1>2. WriteMap(map)
  OBVIOUS
<1> HIDE DEF map
<1>3. \A j \in Ids : map[j] # None => StaysArmed(map[j])
  BY <1>1 DEF RecurringStaysArmed, StaysArmed
<1>4. QED
  BY <1>2, <1>3, WriteKeepsArmed

LEMMA ClaimKeepsArmed ==
    ASSUME TypeOK, RecurringStaysArmed, NEW i \in Ids, Claim(i)
    PROVE  RecurringStaysArmed' /\ StaysArmed(Firing(store[i]))
<1>1. store[i] \in ItemType
  BY StoredType DEF Claim, Pending, HasStatus
<1>2. StaysArmed(Firing(store[i]))
  BY <1>1 DEF StaysArmed, Firing, ItemType
<1>3. [store EXCEPT ![i].status = "firing"] = [store EXCEPT ![i] = Firing(store[i])]
  BY DEF Firing, TypeOK, StoreType
<1>4. QED
  BY <1>2, <1>3, OneWriteKeepsArmed DEF Claim

LEMMA RecordsInit == Init => RecordsInv
  BY DEF Init, RecordsInv, RecurringStaysArmed, OutcomesSettled, NoJob

\* RecordsInv but for the store, when one firer's record changes.
LEMMA JobRecord ==
    ASSUME TypeOK, RecordsInv, NEW f \in Firers, NEW i, NEW pc, NEW item, NEW t,
           job' = [job EXCEPT ![f] = Claimed(i, pc, item, t)], edit' = edit,
           StaysArmed(item), pc \in {"sent", "done"} => item.status # "firing",
           RecurringStaysArmed'
    PROVE  RecordsInv'
<1>1. job'[f] = Claimed(i, pc, item, t) /\ \A g \in Firers \ {f} : job'[g] = job[g]
  BY DEF TypeOK
<1>2. OutcomesSettled'
  BY <1>1 DEF OutcomesSettled, RecordsInv, Claimed
<1>3. (\A g \in Firers : job[g] # NoJob => StaysArmed(job[g].item))'
  BY <1>1 DEF RecordsInv, Claimed, StaysArmed
<1>4. QED
  BY <1>2, <1>3 DEF RecordsInv

LEMMA RecordsStep == TypeOK /\ RecordsInv /\ [Next]_vars => RecordsInv'
<1> SUFFICES ASSUME TypeOK, RecordsInv, [Next]_vars PROVE RecordsInv'
  OBVIOUS
<1>0. RecurringStaysArmed
  BY DEF RecordsInv
<1>a. ASSUME RecurringStaysArmed', UNCHANGED <<job, edit>> PROVE RecordsInv'
  BY <1>a DEF RecordsInv, OutcomesSettled, StaysArmed
<1>b. ASSUME UNCHANGED <<store, job, edit>> PROVE RecordsInv'
  BY <1>0, <1>a, <1>b DEF RecurringStaysArmed
<1>1. ASSUME NEW i \in Ids, Create(i) PROVE RecordsInv'
  <2>1. PICK recurring \in MayRecur, time \in Times :
           WriteMap([store EXCEPT ![i] = Picked(recurring, time)])
    BY <1>1 DEF Create
  <2>2. StaysArmed(Picked(recurring, time))
    BY DEF StaysArmed, Picked
  <2>3. RecurringStaysArmed'
    BY <1>0, <2>1, <2>2, OneWriteKeepsArmed
  <2>4. QED
    BY <1>1, <1>a, <2>3 DEF Create
<1>2. ASSUME NEW i \in Ids, UpdateChecks(i) PROVE RecordsInv'
  <2>1. edit'.item.status = "pending"
    BY <1>2 DEF UpdateChecks, Picked
  <2>2. RecurringStaysArmed' /\ UNCHANGED job
    BY <1>0, <1>2 DEF UpdateChecks, RecurringStaysArmed
  <2>3. QED
    BY <2>1, <2>2 DEF RecordsInv, OutcomesSettled, StaysArmed
<1>3. CASE UpdateWrites
  <2>1. edit.id \in Ids /\ edit.item.status = "pending"
    BY <1>3 DEF UpdateWrites, TypeOK, EditType, RecordsInv
  <2>2. RecurringStaysArmed'
    <3>1. StaysArmed(edit.item)
      BY <2>1 DEF StaysArmed
    <3>2. QED
      BY <1>0, <1>3, <2>1, <3>1, OneWriteKeepsArmed DEF UpdateWrites
  <2>3. edit' = NoEdit /\ UNCHANGED job
    BY <1>3 DEF UpdateWrites
  <2>4. QED
    BY <2>2, <2>3 DEF RecordsInv, OutcomesSettled, StaysArmed
<1>4. ASSUME NEW i \in Ids, Delete(i) PROVE RecordsInv'
  <2> DEFINE map == [store EXCEPT ![i] = None]
  <2>1. \A j \in Ids : map[j] = IF j = i THEN None ELSE store[j]
    BY DEF TypeOK, StoreType
  <2>2. WriteMap(map)
    BY <1>4 DEF Delete
  <2> HIDE DEF map
  <2>3. \A j \in Ids : map[j] # None => StaysArmed(map[j])
    BY <1>0, <2>1 DEF RecurringStaysArmed, StaysArmed
  <2>4. RecurringStaysArmed'
    BY <1>0, <2>2, <2>3, WriteKeepsArmed
  <2>5. QED
    BY <1>4, <1>a, <2>4 DEF Delete
<1>5. ASSUME NEW i \in Ids, Rejected(i) PROVE RecordsInv'
  <2> DEFINE purged == [j \in Ids |->
                  IF SessionOf[j] = SessionOf[i] /\ Pending(j) THEN None ELSE store[j]]
  <2>1. PICK resets \in (now + 1)..MaxTime :
          WriteMap([purged EXCEPT ![i] = Picked(FALSE, NextStaggerSlot(purged, resets))])
    BY <1>5 DEF Rejected
  <2> DEFINE item == Picked(FALSE, NextStaggerSlot(purged, resets))
             map  == [purged EXCEPT ![i] = item]
  <2>2. StaysArmed(item)
    BY DEF StaysArmed, Picked
  <2>3. \A j \in Ids : purged[j] # None => purged[j] = store[j]
    OBVIOUS
  <2>4. DOMAIN purged = Ids /\ purged = [j \in Ids |-> purged[j]]
    OBVIOUS
  <2> HIDE DEF purged, item
  <2>5. \A j \in Ids : map[j] = IF j = i THEN item ELSE purged[j]
    BY <2>4
  <2>6. WriteMap(map)
    BY <2>1 DEF item
  <2> HIDE DEF map
  <2>7. \A j \in Ids : map[j] # None => StaysArmed(map[j])
    BY <1>0, <2>2, <2>3, <2>5 DEF RecurringStaysArmed, StaysArmed
  <2>8. RecurringStaysArmed'
    BY <1>0, <2>6, <2>7, WriteKeepsArmed
  <2>9. QED
    BY <1>5, <1>a, <2>8 DEF Rejected
<1>6. ASSUME NEW entry \in tick.todo, TickClaims(entry) PROVE RecordsInv'
  <2> DEFINE item   == Firing(store[entry.id])
             missed == Settled(item, "missed", tick.now)
  <2>1. entry.id \in Ids /\ "tick" \in Firers
    BY DEF TypeOK, TickType, Firers
  <2>2. /\ RecurringStaysArmed' /\ StaysArmed(item) /\ item \in ItemType
        /\ edit' = edit
    BY <1>0, <1>6, <2>1, ClaimKeepsArmed, ClaimType DEF TickClaims
  <2>3. \/ job' = [job EXCEPT !["tick"] = Claimed(entry.id, "done", missed, tick.now)]
        \/ job' = [job EXCEPT !["tick"] = Claimed(entry.id, "claimed", item, tick.now)]
    BY <1>6 DEF TickClaims
  <2> HIDE DEF item
  <2>4. StaysArmed(missed) /\ missed.status # "firing"
    BY <2>2, SettledRecord
  <2> HIDE DEF missed
  <2>5. CASE job' = [job EXCEPT !["tick"] = Claimed(entry.id, "done", missed, tick.now)]
    BY <2>1, <2>2, <2>4, <2>5, JobRecord
  <2>6. CASE job' = [job EXCEPT !["tick"] = Claimed(entry.id, "claimed", item, tick.now)]
    <3>1. "claimed" \notin {"sent", "done"}
      OBVIOUS
    <3>2. QED
      BY <2>1, <2>2, <2>6, <3>1, JobRecord
  <2>7. QED
    BY <2>3, <2>5, <2>6
<1>7. ASSUME NEW f \in NowTasks, NEW i \in Ids, FireNow(f, i) PROVE RecordsInv'
  <2>1. f \in Firers
    BY DEF Firers
  <2>2. RecurringStaysArmed' /\ StaysArmed(Firing(store[i]))
    BY <1>0, <1>7, ClaimKeepsArmed DEF FireNow
  <2>3. job' = [job EXCEPT ![f] = Claimed(i, "claimed", Firing(store[i]), now)] /\ edit' = edit
    BY <1>7 DEF FireNow
  <2>4. QED
    BY <2>1, <2>2, <2>3, JobRecord
<1>8. ASSUME NEW f \in Firers, CheckTarget(f) \/ SendSucceeds(f) \/ SendFails(f)
      PROVE  RecordsInv'
  <2> DEFINE item == job[f].item
  <2>1. job[f] # NoJob
    BY <1>8 DEF CheckTarget, SendSucceeds, SendFails, NoJob
  <2>2. item \in ItemType /\ StaysArmed(item)
    BY <2>1, JobFields DEF RecordsInv
  <2>3. RecurringStaysArmed' /\ edit' = edit
    BY <1>0, <1>8 DEF CheckTarget, SendSucceeds, SendFails, RecurringStaysArmed
  <2>4. PICK status \in {"sent", "failed", "missed"} :
          \/ job' = [job EXCEPT ![f] = Claimed(job[f].id, "done", Requeued(item), job[f].now)]
          \/ \E pc \in {"sent", "done"} :
                job' = [job EXCEPT ![f] = Claimed(job[f].id, pc,
                            Settled(item, status, job[f].now), job[f].now)]
          \/ job' = [job EXCEPT ![f] = Claimed(job[f].id, "sending", item, job[f].now)]
    BY <1>8 DEF CheckTarget, SendSucceeds, SendFails, TypeOK
  <2> DEFINE settled == Settled(item, status, job[f].now)
  <2>5. StaysArmed(settled) /\ settled.status # "firing"
    BY <2>2, SettledRecord
  <2>6. StaysArmed(Requeued(item)) /\ Requeued(item).status # "firing"
    BY <2>2, RequeuedRecord
  <2> HIDE DEF settled, item
  <2>7. CASE job' = [job EXCEPT ![f] = Claimed(job[f].id, "done", Requeued(item), job[f].now)]
    BY <2>3, <2>6, <2>7, JobRecord
  <2>8. ASSUME NEW pc \in {"sent", "done"},
               job' = [job EXCEPT ![f] = Claimed(job[f].id, pc, settled, job[f].now)]
        PROVE  RecordsInv'
    BY <2>3, <2>5, <2>8, JobRecord
  <2>9. CASE job' = [job EXCEPT ![f] = Claimed(job[f].id, "sending", item, job[f].now)]
    <3>1. "sending" \notin {"sent", "done"}
      OBVIOUS
    <3>2. QED
      BY <2>2, <2>3, <2>9, <3>1, JobRecord
  <2>10. QED
    BY <2>4, <2>7, <2>8, <2>9 DEF settled
<1>9. ASSUME NEW f \in Firers, Finish(f) PROVE RecordsInv'
  <2>1. job[f] # NoJob
    BY <1>9 DEF Finish, NoJob
  <2>2. job[f].id \in Ids /\ StaysArmed(job[f].item)
    BY <2>1, JobFields DEF RecordsInv
  <2>3. RecurringStaysArmed'
    <3>1. CASE UNCHANGED store
      BY <1>0, <3>1 DEF RecurringStaysArmed
    <3>2. CASE WriteMap([store EXCEPT ![job[f].id] = job[f].item])
      BY <1>0, <2>2, <3>2, OneWriteKeepsArmed
    <3>3. QED
      BY <1>9, <3>1, <3>2 DEF Finish, FinishFire
  <2>4. job' = [job EXCEPT ![f] = NoJob] /\ edit' = edit
    BY <1>9 DEF Finish
  <2>5. job'[f] = NoJob /\ \A g \in Firers \ {f} : job'[g] = job[g]
    BY <2>4 DEF TypeOK
  <2>6. OutcomesSettled' /\ (\A g \in Firers : job[g] # NoJob => StaysArmed(job[g].item))'
    BY <2>5 DEF OutcomesSettled, RecordsInv, NoJob, StaysArmed
  <2>7. QED
    BY <2>3, <2>4, <2>6 DEF RecordsInv
<1>10. CASE Crash
  <2>1. job' = [f \in Firers |-> NoJob] /\ edit' = NoEdit /\ RecurringStaysArmed'
    BY <1>0, <1>10 DEF Crash, RecurringStaysArmed
  <2>2. QED
    BY <2>1 DEF RecordsInv, OutcomesSettled, NoJob
<1>11. CASE Sweep
  <2> DEFINE swept == [i \in Ids |-> IF HasStatus(i, "firing")
                                     THEN [store[i] EXCEPT !.status = "interrupted"]
                                     ELSE store[i]]
  <2>1. ASSUME NEW i \in Ids, swept[i] # None PROVE StaysArmed(swept[i])
    <3>1. CASE HasStatus(i, "firing")
      <4>1. store[i] \in ItemType
        BY <3>1, StoredType DEF HasStatus
      <4>2. QED
        BY <3>1, <4>1 DEF StaysArmed, ItemType
    <3>2. CASE ~HasStatus(i, "firing")
      BY <1>0, <2>1, <3>2 DEF RecurringStaysArmed, StaysArmed
    <3>3. QED
      BY <3>1, <3>2
  <2>2. WriteMap(swept)
    BY <1>11 DEF Sweep
  <2> HIDE DEF swept
  <2>3. RecurringStaysArmed'
    BY <1>0, <2>1, <2>2, WriteKeepsArmed
  <2>4. QED
    BY <1>11, <1>a, <2>3 DEF Sweep
<1>12. CASE \/ TickStarts \/ TickEnds \/ Clock \/ Restart \/ UNCHANGED vars
            \/ \E entry \in tick.todo : TickSkips(entry)
            \/ \E s \in Sessions : TurnEnds(s) \/ OtherSends(s)
  BY <1>12, <1>b DEF TickStarts, TickEnds, Clock, Restart, vars, TickSkips, TurnEnds, OtherSends
<1>13. QED
  BY <1>1, <1>2, <1>3, <1>4, <1>5, <1>6, <1>7, <1>8, <1>9, <1>10, <1>11, <1>12
     DEF Next, TickStep, FireStep

\* Neither failures nor missed occurrences nor edits end a recurrence, for any
\* number of items, firers and crashes (schedule.rs: compute_fired,
\* compute_missed).
THEOREM RecurrencesGoOn == Spec => []RecurringStaysArmed
<1>1. RecordsInv => RecurringStaysArmed
  BY DEF RecordsInv
<1>2. QED
  BY <1>1, RecordsInit, RecordsStep, ScheduleTypeCorrect, PTL DEF Spec


-----------------------------------------------------------------------------
(* A firing item has its firer. *)

Owned(i) == \E f \in Firers : job[f] # NoJob /\ job[f].id = i

\* A step that makes no item fire and lets no firer go.
LEMMA KeepsOwners ==
    ASSUME FiringHasOwner, up # "up" => up' # "up",
           \A i \in Ids : HasStatus(i, "firing")' => HasStatus(i, "firing"),
           \A f \in Firers : job[f] # NoJob => job'[f] # NoJob /\ job'[f].id = job[f].id
    PROVE  FiringHasOwner'
<1> SUFFICES ASSUME NEW i \in Ids, HasStatus(i, "firing")', (up = "up")'
             PROVE  Owned(i)'
  BY DEF FiringHasOwner, Owned
<1>1. PICK f \in Firers : job[f] # NoJob /\ job[f].id = i
  BY DEF FiringHasOwner
<1>2. QED
  BY <1>1 DEF Owned

\* A write of one item that is not firing makes none fire.
LEMMA WriteOfOne ==
    ASSUME TypeOK, NEW i \in Ids, NEW item, item = None \/ item.status # "firing",
           WriteMap([store EXCEPT ![i] = item])
    PROVE  \A j \in Ids : HasStatus(j, "firing")' => HasStatus(j, "firing")
<1> DEFINE map == [store EXCEPT ![i] = item]
<1>1. \A j \in Ids : map[j] = IF j = i THEN item ELSE store[j]
  BY DEF TypeOK, StoreType
<1>2. store' = map \/ store' = store
  BY DEF WriteMap
<1> HIDE DEF map
<1>3. QED
  BY <1>1, <1>2 DEF HasStatus

\* Whoever claims an item becomes its firer.
LEMMA ClaimHasOwner ==
    ASSUME TypeOK, FiringHasOwner, NEW f \in Firers, NEW i \in Ids, Claim(i),
           job[f] = NoJob, UNCHANGED up,
           NEW pc, NEW item, NEW t, job' = [job EXCEPT ![f] = Claimed(i, pc, item, t)],
           pc \in {"claimed", "done"}
    PROVE  FiringHasOwner'
<1>1. job'[f] = Claimed(i, pc, item, t) /\ \A g \in Firers \ {f} : job'[g] = job[g]
  BY DEF TypeOK
<1>2. job'[f] # NoJob /\ job'[f].id = i
  BY <1>1 DEF Claimed, NoJob
<1> SUFFICES ASSUME NEW j \in Ids, HasStatus(j, "firing")', up = "up"
             PROVE  Owned(j)'
  BY DEF FiringHasOwner, Owned
<1>3. CASE j = i
  BY <1>2, <1>3 DEF Owned
<1>4. CASE j # i
  <2>1. store'[j] = store[j]
    BY <1>4 DEF Claim, WriteMap, TypeOK, StoreType
  <2>2. PICK g \in Firers : job[g] # NoJob /\ job[g].id = j
    BY <2>1 DEF FiringHasOwner, HasStatus
  <2>3. QED
    BY <1>1, <2>2 DEF Owned
<1>5. QED
  BY <1>3, <1>4

LEMMA FinishHasOwner ==
    ASSUME TypeOK, "diskFull" \notin Env, OutcomesSettled, FiringHasOwner,
           NEW f \in Firers, Finish(f)
    PROVE  FiringHasOwner'
<1>1. job[f] # NoJob
  BY DEF Finish, NoJob
<1>2. PICK i \in Ids : i = job[f].id /\ job[f].item.status # "firing"
  BY <1>1, JobFields DEF Finish, OutcomesSettled
<1> DEFINE map == [store EXCEPT ![i] = job[f].item]
<1>3. \A j \in Ids : map[j] = IF j = i THEN job[f].item ELSE store[j]
  BY DEF TypeOK, StoreType
<1>4. IF HasStatus(i, "firing") THEN store' = map ELSE store' = store
  BY <1>2 DEF Finish, FinishFire, WriteMap
<1>5. /\ ~HasStatus(i, "firing")'
      /\ \A j \in Ids \ {i} : store'[j] = store[j]
  <2> HIDE DEF map
  <2>1. QED
    BY <1>2, <1>3, <1>4 DEF HasStatus
<1>6. (\A g \in Firers \ {f} : job'[g] = job[g]) /\ UNCHANGED up
  BY DEF Finish, TypeOK
<1> SUFFICES ASSUME NEW j \in Ids, HasStatus(j, "firing")', up = "up"
             PROVE  Owned(j)'
  BY <1>6 DEF FiringHasOwner, Owned
<1>7. j # i /\ HasStatus(j, "firing")
  BY <1>5 DEF HasStatus
<1>8. PICK g \in Firers : job[g] # NoJob /\ job[g].id = j
  BY <1>7 DEF FiringHasOwner
<1>9. g # f
  BY <1>2, <1>7, <1>8
<1>10. QED
  BY <1>6, <1>8, <1>9 DEF Owned

LEMMA OwnerStep ==
    ASSUME TypeOK, "diskFull" \notin Env, RecordsInv, FiringHasOwner, [Next]_vars
    PROVE  FiringHasOwner'
<1>a. ASSUME UNCHANGED <<up, job>>,
             \A i \in Ids : HasStatus(i, "firing")' => HasStatus(i, "firing")
      PROVE  FiringHasOwner'
  BY <1>a, KeepsOwners
<1>b. ASSUME UNCHANGED <<store, up, job>> PROVE FiringHasOwner'
  BY <1>b, <1>a DEF HasStatus
<1>1. ASSUME NEW i \in Ids, Create(i) PROVE FiringHasOwner'
  <2>1. PICK recurring \in MayRecur, time \in Times :
           WriteMap([store EXCEPT ![i] = Picked(recurring, time)])
    BY <1>1 DEF Create
  <2>2. Picked(recurring, time).status # "firing"
    BY DEF Picked
  <2>3. UNCHANGED <<up, job>>
    BY <1>1 DEF Create
  <2>4. \A j \in Ids : HasStatus(j, "firing")' => HasStatus(j, "firing")
    BY <2>1, <2>2, WriteOfOne
  <2>5. QED
    BY <1>a, <2>3, <2>4
<1>2. CASE UpdateWrites
  <2>1. edit.id \in Ids /\ edit.item.status # "firing"
    BY <1>2 DEF UpdateWrites, TypeOK, EditType, RecordsInv
  <2>2. WriteMap([store EXCEPT ![edit.id] = edit.item]) /\ UNCHANGED <<up, job>>
    BY <1>2 DEF UpdateWrites
  <2>3. QED
    BY <1>a, <2>1, <2>2, WriteOfOne
<1>3. ASSUME NEW i \in Ids, Delete(i) PROVE FiringHasOwner'
  <2>1. WriteMap([store EXCEPT ![i] = None]) /\ UNCHANGED <<up, job>>
    BY <1>3 DEF Delete
  <2>2. \A j \in Ids : HasStatus(j, "firing")' => HasStatus(j, "firing")
    BY <2>1, WriteOfOne
  <2>3. QED
    BY <1>a, <2>1, <2>2
<1>4. ASSUME NEW i \in Ids, Rejected(i) PROVE FiringHasOwner'
  <2> DEFINE purged == [j \in Ids |->
                  IF SessionOf[j] = SessionOf[i] /\ Pending(j) THEN None ELSE store[j]]
  <2>1. PICK item : /\ item.status = "pending"
                    /\ WriteMap([purged EXCEPT ![i] = item])
    <3>1. PICK resets \in (now + 1)..MaxTime :
            WriteMap([purged EXCEPT ![i] = Picked(FALSE, NextStaggerSlot(purged, resets))])
      BY <1>4 DEF Rejected
    <3>2. QED
      BY <3>1 DEF Picked
  <2>2. \A j \in Ids : [purged EXCEPT ![i] = item][j] = IF j = i THEN item ELSE purged[j]
    OBVIOUS
  <2>3. store' = [purged EXCEPT ![i] = item]
    BY <2>1 DEF WriteMap
  <2>4. \A j \in Ids : purged[j] = store[j] \/ purged[j] = None
    OBVIOUS
  <2> HIDE DEF purged
  <2>5. \A j \in Ids : HasStatus(j, "firing")' => HasStatus(j, "firing")
    BY <2>1, <2>2, <2>3, <2>4 DEF HasStatus
  <2>6. QED
    BY <1>4, <1>a, <2>5 DEF Rejected
<1>5. ASSUME NEW entry \in tick.todo, TickClaims(entry) PROVE FiringHasOwner'
  <2> DEFINE item == Firing(store[entry.id])
  <2>1. entry.id \in Ids /\ "tick" \in Firers
    BY DEF TypeOK, TickType, Firers
  <2>2. \E pc \in {"claimed", "done"} : \E it :
          job' = [job EXCEPT !["tick"] = Claimed(entry.id, pc, it, tick.now)]
    BY <1>5 DEF TickClaims
  <2>3. Claim(entry.id) /\ job["tick"] = NoJob /\ UNCHANGED up
    BY <1>5 DEF TickClaims
  <2>4. QED
    BY <2>1, <2>2, <2>3, ClaimHasOwner
<1>6. ASSUME NEW f \in NowTasks, NEW i \in Ids, FireNow(f, i) PROVE FiringHasOwner'
  <2>1. f \in Firers
    BY DEF Firers
  <2>2. /\ Claim(i) /\ job[f] = NoJob /\ UNCHANGED up
        /\ job' = [job EXCEPT ![f] = Claimed(i, "claimed", Firing(store[i]), now)]
    BY <1>6 DEF FireNow
  <2>3. "claimed" \in {"claimed", "done"}
    OBVIOUS
  <2>4. QED
    BY <2>1, <2>2, <2>3, ClaimHasOwner
<1>7. ASSUME NEW f \in Firers, CheckTarget(f) \/ SendSucceeds(f) \/ SendFails(f)
      PROVE  FiringHasOwner'
  <2>1. /\ \E pc, item, t : job' = [job EXCEPT ![f] = Claimed(job[f].id, pc, item, t)]
        /\ UNCHANGED <<store, up>>
    BY <1>7 DEF CheckTarget, SendSucceeds, SendFails, TypeOK
  <2>2. \A g \in Firers : job[g] # NoJob => job'[g] # NoJob /\ job'[g].id = job[g].id
    BY <2>1 DEF Claimed, NoJob, TypeOK
  <2>3. QED
    BY <2>1, <2>2, KeepsOwners DEF HasStatus
<1>8. ASSUME NEW f \in Firers, Finish(f) PROVE FiringHasOwner'
  BY <1>8, FinishHasOwner DEF RecordsInv
<1>9. CASE Crash \/ Restart
  BY <1>9 DEF Crash, Restart, FiringHasOwner
<1>10. CASE Sweep
  <2>1. \A i \in Ids : store'[i] = IF HasStatus(i, "firing")
                                   THEN [store[i] EXCEPT !.status = "interrupted"]
                                   ELSE store[i]
    BY <1>10 DEF Sweep, WriteMap
  <2>2. \A i \in Ids : ~HasStatus(i, "firing")'
    <3> SUFFICES ASSUME NEW i \in Ids PROVE ~HasStatus(i, "firing")'
      OBVIOUS
    <3>1. CASE HasStatus(i, "firing")
      <4>1. store[i] \in ItemType
        BY <3>1, StoredType DEF HasStatus
      <4>2. store'[i].status = "interrupted"
        BY <2>1, <3>1, <4>1 DEF ItemType
      <4>3. QED
        BY <4>2 DEF HasStatus
    <3>2. CASE ~HasStatus(i, "firing")
      BY <2>1, <3>2 DEF HasStatus
    <3>3. QED
      BY <3>1, <3>2
  <2>3. QED
    BY <2>2 DEF FiringHasOwner
<1>11. CASE \/ TickStarts \/ TickEnds \/ Clock \/ UNCHANGED vars
            \/ \E i \in Ids : UpdateChecks(i)
            \/ \E entry \in tick.todo : TickSkips(entry)
            \/ \E s \in Sessions : TurnEnds(s) \/ OtherSends(s)
  BY <1>11, <1>b DEF TickStarts, TickEnds, Clock, vars, UpdateChecks, TickSkips,
     TurnEnds, OtherSends
<1>12. QED
  BY <1>1, <1>2, <1>3, <1>4, <1>5, <1>6, <1>7, <1>8, <1>9, <1>10, <1>11
     DEF Next, TickStep, FireStep

\* An item shows as firing only while somebody fires it, or between a crash and
\* the sweep (scheduled_items.rs: claim_for_fire, finish_fire,
\* sweep_firing_to_failed), as long as the store can be written.
THEOREM FiringOwned ==
    ASSUME "diskFull" \notin Env
    PROVE  Spec => []FiringHasOwner
<1>1. Init => FiringHasOwner
  BY DEF Init, FiringHasOwner, HasStatus
<1>2. TypeOK /\ RecordsInv /\ FiringHasOwner /\ [Next]_vars => FiringHasOwner'
  BY OwnerStep
<1>3. QED
  BY <1>1, <1>2, RecordsInit, RecordsStep, ScheduleTypeCorrect, PTL DEF Spec

-----------------------------------------------------------------------------
(* One prompt, one outcome.  What has to be known is where each version of  *)
(* an item is: at most once in the store, with at most one firer, and with  *)
(* a firer only while the store no longer offers it.                        *)

Held(f) == job[f] # NoJob

Stored(i) == store[i] # None

\* What a record that is not being fired says of its prompt is true.
Truthful(item) ==
    /\ item.status = "sent" => sent[item.version] > 0
    /\ item.status \in {"missed", "failed"} => sent[item.version] = 0
    /\ (item.status = "pending" /\ ~item.recurring) => sent[item.version] = 0

\* Versions are numbered as they are written, and nothing later has gone out.
Numbered ==
    /\ \A i \in Ids : Stored(i) => store[i].version <= version
    /\ \A f \in Firers : Held(f) => job[f].item.version <= version
    /\ edit # NoEdit => edit.item.version <= version
    /\ \A v \in Versions : v > version => sent[v] = 0

OneItemEach ==
    \A i, j \in Ids :
        (Stored(i) /\ Stored(j) /\ store[i].version = store[j].version) => i = j

OneFirerEach ==
    \A f, g \in Firers :
        (Held(f) /\ Held(g) /\ job[f].item.version = job[g].item.version) => f = g

ClaimedIsNotOffered ==
    \A f \in Firers, i \in Ids :
        (Held(f) /\ Stored(i) /\ store[i].version = job[f].item.version) =>
            i = job[f].id /\ store[i].status \in {"firing", "interrupted"}

EditIsNew ==
    edit # NoEdit =>
        /\ \A i \in Ids : Stored(i) => store[i].version # edit.item.version
        /\ \A f \in Firers : Held(f) => job[f].item.version # edit.item.version

AllTruthful ==
    /\ \A i \in Ids : Stored(i) => Truthful(store[i])
    /\ \A f \in Firers : job[f].pc \in {"sent", "done"} => Truthful(job[f].item)
    /\ \A f \in Firers : (Outstanding(f) /\ ~job[f].item.recurring) =>
           sent[job[f].item.version] = 0
    /\ edit # NoEdit => Truthful(edit.item)

VersionInv ==
    /\ Numbered /\ OneItemEach /\ OneFirerEach
    /\ ClaimedIsNotOffered /\ EditIsNew /\ AllTruthful

LEMMA VersionTypes ==
    ASSUME TypeOK
    PROVE  /\ version \in Nat
           /\ \A i \in Ids : Stored(i) => store[i].version \in Nat
           /\ \A f \in Firers : Held(f) => job[f].item.version \in Nat
           /\ edit # NoEdit => edit.item.version \in Nat
<1>1. Versions \subseteq Nat /\ version \in Nat
  BY ConstantsAssumption DEF ConstantsAssumption, Versions, TypeOK
<1>2. \A i \in Ids : Stored(i) => store[i].version \in Nat
  BY <1>1, StoredType DEF Stored, ItemType
<1>3. \A f \in Firers : Held(f) => job[f].item.version \in Nat
  BY <1>1, JobFields DEF Held, ItemType
<1>4. edit # NoEdit => edit.item.version \in Nat
  BY <1>1 DEF TypeOK, EditType, ItemType
<1>5. QED
  BY <1>1, <1>2, <1>3, <1>4

LEMMA VersionInit == Init => VersionInv
<1> SUFFICES ASSUME Init PROVE VersionInv
  OBVIOUS
<1>1. (\A i \in Ids : ~Stored(i)) /\ edit = NoEdit /\ \A v \in Versions : sent[v] = 0
  BY DEF Init, Stored
<1>2. \A f \in Firers : ~Held(f) /\ job[f].pc = "idle"
  BY DEF Init, Held, NoJob
<1>3. QED
  BY <1>1, <1>2 DEF VersionInv, Numbered, OneItemEach, OneFirerEach,
     ClaimedIsNotOffered, EditIsNew, AllTruthful, Outstanding

\* A step that drops records, or marks firing ones as interrupted.
LEMMA DropsRecords ==
    ASSUME TypeOK, VersionInv, UNCHANGED <<sent, version>>,
           \A i \in Ids : \/ store'[i] \in {store[i], None}
                          \/ /\ HasStatus(i, "firing")
                             /\ store'[i] = [store[i] EXCEPT !.status = "interrupted"],
           \A f \in Firers : job'[f] \in {job[f], NoJob},
           edit' \in {edit, NoEdit}
    PROVE  VersionInv'
<1>1. \A i \in Ids : Stored(i)' =>
         /\ Stored(i) /\ store'[i].version = store[i].version
         /\ store'[i].recurring = store[i].recurring
         /\ \/ store'[i].status = store[i].status
            \/ store'[i].status = "interrupted"
  BY StoredType DEF Stored, HasStatus, ItemType
<1>2. \A f \in Firers : /\ Held(f)' => Held(f) /\ job'[f] = job[f]
                        /\ job'[f].pc # "idle" => Held(f)'
  BY DEF Held, NoJob
<1>3. Numbered' /\ OneItemEach' /\ OneFirerEach' /\ ClaimedIsNotOffered' /\ EditIsNew'
  BY <1>1, <1>2 DEF VersionInv, Numbered, OneItemEach, OneFirerEach,
     ClaimedIsNotOffered, EditIsNew
<1>4. AllTruthful'
  <2>1. \A i \in Ids : Stored(i)' => Truthful(store[i])'
    BY <1>1 DEF VersionInv, AllTruthful, Truthful
  <2>2. \A f \in Firers : job'[f].pc \in {"sent", "done"} => Truthful(job[f].item)'
    BY <1>2 DEF VersionInv, AllTruthful, Truthful
  <2>3. \A f \in Firers : (Outstanding(f) /\ ~job[f].item.recurring)' =>
           sent'[job'[f].item.version] = 0
    BY <1>2 DEF VersionInv, AllTruthful, Outstanding
  <2>4. edit' # NoEdit => Truthful(edit.item)'
    BY DEF VersionInv, AllTruthful, Truthful
  <2>5. QED
    BY <2>1, <2>2, <2>3, <2>4 DEF AllTruthful
<1>5. QED
  BY <1>3, <1>4 DEF VersionInv

\* A new version has not gone out, and nobody has it.
LEMMA NextVersion ==
    ASSUME TypeOK, VersionInv, version < MaxVersions
    PROVE  /\ version + 1 \in Versions /\ sent[version + 1] = 0
           /\ \A i \in Ids : Stored(i) => store[i].version # version + 1
           /\ \A f \in Firers : Held(f) => job[f].item.version # version + 1
           /\ edit # NoEdit => edit.item.version # version + 1
           /\ Numbered /\ version' = version + 1 /\ UNCHANGED sent =>
                 \A v \in Versions : v > version' => sent'[v] = 0
<1>1. version + 1 \in Versions /\ version \in Nat
  BY ConstantsAssumption DEF ConstantsAssumption, TypeOK, Versions
<1>2. QED
  BY <1>1, VersionTypes DEF VersionInv, Numbered, Versions

\* A step that writes item i a new version, and may drop others.
LEMMA WritesNewVersion ==
    ASSUME TypeOK, VersionInv, NEW i \in Ids, NEW item,
           item.version = version + 1, item.status = "pending",
           version < MaxVersions, version' = version + 1, UNCHANGED <<job, edit, sent>>,
           store'[i] = item,
           \A j \in Ids \ {i} : store'[j] \in {store[j], None}
    PROVE  VersionInv'
<1>1. /\ version \in Nat
      /\ \A j \in Ids : Stored(j) => store[j].version \in Nat
      /\ \A f \in Firers : Held(f) => job[f].item.version \in Nat
      /\ edit # NoEdit => edit.item.version \in Nat
  BY VersionTypes
<1>2. /\ version + 1 \in Versions /\ sent[version + 1] = 0
      /\ \A j \in Ids : Stored(j) => store[j].version # version + 1
      /\ \A f \in Firers : Held(f) => job[f].item.version # version + 1
      /\ edit # NoEdit => edit.item.version # version + 1
  BY NextVersion
<1>3. \A j \in Ids : Stored(j)' => j = i \/ (Stored(j) /\ store'[j] = store[j])
  BY DEF Stored
<1>4. (\A v \in Versions : v > version => sent[v] = 0)'
  BY <1>1 DEF VersionInv, Numbered, Versions
<1>5. Numbered'
  BY <1>1, <1>3, <1>4 DEF VersionInv, Numbered, Held
<1>6. OneItemEach' /\ OneFirerEach' /\ ClaimedIsNotOffered' /\ EditIsNew'
  BY <1>2, <1>3 DEF VersionInv, OneItemEach, OneFirerEach, ClaimedIsNotOffered,
     EditIsNew, Held
<1>7. AllTruthful'
  <2>1. Truthful(item)'
    BY <1>2 DEF Truthful
  <2>2. \A j \in Ids : Stored(j)' => Truthful(store[j])'
    BY <1>3, <2>1 DEF VersionInv, AllTruthful, Truthful
  <2>3. QED
    BY <2>2 DEF VersionInv, AllTruthful, Truthful, Outstanding
<1>8. QED
  BY <1>5, <1>6, <1>7 DEF VersionInv

LEMMA RpcVersions ==
    ASSUME TypeOK, "diskFull" \notin Env, VersionInv, NEW i \in Ids,
           Create(i) \/ UpdateChecks(i) \/ Delete(i) \/ Rejected(i)
    PROVE  VersionInv'
<1>1. CASE Create(i)
  <2>1. PICK recurring \in MayRecur, time \in Times :
           store' = [store EXCEPT ![i] = Picked(recurring, time)]
    BY <1>1 DEF Create, WriteMap
  <2>2. /\ Picked(recurring, time).version = version + 1
        /\ Picked(recurring, time).status = "pending"
    BY DEF Picked
  <2>3. store'[i] = Picked(recurring, time) /\ \A j \in Ids \ {i} : store'[j] = store[j]
    BY <2>1 DEF TypeOK, StoreType
  <2>4. QED
    BY <1>1, <2>2, <2>3, WritesNewVersion DEF Create
<1>2. CASE UpdateChecks(i)
  <2>1. PICK time \in Times :
           edit' = [pc |-> "checked", id |-> i, item |-> Picked(store[i].recurring, time)]
    BY <1>2 DEF UpdateChecks
  <2>2. /\ edit'.item.version = version + 1 /\ edit'.item.status = "pending"
        /\ UNCHANGED <<store, job, sent>> /\ version' = version + 1 /\ version < MaxVersions
    BY <1>2, <2>1 DEF UpdateChecks, Picked
  <2>3. /\ version \in Nat
        /\ \A j \in Ids : Stored(j) => store[j].version \in Nat
        /\ \A f \in Firers : Held(f) => job[f].item.version \in Nat
    BY VersionTypes
  <2>4. /\ version + 1 \in Versions /\ sent[version + 1] = 0
        /\ \A j \in Ids : Stored(j) => store[j].version # version + 1
        /\ \A f \in Firers : Held(f) => job[f].item.version # version + 1
    BY <2>2, NextVersion
  <2>5. (\A v \in Versions : v > version => sent[v] = 0)'
    BY <2>2, <2>3 DEF VersionInv, Numbered, Versions
  <2>6. Numbered'
    BY <2>2, <2>3, <2>5 DEF VersionInv, Numbered, Held, Stored
  <2>7. OneItemEach' /\ OneFirerEach' /\ ClaimedIsNotOffered' /\ EditIsNew'
    BY <2>2, <2>4 DEF VersionInv, OneItemEach, OneFirerEach, ClaimedIsNotOffered,
       EditIsNew, Held, Stored
  <2>8. AllTruthful'
    BY <2>2, <2>4 DEF VersionInv, AllTruthful, Truthful, Outstanding, Stored
  <2>9. QED
    BY <2>6, <2>7, <2>8 DEF VersionInv
<1>3. CASE Delete(i)
  <2>1. store' = [store EXCEPT ![i] = None] /\ UNCHANGED <<job, edit, sent, version>>
    BY <1>3 DEF Delete, WriteMap
  <2>2. \A j \in Ids : store'[j] \in {store[j], None}
    BY <2>1 DEF TypeOK, StoreType
  <2>3. QED
    BY <2>1, <2>2, DropsRecords
<1>4. CASE Rejected(i)
  <2> DEFINE purged == [j \in Ids |->
                  IF SessionOf[j] = SessionOf[i] /\ Pending(j) THEN None ELSE store[j]]
  <2>1. PICK item : /\ item.status = "pending" /\ item.version = version + 1
                    /\ store' = [purged EXCEPT ![i] = item]
    <3>1. PICK resets \in (now + 1)..MaxTime :
            store' = [purged EXCEPT ![i] = Picked(FALSE, NextStaggerSlot(purged, resets))]
      BY <1>4 DEF Rejected, WriteMap
    <3>2. QED
      BY <3>1 DEF Picked
  <2>2. store'[i] = item /\ \A j \in Ids \ {i} : store'[j] \in {store[j], None}
    BY <2>1
  <2>3. QED
    BY <1>4, <2>1, <2>2, WritesNewVersion DEF Rejected
<1>5. QED
  BY <1>1, <1>2, <1>3, <1>4

LEMMA EditVersions ==
    ASSUME TypeOK, "diskFull" \notin Env, VersionInv, UpdateWrites
    PROVE  VersionInv'
<1>1. PICK i \in Ids : i = edit.id
  BY DEF UpdateWrites, TypeOK, EditType
<1>2. /\ store'[i] = edit.item /\ \A j \in Ids \ {i} : store'[j] = store[j]
      /\ edit # NoEdit /\ edit' = NoEdit /\ UNCHANGED <<job, sent, version>>
  BY <1>1 DEF UpdateWrites, WriteMap, TypeOK, StoreType
<1>3. /\ \A j \in Ids : Stored(j) => store[j].version # edit.item.version
      /\ \A f \in Firers : Held(f) => job[f].item.version # edit.item.version
      /\ Truthful(edit.item) /\ edit.item.version <= version
  BY <1>2 DEF VersionInv, EditIsNew, AllTruthful, Numbered
<1>4. \A j \in Ids : Stored(j)' => j = i \/ (Stored(j) /\ store'[j] = store[j])
  BY <1>2 DEF Stored
<1>5. Numbered' /\ OneItemEach' /\ OneFirerEach' /\ ClaimedIsNotOffered' /\ EditIsNew'
  BY <1>2, <1>3, <1>4 DEF VersionInv, Numbered, OneItemEach, OneFirerEach,
     ClaimedIsNotOffered, EditIsNew, Held
<1>6. AllTruthful'
  BY <1>2, <1>3, <1>4 DEF VersionInv, AllTruthful, Truthful, Outstanding
<1>7. QED
  BY <1>5, <1>6 DEF VersionInv

\* Whoever claims an item is the first to hold its version.
LEMMA ClaimVersions ==
    ASSUME TypeOK, "diskFull" \notin Env, VersionInv,
           NEW f \in Firers, NEW i \in Ids, Claim(i), job[f] = NoJob,
           UNCHANGED <<edit, sent, version>>,
           NEW pc \in {"claimed", "done"}, NEW item, NEW t,
           job' = [job EXCEPT ![f] = Claimed(i, pc, item, t)],
           item.version = store[i].version, item.recurring = store[i].recurring,
           pc = "done" => Truthful(item)
    PROVE  VersionInv'
<1>1. /\ Stored(i) /\ store[i].status = "pending" /\ store[i] \in ItemType
      /\ store' = [store EXCEPT ![i].status = "firing"]
  BY StoredType DEF Claim, Pending, HasStatus, Stored, WriteMap
<1>2. /\ store'[i].status = "firing" /\ store'[i].version = store[i].version
      /\ \A j \in Ids \ {i} : store'[j] = store[j]
  BY <1>1 DEF TypeOK, StoreType, ItemType
<1>3. /\ job'[f] = Claimed(i, pc, item, t) /\ \A g \in Firers \ {f} : job'[g] = job[g]
      /\ ~Held(f)
  BY DEF TypeOK, Held
<1>4. /\ job'[f].id = i /\ job'[f].item.version = store[i].version
      /\ job'[f].item.recurring = store[i].recurring
      /\ job'[f].item = item /\ job'[f].pc = pc
  BY <1>3 DEF Claimed
<1>5. \A j \in Ids : Stored(j)' =>
         /\ Stored(j) /\ store'[j].version = store[j].version
         /\ j = i \/ store'[j] = store[j]
  BY <1>1, <1>2 DEF Stored
<1>6. \A g \in Firers : Held(g) => job[g].item.version # store[i].version
  BY <1>1 DEF VersionInv, ClaimedIsNotOffered
<1>7. \A g \in Firers : Held(g)' => g = f \/ (Held(g) /\ job'[g] = job[g])
  BY <1>3 DEF Held
<1>8. Numbered' /\ OneItemEach' /\ OneFirerEach'
  BY <1>1, <1>4, <1>5, <1>6, <1>7 DEF VersionInv, Numbered, OneItemEach, OneFirerEach
<1>9. ClaimedIsNotOffered'
  BY <1>1, <1>2, <1>4, <1>5, <1>6, <1>7 DEF VersionInv, ClaimedIsNotOffered, OneItemEach
<1>10. EditIsNew'
  BY <1>1, <1>4, <1>5, <1>7 DEF VersionInv, EditIsNew
<1>11. AllTruthful'
  <2>1. \A j \in Ids : Stored(j)' => Truthful(store[j])'
    BY <1>2, <1>5 DEF VersionInv, AllTruthful, Truthful
  <2>2. \A g \in Firers : job'[g].pc \in {"sent", "done"} => Truthful(job[g].item)'
    BY <1>3, <1>4 DEF VersionInv, AllTruthful, Truthful
  <2>3. ~store[i].recurring => sent[store[i].version] = 0
    BY <1>1 DEF VersionInv, AllTruthful, Truthful
  <2>4. \A g \in Firers : (Outstanding(g) /\ ~job[g].item.recurring)' =>
           sent'[job'[g].item.version] = 0
    BY <1>3, <1>4, <2>3 DEF VersionInv, AllTruthful, Outstanding
  <2>5. QED
    BY <2>1, <2>2, <2>4 DEF VersionInv, AllTruthful, Truthful
<1>12. QED
  BY <1>8, <1>9, <1>10, <1>11 DEF VersionInv

\* A firer goes on with the record it holds; sending counts for its version.
LEMMA FiresRecord ==
    ASSUME TypeOK, VersionInv, NEW f \in Firers, Outstanding(f),
           UNCHANGED <<store, edit, version>>,
           NEW pc \in {"sending", "sent", "done"}, NEW item, NEW t,
           job' = [job EXCEPT ![f] = Claimed(job[f].id, pc, item, t)],
           item.version = job[f].item.version, item.recurring = job[f].item.recurring,
           pc = "sending" => UNCHANGED sent,
           pc # "sending" => (Truthful(item))',
           \A v \in Versions : v # item.version => sent'[v] = sent[v]
    PROVE  VersionInv'
<1>1. /\ job'[f] = Claimed(job[f].id, pc, item, t)
      /\ \A g \in Firers \ {f} : job'[g] = job[g]
      /\ Held(f)
  BY DEF TypeOK, Held, Outstanding, NoJob
<1>2. /\ job'[f].id = job[f].id /\ job'[f].item = item /\ job'[f].pc = pc
      /\ Held(f)'
  BY <1>1 DEF Claimed, Held, NoJob
<1>3. \A g \in Firers : Held(g)' =>
         /\ Held(g) /\ job'[g].id = job[g].id
         /\ job'[g].item.version = job[g].item.version
         /\ job'[g].item.recurring = job[g].item.recurring
         /\ g = f \/ job'[g] = job[g]
  BY <1>1, <1>2 DEF Held
<1>4. /\ \A i \in Ids : Stored(i) => store[i].version \in Versions
      /\ \A g \in Firers : Held(g) => job[g].item.version \in Versions
      /\ edit # NoEdit => edit.item.version \in Versions
  BY StoredType, JobFields DEF Stored, Held, ItemType, TypeOK, EditType
<1>5. version \in Nat /\ Versions \subseteq Nat
  BY VersionTypes DEF Versions
<1>6. Numbered'
  <2>1. \A v \in Versions : v > version => v # item.version
    <3>1. item.version \in Nat /\ item.version <= version
      BY <1>1, <1>4, <1>5 DEF VersionInv, Numbered
    <3>2. QED
      BY <1>5, <3>1
  <2>2. \A v \in Versions : v > version' => sent'[v] = 0
    BY <2>1 DEF VersionInv, Numbered
  <2>3. QED
    BY <1>3, <2>2 DEF VersionInv, Numbered, Stored
<1>7. OneItemEach' /\ OneFirerEach' /\ ClaimedIsNotOffered' /\ EditIsNew'
  BY <1>3 DEF VersionInv, OneItemEach, OneFirerEach, ClaimedIsNotOffered, EditIsNew, Stored
<1>8. AllTruthful'
  <2>1. ASSUME NEW i \in Ids, Stored(i) PROVE Truthful(store[i])'
    <3>1. CASE store[i].version = item.version
      <4>1. store[i].status \in {"firing", "interrupted"}
        BY <1>1, <2>1, <3>1 DEF VersionInv, ClaimedIsNotOffered
      <4>2. QED
        BY <4>1 DEF Truthful
    <3>2. CASE store[i].version # item.version
      BY <1>4, <2>1, <3>2 DEF VersionInv, AllTruthful, Truthful
    <3>3. QED
      BY <3>1, <3>2
  <2>2. ASSUME NEW g \in Firers \ {f}, Held(g)
        PROVE  sent'[job[g].item.version] = sent[job[g].item.version]
    BY <1>1, <1>4, <2>2 DEF VersionInv, OneFirerEach
  <2>3. ASSUME NEW g \in Firers, job'[g].pc \in {"sent", "done"} PROVE Truthful(job[g].item)'
    <3>1. CASE g = f
      BY <1>2, <2>3, <3>1 DEF Truthful
    <3>2. CASE g # f
      <4>1. Held(g) /\ job'[g] = job[g] /\ Truthful(job[g].item)
        BY <1>1, <2>3, <3>2 DEF VersionInv, AllTruthful, Held, NoJob
      <4>2. QED
        BY <2>2, <3>2, <4>1 DEF Truthful
    <3>3. QED
      BY <3>1, <3>2
  <2>4. ASSUME NEW g \in Firers, (Outstanding(g) /\ ~job[g].item.recurring)'
        PROVE  sent'[job'[g].item.version] = 0
    <3>1. CASE g = f
      BY <1>2, <2>4, <3>1 DEF VersionInv, AllTruthful, Outstanding
    <3>2. CASE g # f
      <4>1. Held(g) /\ job'[g] = job[g] /\ sent[job[g].item.version] = 0
        BY <1>1, <2>4, <3>2 DEF VersionInv, AllTruthful, Outstanding, Held, NoJob
      <4>2. QED
        BY <2>2, <3>2, <4>1
    <3>3. QED
      BY <3>1, <3>2
  <2>5. edit' # NoEdit => Truthful(edit.item)'
    <3>1. edit # NoEdit => sent'[edit.item.version] = sent[edit.item.version]
      BY <1>1, <1>4 DEF VersionInv, EditIsNew
    <3>2. QED
      BY <3>1 DEF VersionInv, AllTruthful, Truthful
  <2>6. QED
    BY <2>1, <2>3, <2>4, <2>5 DEF AllTruthful, Stored
<1>9. QED
  BY <1>6, <1>7, <1>8 DEF VersionInv

LEMMA SettledFields ==
    ASSUME NEW item \in ItemType, NEW status \in Statuses, NEW t
    PROVE  /\ Settled(item, status, t).version = item.version
           /\ Settled(item, status, t).recurring = item.recurring
           /\ item.recurring => Settled(item, status, t).status = "pending"
           /\ ~item.recurring => Settled(item, status, t).status = status
  BY DEF Settled, ItemType

LEMMA CheckVersions ==
    ASSUME TypeOK, VersionInv, NEW f \in Firers, CheckTarget(f) \/ SendFails(f)
    PROVE  VersionInv'
<1> DEFINE item == job[f].item
<1>1. Outstanding(f) /\ UNCHANGED <<store, edit, version, sent>>
  BY DEF CheckTarget, SendFails, Outstanding
<1>2. item \in ItemType
  BY <1>1, JobFields DEF Outstanding, NoJob
<1>3. ~item.recurring => sent[item.version] = 0
  BY <1>1 DEF VersionInv, AllTruthful
<1> DEFINE failed == Settled(item, "failed", job[f].now)
<1>4. \/ job' = [job EXCEPT ![f] = Claimed(job[f].id, "done", Requeued(item), job[f].now)]
      \/ job' = [job EXCEPT ![f] = Claimed(job[f].id, "done", failed, job[f].now)]
      \/ job' = [job EXCEPT ![f] = Claimed(job[f].id, "sending", item, job[f].now)]
  BY DEF CheckTarget, SendFails, TypeOK
<1>5. /\ failed.version = item.version /\ failed.recurring = item.recurring
      /\ Truthful(failed)
  <2>1. "failed" \in Statuses
    BY DEF Statuses
  <2>2. QED
    BY <1>2, <1>3, <2>1, SettledFields DEF Truthful, ItemType
<1>6. /\ Requeued(item).version = item.version
      /\ Requeued(item).recurring = item.recurring /\ Truthful(Requeued(item))
  BY <1>2, <1>3 DEF Requeued, ItemType, Truthful
<1>7. \A v \in Versions : sent'[v] = sent[v]
  BY <1>1
<1> HIDE DEF failed
<1>8. CASE job' = [job EXCEPT ![f] = Claimed(job[f].id, "done", Requeued(item), job[f].now)]
  <2>1. PICK it : it = Requeued(item)
    OBVIOUS
  <2>2. /\ it.version = item.version /\ it.recurring = item.recurring /\ (Truthful(it))'
        /\ job' = [job EXCEPT ![f] = Claimed(job[f].id, "done", it, job[f].now)]
    BY <1>1, <1>6, <1>8, <2>1 DEF Truthful
  <2>3. QED
    BY <1>1, <1>7, <2>2, FiresRecord
<1>9. CASE job' = [job EXCEPT ![f] = Claimed(job[f].id, "done", failed, job[f].now)]
  <2>1. PICK it : it = failed
    OBVIOUS
  <2>2. /\ it.version = item.version /\ it.recurring = item.recurring /\ (Truthful(it))'
        /\ job' = [job EXCEPT ![f] = Claimed(job[f].id, "done", it, job[f].now)]
    BY <1>1, <1>5, <1>9, <2>1 DEF Truthful
  <2>3. QED
    BY <1>1, <1>7, <2>2, FiresRecord
<1>10. CASE job' = [job EXCEPT ![f] = Claimed(job[f].id, "sending", item, job[f].now)]
  BY <1>1, <1>7, <1>10, FiresRecord
<1>11. QED
  BY <1>4, <1>8, <1>9, <1>10

LEMMA SendVersions ==
    ASSUME TypeOK, VersionInv, NEW f \in Firers, SendSucceeds(f)
    PROVE  VersionInv'
<1>1. /\ Outstanding(f) /\ UNCHANGED <<store, edit, version>>
      /\ job[f].item \in ItemType
  BY JobFields DEF SendSucceeds, Outstanding, NoJob
<1>2. PICK item : item = Settled(job[f].item, "sent", job[f].now)
  OBVIOUS
<1>3. job' = [job EXCEPT ![f] = Claimed(job[f].id, "sent", item, job[f].now)]
  BY <1>2 DEF SendSucceeds, TypeOK
<1>4. /\ item.version = job[f].item.version /\ item.recurring = job[f].item.recurring
      /\ item.recurring \in BOOLEAN
      /\ item.recurring => item.status = "pending"
      /\ ~item.recurring => item.status = "sent"
  <2>1. "sent" \in Statuses
    BY DEF Statuses
  <2>2. QED
    BY <1>1, <1>2, <2>1, SettledFields DEF ItemType
<1>5. /\ sent' = [sent EXCEPT ![item.version] = @ + 1]
      /\ item.version \in Versions /\ sent[item.version] \in Nat
  BY <1>1, <1>4 DEF SendSucceeds, ItemType, TypeOK
<1>6. /\ sent'[item.version] > 0
      /\ \A v \in Versions : v # item.version => sent'[v] = sent[v]
  BY <1>5 DEF TypeOK
<1>7. (Truthful(item))'
  BY <1>4, <1>6 DEF Truthful
<1>8. QED
  BY <1>1, <1>3, <1>4, <1>6, <1>7, FiresRecord

LEMMA FinishVersions ==
    ASSUME TypeOK, "diskFull" \notin Env, VersionInv, OutcomesSettled,
           NEW f \in Firers, Finish(f)
    PROVE  VersionInv'
<1>1. Held(f) /\ job[f].pc \in {"sent", "done"} /\ UNCHANGED <<edit, sent, version>>
  BY DEF Finish, Held, NoJob
<1>2. PICK i \in Ids : i = job[f].id
  BY <1>1, JobFields DEF Held
<1>3. \A g \in Firers : job'[g] \in {job[g], NoJob}
  BY DEF Finish, TypeOK
<1>4. CASE ~HasStatus(i, "firing")
  <2>1. UNCHANGED store
    BY <1>2, <1>4 DEF Finish, FinishFire
  <2>2. QED
    BY <1>1, <1>3, <2>1, DropsRecords
<1>5. CASE HasStatus(i, "firing")
  <2>1. /\ store'[i] = job[f].item /\ \A j \in Ids \ {i} : store'[j] = store[j]
        /\ ~Held(f)' /\ \A g \in Firers : Held(g)' => Held(g) /\ job'[g] = job[g] /\ g # f
    BY <1>2, <1>3, <1>5 DEF Finish, FinishFire, WriteMap, TypeOK, StoreType, Held
  <2>2. \A j \in Ids : Stored(j)' => j = i \/ (Stored(j) /\ store'[j] = store[j])
    BY <2>1 DEF Stored
  <2>3. /\ \A j \in Ids \ {i} : Stored(j) => store[j].version # job[f].item.version
        /\ \A g \in Firers \ {f} : Held(g) => job[g].item.version # job[f].item.version
        /\ edit # NoEdit => edit.item.version # job[f].item.version
        /\ Truthful(job[f].item) /\ job[f].item.version <= version
    BY <1>1, <1>2 DEF VersionInv, ClaimedIsNotOffered, OneFirerEach, EditIsNew,
       AllTruthful, Numbered
  <2>4. Numbered' /\ OneItemEach' /\ OneFirerEach' /\ ClaimedIsNotOffered' /\ EditIsNew'
    BY <1>1, <2>1, <2>2, <2>3 DEF VersionInv, Numbered, OneItemEach, OneFirerEach,
       ClaimedIsNotOffered, EditIsNew
  <2>5. AllTruthful'
    <3>1. \A j \in Ids : Stored(j)' => Truthful(store[j])'
      BY <1>1, <2>1, <2>2, <2>3 DEF VersionInv, AllTruthful, Truthful
    <3>2. \A g \in Firers : job'[g].pc # "idle" => Held(g)'
      BY <1>3 DEF Held, NoJob
    <3>3. QED
      BY <1>1, <2>1, <3>1, <3>2 DEF VersionInv, AllTruthful, Truthful, Outstanding
  <2>6. QED
    BY <2>4, <2>5 DEF VersionInv
<1>6. QED
  BY <1>4, <1>5

LEMMA VersionStep ==
    ASSUME TypeOK, "diskFull" \notin Env, RecordsInv, VersionInv, [Next]_vars
    PROVE  VersionInv'
<1>a. ASSUME UNCHANGED <<store, job, edit, sent, version>> PROVE VersionInv'
  BY <1>a, DropsRecords
<1>1. ASSUME NEW entry \in tick.todo, TickClaims(entry) PROVE VersionInv'
  <2>1. PICK i \in Ids : i = entry.id /\ "tick" \in Firers
    BY DEF TypeOK, TickType, Firers
  <2>2. /\ Claim(i) /\ job["tick"] = NoJob /\ UNCHANGED <<edit, sent, version>>
        /\ store[i] \in ItemType /\ Pending(i)
    BY <1>1, <2>1, StoredType DEF TickClaims, Claim, Pending, HasStatus
  <2>3. PICK item : item = Firing(store[i])
    OBVIOUS
  <2>4. /\ item \in ItemType /\ item.version = store[i].version
        /\ item.recurring = store[i].recurring
    BY <2>2, <2>3 DEF Firing, ItemType, Statuses
  <2>5. PICK missed : missed = Settled(item, "missed", tick.now)
    OBVIOUS
  <2>6. /\ missed.version = store[i].version /\ missed.recurring = store[i].recurring
        /\ Truthful(missed)
    <3>1. "missed" \in Statuses
      BY DEF Statuses
    <3>2. ~store[i].recurring => sent[store[i].version] = 0
      BY <2>2 DEF VersionInv, AllTruthful, Truthful, Pending, HasStatus, Stored
    <3>3. QED
      BY <2>4, <2>5, <3>1, <3>2, SettledFields DEF Truthful, ItemType
  <2>7. \/ job' = [job EXCEPT !["tick"] = Claimed(i, "done", missed, tick.now)]
        \/ job' = [job EXCEPT !["tick"] = Claimed(i, "claimed", item, tick.now)]
    BY <1>1, <2>1, <2>3, <2>5 DEF TickClaims
  <2>8. CASE job' = [job EXCEPT !["tick"] = Claimed(i, "done", missed, tick.now)]
    BY <2>1, <2>2, <2>6, <2>8, ClaimVersions
  <2>9. CASE job' = [job EXCEPT !["tick"] = Claimed(i, "claimed", item, tick.now)]
    BY <2>1, <2>2, <2>4, <2>9, ClaimVersions
  <2>10. QED
    BY <2>7, <2>8, <2>9
<1>2. ASSUME NEW f \in NowTasks, NEW i \in Ids, FireNow(f, i) PROVE VersionInv'
  <2>1. f \in Firers
    BY DEF Firers
  <2>2. /\ Claim(i) /\ job[f] = NoJob /\ UNCHANGED <<edit, sent, version>>
        /\ store[i] \in ItemType
        /\ job' = [job EXCEPT ![f] = Claimed(i, "claimed", Firing(store[i]), now)]
    BY <1>2, StoredType DEF FireNow, Claim, Pending, HasStatus
  <2>3. /\ Firing(store[i]).version = store[i].version
        /\ Firing(store[i]).recurring = store[i].recurring
    BY <2>2 DEF Firing, ItemType
  <2>4. QED
    BY <2>1, <2>2, <2>3, ClaimVersions
<1>3. ASSUME NEW f \in Firers, FireStep(f) PROVE VersionInv'
  BY <1>3, CheckVersions, SendVersions, FinishVersions DEF FireStep, RecordsInv
<1>4. CASE Crash
  BY <1>4, DropsRecords DEF Crash
<1>5. CASE Sweep
  <2>1. \A i \in Ids : store'[i] = IF HasStatus(i, "firing")
                                   THEN [store[i] EXCEPT !.status = "interrupted"]
                                   ELSE store[i]
    BY <1>5 DEF Sweep, WriteMap
  <2>2. QED
    BY <1>5, <2>1, DropsRecords DEF Sweep
<1>6. CASE \/ TickStarts \/ TickEnds \/ Clock \/ Restart \/ UNCHANGED vars
           \/ \E entry \in tick.todo : TickSkips(entry)
           \/ \E s \in Sessions : TurnEnds(s) \/ OtherSends(s)
  BY <1>6, <1>a DEF TickStarts, TickEnds, Clock, Restart, vars, TickSkips, TurnEnds, OtherSends
<1>7. QED
  BY <1>1, <1>2, <1>3, <1>4, <1>5, <1>6, RpcVersions, EditVersions
     DEF Next, TickStep

\* What an item shows is what happened to its prompt, through edits, hand-made
\* fires, rate limits and crashes (schedule.rs: compute_fired, compute_missed;
\* scheduled_items.rs: finish_fire), as long as the store can be written.
THEOREM OutcomesAreTrue ==
    ASSUME "diskFull" \notin Env
    PROVE  Spec => []OutcomeIsTrue
<1>1. VersionInv => OutcomeIsTrue
  BY DEF VersionInv, AllTruthful, OutcomeIsTrue, Truthful, HasStatus, Stored
<1>2. TypeOK /\ RecordsInv /\ VersionInv /\ [Next]_vars => VersionInv'
  BY VersionStep
<1>3. QED
  BY <1>1, <1>2, VersionInit, RecordsInit, RecordsStep, ScheduleTypeCorrect, PTL DEF Spec

\* The prompt of a one-shot goes out at most once for each time it was written:
\* the claim is written before the send (scheduled_items.rs: claim_for_fire), so
\* neither a crash, a requeue nor a second firer sends it again, as long as the
\* store can be written.
THEOREM OneShotsGoOnce ==
    ASSUME "diskFull" \notin Env
    PROVE  Spec => OneShotOnce
<1>1. TypeOK /\ VersionInv =>
        \A f \in Firers : (SendSucceeds(f) /\ ~job[f].item.recurring) =>
            sent[job[f].item.version] = 0
  BY DEF VersionInv, AllTruthful, Outstanding, SendSucceeds
<1>2. TypeOK /\ RecordsInv /\ VersionInv /\ [Next]_vars => VersionInv'
  BY VersionStep
<1>3. QED
  BY <1>1, <1>2, VersionInit, RecordsInit, RecordsStep, ScheduleTypeCorrect, PTL
     DEF Spec, OneShotOnce

-----------------------------------------------------------------------------
(* The user's word is the last.  An outcome is written to a firing record;   *)
(* the record must be the one its firer claimed.  Two things together break  *)
(* that: an edit of the item while it is fired, and a second firer that      *)
(* claims the edited one.  Without either it holds.                          *)

OnlyTheTick == \A f \in Firers : f # "tick" => job[f] = NoJob

\* With one firer, a firing record is what it has claimed.
FiringIsMine ==
    \A f \in Firers :
        (Held(f) /\ HasStatus(job[f].id, "firing")) =>
            store[job[f].id].version = job[f].item.version

\* Without edits, an item has one version.
OneVersionEach ==
    /\ edit = NoEdit
    /\ \A i \in Ids : Stored(i) => i \in used
    /\ \A f \in Firers : Held(f) =>
         /\ job[f].id \in used
         /\ Stored(job[f].id) => store[job[f].id].version = job[f].item.version

WordInv ==
    /\ "fireNow" \notin Env => FiringIsMine /\ OnlyTheTick
    /\ "update" \notin Env => OneVersionEach

\* Firing records survive a write that makes none.
LEMMA FiringKept ==
    ASSUME NEW map, WriteMap(map),
           \A i \in Ids : map[i] \in {store[i], None} \/ map[i].status # "firing"
    PROVE  \A i \in Ids : HasStatus(i, "firing")' =>
               HasStatus(i, "firing") /\ store'[i] = store[i]
  BY DEF WriteMap, HasStatus

\* Firers go on with what they hold, or let it go.
LEMMA FiringKeptMine ==
    ASSUME TypeOK, FiringIsMine, OnlyTheTick,
           \A i \in Ids : HasStatus(i, "firing")' =>
               HasStatus(i, "firing") /\ store'[i].version = store[i].version,
           \A f \in Firers : \/ job'[f] = NoJob
                             \/ /\ Held(f) /\ job'[f].id = job[f].id
                                /\ job'[f].item.version = job[f].item.version
    PROVE  FiringIsMine' /\ OnlyTheTick'
<1>1. \A f \in Firers : Held(f) => job[f].id \in Ids
  BY JobFields DEF Held
<1>2. QED
  BY <1>1 DEF FiringIsMine, OnlyTheTick, Held

\* The tick takes the first claim.
LEMMA ClaimIsMine ==
    ASSUME TypeOK, OnlyTheTick, NEW i \in Ids, Claim(i), job["tick"] = NoJob,
           NEW pc, NEW item, NEW t,
           job' = [job EXCEPT !["tick"] = Claimed(i, pc, item, t)],
           item.version = store[i].version
    PROVE  FiringIsMine' /\ OnlyTheTick'
<1>1. /\ job'["tick"] = Claimed(i, pc, item, t) /\ "tick" \in Firers
      /\ \A f \in Firers : f # "tick" => job'[f] = NoJob
  BY DEF TypeOK, Firers, OnlyTheTick
<1>2. job'["tick"].id = i /\ job'["tick"].item = item
  BY <1>1 DEF Claimed
<1>3. store[i] \in ItemType
  BY StoredType DEF Claim, Pending, HasStatus
<1>4. store'[i].version = store[i].version
  BY <1>3 DEF Claim, WriteMap, TypeOK, StoreType, ItemType
<1>5. QED
  BY <1>1, <1>2, <1>4 DEF FiringIsMine, OnlyTheTick, Held

\* A fire changes neither the item nor the version it is about.
LEMMA FireKeepsVersion ==
    ASSUME TypeOK, NEW f \in Firers, CheckTarget(f) \/ SendSucceeds(f) \/ SendFails(f)
    PROVE  \E pc, item : /\ item.version = job[f].item.version
                         /\ job' = [job EXCEPT ![f] = Claimed(job[f].id, pc, item, job[f].now)]
<1> DEFINE item == job[f].item
<1>1. item \in ItemType
  BY JobFields DEF CheckTarget, SendSucceeds, SendFails, NoJob
<1>2. /\ Requeued(item).version = item.version
      /\ \A status \in Statuses : Settled(item, status, job[f].now).version = item.version
  BY <1>1, SettledFields DEF Requeued, ItemType
<1>3. \E it, pc : /\ \/ it = item \/ it = Requeued(item)
                     \/ \E status \in {"sent", "failed"} : it = Settled(item, status, job[f].now)
                  /\ job' = [job EXCEPT ![f] = Claimed(job[f].id, pc, it, job[f].now)]
  BY DEF CheckTarget, SendSucceeds, SendFails, TypeOK
<1> HIDE DEF item
<1>4. {"sent", "failed"} \subseteq Statuses
  BY DEF Statuses
<1>5. QED
  BY <1>2, <1>3, <1>4 DEF item

LEMMA MineStep ==
    ASSUME TypeOK, "fireNow" \notin Env, RecordsInv, FiringIsMine, OnlyTheTick, [Next]_vars
    PROVE  FiringIsMine' /\ OnlyTheTick'
<1>h. \A f \in Firers : job[f] = NoJob \/ Held(f)
  BY DEF Held
<1>a. ASSUME UNCHANGED job,
             \A i \in Ids : HasStatus(i, "firing")' =>
                 HasStatus(i, "firing") /\ store'[i] = store[i]
      PROVE  FiringIsMine' /\ OnlyTheTick'
  BY <1>a, <1>h, FiringKeptMine
<1>b. ASSUME NEW i \in Ids, NEW item, item = None \/ item.status # "firing",
             WriteMap([store EXCEPT ![i] = item]), UNCHANGED job
      PROVE  FiringIsMine' /\ OnlyTheTick'
  <2> DEFINE map == [store EXCEPT ![i] = item]
  <2>1. \A j \in Ids : map[j] = IF j = i THEN item ELSE store[j]
    BY DEF TypeOK, StoreType
  <2>2. WriteMap(map)
    BY <1>b
  <2> HIDE DEF map
  <2>3. \A j \in Ids : map[j] \in {store[j], None} \/ map[j].status # "firing"
    BY <1>b, <2>1
  <2>4. QED
    BY <1>a, <1>b, <2>2, <2>3, FiringKept
<1>1. ASSUME NEW i \in Ids, Create(i) PROVE FiringIsMine' /\ OnlyTheTick'
  <2>1. PICK recurring \in MayRecur, time \in Times :
           WriteMap([store EXCEPT ![i] = Picked(recurring, time)])
    BY <1>1 DEF Create
  <2>2. Picked(recurring, time).status # "firing" /\ UNCHANGED job
    BY <1>1 DEF Picked, Create
  <2>3. QED
    BY <1>b, <2>1, <2>2
<1>2. CASE UpdateWrites
  <2>1. /\ edit.id \in Ids /\ edit.item.status # "firing" /\ UNCHANGED job
        /\ WriteMap([store EXCEPT ![edit.id] = edit.item])
    BY <1>2 DEF UpdateWrites, TypeOK, EditType, RecordsInv
  <2>2. QED
    BY <1>b, <2>1
<1>3. ASSUME NEW i \in Ids, Delete(i) PROVE FiringIsMine' /\ OnlyTheTick'
  <2>1. WriteMap([store EXCEPT ![i] = None]) /\ UNCHANGED job
    BY <1>3 DEF Delete
  <2>2. QED
    BY <1>b, <2>1
<1>4. ASSUME NEW i \in Ids, Rejected(i) PROVE FiringIsMine' /\ OnlyTheTick'
  <2> DEFINE purged == [j \in Ids |->
                  IF SessionOf[j] = SessionOf[i] /\ Pending(j) THEN None ELSE store[j]]
  <2>1. PICK item : item.status = "pending" /\ WriteMap([purged EXCEPT ![i] = item])
    <3>1. PICK resets \in (now + 1)..MaxTime :
            WriteMap([purged EXCEPT ![i] = Picked(FALSE, NextStaggerSlot(purged, resets))])
      BY <1>4 DEF Rejected
    <3>2. QED
      BY <3>1 DEF Picked
  <2> DEFINE map == [purged EXCEPT ![i] = item]
  <2>2. \A j \in Ids : map[j] \in {store[j], None, item} /\ WriteMap(map)
    BY <2>1
  <2> HIDE DEF map, purged
  <2>3. QED
    BY <1>4, <1>a, <2>1, <2>2, FiringKept DEF Rejected
<1>5. ASSUME NEW entry \in tick.todo, TickClaims(entry) PROVE FiringIsMine' /\ OnlyTheTick'
  <2>1. PICK i \in Ids : i = entry.id
    BY DEF TypeOK, TickType
  <2>2. PICK item : item = Firing(store[i])
    OBVIOUS
  <2>3. PICK missed : missed = Settled(item, "missed", tick.now)
    OBVIOUS
  <2>4. /\ Claim(i) /\ job["tick"] = NoJob
        /\ \/ job' = [job EXCEPT !["tick"] = Claimed(i, "done", missed, tick.now)]
           \/ job' = [job EXCEPT !["tick"] = Claimed(i, "claimed", item, tick.now)]
    BY <1>5, <2>1, <2>2, <2>3 DEF TickClaims
  <2>5. item.version = store[i].version /\ missed.version = store[i].version
    <3>1. store[i] \in ItemType /\ "missed" \in Statuses
      BY <2>4, StoredType DEF Claim, Pending, HasStatus, Statuses
    <3>2. item \in ItemType /\ item.version = store[i].version
      BY <2>2, <3>1 DEF Firing, ItemType, Statuses
    <3>3. QED
      BY <2>3, <3>1, <3>2, SettledFields
  <2>6. QED
    BY <2>4, <2>5, ClaimIsMine
<1>6. ASSUME NEW f \in Firers, CheckTarget(f) \/ SendSucceeds(f) \/ SendFails(f)
      PROVE  FiringIsMine' /\ OnlyTheTick'
  <2>1. Held(f) /\ UNCHANGED store
    BY <1>6 DEF CheckTarget, SendSucceeds, SendFails, Held, NoJob
  <2>2. PICK pc, item : /\ item.version = job[f].item.version
                        /\ job' = [job EXCEPT ![f] = Claimed(job[f].id, pc, item, job[f].now)]
    BY <1>6, <2>1, FireKeepsVersion
  <2>3. \A g \in Firers : \/ job'[g] = job[g]
                          \/ /\ Held(g) /\ job'[g].id = job[g].id
                             /\ job'[g].item.version = job[g].item.version
    BY <2>1, <2>2 DEF Claimed, TypeOK
  <2>4. \A i \in Ids : HasStatus(i, "firing")' =>
               HasStatus(i, "firing") /\ store'[i].version = store[i].version
    BY <2>1 DEF HasStatus
  <2>5. QED
    BY <1>h, <2>3, <2>4, FiringKeptMine
<1>7. ASSUME NEW f \in Firers, Finish(f) PROVE FiringIsMine' /\ OnlyTheTick'
  <2>1. f = "tick"
    BY <1>7 DEF Finish, OnlyTheTick, NoJob
  <2>2. \A g \in Firers : job'[g] = NoJob
    BY <1>7, <2>1 DEF Finish, OnlyTheTick, TypeOK
  <2>3. QED
    BY <2>2 DEF FiringIsMine, OnlyTheTick, Held
<1>8. CASE Crash
  BY <1>8 DEF Crash, FiringIsMine, OnlyTheTick, Held
<1>9. CASE Sweep
  <2> DEFINE map == [i \in Ids |-> IF HasStatus(i, "firing")
                                   THEN [store[i] EXCEPT !.status = "interrupted"]
                                   ELSE store[i]]
  <2>1. \A i \in Ids : map[i] = store[i] \/ map[i].status # "firing"
    <3> SUFFICES ASSUME NEW i \in Ids, HasStatus(i, "firing")
                 PROVE  [store[i] EXCEPT !.status = "interrupted"].status # "firing"
      OBVIOUS
    <3>1. store[i] \in ItemType
      BY StoredType DEF HasStatus
    <3>2. QED
      BY <3>1 DEF ItemType
  <2>2. WriteMap(map) /\ UNCHANGED job
    BY <1>9 DEF Sweep
  <2> HIDE DEF map
  <2>3. QED
    BY <1>a, <2>1, <2>2, FiringKept
<1>10. CASE \/ TickStarts \/ TickEnds \/ Clock \/ Restart \/ UNCHANGED vars
            \/ \E i \in Ids : UpdateChecks(i)
            \/ \E entry \in tick.todo : TickSkips(entry)
            \/ \E s \in Sessions : TurnEnds(s) \/ OtherSends(s)
  <2>1. UNCHANGED <<store, job>>
    BY <1>10 DEF TickStarts, TickEnds, Clock, Restart, vars, UpdateChecks, TickSkips,
       TurnEnds, OtherSends
  <2>2. QED
    BY <1>a, <2>1 DEF HasStatus
<1>11. QED
  BY <1>1, <1>2, <1>3, <1>4, <1>5, <1>6, <1>7, <1>8, <1>9, <1>10
     DEF Next, TickStep, FireStep, FireNow

LEMMA OneVersionStep ==
    ASSUME TypeOK, "update" \notin Env, OneVersionEach, [Next]_vars
    PROVE  OneVersionEach'
<1>h. \A f \in Firers : Held(f) => job[f].id \in Ids
  BY JobFields DEF Held
\* Records and claims that stay are as they were.
<1>a. ASSUME \A i \in Ids : Stored(i)' => Stored(i) /\ store'[i].version = store[i].version,
             \A f \in Firers : Held(f)' => /\ Held(f) /\ job'[f].id = job[f].id
                                           /\ job'[f].item.version = job[f].item.version,
             edit' \in {edit, NoEdit}, UNCHANGED used
      PROVE  OneVersionEach'
  BY <1>a, <1>h DEF OneVersionEach
\* An item that was never used gets its first version.
<1>b. ASSUME NEW i \in Ids \ used, \A j \in Ids \ {i} : store'[j] \in {store[j], None},
             UNCHANGED <<job, edit>>, used' = used \cup {i}
      PROVE  OneVersionEach'
  BY <1>b, <1>h DEF OneVersionEach, Stored, Held
\* A claim takes the item's version.
<1>c. ASSUME NEW f \in Firers, NEW i \in Ids, Claim(i), NEW pc, NEW item, NEW t,
             job' = [job EXCEPT ![f] = Claimed(i, pc, item, t)],
             item.version = store[i].version, UNCHANGED <<edit, used>>
      PROVE  OneVersionEach'
  <2>1. /\ job'[f] = Claimed(i, pc, item, t) /\ \A g \in Firers \ {f} : job'[g] = job[g]
    BY <1>c DEF TypeOK
  <2>2. job'[f].id = i /\ job'[f].item = item
    BY <2>1 DEF Claimed
  <2>3. Stored(i) /\ store[i] \in ItemType
    BY <1>c, StoredType DEF Claim, Pending, HasStatus, Stored
  <2>4. \A j \in Ids : Stored(j)' => Stored(j) /\ store'[j].version = store[j].version
    BY <1>c, <2>3 DEF Claim, WriteMap, TypeOK, StoreType, ItemType, Stored
  <2>5. QED
    BY <1>c, <1>h, <2>1, <2>2, <2>3, <2>4 DEF OneVersionEach, Held
<1>1. ASSUME NEW i \in Ids, Create(i) PROVE OneVersionEach'
  <2>1. \A j \in Ids \ {i} : store'[j] \in {store[j], None}
    BY <1>1 DEF Create, WriteMap, TypeOK, StoreType
  <2>2. QED
    BY <1>1, <1>b, <2>1 DEF Create
<1>2. ASSUME NEW i \in Ids, Rejected(i) PROVE OneVersionEach'
  <2>1. \A j \in Ids \ {i} : store'[j] \in {store[j], None}
    BY <1>2 DEF Rejected, WriteMap
  <2>2. QED
    BY <1>2, <1>b, <2>1 DEF Rejected
<1>3. ASSUME NEW i \in Ids, Delete(i) PROVE OneVersionEach'
  <2>1. \A j \in Ids : store'[j] \in {store[j], None}
    BY <1>3 DEF Delete, WriteMap, TypeOK, StoreType
  <2>2. UNCHANGED <<job, edit, used>>
    BY <1>3 DEF Delete
  <2>3. QED
    BY <1>a, <2>1, <2>2 DEF Stored, Held
<1>4. ASSUME NEW entry \in tick.todo, TickClaims(entry) PROVE OneVersionEach'
  <2>1. PICK i \in Ids : i = entry.id
    BY DEF TypeOK, TickType
  <2>2. PICK item : item = Firing(store[i])
    OBVIOUS
  <2>3. PICK missed : missed = Settled(item, "missed", tick.now)
    OBVIOUS
  <2>4. /\ Claim(i) /\ UNCHANGED <<edit, used>> /\ "tick" \in Firers
        /\ \/ job' = [job EXCEPT !["tick"] = Claimed(i, "done", missed, tick.now)]
           \/ job' = [job EXCEPT !["tick"] = Claimed(i, "claimed", item, tick.now)]
    BY <1>4, <2>1, <2>2, <2>3 DEF TickClaims, Firers
  <2>5. item.version = store[i].version /\ missed.version = store[i].version
    <3>1. store[i] \in ItemType /\ "missed" \in Statuses
      BY <2>4, StoredType DEF Claim, Pending, HasStatus, Statuses
    <3>2. item \in ItemType /\ item.version = store[i].version
      BY <2>2, <3>1 DEF Firing, ItemType, Statuses
    <3>3. QED
      BY <2>3, <3>1, <3>2, SettledFields
  <2>6. QED
    BY <1>c, <2>4, <2>5
<1>5. ASSUME NEW f \in NowTasks, NEW i \in Ids, FireNow(f, i) PROVE OneVersionEach'
  <2>1. /\ Claim(i) /\ UNCHANGED <<edit, used>> /\ f \in Firers /\ store[i] \in ItemType
        /\ job' = [job EXCEPT ![f] = Claimed(i, "claimed", Firing(store[i]), now)]
    BY <1>5, StoredType DEF FireNow, Firers, Claim, Pending, HasStatus
  <2>2. Firing(store[i]).version = store[i].version
    BY <2>1 DEF Firing, ItemType
  <2>3. QED
    BY <1>c, <2>1, <2>2
<1>6. ASSUME NEW f \in Firers, CheckTarget(f) \/ SendSucceeds(f) \/ SendFails(f)
      PROVE  OneVersionEach'
  <2>1. Held(f) /\ UNCHANGED <<store, edit, used>>
    BY <1>6 DEF CheckTarget, SendSucceeds, SendFails, Held, NoJob
  <2>2. PICK pc, item : /\ item.version = job[f].item.version
                        /\ job' = [job EXCEPT ![f] = Claimed(job[f].id, pc, item, job[f].now)]
    BY <1>6, <2>1, FireKeepsVersion
  <2>3. \A g \in Firers : Held(g)' => /\ Held(g) /\ job'[g].id = job[g].id
                                      /\ job'[g].item.version = job[g].item.version
    BY <2>1, <2>2 DEF Claimed, TypeOK, Held
  <2>4. QED
    BY <1>a, <2>1, <2>3 DEF Stored
<1>7. ASSUME NEW f \in Firers, Finish(f) PROVE OneVersionEach'
  <2>1. PICK i \in Ids : i = job[f].id /\ Held(f)
    BY <1>7, <1>h DEF Finish, Held, NoJob
  <2>2. /\ \A g \in Firers : Held(g)' => Held(g) /\ job'[g] = job[g]
        /\ UNCHANGED <<edit, used>>
    BY <1>7 DEF Finish, TypeOK, Held
  <2>3. ASSUME NEW j \in Ids, Stored(j)'
        PROVE  Stored(j) /\ store'[j].version = store[j].version
    <3>1. \/ store'[j] = store[j]
          \/ j = i /\ HasStatus(i, "firing") /\ store'[j] = job[f].item
      BY <1>7, <2>1 DEF Finish, FinishFire, WriteMap, TypeOK, StoreType
    <3>2. QED
      BY <2>1, <2>3, <3>1 DEF OneVersionEach, HasStatus, Stored
  <2>4. QED
    BY <1>a, <2>2, <2>3
<1>8. CASE Crash
  BY <1>8, <1>a DEF Crash, Held, Stored
<1>9. CASE Sweep
  <2>1. \A i \in Ids : Stored(i)' => Stored(i) /\ store'[i].version = store[i].version
    BY <1>9, StoredType DEF Sweep, WriteMap, HasStatus, Stored, ItemType
  <2>2. QED
    BY <1>9, <1>a, <2>1 DEF Sweep, Held
<1>10. CASE \/ TickStarts \/ TickEnds \/ Clock \/ Restart \/ UNCHANGED vars
            \/ \E entry \in tick.todo : TickSkips(entry)
            \/ \E s \in Sessions : TurnEnds(s) \/ OtherSends(s)
  <2>1. UNCHANGED <<store, job, edit, used>>
    BY <1>10 DEF TickStarts, TickEnds, Clock, Restart, vars, TickSkips, TurnEnds, OtherSends
  <2>2. QED
    BY <1>a, <2>1 DEF Stored, Held
<1>11. QED
  BY <1>1, <1>2, <1>3, <1>4, <1>5, <1>6, <1>7, <1>8, <1>9, <1>10
     DEF Next, TickStep, FireStep, UpdateChecks, UpdateWrites, OneVersionEach

LEMMA WordInit == Init => WordInv
  BY DEF Init, WordInv, FiringIsMine, OnlyTheTick, OneVersionEach, Held, Stored

LEMMA WordStep == TypeOK /\ RecordsInv /\ WordInv /\ [Next]_vars => WordInv'
  BY MineStep, OneVersionStep DEF WordInv

\* The outcome of a fire is written over the version it was claimed in.
LEMMA OutcomeKeepsVersion ==
    ASSUME TypeOK, WordInv, "fireNow" \notin Env \/ "update" \notin Env,
           NEW f \in Firers, Finish(f), store[job[f].id] # None
    PROVE  store'[job[f].id].version = store[job[f].id].version
<1>1. PICK i \in Ids : i = job[f].id /\ Held(f)
  BY JobFields DEF Finish, Held, NoJob
<1>2. store'[i] = store[i] \/ (HasStatus(i, "firing") /\ store'[i] = job[f].item)
  BY <1>1 DEF Finish, FinishFire, WriteMap, TypeOK, StoreType
<1>3. HasStatus(i, "firing") => store[i].version = job[f].item.version
  BY <1>1 DEF WordInv, FiringIsMine, OneVersionEach, Stored, HasStatus
<1>4. QED
  BY <1>1, <1>2, <1>3

\* A deleted item stays deleted.
LEMMA DeletedStays ==
    ASSUME TypeOK, Next, NEW i \in used, store[i] = None, edit = NoEdit \/ edit.id # i
    PROVE  store'[i] = None
<1>0. i \in Ids
  BY DEF TypeOK
<1>a. ASSUME NEW j \in Ids, j # i, NEW item, WriteMap([store EXCEPT ![j] = item])
      PROVE  store'[i] = None
  BY <1>0, <1>a DEF WriteMap, TypeOK, StoreType
<1>1. ASSUME NEW j \in Ids, Create(j) \/ Delete(j) PROVE store'[i] = None
  BY <1>0, <1>1 DEF Create, Delete, WriteMap, TypeOK, StoreType
<1>2. ASSUME NEW j \in Ids, Rejected(j) PROVE store'[i] = None
  BY <1>0, <1>2 DEF Rejected, WriteMap
<1>3. CASE UpdateWrites
  <2>1. edit.id \in Ids /\ edit.id # i
    BY <1>3 DEF UpdateWrites, TypeOK, EditType
  <2>2. QED
    BY <1>3, <1>a, <2>1 DEF UpdateWrites
<1>4. ASSUME NEW j \in Ids, Claim(j) PROVE store'[i] = None
  BY <1>0, <1>4 DEF Claim, Pending, HasStatus, WriteMap, TypeOK, StoreType
<1>5. ASSUME NEW entry \in tick.todo, TickClaims(entry) PROVE store'[i] = None
  <2>1. entry.id \in Ids
    BY DEF TypeOK, TickType
  <2>2. QED
    BY <1>4, <1>5, <2>1 DEF TickClaims
<1>6. ASSUME NEW f \in Firers, Finish(f) PROVE store'[i] = None
  <2>1. PICK j \in Ids : j = job[f].id
    BY <1>6, JobFields DEF Finish, NoJob
  <2>2. CASE HasStatus(j, "firing")
    BY <1>a, <1>6, <2>1, <2>2 DEF Finish, FinishFire, HasStatus
  <2>3. CASE ~HasStatus(j, "firing")
    BY <1>6, <2>1, <2>3 DEF Finish, FinishFire
  <2>4. QED
    BY <2>2, <2>3
<1>7. CASE Sweep
  BY <1>0, <1>7 DEF Sweep, WriteMap, HasStatus
<1>8. CASE UNCHANGED store
  BY <1>8
<1>9. QED
  BY <1>1, <1>2, <1>3, <1>4, <1>5, <1>6, <1>7, <1>8
     DEF Next, TickStep, FireStep, FireNow, UpdateChecks, TickStarts, TickEnds, TickSkips,
         CheckTarget, SendSucceeds, SendFails, TurnEnds, OtherSends, Clock, Crash, Restart

\* The user's word is the last: an outcome is never written over what came after
\* its claim, and what was deleted stays deleted (scheduled_items.rs:
\* finish_fire), unless items are both edited and fired by hand.  Then an
\* edited item can be claimed anew while its first firer is still at it, and
\* the outcome of the first fire hits the second one's record.
THEOREM UserHasTheLastWord ==
    ASSUME "fireNow" \notin Env \/ "update" \notin Env
    PROVE  Spec => UsersWordIsLast
<1>1. TypeOK /\ WordInv /\ Next =>
        /\ \A f \in Firers :
             (Finish(f) /\ store[job[f].id] # None) =>
                 store'[job[f].id].version = store[job[f].id].version
        /\ \A i \in used :
             (store[i] = None /\ (edit = NoEdit \/ edit.id # i)) => store'[i] = None
  BY OutcomeKeepsVersion, DeletedStays
<1>2. QED
  BY <1>1, WordInit, WordStep, RecordsInit, RecordsStep, ScheduleTypeCorrect, PTL
     DEF Spec, UsersWordIsLast

-----------------------------------------------------------------------------
(* No prompt is written into a turn, if the scheduler's loop is the only one *)
(* that sends to its targets.                                                *)

TickAlone == "fireNow" \notin Env /\ "otherSends" \notin Env

Target == SessionOf[job["tick"].id]

TurnInv ==
    /\ OnlyTheTick
    /\ \A s \in Sessions \ {None} : turn[s] =>
           busy[s] \/ (job["tick"].pc = "sent" /\ Target = s)
    /\ \A s \in Sessions \ {None} :
           (job["tick"].pc = "sending" /\ Target = s) => ~busy[s]

LEMMA TurnInit == Init => TurnInv
  BY DEF Init, TurnInv, OnlyTheTick, NoJob, Firers

LEMMA TurnStep ==
    ASSUME TypeOK, TickAlone, TurnInv, [Next]_vars
    PROVE  TurnInv'
<1>0. "tick" \in Firers /\ \A f \in Firers : job[f].pc # "idle" => f = "tick"
  BY DEF TurnInv, OnlyTheTick, NoJob, Firers
<1>a. ASSUME UNCHANGED <<job, turn, busy>> PROVE TurnInv'
  BY <1>a DEF TurnInv, OnlyTheTick, Target
<1>1. ASSUME NEW entry \in tick.todo, TickClaims(entry) PROVE TurnInv'
  <2>1. \/ \E item : job' = [job EXCEPT !["tick"] =
                                 Claimed(entry.id, "done", item, tick.now)]
        \/ \E item : job' = [job EXCEPT !["tick"] =
                                 Claimed(entry.id, "claimed", item, tick.now)]
    BY <1>1 DEF TickClaims
  <2>2. job'["tick"].pc \notin {"sent", "sending"} /\ OnlyTheTick'
    BY <1>0, <2>1 DEF TypeOK, Claimed, TurnInv, OnlyTheTick
  <2>3. UNCHANGED <<turn, busy>> /\ job["tick"].pc # "sent"
    BY <1>1 DEF TickClaims, NoJob
  <2>4. QED
    BY <2>2, <2>3 DEF TurnInv
<1>2. ASSUME NEW f \in Firers, CheckTarget(f) PROVE TurnInv'
  <2>1. f = "tick" /\ job["tick"].pc = "claimed" /\ UNCHANGED <<turn, busy>>
    BY <1>0, <1>2 DEF CheckTarget
  <2>a. \/ \E item : job' = [job EXCEPT !["tick"] =
                          Claimed(job["tick"].id, "done", item, job["tick"].now)]
        \/ /\ ~TargetBusy(job["tick"].id)
           /\ \E item : job' = [job EXCEPT !["tick"] =
                             Claimed(job["tick"].id, "sending", item, job["tick"].now)]
    BY <1>2, <2>1 DEF CheckTarget, TypeOK
  <2>2. PICK pc, item :
           /\ pc \in {"done", "sending"}
           /\ job' = [job EXCEPT !["tick"] = Claimed(job["tick"].id, pc, item, job["tick"].now)]
           /\ pc = "sending" => ~TargetBusy(job["tick"].id)
    BY <2>a
  <2>3. /\ OnlyTheTick' /\ job'["tick"].pc = pc /\ Target' = Target
    BY <1>0, <2>2 DEF TypeOK, Claimed, TurnInv, OnlyTheTick, Target
  <2>4. \A s \in Sessions : (pc = "sending" /\ Target = s /\ s # None) => ~busy[s]
    BY <2>2 DEF TargetBusy, Target
  <2>5. QED
    BY <2>1, <2>3, <2>4 DEF TurnInv
<1>3. ASSUME NEW f \in Firers, SendSucceeds(f) PROVE TurnInv'
  <2>1. f = "tick" /\ job["tick"].pc = "sending" /\ UNCHANGED busy
    BY <1>0, <1>3 DEF SendSucceeds
  <2>2. PICK item : job' = [job EXCEPT !["tick"] =
                       Claimed(job["tick"].id, "sent", item, job["tick"].now)]
    BY <1>3, <2>1 DEF SendSucceeds, TypeOK
  <2>3. /\ OnlyTheTick' /\ job'["tick"].pc = "sent" /\ Target' = Target
    BY <1>0, <2>2 DEF TypeOK, Claimed, TurnInv, OnlyTheTick, Target
  <2>4. \A s \in Sessions : turn'[s] => turn[s] \/ s = Target
    BY <1>3, <2>1 DEF SendSucceeds, TypeOK, Target
  <2>5. QED
    BY <2>1, <2>3, <2>4 DEF TurnInv
<1>4. ASSUME NEW f \in Firers, SendFails(f) PROVE TurnInv'
  <2>1. f = "tick" /\ job["tick"].pc = "sending" /\ UNCHANGED <<turn, busy>>
    BY <1>0, <1>4 DEF SendFails
  <2>2. PICK item : job' = [job EXCEPT !["tick"] =
                       Claimed(job["tick"].id, "done", item, job["tick"].now)]
    BY <1>4, <2>1 DEF SendFails, TypeOK
  <2>3. /\ OnlyTheTick' /\ job'["tick"].pc = "done"
    BY <1>0, <2>2 DEF TypeOK, Claimed, TurnInv, OnlyTheTick
  <2>4. QED
    BY <2>1, <2>3 DEF TurnInv
<1>5. ASSUME NEW f \in Firers, Finish(f) PROVE TurnInv'
  <2>1. f = "tick" /\ job["tick"].pc \in {"sent", "done"} /\ UNCHANGED turn
    BY <1>0, <1>5 DEF Finish
  <2>2. OnlyTheTick' /\ job'["tick"].pc = "idle"
    BY <1>0, <1>5, <2>1 DEF Finish, TypeOK, TurnInv, OnlyTheTick, NoJob
  <2>3. \A s \in Sessions : /\ busy[s] => busy'[s]
                            /\ (job["tick"].pc = "sent" /\ Target = s /\ s # None) => busy'[s]
    BY <1>5, <2>1 DEF Finish, TypeOK, Target
  <2>4. QED
    BY <2>1, <2>2, <2>3 DEF TurnInv
<1>6. ASSUME NEW s \in Sessions, TurnEnds(s) PROVE TurnInv'
  BY <1>6 DEF TurnEnds, TypeOK, TurnInv, OnlyTheTick, Target
<1>7. CASE Crash
  BY <1>0, <1>7 DEF Crash, TurnInv, OnlyTheTick, NoJob
<1>8. QED
  BY <1>1, <1>2, <1>3, <1>4, <1>5, <1>6, <1>7, <1>a
     DEF Next, TickStep, FireStep, FireNow, UpdateChecks, UpdateWrites, Create, Delete,
         Rejected, TickStarts, TickEnds, TickSkips, OtherSends, Clock, Restart, Sweep,
         vars, TickAlone

\* No prompt is written into the middle of a turn (schedule_fire.rs), for any
\* number of items and sessions, if nobody else sends to the targets between
\* the check for an idle target and the send.
THEOREM NeverMidTurn ==
    ASSUME TickAlone
    PROVE  Spec => NeverIntoATurn
<1>1. TypeOK /\ TurnInv => \A f \in Firers :
        (SendSucceeds(f) /\ SessionOf[job[f].id] # None) => ~turn[SessionOf[job[f].id]]
  <2> SUFFICES ASSUME TypeOK, TurnInv, NEW f \in Firers, SendSucceeds(f),
                      SessionOf[job[f].id] # None
               PROVE  ~turn[SessionOf[job[f].id]]
    OBVIOUS
  <2>1. f = "tick" /\ job["tick"].pc = "sending"
    BY DEF TurnInv, OnlyTheTick, SendSucceeds, NoJob
  <2>2. Target \in Sessions /\ Target = SessionOf[job[f].id]
    BY <2>1, JobFields, ConstantsAssumption DEF ConstantsAssumption, Target, NoJob
  <2>3. QED
    BY <2>1, <2>2 DEF TurnInv
<1>2. TypeOK /\ TurnInv /\ [Next]_vars => TurnInv'
  BY TurnStep
<1>3. QED
  BY <1>1, <1>2, TurnInit, ScheduleTypeCorrect, PTL
     DEF Spec, NeverIntoATurn

=============================================================================
