--------------------------- MODULE WakeQueue_proofs ---------------------------
(***************************************************************************)
(* Theorems about WakeQueue, for all sets of queues and drain tasks and    *)
(* every cap.  Sends may fail and children die at any step; drains overlap *)
(* and senders leave the row unmarked but where a theorem excludes it.     *)
(***************************************************************************)
EXTENDS WakeQueue, FiniteSets, FiniteSetTheorems, TLAPS

LEMMA BecomesType ==
    ASSUME TypeOK, NEW d \in Drains, NEW rec \in DrainType,
           rec.pc # "idle" => rec.q \in Queues, Becomes(d, rec)
    PROVE  /\ drain' \in [Drains -> DrainType]
           /\ \A e \in Drains : drain'[e].pc # "idle" => drain'[e].q \in Queues
  BY DEF TypeOK, Becomes, At

LEMMA RecordTypes ==
    ASSUME TypeOK
    PROVE  /\ Resting \in DrainType /\ Resting.pc = "idle"
           /\ \A q \in Queues : Start(q) \in DrainType /\ Start(q).q = q
           /\ \A d \in Drains, pc \in PCs, lines \in Seq(Nat) :
                 Step(d, pc, lines) \in DrainType /\ Step(d, pc, lines).q = drain[d].q
<1>1. <<>> \in Seq(Nat)
  OBVIOUS
<1>2. \A d \in Drains : drain[d].q \in {"fleet", "channel"}
  BY DEF TypeOK, DrainType
<1>3. QED
  BY <1>1, <1>2, ConstantsAssumption
     DEF ConstantsAssumption, DrainType, PCs, Resting, Start, Step

DrainTyped ==
    /\ drain \in [Drains -> DrainType]
    /\ \A e \in Drains : drain[e].pc # "idle" => drain[e].q \in Queues

LEMMA TypeStep == TypeOK /\ [Next]_vars => TypeOK'
<1> SUFFICES ASSUME TypeOK, [Next]_vars PROVE TypeOK'
  OBVIOUS
<1>q. \A d \in Drains : /\ drain[d].lines \in Seq(Nat)
                        /\ drain[d].pc # "idle" => /\ drain[d].q \in Queues
                                                  /\ queue[drain[d].q] \in Seq(Nat)
  BY DEF TypeOK, DrainType, At
<1>s. PCs = {"idle", "looking", "taking", "sending", "written"} /\ <<>> \in Seq(Nat)
  BY DEF PCs
<1>1. ASSUME NEW d \in Drains, NEW q \in Queues, Post(q, d) PROVE TypeOK'
  <2>1. Append(Room(q), made + 1) \in Seq(Nat)
    <3>1. queue[q] \in Seq(Nat) /\ made + 1 \in Nat
      BY DEF TypeOK
    <3>2. queue[q] # <<>> => Tail(queue[q]) \in Seq(Nat)
      BY <3>1
    <3>3. Cap > 0 /\ (queue[q] = <<>> => Len(queue[q]) = 0)
      BY ConstantsAssumption DEF ConstantsAssumption
    <3>4. Room(q) \in Seq(Nat)
      BY <3>1, <3>2, <3>3, ConstantsAssumption DEF Room, ConstantsAssumption
    <3>5. QED
      BY <3>1, <3>4
  <2>2. queue' \in [Queues -> Seq(Nat)]
    BY <1>1, <2>1 DEF Post, TypeOK
  <2>3. DrainTyped'
    BY <1>1, RecordTypes, BecomesType DEF Post, DrainTyped
  <2>4. QED
    BY <1>1, <2>2, <2>3 DEF Post, TypeOK, DrainTyped, At
<1>2. ASSUME NEW d \in Drains, Look(d) PROVE TypeOK'
  <2>1. DrainTyped'
    BY <1>2, <1>q, <1>s, RecordTypes, BecomesType DEF Look, DrainTyped, At
  <2>2. QED
    BY <1>2, <2>1 DEF Look, TypeOK, DrainTyped, At
<1>3. ASSUME NEW d \in Drains, Take(d) PROVE TypeOK'
  <2>1. DrainTyped'
    BY <1>3, <1>q, <1>s, RecordTypes, BecomesType DEF Take, DrainTyped, At
  <2>2. queue' \in [Queues -> Seq(Nat)]
    BY <1>3, <1>s DEF Take, TypeOK
  <2>3. QED
    BY <1>3, <2>1, <2>2 DEF Take, TypeOK, DrainTyped, At
<1>4. ASSUME NEW d \in Drains, Write(d) PROVE TypeOK'
  <2>1. got' \in [Queues -> Seq(Nat)]
    <3>1. \A q \in Queues : got[q] \o drain[d].lines \in Seq(Nat)
      BY <1>q DEF TypeOK
    <3>2. QED
      BY <1>4, <3>1 DEF Write, TypeOK
  <2>2. child' \in ChildType /\ (child'.streaming => child'.left > 0)
    BY <1>4 DEF Write, Prompted, TypeOK, ChildType
  <2>3. DrainTyped'
    BY <1>4, <1>q, <1>s, RecordTypes, BecomesType DEF Write, DrainTyped, At
  <2>4. QED
    BY <1>4, <2>1, <2>2, <2>3 DEF Write, TypeOK, DrainTyped, At
<1>5. ASSUME NEW d \in Drains, Fails(d) PROVE TypeOK'
  <2>1. PutBack(d) \in Seq(Nat)
    BY <1>5, <1>q DEF Fails, At, PutBack
  <2>2. queue' \in [Queues -> Seq(Nat)]
    BY <1>5, <2>1 DEF Fails, TypeOK
  <2>3. DrainTyped'
    BY <1>5, RecordTypes, BecomesType DEF Fails, DrainTyped
  <2>4. QED
    BY <1>5, <2>2, <2>3 DEF Fails, TypeOK, DrainTyped, At
<1>6. ASSUME NEW d \in Drains, Note(d) PROVE TypeOK'
  <2>1. DrainTyped'
    BY <1>6, RecordTypes, BecomesType DEF Note, DrainTyped
  <2>2. row' \in RowType
    BY <1>6 DEF Note, Busy, TypeOK, RowType
  <2>3. QED
    BY <1>6, <2>1, <2>2 DEF Note, TypeOK, DrainTyped, At
<1>7. CASE SenderLooks
  BY <1>7 DEF SenderLooks, TypeOK, At
<1>8. CASE SenderNext
  <2>1. Busy \in RowType
    BY DEF Busy, TypeOK, RowType
  <2>2. Prompted \in ChildType /\ (Prompted.streaming => Prompted.left > 0)
    BY DEF Prompted, TypeOK, ChildType
  <2>3. QED
    BY <1>8, <2>1, <2>2 DEF SenderNext, SenderWrites, SenderNotes, SenderFails, TypeOK, At
<1>9. CASE TurnStarts
  BY <1>9 DEF TurnStarts, Unbegun, TypeOK, ChildType, RowType, At
<1>10. CASE TurnEnds
  <2>1. PICK task \in [ToDrain -> {d \in Drains : At(d, "idle")}] :
          drain' = [d \in Drains |-> IF \E q \in ToDrain : task[q] = d
                                     THEN Start(CHOOSE q \in ToDrain : task[q] = d)
                                     ELSE drain[d]]
    BY <1>10 DEF TurnEnds
  <2>2. \A d \in Drains : \/ \E q \in Queues : drain'[d] = Start(q)
                          \/ drain'[d] = drain[d]
    BY <2>1 DEF ToDrain
  <2>3. DrainTyped'
    <3>1. \A d \in Drains : drain[d] \in DrainType
      BY DEF TypeOK
    <3>2. ASSUME NEW d \in Drains
          PROVE  /\ drain'[d] \in DrainType
                 /\ drain'[d].pc # "idle" => drain'[d].q \in Queues
      BY <1>q, <2>2, <3>1, RecordTypes
    <3>3. drain' = [d \in Drains |-> drain'[d]]
      BY <2>1
    <3>4. QED
      BY <3>2, <3>3 DEF DrainTyped
  <2>4. /\ child' \in ChildType /\ (child'.streaming => child'.left > 0)
        /\ row' \in RowType
    <3>1. child.left \in Nat /\ child.left > 0
      BY <1>10 DEF TurnEnds, Unbegun, TypeOK, ChildType
    <3>2. child.left - 1 \in Nat
      BY <3>1
    <3>3. child' = [live |-> child.live, left |-> child.left - 1,
                    streaming |-> FALSE, gen |-> child.gen]
      BY <1>10 DEF TurnEnds, TypeOK, ChildType
    <3>4. QED
      BY <1>10, <3>2, <3>3 DEF TurnEnds, Quieted, TypeOK, ChildType, RowType
  <2>5. QED
    BY <1>10, <2>3, <2>4 DEF TurnEnds, TypeOK, DrainTyped, At
<1>11. CASE ChildExits
  BY <1>11 DEF ChildExits, TypeOK, ChildType, At
<1>12. CASE ChildDies
  BY <1>12 DEF ChildDies, Quieted, TypeOK, ChildType, RowType, At
<1>13. CASE End
  BY <1>13 DEF End, TypeOK, RowType, At
<1>14. CASE UNCHANGED vars
  BY <1>14 DEF vars, TypeOK, At
<1>15. QED
  BY <1>1, <1>2, <1>3, <1>4, <1>5, <1>6, <1>7, <1>8, <1>9, <1>10, <1>11,
     <1>12, <1>13, <1>14 DEF Next, DrainNext

\* Type correctness of the queues, the drains and the row.
THEOREM TypeCorrect == Spec => []TypeOK
<1>1. Init => TypeOK
  BY ConstantsAssumption DEF ConstantsAssumption, Init, TypeOK, PCs, DrainType,
     RowType, ChildType, Resting, At
<1>2. QED
  BY <1>1, TypeStep, PTL DEF Spec

-----------------------------------------------------------------------------
(* Sequences without repetition *)

Distinct(s) == \A i, j \in DOMAIN s : s[i] = s[j] => i = j

LEMMA InToSet ==
    ASSUME NEW s
    PROVE  /\ \A i \in DOMAIN s : s[i] \in ToSet(s)
           /\ \A x \in ToSet(s) : \E i \in DOMAIN s : x = s[i]
  BY DEF ToSet

LEMMA AppendDistinct ==
    ASSUME NEW s \in Seq(Nat), NEW n \in Nat, Distinct(s), n \notin ToSet(s)
    PROVE  /\ Distinct(Append(s, n))
           /\ ToSet(Append(s, n)) = ToSet(s) \cup {n}
<1>1. /\ Append(s, n) \in Seq(Nat) /\ Len(s) \in Nat /\ DOMAIN s = 1..Len(s)
      /\ DOMAIN Append(s, n) = 1..Len(s) + 1
      /\ \A i \in 1..Len(s) : Append(s, n)[i] = s[i]
      /\ Append(s, n)[Len(s) + 1] = n
  OBVIOUS
<1>2. \A i \in DOMAIN s : s[i] # n
  BY InToSet
<1>3. Distinct(Append(s, n))
  BY <1>1, <1>2 DEF Distinct
<1>4. ToSet(Append(s, n)) \subseteq ToSet(s) \cup {n}
  BY <1>1 DEF ToSet
<1>5. ToSet(s) \cup {n} \subseteq ToSet(Append(s, n))
  BY <1>1 DEF ToSet
<1>6. QED
  BY <1>3, <1>4, <1>5

LEMMA TailDistinct ==
    ASSUME NEW s \in Seq(Nat), s # <<>>, Distinct(s)
    PROVE  /\ Distinct(Tail(s))
           /\ Head(s) \in ToSet(s)
           /\ ToSet(Tail(s)) = ToSet(s) \ {Head(s)}
<1>1. /\ Len(Tail(s)) = Len(s) - 1 /\ Len(s) \in Nat \ {0} /\ Tail(s) \in Seq(Nat)
      /\ \A i \in 1..Len(s) - 1 : Tail(s)[i] = s[i + 1]
  OBVIOUS
<1>2. DOMAIN s = 1..Len(s) /\ DOMAIN Tail(s) = 1..Len(s) - 1 /\ Head(s) = s[1]
  BY <1>1
<1>3. Distinct(Tail(s)) /\ Head(s) \in ToSet(s)
  <2>1. 1 \in DOMAIN s
    BY <1>1, <1>2
  <2>2. \A i \in DOMAIN Tail(s) : i + 1 \in DOMAIN s /\ Tail(s)[i] = s[i + 1] /\ i \in Nat
    BY <1>1, <1>2
  <2>3. Distinct(Tail(s))
    BY <2>2 DEF Distinct
  <2>4. QED
    BY <1>2, <2>1, <2>3, InToSet
<1>4. ToSet(Tail(s)) \subseteq ToSet(s) \ {Head(s)}
  BY <1>1, <1>2 DEF Distinct, ToSet
<1>5. ASSUME NEW x \in ToSet(s), x # Head(s) PROVE x \in ToSet(Tail(s))
  <2>1. PICK i \in DOMAIN s : x = s[i]
    BY DEF ToSet
  <2>2. i - 1 \in 1..Len(s) - 1 /\ Tail(s)[i - 1] = s[i]
    BY <1>1, <1>2, <1>5, <2>1
  <2>3. QED
    BY <1>2, <2>1, <2>2 DEF ToSet
<1>6. QED
  BY <1>3, <1>4, <1>5

LEMMA ConcatDistinct ==
    ASSUME NEW s \in Seq(Nat), NEW t \in Seq(Nat)
    PROVE  /\ ToSet(s \o t) = ToSet(s) \cup ToSet(t)
           /\ Distinct(s) /\ Distinct(t) /\ ToSet(s) \cap ToSet(t) = {}
              => Distinct(s \o t)
<1>1. /\ s \o t \in Seq(Nat) /\ Len(s \o t) = Len(s) + Len(t)
      /\ \A i \in 1..Len(s) + Len(t) :
            (s \o t)[i] = IF i <= Len(s) THEN s[i] ELSE t[i - Len(s)]
  OBVIOUS
<1>2. /\ DOMAIN s = 1..Len(s) /\ DOMAIN t = 1..Len(t)
      /\ DOMAIN (s \o t) = 1..Len(s) + Len(t) /\ Len(s) \in Nat /\ Len(t) \in Nat
  BY <1>1
<1>3. ToSet(s \o t) \subseteq ToSet(s) \cup ToSet(t)
  BY <1>1, <1>2 DEF ToSet
<1>4. ToSet(s) \subseteq ToSet(s \o t)
  BY <1>1, <1>2 DEF ToSet
<1>5. ASSUME NEW x \in ToSet(t) PROVE x \in ToSet(s \o t)
  <2>1. PICK i \in DOMAIN t : x = t[i]
    BY DEF ToSet
  <2>2. Len(s) + i \in DOMAIN (s \o t) /\ (s \o t)[Len(s) + i] = t[i]
    BY <1>1, <1>2, <2>1
  <2>3. QED
    BY <2>1, <2>2 DEF ToSet
<1>6. ASSUME Distinct(s), Distinct(t), ToSet(s) \cap ToSet(t) = {},
             NEW i \in DOMAIN (s \o t), NEW j \in DOMAIN (s \o t),
             (s \o t)[i] = (s \o t)[j]
      PROVE  i = j
  <2>1. CASE i <= Len(s) /\ j <= Len(s)
    BY <1>1, <1>2, <1>6, <2>1 DEF Distinct
  <2>2. CASE i > Len(s) /\ j > Len(s)
    BY <1>1, <1>2, <1>6, <2>2 DEF Distinct
  <2>3. CASE i <= Len(s) /\ j > Len(s)
    <3>1. /\ i \in DOMAIN s /\ (s \o t)[i] = s[i]
          /\ j - Len(s) \in DOMAIN t /\ (s \o t)[j] = t[j - Len(s)]
      BY <1>1, <1>2, <1>6, <2>3
    <3>2. s[i] \in ToSet(s) /\ t[j - Len(s)] \in ToSet(t)
      BY <3>1, InToSet
    <3>3. QED
      BY <1>6, <3>1, <3>2
  <2>4. CASE i > Len(s) /\ j <= Len(s)
    <3>1. /\ j \in DOMAIN s /\ (s \o t)[j] = s[j]
          /\ i - Len(s) \in DOMAIN t /\ (s \o t)[i] = t[i - Len(s)]
      BY <1>1, <1>2, <1>6, <2>4
    <3>2. s[j] \in ToSet(s) /\ t[i - Len(s)] \in ToSet(t)
      BY <3>1, InToSet
    <3>3. QED
      BY <1>6, <3>1, <3>2
  <2>5. QED
    BY <1>2, <2>1, <2>2, <2>3, <2>4
<1>7. QED
  BY <1>3, <1>4, <1>5, <1>6 DEF Distinct

LEMMA DistinctCardinality ==
    ASSUME NEW s \in Seq(Nat), Distinct(s)
    PROVE  IsFiniteSet(ToSet(s)) /\ Cardinality(ToSet(s)) = Len(s)
<1>1. DOMAIN s = 1..Len(s) /\ Len(s) \in Nat
  OBVIOUS
<1>2. IsFiniteSet(1..Len(s)) /\ Cardinality(1..Len(s)) = Len(s)
  <2>1. /\ IsFiniteSet(1..Len(s))
        /\ Cardinality(1..Len(s)) = IF 1 > Len(s) THEN 0 ELSE Len(s) - 1 + 1
    <3>1. 1 \in Int /\ Len(s) \in Int
      BY <1>1
    <3>2. QED
      BY <3>1, FS_Interval, Zenon
  <2>2. (IF 1 > Len(s) THEN 0 ELSE Len(s) - 1 + 1) = Len(s)
    BY <1>1
  <2>3. QED
    BY <2>1, <2>2
<1>3. s \in Bijection(1..Len(s), ToSet(s))
  <2>1. s \in [1..Len(s) -> ToSet(s)]
    BY <1>1, InToSet
  <2>2. \A x \in ToSet(s) : \E i \in 1..Len(s) : s[i] = x
    BY <1>1, InToSet
  <2>3. IsInjective(s)
    BY <1>1 DEF IsInjective, Distinct
  <2>4. QED
    BY <2>1, <2>2, <2>3 DEF Bijection, Injection, Surjection
<1>4. QED
  BY <1>2, <1>3, FS_Bijection DEF ExistsBijection

-----------------------------------------------------------------------------
(* Where a line is *)

\* Every line is one that was put in.
NumbersMade ==
    /\ made \in 0..MaxLines
    /\ \A q \in Queues : ToSet(queue[q]) \subseteq 1..made /\ ToSet(got[q]) \subseteq 1..made
    /\ \A d \in Drains : ToSet(drain[d].lines) \subseteq 1..made

\* No queue and no drain has a line twice.
NoRepeats ==
    /\ \A q \in Queues : Distinct(queue[q])
    /\ \A d \in Drains : Distinct(drain[d].lines)

\* A drain that sends has lines which neither its queue nor another drain of
\* that queue has.
Apart ==
    \A d \in Drains : drain[d].lines # <<>> =>
        /\ At(d, "sending")
        /\ ToSet(drain[d].lines) \cap ToSet(queue[drain[d].q]) = {}
        /\ \A e \in Drains \ {d} :
              drain[e].q = drain[d].q
              => ToSet(drain[d].lines) \cap ToSet(drain[e].lines) = {}

LineInv == NumbersMade /\ NoRepeats /\ Apart

LEMMA EmptySet == ToSet(<<>>) = {} /\ Distinct(<<>>)
  BY DEF ToSet, Distinct

\* Tasks that start, look, rest or note leave the lines where they are.
LEMMA LinesKept ==
    ASSUME LineInv, UNCHANGED <<queue, made, got>>,
           \A d \in Drains : /\ drain'[d].lines = drain[d].lines
                             /\ drain[d].lines # <<>> => drain'[d] = drain[d]
    PROVE  LineInv'
<1>1. NumbersMade' /\ NoRepeats'
  BY DEF LineInv, NumbersMade, NoRepeats
<1>2. ASSUME NEW d \in Drains, drain'[d].lines # <<>>
      PROVE  /\ At(d, "sending")'
             /\ ToSet(drain'[d].lines) \cap ToSet(queue'[drain'[d].q]) = {}
             /\ \A e \in Drains \ {d} :
                   drain'[e].q = drain'[d].q
                   => ToSet(drain'[d].lines) \cap ToSet(drain'[e].lines) = {}
  <2>1. drain'[d] = drain[d] /\ drain[d].lines # <<>>
    BY <1>2
  <2>2. /\ At(d, "sending")'
        /\ ToSet(drain'[d].lines) \cap ToSet(queue'[drain'[d].q]) = {}
    BY <2>1 DEF LineInv, Apart, At
  <2>3. ASSUME NEW e \in Drains \ {d}, drain'[e].q = drain'[d].q
        PROVE  ToSet(drain'[d].lines) \cap ToSet(drain'[e].lines) = {}
    <3>1. CASE drain[e].lines = <<>>
      BY <3>1, EmptySet
    <3>2. CASE drain[e].lines # <<>>
      BY <2>1, <2>3, <3>2 DEF LineInv, Apart
    <3>3. QED
      BY <3>1, <3>2
  <2>4. QED
    BY <2>2, <2>3
<1>3. QED
  BY <1>1, <1>2 DEF LineInv, Apart

\* Each kind of step in terms of the lines alone.
LEMMA DrainSteps ==
    ASSUME TypeOK, LineInv, NEW d \in Drains
    PROVE  /\ Look(d) \/ Note(d) =>
                 /\ UNCHANGED <<queue, made, got>>
                 /\ \A e \in Drains : /\ drain'[e].lines = drain[e].lines
                                      /\ drain[e].lines # <<>> => drain'[e] = drain[e]
           /\ \A q \in Queues : Post(q, d) =>
                 \A e \in Drains : /\ drain'[e].lines = drain[e].lines
                                   /\ drain[e].lines # <<>> => drain'[e] = drain[e]
<1>1. drain[d].lines # <<>> => At(d, "sending")
  BY DEF LineInv, Apart
<1>2. QED
  BY <1>1 DEF Look, Note, Post, Becomes, At, Step, Start, Resting, TypeOK

LEMMA TurnEndsLines ==
    ASSUME TypeOK, LineInv, TurnEnds
    PROVE  /\ UNCHANGED <<queue, made, got>>
           /\ \A e \in Drains : /\ drain'[e].lines = drain[e].lines
                                /\ drain[e].lines # <<>> => drain'[e] = drain[e]
<1>1. PICK task \in [ToDrain -> {d \in Drains : At(d, "idle")}] :
        drain' = [d \in Drains |-> IF \E q \in ToDrain : task[q] = d
                                   THEN Start(CHOOSE q \in ToDrain : task[q] = d)
                                   ELSE drain[d]]
  BY DEF TurnEnds
<1>2. ASSUME NEW e \in Drains
      PROVE  /\ drain'[e].lines = drain[e].lines
             /\ drain[e].lines # <<>> => drain'[e] = drain[e]
  <2>1. CASE \E q \in ToDrain : task[q] = e
    <3>1. At(e, "idle")
      BY <2>1
    <3>2. drain[e].lines = <<>>
      BY <3>1 DEF LineInv, Apart, At
    <3>3. drain'[e].lines = <<>>
      BY <1>1, <2>1 DEF Start
    <3>4. QED
      BY <3>2, <3>3
  <2>2. CASE ~\E q \in ToDrain : task[q] = e
    BY <1>1, <2>2
  <2>3. QED
    BY <2>1, <2>2
<1>3. QED
  BY <1>2 DEF TurnEnds

OtherStep ==
    \/ SenderLooks \/ SenderNext \/ TurnStarts \/ ChildExits \/ ChildDies \/ End
    \/ UNCHANGED vars

LEMMA OtherLines == OtherStep => UNCHANGED <<queue, drain, made, got>>
  BY DEF OtherStep, SenderLooks, SenderNext, SenderWrites, SenderNotes, SenderFails,
     TurnStarts, ChildExits, ChildDies, End, vars

\* Putting a line in: the queue after it, and what it has lost.
LEMMA PostQueue ==
    ASSUME TypeOK, LineInv, NEW q \in Queues, NEW d \in Drains, Post(q, d)
    PROVE  /\ made + 1 \in 1..MaxLines /\ made' = made + 1
           /\ UNCHANGED got
           /\ \A p \in Queues \ {q} : queue'[p] = queue[p]
           /\ Distinct(queue'[q])
           /\ \/ ToSet(queue'[q]) = ToSet(queue[q]) \cup {made + 1}
              \/ /\ q \in Capped /\ Cardinality(ToSet(queue[q])) >= Cap
                 /\ \E old \in ToSet(queue[q]) :
                       ToSet(queue'[q]) = (ToSet(queue[q]) \ {old}) \cup {made + 1}
<1>1. /\ made \in Nat /\ made + 1 \in Nat /\ queue[q] \in Seq(Nat) /\ Distinct(queue[q])
      /\ ToSet(queue[q]) \subseteq 1..made
  BY DEF TypeOK, LineInv, NumbersMade, NoRepeats
<1>2. made + 1 \notin ToSet(queue[q])
  BY <1>1
<1>3. /\ queue'[q] = Append(Room(q), made + 1) /\ made' = made + 1 /\ UNCHANGED got
      /\ \A p \in Queues \ {q} : queue'[p] = queue[p]
  BY DEF Post, TypeOK
<1>4. made + 1 \in 1..MaxLines
  BY <1>1, ConstantsAssumption DEF Post, ConstantsAssumption
<1>5. CASE q \in Capped /\ Len(queue[q]) >= Cap
  <2>1. queue[q] # <<>>
    BY <1>1, <1>5, ConstantsAssumption DEF ConstantsAssumption
  <2>2. /\ Room(q) = Tail(queue[q]) /\ Tail(queue[q]) \in Seq(Nat)
        /\ Distinct(Tail(queue[q])) /\ Head(queue[q]) \in ToSet(queue[q])
        /\ ToSet(Tail(queue[q])) = ToSet(queue[q]) \ {Head(queue[q])}
    BY <1>1, <1>5, <2>1, TailDistinct DEF Room
  <2>3. /\ Distinct(queue'[q])
        /\ ToSet(queue'[q]) = (ToSet(queue[q]) \ {Head(queue[q])}) \cup {made + 1}
    <3> DEFINE t == Tail(queue[q])
    <3>1. t \in Seq(Nat) /\ Distinct(t) /\ made + 1 \notin ToSet(t)
      BY <1>2, <2>2
    <3>2. queue'[q] = Append(t, made + 1)
      BY <1>3, <2>2
    <3> HIDE DEF t
    <3>3. Distinct(Append(t, made + 1)) /\ ToSet(Append(t, made + 1)) = ToSet(t) \cup {made + 1}
      BY <1>1, <3>1, AppendDistinct
    <3>4. QED
      BY <2>2, <3>2, <3>3 DEF t
  <2>4. Cardinality(ToSet(queue[q])) >= Cap
    BY <1>1, <1>5, DistinctCardinality
  <2>5. QED
    BY <1>3, <1>4, <1>5, <2>2, <2>3, <2>4
<1>6. CASE ~(q \in Capped /\ Len(queue[q]) >= Cap)
  <2>1. Room(q) = queue[q]
    BY <1>6 DEF Room
  <2>2. Distinct(queue'[q]) /\ ToSet(queue'[q]) = ToSet(queue[q]) \cup {made + 1}
    BY <1>1, <1>2, <1>3, <2>1, AppendDistinct
  <2>3. QED
    BY <1>3, <1>4, <2>2
<1>7. QED
  BY <1>5, <1>6

LEMMA PostLines ==
    ASSUME TypeOK, LineInv, NEW q \in Queues, NEW d \in Drains, Post(q, d)
    PROVE  LineInv'
<1>1. /\ made \in Nat /\ made + 1 \in 1..MaxLines /\ made' = made + 1 /\ UNCHANGED got
      /\ \A p \in Queues \ {q} : queue'[p] = queue[p]
      /\ Distinct(queue'[q])
      /\ ToSet(queue'[q]) \subseteq ToSet(queue[q]) \cup {made + 1}
  BY PostQueue DEF TypeOK
<1>2. \A e \in Drains : /\ drain'[e].lines = drain[e].lines
                        /\ drain[e].lines # <<>> => drain'[e] = drain[e]
  BY DrainSteps
<1>3. \A S : S \subseteq 1..made => S \subseteq 1..made'
  BY <1>1
<1>4. NumbersMade'
  <2>1. made' \in 0..MaxLines
    BY <1>1
  <2>2. \A p \in Queues : ToSet(got'[p]) \subseteq 1..made'
    BY <1>1, <1>3 DEF LineInv, NumbersMade
  <2>3. ToSet(queue'[q]) \subseteq 1..made'
    BY <1>1, <1>3 DEF LineInv, NumbersMade
  <2>4. \A p \in Queues : ToSet(queue'[p]) \subseteq 1..made'
    BY <1>1, <1>3, <2>3 DEF LineInv, NumbersMade
  <2>5. \A e \in Drains : ToSet(drain'[e].lines) \subseteq 1..made'
    BY <1>2, <1>3 DEF LineInv, NumbersMade
  <2>6. QED
    BY <2>1, <2>2, <2>4, <2>5 DEF NumbersMade
<1>5. NoRepeats'
  BY <1>1, <1>2 DEF LineInv, NoRepeats
<1>6. ASSUME NEW e \in Drains, drain'[e].lines # <<>>
      PROVE  /\ At(e, "sending")'
             /\ ToSet(drain'[e].lines) \cap ToSet(queue'[drain'[e].q]) = {}
             /\ \A f \in Drains \ {e} :
                   drain'[f].q = drain'[e].q
                   => ToSet(drain'[e].lines) \cap ToSet(drain'[f].lines) = {}
  <2>1. drain'[e] = drain[e] /\ drain[e].lines # <<>> /\ At(e, "sending")
    BY <1>2, <1>6 DEF LineInv, Apart
  <2>2. drain[e].q \in Queues /\ ToSet(drain[e].lines) \subseteq 1..made
    BY <2>1 DEF TypeOK, At, LineInv, NumbersMade
  <2>3. made + 1 \notin ToSet(drain[e].lines)
    BY <1>1, <2>2
  <2>4. ToSet(drain'[e].lines) \cap ToSet(queue'[drain'[e].q]) = {}
    BY <1>1, <2>1, <2>2, <2>3 DEF LineInv, Apart
  <2>5. ASSUME NEW f \in Drains \ {e}, drain'[f].q = drain'[e].q
        PROVE  ToSet(drain'[e].lines) \cap ToSet(drain'[f].lines) = {}
    <3>1. CASE drain[f].lines = <<>>
      BY <1>2, <3>1, EmptySet
    <3>2. CASE drain[f].lines # <<>>
      BY <1>2, <2>1, <2>5, <3>2 DEF LineInv, Apart
    <3>3. QED
      BY <3>1, <3>2
  <2>6. QED
    BY <2>1, <2>4, <2>5 DEF At
<1>7. QED
  BY <1>4, <1>5, <1>6 DEF LineInv, Apart

\* A drain that empties its queue, tells its lines or puts them back.
LEMMA MoveLines ==
    ASSUME TypeOK, LineInv, NEW d \in Drains, Take(d) \/ Write(d) \/ Fails(d)
    PROVE  LineInv'
<1> DEFINE q == drain[d].q
<1>1. /\ q \in Queues /\ queue[q] \in Seq(Nat) /\ drain[d].lines \in Seq(Nat)
      /\ got[q] \in Seq(Nat)
  BY DEF TypeOK, DrainType, Take, Write, Fails, At
<1>2. /\ made' = made
      /\ \A e \in Drains \ {d} : drain'[e] = drain[e]
      /\ \A p \in Queues \ {q} : queue'[p] = queue[p] /\ got'[p] = got[p]
  BY <1>1 DEF Take, Write, Fails, Becomes, TypeOK
<1>3. /\ ToSet(queue[q]) \subseteq 1..made /\ ToSet(drain[d].lines) \subseteq 1..made
      /\ ToSet(got[q]) \subseteq 1..made
      /\ Distinct(queue[q]) /\ Distinct(drain[d].lines)
      /\ ToSet(drain[d].lines) \cap ToSet(queue[q]) = {}
  BY <1>1, EmptySet DEF LineInv, NumbersMade, NoRepeats, Apart
<1>4. /\ Distinct(queue'[q]) /\ Distinct(drain'[d].lines)
      /\ ToSet(queue'[q]) \cup ToSet(drain'[d].lines)
            \subseteq ToSet(queue[q]) \cup ToSet(drain[d].lines)
      /\ ToSet(queue'[q]) \cap ToSet(drain'[d].lines) = {}
      /\ ToSet(got'[q]) \subseteq 1..made
      /\ drain'[d].lines # <<>> => drain'[d].q = q /\ At(d, "sending")'
  <2>1. CASE Take(d)
    <3>1. queue'[q] = <<>> /\ got' = got
      BY <1>1, <2>1 DEF Take, TypeOK
    <3>2. \/ queue[q] = <<>> /\ drain'[d] = Resting
          \/ drain'[d] = Step(d, "sending", queue[q])
      BY <2>1 DEF Take, Becomes, TypeOK
    <3>3. QED
      BY <1>3, <3>1, <3>2, EmptySet DEF Resting, Step, At
  <2>2. CASE Write(d)
    <3>1. queue' = queue /\ got'[q] = got[q] \o drain[d].lines
      BY <1>1, <2>2 DEF Write, TypeOK
    <3>2. ToSet(got'[q]) = ToSet(got[q]) \cup ToSet(drain[d].lines)
      BY <1>1, <3>1, ConcatDistinct
    <3>3. drain'[d].lines = <<>>
      BY <2>2 DEF Write, Becomes, Step, TypeOK
    <3>4. QED
      BY <1>3, <3>1, <3>2, <3>3, EmptySet
  <2>3. CASE Fails(d)
    <3>1. queue'[q] = drain[d].lines \o queue[q] /\ got' = got
      BY <1>1, <2>3 DEF Fails, PutBack, TypeOK
    <3>2. /\ Distinct(queue'[q])
          /\ ToSet(queue'[q]) = ToSet(drain[d].lines) \cup ToSet(queue[q])
      BY <1>1, <1>3, <3>1, ConcatDistinct
    <3>3. drain'[d].lines = <<>>
      BY <2>3 DEF Fails, Becomes, Resting, TypeOK
    <3>4. QED
      BY <1>3, <3>1, <3>2, <3>3, EmptySet
  <2>4. QED
    BY <2>1, <2>2, <2>3
<1>5. NumbersMade' /\ NoRepeats'
  BY <1>1, <1>2, <1>3, <1>4 DEF LineInv, NumbersMade, NoRepeats
<1>6. \A e \in Drains \ {d} :
         drain[e].lines # <<>> /\ drain[e].q = q
         => ToSet(drain[e].lines) \cap (ToSet(queue[q]) \cup ToSet(drain[d].lines)) = {}
  BY DEF LineInv, Apart
<1>7. ASSUME NEW e \in Drains, drain'[e].lines # <<>>
      PROVE  /\ At(e, "sending")'
             /\ ToSet(drain'[e].lines) \cap ToSet(queue'[drain'[e].q]) = {}
             /\ \A f \in Drains \ {e} :
                   drain'[f].q = drain'[e].q
                   => ToSet(drain'[e].lines) \cap ToSet(drain'[f].lines) = {}
  <2>1. CASE e = d
    <3>1. drain'[d].q = q /\ At(d, "sending")'
      BY <1>4, <1>7, <2>1
    <3>2. ASSUME NEW f \in Drains \ {d}, drain'[f].q = q
          PROVE  ToSet(drain'[d].lines) \cap ToSet(drain'[f].lines) = {}
      <4>1. CASE drain[f].lines = <<>>
        BY <1>2, <4>1, EmptySet
      <4>2. CASE drain[f].lines # <<>>
        BY <1>2, <1>4, <1>6, <3>2, <4>2
      <4>3. QED
        BY <4>1, <4>2
    <3>3. QED
      BY <1>4, <2>1, <3>1, <3>2
  <2>2. CASE e # d
    <3>1. drain'[e] = drain[e] /\ drain[e].lines # <<>> /\ At(e, "sending")
      BY <1>2, <1>7, <2>2 DEF LineInv, Apart
    <3>2. drain[e].q \in Queues
      BY <3>1 DEF TypeOK, At
    <3>3. ToSet(drain[e].lines) \cap ToSet(queue'[drain[e].q]) = {}
      <4>1. CASE drain[e].q = q
        BY <1>4, <1>6, <2>2, <3>1, <4>1
      <4>2. CASE drain[e].q # q
        BY <1>2, <3>1, <3>2, <4>2 DEF LineInv, Apart
      <4>3. QED
        BY <4>1, <4>2
    <3>4. ASSUME NEW f \in Drains \ {e}, drain'[f].q = drain[e].q
          PROVE  ToSet(drain[e].lines) \cap ToSet(drain'[f].lines) = {}
      <4>1. CASE drain'[f].lines = <<>>
        BY <4>1, EmptySet
      <4>2. CASE drain'[f].lines # <<>> /\ f = d
        BY <1>4, <1>6, <2>2, <3>1, <3>4, <4>2
      <4>3. CASE drain'[f].lines # <<>> /\ f # d
        BY <1>2, <3>1, <3>4, <4>3 DEF LineInv, Apart
      <4>4. QED
        BY <4>1, <4>2, <4>3
    <3>5. QED
      BY <3>1, <3>3, <3>4 DEF At
  <2>3. QED
    BY <2>1, <2>2
<1>8. QED
  BY <1>5, <1>7 DEF LineInv, Apart

LEMMA LineStep == TypeOK /\ LineInv /\ [Next]_vars => LineInv'
<1> SUFFICES ASSUME TypeOK, LineInv, [Next]_vars PROVE LineInv'
  OBVIOUS
<1>1. ASSUME NEW q \in Queues, NEW d \in Drains, Post(q, d) PROVE LineInv'
  BY <1>1, PostLines
<1>2. ASSUME NEW d \in Drains, Look(d) \/ Note(d) PROVE LineInv'
  BY <1>2, DrainSteps, LinesKept
<1>3. ASSUME NEW d \in Drains, Take(d) \/ Write(d) \/ Fails(d) PROVE LineInv'
  BY <1>3, MoveLines
<1>4. CASE TurnEnds
  BY <1>4, TurnEndsLines, LinesKept
<1>5. CASE OtherStep
  BY <1>5, OtherLines, LinesKept
<1>6. QED
  BY <1>1, <1>2, <1>3, <1>4, <1>5 DEF Next, DrainNext, OtherStep

LEMMA LineInvariant == Spec => []LineInv
<1>1. Init => LineInv
  BY ConstantsAssumption, EmptySet
     DEF ConstantsAssumption, Init, LineInv, NumbersMade, NoRepeats, Apart, Resting
<1>2. QED
  BY <1>1, LineStep, TypeCorrect, PTL DEF Spec

-----------------------------------------------------------------------------
(* The promise *)

Waiting(q) == ToSet(queue[q]) \cup Held(q)

ToldTo(q) == ToSet(got[q])

LEMMA HeldElements ==
    ASSUME NEW q \in Queues, NEW x
    PROVE  /\ x \in Held(q) <=>
                 \E d \in Drains : drain[d].q = q /\ x \in ToSet(drain[d].lines)
           /\ x \in Held(q)' <=>
                 \E d \in Drains : drain'[d].q = q /\ x \in ToSet(drain'[d].lines)
  BY DEF Held

LEMMA SameCardinality ==
    ASSUME NEW S
    PROVE  Promise!Cardinality(S) = Cardinality(S)
  BY DEF Promise!Cardinality, Cardinality

LEMMA FunctionUpdate ==
    ASSUME NEW S, NEW f, NEW g, f = [p \in S |-> f[p]], g = [p \in S |-> g[p]],
           NEW q \in S, \A p \in S \ {q} : g[p] = f[p]
    PROVE  g = [f EXCEPT ![q] = g[q]]
  OBVIOUS

\* A step that moves no line is a stutter of the promise.
LEMMA Stutter ==
    ASSUME \A q \in Queues : Waiting(q)' = Waiting(q) /\ ToldTo(q)' = ToldTo(q)
    PROVE  UNCHANGED Promise!wakeVars
  BY DEF Waiting, ToldTo, Promise!wakeVars

LEMMA LinesKeptWaiting ==
    ASSUME LineInv, UNCHANGED <<queue, got>>,
           \A d \in Drains : /\ drain'[d].lines = drain[d].lines
                             /\ drain[d].lines # <<>> => drain'[d] = drain[d]
    PROVE  UNCHANGED Promise!wakeVars
<1>1. ASSUME NEW d \in Drains, NEW q \in Queues, NEW x
      PROVE  (drain'[d].q = q /\ x \in ToSet(drain'[d].lines))
             <=> (drain[d].q = q /\ x \in ToSet(drain[d].lines))
  <2>1. CASE drain[d].lines = <<>>
    BY <2>1, EmptySet
  <2>2. CASE drain[d].lines # <<>>
    BY <2>2
  <2>3. QED
    BY <2>1, <2>2
<1>2. ASSUME NEW q \in Queues PROVE Waiting(q)' = Waiting(q)
  <2>1. ASSUME NEW x PROVE x \in Held(q)' <=> x \in Held(q)
    BY <1>1, HeldElements
  <2>2. QED
    BY <2>1 DEF Waiting
<1>3. QED
  BY <1>2, Stutter DEF ToldTo

\* A line put in waits, and pushes at most one other out of a full queue.
LEMMA PostIsPut ==
    ASSUME TypeOK, LineInv, NEW q \in Queues, NEW d \in Drains, Post(q, d)
    PROVE  Promise!WakeNext
<1> DEFINE n == made + 1
<1>1. /\ n \in Lines /\ made \in Nat /\ UNCHANGED got
      /\ \A p \in Queues \ {q} : queue'[p] = queue[p]
  BY PostQueue DEF Lines, TypeOK
<1>2. \A p \in Queues : Held(p)' = Held(p)
  <2>1. \A e \in Drains : /\ drain'[e].lines = drain[e].lines
                          /\ drain[e].lines # <<>> => drain'[e] = drain[e]
    BY DrainSteps
  <2>2. ASSUME NEW e \in Drains, NEW p \in Queues, NEW x
        PROVE  (drain'[e].q = p /\ x \in ToSet(drain'[e].lines))
               <=> (drain[e].q = p /\ x \in ToSet(drain[e].lines))
    <3>1. CASE drain[e].lines = <<>>
      BY <2>1, <3>1, EmptySet
    <3>2. CASE drain[e].lines # <<>>
      BY <2>1, <3>2
    <3>3. QED
      BY <3>1, <3>2
  <2>3. ASSUME NEW p \in Queues, NEW x PROVE x \in Held(p)' <=> x \in Held(p)
    BY <2>2, HeldElements
  <2>4. QED
    BY <2>3
<1>3. Waiting(q) \subseteq 1..made /\ ToldTo(q) \subseteq 1..made
  BY HeldElements DEF Waiting, ToldTo, LineInv, NumbersMade
<1>4. n \notin Waiting(q) \cup ToldTo(q)
  BY <1>1, <1>3
<1>5. \A p \in Queues \ {q} : Waiting(p)' = Waiting(p)
  BY <1>1, <1>2 DEF Waiting
<1>6. \/ Waiting(q)' = Waiting(q) \cup {n}
      \/ /\ q \in Capped /\ Cardinality(Waiting(q)) >= Cap
         /\ \E old \in Waiting(q) : Waiting(q)' = (Waiting(q) \ {old}) \cup {n}
  <2>1. CASE ToSet(queue'[q]) = ToSet(queue[q]) \cup {n}
    BY <1>2, <2>1 DEF Waiting
  <2>2. ASSUME q \in Capped, Cardinality(ToSet(queue[q])) >= Cap,
               NEW old \in ToSet(queue[q]),
               ToSet(queue'[q]) = (ToSet(queue[q]) \ {old}) \cup {n}
        PROVE  /\ q \in Capped /\ Cardinality(Waiting(q)) >= Cap
               /\ \E o \in Waiting(q) : Waiting(q)' = (Waiting(q) \ {o}) \cup {n}
    <3>1. IsFiniteSet(1..made)
      BY <1>1, FS_Interval
    <3>2. IsFiniteSet(Waiting(q)) /\ ToSet(queue[q]) \in SUBSET Waiting(q)
      BY <1>3, <3>1, FS_Subset DEF Waiting
    <3>3. /\ Cardinality(ToSet(queue[q])) <= Cardinality(Waiting(q))
          /\ Cardinality(ToSet(queue[q])) \in Nat /\ Cardinality(Waiting(q)) \in Nat
      BY <3>2, FS_Subset, FS_CardinalityType
    <3>4. Cardinality(Waiting(q)) >= Cap
      BY <2>2, <3>3, ConstantsAssumption DEF ConstantsAssumption
    <3>5. old \notin Held(q)
      <4>1. ASSUME NEW e \in Drains, drain[e].q = q, old \in ToSet(drain[e].lines)
            PROVE  FALSE
        BY <2>2, <4>1, EmptySet DEF LineInv, Apart
      <4>2. QED
        BY <4>1 DEF Held
    <3>6. Waiting(q)' = (Waiting(q) \ {old}) \cup {n}
      BY <1>2, <2>2, <3>5 DEF Waiting
    <3>7. QED
      BY <2>2, <3>4, <3>6 DEF Waiting
  <2>3. QED
    BY <2>1, <2>2, PostQueue
<1> DEFINE w == [p \in Queues |-> ToSet(queue[p]) \cup Held(p)]
<1>7. w = [p \in Queues |-> Waiting(p)] /\ w' = [p \in Queues |-> Waiting(p)']
  BY DEF Waiting
<1>a. \A p \in Queues : w[p] = Waiting(p) /\ w'[p] = Waiting(p)'
  BY <1>7
<1>b. w = [p \in Queues |-> w[p]] /\ w' = [p \in Queues |-> w'[p]]
  OBVIOUS
<1> HIDE DEF w
<1>c. w' = [w EXCEPT ![q] = w'[q]]
  BY <1>5, <1>a, <1>b, FunctionUpdate
<1>8. \/ w' = [w EXCEPT ![q] = @ \cup {n}]
      \/ /\ q \in Capped /\ Cardinality(w[q]) >= Cap
         /\ \E old \in w[q] : w' = [w EXCEPT ![q] = (@ \ {old}) \cup {n}]
  BY <1>6, <1>a, <1>c
<1>9. Promise!Put(q, n)
  BY <1>1, <1>4, <1>8, <1>a, SameCardinality DEF w, Promise!Put, ToldTo
<1>10. QED
  BY <1>1, <1>9 DEF Promise!WakeNext

\* A drain's lines are told in one prompt.
LEMMA WriteTells ==
    ASSUME TypeOK, LineInv, NEW d \in Drains, Write(d)
    PROVE  Promise!WakeNext
<1>0. PICK q \in Queues : q = drain[d].q
  BY DEF TypeOK, Write, At
<1> DEFINE batch == ToSet(drain[d].lines)
<1>1. /\ q = drain[d].q /\ drain[d].lines \in Seq(Nat) /\ got[q] \in Seq(Nat)
  BY <1>0 DEF TypeOK, DrainType, Write, At
<1>2. /\ queue' = queue /\ drain'[d].lines = <<>>
      /\ \A e \in Drains \ {d} : drain'[e] = drain[e]
      /\ \A p \in Queues \ {q} : got'[p] = got[p]
      /\ got'[q] = got[q] \o drain[d].lines
  BY <1>1 DEF Write, Becomes, Step, TypeOK
<1>3. batch \subseteq Waiting(q)
  BY <1>1, HeldElements DEF Waiting
<1>4. \A p \in Queues \ {q} : Waiting(p)' = Waiting(p) /\ ToldTo(p)' = ToldTo(p)
  <2>1. ASSUME NEW p \in Queues \ {q} PROVE Held(p)' = Held(p)
    <3>1. ASSUME NEW x PROVE x \in Held(p)' <=> x \in Held(p)
      <4>1. x \notin ToSet(drain'[d].lines) /\ drain[d].q # p
        BY <1>1, <1>2, EmptySet, <2>1
      <4>2. QED
        BY <1>2, <4>1, HeldElements
    <3>2. QED
      BY <3>1
  <2>2. QED
    BY <1>2, <2>1 DEF Waiting, ToldTo
<1>5. Waiting(q)' = Waiting(q) \ batch
  <2>1. batch \cap ToSet(queue[q]) = {}
    BY <1>1, EmptySet DEF LineInv, Apart
  <2>2. ASSUME NEW e \in Drains \ {d}, drain[e].q = q
        PROVE  batch \cap ToSet(drain[e].lines) = {}
    BY <1>1, <2>2, EmptySet DEF LineInv, Apart
  <2>3. Held(q)' = Held(q) \ batch
    <3>1. ASSUME NEW x PROVE x \in Held(q)' <=> x \in Held(q) \ batch
      <4>1. x \notin ToSet(drain'[d].lines)
        BY <1>2, EmptySet
      <4>2. \A e \in Drains \ {d} :
               drain[e].q = q /\ x \in ToSet(drain[e].lines) => x \notin batch
        BY <2>2
      <4>3. ASSUME x \in Held(q)' PROVE x \in Held(q) /\ x \notin batch
        <5>1. PICK e \in Drains : drain'[e].q = q /\ x \in ToSet(drain'[e].lines)
          BY <1>0, <4>3, HeldElements
        <5>2. e # d /\ drain'[e] = drain[e]
          BY <1>2, <4>1, <5>1
        <5>3. drain[e].q = q /\ x \in ToSet(drain[e].lines)
          BY <5>1, <5>2
        <5>4. x \in Held(q)
          BY <1>0, <5>3, HeldElements
        <5>5. QED
          BY <4>2, <5>2, <5>3, <5>4
      <4>4. ASSUME x \in Held(q), x \notin batch PROVE x \in Held(q)'
        <5>1. PICK e \in Drains : drain[e].q = q /\ x \in ToSet(drain[e].lines)
          BY <1>0, <4>4, HeldElements
        <5>2. drain'[e] = drain[e]
          BY <1>2, <4>4, <5>1
        <5>3. drain'[e].q = q /\ x \in ToSet(drain'[e].lines)
          BY <5>1, <5>2
        <5>4. QED
          BY <1>0, <5>3, HeldElements
      <4>5. QED
        BY <4>3, <4>4
    <3>2. QED
      BY <3>1
  <2>4. QED
    BY <1>2, <2>1, <2>3 DEF Waiting
<1>6. ToldTo(q)' = ToldTo(q) \cup batch
  BY <1>1, <1>2, ConcatDistinct DEF ToldTo
<1> DEFINE w == [p \in Queues |-> ToSet(queue[p]) \cup Held(p)]
           t == [p \in Queues |-> ToSet(got[p])]
<1>7. /\ w = [p \in Queues |-> Waiting(p)] /\ w' = [p \in Queues |-> Waiting(p)']
      /\ t = [p \in Queues |-> ToldTo(p)] /\ t' = [p \in Queues |-> ToldTo(p)']
  BY DEF Waiting, ToldTo
<1>a. \A p \in Queues : /\ w[p] = Waiting(p) /\ w'[p] = Waiting(p)'
                       /\ t[p] = ToldTo(p) /\ t'[p] = ToldTo(p)'
  BY <1>7
<1>b. /\ w = [p \in Queues |-> w[p]] /\ w' = [p \in Queues |-> w'[p]]
      /\ t = [p \in Queues |-> t[p]] /\ t' = [p \in Queues |-> t'[p]]
  OBVIOUS
<1> HIDE DEF w, t
<1>c. w' = [w EXCEPT ![q] = w'[q]] /\ t' = [t EXCEPT ![q] = t'[q]]
  BY <1>1, <1>4, <1>a, <1>b, FunctionUpdate
<1>8. /\ w' = [w EXCEPT ![q] = @ \ batch] /\ t' = [t EXCEPT ![q] = @ \cup batch]
      /\ batch \in SUBSET w[q]
  BY <1>1, <1>3, <1>5, <1>6, <1>a, <1>c
<1>9. Promise!Tell(q, batch)
  BY <1>8 DEF w, t, Promise!Tell
<1>10. QED
  BY <1>1, <1>8, <1>9 DEF w, Promise!WakeNext

\* A drain that takes its queue, or puts lines back, only moves them.
LEMMA MoveStutters ==
    ASSUME TypeOK, LineInv, NEW d \in Drains, Take(d) \/ Fails(d)
    PROVE  UNCHANGED Promise!wakeVars
<1> DEFINE q == drain[d].q
<1>1. /\ q \in Queues /\ drain[d].lines \in Seq(Nat) /\ queue[q] \in Seq(Nat)
  BY DEF TypeOK, DrainType, Take, Fails, At
<1>2. /\ got' = got
      /\ \A e \in Drains \ {d} : drain'[e] = drain[e]
      /\ \A p \in Queues \ {q} : queue'[p] = queue[p]
  BY <1>1 DEF Take, Fails, Becomes, TypeOK
<1>3. /\ ToSet(queue'[q]) \cup ToSet(drain'[d].lines)
            = ToSet(queue[q]) \cup ToSet(drain[d].lines)
      /\ drain'[d].lines # <<>> => drain'[d].q = q
  <2>1. CASE Take(d)
    <3>1. queue'[q] = <<>> /\ drain[d].lines = <<>>
      BY <1>1, <2>1 DEF Take, TypeOK, LineInv, Apart, At
    <3>2. \/ queue[q] = <<>> /\ drain'[d] = Resting
          \/ drain'[d] = Step(d, "sending", queue[q])
      BY <2>1 DEF Take, Becomes, TypeOK
    <3>3. QED
      BY <3>1, <3>2, EmptySet DEF Resting, Step
  <2>2. CASE Fails(d)
    <3>1. queue'[q] = drain[d].lines \o queue[q] /\ drain'[d].lines = <<>>
      BY <1>1, <2>2 DEF Fails, PutBack, TypeOK, Becomes, Resting
    <3>2. QED
      BY <1>1, <3>1, ConcatDistinct, EmptySet
  <2>3. QED
    BY <2>1, <2>2
<1>4. ASSUME NEW p \in Queues, NEW x PROVE x \in Waiting(p)' <=> x \in Waiting(p)
  <2>1. CASE p = q
    BY <1>2, <1>3, <2>1, EmptySet DEF Waiting, Held
  <2>2. CASE p # q
    BY <1>2, <1>3, <2>2, EmptySet DEF Waiting, Held
  <2>3. QED
    BY <2>1, <2>2
<1>5. \A p \in Queues : Waiting(p)' = Waiting(p) /\ ToldTo(p)' = ToldTo(p)
  BY <1>2, <1>4 DEF ToldTo
<1>6. QED
  BY <1>5, Stutter

LEMMA PromiseStep ==
    TypeOK /\ LineInv /\ [Next]_vars => [Promise!WakeNext]_(Promise!wakeVars)
<1> SUFFICES ASSUME TypeOK, LineInv, [Next]_vars
             PROVE  Promise!WakeNext \/ UNCHANGED Promise!wakeVars
  OBVIOUS
<1>1. ASSUME NEW q \in Queues, NEW d \in Drains, Post(q, d) PROVE Promise!WakeNext
  BY <1>1, PostIsPut
<1>2. ASSUME NEW d \in Drains, Look(d) \/ Note(d) PROVE UNCHANGED Promise!wakeVars
  BY <1>2, DrainSteps, LinesKeptWaiting
<1>3. ASSUME NEW d \in Drains, Write(d) PROVE Promise!WakeNext
  BY <1>3, WriteTells
<1>4. ASSUME NEW d \in Drains, Take(d) \/ Fails(d) PROVE UNCHANGED Promise!wakeVars
  BY <1>4, MoveStutters
<1>5. CASE TurnEnds
  BY <1>5, TurnEndsLines, LinesKeptWaiting
<1>6. CASE OtherStep
  BY <1>6, OtherLines, LinesKeptWaiting
<1>7. QED
  BY <1>1, <1>2, <1>3, <1>4, <1>5, <1>6 DEF Next, DrainNext, OtherStep

LEMMA PromiseInitially == Init => Promise!WakeInit
<1> SUFFICES ASSUME Init PROVE Promise!WakeInit
  OBVIOUS
<1>1. \A q \in Queues : Held(q) = {} /\ ToSet(queue[q]) = {} /\ ToSet(got[q]) = {}
  BY EmptySet DEF Init, Held, Resting
<1>2. QED
  BY <1>1 DEF Promise!WakeInit

\* The queues and their drains implement WakePromise: a line is told once or
\* waits, unless newer lines push it out of a full channel. A failed send, a
\* dead child or drains that overlap lose and repeat none (jarvis_wake.rs: drain).
THEOREM PromiseKept == Spec => KeepsPromise
  BY PromiseStep, PromiseInitially, LineInvariant, TypeCorrect, PTL
     DEF Spec, KeepsPromise, Promise!WakeSpec

-----------------------------------------------------------------------------
(* One send at a time.  Where no two tasks are between looking at the row and
   marking it busy, the lines go out in order and never into a turn. *)

Active(d) == drain[d].pc \in {"taking", "sending", "written"}

Serial ==
    /\ \A d, e \in Drains : Active(d) /\ Active(e) => d = e
    /\ \A d \in Drains : Active(d) => sender = "idle"

\* Only a look makes a drain active, and it finds no other at work.
LEMMA SerialStep ==
    ASSUME "overlap" \notin Env, TypeOK, Serial, [Next]_vars
    PROVE  Serial'
<1>1. ASSUME NEW d \in Drains, NEW q \in Queues, Post(q, d) PROVE Serial'
  <2>1. \A e \in Drains : Active(e)' => Active(e)
    BY <1>1 DEF Post, Becomes, Start, Active, TypeOK
  <2>2. QED
    BY <1>1, <2>1 DEF Post, Serial
<1>2. ASSUME NEW d \in Drains, Look(d) PROVE Serial'
  <2>1. sender = "idle" /\ \A e \in Drains : ~Active(e)
    BY <1>2 DEF Look, MayLook, SendUnderWay, Active
  <2>2. \A e \in Drains \ {d} : ~Active(e)'
    BY <1>2, <2>1 DEF Look, Becomes, Active, TypeOK
  <2>3. QED
    BY <1>2, <2>1, <2>2 DEF Look, Serial
<1>3. ASSUME NEW d \in Drains, Take(d) \/ Write(d) \/ Fails(d) \/ Note(d)
      PROVE  Serial'
  <2>1. \A e \in Drains : Active(e)' => Active(e)
    BY <1>3 DEF Take, Write, Fails, Note, At, Becomes, Step, Resting, Active, TypeOK
  <2>2. QED
    BY <1>3, <2>1 DEF Take, Write, Fails, Note, Serial
<1>4. CASE TurnEnds
  <2>1. \A e \in Drains : drain'[e] = drain[e] \/ \E q \in Queues : drain'[e] = Start(q)
    <3>1. PICK task \in [ToDrain -> {d \in Drains : At(d, "idle")}] :
            drain' = [d \in Drains |-> IF \E q \in ToDrain : task[q] = d
                                       THEN Start(CHOOSE q \in ToDrain : task[q] = d)
                                       ELSE drain[d]]
      BY <1>4 DEF TurnEnds
    <3>2. QED
      BY <3>1 DEF ToDrain
  <2>2. ASSUME NEW e \in Drains PROVE Active(e)' => Active(e)
    <3>1. CASE drain'[e] = drain[e]
      BY <3>1 DEF Active
    <3>2. ASSUME NEW q \in Queues, drain'[e] = Start(q) PROVE ~Active(e)'
      BY <3>2 DEF Active, Start
    <3>3. QED
      BY <2>1, <3>1, <3>2
  <2>3. QED
    BY <1>4, <2>2 DEF TurnEnds, Serial
<1>5. CASE SenderLooks
  <2>1. \A e \in Drains : ~Active(e)'
    BY <1>5 DEF SenderLooks, MayLook, SendUnderWay, Active
  <2>2. QED
    BY <2>1 DEF Serial
<1>6. CASE SenderNext
  <2>1. UNCHANGED drain /\ sender # "idle"
    BY <1>6 DEF SenderNext, SenderWrites, SenderNotes, SenderFails
  <2>2. QED
    BY <2>1 DEF Serial, Active
<1>7. CASE TurnStarts \/ ChildExits \/ ChildDies \/ End \/ UNCHANGED vars
  <2>1. UNCHANGED <<drain, sender>>
    BY <1>7 DEF TurnStarts, ChildExits, ChildDies, End, vars
  <2>2. QED
    BY <2>1 DEF Serial, Active
<1>8. QED
  BY <1>1, <1>2, <1>3, <1>4, <1>5, <1>6, <1>7 DEF Next, DrainNext

LEMMA SerialInvariant ==
    ASSUME "overlap" \notin Env
    PROVE  Spec => []Serial
<1>1. Init => Serial
  BY DEF Init, Serial, Active, Resting
<1>2. TypeOK /\ Serial /\ [Next]_vars => Serial'
  BY SerialStep
<1>3. QED
  BY <1>1, <1>2, TypeCorrect, PTL DEF Spec

-----------------------------------------------------------------------------
(* The order of the lines *)

Increasing(s) == \A i, j \in DOMAIN s : i < j => s[i] < s[j]

Below(S, T) == \A m \in S, n \in T : m < n

LEMMA AppendIncreasing ==
    ASSUME NEW s \in Seq(Nat), NEW n \in Nat, Increasing(s), Below(ToSet(s), {n})
    PROVE  Increasing(Append(s, n))
<1>1. /\ Len(s) \in Nat /\ DOMAIN s = 1..Len(s)
      /\ DOMAIN Append(s, n) = 1..Len(s) + 1
      /\ \A i \in 1..Len(s) : Append(s, n)[i] = s[i]
      /\ Append(s, n)[Len(s) + 1] = n
  OBVIOUS
<1>2. \A i \in DOMAIN s : s[i] < n
  BY InToSet DEF Below
<1>3. QED
  BY <1>1, <1>2 DEF Increasing

LEMMA TailIncreasing ==
    ASSUME NEW s \in Seq(Nat), s # <<>>, Increasing(s)
    PROVE  Increasing(Tail(s))
<1>1. /\ Len(s) \in Nat \ {0} /\ DOMAIN s = 1..Len(s)
      /\ Tail(s) \in Seq(Nat) /\ Len(Tail(s)) = Len(s) - 1
      /\ \A i \in 1..Len(s) - 1 : Tail(s)[i] = s[i + 1]
  OBVIOUS
<1>2. DOMAIN Tail(s) = 1..Len(s) - 1
  BY <1>1
<1>3. \A i \in DOMAIN Tail(s) : i \in Nat /\ i + 1 \in DOMAIN s /\ Tail(s)[i] = s[i + 1]
  BY <1>1, <1>2
<1>4. QED
  BY <1>3 DEF Increasing

LEMMA ConcatIncreasing ==
    ASSUME NEW s \in Seq(Nat), NEW t \in Seq(Nat), Increasing(s), Increasing(t),
           Below(ToSet(s), ToSet(t))
    PROVE  Increasing(s \o t)
<1>1. /\ s \o t \in Seq(Nat) /\ Len(s \o t) = Len(s) + Len(t)
      /\ \A i \in 1..Len(s) + Len(t) :
            (s \o t)[i] = IF i <= Len(s) THEN s[i] ELSE t[i - Len(s)]
  OBVIOUS
<1>2. /\ DOMAIN s = 1..Len(s) /\ DOMAIN t = 1..Len(t)
      /\ DOMAIN (s \o t) = 1..Len(s) + Len(t) /\ Len(s) \in Nat /\ Len(t) \in Nat
  BY <1>1
<1>3. \A i \in DOMAIN s, j \in DOMAIN t : s[i] < t[j]
  BY InToSet DEF Below
<1>4. ASSUME NEW i \in DOMAIN (s \o t), NEW j \in DOMAIN (s \o t), i < j
      PROVE  (s \o t)[i] < (s \o t)[j]
  <2>1. CASE j <= Len(s)
    BY <1>1, <1>2, <1>4, <2>1 DEF Increasing
  <2>2. CASE i > Len(s)
    BY <1>1, <1>2, <1>4, <2>2 DEF Increasing
  <2>3. CASE i <= Len(s) /\ j > Len(s)
    <3>1. i \in DOMAIN s /\ j - Len(s) \in DOMAIN t
      BY <1>2, <1>4, <2>3
    <3>2. QED
      BY <1>1, <1>2, <1>3, <1>4, <2>3, <3>1
  <2>4. QED
    BY <1>2, <1>4, <2>1, <2>2, <2>3
<1>5. QED
  BY <1>4 DEF Increasing

\* What was told is older than what a drain holds, and that older than what
\* waits.
Sorted ==
    /\ \A q \in Queues : /\ Increasing(queue[q]) /\ Increasing(got[q])
                         /\ Below(ToSet(got[q]), ToSet(queue[q]))
    /\ \A d \in Drains : Increasing(drain[d].lines)
    /\ \A d \in Drains, q \in Queues : drain[d].q = q =>
          /\ Below(ToSet(got[q]), ToSet(drain[d].lines))
          /\ Below(ToSet(drain[d].lines), ToSet(queue[q]))

LEMMA SortedKept ==
    ASSUME Sorted, UNCHANGED <<queue, got>>,
           \A d \in Drains : /\ drain'[d].lines = drain[d].lines
                             /\ drain[d].lines # <<>> => drain'[d] = drain[d]
    PROVE  Sorted'
<1>1. ASSUME NEW d \in Drains, NEW q \in Queues, drain'[d].q = q
      PROVE  /\ Below(ToSet(got[q]), ToSet(drain'[d].lines))
             /\ Below(ToSet(drain'[d].lines), ToSet(queue[q]))
  <2>1. CASE drain[d].lines = <<>>
    BY <2>1, EmptySet DEF Below
  <2>2. CASE drain[d].lines # <<>>
    BY <1>1, <2>2 DEF Sorted
  <2>3. QED
    BY <2>1, <2>2
<1>2. QED
  BY <1>1 DEF Sorted

\* A line put in is the newest of all.
LEMMA SortedPost ==
    ASSUME TypeOK, LineInv, Sorted, NEW q \in Queues, NEW d \in Drains, Post(q, d)
    PROVE  Sorted'
<1>1. /\ made \in Nat /\ queue[q] \in Seq(Nat) /\ got' = got
      /\ queue'[q] = Append(Room(q), made + 1)
      /\ \A p \in Queues \ {q} : queue'[p] = queue[p]
  BY DEF TypeOK, Post
<1>2. /\ \A p \in Queues : Below(ToSet(got[p]), {made + 1}) /\ Below(ToSet(queue[p]), {made + 1})
      /\ \A e \in Drains : Below(ToSet(drain[e].lines), {made + 1})
  <2>1. ASSUME NEW S \in SUBSET (1..made) PROVE Below(S, {made + 1})
    BY <1>1 DEF Below
  <2>2. QED
    BY <2>1 DEF LineInv, NumbersMade
<1>3. ToSet(queue'[q]) \subseteq ToSet(queue[q]) \cup {made + 1}
  BY PostQueue
<1>4. Increasing(queue'[q])
  <2>1. Len(queue[q]) >= Cap => queue[q] # <<>>
    BY <1>1, ConstantsAssumption DEF ConstantsAssumption
  <2>2. /\ Room(q) \in Seq(Nat) /\ Increasing(Room(q))
        /\ ToSet(Room(q)) \subseteq ToSet(queue[q])
    BY <1>1, <2>1, TailIncreasing, TailDistinct DEF Room, Sorted, LineInv, NoRepeats
  <2>3. Below(ToSet(Room(q)), {made + 1}) /\ made + 1 \in Nat
    BY <1>1, <1>2, <2>2 DEF Below
  <2>4. QED
    BY <1>1, <2>2, <2>3, AppendIncreasing
<1>5. \A e \in Drains : /\ drain'[e].lines = drain[e].lines
                        /\ drain[e].lines # <<>> => drain'[e] = drain[e]
  BY DrainSteps
<1>6. ASSUME NEW p \in Queues
      PROVE  /\ Increasing(queue'[p]) /\ Increasing(got'[p])
             /\ Below(ToSet(got'[p]), ToSet(queue'[p]))
  <2>1. CASE p = q
    BY <1>1, <1>2, <1>3, <1>4, <2>1 DEF Sorted, Below
  <2>2. CASE p # q
    BY <1>1, <2>2 DEF Sorted
  <2>3. QED
    BY <2>1, <2>2
<1>7. ASSUME NEW e \in Drains, NEW p \in Queues, drain'[e].q = p
      PROVE  /\ Below(ToSet(got'[p]), ToSet(drain'[e].lines))
             /\ Below(ToSet(drain'[e].lines), ToSet(queue'[p]))
  <2>1. CASE drain[e].lines = <<>>
    BY <1>5, <2>1, EmptySet DEF Below
  <2>2. CASE drain[e].lines # <<>>
    <3>1. drain'[e] = drain[e] /\ drain[e].q = p
      BY <1>5, <1>7, <2>2
    <3>2. ToSet(queue'[p]) \subseteq ToSet(queue[p]) \cup {made + 1}
      BY <1>1, <1>3
    <3>3. QED
      BY <1>1, <1>2, <3>1, <3>2 DEF Sorted, Below
  <2>3. QED
    BY <2>1, <2>2
<1>8. QED
  BY <1>5, <1>6, <1>7 DEF Sorted

\* The lines of one queue move towards got, in order: no other drain holds any.
LEMMA SortedMoves ==
    ASSUME TypeOK, LineInv, Serial, Sorted, NEW d \in Drains,
           Take(d) \/ Write(d) \/ Fails(d)
    PROVE  Sorted'
<1> DEFINE q == drain[d].q
<1>1. /\ q \in Queues /\ drain[d].lines \in Seq(Nat) /\ queue[q] \in Seq(Nat)
      /\ got[q] \in Seq(Nat) /\ Active(d)
  BY DEF TypeOK, DrainType, Take, Write, Fails, At, Active
<1>2. \A e \in Drains \ {d} : drain[e].lines = <<>> /\ drain'[e] = drain[e]
  <2>1. \A e \in Drains : drain[e].lines # <<>> => Active(e)
    BY DEF LineInv, Apart, At, Active
  <2>2. \A e \in Drains \ {d} : drain[e].lines = <<>>
    BY <1>1, <2>1 DEF Serial
  <2>3. QED
    BY <2>2 DEF Take, Write, Fails, Becomes, TypeOK
<1>3. \A p \in Queues \ {q} : queue'[p] = queue[p] /\ got'[p] = got[p]
  BY <1>1 DEF Take, Write, Fails, TypeOK
<1>4. /\ Increasing(queue[q]) /\ Increasing(got[q]) /\ Increasing(drain[d].lines)
      /\ Below(ToSet(got[q]), ToSet(queue[q]))
      /\ Below(ToSet(got[q]), ToSet(drain[d].lines))
      /\ Below(ToSet(drain[d].lines), ToSet(queue[q]))
  BY <1>1 DEF Sorted
<1> HIDE DEF q
<1>e. /\ Increasing(<<>>) /\ ToSet(<<>>) = {}
      /\ \A S : Below(S, {}) /\ Below({}, S)
  BY EmptySet DEF Increasing, Below
<1>5. /\ Increasing(queue'[q]) /\ Increasing(got'[q]) /\ Increasing(drain'[d].lines)
      /\ Below(ToSet(got'[q]), ToSet(queue'[q]))
      /\ Below(ToSet(got'[q]), ToSet(drain'[d].lines))
      /\ Below(ToSet(drain'[d].lines), ToSet(queue'[q]))
      /\ drain'[d].lines # <<>> => drain'[d].q = q
  <2>1. CASE Take(d)
    <3>1. got' = got /\ queue'[q] = <<>>
      BY <1>1, <2>1 DEF Take, TypeOK, q
    <3>2. CASE queue[q] = <<>>
      BY <1>1, <1>4, <1>e, <2>1, <3>1, <3>2 DEF Take, Becomes, Resting, TypeOK, q
    <3>3. CASE queue[q] # <<>>
      <4>1. drain'[d].lines = queue[q] /\ drain'[d].q = q
        BY <1>1, <2>1, <3>3 DEF Take, Becomes, Step, TypeOK, q
      <4>2. QED
        BY <1>4, <1>e, <3>1, <4>1
    <3>4. QED
      BY <3>2, <3>3
  <2>2. CASE Write(d)
    <3>1. /\ queue' = queue /\ got'[q] = got[q] \o drain[d].lines
          /\ drain'[d].lines = <<>>
      BY <1>1, <2>2 DEF Write, Becomes, Step, TypeOK, q
    <3>2. Increasing(got'[q])
      BY <1>1, <1>4, <3>1, ConcatIncreasing
    <3>3. ToSet(got'[q]) = ToSet(got[q]) \cup ToSet(drain[d].lines)
      BY <1>1, <3>1, ConcatDistinct
    <3>4. Below(ToSet(got'[q]), ToSet(queue'[q]))
      BY <1>4, <3>1, <3>3 DEF Below
    <3>5. QED
      BY <1>4, <1>e, <3>1, <3>2, <3>4
  <2>3. CASE Fails(d)
    <3>1. /\ got' = got /\ queue'[q] = drain[d].lines \o queue[q]
          /\ drain'[d].lines = <<>>
      BY <1>1, <2>3 DEF Fails, PutBack, Becomes, Resting, TypeOK, q
    <3>2. Increasing(queue'[q])
      BY <1>1, <1>4, <3>1, ConcatIncreasing
    <3>3. ToSet(queue'[q]) = ToSet(drain[d].lines) \cup ToSet(queue[q])
      BY <1>1, <3>1, ConcatDistinct
    <3>4. Below(ToSet(got'[q]), ToSet(queue'[q]))
      BY <1>4, <3>1, <3>3 DEF Below
    <3>5. QED
      BY <1>4, <1>e, <3>1, <3>2, <3>4
  <2>4. QED
    BY <2>1, <2>2, <2>3
<1>6. ASSUME NEW p \in Queues
      PROVE  /\ Increasing(queue'[p]) /\ Increasing(got'[p])
             /\ Below(ToSet(got'[p]), ToSet(queue'[p]))
  BY <1>3, <1>5 DEF Sorted
<1>7. ASSUME NEW e \in Drains
      PROVE  /\ Increasing(drain'[e].lines)
             /\ \A p \in Queues : drain'[e].q = p =>
                   /\ Below(ToSet(got'[p]), ToSet(drain'[e].lines))
                   /\ Below(ToSet(drain'[e].lines), ToSet(queue'[p]))
  <2>1. CASE drain'[e].lines = <<>>
    BY <1>e, <2>1
  <2>2. CASE drain'[e].lines # <<>>
    BY <1>2, <1>5, <2>2
  <2>3. QED
    BY <2>1, <2>2
<1>8. QED
  BY <1>6, <1>7 DEF Sorted

LEMMA SortedStep ==
    ASSUME TypeOK, LineInv, Serial, Sorted, [Next]_vars
    PROVE  Sorted'
<1>1. ASSUME NEW q \in Queues, NEW d \in Drains, Post(q, d) PROVE Sorted'
  BY <1>1, SortedPost
<1>2. ASSUME NEW d \in Drains, Look(d) \/ Note(d) PROVE Sorted'
  BY <1>2, DrainSteps, SortedKept
<1>3. ASSUME NEW d \in Drains, Take(d) \/ Write(d) \/ Fails(d) PROVE Sorted'
  BY <1>3, SortedMoves
<1>4. CASE TurnEnds
  BY <1>4, TurnEndsLines, SortedKept
<1>5. CASE OtherStep
  BY <1>5, OtherLines, SortedKept
<1>6. QED
  BY <1>1, <1>2, <1>3, <1>4, <1>5 DEF Next, DrainNext, OtherStep

LEMMA SortedInvariant ==
    ASSUME "overlap" \notin Env
    PROVE  Spec => []Sorted
<1>1. Init => Sorted
  BY EmptySet DEF Init, Sorted, Resting, Increasing, Below
<1>2. TypeOK /\ LineInv /\ Serial /\ Sorted /\ [Next]_vars => Sorted'
  BY SortedStep
<1>3. QED
  BY <1>1, <1>2, TypeCorrect, LineInvariant, SerialInvariant, PTL DEF Spec

\* The session is told a queue's lines in the order they were put in, also
\* when a failed send puts its lines back while newer ones come in
\* (jarvis_wake.rs: requeue_front), unless two tasks send at a time.
THEOREM LinesInOrder ==
    ASSUME "overlap" \notin Env
    PROVE  Spec => []InOrder
<1>1. Sorted => InOrder
  BY DEF Sorted, Increasing, InOrder
<1>2. QED
  BY <1>1, SortedInvariant, PTL

-----------------------------------------------------------------------------
(* The row and the child *)

\* Between the look and the write the session is at rest; the prompt written
\* is the only one, and waits for its sender's record; afterwards the row is
\* busy for as long as the child has a prompt.
AtRest ==
    /\ \A d \in Drains : drain[d].pc \in {"taking", "sending"}
                            => ~row.busy /\ child.left = 0
    /\ sender = "sending" => ~row.busy /\ child.left = 0
    /\ ~Recorded => ~row.busy /\ child.left = 1 /\ ~child.streaming
    /\ child.left <= 1
    /\ Recorded /\ child.left = 1 => row.busy
    /\ child.streaming => child.gen = row.gen

LEMMA AtRestStep ==
    ASSUME "overlap" \notin Env, "unmarked" \notin Env, TypeOK, Serial, AtRest,
           [Next]_vars
    PROVE  AtRest'
<1>t. /\ child.left \in Nat /\ row \in RowType /\ child \in ChildType
      /\ child.streaming => child.left = 1
      /\ sender \in {"idle", "sending", "written"}
  BY DEF TypeOK, AtRest, ChildType
<1>1. ASSUME NEW d \in Drains, NEW q \in Queues, Post(q, d) PROVE AtRest'
  <2>1. \A e \in Drains : drain'[e] # drain[e] =>
                              drain'[e].pc = "looking" /\ drain[e].pc = "idle"
    BY <1>1 DEF Post, At, Becomes, Start, TypeOK
  <2>2. UNCHANGED <<sender, row, child>>
    BY <1>1 DEF Post
  <2>3. Recorded' <=> Recorded
    BY <2>1, <2>2 DEF Recorded, At
  <2>4. QED
    BY <2>1, <2>2, <2>3 DEF AtRest
<1>2. ASSUME NEW d \in Drains, Look(d) PROVE AtRest'
  <2>1. Recorded /\ sender = "idle" /\ \A e \in Drains : ~Active(e)
    BY <1>2 DEF Look, MayLook, SendUnderWay, Recorded, At, Active
  <2>2. /\ UNCHANGED <<sender, row, child>>
        /\ \A e \in Drains \ {d} : drain'[e] = drain[e]
        /\ drain'[d].pc = IF Idle THEN "taking" ELSE "idle"
    BY <1>2 DEF Look, Becomes, Step, Resting, TypeOK
  <2>3. Recorded'
    BY <2>1, <2>2 DEF Recorded, At
  <2>4. Idle => ~row.busy /\ child.left = 0
    BY <1>t, <2>1 DEF Idle, AtRest
  <2>5. QED
    BY <2>1, <2>2, <2>3, <2>4 DEF AtRest, Active
<1>3. ASSUME NEW d \in Drains, Take(d) \/ Fails(d) PROVE AtRest'
  <2>1. /\ UNCHANGED <<sender, row, child>>
        /\ \A e \in Drains \ {d} : drain'[e] = drain[e]
        /\ drain'[d].pc \in {"idle", "sending"}
        /\ drain[d].pc \in {"taking", "sending"}
    BY <1>3 DEF Take, Fails, Becomes, Step, Resting, TypeOK, At
  <2>2. Recorded' <=> Recorded
    BY <2>1 DEF Recorded, At
  <2>3. QED
    BY <2>1, <2>2 DEF AtRest
<1>4. ASSUME NEW d \in Drains, Write(d) PROVE AtRest'
  <2>1. /\ sender' = "idle" /\ row' = row /\ drain[d].pc = "sending"
        /\ \A e \in Drains \ {d} : drain'[e] = drain[e] /\ ~Active(e)
        /\ drain'[d].pc = "written"
    BY <1>4 DEF Write, Becomes, Step, TypeOK, At, Serial, Active
  <2>2. child'.left = 1 /\ ~child'.streaming /\ ~row.busy
    BY <1>t, <1>4, <2>1 DEF Write, Prompted, AtRest
  <2>3. ~Recorded'
    BY <2>1 DEF Recorded, At
  <2>4. QED
    BY <2>1, <2>2, <2>3 DEF AtRest, Active
<1>5. ASSUME NEW d \in Drains, Note(d) PROVE AtRest'
  <2>1. /\ sender' = "idle" /\ UNCHANGED child /\ drain[d].pc = "written"
        /\ \A e \in Drains \ {d} : drain'[e] = drain[e] /\ ~Active(e)
        /\ drain'[d].pc = "idle" /\ row' = Busy
    BY <1>5 DEF Note, Becomes, Resting, TypeOK, At, Serial, Active
  <2>2. child.left = 1 /\ ~child.streaming
    BY <2>1 DEF Recorded, At, AtRest
  <2>3. \A e \in Drains : drain'[e].pc \notin {"taking", "sending", "written"}
    BY <2>1 DEF Active
  <2>4. Recorded'
    BY <2>1, <2>3 DEF Recorded, At
  <2>5. QED
    BY <2>1, <2>2, <2>3, <2>4 DEF AtRest, Busy
<1>6. CASE SenderLooks
  <2>1. Recorded /\ \A e \in Drains : ~Active(e)
    BY <1>6 DEF SenderLooks, MayLook, SendUnderWay, Recorded, At, Active
  <2>2. ~row.busy /\ child.left = 0
    BY <1>6, <1>t, <2>1 DEF SenderLooks, Idle, AtRest
  <2>3. UNCHANGED <<drain, row, child>> /\ sender' = "sending"
    BY <1>6 DEF SenderLooks
  <2>4. Recorded'
    BY <2>1, <2>3 DEF Recorded, At
  <2>5. QED
    BY <2>1, <2>2, <2>3, <2>4 DEF AtRest
<1>7. CASE SenderWrites
  <2>1. /\ UNCHANGED <<drain, row>> /\ sender = "sending" /\ sender' = "written"
        /\ \A e \in Drains : ~Active(e)
    BY <1>7 DEF SenderWrites, Serial
  <2>2. child'.left = 1 /\ ~child'.streaming /\ ~row.busy
    BY <1>t, <1>7, <2>1 DEF SenderWrites, Prompted, AtRest
  <2>3. QED
    BY <2>1, <2>2 DEF AtRest, Recorded, Active
<1>8. CASE SenderNotes
  <2>1. /\ UNCHANGED <<drain, child>> /\ sender = "written" /\ sender' = "idle"
        /\ row' = Busy /\ \A e \in Drains : ~Active(e)
    BY <1>8 DEF SenderNotes, Serial
  <2>2. child.left = 1 /\ ~child.streaming
    BY <2>1 DEF Recorded, AtRest
  <2>3. \A e \in Drains : drain'[e].pc \notin {"taking", "sending", "written"}
    BY <2>1 DEF Active
  <2>4. Recorded'
    BY <2>1, <2>3 DEF Recorded, At
  <2>5. QED
    BY <2>1, <2>2, <2>3, <2>4 DEF AtRest, Busy
<1>9. CASE SenderFails
  <2>1. /\ UNCHANGED <<drain, row, child>> /\ sender = "sending" /\ sender' = "idle"
    BY <1>9 DEF SenderFails
  <2>2. Recorded' <=> Recorded
    BY <2>1 DEF Recorded, At
  <2>3. QED
    BY <2>1, <2>2 DEF AtRest
<1>10. CASE TurnStarts
  <2>1. /\ UNCHANGED <<drain, sender, row>> /\ Recorded
        /\ child'.left = child.left /\ child'.gen = row.gen /\ child.left > 0
    BY <1>10, <1>t DEF TurnStarts, Unbegun, ChildType
  <2>2. Recorded'
    BY <2>1 DEF Recorded, At
  <2>3. QED
    BY <2>1, <2>2 DEF AtRest
<1>11. CASE TurnEnds \/ ChildDies
  <2>1. child.left = 1 /\ Recorded
    BY <1>11, <1>t DEF TurnEnds, ChildDies, Unbegun, AtRest
  <2>2. UNCHANGED sender /\ child'.left = 0 /\ ~child'.streaming
    <3>1. CASE TurnEnds
      <4>1. /\ child' = [child EXCEPT !.streaming = FALSE, !.left = @ - 1]
            /\ UNCHANGED sender
        BY <3>1 DEF TurnEnds
      <4>2. QED
        BY <1>t, <2>1, <4>1 DEF ChildType
    <3>2. CASE ChildDies
      BY <1>t, <3>2 DEF ChildDies, ChildType
    <3>3. QED
      BY <1>11, <3>1, <3>2
  <2>3. \A e \in Drains : drain'[e].pc = drain[e].pc \/ drain'[e].pc = "looking"
    <3>1. CASE TurnEnds
      <4>1. PICK task \in [ToDrain -> {d \in Drains : At(d, "idle")}] :
              drain' = [d \in Drains |-> IF \E q \in ToDrain : task[q] = d
                                         THEN Start(CHOOSE q \in ToDrain : task[q] = d)
                                         ELSE drain[d]]
        BY <3>1 DEF TurnEnds
      <4>2. \A q : Start(q).pc = "looking"
        BY DEF Start
      <4>3. QED
        BY <4>1, <4>2
    <3>2. CASE ChildDies
      BY <3>2 DEF ChildDies
    <3>3. QED
      BY <1>11, <3>1, <3>2
  <2>4. Recorded'
    BY <2>1, <2>2, <2>3 DEF Recorded, At
  <2>5. \A e \in Drains : drain'[e].pc \notin {"taking", "sending"}
    BY <2>1, <2>3 DEF AtRest
  <2>6. sender' # "sending"
    BY <2>1, <2>2 DEF AtRest
  <2>7. QED
    BY <2>2, <2>4, <2>5, <2>6 DEF AtRest
<1>12. CASE ChildExits \/ End \/ UNCHANGED vars
  <2>1. /\ UNCHANGED <<drain, sender>>
        /\ row'.busy = row.busy /\ row'.gen = row.gen
        /\ child'.left = child.left /\ child'.streaming = child.streaming
        /\ child'.gen = child.gen
    BY <1>12, <1>t DEF ChildExits, End, vars, RowType, ChildType
  <2>2. Recorded' <=> Recorded
    BY <2>1 DEF Recorded, At
  <2>3. QED
    BY <2>1, <2>2 DEF AtRest
<1>13. QED
  BY <1>1, <1>2, <1>3, <1>4, <1>5, <1>6, <1>7, <1>8, <1>9, <1>10, <1>11, <1>12
     DEF Next, DrainNext, SenderNext

\* Where nobody sends without marking the row busy and no two tasks send at a
\* time, a drain finds the session at rest when it writes: the promise of
\* jarvis_wake.rs:6, also across deaths, failed sends, late turn ends and turns
\* that the pump did not see begin.
THEOREM DrainsBetweenTurns ==
    ASSUME "overlap" \notin Env, "unmarked" \notin Env
    PROVE  Spec => NeverMidTurn
<1>1. Init => AtRest
  BY DEF Init, AtRest, Resting, Recorded, At
<1>2. TypeOK /\ Serial /\ AtRest /\ [Next]_vars => AtRest'
  BY AtRestStep
<1>3. AtRest => [\A d \in Drains : At(d, "sending") /\ drain'[d].pc = "written"
                                     => child.left = 0]_vars
  BY DEF AtRest, At
<1>4. QED
  BY <1>1, <1>2, <1>3, TypeCorrect, SerialInvariant, PTL DEF Spec, NeverMidTurn
===============================================================================
