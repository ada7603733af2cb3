----------------------------- MODULE Turn_proofs -----------------------------
(***************************************************************************)
(* Theorems about Turn, for every set of clients, every bound and every    *)
(* environment, but for what a theorem's hypothesis excludes.              *)
(***************************************************************************)
EXTENDS Turn, SequenceTheorems, TLAPS

LEMMA StatusTypes ==
    /\ Statuses \subseteq AllStatuses
    /\ PromptKinds \subseteq AllPromptKinds
  BY ConstantsAssumption DEF ConstantsAssumption

\* Taking the first element off a non-empty sequence.
LEMMA HeadTail ==
    ASSUME NEW S, NEW q \in Seq(S), q # <<>>
    PROVE  Head(q) \in S /\ Tail(q) \in Seq(S)
  OBVIOUS

\* What the parser and the pump's capture do to a line is well typed.
LEMMA FeedType ==
    ASSUME TypeOK, NEW p \in Procs, NEW line \in Lines
    PROVE  AfterFeed(p, line) \in PumpType /\ RowAfterFeed(p, line) \in RowType
<1>1. pump[p] \in PumpType /\ row \in RowType /\ line.turn \in Nat
  BY DEF TypeOK, Lines
<1>2. Captures(p, line) \in BOOLEAN
  BY <1>1 DEF Captures, PumpType
<1>3. IsClosePrompt(lastPrompt[p]) \in BOOLEAN
  BY DEF IsClosePrompt
<1>4. AfterFeed(p, line) \in PumpType
  BY <1>1, <1>2, <1>3 DEF AfterFeed, PumpType, RowType
<1>5. RowAfterFeed(p, line) \in RowType
  BY <1>1, <1>2, <1>3 DEF RowAfterFeed, RowType
<1>6. QED
  BY <1>4, <1>5

LEMMA EndStatusType ==
    ASSUME TypeOK, NEW gen \in Nat, NEW mark \in Marks
    PROVE  EndStatus(gen, mark) \in AllStatuses \cup {None}
  BY StatusTypes DEF TypeOK, SideType, EndStatus, AllStatuses, Marks

\* A replay is nothing, or one result line of turn 0.
LEMMA ReplayedLines ==
    ASSUME NEW replay \in Replays
    PROVE  /\ replay \in Seq(Lines)
           /\ \/ replay = <<>>
              \/ /\ Len(replay) = 1 /\ replay # <<>>
                 /\ replay[1].kind = "result" /\ replay[1].turn = 0
<1>1. CASE replay = <<>>
  BY <1>1
<1>2. ASSUME NEW m \in Marks, replay = <<[kind |-> "result", turn |-> 0, mark |-> m]>>
      PROVE  /\ replay \in Seq(Lines) /\ Len(replay) = 1 /\ replay # <<>>
             /\ replay[1].kind = "result" /\ replay[1].turn = 0
  <2> DEFINE line == [kind |-> "result", turn |-> 0, mark |-> m]
  <2>1. line \in Lines /\ line.kind = "result" /\ line.turn = 0
    BY DEF Lines
  <2>2. replay = <<line>>
    BY <1>2
  <2> HIDE DEF line
  <2>3. QED
    BY <2>1, <2>2
<1>3. QED
  BY <1>1, <1>2 DEF Replays

-----------------------------------------------------------------------------
\* The child's steps keep the types.
LEMMA ChildTypeStep ==
    ASSUME TypeOK, NEW p \in Procs, ChildStep(p)
    PROVE  TypeOK'
<1> USE ConstantsAssumption DEF ConstantsAssumption
<1>0. child[p] \in ChildType /\ pipe[p] \in Seq(Lines)
  BY DEF TypeOK
<1>a. ASSUME NEW kind \in {"init", "stream", "limit", "result"}, NEW turn \in Nat,
             NEW mark \in Marks, Emit(p, kind, turn, mark)
      PROVE  pipe' \in [Procs -> Seq(Lines)]
  <2> DEFINE line == [kind |-> kind, turn |-> turn, mark |-> mark]
  <2>1. line \in Lines
    BY DEF Lines
  <2>2. pipe' = [pipe EXCEPT ![p] = Append(pipe[p], line)]
    BY <1>a DEF Emit
  <2> HIDE DEF line
  <2>3. Append(pipe[p], line) \in Seq(Lines)
    BY <1>0, <2>1
  <2>4. QED
    BY <2>2, <2>3 DEF TypeOK
<1>n. None \in Marks
  BY DEF Marks
<1>1. CASE ChildOpens(p)
  <2>1. Head(child[p].stdin) \in Nat /\ Tail(child[p].stdin) \in Seq(Nat)
    BY <1>0, <1>1, HeadTail DEF ChildOpens, ChildType
  <2>2. child' \in [Procs -> ChildType]
    <3> DEFINE opened == [child[p] EXCEPT !.turn = Head(child[p].stdin),
                                          !.stdin = Tail(child[p].stdin)]
    <3>1. opened \in ChildType
      BY <1>0, <2>1 DEF ChildType
    <3>2. child' = [child EXCEPT ![p] = opened]
      BY <1>0, <1>1 DEF ChildOpens, ChildType, TypeOK
    <3>3. QED
      BY <3>1, <3>2 DEF TypeOK
  <2>3. pipe' \in [Procs -> Seq(Lines)]
    BY <1>1, <1>a, <1>n, <2>1 DEF ChildOpens
  <2>4. QED
    BY <1>1, <2>2, <2>3 DEF ChildOpens, TypeOK
<1>2. CASE ChildStreams(p)
  <2>1. child' \in [Procs -> ChildType]
    <3>1. child[p].streamed + 1 \in 0..MaxStream
      BY <1>0, <1>2 DEF ChildStreams, ChildType
    <3>2. [child[p] EXCEPT !.streamed = child[p].streamed + 1] \in ChildType
      BY <1>0, <3>1 DEF ChildType
    <3>3. QED
      BY <1>2, <3>2 DEF ChildStreams, TypeOK
  <2>2. pipe' \in [Procs -> Seq(Lines)]
    BY <1>0, <1>2, <1>a, <1>n DEF ChildStreams, ChildType
  <2>3. QED
    BY <1>2, <2>1, <2>2 DEF ChildStreams, TypeOK
<1>3. CASE ChildRejected(p)
  <2>1. child' \in [Procs -> ChildType]
    BY <1>0, <1>3 DEF ChildRejected, ChildType, TypeOK
  <2>2. pipe' \in [Procs -> Seq(Lines)]
    BY <1>0, <1>3, <1>a, <1>n DEF ChildRejected, ChildType
  <2>3. QED
    BY <1>3, <2>1, <2>2 DEF ChildRejected, TypeOK
<1>4. CASE ChildFinishes(p)
  <2>1. child' \in [Procs -> ChildType]
    <3>1. Idle(child[p]) \in ChildType
      <4>1. 0 \in 0..MaxStream /\ 0 \in Nat
        OBVIOUS
      <4>2. QED
        BY <1>0, <4>1 DEF Idle, ChildType
    <3>2. QED
      BY <1>4, <3>1 DEF ChildFinishes, TypeOK
  <2>2. pipe' \in [Procs -> Seq(Lines)]
    BY <1>0, <1>4, <1>a DEF ChildFinishes, ChildType
  <2>3. side' \in SideType
    BY <1>4 DEF ChildFinishes, SideType, TypeOK
  <2>4. QED
    BY <1>4, <2>1, <2>2, <2>3 DEF ChildFinishes, TypeOK
<1>5. CASE ChildIgnoresInterrupt(p)
  BY <1>0, <1>5 DEF ChildIgnoresInterrupt, ChildType, TypeOK
<1>6. CASE ChildDies(p)
  BY <1>0, <1>6 DEF ChildDies, ChildType, TypeOK
<1>7. ASSUME NEW s \in Statuses, ReportStatus(p, s) PROVE TypeOK'
  <2>1. side' \in SideType
    BY <1>0, <1>7 DEF ReportStatus, SideType, RowType, ChildType, TypeOK
  <2>2. QED
    BY <1>7, <2>1 DEF ReportStatus, TypeOK
<1>8. CASE OnCloseConfirm(p)
  <2>1. side' \in SideType
    BY <1>8 DEF OnCloseConfirm, SideType, TypeOK
  <2>2. QED
    BY <1>8, <2>1 DEF OnCloseConfirm, TypeOK
<1>9. QED
  BY <1>1, <1>2, <1>3, <1>4, <1>5, <1>6, <1>7, <1>8 DEF ChildStep

\* So do the clients' ...
LEMMA ClientTypeStep ==
    ASSUME TypeOK, NEW c \in Clients, ClientStep(c)
    PROVE  TypeOK'
<1> USE ConstantsAssumption DEF ConstantsAssumption
<1>0. Len(prompts) + 1 \in Nat
  BY DEF TypeOK
<1>1. ASSUME NEW k \in PromptKinds, Send(c, k) PROVE TypeOK'
  <2>1. live \in Procs
    BY <1>1 DEF Send, TypeOK
  <2>2. child[live] \in ChildType
    BY <2>1 DEF TypeOK
  <2>3. lastPrompt' \in [Procs -> PromptKinds \cup {None}]
    BY <1>1 DEF Send, WritePrompt, TypeOK
  <2>4. prompts' \in Seq(PromptKinds)
    <3>1. Append(prompts, k) \in Seq(PromptKinds)
      BY DEF TypeOK
    <3>2. QED
      BY <1>1, <3>1 DEF Send, WritePrompt, TypeOK
  <2>5. Append(child[live].stdin, Len(prompts) + 1) \in Seq(Nat)
    BY <1>0, <2>2 DEF ChildType
  <2>6. child' \in [Procs -> ChildType]
    <3>1. [child[live] EXCEPT !.stdin = Append(@, Len(prompts) + 1)] \in ChildType
      BY <2>2, <2>5 DEF ChildType
    <3>2. QED
      BY <1>1, <3>1 DEF Send, TypeOK
  <2>7. client' \in [Clients -> ClientPC]
    BY <1>1 DEF Send, ClientPC, TypeOK
  <2>8. QED
    BY <1>1, <2>3, <2>4, <2>6, <2>7 DEF Send, TypeOK
<1>2. ASSUME NEW k \in PromptKinds, RespawnAndSend(c, k) PROVE TypeOK'
  <2>1. PICK p \in Procs :
          /\ WritePrompt(p, k)
          /\ live' = p
          /\ child' = [child EXCEPT ![p].state = "up", ![p].stdin = <<Len(prompts) + 1>>]
          /\ pump' = [pump EXCEPT ![p].pc = "reading"]
          /\ \E replay \in Replays : pipe' = [pipe EXCEPT ![p] = replay]
    BY <1>2 DEF RespawnAndSend
  <2>2. child[p] \in ChildType /\ pump[p] \in PumpType
    BY DEF TypeOK
  <2>3. child' \in [Procs -> ChildType]
    <3> DEFINE born == [child[p] EXCEPT !.state = "up", !.stdin = <<Len(prompts) + 1>>]
    <3>1. <<Len(prompts) + 1>> \in Seq(Nat)
      BY <1>0
    <3>2. born \in ChildType
      BY <2>2, <3>1 DEF ChildType
    <3>3. child' = [child EXCEPT ![p] = born]
      BY <2>1, <2>2 DEF ChildType, TypeOK
    <3>4. QED
      BY <3>2, <3>3 DEF TypeOK
  <2>4. pump' \in [Procs -> PumpType]
    BY <2>1, <2>2 DEF PumpType, TypeOK
  <2>5. pipe' \in [Procs -> Seq(Lines)]
    BY <2>1, ReplayedLines DEF TypeOK
  <2>6. lastPrompt' \in [Procs -> PromptKinds \cup {None}] /\ prompts' \in Seq(PromptKinds)
    <3>1. Append(prompts, k) \in Seq(PromptKinds)
      BY DEF TypeOK
    <3>2. QED
      BY <2>1, <3>1 DEF WritePrompt, TypeOK
  <2>7. client' \in [Clients -> ClientPC]
    BY <1>2 DEF RespawnAndSend, ClientPC, TypeOK
  <2>8. QED
    BY <1>2, <2>1, <2>3, <2>4, <2>5, <2>6, <2>7 DEF RespawnAndSend, TypeOK
<1>3. CASE RecordSend(c)
  <2>1. row' \in RowType
    <3>1. row \in RowType /\ row.gen + 1 \in Nat
      BY DEF TypeOK, RowType
    <3>2. [row EXCEPT !.awaiting = None, !.busy = TRUE, !.gen = row.gen + 1] \in RowType
      BY <3>1 DEF RowType
    <3>3. QED
      BY <1>3, <3>2 DEF RecordSend
  <2>2. QED
    BY <1>3, <2>1 DEF RecordSend, ClientPC, TypeOK
<1>4. CASE CancelTurn(c)
  <2>1. live \in Procs
    BY <1>4 DEF CancelTurn, TypeOK
  <2>2. child[live] \in ChildType
    BY <2>1 DEF TypeOK
  <2>3. child' \in [Procs -> ChildType]
    BY <1>4, <2>1, <2>2 DEF CancelTurn, ChildType, TypeOK
  <2>4. QED
    BY <1>4, <2>3 DEF CancelTurn, ClientPC, TypeOK
<1>5. CASE RecordCancel(c)
  <2>1. row' \in RowType
    BY <1>5 DEF RecordCancel, RowType, TypeOK
  <2>2. QED
    BY <1>5, <2>1 DEF RecordCancel, ClientPC, TypeOK
<1>6. QED
  BY <1>1, <1>2, <1>3, <1>4, <1>5 DEF ClientStep

\* ... and the pump's.
LEMMA PumpTypeStep ==
    ASSUME TypeOK, NEW p \in Procs, PumpStep(p)
    PROVE  TypeOK'
<1>0. pump[p] \in PumpType /\ row \in RowType /\ side \in SideType
      /\ pipe[p] \in Seq(Lines) /\ child[p] \in ChildType
  BY DEF TypeOK
<1>a. ASSUME ReadLine(p)
      PROVE  Head(pipe[p]) \in Lines /\ pipe' \in [Procs -> Seq(Lines)]
  BY <1>0, <1>a, HeadTail DEF ReadLine, TypeOK
<1>1. CASE ReadPlain(p)
  <2>1. Head(pipe[p]) \in Lines /\ pipe' \in [Procs -> Seq(Lines)]
    BY <1>1, <1>a DEF ReadPlain
  <2>2. row' \in RowType /\ pump' \in [Procs -> PumpType]
    BY <1>1, <2>1, FeedType DEF ReadPlain, TypeOK
  <2>3. QED
    BY <1>1, <2>1, <2>2 DEF ReadPlain, TypeOK
<1>2. CASE ReadLimit(p)
  <2>1. Head(pipe[p]) \in Lines /\ pipe' \in [Procs -> Seq(Lines)]
    BY <1>2, <1>a DEF ReadLimit
  <2>2. row' \in RowType /\ pump' \in [Procs -> PumpType]
    BY <1>2, <2>1, FeedType DEF ReadLimit, TypeOK
  <2>3. QED
    BY <1>2, <2>1, <2>2 DEF ReadLimit, TypeOK
<1>3. CASE ReadResult(p)
  <2> DEFINE line  == Head(pipe[p])
             after == AfterFeed(p, line)
             fed   == RowAfterFeed(p, line)
  <2>1. line \in Lines /\ pipe' \in [Procs -> Seq(Lines)]
    BY <1>3, <1>a DEF ReadResult
  <2>2. after \in PumpType /\ fed \in RowType
    BY <2>1, FeedType
  <2>3. EndStatus(after.gen, line.mark) \in AllStatuses \cup {None}
    BY <2>1, <2>2, EndStatusType DEF PumpType, Lines
  <2>4. row' \in RowType
    <3> HIDE DEF line, after, fed
    <3>1. PICK b, a, e, f :
            /\ row' = [fed EXCEPT !.busy = b, !.awaiting = a, !.ended = e, !.closing = f]
            /\ b \in BOOLEAN /\ e \in BOOLEAN /\ f \in BOOLEAN
            /\ a \in AllStatuses \cup {None, "close_failed"}
      <4> DEFINE conf == side.closeRequested
                 fail == after.closing /\ ~conf /\ lastPrompt[p] # "dryClose"
                 curr == IsNewestGen(after.gen)
      <4>1. row' = [fed EXCEPT
                !.busy = fed.busy /\ ~curr,
                !.awaiting = IF fail THEN "close_failed"
                             ELSE IF after.saw /\ curr THEN EndStatus(after.gen, line.mark)
                             ELSE fed.awaiting,
                !.ended = fed.ended \/ conf,
                !.closing = fed.closing /\ ~after.closing]
        BY <1>3 DEF ReadResult, line, after, fed
      <4>2. fed.awaiting \in AllStatuses \cup {None, "close_failed"}
        BY <2>2 DEF RowType
      <4> HIDE DEF conf, fail, curr
      <4>3. QED
        BY <2>3, <4>1, <4>2
    <3>2. QED
      BY <2>2, <3>1 DEF RowType
  <2>5. side' \in SideType
    BY <1>0, <1>3 DEF ReadResult, SideType
  <2>6. pump' \in [Procs -> PumpType]
    BY <1>3, <2>2 DEF ReadResult, AfterResult, PumpType, TypeOK
  <2>7. child' \in [Procs -> ChildType]
    BY <1>0, <1>3 DEF ReadResult, KillIf, ChildType, TypeOK
  <2>8. QED
    BY <1>3, <2>1, <2>4, <2>5, <2>6, <2>7 DEF ReadResult, TypeOK
<1>4. CASE Eof(p)
  BY <1>0, <1>4 DEF Eof, PumpType, TypeOK
<1>5. CASE EofSettles(p)
  <2>1. row' \in RowType
    BY <1>0, <1>5 DEF EofSettles, IsNewestGen, RowType
  <2>2. pump' \in [Procs -> PumpType]
    BY <1>0, <1>5 DEF EofSettles, PumpType, TypeOK
  <2>3. QED
    BY <1>5, <2>1, <2>2 DEF EofSettles, TypeOK
<1>6. CASE EofCloses(p)
  <2>1. row' \in RowType
    BY <1>0, <1>6 DEF EofCloses, RowType, PumpType, SideType
  <2>2. side' \in SideType
    BY <1>0, <1>6 DEF EofCloses, SideType
  <2>3. pump' \in [Procs -> PumpType]
    BY <1>0, <1>6 DEF EofCloses, PumpType, TypeOK
  <2>4. QED
    BY <1>6, <2>1, <2>2, <2>3 DEF EofCloses, TypeOK
<1>7. QED
  BY <1>1, <1>2, <1>3, <1>4, <1>5, <1>6 DEF PumpStep

LEMMA InitType == Init => TypeOK
<1> SUFFICES ASSUME Init PROVE TypeOK
  OBVIOUS
<1> USE ConstantsAssumption DEF ConstantsAssumption
<1>1. row \in RowType /\ side \in SideType
  BY DEF Init, RowType, SideType
<1>2. Unborn \in ChildType /\ FreshPump \in PumpType
  BY DEF Unborn, ChildType, FreshPump, PumpType
<1>3. QED
  BY <1>1, <1>2 DEF Init, TypeOK, ClientPC

LEMMA TypeStep == TypeOK /\ [Next]_vars => TypeOK'
<1>1. TypeOK /\ UNCHANGED vars => TypeOK'
  BY DEF TypeOK, vars
<1>2. QED
  BY <1>1, ChildTypeStep, ClientTypeStep, PumpTypeStep DEF Next

\* Type correctness of the session's row, side maps, processes and tasks.
THEOREM TypeCorrect == Spec => []TypeOK
  BY InitType, TypeStep, PTL DEF Spec
-----------------------------------------------------------------------------
(* A turn number is that of a prompt that was written.                     *)

TurnsArePrompts ==
    \A p \in Procs :
        /\ child[p].turn \in 0..Len(prompts)
        /\ \A i \in 1..Len(child[p].stdin) : child[p].stdin[i] \in 1..Len(prompts)

LEMMA TurnsStep == TypeOK /\ TurnsArePrompts /\ [Next]_vars => TurnsArePrompts'
<1> SUFFICES ASSUME TypeOK, TurnsArePrompts, [Next]_vars PROVE TurnsArePrompts'
  OBVIOUS
<1>0. /\ child \in [Procs -> ChildType]
      /\ prompts \in Seq(PromptKinds) /\ Len(prompts) \in Nat
      /\ side \in SideType /\ row \in RowType
      /\ \A p \in Procs : child[p].stdin \in Seq(Nat)
  BY DEF TypeOK, ChildType
\* A step that keeps the prompts and moves no turn.
<1>a. ASSUME UNCHANGED prompts,
             \A q \in Procs : /\ child'[q].turn \in {0, child[q].turn}
                              /\ child'[q].stdin = child[q].stdin
      PROVE  TurnsArePrompts'
  BY <1>0, <1>a DEF TurnsArePrompts
<1>1. ASSUME NEW p \in Procs, ChildOpens(p) PROVE TurnsArePrompts'
  <2>1. /\ Head(child[p].stdin) \in 1..Len(prompts)
        /\ Tail(child[p].stdin) \in Seq(Nat)
        /\ \A i \in 1..Len(Tail(child[p].stdin)) :
             Tail(child[p].stdin)[i] \in 1..Len(prompts)
    <3>1. child[p].stdin \in Seq(Nat) /\ child[p].stdin # <<>>
      BY <1>0, <1>1 DEF ChildOpens
    <3>2. \A i \in 1..Len(child[p].stdin) : child[p].stdin[i] \in 1..Len(prompts)
      BY DEF TurnsArePrompts
    <3>3. QED
      BY <3>1, <3>2
  <2>2. child'[p].turn = Head(child[p].stdin) /\ child'[p].stdin = Tail(child[p].stdin)
    BY <1>0, <1>1 DEF ChildOpens, ChildType
  <2>3. \A q \in Procs \ {p} : child'[q] = child[q]
    BY <1>0, <1>1 DEF ChildOpens
  <2>4. QED
    BY <1>0, <1>1, <2>1, <2>2, <2>3 DEF ChildOpens, TurnsArePrompts
<1>2. ASSUME NEW p \in Procs, ChildStreams(p) PROVE TurnsArePrompts'
  BY <1>0, <1>2, <1>a DEF ChildStreams, ChildType
<1>3. ASSUME NEW p \in Procs, ChildRejected(p) PROVE TurnsArePrompts'
  BY <1>0, <1>3, <1>a DEF ChildRejected, ChildType
<1>4. ASSUME NEW p \in Procs, ChildFinishes(p) PROVE TurnsArePrompts'
  BY <1>0, <1>4, <1>a DEF ChildFinishes, Idle, ChildType
<1>5. ASSUME NEW p \in Procs, ChildIgnoresInterrupt(p) PROVE TurnsArePrompts'
  BY <1>0, <1>5, <1>a DEF ChildIgnoresInterrupt, ChildType
<1>6. ASSUME NEW p \in Procs, ChildDies(p) PROVE TurnsArePrompts'
  BY <1>0, <1>6, <1>a DEF ChildDies, ChildType
<1>7. ASSUME NEW p \in Procs, NEW s \in Statuses, ReportStatus(p, s) PROVE TurnsArePrompts'
  BY <1>0, <1>7, <1>a DEF ReportStatus
<1>8. ASSUME NEW p \in Procs, OnCloseConfirm(p) PROVE TurnsArePrompts'
  BY <1>0, <1>8, <1>a DEF OnCloseConfirm
<1>9. ASSUME NEW c \in Clients, NEW k \in PromptKinds, Send(c, k) PROVE TurnsArePrompts'
  <2>1. CASE child[live].state = "up"
    <3>1. live \in Procs
      BY <1>9 DEF Send, TypeOK
    <3>2. prompts' = Append(prompts, k)
      BY <1>9, <2>1 DEF Send, WritePrompt
    <3>3. \A q \in Procs : /\ child'[q].turn = child[q].turn
                           /\ \/ child'[q].stdin = child[q].stdin
                              \/ child'[q].stdin = Append(child[q].stdin, Len(prompts) + 1)
      <4> DEFINE fed == [child[live] EXCEPT !.stdin = Append(@, Len(prompts) + 1)]
      <4>1. child' = [child EXCEPT ![live] = fed]
        BY <1>9, <2>1 DEF Send
      <4>2. child[live] \in ChildType
        BY <1>0, <3>1
      <4>3. /\ fed.turn = child[live].turn
            /\ fed.stdin = Append(child[live].stdin, Len(prompts) + 1)
        BY <4>2 DEF ChildType
      <4> HIDE DEF fed
      <4>4. QED
        BY <1>0, <3>1, <4>1, <4>3
    <3>4. Len(prompts') = Len(prompts) + 1
      BY <1>0, <3>2
    <3>5. TurnsArePrompts'
      <4> SUFFICES ASSUME NEW q \in Procs
                   PROVE  /\ child'[q].turn \in 0..Len(prompts')
                          /\ \A i \in 1..Len(child'[q].stdin) :
                                child'[q].stdin[i] \in 1..Len(prompts')
        BY DEF TurnsArePrompts
      <4>1. /\ child[q].turn \in 0..Len(prompts)
            /\ \A i \in 1..Len(child[q].stdin) : child[q].stdin[i] \in 1..Len(prompts)
        BY DEF TurnsArePrompts
      <4>2. child[q].stdin \in Seq(Nat)
        BY <1>0
      <4>3. child'[q].turn \in 0..Len(prompts')
        BY <1>0, <3>3, <3>4, <4>1
      <4>4. CASE child'[q].stdin = child[q].stdin
        BY <1>0, <3>4, <4>1, <4>3, <4>4
      <4>5. CASE child'[q].stdin = Append(child[q].stdin, Len(prompts) + 1)
        <5>1. \A i \in 1..Len(child'[q].stdin) :
                child'[q].stdin[i] \in 1..(Len(prompts) + 1)
          BY <1>0, <4>1, <4>2, <4>5
        <5>2. QED
          BY <3>4, <4>3, <5>1
      <4>6. QED
        BY <3>3, <4>4, <4>5
    <3>6. QED
      BY <3>5
  <2>2. CASE child[live].state # "up"
    BY <1>0, <1>9, <1>a, <2>2 DEF Send
  <2>3. QED
    BY <2>1, <2>2
<1>10. ASSUME NEW c \in Clients, NEW k \in PromptKinds, RespawnAndSend(c, k) PROVE TurnsArePrompts'
  <2>1. PICK p \in Procs :
          /\ prompts' = Append(prompts, k)
          /\ child' = [child EXCEPT ![p].state = "up", ![p].stdin = <<Len(prompts) + 1>>]
    BY <1>10 DEF RespawnAndSend, WritePrompt
  <2>2. Len(prompts') = Len(prompts) + 1
    BY <1>0, <2>1
  <2>3. \A q \in Procs : /\ child'[q].turn = child[q].turn
                         /\ \/ child'[q].stdin = child[q].stdin
                            \/ child'[q].stdin = <<Len(prompts) + 1>>
    BY <1>0, <2>1 DEF ChildType
  <2>4. TurnsArePrompts'
    <3> SUFFICES ASSUME NEW q \in Procs
                 PROVE  /\ child'[q].turn \in 0..Len(prompts')
                        /\ \A i \in 1..Len(child'[q].stdin) :
                              child'[q].stdin[i] \in 1..Len(prompts')
      BY DEF TurnsArePrompts
    <3>1. /\ child[q].turn \in 0..Len(prompts)
          /\ \A i \in 1..Len(child[q].stdin) : child[q].stdin[i] \in 1..Len(prompts)
      BY DEF TurnsArePrompts
    <3>2. CASE child'[q].stdin = child[q].stdin
      BY <1>0, <2>2, <2>3, <3>1, <3>2
    <3>3. CASE child'[q].stdin = <<Len(prompts) + 1>>
      BY <1>0, <2>2, <2>3, <3>1, <3>3
    <3>4. QED
      BY <2>3, <3>2, <3>3
  <2>5. QED
    BY <2>4
<1>11. ASSUME NEW c \in Clients, RecordSend(c) PROVE TurnsArePrompts'
  BY <1>0, <1>11, <1>a DEF RecordSend, RowType
<1>12. ASSUME NEW c \in Clients, CancelTurn(c) PROVE TurnsArePrompts'
  BY <1>0, <1>12, <1>a DEF CancelTurn, ChildType
<1>13. ASSUME NEW c \in Clients, RecordCancel(c) PROVE TurnsArePrompts'
  BY <1>0, <1>13, <1>a DEF RecordCancel, RowType
<1>14. ASSUME NEW p \in Procs, ReadPlain(p) \/ ReadLimit(p) PROVE TurnsArePrompts'
  BY <1>14, <1>a DEF ReadPlain, ReadLimit
<1>15. ASSUME NEW p \in Procs, ReadResult(p) PROVE TurnsArePrompts'
  BY <1>0, <1>15, <1>a DEF ReadResult, KillIf, ChildType
<1>16. ASSUME NEW p \in Procs, Eof(p) PROVE TurnsArePrompts'
  BY <1>16, <1>a DEF Eof
<1>17. ASSUME NEW p \in Procs, EofSettles(p) PROVE TurnsArePrompts'
  BY <1>0, <1>17, <1>a DEF EofSettles, IsNewestGen, RowType
<1>18. ASSUME NEW p \in Procs, EofCloses(p) PROVE TurnsArePrompts'
  BY <1>0, <1>18, <1>a DEF EofCloses, RowType, SideType
<1>19. CASE UNCHANGED vars
  BY <1>19, <1>a DEF vars
<1>20. QED
  BY <1>1, <1>2, <1>3, <1>4, <1>5, <1>6, <1>7, <1>8, <1>9, <1>10, <1>11, <1>12,
     <1>13, <1>14, <1>15, <1>16, <1>17, <1>18, <1>19
     DEF Next, ChildStep, ClientStep, PumpStep

-----------------------------------------------------------------------------
(* The "Closing" badge.  A pump that put it up is obliged to take it down,  *)
(* at its next result line or in its teardown; and as long as the child is  *)
(* up and between turns, such a result line is the last one in the pipe.    *)

LastLine(p) == pipe[p][Len(pipe[p])]

ResultIsLast ==
    \A p \in Procs :
        (child[p].state = "up" /\ child[p].turn = 0) =>
            IF pipe[p] = <<>> THEN ~pump[p].closing ELSE LastLine(p).kind = "result"

UnbornIsOff ==
    \A p \in Procs : child[p].state = "unborn" => (pump[p].pc = "off" /\ ~pump[p].closing)

BadgeInv == ClosingHasOwner /\ ResultIsLast /\ UnbornIsOff

Owns(p) == pump[p].closing /\ pump[p].pc \in {"reading", "removed", "settled"}

\* Steps of a child and of a client neither touch the badge nor take a pump
\* that owns it away.
LEMMA OwnerStays ==
    ASSUME TypeOK, ClosingHasOwner, row'.closing = row.closing,
           \A p \in Procs : Owns(p) => Owns(p)'
    PROVE  ClosingHasOwner'
  BY DEF ClosingHasOwner, Owns

\* Appending a line makes it the last one, taking one off keeps the last one.
LEMMA LastOfPipe ==
    ASSUME NEW q \in Seq(Lines), NEW line \in Lines
    PROVE  /\ LET a == Append(q, line) IN a # <<>> /\ a[Len(a)] = line
           /\ q # <<>> => IF Tail(q) = <<>> THEN q[Len(q)] = Head(q)
                          ELSE Tail(q)[Len(Tail(q))] = q[Len(q)]
<1>1. Append(q, line) # <<>> /\ Append(q, line)[Len(Append(q, line))] = line
  OBVIOUS
<1>2. ASSUME q # <<>> PROVE Tail(q) = <<>> => q[Len(q)] = Head(q)
  <2>1. Len(Tail(q)) = Len(q) - 1 /\ Len(q) \in Nat \ {0} /\ Head(q) = q[1]
    BY <1>2
  <2>2. ASSUME Tail(q) = <<>> PROVE Len(q) = 1
    <3>1. Len(Tail(q)) = 0
      BY <2>2, EmptySeq, Zenon
    <3>2. \A n \in Nat \ {0} : n - 1 = 0 => n = 1
      OBVIOUS
    <3>3. QED
      BY <2>1, <3>1, <3>2, Zenon
  <2>3. QED
    BY <2>1, <2>2
<1>3. ASSUME q # <<>>, Tail(q) # <<>> PROVE Tail(q)[Len(Tail(q))] = q[Len(q)]
  <2>1. Len(Tail(q)) = Len(q) - 1 /\ Len(Tail(q)) \in 1..Len(Tail(q))
    BY <1>3
  <2>2. \A i \in 1..Len(Tail(q)) : Tail(q)[i] = q[i + 1]
    BY <1>3
  <2>3. QED
    BY <2>1, <2>2
<1>4. QED
  BY <1>1, <1>2, <1>3

LEMMA BadgeChildStep ==
    ASSUME TypeOK, TurnsArePrompts, BadgeInv, NEW p \in Procs, ChildStep(p)
    PROVE  BadgeInv'
<1> USE DEF BadgeInv
<1>0. /\ child \in [Procs -> ChildType] /\ pipe \in [Procs -> Seq(Lines)]
      /\ \A q \in Procs : pipe[q] \in Seq(Lines) /\ child[q] \in ChildType
  BY DEF TypeOK
<1>1. UNCHANGED <<row, pump>>
  BY DEF ChildStep, ChildOpens, ChildStreams, ChildRejected, ChildFinishes,
         ChildIgnoresInterrupt, ChildDies, ReportStatus, OnCloseConfirm
<1>2. ClosingHasOwner' /\ UnbornIsOff'
  <2>1. ClosingHasOwner'
    BY <1>1, OwnerStays DEF Owns
  <2>2. \A q \in Procs : child'[q].state = "unborn" => child[q].state = "unborn"
    <3>1. CASE ChildOpens(p)
      BY <1>0, <3>1 DEF ChildOpens, ChildType
    <3>a. ASSUME NEW next, child' = [child EXCEPT ![p] = next],
                 next.state \in {child[p].state, "dead"}
          PROVE  \A q \in Procs : child'[q].state = "unborn" => child[q].state = "unborn"
      BY <1>0, <3>a
    <3>2. CASE ChildStreams(p)
      <4>1. [child[p] EXCEPT !.streamed = @ + 1].state = child[p].state
        BY <1>0 DEF ChildType
      <4>2. QED
        BY <3>2, <3>a, <4>1 DEF ChildStreams
    <3>3. CASE ChildRejected(p) \/ ChildFinishes(p)
      <4>1. /\ [child[p] EXCEPT !.rejected = TRUE].state = child[p].state
            /\ Idle(child[p]).state = child[p].state
        BY <1>0 DEF ChildType, Idle
      <4>2. QED
        BY <3>3, <3>a, <4>1 DEF ChildRejected, ChildFinishes
    <3>6. CASE ChildIgnoresInterrupt(p) \/ ChildDies(p)
      <4>1. /\ [child[p] EXCEPT !.interrupted = FALSE].state = child[p].state
            /\ [child[p] EXCEPT !.state = "dead"].state = "dead"
        BY <1>0 DEF ChildType
      <4>2. QED
        BY <3>6, <3>a, <4>1 DEF ChildIgnoresInterrupt, ChildDies
    <3>4. CASE (\E s \in Statuses : ReportStatus(p, s)) \/ OnCloseConfirm(p)
      BY <3>4 DEF ReportStatus, OnCloseConfirm
    <3>5. QED
      BY <3>1, <3>2, <3>3, <3>4, <3>6 DEF ChildStep
  <2>3. QED
    BY <1>1, <2>1, <2>2 DEF UnbornIsOff
\* A step after which the child is dead, or works on a turn, owes nothing.
<1>a. ASSUME \A q \in Procs \ {p} : child'[q] = child[q] /\ pipe'[q] = pipe[q],
             child'[p].state = "dead" \/ child'[p].turn # 0
      PROVE  ResultIsLast'
  BY <1>1, <1>a DEF ResultIsLast, LastLine
<1>3. CASE ChildOpens(p)
  <2>1. child'[p].turn # 0
    <3>1. child[p].stdin \in Seq(Nat) /\ child[p].stdin # <<>>
      BY <1>0, <1>3 DEF ChildOpens, ChildType
    <3>2. Head(child[p].stdin) # 0
      BY <3>1 DEF TurnsArePrompts, TypeOK
    <3>3. QED
      BY <1>0, <1>3, <3>2 DEF ChildOpens, ChildType
  <2>2. QED
    BY <1>0, <1>2, <1>3, <1>a, <2>1 DEF ChildOpens, Emit
<1>4. CASE ChildStreams(p)
  BY <1>0, <1>2, <1>4, <1>a DEF ChildStreams, Working, Emit, ChildType
<1>5. CASE ChildRejected(p)
  BY <1>0, <1>2, <1>5, <1>a DEF ChildRejected, Working, Emit, ChildType
<1>6. CASE ChildFinishes(p)
  <2>0. PICK mark \in Marks : Emit(p, "result", child[p].turn, mark)
    BY <1>6 DEF ChildFinishes
  <2> DEFINE line == [kind |-> "result", turn |-> child[p].turn, mark |-> mark]
  <2>1. line \in Lines
    BY <1>0 DEF Lines, ChildType
  <2>2. pipe'[p] = Append(pipe[p], line)
    BY <1>0, <2>0 DEF Emit
  <2>3. pipe'[p] # <<>> /\ LastLine(p)'.kind = "result"
    BY <1>0, <2>1, <2>2, LastOfPipe DEF LastLine
  <2>4. \A q \in Procs \ {p} : child'[q] = child[q] /\ pipe'[q] = pipe[q]
    BY <1>0, <1>6, <2>0 DEF ChildFinishes, Emit
  <2>5. QED
    BY <1>1, <1>2, <2>3, <2>4 DEF ResultIsLast, LastLine
<1>7. CASE ChildIgnoresInterrupt(p)
  <2>1. \A q \in Procs : child'[q].state = child[q].state /\ child'[q].turn = child[q].turn
    BY <1>0, <1>7 DEF ChildIgnoresInterrupt, ChildType
  <2>2. QED
    BY <1>1, <1>2, <1>7, <2>1 DEF ChildIgnoresInterrupt, ResultIsLast, LastLine
<1>8. CASE ChildDies(p)
  BY <1>0, <1>2, <1>8, <1>a DEF ChildDies, ChildType
<1>9. CASE (\E s \in Statuses : ReportStatus(p, s)) \/ OnCloseConfirm(p)
  BY <1>1, <1>2, <1>9 DEF ReportStatus, OnCloseConfirm, ResultIsLast, LastLine
<1>10. QED
  BY <1>3, <1>4, <1>5, <1>6, <1>7, <1>8, <1>9 DEF ChildStep

LEMMA BadgeClientStep ==
    ASSUME TypeOK, BadgeInv, NEW c \in Clients, ClientStep(c)
    PROVE  BadgeInv'
<1> USE DEF BadgeInv
<1>0. /\ child \in [Procs -> ChildType] /\ pipe \in [Procs -> Seq(Lines)]
      /\ pump \in [Procs -> PumpType] /\ row \in RowType
      /\ \A q \in Procs : child[q] \in ChildType /\ pump[q] \in PumpType
  BY DEF TypeOK
\* A step that starts no child and touches no pump.
<1>a. ASSUME row'.closing = row.closing, UNCHANGED <<pipe, pump>>,
             \A q \in Procs : /\ child'[q].state = child[q].state
                              /\ child'[q].turn = child[q].turn
      PROVE  BadgeInv'
  <2>1. ClosingHasOwner'
    BY <1>a, OwnerStays DEF Owns
  <2>2. ResultIsLast' /\ UnbornIsOff'
    BY <1>a DEF ResultIsLast, LastLine, UnbornIsOff
  <2>3. QED
    BY <2>1, <2>2
<1>1. ASSUME NEW k \in PromptKinds, Send(c, k) PROVE BadgeInv'
  <2>1. \A q \in Procs : /\ child'[q].state = child[q].state
                         /\ child'[q].turn = child[q].turn
    <3> DEFINE fed == [child[live] EXCEPT !.stdin = Append(@, Len(prompts) + 1)]
    <3>1. live \in Procs
      BY <1>1 DEF Send, TypeOK
    <3>2. fed.state = child[live].state /\ fed.turn = child[live].turn
      BY <1>0, <3>1 DEF ChildType
    <3>3. child' = [child EXCEPT ![live] = fed] \/ child' = child
      BY <1>1 DEF Send
    <3> HIDE DEF fed
    <3>4. QED
      BY <1>0, <3>1, <3>2, <3>3
  <2>2. QED
    BY <1>1, <1>a, <2>1 DEF Send
<1>2. ASSUME NEW k \in PromptKinds, RespawnAndSend(c, k) PROVE BadgeInv'
  <2>1. PICK p \in Procs :
          /\ child[p].state = "unborn"
          /\ child' = [child EXCEPT ![p].state = "up", ![p].stdin = <<Len(prompts) + 1>>]
          /\ pump' = [pump EXCEPT ![p].pc = "reading"]
          /\ \E replay \in Replays : pipe' = [pipe EXCEPT ![p] = replay]
    BY <1>2 DEF RespawnAndSend
  <2>2. \A q \in Procs : /\ pump'[q].closing = pump[q].closing
                         /\ pump'[q].pc = IF q = p THEN "reading" ELSE pump[q].pc
    BY <1>0, <2>1 DEF PumpType
  <2>3. ClosingHasOwner'
    <3>1. UNCHANGED row
      BY <1>2 DEF RespawnAndSend
    <3>2. QED
      BY <2>2, <3>1, OwnerStays DEF Owns
  <2>4. \A q \in Procs \ {p} : child'[q] = child[q] /\ pipe'[q] = pipe[q]
    BY <1>0, <2>1
  <2>5. child'[p].turn = child[p].turn
    BY <1>0, <2>1 DEF ChildType
  <2>6. pipe'[p] = <<>> \/ (Len(pipe'[p]) = 1 /\ pipe'[p][1].kind = "result")
    BY <1>0, <2>1, ReplayedLines
  <2>7. UnbornIsOff'
    <3>1. \A q \in Procs : child'[q].state = "unborn" => (q # p /\ child[q].state = "unborn")
      BY <1>0, <2>1 DEF ChildType
    <3>2. QED
      BY <2>2, <3>1 DEF UnbornIsOff
  <2>8. ResultIsLast'
    <3>1. ~pump'[p].closing
      BY <2>1, <2>2 DEF UnbornIsOff
    <3>2. pipe'[p] # <<>> => LastLine(p)'.kind = "result"
      BY <2>6 DEF LastLine
    <3>3. QED
      BY <2>2, <2>4, <3>1, <3>2 DEF ResultIsLast, LastLine
  <2>9. QED
    BY <2>3, <2>7, <2>8
<1>3. CASE RecordSend(c)
  BY <1>0, <1>3, <1>a DEF RecordSend, RowType
<1>4. CASE CancelTurn(c)
  BY <1>0, <1>4, <1>a DEF CancelTurn, ChildType
<1>5. CASE RecordCancel(c)
  BY <1>0, <1>5, <1>a DEF RecordCancel, RowType
<1>6. QED
  BY <1>1, <1>2, <1>3, <1>4, <1>5 DEF ClientStep

\* The pump of one incarnation keeps the badge's books: it raises the badge
\* exactly when it flags itself, and lowers it when it lowers its own flag.
LEMMA FeedClosing ==
    ASSUME TypeOK, NEW p \in Procs, NEW line
    PROVE  \E f \in BOOLEAN :
             /\ AfterFeed(p, line).closing = (pump[p].closing \/ f)
             /\ RowAfterFeed(p, line).closing = (row.closing \/ f)
             /\ AfterFeed(p, line).pc = pump[p].pc
<1>1. pump[p] \in PumpType /\ row \in RowType
  BY DEF TypeOK
<1> DEFINE f == Captures(p, line) /\ IsClosePrompt(lastPrompt[p])
<1>2. f \in BOOLEAN
  OBVIOUS
<1>3. /\ AfterFeed(p, line).closing = (pump[p].closing \/ f)
      /\ AfterFeed(p, line).pc = pump[p].pc
  BY <1>1 DEF AfterFeed, PumpType
<1>4. RowAfterFeed(p, line).closing = (row.closing \/ f)
  BY <1>1 DEF RowAfterFeed, RowType
<1>5. QED
  BY <1>2, <1>3, <1>4

LEMMA BadgePumpStep ==
    ASSUME TypeOK, BadgeInv, NEW p \in Procs, PumpStep(p)
    PROVE  BadgeInv'
<1> USE DEF BadgeInv
<1>0. /\ child \in [Procs -> ChildType] /\ pipe \in [Procs -> Seq(Lines)]
      /\ pump \in [Procs -> PumpType] /\ row \in RowType
      /\ \A q \in Procs : /\ child[q] \in ChildType /\ pump[q] \in PumpType
                          /\ pipe[q] \in Seq(Lines)
  BY DEF TypeOK
<1>1. pump[p].pc # "off" /\ child[p].state # "unborn"
  BY DEF PumpStep, ReadPlain, ReadLimit, ReadResult, AfterResult, ReadLine, Eof, EofSettles,
         EofCloses, UnbornIsOff
<1>2. \A q \in Procs \ {p} : pump'[q] = pump[q] /\ pipe'[q] = pipe[q] /\ child'[q] = child[q]
  BY <1>0 DEF PumpStep, ReadPlain, ReadLimit, ReadResult, AfterResult, ReadLine, KillIf, Eof,
         EofSettles, EofCloses
<1>3. child'[p].turn = child[p].turn /\ child'[p].state \in {child[p].state, "dead"}
  BY <1>0 DEF PumpStep, ReadPlain, ReadLimit, ReadResult, AfterResult, KillIf, Eof, EofSettles,
         EofCloses, ChildType
<1>4. UnbornIsOff'
  BY <1>1, <1>2, <1>3 DEF UnbornIsOff
\* Some f: the line raised the flag and the badge together.
<1>a. ASSUME NEW f \in BOOLEAN,
             row'.closing = (row.closing \/ f),
             pump'[p].closing = (pump[p].closing \/ f),
             pump'[p].pc = pump[p].pc,
             pump[p].pc = "reading"
      PROVE  ClosingHasOwner'
  BY <1>2, <1>a DEF ClosingHasOwner
\* The pump lowered the badge if its flag was up, and owns it no more.
<1>b. ASSUME row'.closing => (row.closing /\ ~pump[p].closing)
      PROVE  ClosingHasOwner'
  BY <1>2, <1>b DEF ClosingHasOwner
<1>5. CASE ReadPlain(p) \/ ReadLimit(p)
  <2> DEFINE line == Head(pipe[p])
  <2>1. /\ pump[p].pc = "reading" /\ pipe[p] # <<>> /\ pipe'[p] = Tail(pipe[p])
        /\ pump'[p] = AfterFeed(p, line) /\ row' = RowAfterFeed(p, line)
        /\ line.kind # "result" /\ UNCHANGED child
    BY <1>0, <1>5 DEF ReadPlain, ReadLimit, ReadLine
  <2>2. ClosingHasOwner'
    <3>1. PICK f \in BOOLEAN :
             /\ AfterFeed(p, line).closing = (pump[p].closing \/ f)
             /\ RowAfterFeed(p, line).closing = (row.closing \/ f)
             /\ AfterFeed(p, line).pc = pump[p].pc
      BY FeedClosing
    <3>2. QED
      BY <1>a, <2>1, <3>1
  <2>3. (child[p].state = "up" /\ child[p].turn = 0) =>
            pipe'[p] # <<>> /\ LastLine(p)'.kind = "result"
    <3>1. SUFFICES ASSUME child[p].state = "up", child[p].turn = 0
                   PROVE  pipe'[p] # <<>> /\ LastLine(p)'.kind = "result"
      OBVIOUS
    <3>2. LastLine(p).kind = "result"
      BY <2>1, <3>1 DEF ResultIsLast
    <3>3. Tail(pipe[p]) # <<>>
          /\ Tail(pipe[p])[Len(Tail(pipe[p]))] = pipe[p][Len(pipe[p])]
      <4>1. Head(pipe[p]) \in Lines
        BY <1>0, <2>1, HeadTail
      <4>2. QED
        BY <1>0, <2>1, <3>2, <4>1, LastOfPipe DEF LastLine
    <3>4. QED
      BY <2>1, <3>2, <3>3 DEF LastLine
  <2>4. ResultIsLast'
    BY <1>2, <2>1, <2>3 DEF ResultIsLast, LastLine
  <2>5. QED
    BY <1>4, <2>2, <2>4
<1>6. CASE ReadResult(p)
  <2> DEFINE line  == Head(pipe[p])
             after == AfterFeed(p, line)
             fed   == RowAfterFeed(p, line)
  <2>1. /\ pump[p].pc = "reading" /\ pipe[p] # <<>> /\ pipe'[p] = Tail(pipe[p])
    BY <1>0, <1>6 DEF ReadResult, ReadLine
  <2>2. line \in Lines
    BY <1>0, <2>1, HeadTail
  <2>3. after \in PumpType /\ fed \in RowType
    BY <2>2, FeedType
  <2>4. row'.closing = (fed.closing /\ ~after.closing) /\ ~pump'[p].closing
    BY <1>0, <1>6, <2>3 DEF ReadResult, IsNewestGen, AfterResult, RowType, PumpType
  <2>5. ClosingHasOwner'
    <3>1. PICK f \in BOOLEAN :
             /\ after.closing = (pump[p].closing \/ f)
             /\ fed.closing = (row.closing \/ f)
      BY FeedClosing
    <3>2. QED
      BY <1>b, <2>4, <3>1
  <2>6. ResultIsLast'
    <3>1. (child[p].state = "up" /\ child[p].turn = 0 /\ pipe'[p] # <<>>) =>
              LastLine(p)'.kind = "result"
      <4>1. (pipe'[p] # <<>>) => LastLine(p)' = LastLine(p)
        BY <1>0, <2>1, <2>2, LastOfPipe DEF LastLine
      <4>2. QED
        BY <2>1, <4>1 DEF ResultIsLast
    <3>2. QED
      BY <1>2, <1>3, <2>4, <3>1 DEF ResultIsLast, LastLine
  <2>7. QED
    BY <1>4, <2>5, <2>6
<1>c. ASSUME child[p].state = "dead" \/ UNCHANGED pump, UNCHANGED <<child, pipe>>
      PROVE  ResultIsLast'
  BY <1>2, <1>c DEF ResultIsLast, LastLine
<1>d. ASSUME pump'[p].pc \in {"removed", "settled"}, pump'[p].closing = pump[p].closing,
             pump[p].pc \in {"reading", "removed"},
             row'.closing = row.closing
      PROVE  ClosingHasOwner'
  BY <1>2, <1>d DEF ClosingHasOwner
\* After its end of file nothing comes from a pump whose child is dead.
<1>e. ASSUME pump'[p].closing = pump[p].closing \/ ~pump'[p].closing,
             UNCHANGED <<child, pipe>>
      PROVE  ResultIsLast'
  BY <1>2, <1>e DEF ResultIsLast, LastLine
<1>7. CASE Eof(p)
  <2>1. ClosingHasOwner'
    BY <1>0, <1>7, <1>d DEF Eof, PumpType
  <2>2. ResultIsLast'
    BY <1>0, <1>7, <1>e DEF Eof, PumpType
  <2>3. QED
    BY <1>4, <2>1, <2>2
<1>8. CASE EofSettles(p)
  <2>1. ClosingHasOwner'
    BY <1>0, <1>8, <1>d DEF EofSettles, IsNewestGen, PumpType, RowType
  <2>2. ResultIsLast'
    BY <1>0, <1>8, <1>e DEF EofSettles, PumpType
  <2>3. QED
    BY <1>4, <2>1, <2>2
<1>9. CASE EofCloses(p)
  <2>1. ClosingHasOwner'
    BY <1>0, <1>9, <1>b DEF EofCloses, RowType
  <2>2. ResultIsLast'
    BY <1>0, <1>9, <1>e DEF EofCloses, PumpType
  <2>3. QED
    BY <1>4, <2>1, <2>2
<1>10. QED
  BY <1>5, <1>6, <1>7, <1>8, <1>9 DEF PumpStep

LEMMA BadgeStep == TypeOK /\ TurnsArePrompts /\ BadgeInv /\ [Next]_vars => BadgeInv'
<1>1. BadgeInv /\ UNCHANGED vars => BadgeInv'
  BY DEF vars, BadgeInv, ClosingHasOwner, ResultIsLast, LastLine, UnbornIsOff
<1>2. QED
  BY <1>1, BadgeChildStep, BadgeClientStep, BadgePumpStep DEF Next

LEMMA BadgeInit == Init => BadgeInv
<1> SUFFICES ASSUME Init PROVE BadgeInv
  OBVIOUS
<1>1. ClosingHasOwner
  BY DEF Init, ClosingHasOwner
<1>2. \A p \in Procs : /\ child[p].state = "unborn"
                       /\ pump[p].pc = "off" /\ ~pump[p].closing
  BY DEF Init, Unborn, FreshPump
<1>3. QED
  BY <1>1, <1>2 DEF BadgeInv, ResultIsLast, UnbornIsOff

LEMMA BadgeHolds == Spec => [](TypeOK /\ TurnsArePrompts /\ BadgeInv)
<1>1. Init => TurnsArePrompts
  BY DEF Init, TurnsArePrompts, Unborn
<1>2. QED
  BY <1>1, InitType, TypeStep, TurnsStep, BadgeInit, BadgeStep, PTL DEF Spec

\* Whenever the "Closing" badge is up, a pump that is still running has it on
\* its books (pump.rs: closing_flagged).
THEOREM ClosingOwned == Spec => []ClosingHasOwner
<1>1. BadgeInv => ClosingHasOwner
  BY DEF BadgeInv
<1>2. QED
  BY <1>1, BadgeHolds, PTL

\* When nothing is under way the badge is down, whatever the environment
\* does: the stand-downs of pump.rs and the EOF branch leave no way around.
THEOREM BadgeComesDown == Spec => []QuietMeansNotClosing
<1>1. BadgeInv => QuietMeansNotClosing
  BY DEF BadgeInv, ClosingHasOwner, ResultIsLast, QuietMeansNotClosing, Quiet
<1>2. QED
  BY <1>1, BadgeHolds, PTL

-----------------------------------------------------------------------------
(* Turn by turn.  In a calm environment (one send at a time, none into a    *)
(* teardown, no child faster than its sender, none dying before it has      *)
(* streamed, no cancel, no rejection, no silent turn) the one prompt under  *)
(* way can always be located: it is queued, being worked on, answered, or   *)
(* its child's pump is about to settle it.  From the first streamed line on *)
(* the pump has captured its generation, or is bound to.                    *)

Calm == Env \subseteq {"lateDeath", "background"}

Newest == Len(prompts)

Writing == \E c \in Clients : client[c] = "written"

\* The number of prompts recorded is row.gen.
ClientsInv ==
    /\ \A c \in Clients : client[c] # "interrupted"
    /\ \A c, d \in Clients : (client[c] = "written" /\ client[d] = "written") => c = d
    /\ Writing => ~row.busy
    /\ row.gen = IF Writing THEN Newest - 1 ELSE Newest

\* One incarnation at a time: the live one, or one being torn down.
ProcsInv ==
    /\ \A p \in Procs : pump[p].pc = "reading" <=> live = p
    /\ \A p, q \in Procs :
          (pump[p].pc \notin {"off", "gone"} /\ pump[q].pc \notin {"off", "gone"}) => p = q
    /\ \A p \in Procs : child[p].state = "unborn" =>
          child[p] = Unborn /\ pump[p] = FreshPump
    /\ \A p \in Procs : pump[p].pc # "reading" =>
          pipe[p] = <<>> /\ child[p].stdin = <<>> /\ child[p].state # "up"
    /\ \A p \in Procs : /\ ~child[p].interrupted /\ ~child[p].rejected
                        /\ child[p].turn = 0 => child[p].streamed = 0

\* A line in a pipe is a replayed result that no capture precedes, or one of
\* the newest turn.
Replayed(p, k) ==
    /\ pipe[p][k].kind = "result" /\ pipe[p][k].turn = 0 /\ k = 1
    /\ pump[p].gen = 0 /\ ~pump[p].latch /\ ~pump[p].saw /\ row.gen > 0

OfNewest(p, k) ==
    /\ pipe[p][k].turn = Newest /\ Newest > 0 /\ row.busy /\ child[p].stdin = <<>>
    /\ \/ pipe[p][k].kind \in {"init", "stream"}
       \/ /\ pipe[p][k].kind = "result"
          /\ k = Len(pipe[p]) /\ child[p].turn = 0

LinesInv == \A p \in Procs : \A k \in 1..Len(pipe[p]) : Replayed(p, k) \/ OfNewest(p, k)

\* The pump has captured the newest turn, or will when it reads on.
Seen(p) == pump[p].saw \/ \E k \in 1..Len(pipe[p]) : pipe[p][k].kind = "stream"

SawInv == \A p \in Procs : pump[p].saw /\ live = p =>
    pump[p].gen = row.gen /\ row.busy /\ child[p].stdin = <<>>

Queued(p) ==
    /\ live = p /\ child[p].state = "up"
    /\ child[p].stdin = <<Newest>> /\ child[p].turn = 0

AtWork(p) ==
    /\ live = p /\ child[p].stdin = <<>> /\ child[p].turn = Newest
    /\ (child[p].state # "up" \/ child[p].streamed > 0) => Seen(p) /\ child[p].streamed > 0

Answered(p) ==
    /\ live = p /\ child[p].stdin = <<>> /\ child[p].turn = 0
    /\ pipe[p] # <<>> /\ LastLine(p).kind = "result" /\ LastLine(p).turn = Newest
    /\ Seen(p)

Settling(p) == pump[p].pc = "removed" /\ pump[p].gen = row.gen

PhaseInv ==
    /\ row.busy => Newest > 0 /\
          \E p \in Procs : Queued(p) \/ AtWork(p) \/ Answered(p) \/ Settling(p)
    /\ Writing => Newest > 0 /\ \E p \in Procs : Queued(p)
    /\ (~row.busy /\ ~Writing) =>
          \A p \in Procs : live = p => child[p].stdin = <<>> /\ child[p].turn = 0

\* close_session was called by the turn under way.
RequestInv ==
    side.closeRequested =>
        \/ \E p \in Procs : pump[p].pc \in {"removed", "settled"}
        \/ /\ row.busy
           /\ \A p \in Procs : live = p =>
                child[p].stdin = <<>> /\ (child[p].turn # 0 => child[p].streamed > 0)

ReportInv == side.reported # None => side.reported.gen = side.reported.by

CalmInv ==
    /\ ClientsInv /\ ProcsInv /\ LinesInv /\ SawInv /\ PhaseInv
    /\ RequestInv /\ ReportInv

LEMMA CalmEnv ==
    ASSUME Calm
    PROVE  Env \cap {"overlap", "fast", "teardown", "cancel", "earlyDeath",
                     "rejection", "silent"} = {}
  BY DEF Calm

LEMMA PipeAppend ==
    ASSUME NEW q \in Seq(Lines), NEW line \in Lines
    PROVE  /\ Len(Append(q, line)) = Len(q) + 1 /\ Append(q, line) # <<>>
           /\ Append(q, line)[Len(q) + 1] = line
           /\ \A k \in 1..Len(q) : Append(q, line)[k] = q[k]
           /\ Len(q) \in Nat
  OBVIOUS

LEMMA PipeTail ==
    ASSUME NEW q \in Seq(Lines), q # <<>>
    PROVE  /\ Len(q) \in Nat \ {0} /\ Head(q) = q[1] /\ 1 \in 1..Len(q)
           /\ Len(Tail(q)) = Len(q) - 1
           /\ \A k \in 1..Len(Tail(q)) : Tail(q)[k] = q[k + 1] /\ k + 1 \in 1..Len(q)
  OBVIOUS

LEMMA StateTypes ==
    ASSUME TypeOK
    PROVE  /\ row.gen \in Nat /\ row.busy \in BOOLEAN /\ Newest \in Nat
           /\ child \in [Procs -> ChildType] /\ pipe \in [Procs -> Seq(Lines)]
           /\ pump \in [Procs -> PumpType] /\ row \in RowType
           /\ \A p \in Procs : /\ child[p] \in ChildType /\ pump[p] \in PumpType
                               /\ pipe[p] \in Seq(Lines) /\ child[p].turn \in Nat
                               /\ child[p].stdin \in Seq(Nat) /\ child[p].streamed \in Nat
  BY DEF TypeOK, RowType, ChildType, Newest

LEMMA QueuedIsSomething ==
    ASSUME NEW p \in Procs, Queued(p)
    PROVE  child[p].stdin # <<>>
<1>1. Len(<<Newest>>) = 1 /\ Len(<<>>) = 0
  OBVIOUS
<1>2. QED
  BY <1>1 DEF Queued

\* Where the turn of a running child is.
LEMMA WhereTurnIs ==
    ASSUME TypeOK, CalmInv, NEW p \in Procs
    PROVE  /\ child[p].state = "up" => live = p
           /\ live = p => pump[p].pc = "reading" /\ child[p].state # "unborn"
           /\ (live = p /\ row.busy) =>
                 Newest > 0 /\ (Queued(p) \/ AtWork(p) \/ Answered(p))
           /\ (live = p /\ Writing) => Newest > 0 /\ Queued(p)
           /\ (live = p /\ ~row.busy /\ ~Writing) =>
                 child[p].stdin = <<>> /\ child[p].turn = 0
           /\ (live = p /\ child[p].turn # 0) => row.busy /\ AtWork(p) /\ ~Writing
           /\ row.busy => ~Writing /\ row.gen = Newest
<1>1. (child[p].state = "up" => live = p) /\ (live = p => pump[p].pc = "reading")
  BY DEF CalmInv, ProcsInv
<1>2. live = p => child[p].state # "unborn"
  BY <1>1 DEF CalmInv, ProcsInv, FreshPump
<1>3. (live = p /\ row.busy) => Newest > 0 /\ (Queued(p) \/ AtWork(p) \/ Answered(p))
  <2> SUFFICES ASSUME live = p, row.busy
               PROVE  Newest > 0 /\ (Queued(p) \/ AtWork(p) \/ Answered(p))
    OBVIOUS
  <2>1. PICK q \in Procs : Newest > 0 /\ (Queued(q) \/ AtWork(q) \/ Answered(q) \/ Settling(q))
    BY DEF CalmInv, PhaseInv
  <2>2. q = p
    BY <1>1, <2>1 DEF Queued, AtWork, Answered, Settling, CalmInv, ProcsInv
  <2>3. ~Settling(p)
    BY <1>1 DEF Settling
  <2>4. QED
    BY <2>1, <2>2, <2>3
<1>4. (live = p /\ Writing) => Newest > 0 /\ Queued(p)
  BY DEF CalmInv, PhaseInv, Queued
<1>5. (live = p /\ ~row.busy /\ ~Writing) => child[p].stdin = <<>> /\ child[p].turn = 0
  BY DEF CalmInv, PhaseInv
<1>6. row.busy => ~Writing /\ row.gen = Newest
  BY DEF CalmInv, ClientsInv
<1>7. (live = p /\ child[p].turn # 0) => row.busy /\ AtWork(p) /\ ~Writing
  BY <1>3, <1>4, <1>5, <1>6 DEF Queued, Answered
<1>8. QED
  BY <1>1, <1>2, <1>3, <1>4, <1>5, <1>6, <1>7

\* A step of the live incarnation and its pump.
LEMMA LocalStep ==
    ASSUME TypeOK, CalmInv, NEW p \in Procs, live = p,
           UNCHANGED <<live, client, prompts>>, row'.gen = row.gen, row'.busy => row.busy,
           \A q \in Procs \ {p} : /\ child'[q] = child[q] /\ pipe'[q] = pipe[q]
                                  /\ pump'[q] = pump[q],
           pump'[p].pc = "reading", child'[p].state # "unborn",
           ~child'[p].interrupted, ~child'[p].rejected,
           child'[p].turn = 0 => child'[p].streamed = 0,
           \A k \in 1..Len(pipe'[p]) : Replayed(p, k)' \/ OfNewest(p, k)',
           pump'[p].saw =>
               pump'[p].gen = row.gen /\ row'.busy /\ child'[p].stdin = <<>>,
           row'.busy => (Queued(p) \/ AtWork(p) \/ Answered(p))',
           Writing => Queued(p)',
           (~row'.busy /\ ~Writing) => child'[p].stdin = <<>> /\ child'[p].turn = 0,
           RequestInv', ReportInv'
    PROVE  CalmInv'
<1>1. pump[p].pc = "reading"
  BY WhereTurnIs
<1>2. Writing' = Writing /\ Newest' = Newest
  BY DEF Writing, Newest
<1>3. ClientsInv'
  BY <1>2 DEF CalmInv, ClientsInv
<1>4. ProcsInv'
  BY <1>1 DEF CalmInv, ProcsInv
<1>5. LinesInv'
  <2> SUFFICES ASSUME NEW q \in Procs, NEW k \in 1..Len(pipe'[q])
               PROVE  Replayed(q, k)' \/ OfNewest(q, k)'
    BY DEF LinesInv
  <2>1. CASE q = p
    BY <2>1
  <2>2. CASE q # p
    <3>1. pipe'[q] = <<>>
      BY <1>1, <2>2 DEF CalmInv, ProcsInv
    <3>2. QED
      BY <3>1
  <2>3. QED
    BY <2>1, <2>2
<1>6. SawInv'
  BY DEF SawInv
<1>7. PhaseInv'
  <2>1. row'.busy => Newest' > 0
    BY <1>2 DEF CalmInv, PhaseInv
  <2>2. Writing => Newest' > 0
    BY <1>2 DEF CalmInv, PhaseInv
  <2>3. QED
    BY <1>2, <2>1, <2>2 DEF PhaseInv
<1>8. QED
  BY <1>3, <1>4, <1>5, <1>6, <1>7 DEF CalmInv

\* A line of the newest turn joins the pipe.
LEMMA LineJoins ==
    ASSUME TypeOK, CalmInv, NEW p \in Procs, live = p, row.busy,
           UNCHANGED <<row, pump, prompts>>,
           NEW kind \in {"init", "stream", "result"}, NEW mark \in Marks,
           Emit(p, kind, Newest, mark),
           child'[p].stdin = <<>>, Newest > 0,
           \A k \in 1..Len(pipe[p]) : pipe[p][k].kind = "result" => pipe[p][k].turn = 0,
           kind = "result" => child'[p].turn = 0
    PROVE  /\ \A k \in 1..Len(pipe'[p]) : Replayed(p, k)' \/ OfNewest(p, k)'
           /\ pipe'[p] # <<>> /\ LastLine(p)'.kind = kind /\ LastLine(p)'.turn = Newest
           /\ (pump[p].saw \/ \E k \in 1..Len(pipe[p]) : pipe[p][k].kind = "stream") => Seen(p)'
           /\ kind = "stream" => Seen(p)'
<1> DEFINE line == [kind |-> kind, turn |-> Newest, mark |-> mark]
<1>1. line \in Lines /\ pipe[p] \in Seq(Lines) /\ Newest \in Nat
  BY StateTypes DEF Lines
<1>2. pipe'[p] = Append(pipe[p], line)
  BY DEF Emit, TypeOK
<1>3. /\ Len(pipe'[p]) = Len(pipe[p]) + 1 /\ pipe'[p] # <<>>
      /\ pipe'[p][Len(pipe[p]) + 1] = line
      /\ \A k \in 1..Len(pipe[p]) : pipe'[p][k] = pipe[p][k]
      /\ Len(pipe[p]) \in Nat
  BY <1>1, <1>2, PipeAppend
<1>4. ASSUME NEW k \in 1..Len(pipe'[p]) PROVE Replayed(p, k)' \/ OfNewest(p, k)'
  <2>1. CASE k = Len(pipe[p]) + 1
    BY <1>3, <2>1 DEF OfNewest, Newest
  <2>2. CASE k # Len(pipe[p]) + 1
    <3>1. k \in 1..Len(pipe[p]) /\ pipe'[p][k] = pipe[p][k]
      BY <1>3, <2>2
    <3>2. Replayed(p, k) \/ (OfNewest(p, k) /\ pipe[p][k].kind \in {"init", "stream"})
      <4>1. Replayed(p, k) \/ OfNewest(p, k)
        BY <3>1 DEF CalmInv, LinesInv
      <4>2. OfNewest(p, k) => pipe[p][k].kind \in {"init", "stream"}
        BY <1>1, <3>1 DEF OfNewest
      <4>3. QED
        BY <4>1, <4>2
    <3>3. QED
      BY <3>1, <3>2 DEF Replayed, OfNewest, Newest
  <2>3. QED
    BY <2>1, <2>2
<1>5. LastLine(p)' = line
  BY <1>3 DEF LastLine
<1>6. (\E k \in 1..Len(pipe[p]) : pipe[p][k].kind = "stream") =>
          \E k \in 1..Len(pipe'[p]) : pipe'[p][k].kind = "stream"
  BY <1>3
<1>7. kind = "stream" => \E k \in 1..Len(pipe'[p]) : pipe'[p][k].kind = "stream"
  <2>1. Len(pipe[p]) + 1 \in 1..Len(pipe'[p])
    BY <1>3
  <2>2. QED
    BY <1>3, <2>1
<1>8. QED
  BY <1>3, <1>4, <1>5, <1>6, <1>7 DEF Seen

LEMMA CalmOpens ==
    ASSUME TypeOK, Calm, CalmInv, NEW p \in Procs, ChildOpens(p)
    PROVE  CalmInv'
<1>1. /\ live = p /\ pump[p].pc = "reading" /\ ~Writing
  BY CalmEnv, WhereTurnIs DEF ChildOpens, Recorded, Writing
<1>2. row.busy /\ Newest > 0 /\ Queued(p)
  BY <1>1, WhereTurnIs DEF ChildOpens, AtWork, Answered
<1>3. Head(child[p].stdin) = Newest /\ Tail(child[p].stdin) = <<>>
  BY <1>2 DEF Queued
<1>4. /\ child'[p].turn = Newest /\ child'[p].stdin = <<>>
      /\ child'[p].streamed = 0 /\ child'[p].state = "up"
      /\ ~child'[p].interrupted /\ ~child'[p].rejected
      /\ \A q \in Procs \ {p} : child'[q] = child[q] /\ pipe'[q] = pipe[q]
  <2>1. child[p].streamed = 0 /\ ~child[p].interrupted /\ ~child[p].rejected
    BY DEF ChildOpens, CalmInv, ProcsInv
  <2>2. child \in [Procs -> ChildType] /\ pipe \in [Procs -> Seq(Lines)] /\ child[p] \in ChildType
    BY StateTypes
  <2>3. child' = [child EXCEPT ![p].turn = Newest, ![p].stdin = <<>>]
    BY <1>3, <2>2 DEF ChildOpens, ChildType
  <2>4. QED
    BY <2>1, <2>2, <2>3 DEF ChildOpens, Emit, ChildType
<1>n. child[p].stdin # <<>>
  BY DEF ChildOpens
<1>5. ~pump[p].saw
  BY <1>1, <1>n DEF CalmInv, SawInv
<1>6. \A k \in 1..Len(pipe[p]) : pipe[p][k].kind = "result" => pipe[p][k].turn = 0
  BY <1>n DEF CalmInv, LinesInv, Replayed, OfNewest
<1>7. Emit(p, "init", Newest, None) /\ None \in Marks /\ UNCHANGED <<row, side, live, pump, client, prompts>>
  BY <1>3 DEF ChildOpens, Marks
<1>8. \A k \in 1..Len(pipe'[p]) : Replayed(p, k)' \/ OfNewest(p, k)'
  BY <1>1, <1>2, <1>4, <1>6, <1>7, LineJoins
<1>9. AtWork(p)'
  BY <1>1, <1>4, <1>7 DEF AtWork, Newest
<1>10. RequestInv' /\ ReportInv'
  BY <1>1, <1>n, <1>7 DEF CalmInv, RequestInv, ReportInv
<1>11. QED
  BY <1>1, <1>2, <1>4, <1>5, <1>7, <1>8, <1>9, <1>10, LocalStep

LEMMA CalmStreams ==
    ASSUME TypeOK, Calm, CalmInv, NEW p \in Procs, ChildStreams(p) \/ ChildFinishes(p)
    PROVE  CalmInv'
<1>1. /\ child[p].state = "up" /\ child[p].turn # 0
      /\ UNCHANGED <<row, live, pump, client, prompts>>
  BY DEF ChildStreams, ChildFinishes, Working
<1>2. live = p /\ pump[p].pc = "reading" /\ row.busy /\ AtWork(p) /\ ~Writing /\ Newest > 0
  BY <1>1, WhereTurnIs
<1>3. \A k \in 1..Len(pipe[p]) : pipe[p][k].kind = "result" => pipe[p][k].turn = 0
  BY <1>1 DEF CalmInv, LinesInv, Replayed, OfNewest
<1>4. ~child[p].interrupted /\ ~child[p].rejected
  BY DEF CalmInv, ProcsInv
<1>5. RequestInv' /\ ReportInv'
  <2>1. side'.closeRequested = side.closeRequested /\ side'.reported = side.reported
    BY DEF ChildStreams, ChildFinishes, TypeOK, SideType
  <2>2. child'[p].turn # 0 => child'[p].streamed > 0
    <3>1. CASE ChildStreams(p)
      <4>1. child' = [child EXCEPT ![p].streamed = child[p].streamed + 1]
        BY <3>1 DEF ChildStreams
      <4>2. QED
        BY <4>1, StateTypes DEF ChildType
    <3>2. CASE ChildFinishes(p)
      <4>1. child' = [child EXCEPT ![p] = Idle(child[p])]
        BY <3>2 DEF ChildFinishes
      <4>2. QED
        BY <4>1, StateTypes DEF Idle, ChildType
    <3>3. QED
      BY <3>1, <3>2
  <2>3. child'[p].stdin = child[p].stdin
    BY StateTypes DEF ChildStreams, ChildFinishes, Idle, ChildType
  <2>4. ReportInv'
    BY <2>1 DEF CalmInv, ReportInv
  <2>5. RequestInv'
    BY <1>1, <1>2, <2>1, <2>2, <2>3 DEF CalmInv, RequestInv
  <2>6. QED
    BY <2>4, <2>5
<1>6. CASE ChildStreams(p)
  <2>1. Emit(p, "stream", Newest, None) /\ None \in Marks
    BY <1>2, <1>6 DEF ChildStreams, AtWork, Marks
  <2>2. /\ child'[p].turn = Newest /\ child'[p].stdin = <<>>
        /\ child'[p].streamed > 0 /\ child'[p].state = "up"
        /\ ~child'[p].interrupted /\ ~child'[p].rejected
        /\ \A q \in Procs \ {p} : child'[q] = child[q] /\ pipe'[q] = pipe[q]
    <3>1. child' = [child EXCEPT ![p].streamed = child[p].streamed + 1]
      BY <1>6 DEF ChildStreams
    <3>2. QED
      BY <1>1, <1>2, <1>4, <2>1, <3>1, StateTypes DEF AtWork, Emit, ChildType
  <2>3. /\ \A k \in 1..Len(pipe'[p]) : Replayed(p, k)' \/ OfNewest(p, k)'
        /\ Seen(p)'
    BY <1>1, <1>2, <1>3, <2>1, <2>2, LineJoins
  <2>4. AtWork(p)'
    BY <1>1, <1>2, <2>2, <2>3 DEF AtWork, Newest
  <2>5. pump[p].saw => pump[p].gen = row.gen
    BY <1>2 DEF CalmInv, SawInv
  <2>6. QED
    BY <1>1, <1>2, <1>5, <2>2, <2>3, <2>4, <2>5, LocalStep
<1>7. CASE ChildFinishes(p)
  <2>0. PICK mark \in Marks : Emit(p, "result", child[p].turn, mark)
    BY <1>7 DEF ChildFinishes
  <2>1. Emit(p, "result", Newest, mark) /\ child[p].streamed > 0
    BY <1>2, <1>4, <1>7, <2>0, CalmEnv DEF ChildFinishes, AtWork
  <2>2. /\ child'[p].turn = 0 /\ child'[p].stdin = <<>>
        /\ child'[p].streamed = 0 /\ child'[p].state = "up"
        /\ ~child'[p].interrupted /\ ~child'[p].rejected
        /\ \A q \in Procs \ {p} : child'[q] = child[q] /\ pipe'[q] = pipe[q]
    <3>1. child' = [child EXCEPT ![p] = Idle(child[p])]
      BY <1>7 DEF ChildFinishes
    <3>2. QED
      BY <1>1, <1>2, <1>4, <2>1, <3>1, StateTypes DEF AtWork, Emit, ChildType, Idle
  <2>3. /\ \A k \in 1..Len(pipe'[p]) : Replayed(p, k)' \/ OfNewest(p, k)'
        /\ pipe'[p] # <<>> /\ LastLine(p)'.kind = "result" /\ LastLine(p)'.turn = Newest
        /\ Seen(p) => Seen(p)'
    BY <1>1, <1>2, <1>3, <2>1, <2>2, LineJoins DEF Seen
  <2>4. Answered(p)'
    <3>1. Seen(p)
      BY <1>2, <2>1 DEF AtWork
    <3>2. QED
      BY <1>1, <1>2, <2>2, <2>3, <3>1 DEF Answered, Newest
  <2>5. pump[p].saw => pump[p].gen = row.gen
    BY <1>2 DEF CalmInv, SawInv
  <2>6. QED
    BY <1>1, <1>2, <1>5, <2>2, <2>3, <2>4, <2>5, LocalStep
<1>8. QED
  BY <1>6, <1>7

LEMMA CalmDies ==
    ASSUME TypeOK, Calm, CalmInv, NEW p \in Procs, ChildDies(p)
    PROVE  CalmInv'
<1>1. /\ live = p /\ pump[p].pc = "reading"
      /\ UNCHANGED <<row, side, live, pipe, pump, client, prompts>>
  BY WhereTurnIs DEF ChildDies
<1>2. /\ child'[p].state = "dead"
      /\ child'[p].turn = child[p].turn /\ child'[p].stdin = child[p].stdin
      /\ child'[p].streamed = child[p].streamed
      /\ child'[p].interrupted = child[p].interrupted
      /\ child'[p].rejected = child[p].rejected
      /\ \A q \in Procs \ {p} : child'[q] = child[q]
  BY StateTypes DEF ChildDies, ChildType
<1>3. child[p].stdin = <<>> /\ (child[p].turn # 0 => child[p].streamed > 0)
  <2>1. ~("earlyDeath" \in Env)
    BY CalmEnv
  <2>2. QED
    BY <2>1 DEF ChildDies
<1>4. ~Writing /\ ~Queued(p)
  BY <1>1, <1>3, WhereTurnIs, QueuedIsSomething
<1>5. row.busy => (AtWork(p) \/ Answered(p))'
  <2>1. Seen(p)' = Seen(p) /\ LastLine(p)' = LastLine(p) /\ Newest' = Newest
    BY <1>1 DEF Seen, LastLine, Newest
  <2>2. row.busy => Newest > 0 /\ (AtWork(p) \/ Answered(p))
    BY <1>1, <1>4, WhereTurnIs
  <2>3. AtWork(p) /\ Newest > 0 => AtWork(p)'
    BY <1>1, <1>2, <1>3, <2>1 DEF AtWork
  <2>4. Answered(p) => Answered(p)'
    BY <1>1, <1>2, <2>1 DEF Answered
  <2>5. QED
    BY <2>2, <2>3, <2>4
<1>6. \A k \in 1..Len(pipe'[p]) : Replayed(p, k)' \/ OfNewest(p, k)'
  BY <1>1, <1>2 DEF CalmInv, LinesInv, Replayed, OfNewest, Newest
<1>7. RequestInv' /\ ReportInv'
  BY <1>1, <1>2 DEF CalmInv, RequestInv, ReportInv
<1>8. /\ ~child[p].interrupted /\ ~child[p].rejected
      /\ child[p].turn = 0 => child[p].streamed = 0
      /\ pump[p].saw => pump[p].gen = row.gen /\ row.busy
      /\ (~row.busy /\ ~Writing) => child[p].turn = 0
  BY <1>1 DEF CalmInv, ProcsInv, SawInv, PhaseInv
<1>9. QED
  BY <1>1, <1>2, <1>3, <1>4, <1>5, <1>6, <1>7, <1>8, LocalStep

LEMMA CalmChild ==
    ASSUME TypeOK, Calm, CalmInv, NEW p \in Procs, ChildStep(p)
    PROVE  CalmInv'
<1>1. ~ChildRejected(p)
  BY CalmEnv DEF ChildRejected
<1>2. ~ChildIgnoresInterrupt(p)
  BY DEF ChildIgnoresInterrupt, CalmInv, ProcsInv
\* Neither of the child's tool calls touches more than the side maps.
<1>3. ASSUME UNCHANGED <<row, live, child, pipe, pump, client, prompts>>,
             RequestInv', ReportInv'
      PROVE  CalmInv'
  <2>1. ClientsInv' /\ ProcsInv'
    BY <1>3 DEF CalmInv, ClientsInv, ProcsInv, Writing, Newest
  <2>2. LinesInv' /\ SawInv'
    BY <1>3 DEF CalmInv, LinesInv, SawInv, Replayed, OfNewest, Newest
  <2>3. PhaseInv'
    BY <1>3 DEF CalmInv, PhaseInv, Queued, AtWork, Answered, Settling, Seen, LastLine,
                Writing, Newest
  <2>4. QED
    BY <1>3, <2>1, <2>2, <2>3 DEF CalmInv
<1>4. Working(p) => live = p /\ row.busy /\ AtWork(p) /\ row.gen = Newest
  BY WhereTurnIs DEF Working
<1>5. ASSUME NEW s \in Statuses, ReportStatus(p, s) PROVE CalmInv'
  <2>1. side'.reported.gen = side'.reported.by /\ side'.closeRequested = side.closeRequested
    BY <1>4, <1>5 DEF ReportStatus, TypeOK, SideType, AtWork
  <2>2. RequestInv' /\ ReportInv'
    BY <1>5, <2>1 DEF ReportStatus, CalmInv, RequestInv, ReportInv
  <2>3. QED
    BY <1>3, <1>5, <2>2 DEF ReportStatus
<1>6. CASE OnCloseConfirm(p)
  <2>1. side'.reported = side.reported
    BY <1>6 DEF OnCloseConfirm, TypeOK, SideType
  <2>2. ReportInv'
    BY <2>1 DEF CalmInv, ReportInv
  <2>3. RequestInv'
    BY <1>4, <1>6 DEF OnCloseConfirm, RequestInv, AtWork
  <2>4. QED
    BY <1>3, <1>6, <2>2, <2>3 DEF OnCloseConfirm
<1>7. QED
  BY <1>1, <1>2, <1>5, <1>6, CalmOpens, CalmStreams, CalmDies DEF ChildStep

LEMMA CalmSends ==
    ASSUME TypeOK, Calm, CalmInv, NEW c \in Clients, NEW k \in PromptKinds, Send(c, k)
    PROVE  CalmInv'
<1>1. ~row.busy /\ ~Writing /\ \A p \in Procs : pump[p].pc \notin {"removed", "settled"}
  BY CalmEnv DEF Send, MaySend, Writing
<1>2. live \in Procs /\ UNCHANGED <<row, side, live, pipe, pump>>
  BY DEF Send, TypeOK
<1>3. CASE child[live].state # "up"
  <2>1. UNCHANGED <<row, side, live, child, pipe, pump, client, prompts>>
    BY <1>3 DEF Send
  <2>2. ClientsInv' /\ ProcsInv' /\ RequestInv' /\ ReportInv'
    BY <2>1 DEF CalmInv, ClientsInv, ProcsInv, RequestInv, ReportInv, Writing, Newest
  <2>3. LinesInv' /\ SawInv'
    BY <2>1 DEF CalmInv, LinesInv, SawInv, Replayed, OfNewest, Newest
  <2>4. PhaseInv'
    BY <2>1 DEF CalmInv, PhaseInv, Queued, AtWork, Answered, Settling, Seen, LastLine,
                Writing, Newest
  <2>5. QED
    BY <2>2, <2>3, <2>4 DEF CalmInv
<1>4. CASE child[live].state = "up"
  <2>1. /\ prompts' = Append(prompts, k)
        /\ child' = [child EXCEPT ![live].stdin = Append(@, Len(prompts) + 1)]
        /\ client' = [client EXCEPT ![c] = "written"]
    BY <1>4 DEF Send, WritePrompt
  <2>2. Newest' = Newest + 1 /\ Newest \in Nat /\ row.gen = Newest
    BY <1>1, <2>1 DEF Newest, TypeOK, CalmInv, ClientsInv
  <2>3. child[live].stdin = <<>> /\ child[live].turn = 0
    BY <1>1, <1>2 DEF CalmInv, PhaseInv
  <2>4. /\ child'[live].stdin = <<Newest'>> /\ child'[live].turn = 0
        /\ child'[live].state = "up" /\ child'[live].streamed = child[live].streamed
        /\ child'[live].interrupted = child[live].interrupted
        /\ child'[live].rejected = child[live].rejected
        /\ \A q \in Procs \ {live} : child'[q] = child[q]
    <3>1. Append(child[live].stdin, Len(prompts) + 1) = <<Newest'>>
      BY <2>2, <2>3 DEF Newest
    <3>2. child[live] \in ChildType /\ child \in [Procs -> ChildType]
      BY <1>2, StateTypes
    <3>3. QED
      BY <1>2, <1>4, <2>1, <2>3, <3>1, <3>2 DEF ChildType
  <2>5. client'[c] = "written" /\ \A d \in Clients \ {c} : client'[d] = client[d]
    BY <2>1 DEF TypeOK
  <2>6. ClientsInv'
    BY <1>1, <1>2, <2>2, <2>5 DEF CalmInv, ClientsInv, Writing
  <2>7. ProcsInv'
    BY <1>2, <1>4, <2>3, <2>4 DEF CalmInv, ProcsInv
  <2>8. LinesInv'
    BY <1>1, <1>2 DEF CalmInv, LinesInv, Replayed, OfNewest
  <2>9. SawInv'
    BY <1>1, <1>2 DEF CalmInv, SawInv
  <2>10. PhaseInv'
    <3>1. Queued(live)'
      BY <1>2, <2>4 DEF Queued
    <3>2. Writing'
      BY <2>5 DEF Writing
    <3>3. QED
      BY <1>1, <1>2, <2>2, <3>1, <3>2 DEF PhaseInv
  <2>11. RequestInv' /\ ReportInv'
    BY <1>1, <1>2 DEF CalmInv, RequestInv, ReportInv
  <2>12. QED
    BY <2>6, <2>7, <2>8, <2>9, <2>10, <2>11 DEF CalmInv
<1>5. QED
  BY <1>3, <1>4

LEMMA CalmRespawns ==
    ASSUME TypeOK, Calm, CalmInv, NEW c \in Clients, NEW k \in PromptKinds,
           RespawnAndSend(c, k)
    PROVE  CalmInv'
<1>1. ~row.busy /\ ~Writing /\ \A q \in Procs : pump[q].pc \notin {"removed", "settled"}
  BY CalmEnv DEF RespawnAndSend, MaySend, Writing
<1>2. live = 0 /\ UNCHANGED <<row, side>> /\ client' = [client EXCEPT ![c] = "written"]
  BY DEF RespawnAndSend
<1>3. PICK p \in Procs :
        /\ child[p].state = "unborn"
        /\ WritePrompt(p, k) /\ live' = p
        /\ child' = [child EXCEPT ![p].state = "up", ![p].stdin = <<Len(prompts) + 1>>]
        /\ pump' = [pump EXCEPT ![p].pc = "reading"]
        /\ \E replay \in Replays :
             /\ row.gen = 0 => replay = <<>>
             /\ pipe' = [pipe EXCEPT ![p] = replay]
  BY DEF RespawnAndSend
<1>4. Newest' = Newest + 1 /\ Newest \in Nat /\ row.gen = Newest
  BY <1>1, <1>3 DEF WritePrompt, Newest, TypeOK, CalmInv, ClientsInv
<1>5. child[p] = Unborn /\ pump[p] = FreshPump
  BY <1>3 DEF CalmInv, ProcsInv
<1>6. /\ child'[p].state = "up" /\ child'[p].stdin = <<Newest'>> /\ child'[p].turn = 0
      /\ child'[p].streamed = 0 /\ ~child'[p].interrupted /\ ~child'[p].rejected
      /\ \A q \in Procs \ {p} : child'[q] = child[q]
  BY <1>3, <1>4, <1>5, StateTypes DEF Unborn, ChildType, Newest
<1>7. /\ pump'[p] = [FreshPump EXCEPT !.pc = "reading"]
      /\ \A q \in Procs \ {p} : pump'[q] = pump[q] /\ pipe'[q] = pipe[q]
      /\ pump'[p].pc = "reading" /\ ~pump'[p].saw /\ ~pump'[p].latch /\ pump'[p].gen = 0
  BY <1>3, <1>5, StateTypes DEF FreshPump
<1>8. client'[c] = "written" /\ \A d \in Clients \ {c} : client'[d] = client[d]
  BY <1>2 DEF TypeOK
<1>9. \A q \in Procs : pump[q].pc \in {"off", "gone"}
  <2>1. \A q \in Procs : pump[q].pc # "reading"
    BY <1>2 DEF CalmInv, ProcsInv, Procs
  <2>2. QED
    BY <1>1, <2>1, StateTypes DEF PumpType
<1>10. ClientsInv'
  BY <1>1, <1>2, <1>4, <1>8 DEF CalmInv, ClientsInv, Writing
<1>11. ProcsInv'
  <2>1. \A q \in Procs : pump'[q].pc = "reading" <=> live' = q
    BY <1>3, <1>7, <1>9
  <2>2. \A q, r \in Procs :
           (pump'[q].pc \notin {"off", "gone"} /\ pump'[r].pc \notin {"off", "gone"}) => q = r
    BY <1>7, <1>9
  <2>3. \A q \in Procs : child'[q].state = "unborn" =>
            child'[q] = Unborn /\ pump'[q] = FreshPump
    BY <1>6, <1>7 DEF CalmInv, ProcsInv
  <2>4. \A q \in Procs : pump'[q].pc # "reading" =>
            pipe'[q] = <<>> /\ child'[q].stdin = <<>> /\ child'[q].state # "up"
    <3>1. \A q \in Procs : pump[q].pc # "reading"
      BY <1>9
    <3>2. \A q \in Procs : pipe[q] = <<>> /\ child[q].stdin = <<>> /\ child[q].state # "up"
      BY <3>1 DEF CalmInv, ProcsInv
    <3>3. QED
      BY <1>6, <1>7, <3>2
  <2>5. \A q \in Procs : /\ ~child'[q].interrupted /\ ~child'[q].rejected
                         /\ child'[q].turn = 0 => child'[q].streamed = 0
    <3>1. \A q \in Procs : /\ ~child[q].interrupted /\ ~child[q].rejected
                           /\ child[q].turn = 0 => child[q].streamed = 0
      BY DEF CalmInv, ProcsInv
    <3>2. QED
      BY <1>6, <3>1
  <2>6. QED
    BY <2>1, <2>2, <2>3, <2>4, <2>5 DEF ProcsInv
<1>12. LinesInv'
  <2> SUFFICES ASSUME NEW q \in Procs, NEW i \in 1..Len(pipe'[q])
               PROVE  Replayed(q, i)' \/ OfNewest(q, i)'
    BY DEF LinesInv
  <2>1. CASE q # p
    <3>1. pipe'[q] = <<>>
      BY <1>7, <1>9, <2>1 DEF CalmInv, ProcsInv
    <3>2. QED
      BY <3>1
  <2>2. CASE q = p
    <3>1. PICK replay \in Replays :
            (row.gen = 0 => replay = <<>>) /\ pipe'[p] = replay
      BY <1>3, StateTypes
    <3>2. replay # <<>>
      <4>1. Len(<<>>) = 0 /\ i \in 1..Len(replay)
        BY <2>2, <3>1
      <4>2. QED
        BY <4>1
    <3>3. i = 1 /\ pipe'[p][i].kind = "result" /\ pipe'[p][i].turn = 0 /\ row.gen > 0
      <4>2. Len(replay) = 1 /\ replay[1].kind = "result" /\ replay[1].turn = 0
        BY <3>2, ReplayedLines
      <4>3. row.gen \in Nat /\ row.gen # 0
        BY <3>1, <3>2, StateTypes
      <4>4. QED
        BY <2>2, <3>1, <4>2, <4>3
    <3>4. Replayed(p, i)'
      BY <1>2, <1>7, <3>3 DEF Replayed
    <3>5. QED
      BY <2>2, <3>4
  <2>3. QED
    BY <2>1, <2>2
<1>13. SawInv'
  BY <1>3, <1>7 DEF SawInv
<1>14. PhaseInv'
  <2>1. Queued(p)'
    BY <1>3, <1>6 DEF Queued
  <2>2. Writing'
    BY <1>8 DEF Writing
  <2>3. QED
    BY <1>1, <1>2, <1>4, <2>1, <2>2 DEF PhaseInv
<1>15. RequestInv' /\ ReportInv'
  BY <1>1, <1>2 DEF CalmInv, RequestInv, ReportInv
<1>16. QED
  BY <1>10, <1>11, <1>12, <1>13, <1>14, <1>15 DEF CalmInv

LEMMA CalmRecords ==
    ASSUME TypeOK, Calm, CalmInv, NEW c \in Clients, RecordSend(c)
    PROVE  CalmInv'
<1>1. /\ client[c] = "written" /\ Writing
      /\ row' = [row EXCEPT !.awaiting = None, !.busy = TRUE, !.gen = row.gen + 1]
      /\ client' = [client EXCEPT ![c] = "idle"]
      /\ UNCHANGED <<side, live, child, pipe, pump, prompts>>
  BY DEF RecordSend, Writing
<1>2. row'.busy /\ row'.gen = row.gen + 1
  BY <1>1, StateTypes DEF RowType
<1>3. client'[c] = "idle" /\ \A d \in Clients \ {c} : client'[d] = client[d]
  BY <1>1 DEF TypeOK
<1>4. ~Writing'
  BY <1>1, <1>3 DEF CalmInv, ClientsInv, Writing
<1>5. ~row.busy /\ row.gen = Newest - 1 /\ Newest \in Nat
  BY <1>1, StateTypes DEF CalmInv, ClientsInv
<1>6. ClientsInv'
  <2>1. \A d \in Clients : client'[d] # "interrupted"
    BY <1>3 DEF CalmInv, ClientsInv
  <2>2. row'.gen = Newest'
    BY <1>1, <1>2, <1>5 DEF Newest
  <2>3. QED
    BY <1>4, <2>1, <2>2 DEF ClientsInv, Writing
<1>7. ProcsInv'
  BY <1>1 DEF CalmInv, ProcsInv
<1>8. LinesInv'
  <2> SUFFICES ASSUME NEW q \in Procs, NEW i \in 1..Len(pipe'[q])
               PROVE  Replayed(q, i)'
    BY DEF LinesInv
  <2>1. Replayed(q, i)
    BY <1>1, <1>5 DEF CalmInv, LinesInv, OfNewest
  <2>2. QED
    BY <1>1, <1>2, <2>1, StateTypes DEF Replayed
<1>9. SawInv'
  BY <1>1, <1>5 DEF CalmInv, SawInv
<1>10. PhaseInv'
  <2>1. PICK p \in Procs : Newest > 0 /\ Queued(p)
    BY <1>1 DEF CalmInv, PhaseInv
  <2>2. Queued(p)' /\ Newest' > 0
    BY <1>1, <2>1 DEF Queued, Newest
  <2>3. QED
    BY <1>2, <1>4, <2>2 DEF PhaseInv
<1>11. RequestInv' /\ ReportInv'
  BY <1>1, <1>5 DEF CalmInv, RequestInv, ReportInv
<1>12. QED
  BY <1>6, <1>7, <1>8, <1>9, <1>10, <1>11 DEF CalmInv

LEMMA CalmClient ==
    ASSUME TypeOK, Calm, CalmInv, NEW c \in Clients, ClientStep(c)
    PROVE  CalmInv'
<1>1. ~CancelTurn(c)
  BY CalmEnv DEF CancelTurn
<1>2. ~RecordCancel(c)
  BY DEF RecordCancel, CalmInv, ClientsInv
<1>3. QED
  BY <1>1, <1>2, CalmSends, CalmRespawns, CalmRecords DEF ClientStep

\* When the pump takes the first line off, the rest keeps its place.
LEMMA RestOfPipe ==
    ASSUME TypeOK, NEW p \in Procs, ReadLine(p)
    PROVE  /\ pipe[p] # <<>> /\ 1 \in 1..Len(pipe[p]) /\ Head(pipe[p]) = pipe[p][1]
           /\ Len(pipe'[p]) = Len(pipe[p]) - 1 /\ Len(pipe[p]) \in Nat \ {0}
           /\ \A k \in 1..Len(pipe'[p]) :
                pipe'[p][k] = pipe[p][k + 1] /\ k + 1 \in 1..Len(pipe[p])
           /\ \A k \in 1..Len(pipe[p]) : k # 1 =>
                k - 1 \in 1..Len(pipe'[p]) /\ pipe'[p][k - 1] = pipe[p][k]
           /\ \A q \in Procs \ {p} : pipe'[q] = pipe[q]
           /\ Len(pipe[p]) > 1 => pipe'[p] # <<>> /\ LastLine(p)' = LastLine(p)
<1>1. pipe[p] \in Seq(Lines) /\ pipe[p] # <<>> /\ pipe'[p] = Tail(pipe[p])
  BY StateTypes DEF ReadLine
<1>2. /\ Len(pipe[p]) \in Nat \ {0} /\ Head(pipe[p]) = pipe[p][1] /\ 1 \in 1..Len(pipe[p])
      /\ Len(pipe'[p]) = Len(pipe[p]) - 1
      /\ \A k \in 1..Len(pipe'[p]) :
           pipe'[p][k] = pipe[p][k + 1] /\ k + 1 \in 1..Len(pipe[p])
  BY <1>1, PipeTail
<1>3. ASSUME NEW k \in 1..Len(pipe[p]), k # 1
      PROVE  k - 1 \in 1..Len(pipe'[p]) /\ pipe'[p][k - 1] = pipe[p][k]
  <2>1. k - 1 \in 1..Len(pipe'[p]) /\ (k - 1) + 1 = k
    BY <1>2, <1>3
  <2>2. QED
    BY <1>2, <2>1
<1>4. \A q \in Procs \ {p} : pipe'[q] = pipe[q]
  BY StateTypes DEF ReadLine
<1>5. Len(pipe[p]) > 1 => pipe'[p] # <<>> /\ LastLine(p)' = LastLine(p)
  <2> SUFFICES ASSUME Len(pipe[p]) > 1 PROVE pipe'[p] # <<>> /\ LastLine(p)' = LastLine(p)
    OBVIOUS
  <2>1. Len(pipe'[p]) # 0 /\ Len(<<>>) = 0
    BY <1>2
  <2>2. Len(pipe[p]) \in 1..Len(pipe[p]) /\ Len(pipe[p]) # 1
    BY <1>2
  <2>3. pipe'[p][Len(pipe[p]) - 1] = pipe[p][Len(pipe[p])]
    BY <1>3, <2>2
  <2>4. QED
    BY <1>2, <2>1, <2>3 DEF LastLine
<1>6. QED
  BY <1>1, <1>2, <1>3, <1>4, <1>5

\* What feeding a line does to the locals that tell the turns apart.
LEMMA FeedLocals ==
    ASSUME TypeOK, NEW p \in Procs, NEW line \in Lines
    PROVE  /\ AfterFeed(p, line).pc = pump[p].pc
           /\ AfterFeed(p, line).saw = (pump[p].saw \/ Captures(p, line))
           /\ AfterFeed(p, line).gen = IF Captures(p, line) THEN row.gen ELSE pump[p].gen
           /\ (pump[p].saw \/ line.kind = "stream") => AfterFeed(p, line).saw
           /\ (line.kind # "stream" /\ ~pump[p].latch) => AfterFeed(p, line).latch = FALSE
           /\ RowAfterFeed(p, line).busy = row.busy
           /\ RowAfterFeed(p, line).gen = row.gen
           /\ RowAfterFeed(p, line).awaiting = row.awaiting
           /\ AfterFeed(p, line) \in PumpType /\ RowAfterFeed(p, line) \in RowType
<1>1. pump[p] \in PumpType /\ row \in RowType
  BY StateTypes
<1>2. AfterFeed(p, line) \in PumpType /\ RowAfterFeed(p, line) \in RowType
  BY FeedType
<1>3. Captures(p, line) \in BOOLEAN
  BY <1>1 DEF Captures, PumpType
<1>4. /\ AfterFeed(p, line).pc = pump[p].pc
      /\ AfterFeed(p, line).saw = (pump[p].saw \/ Captures(p, line))
      /\ AfterFeed(p, line).gen = IF Captures(p, line) THEN row.gen ELSE pump[p].gen
  BY <1>1 DEF AfterFeed, PumpType
<1>5. (pump[p].saw \/ line.kind = "stream") => AfterFeed(p, line).saw
  BY <1>4 DEF Captures
<1>6. (line.kind # "stream" /\ ~pump[p].latch) => AfterFeed(p, line).latch = FALSE
  BY <1>1 DEF AfterFeed, PumpType, Captures
<1>7. /\ RowAfterFeed(p, line).busy = row.busy
      /\ RowAfterFeed(p, line).gen = row.gen
      /\ RowAfterFeed(p, line).awaiting = row.awaiting
  BY <1>1 DEF RowAfterFeed, RowType
<1>8. QED
  BY <1>2, <1>4, <1>5, <1>6, <1>7

LEMMA CalmReadsPlain ==
    ASSUME TypeOK, Calm, CalmInv, NEW p \in Procs, ReadPlain(p)
    PROVE  CalmInv'
<1> DEFINE line == Head(pipe[p])
<1>1. /\ ReadLine(p) /\ line.kind \in {"init", "stream"}
      /\ pump' = [pump EXCEPT ![p] = AfterFeed(p, line)]
      /\ row' = RowAfterFeed(p, line)
      /\ UNCHANGED <<side, live, child, client, prompts>>
  BY DEF ReadPlain
<1>2. line \in Lines /\ pump[p].pc = "reading" /\ live = p
  BY <1>1, StateTypes, HeadTail DEF ReadLine, CalmInv, ProcsInv
<1>3. /\ row'.busy = row.busy /\ row'.gen = row.gen
      /\ pump'[p] = AfterFeed(p, line) /\ \A q \in Procs \ {p} : pump'[q] = pump[q]
      /\ pump'[p].pc = "reading" /\ (pump[p].saw \/ line.kind = "stream" => pump'[p].saw)
      /\ pump'[p].saw => pump'[p].gen = row.gen \/ (pump[p].saw /\ pump'[p].gen = pump[p].gen)
  BY <1>1, <1>2, FeedLocals, StateTypes
<1>4. /\ 1 \in 1..Len(pipe[p]) /\ line = pipe[p][1]
      /\ Len(pipe'[p]) = Len(pipe[p]) - 1 /\ Len(pipe[p]) \in Nat \ {0}
      /\ \A k \in 1..Len(pipe'[p]) :
           pipe'[p][k] = pipe[p][k + 1] /\ k + 1 \in 1..Len(pipe[p])
      /\ \A k \in 1..Len(pipe[p]) : k # 1 =>
           k - 1 \in 1..Len(pipe'[p]) /\ pipe'[p][k - 1] = pipe[p][k]
      /\ \A q \in Procs \ {p} : pipe'[q] = pipe[q]
      /\ Len(pipe[p]) > 1 => pipe'[p] # <<>> /\ LastLine(p)' = LastLine(p)
  BY <1>1, RestOfPipe
<1> HIDE DEF line
<1>5. OfNewest(p, 1)
  <2>1. ~Replayed(p, 1)
    BY <1>1, <1>4 DEF Replayed
  <2>2. QED
    BY <1>4, <2>1 DEF CalmInv, LinesInv
<1>6. row.busy /\ ~Writing /\ child[p].stdin = <<>> /\ Newest > 0 /\ ~Queued(p)
  BY <1>2, <1>5, WhereTurnIs, QueuedIsSomething DEF OfNewest
<1>7. ASSUME NEW k \in 1..Len(pipe'[p]) PROVE OfNewest(p, k)'
  <2>1. k + 1 \in 1..Len(pipe[p]) /\ pipe'[p][k] = pipe[p][k + 1] /\ k + 1 # 1
    BY <1>4
  <2>2. OfNewest(p, k + 1)
    BY <2>1 DEF CalmInv, LinesInv, Replayed
  <2>3. k + 1 = Len(pipe[p]) => k = Len(pipe'[p])
    BY <1>4
  <2>4. QED
    BY <1>1, <1>3, <2>1, <2>2, <2>3 DEF OfNewest, Newest
<1>8. Seen(p) => Seen(p)'
  <2> SUFFICES ASSUME Seen(p) PROVE Seen(p)'
    OBVIOUS
  <2>1. CASE pump[p].saw \/ line.kind = "stream"
    BY <1>3, <2>1 DEF Seen
  <2>2. CASE ~(pump[p].saw \/ line.kind = "stream")
    <3>1. PICK k \in 1..Len(pipe[p]) : pipe[p][k].kind = "stream"
      BY <2>2 DEF Seen
    <3>2. k # 1
      BY <1>4, <2>2, <3>1
    <3>3. k - 1 \in 1..Len(pipe'[p]) /\ pipe'[p][k - 1].kind = "stream"
      BY <1>4, <3>1, <3>2
    <3>4. QED
      BY <3>3 DEF Seen
  <2>3. QED
    BY <2>1, <2>2
<1>9. (AtWork(p) \/ Answered(p))'
  <2>1. AtWork(p) \/ Answered(p)
    BY <1>2, <1>6, WhereTurnIs
  <2>2. AtWork(p) => AtWork(p)'
    BY <1>1, <1>8 DEF AtWork, Newest
  <2>3. Answered(p) => Answered(p)'
    <3> SUFFICES ASSUME Answered(p) PROVE Answered(p)'
      OBVIOUS
    <3>1. LastLine(p).kind = "result"
      BY DEF Answered
    <3>2. Len(pipe[p]) > 1
      BY <1>1, <1>4, <3>1 DEF LastLine
    <3>3. pipe'[p] # <<>> /\ LastLine(p)' = LastLine(p)
      BY <1>4, <3>2
    <3>4. QED
      BY <1>1, <1>8, <3>3 DEF Answered, Newest
  <2>4. QED
    BY <2>1, <2>2, <2>3
<1>10. pump'[p].saw => pump'[p].gen = row.gen
  BY <1>2, <1>3 DEF CalmInv, SawInv
<1>11. RequestInv' /\ ReportInv'
  <2>1. ReportInv'
    BY <1>1 DEF CalmInv, ReportInv
  <2>2. \A q \in Procs : pump'[q].pc = pump[q].pc
    BY <1>2, <1>3
  <2>3. RequestInv'
    BY <1>1, <1>3, <2>2 DEF CalmInv, RequestInv
  <2>4. QED
    BY <2>1, <2>3
<1>12. /\ ~child[p].interrupted /\ ~child[p].rejected /\ child[p].state # "unborn"
       /\ child[p].turn = 0 => child[p].streamed = 0
  BY <1>2, WhereTurnIs DEF CalmInv, ProcsInv
<1>13. QED
  BY <1>1, <1>2, <1>3, <1>4, <1>6, <1>7, <1>9, <1>10, <1>11, <1>12, LocalStep

\* A result line, of the history or of the newest turn.
LEMMA ResultRead ==
    ASSUME TypeOK, NEW p \in Procs, ReadResult(p)
    PROVE  /\ ReadLine(p) /\ Head(pipe[p]) = pipe[p][1] /\ pipe[p][1] \in Lines
           /\ pipe[p][1].kind = "result" /\ 1 \in 1..Len(pipe[p])
           /\ row'.gen = row.gen
           /\ row'.busy = (row.busy /\ row.gen # AfterFeed(p, pipe[p][1]).gen)
           /\ side'.closeRequested = FALSE /\ side'.reported \in {None, side.reported}
           /\ pump'[p].pc = pump[p].pc /\ ~pump'[p].saw
           /\ pump'[p].gen = AfterFeed(p, pipe[p][1]).gen
           /\ pump'[p].latch = AfterFeed(p, pipe[p][1]).latch
           /\ \A q \in Procs \ {p} : pump'[q] = pump[q] /\ child'[q] = child[q]
           /\ child'[p] = IF side.closeRequested THEN [child[p] EXCEPT !.state = "dead"]
                          ELSE child[p]
           /\ UNCHANGED <<live, client, prompts>>
<1> DEFINE line  == Head(pipe[p])
           after == AfterFeed(p, line)
           fed   == RowAfterFeed(p, line)
<1>1. ReadLine(p) /\ line \in Lines /\ line = pipe[p][1] /\ 1 \in 1..Len(pipe[p])
  <2>1. ReadLine(p)
    BY DEF ReadResult
  <2>2. QED
    BY <2>1, RestOfPipe, StateTypes, HeadTail
<1>2. after \in PumpType /\ fed \in RowType /\ after.pc = pump[p].pc
      /\ fed.busy = row.busy /\ fed.gen = row.gen
  BY <1>1, FeedLocals
<1> HIDE DEF after, fed
<1>3. pump' = [pump EXCEPT ![p] = AfterResult(after)]
  BY DEF ReadResult, after
<1>4. /\ pump'[p].pc = after.pc /\ ~pump'[p].saw
      /\ pump'[p].gen = after.gen /\ pump'[p].latch = after.latch
      /\ \A q \in Procs \ {p} : pump'[q] = pump[q]
  BY <1>2, <1>3, StateTypes DEF AfterResult, PumpType
<1>5. row'.gen = row.gen /\ row'.busy = (row.busy /\ row.gen # after.gen)
  <2>1. PICK a, e, f : row' = [fed EXCEPT !.busy = fed.busy /\ ~IsNewestGen(after.gen),
                                          !.awaiting = a, !.ended = e, !.closing = f]
    BY DEF ReadResult, after, fed
  <2>2. QED
    BY <1>2, <2>1 DEF RowType, IsNewestGen
<1>6. side'.closeRequested = FALSE /\ side'.reported \in {None, side.reported}
  BY DEF ReadResult, TypeOK, SideType
<1>7. /\ \A q \in Procs \ {p} : child'[q] = child[q]
      /\ child'[p] = IF side.closeRequested THEN [child[p] EXCEPT !.state = "dead"]
                     ELSE child[p]
  BY StateTypes DEF ReadResult, KillIf, ChildType
<1>8. line.kind = "result" /\ UNCHANGED <<live, client, prompts>>
  BY DEF ReadResult
<1>9. QED
  BY <1>1, <1>2, <1>4, <1>5, <1>6, <1>7, <1>8 DEF after

\* The newest turn's result line is the last in its pipe, its turn has been
\* captured, and it leaves the row idle.
LEMMA NewestResult ==
    ASSUME TypeOK, CalmInv, NEW p \in Procs, ReadResult(p), OfNewest(p, 1)
    PROVE  /\ live = p /\ row.busy /\ ~Writing /\ Answered(p) /\ pump[p].saw
           /\ Len(pipe[p]) = 1 /\ AfterFeed(p, pipe[p][1]).gen = row.gen
           /\ pipe'[p] = <<>> /\ ~row'.busy
<1>1. /\ ReadLine(p) /\ pipe[p][1] \in Lines /\ pipe[p][1].kind = "result"
      /\ row'.busy = (row.busy /\ row.gen # AfterFeed(p, pipe[p][1]).gen)
  BY ResultRead
<1>2. live = p /\ pump[p].pc = "reading"
  BY <1>1 DEF ReadLine, CalmInv, ProcsInv
<1>3. row.busy /\ child[p].stdin = <<>> /\ child[p].turn = 0 /\ Len(pipe[p]) = 1 /\ Newest > 0
  BY <1>1 DEF OfNewest
<1>4. ~Writing /\ Answered(p)
  BY <1>2, <1>3, WhereTurnIs, QueuedIsSomething DEF AtWork
<1>5. pump[p].saw
  BY <1>1, <1>3, <1>4 DEF Answered, Seen
<1>6. pump[p].gen = row.gen
  BY <1>2, <1>5 DEF CalmInv, SawInv
<1>7. AfterFeed(p, pipe[p][1]).gen = row.gen
  BY <1>1, <1>6, FeedLocals
<1>8. pipe'[p] = <<>>
  <2>1. pipe[p] \in Seq(Lines) /\ pipe'[p] = Tail(pipe[p]) /\ pipe[p] # <<>>
    BY <1>1, StateTypes DEF ReadLine
  <2>2. Len(Tail(pipe[p])) = 0 /\ Tail(pipe[p]) \in Seq(Lines)
    BY <1>3, <2>1
  <2>3. QED
    BY <2>1, <2>2, EmptySeq
<1>9. QED
  BY <1>1, <1>2, <1>3, <1>4, <1>5, <1>7, <1>8

\* A replayed result line finds no capture and clears nothing.
LEMMA ReplayedResult ==
    ASSUME TypeOK, NEW p \in Procs, ReadResult(p), Replayed(p, 1)
    PROVE  /\ ~AfterFeed(p, pipe[p][1]).saw /\ AfterFeed(p, pipe[p][1]).gen = 0
           /\ AfterFeed(p, pipe[p][1]).latch = FALSE /\ row.gen > 0
           /\ row'.busy = row.busy
<1>1. /\ pipe[p][1] \in Lines /\ pipe[p][1].kind = "result"
      /\ row'.busy = (row.busy /\ row.gen # AfterFeed(p, pipe[p][1]).gen)
  BY ResultRead
<1>2. pump[p].gen = 0 /\ ~pump[p].latch /\ ~pump[p].saw /\ row.gen > 0
  BY DEF Replayed
<1>3. ~Captures(p, pipe[p][1])
  BY <1>1, <1>2 DEF Captures
<1>4. /\ ~AfterFeed(p, pipe[p][1]).saw /\ AfterFeed(p, pipe[p][1]).gen = 0
      /\ AfterFeed(p, pipe[p][1]).latch = FALSE
  BY <1>1, <1>2, <1>3, FeedLocals
<1>5. QED
  BY <1>1, <1>2, <1>4, StateTypes

LEMMA CalmReadsResult ==
    ASSUME TypeOK, Calm, CalmInv, NEW p \in Procs, ReadResult(p)
    PROVE  CalmInv'
<1>1. /\ ReadLine(p) /\ pipe[p][1] \in Lines /\ pipe[p][1].kind = "result"
      /\ 1 \in 1..Len(pipe[p])
      /\ row'.gen = row.gen
      /\ side'.closeRequested = FALSE /\ side'.reported \in {None, side.reported}
      /\ pump'[p].pc = pump[p].pc /\ ~pump'[p].saw
      /\ pump'[p].gen = AfterFeed(p, pipe[p][1]).gen
      /\ pump'[p].latch = AfterFeed(p, pipe[p][1]).latch
      /\ \A q \in Procs \ {p} : pump'[q] = pump[q] /\ child'[q] = child[q]
      /\ child'[p] = IF side.closeRequested THEN [child[p] EXCEPT !.state = "dead"]
                     ELSE child[p]
      /\ UNCHANGED <<live, client, prompts>>
  BY ResultRead
<1>2. live = p /\ pump[p].pc = "reading"
  BY <1>1 DEF ReadLine, CalmInv, ProcsInv
<1>3. /\ child'[p].turn = child[p].turn /\ child'[p].stdin = child[p].stdin
      /\ child'[p].streamed = child[p].streamed
      /\ child'[p].interrupted = child[p].interrupted
      /\ child'[p].rejected = child[p].rejected
      /\ child'[p].state # "unborn"
      /\ ~side.closeRequested => child'[p].state = child[p].state
  BY <1>1, <1>2, StateTypes, WhereTurnIs DEF ChildType
<1>4. /\ ~child[p].interrupted /\ ~child[p].rejected
      /\ child[p].turn = 0 => child[p].streamed = 0
  BY DEF CalmInv, ProcsInv
<1>5. RequestInv' /\ ReportInv'
  BY <1>1 DEF CalmInv, RequestInv, ReportInv
<1>6. Replayed(p, 1) \/ OfNewest(p, 1)
  BY <1>1 DEF CalmInv, LinesInv
<1>7. /\ Len(pipe'[p]) = Len(pipe[p]) - 1 /\ Len(pipe[p]) \in Nat \ {0}
      /\ \A k \in 1..Len(pipe'[p]) :
           pipe'[p][k] = pipe[p][k + 1] /\ k + 1 \in 1..Len(pipe[p])
      /\ \A k \in 1..Len(pipe[p]) : k # 1 =>
           k - 1 \in 1..Len(pipe'[p]) /\ pipe'[p][k - 1] = pipe[p][k]
      /\ \A q \in Procs \ {p} : pipe'[q] = pipe[q]
      /\ Len(pipe[p]) > 1 => pipe'[p] # <<>> /\ LastLine(p)' = LastLine(p)
  BY <1>1, RestOfPipe
<1>8. CASE OfNewest(p, 1)
  <2>1. /\ row.busy /\ ~Writing /\ Answered(p) /\ Len(pipe[p]) = 1 /\ ~row'.busy
    BY <1>8, NewestResult
  <2>2. child[p].stdin = <<>> /\ child[p].turn = 0
    BY <2>1 DEF Answered
  <2>3. \A k \in 1..Len(pipe'[p]) : Replayed(p, k)' \/ OfNewest(p, k)'
    BY <1>7, <2>1
  <2>4. /\ row'.busy => row.busy
        /\ row'.busy => (Queued(p) \/ AtWork(p) \/ Answered(p))'
        /\ Writing => Queued(p)'
        /\ (~row'.busy /\ ~Writing) => child'[p].stdin = <<>> /\ child'[p].turn = 0
    BY <1>3, <2>1, <2>2
  <2>5. QED
    BY <1>1, <1>2, <1>3, <1>4, <1>5, <1>7, <2>3, <2>4, LocalStep
<1>9. CASE Replayed(p, 1)
  <2>1. row'.busy = row.busy
    BY <1>9, ReplayedResult
  <2>2. ASSUME NEW k \in 1..Len(pipe'[p]) PROVE OfNewest(p, k)'
    <3>1. k + 1 \in 1..Len(pipe[p]) /\ pipe'[p][k] = pipe[p][k + 1] /\ k + 1 # 1
      BY <1>7
    <3>2. OfNewest(p, k + 1)
      BY <3>1 DEF CalmInv, LinesInv, Replayed
    <3>3. k + 1 = Len(pipe[p]) => k = Len(pipe'[p])
      BY <1>7
    <3>4. QED
      BY <1>1, <1>3, <2>1, <3>1, <3>2, <3>3 DEF OfNewest, Newest
  <2>3. Seen(p) => Seen(p)'
    <3> SUFFICES ASSUME Seen(p) PROVE Seen(p)'
      OBVIOUS
    <3>1. PICK k \in 1..Len(pipe[p]) : pipe[p][k].kind = "stream"
      BY <1>9 DEF Seen, Replayed
    <3>2. k # 1
      BY <1>1, <3>1
    <3>3. k - 1 \in 1..Len(pipe'[p]) /\ pipe'[p][k - 1].kind = "stream"
      BY <1>7, <3>1, <3>2
    <3>4. QED
      BY <3>3 DEF Seen
  <2>4. side.closeRequested =>
            row.busy /\ child[p].stdin = <<>> /\ (child[p].turn # 0 => child[p].streamed > 0)
    <3>1. \A q \in Procs : pump[q].pc \notin {"removed", "settled"}
      BY <1>2 DEF CalmInv, ProcsInv
    <3>2. QED
      BY <1>2, <3>1 DEF CalmInv, RequestInv
  <2>5. Queued(p) => Queued(p)'
    <3>1. Queued(p) => ~side.closeRequested
      BY <2>4, QueuedIsSomething
    <3>2. QED
      BY <1>1, <1>3, <3>1 DEF Queued, Newest
  <2>6. (AtWork(p) /\ Newest > 0) => AtWork(p)'
    <3> SUFFICES ASSUME AtWork(p), Newest > 0 PROVE AtWork(p)'
      OBVIOUS
    <3>1. (child'[p].state # "up" \/ child'[p].streamed > 0) => Seen(p) /\ child'[p].streamed > 0
      BY <1>3, <2>4 DEF AtWork
    <3>2. QED
      BY <1>1, <1>3, <2>3, <3>1 DEF AtWork, Newest
  <2>7. (Answered(p) /\ Newest > 0) => Answered(p)'
    <3> SUFFICES ASSUME Answered(p), Newest > 0 PROVE Answered(p)'
      OBVIOUS
    <3>1. LastLine(p).turn = Newest
      BY DEF Answered
    <3>2. Len(pipe[p]) > 1
      BY <1>7, <1>9, <3>1, StateTypes DEF Replayed, LastLine
    <3>3. pipe'[p] # <<>> /\ LastLine(p)' = LastLine(p)
      BY <1>7, <3>2
    <3>4. QED
      BY <1>1, <1>3, <2>3, <3>3 DEF Answered, Newest
  <2>8. /\ row'.busy => (Queued(p) \/ AtWork(p) \/ Answered(p))'
        /\ Writing => Queued(p)'
        /\ (~row'.busy /\ ~Writing) => child'[p].stdin = <<>> /\ child'[p].turn = 0
    BY <1>2, <1>3, <2>1, <2>5, <2>6, <2>7, WhereTurnIs
  <2>9. QED
    BY <1>1, <1>2, <1>3, <1>4, <1>5, <1>7, <2>1, <2>2, <2>8, LocalStep
<1>10. QED
  BY <1>6, <1>8, <1>9

\* The three steps at the end of a child's stdout.
LEMMA CalmEnds ==
    ASSUME TypeOK, Calm, CalmInv, NEW p \in Procs, Eof(p) \/ EofSettles(p) \/ EofCloses(p)
    PROVE  CalmInv'
<1>1. UNCHANGED <<child, pipe, client, prompts>> /\ row'.gen = row.gen
      /\ side'.reported = side.reported
  BY StateTypes DEF Eof, EofSettles, EofCloses, RowType, TypeOK, SideType
<1>2. /\ pump'[p].pc \in {"removed", "settled", "gone"}
      /\ pump'[p].gen = pump[p].gen
      /\ \A q \in Procs \ {p} : pump'[q] = pump[q]
      /\ pump[p].pc \in {"reading", "removed", "settled"}
  BY StateTypes DEF Eof, EofSettles, EofCloses, PumpType
<1>3. \A q \in Procs \ {p} : pump[q].pc \in {"off", "gone"}
  BY <1>2, StateTypes DEF CalmInv, ProcsInv, PumpType
<1>4. live' \notin Procs
  <2>1. CASE Eof(p)
    BY <2>1 DEF Eof, Procs
  <2>2. CASE EofSettles(p) \/ EofCloses(p)
    <3>1. \A q \in Procs : pump[q].pc # "reading"
      BY <1>3, <2>2 DEF EofSettles, EofCloses
    <3>2. live' = live
      BY <2>2 DEF EofSettles, EofCloses
    <3>3. QED
      BY <3>1, <3>2 DEF CalmInv, ProcsInv
  <2>3. QED
    BY <2>1, <2>2
<1>5. ~Writing
  <2> SUFFICES ASSUME Writing PROVE FALSE
    OBVIOUS
  <2>1. PICK q \in Procs : Queued(q)
    BY DEF CalmInv, PhaseInv
  <2>2. pump[q].pc = "reading" /\ child[q].state = "up"
    BY <2>1 DEF Queued, CalmInv, ProcsInv
  <2>3. q = p
    BY <1>3, <2>2
  <2>4. QED
    BY <2>2, <2>3 DEF Eof, EofSettles, EofCloses
<1>6. pipe[p] = <<>> /\ child[p].state # "up" /\ child[p].stdin = <<>>
  <2>1. CASE Eof(p)
    <3>1. live = p /\ pipe[p] = <<>> /\ child[p].state = "dead"
      BY <2>1 DEF Eof, CalmInv, ProcsInv
    <3>2. ~Queued(p)
      BY <3>1 DEF Queued
    <3>3. QED
      BY <1>5, <3>1, <3>2, WhereTurnIs DEF AtWork, Answered
  <2>2. CASE EofSettles(p) \/ EofCloses(p)
    BY <2>2 DEF EofSettles, EofCloses, CalmInv, ProcsInv
  <2>3. QED
    BY <2>1, <2>2
<1>7. /\ row'.busy => Newest > 0 /\ Settling(p)'
      /\ side'.closeRequested => pump'[p].pc \in {"removed", "settled"}
  <2>1. CASE Eof(p)
    <3>1. live = p /\ pipe[p] = <<>> /\ child[p].state = "dead" /\ row' = row
      BY <2>1 DEF Eof, CalmInv, ProcsInv
    <3>2. pump'[p].pc = "removed"
      BY <2>1, StateTypes DEF Eof, PumpType
    <3>3. row.busy => Newest > 0 /\ AtWork(p)
      BY <3>1, WhereTurnIs DEF Queued, Answered
    <3>4. AtWork(p) => pump[p].saw
      <4>1. AtWork(p) => Seen(p)
        BY <3>1 DEF AtWork
      <4>2. 1..Len(pipe[p]) = {}
        BY <3>1
      <4>3. QED
        BY <4>1, <4>2 DEF Seen
    <3>5. pump[p].saw => pump[p].gen = row.gen
      BY <3>1 DEF CalmInv, SawInv
    <3>6. QED
      BY <1>2, <3>1, <3>2, <3>3, <3>4, <3>5 DEF Settling
  <2>2. CASE EofSettles(p) \/ EofCloses(p)
    <3>1. row.busy => Settling(p)
      <4> SUFFICES ASSUME row.busy PROVE Settling(p)
        OBVIOUS
      <4>1. PICK q \in Procs : Queued(q) \/ AtWork(q) \/ Answered(q) \/ Settling(q)
        BY DEF CalmInv, PhaseInv
      <4>2. pump[q].pc \in {"reading", "removed"}
        BY <4>1 DEF Queued, AtWork, Answered, Settling, CalmInv, ProcsInv
      <4>3. q = p
        BY <1>3, <4>2
      <4>4. live # p
        BY <2>2 DEF EofSettles, EofCloses, CalmInv, ProcsInv
      <4>5. QED
        BY <4>1, <4>3, <4>4 DEF Queued, AtWork, Answered
    <3>2. CASE EofSettles(p)
      <4>1. row'.busy = (row.busy /\ row.gen # pump[p].gen)
        BY <3>2, StateTypes DEF EofSettles, IsNewestGen, RowType
      <4>2. pump'[p].pc = "settled"
        BY <3>2, StateTypes DEF EofSettles, PumpType
      <4>3. QED
        BY <3>1, <4>1, <4>2 DEF Settling
    <3>3. CASE EofCloses(p)
      <4>1. row'.busy = row.busy /\ side'.closeRequested = FALSE
        BY <3>3, StateTypes DEF EofCloses, RowType, TypeOK, SideType
      <4>2. ~Settling(p)
        BY <3>3 DEF EofCloses, Settling
      <4>3. QED
        BY <3>1, <4>1, <4>2
    <3>4. QED
      BY <2>2, <3>2, <3>3
  <2>3. QED
    BY <2>1, <2>2
<1>8. ClientsInv'
  <2>1. row'.busy => row.busy
    <3>1. CASE Eof(p)
      BY <3>1 DEF Eof
    <3>2. CASE EofSettles(p)
      BY <3>2, StateTypes DEF EofSettles, RowType
    <3>3. CASE EofCloses(p)
      BY <3>3, StateTypes DEF EofCloses, RowType
    <3>4. QED
      BY <3>1, <3>2, <3>3
  <2>2. QED
    BY <1>1, <2>1 DEF CalmInv, ClientsInv, Writing, Newest
<1>9. ProcsInv'
  <2>1. \A q \in Procs : pump'[q].pc = "reading" <=> live' = q
    BY <1>2, <1>3, <1>4
  <2>2. \A q, r \in Procs :
           (pump'[q].pc \notin {"off", "gone"} /\ pump'[r].pc \notin {"off", "gone"}) => q = r
    BY <1>2, <1>3
  <2>3. \A q \in Procs : child'[q].state = "unborn" =>
            child'[q] = Unborn /\ pump'[q] = FreshPump
    <3>1. child[p].state # "unborn"
      BY <1>2 DEF CalmInv, ProcsInv, FreshPump
    <3>2. QED
      BY <1>1, <1>2, <3>1 DEF CalmInv, ProcsInv
  <2>4. \A q \in Procs : pump'[q].pc # "reading" =>
            pipe'[q] = <<>> /\ child'[q].stdin = <<>> /\ child'[q].state # "up"
    <3>1. \A q \in Procs \ {p} :
             pipe[q] = <<>> /\ child[q].stdin = <<>> /\ child[q].state # "up"
      BY <1>3 DEF CalmInv, ProcsInv
    <3>2. QED
      BY <1>1, <1>6, <3>1
  <2>5. \A q \in Procs : /\ ~child'[q].interrupted /\ ~child'[q].rejected
                         /\ child'[q].turn = 0 => child'[q].streamed = 0
    BY <1>1 DEF CalmInv, ProcsInv
  <2>6. QED
    BY <2>1, <2>2, <2>3, <2>4, <2>5 DEF ProcsInv
<1>10. LinesInv'
  <2>1. \A q \in Procs : pipe'[q] = <<>>
    BY <1>1, <1>3, <1>6 DEF CalmInv, ProcsInv
  <2>2. QED
    BY <2>1 DEF LinesInv
<1>11. SawInv'
  BY <1>4 DEF SawInv
<1>12. PhaseInv'
  <2>1. Newest' = Newest /\ ~Writing'
    BY <1>1, <1>5 DEF Newest, Writing
  <2>2. QED
    BY <1>4, <1>7, <2>1 DEF PhaseInv
<1>13. RequestInv' /\ ReportInv'
  BY <1>1, <1>7 DEF CalmInv, RequestInv, ReportInv
<1>14. QED
  BY <1>8, <1>9, <1>10, <1>11, <1>12, <1>13 DEF CalmInv

LEMMA CalmPump ==
    ASSUME TypeOK, Calm, CalmInv, NEW p \in Procs, PumpStep(p)
    PROVE  CalmInv'
<1>1. ~ReadLimit(p)
  <2> SUFFICES ASSUME ReadLimit(p) PROVE FALSE
    OBVIOUS
  <2>1. ReadLine(p) /\ Head(pipe[p]).kind = "limit"
    BY DEF ReadLimit
  <2>2. 1 \in 1..Len(pipe[p]) /\ pipe[p][1].kind = "limit"
    BY <2>1, RestOfPipe
  <2>3. QED
    BY <2>2 DEF CalmInv, LinesInv, Replayed, OfNewest
<1>2. QED
  BY <1>1, CalmReadsPlain, CalmReadsResult, CalmEnds DEF PumpStep

LEMMA CalmStep ==
    ASSUME Calm, TypeOK, CalmInv, [Next]_vars
    PROVE  CalmInv'
<1>1. CASE UNCHANGED vars
  <2>1. ClientsInv' /\ ProcsInv' /\ RequestInv' /\ ReportInv'
    BY <1>1 DEF vars, CalmInv, ClientsInv, ProcsInv, RequestInv, ReportInv, Writing, Newest
  <2>2. LinesInv' /\ SawInv'
    BY <1>1 DEF vars, CalmInv, LinesInv, SawInv, Replayed, OfNewest, Newest
  <2>3. PhaseInv'
    BY <1>1 DEF vars, CalmInv, PhaseInv, Queued, AtWork, Answered, Settling, Seen, LastLine,
                Writing, Newest
  <2>4. QED
    BY <2>1, <2>2, <2>3 DEF CalmInv
<1>2. CASE Next
  BY <1>2, CalmChild, CalmPump, CalmClient DEF Next
<1>3. QED
  BY <1>1, <1>2

LEMMA CalmInit == Init => CalmInv
<1> SUFFICES ASSUME Init PROVE CalmInv
  OBVIOUS
<1>1. /\ row.gen = 0 /\ ~row.busy /\ live = 0 /\ prompts = <<>>
      /\ side.reported = None /\ ~side.closeRequested
      /\ \A c \in Clients : client[c] = "idle"
      /\ \A p \in Procs : /\ child[p] = Unborn /\ pump[p] = FreshPump /\ pipe[p] = <<>>
  BY DEF Init
<1>2. Newest = 0 /\ ~Writing
  BY <1>1 DEF Newest, Writing
<1>3. ClientsInv
  BY <1>1, <1>2 DEF ClientsInv
<1>4. ProcsInv
  BY <1>1 DEF ProcsInv, Unborn, FreshPump, Procs
<1>5. LinesInv /\ SawInv /\ PhaseInv
  BY <1>1, <1>2 DEF LinesInv, SawInv, PhaseInv, FreshPump, Unborn
<1>6. RequestInv /\ ReportInv
  BY <1>1 DEF RequestInv, ReportInv
<1>7. QED
  BY <1>3, <1>4, <1>5, <1>6 DEF CalmInv

LEMMA CalmHolds ==
    ASSUME Calm
    PROVE  Spec => [](TypeOK /\ CalmInv)
<1>1. TypeOK /\ CalmInv /\ [Next]_vars => CalmInv'
  BY CalmStep
<1>2. QED
  BY <1>1, InitType, TypeStep, CalmInit, PTL DEF Spec

\* No turn, no spinner: in a calm environment nothing that is left to itself
\* shows as busy, although a child may die in the middle of a turn and a
\* resumed one may replay an old result line (pump.rs: the result line and
\* the EOF branch).
THEOREM NothingStaysBusy ==
    ASSUME Calm
    PROVE  Spec => []QuietMeansNotBusy
<1>1. TypeOK /\ CalmInv => QuietMeansNotBusy
  <2> SUFFICES ASSUME TypeOK, CalmInv, Quiet, row.busy PROVE FALSE
    BY DEF QuietMeansNotBusy
  <2>1. PICK p \in Procs : Newest > 0 /\ (Queued(p) \/ AtWork(p) \/ Answered(p) \/ Settling(p))
    BY DEF CalmInv, PhaseInv
  <2>2. pump[p].pc \in {"reading", "removed"}
    BY <2>1 DEF Queued, AtWork, Answered, Settling, CalmInv, ProcsInv
  <2>3. /\ pump[p].pc = "reading" /\ pipe[p] = <<>>
        /\ child[p].turn = 0 /\ child[p].stdin = <<>>
    BY <2>2 DEF Quiet
  <2>4. QED
    BY <2>1, <2>3, QueuedIsSomething DEF AtWork, Answered, Settling
<1>2. QED
  BY <1>1, CalmHolds, PTL

-----------------------------------------------------------------------------
(* Whose result it is.  Where prompts are sent one at a time and no turn is  *)
(* cancelled, whatever else is under way is of the newest prompt: what waits *)
(* in stdin, what the child works on, and every line in the pipe that is not *)
(* a replayed one.  Here children die at any moment, may be faster than      *)
(* their sender, and are replaced while they are torn down.                  *)

OneAtATime == Env \cap {"overlap", "cancel"} = {}

\* A prompt is being recorded or has not been answered.
UnderWay == row.busy \/ Writing

\* Only the live incarnation has a pump that reads.
LiveInv ==
    /\ \A p \in Procs : pump[p].pc = "reading" <=> live = p
    /\ \A p \in Procs : child[p].state = "unborn" =>
          pump[p] = FreshPump /\ child[p].turn = 0
    /\ \A p \in Procs : pump[p].pc # "reading" =>
          pipe[p] = <<>> /\ child[p].state # "up"

HandInv ==
    \A p \in Procs : child[p].state = "up" =>
        /\ child[p].stdin = <<>> \/ (child[p].stdin = <<Newest>> /\ child[p].turn = 0)
        /\ child[p].turn \in {0, Newest}
        /\ child[p].stdin # <<>> \/ child[p].turn # 0 => UnderWay /\ Newest > 0

OfCurrent(p, k) ==
    /\ pipe[p][k].turn = Newest /\ Newest > 0 /\ UnderWay
    /\ child[p].state = "up" => child[p].stdin = <<>>
    /\ pipe[p][k].kind = "result" =>
          k = Len(pipe[p]) /\ (child[p].state = "up" => child[p].turn = 0)

PipeInv == \A p \in Procs : \A k \in 1..Len(pipe[p]) : Replayed(p, k) \/ OfCurrent(p, k)

\* A pump that is being torn down while the next child is at work has captured
\* an older generation.
GenInv ==
    \A p \in Procs :
        /\ pump[p].gen <= row.gen
        /\ pump[p].pc = "removed" /\ live # 0 /\ row.busy => pump[p].gen < row.gen

OrderInv == ClientsInv /\ LiveInv /\ HandInv /\ PipeInv /\ GenInv

\* A line of the newest turn goes into the pipe.
LEMMA CurrentLineJoins ==
    ASSUME TypeOK, OrderInv, NEW p \in Procs, child[p].state = "up",
           NEW kind \in {"init", "stream", "limit", "result"}, NEW mark \in Marks,
           Emit(p, kind, Newest, mark), Newest > 0, UnderWay, child[p].stdin # <<>> \/ child[p].turn # 0,
           child'[p].stdin = <<>>, kind = "result" => child'[p].turn = 0,
           \A q \in Procs \ {p} : child'[q] = child[q],
           UNCHANGED <<row, live, pump, client, prompts>>
    PROVE  PipeInv'
<1> DEFINE line == [kind |-> kind, turn |-> Newest, mark |-> mark]
<1>1. pipe[p] \in Seq(Lines) /\ line \in Lines
  BY StateTypes DEF Lines
<1>2. /\ pipe'[p] = Append(pipe[p], line)
      /\ \A q \in Procs \ {p} : pipe'[q] = pipe[q]
  BY StateTypes DEF Emit
<1>3. /\ Len(pipe'[p]) = Len(pipe[p]) + 1 /\ pipe'[p][Len(pipe[p]) + 1] = line
      /\ \A k \in 1..Len(pipe[p]) : pipe'[p][k] = pipe[p][k]
      /\ Len(pipe[p]) \in Nat
  BY <1>1, <1>2, PipeAppend
<1>4. UnderWay' /\ Newest' = Newest
  BY DEF UnderWay, Writing, Newest
<1>5. ASSUME NEW k \in 1..Len(pipe[p]) PROVE Replayed(p, k)' \/ OfCurrent(p, k)'
  <2>1. Replayed(p, k) \/ OfCurrent(p, k)
    BY DEF OrderInv, PipeInv
  <2>2. CASE Replayed(p, k)
    BY <1>3, <2>2 DEF Replayed
  <2>3. CASE OfCurrent(p, k)
    BY <1>3, <1>4, <2>3 DEF OfCurrent
  <2>4. QED
    BY <2>1, <2>2, <2>3
<1>6. ASSUME NEW k \in 1..Len(pipe'[p]), k = Len(pipe[p]) + 1 PROVE OfCurrent(p, k)'
  <2>1. pipe'[p][k] = line /\ line.turn = Newest /\ line.kind = kind /\ k = Len(pipe'[p])
    BY <1>3, <1>6
  <2>2. QED
    BY <1>4, <2>1 DEF OfCurrent
<1>7. ASSUME NEW q \in Procs \ {p}, NEW k \in 1..Len(pipe'[q])
      PROVE  Replayed(q, k)' \/ OfCurrent(q, k)'
  <2>1. Replayed(q, k) \/ OfCurrent(q, k)
    BY <1>2, <1>7 DEF OrderInv, PipeInv
  <2>2. QED
    BY <1>2, <1>4, <1>7, <2>1 DEF Replayed, OfCurrent
<1>8. \A k \in 1..Len(pipe'[p]) : k \in 1..Len(pipe[p]) \/ k = Len(pipe[p]) + 1
  BY <1>3
<1>9. QED
  BY <1>5, <1>6, <1>7, <1>8 DEF PipeInv

\* What a child does.
LEMMA OrderChild ==
    ASSUME TypeOK, OrderInv, NEW p \in Procs, ChildStep(p)
    PROVE  OrderInv'
<1>1. /\ child[p].state = "up" /\ pump[p].pc = "reading" /\ live = p
      /\ UNCHANGED <<row, live, pump, client, prompts>>
  <2>1. child[p].state = "up" /\ UNCHANGED <<row, live, pump, client, prompts>>
    BY DEF ChildStep, ChildOpens, ChildStreams, ChildRejected, ChildFinishes,
       ChildIgnoresInterrupt, ChildDies, ReportStatus, OnCloseConfirm, Working
  <2>2. QED
    BY <2>1 DEF OrderInv, LiveInv
<1>2. UnderWay' = UnderWay /\ Newest' = Newest /\ Writing' = Writing
  BY <1>1 DEF UnderWay, Writing, Newest
<1>3. ClientsInv' /\ GenInv'
  BY <1>1, <1>2 DEF OrderInv, ClientsInv, GenInv
<1>h. /\ child[p].stdin = <<>> \/ (child[p].stdin = <<Newest>> /\ child[p].turn = 0)
      /\ child[p].turn \in {0, Newest}
      /\ child[p].stdin # <<>> \/ child[p].turn # 0 => UnderWay /\ Newest > 0
      /\ child[p] \in ChildType /\ Newest \in Nat
  BY <1>1, StateTypes DEF OrderInv, HandInv
<1>4. ASSUME \A q \in Procs \ {p} : child'[q] = child[q] /\ pipe'[q] = pipe[q],
             child'[p].state \in {"up", "dead"}, child'[p].stdin = <<>> \/ child'[p].turn = 0,
             child'[p].stdin \in {<<>>, child[p].stdin}, child'[p].turn \in {0, Newest},
             child'[p].turn # 0 => child[p].turn # 0 \/ child[p].stdin # <<>>,
             PipeInv'
      PROVE  OrderInv'
  <2>1. LiveInv'
    BY <1>1, <1>4 DEF OrderInv, LiveInv
  <2>2. HandInv'
    BY <1>2, <1>h, <1>4 DEF OrderInv, HandInv
  <2>3. QED
    BY <1>3, <1>4, <2>1, <2>2 DEF OrderInv
<1>5. CASE ChildOpens(p)
  <2> DEFINE rec == [child[p] EXCEPT !.turn = Newest, !.stdin = <<>>]
  <2>1. child[p].turn = 0 /\ child[p].stdin # <<>> /\ child[p].stdin = <<Newest>>
    BY <1>5, <1>h DEF ChildOpens
  <2>2. Head(child[p].stdin) = Newest /\ Tail(child[p].stdin) = <<>>
    BY <1>h, <2>1
  <2>3. child' = [child EXCEPT ![p].turn = Head(child[p].stdin),
                               ![p].stdin = Tail(child[p].stdin)]
        /\ Emit(p, "init", Head(child[p].stdin), None) /\ None \in Marks
    BY <1>5 DEF ChildOpens, Marks
  <2>4. /\ child'[p].turn = Newest /\ child'[p].stdin = <<>> /\ child'[p].state = "up"
        /\ \A q \in Procs \ {p} : child'[q] = child[q]
    BY <1>1, <2>2, <2>3, StateTypes DEF ChildType
  <2>5. PipeInv'
    BY <1>1, <1>h, <2>1, <2>2, <2>3, <2>4, CurrentLineJoins
  <2>6. \A q \in Procs \ {p} : pipe'[q] = pipe[q]
    BY <2>3, StateTypes DEF Emit
  <2>7. QED
    BY <1>4, <2>1, <2>4, <2>5, <2>6
<1>6. CASE ChildStreams(p) \/ ChildRejected(p) \/ ChildFinishes(p)
  <2>1. child[p].turn = Newest /\ child[p].turn # 0 /\ child[p].stdin = <<>>
    BY <1>6, <1>h DEF ChildStreams, ChildRejected, ChildFinishes, Working
  <2>n. None \in Marks
    BY DEF Marks
  <2>2. PICK kind \in {"stream", "limit", "result"}, mark \in Marks :
          /\ Emit(p, kind, Newest, mark)
          /\ kind = "result" <=> ChildFinishes(p)
    <3>1. CASE ChildFinishes(p)
      BY <2>1, <3>1 DEF ChildFinishes
    <3>2. CASE ChildStreams(p) /\ ~ChildFinishes(p)
      BY <2>1, <2>n, <3>2 DEF ChildStreams
    <3>3. CASE ChildRejected(p) /\ ~ChildFinishes(p)
      BY <2>1, <2>n, <3>3 DEF ChildRejected
    <3>4. QED
      BY <1>6, <3>1, <3>2, <3>3
  <2>3. /\ child'[p].state = "up" /\ child'[p].stdin = <<>>
        /\ \A q \in Procs \ {p} : child'[q] = child[q]
        /\ child'[p].turn \in {0, Newest} /\ (ChildFinishes(p) => child'[p].turn = 0)
    <3>1. CASE ChildFinishes(p)
      BY <1>1, <2>1, <3>1, StateTypes DEF ChildFinishes, Idle, ChildType
    <3>2. CASE (ChildStreams(p) \/ ChildRejected(p)) /\ ~ChildFinishes(p)
      BY <1>1, <2>1, <3>2, StateTypes DEF ChildStreams, ChildRejected, ChildType
    <3>3. QED
      BY <1>6, <3>1, <3>2
  <2>4. PipeInv'
    BY <1>1, <1>h, <2>1, <2>2, <2>3, CurrentLineJoins
  <2>5. \A q \in Procs \ {p} : pipe'[q] = pipe[q]
    BY <2>2, StateTypes DEF Emit
  <2>6. QED
    BY <1>4, <2>1, <2>3, <2>4, <2>5
<1>7. CASE \/ ChildIgnoresInterrupt(p) \/ ChildDies(p) \/ OnCloseConfirm(p)
           \/ \E s \in Statuses : ReportStatus(p, s)
  <2>1. /\ pipe' = pipe /\ child'[p].stdin = child[p].stdin /\ child'[p].turn = child[p].turn
        /\ child'[p].state \in {"up", "dead"}
        /\ \A q \in Procs \ {p} : child'[q] = child[q]
    BY <1>1, <1>7, StateTypes
       DEF ChildIgnoresInterrupt, ChildDies, OnCloseConfirm, ReportStatus, ChildType
  <2>2. PipeInv'
    <3> SUFFICES ASSUME NEW q \in Procs, NEW k \in 1..Len(pipe[q])
                 PROVE  Replayed(q, k)' \/ OfCurrent(q, k)'
      BY <2>1 DEF PipeInv
    <3>1. Replayed(q, k) \/ OfCurrent(q, k)
      BY DEF OrderInv, PipeInv
    <3>2. QED
      BY <1>1, <1>2, <2>1, <3>1 DEF Replayed, OfCurrent
  <2>3. QED
    BY <1>4, <1>h, <2>1, <2>2
<1>8. QED
  BY <1>5, <1>6, <1>7 DEF ChildStep

\* A line that is not the turn's last leaves the pipe.
LEMMA OrderReadsOn ==
    ASSUME TypeOK, OrderInv, NEW p \in Procs, ReadPlain(p) \/ ReadLimit(p)
    PROVE  OrderInv'
<1> DEFINE line == Head(pipe[p])
<1>1. /\ ReadLine(p) /\ line.kind # "result"
      /\ pump' = [pump EXCEPT ![p] = AfterFeed(p, line)]
      /\ row' = RowAfterFeed(p, line)
      /\ UNCHANGED <<live, child, client, prompts>>
  BY DEF ReadPlain, ReadLimit
<1>2. line \in Lines /\ line = pipe[p][1] /\ 1 \in 1..Len(pipe[p])
  BY <1>1, RestOfPipe, StateTypes, HeadTail
<1>3. /\ pump'[p].pc = pump[p].pc /\ \A q \in Procs \ {p} : pump'[q] = pump[q]
      /\ pump'[p].gen \in {row.gen, pump[p].gen}
      /\ row'.busy = row.busy /\ row'.gen = row.gen
  <2>1. pump'[p] = AfterFeed(p, line) /\ \A q \in Procs \ {p} : pump'[q] = pump[q]
    BY <1>1, StateTypes
  <2>2. /\ AfterFeed(p, line).pc = pump[p].pc
        /\ AfterFeed(p, line).gen \in {row.gen, pump[p].gen}
        /\ RowAfterFeed(p, line).busy = row.busy /\ RowAfterFeed(p, line).gen = row.gen
    BY <1>2, FeedLocals
  <2> HIDE DEF line
  <2>3. QED
    BY <1>1, <2>1, <2>2
<1>4. pump[p].pc = "reading"
  BY <1>1 DEF ReadLine
<1>5. UnderWay' = UnderWay /\ Newest' = Newest /\ Writing' = Writing
  BY <1>1, <1>3 DEF UnderWay, Writing, Newest
<1>6. ClientsInv' /\ HandInv'
  BY <1>1, <1>3, <1>5 DEF OrderInv, ClientsInv, HandInv
<1>7. GenInv'
  BY <1>1, <1>3, <1>4, StateTypes DEF OrderInv, GenInv, PumpType
<1>8. /\ Len(pipe'[p]) = Len(pipe[p]) - 1 /\ Len(pipe[p]) \in Nat
      /\ \A k \in 1..Len(pipe'[p]) : pipe'[p][k] = pipe[p][k + 1] /\ k + 1 \in 1..Len(pipe[p])
      /\ \A q \in Procs \ {p} : pipe'[q] = pipe[q]
  BY <1>1, RestOfPipe
<1>9. LiveInv'
  <2>1. child[p].state # "unborn"
    BY <1>4 DEF OrderInv, LiveInv, FreshPump
  <2>2. QED
    BY <1>1, <1>3, <1>4, <1>8, <2>1 DEF OrderInv, LiveInv
<1>10. PipeInv'
  <2>1. ASSUME NEW k \in 1..Len(pipe'[p]) PROVE OfCurrent(p, k)'
    <3>1. ~Replayed(p, k + 1)
      BY <2>1 DEF Replayed
    <3>2. OfCurrent(p, k + 1)
      BY <1>8, <2>1, <3>1 DEF OrderInv, PipeInv
    <3>3. k + 1 = Len(pipe[p]) => k = Len(pipe'[p])
      BY <1>8, <2>1
    <3>4. QED
      BY <1>1, <1>5, <1>8, <2>1, <3>2, <3>3 DEF OfCurrent
  <2>2. ASSUME NEW q \in Procs \ {p}, NEW k \in 1..Len(pipe'[q]) PROVE FALSE
    <3>1. pipe'[q] = <<>>
      BY <1>4, <1>8 DEF OrderInv, LiveInv
    <3>2. QED
      BY <2>2, <3>1
  <2>3. QED
    BY <2>1, <2>2 DEF PipeInv
<1>11. QED
  BY <1>6, <1>7, <1>9, <1>10 DEF OrderInv

\* A result line clears the row only if it is the newest turn's, which is then
\* the last line in the pipe.
LEMMA OrderResult ==
    ASSUME TypeOK, OrderInv, NEW p \in Procs, ReadResult(p)
    PROVE  OrderInv' /\ (row.busy /\ ~row'.busy => OfCurrent(p, 1))
<1>1. /\ ReadLine(p) /\ 1 \in 1..Len(pipe[p]) /\ pipe[p][1] \in Lines
      /\ pipe[p][1].kind = "result" /\ row'.gen = row.gen
      /\ row'.busy = (row.busy /\ row.gen # AfterFeed(p, pipe[p][1]).gen)
      /\ pump'[p].pc = pump[p].pc /\ pump'[p].gen = AfterFeed(p, pipe[p][1]).gen
      /\ \A q \in Procs \ {p} : pump'[q] = pump[q] /\ child'[q] = child[q]
      /\ child'[p] = IF side.closeRequested THEN [child[p] EXCEPT !.state = "dead"]
                     ELSE child[p]
      /\ UNCHANGED <<live, client, prompts>>
  BY ResultRead
<1>2. pump[p].pc = "reading" /\ live = p
  BY <1>1 DEF ReadLine, OrderInv, LiveInv
<1>3. /\ child'[p].stdin = child[p].stdin /\ child'[p].turn = child[p].turn
      /\ child'[p].state \in {child[p].state, "dead"} /\ child[p].state # "unborn"
  <2>1. child[p].state # "unborn"
    BY <1>2 DEF OrderInv, LiveInv, FreshPump
  <2>2. QED
    BY <1>1, <2>1, StateTypes DEF ChildType
<1>4. pump'[p].gen \in {row.gen, pump[p].gen}
  BY <1>1, FeedLocals
<1>5. /\ Len(pipe'[p]) = Len(pipe[p]) - 1 /\ Len(pipe[p]) \in Nat \ {0}
      /\ \A k \in 1..Len(pipe'[p]) : pipe'[p][k] = pipe[p][k + 1] /\ k + 1 \in 1..Len(pipe[p])
      /\ \A q \in Procs \ {p} : pipe'[q] = pipe[q]
  BY <1>1, RestOfPipe
<1>6. Newest' = Newest /\ Writing' = Writing
  BY <1>1 DEF Newest, Writing
<1>7. \A q \in Procs \ {p} : pipe'[q] = <<>> /\ child'[q].state # "up"
  BY <1>1, <1>2, <1>5 DEF OrderInv, LiveInv
<1>8. row.busy /\ ~row'.busy => OfCurrent(p, 1)
  <2>1. Replayed(p, 1) => row'.busy = row.busy
    BY ReplayedResult
  <2>2. Replayed(p, 1) \/ OfCurrent(p, 1)
    BY <1>1 DEF OrderInv, PipeInv
  <2>3. QED
    BY <2>1, <2>2
<1>9. ClientsInv'
  BY <1>1, <1>6 DEF OrderInv, ClientsInv
<1>10. LiveInv'
  BY <1>1, <1>2, <1>3, <1>7 DEF OrderInv, LiveInv
<1>11. GenInv'
  <2>1. row'.busy => row.busy
    BY <1>1
  <2>2. \A q \in Procs : pump[q].gen <= row.gen
    BY DEF OrderInv, GenInv
  <2>3. pump'[p].gen <= row'.gen /\ pump'[p].pc # "removed"
    BY <1>1, <1>2, <1>4, <2>2, StateTypes
  <2>4. ASSUME NEW q \in Procs \ {p}
        PROVE  /\ pump'[q].gen <= row'.gen
               /\ pump'[q].pc = "removed" /\ live' # 0 /\ row'.busy =>
                     pump'[q].gen < row'.gen
    <3>1. pump'[q] = pump[q] /\ row'.gen = row.gen /\ live' = live
      BY <1>1
    <3>2. QED
      BY <2>1, <3>1 DEF OrderInv, GenInv
  <2>5. QED
    BY <2>3, <2>4 DEF GenInv
<1>12. CASE row'.busy = row.busy
  <2>1. UnderWay' = UnderWay
    BY <1>6, <1>12 DEF UnderWay
  <2>2. HandInv'
    BY <1>1, <1>3, <1>6, <1>7, <2>1 DEF OrderInv, HandInv
  <2>3. ASSUME NEW k \in 1..Len(pipe'[p]) PROVE OfCurrent(p, k)'
    <3>1. ~Replayed(p, k + 1)
      BY <2>3 DEF Replayed
    <3>2. OfCurrent(p, k + 1)
      BY <1>5, <2>3, <3>1 DEF OrderInv, PipeInv
    <3>3. k + 1 = Len(pipe[p]) => k = Len(pipe'[p])
      BY <1>5, <2>3
    <3>4. QED
      BY <1>3, <1>5, <1>6, <2>1, <2>3, <3>2, <3>3 DEF OfCurrent
  <2>4. PipeInv'
    <3>1. \A q \in Procs \ {p} : \A k \in 1..Len(pipe'[q]) : FALSE
      BY <1>7
    <3>2. QED
      BY <2>3, <3>1 DEF PipeInv
  <2>5. QED
    BY <1>8, <1>9, <1>10, <1>11, <2>2, <2>4 DEF OrderInv
<1>13. CASE row'.busy # row.busy
  <2>1. row.busy /\ ~row'.busy
    BY <1>1, <1>13, StateTypes
  <2>2. OfCurrent(p, 1) /\ Len(pipe[p]) = 1
    BY <1>1, <1>8, <2>1 DEF OfCurrent
  <2>3. Len(pipe'[p]) = 0
    BY <1>5, <2>2
  <2>4. PipeInv'
    <3>1. \A q \in Procs : \A k \in 1..Len(pipe'[q]) : FALSE
      BY <1>7, <2>3
    <3>2. QED
      BY <3>1 DEF PipeInv
  <2>5. child'[p].state = "up" => child'[p].stdin = <<>> /\ child'[p].turn = 0
    BY <1>1, <1>3, <2>2 DEF OfCurrent
  <2>6. HandInv'
    BY <1>7, <2>5 DEF HandInv
  <2>7. QED
    BY <1>8, <1>9, <1>10, <1>11, <2>4, <2>6 DEF OrderInv
<1>14. QED
  BY <1>12, <1>13

\* The end of file.
LEMMA OrderEnds ==
    ASSUME TypeOK, OrderInv, NEW p \in Procs, Eof(p) \/ EofSettles(p) \/ EofCloses(p)
    PROVE  OrderInv'
<1>1. UNCHANGED <<child, pipe, client, prompts>>
  BY DEF Eof, EofSettles, EofCloses
<1>2. Newest' = Newest /\ Writing' = Writing
  BY <1>1 DEF Newest, Writing
<1>3. CASE Eof(p)
  <2>1. /\ pump[p].pc = "reading" /\ pipe[p] = <<>> /\ child[p].state = "dead"
        /\ row' = row /\ live' = 0
        /\ pump'[p].pc = "removed" /\ pump'[p].gen = pump[p].gen
        /\ \A q \in Procs \ {p} : pump'[q] = pump[q]
    BY <1>3, StateTypes DEF Eof, PumpType
  <2>2. \A q \in Procs : pump'[q].pc # "reading" /\ pipe[q] = <<>> /\ child[q].state # "up"
    BY <2>1 DEF OrderInv, LiveInv
  <2>3. LiveInv'
    BY <1>1, <2>1, <2>2 DEF OrderInv, LiveInv, Procs
  <2>4. HandInv' /\ PipeInv'
    BY <1>1, <2>2 DEF HandInv, PipeInv
  <2>5. ClientsInv' /\ GenInv'
    BY <1>1, <1>2, <2>1 DEF OrderInv, ClientsInv, GenInv
  <2>6. QED
    BY <2>3, <2>4, <2>5 DEF OrderInv
<1>4. CASE EofSettles(p) \/ EofCloses(p)
  <2>1. /\ pump[p].pc \in {"removed", "settled"} /\ pump'[p].pc \in {"settled", "gone"}
        /\ pump'[p].gen = pump[p].gen /\ \A q \in Procs \ {p} : pump'[q] = pump[q]
        /\ live' = live /\ row'.gen = row.gen
        /\ row'.busy = row.busy \/ (pump[p].pc = "removed" /\ pump[p].gen = row.gen
                                    /\ row.busy /\ ~row'.busy)
    <3>1. CASE EofSettles(p)
      BY <3>1, StateTypes DEF EofSettles, IsNewestGen, PumpType, RowType
    <3>2. CASE EofCloses(p)
      BY <3>2, StateTypes DEF EofCloses, PumpType, RowType
    <3>3. QED
      BY <1>4, <3>1, <3>2
  <2>2. live # p /\ child[p].state # "unborn"
    BY <2>1 DEF OrderInv, LiveInv, FreshPump
  <2>3. LiveInv'
    BY <1>1, <2>1, <2>2 DEF OrderInv, LiveInv
  <2>4. ClientsInv'
    BY <1>1, <1>2, <2>1, StateTypes DEF OrderInv, ClientsInv
  <2>5. GenInv'
    BY <2>1, StateTypes DEF OrderInv, GenInv
  <2>6. CASE row'.busy = row.busy
    <3>1. UnderWay' = UnderWay
      BY <1>2, <2>6 DEF UnderWay
    <3>2. HandInv'
      BY <1>1, <1>2, <3>1 DEF OrderInv, HandInv
    <3>3. PipeInv'
      <4> SUFFICES ASSUME NEW q \in Procs, NEW k \in 1..Len(pipe[q])
                   PROVE  Replayed(q, k)' \/ OfCurrent(q, k)'
        BY <1>1 DEF PipeInv
      <4>1. q # p
        BY <2>1 DEF OrderInv, LiveInv
      <4>2. Replayed(q, k) \/ OfCurrent(q, k)
        BY DEF OrderInv, PipeInv
      <4>3. QED
        BY <1>1, <1>2, <2>1, <3>1, <4>1, <4>2 DEF Replayed, OfCurrent
    <3>4. QED
      BY <2>3, <2>4, <2>5, <3>2, <3>3 DEF OrderInv
  <2>7. CASE row'.busy # row.busy
    <3>1. live = 0
      BY <2>1, <2>7, StateTypes DEF OrderInv, GenInv
    <3>2. \A q \in Procs : pipe[q] = <<>> /\ child[q].state # "up"
      BY <3>1 DEF OrderInv, LiveInv, Procs
    <3>3. HandInv' /\ PipeInv'
      BY <1>1, <3>2 DEF HandInv, PipeInv
    <3>4. QED
      BY <2>3, <2>4, <2>5, <3>3 DEF OrderInv
  <2>8. QED
    BY <2>6, <2>7
<1>5. QED
  BY <1>3, <1>4

\* Where a client may send, nothing is under way.
LEMMA SenderIsAlone ==
    ASSUME OneAtATime, OrderInv, NEW c \in Clients, client[c] = "idle", MaySend
    PROVE  /\ ~UnderWay /\ ~row.busy /\ \A d \in Clients : client[d] = "idle"
           /\ \A p \in Procs : child[p].state = "up" =>
                 child[p].stdin = <<>> /\ child[p].turn = 0
           /\ \A p \in Procs : \A k \in 1..Len(pipe[p]) : Replayed(p, k)
<1>1. ~row.busy /\ \A d \in Clients : client[d] = "idle"
  BY DEF MaySend, OneAtATime
<1>2. ~UnderWay
  BY <1>1 DEF UnderWay, Writing
<1>3. QED
  BY <1>1, <1>2 DEF OrderInv, HandInv, PipeInv, OfCurrent

LEMMA OrderClient ==
    ASSUME OneAtATime, TypeOK, OrderInv, NEW c \in Clients, ClientStep(c)
    PROVE  OrderInv'
<1>t. /\ client \in [Clients -> ClientPC] /\ prompts \in Seq(PromptKinds)
      /\ row.gen \in Nat /\ Newest \in Nat
  BY StateTypes DEF TypeOK
<1>1. ~CancelTurn(c) /\ ~RecordCancel(c)
  BY DEF CancelTurn, RecordCancel, OneAtATime, OrderInv, ClientsInv
<1>2. CASE RecordSend(c)
  <2>1. /\ client[c] = "written" /\ client' = [client EXCEPT ![c] = "idle"]
        /\ row'.busy /\ row'.gen = row.gen + 1
        /\ UNCHANGED <<live, child, pipe, pump, prompts>>
    BY <1>2, StateTypes DEF RecordSend, RowType
  <2>2. Writing /\ ~Writing' /\ Newest' = Newest /\ UnderWay /\ UnderWay'
    BY <1>t, <2>1 DEF Writing, Newest, UnderWay, OrderInv, ClientsInv
  <2>3. ClientsInv'
    BY <1>t, <2>1, <2>2 DEF OrderInv, ClientsInv
  <2>4. LiveInv' /\ HandInv'
    BY <2>1, <2>2 DEF OrderInv, LiveInv, HandInv
  <2>5. GenInv'
    BY <1>t, <2>1, StateTypes DEF OrderInv, GenInv, PumpType
  <2>6. PipeInv'
    <3> SUFFICES ASSUME NEW q \in Procs, NEW k \in 1..Len(pipe[q])
                 PROVE  Replayed(q, k)' \/ OfCurrent(q, k)'
      BY <2>1 DEF PipeInv
    <3>1. Replayed(q, k) \/ OfCurrent(q, k)
      BY DEF OrderInv, PipeInv
    <3>2. QED
      BY <1>t, <2>1, <2>2, <3>1 DEF Replayed, OfCurrent
  <2>7. QED
    BY <2>3, <2>4, <2>5, <2>6 DEF OrderInv
<1>3. ASSUME NEW k \in PromptKinds, Send(c, k) PROVE OrderInv'
  <2>1. /\ ~row.busy /\ \A d \in Clients : client[d] = "idle"
        /\ \A p \in Procs : child[p].state = "up" =>
              child[p].stdin = <<>> /\ child[p].turn = 0
        /\ \A p \in Procs : \A i \in 1..Len(pipe[p]) : Replayed(p, i)
    BY <1>3, SenderIsAlone DEF Send
  <2>2. live \in Procs /\ UNCHANGED <<row, live, pipe, pump>>
    BY <1>3 DEF Send, TypeOK
  <2>3. GenInv' /\ PipeInv'
    <3>1. GenInv'
      BY <2>2 DEF OrderInv, GenInv
    <3>2. \A p \in Procs : \A i \in 1..Len(pipe'[p]) : Replayed(p, i)'
      BY <2>1, <2>2 DEF Replayed
    <3>3. QED
      BY <3>1, <3>2 DEF PipeInv
  <2>4. CASE child[live].state # "up"
    <3>1. UNCHANGED <<child, client, prompts>>
      BY <1>3, <2>4 DEF Send
    <3>2. Newest' = Newest /\ Writing' = Writing /\ UnderWay' = UnderWay
      BY <2>2, <3>1 DEF Newest, Writing, UnderWay
    <3>3. ClientsInv' /\ LiveInv' /\ HandInv'
      BY <2>2, <3>1, <3>2 DEF OrderInv, ClientsInv, LiveInv, HandInv
    <3>4. QED
      BY <2>3, <3>3 DEF OrderInv
  <2>5. CASE child[live].state = "up"
    <3>1. /\ prompts' = Append(prompts, k) /\ client' = [client EXCEPT ![c] = "written"]
          /\ child' = [child EXCEPT ![live].stdin = Append(child[live].stdin, Newest + 1)]
      BY <1>3, <2>5 DEF Send, WritePrompt, Newest
    <3>2. Newest' = Newest + 1
      BY <1>t, <3>1 DEF Newest
    <3>3. Append(child[live].stdin, Newest + 1) = <<Newest'>>
      <4>1. child[live].stdin = <<>>
        BY <2>1, <2>2, <2>5
      <4>2. Append(<<>>, Newest + 1) = <<Newest + 1>>
        BY <1>t
      <4>3. QED
        BY <3>2, <4>1, <4>2
    <3>4. /\ child'[live].stdin = <<Newest'>> /\ child'[live].turn = 0
          /\ child'[live].state = "up"
          /\ \A q \in Procs \ {live} : child'[q] = child[q]
      BY <2>1, <2>2, <2>5, <3>1, <3>3, StateTypes DEF ChildType
    <3>5. ~Writing /\ Writing' /\ UnderWay'
      BY <1>t, <2>1, <3>1 DEF Writing, UnderWay
    <3>6. ClientsInv'
      <4>1. client'[c] = "written" /\ \A d \in Clients \ {c} : client'[d] = "idle"
        BY <1>t, <2>1, <3>1
      <4>2. row.gen = Newest /\ row' = row
        BY <2>2, <3>5 DEF OrderInv, ClientsInv
      <4>3. row'.gen = Newest' - 1 /\ ~row'.busy
        BY <1>t, <2>1, <3>2, <4>2
      <4>4. QED
        BY <3>5, <4>1, <4>3 DEF ClientsInv
    <3>7. LiveInv'
      BY <2>2, <2>5, <3>4 DEF OrderInv, LiveInv
    <3>8. HandInv'
      <4>1. \A q \in Procs \ {live} : child'[q].state # "up"
        BY <3>4 DEF OrderInv, LiveInv
      <4>2. QED
        BY <1>t, <2>2, <3>2, <3>4, <3>5, <4>1 DEF HandInv
    <3>9. QED
      BY <2>3, <3>6, <3>7, <3>8 DEF OrderInv
  <2>6. QED
    BY <2>4, <2>5
<1>4. ASSUME NEW k \in PromptKinds, RespawnAndSend(c, k) PROVE OrderInv'
  <2>1. /\ ~row.busy /\ \A d \in Clients : client[d] = "idle"
        /\ live = 0 /\ row' = row
    BY <1>4, SenderIsAlone DEF RespawnAndSend
  <2>2. PICK p \in Procs :
          /\ child[p].state = "unborn" /\ live' = p
          /\ prompts' = Append(prompts, k)
          /\ child' = [child EXCEPT ![p].state = "up", ![p].stdin = <<Newest + 1>>]
          /\ pump' = [pump EXCEPT ![p].pc = "reading"]
          /\ \E replay \in Replays :
               /\ row.gen = 0 => replay = <<>>
               /\ pipe' = [pipe EXCEPT ![p] = replay]
    BY <1>4 DEF RespawnAndSend, WritePrompt, Newest
  <2>3. /\ Newest' = Newest + 1 /\ client' = [client EXCEPT ![c] = "written"]
    BY <1>4, <1>t, <2>2 DEF Newest, RespawnAndSend
  <2>4. \A q \in Procs : pump[q].pc # "reading" /\ pipe[q] = <<>> /\ child[q].state # "up"
    BY <2>1 DEF OrderInv, LiveInv, Procs
  <2>5. pump[p] = FreshPump
    BY <2>2 DEF OrderInv, LiveInv
  <2>6. /\ child'[p].state = "up" /\ child'[p].stdin = <<Newest'>>
        /\ child'[p].turn = child[p].turn
        /\ \A q \in Procs \ {p} : child'[q] = child[q]
    BY <2>2, <2>3, StateTypes DEF ChildType
  <2>7. /\ pump'[p].pc = "reading" /\ pump'[p].gen = 0 /\ ~pump'[p].latch /\ ~pump'[p].saw
        /\ \A q \in Procs \ {p} : pump'[q] = pump[q]
    <3>1. pump'[p] = [pump[p] EXCEPT !.pc = "reading"]
      BY <2>2, StateTypes
    <3>2. QED
      BY <2>2, <2>5, <3>1, StateTypes DEF FreshPump
  <2>8. Writing' /\ UnderWay' /\ ~Writing
    BY <1>t, <2>1, <2>3 DEF Writing, UnderWay
  <2>9. ClientsInv'
    BY <1>t, <2>1, <2>3, <2>8 DEF OrderInv, ClientsInv
  <2>10. LiveInv'
    <3>1. \A q \in Procs \ {p} : pipe'[q] = pipe[q]
      BY <2>2, StateTypes
    <3>2. \A q \in Procs : pump'[q].pc = "reading" <=> live' = q
      BY <2>2, <2>4, <2>7
    <3>3. \A q \in Procs : child'[q].state = "unborn" =>
            q # p /\ pump'[q] = FreshPump /\ child'[q].turn = 0
      BY <2>6, <2>7 DEF OrderInv, LiveInv
    <3>4. \A q \in Procs : pump'[q].pc # "reading" =>
            pipe'[q] = <<>> /\ child'[q].state # "up"
      BY <2>4, <2>6, <2>7, <3>1
    <3>5. QED
      BY <3>2, <3>3, <3>4 DEF LiveInv
  <2>11. HandInv'
    <3>1. child[p].turn = 0
      BY <2>2 DEF OrderInv, LiveInv
    <3>2. \A q \in Procs \ {p} : child'[q].state # "up"
      BY <2>4, <2>6
    <3>3. QED
      BY <1>t, <2>3, <2>6, <2>8, <3>1, <3>2 DEF HandInv
  <2>12. GenInv'
    BY <1>t, <2>1, <2>7, StateTypes DEF OrderInv, GenInv
  <2>13. PipeInv'
    <3>1. \A q \in Procs \ {p} : pipe'[q] = <<>>
      BY <2>2, <2>4, StateTypes
    <3>2. ASSUME NEW i \in 1..Len(pipe'[p]) PROVE Replayed(p, i)'
      <4>1. pipe'[p] \in Replays /\ (row.gen = 0 => pipe'[p] = <<>>)
        BY <2>2, StateTypes
      <4>2. pipe'[p] # <<>>
        BY <3>2
      <4>3. /\ Len(pipe'[p]) = 1 /\ pipe'[p][1].kind = "result" /\ pipe'[p][1].turn = 0
            /\ i = 1 /\ row.gen > 0
        <5>1. Len(pipe'[p]) = 1 /\ pipe'[p][1].kind = "result" /\ pipe'[p][1].turn = 0
          BY <4>1, <4>2, ReplayedLines
        <5>2. i = 1
          BY <3>2, <5>1
        <5>3. row.gen > 0
          BY <1>t, <4>1, <4>2
        <5>4. QED
          BY <5>1, <5>2, <5>3
      <4>4. QED
        BY <2>1, <2>7, <4>3 DEF Replayed
    <3>3. QED
      BY <3>1, <3>2 DEF PipeInv
  <2>14. QED
    BY <2>9, <2>10, <2>11, <2>12, <2>13 DEF OrderInv
<1>5. QED
  BY <1>1, <1>2, <1>3, <1>4 DEF ClientStep

LEMMA OrderStep ==
    ASSUME OneAtATime, TypeOK, OrderInv, [Next]_vars
    PROVE  OrderInv'
<1>1. CASE UNCHANGED vars
  <2>1. ClientsInv' /\ LiveInv' /\ GenInv'
    BY <1>1 DEF vars, OrderInv, ClientsInv, LiveInv, GenInv, Writing, Newest
  <2>2. HandInv' /\ PipeInv'
    BY <1>1 DEF vars, OrderInv, HandInv, PipeInv, Replayed, OfCurrent, UnderWay,
                Writing, Newest
  <2>3. QED
    BY <2>1, <2>2 DEF OrderInv
<1>2. ASSUME NEW p \in Procs, PumpStep(p) PROVE OrderInv'
  BY <1>2, OrderReadsOn, OrderResult, OrderEnds DEF PumpStep
<1>3. QED
  BY <1>1, <1>2, OrderChild, OrderClient DEF Next

LEMMA OrderInit == Init => OrderInv
<1> SUFFICES ASSUME Init PROVE OrderInv
  OBVIOUS
<1>1. /\ row.gen = 0 /\ ~row.busy /\ live = 0 /\ prompts = <<>>
      /\ \A c \in Clients : client[c] = "idle"
      /\ \A p \in Procs : /\ child[p] = Unborn /\ pump[p] = FreshPump /\ pipe[p] = <<>>
  BY DEF Init
<1>2. Newest = 0 /\ ~Writing
  BY <1>1 DEF Newest, Writing
<1>3. ClientsInv
  BY <1>1, <1>2 DEF ClientsInv
<1>4. LiveInv /\ HandInv
  BY <1>1 DEF LiveInv, HandInv, Unborn, FreshPump, Procs
<1>5. PipeInv /\ GenInv
  BY <1>1 DEF PipeInv, GenInv, FreshPump
<1>6. QED
  BY <1>3, <1>4, <1>5 DEF OrderInv

LEMMA OrderHolds ==
    ASSUME OneAtATime
    PROVE  Spec => [](TypeOK /\ OrderInv)
<1>1. TypeOK /\ OrderInv /\ [Next]_vars => OrderInv'
  BY OrderStep
<1>2. QED
  BY <1>1, InitType, TypeStep, OrderInit, PTL DEF Spec

\* A result line frees the row only for the newest prompt: a replayed or late
\* result never does (registry.rs: set_busy_false_if_gen), unless a prompt is
\* sent into a turn or a turn is cancelled.
THEOREM OnlyNewestTurnClears ==
    ASSUME OneAtATime
    PROVE  Spec => ClearedByNewestTurn
<1>1. ASSUME TypeOK, OrderInv, NEW p \in Procs, ReadResult(p), row.busy, ~row'.busy
      PROVE  Head(pipe[p]).turn = Len(prompts)
  <2>1. 1 \in 1..Len(pipe[p]) /\ Head(pipe[p]) = pipe[p][1]
    BY <1>1, ResultRead
  <2>2. OfCurrent(p, 1)
    BY <1>1, OrderResult
  <2>3. QED
    BY <2>1, <2>2 DEF OfCurrent, Newest
<1>2. TypeOK /\ OrderInv /\ [Next]_vars =>
        [\A p \in Procs : (ReadResult(p) /\ row.busy /\ ~row'.busy) =>
            Head(pipe[p]).turn = Len(prompts)]_vars
  BY <1>1
<1>3. QED
  BY <1>2, OrderHolds, PTL DEF Spec, ClearedByNewestTurn

-----------------------------------------------------------------------------
(* Whose report it is, where in addition the child is no faster than the     *)
(* sender: then a turn that is worked on is that of the row's generation.    *)

Recording ==
    Writing => \A p \in Procs : /\ child[p].state = "up" => child[p].turn = 0
                                /\ \A k \in 1..Len(pipe[p]) : Replayed(p, k)

StampInv == Recording /\ ReportInv

LEMMA StampStep ==
    ASSUME OneAtATime, "fast" \notin Env, TypeOK, OrderInv, StampInv, [Next]_vars
    PROVE  StampInv'
<1>t. /\ client \in [Clients -> ClientPC] /\ row.gen \in Nat /\ side \in SideType
  BY StateTypes DEF TypeOK
<1>1. ASSUME NEW p \in Procs, ChildStep(p) PROVE StampInv'
  <2>1. UNCHANGED <<row, pump, client, prompts>> /\ Writing' = Writing
    BY <1>1 DEF ChildStep, ChildOpens, ChildStreams, ChildRejected, ChildFinishes,
       ChildIgnoresInterrupt, ChildDies, ReportStatus, OnCloseConfirm, Writing
  <2>2. Writing => \/ ChildIgnoresInterrupt(p) \/ ChildDies(p)
    <3>1. SUFFICES ASSUME Writing PROVE \/ ChildIgnoresInterrupt(p) \/ ChildDies(p)
      OBVIOUS
    <3>2. ~ChildOpens(p)
      BY <3>1 DEF Writing, ChildOpens, Recorded
    <3>3. ~Working(p)
      BY <3>1 DEF StampInv, Recording, Working
    <3>4. QED
      BY <1>1, <3>2, <3>3 DEF ChildStep, ChildStreams, ChildRejected, ChildFinishes,
         ReportStatus, OnCloseConfirm
  <2>3. Recording'
    <3>1. SUFFICES ASSUME Writing PROVE Recording'
      BY <2>1 DEF Recording
    <3>2. /\ pipe' = pipe /\ \A q \in Procs : /\ child'[q].turn = child[q].turn
                                              /\ child'[q].state = "up" => child[q].state = "up"
      <4>1. /\ pipe' = pipe /\ child[p].state = "up"
            /\ child' = [child EXCEPT ![p].interrupted = FALSE]
                 \/ child' = [child EXCEPT ![p].state = "dead"]
        BY <2>2, <3>1 DEF ChildIgnoresInterrupt, ChildDies
      <4>2. \A q \in Procs \ {p} : child'[q] = child[q]
        BY <4>1, StateTypes
      <4>3. child'[p].turn = child[p].turn
        BY <4>1, StateTypes DEF ChildType
      <4>4. QED
        BY <4>1, <4>2, <4>3
    <3>3. QED
      BY <2>1, <3>1, <3>2 DEF StampInv, Recording, Replayed
  <2>4. ReportInv'
    <3>1. CASE \E s \in Statuses : ReportStatus(p, s)
      <4>1. PICK s \in Statuses : ReportStatus(p, s)
        BY <3>1
      <4>2. side'.reported = [gen |-> row.gen, status |-> s, by |-> child[p].turn]
        BY <1>t, <4>1 DEF ReportStatus, SideType
      <4>3. child[p].turn = Newest /\ ~Writing
        BY <2>2, <4>1 DEF ReportStatus, Working, ChildIgnoresInterrupt, ChildDies,
           OrderInv, HandInv, StampInv, Recording
      <4>4. row.gen = Newest
        BY <4>3 DEF OrderInv, ClientsInv
      <4>5. QED
        BY <4>2, <4>3, <4>4 DEF ReportInv
    <3>2. CASE ~\E s \in Statuses : ReportStatus(p, s)
      <4>1. side'.reported = side.reported
        BY <1>1, <1>t, <3>2 DEF ChildStep, ChildOpens, ChildStreams, ChildRejected,
           ChildFinishes, ChildIgnoresInterrupt, ChildDies, OnCloseConfirm, SideType
      <4>2. QED
        BY <4>1 DEF StampInv, ReportInv
    <3>3. QED
      BY <3>1, <3>2
  <2>5. QED
    BY <2>3, <2>4 DEF StampInv
<1>2. ASSUME NEW p \in Procs, PumpStep(p) PROVE StampInv'
  <2>1. UNCHANGED <<client>> /\ Writing' = Writing
    BY <1>2 DEF PumpStep, ReadPlain, ReadLimit, ReadResult, Eof, EofSettles, EofCloses, Writing
  <2>2. side'.reported \in {side.reported, None}
    BY <1>2, <1>t DEF PumpStep, ReadPlain, ReadLimit, ReadResult, Eof, EofSettles,
       EofCloses, SideType
  <2>3. ReportInv'
    BY <2>2 DEF StampInv, ReportInv
  <2>4. Recording'
    <3>1. SUFFICES ASSUME Writing PROVE Recording'
      BY <2>1 DEF Recording
    <3>2. \A q \in Procs : /\ child'[q].turn = child[q].turn
                           /\ child'[q].state = "up" => child[q].state = "up"
      <4>1. child' = child \/ child' = [child EXCEPT ![p].state = "dead"]
        BY <1>2 DEF PumpStep, ReadPlain, ReadLimit, ReadResult, Eof, EofSettles,
           EofCloses, KillIf
      <4>2. \A q \in Procs : child' = [child EXCEPT ![p].state = "dead"] =>
              child'[q].turn = child[q].turn
              /\ (child'[q].state = "up" => child[q].state = "up")
        BY StateTypes DEF ChildType
      <4>3. QED
        BY <4>1, <4>2
    <3>3. CASE ReadPlain(p) \/ ReadLimit(p) \/ ReadResult(p)
      <4>1. ReadLine(p)
        BY <3>3 DEF ReadPlain, ReadLimit, ReadResult
      <4>2. /\ pump[p].pc = "reading" /\ Len(pipe'[p]) = Len(pipe[p]) - 1
            /\ Len(pipe[p]) \in Nat /\ \A q \in Procs \ {p} : pipe'[q] = pipe[q]
        BY <4>1, RestOfPipe DEF ReadLine
      <4>3. Len(pipe'[p]) \notin Nat \ {0}
        <5>1. \A k \in 1..Len(pipe[p]) : k = 1
          BY <3>1 DEF StampInv, Recording, Replayed
        <5>2. PICK n \in Nat : n = Len(pipe[p])
          BY <4>2
        <5>3. 2 \notin 1..n
          BY <5>1, <5>2
        <5>4. n < 2
          BY <5>3
        <5>5. Len(pipe'[p]) = n - 1
          BY <4>2, <5>2
        <5>6. n - 1 \notin Nat \ {0}
          BY <5>4
        <5>7. QED
          BY <5>5, <5>6
      <4>4. \A q \in Procs : \A k \in 1..Len(pipe'[q]) : FALSE
        <5>1. \A k \in 1..Len(pipe'[p]) : FALSE
          <6>1. Len(pipe'[p]) \in Int
            BY <4>2
          <6>2. Len(pipe'[p]) < 1
            BY <4>3, <6>1
          <6>3. QED
            BY <6>1, <6>2
        <5>2. \A q \in Procs \ {p} : pipe'[q] = <<>>
          BY <4>2 DEF OrderInv, LiveInv
        <5>3. QED
          BY <5>1, <5>2
      <4>5. QED
        BY <3>1, <3>2, <4>4 DEF StampInv, Recording
    <3>4. CASE Eof(p) \/ EofSettles(p) \/ EofCloses(p)
      <4>1. pipe' = pipe /\ pump[p].pc # "off" /\ (pump[p].pc = "reading" => pipe[p] = <<>>)
            /\ \A q \in Procs \ {p} : pump'[q] = pump[q]
        BY <3>4, StateTypes DEF Eof, EofSettles, EofCloses
      <4>2. pipe[p] = <<>> /\ row'.gen = row.gen
        BY <3>4, <4>1, StateTypes DEF Eof, EofSettles, EofCloses, OrderInv, LiveInv, RowType
      <4>3. QED
        BY <3>1, <3>2, <4>1, <4>2 DEF StampInv, Recording, Replayed
    <3>5. QED
      BY <1>2, <3>3, <3>4 DEF PumpStep
  <2>5. QED
    BY <2>3, <2>4 DEF StampInv
<1>3. ASSUME NEW c \in Clients, ClientStep(c) PROVE StampInv'
  <2>1. side' = side /\ ~CancelTurn(c) /\ ~RecordCancel(c)
    BY <1>3 DEF ClientStep, Send, RespawnAndSend, RecordSend, CancelTurn, RecordCancel,
       OneAtATime, OrderInv, ClientsInv
  <2>2. ReportInv'
    BY <2>1 DEF StampInv, ReportInv
  <2>3. CASE RecordSend(c)
    <3>1. ~Writing'
      BY <1>t, <2>3 DEF RecordSend, Writing, OrderInv, ClientsInv
    <3>2. QED
      BY <2>2, <3>1 DEF StampInv, Recording
  <2>4. ASSUME NEW k \in PromptKinds, Send(c, k) PROVE Recording'
    <3>1. /\ \A p \in Procs : child[p].state = "up" => child[p].turn = 0
          /\ \A p \in Procs : \A i \in 1..Len(pipe[p]) : Replayed(p, i)
      BY <2>4, SenderIsAlone DEF Send
    <3>2. UNCHANGED <<row, pipe, pump>>
      BY <2>4 DEF Send
    <3>3. \A p \in Procs : /\ child'[p].turn = child[p].turn
                           /\ child'[p].state = child[p].state
      <4>1. live \in Procs /\ (child' = child \/
                child' = [child EXCEPT ![live].stdin = Append(@, Len(prompts) + 1)])
        BY <2>4 DEF Send, TypeOK
      <4>2. \A p \in Procs :
              child' = [child EXCEPT ![live].stdin = Append(@, Len(prompts) + 1)] =>
                child'[p].turn = child[p].turn /\ child'[p].state = child[p].state
        BY <4>1, StateTypes DEF ChildType
      <4>3. QED
        BY <4>1, <4>2
    <3>4. QED
      BY <3>1, <3>2, <3>3 DEF Recording, Replayed
  <2>5. ASSUME NEW k \in PromptKinds, RespawnAndSend(c, k) PROVE Recording'
    <3>1. OrderInv'
      BY <1>3, OrderClient
    <3>2. PICK p \in Procs : live' = p
                /\ child' = [child EXCEPT ![p].state = "up", ![p].stdin = <<Len(prompts) + 1>>]
      BY <2>5 DEF RespawnAndSend
    <3>3. child'[p].state = "up" /\ child'[p].stdin # <<>>
      BY <3>2, StateTypes DEF ChildType
    <3>4. child'[p].turn = 0
      BY <3>1, <3>3 DEF OrderInv, HandInv
    <3>5. \A q \in Procs \ {p} : child'[q].state # "up" /\ pipe'[q] = <<>>
      BY <3>1, <3>2 DEF OrderInv, LiveInv
    <3>6. \A i \in 1..Len(pipe'[p]) : Replayed(p, i)'
      BY <3>1, <3>3 DEF OrderInv, PipeInv, OfCurrent
    <3>7. QED
      BY <3>4, <3>5, <3>6 DEF Recording
  <2>6. QED
    BY <1>3, <2>1, <2>2, <2>3, <2>4, <2>5 DEF ClientStep, StampInv
<1>4. CASE UNCHANGED vars
  BY <1>4 DEF vars, StampInv, Recording, ReportInv, Replayed, Writing
<1>5. QED
  BY <1>1, <1>2, <1>3, <1>4 DEF Next

LEMMA StampInit == Init => StampInv
  BY DEF Init, StampInv, Recording, ReportInv, Writing

LEMMA StampHolds ==
    ASSUME OneAtATime, "fast" \notin Env
    PROVE  Spec => [](TypeOK /\ OrderInv /\ StampInv)
<1>1. TypeOK /\ OrderInv /\ StampInv /\ [Next]_vars => StampInv'
  BY StampStep
<1>2. QED
  BY <1>1, OrderHolds, StampInit, PTL DEF Spec

\* A status reaches the row only from the turn whose result line is read: its
\* own report, else the marker in its text (pump.rs: take_reported_status_if_gen
\* and the .or(awaiting) behind it; registry.rs: set_awaiting_if_gen), unless a
\* prompt is sent into a turn, a turn is cancelled, or a child is at work before
\* its sender has recorded it.  A replayed line never gets there.
THEOREM StatusIsItsTurns ==
    ASSUME OneAtATime, "fast" \notin Env
    PROVE  Spec => StatusFromItsOwnTurn
<1>1. ASSUME TypeOK, OrderInv, StampInv, NEW p \in Procs, ReadResult(p),
             row'.awaiting \in AllStatuses, row'.awaiting # row.awaiting
      PROVE  /\ Head(pipe[p]).turn # 0
             /\ \/ row'.awaiting = OwnStatus(Head(pipe[p]))
                \/ side.background /\ row'.awaiting = "working"
  <2> DEFINE line  == Head(pipe[p])
             after == AfterFeed(p, line)
             fed   == RowAfterFeed(p, line)
  <2>1. /\ 1 \in 1..Len(pipe[p]) /\ line = pipe[p][1] /\ pipe[p][1] \in Lines
    BY <1>1, ResultRead
  <2>2. fed \in RowType /\ fed.awaiting = row.awaiting
    BY <1>1, <2>1, FeedLocals
  <2>3. PICK failed, b, e, f : row' = [fed EXCEPT
            !.busy = b,
            !.awaiting = IF failed THEN "close_failed"
                         ELSE IF after.saw /\ IsNewestGen(after.gen)
                              THEN EndStatus(after.gen, line.mark)
                         ELSE fed.awaiting,
            !.ended = e, !.closing = f]
    BY <1>1 DEF ReadResult
  <2> HIDE DEF line, after, fed
  <2>4. /\ after.saw /\ IsNewestGen(after.gen)
        /\ row'.awaiting = EndStatus(after.gen, line.mark)
    <3>1. "close_failed" \notin AllStatuses
      BY DEF AllStatuses
    <3>2. row'.awaiting = IF failed THEN "close_failed"
                          ELSE IF after.saw /\ IsNewestGen(after.gen)
                               THEN EndStatus(after.gen, line.mark)
                          ELSE fed.awaiting
      BY <2>2, <2>3 DEF RowType
    <3>3. QED
      BY <1>1, <2>2, <3>1, <3>2
  <2>5. ~Replayed(p, 1)
    BY <1>1, <2>1, <2>4, ReplayedResult DEF after
  <2>6. OfCurrent(p, 1)
    BY <1>1, <2>1, <2>5 DEF OrderInv, PipeInv
  <2>7. after.gen = row.gen /\ ~Writing
    BY <1>1, <2>1, <2>4, <2>5 DEF IsNewestGen, StampInv, Recording
  <2>8. row.gen = Newest
    BY <1>1, <2>7 DEF OrderInv, ClientsInv
  <2>9. line.turn = Newest /\ line.turn # 0
    BY <2>1, <2>6 DEF OfCurrent, Newest
  \* A report is of this generation exactly when it is by this turn.
  <2>10. side.reported # None =>
            (side.reported.gen = after.gen <=> side.reported.by = line.turn)
    BY <1>1, <2>7, <2>8, <2>9 DEF StampInv, ReportInv
  <2> DEFINE told == IF side.reported # None /\ side.reported.gen = after.gen
                     THEN side.reported.status ELSE line.mark
  <2>11. told = OwnStatus(line)
    BY <2>10 DEF OwnStatus
  <2>12. EndStatus(after.gen, line.mark) =
            IF told \in {None, "done"} /\ side.background THEN "working" ELSE told
    BY DEF EndStatus
  <2> HIDE DEF told
  <2>13. row'.awaiting = OwnStatus(line) \/ (side.background /\ row'.awaiting = "working")
    BY <2>4, <2>11, <2>12, Zenon
  <2>14. QED
    BY <2>9, <2>13 DEF line
<1>2. TypeOK /\ OrderInv /\ StampInv /\ [Next]_vars =>
        [\A p \in Procs :
            (ReadResult(p) /\ row'.awaiting \in AllStatuses /\ row'.awaiting # row.awaiting) =>
                /\ Head(pipe[p]).turn # 0
                /\ \/ row'.awaiting = OwnStatus(Head(pipe[p]))
                   \/ side.background /\ row'.awaiting = "working"]_vars
  BY <1>1
<1>3. QED
  BY <1>2, StampHolds, PTL DEF Spec, StatusFromItsOwnTurn
=============================================================================
