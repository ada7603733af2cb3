--------------------------- MODULE ChatStream_proofs ---------------------------
(***************************************************************************)
(* Theorems about ChatStream: the text a window rebuilds is whole, and no  *)
(* message is shown twice.  They hold for every capacity of the channel and *)
(* every number of blocks and chunks, the first for every set of page      *)
(* loads, and for every environment but for what Orderly, for the first,   *)
(* or OnTime and LoadedOnce, for the second, exclude.                      *)
(***************************************************************************)
EXTENDS ChatStream, SequenceTheorems, FiniteSetTheorems, TLAPS

\* A client attaches anew only once it has got what the old channel held, a
\* phone is attached from the beginning of a turn, and the watcher's copies
\* do not come into a later block.
Orderly == Env \cap {"hasty", "phone", "lateWatch"} = {}

Chunk == Nat \X Nat \X Nat

TurnType == [t : Nat, b : Nat, s : Nat,
             phase : {"over", "text", "flushing", "ending"}]

EventType == [k : {"delta", "tool", "final"}, c : Chunk]

AccType == [block : Nat, seq : Nat, text : Seq(Chunk), ref : Seq(Chunk)]

\* For the first theorem only the store's accumulator is typed.
Shape(st) ==
    DOMAIN st = {"shown", "acc", "recent", "loaded"} /\ st.acc \in AccType

ChildTypes ==
    /\ turn \in TurnType
    /\ streaming \in [block : Nat, seq : Nat]
    /\ done \in Seq(Seq(Chunk)) /\ logged \in Nat /\ watched \in Int

ChanTypes ==
    /\ chan \in Seq(EventType) /\ Len(chan) <= Capacity
    /\ lagged \in BOOLEAN /\ fwd \in {"off", "resync", "on"}

Types == ChildTypes /\ ChanTypes /\ Shape(store)

-----------------------------------------------------------------------------
(* What the operators of the store do to its accumulator *)

Rebuilt(st, block, seq, text) ==
    st.acc.block = block /\ st.acc.seq = seq /\ st.acc.text = text

SameAcc(st, old) == Rebuilt(st, old.acc.block, old.acc.seq, old.acc.text)

LEMMA EventRecord ==
    ASSUME NEW k \in {"delta", "tool", "final", "snap"}, NEW c \in Chunk
    PROVE  /\ Event(k, c) = [k |-> k, c |-> c]
           /\ Event(k, c).k = k /\ Event(k, c).c = c
           /\ k # "snap" => Event(k, c) \in EventType
  BY DEF Event, EventType

LEMMA TextIsSeq ==
    ASSUME NEW c \in Chunk
    PROVE  /\ Text(c) \in Seq(Chunk) /\ Len(Text(c)) = c[3]
           /\ \A i \in 1..c[3] : Text(c)[i] = <<c[1], c[2], i>>
           /\ c[3] > 0 => /\ Text(c) # <<>> /\ Text(c)[1] = <<c[1], c[2], 1>>
                          /\ Last(Text(c)) = c /\ ~IsTool(Text(c))
<1>1. c = <<c[1], c[2], c[3]>> /\ c[1] \in Nat /\ c[2] \in Nat /\ c[3] \in Nat
  BY DEF Chunk
<1>2. \A i \in 1..c[3] : <<c[1], c[2], i>> \in Chunk
  BY <1>1 DEF Chunk
<1>3. Text(c) \in Seq(Chunk) /\ Len(Text(c)) = c[3]
  <2>1. Text(c) \in [1..c[3] -> Chunk]
    BY <1>2 DEF Text
  <2>2. Text(c) \in Seq(Chunk)
    BY <1>1, <2>1, SeqDef
  <2>3. DOMAIN Text(c) = 1..Len(Text(c)) /\ Len(Text(c)) \in Nat
    BY <2>2, LenProperties
  <2>4. QED
    BY <1>1, <2>1, <2>2, <2>3
<1>4. \A i \in 1..c[3] : Text(c)[i] = <<c[1], c[2], i>>
  BY <1>1 DEF Text
<1>5. ASSUME c[3] > 0
      PROVE  /\ Text(c) # <<>> /\ Text(c)[1] = <<c[1], c[2], 1>>
             /\ Last(Text(c)) = c /\ ~IsTool(Text(c))
  <2>1. Text(c)[1] = <<c[1], c[2], 1>> /\ Text(c)[c[3]] = <<c[1], c[2], c[3]>>
    BY <1>1, <1>4, <1>5
  <2>2. Head(Text(c)) = Text(c)[1] /\ Text(c) # <<>>
    BY <1>1, <1>3, <1>5
  <2>3. QED
    BY <1>1, <1>3, <2>1, <2>2 DEF Last, IsTool
<1>6. QED
  BY <1>3, <1>4, <1>5

LEMMA ToolIsTool ==
    ASSUME NEW c \in Chunk
    PROVE  /\ ToolCall(c) \in Seq(Chunk) /\ IsTool(ToolCall(c))
           /\ ToolCall(c) # <<>> /\ ToolCall(c)[1] = <<c[1], c[2], 0>>
  BY DEF ToolCall, IsTool, Chunk

LEMMA SurfaceAcc ==
    ASSUME NEW st, Shape(st)
    PROVE  Shape(Surface(st)) /\ SameAcc(Surface(st), st)
<1>1. ASSUME NEW put,
             Surface(st) = [st EXCEPT !.shown = put, !.acc.ref = st.acc.text]
      PROVE  Shape(Surface(st)) /\ SameAcc(Surface(st), st)
  <2>1. /\ DOMAIN Surface(st) = DOMAIN st
        /\ Surface(st).acc = [st.acc EXCEPT !.ref = st.acc.text]
    BY <1>1 DEF Shape
  <2>2. QED
    BY <2>1 DEF Shape, AccType, SameAcc, Rebuilt
<1>2. CASE Surface(st) = st
  BY <1>2 DEF SameAcc, Rebuilt
<1>3. Surface(st) = st
      \/ \E put : Surface(st) = [st EXCEPT !.shown = put, !.acc.ref = st.acc.text]
  BY DEF Surface, Entry
<1>4. QED
  BY <1>1, <1>2, <1>3

LEMMA DeliverItemAcc ==
    ASSUME NEW st, Shape(st), NEW text
    PROVE  /\ Shape(DeliverItem(st, text))
           /\ IsTool(text) => DeliverItem(st, text).acc = st.acc
           /\ ~IsTool(text) => DeliverItem(st, text).acc = None
<1>1. None \in AccType
  BY DEF None, AccType
<1>2. Shape(Closed(st)) /\ Closed(st).acc = None
  BY <1>1 DEF Closed, Shape
<1>3. ASSUME NEW s, Shape(s), NEW t, NEW src
      PROVE  Shape(Told(s, t, src)) /\ Told(s, t, src).acc = s.acc
  BY <1>3 DEF Told, Shape
<1>4. QED
  BY <1>2, <1>3 DEF DeliverItem

LEMMA DeliverLineAcc ==
    ASSUME NEW st, Shape(st), NEW text
    PROVE  Shape(DeliverLine(st, text)) /\ DeliverLine(st, text).acc = None
<1>1. Shape(DeliverItem(st, text))
  BY DeliverItemAcc
<1>2. None \in AccType
  BY DEF None, AccType
<1>3. QED
  BY <1>1, <1>2 DEF DeliverLine, Closed, Shape

LEMMA SnapshotAcc ==
    ASSUME NEW st, Shape(st), NEW c \in Chunk
    PROVE  /\ Shape(ApplySnapshot(st, c))
           /\ Covered(st, c) => ApplySnapshot(st, c) = st
           /\ ~Covered(st, c) => Rebuilt(ApplySnapshot(st, c), c[2], c[3], Text(c))
<1> DEFINE new == [st EXCEPT !.acc.block = c[2], !.acc.seq = c[3], !.acc.text = Text(c)]
<1>1. Text(c) \in Seq(Chunk) /\ c[2] \in Nat /\ c[3] \in Nat
  BY TextIsSeq DEF Chunk
<1>2. /\ DOMAIN new = DOMAIN st
      /\ new.acc = [st.acc EXCEPT !.block = c[2], !.seq = c[3], !.text = Text(c)]
  BY DEF Shape
<1>3. Shape(new) /\ Rebuilt(new, c[2], c[3], Text(c))
  BY <1>1, <1>2 DEF Shape, AccType, Rebuilt
<1>4. Shape(Surface(new)) /\ SameAcc(Surface(new), new)
  BY <1>3, SurfaceAcc
<1>5. QED
  BY <1>3, <1>4 DEF ApplySnapshot, SameAcc, Rebuilt

\* A chunk begins a text, is covered, or goes to its end.
LEMMA DeltaAcc ==
    ASSUME NEW st, Shape(st), NEW c \in Chunk
    PROVE  /\ Shape(ApplyDelta(st, c))
           /\ \/ /\ st.acc = None \/ c[2] # st.acc.block \/ c[3] = 1
                 /\ Rebuilt(ApplyDelta(st, c), c[2], c[3], <<c>>)
              \/ /\ st.acc # None /\ c[2] = st.acc.block /\ c[3] <= st.acc.seq
                 /\ ApplyDelta(st, c) = st
              \/ /\ st.acc # None /\ c[2] = st.acc.block /\ c[3] > st.acc.seq
                 /\ Rebuilt(ApplyDelta(st, c), c[2], c[3], Append(st.acc.text, c))
<1> DEFINE anew == [st EXCEPT !.acc.block = c[2], !.acc.seq = c[3], !.acc.text = <<c>>]
           more == [st EXCEPT !.acc.seq = c[3], !.acc.text = Append(@, c)]
<1>1. c[2] \in Nat /\ c[3] \in Nat /\ <<c>> \in Seq(Chunk)
  BY DEF Chunk
<1>2. st.acc.text \in Seq(Chunk) /\ Append(st.acc.text, c) \in Seq(Chunk)
      /\ st.acc.seq \in Nat /\ st.acc.block \in Nat
  BY DEF Shape, AccType
<1>3. Shape(anew) /\ Rebuilt(anew, c[2], c[3], <<c>>)
  <2>1. /\ DOMAIN anew = DOMAIN st
        /\ anew.acc = [st.acc EXCEPT !.block = c[2], !.seq = c[3], !.text = <<c>>]
    BY DEF Shape
  <2>2. QED
    BY <1>1, <2>1 DEF Shape, AccType, Rebuilt
<1>4. Shape(more) /\ Rebuilt(more, st.acc.block, c[3], Append(st.acc.text, c))
  <2>1. /\ DOMAIN more = DOMAIN st
        /\ more.acc = [st.acc EXCEPT !.seq = c[3], !.text = Append(st.acc.text, c)]
    BY DEF Shape
  <2>2. QED
    BY <1>1, <1>2, <2>1 DEF Shape, AccType, Rebuilt
<1>5. Shape(Surface(anew)) /\ Rebuilt(Surface(anew), c[2], c[3], <<c>>)
  BY <1>3, SurfaceAcc DEF SameAcc, Rebuilt
<1>6. Shape(Surface(more)) /\ Rebuilt(Surface(more), st.acc.block, c[3], Append(st.acc.text, c))
  BY <1>4, SurfaceAcc DEF SameAcc, Rebuilt
<1>7. CASE st.acc = None \/ c[2] # st.acc.block \/ c[3] = 1
  BY <1>7, <1>5 DEF ApplyDelta
<1>8. CASE ~(st.acc = None \/ c[2] # st.acc.block \/ c[3] = 1) /\ Covered(st, c)
  BY <1>8 DEF ApplyDelta, Covered
<1>9. CASE ~(st.acc = None \/ c[2] # st.acc.block \/ c[3] = 1) /\ ~Covered(st, c)
  <2>1. c[3] > st.acc.seq
    BY <1>9, <1>1, <1>2 DEF Covered
  <2>2. ApplyDelta(st, c) = Surface(more)
    BY <1>9 DEF ApplyDelta
  <2>3. QED
    BY <1>9, <2>1, <2>2, <1>6
<1>10. QED
  BY <1>7, <1>8, <1>9

-----------------------------------------------------------------------------
(* What the channel does *)

LEMMA TailIs ==
    ASSUME NEW S, NEW q \in Seq(S), q # <<>>
    PROVE  /\ Tail(q) \in Seq(S) /\ Len(q) \in Nat \ {0} /\ Len(Tail(q)) = Len(q) - 1
           /\ \A i \in 1..(Len(q) - 1) : Tail(q)[i] = q[i + 1]
           /\ Head(q) \in S /\ Head(q) = q[1]
<1>1. Len(q) \in Nat \ {0}
  BY EmptySeq
<1>2. QED
  BY <1>1, HeadTailProperties

\* A published event is the last one, and pushes out the first if there is no
\* room.
LEMMA PublishIs ==
    ASSUME ChanTypes, NEW e \in EventType, Publish(e)
    PROVE  /\ chan' \in Seq(EventType) /\ lagged' \in BOOLEAN /\ Len(chan') <= Capacity
           /\ \/ fwd = "off" /\ chan' = <<>> /\ lagged' = lagged
              \/ fwd # "off" /\ chan' = Append(chan, e) /\ lagged' = lagged
              \/ fwd # "off" /\ chan # <<>> /\ chan' = Append(Tail(chan), e) /\ lagged'
<1>1. chan \in Seq(EventType) /\ Len(chan) \in Nat /\ lagged \in BOOLEAN
      /\ Len(chan) <= Capacity
  BY DEF ChanTypes
<1>2. Capacity \in Nat \ {0}
  BY ConstantsAssumption DEF ConstantsAssumption
<1>3. CASE fwd = "off"
  <2>1. chan' = <<>>
    BY <1>3 DEF Publish, Published
  <2>2. lagged' = lagged
    BY <1>1, <1>3 DEF Publish
  <2>3. Len(<<>>) <= Capacity /\ <<>> \in Seq(EventType)
    BY <1>2
  <2>4. QED
    BY <1>1, <1>3, <2>1, <2>2, <2>3
<1>4. CASE fwd # "off" /\ Len(chan) < Capacity
  <2>1. chan' = Append(chan, e) /\ lagged' = lagged
    BY <1>1, <1>2, <1>4 DEF Publish, Published
  <2>2. QED
    BY <1>1, <1>2, <1>4, <2>1, AppendProperties
<1>5. CASE fwd # "off" /\ Len(chan) = Capacity
  <2>1. chan' = Append(Tail(chan), e)
    BY <1>1, <1>2, <1>5 DEF Publish, Published
  <2>2. lagged' = TRUE
    BY <1>5, Zenon DEF Publish
  <2>3. chan # <<>>
    BY <1>1, <1>2, <1>5
  <2>4. Tail(chan) \in Seq(EventType) /\ Len(Tail(chan)) = Len(chan) - 1
    BY <1>1, <2>3, TailIs
  <2>5. chan' \in Seq(EventType) /\ Len(chan') = Len(chan)
    BY <1>1, <2>1, <2>4, AppendProperties
  <2>6. lagged' \in BOOLEAN /\ lagged'
    BY <2>2, Zenon
  <2>7. QED
    BY <1>1, <1>5, <2>1, <2>3, <2>5, <2>6
<1>6. QED
  BY <1>1, <1>2, <1>3, <1>4, <1>5

-----------------------------------------------------------------------------
(* Types *)

LEMMA TypesInit == Init => Types
<1> SUFFICES ASSUME Init PROVE Types
  OBVIOUS
<1>1. /\ turn \in TurnType /\ streaming \in [block : Nat, seq : Nat]
      /\ logged \in Nat /\ fwd \in {"off", "resync", "on"}
  BY DEF Init, TurnType
<1>a. lagged \in BOOLEAN
  BY Zenon DEF Init
<1>b. watched \in Int
  BY DEF Init
<1>2. done \in Seq(Seq(Chunk)) /\ chan \in Seq(EventType)
  BY DEF Init
<1>c. Len(chan) <= Capacity
  BY ConstantsAssumption DEF ConstantsAssumption, Init
<1>3. DOMAIN store = {"shown", "acc", "recent", "loaded"} /\ store.acc = None
  <2>1. store = [shown |-> <<>>, acc |-> None, recent |-> {}, loaded |-> FALSE]
    BY DEF Init
  <2>2. DOMAIN store = {"shown", "acc", "recent", "loaded"}
    BY <2>1
  <2>3. QED
    BY <2>1, <2>2
<1>4. None \in AccType
  BY DEF None, AccType
<1>5. QED
  BY <1>1, <1>a, <1>b, <1>2, <1>c, <1>3, <1>4 DEF Types, ChildTypes, ChanTypes, Shape

LEMMA CurrentType ==
    ASSUME Types
    PROVE  /\ Current \in Chunk /\ Current = <<turn.t, turn.b, turn.s>>
           /\ turn.t \in Nat /\ turn.b \in Nat /\ turn.s \in Nat
           /\ streaming.block \in Nat /\ streaming.seq \in Nat
           /\ <<turn.t, streaming.block, streaming.seq>> \in Chunk
           /\ store.acc.block \in Nat /\ store.acc.seq \in Nat
           /\ store.acc.text \in Seq(Chunk)
  BY DEF Types, ChildTypes, TurnType, Current, Chunk, Shape, AccType

LEMMA DeliveredType ==
    ASSUME NEW st, Shape(st), NEW k \in {"delta", "tool", "final", "snap"}, NEW c \in Chunk
    PROVE  /\ Shape(Delivered(st, Event(k, c)))
           /\ k = "delta" => Delivered(st, Event(k, c)) = ApplyDelta(st, c)
           /\ k = "snap" => Delivered(st, Event(k, c)) = ApplySnapshot(st, c)
           /\ k = "tool" => Delivered(st, Event(k, c)).acc = st.acc
           /\ k = "final" /\ c[3] > 0 => Delivered(st, Event(k, c)).acc = None
<1> DEFINE d == Delivered(st, Event(k, c))
<1>1. Event(k, c).k = k /\ Event(k, c).c = c
  BY EventRecord
<1>2. CASE k = "delta"
  <2>1. d = ApplyDelta(st, c)
    BY <1>1, <1>2 DEF Delivered
  <2>2. Shape(ApplyDelta(st, c))
    BY DeltaAcc
  <2>3. QED
    BY <1>2, <2>1, <2>2
<1>3. CASE k = "snap"
  <2>1. d = ApplySnapshot(st, c)
    BY <1>1, <1>3 DEF Delivered
  <2>2. Shape(ApplySnapshot(st, c))
    BY SnapshotAcc
  <2>3. QED
    BY <1>3, <2>1, <2>2
<1>4. CASE k = "tool"
  <2>1. d = DeliverItem(st, ToolCall(c))
    BY <1>1, <1>4 DEF Delivered
  <2>2. Shape(d) /\ d.acc = st.acc
    BY <2>1, DeliverItemAcc, ToolIsTool
  <2>3. QED
    BY <1>4, <2>2
<1>5. CASE k = "final"
  <2>1. d = DeliverItem(st, Text(c))
    BY <1>1, <1>5 DEF Delivered
  <2>2. Shape(d) /\ (c[3] > 0 => d.acc = None)
    BY <2>1, DeliverItemAcc, TextIsSeq
  <2>3. QED
    BY <1>5, <2>2
<1>6. QED
  BY <1>2, <1>3, <1>4, <1>5

LEMMA TypesStep == Types /\ [Next]_vars => Types'
<1> SUFFICES ASSUME Types, [Next]_vars PROVE Types'
  OBVIOUS
<1>c. /\ Current \in Chunk
      /\ turn.t \in Nat /\ turn.b \in Nat /\ turn.s \in Nat
      /\ streaming.block \in Nat /\ streaming.seq \in Nat
      /\ <<turn.t, streaming.block, streaming.seq>> \in Chunk
  BY CurrentType
<1>t. ChildTypes /\ ChanTypes /\ Shape(store)
  BY DEF Types
<1>e. <<>> \in Seq(EventType) /\ Len(<<>>) <= Capacity
  BY ConstantsAssumption DEF ConstantsAssumption
<1>x. Text(Current) \in Seq(Chunk) /\ ToolCall(Current) \in Seq(Chunk)
  BY <1>c, TextIsSeq, ToolIsTool
<1>y. \A k \in {"delta", "tool", "final"} : Event(k, Current) \in EventType
  BY <1>c, EventRecord
<1>1. CASE TurnStarts
  <2>1. ChildTypes'
    BY <1>1, <1>t, <1>c DEF TurnStarts, ChildTypes, TurnType
  <2>2. ChanTypes'
    BY <1>1, <1>e DEF TurnStarts, ChanTypes
  <2>3. QED
    BY <1>1, <1>t, <2>1, <2>2 DEF TurnStarts, Types, Shape
<1>2. CASE Apply
  <2>1. ChildTypes'
    <3>1. turn' \in TurnType
      <4>1. turn' = [turn EXCEPT !.s = turn.s + 1, !.phase = "flushing"]
        BY <1>2 DEF Apply
      <4>2. turn \in TurnType /\ turn.s + 1 \in Nat
        BY <1>t, <1>c DEF ChildTypes
      <4>3. QED
        BY <4>1, <4>2 DEF TurnType
    <3>2. streaming' \in [block : Nat, seq : Nat]
      BY <1>2, <1>c DEF Apply
    <3>3. QED
      BY <1>2, <1>t, <3>1, <3>2 DEF Apply, ChildTypes
  <2>2. QED
    BY <1>2, <1>t, <2>1 DEF Apply, Types, ChanTypes, Shape
<1>3. CASE PublishDelta
  <2>1. ChildTypes'
    BY <1>3, <1>t, <1>c DEF PublishDelta, ChildTypes, TurnType
  <2>2. ChanTypes'
    BY <1>3, <1>t, <1>y, PublishIs DEF PublishDelta, ChanTypes
  <2>3. QED
    BY <1>3, <1>t, <2>1, <2>2 DEF PublishDelta, Types, Shape
<1>4. CASE NextBlock
  <2>1. done' \in Seq(Seq(Chunk))
    <3>1. Append(done, Text(Current)) \in Seq(Seq(Chunk))
      BY <1>t, <1>x DEF ChildTypes
    <3>2. <<Text(Current), ToolCall(Current)>> \in Seq(Seq(Chunk))
      BY <1>x
    <3>3. done \o <<Text(Current), ToolCall(Current)>> \in Seq(Seq(Chunk))
      BY <1>t, <3>2 DEF ChildTypes
    <3>4. QED
      BY <1>4, <3>1, <3>3 DEF NextBlock
  <2>2. ChildTypes'
    <3>1. turn' \in TurnType
      <4>1. turn' = [turn EXCEPT !.b = turn.b + 1, !.s = 0]
        BY <1>4 DEF NextBlock
      <4>2. turn \in TurnType /\ turn.b + 1 \in Nat
        BY <1>t, <1>c DEF ChildTypes
      <4>3. QED
        BY <4>1, <4>2 DEF TurnType
    <3>2. QED
      BY <1>4, <1>t, <2>1, <3>1 DEF NextBlock, ChildTypes
  <2>3. ChanTypes'
    BY <1>4, <1>t, <1>y, PublishIs DEF NextBlock, ChanTypes
  <2>4. QED
    BY <1>4, <1>t, <2>2, <2>3 DEF NextBlock, Types, Shape
<1>5. CASE TurnEnds
  <2>1. done' \in Seq(Seq(Chunk))
    BY <1>5, <1>t, <1>x DEF TurnEnds, ChildTypes
  <2>2. ChildTypes'
    BY <1>5, <1>t, <1>c, <2>1 DEF TurnEnds, ChildTypes, TurnType
  <2>3. ChanTypes'
    BY <1>5, <1>t, <1>y, PublishIs DEF TurnEnds, ChanTypes
  <2>4. QED
    BY <1>5, <1>t, <2>2, <2>3 DEF TurnEnds, Types, Shape
<1>6. CASE Clear
  <2>1. ChildTypes'
    BY <1>6, <1>t, <1>c DEF Clear, ChildTypes, TurnType
  <2>2. QED
    BY <1>6, <1>t, <2>1 DEF Clear, Types, ChanTypes, Shape
<1>7. CASE Log
  BY <1>7, <1>t DEF Log, Types, ChildTypes, ChanTypes, Shape
<1>8. CASE Attach \/ Resubscribe \/ Lagged
  <2>1. ChanTypes'
    BY <1>8, <1>t, <1>e DEF Attach, Resubscribe, Lagged, AfterLag, ChanTypes
  <2>2. ChildTypes' /\ Shape(store)'
    BY <1>8, <1>t DEF Attach, Resubscribe, Lagged, ChildTypes, Shape
  <2>3. QED
    BY <2>1, <2>2 DEF Types
<1>9. CASE Resync
  <2>1. Shape(store)'
    <3>1. Shape(Delivered(store, Snapshot))
      BY <1>c, <1>t, DeliveredType DEF Snapshot
    <3>2. QED
      BY <1>9, <1>t, <3>1 DEF Resync
  <2>2. QED
    BY <1>9, <1>t, <2>1 DEF Resync, Types, ChildTypes, ChanTypes
<1>10. CASE Forward
  <2>1. /\ Tail(chan) \in Seq(EventType) /\ Len(Tail(chan)) <= Capacity
        /\ Head(chan) \in EventType
    BY <1>10, <1>t, TailIs, ConstantsAssumption
       DEF Forward, ChanTypes, ConstantsAssumption
  <2>2. ChanTypes'
    BY <1>10, <1>t, <2>1 DEF Forward, ChanTypes
  <2>3. Shape(Delivered(store, Head(chan)))
    <3>1. PICK k \in {"delta", "tool", "final"}, c \in Chunk : Head(chan) = Event(k, c)
      BY <2>1 DEF EventType, Event
    <3>2. QED
      BY <1>t, <3>1, DeliveredType
  <2>4. QED
    BY <1>10, <1>t, <2>2, <2>3 DEF Forward, Types, ChildTypes
<1>11. CASE Transcript
  <2>1. ASSUME NEW l \in Loads, LoadAsks(l) \/ LoadReads(l)
        PROVE  UNCHANGED <<turn, streaming, done, logged, chan, lagged, fwd, store, watched>>
    BY <2>1 DEF LoadAsks, LoadReads
  <2>2. ASSUME NEW l \in Loads, LoadLands(l)
        PROVE  /\ Shape(store)'
               /\ UNCHANGED <<turn, streaming, done, logged, chan, lagged, fwd, watched>>
    BY <2>2, <1>t DEF LoadLands, Shape
  <2>3. CASE ReconcileAsks \/ ReconcileReads
    BY <2>3, <1>t DEF ReconcileAsks, ReconcileReads, Types, ChildTypes, ChanTypes, Shape
  <2>4. CASE ReconcileLands
    <3>1. Shape(store)'
      BY <2>4, <1>t DEF ReconcileLands, Shape
    <3>2. QED
      BY <2>4, <1>t, <3>1 DEF ReconcileLands, Types, ChildTypes, ChanTypes
  <2>5. CASE WatchStarts
    BY <2>5, <1>t DEF WatchStarts, Types, ChildTypes, ChanTypes, Shape
  <2>6. CASE Watch
    <3>1. Shape(store)'
      BY <2>6, <1>t, DeliverLineAcc DEF Watch
    <3>2. QED
      BY <2>6, <1>t, <3>1 DEF Watch, Types, ChildTypes, ChanTypes
  <2>7. CASE Forget
    <3>1. Shape(store)'
      BY <2>7, <1>t DEF Forget, Shape
    <3>2. QED
      BY <2>7, <1>t, <3>1 DEF Forget, Types, ChildTypes, ChanTypes
  <2>8. QED
    BY <1>11, <1>t, <2>1, <2>2, <2>3, <2>4, <2>5, <2>6, <2>7
       DEF Transcript, Types, ChildTypes, ChanTypes, Shape
<1>12. CASE UNCHANGED vars
  BY <1>12, <1>t DEF vars, Types, ChildTypes, ChanTypes, Shape
<1>13. QED
  BY <1>1, <1>2, <1>3, <1>4, <1>5, <1>6, <1>7, <1>8, <1>9, <1>10, <1>11, <1>12
     DEF Next, Child, Client

-----------------------------------------------------------------------------
(* The inductive invariant *)

Streaming == turn.phase \in {"text", "flushing"}

\* Chunks of the block in progress whose events have been published.
Said == IF turn.phase = "flushing" THEN turn.s - 1 ELSE turn.s

\* The daemon's text is the block in progress, or an earlier one of the turn
\* if none of that has been streamed.
BlockInv ==
    /\ Streaming =>
        /\ turn.b > 0 /\ (turn.phase = "flushing" => turn.s > 0)
        /\ turn.s > 0 => streaming.block = turn.b /\ streaming.seq = turn.s
        /\ turn.s = 0 => streaming.block < turn.b
        /\ (streaming.seq = 0) <=> (streaming.block = 0)
    /\ turn.phase = "over" => streaming.seq = 0

\* What is finished is of another block, and what is read of it has been
\* written.
DoneInv ==
    /\ \A i \in 1..Len(done) :
        /\ done[i] # <<>> /\ done[i][1][1] <= turn.t
        /\ Streaming /\ done[i][1][1] = turn.t => done[i][1][2] < turn.b
    /\ logged <= Len(done) /\ watched <= logged

\* An event of a block of the turn t before block b.
Older(e, t, b) ==
    e.k \in {"delta", "tool"} /\ e.c[1] = t /\ e.c[2] \in 1..(b - 1) /\ e.c[3] > 0

\* The channel q ends with the last n of the deltas of block b, of which there
\* are said, and before them has such events only: no delta of the block
\* between two others is missing.
Pending(q, n, t, b, said) ==
    /\ n \in 0..Len(q) /\ n <= said /\ (n < Len(q) => n = said)
    /\ \A i \in 1..Len(q) :
        IF i <= Len(q) - n THEN Older(q[i], t, b)
        ELSE q[i] = Event("delta", <<t, b, said - Len(q) + i>>)

\* How much of the block in progress the window has.
Reached == IF store.acc.block = turn.b THEN store.acc.seq ELSE 0

\* What is missing in the window is in the channel, unless the channel has
\* lost some and the window is to be sent the text as a whole.
ChanInv ==
    /\ fwd = "off" => chan = <<>> /\ ~lagged
    /\ Streaming => \E n \in Nat :
        /\ Pending(chan, n, turn.t, turn.b, Said)
        /\ fwd = "on" /\ ~lagged => Said - n <= Reached

\* The window's text is of this turn, and the block in progress from its
\* beginning.
AccInv ==
    Streaming /\ store.acc # None =>
        /\ fwd # "off" /\ store.acc.block \in 1..turn.b /\ store.acc.seq > 0
        /\ store.acc.text # <<>>
        /\ Last(store.acc.text) = <<turn.t, store.acc.block, store.acc.seq>>
        /\ store.acc.block = turn.b =>
              store.acc.text = Text(<<turn.t, turn.b, store.acc.seq>>)

\* When a turn has ended, the message that closes the window's text is still in
\* the channel, last of all, for as long as there is such a text or it may come.
EndInv ==
    ~Streaming =>
        /\ store.acc # None => chan # <<>>
        /\ turn.phase = "ending" /\ (fwd = "resync" \/ lagged) => chan # <<>>
        /\ chan # <<>> => chan[Len(chan)].k = "final" /\ chan[Len(chan)].c[3] > 0

StreamInv == Types /\ BlockInv /\ DoneInv /\ ChanInv /\ AccInv /\ EndInv

LEMMA StreamInit == Init => StreamInv
<1> SUFFICES ASSUME Init PROVE StreamInv
  OBVIOUS
<1>1. /\ turn.phase = "over" /\ streaming.seq = 0 /\ done = <<>>
      /\ logged = 0 /\ watched = -1
      /\ chan = <<>> /\ fwd = "off" /\ ~lagged
  BY DEF Init
<1>2. store.acc = None
  <2>1. store = [shown |-> <<>>, acc |-> None, recent |-> {}, loaded |-> FALSE]
    BY DEF Init
  <2>2. QED
    BY <2>1
<1>3. BlockInv /\ DoneInv
  BY <1>1 DEF BlockInv, DoneInv, Streaming
<1>4. ChanInv /\ AccInv /\ EndInv
  BY <1>1, <1>2 DEF ChanInv, AccInv, EndInv, Streaming
<1>5. QED
  BY <1>3, <1>4, TypesInit DEF StreamInv

LEMMA BlockStep == Types /\ BlockInv /\ [Next]_vars => BlockInv'
<1> SUFFICES ASSUME Types, BlockInv, [Next]_vars PROVE BlockInv'
  OBVIOUS
<1>c. /\ turn.t \in Nat /\ turn.b \in Nat /\ turn.s \in Nat
      /\ streaming.block \in Nat /\ streaming.seq \in Nat
  BY CurrentType
<1>t. turn \in TurnType /\ streaming \in [block : Nat, seq : Nat]
  BY DEF Types, ChildTypes
<1>1. CASE TurnStarts
  BY <1>1 DEF TurnStarts, BlockInv, Streaming
<1>2. CASE Apply
  <2>1. turn' = [turn EXCEPT !.s = turn.s + 1, !.phase = "flushing"] /\ turn.phase = "text"
    BY <1>2 DEF Apply
  <2>2. turn'.b = turn.b /\ turn'.s = turn.s + 1 /\ turn'.phase = "flushing"
    BY <1>t, <2>1 DEF TurnType
  <2>3. /\ streaming'.block = turn.b
        /\ streaming'.seq = IF streaming.block = turn.b THEN streaming.seq + 1 ELSE 1
    BY <1>2 DEF Apply
  <2>4. /\ turn.b > 0 /\ (turn.s > 0 => streaming.block = turn.b /\ streaming.seq = turn.s)
        /\ turn.s = 0 => streaming.block < turn.b
    BY <2>1 DEF BlockInv, Streaming
  <2>5. streaming'.seq = turn.s + 1
    BY <1>c, <2>3, <2>4
  <2>6. QED
    BY <1>c, <2>2, <2>3, <2>4, <2>5 DEF BlockInv, Streaming
<1>3. CASE PublishDelta
  <2>1. turn'.b = turn.b /\ turn'.s = turn.s /\ turn'.phase = "text"
        /\ turn.phase = "flushing" /\ streaming' = streaming
    BY <1>3, <1>t DEF PublishDelta, TurnType
  <2>2. QED
    BY <2>1 DEF BlockInv, Streaming
<1>4. CASE NextBlock
  <2>1. turn' = [turn EXCEPT !.b = turn.b + 1, !.s = 0]
        /\ turn.phase = "text" /\ turn.s > 0 /\ streaming' = streaming
    BY <1>4 DEF NextBlock
  <2>2. turn'.b = turn.b + 1 /\ turn'.s = 0 /\ turn'.phase = "text"
    BY <1>t, <2>1 DEF TurnType
  <2>3. QED
    BY <1>c, <2>1, <2>2 DEF BlockInv, Streaming
<1>5. CASE TurnEnds
  <2>1. turn'.phase = "ending"
    BY <1>5, <1>t DEF TurnEnds, TurnType
  <2>2. QED
    BY <2>1 DEF BlockInv, Streaming
<1>6. CASE Clear
  <2>1. turn'.phase = "over" /\ streaming'.seq = 0
    BY <1>6, <1>t DEF Clear, TurnType
  <2>2. QED
    BY <2>1 DEF BlockInv, Streaming
<1>7. CASE UNCHANGED <<turn, streaming>>
  BY <1>7 DEF BlockInv, Streaming
<1>8. Log \/ Client \/ Transcript \/ UNCHANGED vars => UNCHANGED <<turn, streaming>>
  BY DEF Log, Client, Attach, Resubscribe, Resync, Lagged, Forward, Transcript,
         LoadAsks, LoadReads, LoadLands, ReconcileAsks, ReconcileReads,
         ReconcileLands, WatchStarts, Watch, Forget, vars
<1>9. QED
  BY <1>1, <1>2, <1>3, <1>4, <1>5, <1>6, <1>7, <1>8 DEF Next, Child

LEMMA DoneStep == Types /\ BlockInv /\ DoneInv /\ [Next]_vars => DoneInv'
<1> SUFFICES ASSUME Types, BlockInv, DoneInv, [Next]_vars PROVE DoneInv'
  OBVIOUS
<1>c. /\ Current \in Chunk /\ Current = <<turn.t, turn.b, turn.s>>
      /\ turn.t \in Nat /\ turn.b \in Nat /\ turn.s \in Nat
  BY CurrentType
<1>t. /\ turn \in TurnType /\ done \in Seq(Seq(Chunk)) /\ Len(done) \in Nat
      /\ logged \in Nat /\ watched \in Int
  BY DEF Types, ChildTypes
<1>i. \A i \in 1..Len(done) : /\ done[i] \in Seq(Chunk) /\ done[i] # <<>>
                              /\ Len(done[i]) > 0 /\ done[i][1] \in Chunk
                              /\ done[i][1][1] \in Nat /\ done[i][1][2] \in Nat
                              /\ done[i][1][1] <= turn.t
  <2>1. ASSUME NEW i \in 1..Len(done)
        PROVE  done[i] \in Seq(Chunk) /\ done[i] # <<>> /\ done[i][1][1] <= turn.t
    BY <1>t DEF DoneInv
  <2>2. ASSUME NEW i \in 1..Len(done)
        PROVE  Len(done[i]) \in Nat \ {0}
    BY <2>1, EmptySeq
  <2>3. ASSUME NEW i \in 1..Len(done)
        PROVE  done[i][1] \in Chunk
    BY <2>1, <2>2
  <2>4. QED
    BY <2>1, <2>2, <2>3 DEF Chunk
<1>x. turn.s > 0 =>
        /\ Text(Current) # <<>> /\ Text(Current)[1] = <<turn.t, turn.b, 1>>
        /\ ToolCall(Current) # <<>> /\ ToolCall(Current)[1] = <<turn.t, turn.b, 0>>
  BY <1>c, TextIsSeq, ToolIsTool
<1>1. CASE TurnStarts
  <2>1. turn'.t = turn.t + 1 /\ UNCHANGED <<done, logged, watched>>
    BY <1>1 DEF TurnStarts
  <2>2. QED
    BY <1>c, <1>i, <2>1 DEF DoneInv
<1>2. CASE NextBlock \/ TurnEnds
  <2>1. /\ turn.phase = "text" /\ turn.s > 0 /\ turn'.t = turn.t
        /\ turn'.phase = "ending" \/ (turn'.b = turn.b + 1 /\ turn'.phase = "text")
        /\ UNCHANGED <<logged, watched>>
    BY <1>2, <1>t DEF NextBlock, TurnEnds, TurnType
  <2>2. logged <= Len(done) /\ watched <= logged
    BY DEF DoneInv
  <2>3. /\ Len(done') >= Len(done)
        /\ \A i \in 1..Len(done') :
              IF i <= Len(done) THEN done'[i] = done[i]
              ELSE done'[i] \in {Text(Current), ToolCall(Current)}
    <3>1. \/ done' = Append(done, Text(Current))
          \/ done' = done \o <<Text(Current), ToolCall(Current)>>
      BY <1>2 DEF NextBlock, TurnEnds
    <3>2. Text(Current) \in Seq(Chunk) /\ ToolCall(Current) \in Seq(Chunk)
      BY <1>c, TextIsSeq, ToolIsTool
    <3>3. CASE done' = Append(done, Text(Current))
      BY <1>t, <3>2, <3>3, AppendProperties
    <3>4. CASE done' = done \o <<Text(Current), ToolCall(Current)>>
      <4>1. PICK two : two = <<Text(Current), ToolCall(Current)>>
        OBVIOUS
      <4>2. /\ two \in Seq(Seq(Chunk)) /\ Len(two) = 2
            /\ two[1] = Text(Current) /\ two[2] = ToolCall(Current)
        BY <3>2, <4>1
      <4>3. /\ Len(done') = Len(done) + 2
            /\ \A i \in 1..Len(done') :
                  done'[i] = IF i <= Len(done) THEN done[i] ELSE two[i - Len(done)]
        BY <1>t, <3>4, <4>1, <4>2, ConcatProperties
      <4>4. \A i \in 1..Len(done') : i <= Len(done) \/ i - Len(done) \in {1, 2}
        BY <1>t, <4>3
      <4>5. QED
        BY <1>t, <4>2, <4>3, <4>4
    <3>5. QED
      BY <3>1, <3>3, <3>4
  <2>4. ASSUME NEW i \in 1..Len(done')
        PROVE  /\ done'[i] # <<>> /\ done'[i][1][1] <= turn'.t
               /\ Streaming' /\ done'[i][1][1] = turn'.t => done'[i][1][2] < turn'.b
    <3>1. CASE i <= Len(done)
      <4>1. i \in 1..Len(done) /\ done'[i] = done[i]
        BY <1>t, <2>3, <3>1
      <4>2. Streaming
        BY <2>1 DEF Streaming
      <4>3. done[i][1][1] = turn.t => done[i][1][2] < turn.b
        BY <4>1, <4>2 DEF DoneInv
      <4>4. QED
        BY <1>c, <1>i, <2>1, <4>1, <4>3 DEF Streaming
    <3>2. CASE ~(i <= Len(done))
      <4>1. /\ done'[i] # <<>> /\ done'[i][1][1] = turn.t /\ done'[i][1][2] = turn.b
        BY <1>x, <2>1, <2>3, <3>2
      <4>2. QED
        BY <1>c, <2>1, <4>1 DEF Streaming
    <3>3. QED
      BY <3>1, <3>2
  <2>5. Len(done') \in Nat
    BY <1>t, <1>2, TypesStep, LenProperties DEF Types, ChildTypes
  <2>6. QED
    BY <1>t, <2>1, <2>2, <2>3, <2>4, <2>5 DEF DoneInv
<1>3. CASE Apply \/ PublishDelta \/ Clear
  <2>1. /\ turn'.t = turn.t /\ turn'.b = turn.b /\ UNCHANGED <<done, logged, watched>>
        /\ Streaming' => Streaming
    BY <1>3, <1>t DEF Apply, PublishDelta, Clear, TurnType, Streaming
  <2>2. QED
    BY <2>1 DEF DoneInv
<1>4. CASE Log
  BY <1>4, <1>t DEF Log, DoneInv, Streaming
<1>5. CASE WatchStarts \/ Watch
  BY <1>5, <1>t DEF WatchStarts, Watch, DoneInv, Streaming
<1>6. CASE UNCHANGED <<turn, done, logged, watched>>
  BY <1>6 DEF DoneInv, Streaming
<1>7. \/ Client \/ ReconcileAsks \/ ReconcileReads \/ ReconcileLands \/ Forget
      \/ \E l \in Loads : LoadAsks(l) \/ LoadReads(l) \/ LoadLands(l)
      \/ UNCHANGED vars
      => UNCHANGED <<turn, done, logged, watched>>
  BY DEF Client, Attach, Resubscribe, Resync, Lagged, Forward, LoadAsks, LoadReads,
         LoadLands, ReconcileAsks, ReconcileReads, ReconcileLands, Forget, vars
<1>8. QED
  BY <1>1, <1>2, <1>3, <1>4, <1>5, <1>6, <1>7 DEF Next, Child, Transcript

-----------------------------------------------------------------------------
(* How the channel's events come and go *)

LEMMA PendingEmpty ==
    ASSUME NEW t \in Nat, NEW b \in Nat, NEW said \in Nat
    PROVE  Pending(<<>>, 0, t, b, said)
  BY DEF Pending

\* The next delta of the block is published.
LEMMA PendingAppend ==
    ASSUME NEW q \in Seq(EventType), NEW n, NEW t \in Nat, NEW b \in Nat,
           NEW said \in Nat, Pending(q, n, t, b, said),
           <<t, b, said + 1>> \in Chunk
    PROVE  Pending(Append(q, Event("delta", <<t, b, said + 1>>)), n + 1, t, b, said + 1)
<1> DEFINE e == Event("delta", <<t, b, said + 1>>)
<1>1. PICK r : r = Append(q, e)
  OBVIOUS
<1>2. Len(q) \in Nat /\ n \in 0..Len(q) /\ n <= said /\ (n < Len(q) => n = said)
  BY DEF Pending
<1>3. e \in EventType
  BY EventRecord
<1>4. /\ Len(r) = Len(q) + 1 /\ r[Len(q) + 1] = e
      /\ \A i \in 1..Len(q) : r[i] = q[i]
  BY <1>1, <1>3, AppendProperties
<1>5. ASSUME NEW i \in 1..Len(r)
      PROVE  IF i <= Len(r) - (n + 1) THEN Older(r[i], t, b)
             ELSE r[i] = Event("delta", <<t, b, said + 1 - Len(r) + i>>)
  <2>1. CASE i = Len(q) + 1
    <3>1. said + 1 - Len(r) + i = said + 1 /\ ~(i <= Len(r) - (n + 1))
      BY <1>2, <1>4, <2>1
    <3>2. QED
      BY <1>4, <2>1, <3>1
  <2>2. CASE i # Len(q) + 1
    <3>1. i \in 1..Len(q)
      BY <1>2, <1>4, <2>2
    <3>a. r[i] = q[i]
      BY <1>4, <3>1
    <3>b. /\ said + 1 - Len(r) + i = said - Len(q) + i
          /\ Len(r) - (n + 1) = Len(q) - n
      <4>1. PICK k \in Nat : k = Len(q)
        BY <1>2
      <4>2. Len(r) = k + 1 /\ n \in Int /\ i \in Int
        BY <1>2, <1>4, <3>1, <4>1
      <4>3. QED
        BY <4>1, <4>2
    <3>2. IF i <= Len(q) - n THEN Older(q[i], t, b)
          ELSE q[i] = Event("delta", <<t, b, said - Len(q) + i>>)
      BY <3>1 DEF Pending
    <3>3. QED
      BY <3>a, <3>b, <3>2
  <2>3. QED
    BY <2>1, <2>2
<1>6. n + 1 \in 0..Len(r) /\ n + 1 <= said + 1 /\ (n + 1 < Len(r) => n + 1 = said + 1)
  BY <1>2, <1>4
<1>7. QED
  BY <1>1, <1>5, <1>6 DEF Pending

\* The first event leaves.
LEMMA PendingTail ==
    ASSUME NEW q \in Seq(EventType), q # <<>>, NEW n, NEW t \in Nat, NEW b \in Nat,
           NEW said \in Nat, Pending(q, n, t, b, said)
    PROVE  Pending(Tail(q), IF n = Len(q) THEN n - 1 ELSE n, t, b, said)
<1>1. PICK r : r = Tail(q)
  OBVIOUS
<1>m. PICK m : m = IF n = Len(q) THEN n - 1 ELSE n
  OBVIOUS
<1>2. Len(q) \in Nat /\ n \in 0..Len(q) /\ n <= said /\ (n < Len(q) => n = said)
  BY DEF Pending
<1>3. /\ Len(q) > 0 /\ Len(r) = Len(q) - 1
      /\ \A i \in 1..(Len(q) - 1) : r[i] = q[i + 1]
  BY <1>1, TailIs
<1>l. PICK k \in Nat : k = Len(r) /\ Len(q) = k + 1
  BY <1>2, <1>3
<1>n. /\ n \in Int /\ n = k + 1 => m = k
      /\ n # k + 1 => m = n /\ n <= k /\ n = said
  BY <1>m, <1>l, <1>2
<1>4. ASSUME NEW i \in 1..Len(r)
      PROVE  IF i <= Len(r) - m THEN Older(r[i], t, b)
             ELSE r[i] = Event("delta", <<t, b, said - Len(r) + i>>)
  <2>1. /\ i + 1 \in 1..Len(q) /\ r[i] = q[i + 1]
        /\ said - Len(r) + i = said - Len(q) + (i + 1)
    BY <1>2, <1>3
  <2>2. (i <= Len(r) - m) <=> (i + 1 <= Len(q) - n)
    <3>1. i \in Int /\ i >= 1 /\ i <= k
      BY <1>l
    <3>2. QED
      BY <1>l, <1>n, <3>1
  <2>3. IF i + 1 <= Len(q) - n THEN Older(q[i + 1], t, b)
        ELSE q[i + 1] = Event("delta", <<t, b, said - Len(q) + (i + 1)>>)
    BY <2>1 DEF Pending
  <2>4. QED
    BY <2>1, <2>2, <2>3
<1>5. m \in 0..Len(r) /\ m <= said /\ (m < Len(r) => m = said)
  BY <1>2, <1>l, <1>n
<1>6. Pending(r, m, t, b, said)
  BY <1>4, <1>5 DEF Pending
<1>7. QED
  BY <1>1, <1>m, <1>6

\* With the next block every event is of an earlier one.
LEMMA PendingNext ==
    ASSUME NEW q \in Seq(EventType), NEW n, NEW t \in Nat, NEW b \in Nat \ {0},
           NEW said \in Nat, Pending(q, n, t, b, said)
    PROVE  Pending(q, 0, t, b + 1, 0)
<1>1. Len(q) \in Nat /\ n \in 0..Len(q) /\ n <= said
  BY DEF Pending
<1>2. ASSUME NEW i \in 1..Len(q)
      PROVE  Older(q[i], t, b + 1)
  <2>1. CASE i <= Len(q) - n
    <3>1. Older(q[i], t, b)
      BY <2>1 DEF Pending
    <3>2. QED
      BY <3>1 DEF Older
  <2>2. CASE ~(i <= Len(q) - n)
    <3>1. q[i] = Event("delta", <<t, b, said - Len(q) + i>>)
      BY <2>2 DEF Pending
    <3>2. said - Len(q) + i \in Nat \ {0}
      BY <1>1, <2>2
    <3>3. <<t, b, said - Len(q) + i>> \in Chunk
      BY <3>2 DEF Chunk
    <3>4. q[i].k = "delta" /\ q[i].c = <<t, b, said - Len(q) + i>>
      BY <3>1, <3>3, EventRecord
    <3>5. QED
      BY <3>2, <3>4 DEF Older
  <2>3. QED
    BY <2>1, <2>2
<1>3. QED
  BY <1>1, <1>2 DEF Pending

LEMMA PendingOlder ==
    ASSUME NEW q \in Seq(EventType), NEW e \in EventType, NEW t \in Nat, NEW b \in Nat,
           Pending(q, 0, t, b, 0), Older(e, t, b)
    PROVE  Pending(Append(q, e), 0, t, b, 0)
<1>1. PICK r : r = Append(q, e)
  OBVIOUS
<1>2. Len(q) \in Nat /\ \A i \in 1..Len(q) : Older(q[i], t, b)
  BY DEF Pending
<1>3. /\ Len(r) = Len(q) + 1 /\ r[Len(q) + 1] = e
      /\ \A i \in 1..Len(q) : r[i] = q[i]
  BY <1>1, AppendProperties
<1>4. \A i \in 1..Len(r) : Older(r[i], t, b)
  BY <1>2, <1>3
<1>5. QED
  BY <1>1, <1>2, <1>3, <1>4 DEF Pending

-----------------------------------------------------------------------------
(* Steps of the child *)

\* What the steps need of the types.
Parts ==
    /\ turn \in TurnType /\ ChanTypes /\ chan \in Seq(EventType) /\ Shape(store)
    /\ turn.t \in Nat /\ turn.b \in Nat /\ turn.s \in Nat
    /\ streaming.block \in Nat /\ streaming.seq \in Nat
    /\ Current \in Chunk /\ Current = <<turn.t, turn.b, turn.s>>
    /\ store.acc.block \in Nat /\ store.acc.seq \in Nat
    /\ store.acc.text \in Seq(Chunk)
    /\ Reached \in Nat /\ (store.acc = None => store.acc.block = 0)
    /\ Streaming => turn.b > 0 /\ Said \in Nat

LEMMA StreamParts == StreamInv => Parts
<1> SUFFICES ASSUME StreamInv PROVE Parts
  OBVIOUS
<1>1. Types /\ BlockInv
  BY DEF StreamInv
<1>2. /\ turn.t \in Nat /\ turn.b \in Nat /\ turn.s \in Nat
      /\ streaming.block \in Nat /\ streaming.seq \in Nat
      /\ Current \in Chunk /\ Current = <<turn.t, turn.b, turn.s>>
      /\ store.acc.block \in Nat /\ store.acc.seq \in Nat
      /\ store.acc.text \in Seq(Chunk)
  BY <1>1, CurrentType
<1>3. turn \in TurnType /\ ChanTypes /\ chan \in Seq(EventType) /\ Shape(store)
  BY <1>1 DEF Types, ChildTypes, ChanTypes
<1>4. Reached \in Nat /\ (store.acc = None => store.acc.block = 0)
  BY <1>2 DEF Reached, None
<1>5. Streaming => turn.b > 0 /\ Said \in Nat
  BY <1>1, <1>2 DEF BlockInv, Streaming, Said
<1>6. QED
  BY <1>2, <1>3, <1>4, <1>5 DEF Parts

LEMMA TurnStartsStep ==
    ASSUME Orderly, Parts, EndInv, TurnStarts
    PROVE  ChanInv' /\ AccInv' /\ EndInv'
<1>1. /\ turn.phase = "over" /\ chan = <<>> /\ chan' = <<>> /\ fwd' = "off"
      /\ ~lagged' /\ store' = store
      /\ turn' = [t |-> turn.t + 1, b |-> 1, s |-> 0, phase |-> "text"]
  BY DEF Orderly, TurnStarts
<1>2. turn'.phase = "text" /\ turn'.s = 0 /\ turn'.b = 1 /\ turn'.t = turn.t + 1
  BY <1>1
<1>3. store.acc = None
  BY <1>1 DEF EndInv, Streaming
<1>4. Said' = 0
  BY <1>2 DEF Said
<1>5. Pending(chan', 0, turn'.t, turn'.b, Said')
  <2>1. turn'.t \in Nat /\ turn'.b \in Nat
    BY <1>2 DEF Parts
  <2>2. QED
    BY <1>1, <1>4, <2>1, PendingEmpty
<1>6. ChanInv'
  BY <1>1, <1>5 DEF ChanInv
<1>7. QED
  BY <1>1, <1>2, <1>3, <1>6 DEF AccInv, EndInv, Streaming

LEMMA ApplyStep ==
    ASSUME Parts, ChanInv, AccInv, Apply
    PROVE  ChanInv' /\ AccInv' /\ EndInv'
<1>1. /\ turn' = [turn EXCEPT !.s = turn.s + 1, !.phase = "flushing"]
      /\ turn.phase = "text" /\ UNCHANGED <<chan, lagged, fwd, store>>
  BY DEF Apply
<1>2. turn'.t = turn.t /\ turn'.b = turn.b /\ turn'.s = turn.s + 1
      /\ turn'.phase = "flushing"
  BY <1>1 DEF Parts, TurnType
<1>3. Streaming /\ Streaming' /\ Said' = Said /\ Reached' = Reached
  BY <1>1, <1>2 DEF Parts, Streaming, Said, Reached
<1>4. QED
  BY <1>1, <1>2, <1>3 DEF ChanInv, AccInv, EndInv

LEMMA PublishDeltaStep ==
    ASSUME Parts, ChanInv, AccInv, PublishDelta
    PROVE  ChanInv' /\ AccInv' /\ EndInv'
<1>1. turn.phase = "flushing" /\ turn' = [turn EXCEPT !.phase = "text"]
      /\ Publish(Event("delta", Current)) /\ fwd' = fwd /\ store' = store
  BY DEF PublishDelta
<1>2. turn'.phase = "text" /\ turn'.t = turn.t /\ turn'.b = turn.b /\ turn'.s = turn.s
  BY <1>1 DEF Parts, TurnType
<1>3. Streaming /\ Streaming' /\ Said' = Said + 1 /\ Said' = turn.s /\ Said \in Nat
  BY <1>1, <1>2 DEF Streaming, Said, Parts
<1>4. Reached' = Reached /\ AccInv' /\ EndInv'
  BY <1>1, <1>2, <1>3 DEF AccInv, EndInv, Streaming, Reached
<1>5. Event("delta", Current) \in EventType /\ Current = <<turn.t, turn.b, Said + 1>>
      /\ <<turn.t, turn.b, Said + 1>> \in Chunk
  BY <1>3, EventRecord DEF Parts
<1>6. /\ chan \in Seq(EventType) /\ ChanTypes /\ turn.t \in Nat /\ turn.b \in Nat
      /\ fwd = "off" => ~lagged
  BY DEF Parts, ChanInv
<1>7. PICK n \in Nat : /\ Pending(chan, n, turn.t, turn.b, Said)
                       /\ fwd = "on" /\ ~lagged => Said - n <= Reached
  BY <1>3 DEF ChanInv
<1>8. CASE fwd = "off" /\ chan' = <<>> /\ lagged' = lagged
  <2>1. Pending(chan', 0, turn'.t, turn'.b, Said')
    BY <1>2, <1>3, <1>6, <1>8, PendingEmpty
  <2>2. QED
    BY <1>1, <1>4, <1>6, <1>8, <2>1 DEF ChanInv
<1>9. CASE fwd # "off" /\ chan' = Append(chan, Event("delta", Current)) /\ lagged' = lagged
  <2>1. Pending(chan', n + 1, turn'.t, turn'.b, Said')
    BY <1>2, <1>3, <1>5, <1>6, <1>7, <1>9, PendingAppend
  <2>2. Said' - (n + 1) = Said - n
    BY <1>3
  <2>3. QED
    BY <1>1, <1>4, <1>7, <1>9, <2>1, <2>2 DEF ChanInv
<1>10. CASE fwd # "off" /\ chan # <<>> /\ lagged'
            /\ chan' = Append(Tail(chan), Event("delta", Current))
  <2>1. PICK m : m = IF n = Len(chan) THEN n - 1 ELSE n
    OBVIOUS
  <2>2. Pending(Tail(chan), m, turn.t, turn.b, Said) /\ Tail(chan) \in Seq(EventType)
    BY <1>3, <1>6, <1>7, <1>10, <2>1, PendingTail, TailIs
  <2>3. Pending(chan', m + 1, turn'.t, turn'.b, Said')
    BY <1>2, <1>3, <1>5, <1>6, <1>10, <2>2, PendingAppend
  <2>4. m + 1 \in Nat
    BY <2>2 DEF Pending
  <2>5. QED
    BY <1>1, <1>4, <1>10, <2>3, <2>4 DEF ChanInv
<1>11. QED
  BY <1>1, <1>5, <1>6, <1>8, <1>9, <1>10, PublishIs

LEMMA NextBlockStep ==
    ASSUME Parts, ChanInv, AccInv, NextBlock
    PROVE  ChanInv' /\ AccInv' /\ EndInv'
<1>1. /\ turn.phase = "text" /\ turn.s > 0 /\ fwd' = fwd /\ store' = store
      /\ turn' = [turn EXCEPT !.b = turn.b + 1, !.s = 0]
      /\ UNCHANGED <<chan, lagged>> \/ Publish(Event("tool", Current))
  BY DEF NextBlock
<1>2. turn'.phase = "text" /\ turn'.t = turn.t /\ turn'.b = turn.b + 1 /\ turn'.s = 0
  BY <1>1 DEF Parts, TurnType
<1>3. /\ Streaming /\ Streaming' /\ Said' = 0 /\ Said \in Nat
      /\ turn.t \in Nat /\ turn.b \in Nat \ {0} /\ turn.s \in Nat
  BY <1>1, <1>2 DEF Streaming, Said, Parts
<1>4. AccInv'
  <2>1. store.acc # None => store.acc.block # turn.b + 1
    BY <1>3 DEF AccInv, Parts
  <2>2. QED
    BY <1>1, <1>2, <1>3, <2>1 DEF AccInv, Parts
<1>5. EndInv' /\ Reached' \in Nat
  BY <1>1, <1>2, <1>3 DEF EndInv, Reached, Parts
<1>6. /\ chan \in Seq(EventType) /\ ChanTypes
      /\ fwd = "off" => chan = <<>> /\ ~lagged
  BY DEF Parts, ChanInv
<1>7. PICK n \in Nat : Pending(chan, n, turn.t, turn.b, Said)
  BY <1>3 DEF ChanInv
<1>8. Pending(chan, 0, turn.t, turn.b + 1, 0)
  BY <1>3, <1>6, <1>7, PendingNext
<1>9. ASSUME Pending(chan', 0, turn.t, turn.b + 1, 0),
             fwd = "off" => chan' = <<>> /\ ~lagged'
      PROVE  ChanInv'
  BY <1>1, <1>2, <1>3, <1>5, <1>9 DEF ChanInv
<1>10. CASE UNCHANGED <<chan, lagged>>
  BY <1>4, <1>5, <1>6, <1>8, <1>9, <1>10
<1>11. CASE Publish(Event("tool", Current))
  <2>1. Event("tool", Current) \in EventType /\ Older(Event("tool", Current), turn.t, turn.b + 1)
    BY <1>1, <1>3, EventRecord DEF Parts, Older
  <2>2. CASE fwd = "off" /\ chan' = <<>> /\ lagged' = lagged
    <3>1. Pending(chan', 0, turn.t, turn.b + 1, 0)
      BY <1>3, <2>2, PendingEmpty
    <3>2. QED
      BY <1>4, <1>5, <1>6, <1>9, <2>2, <3>1
  <2>3. CASE fwd # "off" /\ chan' = Append(chan, Event("tool", Current))
    <3>1. Pending(chan', 0, turn.t, turn.b + 1, 0)
      BY <1>3, <1>6, <1>8, <2>1, <2>3, PendingOlder
    <3>2. QED
      BY <1>4, <1>5, <1>9, <2>3, <3>1
  <2>4. CASE fwd # "off" /\ chan # <<>> /\ chan' = Append(Tail(chan), Event("tool", Current))
    <3>1. Len(chan) # 0 /\ Tail(chan) \in Seq(EventType)
      BY <1>6, <2>4, TailIs
    <3>a. turn.b + 1 \in Nat /\ (IF 0 = Len(chan) THEN 0 - 1 ELSE 0) = 0
      BY <1>3, <3>1
    <3>2. Pending(Tail(chan), 0, turn.t, turn.b + 1, 0)
      <4>1. Pending(Tail(chan), IF 0 = Len(chan) THEN 0 - 1 ELSE 0, turn.t, turn.b + 1, 0)
        BY <1>3, <1>6, <1>8, <2>4, <3>a, PendingTail
      <4>2. QED
        BY <3>a, <4>1
    <3>3. Pending(chan', 0, turn.t, turn.b + 1, 0)
      BY <1>3, <2>1, <2>4, <3>1, <3>a, <3>2, PendingOlder
    <3>4. QED
      BY <1>4, <1>5, <1>9, <2>4, <3>3
  <2>5. QED
    BY <1>6, <1>11, <2>1, <2>2, <2>3, <2>4, PublishIs
<1>12. QED
  BY <1>1, <1>10, <1>11

LEMMA TurnEndsStep ==
    ASSUME Parts, ChanInv, AccInv, TurnEnds
    PROVE  ChanInv' /\ AccInv' /\ EndInv'
<1>1. /\ turn.phase = "text" /\ turn.s > 0 /\ fwd' = fwd /\ store' = store
      /\ turn' = [turn EXCEPT !.phase = "ending"]
      /\ Publish(Event("final", Current))
  BY DEF TurnEnds
<1>2. turn'.phase = "ending" /\ Streaming /\ ~Streaming'
  BY <1>1 DEF Parts, TurnType, Streaming
<1>3. /\ Event("final", Current) \in EventType /\ Event("final", Current).k = "final"
      /\ Event("final", Current).c[3] > 0
  BY <1>1, EventRecord DEF Parts
<1>4. ChanTypes /\ chan \in Seq(EventType) /\ (fwd = "off" => ~lagged)
  BY DEF Parts, ChanInv
<1>5. CASE fwd = "off" /\ chan' = <<>> /\ lagged' = lagged
  <2>1. store.acc = None
    BY <1>2, <1>5 DEF AccInv
  <2>2. QED
    BY <1>1, <1>2, <1>4, <1>5, <2>1 DEF ChanInv, AccInv, EndInv
<1>6. CASE fwd # "off" /\ \E q \in Seq(EventType) : chan' = Append(q, Event("final", Current))
  <2>1. chan' # <<>> /\ chan'[Len(chan')] = Event("final", Current)
    BY <1>3, <1>6, AppendProperties
  <2>2. QED
    BY <1>1, <1>2, <1>3, <1>6, <2>1 DEF ChanInv, AccInv, EndInv
<1>7. chan # <<>> => Tail(chan) \in Seq(EventType)
  BY <1>4, TailIs
<1>8. QED
  BY <1>1, <1>3, <1>4, <1>5, <1>6, <1>7, PublishIs

LEMMA ClearStep ==
    ASSUME Parts, ChanInv, EndInv, Clear
    PROVE  ChanInv' /\ AccInv' /\ EndInv'
<1>1. /\ turn.phase = "ending" /\ turn' = [turn EXCEPT !.phase = "over"]
      /\ UNCHANGED <<chan, lagged, fwd, store>>
  BY DEF Clear
<1>2. turn'.phase = "over" /\ ~Streaming /\ ~Streaming'
  BY <1>1 DEF Parts, TurnType, Streaming
<1>3. QED
  BY <1>1, <1>2 DEF ChanInv, AccInv, EndInv

-----------------------------------------------------------------------------
(* Steps of the client *)

LEMMA AttachStep ==
    ASSUME Orderly, Parts, BlockInv, ChanInv, AccInv, EndInv, Attach \/ Resubscribe
    PROVE  ChanInv' /\ AccInv' /\ EndInv'
<1>1. /\ fwd = "off" /\ turn.phase # "ending" /\ chan' = <<>> /\ ~lagged'
      /\ UNCHANGED <<turn, store>>
      /\ \/ fwd' = "resync"
         \/ fwd' = "on" /\ turn.phase = "text" /\ streaming.seq = 0
  BY DEF Orderly, Attach, MayAttach, Resubscribe
<1>2. store.acc = None
  BY <1>1 DEF ChanInv, AccInv, EndInv
<1>3. Streaming' = Streaming /\ Said' = Said /\ Reached' = Reached
  BY <1>1 DEF Streaming, Said, Reached
<1>4. ASSUME Streaming
      PROVE  /\ Pending(chan', 0, turn'.t, turn'.b, Said')
             /\ fwd' = "on" => Said' - 0 <= Reached'
  <2>1. Said \in Nat /\ turn.t \in Nat /\ turn.b \in Nat /\ Reached \in Nat
    BY <1>4 DEF Parts
  <2>2. Pending(chan', 0, turn'.t, turn'.b, Said')
    BY <1>1, <1>3, <2>1, PendingEmpty
  <2>3. fwd' = "on" => Said = 0
    BY <1>1, <1>4 DEF BlockInv, Said, Parts
  <2>4. QED
    BY <1>3, <2>1, <2>2, <2>3
<1>5. ChanInv'
  BY <1>1, <1>3, <1>4 DEF ChanInv
<1>6. QED
  BY <1>1, <1>2, <1>3, <1>5 DEF AccInv, EndInv

LEMMA LaggedStep ==
    ASSUME Parts, ChanInv, AccInv, EndInv, Lagged
    PROVE  ChanInv' /\ AccInv' /\ EndInv'
<1>1. /\ fwd = "on" /\ lagged /\ fwd' = "resync" /\ ~lagged'
      /\ UNCHANGED <<turn, chan, store>>
  BY DEF Lagged, AfterLag
<1>2. Streaming' = Streaming /\ Said' = Said /\ Reached' = Reached
  BY <1>1 DEF Streaming, Said, Reached
<1>3. QED
  BY <1>1, <1>2 DEF ChanInv, AccInv, EndInv

\* What a text must be to satisfy AccInv.
AccIs(acc) ==
    /\ acc.block \in 1..turn.b /\ acc.seq > 0 /\ acc.text # <<>>
    /\ Last(acc.text) = <<turn.t, acc.block, acc.seq>>
    /\ acc.block = turn.b => acc.text = Text(<<turn.t, turn.b, acc.seq>>)

LEMMA ResyncStep ==
    ASSUME Parts, BlockInv, ChanInv, AccInv, EndInv, Resync
    PROVE  ChanInv' /\ AccInv' /\ EndInv'
<1> DEFINE c == <<turn.t, streaming.block, streaming.seq>>
<1>1. /\ fwd = "resync" /\ fwd' = "on" /\ UNCHANGED <<turn, chan, lagged>>
      /\ store' = IF streaming.seq = 0 THEN store ELSE Delivered(store, Snapshot)
  BY DEF Resync
<1>2. Streaming' = Streaming /\ Said' = Said
  BY <1>1 DEF Streaming, Said
<1>3. /\ turn.t \in Nat /\ turn.b \in Nat /\ turn.s \in Nat /\ Reached \in Nat
      /\ store.acc.block \in Nat /\ store.acc.seq \in Nat /\ Shape(store)
  BY DEF Parts
<1>4. CASE ~Streaming
  <2>1. turn.phase \in {"over", "ending"}
    BY <1>4 DEF Parts, TurnType, Streaming
  <2>2. turn.phase = "over" => store' = store
    BY <1>1 DEF BlockInv
  <2>3. QED
    BY <1>1, <1>2, <1>4, <2>1, <2>2 DEF ChanInv, AccInv, EndInv
<1>5. CASE Streaming /\ streaming.seq = 0
  <2>1. Said = 0 /\ store' = store
    BY <1>1, <1>3, <1>5 DEF BlockInv, Said
  <2>2. PICK n \in Nat : Pending(chan, n, turn.t, turn.b, Said)
    BY <1>5 DEF ChanInv
  <2>3. Reached' = Reached /\ Said - n <= Reached
    BY <1>1, <1>3, <2>1 DEF Reached
  <2>4. ChanInv'
    BY <1>1, <1>2, <2>2, <2>3 DEF ChanInv
  <2>5. QED
    BY <1>1, <1>2, <1>5, <2>1, <2>4 DEF AccInv, EndInv
<1>6. CASE Streaming /\ streaming.seq # 0
  <2>1. /\ streaming.seq \in Nat \ {0} /\ streaming.block \in 1..turn.b
        /\ turn.s > 0 => streaming.block = turn.b /\ streaming.seq = turn.s
        /\ Said \in Nat /\ Said <= turn.s
    <3>1. streaming.block \in Nat /\ streaming.seq \in Nat
      BY DEF BlockInv, Parts
    <3>2. QED
      BY <1>3, <1>6, <3>1 DEF BlockInv, Said, Parts
  <2>2. c \in Chunk /\ c[2] = streaming.block /\ c[3] = streaming.seq
    BY <1>3, <2>1 DEF Chunk
  <2>3. store' = ApplySnapshot(store, c)
    BY <1>1, <1>3, <1>6, <2>2, DeliveredType DEF Snapshot
  <2>4. AccIs(store'.acc) /\ (turn.s > 0 => Reached' >= turn.s) /\ Reached' \in Nat
    <3>1. CASE Covered(store, c)
      <4>1. store' = store
        BY <1>3, <2>2, <2>3, <3>1, SnapshotAcc
      <4>2. store.acc.block = streaming.block /\ streaming.seq <= store.acc.seq
        BY <2>2, <3>1 DEF Covered
      <4>3. store.acc # None
        BY <2>1, <4>2 DEF Parts
      <4>4. AccIs(store.acc)
        BY <1>6, <4>3 DEF AccInv, AccIs
      <4>5. turn.s > 0 => Reached >= turn.s
        BY <1>3, <2>1, <4>2 DEF Reached
      <4>6. Reached' = Reached
        BY <1>1, <4>1 DEF Reached
      <4>7. QED
        BY <1>3, <4>1, <4>4, <4>5, <4>6
    <3>2. CASE ~Covered(store, c)
      <4>1. /\ store'.acc.block = streaming.block /\ store'.acc.seq = streaming.seq
            /\ store'.acc.text = Text(c)
        BY <1>3, <2>2, <2>3, <3>2, SnapshotAcc DEF Rebuilt
      <4>2. Text(c) # <<>> /\ Last(Text(c)) = c
        BY <2>1, <2>2, TextIsSeq
      <4>3. Reached' = IF streaming.block = turn.b THEN streaming.seq ELSE 0
        BY <1>1, <4>1 DEF Reached
      <4>4. AccIs(store'.acc)
        BY <2>1, <4>1, <4>2 DEF AccIs
      <4>5. QED
        BY <1>3, <2>1, <4>3, <4>4 DEF Parts
    <3>3. QED
      BY <3>1, <3>2
  <2>5. PICK n \in Nat : Pending(chan, n, turn.t, turn.b, Said)
    BY <1>6 DEF ChanInv
  <2>6. Said - n <= Reached'
    BY <1>3, <2>1, <2>4
  <2>7. ChanInv'
    BY <1>1, <1>2, <2>5, <2>6 DEF ChanInv
  <2>8. QED
    BY <1>1, <1>2, <1>6, <2>4, <2>7 DEF AccInv, EndInv, AccIs
<1>7. QED
  BY <1>4, <1>5, <1>6

LEMMA ForwardStep ==
    ASSUME Parts, ChanInv, AccInv, EndInv, Forward
    PROVE  ChanInv' /\ AccInv' /\ EndInv'
<1>1. /\ fwd = "on" /\ ~lagged /\ chan # <<>> /\ UNCHANGED <<turn, fwd, lagged>>
      /\ chan' = Tail(chan) /\ store' = Delivered(store, Head(chan))
  BY DEF Forward
<1>2. Streaming' = Streaming /\ Said' = Said
  BY <1>1 DEF Streaming, Said
<1>3. /\ turn.t \in Nat /\ turn.b \in Nat /\ turn.s \in Nat /\ Reached \in Nat
      /\ store.acc.block \in Nat /\ store.acc.seq \in Nat
      /\ store.acc.text \in Seq(Chunk) /\ Shape(store) /\ chan \in Seq(EventType)
  BY DEF Parts
<1>4. Len(chan) \in Nat /\ Len(chan) > 0
  BY <1>1, <1>3, TailIs
<1>h. Head(chan) \in EventType /\ Head(chan) = chan[1]
  BY <1>1, <1>3, TailIs
<1>q. /\ chan' \in Seq(EventType) /\ Len(chan') = Len(chan) - 1
      /\ \A i \in 1..(Len(chan) - 1) : chan'[i] = chan[i + 1]
  BY <1>1, <1>3, TailIs
<1>5. PICK k \in {"delta", "tool", "final"}, c \in Chunk : Head(chan) = Event(k, c)
  BY <1>h DEF EventType, Event
<1>6. /\ Head(chan).k = k /\ Head(chan).c = c
      /\ c[1] \in Nat /\ c[2] \in Nat /\ c[3] \in Nat
  BY <1>5, EventRecord DEF Chunk
<1>c. c = <<c[1], c[2], c[3]>>
  BY DEF Chunk
<1>7. /\ k = "delta" => store' = ApplyDelta(store, c)
      /\ k = "tool" => store'.acc = store.acc
      /\ k = "final" /\ c[3] > 0 => store'.acc = None
  <2>1. store' = Delivered(store, Event(k, c))
    BY <1>1, <1>5
  <2>2. Shape(store)
    BY <1>3
  <2>3. /\ k = "delta" => Delivered(store, Event(k, c)) = ApplyDelta(store, c)
        /\ k = "tool" => Delivered(store, Event(k, c)).acc = store.acc
        /\ k = "final" /\ c[3] > 0 => Delivered(store, Event(k, c)).acc = None
    <3>1. k \in {"delta", "tool", "final", "snap"}
      OBVIOUS
    <3>2. QED
      BY <2>2, <3>1, DeliveredType, Zenon
  <2>4. QED
    BY <2>1, <2>3
<1>8. CASE ~Streaming
  <2>1. CASE Len(chan) = 1
    <3>1. k = "final" /\ c[3] > 0
      BY <1>1, <1>h, <1>6, <1>8, <2>1 DEF EndInv
    <3>2. store'.acc = None /\ chan' = <<>>
      <4>1. Len(chan') = 0 /\ chan' \in Seq(EventType)
        BY <1>q, <2>1
      <4>2. chan' = <<>>
        BY <4>1, EmptySeq
      <4>3. QED
        BY <1>7, <3>1, <4>2
    <3>3. QED
      BY <1>1, <1>2, <1>8, <3>2 DEF ChanInv, AccInv, EndInv
  <2>2. CASE Len(chan) # 1
    <3>1. chan'[Len(chan')] = chan[Len(chan)] /\ chan' # <<>>
      <4>a. \A len \in Nat : len > 0 /\ len # 1 =>
               len - 1 \in Nat /\ len - 1 > 0 /\ (len - 1) + 1 = len
        OBVIOUS
      <4>1. PICK m \in Nat : m = Len(chan) - 1 /\ m > 0 /\ m + 1 = Len(chan)
        BY <1>4, <2>2, <4>a
      <4>2. Len(chan') = m /\ m \in 1..(Len(chan) - 1)
        BY <1>q, <4>1
      <4>3. chan'[m] = chan[m + 1]
        BY <1>q, <4>2
      <4>4. QED
        BY <4>1, <4>2, <4>3
    <3>2. QED
      BY <1>1, <1>2, <1>8, <3>1 DEF ChanInv, AccInv, EndInv
  <2>3. QED
    BY <2>1, <2>2
<1>9. CASE Streaming
  <2>1. PICK n \in Nat : Pending(chan, n, turn.t, turn.b, Said) /\ Said - n <= Reached
    BY <1>1, <1>9 DEF ChanInv
  <2>2. Said \in Nat /\ turn.b > 0 /\ n \in 0..Len(chan) /\ n <= Said
        /\ (n < Len(chan) => n = Said)
    BY <1>9, <2>1 DEF Parts, Pending
  <2>3. Pending(chan', IF n = Len(chan) THEN n - 1 ELSE n, turn.t, turn.b, Said)
    BY <1>1, <1>3, <2>1, <2>2, PendingTail
  <2>a. store.acc # None => AccIs(store.acc)
    BY <1>9 DEF AccInv, AccIs
  <2>b. ASSUME store'.acc # None => AccIs(store'.acc)
        PROVE  AccInv' /\ EndInv'
    BY <1>1, <1>2, <1>9, <2>b DEF AccInv, AccIs, EndInv
  <2>4. CASE n < Len(chan)
    <3>1. Older(Head(chan), turn.t, turn.b)
      <4>1. 1 \in 1..Len(chan) /\ 1 <= Len(chan) - n
        BY <1>4, <2>2, <2>4
      <4>2. QED
        BY <1>h, <2>1, <4>1 DEF Pending
    <3>2. k \in {"delta", "tool"} /\ c[1] = turn.t /\ c[2] \in 1..(turn.b - 1) /\ c[3] > 0
      BY <1>6, <3>1 DEF Older
    <3>3. store'.acc # None => AccIs(store'.acc)
      <4>1. CASE store'.acc = store.acc
        BY <2>a, <4>1
      <4>2. CASE Rebuilt(store', c[2], c[3], <<c>>)
        <5>1. <<c>> # <<>> /\ Last(<<c>>) = c
          BY DEF Last
        <5>2. QED
          BY <1>3, <1>c, <3>2, <4>2, <5>1 DEF Rebuilt, AccIs
      <4>3. CASE Rebuilt(store', c[2], c[3], Append(store.acc.text, c))
        <5>1. Append(store.acc.text, c) # <<>> /\ Last(Append(store.acc.text, c)) = c
          <6>1. /\ Append(store.acc.text, c) \in Seq(Chunk)
                /\ Len(Append(store.acc.text, c)) = Len(store.acc.text) + 1
                /\ Append(store.acc.text, c)[Len(store.acc.text) + 1] = c
            BY <1>3, AppendProperties
          <6>2. Len(store.acc.text) \in Nat
            BY <1>3
          <6>3. QED
            BY <6>1, <6>2 DEF Last
        <5>2. QED
          BY <1>3, <1>c, <3>2, <4>3, <5>1 DEF Rebuilt, AccIs
      <4>4. QED
        BY <1>3, <1>7, <3>2, <4>1, <4>2, <4>3, DeltaAcc
    <3>4. Reached' \in Nat
      <4>1. store'.acc.block \in Nat /\ store'.acc.seq \in Nat
        BY <1>1, <1>3, <1>5, DeliveredType DEF Shape, AccType
      <4>2. QED
        BY <4>1 DEF Reached
    <3>5. n # Len(chan) /\ Said - n <= Reached'
      BY <2>2, <2>4, <3>4
    <3>6. Pending(chan', n, turn.t, turn.b, Said)
      BY <2>3, <3>5
    <3>7. ChanInv'
      BY <1>1, <1>2, <2>2, <3>5, <3>6 DEF ChanInv
    <3>8. QED
      BY <2>b, <3>3, <3>7
  <2>5. CASE n = Len(chan)
    <3>1. Head(chan) = Event("delta", <<turn.t, turn.b, Said - n + 1>>)
      <4>1. 1 \in 1..Len(chan) /\ ~(1 <= Len(chan) - n)
            /\ Said - Len(chan) + 1 = Said - n + 1
        <5>1. n \in Int /\ Said \in Int /\ Len(chan) = n /\ n > 0
          BY <1>4, <2>2, <2>5
        <5>2. QED
          BY <5>1
      <4>2. QED
        BY <1>h, <2>1, <4>1 DEF Pending
    <3>2. Said - n + 1 \in Nat \ {0} /\ <<turn.t, turn.b, Said - n + 1>> \in Chunk
      BY <1>3, <2>2 DEF Chunk
    <3>3. k = "delta" /\ c = <<turn.t, turn.b, Said - n + 1>>
      BY <1>6, <3>1, <3>2, EventRecord
    <3>4. c[1] = turn.t /\ c[2] = turn.b /\ c[3] = Said - n + 1 /\ c[3] <= Reached + 1
      BY <1>3, <2>1, <2>2, <3>3
    <3>5. (store'.acc # None => AccIs(store'.acc)) /\ Reached' >= c[3]
      <4>1. CASE /\ store.acc = None \/ c[2] # store.acc.block \/ c[3] = 1
                 /\ Rebuilt(store', c[2], c[3], <<c>>)
        <5>1. Reached = 0 \/ c[3] = 1
          BY <2>2, <3>4, <4>1 DEF Reached, Parts
        <5>2. c[3] = 1
          BY <3>2, <3>4, <5>1
        <5>3. <<c>> # <<>> /\ Last(<<c>>) = c /\ Text(c) = <<c>>
          <6>1. Text(c) \in Seq(Chunk) /\ Len(Text(c)) = 1 /\ Text(c)[1] = c
            <7>1. c[3] > 0 /\ c = <<c[1], c[2], 1>>
              BY <1>c, <5>2
            <7>2. QED
              BY <5>2, <7>1, TextIsSeq
          <6>2. <<c>> \in Seq(Chunk) /\ Len(<<c>>) = 1 /\ <<c>>[1] = c
            OBVIOUS
          <6>3. Text(c) = <<c>>
            BY <6>1, <6>2, SeqEqual
          <6>4. QED
            BY <6>2, <6>3 DEF Last
        <5>4. /\ store'.acc.block = turn.b /\ store'.acc.seq = 1 /\ store'.acc.text = <<c>>
              /\ c = <<turn.t, turn.b, 1>>
          BY <1>c, <3>4, <4>1, <5>2 DEF Rebuilt
        <5>5. Reached' = 1
          BY <1>1, <5>4 DEF Reached
        <5>6. AccIs(store'.acc)
          BY <1>3, <2>2, <5>3, <5>4 DEF AccIs
        <5>7. QED
          BY <5>2, <5>5, <5>6
      <4>2. CASE /\ store.acc # None /\ c[2] = store.acc.block /\ c[3] <= store.acc.seq
                 /\ store' = store
        BY <1>1, <2>a, <3>4, <4>2 DEF Reached
      <4>3. CASE /\ store.acc # None /\ c[2] = store.acc.block /\ c[3] > store.acc.seq
                 /\ Rebuilt(store', c[2], c[3], Append(store.acc.text, c))
        <5>1. Reached = store.acc.seq /\ c[3] = store.acc.seq + 1 /\ store.acc.seq > 0
          BY <1>3, <2>2, <2>a, <3>4, <4>3 DEF Reached, AccIs
        <5>2. store.acc.text = Text(<<turn.t, turn.b, store.acc.seq>>)
          BY <2>a, <3>4, <4>3 DEF AccIs
        <5>3. Append(store.acc.text, c) = Text(c)
          <6>1. <<turn.t, turn.b, store.acc.seq>> \in Chunk
            BY <1>3 DEF Chunk
          <6>2. /\ Len(store.acc.text) = store.acc.seq
                /\ \A i \in 1..store.acc.seq : store.acc.text[i] = <<turn.t, turn.b, i>>
            BY <5>2, <6>1, TextIsSeq
          <6>3. /\ Append(store.acc.text, c) \in Seq(Chunk)
                /\ Len(Append(store.acc.text, c)) = store.acc.seq + 1
                /\ Append(store.acc.text, c)[store.acc.seq + 1] = c
                /\ \A i \in 1..store.acc.seq :
                      Append(store.acc.text, c)[i] = <<turn.t, turn.b, i>>
            BY <1>3, <6>2, AppendProperties
          <6>4. /\ Text(c) \in Seq(Chunk) /\ Len(Text(c)) = store.acc.seq + 1
                /\ \A i \in 1..(store.acc.seq + 1) : Text(c)[i] = <<turn.t, turn.b, i>>
            BY <3>4, <5>1, TextIsSeq
          <6>5. \A i \in 1..(store.acc.seq + 1) :
                   Append(store.acc.text, c)[i] = Text(c)[i]
            <7>1. c = <<turn.t, turn.b, store.acc.seq + 1>>
              BY <3>3, <3>4, <5>1
            <7>2. \A i \in 1..(store.acc.seq + 1) : i \in 1..store.acc.seq \/ i = store.acc.seq + 1
              BY <1>3
            <7>3. QED
              BY <6>3, <6>4, <7>1, <7>2
          <6>6. QED
            BY <6>3, <6>4, <6>5, SeqEqual
        <5>4. Text(c) # <<>> /\ Last(Text(c)) = c
          BY <3>2, <3>4, TextIsSeq
        <5>5. /\ store'.acc.block = turn.b /\ store'.acc.seq = c[3] /\ store'.acc.text = Text(c)
              /\ c = <<turn.t, turn.b, c[3]>> /\ c[3] > 0
          BY <1>c, <3>2, <3>4, <4>3, <5>3 DEF Rebuilt
        <5>6. Reached' = c[3]
          BY <1>1, <5>5 DEF Reached
        <5>7. AccIs(store'.acc)
          <6>1. store'.acc.block \in 1..turn.b /\ store'.acc.seq > 0
            BY <1>3, <2>2, <5>5
          <6>2. /\ store'.acc.text # <<>>
                /\ Last(store'.acc.text) = <<turn.t, store'.acc.block, store'.acc.seq>>
            BY <5>4, <5>5
          <6>3. store'.acc.text = Text(<<turn.t, turn.b, store'.acc.seq>>)
            BY <5>5
          <6>4. QED
            BY <6>1, <6>2, <6>3 DEF AccIs
        <5>8. QED
          BY <1>6, <5>6, <5>7
      <4>4. QED
        BY <1>3, <1>7, <3>3, <4>1, <4>2, <4>3, DeltaAcc
    <3>6. n - 1 \in Nat /\ Said - (n - 1) <= Reached'
      <4>1. Reached' \in Nat
        <5>1. store'.acc.block \in Nat /\ store'.acc.seq \in Nat
          BY <1>1, <1>3, <1>5, DeliveredType DEF Shape, AccType
        <5>2. QED
          BY <5>1 DEF Reached
      <4>2. Reached' >= Said - n + 1
        BY <3>4, <3>5
      <4>3. n \in Nat /\ n > 0 /\ Said \in Nat
        BY <1>4, <2>2, <2>5
      <4>4. QED
        BY <4>1, <4>2, <4>3
    <3>7. Pending(chan', n - 1, turn.t, turn.b, Said)
      BY <2>3, <2>5
    <3>8. ChanInv'
      BY <1>1, <1>2, <3>6, <3>7 DEF ChanInv
    <3>9. QED
      BY <2>b, <3>5, <3>8
  <2>6. n < Len(chan) \/ n = Len(chan)
    BY <1>4, <2>2
  <2>7. QED
    BY <2>4, <2>5, <2>6
<1>10. QED
  BY <1>8, <1>9

-----------------------------------------------------------------------------
(* Steps that leave the stream, and the theorem *)

\* A block that is finished is not the one in progress, so what the watcher
\* closes is none of the block in progress.
LEMMA WatchStep ==
    ASSUME Orderly, Types, Parts, DoneInv, ChanInv, AccInv, EndInv, Watch
    PROVE  ChanInv' /\ AccInv' /\ EndInv'
<1> DEFINE text == done[watched + 1]
<1>1. /\ UNCHANGED <<turn, chan, lagged, fwd>>
      /\ watched >= 0 /\ watched < logged /\ InTime(text)
      /\ store' = DeliverLine(store, text)
  BY DEF Watch
<1>2. /\ watched + 1 \in 1..Len(done) /\ text \in Seq(Chunk) /\ text # <<>>
      /\ Streaming /\ text[1][1] = turn.t => text[1][2] < turn.b
  <2>1. /\ watched \in Int /\ logged \in Nat /\ Len(done) \in Nat
        /\ done \in Seq(Seq(Chunk)) /\ logged <= Len(done)
    BY DEF Types, ChildTypes, DoneInv
  <2>2. watched + 1 \in 1..Len(done)
    BY <1>1, <2>1
  <2>3. QED
    BY <2>1, <2>2 DEF DoneInv
<1>3. Streaming' = Streaming /\ Said' = Said
  BY <1>1 DEF Streaming, Said
<1>4. CASE store'.acc = store.acc
  <2>1. Reached' = Reached
    BY <1>1, <1>4 DEF Reached
  <2>2. QED
    BY <1>1, <1>3, <1>4, <2>1 DEF ChanInv, AccInv, EndInv
<1>5. CASE store'.acc # store.acc
  <2>1. store'.acc = None
    BY <1>1, DeliverLineAcc DEF Parts
  <2>2. store.acc # None
    BY <1>5, <2>1
  <2>3. SameBlock(text[1], Head(store.acc.text))
    BY <1>1, <1>2, <2>2 DEF Orderly, InTime
  <2>4. Streaming => Reached = 0 /\ Reached' = 0
    <3>1. SUFFICES ASSUME Streaming PROVE Reached = 0 /\ Reached' = 0
      OBVIOUS
    <3>2. turn.b > 0 /\ turn.b \in Nat /\ turn.t \in Nat
      BY <3>1 DEF Parts
    <3>3. Reached' = 0
      BY <1>1, <2>1, <3>2 DEF Reached, None
    <3>4. ASSUME store.acc.block = turn.b PROVE FALSE
      <4>1. /\ store.acc.text = Text(<<turn.t, turn.b, store.acc.seq>>)
            /\ store.acc.seq > 0 /\ store.acc.text # <<>>
        BY <2>2, <3>1, <3>4 DEF AccInv
      <4>2. store.acc.text[1] = <<turn.t, turn.b, 1>>
        <5>1. <<turn.t, turn.b, store.acc.seq>> \in Chunk
          BY <3>2 DEF Chunk, Parts
        <5>2. QED
          BY <4>1, <5>1, TextIsSeq
      <4>3. Head(store.acc.text) = <<turn.t, turn.b, 1>>
        BY <4>1, <4>2
      <4>4. text[1][1] = turn.t /\ text[1][2] = turn.b
        BY <2>3, <4>3 DEF SameBlock
      <4>5. QED
        BY <1>2, <3>1, <3>2, <4>4
    <3>5. QED
      BY <3>3, <3>4 DEF Reached
  <2>5. QED
    BY <1>1, <1>3, <2>1, <2>2, <2>4 DEF ChanInv, AccInv, EndInv
<1>6. QED
  BY <1>4, <1>5

\* Pages, the transcript file and forgetting leave the text as it is.
LEMMA OtherStep ==
    ASSUME ChanInv, AccInv, EndInv, store'.acc = store.acc,
           UNCHANGED <<turn, chan, lagged, fwd>>
    PROVE  ChanInv' /\ AccInv' /\ EndInv'
<1>1. Streaming' = Streaming /\ Said' = Said /\ Reached' = Reached
  BY DEF Streaming, Said, Reached
<1>2. QED
  BY <1>1 DEF ChanInv, AccInv, EndInv

LEMMA StreamStep ==
    ASSUME Orderly
    PROVE  StreamInv /\ [Next]_vars => StreamInv'
<1> SUFFICES ASSUME StreamInv, [Next]_vars PROVE StreamInv'
  OBVIOUS
<1>1. Types /\ BlockInv /\ DoneInv /\ ChanInv /\ AccInv /\ EndInv /\ Parts
  BY StreamParts DEF StreamInv
<1>2. Types' /\ BlockInv' /\ DoneInv'
  BY <1>1, TypesStep, BlockStep, DoneStep
<1>3. ChanInv' /\ AccInv' /\ EndInv'
  <2>1. CASE Child
    <3>1. CASE TurnStarts
      BY <1>1, <3>1, TurnStartsStep
    <3>2. CASE Apply
      BY <1>1, <3>2, ApplyStep
    <3>3. CASE PublishDelta
      BY <1>1, <3>3, PublishDeltaStep
    <3>4. CASE NextBlock
      BY <1>1, <3>4, NextBlockStep
    <3>5. CASE TurnEnds
      BY <1>1, <3>5, TurnEndsStep
    <3>6. CASE Clear
      BY <1>1, <3>6, ClearStep
    <3>7. CASE Log
      BY <1>1, <3>7, OtherStep DEF Log
    <3>8. QED
      BY <2>1, <3>1, <3>2, <3>3, <3>4, <3>5, <3>6, <3>7 DEF Child
  <2>2. CASE Client
    <3>1. CASE Attach \/ Resubscribe
      BY <1>1, <3>1, AttachStep
    <3>2. CASE Resync
      BY <1>1, <3>2, ResyncStep
    <3>3. CASE Lagged
      BY <1>1, <3>3, LaggedStep
    <3>4. CASE Forward
      BY <1>1, <3>4, ForwardStep
    <3>5. QED
      BY <2>2, <3>1, <3>2, <3>3, <3>4 DEF Client
  <2>3. CASE Transcript
    <3>1. CASE Watch
      BY <1>1, <3>1, WatchStep
    <3>2. CASE Transcript /\ ~Watch
      <4>1. UNCHANGED <<turn, chan, lagged, fwd>>
        BY <3>2 DEF Transcript, LoadAsks, LoadReads, LoadLands, ReconcileAsks,
                    ReconcileReads, ReconcileLands, WatchStarts, Forget
      <4>2. store'.acc = store.acc
        <5>1. \/ store' = store
              \/ \E shown : store' = [store EXCEPT !.shown = shown, !.loaded = TRUE]
              \/ \E shown, recent : store' = [store EXCEPT !.shown = shown, !.recent = recent]
              \/ store' = [store EXCEPT !.recent = {}]
          BY <3>2 DEF Transcript, LoadAsks, LoadReads, LoadLands, ReconcileAsks,
                      ReconcileReads, ReconcileLands, WatchStarts, Forget
        <5>2. QED
          BY <1>1, <5>1 DEF Parts, Shape
      <4>3. QED
        BY <1>1, <4>1, <4>2, OtherStep
    <3>3. QED
      BY <2>3, <3>1, <3>2
  <2>4. CASE UNCHANGED vars
    BY <1>1, <2>4, OtherStep DEF vars
  <2>5. QED
    BY <2>1, <2>2, <2>3, <2>4 DEF Next
<1>4. QED
  BY <1>2, <1>3 DEF StreamInv

\* The text a window rebuilds from the deltas of the block in progress is that
\* block from its beginning, with no chunk missing or repeated, whatever its
\* receiver loses (event-store.ts: applyDelta; session.rs: StreamingText;
\* methods/lifecycle.rs: attach_session), unless the client attaches anew while
\* the old channel's events are under way, a phone takes a new channel in the
\* middle of a block, or the watcher brings an old block during the next one.
THEOREM WholeText == ASSUME Orderly PROVE Spec => []TextIsWhole
<1>1. Init => StreamInv
  BY StreamInit
<1>2. StreamInv /\ [Next]_vars => StreamInv'
  BY StreamStep
<1>3. StreamInv => TextIsWhole
  <2>1. SUFFICES ASSUME StreamInv, turn.phase \in {"text", "flushing"},
                        store.acc # None, Last(store.acc.text)[2] = turn.b
                 PROVE  store.acc.text = Text(<<turn.t, turn.b, store.acc.seq>>)
    BY DEF TextIsWhole
  <2>2. AccInv /\ Streaming
    BY <2>1 DEF StreamInv, Streaming
  <2>3. Last(store.acc.text) = <<turn.t, store.acc.block, store.acc.seq>>
    BY <2>1, <2>2 DEF AccInv
  <2>4. store.acc.block = turn.b
    BY <2>1, <2>3
  <2>5. QED
    BY <2>1, <2>2, <2>4 DEF AccInv
<1>4. QED
  BY <1>1, <1>2, <1>3, PTL DEF Spec

-----------------------------------------------------------------------------
(* No message twice, where no ten seconds pass between two copies of one   *)
(* event and a chat is loaded once, between turns.  A client may attach as *)
(* it likes and the watcher be as late as it likes.                        *)

OnTime == Env \cap {"lateLive", "busyLoads"} = {}

LoadedOnce == \A l, m \in Loads : l = m

EntryType == [text : Seq(Chunk), partial : BOOLEAN, src : {"live", "page"} \cup Loads]

LEMMA FunctionIsSeq ==
    ASSUME NEW S, NEW n \in Nat, NEW f \in [1..n -> S]
    PROVE  f \in Seq(S) /\ Len(f) = n
<1>1. f \in Seq(S)
  BY SeqDef
<1>2. PICK l \in Nat : l = Len(f) /\ DOMAIN f = 1..l
  BY <1>1, LenProperties
<1>3. 1..l = 1..n
  BY <1>2
<1>4. (n > 0 => n \in 1..l) /\ (l > 0 => l \in 1..n)
  BY <1>3
<1>5. QED
  BY <1>1, <1>2, <1>4

LEMMA ConcatIs ==
    ASSUME NEW S, NEW s \in Seq(S), NEW t \in Seq(S)
    PROVE  /\ s \o t \in Seq(S)
           /\ \A i \in 1..Len(s \o t) :
                 \/ i \in 1..Len(s) /\ (s \o t)[i] = s[i]
                 \/ \E n \in 1..Len(t) : i = Len(s) + n /\ (s \o t)[i] = t[n]
<1>1. /\ s \o t \in Seq(S) /\ Len(s \o t) = Len(s) + Len(t)
      /\ \A i \in 1..(Len(s) + Len(t)) :
            (s \o t)[i] = IF i <= Len(s) THEN s[i] ELSE t[i - Len(s)]
  BY ConcatProperties
<1>2. PICK l \in Nat, m \in Nat : l = Len(s) /\ m = Len(t)
  BY LenProperties
<1>3. ASSUME NEW i \in 1..(l + m), ~(i <= l)
      PROVE  i - l \in 1..m /\ i = l + (i - l)
  BY <1>3
<1>4. QED
  BY <1>1, <1>2, <1>3

\* What is picked out of a sequence is of it, and each element at most once.
LEMMA FilteredIs ==
    ASSUME NEW S, NEW s \in Seq(S), NEW P \in SUBSET (1..Len(s)), NEW r \in Filtered(s, P)
    PROVE  /\ r \in Seq(S) /\ (P = {} => r = <<>>)
           /\ \E f \in [1..Len(r) -> P] :
                 /\ \A n \in 1..Len(r) : r[n] = s[f[n]]
                 /\ \A m, n \in 1..Len(r) : m < n => f[m] < f[n]
<1>1. PICK f \in [1..Cardinality(P) -> P] :
         /\ \A m, n \in DOMAIN f : m < n => f[m] < f[n]
         /\ r = [n \in DOMAIN f |-> s[f[n]]]
  BY DEF Filtered
<1>2. Len(s) \in Nat
  OBVIOUS
<1>3. IsFiniteSet(P)
  <2>1. 1 \in Int /\ Len(s) \in Int
    BY <1>2
  <2>2. IsFiniteSet(1..Len(s))
    BY <2>1, FS_Interval
  <2>3. QED
    BY <2>2, FS_Subset
<1>4. PICK c \in Nat : c = Cardinality(P)
  BY <1>3, FS_CardinalityType
<1>5. DOMAIN f = 1..c /\ \A n \in 1..c : f[n] \in P
  BY <1>1, <1>4
<1>6. r \in [1..c -> S]
  <2>1. \A i \in P : s[i] \in S
    BY <1>2
  <2>2. QED
    BY <1>1, <1>5, <2>1
<1>7. r \in Seq(S) /\ Len(r) = c
  BY <1>6, FunctionIsSeq
<1>8. P = {} => r = <<>>
  <2>1. P = {} => c = 0
    BY <1>4, FS_EmptySet
  <2>2. QED
    BY <1>7, <2>1, EmptySeq
<1>9. /\ \A n \in 1..Len(r) : r[n] = s[f[n]]
      /\ \A m, n \in 1..Len(r) : m < n => f[m] < f[n]
  BY <1>1, <1>5, <1>7
<1>10. f \in [1..Len(r) -> P]
  BY <1>1, <1>4, <1>7
<1>11. QED
  BY <1>7, <1>8, <1>9, <1>10

LEMMA FilteredOf ==
    ASSUME NEW S, NEW s \in Seq(S), NEW P \in SUBSET (1..Len(s)), NEW r \in Filtered(s, P)
    PROVE  \A n \in 1..Len(r) : \E i \in P : r[n] = s[i]
<1>1. PICK f \in [1..Len(r) -> P] : \A n \in 1..Len(r) : r[n] = s[f[n]]
  BY FilteredIs
<1>2. QED
  BY <1>1

LEMMA FilteredOnce ==
    ASSUME NEW S, NEW s \in Seq(S), NEW P \in SUBSET (1..Len(s)), NEW r \in Filtered(s, P),
           \A i, j \in P : s[i] = s[j] => i = j,
           NEW m \in 1..Len(r), NEW n \in 1..Len(r), r[m] = r[n]
    PROVE  m = n
<1>1. PICK f \in [1..Len(r) -> P] :
        /\ \A k \in 1..Len(r) : r[k] = s[f[k]]
        /\ \A k, l \in 1..Len(r) : k < l => f[k] < f[l]
  BY FilteredIs
<1>a. f[m] \in P /\ f[n] \in P
  OBVIOUS
<1>b. s[f[m]] = s[f[n]]
  BY <1>1
<1>2. f[m] = f[n] /\ f[m] \in P /\ f[n] \in P
  BY <1>a, <1>b
<1>3. f[m] \in Int /\ m \in Int /\ n \in Int
  <2>1. r \in Seq(S)
    BY FilteredIs
  <2>2. Len(r) \in Nat /\ Len(s) \in Nat
    BY <2>1, LenProperties
  <2>3. f[m] \in 1..Len(s)
    BY <1>2
  <2>4. QED
    BY <2>2, <2>3
<1>4. ~(m < n) /\ ~(n < m)
  BY <1>1, <1>2, <1>3
<1>5. QED
  BY <1>3, <1>4

-----------------------------------------------------------------------------
(* What the operators of the store do to what it shows *)

Book(st) == Shape(st) /\ st.shown \in Seq(EntryType)

FullAt(st, i, x) == st.shown[i].text = x /\ ~st.shown[i].partial

Full(st, x) == \E i \in 1..Len(st.shown) : FullAt(st, i, x)

OnceEach(st) ==
    \A i, j \in 1..Len(st.shown) :
        /\ st.shown[i].text = st.shown[j].text
        /\ ~st.shown[i].partial /\ ~st.shown[j].partial
        => i = j

\* Of the texts X some may be new; those are noted as told.
Tells(new, old, X) ==
    /\ Book(new) /\ OnceEach(new) /\ new.loaded = old.loaded
    /\ \A x \in old.recent : x \in new.recent
    /\ \A x : Full(new, x) => Full(old, x) \/ (x \in X /\ x \in new.recent)

LEMMA TellsNothing ==
    ASSUME NEW st, Book(st), OnceEach(st), NEW X
    PROVE  Tells(st, st, X)
  BY DEF Tells

LEMMA ToldTells ==
    ASSUME NEW st, Book(st), OnceEach(st), NEW text \in Seq(Chunk),
           Full(st, text) => text \in st.recent, NEW X, text \in X
    PROVE  Tells(Told(st, text, "live"), st, X)
<1> DEFINE e   == Entry(text, FALSE, "live")
           new == [st EXCEPT !.shown = Append(st.shown, e), !.recent = st.recent \cup {text}]
<1>1. CASE text \in st.recent
  <2>1. Told(st, text, "live") = st
    BY <1>1 DEF Told, IsNew
  <2>2. QED
    BY <2>1, TellsNothing
<1>2. CASE text \notin st.recent
  <2>1. Told(st, text, "live") = new
    BY <1>2 DEF Told, IsNew
  <2>2. e \in EntryType /\ e.text = text /\ ~e.partial
    BY DEF Entry, EntryType
  <2> HIDE DEF e
  <2>3. st.shown \in Seq(EntryType) /\ Len(st.shown) \in Nat
    BY DEF Book
  <2>4. /\ Append(st.shown, e) \in Seq(EntryType)
        /\ Len(Append(st.shown, e)) = Len(st.shown) + 1
        /\ \A i \in 1..Len(st.shown) : Append(st.shown, e)[i] = st.shown[i]
        /\ Append(st.shown, e)[Len(st.shown) + 1] = e
    BY <2>2, <2>3, AppendProperties
  <2>5. /\ new.shown = Append(st.shown, e) /\ new.recent = st.recent \cup {text}
        /\ new.loaded = st.loaded /\ new.acc = st.acc /\ DOMAIN new = DOMAIN st
    BY DEF Book, Shape
  <2> HIDE DEF new
  <2>6. Book(new)
    BY <2>4, <2>5 DEF Book, Shape
  <2>7. \A i \in 1..Len(new.shown) : i \in 1..Len(st.shown) \/ i = Len(st.shown) + 1
    BY <2>3, <2>4, <2>5
  <2>8. \A i \in 1..Len(st.shown) : ~FullAt(st, i, text)
    BY <1>2 DEF Full
  <2>9. OnceEach(new)
    BY <2>2, <2>4, <2>5, <2>7, <2>8 DEF OnceEach, FullAt
  <2>10. ASSUME NEW x, NEW i \in 1..Len(new.shown), FullAt(new, i, x)
         PROVE  Full(st, x) \/ x = text
    BY <2>2, <2>4, <2>5, <2>7, <2>10 DEF Full, FullAt
  <2>11. QED
    BY <2>1, <2>5, <2>6, <2>9, <2>10 DEF Tells, Full
<1>3. QED
  BY <1>1, <1>2

LEMMA ItemTells ==
    ASSUME NEW st, Book(st), OnceEach(st), NEW text \in Seq(Chunk),
           Full(st, text) => text \in st.recent, NEW X, text \in X
    PROVE  Tells(DeliverItem(st, text), st, X)
<1>1. None \in AccType
  BY DEF None, AccType
<1>2. /\ Closed(st).shown = st.shown /\ Closed(st).loaded = st.loaded
      /\ \A x \in st.recent : x \in Closed(st).recent
      /\ Closed(st).acc = None /\ DOMAIN Closed(st) = DOMAIN st
  BY DEF Closed, Book, Shape
<1>3. Book(Closed(st)) /\ OnceEach(Closed(st))
  BY <1>1, <1>2 DEF Book, Shape, OnceEach
<1>4. \A x : Full(Closed(st), x) <=> Full(st, x)
  BY <1>2 DEF Full, FullAt
<1>5. Tells(Told(Closed(st), text, "live"), Closed(st), X)
  BY <1>2, <1>3, <1>4, ToldTells
<1>6. Tells(Told(Closed(st), text, "live"), st, X)
  BY <1>2, <1>4, <1>5 DEF Tells
<1>7. Tells(Told(st, text, "live"), st, X)
  BY ToldTells
<1>8. QED
  BY <1>6, <1>7 DEF DeliverItem

LEMMA LineTells ==
    ASSUME NEW st, Book(st), OnceEach(st), NEW text \in Seq(Chunk),
           Full(st, text) => text \in st.recent, NEW X, text \in X
    PROVE  Tells(DeliverLine(st, text), st, X)
<1> DEFINE item == DeliverItem(st, text)
           new  == Closed(item)
<1>1. Tells(item, st, X)
  BY ItemTells
<1>2. Book(item) /\ OnceEach(item)
  BY <1>1 DEF Tells
<1> HIDE DEF item
<1>3. None \in AccType
  BY DEF None, AccType
<1>4. /\ new.shown = item.shown /\ new.loaded = item.loaded
      /\ \A x \in item.recent : x \in new.recent
      /\ new.acc = None /\ DOMAIN new = DOMAIN item
  BY <1>2 DEF Closed, Book, Shape
<1> HIDE DEF new
<1>5. Book(new) /\ OnceEach(new)
  BY <1>2, <1>3, <1>4 DEF Book, Shape, OnceEach, FullAt
<1>6. \A x : Full(new, x) <=> Full(item, x)
  BY <1>4 DEF Full, FullAt
<1>7. Tells(new, st, X)
  BY <1>1, <1>4, <1>5, <1>6 DEF Tells
<1>8. QED
  BY <1>7 DEF DeliverLine, new, item

\* A partial is put to the end or in the place of one.
LEMMA SurfaceTells ==
    ASSUME NEW st, Book(st), OnceEach(st), NEW X
    PROVE  Tells(Surface(st), st, X)
<1> DEFINE synth == Entry(st.acc.text, TRUE, "live")
<1>1. synth \in EntryType /\ synth.partial = TRUE
  BY DEF Entry, EntryType, Book, Shape, AccType
<1>2. st.shown \in Seq(EntryType) /\ Len(st.shown) \in Nat
  BY DEF Book
<1> HIDE DEF synth
<1>3. ASSUME NEW front \in Seq(EntryType), Len(front) <= Len(st.shown),
             \A i \in 1..Len(front) : front[i] = st.shown[i],
             Surface(st) = [st EXCEPT !.shown = Append(front, synth),
                                      !.acc.ref = st.acc.text]
      PROVE  Tells(Surface(st), st, X)
  <2> DEFINE new == Surface(st)
  <2>1. /\ new.shown = Append(front, synth) /\ new.recent = st.recent
        /\ new.loaded = st.loaded
    BY <1>3 DEF Book, Shape
  <2>2. /\ Append(front, synth) \in Seq(EntryType)
        /\ Len(Append(front, synth)) = Len(front) + 1 /\ Len(front) \in Nat
        /\ \A i \in 1..Len(front) : Append(front, synth)[i] = front[i]
        /\ Append(front, synth)[Len(front) + 1] = synth
    BY <1>1, <1>3, AppendProperties
  <2>3. Book(new)
    BY <2>1, <2>2, SurfaceAcc DEF Book
  <2> HIDE DEF new
  <2>4. ASSUME NEW i \in 1..Len(new.shown), ~new.shown[i].partial
        PROVE  i \in 1..Len(st.shown) /\ new.shown[i] = st.shown[i]
    <3>1. i \in 1..Len(front) \/ i = Len(front) + 1
      BY <2>1, <2>2
    <3>2. i # Len(front) + 1
      BY <1>1, <2>1, <2>2, <2>4
    <3>3. QED
      BY <1>2, <1>3, <2>1, <2>2, <3>1, <3>2
  <2>5. OnceEach(new)
    BY <2>4 DEF OnceEach
  <2>6. \A x : Full(new, x) => Full(st, x)
    BY <2>4 DEF Full, FullAt
  <2>7. QED
    BY <2>1, <2>3, <2>5, <2>6 DEF Tells, new
<1>4. CASE Surface(st) = st
  BY <1>4, TellsNothing
<1>5. CASE Surface(st) = [st EXCEPT !.shown = Append(st.shown, synth),
                                    !.acc.ref = st.acc.text]
  <2>1. Len(st.shown) <= Len(st.shown)
    BY <1>2
  <2>2. QED
    BY <1>2, <1>3, <1>5, <2>1, Zenon
<1>6. CASE /\ st.shown # <<>>
           /\ Surface(st) = [st EXCEPT !.shown = Append(Front(st.shown), synth),
                                       !.acc.ref = st.acc.text]
  <2>1. Len(st.shown) \in Nat \ {0}
    BY <1>2, <1>6, EmptySeq
  <2>2. PICK n \in Nat : n = Len(st.shown) - 1
    BY <2>1
  <2>3. \A i \in 1..n : st.shown[i] \in EntryType
    BY <1>2, <2>1, <2>2
  <2>4. /\ SubSeq(st.shown, 1, n) \in Seq(EntryType)
        /\ Len(SubSeq(st.shown, 1, n)) = n
        /\ \A i \in 1..n : SubSeq(st.shown, 1, n)[i] = st.shown[i]
    <3>1. /\ SubSeq(st.shown, 1, n) \in Seq(EntryType)
          /\ Len(SubSeq(st.shown, 1, n)) = IF 1 <= n THEN n - 1 + 1 ELSE 0
          /\ \A i \in 1..(n - 1 + 1) : SubSeq(st.shown, 1, n)[i] = st.shown[1 + i - 1]
      BY <2>2, <2>3, SubSeqProperties
    <3>2. n - 1 + 1 = n /\ (~(1 <= n) => n = 0)
      BY <2>2
    <3>3. \A i \in 1..n : 1 + i - 1 = i
      BY <2>2
    <3>4. QED
      BY <3>1, <3>2, <3>3
  <2>5. Front(st.shown) = SubSeq(st.shown, 1, n)
    BY <2>2 DEF Front
  <2>6. n <= Len(st.shown)
    BY <2>1, <2>2
  <2>7. QED
    BY <1>3, <1>6, <2>4, <2>5, <2>6
<1>7. QED
  BY <1>4, <1>5, <1>6 DEF Surface, Entry, synth

\* The store with another accumulator.
LEMMA AccTells ==
    ASSUME NEW st, Book(st), OnceEach(st), NEW new, Shape(new),
           new.shown = st.shown, new.recent = st.recent, new.loaded = st.loaded, NEW X
    PROVE  Tells(Surface(new), st, X)
<1>1. Book(new) /\ OnceEach(new) /\ \A x : Full(new, x) <=> Full(st, x)
  BY DEF Book, OnceEach, Full, FullAt
<1>2. Tells(Surface(new), new, X)
  BY <1>1, SurfaceTells
<1>3. QED
  BY <1>1, <1>2 DEF Tells

LEMMA ChunkTells ==
    ASSUME NEW st, Book(st), OnceEach(st), NEW c \in Chunk, NEW X
    PROVE  Tells(ApplyDelta(st, c), st, X) /\ Tells(ApplySnapshot(st, c), st, X)
<1> DEFINE anew == [st EXCEPT !.acc.block = c[2], !.acc.seq = c[3], !.acc.text = <<c>>]
           more == [st EXCEPT !.acc.seq = c[3], !.acc.text = Append(@, c)]
           snap == [st EXCEPT !.acc.block = c[2], !.acc.seq = c[3], !.acc.text = Text(c)]
<1>1. /\ c[2] \in Nat /\ c[3] \in Nat /\ <<c>> \in Seq(Chunk) /\ Text(c) \in Seq(Chunk)
      /\ Append(st.acc.text, c) \in Seq(Chunk)
  BY TextIsSeq DEF Chunk, Book, Shape, AccType
<1>2. /\ anew.shown = st.shown /\ anew.recent = st.recent /\ anew.loaded = st.loaded
      /\ DOMAIN anew = DOMAIN st
      /\ anew.acc = [st.acc EXCEPT !.block = c[2], !.seq = c[3], !.text = <<c>>]
  BY DEF Book, Shape
<1>3. /\ more.shown = st.shown /\ more.recent = st.recent /\ more.loaded = st.loaded
      /\ DOMAIN more = DOMAIN st
      /\ more.acc = [st.acc EXCEPT !.seq = c[3], !.text = Append(st.acc.text, c)]
  BY DEF Book, Shape
<1>4. /\ snap.shown = st.shown /\ snap.recent = st.recent /\ snap.loaded = st.loaded
      /\ DOMAIN snap = DOMAIN st
      /\ snap.acc = [st.acc EXCEPT !.block = c[2], !.seq = c[3], !.text = Text(c)]
  BY DEF Book, Shape
<1>5. Shape(anew) /\ Shape(more) /\ Shape(snap)
  <2>1. Shape(anew)
    BY <1>1, <1>2 DEF Book, Shape, AccType
  <2>2. Shape(more)
    BY <1>1, <1>3 DEF Book, Shape, AccType
  <2>3. Shape(snap)
    BY <1>1, <1>4 DEF Book, Shape, AccType
  <2>4. QED
    BY <2>1, <2>2, <2>3
<1> HIDE DEF anew, more, snap
<1>6. Tells(Surface(anew), st, X) /\ Tells(Surface(more), st, X) /\ Tells(Surface(snap), st, X)
  BY <1>2, <1>3, <1>4, <1>5, AccTells
<1>7. Tells(st, st, X)
  BY TellsNothing
<1>8. ApplyDelta(st, c) \in {st, Surface(anew), Surface(more)}
  BY DEF ApplyDelta, anew, more
<1>9. ApplySnapshot(st, c) \in {st, Surface(snap)}
  BY DEF ApplySnapshot, snap
<1>10. QED
  BY <1>6, <1>7, <1>8, <1>9

\* An event that brings a message, and which.
Whole(e) == e.k \in {"tool", "final"}

Brings(e) == IF e.k = "tool" THEN ToolCall(e.c) ELSE Text(e.c)

LEMMA DeliveredTells ==
    ASSUME NEW st, Book(st), OnceEach(st), NEW k \in {"delta", "tool", "final", "snap"},
           NEW c \in Chunk, NEW X,
           Whole(Event(k, c)) =>
              /\ Brings(Event(k, c)) \in X
              /\ Full(st, Brings(Event(k, c))) => Brings(Event(k, c)) \in st.recent
    PROVE  Tells(Delivered(st, Event(k, c)), st, X)
<1>1. Event(k, c).k = k /\ Event(k, c).c = c /\ Shape(st)
  BY EventRecord DEF Book
<1>a. Tells(ApplyDelta(st, c), st, X) /\ Tells(ApplySnapshot(st, c), st, X)
  BY ChunkTells
<1>b. /\ k = "delta" => Delivered(st, Event(k, c)) = ApplyDelta(st, c)
      /\ k = "snap" => Delivered(st, Event(k, c)) = ApplySnapshot(st, c)
  BY <1>1 DEF Delivered
<1>2. CASE k \in {"delta", "snap"}
  BY <1>2, <1>a, <1>b
<1>3. CASE k \in {"tool", "final"}
  <2>1. Whole(Event(k, c)) /\ Brings(Event(k, c)) \in Seq(Chunk)
    BY <1>1, <1>3, TextIsSeq, ToolIsTool DEF Whole, Brings
  <2>2. Delivered(st, Event(k, c)) = DeliverItem(st, Brings(Event(k, c)))
    BY <1>1, <1>3 DEF Delivered, Brings
  <2>3. QED
    BY <2>1, <2>2, ItemTells
<1>4. QED
  BY <1>2, <1>3

-----------------------------------------------------------------------------
(* What has been told of what is still to come *)

Finis == {done[i] : i \in 1..Len(done)}

\* So much of the transcript has the watcher brought, or left out.
Brought == IF watched = -1 THEN logged ELSE watched

Awaited(x) ==
    \/ \E i \in 1..Len(chan) : Whole(chan[i]) /\ Brings(chan[i]) = x
    \/ \E i \in 1..Len(done) : i > Brought /\ done[i] = x

DoneOnce == \A i, j \in 1..Len(done) : done[i] = done[j] => i = j

ComesFromDone == \A i \in 1..Len(chan) : Whole(chan[i]) => Brings(chan[i]) \in Finis

ShowsWhatIsDone == \A x : Full(store, x) => x \in Finis

\* What is shown and is still to come from somewhere is noted as told.
RepeatsAreKnown == \A x : Awaited(x) /\ Full(store, x) => x \in store.recent

TellInv ==
    /\ Book(store) /\ OnceEach(store) /\ DoneOnce
    /\ ComesFromDone /\ ShowsWhatIsDone /\ RepeatsAreKnown

DoneGrows ==
    /\ Len(done) <= Len(done')
    /\ \A i \in 1..Len(done) : done'[i] = done[i]
    /\ \A i \in 1..Len(done') : i > Len(done) => done'[i] \notin Finis
    /\ \A i, j \in 1..Len(done') :
          i > Len(done) /\ j > Len(done) /\ done'[i] = done'[j] => i = j

\* An event in the channel was there, or is of a message just finished.
ChanGrows ==
    \A i \in 1..Len(chan') : Whole(chan'[i]) =>
        \/ \E j \in 1..Len(chan) : chan'[i] = chan[j]
        \/ \E j \in 1..Len(done') : j > Len(done) /\ done'[j] = Brings(chan'[i])

LEMMA TellStep ==
    ASSUME Types, Types', TellInv, Tells(store', store, Finis), Brought <= Brought',
           DoneGrows, ChanGrows
    PROVE  TellInv'
<1>t. /\ Len(done) \in Nat /\ Len(done') \in Nat
      /\ Brought \in Int /\ Brought' \in Int
  BY DEF Types, ChildTypes, Brought
<1>1. Book(store') /\ OnceEach(store')
  BY DEF Tells
<1>2. \A i \in 1..Len(done) : i \in 1..Len(done') /\ done'[i] = done[i]
  BY <1>t DEF DoneGrows
<1>3. \A x \in Finis : x \in Finis'
  BY <1>2 DEF Finis
<1>4. \A i \in 1..Len(done') : i \in 1..Len(done) \/ i > Len(done)
  BY <1>t
<1>5. DoneOnce'
  <2>1. ASSUME NEW i \in 1..Len(done'), NEW j \in 1..Len(done'), done'[i] = done'[j]
        PROVE  i = j
    <3>1. CASE i \in 1..Len(done) /\ j \in 1..Len(done)
      BY <1>2, <2>1, <3>1 DEF TellInv, DoneOnce
    <3>2. CASE i > Len(done) /\ j > Len(done)
      BY <2>1, <3>2 DEF DoneGrows
    <3>3. CASE \/ i \in 1..Len(done) /\ j > Len(done)
               \/ i > Len(done) /\ j \in 1..Len(done)
      BY <1>2, <2>1, <3>3 DEF DoneGrows, Finis
    <3>4. QED
      BY <1>4, <3>1, <3>2, <3>3
  <2>2. QED
    BY <2>1 DEF DoneOnce
<1>6. ComesFromDone'
  <2>1. ASSUME NEW i \in 1..Len(chan'), Whole(chan'[i]) PROVE Brings(chan'[i]) \in Finis'
    <3>1. CASE \E j \in 1..Len(chan) : chan'[i] = chan[j]
      BY <1>3, <2>1, <3>1 DEF TellInv, ComesFromDone
    <3>2. CASE \E j \in 1..Len(done') : j > Len(done) /\ done'[j] = Brings(chan'[i])
      BY <3>2 DEF Finis
    <3>3. QED
      BY <2>1, <3>1, <3>2 DEF ChanGrows
  <2>2. QED
    BY <2>1 DEF ComesFromDone
<1>7. ShowsWhatIsDone'
  <2>1. ASSUME NEW x, Full(store', x) PROVE x \in Finis'
    BY <1>3, <2>1 DEF Tells, TellInv, ShowsWhatIsDone
  <2>2. QED
    BY <2>1 DEF ShowsWhatIsDone
<1>8. RepeatsAreKnown'
  <2>1. ASSUME NEW x, Awaited(x)', Full(store', x) PROVE x \in store'.recent
    <3>1. Full(store, x) \/ x \in store'.recent
      BY <2>1 DEF Tells
    <3>2. Awaited(x) \/ x \notin Finis
      <4>1. CASE \E i \in 1..Len(chan') : Whole(chan'[i]) /\ Brings(chan'[i]) = x
        <5>1. PICK i \in 1..Len(chan') : Whole(chan'[i]) /\ Brings(chan'[i]) = x
          BY <4>1
        <5>2. CASE \E j \in 1..Len(chan) : chan'[i] = chan[j]
          BY <5>1, <5>2 DEF Awaited
        <5>3. CASE \E j \in 1..Len(done') : j > Len(done) /\ done'[j] = Brings(chan'[i])
          BY <5>1, <5>3 DEF DoneGrows
        <5>4. QED
          BY <5>1, <5>2, <5>3 DEF ChanGrows
      <4>2. CASE \E i \in 1..Len(done') : i > Brought' /\ done'[i] = x
        <5>1. PICK i \in 1..Len(done') : i > Brought' /\ done'[i] = x
          BY <4>2
        <5>2. CASE i \in 1..Len(done)
          <6>1. i > Brought /\ done[i] = x
            BY <1>t, <1>2, <5>1, <5>2
          <6>2. QED
            BY <5>2, <6>1 DEF Awaited
        <5>3. CASE i > Len(done)
          BY <5>1, <5>3 DEF DoneGrows
        <5>4. QED
          BY <1>4, <5>2, <5>3
      <4>3. QED
        BY <2>1, <4>1, <4>2 DEF Awaited
    <3>3. Full(store, x) => x \in Finis
      BY DEF TellInv, ShowsWhatIsDone
    <3>4. Full(store, x) /\ Awaited(x) => x \in store'.recent
      BY DEF TellInv, RepeatsAreKnown, Tells
    <3>5. QED
      BY <3>1, <3>2, <3>3, <3>4
  <2>2. QED
    BY <2>1 DEF RepeatsAreKnown
<1>9. QED
  BY <1>1, <1>5, <1>6, <1>7, <1>8 DEF TellInv

\* Nothing new is said.
LEMMA NothingFinished ==
    ASSUME Types, UNCHANGED done
    PROVE  DoneGrows
  BY DEF Types, ChildTypes, DoneGrows

\* What the child finishes, it has not said before.
LEMMA FreshTexts ==
    ASSUME Types, DoneInv, Streaming, turn.s > 0
    PROVE  /\ Text(Current) \notin Finis /\ ToolCall(Current) \notin Finis
           /\ Text(Current) # ToolCall(Current)
           /\ Text(Current) \in Seq(Chunk) /\ ToolCall(Current) \in Seq(Chunk)
<1>1. /\ Current \in Chunk /\ Current = <<turn.t, turn.b, turn.s>>
      /\ turn.t \in Nat /\ turn.b \in Nat /\ turn.s \in Nat
  BY CurrentType
<1>2. /\ Text(Current) \in Seq(Chunk) /\ ToolCall(Current) \in Seq(Chunk)
      /\ Text(Current)[1] = <<turn.t, turn.b, 1>>
      /\ ToolCall(Current)[1] = <<turn.t, turn.b, 0>>
  BY <1>1, TextIsSeq, ToolIsTool
<1>3. \A i \in 1..Len(done) : done[i][1][1] = turn.t => done[i][1][2] < turn.b
  BY DEF DoneInv
<1>4. ASSUME NEW i \in 1..Len(done), NEW n \in {0, 1}, done[i][1] = <<turn.t, turn.b, n>>
      PROVE  FALSE
  BY <1>1, <1>3, <1>4
<1>5. \A n \in {0, 1} : \A i \in 1..Len(done) : done[i][1] # <<turn.t, turn.b, n>>
  BY <1>4
<1>6. <<turn.t, turn.b, 1>> # <<turn.t, turn.b, 0>>
  OBVIOUS
<1>7. Text(Current) \notin Finis
  BY <1>2, <1>5 DEF Finis
<1>8. ToolCall(Current) \notin Finis
  BY <1>2, <1>5 DEF Finis
<1>9. QED
  BY <1>2, <1>6, <1>7, <1>8

-----------------------------------------------------------------------------
(* Pages, and the steps *)

LoadType == [pc : {"no", "asked", "read", "done"}, before : SUBSET EntryType,
             page : Seq(Seq(Chunk))]

\* Nothing is told while a page is loaded, and the page is all that is done.
Asked(l) ==
    /\ turn.phase = "over" /\ chan = <<>> /\ logged = Len(done)
    /\ \A i \in 1..Len(store.shown) : store.shown[i] \in load[l].before
    /\ load[l].pc = "read" => load[l].page = done

LoadInv ==
    /\ load \in [Loads -> LoadType]
    /\ store.loaded => \A l \in Loads : load[l].pc = "done"
    /\ watched # -1 => store.loaded
    /\ reconcile.pc = "read" => store.loaded
    /\ \A l \in Loads : load[l].pc \in {"asked", "read"} => Asked(l)

\* The page of a reconciliation is the beginning of what is done.
RecInv ==
    /\ reconcile \in [pc : {"no", "asked", "read"}, page : Seq(Seq(Chunk))]
    /\ reconcile.pc = "read" =>
          /\ Len(reconcile.page) <= Len(done)
          /\ \A i \in 1..Len(reconcile.page) : reconcile.page[i] = done[i]

OnceInv == Types /\ BlockInv /\ DoneInv /\ TellInv /\ LoadInv /\ RecInv

\* What most steps do.
Tidy ==
    /\ Tells(store', store, Finis) /\ Brought <= Brought'
    /\ DoneGrows /\ ChanGrows

LEMMA PublishedIs ==
    ASSUME ChanTypes, NEW e \in EventType, Publish(e)
    PROVE  \A i \in 1..Len(chan') :
              chan'[i] = e \/ \E j \in 1..Len(chan) : chan'[i] = chan[j]
<1>1. chan \in Seq(EventType) /\ Len(chan) \in Nat
  BY DEF ChanTypes
<1>2. CASE chan' = <<>>
  BY <1>2
<1>3. ASSUME NEW q \in Seq(EventType), chan' = Append(q, e), Len(q) \in Nat,
             \A i \in 1..Len(q) : \E j \in 1..Len(chan) : q[i] = chan[j]
      PROVE  \A i \in 1..Len(chan') :
                chan'[i] = e \/ \E j \in 1..Len(chan) : chan'[i] = chan[j]
  <2>1. /\ Len(chan') = Len(q) + 1 /\ chan'[Len(q) + 1] = e
        /\ \A i \in 1..Len(q) : chan'[i] = q[i]
    BY <1>3, AppendProperties
  <2>2. \A i \in 1..Len(chan') : i \in 1..Len(q) \/ i = Len(q) + 1
    BY <1>3, <2>1
  <2>3. QED
    BY <1>3, <2>1, <2>2
<1>4. CASE chan' = Append(chan, e)
  BY <1>1, <1>3, <1>4
<1>5. CASE chan # <<>> /\ chan' = Append(Tail(chan), e)
  <2>1. /\ Tail(chan) \in Seq(EventType) /\ Len(Tail(chan)) = Len(chan) - 1
        /\ Len(chan) \in Nat \ {0}
        /\ \A i \in 1..(Len(chan) - 1) : Tail(chan)[i] = chan[i + 1]
    BY <1>1, <1>5, TailIs
  <2>2. \A i \in 1..Len(Tail(chan)) : i \in 1..(Len(chan) - 1) /\ i + 1 \in 1..Len(chan)
    BY <2>1
  <2>3. \A i \in 1..Len(Tail(chan)) : \E j \in 1..Len(chan) : Tail(chan)[i] = chan[j]
    BY <2>1, <2>2
  <2>4. Len(Tail(chan)) \in Nat
    BY <2>1
  <2>5. QED
    BY <1>3, <1>5, <2>1, <2>3, <2>4
<1>6. QED
  BY <1>2, <1>4, <1>5, PublishIs

\* A step that finishes nothing and brings no event.
LEMMA SameTidy ==
    ASSUME Types, TellInv, UNCHANGED <<done, store>>, Brought <= Brought',
           \A i \in 1..Len(chan') : \E j \in 1..Len(chan) : chan'[i] = chan[j]
    PROVE  Tidy
<1>1. Tells(store', store, Finis)
  BY TellsNothing DEF TellInv
<1>2. DoneGrows
  BY NothingFinished
<1>3. QED
  BY <1>1, <1>2 DEF Tidy, ChanGrows

LEMMA ChildTidy ==
    ASSUME OnceInv, Child
    PROVE  Tidy
<1>t. /\ Types /\ ChanTypes /\ TellInv /\ DoneInv
      /\ done \in Seq(Seq(Chunk)) /\ Len(done) \in Nat
      /\ logged \in Nat /\ watched \in Int /\ Current \in Chunk
  BY CurrentType DEF OnceInv, Types, ChildTypes
<1>n. Len(chan) \in Nat /\ Brought \in Int
  BY <1>t DEF ChanTypes, Brought
<1>1. CASE TurnStarts
  <2>1. chan' = <<>> /\ UNCHANGED <<done, store, logged, watched>>
    BY <1>1 DEF TurnStarts
  <2>2. Brought <= Brought'
    BY <1>n, <2>1 DEF Brought
  <2>3. QED
    BY <1>t, <2>1, <2>2, SameTidy
<1>2. CASE Apply \/ Clear
  <2>1. UNCHANGED <<chan, done, store, logged, watched>>
    BY <1>2 DEF Apply, Clear
  <2>2. Brought <= Brought'
    BY <1>n, <2>1 DEF Brought
  <2>3. QED
    BY <1>t, <2>1, <2>2, SameTidy
<1>3. CASE PublishDelta
  <2>1. UNCHANGED <<done, store, logged, watched>> /\ Publish(Event("delta", Current))
    BY <1>3 DEF PublishDelta
  <2>2. Brought <= Brought'
    BY <1>n, <2>1 DEF Brought
  <2>3. Event("delta", Current) \in EventType /\ ~Whole(Event("delta", Current))
    BY <1>t, EventRecord DEF Whole
  <2>4. \A i \in 1..Len(chan') : \/ chan'[i] = Event("delta", Current)
                                 \/ \E j \in 1..Len(chan) : chan'[i] = chan[j]
    BY <1>t, <2>1, <2>3, PublishedIs
  <2>5. ChanGrows
    BY <2>3, <2>4 DEF ChanGrows
  <2>6. Tells(store', store, Finis)
    BY <1>t, <2>1, TellsNothing DEF TellInv
  <2>7. DoneGrows
    BY <1>t, <2>1, NothingFinished
  <2>8. QED
    BY <2>2, <2>5, <2>6, <2>7 DEF Tidy
<1>4. CASE NextBlock \/ TurnEnds
  <2>1. UNCHANGED <<store, logged, watched>> /\ turn.s > 0 /\ Streaming
    BY <1>4 DEF NextBlock, TurnEnds, Streaming
  <2>2. Brought <= Brought'
    BY <1>n, <2>1 DEF Brought
  <2>3. /\ Text(Current) \notin Finis /\ ToolCall(Current) \notin Finis
        /\ Text(Current) # ToolCall(Current)
        /\ Text(Current) \in Seq(Chunk) /\ ToolCall(Current) \in Seq(Chunk)
    BY <1>t, <2>1, FreshTexts
  <2>4. Tells(store', store, Finis)
    BY <1>t, <2>1, TellsNothing DEF TellInv
  <2>5. ASSUME done' = Append(done, Text(Current))
        PROVE  DoneGrows /\ Len(done') = Len(done) + 1
                         /\ done'[Len(done) + 1] = Text(Current)
    <3>1. /\ Len(done') = Len(done) + 1 /\ done'[Len(done) + 1] = Text(Current)
          /\ \A i \in 1..Len(done) : done'[i] = done[i]
      BY <1>t, <2>3, <2>5, AppendProperties
    <3>2. \A i \in 1..Len(done') : i > Len(done) => i = Len(done) + 1
      BY <1>t, <3>1
    <3>3. Len(done) <= Len(done')
      BY <1>t, <3>1
    <3>4. QED
      BY <2>3, <3>1, <3>2, <3>3 DEF DoneGrows
  <2>6. ASSUME done' = done \o <<Text(Current), ToolCall(Current)>>
        PROVE  DoneGrows /\ Len(done') = Len(done) + 2
                         /\ done'[Len(done) + 2] = ToolCall(Current)
    <3>1. PICK two : two = <<Text(Current), ToolCall(Current)>>
      OBVIOUS
    <3>2. /\ two \in Seq(Seq(Chunk)) /\ Len(two) = 2
          /\ two[1] = Text(Current) /\ two[2] = ToolCall(Current)
      BY <2>3, <3>1
    <3>3. /\ Len(done') = Len(done) + 2
          /\ \A i \in 1..Len(done') :
                done'[i] = IF i <= Len(done) THEN done[i] ELSE two[i - Len(done)]
      BY <1>t, <2>6, <3>1, <3>2, ConcatProperties
    <3>4. \A i \in 1..Len(done') : i > Len(done) => i = Len(done) + 1 \/ i = Len(done) + 2
      BY <1>t, <3>3
    <3>5. \A i \in 1..Len(done) : done'[i] = done[i]
      BY <1>t, <3>3
    <3>6. /\ Len(done) + 1 \in 1..Len(done') /\ Len(done) + 2 \in 1..Len(done')
          /\ Len(done) <= Len(done')
          /\ ~(Len(done) + 1 <= Len(done)) /\ ~(Len(done) + 2 <= Len(done))
          /\ Len(done) + 1 - Len(done) = 1 /\ Len(done) + 2 - Len(done) = 2
      BY <1>t, <3>3
    <3>7. done'[Len(done) + 1] = Text(Current) /\ done'[Len(done) + 2] = ToolCall(Current)
      BY <3>2, <3>3, <3>6
    <3>8. QED
      BY <2>3, <3>3, <3>4, <3>5, <3>6, <3>7 DEF DoneGrows
  <2>7. ASSUME NEW k \in {"tool", "final"}, Publish(Event(k, Current)), DoneGrows,
               NEW n \in 1..Len(done'), n > Len(done),
               done'[n] = Brings(Event(k, Current))
        PROVE  Tidy
    <3>1. Event(k, Current) \in EventType
      BY <1>t, EventRecord
    <3>2. \A i \in 1..Len(chan') : \/ chan'[i] = Event(k, Current)
                                   \/ \E j \in 1..Len(chan) : chan'[i] = chan[j]
      BY <1>t, <2>7, <3>1, PublishedIs
    <3>3. ChanGrows
      BY <2>7, <3>2 DEF ChanGrows
    <3>4. QED
      BY <2>2, <2>4, <2>7, <3>3 DEF Tidy
  <2>8. /\ Brings(Event("tool", Current)) = ToolCall(Current)
        /\ Brings(Event("final", Current)) = Text(Current)
    BY <1>t, EventRecord DEF Brings
  <2>9. CASE done' = Append(done, Text(Current)) /\ UNCHANGED <<chan, lagged>>
    BY <2>2, <2>4, <2>5, <2>9 DEF Tidy, ChanGrows
  <2>10. CASE done' = Append(done, Text(Current)) /\ Publish(Event("final", Current))
    <3>1. Len(done) + 1 \in 1..Len(done') /\ Len(done) + 1 > Len(done)
      BY <1>t, <2>5, <2>10
    <3>2. QED
      BY <2>5, <2>7, <2>8, <2>10, <3>1
  <2>11. CASE /\ done' = done \o <<Text(Current), ToolCall(Current)>>
              /\ Publish(Event("tool", Current))
    <3>1. Len(done) + 2 \in 1..Len(done') /\ Len(done) + 2 > Len(done)
      BY <1>t, <2>6, <2>11
    <3>2. QED
      BY <2>6, <2>7, <2>8, <2>11, <3>1
  <2>12. QED
    BY <1>4, <2>9, <2>10, <2>11 DEF NextBlock, TurnEnds
<1>5. CASE Log
  <2>1. logged' = logged + 1 /\ UNCHANGED <<chan, done, store, watched>>
    BY <1>5 DEF Log
  <2>2. Brought <= Brought'
    BY <1>t, <1>n, <2>1 DEF Brought
  <2>3. QED
    BY <1>t, <2>1, <2>2, SameTidy
<1>6. QED
  BY <1>1, <1>2, <1>3, <1>4, <1>5 DEF Child

LEMMA ClientTidy ==
    ASSUME OnceInv, Client
    PROVE  Tidy
<1>t. /\ Types /\ ChanTypes /\ TellInv /\ chan \in Seq(EventType)
      /\ Book(store) /\ OnceEach(store)
      /\ logged \in Nat /\ watched \in Int
  BY DEF OnceInv, Types, ChildTypes, ChanTypes, TellInv
<1>1. UNCHANGED <<done, logged, watched>>
  BY DEF Client, Attach, Resubscribe, Resync, Lagged, Forward
<1>2. Brought <= Brought'
  <2>1. Brought' = Brought /\ Brought \in Int
    BY <1>t, <1>1 DEF Brought
  <2>2. QED
    BY <2>1
<1>3. DoneGrows
  BY <1>t, <1>1, NothingFinished
<1>4. CASE Attach \/ Resubscribe \/ Lagged
  <2>1. (chan' = <<>> \/ chan' = chan) /\ store' = store
    BY <1>4 DEF Attach, Resubscribe, Lagged
  <2>2. QED
    BY <1>t, <1>1, <1>2, <2>1, SameTidy
<1>5. CASE Resync
  <2>1. chan' = chan /\ (store' = store \/ store' = Delivered(store, Snapshot))
    BY <1>5 DEF Resync
  <2>2. Tells(store, store, Finis)
    BY <1>t, TellsNothing
  <2>3. Tells(Delivered(store, Snapshot), store, Finis)
    <3>1. PICK c \in Chunk : c = <<turn.t, streaming.block, streaming.seq>>
      BY <1>t, CurrentType
    <3>2. ~Whole(Event("snap", c))
      BY EventRecord DEF Whole
    <3>3. Tells(Delivered(store, Event("snap", c)), store, Finis)
      BY <1>t, <3>2, DeliveredTells
    <3>4. QED
      BY <3>1, <3>3 DEF Snapshot
  <2>4. QED
    BY <1>2, <1>3, <2>1, <2>2, <2>3 DEF Tidy, ChanGrows
<1>6. CASE Forward
  <2>1. /\ chan # <<>> /\ chan' = Tail(chan) /\ store' = Delivered(store, Head(chan))
    BY <1>6 DEF Forward
  <2>2. /\ Tail(chan) \in Seq(EventType) /\ Len(Tail(chan)) = Len(chan) - 1
        /\ Len(chan) \in Nat \ {0}
        /\ \A i \in 1..(Len(chan) - 1) : Tail(chan)[i] = chan[i + 1]
        /\ Head(chan) \in EventType /\ Head(chan) = chan[1]
    BY <1>t, <2>1, TailIs
  <2>3. \A i \in 1..Len(Tail(chan)) : i \in 1..(Len(chan) - 1) /\ i + 1 \in 1..Len(chan)
    BY <2>2
  <2>4. \A i \in 1..Len(chan') : \E j \in 1..Len(chan) : chan'[i] = chan[j]
    BY <2>1, <2>2, <2>3
  <2>5. 1 \in 1..Len(chan)
    BY <2>2
  <2>6. Whole(chan[1]) => /\ Brings(chan[1]) \in Finis
                          /\ Full(store, Brings(chan[1])) => Brings(chan[1]) \in store.recent
    BY <1>t, <2>5 DEF TellInv, ComesFromDone, RepeatsAreKnown, Awaited
  <2>7. PICK k \in {"delta", "tool", "final"}, c \in Chunk : Head(chan) = Event(k, c)
    BY <2>2 DEF EventType, Event
  <2>8. Tells(Delivered(store, Event(k, c)), store, Finis)
    BY <1>t, <2>2, <2>6, <2>7, DeliveredTells
  <2>9. Tells(store', store, Finis)
    BY <2>1, <2>7, <2>8
  <2>10. QED
    BY <1>2, <1>3, <2>4, <2>9 DEF Tidy, ChanGrows
<1>7. QED
  BY <1>4, <1>5, <1>6 DEF Client

\* The watcher's next is awaited, and so is not told twice.
LEMMA WatchTidy ==
    ASSUME OnceInv, WatchStarts \/ Watch
    PROVE  Tidy
<1>t. /\ Types /\ TellInv /\ Book(store) /\ OnceEach(store) /\ DoneInv
      /\ logged \in Nat /\ watched \in Int /\ done \in Seq(Seq(Chunk)) /\ Len(done) \in Nat
      /\ logged <= Len(done)
  BY DEF OnceInv, Types, ChildTypes, TellInv, DoneInv
<1>1. UNCHANGED <<done, logged, chan>>
  BY DEF WatchStarts, Watch
<1>2. CASE WatchStarts
  <2>1. watched = -1 /\ watched' = logged /\ store' = store
    BY <1>2 DEF WatchStarts
  <2>2. Brought <= Brought'
    BY <1>t, <1>1, <2>1 DEF Brought
  <2>3. QED
    BY <1>t, <1>1, <2>1, <2>2, SameTidy
<1>3. CASE Watch
  <2>1. /\ watched >= 0 /\ watched < logged /\ watched' = watched + 1
        /\ store' = DeliverLine(store, done[watched + 1])
    BY <1>3 DEF Watch
  <2>2. /\ Brought <= Brought' /\ watched + 1 > Brought
        /\ watched + 1 \in 1..Len(done)
    BY <1>t, <2>1 DEF Brought
  <2>3. PICK x \in Seq(Chunk) : x = done[watched + 1]
    BY <1>t, <2>2
  <2>4. x \in Finis /\ Awaited(x)
    BY <2>2, <2>3 DEF Finis, Awaited
  <2>5. Full(store, x) => x \in store.recent
    BY <1>t, <2>4 DEF TellInv, RepeatsAreKnown
  <2>6. Tells(DeliverLine(store, x), store, Finis)
    BY <1>t, <2>4, <2>5, LineTells
  <2>7. DoneGrows
    BY <1>t, <1>1, NothingFinished
  <2>8. QED
    BY <1>1, <2>1, <2>2, <2>3, <2>6, <2>7 DEF Tidy, ChanGrows
<1>4. QED
  BY <1>2, <1>3

\* What is missing goes to the end, each text of it once.
LEMMA ReconcileTidy ==
    ASSUME OnceInv, ReconcileLands
    PROVE  Tidy
<1> DEFINE P == {i \in DOMAIN reconcile.page : Missing(reconcile.page[i])}
<1>t. /\ Types /\ TellInv /\ Book(store) /\ OnceEach(store) /\ DoneOnce /\ RecInv
      /\ store.shown \in Seq(EntryType) /\ Len(store.shown) \in Nat /\ Shape(store)
      /\ logged \in Nat /\ watched \in Int /\ Len(done) \in Nat
  BY DEF OnceInv, Types, ChildTypes, TellInv, Book
<1>1. UNCHANGED <<done, logged, chan, watched>> /\ reconcile.pc = "read"
  BY DEF ReconcileLands
<1>2. /\ reconcile.page \in Seq(Seq(Chunk)) /\ Len(reconcile.page) \in Nat
      /\ DOMAIN reconcile.page = 1..Len(reconcile.page)
      /\ Len(reconcile.page) <= Len(done)
      /\ \A i \in 1..Len(reconcile.page) : reconcile.page[i] = done[i]
  BY <1>t, <1>1, LenProperties DEF RecInv
<1>3. PICK missing \in Filtered(reconcile.page, P) :
        store' = [store EXCEPT
                     !.shown = store.shown \o [i \in DOMAIN missing |->
                                        Entry(missing[i], FALSE, "page")],
                     !.recent = RecoveredTold(missing)]
  BY DEF ReconcileLands
<1>4. P \in SUBSET (1..Len(reconcile.page))
  BY <1>2
<1>5. \A i \in P : /\ i \in 1..Len(done) /\ reconcile.page[i] = done[i]
                   /\ Missing(done[i])
  BY <1>2
<1>6. \A i, j \in P : reconcile.page[i] = reconcile.page[j] => i = j
  BY <1>t, <1>5 DEF DoneOnce
<1>7. /\ missing \in Seq(Seq(Chunk))
      /\ \A n \in 1..Len(missing) : \E i \in P : missing[n] = reconcile.page[i]
      /\ \A m, n \in 1..Len(missing) : missing[m] = missing[n] => m = n
  <2> HIDE DEF P
  <2>1. PICK page \in Seq(Seq(Chunk)) : page = reconcile.page
    BY <1>2
  <2>2. P \in SUBSET (1..Len(page)) /\ missing \in Filtered(page, P)
    BY <1>3, <1>4, <2>1, Zenon
  <2>3. \A i, j \in P : page[i] = page[j] => i = j
    BY <1>6, <2>1
  <2>4. PICK S : S = Seq(Chunk)
    OBVIOUS
  <2>5. page \in Seq(S)
    BY <2>4
  <2>6. ASSUME NEW Q \in SUBSET (1..Len(page)), missing \in Filtered(page, Q),
               \A i, j \in Q : page[i] = page[j] => i = j
        PROVE  /\ missing \in Seq(S)
               /\ \A n \in 1..Len(missing) : \E i \in Q : missing[n] = page[i]
               /\ \A m, n \in 1..Len(missing) : missing[m] = missing[n] => m = n
    <3>1. missing \in Seq(S)
      BY <2>5, <2>6, FilteredIs
    <3>2. \A n \in 1..Len(missing) : \E i \in Q : missing[n] = page[i]
      BY <2>5, <2>6, FilteredOf
    <3>3. ASSUME NEW m \in 1..Len(missing), NEW n \in 1..Len(missing),
                 missing[m] = missing[n]
          PROVE  m = n
      BY <2>5, <2>6, <3>3, FilteredOnce
    <3>4. QED
      BY <3>1, <3>2, <3>3
  <2>7. QED
    BY <2>1, <2>2, <2>3, <2>4, <2>6
<1>8. \A n \in 1..Len(missing) : missing[n] \in Finis /\ Missing(missing[n])
  BY <1>5, <1>7 DEF Finis
<1> HIDE DEF P
<1>9. Len(missing) \in Nat /\ DOMAIN missing = 1..Len(missing)
  BY <1>7, LenProperties
<1>10. \A n \in 1..Len(missing) : missing[n] \in Seq(Chunk)
  BY <1>7, ElementOfSeq
<1> DEFINE more == [i \in DOMAIN missing |-> Entry(missing[i], FALSE, "page")]
<1>11. /\ more \in [1..Len(missing) -> EntryType]
       /\ \A n \in 1..Len(missing) : more[n].text = missing[n] /\ ~more[n].partial
  BY <1>9, <1>10 DEF Entry, EntryType
<1>12. more \in Seq(EntryType) /\ Len(more) = Len(missing)
  <2> HIDE DEF more
  <2>1. QED
    BY <1>9, <1>11, FunctionIsSeq
<1>13. /\ store'.shown = store.shown \o more /\ store'.recent = RecoveredTold(missing)
       /\ store'.acc = store.acc /\ store'.loaded = store.loaded
       /\ DOMAIN store' = DOMAIN store
  BY <1>3, <1>t DEF Shape
<1> HIDE DEF more
<1>15. /\ store'.shown \in Seq(EntryType)
       /\ \A i \in 1..Len(store'.shown) :
             \/ i \in 1..Len(store.shown) /\ store'.shown[i] = store.shown[i]
             \/ \E n \in 1..Len(missing) : /\ i = Len(store.shown) + n
                                           /\ store'.shown[i] = more[n]
  <2>1. PICK s \in Seq(EntryType) : s = store.shown
    BY <1>t
  <2>2. /\ s \o more \in Seq(EntryType)
        /\ \A i \in 1..Len(s \o more) :
             \/ i \in 1..Len(s) /\ (s \o more)[i] = s[i]
             \/ \E n \in 1..Len(more) : i = Len(s) + n /\ (s \o more)[i] = more[n]
    BY <1>12, ConcatIs
  <2>3. PICK all : all = s \o more
    OBVIOUS
  <2>4. /\ all \in Seq(EntryType)
        /\ \A i \in 1..Len(all) :
             \/ i \in 1..Len(s) /\ all[i] = s[i]
             \/ \E n \in 1..Len(missing) : i = Len(s) + n /\ all[i] = more[n]
    BY <1>12, <2>2, <2>3
  <2>5. store'.shown = all
    BY <1>13, <2>1, <2>3
  <2>6. QED
    BY <2>1, <2>4, <2>5
<1>16. Book(store')
  BY <1>t, <1>13, <1>15 DEF Book, Shape
<1>17. \A n \in 1..Len(missing), i \in 1..Len(store.shown) :
          store.shown[i].text # missing[n]
  <2>1. DOMAIN store.shown = 1..Len(store.shown)
    BY <1>t, LenProperties
  <2>2. QED
    BY <1>8, <2>1 DEF Missing, Has
<1>18. OnceEach(store')
  <2>1. ASSUME NEW i \in 1..Len(store'.shown), NEW j \in 1..Len(store'.shown),
               store'.shown[i].text = store'.shown[j].text,
               ~store'.shown[i].partial, ~store'.shown[j].partial
        PROVE  i = j
    <3>1. CASE i \in 1..Len(store.shown) /\ j \in 1..Len(store.shown)
      BY <1>t, <1>15, <2>1, <3>1 DEF OnceEach
    <3>2. ASSUME NEW m \in 1..Len(missing), i = Len(store.shown) + m,
                 store'.shown[i] = more[m],
                 NEW n \in 1..Len(missing), j = Len(store.shown) + n,
                 store'.shown[j] = more[n]
          PROVE  i = j
      <4>1. missing[m] = missing[n]
        BY <1>11, <2>1, <3>2
      <4>2. m = n
        BY <1>7, <4>1
      <4>3. QED
        BY <3>2, <4>2
    <3>3. ASSUME NEW k \in 1..Len(store.shown), NEW n \in 1..Len(missing),
                 store.shown[k].text = more[n].text
          PROVE  FALSE
      BY <1>11, <1>17, <3>3
    <3>4. QED
      BY <1>15, <2>1, <3>1, <3>2, <3>3
  <2>2. QED
    BY <2>1 DEF OnceEach
<1>19. store'.recent = store.recent \cup {missing[n] : n \in 1..Len(missing)}
  BY <1>9, <1>13 DEF RecoveredTold, ToSet
<1>20. ASSUME NEW x, NEW i \in 1..Len(store'.shown), FullAt(store', i, x)
       PROVE  Full(store, x) \/ (x \in Finis /\ x \in store'.recent)
  <2>1. CASE i \in 1..Len(store.shown) /\ store'.shown[i] = store.shown[i]
    BY <1>20, <2>1 DEF Full, FullAt
  <2>2. ASSUME NEW n \in 1..Len(missing), store'.shown[i] = more[n]
        PROVE  x \in Finis /\ x \in store'.recent
    <3>1. x = missing[n]
      BY <1>11, <1>20, <2>2 DEF FullAt
    <3>2. QED
      BY <1>8, <1>19, <3>1
  <2>3. QED
    BY <1>15, <2>1, <2>2
<1>21. Tells(store', store, Finis)
  BY <1>13, <1>16, <1>18, <1>19, <1>20 DEF Tells, Full
<1>22. Brought <= Brought'
  BY <1>t, <1>1 DEF Brought
<1>23. DoneGrows
  BY <1>t, <1>1, NothingFinished
<1>24. QED
  BY <1>1, <1>21, <1>22, <1>23 DEF Tidy, ChanGrows

\* A page is put before what has come in since, which is nothing.
LEMMA LoadLandsTold ==
    ASSUME OnceInv, NEW l \in Loads, LoadLands(l)
    PROVE  TellInv'
<1> DEFINE P == {i \in DOMAIN store.shown : store.shown[i] \notin load[l].before}
           page == [i \in DOMAIN load[l].page |-> Entry(load[l].page[i], FALSE, l)]
<1>t. /\ Types /\ TellInv /\ Book(store) /\ DoneOnce /\ LoadInv /\ Shape(store)
      /\ store.shown \in Seq(EntryType) /\ DOMAIN store.shown = 1..Len(store.shown)
      /\ done \in Seq(Seq(Chunk)) /\ Len(done) \in Nat /\ DOMAIN done = 1..Len(done)
      /\ logged \in Nat
  BY LenProperties DEF OnceInv, Types, ChildTypes, TellInv, Book
<1>1. load[l].pc = "read" /\ UNCHANGED <<done, logged, chan, watched>>
  BY DEF LoadLands
<1>2. /\ Asked(l) /\ chan = <<>> /\ logged = Len(done) /\ load[l].page = done
      /\ watched = -1
  BY <1>t, <1>1 DEF LoadInv, Asked
<1>3. PICK since \in Filtered(store.shown, P) :
        store' = [store EXCEPT !.shown = page \o since, !.loaded = TRUE]
  BY DEF LoadLands
<1>4. P = {} /\ P \in SUBSET (1..Len(store.shown))
  BY <1>t, <1>2 DEF Asked
<1> HIDE DEF P
<1>5. since = <<>>
  BY <1>t, <1>3, <1>4, FilteredIs
<1>6. /\ page \in [1..Len(done) -> EntryType]
      /\ \A i \in 1..Len(done) : page[i].text = done[i]
  <2>1. \A i \in 1..Len(done) : done[i] \in Seq(Chunk)
    BY <1>t, ElementOfSeq
  <2>2. QED
    BY <1>t, <1>2, <2>1 DEF Entry, EntryType
<1> HIDE DEF page
<1>7. page \in Seq(EntryType) /\ Len(page) = Len(done)
  BY <1>t, <1>6, FunctionIsSeq
<1>8. page \o since = page
  BY <1>5, <1>7, ConcatEmptySeq
<1>9. /\ store'.shown = page /\ store'.recent = store.recent /\ store'.acc = store.acc
      /\ DOMAIN store' = DOMAIN store
  BY <1>t, <1>3, <1>8 DEF Shape
<1>10. Book(store')
  BY <1>t, <1>7, <1>9 DEF Book, Shape
<1>11. OnceEach(store')
  BY <1>t, <1>6, <1>7, <1>9 DEF OnceEach, DoneOnce
<1>12. ShowsWhatIsDone'
  <2>1. ASSUME NEW x, NEW i \in 1..Len(store'.shown), FullAt(store', i, x)
        PROVE  x \in Finis'
    BY <1>1, <1>6, <1>7, <1>9, <2>1 DEF FullAt, Finis
  <2>2. QED
    BY <2>1 DEF ShowsWhatIsDone, Full
<1>13. DoneOnce' /\ ComesFromDone'
  BY <1>1, <1>2, <1>t DEF DoneOnce, ComesFromDone
<1>14. ASSUME NEW x, Awaited(x)' PROVE FALSE
  <2>1. chan' = <<>> /\ Brought' = Len(done')
    BY <1>1, <1>2 DEF Brought
  <2>2. QED
    BY <1>1, <1>t, <1>14, <2>1 DEF Awaited
<1>15. QED
  BY <1>10, <1>11, <1>12, <1>13, <1>14 DEF TellInv, RepeatsAreKnown

\* What was told is forgotten when nothing can tell it again.
LEMMA ForgetTold ==
    ASSUME OnTime, OnceInv, Forget
    PROVE  TellInv'
<1>t. /\ Types /\ TellInv /\ Book(store) /\ Shape(store) /\ Len(done) \in Nat
  BY DEF OnceInv, TellInv, Book, Types, ChildTypes
<1>1. /\ Quiet /\ store' = [store EXCEPT !.recent = {}]
      /\ UNCHANGED <<done, logged, chan, watched>>
  BY DEF OnTime, Forget
<1>2. /\ store'.shown = store.shown /\ store'.acc = store.acc
      /\ DOMAIN store' = DOMAIN store
  BY <1>t, <1>1 DEF Shape
<1>3. Book(store') /\ OnceEach(store')
  BY <1>t, <1>2 DEF Book, Shape, TellInv, OnceEach
<1>4. DoneOnce' /\ ComesFromDone' /\ ShowsWhatIsDone'
  BY <1>t, <1>1, <1>2 DEF TellInv, DoneOnce, ComesFromDone, ShowsWhatIsDone, Full, FullAt, Finis
<1>5. ASSUME NEW x, Awaited(x)' PROVE FALSE
  <2>1. chan' = <<>> /\ Brought' = Len(done')
    BY <1>1 DEF Quiet, Brought
  <2>2. QED
    BY <1>1, <1>t, <1>5, <2>1 DEF Awaited
<1>6. QED
  BY <1>3, <1>4, <1>5 DEF TellInv, RepeatsAreKnown

LEMMA TellInvStep ==
    ASSUME OnTime, OnceInv, [Next]_vars
    PROVE  TellInv'
<1>t. Types /\ Types' /\ TellInv /\ logged \in Nat /\ watched \in Int
  BY TypesStep DEF OnceInv, Types, ChildTypes
<1>1. ASSUME Tidy PROVE TellInv'
  BY <1>t, <1>1, TellStep DEF Tidy
<1>2. CASE Child
  BY <1>1, <1>2, ChildTidy
<1>3. CASE Client
  BY <1>1, <1>3, ClientTidy
<1>4. CASE WatchStarts \/ Watch
  BY <1>1, <1>4, WatchTidy
<1>5. CASE ReconcileLands
  BY <1>1, <1>5, ReconcileTidy
<1>6. CASE Forget
  BY <1>6, ForgetTold
<1>7. ASSUME NEW l \in Loads, LoadLands(l) PROVE TellInv'
  BY <1>7, LoadLandsTold
<1>8. CASE UNCHANGED <<done, store, chan, logged, watched>>
  <2>1. Brought' = Brought /\ Brought \in Int
    BY <1>t, <1>8 DEF Brought
  <2>2. Brought <= Brought'
    BY <2>1
  <2>3. Tidy
    BY <1>t, <1>8, <2>2, SameTidy
  <2>4. QED
    BY <1>1, <2>3
<1>9. \/ ReconcileAsks \/ ReconcileReads \/ UNCHANGED vars
      \/ \E l \in Loads : LoadAsks(l) \/ LoadReads(l)
      => UNCHANGED <<done, store, chan, logged, watched>>
  BY DEF ReconcileAsks, ReconcileReads, LoadAsks, LoadReads, vars
<1>10. QED
  BY <1>2, <1>3, <1>4, <1>5, <1>6, <1>7, <1>8, <1>9 DEF Next, Transcript

LEMMA PageIs ==
    ASSUME done \in Seq(Seq(Chunk)), logged \in Nat, logged <= Len(done)
    PROVE  /\ Page \in Seq(Seq(Chunk)) /\ Len(Page) = logged /\ Len(Page) <= Len(done)
           /\ \A i \in 1..Len(Page) : Page[i] = done[i]
<1>1. PICK n \in Nat : n = logged
  OBVIOUS
<1>2. \A i \in 1..n : done[i] \in Seq(Chunk)
  BY <1>1
<1>3. /\ SubSeq(done, 1, n) \in Seq(Seq(Chunk))
      /\ Len(SubSeq(done, 1, n)) = IF 1 <= n THEN n - 1 + 1 ELSE 0
      /\ \A i \in 1..(n - 1 + 1) : SubSeq(done, 1, n)[i] = done[1 + i - 1]
  BY <1>2, SubSeqProperties
<1>4. n - 1 + 1 = n /\ (~(1 <= n) => n = 0)
  OBVIOUS
<1>5. \A i \in 1..n : 1 + i - 1 = i
  OBVIOUS
<1>6. QED
  BY <1>1, <1>3, <1>4, <1>5 DEF Page

LEMMA WholePage ==
    ASSUME done \in Seq(Seq(Chunk)), logged \in Nat, logged = Len(done)
    PROVE  Page = done
<1>1. /\ Page \in Seq(Seq(Chunk)) /\ Len(Page) = Len(done)
      /\ \A i \in 1..Len(Page) : Page[i] = done[i]
  BY PageIs
<1>2. QED
  BY <1>1, SeqEqual

\* The store is as it was as long as a page is loaded.
LEMMA LoadKept ==
    ASSUME Types, Types', LoadInv, load' = load, store'.loaded = store.loaded,
           watched' # -1 => watched # -1 \/ store.loaded,
           reconcile'.pc = "read" => reconcile.pc = "read" \/ store.loaded,
           Loading => /\ UNCHANGED <<turn, done, logged>> /\ chan' \in {chan, <<>>}
                      /\ store'.shown = store.shown
    PROVE  LoadInv'
<1>1. ASSUME NEW l \in Loads, load[l].pc \in {"asked", "read"}
      PROVE  Asked(l)'
  <2>1. Loading /\ Asked(l)
    BY <1>1 DEF Loading, LoadInv
  <2>2. QED
    BY <2>1 DEF Asked
<1>2. QED
  BY <1>1 DEF LoadInv

LEMMA LoadStep ==
    ASSUME OnTime, LoadedOnce, OnceInv, [Next]_vars
    PROVE  LoadInv'
<1>t. /\ Types /\ Types' /\ BlockInv /\ LoadInv /\ RecInv /\ Shape(store) /\ DoneInv
      /\ Book(store) /\ done \in Seq(Seq(Chunk)) /\ logged \in Nat /\ Len(done) \in Nat
  BY TypesStep DEF OnceInv, Types, ChildTypes, TellInv
<1>b. "busyLoads" \notin Env
  BY DEF OnTime
<1>q. Loading => /\ turn.phase = "over" /\ chan = <<>> /\ logged = Len(done)
                 /\ ~store.loaded
  BY <1>t DEF Loading, LoadInv, Asked
<1>1. CASE Child
  <2>1. /\ UNCHANGED <<store, load, reconcile, watched>> /\ ~Loading
    BY <1>1, <1>b, <1>q, <1>t DEF Child, TurnStarts, Apply, PublishDelta, NextBlock,
                                  TurnEnds, Clear, Log
  <2>2. QED
    BY <1>t, <2>1, LoadKept
<1>2. CASE Client
  <2>1. store'.loaded = store.loaded
    BY <1>2, ClientTidy DEF Tidy, Tells
  <2>2. /\ UNCHANGED <<turn, done, logged, load, watched>>
        /\ reconcile'.pc = "read" => reconcile.pc = "read"
    BY <1>2, <1>t DEF Client, Attach, Resubscribe, Resync, Lagged, Forward, RecInv
  <2>3. Loading => chan' \in {chan, <<>>} /\ store'.shown = store.shown
    BY <1>2, <1>b, <1>q, <1>t DEF Client, Attach, Resubscribe, Resync, Lagged, Forward,
                                  BlockInv
  <2>4. QED
    BY <1>t, <2>1, <2>2, <2>3, LoadKept
<1>3. CASE WatchStarts \/ Watch
  <2>1. store'.loaded = store.loaded
    BY <1>3, WatchTidy DEF Tidy, Tells
  <2>2. /\ UNCHANGED <<turn, done, logged, load, chan, reconcile>>
        /\ ~Loading \/ store' = store
        /\ watched # -1 \/ store.loaded
    BY <1>3, <1>b DEF WatchStarts, Watch
  <2>3. QED
    BY <1>t, <1>3, <2>1, <2>2, LoadKept DEF WatchStarts, Watch
<1>4. CASE ReconcileAsks \/ ReconcileReads
  <2>1. /\ UNCHANGED <<turn, done, logged, load, chan, store, watched>> /\ store.loaded
    BY <1>4 DEF ReconcileAsks, ReconcileReads
  <2>2. QED
    BY <1>t, <2>1, LoadKept
<1>5. CASE ReconcileLands
  <2>1. store'.loaded = store.loaded
    BY <1>5, ReconcileTidy DEF Tidy, Tells
  <2>2. /\ UNCHANGED <<turn, done, logged, load, chan, watched>> /\ reconcile'.pc = "no"
        /\ ~Loading
    BY <1>5, <1>q, <1>t DEF ReconcileLands, LoadInv
  <2>3. QED
    BY <1>t, <2>1, <2>2, LoadKept
<1>6. CASE Forget
  <2>1. /\ UNCHANGED <<turn, done, logged, load, chan, watched, reconcile>>
        /\ store' = [store EXCEPT !.recent = {}]
    BY <1>6 DEF Forget
  <2>2. store'.loaded = store.loaded /\ store'.shown = store.shown
    BY <1>t, <2>1 DEF Shape
  <2>3. QED
    BY <1>t, <2>1, <2>2, LoadKept
<1>7. ASSUME NEW l \in Loads, LoadAsks(l) PROVE LoadInv'
  <2>1. /\ load[l].pc = "no" /\ UNCHANGED <<turn, done, logged, chan, store, watched, reconcile>>
        /\ load' = [load EXCEPT ![l].pc = "asked", ![l].before = ToSet(store.shown)]
        /\ turn.phase = "over" /\ chan = <<>> /\ logged = Len(done)
    BY <1>7, <1>b DEF LoadAsks, MayLoad
  <2>2. ~store.loaded
    BY <1>t, <2>1 DEF LoadInv
  <2>3. load[l] \in LoadType
    BY <1>t DEF LoadInv
  <2>4. /\ load'[l] = [load[l] EXCEPT !.pc = "asked", !.before = ToSet(store.shown)]
        /\ \A m \in Loads : m = l
    BY <1>t, <2>1 DEF LoadedOnce, LoadInv
  <2>5. /\ load'[l].pc = "asked" /\ load'[l].before = ToSet(store.shown)
        /\ load'[l].page = load[l].page
        /\ DOMAIN load'[l] = {"pc", "before", "page"}
    BY <2>3, <2>4 DEF LoadType
  <2>6. \A i \in 1..Len(store.shown) :
           store.shown[i] \in ToSet(store.shown) /\ store.shown[i] \in EntryType
    BY <1>t, LenProperties DEF ToSet, Book
  <2>7. ToSet(store.shown) \subseteq EntryType
    BY <1>t, <2>6, LenProperties DEF ToSet, Book
  <2>8. load'[l] \in LoadType
    BY <2>3, <2>4, <2>7 DEF LoadType
  <2>9. load' \in [Loads -> LoadType]
    <3>1. DOMAIN load' = Loads /\ load' = [m \in Loads |-> load'[m]]
      BY <1>t, <2>1 DEF LoadInv
    <3>2. QED
      BY <2>4, <2>8, <3>1
  <2>10. Asked(l)'
    BY <2>1, <2>5, <2>6 DEF Asked
  <2>11. watched' = -1 /\ reconcile'.pc # "read" /\ ~store'.loaded
    BY <1>t, <2>1, <2>2 DEF LoadInv
  <2>12. \A m \in Loads : Asked(m)'
    BY <2>4, <2>10
  <2>13. QED
    BY <2>9, <2>11, <2>12 DEF LoadInv
<1>8. ASSUME NEW l \in Loads, LoadReads(l) PROVE LoadInv'
  <2>1. /\ load[l].pc = "asked" /\ UNCHANGED <<turn, done, logged, chan, store, watched, reconcile>>
        /\ load' = [load EXCEPT ![l].pc = "read", ![l].page = Page]
    BY <1>8 DEF LoadReads
  <2>2. Asked(l) /\ ~store.loaded
    BY <1>t, <2>1 DEF LoadInv
  <2>3. load[l] \in LoadType
    BY <1>t DEF LoadInv
  <2>4. /\ load'[l] = [load[l] EXCEPT !.pc = "read", !.page = Page]
        /\ \A m \in Loads : m = l
    BY <1>t, <2>1 DEF LoadedOnce, LoadInv
  <2>5. Page = done
    BY <1>t, <2>2, WholePage DEF Asked
  <2>6. /\ load'[l].pc = "read" /\ load'[l].before = load[l].before
        /\ load'[l].page = done /\ load'[l] \in LoadType
    BY <1>t, <2>3, <2>4, <2>5 DEF LoadType
  <2>7. load' \in [Loads -> LoadType]
    <3>1. DOMAIN load' = Loads /\ load' = [m \in Loads |-> load'[m]]
      BY <1>t, <2>1 DEF LoadInv
    <3>2. QED
      BY <2>4, <2>6, <3>1
  <2>8. Asked(l)'
    BY <2>1, <2>2, <2>6 DEF Asked
  <2>9. watched' = -1 /\ reconcile'.pc # "read" /\ ~store'.loaded
    BY <1>t, <2>1, <2>2 DEF LoadInv
  <2>10. \A m \in Loads : Asked(m)'
    BY <2>4, <2>8
  <2>11. QED
    BY <2>7, <2>9, <2>10 DEF LoadInv
<1>9. ASSUME NEW l \in Loads, LoadLands(l) PROVE LoadInv'
  <2>1. /\ load' = [load EXCEPT ![l] = [pc |-> "done", before |-> {}, page |-> <<>>]]
        /\ \E shown : store' = [store EXCEPT !.shown = shown, !.loaded = TRUE]
    BY <1>9 DEF LoadLands
  <2>2. store'.loaded
    BY <1>t, <2>1 DEF Shape
  <2>3. \A m \in Loads : m = l
    BY DEF LoadedOnce
  <2>4. load' \in [Loads -> LoadType] /\ load'[l].pc = "done"
    BY <1>t, <2>1 DEF LoadInv, LoadType
  <2>5. \A m \in Loads : load'[m].pc = "done"
    BY <2>3, <2>4
  <2>6. QED
    BY <2>2, <2>4, <2>5 DEF LoadInv
<1>10. CASE UNCHANGED vars
  BY <1>t, <1>10, LoadKept DEF vars
<1>11. QED
  BY <1>1, <1>2, <1>3, <1>4, <1>5, <1>6, <1>7, <1>8, <1>9, <1>10 DEF Next, Transcript

LEMMA RecStep ==
    ASSUME OnceInv, [Next]_vars
    PROVE  RecInv'
<1>t. /\ Types /\ Types' /\ RecInv /\ done \in Seq(Seq(Chunk)) /\ Len(done) \in Nat
      /\ logged \in Nat /\ logged <= Len(done) /\ Len(done') \in Nat
  BY TypesStep DEF OnceInv, Types, ChildTypes, DoneInv
<1>p. /\ reconcile \in [pc : {"no", "asked", "read"}, page : Seq(Seq(Chunk))]
      /\ Len(reconcile.page) \in Nat
  BY <1>t DEF RecInv
<1>1. CASE Child
  <2>1. DoneGrows /\ reconcile' = reconcile
    BY <1>1, ChildTidy DEF Tidy, Child, TurnStarts, Apply, PublishDelta, NextBlock,
                           TurnEnds, Clear, Log
  <2>2. \A i \in 1..Len(reconcile.page) :
           Len(reconcile.page) <= Len(done) => i \in 1..Len(done)
    BY <1>t, <1>p
  <2>3. Len(reconcile.page) <= Len(done) => Len(reconcile.page) <= Len(done')
    BY <1>t, <1>p, <2>1 DEF DoneGrows
  <2>4. QED
    BY <1>t, <2>1, <2>2, <2>3 DEF RecInv, DoneGrows
<1>2. CASE ReconcileReads
  <2>1. reconcile' = [pc |-> "read", page |-> Page] /\ done' = done
    BY <1>2 DEF ReconcileReads
  <2>2. /\ Page \in Seq(Seq(Chunk)) /\ Len(Page) <= Len(done)
        /\ \A i \in 1..Len(Page) : Page[i] = done[i]
    BY <1>t, PageIs
  <2>3. QED
    BY <2>1, <2>2 DEF RecInv
<1>3. CASE Lagged \/ ReconcileAsks
  <2>1. done' = done /\ (reconcile' = reconcile \/ reconcile' = [reconcile EXCEPT !.pc = "asked"])
    BY <1>3 DEF Lagged, ReconcileAsks
  <2>2. QED
    BY <1>t, <1>p, <2>1 DEF RecInv
<1>4. CASE ReconcileLands
  <2>1. reconcile' = [pc |-> "no", page |-> <<>>]
    BY <1>4 DEF ReconcileLands
  <2>2. QED
    BY <2>1 DEF RecInv
<1>5. CASE UNCHANGED <<done, reconcile>>
  BY <1>t, <1>5 DEF RecInv
<1>6. \/ Attach \/ Resubscribe \/ Resync \/ Forward \/ WatchStarts \/ Watch \/ Forget
      \/ \E l \in Loads : LoadAsks(l) \/ LoadReads(l) \/ LoadLands(l)
      \/ UNCHANGED vars
      => UNCHANGED <<done, reconcile>>
  BY DEF Attach, Resubscribe, Resync, Forward, WatchStarts, Watch, Forget,
         LoadAsks, LoadReads, LoadLands, vars
<1>7. QED
  BY <1>1, <1>2, <1>3, <1>4, <1>5, <1>6 DEF Next, Client, Transcript

LEMMA OnceInit == Init => OnceInv
<1> SUFFICES ASSUME Init PROVE OnceInv
  OBVIOUS
<1>1. Types /\ BlockInv /\ DoneInv
  BY StreamInit DEF StreamInv
<1>2. /\ done = <<>> /\ chan = <<>> /\ watched = -1
      /\ load = [l \in Loads |-> [pc |-> "no", before |-> {}, page |-> <<>>]]
      /\ reconcile = [pc |-> "no", page |-> <<>>]
      /\ store = [shown |-> <<>>, acc |-> None, recent |-> {}, loaded |-> FALSE]
  BY DEF Init
<1>3. store.shown = <<>> /\ ~store.loaded
  BY <1>2
<1>4. Book(store)
  BY <1>1, <1>3 DEF Types, Book
<1>5. /\ OnceEach(store) /\ DoneOnce /\ ComesFromDone /\ ShowsWhatIsDone
      /\ RepeatsAreKnown
  BY <1>2, <1>3 DEF OnceEach, DoneOnce, ComesFromDone, ShowsWhatIsDone,
                    RepeatsAreKnown, Full
<1>6. LoadInv
  <2>1. load \in [Loads -> LoadType]
    BY <1>2 DEF LoadType
  <2>2. \A l \in Loads : load[l].pc = "no"
    BY <1>2
  <2>3. reconcile.pc = "no"
    BY <1>2
  <2>4. QED
    BY <1>2, <1>3, <2>1, <2>2, <2>3 DEF LoadInv
<1>7. RecInv
  BY <1>2 DEF RecInv
<1>8. QED
  BY <1>1, <1>4, <1>5, <1>6, <1>7 DEF OnceInv, TellInv

\* No message and no tool call is in the transcript twice, although the events,
\* the watcher and the pages tell each of them (event-store.ts: deliver,
\* loadInitial, reconcileLatest), if at most one page is loaded, between turns,
\* and no event is told again after the ten seconds for which it is known.
THEOREM ToldOnce == ASSUME OnTime, LoadedOnce PROVE Spec => []NoMessageTwice
<1>1. Init => OnceInv
  BY OnceInit
<1>2. OnceInv /\ [Next]_vars => OnceInv'
  <2>1. SUFFICES ASSUME OnceInv, [Next]_vars PROVE OnceInv'
    OBVIOUS
  <2>2. Types' /\ BlockInv' /\ DoneInv'
    BY <2>1, TypesStep, BlockStep, DoneStep DEF OnceInv
  <2>3. TellInv'
    BY <2>1, TellInvStep
  <2>4. LoadInv'
    BY <2>1, LoadStep
  <2>5. RecInv'
    BY <2>1, RecStep
  <2>6. QED
    BY <2>2, <2>3, <2>4, <2>5 DEF OnceInv
<1>3. OnceInv => NoMessageTwice
  <2>1. SUFFICES ASSUME OnceInv PROVE NoMessageTwice
    OBVIOUS
  <2>2. OnceEach(store) /\ store.shown \in Seq(EntryType)
    BY <2>1 DEF OnceInv, TellInv, Book
  <2>3. DOMAIN store.shown = 1..Len(store.shown)
    BY <2>2, LenProperties
  <2>4. QED
    BY <2>2, <2>3 DEF OnceEach, NoMessageTwice
<1>4. QED
  BY <1>1, <1>2, <1>3, PTL DEF Spec

=============================================================================
