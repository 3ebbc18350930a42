---------------------------- MODULE ScanJobProofs ----------------------------
(***************************************************************************)
(* Proofs, for every set of sources, every list, queue and batch size and  *)
(* every environment, about a scheduler command: the pipeline keeps what   *)
(* is listed, implements DiscoveryPromise, and the row and the exit code   *)
(* tell what happened.                                                     *)
(***************************************************************************)
EXTENDS ScanJob, FiniteSetTheorems, SequenceTheorems, TLAPS

-----------------------------------------------------------------------------
(* Sequences *)

\* Concatenation, under a name the provers do not look through.
Then(s, t) == s \o t

\* An item goes to the end of what waits.
LEMMA AppendConcat ==
    ASSUME NEW S, NEW s \in Seq(S), NEW t \in Seq(S), NEW x \in S
    PROVE  Append(Then(s, t), x) = Then(s, Append(t, x))
BY SMTT(30) DEF Then

\* The first item that waits goes to the end of what was taken before.
LEMMA TakeHead ==
    ASSUME NEW S, NEW r \in Seq(S), NEW s \in Seq(S), NEW t \in Seq(S), t # <<>>
    PROVE  /\ Head(t) \in S /\ Tail(t) \in Seq(S)
           /\ Then(Then(r, s), t) = Then(Then(r, Append(s, Head(t))), Tail(t))
<1>1. /\ Head(t) \in S /\ Tail(t) \in Seq(S)
      /\ Len(Tail(t)) = Len(t) - 1
      /\ \A i \in 1..Len(Tail(t)) : Tail(t)[i] = t[i + 1]
      /\ Head(t) = t[1]
      /\ Len(t) \in Nat /\ Len(t) > 0
  BY HeadTailProperties, EmptySeq
<1> DEFINE h == Head(t)
           u == Tail(t)
<1> HIDE DEF h, u
<1>2. Then(Then(r, s), t) = Then(Then(r, Append(s, h)), u)
  BY <1>1, SMTT(30) DEF h, u, Then
<1> QED
  BY <1>1, <1>2 DEF h, u

\* The token is last: taking it away leaves what was there before.
LEMMA BeforeToken ==
    ASSUME NEW S, NEW s \in Seq(S), NEW x
    PROVE  /\ Append(s, x) # <<>>
           /\ Append(s, x)[Len(Append(s, x))] = x
           /\ SubSeq(Append(s, x), 1, Len(Append(s, x)) - 1) = s
BY SMTT(30)

\* Nothing more waits once the token is reached.
LEMMA TokenFirst ==
    ASSUME NEW S, NEW s \in Seq(S), NEW x, x \notin S, Head(Append(s, x)) = x
    PROVE  s = <<>> /\ Tail(Append(s, x)) = <<>>
<1>1. s = <<>>
  <2> SUFFICES ASSUME s # <<>> PROVE FALSE
    OBVIOUS
  <2>1. Head(Append(s, x)) = s[1] /\ s[1] \in S
    BY EmptySeq, SMTT(30)
  <2> QED
    BY <2>1
<1>2. Tail(<<x>>) = <<>>
  BY SMTT(30)
<1> QED
  BY <1>1, <1>2, SMTT(30)

\* An item before the token is taken as if the token were not there.
LEMMA TakeBeforeToken ==
    ASSUME NEW S, NEW s \in Seq(S), NEW x, Head(Append(s, x)) # x
    PROVE  /\ s # <<>>
           /\ Head(Append(s, x)) = Head(s)
           /\ Tail(Append(s, x)) = Append(Tail(s), x)
<1>1. s # <<>>
  <2> SUFFICES ASSUME s = <<>> PROVE FALSE
    OBVIOUS
  <2> QED
    BY SMTT(30)
<1>2. Head(Append(s, x)) = Head(s)
  BY <1>1, SMTT(30)
<1>3. Tail(Append(s, x)) = Append(Tail(s), x)
  BY <1>1, SMTT(30)
<1> QED
  BY <1>1, <1>2, <1>3

\* A batch that is written is behind what was stored before.
LEMMA WrittenOnce ==
    ASSUME NEW S, NEW r \in Seq(S), NEW s \in Seq(S)
    PROVE  Then(Then(r, s), <<>>) = Then(r, s)
BY SMTT(30) DEF Then

-----------------------------------------------------------------------------
(* The pipeline *)

Streams ==
    \A s \in Sources :
        /\ requested[s] <= Len(Pages[s])
        /\ producer[s] = "request" => unsent[s] = 0
        /\ producer[s] = "put" => unsent[s] > 0
        /\ complete[s] => producer[s] = "ended" /\ unsent[s] = 0
        /\ exhausted[s] => complete[s] /\ requested[s] = Len(Pages[s])
        /\ complete[s] /\ ~exhausted[s] => s \in Paged /\ requested[s] = MaxPages

\* What the batch holds at each step of the writer.
BatchInHand ==
    /\ writer = "get" => Len(batch) < BatchSize /\ ~flushing
    /\ writer = "write" => batch # <<>>
    /\ writer = "done" => batch = <<>> /\ flushing

\* How far the three parts may be ahead of each other.
InStep ==
    /\ supervisor # "watch" => \A s \in Sources : producer[s] \notin Running
    /\ flushing => supervisor \notin {"watch", "stop"}
    /\ supervisor = "returned" => writer = "done"
    /\ supervisor = "raised" => writer = "failed"

\* w are the items that wait: the queue, but for a token at its end.
Waits(w) ==
    /\ w \in Seq(Item)
    /\ \/ queue = w
       \/ queue = Append(w, Stop) /\ supervisor \in {"drain", "raised"} /\ ~flushing
    /\ flushing => w = <<>>
    /\ listed = Then(Then(stored, Unwritten), w)

HandOver == \E w : Waits(w)

\* A run that publishes has published every batch it is done with.
UpToDate == dispatch = "enabled" /\ writer # "handle" => published = Len(stored)

PipeInv ==
    /\ DiscoveryTypeOK
    /\ Streams
    /\ BatchInHand
    /\ InStep
    /\ HandOver
    /\ UpToDate

\* The steps of a command beside the pipeline may publish from the backlog and
\* stop the publications.
Beside ==
    /\ UNCHANGED <<tasks, queue, consumer, supervisor, listed, stored, published>>
    /\ dispatch' \in {dispatch, "failed"}
    /\ sent' \in {sent, sent + 1}

\* The steps of a source that put nothing.
Quiet(s) ==
    \/ Request(s) \/ RequestFails(s) \/ DocumentRaises(s)
    \/ SourceEnds(s) \/ PageLimitEnds(s) \/ WalkLimitEnds(s)

LEMMA QuietStep ==
    ASSUME NEW s \in Sources, Quiet(s)
    PROVE  /\ producer[s] \in Running
           /\ UNCHANGED <<queue, consumer, supervisor, dispatch, history>>
BY DEF Quiet, Request, RequestFails, DocumentRaises, SourceEnds, PageLimitEnds,
   WalkLimitEnds, Ends, Running

LEMMA PutOrQuiet == ASSUME NEW s \in Sources PROVE Produce(s) <=> Put(s) \/ Quiet(s)
BY DEF Produce, Quiet

LEMMA InitPipe == Init => PipeInv
<1> SUFFICES ASSUME Init PROVE PipeInv
  OBVIOUS
<1>1. DiscoveryTypeOK
  <2>1. /\ queue \in Seq(Item \cup {Stop}) /\ Len(queue) <= QueueMax
        /\ batch \in Seq(Item) /\ Len(batch) <= BatchSize
        /\ listed \in Seq(Item) /\ stored \in Seq(Item)
        /\ published \in 0..Len(stored) /\ sent \in Nat
    BY DiscoveryAssumption, EmptySeq, SMT DEF Init
  <2> QED
    BY <2>1 DEF Init, DiscoveryTypeOK, Running, Dispatch
<1>2. Streams
  BY DiscoveryAssumption DEF Init, Streams
<1>3. BatchInHand /\ InStep /\ UpToDate
  BY DiscoveryAssumption DEF Init, BatchInHand, InStep, UpToDate
<1>4. Waits(<<>>)
  BY SMTT(30) DEF Init, Waits, Unwritten, Then
<1> QED
  BY <1>1, <1>2, <1>3, <1>4 DEF PipeInv, HandOver

\* The items of a source are numbered.
LEMMA NextNumber ==
    ASSUME listed \in Seq(Item), NEW s \in Sources
    PROVE  NextItem(s) \in Item
<1> DEFINE own == {i \in 1..Len(listed) : listed[i][1] = s}
<1>1. IsFiniteSet(own)
  <2>1. Len(listed) \in Nat /\ IsFiniteSet(1..Len(listed))
    BY LenProperties, FS_Interval
  <2> QED
    BY <2>1, FS_Subset, Zenon
<1>2. Cardinality(own) \in Nat
  BY <1>1, FS_CardinalityType
<1> QED
  BY <1>2 DEF NextItem, Item

\* The token is met only behind the last item.
LEMMA TokenIsLast ==
    ASSUME PipeInv, queue # <<>>, Head(queue) = Stop
    PROVE  /\ supervisor \in {"drain", "raised"}
           /\ Tail(queue) = <<>>
           /\ listed = Then(Then(stored, Unwritten), <<>>)
<1>1. PICK w : Waits(w)
  BY DEF PipeInv, HandOver
<1>2. queue # w
  <2> SUFFICES ASSUME queue = w PROVE FALSE
    OBVIOUS
  <2>1. Head(queue) \in Item
    BY <1>1, HeadTailProperties DEF Waits
  <2> QED
    BY <2>1, DiscoveryAssumption
<1>3. w = <<>> /\ Tail(queue) = <<>>
  BY <1>1, <1>2, TokenFirst, DiscoveryAssumption, Zenon DEF Waits
<1> QED
  BY <1>1, <1>2, <1>3 DEF Waits

\* The steps of the producers, the writer and the supervisor keep the types.
LEMMA PipeTypes == PipeInv /\ Next => DiscoveryTypeOK'
<1> SUFFICES ASSUME PipeInv, Next PROVE DiscoveryTypeOK'
  OBVIOUS
<1> USE DiscoveryAssumption
<1>1. ASSUME NEW s \in Sources, Request(s) PROVE DiscoveryTypeOK'
  <2>1. Pages[s][requested[s] + 1] \in Nat
    BY <1>1, ElementOfSeq, LenProperties DEF Request, Due, PipeInv, DiscoveryTypeOK
  <2>2. /\ requested' \in [Sources -> Nat]
        /\ unsent' \in [Sources -> Nat]
        /\ producer' \in [Sources -> Running \cup {"ended", "error", "cancelled"}]
    BY <1>1, <2>1 DEF Request, PipeInv, DiscoveryTypeOK, Set, Running
  <2> QED
    BY <1>1, <2>2 DEF Request, PipeInv, DiscoveryTypeOK, consumer, history
<1>2. ASSUME NEW s \in Sources, RequestFails(s) PROVE DiscoveryTypeOK'
  <2>1. /\ requested' \in [Sources -> Nat]
        /\ producer' \in [Sources -> Running \cup {"ended", "error", "cancelled"}]
    <3>1. Set(requested, s, requested[s] + 1) \in [Sources -> Nat]
      BY DEF PipeInv, DiscoveryTypeOK, Set
    <3>2. requested' \in [Sources -> Nat]
      BY <1>2, <3>1 DEF RequestFails, PipeInv, DiscoveryTypeOK
    <3> QED
      BY <1>2, <3>2 DEF RequestFails, PipeInv, DiscoveryTypeOK, Set
  <2> QED
    BY <1>2, <2>1 DEF RequestFails, PipeInv, DiscoveryTypeOK, consumer, history
<1>3. ASSUME NEW s \in Sources,
             DocumentRaises(s) \/ SourceEnds(s) \/ PageLimitEnds(s) \/ WalkLimitEnds(s)
      PROVE  DiscoveryTypeOK'
  BY <1>3 DEF DocumentRaises, SourceEnds, PageLimitEnds, WalkLimitEnds, Ends,
     PipeInv, DiscoveryTypeOK, Set, Running, consumer, history
<1>4. ASSUME NEW s \in Sources, Put(s) PROVE DiscoveryTypeOK'
  <2>1. NextItem(s) \in Item
    BY <1>4, NextNumber DEF PipeInv, DiscoveryTypeOK
  <2>2. queue' \in Seq(Item \cup {Stop}) /\ Len(queue') <= QueueMax
    BY <1>4, <2>1 DEF Put, PipeInv, DiscoveryTypeOK
  <2>3. listed' \in Seq(Item)
    BY <1>4, <2>1 DEF Put, PipeInv, DiscoveryTypeOK
  <2>4. unsent' \in [Sources -> Nat]
    BY <1>4 DEF Put, PipeInv, DiscoveryTypeOK, Streams, Set
  <2> QED
    BY <1>4, <2>2, <2>3, <2>4
       DEF Put, PipeInv, DiscoveryTypeOK, Set, Running, consumer
<1>5. CASE Collect
  <2>1. /\ Head(queue) \in Item
        /\ Tail(queue) \in Seq(Item \cup {Stop})
        /\ Len(Tail(queue)) = Len(queue) - 1
    BY <1>5, HeadTailProperties DEF Collect, PipeInv, DiscoveryTypeOK
  <2>2. batch' \in Seq(Item) /\ Len(batch') <= BatchSize
    BY <1>5, <2>1 DEF Collect, PipeInv, DiscoveryTypeOK, BatchInHand
  <2>3. queue' \in Seq(Item \cup {Stop}) /\ Len(queue') <= QueueMax
    BY <1>5, <2>1 DEF Collect, PipeInv, DiscoveryTypeOK
  <2> QED
    BY <1>5, <2>2, <2>3 DEF Collect, PipeInv, DiscoveryTypeOK, tasks, history
<1>6. CASE CollectStop
  <2>1. /\ Tail(queue) \in Seq(Item \cup {Stop})
        /\ Len(Tail(queue)) = Len(queue) - 1
    BY <1>6, HeadTailProperties DEF CollectStop, PipeInv, DiscoveryTypeOK
  <2>2. queue' \in Seq(Item \cup {Stop}) /\ Len(queue') <= QueueMax
    BY <1>6, <2>1 DEF CollectStop, PipeInv, DiscoveryTypeOK
  <2> QED
    BY <1>6, <2>2 DEF CollectStop, PipeInv, DiscoveryTypeOK, tasks, history
<1>7. CASE Write
  <2>1. stored' \in Seq(Item) /\ Len(stored') >= Len(stored)
    BY <1>7, ConcatProperties, LenProperties DEF Write, PipeInv, DiscoveryTypeOK
  <2>2. published' \in 0..Len(stored')
    BY <1>7, <2>1, LenProperties DEF Write, PipeInv, DiscoveryTypeOK
  <2> QED
    BY <1>7, <2>1, <2>2 DEF Write, PipeInv, DiscoveryTypeOK, tasks
<1>8. CASE WriteFails
  BY <1>8 DEF WriteFails, PipeInv, DiscoveryTypeOK, tasks, history
<1>9. CASE Handle
  <2>1. /\ Len(stored) \in Nat /\ published' \in 0..Len(stored)
        /\ dispatch' \in Dispatch /\ sent' \in Nat
    BY <1>9, LenProperties
       DEF Handle, PublishBatch, PipeInv, DiscoveryTypeOK, Dispatch
  <2>2. batch' \in Seq(Item) /\ Len(batch') <= BatchSize
    BY <1>9, EmptySeq DEF Handle
  <2> QED
    BY <1>9, <2>1, <2>2 DEF Handle, PipeInv, DiscoveryTypeOK, tasks
<1>10. CASE PutStop
  <2>1. queue' \in Seq(Item \cup {Stop}) /\ Len(queue') <= QueueMax
    BY <1>10 DEF PutStop, PipeInv, DiscoveryTypeOK
  <2> QED
    BY <1>10, <2>1 DEF PutStop, PipeInv, DiscoveryTypeOK, tasks, consumer, history
<1>11. CASE CancelProducers
  BY <1>11 DEF CancelProducers, PipeInv, DiscoveryTypeOK, Running, consumer, history
<1>12. CASE ProducersDone \/ WriterFailedLate \/ WriterDone
  BY <1>12 DEF ProducersDone, WriterFailedLate, WriterDone, PipeInv,
     DiscoveryTypeOK, tasks, consumer, history
<1> QED
  BY <1>1, <1>2, <1>3, <1>4, <1>5, <1>6, <1>7, <1>8, <1>9, <1>10, <1>11, <1>12
     DEF Next, Produce, Consume, Supervise

\* What holds of each source goes on to hold.
LEMMA PipeStreams == PipeInv /\ Next => Streams'
<1> SUFFICES ASSUME PipeInv, Next PROVE Streams'
  OBVIOUS
<1> USE DiscoveryAssumption DEF PipeInv, DiscoveryTypeOK, Streams
<1>1. ASSUME NEW s \in Sources, Request(s) PROVE Streams'
  <2>1. Pages[s] \in Seq(Nat) /\ Len(Pages[s]) \in Nat
    BY LenProperties
  <2>2. Pages[s][requested[s] + 1] \in Nat
    BY <1>1, <2>1, ElementOfSeq DEF Request, Due
  <2>3. /\ requested'[s] <= Len(Pages[s])
        /\ producer'[s] = "request" => unsent'[s] = 0
        /\ producer'[s] = "put" => unsent'[s] > 0
        /\ ~complete'[s] /\ ~exhausted'[s]
    BY <1>1, <2>1, <2>2 DEF Request, Due, Set
  <2>4. /\ \A t \in Sources \ {s} :
              /\ requested'[t] = requested[t] /\ unsent'[t] = unsent[t]
              /\ producer'[t] = producer[t]
        /\ UNCHANGED <<complete, exhausted>>
    BY <1>1 DEF Request, Set
  <2> QED
    BY <2>3, <2>4
<1>2. ASSUME NEW s \in Sources, RequestFails(s) PROVE Streams'
  <2>1. Len(Pages[s]) \in Nat
    BY LenProperties
  <2>2. /\ requested'[s] <= Len(Pages[s]) /\ producer'[s] = "error"
        /\ ~complete'[s] /\ ~exhausted'[s]
    <3>1. Set(requested, s, requested[s] + 1)[s] = requested[s] + 1
      BY DEF Set
    <3> QED
      BY <1>2, <2>1, <3>1 DEF RequestFails, Due, Set
  <2>3. /\ \A t \in Sources \ {s} :
              requested'[t] = requested[t] /\ producer'[t] = producer[t]
        /\ UNCHANGED <<unsent, complete, exhausted>>
    BY <1>2 DEF RequestFails, Set
  <2> QED
    BY <2>2, <2>3
<1>3. ASSUME NEW s \in Sources,
             DocumentRaises(s) \/ SourceEnds(s) \/ PageLimitEnds(s) \/ WalkLimitEnds(s)
      PROVE  Streams'
  BY <1>3 DEF DocumentRaises, SourceEnds, PageLimitEnds, WalkLimitEnds, Ends, Set,
     Running
<1>4. ASSUME NEW s \in Sources, Put(s) PROVE Streams'
  BY <1>4 DEF Put, Set
<1>5. CASE Consume
  BY <1>5 DEF Consume, Collect, CollectStop, Write, WriteFails, Handle, tasks
<1>6. CASE Supervise
  BY <1>6 DEF Supervise, CancelProducers, ProducersDone, PutStop,
     WriterFailedLate, WriterDone, tasks, Running
<1> QED
  BY <1>1, <1>2, <1>3, <1>4, <1>5, <1>6 DEF Next, Produce

\* The writer and the supervisor stay in step.
LEMMA PipeSteps == PipeInv /\ Next => BatchInHand' /\ InStep' /\ UpToDate'
<1> SUFFICES ASSUME PipeInv, Next PROVE BatchInHand' /\ InStep' /\ UpToDate'
  OBVIOUS
<1> USE DiscoveryAssumption
    DEF PipeInv, DiscoveryTypeOK, BatchInHand, InStep, UpToDate
<1>1. ASSUME NEW s \in Sources, Produce(s)
      PROVE  BatchInHand' /\ InStep' /\ UpToDate'
  <2>1. producer[s] \in Running /\ supervisor = "watch"
    BY <1>1, QuietStep, PutOrQuiet DEF Put, Running
  <2>2. UNCHANGED <<consumer, supervisor, dispatch, stored, published>>
    BY <1>1, QuietStep, PutOrQuiet DEF Put, history
  <2>3. \A t \in Sources \ {s} : producer'[t] = producer[t]
    BY <1>1 DEF Produce, Request, RequestFails, DocumentRaises, SourceEnds,
       PageLimitEnds, WalkLimitEnds, Ends, Put, Set
  <2> QED
    BY <1>1, <2>1, <2>2, <2>3 DEF consumer
<1>2. CASE Collect
  BY <1>2, EmptySeq, LenProperties DEF Collect, tasks, history
<1>3. CASE CollectStop
  <2>1. supervisor \notin {"watch", "stop"}
    BY <1>3, TokenIsLast DEF CollectStop
  <2> QED
    BY <1>3, <2>1 DEF CollectStop, tasks, history
<1>4. CASE Write \/ WriteFails
  BY <1>4 DEF Write, WriteFails, tasks, history
<1>5. CASE Handle
  BY <1>5, EmptySeq DEF Handle, PublishBatch, tasks
<1>6. CASE CancelProducers
  <2>1. \A s \in Sources : producer'[s] \notin Running
    BY <1>6 DEF CancelProducers, Running
  <2> QED
    BY <1>6, <2>1 DEF CancelProducers, consumer, history
<1>7. CASE ProducersDone \/ PutStop
  BY <1>7 DEF ProducersDone, PutStop, tasks, consumer, history
<1>8. CASE WriterFailedLate \/ WriterDone
  BY <1>8 DEF WriterFailedLate, WriterDone, tasks, consumer, history
<1> QED
  BY <1>1, <1>2, <1>3, <1>4, <1>5, <1>6, <1>7, <1>8
     DEF Next, Consume, Supervise

\* What waits stays behind what was taken: the hand-over of items, one step
\* at a time.
LEMMA PipeHandOver == PipeInv /\ Next => HandOver'
<1> SUFFICES ASSUME PipeInv, Next PROVE HandOver'
  OBVIOUS
<1> PICK w : Waits(w)
  BY DEF PipeInv, HandOver
<1> USE DEF PipeInv, DiscoveryTypeOK, BatchInHand, InStep
<1>0. /\ w \in Seq(Item)
      /\ \/ queue = w
         \/ queue = Append(w, Stop) /\ supervisor \in {"drain", "raised"} /\ ~flushing
      /\ flushing => w = <<>>
      /\ listed = Then(Then(stored, Unwritten), w)
  BY DEF Waits
<1>1. ASSUME NEW s \in Sources, Put(s) PROVE HandOver'
  <2>1. supervisor = "watch" /\ ~flushing /\ queue = w
    BY <1>0, <1>1 DEF Put, Running
  <2>2. PICK x \in Item : x = NextItem(s)
    BY NextNumber
  <2>3. Then(stored, Unwritten) \in Seq(Item)
    BY ConcatProperties, EmptySeq DEF Unwritten, Then
  <2>4. listed' = Then(Then(stored, Unwritten), Append(w, x))
    <3>1. Append(Then(Then(stored, Unwritten), w), x) = Then(Then(stored, Unwritten), Append(w, x))
      <4>1. w \in Seq(Item)
        BY <1>0
      <4> QED
        BY ONLY <4>1, x \in Item, <2>3, SMTT(30) DEF Then
    <3>2. listed' = Append(listed, x)
      BY <1>1, <2>2 DEF Put
    <3> QED
      BY <1>0, <3>1, <3>2, Zenon
  <2>5. Append(w, x) \in Seq(Item)
    BY <1>0, <2>2
  <2>6. Waits(Append(w, x))'
    BY <1>1, <2>2, <2>1, <2>4, <2>5 DEF Put, Waits, Unwritten, consumer
  <2> QED
    BY <2>6 DEF HandOver
<1>2. CASE Collect
  <2>1. /\ w # <<>>
        /\ Head(queue) = Head(w)
        /\ \/ queue = w /\ queue' = Tail(w)
           \/ /\ queue = Append(w, Stop) /\ queue' = Append(Tail(w), Stop)
              /\ supervisor \in {"drain", "raised"}
    BY <1>0, <1>2, TakeBeforeToken DEF Collect
  <2>2. /\ Tail(w) \in Seq(Item)
        /\ Then(Then(stored, batch), w)
              = Then(Then(stored, Append(batch, Head(w))), Tail(w))
    <3>1. /\ batch \in Seq(Item) /\ stored \in Seq(Item)
          /\ w \in Seq(Item) /\ w # <<>>
      BY <1>0, <2>1
    <3> QED
      BY <3>1, TakeHead
  <2>3. listed' = Then(Then(stored', Unwritten'), Tail(w))
    BY <1>0, <1>2, <2>1, <2>2 DEF Collect, Unwritten, history
  <2>4. Waits(Tail(w))'
    BY <1>2, <2>1, <2>2, <2>3 DEF Collect, Waits
  <2> QED
    BY <2>4 DEF HandOver
<1>3. CASE CollectStop
  <2>1. /\ queue' = <<>>
        /\ listed = Then(Then(stored, Unwritten), <<>>)
    BY <1>3, TokenIsLast DEF CollectStop
  <2>2. listed' = Then(Then(stored', Unwritten'), <<>>)
    BY <1>3, <2>1 DEF CollectStop, Unwritten, history
  <2>3. Waits(<<>>)'
    BY <2>1, <2>2, EmptySeq DEF Waits
  <2> QED
    BY <2>3 DEF HandOver
<1>4. CASE Write
  <2>1. Then(stored', Unwritten') = Then(stored, Unwritten)
    BY <1>4, WrittenOnce DEF Write, Unwritten, Then
  <2>2. Waits(w)'
    BY <1>0, <1>4, <2>1 DEF Write, Waits
  <2> QED
    BY <2>2 DEF HandOver
<1>5. CASE Handle
  <2>1. Then(stored', Unwritten') = Then(stored, Unwritten)
    BY <1>5 DEF Handle, Unwritten
  <2>2. Waits(w)'
    BY <1>0, <1>5, <2>1 DEF Handle, Waits
  <2> QED
    BY <2>2 DEF HandOver
<1>6. CASE PutStop
  <2>1. queue = w /\ ~flushing
    BY <1>0, <1>6 DEF PutStop
  <2>2. Waits(w)'
    BY <1>0, <1>6, <2>1 DEF PutStop, Waits, Unwritten, consumer, history
  <2> QED
    BY <2>2 DEF HandOver
<1>7. CASE \/ WriteFails \/ CancelProducers \/ ProducersDone \/ WriterDone
           \/ WriterFailedLate \/ \E s \in Sources : Quiet(s)
  <2>1. UNCHANGED <<queue, batch, flushing, listed, stored, Unwritten>>
    BY <1>7, QuietStep DEF WriteFails, CancelProducers, ProducersDone,
       WriterDone, WriterFailedLate, consumer, history, Unwritten
  <2>2. supervisor \in {"drain", "raised"} /\ ~flushing =>
            supervisor' \in {"drain", "raised"}
    BY <1>7, QuietStep DEF WriteFails, CancelProducers, ProducersDone,
       WriterDone, WriterFailedLate
  <2>3. Waits(w)'
    BY <1>0, <2>1, <2>2 DEF Waits
  <2> QED
    BY <2>3 DEF HandOver
<1> QED
  BY <1>1, <1>2, <1>3, <1>4, <1>5, <1>6, <1>7, PutOrQuiet
     DEF Next, Consume, Supervise

LEMMA StepPipe == PipeInv /\ [Next]_vars => PipeInv'
<1>1. PipeInv /\ Next => PipeInv'
  BY PipeTypes, PipeStreams, PipeSteps, PipeHandOver DEF PipeInv
<1>2. PipeInv /\ UNCHANGED vars => PipeInv'
  <2> SUFFICES ASSUME PipeInv, UNCHANGED vars PROVE PipeInv'
    OBVIOUS
  <2> USE DEF vars, tasks, consumer, history
  <2>1. DiscoveryTypeOK' /\ Streams'
    BY DEF PipeInv, DiscoveryTypeOK, Streams
  <2>2. BatchInHand' /\ InStep' /\ UpToDate'
    BY DEF PipeInv, BatchInHand, InStep, UpToDate
  <2>3. HandOver'
    BY DEF PipeInv, HandOver, Waits, Unwritten
  <2> QED
    BY <2>1, <2>2, <2>3 DEF PipeInv
<1> QED
  BY <1>1, <1>2

LEMMA StopsPipe == PipeInv /\ Beside => PipeInv'
<1> SUFFICES ASSUME PipeInv, Beside PROVE PipeInv'
  OBVIOUS
<1> USE DEF Beside, tasks, consumer
<1>1. DiscoveryTypeOK' /\ Streams'
  BY DEF PipeInv, DiscoveryTypeOK, Streams, Dispatch
<1>2. BatchInHand' /\ InStep' /\ UpToDate'
  BY DEF PipeInv, BatchInHand, InStep, UpToDate
<1>3. HandOver'
  BY DEF PipeInv, HandOver, Waits, Unwritten
<1> QED
  BY <1>1, <1>2, <1>3 DEF PipeInv

\* Every step of a command is one of the pipeline, or leaves it alone.
LEMMA JobStepPipes == [JobNext]_jobVars => [Next]_vars \/ Beside
BY DEF JobNext, jobVars, Advance, Refuse, OpenRun, OpenFails, Connect,
   ConnectFails, PublishCandidate, PublicationFails, BacklogDone, BacklogRaises,
   PipelineEnds, Close, Report, Return, ReportFails, LateWrite,
   LeaveInterrupted, Interrupt, Kill, Gone, Piped, Exit, Next, Consume, vars,
   history, Beside

LEMMA PipeKept == JobSpec => []PipeInv
<1>1. JobInit => PipeInv
  BY InitPipe DEF JobInit
<1>2. PipeInv /\ [JobNext]_jobVars => PipeInv'
  BY JobStepPipes, StepPipe, StopsPipe
<1> QED
  BY <1>1, <1>2, PTL DEF JobSpec

\* What waits is what the queue holds before the token.
LEMMA WaitingWaits == ASSUME PipeInv, NEW w, Waits(w) PROVE Waiting = w
<1>1. CASE queue = w
  <2>1. ~(queue # <<>> /\ queue[Len(queue)] = Stop)
    <3> SUFFICES ASSUME queue # <<>>, queue[Len(queue)] = Stop PROVE FALSE
      OBVIOUS
    <3>1. queue \in Seq(Item) /\ Len(queue) \in 1..Len(queue)
      BY <1>1, EmptySeq, LenProperties DEF Waits
    <3>2. queue[Len(queue)] \in Item
      BY <3>1, ElementOfSeq
    <3> QED
      BY <3>2, DiscoveryAssumption
  <2> QED
    BY <1>1, <2>1 DEF Waiting
<1>2. CASE queue = Append(w, Stop)
  <2>1. /\ Append(w, Stop) # <<>>
        /\ Append(w, Stop)[Len(Append(w, Stop))] = Stop
        /\ SubSeq(Append(w, Stop), 1, Len(Append(w, Stop)) - 1) = w
    BY BeforeToken DEF Waits
  <2> QED
    BY <1>2, <2>1 DEF Waiting
<1> QED
  BY <1>1, <1>2 DEF Waits

\* Discovery.Conserved for every size of queue and batch: what was listed
\* is, in order and once each, stored, in the batch or in the queue.
THEOREM NothingDropped == JobSpec => []Conserved
<1>1. PipeInv => Conserved
  <2> SUFFICES ASSUME PipeInv PROVE Conserved
    OBVIOUS
  <2> PICK w : Waits(w)
    BY DEF PipeInv, HandOver
  <2>1. listed = Then(Then(stored, Unwritten), w)
    BY DEF Waits
  <2> QED
    BY <2>1, WaitingWaits DEF Conserved, Then
<1> QED
  BY <1>1, PipeKept, PTL

\* Discovery.OneBatchUnpublished: a run that publishes has published all it
\* stored when the next batch is committed.
THEOREM BatchByBatch == JobSpec => OneBatchUnpublished
<1>1. PipeInv /\ [JobNext]_jobVars =>
          [stored' # stored /\ dispatch = "enabled" => published = Len(stored)]_vars
  <2> SUFFICES ASSUME PipeInv, [Next]_vars \/ Beside, stored' # stored
               PROVE  writer = "write"
    BY JobStepPipes DEF PipeInv, UpToDate
  <2> QED
    BY QuietStep, PutOrQuiet DEF Next, Put, Consume, Collect, CollectStop, Write,
       WriteFails, Handle, Supervise, CancelProducers, ProducersDone, PutStop,
       WriterFailedLate, WriterDone, Beside, vars, history
<1> QED
  BY <1>1, PipeKept, PTL DEF JobSpec, OneBatchUnpublished

\* Nothing is left anywhere once the pipeline returns.
LEMMA ReturnedStoredAll ==
    ASSUME PipeInv, writer = "done"
    PROVE  listed = stored
<1> PICK w : Waits(w)
  BY DEF PipeInv, HandOver
<1>1. listed = Then(Then(stored, <<>>), <<>>)
  BY DEF Waits, PipeInv, BatchInHand, Unwritten
<1>2. stored \in Seq(Item)
  BY DEF PipeInv, DiscoveryTypeOK
<1> QED
  BY ONLY <1>1, <1>2, SMTT(30) DEF Then

\* A batch in hand is part of what was listed and not stored.
LEMMA WriteFits ==
    ASSUME PipeInv, Write
    PROVE  Len(stored') \in (Len(stored) + 1)..Len(listed)
<1> PICK w : Waits(w)
  BY DEF PipeInv, HandOver
<1>1. /\ listed = Then(Then(stored, batch), w)
      /\ batch # <<>>
  BY DEF Waits, PipeInv, BatchInHand, Write, Unwritten
<1>2. stored \in Seq(Item) /\ batch \in Seq(Item) /\ w \in Seq(Item)
  BY DEF PipeInv, DiscoveryTypeOK, Waits
<1>3. Len(stored) + Len(batch) + Len(w) = Len(listed)
  BY ONLY <1>1, <1>2, SMTT(30) DEF Then
<1>4. Len(stored') = Len(stored) + Len(batch)
  BY <1>2, ConcatProperties DEF Write
<1>5. Len(stored) \in Nat /\ Len(batch) \in Nat /\ Len(batch) > 0 /\ Len(w) \in Nat
  BY <1>1, <1>2, LenProperties, EmptySeq
<1> QED
  BY ONLY <1>3, <1>4, <1>5, SMT

\* Each step of the pipeline is one that its caller was promised, or none.
LEMMA PromiseStep ==
    PipeInv /\ [JobNext]_jobVars => [Promise!Next]_(Promise!vars)
<1> SUFFICES ASSUME PipeInv, [Next]_vars \/ Beside
             PROVE  Promise!Next \/ UNCHANGED Promise!vars
  BY JobStepPipes
<1> USE DEF Promise!Next, Promise!vars
<1>1. ASSUME NEW s \in Sources, Put(s) PROVE Promise!Next
  <2>1. supervisor = "watch" /\ UNCHANGED <<stored, supervisor>>
    BY <1>1 DEF Put, PipeInv, DiscoveryTypeOK, InStep, Running
  <2>2. listed \in Seq(Item) /\ NextItem(s) \in Item /\ listed' = Append(listed, NextItem(s))
    BY <1>1, NextNumber DEF Put, PipeInv, DiscoveryTypeOK
  <2>3. /\ listed' \in Seq(Item)
        /\ Len(listed') = Len(listed) + 1
        /\ SubSeq(listed', 1, Len(listed)) = listed
    BY ONLY <2>2, SMTT(30)
  <2> QED
    BY <2>1, <2>3 DEF Promise!List
<1>2. CASE Write
  <2>1. supervisor \notin {"returned", "raised"} /\ UNCHANGED <<listed, supervisor>>
    BY <1>2 DEF Write, PipeInv, InStep
  <2> QED
    BY <1>2, <2>1, WriteFits DEF Promise!Store
<1>3. CASE WriterDone
  BY <1>3, ReturnedStoredAll DEF WriterDone, Promise!Return, history
<1>4. CASE CancelProducers \/ WriterFailedLate
  BY <1>4 DEF CancelProducers, WriterFailedLate, Promise!Raise, history
<1>5. CASE \/ Collect \/ CollectStop \/ WriteFails \/ Handle
           \/ ProducersDone \/ PutStop \/ Beside \/ UNCHANGED vars
           \/ \E s \in Sources : Quiet(s)
  <2>1. UNCHANGED <<listed, stored>>
    BY <1>5, QuietStep DEF Collect, CollectStop, WriteFails, Handle,
       ProducersDone, PutStop, Beside, vars, history
  <2>2. \/ UNCHANGED supervisor
        \/ supervisor = "watch" /\ supervisor' = "stop"
        \/ supervisor = "stop" /\ supervisor' = "drain"
    BY <1>5, QuietStep DEF Collect, CollectStop, WriteFails, Handle,
       ProducersDone, PutStop, Beside, vars
  <2> QED
    BY <2>1, <2>2
<1> QED
  BY <1>1, <1>2, <1>3, <1>4, <1>5, PutOrQuiet DEF Next, Consume, Supervise

\* Discovery.KeepsPromise, the pipeline within a command implements
\* DiscoveryPromise: run_discovery_pipeline returns only when all that its
\* sources listed is stored, and nothing is listed or stored once it ended.
THEOREM PipelineKeepsPromise == JobSpec => KeepsPromise
<1>1. JobInit => Promise!Init
  BY LenProperties, EmptySeq DEF JobInit, Init, Promise!Init
<1>2. PipeInv /\ [JobNext]_jobVars => [Promise!Next]_(Promise!vars)
  BY PromiseStep
<1> QED
  BY <1>1, <1>2, PipeKept, PTL DEF JobSpec, KeepsPromise, Promise!Spec

-----------------------------------------------------------------------------
(* The command *)

CommandTypes ==
    /\ command \in Command
    /\ stage \in {"start", "connect", "backlog", "pipeline", "close", "report",
                  "reported", "interrupted", "exited"}
    /\ candidates \in Nat
    /\ backlog_published \in Nat
    /\ candidates + backlog_published <= MaxBacklog
    /\ urls_seen \in Nat
    /\ fatal \in BOOLEAN
    /\ row.status \in {"none", "running", "success", "failed"}
    /\ exit \in {NotYet, 0, 1, 130, Killed}
    /\ stage = "exited" <=> exit # NotYet
    /\ stage \notin {"start", "interrupted", "exited"} => Accepted(env)

\* What each stage knows of the stages before it.
Course ==
    /\ stage \in {"start", "connect"} => candidates = 0 /\ backlog_published = 0
    /\ stage = "start" => row.status = "none" /\ dispatch # "failed"
    /\ dispatch = "disabled" => command.name = "discover-only"
    /\ stage = "start" /\ dispatch = "enabled" => command.name # "discover-only"
    /\ stage = "start" /\ command.name = "publish-pending" => dispatch = "enabled"
    /\ stage \in {"connect", "backlog"} =>
           command.name # "discover-only" /\ dispatch = "enabled"
    /\ stage = "pipeline" => command.name # "publish-pending"
    /\ stage \in {"start", "connect", "backlog", "pipeline"} => ~fatal
    /\ stage \in {"start", "connect", "backlog"} => writer = "get"
    /\ stage \in {"pipeline", "close", "report", "reported"} =>
           fatal \/ dispatch = "failed" \/ candidates = 0
    /\ stage \in {"close", "report", "reported"} =>
           /\ writer \notin {"write", "handle"}
           /\ \/ command.name = "publish-pending"
              \/ fatal
              \/ supervisor = "returned"

\* Every stored item is counted, but for those of the batch in the handler.
Counted ==
    stage \notin {"interrupted", "exited"} =>
        urls_seen + (IF writer = "handle" THEN Len(batch) ELSE 0) = Len(stored)

\* What the broker took is counted, but for the message whose publication
\* failed.
Taken ==
    /\ published \in Nat /\ sent \in Nat
    /\ backlog_published + published <= sent
    /\ sent <= backlog_published + published + 1
    /\ dispatch # "failed" => sent = backlog_published + published

Final == row.status \in {"success", "failed"}

\* A final row says what the command knew when it wrote it, and nothing
\* has happened since.
RowWritten ==
    /\ Final =>
           /\ stage \in {"reported", "interrupted", "exited"}
           /\ command.name # "publish-pending"
           /\ writer \notin {"write", "handle"}
           /\ row.urls_seen = Len(stored)
           /\ row.messages_published = backlog_published + published
           /\ row.status = "success" <=> ~Failed
           /\ ~Failed =>
                  /\ supervisor = "returned" /\ candidates = 0
                  /\ \A s \in Sources : row.upstream_exhausted[s] <=> exhausted[s]
    /\ stage = "reported" /\ command.name # "publish-pending" => Final

CommandInv ==
    /\ CommandTypes
    /\ Course
    /\ Counted
    /\ Taken
    /\ RowWritten
    /\ ExitTells

LEMMA InitCommand == JobInit => CommandInv
<1> SUFFICES ASSUME JobInit PROVE CommandInv
  OBVIOUS
<1> USE ScanJobAssumption DEF JobInit, Init
<1>1. CommandTypes
  <2>1. row.status = "none"
    BY DEF NoRow
  <2>2. candidates + backlog_published <= MaxBacklog
    OBVIOUS
  <2>3. exit = NotYet
    OBVIOUS
  <2> QED
    BY <2>1, <2>2, <2>3 DEF CommandTypes
<1>2. Course
  BY DEF Course, NoRow
<1>3. Counted
  BY LenProperties, EmptySeq DEF Counted
<1>4. Taken /\ RowWritten /\ ExitTells
  BY DEF Taken, RowWritten, Final, NoRow, ExitTells, NotYet
<1> QED
  BY <1>1, <1>2, <1>3, <1>4 DEF CommandInv

\* A step within the pipeline: at most one batch is counted, and what the
\* command itself keeps stays.
LEMMA PipedStep ==
    ASSUME PipeInv, CommandInv, Piped(Next)
    PROVE  CommandInv'
<1> USE DEF Piped
<1>1. UNCHANGED <<command, env, connected, candidates, backlog_published, fatal,
                  stage, row, exit>> /\ stage = "pipeline"
  OBVIOUS
<1>2. /\ dispatch' \in {dispatch, "failed"}
      /\ \/ /\ writer = "write" /\ writer' = "handle"
            /\ stored' = stored \o batch /\ UNCHANGED batch
         \/ /\ writer = "handle" /\ writer' # "handle"
            /\ UNCHANGED stored
         \/ /\ writer # "handle" /\ writer' # "handle"
            /\ UNCHANGED stored
         \/ writer = "handle" /\ UNCHANGED <<writer, batch, stored>>
  BY QuietStep, PutOrQuiet DEF Next, Put, Consume, Collect, CollectStop, Write,
     WriteFails, Handle, PublishBatch, Supervise, CancelProducers, ProducersDone,
     PutStop, WriterFailedLate, WriterDone, consumer, history
<1>3. /\ Len(batch) \in Nat /\ Len(stored) \in Nat
      /\ Len(stored \o batch) = Len(stored) + Len(batch)
  BY ConcatProperties, LenProperties DEF PipeInv, DiscoveryTypeOK
<1>4. urls_seen' \in Nat
  BY <1>3 DEF CountHandled, CommandInv, CommandTypes
<1>5. CommandTypes'
  BY <1>1, <1>4 DEF CommandInv, CommandTypes
<1>6. Course'
  BY <1>1, <1>2 DEF CommandInv, Course
<1>7. Counted'
  <2> USE <1>1 DEF CommandInv, CommandTypes, Counted, CountHandled
  <2>1. CASE writer = "write" /\ writer' = "handle"
    <3>1. urls_seen = Len(stored) /\ urls_seen' = urls_seen
      BY <2>1
    <3>2. batch' = batch /\ Len(stored') = Len(stored) + Len(batch)
      BY <2>1, <1>2, <1>3
    <3>3. urls_seen' + Len(batch') = Len(stored')
      BY <3>1, <3>2, <1>3
    <3> QED
      BY <2>1, <3>3
  <2>2. CASE writer = "handle" /\ writer' # "handle"
    BY <2>2, <1>2, <1>3
  <2>3. CASE writer # "handle" /\ writer' # "handle"
    BY <2>3, <1>2
  <2>4. CASE writer = "handle" /\ UNCHANGED <<writer, batch, stored>>
    BY <2>4
  <2> QED
    BY <1>2, <2>1, <2>2, <2>3, <2>4
<1>8. RowWritten'
  BY <1>1 DEF CommandInv, RowWritten, Final
<1>9. ExitTells'
  BY <1>1 DEF CommandInv, CommandTypes, ExitTells, NotYet
<1>10. Taken'
  <2>1. \/ UNCHANGED <<published, sent, dispatch>>
        \/ PublishBatch
    BY QuietStep, PutOrQuiet DEF Next, Put, Consume, Collect, CollectStop, Write,
       WriteFails, Handle, Supervise, CancelProducers, ProducersDone, PutStop,
       WriterFailedLate, WriterDone, history
  <2>2. published \in 0..Len(stored) /\ backlog_published \in Nat
    BY DEF PipeInv, DiscoveryTypeOK, CommandInv, CommandTypes
  <2> QED
    BY <1>1, <1>3, <2>1, <2>2 DEF CommandInv, Taken, PublishBatch
<1> QED
  BY <1>5, <1>6, <1>7, <1>8, <1>9, <1>10 DEF CommandInv

\* The steps of the command itself that leave the pipeline alone, up to the
\* end of the pipeline.
LEMMA EarlyStep ==
    ASSUME PipeInv, CommandInv,
           OpenRun \/ Connect \/ ConnectFails \/ PublishCandidate
               \/ PublicationFails \/ BacklogDone \/ BacklogRaises \/ PipelineEnds
    PROVE  CommandInv'
<1> USE DEF OpenRun, Connect, ConnectFails, PublishCandidate, PublicationFails,
        BacklogDone, BacklogRaises, PipelineEnds, Onward, job, vars
<1>1. UNCHANGED <<tasks, queue, consumer, supervisor, listed, stored, published,
                  command, env, urls_seen, exit>>
  BY DEF history
<1>2. /\ stage \in {"start", "connect", "backlog", "pipeline"}
      /\ stage' \in {"connect", "backlog", "pipeline", "close"}
      /\ ~Final /\ ~Final'
  <2>1. stage \in {"start", "connect", "backlog", "pipeline"}
    OBVIOUS
  <2>2. stage' \in {"connect", "backlog", "pipeline", "close"}
    OBVIOUS
  <2>3. ~Final
    BY <2>1 DEF CommandInv, RowWritten
  <2> QED
    BY <2>1, <2>2, <2>3 DEF Final, NoRow, NewRow
<1>3. CommandTypes'
  <2>1. stage' \notin {"start", "interrupted", "exited"} => Accepted(env')
    BY <1>1, <1>2 DEF CommandInv, CommandTypes
  <2>2. row'.status \in {"none", "running", "success", "failed"}
    BY DEF CommandInv, CommandTypes, NoRow, NewRow
  <2>3. /\ candidates' \in Nat /\ backlog_published' \in Nat
        /\ candidates' + backlog_published' <= MaxBacklog
    BY ScanJobAssumption DEF CommandInv, CommandTypes, Course
  <2>4. fatal' \in BOOLEAN
    BY DEF CommandInv, CommandTypes
  <2> QED
    BY <1>1, <1>2, <2>1, <2>2, <2>3, <2>4 DEF CommandInv, CommandTypes
<1>4. Course'
  <2> USE <1>1 DEF CommandInv, CommandTypes, Course, PipeInv, DiscoveryTypeOK,
          Dispatch, InStep, consumer
  <2>1. CASE OpenRun \/ Connect \/ ConnectFails
    BY <2>1
  <2>2. CASE PublishCandidate \/ PublicationFails \/ BacklogDone
    BY <2>2
  <2>3. CASE BacklogRaises
    BY <2>3
  <2>4. CASE PipelineEnds
    BY <2>4
  <2> QED
    BY <2>1, <2>2, <2>3, <2>4
<1>5. Counted'
  BY <1>1, <1>2 DEF CommandInv, Counted, consumer
<1>6. RowWritten' /\ ExitTells'
  BY <1>1, <1>2 DEF CommandInv, CommandTypes, RowWritten, ExitTells, Final, NotYet
<1>7. Taken'
  <2> USE <1>1 DEF CommandInv, CommandTypes, Course, Taken, history
  <2>1. CASE OpenRun \/ Connect \/ ConnectFails \/ BacklogDone
    BY <2>1
  <2>2. CASE PublishCandidate \/ PublicationFails
    BY <2>2
  <2>3. CASE BacklogRaises \/ PipelineEnds
    BY <2>3
  <2> QED
    BY <2>1, <2>2, <2>3
<1> QED
  BY <1>3, <1>4, <1>5, <1>6, <1>7 DEF CommandInv

\* The end of the command: the row is written, the command ends.
LEMMA LateStep ==
    ASSUME PipeInv, CommandInv, Close \/ Report \/ Return
    PROVE  CommandInv'
<1> USE DEF Close, Report, Return, Exit, job, vars
<1>1. /\ UNCHANGED <<tasks, queue, consumer, supervisor, history, job>>
      /\ stage \in {"close", "report", "reported"}
      /\ stage' \in {"report", "reported", "exited"}
  OBVIOUS
<1>2. CommandTypes'
  <2>1. row'.status \in {"none", "running", "success", "failed"}
    BY DEF CommandInv, CommandTypes, NoRow, FinalRow
  <2>2. /\ exit' \in {NotYet, 0, 1, 130, Killed}
        /\ stage' = "exited" <=> exit' # NotYet
    BY DEF CommandInv, CommandTypes, NotYet
  <2> QED
    BY <1>1, <2>1, <2>2 DEF CommandInv, CommandTypes
<1>3. Course'
  BY <1>1 DEF CommandInv, Course, consumer
<1>4. Counted' /\ Taken'
  BY <1>1 DEF CommandInv, Course, Counted, Taken, consumer, history
<1>5. RowWritten' /\ ExitTells'
  <2>1. CASE Close
    <3>1. row' = row /\ ~Final /\ exit' = exit /\ exit = NotYet
      BY <2>1 DEF CommandInv, RowWritten, CommandTypes
    <3> QED
      BY <1>1, <2>1, <3>1 DEF CommandInv, RowWritten, ExitTells, Final, NotYet
  <2>2. CASE Report
    <3>1. exit' = NotYet
      BY <2>2 DEF CommandInv, CommandTypes
    <3>2. CASE command.name = "publish-pending"
      BY <1>1, <2>2, <3>1, <3>2 DEF RowWritten, ExitTells, Final, NoRow, NotYet
    <3>3. CASE command.name # "publish-pending"
      <4>1. /\ row'.status = IF Failed THEN "failed" ELSE "success"
            /\ row'.urls_seen = urls_seen
            /\ row'.messages_published = backlog_published + published
        BY <2>2, <3>3 DEF FinalRow
      <4>2. urls_seen = Len(stored) /\ writer \notin {"write", "handle"}
        BY <2>2 DEF CommandInv, CommandTypes, Counted, Course, PipeInv, DiscoveryTypeOK
      <4>3. ~Failed => supervisor = "returned" /\ candidates = 0
        BY <2>2, <3>3 DEF CommandInv, Course, Failed
      <4>4. Failed' <=> Failed
        BY <2>2 DEF Failed, Discovered, tasks
      <4>5. ~Failed => \A s \in Sources : row'.upstream_exhausted[s] <=> exhausted[s]
        BY <2>2, <3>3, <4>3 DEF FinalRow, Discovered
      <4>6. UNCHANGED <<exhausted, writer, stored, published, supervisor, candidates>>
        BY <1>1 DEF tasks, consumer, history
      <4> QED
        BY <1>1, <2>2, <3>1, <3>3, <4>1, <4>2, <4>3, <4>4, <4>5, <4>6
           DEF RowWritten, ExitTells, Final, NotYet
    <3> QED
      BY <3>2, <3>3
  <2>3. CASE Return
    <3>1. Failed' <=> Failed
      BY <2>3 DEF Failed, Discovered, tasks
    <3>2. RowWritten'
      BY <1>1, <2>3, <3>1 DEF CommandInv, RowWritten, Final, tasks, consumer, history
    <3>3. CASE command.name = "publish-pending"
      <4>1. ~Failed => candidates = 0 /\ dispatch # "failed"
        BY <2>3 DEF CommandInv, Course, Failed
      <4>2. ~Final
        BY <3>3 DEF CommandInv, RowWritten
      <4> QED
        BY <2>3, <3>2, <3>3, <4>1, <4>2 DEF ExitTells, Final
    <3>4. CASE command.name # "publish-pending"
      <4>1. row.status = "success" <=> ~Failed
        BY <2>3, <3>4 DEF CommandInv, RowWritten
      <4> QED
        BY <2>3, <3>2, <3>4, <4>1 DEF ExitTells
    <3> QED
      BY <3>3, <3>4
  <2> QED
    BY <2>1, <2>2, <2>3
<1> QED
  BY <1>2, <1>3, <1>4, <1>5 DEF CommandInv

\* A command that is refused, fails, is interrupted or is killed leaves the
\* row as it is, and a final row is not followed by another write.
LEMMA BrokenStep ==
    ASSUME PipeInv, CommandInv,
           Refuse \/ OpenFails \/ ReportFails \/ Interrupt \/ LateWrite
               \/ LeaveInterrupted \/ Kill \/ UNCHANGED jobVars
    PROVE  CommandInv'
<1> USE DEF Refuse, OpenFails, ReportFails, Interrupt, LateWrite,
        LeaveInterrupted, Kill, Exit, job, vars, jobVars, Write
<1>1. /\ UNCHANGED <<tasks, queue, flushing, batch, supervisor, dispatch, job, row,
                     published, sent>>
      /\ \/ UNCHANGED <<consumer, history>>
         \/ writer = "write" /\ stage = "interrupted" /\ stage' = "interrupted"
      /\ UNCHANGED stage \/ stage' \in {"interrupted", "exited"}
  BY DEF consumer, history
<1>2. CommandTypes'
  <2>1. /\ exit' \in {NotYet, 0, 1, 130, Killed}
        /\ stage' = "exited" <=> exit' # NotYet
    BY DEF CommandInv, CommandTypes, NotYet, Killed
  <2> QED
    BY <1>1, <2>1 DEF CommandInv, CommandTypes
<1>3. Course' /\ Counted' /\ Taken'
  BY <1>1 DEF CommandInv, Course, Counted, Taken, consumer, history
<1>4. Failed' <=> Failed
  BY <1>1 DEF Failed, Discovered, tasks
<1>5. Final => UNCHANGED <<consumer, history>>
  BY <1>1 DEF CommandInv, RowWritten
<1>6. RowWritten'
  <2>1. Final' <=> Final
    BY <1>1 DEF Final
  <2>2. CASE Final
    <3>1. stage' \in {"reported", "interrupted", "exited"}
      BY <1>1, <2>2 DEF CommandInv, RowWritten
    <3> QED
      BY <1>1, <1>4, <1>5, <2>1, <2>2, <3>1
         DEF CommandInv, RowWritten, tasks, consumer, history
  <2>3. CASE ~Final
    BY <1>1, <2>1, <2>3 DEF CommandInv, RowWritten
  <2> QED
    BY <2>2, <2>3
<1>7. ExitTells'
  <2>1. /\ exit' \in {exit, 1, 130, Killed}
        /\ exit' = 1 => exit = 1 \/ stage \in {"start", "report"}
    BY DEF Killed, NotYet
  <2>2. Final => stage \notin {"start", "report"}
    BY DEF CommandInv, RowWritten
  <2> QED
    BY <1>1, <2>1, <2>2 DEF CommandInv, ExitTells, Final, Killed
<1> QED
  BY <1>2, <1>3, <1>6, <1>7 DEF CommandInv

LEMMA CommandKept == JobSpec => [](PipeInv /\ CommandInv)
<1>1. PipeInv /\ CommandInv /\ [JobNext]_jobVars => CommandInv'
  BY PipedStep, EarlyStep, LateStep, BrokenStep DEF JobNext, Advance, Gone
<1>2. JobInit => CommandInv
  BY InitCommand
<1> QED
  BY <1>1, <1>2, PipeKept, PTL DEF JobSpec

-----------------------------------------------------------------------------
\* ScanJob.JobTypeOK, for every queue, batch and environment: the queue and a
\* batch never hold more than their size, and a command that has started has
\* settings the program accepts.
THEOREM CommandTypeCorrect == JobSpec => []JobTypeOK
<1>1. PipeInv /\ CommandInv => JobTypeOK
  BY ScanJobAssumption
     DEF PipeInv, CommandInv, CommandTypes, JobTypeOK, Accepted
<1> QED
  BY <1>1, CommandKept, PTL

\* ScanJob.RowTells: the row of every run that ended by itself counts what was
\* stored and every message the broker confirmed; it misses at most the one
\* message that the broker took and whose publication failed.
THEOREM RowsTell == JobSpec => []RowTells
<1>1. CommandInv => RowTells
  <2> SUFFICES ASSUME CommandInv, Final PROVE RowTells
    BY DEF RowTells, Final
  <2>1. row.status = "success" => dispatch # "failed"
    BY DEF CommandInv, RowWritten, Failed
  <2> QED
    BY <2>1 DEF CommandInv, CommandTypes, RowWritten, Taken, RowTells
<1> QED
  BY <1>1, CommandKept, PTL

\* ScanJob.ExitTells: the exit code is never at odds with the row.
THEOREM ExitsTell == JobSpec => []ExitTells
BY CommandKept, PTL DEF CommandInv

\* ScanJob.SuccessIsComplete: a run recorded as a success asked every source
\* it calls exhausted for all there is, and the API otherwise for all the
\* pages it was allowed; it stored every item of them and, in a full scan,
\* published all of it.
THEOREM SuccessesComplete == JobSpec => []SuccessIsComplete
<1>1. PipeInv /\ CommandInv => SuccessIsComplete
  <2> SUFFICES ASSUME PipeInv, CommandInv, row.status = "success"
               PROVE  /\ \A s \in Sources :
                            /\ unsent[s] = 0
                            /\ IF row.upstream_exhausted[s]
                               THEN requested[s] = Len(Pages[s])
                               ELSE s \in Paged /\ requested[s] = MaxPages
                      /\ stored = listed
                      /\ command.name = "full-scan" =>
                             /\ published = Len(stored)
                             /\ candidates = 0
                             /\ dispatch = "enabled"
    BY DEF SuccessIsComplete
  <2>1. ~Failed /\ supervisor = "returned" /\ candidates = 0
    BY DEF CommandInv, RowWritten, Final
  <2>2. writer = "done" /\ \A s \in Sources : complete[s]
    BY <2>1 DEF PipeInv, InStep, Failed, Discovered
  <2>3. \A s \in Sources :
            /\ unsent[s] = 0
            /\ IF row.upstream_exhausted[s]
               THEN requested[s] = Len(Pages[s])
               ELSE s \in Paged /\ requested[s] = MaxPages
    <3>1. \A s \in Sources : row.upstream_exhausted[s] <=> exhausted[s]
      BY <2>1 DEF CommandInv, RowWritten, Final
    <3> QED
      BY <2>2, <3>1 DEF PipeInv, Streams
  <2>4. stored = listed
    BY <2>2, ReturnedStoredAll
  <2>5. command.name = "full-scan" => dispatch = "enabled"
    BY <2>1 DEF Failed, CommandInv, Course, PipeInv, DiscoveryTypeOK, Dispatch
  <2>6. dispatch = "enabled" => published = Len(stored)
    BY <2>2 DEF PipeInv, UpToDate
  <2> QED
    BY <2>1, <2>3, <2>4, <2>5, <2>6
<1> QED
  BY <1>1, CommandKept, PTL
=============================================================================
