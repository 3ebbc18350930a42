----------------------------- MODULE CrawlProofs -----------------------------
(***************************************************************************)
(* Proofs, for every set of pages, workers, schedulers and messages, that  *)
(* the variables keep their types and that no published task is lost.      *)
(***************************************************************************)
EXTENDS CrawlProperties, TLAPS

-----------------------------------------------------------------------------
(* What the operators on rows return *)

\* Times and hashes are integers.
LEMMA StampIsInt == Stamp \subseteq Int
BY DEF Stamp, None

\* Committing a transaction over a row gives a row.
LEMMA FlushType ==
    ASSUME NEW current \in Row, NEW t \in Transaction
    PROVE  Flush(current, t) \in Row
BY DEF Row, Transaction, Flush, Column

\* The rows the sessions of a worker ask for are rows.
LEMMA FetchedRowType ==
    ASSUME NEW r \in Row, NEW outcome \in Outcome, NEW now \in Nat
    PROVE  FetchedRow(r, outcome, now) \in Row
BY DEF Row, Outcome, FetchedRow, SuccessRow, FailedRow, Stamp, Status,
       ErrorType, FetchError

\* The later of two times is one of them.
LEMMA LaterType ==
    ASSUME NEW S, NEW left \in S, NEW right \in S
    PROVE  Later(left, right) \in S
BY DEF Later

\* The row the requeue asks for is a row.
LEMMA RequeuedRowType ==
    ASSUME NEW r \in Row
    PROVE  RequeuedRow(r) \in Row
BY DEF Row, RequeuedRow, Status

\* The row the discovery writer asks for is a row.
LEMMA DiscoveredRowType ==
    ASSUME NEW r \in Row, NEW modified \in Stamp
    PROVE  DiscoveredRow(r, modified) \in Row
<1>1. Later(r.source_modified_at, modified) \in Stamp
  BY LaterType DEF Row
<1>2. None \in Stamp
  BY DEF Stamp
<1> QED
  BY <1>1, <1>2 DEF Row, DiscoveredRow, AbsentRow, Status, ErrorType

\* A reply is classified with an error type of the table, or none.
LEMMA ErrorOfType ==
    ASSUME NEW n \in Nat, NEW r \in Reply
    PROVE  ErrorOf(n, r) \in FetchError
<1>1. ClassifyStatus(r.status) \in FetchError
  BY DEF ClassifyStatus, FetchError
<1> QED
  BY <1>1 DEF ErrorOf, ValidateResponse, FetchError

\* The initial transaction is one.
LEMMA NoTransactionType ==
    AbsentRow \in Row /\ NoTransaction \in Transaction
BY DEF AbsentRow, NoTransaction, Row, Transaction, Status, ErrorType, Stamp

-----------------------------------------------------------------------------
(* Type correctness *)

LEMMA InitTypeOK == Init => TypeOK
<1> SUFFICES ASSUME Init PROVE TypeOK
  OBVIOUS
<1> USE NoTransactionType
<1>1. None \in Stamp
  BY DEF Stamp
<1>2. NoOutcome \in Outcome
  BY <1>1 DEF NoOutcome, Outcome, FetchError
<1>3. 0 \in 0..MaxAttempts
  BY AttemptsAssumption
<1> QED
  BY <1>1, <1>2, <1>3
  DEF Init, TypeOK, WorkerStep, JobStep, EmptyBatch, NoTransactions

\* A worker that stops keeps the types.
LEMMA StopTypeOK ==
    ASSUME TypeOK, NEW w \in Workers, Stop(w), faults' \in Nat,
           UNCHANGED <<store, site, scheduler>>
    PROVE  TypeOK'
<1>1. NoOutcome \in Outcome
  BY DEF NoOutcome, Outcome, FetchError, Stamp
<1>2. 0 \in 0..MaxAttempts
  BY AttemptsAssumption
<1>3. msgAt' \in [Msgs -> {"free", "ready"} \cup Workers]
  BY DEF TypeOK, Stop, Requeued
<1> QED
  BY <1>1, <1>2, <1>3, NoTransactionType
  DEF TypeOK, Stop, Set, WorkerStep, store, site, scheduler

\* A job that ends keeps the types.
LEMMA JobOverTypeOK ==
    ASSUME TypeOK, NEW s \in Schedulers, JobOver(s), faults' \in Nat,
           UNCHANGED <<store, site, broker, worker>>
    PROVE  TypeOK'
<1>1. EmptyBatch \in [Pages -> Stamp \cup {NotListed}]
  BY DEF EmptyBatch
<1>2. NoTransactions \in [Pages -> Transaction]
  BY NoTransactionType DEF NoTransactions
<1> QED
  BY <1>1, <1>2
  DEF TypeOK, JobOver, Set, JobStep, store, site, broker, worker

\* Enqueueing and committing keep the types of what they write.
LEMMA EnqueueType ==
    ASSUME TypeOK, NEW m \in Msgs, NEW p \in Pages, Enqueue(m, p)
    PROVE  /\ msgAt' \in [Msgs -> {"free", "ready"} \cup Workers]
           /\ msgPage' \in [Msgs -> Pages \cup {NoPage}]
           /\ announced' \in [Pages -> BOOLEAN]
BY DEF TypeOK, Enqueue, Set

LEMMA CommitRowsType ==
    ASSUME TypeOK, NEW newRow \in [Pages -> Row], CommitRows(newRow)
    PROVE  row' \in [Pages -> Row] /\ announced' \in [Pages -> BOOLEAN]
BY DEF TypeOK, CommitRows

\* What a scheduler's session commits is a table.
LEMMA FlushedType ==
    ASSUME TypeOK, NEW s \in Schedulers
    PROVE  Flushed(s) \in [Pages -> Row]
BY FlushType DEF TypeOK, Flushed

LEMMA WorkerTypeOK ==
    ASSUME TypeOK, NEW w \in Workers,
           \/ WorkerStart(w)
           \/ \E m \in Msgs : Take(w, m)
           \/ HandleMessage(w)
           \/ WorkerCrash(w)
           \/ Disconnect(w)
    PROVE  TypeOK'
<1> USE DEF store, site, broker, worker, scheduler
<1>1. CASE WorkerStart(w)
  BY <1>1 DEF TypeOK, WorkerStart, Set, WorkerStep
<1>2. CASE \E m \in Msgs : Take(w, m)
  BY <1>2 DEF TypeOK, Take, Set, WorkerStep
<1>3. CASE Check(w)
  <2>1. 1 \in 0..MaxAttempts
    BY AttemptsAssumption
  <2>2. ~Settled(page[w]) => page[w] \in Pages
    BY DEF Settled
  <2> QED
    BY <1>3, <2>1, <2>2 DEF TypeOK, Check, Set, WorkerStep
<1>4. CASE Request(w)
  <2>1. PICK r \in Replies : Request(w)!2!(r)
    BY <1>4 DEF Request
  <2>2. r \in Reply /\ ErrorOf(streak[w], r) \in FetchError
    BY RepliesAssumption, ErrorOfType DEF TypeOK
  <2>3. NextStreak(streak[w], r) \in Nat
    BY DEF TypeOK, NextStreak
  <2>4. Retries(ErrorOf(streak[w], r), attempt[w], MaxAttempts)
            => attempt[w] + 1 \in 0..MaxAttempts
    BY AttemptsAssumption DEF TypeOK, Retries
  <2>5. 0 \in 0..MaxAttempts
    BY AttemptsAssumption
  <2>6. page[w] \in Pages /\ live[page[w]] \in Stamp /\ None \in Stamp
    BY <1>4 DEF TypeOK, Request, Stamp
  <2>7. ExitWorker(streak[w], r) \in BOOLEAN
    BY DEF ExitWorker
  <2>8. "none" \in FetchError
    BY DEF FetchError
  <2>9. got' \in [Workers -> Outcome]
    <3> DEFINE fetched == [error |-> "none", body |-> live[page[w]],
                           exit |-> FALSE]
               failed == [error |-> ErrorOf(streak[w], r), body |-> None,
                          exit |-> ExitWorker(streak[w], r)]
    <3>1. fetched \in Outcome /\ failed \in Outcome
      BY <2>2, <2>6, <2>7, <2>8 DEF Outcome
    <3>2. got' \in {got, Set(got, w, fetched), Set(got, w, failed)}
      BY <2>1
    <3> HIDE DEF fetched, failed
    <3> QED
      BY <3>1, <3>2 DEF TypeOK, Set
  <2>10. attempt' \in [Workers -> 0..MaxAttempts]
    BY <2>1, <2>4, <2>5 DEF TypeOK, Set
  <2>11. pc' \in [Workers -> WorkerStep]
    BY <2>1 DEF TypeOK, Set, WorkerStep
  <2>12. streak' \in [Workers -> Nat]
    BY <2>1, <2>3 DEF TypeOK, Set
  <2>13. \A v \in Workers : pc'[v] = pc[v] \/ v = w
    BY <2>1 DEF TypeOK, Set
  <2> QED
    BY <1>4, <2>6, <2>9, <2>10, <2>11, <2>12, <2>13 DEF TypeOK, Request
<1>5. CASE RequestEscapes(w)
  BY <1>5, StopTypeOK DEF RequestEscapes, TypeOK
<1>6. CASE Store(w)
  BY <1>6 DEF TypeOK, Store, Set, WorkerStep, Outcome
<1>7. CASE ResultRead(w)
  <2>1. FetchedRow(row[page[w]], got[w], clock) \in Row
    BY <1>7, FetchedRowType DEF TypeOK, ResultRead
  <2> QED
    BY <1>7, <2>1 DEF TypeOK, ResultRead, Set, WorkerStep, Transaction
<1>8. CASE ResultCommit(w)
  <2>1. Set(row, page[w], Flush(row[page[w]], txn[w])) \in [Pages -> Row]
    BY <1>8, FlushType DEF TypeOK, ResultCommit, Set
  <2>2. row' \in [Pages -> Row] /\ announced' \in [Pages -> BOOLEAN]
    BY <1>8, <2>1, CommitRowsType DEF ResultCommit
  <2> QED
    BY <1>8, <2>2, NoTransactionType DEF TypeOK, ResultCommit, Set, WorkerStep
<1>9. CASE Ack(w)
  <2>1. NoOutcome \in Outcome
    BY DEF NoOutcome, Outcome, FetchError, Stamp
  <2> QED
    BY <1>9, <2>1 DEF TypeOK, Ack, Set, WorkerStep
<1>10. CASE AckRaises(w)
  BY <1>10, StopTypeOK DEF AckRaises, TypeOK
<1>11. CASE WorkerCrash(w)
  BY <1>11, StopTypeOK DEF WorkerCrash, TypeOK
<1>12. CASE Disconnect(w)
  BY <1>12 DEF TypeOK, Disconnect, Requeued
<1> QED
  BY <1>1, <1>2, <1>3, <1>4, <1>5, <1>6, <1>7, <1>8, <1>9, <1>10, <1>11, <1>12
  DEF HandleMessage

LEMMA SchedulerTypeOK ==
    ASSUME TypeOK, NEW s \in Schedulers,
           \/ StartBacklog(s)
           \/ StartDiscovery(s)
           \/ RunJob(s)
           \/ PublishFails(s)
           \/ \E p \in Pages : Observe(s, p)
           \/ SourcesEnd(s)
           \/ SchedulerCrash(s)
    PROVE  TypeOK'
<1> USE DEF store, site, broker, worker, scheduler
<1>1. CASE StartBacklog(s)
  <2>1. Candidates \in SUBSET Candidate
    <3>1. \A p \in Pages : Retryable(row[p]) \in BOOLEAN
      BY DEF Retryable
    <3> QED
      BY <3>1 DEF Candidates, Candidate
  <2> QED
    BY <1>1, <2>1 DEF TypeOK, StartBacklog, Set, JobStep
<1>2. CASE StartDiscovery(s)
  BY <1>2 DEF TypeOK, StartDiscovery, Set, JobStep
<1>3. CASE PickCandidate(s)
  <2>1. PICK c \in todo[s] : PickCandidate(s)!2!(c)
    BY <1>3 DEF PickCandidate
  <2>2. c.page \in Pages
    BY <2>1 DEF TypeOK, Candidate
  <2>3. RequeuedRow(row[c.page]) \in Row
    BY <2>2, RequeuedRowType DEF TypeOK
  <2>4. stx' \in [Schedulers -> [Pages -> Transaction]]
    <3> DEFINE t == [old |-> row[c.page], new |-> RequeuedRow(row[c.page])]
    <3>1. t \in Transaction
      BY <2>2, <2>3 DEF Transaction, TypeOK
    <3>2. Set(NoTransactions, c.page, t) \in [Pages -> Transaction]
      BY <3>1, NoTransactionType DEF NoTransactions, Set
    <3>3. stx' = Set(stx, s, Set(NoTransactions, c.page, t)) \/ stx' = stx
      BY <2>1
    <3> HIDE DEF t
    <3> QED
      BY <3>2, <3>3 DEF TypeOK, Set
  <2> QED
    BY <1>3, <2>1, <2>2, <2>4 DEF TypeOK, PickCandidate, Set, JobStep
<1>4. CASE RequeueCommit(s)
  <2>1. row' \in [Pages -> Row] /\ announced' \in [Pages -> BOOLEAN]
    BY <1>4, FlushedType, CommitRowsType DEF RequeueCommit
  <2>2. NoTransactions \in [Pages -> Transaction]
    BY NoTransactionType DEF NoTransactions
  <2> QED
    BY <1>4, <2>1, <2>2 DEF TypeOK, RequeueCommit, Set, JobStep
<1>5. CASE EndBacklog(s)
  <2>1. CASE JobOver(s)
    BY <1>5, <2>1, JobOverTypeOK DEF EndBacklog, TypeOK
  <2>2. CASE ~JobOver(s)
    BY <1>5, <2>2 DEF TypeOK, EndBacklog, Set, JobStep
  <2> QED
    BY <2>1, <2>2
<1>6. CASE Publish(s)
  <2>1. PICK p \in dispatch[s], m \in Free : Publish(s)!2!(p, m)
    BY <1>6 DEF Publish
  <2>2. p \in Pages /\ m \in Msgs
    BY DEF TypeOK, Free
  <2>3. /\ msgAt' \in [Msgs -> {"free", "ready"} \cup Workers]
        /\ msgPage' \in [Msgs -> Pages \cup {NoPage}]
        /\ announced' \in [Pages -> BOOLEAN]
    BY <2>1, <2>2, EnqueueType
  <2>4. spc' \in [Schedulers -> JobStep]
    BY <2>1 DEF TypeOK, Set, JobStep
  <2> QED
    BY <1>6, <2>1, <2>3, <2>4 DEF TypeOK, Publish, Set
<1>7. CASE PublishFails(s)
  <2>1. /\ msgAt' \in [Msgs -> {"free", "ready"} \cup Workers]
        /\ msgPage' \in [Msgs -> Pages \cup {NoPage}]
        /\ announced' \in [Pages -> BOOLEAN]
    BY <1>7, EnqueueType DEF TypeOK, PublishFails, Free
  <2>2. CASE JobOver(s)
    <3>1. /\ EmptyBatch \in [Pages -> Stamp \cup {NotListed}]
          /\ NoTransactions \in [Pages -> Transaction]
      BY NoTransactionType DEF EmptyBatch, NoTransactions
    <3> QED
      BY <1>7, <2>1, <2>2, <3>1 DEF TypeOK, PublishFails, JobOver, Set, JobStep
  <2>3. CASE ~JobOver(s)
    <3>1. /\ spc' = Set(spc, s, "discover")
          /\ canPublish' = Set(canPublish, s, FALSE)
          /\ todo' = Set(todo, s, {})
          /\ dispatch' = Set(dispatch, s, {})
          /\ UNCHANGED <<listing, batch, stx, store, site, worker>>
          /\ faults' = faults + 1
      BY <1>7, <2>3 DEF PublishFails
    <3> QED
      BY <2>1, <3>1 DEF TypeOK, Set, JobStep
  <2> QED
    BY <2>2, <2>3
<1>8. CASE \E p \in Pages : Observe(s, p)
  <2>1. PICK p \in Pages : Observe(s, p)
    BY <1>8
  <2>2. PICK modified \in {live[p], None} :
            batch' = Set(batch, s, Set(batch[s], p, Later(batch[s][p], modified)))
    BY <2>1 DEF Observe
  <2>3. modified \in Stamp \cup {NotListed} /\ batch[s][p] \in Stamp \cup {NotListed}
    BY DEF TypeOK, Stamp
  <2>4. Later(batch[s][p], modified) \in Stamp \cup {NotListed}
    BY <2>3, LaterType
  <2> QED
    BY <2>1, <2>2, <2>4 DEF TypeOK, Observe, Set
<1>9. CASE SourcesEnd(s)
  BY <1>9 DEF TypeOK, SourcesEnd, Set
<1>10. CASE WriteRead(s)
  <2>1. \A p \in Listed(s) : DiscoveredRow(row[p], batch[s][p]) \in Row
    BY DiscoveredRowType DEF TypeOK, Listed
  <2>2. stx' \in [Schedulers -> [Pages -> Transaction]]
    BY <1>10, <2>1, NoTransactionType DEF TypeOK, WriteRead, Set, Transaction
  <2>3. batch' \in [Schedulers -> [Pages -> Stamp \cup {NotListed}]]
    BY <1>10 DEF TypeOK, WriteRead, Set, EmptyBatch
  <2> QED
    BY <1>10, <2>2, <2>3 DEF TypeOK, WriteRead, Set, JobStep, Listed
<1>11. CASE WriteCommit(s)
  <2>1. row' \in [Pages -> Row] /\ announced' \in [Pages -> BOOLEAN]
    BY <1>11, FlushedType, CommitRowsType DEF WriteCommit
  <2>2. NoTransactions \in [Pages -> Transaction]
    BY NoTransactionType DEF NoTransactions
  <2> QED
    BY <1>11, <2>1, <2>2 DEF TypeOK, WriteCommit, Set, JobStep
<1>12. CASE WriteConflicts(s)
  BY <1>12, JobOverTypeOK DEF WriteConflicts, TypeOK
<1>13. CASE FinishJob(s)
  BY <1>13, JobOverTypeOK DEF FinishJob, TypeOK
<1>14. CASE SchedulerCrash(s)
  BY <1>14, JobOverTypeOK DEF SchedulerCrash, TypeOK
<1> QED
  BY <1>1, <1>2, <1>3, <1>4, <1>5, <1>6, <1>7, <1>8, <1>9, <1>10, <1>11, <1>12,
     <1>13, <1>14
  DEF RunJob

\* Every step of the system keeps the types.
LEMMA NextTypeOK == TypeOK /\ [Next]_vars => TypeOK'
<1> SUFFICES ASSUME TypeOK, [Next]_vars PROVE TypeOK'
  OBVIOUS
<1>1. CASE Next
  <2>1. CASE \E p \in Pages : Edit(p)
    BY <2>1 DEF TypeOK, Edit, Set, store, broker, worker, scheduler
  <2> QED
    BY <1>1, <2>1, WorkerTypeOK, SchedulerTypeOK DEF Next
<1>2. CASE UNCHANGED vars
  BY <1>2 DEF TypeOK, vars, store, site, broker, worker, scheduler
<1> QED
  BY <1>1, <1>2

\* Every variable keeps its type, and a worker past its checks names a page.
THEOREM TypeCorrect == Spec => []TypeOK
BY InitTypeOK, NextTypeOK, PTL DEF Spec

-----------------------------------------------------------------------------
(* No task is lost *)

\* A message at a worker is the one the worker is busy with.
HeldIsInHand ==
    \A m \in Msgs, w \in Workers :
        msgAt[m] = w => msgPage[m] = page[w] /\ pc[w] \notin {"stopped", "idle"}

\* What a worker commits is final: a success or a failure.
ResultIsFinal ==
    \A w \in Workers :
        pc[w] = "commit" => txn[w].new.status \in {"success", "failed"}

\* NoLostTask alone is not inductive: that the step of a worker settles the
\* page its message names needs the two facts above.
TaskInv == TypeOK /\ HeldIsInHand /\ ResultIsFinal /\ NoLostTask

\* A step that leaves the rows alone loses no task if it leaves the messages
\* of pending pages live.
LEMMA LiveKeepsTasks ==
    ASSUME NoLostTask, UNCHANGED <<row, announced>>,
           \A m \in Msgs, p \in Pages :
               row[p].status = "pending" /\ LiveMessage(m, p)
                   => LiveMessage(m, p)'
    PROVE  NoLostTask'
BY DEF NoLostTask

\* So does a commit: a row that becomes pending has not been announced.
LEMMA CommitKeepsTasks ==
    ASSUME NoLostTask, CommitRows(row'),
           \A m \in Msgs, p \in Pages :
               row'[p].status = "pending" /\ LiveMessage(m, p)
                   => LiveMessage(m, p)'
    PROVE  NoLostTask'
<1> SUFFICES ASSUME NEW p \in Pages, row'[p].status = "pending", announced'[p]
             PROVE  \E m \in Msgs : LiveMessage(m, p)'
  BY DEF NoLostTask
<1>1. row[p].status = "pending" /\ announced[p]
  BY DEF CommitRows
<1>2. PICK m \in Msgs : LiveMessage(m, p)
  BY <1>1 DEF NoLostTask
<1> QED
  BY <1>1, <1>2

\* Steps that touch neither messages nor workers keep messages live.
LEMMA LiveUnchanged ==
    ASSUME UNCHANGED <<msgAt, msgPage, pc, txn>>, NEW m, NEW p
    PROVE  LiveMessage(m, p)' = LiveMessage(m, p)
BY DEF LiveMessage, WillSettle

\* A published page has a live message, and the others keep theirs.
LEMMA EnqueueKeepsTasks ==
    ASSUME TypeOK, NoLostTask, HeldIsInHand,
           NEW m \in Free, NEW p \in Pages, Enqueue(m, p),
           UNCHANGED <<row, pc, txn, page>>
    PROVE  NoLostTask' /\ HeldIsInHand'
<1>1. m \in Msgs /\ msgAt[m] = "free" /\ "free" \notin Workers /\ "ready" \notin Workers
  BY ProcessesAssumption DEF Free
<1>2. LiveMessage(m, p)'
  BY <1>1 DEF TypeOK, Enqueue, Set, LiveMessage
<1>3. \A n \in Msgs, q \in Pages : LiveMessage(n, q) => LiveMessage(n, q)'
  BY <1>1 DEF TypeOK, Enqueue, Set, LiveMessage, WillSettle
<1>4. \A q \in Pages : q # p => announced'[q] = announced[q]
  BY DEF TypeOK, Enqueue, Set
<1>5. NoLostTask'
  BY <1>1, <1>2, <1>3, <1>4 DEF NoLostTask
<1>6. HeldIsInHand'
  BY <1>1 DEF TypeOK, HeldIsInHand, Enqueue, Set
<1> QED
  BY <1>5, <1>6

\* A worker that stops gives its message back.
LEMMA StopKeepsTasks ==
    ASSUME TypeOK, HeldIsInHand, ResultIsFinal, NoLostTask,
           NEW w \in Workers, Stop(w), UNCHANGED row
    PROVE  NoLostTask' /\ HeldIsInHand' /\ ResultIsFinal'
<1>1. w \notin {"free", "ready"} /\ "ready" \notin Workers
  BY ProcessesAssumption
<1>2. \A m \in Msgs, p \in Pages : LiveMessage(m, p) => LiveMessage(m, p)'
  BY <1>1 DEF TypeOK, Stop, Requeued, Set, LiveMessage, WillSettle
<1>3. NoLostTask'
  BY <1>2, LiveKeepsTasks DEF Stop
<1>4. HeldIsInHand'
  BY <1>1 DEF TypeOK, Stop, Requeued, Set, HeldIsInHand
<1>5. ResultIsFinal'
  BY DEF TypeOK, Stop, Set, ResultIsFinal
<1> QED
  BY <1>3, <1>4, <1>5

LEMMA InitTask == Init => TaskInv
<1> SUFFICES ASSUME Init PROVE TaskInv
  OBVIOUS
<1>1. HeldIsInHand /\ ResultIsFinal
  BY ProcessesAssumption DEF Init, HeldIsInHand, ResultIsFinal
<1>2. NoLostTask
  BY DEF Init, NoLostTask
<1> QED
  BY <1>1, <1>2, InitTypeOK DEF TaskInv

LEMMA WorkerTask ==
    ASSUME TaskInv, NEW w \in Workers,
           \/ WorkerStart(w)
           \/ \E m \in Msgs : Take(w, m)
           \/ HandleMessage(w)
           \/ WorkerCrash(w)
           \/ Disconnect(w)
    PROVE  NoLostTask' /\ HeldIsInHand' /\ ResultIsFinal'
<1> USE ProcessesAssumption DEF store, site, broker, worker, scheduler, TaskInv
<1>1. CASE WorkerStart(w)
  <2>1. \A m \in Msgs, p \in Pages : LiveMessage(m, p) => LiveMessage(m, p)'
    BY <1>1 DEF TypeOK, WorkerStart, Set, LiveMessage, WillSettle
  <2>2. NoLostTask'
    BY <1>1, <2>1, LiveKeepsTasks DEF WorkerStart
  <2> QED
    BY <1>1, <2>2 DEF TypeOK, WorkerStart, Set, HeldIsInHand, ResultIsFinal
<1>2. CASE \E m \in Msgs : Take(w, m)
  <2>1. PICK m \in Msgs : Take(w, m)
    BY <1>2
  <2>2. \A n \in Msgs, p \in Pages : LiveMessage(n, p) => LiveMessage(n, p)'
    BY <2>1 DEF TypeOK, Take, Set, LiveMessage, WillSettle
  <2>3. NoLostTask'
    BY <2>1, <2>2, LiveKeepsTasks DEF Take
  <2>4. HeldIsInHand'
    BY <2>1 DEF TypeOK, Take, Set, HeldIsInHand
  <2> QED
    BY <2>1, <2>3, <2>4 DEF TypeOK, Take, Set, ResultIsFinal
<1>3. CASE Check(w)
  <2>1. \A m \in Msgs, p \in Pages :
            row[p].status = "pending" /\ LiveMessage(m, p) => LiveMessage(m, p)'
    BY <1>3 DEF TypeOK, HeldIsInHand, Check, Settled, Set, LiveMessage, WillSettle
  <2>2. NoLostTask'
    BY <1>3, <2>1, LiveKeepsTasks DEF Check
  <2> QED
    BY <1>3, <2>2 DEF TypeOK, Check, Set, HeldIsInHand, ResultIsFinal
<1>4. CASE Request(w)
  <2>1. /\ pc' \in {pc, Set(pc, w, "store"), Set(pc, w, "read")}
        /\ pc[w] = "request"
        /\ UNCHANGED <<row, announced, msgAt, msgPage, page, txn>>
    BY <1>4 DEF Request
  <2>2. \A m \in Msgs, p \in Pages : LiveMessage(m, p) => LiveMessage(m, p)'
    BY <2>1 DEF TypeOK, Set, LiveMessage, WillSettle
  <2>3. NoLostTask'
    BY <2>1, <2>2, LiveKeepsTasks
  <2> QED
    BY <2>1, <2>3 DEF TypeOK, Set, HeldIsInHand, ResultIsFinal
<1>5. CASE RequestEscapes(w)
  BY <1>5, StopKeepsTasks DEF RequestEscapes
<1>6. CASE Store(w)
  <2>1. \A m \in Msgs, p \in Pages : LiveMessage(m, p) => LiveMessage(m, p)'
    BY <1>6 DEF TypeOK, Store, Set, LiveMessage, WillSettle
  <2>2. NoLostTask'
    BY <1>6, <2>1, LiveKeepsTasks DEF Store
  <2> QED
    BY <1>6, <2>2 DEF TypeOK, Store, Set, HeldIsInHand, ResultIsFinal
<1>7. CASE ResultRead(w)
  <2>1. \A m \in Msgs, p \in Pages :
            row[p].status = "pending" /\ LiveMessage(m, p) => LiveMessage(m, p)'
    BY <1>7 DEF TypeOK, HeldIsInHand, ResultRead, Set, LiveMessage, WillSettle
  <2>2. NoLostTask'
    BY <1>7, <2>1, LiveKeepsTasks DEF ResultRead
  <2>3. FetchedRow(row[page[w]], got[w], clock).status \in {"success", "failed"}
    BY <1>7 DEF TypeOK, ResultRead, FetchedRow, SuccessRow, FailedRow, Row
  <2>4. ResultIsFinal'
    BY <1>7, <2>3 DEF TypeOK, ResultRead, Set, ResultIsFinal
  <2> QED
    BY <1>7, <2>2, <2>4 DEF TypeOK, ResultRead, Set, HeldIsInHand
<1>8. CASE ResultCommit(w)
  <2> DEFINE newRow == Set(row, page[w], Flush(row[page[w]], txn[w]))
  <2>1. txn[w].old.status = "pending" => newRow[page[w]].status # "pending"
    BY <1>8 DEF TypeOK, ResultCommit, ResultIsFinal, Set, Flush, Column
  <2>2. \A m \in Msgs, p \in Pages :
            newRow[p].status = "pending" /\ LiveMessage(m, p)
                => LiveMessage(m, p)'
    BY <1>8, <2>1 DEF TypeOK, HeldIsInHand, ResultCommit, Set, LiveMessage, WillSettle
  <2>3. NoLostTask'
    <3>1. CommitRows(row') /\ row' = newRow
      BY <1>8 DEF ResultCommit, CommitRows
    <3> HIDE DEF newRow
    <3> QED
      BY <2>2, <3>1, CommitKeepsTasks
  <2> QED
    BY <1>8, <2>3 DEF TypeOK, ResultCommit, Set, HeldIsInHand, ResultIsFinal
<1>9. CASE Ack(w)
  <2>1. \A m \in Msgs, p \in Pages : LiveMessage(m, p) => LiveMessage(m, p)'
    BY <1>9 DEF TypeOK, Ack, Set, LiveMessage, WillSettle
  <2>2. NoLostTask'
    BY <1>9, <2>1, LiveKeepsTasks DEF Ack
  <2> QED
    BY <1>9, <2>2 DEF TypeOK, Ack, Set, HeldIsInHand, ResultIsFinal
<1>10. CASE AckRaises(w)
  BY <1>10, StopKeepsTasks DEF AckRaises
<1>11. CASE WorkerCrash(w)
  BY <1>11, StopKeepsTasks DEF WorkerCrash
<1>12. CASE Disconnect(w)
  <2>1. \A m \in Msgs, p \in Pages : LiveMessage(m, p) => LiveMessage(m, p)'
    BY <1>12 DEF TypeOK, Disconnect, Requeued, LiveMessage, WillSettle
  <2>2. NoLostTask'
    BY <1>12, <2>1, LiveKeepsTasks DEF Disconnect
  <2> QED
    BY <1>12, <2>2 DEF TypeOK, Disconnect, Requeued, HeldIsInHand, ResultIsFinal
<1> QED
  BY <1>1, <1>2, <1>3, <1>4, <1>5, <1>6, <1>7, <1>8, <1>9, <1>10, <1>11, <1>12
  DEF HandleMessage

\* The steps of a job that leave broker and rows alone, or end it.
LEMMA QuietTask ==
    ASSUME TaskInv, UNCHANGED <<store, broker, worker>>
    PROVE  NoLostTask' /\ HeldIsInHand' /\ ResultIsFinal'
<1> USE DEF TaskInv, store, broker, worker
<1>1. NoLostTask'
  BY LiveUnchanged, LiveKeepsTasks
<1> QED
  BY <1>1 DEF HeldIsInHand, ResultIsFinal

\* A scheduler's commit.
LEMMA SchedulerCommitTask ==
    ASSUME TaskInv, NEW s \in Schedulers, CommitRows(Flushed(s)),
           UNCHANGED <<msgAt, msgPage, worker>>
    PROVE  NoLostTask' /\ HeldIsInHand' /\ ResultIsFinal'
<1> USE DEF TaskInv, worker
<1>1. \A m \in Msgs, p \in Pages : LiveMessage(m, p) => LiveMessage(m, p)'
  BY LiveUnchanged
<1>2. CommitRows(row')
  BY DEF CommitRows
<1>3. NoLostTask'
  BY <1>1, <1>2, CommitKeepsTasks
<1> QED
  BY <1>3 DEF HeldIsInHand, ResultIsFinal

LEMMA SchedulerTask ==
    ASSUME TaskInv, NEW s \in Schedulers,
           \/ StartBacklog(s)
           \/ StartDiscovery(s)
           \/ RunJob(s)
           \/ PublishFails(s)
           \/ \E p \in Pages : Observe(s, p)
           \/ SourcesEnd(s)
           \/ SchedulerCrash(s)
    PROVE  NoLostTask' /\ HeldIsInHand' /\ ResultIsFinal'
<1>1. CASE RequeueCommit(s) \/ WriteCommit(s)
  BY <1>1, SchedulerCommitTask DEF RequeueCommit, WriteCommit
<1>2. CASE Publish(s)
  <2>1. PICK p \in dispatch[s], m \in Free : Enqueue(m, p)
    BY <1>2 DEF Publish
  <2>2. p \in Pages
    BY DEF TaskInv, TypeOK
  <2>3. NoLostTask' /\ HeldIsInHand'
    BY <1>2, <2>1, <2>2, EnqueueKeepsTasks DEF TaskInv, Publish, store, worker
  <2> QED
    BY <1>2, <2>3 DEF TaskInv, Publish, worker, ResultIsFinal
<1>3. CASE PublishFails(s)
  <2>1. CASE UNCHANGED broker
    BY <1>3, <2>1, QuietTask DEF PublishFails
  <2>2. CASE \E p \in dispatch[s], m \in Free : Enqueue(m, p)
    <3>1. PICK p \in dispatch[s], m \in Free : Enqueue(m, p)
      BY <2>2
    <3>2. p \in Pages
      BY DEF TaskInv, TypeOK
    <3>3. NoLostTask' /\ HeldIsInHand'
      BY <1>3, <3>1, <3>2, EnqueueKeepsTasks
      DEF TaskInv, PublishFails, store, worker
    <3> QED
      BY <1>3, <3>3 DEF TaskInv, PublishFails, worker, ResultIsFinal
  <2> QED
    BY <1>3, <2>1, <2>2 DEF PublishFails
<1>4. CASE UNCHANGED store /\ UNCHANGED broker /\ UNCHANGED worker
  BY <1>4, QuietTask
<1> QED
  BY <1>1, <1>2, <1>3, <1>4
  DEF RunJob, StartBacklog, StartDiscovery, PickCandidate, EndBacklog, Observe,
      SourcesEnd, WriteRead, WriteConflicts, FinishJob, SchedulerCrash

\* Every step keeps the invariant.
LEMMA NextTask == TaskInv /\ [Next]_vars => TaskInv'
<1> SUFFICES ASSUME TaskInv, [Next]_vars PROVE TaskInv'
  OBVIOUS
<1>1. TypeOK'
  BY NextTypeOK DEF TaskInv
<1>2. CASE Next
  <2>1. CASE \E p \in Pages : Edit(p)
    BY <1>1, <2>1, QuietTask DEF Edit, TaskInv
  <2> QED
    BY <1>1, <1>2, <2>1, WorkerTask, SchedulerTask DEF Next, TaskInv
<1>3. CASE UNCHANGED vars
  BY <1>1, <1>3, QuietTask DEF vars, TaskInv
<1> QED
  BY <1>2, <1>3

\* A page that is pending and published has a message still to be worked on,
\* whatever is interrupted or duplicated and in whatever order.
THEOREM TasksKept == Spec => []NoLostTask
<1>1. TaskInv => NoLostTask
  BY DEF TaskInv
<1> QED
  BY <1>1, InitTask, NextTask, PTL DEF Spec
=============================================================================
