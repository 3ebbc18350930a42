------------------------------ MODULE RowProofs ------------------------------
(***************************************************************************)
(* Proofs, for every number of workers, schedulers and faults, of what     *)
(* concurrent transactions keep of a row: a page recorded as fetched has   *)
(* its file, and a message names a row that is committed.  While no two    *)
(* workers fetch one page at a time the row also describes that file, and  *)
(* neither is damaged by what is delivered again.                          *)
(***************************************************************************)
EXTENDS CrawlProofs

-----------------------------------------------------------------------------
(* Transactions over a row that others change *)

\* A row that is fetched has its file; an absent one has no columns.
RowGood(r, f) ==
    /\ r.status = "success" =>
           f # None /\ r.body_sha256 # None /\ r.last_fetched_at # None
    /\ r.status = "absent" =>
           /\ r.body_sha256 = None
           /\ r.last_fetched_at = None
           /\ r.source_modified_at = None

\* What the row r2 has not lost of r1: its existence, its hash, its time.
Grows(r1, r2) ==
    /\ r1.status # "absent" => r2.status # "absent"
    /\ r1.body_sha256 # None => r2.body_sha256 # None
    /\ r1.last_fetched_at # None => r2.last_fetched_at # None

\* The transaction t may be committed over the row r beside the file f.
Sound(t, r, f) ==
    /\ Grows(t.old, r)
    /\ Grows(t.old, t.new)
    /\ t.new.status = "absent" => t.new = t.old
    /\ t.new.status = "success" => RowGood(t.new, f)

\* A commit over whatever the row has become leaves a good row.
LEMMA FlushGood ==
    ASSUME NEW r \in Row, NEW t \in Transaction, NEW f, RowGood(r, f), Sound(t, r, f)
    PROVE  /\ RowGood(Flush(r, t), f)
           /\ Grows(r, Flush(r, t))
           /\ t.new.status # "absent" => Flush(r, t).status # "absent"
BY DEF Row, Transaction, Flush, Column, RowGood, Sound, Grows

\* A transaction stays sound while the row and the file grow.
LEMMA StaysSound ==
    ASSUME NEW t, NEW r1, NEW r2, NEW f1, NEW f2, Sound(t, r1, f1),
           Grows(r1, r2), f1 # None => f2 # None
    PROVE  Sound(t, r2, f2)
BY DEF Sound, Grows, RowGood

LEMMA NoTransactionSound ==
    ASSUME NEW r, NEW f PROVE Sound(NoTransaction, r, f)
BY DEF Sound, Grows, NoTransaction, AbsentRow

\* The sessions of the program ask for sound transactions.
LEMMA FetchedSound ==
    ASSUME NEW r \in Row, NEW outcome \in Outcome, NEW now \in Nat, NEW f,
           RowGood(r, f), outcome.error = "none" => f # None /\ outcome.body # None
    PROVE  Sound([old |-> r, new |-> FetchedRow(r, outcome, now)], r, f)
BY DEF Sound, Grows, RowGood, Row, Outcome, FetchedRow, SuccessRow, FailedRow, None

LEMMA RequeuedSound ==
    ASSUME NEW r \in Row, NEW f, RowGood(r, f)
    PROVE  Sound([old |-> r, new |-> RequeuedRow(r)], r, f)
BY DEF Sound, Grows, RowGood, Row, RequeuedRow

LEMMA DiscoveredSound ==
    ASSUME NEW r \in Row, NEW m \in Stamp, NEW f, RowGood(r, f)
    PROVE  /\ Sound([old |-> r, new |-> DiscoveredRow(r, m)], r, f)
           /\ DiscoveredRow(r, m).status # "absent"
BY DEF Sound, Grows, RowGood, Row, DiscoveredRow, AbsentRow

-----------------------------------------------------------------------------
(* The invariant *)

RowsGood == \A p \in Pages : RowGood(row[p], file[p])

\* What a worker has in hand before it commits.
WorkerSound(w) ==
    /\ pc[w] = "commit" => Sound(txn[w], row[page[w]], file[page[w]])
    /\ pc[w] = "store" => got[w].error = "none"
    /\ pc[w] \in {"store", "read"} /\ got[w].error = "none" => got[w].body # None
    /\ pc[w] = "read" /\ got[w].error = "none" => file[page[w]] # None

WorkersSound == \A w \in Workers : WorkerSound(w)

\* The open session of a job; what the job is to publish has a row, once its
\* batch is committed.
JobSound(s) ==
    /\ \A p \in Pages : Sound(stx[s][p], row[p], file[p])
    /\ \A c \in todo[s] : row[c.page].status # "absent"
    /\ \A p \in dispatch[s] :
          IF spc[s] = "write"
          THEN stx[s][p].new.status # "absent"
          ELSE row[p].status # "absent"

JobsSound == \A s \in Schedulers : JobSound(s)

RowInv ==
    /\ TypeOK
    /\ RowsGood
    /\ WorkersSound
    /\ JobsSound

\* What every step does to a page: nothing it had is lost.
PagesGrow ==
    \A p \in Pages :
        /\ Grows(row[p], row'[p])
        /\ file[p] # None => file'[p] # None

LEMMA InitRow == Init => RowInv
<1> SUFFICES ASSUME Init PROVE RowInv
  OBVIOUS
<1>1. RowsGood
  BY DEF Init, RowsGood, RowGood, AbsentRow
<1>2. WorkersSound
  BY DEF Init, WorkersSound, WorkerSound
<1>3. JobsSound
  BY NoTransactionSound DEF Init, JobsSound, JobSound, NoTransactions
<1> QED
  BY <1>1, <1>2, <1>3, InitTypeOK DEF RowInv

-----------------------------------------------------------------------------
(* Rows and files *)

\* A page that no step touches grows.
LEMMA SamePage ==
    ASSUME UNCHANGED store, RowsGood
    PROVE  PagesGrow /\ RowsGood'
BY DEF store, PagesGrow, Grows, RowsGood

LEMMA ResultCommitRows ==
    ASSUME RowInv, NEW w \in Workers, ResultCommit(w)
    PROVE  PagesGrow /\ RowsGood'
<1> DEFINE new == Flush(row[page[w]], txn[w])
<1>1. page[w] \in Pages /\ row[page[w]] \in Row /\ txn[w] \in Transaction
  BY DEF RowInv, TypeOK, ResultCommit
<1>2. RowGood(new, file[page[w]]) /\ Grows(row[page[w]], new)
  BY <1>1, FlushGood DEF RowInv, RowsGood, WorkersSound, WorkerSound, ResultCommit
<1>3. row' = [row EXCEPT ![page[w]] = new] /\ file' = file
  BY DEF ResultCommit, CommitRows, Set
<1> HIDE DEF new
<1>4. \A p \in Pages : RowGood(row'[p], file'[p]) /\ Grows(row[p], row'[p])
  BY <1>1, <1>2, <1>3 DEF RowInv, TypeOK, RowsGood, Grows
<1> QED
  BY <1>3, <1>4 DEF PagesGrow, RowsGood

LEMMA FlushedRows ==
    ASSUME RowInv, NEW s \in Schedulers, CommitRows(Flushed(s)), UNCHANGED file
    PROVE  /\ PagesGrow /\ RowsGood'
           /\ \A p \in Pages : stx[s][p].new.status # "absent" => row'[p].status # "absent"
<1>1. \A p \in Pages :
          /\ RowGood(Flush(row[p], stx[s][p]), file[p])
          /\ Grows(row[p], Flush(row[p], stx[s][p]))
          /\ stx[s][p].new.status # "absent" => Flush(row[p], stx[s][p]).status # "absent"
  BY FlushGood DEF RowInv, TypeOK, RowsGood, JobsSound, JobSound
<1>2. \A p \in Pages : row'[p] = Flush(row[p], stx[s][p])
  BY DEF CommitRows, Flushed
<1> QED
  BY <1>1, <1>2 DEF PagesGrow, RowsGood

LEMMA StoreRows ==
    ASSUME RowInv, NEW w \in Workers, Store(w)
    PROVE  PagesGrow /\ RowsGood' /\ file'[page[w]] # None
<1>1. page[w] \in Pages /\ got[w].body # None
  BY DEF RowInv, TypeOK, WorkersSound, WorkerSound, Store
<1>2. file' = [file EXCEPT ![page[w]] = got[w].body] /\ row' = row
  BY DEF Store, Set
<1>3. \A p \in Pages : file[p] # None => file'[p] # None
  BY <1>1, <1>2 DEF RowInv, TypeOK
<1> QED
  BY <1>1, <1>2, <1>3 DEF RowInv, TypeOK, PagesGrow, Grows, RowsGood, RowGood

-----------------------------------------------------------------------------
(* Workers *)

\* A worker goes on with what it has while others change rows and files.
LEMMA WorkerStays ==
    ASSUME RowInv, PagesGrow, NEW w \in Workers,
           pc'[w] = pc[w], page'[w] = page[w], got'[w] = got[w], txn'[w] = txn[w]
    PROVE  WorkerSound(w)'
<1>1. pc[w] \in {"read", "commit"} => page[w] \in Pages
  BY DEF RowInv, TypeOK
<1>2. WorkerSound(w)
  BY DEF RowInv, WorkersSound
<1>3. pc[w] = "commit" => Sound(txn[w], row'[page[w]], file'[page[w]])
  BY <1>1, <1>2, StaysSound DEF WorkerSound, PagesGrow
<1> QED
  BY <1>1, <1>2, <1>3 DEF WorkerSound, PagesGrow

\* A worker whose step begins nothing and stores nothing.
LEMMA WorkerRests ==
    ASSUME NEW w \in Workers,
           pc'[w] \notin {"commit", "store", "read"}
    PROVE  WorkerSound(w)'
BY DEF WorkerSound

LEMMA WorkerRows ==
    ASSUME RowInv, NEW w \in Workers,
           \/ WorkerStart(w)
           \/ \E m \in Msgs : Take(w, m)
           \/ HandleMessage(w)
           \/ WorkerCrash(w)
           \/ Disconnect(w)
    PROVE  PagesGrow /\ RowsGood' /\ WorkersSound'
<1> USE DEF worker
<1>1. CASE ResultCommit(w)
  <2>1. PagesGrow /\ RowsGood'
    BY <1>1, ResultCommitRows
  <2>2. pc'[w] = "ack"
    BY <1>1 DEF RowInv, TypeOK, ResultCommit, Set
  <2>3. \A v \in Workers : v # w => WorkerSound(v)'
    BY <1>1, <2>1, WorkerStays DEF RowInv, TypeOK, ResultCommit, Set
  <2> QED
    BY <2>1, <2>2, <2>3, WorkerRests DEF WorkersSound
<1>2. CASE Store(w)
  <2>1. PagesGrow /\ RowsGood' /\ file'[page[w]] # None
    BY <1>2, StoreRows
  <2>2. /\ pc'[w] = "read" /\ page'[w] = page[w] /\ got'[w] = got[w]
        /\ got[w].body # None
    BY <1>2 DEF RowInv, TypeOK, WorkersSound, WorkerSound, Store, Set
  <2>3. WorkerSound(w)'
    BY <2>1, <2>2 DEF WorkerSound
  <2>4. \A v \in Workers : v # w => WorkerSound(v)'
    BY <1>2, <2>1, WorkerStays DEF RowInv, TypeOK, Store, Set
  <2> QED
    BY <2>1, <2>3, <2>4 DEF WorkersSound
<1>3. ASSUME UNCHANGED store
      PROVE  PagesGrow /\ RowsGood'
  BY <1>3, SamePage DEF RowInv
<1>4. CASE Request(w)
  <2>1. UNCHANGED store
    BY <1>4 DEF Request
  <2>2. page[w] \in Pages /\ live[page[w]] # None
    BY <1>4 DEF RowInv, TypeOK, Request, None
  <2>3. \/ pc' = pc /\ got' = got
        \/ /\ pc'[w] = "store" /\ got'[w].error = "none"
           /\ got'[w].body = live[page[w]]
        \/ pc'[w] = "read" /\ got'[w].error # "none"
    BY <1>4 DEF RowInv, TypeOK, Request, Set
  <2>4. WorkerSound(w)'
    BY <1>4, <2>2, <2>3 DEF Request, RowInv, WorkersSound, WorkerSound
  <2>5. \A v \in Workers : v # w => WorkerSound(v)'
    <3>1. \A v \in Workers : v # w => pc'[v] = pc[v] /\ got'[v] = got[v]
      BY <1>4 DEF RowInv, TypeOK, Request, Set
    <3> QED
      BY <1>3, <1>4, <2>1, <3>1, WorkerStays DEF Request
  <2> QED
    BY <1>3, <2>1, <2>4, <2>5 DEF WorkersSound
<1>5. CASE ResultRead(w)
  <2>1. UNCHANGED store /\ UNCHANGED <<row, file, page>>
    BY <1>5 DEF ResultRead, store
  <2>2. page[w] \in Pages /\ got[w] \in Outcome /\ clock \in Nat
    BY <1>5 DEF RowInv, TypeOK, ResultRead
  <2>3. Sound([old |-> row[page[w]], new |-> FetchedRow(row[page[w]], got[w], clock)],
              row[page[w]], file[page[w]])
    <3>1. got[w].error = "none" => file[page[w]] # None /\ got[w].body # None
      BY <1>5 DEF ResultRead, RowInv, WorkersSound, WorkerSound
    <3>2. row[page[w]] \in Row /\ RowGood(row[page[w]], file[page[w]])
      BY <2>2 DEF RowInv, TypeOK, RowsGood
    <3> QED
      BY <2>2, <3>1, <3>2, FetchedSound
  <2>4. pc'[w] = "commit" /\ txn'[w] = [old |-> row[page[w]],
                             new |-> FetchedRow(row[page[w]], got[w], clock)]
    BY <1>5 DEF RowInv, TypeOK, ResultRead, Set
  <2>5. WorkerSound(w)'
    BY <2>1, <2>3, <2>4 DEF WorkerSound
  <2>6. \A v \in Workers : v # w => WorkerSound(v)'
    BY <1>3, <1>5, <2>1, WorkerStays DEF RowInv, TypeOK, ResultRead, Set
  <2> QED
    BY <1>3, <2>1, <2>5, <2>6 DEF WorkersSound
<1>6. CASE Disconnect(w)
  BY <1>3, <1>6, WorkerStays DEF Disconnect, WorkersSound
<1>7. CASE WorkerStart(w) \/ (\E m \in Msgs : Take(w, m)) \/ Check(w) \/ Ack(w)
  <2>1. UNCHANGED store
    BY <1>7 DEF WorkerStart, Take, Check, Ack
  <2>2. pc'[w] \notin {"commit", "store", "read"}
    BY <1>7 DEF RowInv, TypeOK, WorkerStart, Take, Check, Ack, Set
  <2>3. \A v \in Workers : v # w =>
            /\ pc'[v] = pc[v] /\ page'[v] = page[v]
            /\ got'[v] = got[v] /\ txn'[v] = txn[v]
    BY <1>7 DEF RowInv, TypeOK, WorkerStart, Take, Check, Ack, Set
  <2> QED
    BY <1>3, <2>1, <2>2, <2>3, WorkerStays, WorkerRests DEF WorkersSound
<1>8. CASE RequestEscapes(w) \/ AckRaises(w) \/ WorkerCrash(w)
  <2>1. UNCHANGED store /\ Stop(w)
    BY <1>8 DEF RequestEscapes, AckRaises, WorkerCrash
  <2>2. pc'[w] \notin {"commit", "store", "read"}
    BY <2>1 DEF RowInv, TypeOK, Stop, Set
  <2>3. \A v \in Workers : v # w =>
            /\ pc'[v] = pc[v] /\ page'[v] = page[v]
            /\ got'[v] = got[v] /\ txn'[v] = txn[v]
    BY <2>1 DEF RowInv, TypeOK, Stop, Set
  <2> QED
    BY <1>3, <2>1, <2>2, <2>3, WorkerStays, WorkerRests DEF WorkersSound
<1> QED
  BY <1>1, <1>2, <1>4, <1>5, <1>6, <1>7, <1>8 DEF HandleMessage

-----------------------------------------------------------------------------
(* Jobs *)

\* A job goes on with what it has while others change rows and files.
LEMMA JobStays ==
    ASSUME RowInv, PagesGrow, NEW s \in Schedulers,
           stx'[s] = stx[s], todo'[s] \subseteq todo[s],
           \/ dispatch'[s] \subseteq dispatch[s] /\ spc'[s] = spc[s]
           \/ dispatch'[s] \subseteq dispatch[s] /\ spc[s] # "write" /\ spc'[s] # "write"
           \/ dispatch'[s] = {}
    PROVE  JobSound(s)'
<1>1. JobSound(s) /\ todo[s] \subseteq Candidate /\ dispatch[s] \subseteq Pages
  BY DEF RowInv, JobsSound, TypeOK
<1>2. \A p \in Pages : Sound(stx[s][p], row'[p], file'[p])
  BY <1>1, StaysSound DEF JobSound, PagesGrow
<1>3. \A c \in todo'[s] : row'[c.page].status # "absent"
  BY <1>1 DEF JobSound, Candidate, PagesGrow, Grows
<1>4. \A p \in dispatch'[s] :
          IF spc'[s] = "write" THEN stx'[s][p].new.status # "absent"
          ELSE row'[p].status # "absent"
  BY <1>1 DEF JobSound, PagesGrow, Grows
<1> QED
  BY <1>2, <1>3, <1>4 DEF JobSound

\* A job that ends, or has no session, nothing to requeue or to publish.
LEMMA JobRests ==
    ASSUME NEW s \in Schedulers, stx'[s] = NoTransactions,
           todo'[s] = {}, dispatch'[s] = {}
    PROVE  JobSound(s)'
BY NoTransactionSound DEF JobSound, NoTransactions

LEMMA OverRests ==
    ASSUME TypeOK, NEW s \in Schedulers, JobOver(s)
    PROVE  /\ JobSound(s)'
           /\ \A t \in Schedulers : t # s =>
                  /\ stx'[t] = stx[t] /\ todo'[t] = todo[t]
                  /\ dispatch'[t] = dispatch[t] /\ spc'[t] = spc[t]
<1>1. /\ stx'[s] = NoTransactions /\ todo'[s] = {} /\ dispatch'[s] = {}
      /\ \A t \in Schedulers : t # s =>
             /\ stx'[t] = stx[t] /\ todo'[t] = todo[t]
             /\ dispatch'[t] = dispatch[t] /\ spc'[t] = spc[t]
  BY DEF TypeOK, JobOver, Set
<1> QED
  BY <1>1, JobRests

\* A commit of a job: what it is to publish has a row afterwards.
LEMMA CommitSound ==
    ASSUME RowInv, NEW s \in Schedulers, CommitRows(Flushed(s)), UNCHANGED file,
           stx' = Set(stx, s, NoTransactions), UNCHANGED todo,
           spc[s] \in {"requeue", "write"}, spc'[s] # "write",
           dispatch'[s] \subseteq dispatch[s]
    PROVE  JobSound(s)'
<1>1. /\ PagesGrow
      /\ \A p \in Pages : stx[s][p].new.status # "absent" => row'[p].status # "absent"
  BY FlushedRows
<1>2. JobSound(s) /\ todo[s] \subseteq Candidate /\ dispatch[s] \subseteq Pages
  BY DEF RowInv, JobsSound, TypeOK
<1>3. stx'[s] = NoTransactions
  BY DEF RowInv, TypeOK, Set
<1>4. \A p \in Pages : Sound(stx'[s][p], row'[p], file'[p])
  BY <1>3, NoTransactionSound DEF NoTransactions
<1>5. \A c \in todo'[s] : row'[c.page].status # "absent"
  BY <1>1, <1>2 DEF JobSound, Candidate, PagesGrow, Grows
<1>6. \A p \in dispatch'[s] : row'[p].status # "absent"
  BY <1>1, <1>2 DEF JobSound, PagesGrow, Grows
<1> QED
  BY <1>4, <1>5, <1>6 DEF JobSound

LEMMA SchedulerRows ==
    ASSUME RowInv, NEW s \in Schedulers,
           \/ StartBacklog(s)
           \/ StartDiscovery(s)
           \/ RunJob(s)
           \/ PublishFails(s)
           \/ \E p \in Pages : Observe(s, p)
           \/ SourcesEnd(s)
           \/ SchedulerCrash(s)
    PROVE  PagesGrow /\ RowsGood' /\ JobsSound'
<1>1. CASE RequeueCommit(s) \/ WriteCommit(s)
  <2>1. CommitRows(Flushed(s)) /\ UNCHANGED <<file, todo>>
    BY <1>1 DEF RequeueCommit, WriteCommit
  <2>2. PagesGrow /\ RowsGood'
    BY <2>1, FlushedRows
  <2>3. /\ stx' = Set(stx, s, NoTransactions)
        /\ spc[s] \in {"requeue", "write"} /\ spc'[s] # "write"
        /\ dispatch'[s] \subseteq dispatch[s]
    BY <1>1 DEF RowInv, TypeOK, RequeueCommit, WriteCommit, Set
  <2>4. JobSound(s)'
    BY <2>1, <2>3, CommitSound
  <2>5. \A t \in Schedulers : t # s =>
            /\ stx'[t] = stx[t] /\ todo'[t] = todo[t]
            /\ dispatch'[t] = dispatch[t] /\ spc'[t] = spc[t]
    BY <1>1 DEF RowInv, TypeOK, RequeueCommit, WriteCommit, Set
  <2>6. \A t \in Schedulers : t # s => JobSound(t)'
    BY <2>2, <2>5, JobStays
  <2> QED
    BY <2>2, <2>4, <2>6 DEF JobsSound
<1>2. ASSUME UNCHANGED store, JobSound(s)',
             \A t \in Schedulers : t # s =>
                 /\ stx'[t] = stx[t] /\ todo'[t] = todo[t]
                 /\ dispatch'[t] = dispatch[t] /\ spc'[t] = spc[t]
      PROVE  PagesGrow /\ RowsGood' /\ JobsSound'
  <2>1. PagesGrow /\ RowsGood'
    BY <1>2, SamePage DEF RowInv
  <2>2. \A t \in Schedulers : t # s => JobSound(t)'
    BY <1>2, <2>1, JobStays
  <2> QED
    BY <1>2, <2>1, <2>2 DEF JobsSound
<1>3. ASSUME UNCHANGED store PROVE PagesGrow
  BY <1>3, SamePage DEF RowInv
<1>4. ASSUME JobOver(s), UNCHANGED store PROVE PagesGrow /\ RowsGood' /\ JobsSound'
  BY <1>2, <1>4, OverRests DEF RowInv
<1>5. CASE StartBacklog(s)
  <2>1. /\ UNCHANGED <<store, row, file, stx, dispatch>>
        /\ todo'[s] = Candidates /\ spc'[s] # "write" /\ spc[s] # "write"
        /\ \A t \in Schedulers : t # s => todo'[t] = todo[t] /\ spc'[t] = spc[t]
    BY <1>5 DEF RowInv, TypeOK, StartBacklog, Set, store
  <2>2. \A c \in todo'[s] : row'[c.page].status # "absent"
    BY <2>1 DEF Candidates, Retryable
  <2>3. JobSound(s)'
    BY <2>1, <2>2 DEF RowInv, JobsSound, JobSound
  <2> QED
    BY <1>2, <2>1, <2>3
<1>6. CASE PickCandidate(s)
  <2>1. PICK c \in todo[s] : PickCandidate(s)!2!(c)
    BY <1>6 DEF PickCandidate
  <2>2. /\ c.page \in Pages /\ row[c.page].status # "absent"
        /\ row[c.page] \in Row /\ RowGood(row[c.page], file[c.page])
    BY DEF RowInv, TypeOK, Candidate, JobsSound, JobSound, RowsGood
  <2>3. /\ UNCHANGED <<store, row, file>>
        /\ todo'[s] \subseteq todo[s] /\ dispatch'[s] = {c.page}
        /\ spc'[s] # "write"
        /\ \A t \in Schedulers : t # s =>
               /\ stx'[t] = stx[t] /\ todo'[t] = todo[t]
               /\ dispatch'[t] = dispatch[t] /\ spc'[t] = spc[t]
    BY <1>6, <2>1 DEF RowInv, TypeOK, PickCandidate, Set, store
  <2>4. \A p \in Pages : Sound(stx'[s][p], row[p], file[p])
    <3> DEFINE t == [old |-> row[c.page], new |-> RequeuedRow(row[c.page])]
    <3>1. Sound(t, row[c.page], file[c.page])
      BY <2>2, RequeuedSound
    <3>2. \/ stx'[s] = stx[s]
          \/ stx'[s] = Set(NoTransactions, c.page, t)
      BY <2>1 DEF RowInv, TypeOK, Set
    <3> HIDE DEF t
    <3>3. \A p \in Pages : Set(NoTransactions, c.page, t)[p] \in {t, NoTransaction}
              /\ (Set(NoTransactions, c.page, t)[p] = t => p = c.page
                      \/ t = NoTransaction)
      BY DEF Set, NoTransactions
    <3> QED
      BY <3>1, <3>2, <3>3, NoTransactionSound DEF RowInv, JobsSound, JobSound
  <2>5. JobSound(s)'
    BY <2>2, <2>3, <2>4 DEF RowInv, JobsSound, JobSound
  <2> QED
    BY <1>2, <2>3, <2>5
<1>7. CASE WriteRead(s)
  <2> DEFINE t(p) == [old |-> row[p], new |-> DiscoveredRow(row[p], batch[s][p])]
  <2>1. \A p \in Listed(s) : p \in Pages /\ batch[s][p] \in Stamp
    BY DEF RowInv, TypeOK, Listed
  <2>2. \A p \in Listed(s) : Sound(t(p), row[p], file[p])
                             /\ DiscoveredRow(row[p], batch[s][p]).status # "absent"
    BY <2>1, DiscoveredSound DEF RowInv, TypeOK, RowsGood
  <2>3. /\ UNCHANGED <<store, row, file, todo>> /\ spc'[s] = "write"
        /\ \A p \in Pages : stx'[s][p] = IF p \in Listed(s) THEN t(p) ELSE NoTransaction
        /\ dispatch'[s] \subseteq Listed(s)
        /\ \A u \in Schedulers : u # s =>
               stx'[u] = stx[u] /\ dispatch'[u] = dispatch[u] /\ spc'[u] = spc[u]
    BY <1>7 DEF RowInv, TypeOK, WriteRead, Set, store
  <2>4. \A p \in Pages : Sound(stx'[s][p], row[p], file[p])
    BY <2>2, <2>3, NoTransactionSound
  <2>5. \A p \in dispatch'[s] : stx'[s][p].new.status # "absent"
    <3>1. \A p \in Listed(s) : t(p).new.status # "absent"
      BY <2>2
    <3> HIDE DEF t
    <3> QED
      BY <2>1, <2>3, <3>1
  <2>6. JobSound(s)'
    BY <2>3, <2>4, <2>5 DEF RowInv, JobsSound, JobSound
  <2> QED
    BY <1>2, <2>3, <2>6
<1>8. CASE \/ EndBacklog(s) \/ WriteConflicts(s) \/ FinishJob(s) \/ SchedulerCrash(s)
           \/ PublishFails(s)
  <2>1. UNCHANGED store
    BY <1>8 DEF EndBacklog, WriteConflicts, FinishJob, SchedulerCrash, PublishFails
  <2>2. CASE JobOver(s)
    BY <1>4, <2>1, <2>2
  <2>3. CASE ~JobOver(s)
    <3>1. /\ stx' = stx /\ todo'[s] \subseteq todo[s] /\ dispatch'[s] \subseteq dispatch[s]
          /\ spc[s] # "write" /\ spc'[s] # "write"
          /\ \A t \in Schedulers : t # s =>
                 todo'[t] = todo[t] /\ dispatch'[t] = dispatch[t] /\ spc'[t] = spc[t]
      BY <1>8, <2>3 DEF RowInv, TypeOK, EndBacklog, WriteConflicts, FinishJob,
         SchedulerCrash, PublishFails, Set
    <3>2. JobSound(s)'
      BY <1>3, <2>1, <3>1, JobStays
    <3> QED
      BY <1>2, <2>1, <3>1, <3>2
  <2> QED
    BY <2>2, <2>3
<1>9. CASE \/ StartDiscovery(s) \/ Publish(s) \/ SourcesEnd(s)
           \/ \E p \in Pages : Observe(s, p)
  <2>1. /\ UNCHANGED <<store, stx, todo>>
        /\ dispatch'[s] \subseteq dispatch[s]
        /\ spc'[s] = spc[s] \/ (spc[s] # "write" /\ spc'[s] # "write")
        /\ \A t \in Schedulers : t # s => dispatch'[t] = dispatch[t] /\ spc'[t] = spc[t]
    BY <1>9 DEF RowInv, TypeOK, StartDiscovery, Publish, SourcesEnd, Observe, Set
  <2>2. JobSound(s)'
    BY <1>3, <2>1, JobStays
  <2> QED
    BY <1>2, <2>1, <2>2
<1> QED
  BY <1>1, <1>5, <1>6, <1>7, <1>8, <1>9 DEF RunJob

LEMMA NextRow == RowInv /\ [Next]_vars => RowInv'
<1> SUFFICES ASSUME RowInv, [Next]_vars PROVE RowInv'
  OBVIOUS
<1>1. TypeOK'
  BY NextTypeOK DEF RowInv
<1>2. ASSUME PagesGrow, UNCHANGED worker PROVE WorkersSound'
  BY <1>2, WorkerStays DEF worker, WorkersSound
<1>3. ASSUME PagesGrow, UNCHANGED scheduler PROVE JobsSound'
  BY <1>3, JobStays DEF scheduler, JobsSound
<1>4. CASE \E w \in Workers :
               \/ WorkerStart(w)
               \/ \E m \in Msgs : Take(w, m)
               \/ HandleMessage(w)
               \/ WorkerCrash(w)
               \/ Disconnect(w)
  <2>1. UNCHANGED scheduler
    BY <1>4 DEF WorkerStart, Take, HandleMessage, WorkerCrash, Disconnect, Check,
       Request, RequestEscapes, Store, ResultRead, ResultCommit, Ack, AckRaises
  <2> QED
    BY <1>1, <1>3, <1>4, <2>1, WorkerRows DEF RowInv
<1>5. CASE \E s \in Schedulers :
               \/ StartBacklog(s)
               \/ StartDiscovery(s)
               \/ RunJob(s)
               \/ PublishFails(s)
               \/ \E p \in Pages : Observe(s, p)
               \/ SourcesEnd(s)
               \/ SchedulerCrash(s)
  <2>1. UNCHANGED worker
    BY <1>5 DEF StartBacklog, StartDiscovery, RunJob, PublishFails, Observe,
       SourcesEnd, SchedulerCrash, PickCandidate, RequeueCommit, EndBacklog,
       Publish, WriteRead, WriteCommit, WriteConflicts, FinishJob
  <2> QED
    BY <1>1, <1>2, <1>5, <2>1, SchedulerRows DEF RowInv
<1>6. CASE (\E p \in Pages : Edit(p)) \/ UNCHANGED vars
  <2>1. UNCHANGED <<store, worker, scheduler>>
    BY <1>6 DEF Edit, vars
  <2> QED
    BY <1>1, <1>2, <1>3, <2>1, SamePage DEF RowInv
<1> QED
  BY <1>4, <1>5, <1>6 DEF Next

LEMMA RowKept == Spec => []RowInv
BY InitRow, NextRow, PTL DEF Spec

-----------------------------------------------------------------------------
\* CrawlProperties.SuccessHasFile for every number of workers, schedulers and
\* faults: a page recorded as fetched has its gzip file, its hash and its time.
THEOREM FetchedHasFile == Spec => []SuccessHasFile
<1>1. RowInv => SuccessHasFile
  BY DEF RowInv, RowsGood, RowGood, SuccessHasFile
<1> QED
  BY <1>1, RowKept, PTL

\* CrawlProperties.PublishAfterCommit: a message is published only for a page
\* whose row is committed, whichever scheduler inserted it.
THEOREM CommittedFirst == Spec => PublishAfterCommit
<1>1. RowInv /\ [Next]_vars =>
          [\A m \in Msgs : msgAt[m] = "free" /\ msgAt'[m] = "ready" =>
               row[msgPage'[m]].status # "absent"]_vars
  <2> SUFFICES ASSUME RowInv, Next, NEW m \in Msgs, msgAt[m] = "free", msgAt'[m] = "ready"
               PROVE  row[msgPage'[m]].status # "absent"
    OBVIOUS
  <2>1. CASE \E w \in Workers :
                 \/ WorkerStart(w)
                 \/ \E n \in Msgs : Take(w, n)
                 \/ HandleMessage(w)
                 \/ WorkerCrash(w)
                 \/ Disconnect(w)
    BY <2>1, ProcessesAssumption
       DEF RowInv, TypeOK, WorkerStart, Take, HandleMessage, WorkerCrash,
           Disconnect, Check, Request, RequestEscapes, Store, ResultRead,
           ResultCommit, Ack, AckRaises, Stop, Requeued, Set, broker
  <2>2. ASSUME NEW s \in Schedulers, Publish(s) \/ PublishFails(s)
        PROVE  row[msgPage'[m]].status # "absent"
    <3>1. spc[s] # "write" /\ \E p \in dispatch[s], n \in Free : Enqueue(n, p)
      BY <2>2 DEF Publish, PublishFails, broker
    <3>2. PICK p \in dispatch[s], n \in Free : Enqueue(n, p)
      BY <3>1
    <3>3. m = n /\ msgPage'[m] = p
      BY <3>2 DEF RowInv, TypeOK, Enqueue, Set, Free
    <3> QED
      BY <3>1, <3>3 DEF RowInv, JobsSound, JobSound
  <2>3. ASSUME NEW s \in Schedulers,
               \/ StartBacklog(s) \/ StartDiscovery(s) \/ SourcesEnd(s)
               \/ SchedulerCrash(s) \/ \E p \in Pages : Observe(s, p)
               \/ PickCandidate(s) \/ RequeueCommit(s) \/ EndBacklog(s)
               \/ WriteRead(s) \/ WriteCommit(s) \/ WriteConflicts(s) \/ FinishJob(s)
        PROVE  FALSE
    BY <2>3 DEF StartBacklog, StartDiscovery, SourcesEnd, SchedulerCrash, Observe,
       PickCandidate, RequeueCommit, EndBacklog, WriteRead, WriteCommit,
       WriteConflicts, FinishJob, broker
  <2>4. CASE \E p \in Pages : Edit(p)
    BY <2>4 DEF Edit, broker
  <2> QED
    BY <2>1, <2>2, <2>3, <2>4 DEF Next, RunJob
<1> QED
  BY <1>1, RowKept, PTL DEF Spec, PublishAfterCommit

-----------------------------------------------------------------------------
(* The edit time, while no two jobs move that of one page at a time *)

Moves(t) == t.new.source_modified_at # t.old.source_modified_at

\* A transaction leaves the edit time alone, or moves it on from the one the
\* row still has.
Advances(t, r) ==
    Moves(t) =>
        /\ t.old.source_modified_at = r.source_modified_at
        /\ t.new.source_modified_at >= t.old.source_modified_at

WorkersLeaveTimes ==
    \A w \in Workers :
        pc[w] = "commit" =>
            txn[w].new.source_modified_at = txn[w].old.source_modified_at

JobsAdvance == \A s \in Schedulers, p \in Pages : Advances(stx[s][p], row[p])

TimeInv == RowInv /\ WorkersLeaveTimes /\ JobsAdvance

TimesAdvance ==
    \A p \in Pages : row'[p].source_modified_at >= row[p].source_modified_at

\* No two open transactions of jobs move the edit time of the same page.
MovesApart ==
    \A s, u \in Schedulers, p \in Pages :
        Moves(stx[s][p]) /\ Moves(stx[u][p]) => s = u

OneScheduler == \A s, t \in Schedulers : s = t

LEMMA FlushAdvances ==
    ASSUME NEW r \in Row, NEW t \in Transaction, Advances(t, r)
    PROVE  Flush(r, t).source_modified_at >= r.source_modified_at
<1>1. r.source_modified_at \in Int
  BY StampIsInt DEF Row
<1>2. Flush(r, t).source_modified_at
          = Column(r.source_modified_at, t.old.source_modified_at,
                   t.new.source_modified_at)
  BY DEF Flush
<1> QED
  BY <1>1, <1>2 DEF Moves, Advances, Column

LEMMA NoTransactionAdvances ==
    ASSUME NEW r PROVE Advances(NoTransaction, r)
BY DEF Moves, Advances, NoTransaction

LEMMA DiscoveredAdvances ==
    ASSUME NEW r \in Row, NEW m \in Stamp, NEW f, RowGood(r, f)
    PROVE  Advances([old |-> r, new |-> DiscoveredRow(r, m)], r)
<1>1. r.source_modified_at \in Int /\ m \in Int /\ m >= None
  BY StampIsInt DEF Row, Stamp, None
<1>2. CASE r.status = "absent"
  BY <1>1, <1>2 DEF Moves, Advances, RowGood, DiscoveredRow, AbsentRow
<1>3. CASE r.status # "absent"
  <2>1. DiscoveredRow(r, m).source_modified_at = Later(r.source_modified_at, m)
    BY <1>3 DEF DiscoveredRow, Row
  <2> QED
    BY <1>1, <2>1 DEF Moves, Advances, Later
<1> QED
  BY <1>2, <1>3

LEMMA RequeuedAdvances ==
    ASSUME NEW r \in Row
    PROVE  Advances([old |-> r, new |-> RequeuedRow(r)], r)
BY DEF Moves, Advances, RequeuedRow, Row

LEMMA InitTime == Init => TimeInv
BY InitRow, NoTransactionAdvances
   DEF TimeInv, WorkersLeaveTimes, JobsAdvance, Init, NoTransactions

\* A worker's commit does not carry the edit time it read.
LEMMA WorkerTimes ==
    ASSUME TimeInv, NEW w \in Workers,
           \/ WorkerStart(w)
           \/ \E m \in Msgs : Take(w, m)
           \/ HandleMessage(w)
           \/ WorkerCrash(w)
           \/ Disconnect(w)
    PROVE  /\ \A p \in Pages :
                  row'[p].source_modified_at = row[p].source_modified_at
           /\ WorkersLeaveTimes'
<1> USE DEF TimeInv, RowInv, TypeOK, worker
<1>1. CASE ResultCommit(w)
  <2>1. /\ row' = [row EXCEPT ![page[w]] = Flush(row[page[w]], txn[w])]
        /\ txn[w].new.source_modified_at = txn[w].old.source_modified_at
    BY <1>1 DEF ResultCommit, CommitRows, Set, WorkersLeaveTimes
  <2>2. Flush(row[page[w]], txn[w]).source_modified_at = row[page[w]].source_modified_at
    BY <2>1 DEF Flush, Column
  <2> QED
    BY <1>1, <2>1, <2>2 DEF ResultCommit, Set, WorkersLeaveTimes
<1>2. CASE ResultRead(w)
  <2>1. FetchedRow(row[page[w]], got[w], clock).source_modified_at
            = row[page[w]].source_modified_at
    BY <1>2 DEF ResultRead, FetchedRow, SuccessRow, FailedRow, Row
  <2> QED
    BY <1>2, <2>1 DEF ResultRead, Set, WorkersLeaveTimes, store
<1>3. CASE \/ WorkerStart(w) \/ (\E m \in Msgs : Take(w, m)) \/ Check(w) \/ Store(w)
           \/ Request(w) \/ Ack(w) \/ Disconnect(w)
  <2>1. /\ UNCHANGED <<row, txn>>
        /\ \A v \in Workers : pc'[v] = "commit" => pc[v] = "commit"
    BY <1>3 DEF WorkerStart, Take, Check, Store, Request, Ack, Disconnect, Set, store
  <2> QED
    BY <2>1 DEF WorkersLeaveTimes
<1>4. CASE RequestEscapes(w) \/ AckRaises(w) \/ WorkerCrash(w)
  <2>1. UNCHANGED row /\ Stop(w)
    BY <1>4 DEF RequestEscapes, AckRaises, WorkerCrash, store
  <2> QED
    BY <2>1 DEF Stop, Set, WorkersLeaveTimes
<1> QED
  BY <1>1, <1>2, <1>3, <1>4 DEF HandleMessage

\* A commit that does not move the edit time leaves it to another that does.
LEMMA StaysAdvancing ==
    ASSUME NEW r \in Row, NEW t \in Transaction, NEW o, ~Moves(t), Advances(o, r)
    PROVE  Advances(o, Flush(r, t))
BY DEF Moves, Advances, Flush, Column

LEMMA SchedulerTimes ==
    ASSUME TimeInv, MovesApart, NEW s \in Schedulers,
           \/ StartBacklog(s)
           \/ StartDiscovery(s)
           \/ RunJob(s)
           \/ PublishFails(s)
           \/ \E p \in Pages : Observe(s, p)
           \/ SourcesEnd(s)
           \/ SchedulerCrash(s)
    PROVE  TimesAdvance /\ JobsAdvance'
<1> USE DEF TimeInv, RowInv, TypeOK
<1> DEFINE Alone == \A u \in Schedulers \ {s} : stx'[u] = stx[u]
<1>1. CASE RequeueCommit(s) \/ WriteCommit(s)
  <2>1. /\ \A p \in Pages : row'[p] = Flush(row[p], stx[s][p])
        /\ stx'[s] = NoTransactions /\ Alone
    BY <1>1 DEF RequeueCommit, WriteCommit, CommitRows, Flushed, Set
  <2>2. TimesAdvance
    BY <2>1, FlushAdvances DEF TimesAdvance, JobsAdvance
  <2>3. ASSUME NEW u \in Schedulers, NEW p \in Pages
        PROVE  Advances(stx'[u][p], row'[p])
    <3>1. CASE u = s
      BY <2>1, <3>1, NoTransactionAdvances DEF NoTransactions
    <3>2. CASE u # s /\ Moves(stx[u][p])
      <4>1. ~Moves(stx[s][p]) /\ Advances(stx[u][p], row[p])
        BY <3>2 DEF MovesApart, JobsAdvance
      <4> QED
        BY <2>1, <3>2, <4>1, StaysAdvancing
    <3>3. CASE u # s /\ ~Moves(stx[u][p])
      BY <2>1, <3>3 DEF Advances
    <3> QED
      BY <3>1, <3>2, <3>3
  <2>4. JobsAdvance'
    BY <2>3 DEF JobsAdvance
  <2> QED
    BY <2>2, <2>4
<1>2. ASSUME UNCHANGED row, Alone, \A p \in Pages : Advances(stx'[s][p], row[p])
      PROVE  TimesAdvance /\ JobsAdvance'
  <2>1. \A p \in Pages : row[p].source_modified_at \in Int
    BY StampIsInt DEF Row
  <2>2. \A u \in Schedulers, p \in Pages : Advances(stx'[u][p], row[p])
    BY <1>2 DEF JobsAdvance
  <2> QED
    BY <1>2, <2>1, <2>2 DEF TimesAdvance, JobsAdvance
<1>3. CASE PickCandidate(s)
  <2>1. PICK c \in todo[s] : PickCandidate(s)!2!(c)
    BY <1>3 DEF PickCandidate
  <2>2. c.page \in Pages /\ UNCHANGED row
    BY <1>3 DEF Candidate, PickCandidate, store
  <2> DEFINE t == [old |-> row[c.page], new |-> RequeuedRow(row[c.page])]
  <2>3. Advances(t, row[c.page])
    BY <2>2, RequeuedAdvances
  <2>4. (stx'[s] = stx[s] \/ stx'[s] = Set(NoTransactions, c.page, t)) /\ Alone
    BY <2>1 DEF Set
  <2> HIDE DEF t
  <2>5. \A p \in Pages : Set(NoTransactions, c.page, t)[p] = IF p = c.page THEN t
                                                            ELSE NoTransaction
    BY DEF Set, NoTransactions
  <2>6. \A p \in Pages : Advances(stx'[s][p], row[p])
    BY <2>3, <2>4, <2>5, NoTransactionAdvances DEF JobsAdvance
  <2> QED
    BY <1>2, <2>2, <2>4, <2>6
<1>4. CASE WriteRead(s)
  <2> DEFINE t(p) == [old |-> row[p], new |-> DiscoveredRow(row[p], batch[s][p])]
  <2>1. \A p \in Listed(s) : p \in Pages /\ batch[s][p] \in Stamp
    BY DEF Listed
  <2>2. \A p \in Listed(s) : Advances(t(p), row[p])
    BY <2>1, DiscoveredAdvances DEF RowsGood
  <2>3. /\ UNCHANGED row /\ Alone
        /\ \A p \in Pages : stx'[s][p] = IF p \in Listed(s) THEN t(p) ELSE NoTransaction
    BY <1>4 DEF WriteRead, Set, store
  <2> HIDE DEF t
  <2>4. \A p \in Pages : Advances(stx'[s][p], row[p])
    BY <2>2, <2>3, NoTransactionAdvances
  <2> QED
    BY <1>2, <2>3, <2>4
<1>5. CASE \/ StartBacklog(s) \/ StartDiscovery(s) \/ EndBacklog(s) \/ Publish(s)
           \/ WriteConflicts(s) \/ FinishJob(s) \/ PublishFails(s) \/ SourcesEnd(s)
           \/ SchedulerCrash(s) \/ \E p \in Pages : Observe(s, p)
  <2>1. UNCHANGED row /\ (stx' = stx \/ stx' = Set(stx, s, NoTransactions))
    BY <1>5 DEF StartBacklog, StartDiscovery, EndBacklog, Publish, WriteConflicts,
       FinishJob, PublishFails, SourcesEnd, SchedulerCrash, Observe, JobOver, Set,
       store
  <2>2. Alone /\ (stx'[s] = stx[s] \/ stx'[s] = NoTransactions)
    BY <2>1 DEF Set
  <2>3. \A p \in Pages : Advances(stx'[s][p], row[p])
    BY <2>2, NoTransactionAdvances DEF JobsAdvance, NoTransactions
  <2> QED
    BY <1>2, <2>1, <2>2, <2>3
<1> QED
  BY <1>1, <1>3, <1>4, <1>5 DEF RunJob

LEMMA NextTime ==
    TimeInv /\ MovesApart /\ [Next]_vars => TimeInv' /\ TimesAdvance
<1> SUFFICES ASSUME TimeInv, MovesApart, [Next]_vars
             PROVE  TimeInv' /\ TimesAdvance
  OBVIOUS
<1>1. RowInv' /\ \A p \in Pages : row[p].source_modified_at \in Int
  BY NextRow, StampIsInt DEF TimeInv, RowInv, TypeOK, Row
<1>2. CASE \E w \in Workers :
               \/ WorkerStart(w)
               \/ \E m \in Msgs : Take(w, m)
               \/ HandleMessage(w)
               \/ WorkerCrash(w)
               \/ Disconnect(w)
  <2>1. UNCHANGED stx
    BY <1>2 DEF WorkerStart, Take, HandleMessage, WorkerCrash, Disconnect, Check,
       Request, RequestEscapes, Store, ResultRead, ResultCommit, Ack, AckRaises,
       scheduler
  <2>2. /\ \A p \in Pages : row'[p].source_modified_at = row[p].source_modified_at
        /\ WorkersLeaveTimes'
    BY <1>2, WorkerTimes
  <2>3. JobsAdvance'
    BY <2>1, <2>2 DEF TimeInv, JobsAdvance, Moves, Advances
  <2> QED
    BY <1>1, <2>2, <2>3 DEF TimeInv, TimesAdvance
<1>3. CASE \E s \in Schedulers :
               \/ StartBacklog(s)
               \/ StartDiscovery(s)
               \/ RunJob(s)
               \/ PublishFails(s)
               \/ \E p \in Pages : Observe(s, p)
               \/ SourcesEnd(s)
               \/ SchedulerCrash(s)
  <2>1. UNCHANGED worker
    BY <1>3 DEF StartBacklog, StartDiscovery, RunJob, PublishFails, Observe,
       SourcesEnd, SchedulerCrash, PickCandidate, RequeueCommit, EndBacklog,
       Publish, WriteRead, WriteCommit, WriteConflicts, FinishJob
  <2> QED
    BY <1>1, <1>3, <2>1, SchedulerTimes DEF TimeInv, WorkersLeaveTimes, worker
<1>4. CASE (\E p \in Pages : Edit(p)) \/ UNCHANGED vars
  <2>1. UNCHANGED <<row, pc, txn, stx>>
    BY <1>4 DEF Edit, vars, store, worker, scheduler
  <2> QED
    BY <1>1, <2>1 DEF TimeInv, WorkersLeaveTimes, JobsAdvance, TimesAdvance
<1> QED
  BY <1>2, <1>3, <1>4 DEF Next

\* CrawlProperties.EditTimeKept for every number of workers and jobs, as long
\* as no two open sessions of jobs move the edit time of the same page.
THEOREM MovesApartKeepTimes == Spec /\ []MovesApart => EditTimeKept
<1>1. TimeInv /\ MovesApart /\ [Next]_vars => TimeInv'
  BY NextTime
<1>2. TimeInv /\ MovesApart /\ [Next]_vars =>
          [\A p \in Pages :
               row'[p].source_modified_at >= row[p].source_modified_at]_vars
  BY NextTime DEF TimesAdvance
<1> QED
  BY <1>1, <1>2, InitTime, PTL DEF Spec, EditTimeKept

\* CrawlProperties.EditTimeKept for every number of workers beside one
\* scheduler: commits of sessions that overlap never take the edit time back.
THEOREM EditTimesKept ==
    ASSUME OneScheduler
    PROVE  Spec => EditTimeKept
<1>1. MovesApart
  BY DEF OneScheduler, MovesApart
<1>2. []MovesApart
  BY <1>1, PTL
<1> QED
  BY <1>2, MovesApartKeepTimes, PTL

-----------------------------------------------------------------------------
(* What is fetched, while no two workers fetch one page at a time *)

\* A transaction of a job leaves alone what a worker records of a fetch, and
\* changes a status to "pending" only.
LeavesResult(t) ==
    /\ t.new.status \in {t.old.status, "pending"}
    /\ t.new.last_error_type = t.old.last_error_type
    /\ t.new.body_sha256 = t.old.body_sha256
    /\ t.new.last_fetched_at = t.old.last_fetched_at

JobsLeaveResults == \A s \in Schedulers, p \in Pages : LeavesResult(stx[s][p])

\* The transaction of a worker over the row r beside the file f: the row it
\* read is the one there is, but for what jobs write, and what it records is
\* a failure, or the file with a time that covers it.
Records(t, r, f) ==
    /\ t.old.status \in {"pending", "failed"}
    /\ t.old.last_error_type = r.last_error_type
    /\ t.old.body_sha256 = r.body_sha256
    /\ t.old.last_fetched_at = r.last_fetched_at
    /\ t.new.status \in {"success", "failed"}
    /\ t.new.body_sha256 <= t.new.last_fetched_at
    /\ t.new.status = "success" =>
          /\ t.new.last_error_type = "none"
          /\ t.new.body_sha256 = f
          /\ t.new.last_fetched_at # None
          /\ f # None

\* The worker has checked its message and has not yet recorded what it got.
Fetching(w) == pc[w] \in {"request", "store", "read", "commit"}

\* The page a worker fetches is not a success meanwhile.
WorkerRecords(w) ==
    /\ Fetching(w) => row[page[w]].status \in {"pending", "failed"}
    /\ pc[w] \in {"store", "read"} => got[w].body <= clock
    /\ pc[w] = "read" /\ got[w].error = "none" => file[page[w]] = got[w].body
    /\ pc[w] = "commit" => Records(txn[w], row[page[w]], file[page[w]])

WorkersRecord == \A w \in Workers : WorkerRecords(w)

\* The site shows nothing from the future, and an absent row has no error.
Baseline ==
    /\ \A p \in Pages : live[p] <= clock
    /\ \A p \in Pages : row[p].status = "absent" => row[p].last_error_type = "none"

ResultInv ==
    /\ RowInv
    /\ SuccessDescribesFile
    /\ FetchTimeCoversBody
    /\ Baseline
    /\ WorkersRecord
    /\ JobsLeaveResults

\* No two workers fetch the same page at a time.
Apart ==
    \A v, w \in Workers :
        Fetching(v) /\ Fetching(w) /\ page[v] = page[w] => v = w

OneWorker == \A v, w \in Workers : v = w

\* What a step of a job leaves of the result in a row.
Keeps(r, q) ==
    /\ q.status \in {r.status, "pending"}
    /\ q.last_error_type = r.last_error_type
    /\ q.body_sha256 = r.body_sha256
    /\ q.last_fetched_at = r.last_fetched_at

ResultsKept == \A p \in Pages : Keeps(row[p], row'[p]) /\ file'[p] = file[p]

\* What no step does to a success: it does not fail, and keeps its file.
SuccessStays ==
    \A p \in Pages :
        row[p].status = "success" =>
            row'[p].status \in {"success", "pending"} /\ file'[p] = file[p]

LEMMA FlushKeeps ==
    ASSUME NEW r \in Row, NEW t, LeavesResult(t)
    PROVE  Keeps(r, Flush(r, t))
BY DEF LeavesResult, Keeps, Flush, Column

\* The result of a fetch over a row that jobs have changed since it was read.
LEMMA FlushRecords ==
    ASSUME NEW r \in Row, NEW t \in Transaction, NEW f, Records(t, r, f),
           r.status \in {"pending", "failed"}
    PROVE  LET q == Flush(r, t)
           IN  /\ q.body_sha256 <= q.last_fetched_at
               /\ q.status # "absent"
               /\ q.status = "success" =>
                     /\ f # None /\ q.body_sha256 = f
                     /\ q.last_error_type = "none" /\ q.last_fetched_at # None
BY DEF Records, Flush, Column

\* What a worker makes of the row it reads, from the outcome of its request.
LEMMA FetchedRecords ==
    ASSUME NEW r \in Row, NEW outcome, NEW now \in Nat, NEW f,
           r.status \in {"pending", "failed"},
           r.body_sha256 <= r.last_fetched_at, outcome.body <= now,
           outcome.error = "none" => f = outcome.body /\ outcome.body # None
    PROVE  Records([old |-> r, new |-> FetchedRow(r, outcome, now)], r, f)
<1> DEFINE new == FetchedRow(r, outcome, now)
<1>1. CASE outcome.error = "none"
  <2>1. new = SuccessRow(r, outcome.body, now)
    BY <1>1 DEF FetchedRow
  <2>2. /\ new.status = "success" /\ new.last_error_type = "none"
        /\ new.body_sha256 = outcome.body /\ new.last_fetched_at = now
    BY <2>1 DEF SuccessRow, Row
  <2>3. now # None
    BY DEF None
  <2>4. Records([old |-> r, new |-> new], r, f)
    <3> HIDE DEF new
    <3> QED
      BY <1>1, <2>2, <2>3 DEF Records
  <2> QED
    BY <2>4
<1>2. CASE outcome.error # "none"
  BY <1>2 DEF Records, FetchedRow, FailedRow, Row
<1> QED
  BY <1>1, <1>2

LEMMA NoTransactionLeaves == LeavesResult(NoTransaction)
BY DEF LeavesResult, NoTransaction

LEMMA RequeuedLeaves ==
    ASSUME NEW r \in Row
    PROVE  LeavesResult([old |-> r, new |-> RequeuedRow(r)])
BY DEF LeavesResult, RequeuedRow, Row

LEMMA DiscoveredLeaves ==
    ASSUME NEW r \in Row, NEW m \in Stamp, NEW f, RowGood(r, f),
           r.status \in {"success", "absent"} => r.last_error_type = "none"
    PROVE  LeavesResult([old |-> r, new |-> DiscoveredRow(r, m)])
BY DEF LeavesResult, DiscoveredRow, RowGood, Outdated, AbsentRow, Row

\* What was fetched stays described while jobs and the site go on.
LEMMA KeptResults ==
    ASSUME ResultInv, ResultsKept, UNCHANGED worker,
           clock \in Int, clock' \in Int, clock <= clock',
           \A p \in Pages : live'[p] <= clock'
    PROVE  /\ SuccessDescribesFile' /\ FetchTimeCoversBody' /\ Baseline'
           /\ WorkersRecord' /\ SuccessStays
<1> USE DEF ResultInv, ResultsKept, Keeps
<1>1. SuccessDescribesFile'
  BY DEF SuccessDescribesFile
<1>2. FetchTimeCoversBody'
  BY DEF FetchTimeCoversBody
<1>3. Baseline'
  BY DEF Baseline
<1>4. SuccessStays
  BY DEF SuccessStays
<1>5. ASSUME NEW w \in Workers PROVE WorkerRecords(w)'
  <2>1. WorkerRecords(w) /\ UNCHANGED <<pc, page, got, txn>>
    BY DEF WorkersRecord, worker
  <2>2. pc[w] \in {"request", "store", "read", "commit"} => page[w] \in Pages
    BY DEF RowInv, TypeOK
  <2>3. pc[w] \in {"request", "store", "read", "commit"} =>
            /\ row'[page[w]].status \in {"pending", "failed"}
            /\ file'[page[w]] = file[page[w]]
    BY <2>1, <2>2 DEF Fetching, WorkerRecords
  <2>4. got[w].body \in Int
    BY StampIsInt DEF RowInv, TypeOK, Outcome
  <2>5. pc[w] \in {"store", "read"} => got[w].body <= clock'
    BY <2>1, <2>4 DEF Fetching, WorkerRecords
  <2>6. pc[w] = "commit" => Records(txn[w], row'[page[w]], file'[page[w]])
    BY <2>1, <2>2 DEF Fetching, WorkerRecords, Records
  <2> QED
    BY <2>1, <2>3, <2>5, <2>6 DEF Fetching, WorkerRecords
<1> QED
  BY <1>1, <1>2, <1>3, <1>4, <1>5 DEF WorkersRecord

LEMMA JobResults ==
    ASSUME ResultInv, NEW s \in Schedulers,
           \/ StartBacklog(s)
           \/ StartDiscovery(s)
           \/ RunJob(s)
           \/ PublishFails(s)
           \/ \E p \in Pages : Observe(s, p)
           \/ SourcesEnd(s)
           \/ SchedulerCrash(s)
    PROVE  ResultsKept /\ JobsLeaveResults'
<1> USE DEF ResultInv, RowInv, TypeOK
<1>1. ASSUME UNCHANGED store PROVE ResultsKept
  BY <1>1 DEF store, ResultsKept, Keeps
<1>2. ASSUME \A p \in Pages : LeavesResult(stx'[s][p]),
             \A t \in Schedulers \ {s} : stx'[t] = stx[t]
      PROVE  JobsLeaveResults'
  BY <1>2 DEF JobsLeaveResults
<1>3. CASE RequeueCommit(s) \/ WriteCommit(s)
  <2>1. /\ \A p \in Pages : row'[p] = Flush(row[p], stx[s][p])
        /\ UNCHANGED file /\ stx' = Set(stx, s, NoTransactions)
    BY <1>3 DEF RequeueCommit, WriteCommit, CommitRows, Flushed
  <2>2. ResultsKept
    BY <2>1, FlushKeeps DEF ResultsKept, JobsLeaveResults
  <2>3. JobsLeaveResults'
    BY <1>2, <2>1, NoTransactionLeaves DEF Set, NoTransactions
  <2> QED
    BY <2>2, <2>3
<1>4. CASE PickCandidate(s)
  <2>1. PICK c \in todo[s] : PickCandidate(s)!2!(c)
    BY <1>4 DEF PickCandidate
  <2>2. c.page \in Pages /\ UNCHANGED store
    BY <1>4 DEF Candidate, PickCandidate
  <2> DEFINE t == [old |-> row[c.page], new |-> RequeuedRow(row[c.page])]
  <2>3. LeavesResult(t)
    BY <2>2, RequeuedLeaves
  <2>4. stx' = stx \/ stx' = Set(stx, s, Set(NoTransactions, c.page, t))
    BY <2>1
  <2> HIDE DEF t
  <2>5. \A p \in Pages : Set(NoTransactions, c.page, t)[p] = IF p = c.page THEN t
                                                            ELSE NoTransaction
    BY DEF Set, NoTransactions
  <2>6. CASE stx' = stx
    BY <1>1, <2>2, <2>6 DEF JobsLeaveResults
  <2>7. CASE stx' = Set(stx, s, Set(NoTransactions, c.page, t))
    <3>1. /\ stx'[s] = Set(NoTransactions, c.page, t)
          /\ \A u \in Schedulers \ {s} : stx'[u] = stx[u]
      BY <2>7 DEF Set
    <3> QED
      BY <1>1, <1>2, <2>2, <2>3, <2>5, <3>1, NoTransactionLeaves
  <2> QED
    BY <2>4, <2>6, <2>7
<1>5. CASE WriteRead(s)
  <2> DEFINE t(p) == [old |-> row[p], new |-> DiscoveredRow(row[p], batch[s][p])]
  <2>1. \A p \in Listed(s) : p \in Pages /\ batch[s][p] \in Stamp
    BY DEF Listed
  <2>2. \A p \in Listed(s) : LeavesResult(t(p))
    <3>1. \A p \in Pages : row[p].status \in {"success", "absent"} =>
                               row[p].last_error_type = "none"
      BY DEF SuccessDescribesFile, Baseline
    <3> QED
      BY <2>1, <3>1, DiscoveredLeaves DEF RowsGood
  <2>3. /\ UNCHANGED store
        /\ \A p \in Pages : stx'[s][p] = IF p \in Listed(s) THEN t(p) ELSE NoTransaction
        /\ \A u \in Schedulers \ {s} : stx'[u] = stx[u]
    BY <1>5 DEF WriteRead, Set
  <2> HIDE DEF t
  <2>4. \A p \in Pages : LeavesResult(stx'[s][p])
    BY <2>2, <2>3, NoTransactionLeaves
  <2> QED
    BY <1>1, <1>2, <2>3, <2>4
<1>6. CASE \/ StartBacklog(s) \/ StartDiscovery(s) \/ EndBacklog(s) \/ Publish(s)
           \/ WriteConflicts(s) \/ FinishJob(s) \/ PublishFails(s) \/ SourcesEnd(s)
           \/ SchedulerCrash(s) \/ \E p \in Pages : Observe(s, p)
  <2>1. UNCHANGED store /\ (stx' = stx \/ stx' = Set(stx, s, NoTransactions))
    BY <1>6 DEF StartBacklog, StartDiscovery, EndBacklog, Publish, WriteConflicts,
       FinishJob, PublishFails, SourcesEnd, SchedulerCrash, Observe, JobOver
  <2>2. CASE stx' = stx
    BY <1>1, <2>1, <2>2 DEF JobsLeaveResults
  <2>3. CASE stx' = Set(stx, s, NoTransactions)
    BY <1>1, <1>2, <2>1, <2>3, NoTransactionLeaves DEF Set, NoTransactions
  <2> QED
    BY <2>1, <2>2, <2>3
<1> QED
  BY <1>3, <1>4, <1>5, <1>6 DEF RunJob

\* A worker leaves the others alone.
LEMMA Others ==
    ASSUME TypeOK, NEW w \in Workers,
           \/ WorkerStart(w)
           \/ \E m \in Msgs : Take(w, m)
           \/ HandleMessage(w)
           \/ WorkerCrash(w)
           \/ Disconnect(w)
    PROVE  /\ clock' = clock
           /\ \A v \in Workers \ {w} :
                 /\ pc'[v] = pc[v] /\ page'[v] = page[v]
                 /\ got'[v] = got[v] /\ txn'[v] = txn[v]
<1> USE DEF TypeOK, Set, site
<1>1. CASE WorkerStart(w) \/ \E m \in Msgs : Take(w, m)
  BY <1>1 DEF WorkerStart, Take
<1>2. CASE WorkerCrash(w) \/ RequestEscapes(w) \/ AckRaises(w)
  BY <1>2 DEF WorkerCrash, RequestEscapes, AckRaises, Stop
<1>3. CASE Disconnect(w)
  BY <1>3 DEF Disconnect, worker
<1>4. CASE Check(w) \/ Ack(w)
  BY <1>4 DEF Check, Ack
<1>5. CASE Request(w)
  BY <1>5 DEF Request
<1>6. CASE Store(w) \/ ResultRead(w) \/ ResultCommit(w)
  BY <1>6 DEF Store, ResultRead, ResultCommit
<1> QED
  BY <1>1, <1>2, <1>3, <1>4, <1>5, <1>6 DEF HandleMessage

\* What a worker has of its page no other worker writes.
LEMMA WorkerResults ==
    ASSUME ResultInv, Apart, NEW w \in Workers,
           \/ WorkerStart(w)
           \/ \E m \in Msgs : Take(w, m)
           \/ HandleMessage(w)
           \/ WorkerCrash(w)
           \/ Disconnect(w)
    PROVE  /\ SuccessDescribesFile' /\ FetchTimeCoversBody' /\ Baseline'
           /\ WorkersRecord' /\ SuccessStays
<1> USE DEF ResultInv, RowInv, TypeOK
<1> DEFINE Elsewhere ==
        Fetching(w) /\ \A p \in Pages \ {page[w]} : row'[p] = row[p] /\ file'[p] = file[p]
<1>0. ASSUME WorkerRecords(w)', UNCHANGED store \/ Elsewhere PROVE WorkersRecord'
  <2> SUFFICES ASSUME NEW v \in Workers \ {w} PROVE WorkerRecords(v)'
    BY <1>0 DEF WorkersRecord
  <2>1. /\ pc'[v] = pc[v] /\ page'[v] = page[v] /\ got'[v] = got[v]
        /\ txn'[v] = txn[v] /\ clock' = clock
    BY Others
  <2>2. WorkerRecords(v)
    BY DEF WorkersRecord
  <2>3. CASE ~Fetching(v)
    BY <2>1, <2>3 DEF Fetching, WorkerRecords
  <2>4. CASE Fetching(v)
    <3>1. page[v] \in Pages
      BY <2>4 DEF Fetching
    <3>2. row'[page[v]] = row[page[v]] /\ file'[page[v]] = file[page[v]]
      BY <1>0, <2>4, <3>1 DEF Apart, store
    <3> QED
      BY <2>1, <2>2, <3>2 DEF Fetching, WorkerRecords
  <2> QED
    BY <2>3, <2>4
<1>1. ASSUME UNCHANGED <<store, site>>
      PROVE  SuccessDescribesFile' /\ FetchTimeCoversBody' /\ Baseline' /\ SuccessStays
  BY <1>1 DEF store, site, SuccessDescribesFile, FetchTimeCoversBody, Baseline,
     SuccessStays
<1>2. WorkerRecords(w)
  BY DEF WorkersRecord
<1>3. ASSUME pc'[w] \notin {"request", "store", "read", "commit"}
      PROVE  WorkerRecords(w)'
  BY <1>3 DEF Fetching, WorkerRecords
<1>4. CASE ResultCommit(w)
  <2> DEFINE q == Flush(row[page[w]], txn[w])
  <2>1. /\ page[w] \in Pages /\ row' = [row EXCEPT ![page[w]] = q]
        /\ UNCHANGED <<file, live, clock>> /\ pc'[w] = "ack"
    BY <1>4 DEF ResultCommit, CommitRows, Set, site
  <2>2. /\ Records(txn[w], row[page[w]], file[page[w]])
        /\ row[page[w]].status \in {"pending", "failed"}
    BY <1>2, <1>4 DEF Fetching, WorkerRecords, ResultCommit
  <2>3. /\ q.body_sha256 <= q.last_fetched_at
        /\ q.status # "absent"
        /\ q.status = "success" =>
              /\ file[page[w]] # None /\ q.body_sha256 = file[page[w]]
              /\ q.last_error_type = "none" /\ q.last_fetched_at # None
    BY <2>1, <2>2, FlushRecords
  <2> HIDE DEF q
  <2>4. \A p \in Pages : row'[p] = IF p = page[w] THEN q ELSE row[p]
    BY <2>1
  <2>5. SuccessDescribesFile'
    BY <2>1, <2>3, <2>4 DEF SuccessDescribesFile
  <2>6. FetchTimeCoversBody'
    BY <2>3, <2>4 DEF FetchTimeCoversBody
  <2>7. Baseline'
    BY <2>1, <2>3, <2>4 DEF Baseline
  <2>8. SuccessStays
    BY <2>1, <2>2, <2>4 DEF SuccessStays
  <2>9. Elsewhere
    BY <1>4, <2>1, <2>4 DEF ResultCommit, Fetching
  <2> QED
    BY <1>0, <1>3, <2>1, <2>5, <2>6, <2>7, <2>8, <2>9
<1>5. CASE Store(w)
  <2>1. /\ page[w] \in Pages /\ file' = [file EXCEPT ![page[w]] = got[w].body]
        /\ UNCHANGED <<row, live, clock, page, got>> /\ pc'[w] = "read"
    BY <1>5 DEF Store, Set, site
  <2>2. row[page[w]].status \in {"pending", "failed"} /\ got[w].body <= clock
    BY <1>2, <1>5 DEF Fetching, WorkerRecords, Store
  <2>3. WorkerRecords(w)'
    BY <2>1, <2>2 DEF Fetching, WorkerRecords
  <2>4. SuccessDescribesFile' /\ SuccessStays
    BY <2>1, <2>2 DEF SuccessDescribesFile, SuccessStays
  <2>5. FetchTimeCoversBody' /\ Baseline'
    BY <2>1 DEF FetchTimeCoversBody, Baseline
  <2>6. Elsewhere
    BY <1>5, <2>1 DEF Store, Fetching
  <2> QED
    BY <1>0, <2>3, <2>4, <2>5, <2>6
<1>6. CASE ResultRead(w)
  <2> DEFINE r == row[page[w]]
             new == FetchedRow(r, got[w], clock)
             f == file[page[w]]
  <2>1. /\ page[w] \in Pages /\ UNCHANGED <<store, site, page>> /\ pc'[w] = "commit"
        /\ txn'[w] = [old |-> r, new |-> new]
    BY <1>6 DEF ResultRead, Set
  <2>2. /\ r.status \in {"pending", "failed"} /\ got[w].body <= clock
        /\ got[w].error = "none" => f = got[w].body /\ got[w].body # None
    BY <1>2, <1>6 DEF Fetching, WorkerRecords, WorkersSound, WorkerSound, ResultRead
  <2>3. r \in Row /\ clock \in Nat /\ r.body_sha256 <= r.last_fetched_at
    BY <2>1 DEF FetchTimeCoversBody
  <2>4. Records([old |-> r, new |-> new], r, f)
    <3> HIDE DEF r, f
    <3> QED
      BY <2>2, <2>3, FetchedRecords
  <2>5. WorkerRecords(w)'
    BY <2>1, <2>2, <2>4 DEF Fetching, WorkerRecords, store
  <2> QED
    BY <1>0, <1>1, <2>1, <2>5
<1>7. CASE Request(w)
  <2>1. PICK x \in Replies : Request(w)!2!(x)
    BY <1>7 DEF Request
  <2>2. /\ page[w] \in Pages /\ UNCHANGED <<store, site, page, txn>>
        /\ row[page[w]].status \in {"pending", "failed"}
    BY <1>2, <1>7 DEF Request, Fetching, WorkerRecords
  <2>3. live[page[w]] <= clock /\ None <= clock
    BY <2>2 DEF Baseline, None
  <2>4. /\ pc'[w] \in {"request", "store", "read"}
        /\ pc'[w] \in {"store", "read"} => got'[w].body \in {live[page[w]], None}
        /\ pc'[w] = "read" => got'[w].error # "none"
    BY <1>7, <2>1 DEF Request, Set
  <2>5. WorkerRecords(w)'
    BY <2>2, <2>3, <2>4 DEF Fetching, WorkerRecords, store, site
  <2> QED
    BY <1>0, <1>1, <2>2, <2>5
<1>8. CASE Check(w)
  <2>1. UNCHANGED <<store, site, page>> /\ pc'[w] \in {"ack", "request"}
    BY <1>8 DEF Check, Set
  <2>2. pc'[w] = "request" => row[page[w]].status \in {"pending", "failed"}
    BY <1>8 DEF Check, Settled, Set
  <2>3. WorkerRecords(w)'
    BY <2>1, <2>2 DEF Fetching, WorkerRecords, store
  <2> QED
    BY <1>0, <1>1, <2>1, <2>3
<1>9. CASE Disconnect(w)
  <2>1. UNCHANGED <<store, site, worker>>
    BY <1>9 DEF Disconnect
  <2>2. WorkerRecords(w)'
    BY <1>2, <2>1 DEF Fetching, WorkerRecords, store, site, worker
  <2> QED
    BY <1>0, <1>1, <2>1, <2>2
<1>10. CASE WorkerStart(w) \/ (\E m \in Msgs : Take(w, m)) \/ Ack(w)
  <2>1. UNCHANGED <<store, site>> /\ pc'[w] \in {"idle", "check", "stopped"}
    BY <1>10 DEF WorkerStart, Take, Ack, Set
  <2> QED
    BY <1>0, <1>1, <1>3, <2>1
<1>11. CASE RequestEscapes(w) \/ AckRaises(w) \/ WorkerCrash(w)
  <2>1. UNCHANGED <<store, site>> /\ pc'[w] = "stopped"
    BY <1>11 DEF RequestEscapes, AckRaises, WorkerCrash, Stop, Set
  <2> QED
    BY <1>0, <1>1, <1>3, <2>1
<1> QED
  BY <1>4, <1>5, <1>6, <1>7, <1>8, <1>9, <1>10, <1>11 DEF HandleMessage

LEMMA InitResult == Init => ResultInv
<1> SUFFICES ASSUME Init PROVE ResultInv
  OBVIOUS
<1>1. SuccessDescribesFile /\ FetchTimeCoversBody /\ Baseline
  BY DEF Init, SuccessDescribesFile, FetchTimeCoversBody, Baseline, AbsentRow, None
<1>2. WorkersRecord
  BY DEF Init, WorkersRecord, Fetching, WorkerRecords
<1>3. JobsLeaveResults
  BY NoTransactionLeaves DEF Init, JobsLeaveResults, NoTransactions
<1> QED
  BY <1>1, <1>2, <1>3, InitRow DEF ResultInv

LEMMA NextResult ==
    ResultInv /\ Apart /\ [Next]_vars => ResultInv' /\ SuccessStays
<1> SUFFICES ASSUME ResultInv, Apart, [Next]_vars
             PROVE  ResultInv' /\ SuccessStays
  OBVIOUS
<1>1. RowInv' /\ clock \in Nat /\ \A p \in Pages : live[p] <= clock
  BY NextRow DEF ResultInv, RowInv, TypeOK, Baseline
<1>2. CASE \E w \in Workers :
               \/ WorkerStart(w)
               \/ \E m \in Msgs : Take(w, m)
               \/ HandleMessage(w)
               \/ WorkerCrash(w)
               \/ Disconnect(w)
  <2>1. UNCHANGED stx
    BY <1>2 DEF WorkerStart, Take, HandleMessage, WorkerCrash, Disconnect, Check,
       Request, RequestEscapes, Store, ResultRead, ResultCommit, Ack, AckRaises,
       scheduler
  <2>2. JobsLeaveResults'
    BY <2>1 DEF ResultInv, JobsLeaveResults
  <2> QED
    BY <1>1, <1>2, <2>2, WorkerResults DEF ResultInv
<1>3. CASE \E s \in Schedulers :
               \/ StartBacklog(s)
               \/ StartDiscovery(s)
               \/ RunJob(s)
               \/ PublishFails(s)
               \/ \E p \in Pages : Observe(s, p)
               \/ SourcesEnd(s)
               \/ SchedulerCrash(s)
  <2>1. UNCHANGED <<worker, live, clock>>
    BY <1>3 DEF StartBacklog, StartDiscovery, RunJob, PublishFails, Observe,
       SourcesEnd, SchedulerCrash, PickCandidate, RequeueCommit, EndBacklog,
       Publish, WriteRead, WriteCommit, WriteConflicts, FinishJob, site
  <2>2. ResultsKept /\ JobsLeaveResults'
    BY <1>3, JobResults
  <2>3. /\ SuccessDescribesFile' /\ FetchTimeCoversBody' /\ Baseline'
        /\ WorkersRecord' /\ SuccessStays
    BY <1>1, <2>1, <2>2, KeptResults
  <2> QED
    BY <1>1, <2>2, <2>3 DEF ResultInv
<1>4. CASE (\E p \in Pages : Edit(p)) \/ UNCHANGED vars
  <2>1. UNCHANGED <<row, file, worker, stx>>
    BY <1>4 DEF Edit, vars, store, scheduler
  <2>2. ResultsKept
    BY <2>1 DEF ResultsKept, Keeps
  <2>3. clock' \in Nat /\ clock <= clock' /\ \A p \in Pages : live'[p] <= clock'
    <3>1. live \in [Pages -> Nat]
      BY DEF ResultInv, RowInv, TypeOK
    <3> QED
      BY <1>1, <1>4, <3>1 DEF Edit, Set, vars, site
  <2>4. /\ SuccessDescribesFile' /\ FetchTimeCoversBody' /\ Baseline'
        /\ WorkersRecord' /\ SuccessStays
    BY <1>1, <2>1, <2>2, <2>3, KeptResults
  <2>5. JobsLeaveResults'
    BY <2>1 DEF ResultInv, JobsLeaveResults
  <2> QED
    BY <1>1, <2>4, <2>5 DEF ResultInv
<1> QED
  BY <1>2, <1>3, <1>4 DEF Next

LEMMA ResultKept == Spec /\ []Apart => []ResultInv
<1>1. ResultInv /\ Apart /\ [Next]_vars => ResultInv'
  BY NextResult
<1> QED
  BY <1>1, InitResult, PTL DEF Spec

\* While no two workers fetch the same page at a time, every row recorded as
\* fetched describes its file, its fetch time covers the body, and what is
\* delivered again neither fails a fetched page nor writes its file.
THEOREM ApartKeepsResults ==
    Spec /\ []Apart => /\ []SuccessDescribesFile /\ []FetchTimeCoversBody
                      /\ SuccessKept /\ FileKept
<1>1. ResultInv => SuccessDescribesFile /\ FetchTimeCoversBody
  BY DEF ResultInv
<1>2. ResultInv /\ Apart /\ [Next]_vars =>
          /\ [\A p \in Pages : row[p].status = "success" =>
                 row'[p].status \in {"success", "pending"}]_vars
          /\ [\A p \in Pages : row[p].status = "success" => file'[p] = file[p]]_vars
  BY NextResult DEF SuccessStays
<1> QED
  BY <1>1, <1>2, ResultKept, PTL DEF Spec, SuccessKept, FileKept

\* A worker alone is apart from every other.
LEMMA AloneIsApart ==
    ASSUME OneWorker
    PROVE  []Apart
<1>1. Apart
  BY DEF OneWorker, Apart
<1> QED
  BY <1>1, PTL

\* CrawlProperties.SuccessDescribesFile for one worker beside any number of
\* schedulers: a row recorded as fetched has the hash of the file on disk.
THEOREM SuccessIsTheFile ==
    ASSUME OneWorker
    PROVE  Spec => []SuccessDescribesFile
BY AloneIsApart, ApartKeepsResults, PTL

\* CrawlProperties.FetchTimeCoversBody for one worker: the stored hash is
\* never of a body newer than the time of the fetch.
THEOREM TimeCoversBody ==
    ASSUME OneWorker
    PROVE  Spec => []FetchTimeCoversBody
BY AloneIsApart, ApartKeepsResults, PTL

\* CrawlProperties.SuccessKept for one worker: whatever message is delivered
\* again, a fetched page does not turn into a failed one.
THEOREM SuccessNeverFails ==
    ASSUME OneWorker
    PROVE  Spec => SuccessKept
BY AloneIsApart, ApartKeepsResults, PTL

\* CrawlProperties.FileKept for one worker: a duplicate of a message does not
\* write the file of a page that is fetched.
THEOREM FileOfSuccessKept ==
    ASSUME OneWorker
    PROVE  Spec => FileKept
BY AloneIsApart, ApartKeepsResults, PTL
=============================================================================
