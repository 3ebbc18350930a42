------------------------------ MODULE BatchWrite ------------------------------
(***************************************************************************)
(* write_discovered_batch (discovery/writer.py) in detail: the folding of  *)
(* a batch into pages and lineage rows, the session that reads both tables *)
(* and commits, several jobs at once, and workers fetching meanwhile.      *)
(*                                                                         *)
(* MySQL reads from the snapshot of the session's first SELECT; a row that *)
(* another session has written is waited for and then updated as it is.    *)
(***************************************************************************)
EXTENDS PageTable, FiniteSets, Sequences, SequencesExt

CONSTANTS
    Jobs,        \* concurrent scheduler jobs, each with its crawl_runs row
    Pages,       \* page identities
    Sources,     \* pairs of source_type and source_key
    Batches,     \* the batches a job may be handed
    MaxBatches,  \* bound on the batches of a job
    Times        \* the times of edits and fetches

\* A DiscoveredPage; source_page 0 stands for NULL.
Item == [page : Pages, source : Sources, source_page : Nat,
         source_modified_at : Times \cup {None}]

ASSUME BatchWriteAssumption ==
    /\ IsFiniteSet(Jobs)
    /\ Batches \subseteq Seq(Item) /\ <<>> \notin Batches
    /\ Times \subseteq Nat /\ MaxBatches \in Nat

VARIABLES
    pages,         \* table pages
    sources,       \* table page_sources: a row per lineage
    pc,            \* "idle", "writing" or "failed"
    batch,         \* the batch in hand
    snapshot,      \* the tables as the session read them
    stats,         \* DiscoveryWriteStats
    dispatchable,  \* dispatchable_page_ids of the last batch committed
    committed,     \* history: items committed, in order, each with its run
    raced          \* history: rows another session wrote between the read
                   \* and the commit of one

tables == <<pages, sources>>
jobs == <<pc, batch, snapshot, stats, dispatchable>>
history == <<committed, raced>>
vars == <<tables, jobs, history>>

Put(f, x, v) == [f EXCEPT ![x] = v]
Lineage(item) == <<item.page, item.source>>

LineageRow == [first_seen_page : Nat, last_seen_page : Nat,
               source_modified_at : Stamp, first_run : Jobs, last_run : Jobs]

NoStats == [observations |-> 0, pages_inserted |-> 0, pages_updated |-> 0,
            batches_written |-> 0]

NoSnapshot == [pages |-> <<>>, sources |-> <<>>]

Init ==
    /\ pages = [p \in Pages |-> AbsentRow]
    /\ sources = <<>>
    /\ pc = [j \in Jobs |-> "idle"]
    /\ batch = [j \in Jobs |-> <<>>]
    /\ snapshot = [j \in Jobs |-> NoSnapshot]
    /\ stats = [j \in Jobs |-> NoStats]
    /\ dispatchable = [j \in Jobs |-> {}]
    /\ committed = <<>>
    /\ raced = {}

-----------------------------------------------------------------------------
(* aggregate_discovered_batch *)

PagesOf(b) == {item.page : item \in Range(b)}
LineagesOf(b) == {Lineage(item) : item \in Range(b)}
OfPage(b, p) == {item \in Range(b) : item.page = p}

\* Where a batch tells of a lineage.
OfLineage(b, key) == {i \in DOMAIN b : Lineage(b[i]) = key}

\* _later, over all the items.
Latest(items) == Max({None} \cup {item.source_modified_at : item \in items})

-----------------------------------------------------------------------------
(* The lineage of a page: one row per source that lists it *)

\* Mutant: pages are counted from zero, NULL or not.
NewLineageMutant(b, key, run) ==
    LET seen == OfLineage(b, key)
    IN  [first_seen_page |-> b[Min(seen)].source_page - 1,
         last_seen_page |-> b[Max(seen)].source_page - 1,
         source_modified_at |-> Latest({b[i] : i \in seen}),
         first_run |-> run, last_run |-> run]

NewLineage(b, key, run) ==
    LET seen == OfLineage(b, key)
    IN  [first_seen_page |-> b[Min(seen)].source_page,
         last_seen_page |-> b[Max(seen)].source_page,
         source_modified_at |-> Latest({b[i] : i \in seen}),
         first_run |-> run, last_run |-> run]

\* Mutant: the time of the batch replaces the one there is.
SeenLineageMutant(r, b, key, run) ==
    LET seen == OfLineage(b, key)
    IN  [r EXCEPT !.last_seen_page = b[Max(seen)].source_page,
                  !.last_run = run,
                  !.source_modified_at = Latest({b[i] : i \in seen})]

SeenLineage(r, b, key, run) ==
    LET seen == OfLineage(b, key)
    IN  [r EXCEPT !.last_seen_page = b[Max(seen)].source_page,
                  !.last_run = run,
                  !.source_modified_at = Later(@, Latest({b[i] : i \in seen}))]

\* An UPDATE of the columns that the session changed, of those it assigns to.
FlushLineage(current, old, new) ==
    [current EXCEPT
        !.last_seen_page = Column(@, old.last_seen_page, new.last_seen_page),
        !.last_run = Column(@, old.last_run, new.last_run),
        !.source_modified_at =
            Column(@, old.source_modified_at, new.source_modified_at)]

-----------------------------------------------------------------------------
(* write_discovered_batch *)

\* The session starts: it sees the tables as they are now.
Read(j) ==
    /\ pc[j] = "idle"
    /\ stats[j].batches_written < MaxBatches
    /\ \E b \in Batches :
          /\ batch' = Put(batch, j, b)
          /\ snapshot' = Put(snapshot, j,
                 [pages |-> [p \in PagesOf(b) |-> pages[p]],
                  sources |-> [key \in DOMAIN sources \cap LineagesOf(b) |->
                                  sources[key]]])
    /\ pc' = Put(pc, j, "writing")
    /\ UNCHANGED <<tables, stats, dispatchable, history>>

PageWrite(j, p) ==
    LET old == snapshot[j].pages[p]
    IN  [old |-> old,
         new |-> DiscoveredRow(old, Latest(OfPage(batch[j], p)))]

WrittenPages(j) ==
    [p \in Pages |-> IF p \in PagesOf(batch[j])
                     THEN Flush(pages[p], PageWrite(j, p)) ELSE pages[p]]

WrittenLineage(j, key) ==
    LET old == snapshot[j].sources[key]
    IN  IF key \notin DOMAIN snapshot[j].sources
        THEN NewLineage(batch[j], key, j)
        ELSE FlushLineage(sources[key], old, SeenLineage(old, batch[j], key, j))

WrittenSources(j) ==
    [key \in DOMAIN sources \cup LineagesOf(batch[j]) |->
        IF key \in LineagesOf(batch[j]) THEN WrittenLineage(j, key)
                                        ELSE sources[key]]

\* uq_pages_identity or uq_page_source refuses a row of the batch.
Refused(j) ==
    \/ \E p \in PagesOf(batch[j]) : Conflicts(pages[p], PageWrite(j, p))
    \/ \E key \in LineagesOf(batch[j]) \cap DOMAIN sources :
          key \notin DOMAIN snapshot[j].sources

InsertedPages(j) ==
    {p \in PagesOf(batch[j]) : snapshot[j].pages[p].status = "absent"}

\* DiscoveryWriteStats.include
Included(j) ==
    LET new == Cardinality(InsertedPages(j))
    IN  [observations |-> stats[j].observations + Len(batch[j]),
         pages_inserted |-> stats[j].pages_inserted + new,
         pages_updated |->
             stats[j].pages_updated + Cardinality(PagesOf(batch[j])) - new,
         batches_written |-> stats[j].batches_written + 1]

\* Rows another job has written since the session read them.
Overtaken(j) ==
    {<<p>> : p \in {q \in PagesOf(batch[j]) :
        pages[q].source_modified_at # snapshot[j].pages[q].source_modified_at}}
    \cup
    {key \in DOMAIN snapshot[j].sources :
        sources[key] # snapshot[j].sources[key]}

CloseSession(j) ==
    /\ batch' = Put(batch, j, <<>>)
    /\ snapshot' = Put(snapshot, j, NoSnapshot)

Commit(j) ==
    /\ pc[j] = "writing"
    /\ ~Refused(j)
    /\ pages' = WrittenPages(j)
    /\ sources' = WrittenSources(j)
    /\ stats' = Put(stats, j, Included(j))
    /\ dispatchable' = Put(dispatchable, j,
           {p \in PagesOf(batch[j]) :
               Dispatchable(snapshot[j].pages[p], Latest(OfPage(batch[j], p)))})
    /\ committed' = committed \o
           [i \in DOMAIN batch[j] |-> [item |-> batch[j][i], run |-> j]]
    /\ raced' = raced \cup Overtaken(j)
    /\ pc' = Put(pc, j, "idle")
    /\ CloseSession(j)

\* Mutant: what was counted before the conflict stays counted.
RollBackCountingMutant(j) ==
    /\ pc[j] = "writing"
    /\ pc' = Put(pc, j, "failed")
    /\ stats' = Put(stats, j, Included(j))
    /\ CloseSession(j)
    /\ UNCHANGED <<tables, dispatchable, history>>

\* A constraint refuses a row, or the database fails or chooses the session
\* as the victim of a deadlock: nothing is written and the job's writer ends.
RollBack(j) ==
    /\ pc[j] = "writing"
    /\ pc' = Put(pc, j, "failed")
    /\ CloseSession(j)
    /\ UNCHANGED <<tables, stats, dispatchable, history>>

\* A worker commits the result of a message for a pending page.
Fetch(p) ==
    /\ pages[p].status = "pending"
    /\ \/ \E now \in Times :
             /\ now >= pages[p].last_fetched_at
             /\ pages' = Put(pages, p, SuccessRow(pages[p], now, now))
       \/ pages' = Put(pages, p, FailedRow(pages[p], "permanent"))
    /\ UNCHANGED <<sources, jobs, history>>

\* No job has a batch left to write and no page waits for a worker.
Terminated ==
    /\ \A j \in Jobs :
          \/ pc[j] = "failed"
          \/ pc[j] = "idle" /\ stats[j].batches_written = MaxBatches
    /\ UNCHANGED vars

Write(j) == Read(j) \/ Commit(j) \/ RollBack(j)

Next ==
    \/ \E j \in Jobs : Write(j)
    \/ \E p \in Pages : Fetch(p)
    \/ Terminated

Spec == Init /\ [][Next]_vars

-----------------------------------------------------------------------------
\* Every variable holds a value the program can give it.
BatchTypeOK ==
    /\ pages \in [Pages -> Row]
    /\ DOMAIN sources \subseteq Pages \X Sources
    /\ \A key \in DOMAIN sources : sources[key] \in LineageRow
    /\ pc \in [Jobs -> {"idle", "writing", "failed"}]
    /\ \A j \in Jobs : batch[j] \in Batches \cup {<<>>}
    /\ dispatchable \in [Jobs -> SUBSET Pages]

\* However sessions overlap, conflict and roll back, a page has a row exactly
\* when it has a lineage row, and the jobs' counters add up to the rows
\* inserted and the items committed: both tables are written in one
\* transaction and DiscoveryWriteStats counts committed batches only.
TablesAgree ==
    /\ {p \in Pages : pages[p].status # "absent"} =
           {key[1] : key \in DOMAIN sources}
    /\ SumFunction([j \in Jobs |-> stats[j].pages_inserted]) =
           Cardinality({p \in Pages : pages[p].status # "absent"})
    /\ SumFunction([j \in Jobs |-> stats[j].observations]) = Len(committed)

\* A row tells what was committed about it, as if item by item: on which page
\* of its source and by which run a lineage was seen first, whatever sessions
\* overlapped; and, for a row that no session wrote over one it had not seen,
\* where and by which run it was seen last and the latest edit time any item
\* gave (_later, first_seen_page, last_seen_page).  Of a raced row only the
\* first half is promised; times of sighting are not modelled.
RowsTellHistory ==
    LET items == [i \in DOMAIN committed |-> committed[i].item]
    IN  /\ \A key \in DOMAIN sources :
              LET notes == OfLineage(items, key)
              IN  /\ notes # {}
                  /\ sources[key].first_seen_page = items[Min(notes)].source_page
                  /\ sources[key].first_run = committed[Min(notes)].run
                  /\ key \notin raced =>
                        /\ sources[key].last_seen_page = items[Max(notes)].source_page
                        /\ sources[key].last_run = committed[Max(notes)].run
                        /\ sources[key].source_modified_at =
                               Latest({items[i] : i \in notes})
        /\ \A p \in {q \in Pages : <<q>> \notin raced} :
              pages[p].source_modified_at = Latest(OfPage(items, p))

\* A page that becomes pending, new or edited since its fetch, is reported
\* for publication by the very commit that made it so, whatever workers and
\* other jobs did to its row meanwhile: no page waits for a message that no
\* one sends (dispatchable_page_ids).
NoSilentPending ==
    [][\A p \in Pages :
          pages[p].status # "pending" /\ pages'[p].status = "pending" =>
              \E j \in Jobs : stats'[j] # stats[j] /\ p \in dispatchable'[j]]_vars
=============================================================================
