-------------------------------- MODULE ScanJob --------------------------------
(***************************************************************************)
(* A scheduler command from the command line to its exit code (cli.py,     *)
(* scheduler.py): settings, the crawl_runs row, the connection to the      *)
(* broker, the backlog, the pipeline of Discovery, the final row.  It may  *)
(* be interrupted or killed at any point.                                  *)
(***************************************************************************)
EXTENDS Discovery, Config

CONSTANTS
    Environments,  \* the environments a command may be started in
    MaxBacklog     \* bound on the pages _candidate_rows finds

ASSUME ScanJobAssumption ==
    /\ Environments \subseteq Environment
    /\ MaxBacklog \in Nat

VARIABLES
    command,     \* the subcommand and its --max-pages
    env,         \* the environment
    stage,       \* where the command is
    connected,   \* dispatch.publisher is set
    candidates,  \* pages of the backlog still to publish
    backlog_published,
    urls_seen,   \* counters.urls_seen
    fatal,       \* fatal_error is set
    row,         \* the row of crawl_runs
    exit         \* the exit code

job == <<command, env, connected, candidates, backlog_published, urls_seen,
         fatal>>
jobVars == <<vars, job, stage, row, exit>>

\* The old limit of API pages may be given on the command line.
Command == [name : {"full-scan", "discover-only", "publish-pending"},
            max_pages : {"none", "zero", "positive"}]

\* The exit code of a command that still runs, and of one that was killed.
NotYet == -1
Killed == 137

NoRow == [status |-> "none"]
NewRow == [status |-> "running"]

JobInit ==
    /\ Init
    /\ command \in Command
    /\ command.name = "publish-pending" => command.max_pages = "none"
    /\ dispatch = IF command.name = "discover-only" THEN "disabled" ELSE "enabled"
    /\ env \in Environments
    /\ stage = "start"
    /\ connected = FALSE
    /\ candidates = 0
    /\ backlog_published = 0
    /\ urls_seen = 0
    /\ fatal = FALSE
    /\ row = NoRow
    /\ exit = NotYet

Exit(code) == stage' = "exited" /\ exit' = code

\* Where a command goes on without its backlog, or after it.
Onward == IF command.name = "publish-pending" THEN "close" ELSE "pipeline"

-----------------------------------------------------------------------------
(* Before the pipeline *)

\* ValueError: the settings or the arguments are refused.
Refuse ==
    /\ stage = "start"
    /\ ~Accepted(env) \/ command.max_pages = "zero"
    /\ Exit(1)
    /\ UNCHANGED <<vars, job, row>>

\* The database is opened; a run gets its row.
OpenRun ==
    /\ stage = "start"
    /\ Accepted(env) /\ command.max_pages # "zero"
    /\ row' = IF command.name = "publish-pending" THEN NoRow ELSE NewRow
    /\ stage' = IF dispatch = "enabled" THEN "connect" ELSE "pipeline"
    /\ UNCHANGED <<vars, job, exit>>

OpenFails ==
    /\ stage = "start"
    /\ Accepted(env) /\ command.max_pages # "zero"
    /\ Exit(1)
    /\ UNCHANGED <<vars, job, row>>

\* The broker answers and the candidates are read.
Connect ==
    /\ stage = "connect"
    /\ connected' = TRUE
    /\ candidates' \in 0..MaxBacklog
    /\ stage' = "backlog"
    /\ UNCHANGED <<vars, command, env, backlog_published, urls_seen, fatal, row,
                   exit>>

ConnectFails ==
    /\ stage = "connect"
    /\ dispatch' = "failed"
    /\ stage' = Onward
    /\ UNCHANGED <<tasks, queue, consumer, supervisor, history, job, row, exit>>

\* A candidate is published and, once the broker has confirmed it, counted.
PublishCandidate ==
    /\ stage = "backlog"
    /\ candidates > 0
    /\ candidates' = candidates - 1
    /\ sent' = sent + 1
    /\ backlog_published' = backlog_published + 1
    /\ UNCHANGED <<tasks, queue, consumer, supervisor, dispatch, listed, stored,
                   published, command, env, connected, urls_seen, fatal, stage,
                   row, exit>>

\* A publication fails, whether the broker took the message or not: what is
\* left waits for a later backlog, a full scan goes on without publishing.
PublicationFails ==
    /\ stage = "backlog"
    /\ candidates > 0
    /\ sent' \in {sent, sent + 1}
    /\ dispatch' = "failed"
    /\ stage' = Onward
    /\ UNCHANGED <<tasks, queue, consumer, supervisor, listed, stored, published,
                   job, row, exit>>

BacklogDone ==
    /\ stage = "backlog"
    /\ candidates = 0
    /\ stage' = Onward
    /\ UNCHANGED <<vars, job, row, exit>>

\* The database fails while the candidates are read or one of them is
\* requeued: publish-pending takes it for a failed publication.
BacklogRaises ==
    /\ stage = "backlog"
    /\ \/ /\ command.name = "publish-pending"
          /\ dispatch' = "failed"
          /\ UNCHANGED fatal
       \/ /\ command.name = "full-scan"
          /\ fatal' = TRUE
          /\ UNCHANGED dispatch
    /\ stage' = "close"
    /\ UNCHANGED <<tasks, queue, consumer, supervisor, history, command, env,
                   connected, candidates, backlog_published, urls_seen, row, exit>>

-----------------------------------------------------------------------------
(* The pipeline, whose batches on_committed_batch counts *)

\* Mutant: what was stored is taken from the result of the pipeline.
CountHandledMutant ==
    urls_seen' = IF supervisor' = "returned" THEN Len(stored) ELSE urls_seen

CountHandled ==
    urls_seen' = IF writer = "handle" /\ writer' # "handle"
                 THEN urls_seen + Len(batch) ELSE urls_seen

Piped(step) ==
    /\ stage = "pipeline"
    /\ step
    /\ CountHandled
    /\ UNCHANGED <<command, env, connected, candidates, backlog_published,
                   fatal, stage, row, exit>>

PipelineEnds ==
    /\ stage = "pipeline"
    /\ supervisor \in {"returned", "raised"}
    /\ fatal' = (supervisor = "raised")
    /\ stage' = "close"
    /\ UNCHANGED <<vars, command, env, connected, candidates,
                   backlog_published, urls_seen, row, exit>>

-----------------------------------------------------------------------------
(* The end *)

\* The publisher is closed, which may fail as well.
Close ==
    /\ stage = "close"
    /\ \/ UNCHANGED dispatch
       \/ connected /\ dispatch' = "failed"
    /\ stage' = "report"
    /\ UNCHANGED <<tasks, queue, consumer, supervisor, history, job, row, exit>>

Discovered == supervisor = "returned"

\* units_seen of a source: a producer that raised reports none.
UnitsSeen(s) == IF Discovered /\ producer[s] = "ended" THEN requested[s] ELSE 0

\* Mutant: incomplete sources are not a failure.
FailedMutant == fatal \/ dispatch = "failed"

\* _failure_message has something to say.
Failed ==
    \/ fatal
    \/ Discovered /\ \E s \in Sources : ~complete[s]
    \/ dispatch = "failed"

FinalRow ==
    [status |-> IF Failed THEN "failed" ELSE "success",
     upstream_exhausted |-> [s \in Sources |-> Discovered /\ exhausted[s]],
     units_seen |-> [s \in Sources |-> UnitsSeen(s)],
     urls_seen |-> urls_seen,
     messages_published |-> backlog_published + published]

\* The final row is committed.
Report ==
    /\ stage = "report"
    /\ row' = IF command.name = "publish-pending" THEN NoRow ELSE FinalRow
    /\ stage' = "reported"
    /\ UNCHANGED <<vars, job, exit>>

\* Mutant: the run's outcome is left to the row.
ReturnMutant ==
    /\ stage = "reported"
    /\ Exit(0)
    /\ UNCHANGED <<vars, job, row>>

\* A failed run raises RuntimeError, which main turns into 1.
Return ==
    /\ stage = "reported"
    /\ Exit(IF Failed THEN 1 ELSE 0)
    /\ UNCHANGED <<vars, job, row>>

\* The database refuses the final row.
ReportFails ==
    /\ stage = "report"
    /\ command.name # "publish-pending"
    /\ Exit(1)
    /\ UNCHANGED <<vars, job, row>>

\* KeyboardInterrupt: every task is cancelled, the row stays as it is.
Interrupt ==
    /\ stage \notin {"interrupted", "exited"}
    /\ stage' = "interrupted"
    /\ UNCHANGED <<vars, job, row, exit>>

\* The thread that writes a batch cannot be cancelled: asyncio.run waits for
\* it and the batch is committed, unpublished and uncounted.
LateWrite ==
    /\ stage = "interrupted"
    /\ Write
    /\ UNCHANGED <<job, stage, row, exit>>

LeaveInterrupted ==
    /\ stage = "interrupted"
    /\ Exit(130)
    /\ UNCHANGED <<vars, job, row>>

Kill ==
    /\ stage # "exited"
    /\ Exit(Killed)
    /\ UNCHANGED <<vars, job, row>>

Gone == stage = "exited" /\ UNCHANGED jobVars

Advance ==
    \/ Refuse
    \/ OpenRun
    \/ OpenFails
    \/ Connect
    \/ ConnectFails
    \/ PublishCandidate
    \/ PublicationFails
    \/ BacklogDone
    \/ BacklogRaises
    \/ PipelineEnds
    \/ Close
    \/ Report
    \/ Return
    \/ ReportFails
    \/ LateWrite
    \/ LeaveInterrupted

JobNext ==
    \/ Advance
    \/ Piped(Next)
    \/ Interrupt
    \/ Kill
    \/ Gone

\* The event loop runs every task that can go on.  That what a task awaits
\* ends is assumed: of a request, since the HTTP client has timeouts, but for
\* the endless Retry-After of ExperienceApi; of a call of the database or of
\* the broker, for which the code sets none.
JobSpec ==
    /\ JobInit /\ [][JobNext]_jobVars
    /\ WF_jobVars(Advance)
    /\ \A s \in Sources : WF_jobVars(Piped(Produce(s)))
    /\ WF_jobVars(Piped(Consume))
    /\ WF_jobVars(Piped(Supervise))

-----------------------------------------------------------------------------
\* Every variable holds a value the program can give it, in the pipeline as
\* well, and a command that has started has settings that meet the
\* assumptions on the constants (Settings.from_env).
JobTypeOK ==
    /\ DiscoveryTypeOK
    /\ command \in Command
    /\ stage \in {"start", "connect", "backlog", "pipeline", "close", "report",
                  "reported", "interrupted", "exited"}
    /\ candidates \in 0..MaxBacklog
    /\ backlog_published \in 0..MaxBacklog
    /\ fatal \in BOOLEAN
    /\ row.status \in {"none", "running", "success", "failed"}
    /\ exit \in {NotYet, 0, 1, 130, Killed}
    /\ stage = "exited" <=> exit # NotYet
    /\ stage \notin {"start", "interrupted", "exited"} =>
           \A name \in Capacities : Number(env, name) = "positive"

\* The exit code and the row agree, at whatever step the command ends: 0
\* says that the row is that of a success, or that publish-pending published
\* its whole backlog; a row is never at odds with the code, and one left at
\* running goes with a code other than 0 (main, _run_discovery_job).
ExitTells ==
    /\ exit = 0 =>
          IF command.name = "publish-pending"
          THEN candidates = 0 /\ dispatch # "failed"
          ELSE row.status = "success"
    /\ row.status = "success" => exit # 1

\* The row counts what happened, whether the run succeeded, lost a source or
\* its database, or stopped publishing half way: every item stored, and no
\* message the broker did not take.  One message at most is taken and not
\* counted, the one whose publication failed, and none in a success
\* (RunCounters, DispatchState).
RowTells ==
    row.status \in {"success", "failed"} =>
        /\ row.urls_seen = Len(stored)
        /\ row.messages_published <= sent
        /\ sent <= row.messages_published + 1
        /\ row.status = "success" => sent = row.messages_published

\* A run recorded as a success stored every item of every page and document
\* it asked for.  It asked a source it calls exhausted for all there is; one
\* it does not is the API, asked for all the pages it was allowed, and may
\* have more.  A full scan has also published all of it and the backlog
\* (_failure_message).
SuccessIsComplete ==
    row.status = "success" =>
        /\ \A s \in Sources :
              /\ unsent[s] = 0
              /\ IF row.upstream_exhausted[s]
                 THEN requested[s] = Len(Pages[s])
                 ELSE s \in Paged /\ requested[s] = MaxPages
        /\ stored = listed
        /\ command.name = "full-scan" =>
               published = Len(stored) /\ candidates = 0 /\ dispatch = "enabled"

\* The command ends: a full queue, a failed writer and failed sources never
\* leave a task waiting for another (run_discovery_pipeline).
RunEnds == <>(exit # NotYet)
=============================================================================
