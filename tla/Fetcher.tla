------------------------------- MODULE Fetcher -------------------------------
(***************************************************************************)
(* The fetch policy of one worker process over the messages it handles     *)
(* (fetcher.py): pacing, retries, Retry-After, the count of consecutive    *)
(* 429, and the row of fetch_attempts written for each request.            *)
(*                                                                         *)
(* Times are kept relative, as ages and as remaining sleeps, so that an    *)
(* unbounded run has finitely many states.                                 *)
(***************************************************************************)
EXTENDS FetchDecision, Sequences

CONSTANTS
    Replies,       \* the replies a GET may have
    RetryHeaders,  \* the Retry-After headers a 429 may have
    MaxAttempts,   \* FETCH_MAX_ATTEMPTS
    BaseDelay,     \* FETCH_BASE_DELAY_SECONDS
    Jitter,        \* FETCH_JITTER_SECONDS
    RetryDefault,  \* RETRY_AFTER_DEFAULT_SECONDS
    RetryMax       \* RETRY_AFTER_MAX_SECONDS

\* A Retry-After header: absent or unreadable, or a number of seconds from
\* now, negative for a date in the past.
RetryHeader == [readable : BOOLEAN, seconds : Int]

ASSUME FetcherAssumption ==
    /\ Replies \subseteq Reply
    /\ RetryHeaders \subseteq RetryHeader
    /\ MaxAttempts \in Nat \ {0}
    /\ {BaseDelay, Jitter, RetryDefault, RetryMax} \subseteq Nat

VARIABLES
    pc,       \* "idle", "pace", "get", "backoff" or "gone"
    attempt,  \* attempt_no of the message in hand, 0: none
    streak,   \* consecutive_429
    age,      \* time since _last_started, up to Forgotten
    sleep,    \* what remains of the current asyncio.sleep
    trail,    \* rows of fetch_attempts for the latest message
    recent,   \* history: the last three responses, TRUE for a 429
    quiet     \* history: time for which Retry-After still asks for silence

vars == <<pc, attempt, streak, age, sleep, trail, recent, quiet>>

Least(a, b) == IF a <= b THEN a ELSE b
Greatest(a, b) == IF a >= b THEN a ELSE b

\* An older request, or none, makes RequestPacer.wait return at once.
Forgotten == BaseDelay + Jitter

\* parse_retry_after
RetryAfter(h) ==
    Least(IF h.readable THEN Greatest(0, h.seconds) ELSE RetryDefault, RetryMax)

\* Sleep before the next attempt after an error other than 429.
RetryDelay(n) == IF n = 1 THEN 2 ELSE 5

\* The outcome recorded for an attempt.
OutcomeName(error, n) ==
    CASE error = "none" -> "success"
      [] Retries(error, n, MaxAttempts) -> "retry"
      [] error = "blocked" -> "blocked"
      [] OTHER -> "failed"

Init ==
    /\ pc = "idle"
    /\ attempt = 0
    /\ streak = 0
    /\ age = Forgotten
    /\ sleep = 0
    /\ trail = <<>>
    /\ recent = <<>>
    /\ quiet = 0

\* Mutant: the jitter shortens the delay as well as it lengthens it.
EnterPacerMutant(n) ==
    /\ pc' = "pace"
    /\ attempt' = n
    /\ \E j \in (-Jitter)..Jitter : sleep' = Greatest(0, BaseDelay + j - age)

\* RequestPacer.wait before attempt n
EnterPacer(n) ==
    /\ pc' = "pace"
    /\ attempt' = n
    /\ \E j \in 0..Jitter : sleep' = Greatest(0, BaseDelay + j - age)

NextMessage ==
    /\ pc = "idle"
    /\ EnterPacer(1)
    /\ trail' = <<>>
    /\ UNCHANGED <<streak, age, recent, quiet>>

StartRequest ==
    /\ pc = "pace"
    /\ sleep = 0
    /\ pc' = "get"
    /\ age' = 0
    /\ UNCHANGED <<attempt, streak, sleep, trail, recent, quiet>>

Last3(s) == IF Len(s) > 3 THEN Tail(s) ELSE s

\* What one reply adds to the rows and to the histories.
Note(r, h) ==
    /\ streak' = NextStreak(streak, r)
    /\ trail' = Append(trail,
           [no |-> attempt,
            throttled |-> Is429(r),
            error |-> ErrorOf(streak, r),
            outcome |-> OutcomeName(ErrorOf(streak, r), attempt)])
    /\ recent' = IF r.kind = "response"
                 THEN Last3(Append(recent, Is429(r)))
                 ELSE recent
    /\ quiet' = IF Is429(r) THEN RetryAfter(h) ELSE quiet
    /\ UNCHANGED age

\* The attempt is the last one of its message.
AnswerFinal(r, h) ==
    /\ pc = "get"
    /\ ~Retries(ErrorOf(streak, r), attempt, MaxAttempts)
    /\ pc' = IF ExitWorker(streak, r) THEN "gone" ELSE "idle"
    /\ attempt' = 0
    /\ Note(r, h)
    /\ UNCHANGED sleep

\* Mutant: the fixed delay is used for a 429 as well.
AnswerRetryFixedDelayMutant(r, h) ==
    /\ pc = "get"
    /\ Retries(ErrorOf(streak, r), attempt, MaxAttempts)
    /\ pc' = "backoff"
    /\ \E j \in 0..Jitter : sleep' = RetryDelay(attempt) + j
    /\ Note(r, h)
    /\ UNCHANGED attempt

AnswerRetry(r, h) ==
    /\ pc = "get"
    /\ Retries(ErrorOf(streak, r), attempt, MaxAttempts)
    /\ pc' = "backoff"
    /\ \/ Is429(r) /\ sleep' = RetryAfter(h)
       \/ ~Is429(r) /\ \E j \in 0..Jitter : sleep' = RetryDelay(attempt) + j
    /\ Note(r, h)
    /\ UNCHANGED attempt

Answer ==
    \E r \in Replies, h \in RetryHeaders :
        /\ r.kind # "escape"
        /\ AnswerFinal(r, h) \/ AnswerRetry(r, h)

\* Mutant: the message is started over.
BackoffEndsStartingOverMutant ==
    /\ pc = "backoff"
    /\ sleep = 0
    /\ EnterPacer(1)
    /\ trail' = <<>>
    /\ UNCHANGED <<streak, age, recent, quiet>>

BackoffEnds ==
    /\ pc = "backoff"
    /\ sleep = 0
    /\ EnterPacer(attempt + 1)
    /\ UNCHANGED <<streak, age, trail, recent, quiet>>

\* The process ends for any reason and a new one is started.
Restart ==
    /\ pc' = "idle"
    /\ attempt' = 0
    /\ streak' = 0
    /\ age' = Forgotten
    /\ sleep' = 0
    /\ trail' = <<>>
    /\ recent' = <<>>
    /\ quiet' = 0

Tick ==
    /\ age < Forgotten \/ sleep > 0 \/ quiet > 0
    /\ age' = Least(age + 1, Forgotten)
    /\ sleep' = Greatest(sleep - 1, 0)
    /\ quiet' = Greatest(quiet - 1, 0)
    /\ UNCHANGED <<pc, attempt, streak, trail, recent>>

Next ==
    \/ NextMessage
    \/ StartRequest
    \/ Answer
    \/ BackoffEnds
    \/ Restart
    \/ Tick

Spec == Init /\ [][Next]_vars

\* Time passes, sleeps end, and the client's timeout bounds every GET.
FairSpec ==
    /\ Spec
    /\ WF_vars(Tick)
    /\ WF_vars(StartRequest)
    /\ WF_vars(Answer)
    /\ WF_vars(BackoffEnds)

-----------------------------------------------------------------------------
AttemptRow == [no : 1..MaxAttempts,
               throttled : BOOLEAN,
               error : FetchError,
               outcome : {"success", "retry", "blocked", "failed"}]

\* Every variable holds a value the program can give it, and attempt_no is
\* set exactly while a message is in hand (fetch_with_retry).
FetcherTypeOK ==
    /\ pc \in {"idle", "pace", "get", "backoff", "gone"}
    /\ attempt \in 0..MaxAttempts
    /\ attempt > 0 <=> pc \in {"pace", "get", "backoff"}
    /\ streak \in 0..Limit429
    /\ age \in 0..Forgotten
    /\ sleep \in Nat
    /\ trail \in Seq(AttemptRow)
    /\ recent \in Seq(BOOLEAN)
    /\ quiet \in 0..RetryMax

\* What the code does: the worker leaves when, and only when, its last three
\* responses are all 429, whichever messages they belong to and whatever
\* transport errors came between (consecutive_429).  That is not all worker.py says: by its comments
\* (lines 66 and 204) a worker answered by risk control leaves as well, but
\* it records "blocked" and takes the next message.
LeavesOnThird429 ==
    pc = "gone" <=> Len(recent) = Limit429 /\ \A i \in 1..Limit429 : recent[i]

\* The rows of a message tell its story: attempts numbered from 1 without a
\* gap, each but the last a retry of a retryable error, the last one not a
\* retry once the message is done with (on_attempt, attempt_no).
TrailTellsStory ==
    LET n == Len(trail)
    IN  /\ \A i \in 1..n : trail[i].no = i
        /\ \A i \in 1..n : trail[i].outcome = "retry" => trail[i].error = "retryable"
        /\ \A i \in 1..(n - 1) : trail[i].outcome = "retry"
        /\ pc \in {"idle", "gone"} /\ n > 0 => trail[n].outcome # "retry"
        /\ pc \in {"pace", "get"} => attempt = n + 1

\* A retry never starts before the Retry-After of the 429 that caused it has
\* passed, cap and default included (parse_retry_after).
RetryAfterKept ==
    [][StartRequest /\ attempt > 1 /\ trail[attempt - 1].throttled
           => quiet = 0]_vars

\* A message in hand is finished with: no retry, sleep or pacing goes on for
\* ever (FETCH_MAX_ATTEMPTS, the caps of the sleeps).
MessageEnds == pc \in {"pace", "get", "backoff"} ~> pc \in {"idle", "gone"}

\* What the site may expect: spaced requests, boundedly many per message,
\* none after the worker has left (RequestPacer, exit_worker).
Requested == IF pc = "pace" THEN attempt - 1 ELSE attempt
Polite == INSTANCE PoliteClient WITH tries <- Requested, left <- (pc = "gone")
BehavesPolitely == Polite!Spec
=============================================================================
