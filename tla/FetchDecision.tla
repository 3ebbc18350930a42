---------------------------- MODULE FetchDecision ----------------------------
(***************************************************************************)
(* What a worker concludes from one GET of a page (fetcher.py).  A reply   *)
(* is an HTTP response, a transport error the fetcher catches, or an       *)
(* exception it does not catch.  Of a response only what the validation    *)
(* looks at is kept.                                                       *)
(***************************************************************************)
EXTENDS Integers

ReplyKind == {"response", "transport", "escape"}

Reply == [kind : ReplyKind,
          status : Nat,
          html : BOOLEAN,       \* the content type names HTML
          samePage : BOOLEAN,   \* the final URL is the page asked for
          ample : BOOLEAN,      \* at least 512 bytes
          marker : BOOLEAN,     \* a risk-control or login template
          namesPage : BOOLEAN]  \* the external id occurs in the text

FetchError == {"none", "retryable", "permanent", "blocked"}

ClassifyStatus(status) ==
    CASE status = 200 -> "none"
      [] status \in {401, 403} -> "blocked"
      [] status \in {408, 429} \cup 500..599 -> "retryable"
      [] status \in (400..499) \ {401, 403, 408, 429} -> "permanent"
      [] OTHER -> "retryable"

ValidateResponse(r) ==
    IF ClassifyStatus(r.status) # "none" THEN ClassifyStatus(r.status)
    ELSE IF ~r.html THEN "permanent"
    ELSE IF ~r.samePage THEN "permanent"
    ELSE IF ~r.ample THEN "retryable"
    ELSE IF r.marker THEN "blocked"
    ELSE IF ~r.namesPage THEN "permanent"
    ELSE "none"

Is429(r) == r.kind = "response" /\ r.status = 429

\* Mutant: an answer other than 429 does not reset the count.
NextStreakKeptMutant(streak, r) == IF Is429(r) THEN streak + 1 ELSE streak

\* A transport error leaves the count of consecutive 429 as it is.
NextStreak(streak, r) ==
    IF Is429(r) THEN streak + 1
    ELSE IF r.kind = "response" THEN 0
    ELSE streak

Limit429 == 3

\* Mutant: the worker leaves after the limit and not at it.
ExitWorkerLateMutant(streak, r) == Is429(r) /\ streak + 1 > Limit429

\* The third 429 in a row stops the worker.
ExitWorker(streak, r) == Is429(r) /\ streak + 1 >= Limit429

ErrorOf(streak, r) ==
    IF r.kind = "transport" THEN "retryable"
    ELSE IF Is429(r)
         THEN IF ExitWorker(streak, r) THEN "blocked" ELSE "retryable"
         ELSE ValidateResponse(r)

\* Mutant: every error is retried.
RetriesAnyErrorMutant(error, attempt, maxAttempts) ==
    error # "none" /\ attempt < maxAttempts

\* The same message is tried again in this process.
Retries(error, attempt, maxAttempts) ==
    error = "retryable" /\ attempt < maxAttempts
=============================================================================
