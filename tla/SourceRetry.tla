------------------------------ MODULE SourceRetry ------------------------------
(***************************************************************************)
(* The retry loop both discovery sources run around one request            *)
(* (_fetch_document, fetch_experience_api_page).                           *)
(***************************************************************************)
EXTENDS Integers

\* "answer": readable content; "throttled": 429; "unstable": 408, 5xx or a
\* transport error; "refused": any other status, an exception the loop does
\* not catch, or content that is rejected.
Failure == {"throttled", "unstable", "refused"}

MaxRequestAttempts == 3

\* Mutant: off by one.
RetriesRequestLateMutant(failure, attempt) ==
    failure # "refused" /\ attempt <= MaxRequestAttempts

RetriesRequest(failure, attempt) ==
    failure # "refused" /\ attempt < MaxRequestAttempts

\* retry_after_seconds: no cap, and none if absent or unreadable.  float
\* takes "inf" as well, which is slept without end; `seconds` is what any
\* other value means.
Endless(header) == header.readable /\ header.endless

RetryAfterSeconds(header) ==
    IF header.readable /\ header.seconds < 0 THEN 0 ELSE header.seconds

\* Mutant: Retry-After is not looked at.
RequestDelaysMutant(failure, header, attempt, jitter) ==
    {(IF attempt = 1 THEN 2 ELSE 5) + j : j \in 0..jitter}

\* The sleeps allowed before the attempt after this one.
RequestDelays(failure, header, attempt, jitter) ==
    IF failure = "throttled" /\ header.readable
    THEN {RetryAfterSeconds(header)}
    ELSE {(IF attempt = 1 THEN 2 ELSE 5) + j : j \in 0..jitter}
=============================================================================
