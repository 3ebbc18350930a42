---------------------------- MODULE FetcherProofs ----------------------------
(***************************************************************************)
(* Proofs, for every set of replies and every limit and delay, of what a   *)
(* worker's fetch policy keeps, and that it behaves as a polite client.    *)
(***************************************************************************)
EXTENDS Fetcher, SequenceTheorems, TLAPS

-----------------------------------------------------------------------------
(* What the operators return *)

\* Replies are classified.
LEMMA ErrorOfType ==
    ASSUME NEW n \in Nat, NEW r \in Reply, r.kind # "escape"
    PROVE  ErrorOf(n, r) \in FetchError
BY DEF ErrorOf, FetchError, ValidateResponse, ClassifyStatus, Reply, Is429,
       ExitWorker

\* Retry-After is capped, absent or in the past as well.
LEMMA RetryAfterType ==
    ASSUME NEW h \in RetryHeader
    PROVE  RetryAfter(h) \in 0..RetryMax
BY FetcherAssumption DEF RetryHeader, RetryAfter, Least, Greatest

\* An outcome says "retry" exactly when the attempt is repeated.
LEMMA OutcomeNameType ==
    ASSUME NEW error \in FetchError, NEW n \in Nat
    PROVE  /\ OutcomeName(error, n) \in {"success", "retry", "blocked", "failed"}
           /\ OutcomeName(error, n) = "retry" <=> Retries(error, n, MaxAttempts)
BY DEF OutcomeName, Retries, FetchError

\* The pause of the pacer covers what the base delay still asks for.
LEMMA PacerPause ==
    ASSUME NEW n, EnterPacer(n), age \in Nat
    PROVE  sleep' \in Nat /\ age + sleep' >= BaseDelay
BY FetcherAssumption DEF EnterPacer, Greatest

-----------------------------------------------------------------------------
(* The invariant *)

\* The last n elements of s are TRUE and the one before them is not.
EndsWith(n, s) ==
    /\ n <= Len(s)
    /\ \A i \in 1..Len(s) : i > Len(s) - n => s[i] = TRUE
    /\ n < Len(s) => s[Len(s) - n] = FALSE

\* streak counts the 429 at the end of the last three responses, and the
\* worker is gone exactly when they are three.
StreakCounts ==
    /\ Len(recent) <= Limit429
    /\ EndsWith(streak, recent)
    /\ pc = "gone" <=> streak = Limit429

\* The rows of the message in hand: numbered, all of them retried while
\* another attempt is to come.
TrailSoFar ==
    /\ \A i \in 1..Len(trail) :
          /\ trail[i].no = i
          /\ trail[i].outcome = "retry" => trail[i].error = "retryable"
          /\ trail[i].outcome = "retry" <=>
                 i < Len(trail) \/ pc \in {"pace", "get", "backoff"}
    /\ pc \in {"pace", "get"} => attempt = Len(trail) + 1
    /\ pc = "backoff" => attempt = Len(trail) /\ attempt < MaxAttempts

\* The pause before a request covers the base delay.
Spaced == pc = "pace" => age + sleep >= BaseDelay

\* The pause before a retry covers the Retry-After of the 429 behind it.
QuietCovered ==
    /\ pc = "backoff" /\ trail[attempt].throttled => quiet <= sleep
    /\ pc = "pace" /\ attempt > 1 /\ trail[attempt - 1].throttled => quiet = 0

PolicyInv ==
    /\ FetcherTypeOK
    /\ StreakCounts
    /\ TrailSoFar
    /\ Spaced
    /\ QuietCovered

LEMMA InitPolicy == Init => PolicyInv
BY FetcherAssumption
DEF Init, PolicyInv, FetcherTypeOK, StreakCounts, EndsWith, TrailSoFar, Spaced,
    QuietCovered, Limit429, Forgotten

\* The count goes on or starts anew with another response.
LEMMA EndsWithAppend ==
    ASSUME NEW s \in Seq(BOOLEAN), NEW n \in Nat, EndsWith(n, s),
           NEW b \in BOOLEAN
    PROVE  EndsWith(IF b = TRUE THEN n + 1 ELSE 0, Append(s, b))
<1> DEFINE t == Append(s, b)
<1>1. /\ t \in Seq(BOOLEAN) /\ Len(t) = Len(s) + 1 /\ Len(s) \in Nat
      /\ \A i \in 1..Len(s) : t[i] = s[i]
      /\ t[Len(s) + 1] = b
  OBVIOUS
<1> HIDE DEF t
<1>2. CASE b = TRUE
  BY <1>1, <1>2 DEF EndsWith
<1>3. CASE b = FALSE
  BY <1>1, <1>3 DEF EndsWith
<1> QED
  BY <1>2, <1>3 DEF t

\* Only the last three responses are kept, which is enough to count to three.
LEMMA EndsWithLast3 ==
    ASSUME NEW S, NEW s \in Seq(S), Len(s) <= 4, NEW n \in 0..3, EndsWith(n, s)
    PROVE  /\ Last3(s) \in Seq(S)
           /\ Len(Last3(s)) <= 3
           /\ EndsWith(n, Last3(s))
<1>1. CASE Len(s) <= 3
  <2>1. Last3(s) = s
    BY <1>1 DEF Last3
  <2> QED
    BY <1>1, <2>1
<1>2. CASE Len(s) = 4
  <2> DEFINE t == Tail(s)
  <2>1. s # <<>>
    BY <1>2
  <2>2. /\ t \in Seq(S) /\ Len(t) = 3
        /\ \A i \in 1..3 : t[i] = s[i + 1]
    BY <1>2, <2>1, HeadTailProperties
  <2>3. Last3(s) = t
    BY <1>2 DEF Last3
  <2> HIDE DEF t
  <2>4. n <= Len(t)
    BY <2>2
  <2>5. \A i \in 1..Len(t) : i > Len(t) - n => t[i] = TRUE
    BY <1>2, <2>2 DEF EndsWith
  <2>6. n < Len(t) => t[Len(t) - n] = FALSE
    BY <1>2, <2>2 DEF EndsWith
  <2>7. EndsWith(n, t)
    BY <2>4, <2>5, <2>6 DEF EndsWith
  <2>8. t \in Seq(S) /\ Len(t) <= 3 
    BY <2>2
  <2> QED
    BY <2>3, <2>7, <2>8, Zenon
<1>3. Len(s) <= 3 \/ Len(s) = 4
  <2>1. ASSUME NEW k \in Nat, k <= 4 PROVE k <= 3 \/ k = 4
    BY <2>1
  <2>2. Len(s) \in Nat
    OBVIOUS
  <2> QED
    BY <2>1, <2>2, Zenon
<1> QED
  BY <1>1, <1>2, <1>3, Zenon

\* A reply noted down keeps the types.
LEMMA NoteType ==
    ASSUME FetcherTypeOK, StreakCounts, pc = "get", attempt > 0,
           NEW r \in Replies, NEW h \in RetryHeaders, r.kind # "escape",
           Note(r, h)
    PROVE  /\ streak' \in 0..Limit429
           /\ trail' \in Seq(AttemptRow)
           /\ recent' \in Seq(BOOLEAN)
           /\ Len(recent') <= Limit429
           /\ EndsWith(streak', recent')
           /\ quiet' \in 0..RetryMax
           /\ age' \in 0..Forgotten
<1>1. r \in Reply /\ h \in RetryHeader
  BY FetcherAssumption
<1>2. streak \in 0..2 /\ streak' \in 0..Limit429
  BY DEF Note, NextStreak, FetcherTypeOK, StreakCounts, Limit429, Is429
<1>3. trail' \in Seq(AttemptRow)
  <2>1. [no |-> attempt, throttled |-> Is429(r), error |-> ErrorOf(streak, r),
         outcome |-> OutcomeName(ErrorOf(streak, r), attempt)] \in AttemptRow
    <3>1. ErrorOf(streak, r) \in FetchError
      BY <1>1, ErrorOfType DEF FetcherTypeOK
    <3>2. attempt \in 1..MaxAttempts
      BY FetcherAssumption DEF FetcherTypeOK
    <3> QED
      BY <3>1, <3>2, OutcomeNameType, FetcherAssumption DEF AttemptRow, Is429
  <2> QED
    BY <2>1 DEF Note, FetcherTypeOK
<1>4. recent' \in Seq(BOOLEAN) /\ Len(recent') <= Limit429
      /\ EndsWith(streak', recent')
  <2>1. /\ recent \in Seq(BOOLEAN) /\ Len(recent) <= 3
        /\ EndsWith(streak, recent)
    BY DEF FetcherTypeOK, StreakCounts, Limit429
  <2>2. CASE r.kind # "response"
    BY <2>1, <2>2 DEF Note, NextStreak, Is429, Limit429
  <2>3. CASE r.kind = "response"
    <3> DEFINE b == Is429(r)
               s == Append(recent, b)
    <3>1. b \in BOOLEAN /\ streak' = IF b = TRUE THEN streak + 1 ELSE 0
      BY <2>3 DEF Note, NextStreak, Is429
    <3>2. recent' = Last3(s)
      BY <2>3 DEF Note
    <3> HIDE DEF b
    <3>3. s \in Seq(BOOLEAN) /\ Len(s) <= 4
      BY <2>1, <3>1
    <3>4. EndsWith(IF b = TRUE THEN streak + 1 ELSE 0, s)
      <4>1. streak \in Nat
        BY <1>2
      <4> QED
        BY <2>1, <3>1, <4>1, EndsWithAppend, Zenon
    <3>5. EndsWith(streak', s)
      BY <3>1, <3>4, Zenon
    <3> HIDE DEF s
    <3> QED
      BY <1>2, <3>2, <3>3, <3>5, EndsWithLast3 DEF Limit429
  <2> QED
    BY <2>2, <2>3
<1>5. quiet' \in 0..RetryMax
  BY <1>1, RetryAfterType DEF Note, FetcherTypeOK
<1> QED
  BY <1>2, <1>3, <1>4, <1>5 DEF Note, FetcherTypeOK

-----------------------------------------------------------------------------
(* Every step keeps the invariant, part by part *)

\* The types.
LEMMA NextTypes ==
    ASSUME PolicyInv, [Next]_vars
    PROVE  FetcherTypeOK'
<1> USE FetcherAssumption DEF PolicyInv, Forgotten
<1>1. CASE NextMessage
  <2>1. sleep' \in Nat
    BY <1>1, PacerPause DEF NextMessage, FetcherTypeOK
  <2> QED
    BY <1>1, <2>1 DEF NextMessage, EnterPacer, FetcherTypeOK
<1>2. CASE StartRequest
  BY <1>2 DEF StartRequest, FetcherTypeOK
<1>3. CASE Answer
  <2>1. PICK r \in Replies, h \in RetryHeaders :
            /\ r.kind # "escape"
            /\ AnswerFinal(r, h) \/ AnswerRetry(r, h)
    BY <1>3 DEF Answer
  <2>2. pc = "get" /\ attempt > 0
    BY <2>1 DEF AnswerFinal, AnswerRetry, FetcherTypeOK
  <2>3. /\ streak' \in 0..Limit429
        /\ trail' \in Seq(AttemptRow)
        /\ recent' \in Seq(BOOLEAN)
        /\ quiet' \in 0..RetryMax
        /\ age' \in 0..Forgotten
    BY <2>1, <2>2, NoteType DEF AnswerFinal, AnswerRetry
  <2>4. CASE AnswerFinal(r, h)
    BY <2>3, <2>4 DEF AnswerFinal, FetcherTypeOK
  <2>5. CASE AnswerRetry(r, h)
    <3>1. sleep' \in Nat
      BY <2>5, RetryAfterType DEF AnswerRetry, RetryDelay, FetcherTypeOK
    <3> QED
      BY <2>2, <2>3, <2>5, <3>1 DEF AnswerRetry, FetcherTypeOK
  <2> QED
    BY <2>1, <2>4, <2>5
<1>4. CASE BackoffEnds
  <2>1. sleep' \in Nat
    BY <1>4, PacerPause DEF BackoffEnds, FetcherTypeOK
  <2>2. attempt' \in 1..MaxAttempts
    BY <1>4 DEF BackoffEnds, EnterPacer, FetcherTypeOK, TrailSoFar
  <2> QED
    BY <1>4, <2>1, <2>2 DEF BackoffEnds, EnterPacer, FetcherTypeOK
<1>5. CASE Restart
  BY <1>5 DEF Restart, FetcherTypeOK, Limit429
<1>6. CASE Tick
  BY <1>6 DEF Tick, FetcherTypeOK, Least, Greatest
<1>7. CASE UNCHANGED vars
  BY <1>7 DEF vars, FetcherTypeOK
<1> QED
  BY <1>1, <1>2, <1>3, <1>4, <1>5, <1>6, <1>7 DEF Next

\* The count of 429.
LEMMA NextStreakCounts ==
    ASSUME PolicyInv, [Next]_vars
    PROVE  StreakCounts'
<1> USE DEF PolicyInv
<1>1. CASE Answer
  <2>1. PICK r \in Replies, h \in RetryHeaders :
            /\ r.kind # "escape"
            /\ AnswerFinal(r, h) \/ AnswerRetry(r, h)
    BY <1>1 DEF Answer
  <2>2. r \in Reply
    BY FetcherAssumption
  <2>3. pc = "get" /\ streak \in 0..2 /\ recent \in Seq(BOOLEAN)
    BY <2>1 DEF AnswerFinal, AnswerRetry, FetcherTypeOK, StreakCounts, Limit429
  <2>4. pc' = "gone" <=> streak' = Limit429
    BY <2>1, <2>3
    DEF AnswerFinal, AnswerRetry, Note, NextStreak, ExitWorker, ErrorOf, Retries,
        Limit429, Is429
  <2>5. Len(recent') <= Limit429 /\ EndsWith(streak', recent')
    BY <2>1, <2>3, NoteType DEF AnswerFinal, AnswerRetry, FetcherTypeOK
  <2> QED
    BY <2>4, <2>5 DEF StreakCounts
<1>2. CASE Restart
  BY <1>2 DEF Restart, StreakCounts, EndsWith, Limit429
<1>3. CASE NextMessage \/ StartRequest \/ BackoffEnds \/ Tick \/ UNCHANGED vars
  BY <1>3
  DEF NextMessage, StartRequest, BackoffEnds, EnterPacer, Tick, vars, StreakCounts
<1> QED
  BY <1>1, <1>2, <1>3 DEF Next

\* The pause of the pacer.
LEMMA NextSpaced ==
    ASSUME PolicyInv, [Next]_vars
    PROVE  Spaced'
<1> USE FetcherAssumption DEF PolicyInv, FetcherTypeOK, Forgotten
<1>1. CASE NextMessage \/ BackoffEnds
  <2>1. /\ \E n : EnterPacer(n)
        /\ age \in Nat /\ age' = age
    BY <1>1 DEF NextMessage, BackoffEnds
  <2>2. age + sleep' >= BaseDelay
    BY <2>1, PacerPause
  <2> QED
    BY <2>1, <2>2 DEF Spaced
<1>2. CASE Tick
  BY <1>2 DEF Tick, Spaced, Least, Greatest
<1>3. CASE StartRequest \/ Answer \/ Restart
  BY <1>3 DEF StartRequest, Answer, AnswerFinal, AnswerRetry, Restart, Spaced
<1>4. CASE UNCHANGED vars
  BY <1>4 DEF vars, Spaced
<1> QED
  BY <1>1, <1>2, <1>3, <1>4 DEF Next

\* A reply adds one row, which says "retry" exactly when there is a retry.
LEMMA NoteTrail ==
    ASSUME PolicyInv, NEW r \in Replies, NEW h \in RetryHeaders,
           r.kind # "escape", pc = "get", Note(r, h)
    PROVE  /\ Len(trail) \in Nat /\ Len(trail') = Len(trail) + 1
           /\ \A i \in 1..Len(trail) : trail'[i] = trail[i]
           /\ trail'[Len(trail) + 1].no = attempt
           /\ trail'[Len(trail) + 1].throttled = Is429(r)
           /\ trail'[Len(trail) + 1].error = ErrorOf(streak, r)
           /\ trail'[Len(trail) + 1].outcome = "retry" <=>
                  Retries(ErrorOf(streak, r), attempt, MaxAttempts)
<1>1. streak \in Nat /\ r \in Reply
  BY FetcherAssumption DEF PolicyInv, FetcherTypeOK, Limit429
<1>2. ErrorOf(streak, r) \in FetchError
  BY <1>1, ErrorOfType
<1> USE FetcherAssumption DEF PolicyInv, FetcherTypeOK
<1> DEFINE new == [no |-> attempt, throttled |-> Is429(r),
                   error |-> ErrorOf(streak, r),
                   outcome |-> OutcomeName(ErrorOf(streak, r), attempt)]
<1>3. trail \in Seq(AttemptRow) /\ trail' = Append(trail, new)
  BY DEF Note
<1>4. OutcomeName(ErrorOf(streak, r), attempt) = "retry" <=>
          Retries(ErrorOf(streak, r), attempt, MaxAttempts)
  BY <1>2, OutcomeNameType
<1>5. /\ new.no = attempt /\ new.throttled = Is429(r)
      /\ new.error = ErrorOf(streak, r)
      /\ new.outcome = OutcomeName(ErrorOf(streak, r), attempt)
  OBVIOUS
<1> HIDE DEF new
<1>6. /\ Len(trail) \in Nat /\ Len(trail') = Len(trail) + 1
      /\ \A i \in 1..Len(trail) : trail'[i] = trail[i]
      /\ trail'[Len(trail) + 1] = new
  BY <1>3
<1> QED
  BY <1>4, <1>5, <1>6

\* The rows of the message.
LEMMA NextTrail ==
    ASSUME PolicyInv, [Next]_vars
    PROVE  TrailSoFar'
<1> USE FetcherAssumption DEF PolicyInv, FetcherTypeOK
<1>1. CASE Answer
  <2>1. PICK r \in Replies, h \in RetryHeaders :
            /\ r.kind # "escape"
            /\ AnswerFinal(r, h) \/ AnswerRetry(r, h)
    BY <1>1 DEF Answer
  <2>2. pc = "get" /\ Note(r, h) /\ attempt = Len(trail) + 1
    BY <2>1 DEF AnswerFinal, AnswerRetry, TrailSoFar
  <2>3. /\ Len(trail) \in Nat /\ Len(trail') = Len(trail) + 1
        /\ \A i \in 1..Len(trail) : trail'[i] = trail[i]
        /\ trail'[Len(trail) + 1].no = attempt
        /\ trail'[Len(trail) + 1].error = ErrorOf(streak, r)
        /\ trail'[Len(trail) + 1].outcome = "retry" <=>
               Retries(ErrorOf(streak, r), attempt, MaxAttempts)
    BY <2>1, <2>2, NoteTrail
  <2>4. \A i \in 1..Len(trail) :
            /\ trail'[i].no = i
            /\ trail'[i].outcome = "retry" /\ trail'[i].error = "retryable"
    BY <2>2, <2>3 DEF TrailSoFar
  <2>5. CASE AnswerFinal(r, h)
    <3>1. pc' \in {"idle", "gone"} /\ trail'[Len(trail) + 1].outcome # "retry"
      BY <2>3, <2>5 DEF AnswerFinal
    <3> QED
      BY <2>2, <2>3, <2>4, <3>1 DEF TrailSoFar
  <2>6. CASE AnswerRetry(r, h)
    <3>1. /\ pc' = "backoff" /\ attempt' = attempt /\ attempt < MaxAttempts
          /\ trail'[Len(trail) + 1].outcome = "retry"
          /\ trail'[Len(trail) + 1].error = "retryable"
      BY <2>3, <2>6 DEF AnswerRetry, Retries
    <3> QED
      BY <2>2, <2>3, <2>4, <3>1 DEF TrailSoFar
  <2> QED
    BY <2>1, <2>5, <2>6
<1>2. CASE NextMessage
  BY <1>2 DEF NextMessage, EnterPacer, TrailSoFar
<1>3. CASE BackoffEnds
  BY <1>3 DEF BackoffEnds, EnterPacer, TrailSoFar
<1>4. CASE Restart
  BY <1>4 DEF Restart, TrailSoFar
<1>5. CASE StartRequest \/ Tick \/ UNCHANGED vars
  BY <1>5 DEF StartRequest, Tick, vars, TrailSoFar
<1> QED
  BY <1>1, <1>2, <1>3, <1>4, <1>5 DEF Next

\* The silence Retry-After asks for.
LEMMA NextQuiet ==
    ASSUME PolicyInv, [Next]_vars
    PROVE  QuietCovered'
<1> USE FetcherAssumption DEF PolicyInv, FetcherTypeOK
<1>1. CASE Answer
  <2>1. PICK r \in Replies, h \in RetryHeaders :
            /\ r.kind # "escape"
            /\ AnswerFinal(r, h) \/ AnswerRetry(r, h)
    BY <1>1 DEF Answer
  <2>2. CASE AnswerFinal(r, h)
    BY <2>2 DEF AnswerFinal, QuietCovered
  <2>3. CASE AnswerRetry(r, h)
    <3>1. /\ pc' = "backoff" /\ attempt' = Len(trail) + 1
          /\ trail'[Len(trail) + 1].throttled = Is429(r)
      BY <2>1, <2>3, NoteTrail DEF AnswerRetry, TrailSoFar
    <3>2. Is429(r) => sleep' = quiet' /\ quiet' = RetryAfter(h)
      BY <2>3 DEF AnswerRetry, Note
    <3> QED
      BY <3>1, <3>2, RetryAfterType DEF QuietCovered
  <2> QED
    BY <2>1, <2>2, <2>3
<1>2. CASE BackoffEnds
  BY <1>2 DEF BackoffEnds, EnterPacer, TrailSoFar, QuietCovered
<1>3. CASE Tick
  BY <1>3 DEF Tick, Greatest, QuietCovered
<1>4. CASE NextMessage \/ StartRequest \/ Restart
  BY <1>4 DEF NextMessage, EnterPacer, StartRequest, Restart, QuietCovered
<1>5. CASE UNCHANGED vars
  BY <1>5 DEF vars, QuietCovered
<1> QED
  BY <1>1, <1>2, <1>3, <1>4, <1>5 DEF Next

LEMMA NextPolicy == PolicyInv /\ [Next]_vars => PolicyInv'
BY NextTypes, NextStreakCounts, NextTrail, NextSpaced, NextQuiet DEF PolicyInv

\* PolicyInv holds throughout.
LEMMA PolicyHolds == Spec => []PolicyInv
BY InitPolicy, NextPolicy, PTL DEF Spec

-----------------------------------------------------------------------------
(* The theorems *)

\* The variables of a worker's fetch policy keep their types: no message
\* has more attempts than FETCH_MAX_ATTEMPTS, no silence is longer than the
\* cap of Retry-After.
THEOREM PolicyTypes == Spec => []FetcherTypeOK
BY PolicyHolds, PTL DEF PolicyInv

\* Whatever the limits and replies, a worker leaves when and only when its
\* last three responses are 429 (consecutive_429).
THEOREM LeavesInTime == Spec => []LeavesOnThird429
<1>1. PolicyInv => LeavesOnThird429
  <2> SUFFICES ASSUME PolicyInv PROVE LeavesOnThird429
    OBVIOUS
  <2>1. /\ recent \in Seq(BOOLEAN) /\ streak \in Nat
        /\ Len(recent) \in Nat /\ Len(recent) <= 3
        /\ EndsWith(streak, recent)
        /\ pc = "gone" <=> streak = 3
    BY DEF PolicyInv, FetcherTypeOK, StreakCounts, Limit429
  <2>2. Len(recent) = 3 =>
            /\ streak = 3 => \A i \in 1..3 : recent[i] = TRUE
            /\ streak # 3 => \E i \in 1..3 : recent[i] = FALSE
    <3>1. SUFFICES ASSUME Len(recent) = 3
                   PROVE  /\ streak = 3 => \A i \in 1..3 : recent[i] = TRUE
                          /\ streak # 3 => \E i \in 1..3 : recent[i] = FALSE
      OBVIOUS
    <3>2. streak = 3 => \A i \in 1..3 : recent[i] = TRUE
      BY <2>1, <3>1 DEF EndsWith
    <3>3. streak # 3 => 3 - streak \in 1..3 /\ recent[3 - streak] = FALSE
      BY <2>1, <3>1 DEF EndsWith
    <3> QED
      BY <3>2, <3>3
  <2>3. streak = 3 => Len(recent) = 3
    <3>1. ASSUME NEW k \in Nat, k <= 3, 3 <= k PROVE k = 3
      BY <3>1
    <3>2. streak <= Len(recent)
      BY <2>1, Zenon DEF EndsWith
    <3> QED
      BY <2>1, <3>1, <3>2, Zenon
  <2>4. Len(recent) = 3 =>
            (pc = "gone" <=> \A i \in 1..3 : recent[i])
    <3>1. (\A i \in 1..3 : recent[i] = TRUE) => \A i \in 1..3 : recent[i]
      BY Zenon
    <3>2. (\E i \in 1..3 : recent[i] = FALSE) => ~ \A i \in 1..3 : recent[i]
      BY Zenon
    <3> QED
      BY <2>1, <2>2, <3>1, <3>2, Zenon
  <2> QED
    BY <2>1, <2>3, <2>4 DEF LeavesOnThird429, Limit429
<1> QED
  BY <1>1, PolicyHolds, PTL

\* The rows of fetch_attempts tell the story of every message.
THEOREM StoriesTold == Spec => []TrailTellsStory
<1>1. PolicyInv => TrailTellsStory
  BY DEF PolicyInv, FetcherTypeOK, TrailSoFar, TrailTellsStory
<1> QED
  BY <1>1, PolicyHolds, PTL

\* A retry waits for the Retry-After behind it.
THEOREM SilenceKept == Spec => RetryAfterKept
<1>1. PolicyInv /\ [Next]_vars =>
          [StartRequest /\ attempt > 1 /\ trail[attempt - 1].throttled
               => quiet = 0]_vars
  BY DEF PolicyInv, QuietCovered, StartRequest
<1> QED
  BY <1>1, PolicyHolds, PTL DEF Spec, RetryAfterKept

\* A worker is a polite client of the site: every step of its fetch policy is
\* one of PoliteClient or invisible to the site.
THEOREM FetcherIsPolite == Spec => BehavesPolitely
<1>1. Init => Polite!Init
  BY DEF Init, Polite!Init, Requested
<1>2. PolicyInv /\ [Next]_vars => [Polite!Next]_(Polite!vars)
  <2> SUFFICES ASSUME PolicyInv, [Next]_vars
               PROVE  [Polite!Next]_(Polite!vars)
    OBVIOUS
  <2> USE FetcherAssumption DEF PolicyInv, FetcherTypeOK, Requested, Polite!vars
  <2>1. CASE NextMessage
    BY <2>1 DEF NextMessage, EnterPacer
  <2>2. CASE StartRequest
    <3>1. age >= BaseDelay /\ attempt - 1 < MaxAttempts
      BY <2>2 DEF StartRequest, Spaced, Forgotten
    <3>2. Polite!Request
      BY <2>2, <3>1 DEF StartRequest, Polite!Request
    <3> QED
      BY <3>2 DEF Polite!Next
  <2>3. CASE Answer
    <3>1. PICK r \in Replies, h \in RetryHeaders :
              AnswerFinal(r, h) \/ AnswerRetry(r, h)
      BY <2>3 DEF Answer
    <3>2. CASE AnswerFinal(r, h)
      BY <3>2 DEF AnswerFinal, Note, Polite!Finish, Polite!Next
    <3>3. CASE AnswerRetry(r, h)
      BY <3>3 DEF AnswerRetry, Note
    <3> QED
      BY <3>1, <3>2, <3>3
  <2>4. CASE BackoffEnds
    BY <2>4 DEF BackoffEnds, EnterPacer
  <2>5. CASE Restart
    BY <2>5 DEF Restart, Polite!Restart, Polite!Next
  <2>6. CASE Tick
    BY <2>6 DEF Tick, Least, Forgotten, Polite!Tick, Polite!Next
  <2>7. CASE UNCHANGED vars
    BY <2>7 DEF vars
  <2> QED
    BY <2>1, <2>2, <2>3, <2>4, <2>5, <2>6, <2>7 DEF Next
<1> QED
  BY <1>1, <1>2, PolicyHolds, PTL DEF Spec, BehavesPolitely, Polite!Spec
=============================================================================
