------------------------------ MODULE PageTable ------------------------------
(***************************************************************************)
(* The `pages` table as the scheduler, the discovery writer and the        *)
(* workers use it, and how one of their transactions changes a row.        *)
(*                                                                         *)
(* Times and body hashes are stamps: the number of edits the site had made *)
(* when the value was taken.  A body is identified with the edit that      *)
(* produced it, so its hash and its edit time are the same stamp.          *)
(***************************************************************************)
EXTENDS Integers

\* SQL NULL in a time or hash column; it is below every time.
None == -1

Stamp == Nat \cup {None}

\* "absent": no row has been inserted for the identity yet.
Status == {"absent", "pending", "success", "failed"}

\* "none": last_error_type IS NULL.
ErrorType == {"none", "retryable", "permanent", "blocked"}

Row == [status : Status,
        last_error_type : ErrorType,
        body_sha256 : Stamp,
        last_fetched_at : Stamp,
        source_modified_at : Stamp]

AbsentRow == [status |-> "absent",
              last_error_type |-> "none",
              body_sha256 |-> None,
              last_fetched_at |-> None,
              source_modified_at |-> None]

(***************************************************************************)
(* A session reads a row (a snapshot), assigns to its attributes and       *)
(* commits.  The UPDATE it sends names only the columns whose value differs*)
(* from the snapshot, and MySQL applies it to the row as it then is.  A    *)
(* transaction is therefore the pair of the row read and the row wanted.   *)
(***************************************************************************)
Transaction == [old : Row, new : Row]

NoTransaction == [old |-> AbsentRow, new |-> AbsentRow]

Column(current, old, new) == IF new = old THEN current ELSE new

Flush(current, t) ==
    [status |->
        Column(current.status, t.old.status, t.new.status),
     last_error_type |->
        Column(current.last_error_type,
               t.old.last_error_type, t.new.last_error_type),
     body_sha256 |->
        Column(current.body_sha256, t.old.body_sha256, t.new.body_sha256),
     last_fetched_at |->
        Column(current.last_fetched_at,
               t.old.last_fetched_at, t.new.last_fetched_at),
     source_modified_at |->
        Column(current.source_modified_at,
               t.old.source_modified_at, t.new.source_modified_at)]

\* The row inserted by t exists already: UNIQUE(page_type, external_id).
Conflicts(current, t) ==
    /\ t.old.status = "absent"
    /\ t.new.status # "absent"
    /\ current.status # "absent"

-----------------------------------------------------------------------------
(* What each transaction of the program asks for, given the row it read.   *)

Later(left, right) == IF left >= right THEN left ELSE right

Retryable(r) == r.status = "failed" /\ r.last_error_type = "retryable"

\* Mutant: the errors of earlier attempts are left in place.
SuccessRowErrorKeptMutant(r, body, now) ==
    [r EXCEPT !.status = "success", !.body_sha256 = body, !.last_fetched_at = now]

\* Mutant: the fetch is dated with the edit time the listing gave.
SuccessRowListedTimeMutant(r, body, now) ==
    [r EXCEPT !.status = "success",
              !.last_error_type = "none",
              !.body_sha256 = body,
              !.last_fetched_at = r.source_modified_at]

\* A worker stored a body and fetched it.
SuccessRow(r, body, now) ==
    [r EXCEPT !.status = "success",
              !.last_error_type = "none",
              !.body_sha256 = body,
              !.last_fetched_at = now]

\* A worker gave up on the page.
FailedRow(r, error) ==
    [r EXCEPT !.status = "failed", !.last_error_type = error]

\* The scheduler puts a retryable page back before publishing it.
RequeuedRow(r) == IF Retryable(r) THEN [r EXCEPT !.status = "pending"] ELSE r

\* The listing shows an edit made after the stored fetch.
Outdated(r, modified) ==
    /\ r.status = "success"
    /\ r.last_fetched_at # None
    /\ modified > r.last_fetched_at

\* Mutant: the edit time is the one listed last.
DiscoveredRowLatestMutant(r, modified) ==
    IF r.status = "absent"
    THEN [AbsentRow EXCEPT !.status = "pending",
                           !.source_modified_at = modified]
    ELSE LET seen == [r EXCEPT !.source_modified_at = modified]
         IN  IF Outdated(r, modified)
             THEN [seen EXCEPT !.status = "pending", !.last_error_type = "none"]
             ELSE seen

\* The discovery writer saw the page listed with the edit time `modified`.
DiscoveredRow(r, modified) ==
    IF r.status = "absent"
    THEN [AbsentRow EXCEPT !.status = "pending",
                           !.source_modified_at = modified]
    ELSE LET seen == [r EXCEPT !.source_modified_at = Later(@, modified)]
         IN  IF Outdated(r, modified)
             THEN [seen EXCEPT !.status = "pending", !.last_error_type = "none"]
             ELSE seen

\* Mutant: only new pages are reported.
DispatchableNewMutant(r, modified) == r.status = "absent"

\* The writer reports the page for publication.
Dispatchable(r, modified) == r.status = "absent" \/ Outdated(r, modified)
=============================================================================
