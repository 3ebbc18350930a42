------------------------------ MODULE MCFetcher ------------------------------
(* Instances of Fetcher for TLC: one reply of every class the policy tells *)
(* apart.                                                                  *)
EXTENDS Fetcher

GoodReply == [kind |-> "response", status |-> 200, html |-> TRUE,
              samePage |-> TRUE, ample |-> TRUE, marker |-> FALSE,
              namesPage |-> TRUE]
PolicyReplies ==
    {GoodReply,
     [GoodReply EXCEPT !.status = 429],
     [GoodReply EXCEPT !.status = 503],
     [GoodReply EXCEPT !.status = 403],
     [GoodReply EXCEPT !.html = FALSE],
     [GoodReply EXCEPT !.marker = TRUE],
     [GoodReply EXCEPT !.kind = "transport"]}

\* Absent, short, beyond the cap, in the past.
Headers == {[readable |-> FALSE, seconds |-> 0],
            [readable |-> TRUE, seconds |-> 4],
            [readable |-> TRUE, seconds |-> 9],
            [readable |-> TRUE, seconds |-> -1]}
=============================================================================
