------------------------------- MODULE MCCrawl -------------------------------
(* Instances of Crawl for TLC. *)
EXTENDS CrawlProperties, TLC

GoodReply == [kind |-> "response", status |-> 200, html |-> TRUE,
              samePage |-> TRUE, ample |-> TRUE, marker |-> FALSE,
              namesPage |-> TRUE]
GoneReply == [GoodReply EXCEPT !.status = 404]
DownReply == [GoodReply EXCEPT !.status = 503]
ThrottledReply == [GoodReply EXCEPT !.status = 429]
TimeoutReply == [GoodReply EXCEPT !.kind = "transport"]
EscapeReply == [GoodReply EXCEPT !.kind = "escape"]

GoodOnly == {GoodReply}
GoodOrDown == {GoodReply, DownReply}
GoodOrDownOrEscape == GoodOrDown \cup {EscapeReply}
GoodOrGone == {GoodReply, GoneReply}
CaughtReplies == {GoodReply, GoneReply, TimeoutReply, ThrottledReply}
AllReplies == CaughtReplies \cup {EscapeReply}

MsgSymmetry == Permutations(Msgs)
Symmetry == Permutations(Msgs) \cup Permutations(Workers)
SchedulerSymmetry == Permutations(Schedulers) \cup Permutations(Pages)
=============================================================================
