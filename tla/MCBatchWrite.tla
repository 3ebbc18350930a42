----------------------------- MODULE MCBatchWrite -----------------------------
(* Instances of BatchWrite for TLC: two pages listed by the API and by a    *)
(* sitemap, alone, together and twice in a batch.                           *)
EXTENDS BatchWrite

Seen(p, source, n, modified) ==
    [page |-> p, source |-> source, source_page |-> n,
     source_modified_at |-> modified]

SmallBatches ==
    {<<Seen("p", "api", 1, 1)>>,
     <<Seen("p", "api", 1, 2), Seen("p", "api", 2, 1)>>,
     <<Seen("p", "map", 0, None), Seen("q", "api", 2, 1)>>,
     <<Seen("q", "api", 3, 2), Seen("p", "map", 0, 2)>>}
=============================================================================
