----------------------------- MODULE MCDiscovery -----------------------------
(* Instances of ScanJob for TLC: an API of three pages asked for two, and a *)
(* sitemap of two documents, one of which lists nothing; environments with  *)
(* at most one defect.                                                      *)
EXTENDS ScanJob

TwoSources == {"experience-api", "sitemap"}
TwoLists == [s \in TwoSources |-> IF s = "sitemap" THEN <<0, 3>> ELSE <<2, 1, 1>>]
TheApi == {"experience-api"}

Plain == [n \in Names |-> IF n \in Required THEN "positive" ELSE "absent"]
SomeEnvironments ==
    {Plain} \cup
    {[Plain EXCEPT ![d[1]] = d[2]] : d \in
        {<<"MYSQL_DSN", "empty">>, <<"DISCOVERY_QUEUE_MAXSIZE", "zero">>,
         <<"CENTER_MAX_PAGES", "zero">>, <<"SITEMAP_MAX_URLS", "negative">>,
         <<"FETCH_BASE_DELAY_SECONDS", "unreadable">>,
         <<"SITEMAP_ROOT_URLS", "empty">>}}
=============================================================================
