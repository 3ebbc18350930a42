------------------------------- MODULE MCSitemap -------------------------------
(* Instances of Sitemap for TLC: three documents of the site and one of     *)
(* another, pages named in several spellings, links in cycles, a location   *)
(* that cannot be read.                                                     *)
EXTENDS Sitemap

SmallIds == {"a", "b", "c"}

At(kind, id) == [host |-> "www.nowcoder.com", kind |-> kind, id |-> id,
                 upper |-> FALSE, slashes |-> FALSE, query |-> FALSE]
Queried(u) == [u EXCEPT !.query = TRUE]
Upper(u) == [u EXCEPT !.upper = TRUE]
Slashed(u) == [u EXCEPT !.slashes = TRUE]
Foreign(u) == [u EXCEPT !.host = "elsewhere"]

Plain(u) == [url |-> u, lastmod |-> [form |-> "absent", at |-> 0]]
Changed(u, form) == [url |-> u, lastmod |-> [form |-> form, at |-> 30]]

TwoRoots == <<At("sitemap", "a"), Foreign(At("sitemap", "b"))>>

SmallEntries ==
    {Plain(Queried(At("sitemap", "a"))),
     Plain(At("sitemap", "b")),
     Plain(Slashed(At("sitemap", "b"))),
     Plain(Foreign(At("sitemap", "c"))),
     Plain(At("sitemap", "c")),
     Changed(At("feed", "a"), "dated"),
     Changed(Upper(Slashed(At("feed", "a"))), "zoned"),
     Plain(Foreign(At("feed", "b"))),
     Changed(At("discuss", "a"), "naive"),
     Plain(At("malformed", "a"))}

\* Every document of up to two entries, and some longer ones.
SmallContents ==
    UNION {[1..n -> SmallEntries] : n \in 0..2} \cup
    {<<Plain(At("feed", "b")), Plain(At("discuss", "b")),
       Plain(At("feed", "c"))>>,
     <<Plain(At("feed", "b")), Plain(At("discuss", "b")),
       Plain(At("feed", "c")), Plain(At("malformed", "a"))>>,
     <<Plain(At("sitemap", "b")), Plain(At("sitemap", "c")),
       Plain(Slashed(At("sitemap", "b")))>>,
     <<Plain(At("sitemap", "b")), Plain(At("feed", "b")),
       Plain(At("sitemap", "c")), Plain(At("feed", "a"))>>}
=============================================================================
