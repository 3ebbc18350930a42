------------------------------- MODULE Identity -------------------------------
(***************************************************************************)
(* Which page a URL or a record of the experience API names (identity.py). *)
(* A URL is kept as far as the program tells URLs apart: its host, the     *)
(* kind of its path, the id in it, and how these are spelled.  Of a        *)
(* malformed one urlsplit raises ValueError: no operator below is applied  *)
(* to it by the program.                                                   *)
(***************************************************************************)

CONSTANT Ids  \* external ids, in lower case

AllowedHosts == {"nowcoder.com", "www.nowcoder.com"}

Url == [host : AllowedHosts \cup {"elsewhere"},
        kind : {"feed", "discuss", "sitemap", "other", "malformed"},
        id : Ids,
        upper : BOOLEAN,    \* the id of a feed has capital hex digits
        slashes : BOOLEAN,  \* a slash is doubled or follows
        query : BOOLEAN]    \* with a query or a fragment

PageIdentity == [page_type : {"feed", "discussion"}, external_id : Ids]

\* The URL, or the record, names no page.
NoIdentity == [page_type |-> "none"]

\* build_identity raises ValueError.
Malformed == [page_type |-> "malformed"]

\* Mutant: the id is taken as it is spelled.
IdentityFromUrlAsSpelledMutant(u) ==
    IF u.host \notin AllowedHosts THEN NoIdentity
    ELSE IF u.kind = "feed"
         THEN [page_type |-> IF u.upper THEN "Feed" ELSE "feed",
               external_id |-> u.id]
    ELSE IF u.kind = "discuss"
         THEN [page_type |-> "discussion", external_id |-> u.id]
    ELSE NoIdentity

\* Neither the spelling of the path nor a query matters, and the id of a
\* feed is put in lower case.
IdentityFromUrl(u) ==
    IF u.host \notin AllowedHosts THEN NoIdentity
    ELSE IF u.kind = "feed"
         THEN [page_type |-> "feed", external_id |-> u.id]
    ELSE IF u.kind = "discuss"
         THEN [page_type |-> "discussion", external_id |-> u.id]
    ELSE NoIdentity

StripQueryAndFragment(u) == [u EXCEPT !.query = FALSE]

-----------------------------------------------------------------------------
\* A record of the list: a moment (74) names a feed by its uuid, a content
\* (250) a discussion by its number.
Record == [type : {"moment", "content", "other"},
           id : Ids,
           present : BOOLEAN,     \* the field with the id is there
           wellFormed : BOOLEAN]  \* 32 hex digits, or digits

IdentityFromRecord(r) ==
    IF r.type = "other" \/ ~r.present THEN NoIdentity
    ELSE IF ~r.wellFormed THEN Malformed
    ELSE [page_type |-> IF r.type = "moment" THEN "feed" ELSE "discussion",
          external_id |-> r.id]
=============================================================================
