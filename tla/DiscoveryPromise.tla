--------------------------- MODULE DiscoveryPromise ---------------------------
(***************************************************************************)
(* What a discovery promises its caller: what the sources list is stored   *)
(* in the order it was listed, each item once; it returns only when all of *)
(* it is stored, and may raise at any time, after which it does nothing.   *)
(***************************************************************************)
EXTENDS Naturals, Sequences

CONSTANT Items

VARIABLES
    listed,   \* items the sources have handed over, in order
    stored,   \* how many of them are stored: the first ones
    outcome   \* "running", "returned" or "raised"

vars == <<listed, stored, outcome>>

Init ==
    /\ listed = <<>>
    /\ stored = 0
    /\ outcome = "running"

List ==
    /\ outcome = "running"
    /\ listed' \in Seq(Items)
    /\ Len(listed') = Len(listed) + 1
    /\ SubSeq(listed', 1, Len(listed)) = listed
    /\ UNCHANGED <<stored, outcome>>

Store ==
    /\ outcome = "running"
    /\ stored' \in (stored + 1)..Len(listed)
    /\ UNCHANGED <<listed, outcome>>

Return ==
    /\ outcome = "running"
    /\ stored = Len(listed)
    /\ outcome' = "returned"
    /\ UNCHANGED <<listed, stored>>

Raise ==
    /\ outcome = "running"
    /\ outcome' = "raised"
    /\ UNCHANGED <<listed, stored>>

Next == List \/ Store \/ Return \/ Raise

Spec == Init /\ [][Next]_vars
=============================================================================
