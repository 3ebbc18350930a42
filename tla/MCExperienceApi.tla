---------------------------- MODULE MCExperienceApi ----------------------------
(* Instances of ExperienceApi for TLC: a list of five records, one of which *)
(* names no page; a record that arrives later may be malformed.             *)
EXTENDS ExperienceApi

Naming(type, id, wellFormed) ==
    [type |-> type, id |-> id, present |-> TRUE, wellFormed |-> wellFormed]

SmallIds == {"a", "b", "c", "d", "e"}
SmallRecords ==
    <<Naming("moment", "a", TRUE),
      Naming("content", "b", TRUE),
      Naming("other", "c", TRUE),
      Naming("moment", "d", TRUE),
      Naming("content", "c", TRUE),
      Naming("moment", "a", FALSE),
      Naming("moment", "e", TRUE)>>
SmallList == <<1, 2, 3, 4, 5>>

\* Absent, in the past, longer than every delay of the source, endless.
Header(readable, endless, seconds) ==
    [readable |-> readable, endless |-> endless, seconds |-> seconds]
SmallHeaders == {Header(FALSE, FALSE, 0), Header(TRUE, FALSE, -1),
                 Header(TRUE, FALSE, 7), Header(TRUE, TRUE, 0)}
=============================================================================
