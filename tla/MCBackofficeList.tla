--------------------------- MODULE MCBackofficeList ---------------------------
(* Two modules: one that is searched, has related entities and a name in the *)
(* singular, and one that is not searched, with a name in the plural; three  *)
(* rows, of which the term "a" finds one of the first module's.              *)
EXTENDS BackofficeList

MCModules == {"inventory", "reservations"}
MCTerms == {"", "a"}
MCIds == {"i1", "i2", "r1"}
MCOwner == [i \in MCIds |-> IF i = "r1" THEN "reservations" ELSE "inventory"]
MCFound == [i \in MCIds |-> IF i = "i1" THEN {"", "a"} ELSE {""}]
MCSegments ==
    {Segment("inventory", 0), [Segment("inventory", 1) EXCEPT !.upper = TRUE],
     Segment("reservation", 1), Segment("reservation", 0), Segment("other", 1)}
=============================================================================
