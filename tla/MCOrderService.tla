--------------------------- MODULE MCOrderService ---------------------------
(***************************************************************************)
(* Small instances of OrderService.                                        *)
(***************************************************************************)
EXTENDS OrderService, TLC

CONSTANTS p1, p2

\* Two units of the first product, one of the second where there is one.
SmallStock == [p \in Products |-> IF p = p1 THEN 2 ELSE 1]

\* An order of one unit of everything, and one of two of p1 and a negative
\* quantity of the others.
SmallBaskets == {[p \in Products |-> 1], [p \in Products |-> IF p = p1 THEN 2 ELSE -1]}

OneEach == {[p \in Products |-> 1]}

SmallDeltas == {-2, 1}
=============================================================================
