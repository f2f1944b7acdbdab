-------------------------- MODULE MCInventorySync --------------------------
(***************************************************************************)
(* Small instances of InventorySync.                                       *)
(***************************************************************************)
EXTENDS InventorySync, TLC

CONSTANTS i1, i2, w1

\* Two units of the first item wait in the first warehouse.
OneStocked == [r \in Rows |-> IF r = <<i1, w1>> THEN 2 ELSE 0]

\* In each warehouse two units of the first item and one of the second.
TwoStocked == [r \in Rows |-> IF r[1] = i1 THEN 2 ELSE 1]

\* Enough in the first warehouse for every order; the others may be created.
FirstStocked == [r \in Rows |-> IF r[2] = w1 THEN 2 ELSE 0]

\* A quantity of each sign, and one more than the other side may hold.
AnySign == {-1, 0, 1, 2}

\* One unit of the first item, or nothing.
OneLine == {<<>>, <<[item |-> i1, qty |-> 1]>>}

\* One unit of each item.
OneOfEach == {<<[item |-> i1, qty |-> 1], [item |-> i2, qty |-> 1]>>}

\* Two items in either order, one item twice, and a line without a product.
MixedLines ==
    LET line(i, q) == [item |-> i, qty |-> q]
    IN  {<<line(i1, 1), line(i2, 1)>>, <<line(i2, 1), line(i1, 1)>>,
         <<line(i1, 2), line(i1, 1)>>, <<line(i1, 1), line(None, 1)>>}
=============================================================================
