----------------------------- MODULE StockBook -----------------------------
(***************************************************************************)
(* What the stock core promises for one warehouse, without its columns,    *)
(* its handlers and its pool: an item has a number of units on hand, some  *)
(* of them held for orders, and an order's hold ends exactly once, by      *)
(* giving the units back or by shipping them.  Free stock is not stored:   *)
(* it is what is on hand and not held.                                     *)
(***************************************************************************)
EXTENDS Integers, Functions

CONSTANTS Items, Orders, Quantities, None

VARIABLES onHand,  \* each item's units, None when it is not stocked
          held     \* held[o][i]: the units of i held for order o

vars == <<onHand, held>>

HeldOf(i) == SumFunctionOnSet([o \in Orders |-> held[o][i]], Orders)

Free(i) == onHand[i] - HeldOf(i)

Init ==
    /\ onHand \in [Items -> Nat \cup {None}]
    /\ held = [o \in Orders |-> [i \in Items |-> 0]]

Receive(i, q) ==
    /\ q > 0
    /\ onHand[i] = None => HeldOf(i) = 0
    /\ onHand' = [onHand EXCEPT ![i] = IF @ = None THEN q ELSE @ + q]
    /\ UNCHANGED held

Remove(i, q) ==
    /\ q > 0
    /\ onHand[i] # None
    /\ Free(i) >= q
    /\ onHand' = [onHand EXCEPT ![i] = @ - q]
    /\ UNCHANGED held

\* The handlers do not ask that q be positive: a negative hold adds to what
\* is free until it ends.
Hold(o, i, q) ==
    /\ onHand[i] # None
    /\ Free(i) >= q
    /\ held' = [held EXCEPT ![o][i] = @ + q]
    /\ UNCHANGED onHand

NothingHeld(o) == [held EXCEPT ![o] = [i \in Items |-> 0]]

GiveBack(o) ==
    /\ held' = NothingHeld(o)
    /\ UNCHANGED onHand

Ship(o) ==
    /\ onHand' = [i \in Items |-> IF onHand[i] = None THEN None
                                  ELSE onHand[i] - held[o][i]]
    /\ held' = NothingHeld(o)

\* An item leaves the book, with what is held of it or without.
Discard(i) ==
    /\ onHand' = [onHand EXCEPT ![i] = None]
    /\ held' = [o \in Orders |-> [held[o] EXCEPT ![i] = 0]]

Close ==
    /\ onHand' = [i \in Items |-> None]
    /\ UNCHANGED held

Wipe ==
    /\ onHand' = [i \in Items |-> None]
    /\ held' = [o \in Orders |-> [i \in Items |-> 0]]

Next ==
    \/ \E i \in Items, q \in Quantities : Receive(i, q) \/ Remove(i, -q)
    \/ \E o \in Orders, i \in Items, q \in Quantities : Hold(o, i, q)
    \/ \E o \in Orders : GiveBack(o) \/ Ship(o)
    \/ \E i \in Items : Discard(i)
    \/ Close \/ Wipe

Spec == Init /\ [][Next]_vars
=============================================================================
