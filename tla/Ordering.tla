------------------------------ MODULE Ordering ------------------------------
(***************************************************************************)
(* The order of rows and of the entries of lists.                          *)
(***************************************************************************)
EXTENDS Integers, FiniteSets

\* R, a set of pairs, puts any two elements of S in an order.
Orders(R, S) ==
    /\ \A x \in S : <<x, x>> \notin R
    /\ \A x, y \in S : x = y \/ <<x, y>> \in R \/ <<y, x>> \in R
    /\ \A x, y, z \in S : <<x, y>> \in R /\ <<y, z>> \in R => <<x, z>> \in R

Before(x, S, R) == {y \in S : <<y, x>> \in R}

\* ORDER BY and LIMIT: the elements of S in the order R, at most so many.  The
\* n-th of them is the one that n - 1 others are before.
FirstOf(S, R, limit) ==
    [n \in 1..(IF limit < Cardinality(S) THEN limit ELSE Cardinality(S)) |->
        CHOOSE x \in S : Cardinality(Before(x, S, R)) = n - 1]

\* A list after a filter: its entries at the places that are kept.
Picked(list, kept) ==
    LET place == FirstOf(kept, {p \in kept \X kept : p[1] < p[2]}, Cardinality(kept))
    IN  [n \in DOMAIN place |-> list[place[n]]]

\* A list after its filter that drops the entry x.
Without(list, x) == Picked(list, {i \in DOMAIN list : list[i] # x})
=============================================================================
