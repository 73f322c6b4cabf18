------------------------------ MODULE Ordering ------------------------------
(* What is listed in an order: by ORDER BY of the database, or by a sort of an *)
(* array.                                                                    *)
EXTENDS Naturals, FiniteSets, Sequences

(* The elements of S, a before b when Before(a, b), which orders S strictly: the *)
(* n-th is the one that n - 1 others precede.                               *)
InOrder(S, Before(_, _)) ==
    [n \in 1..Cardinality(S) |->
        CHOOSE x \in S : Cardinality({y \in S : Before(y, x)}) = n - 1]

(* The first n of them.                                                      *)
FirstOf(S, n, Before(_, _)) == {x \in S : Cardinality({y \in S : Before(y, x)}) < n}
=============================================================================
