--------------------------- MODULE MCCanonicalPayment ---------------------------
(* Instances of CanonicalPayment.                                          *)
EXTENDS CanonicalPayment

\* Bound: with two attempts only one of them is ever asked after.
OneAskedAfter == Cardinality({a \in Attempts : tries[a] > 0}) <= 1
=============================================================================
