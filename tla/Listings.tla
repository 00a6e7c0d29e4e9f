------------------------------ MODULE Listings -------------------------------
(* Rows in order, as a query with `order by` or a filter of a list gives them. *)
EXTENDS Naturals, FiniteSets

\* The numbers of a set, from the least to the greatest.
InOrder(S) ==
  CHOOSE s \in [1 .. Cardinality(S) -> S] : \A i, j \in DOMAIN s : i < j => s[i] < s[j]

\* The rows at these places of a list.
RowsAt(rows, places) == LET order == InOrder(places) IN [k \in DOMAIN order |-> rows[order[k]]]
=============================================================================
