-------------------------------- MODULE Totals --------------------------------
(***************************************************************************)
(* The sums that budgets are about (func.sum over rows).  A sum is counted *)
(* one by one: the pages of the documents together are as many as there    *)
(* are pairs of a document and a page of it.  What is added, left out or   *)
(* changed is then a matter of finite sets, where a fold would need an     *)
(* induction at every use.                                                 *)
(***************************************************************************)
EXTENDS Naturals, FiniteSets

Units(size) == UNION { {d} \X (1 .. size[d]) : d \in DOMAIN size }

Total(size) == Cardinality(Units(size))
===============================================================================
