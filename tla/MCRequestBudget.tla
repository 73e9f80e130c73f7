--------------------------- MODULE MCRequestBudget ---------------------------
(* A month of two days and the first day of the next; attempts are alike.  *)
EXTENDS RequestBudget, TLC

Interchangeable == Permutations(Attempt)
=============================================================================
