------------------------- MODULE MCProviderRequests -------------------------
(* Callers are alike: each behaviour begins with one choice of their kinds.*)
EXTENDS ProviderRequests, TLC

Interchangeable == Permutations(Caller)
=============================================================================
