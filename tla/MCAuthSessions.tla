--------------------------- MODULE MCAuthSessions ---------------------------
(* Two requests of the tab, alike; two ticks of the clock, so that access  *)
(* tokens and, after them, sessions run out; three sessions, one login and *)
(* two refreshes or the other way round.                                   *)
EXTENDS AuthSessions, TLC

Symmetry == Permutations(Fetch)
=============================================================================
