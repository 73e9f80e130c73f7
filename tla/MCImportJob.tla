----------------------------- MODULE MCImportJob -----------------------------
(* Two import jobs and one discovery run that compete for a provider.      *)
EXTENDS ImportJob

CONSTANTS j1, j2, s1

Jobs == {j1, j2}
Tokens == Jobs \cup {s1}
=============================================================================
