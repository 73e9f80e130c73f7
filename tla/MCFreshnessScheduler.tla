------------------------ MODULE MCFreshnessScheduler ------------------------
(* Two partitions, which stand for the makes and models a tick rotates     *)
(* through, and one administrator's tick beside the timer's.               *)
EXTENDS FreshnessScheduler

Names == <<"a", "b">>
=============================================================================
