----------------------------- MODULE MCRiotTime ------------------------------
(* The timers on a small instance: two nanoseconds to the microsecond, and   *)
(* a word that no honest timeout of the instance reaches.                    *)
EXTENDS RiotTime
=============================================================================
