------------------------------ MODULE MCRiotNet ------------------------------
(* The receive path on a small instance: a buffer copied in two pieces, and  *)
(* one datagram more than the heap can announce.                             *)
EXTENDS RiotNet
=============================================================================
