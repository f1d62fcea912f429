----------------------------- MODULE MCEventLoop -----------------------------
(* The whole loop on the smallest instance where a packet can overtake a     *)
(* timer: two datagrams, one sleeper.                                        *)
EXTENDS EventLoop
=============================================================================
