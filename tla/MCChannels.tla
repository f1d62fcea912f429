----------------------------- MODULE MCChannels -----------------------------
(* The channels of a program whose handlers and finalisers use them too.    *)
EXTENDS Channels
=============================================================================
