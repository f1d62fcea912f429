----------------------------- MODULE MCChecksum ------------------------------
(* Checksums with digits for bytes: sums wrap and words mix within a few     *)
(* bytes, and every list of three buffers is tried.                          *)
EXTENDS Checksum
=============================================================================
