----------------------------- MODULE MCOcamlGC -----------------------------
EXTENDS OcamlGC
=============================================================================
