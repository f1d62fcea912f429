----------------------------- MODULE MCFreeList -----------------------------
EXTENDS FreeList
MCPlaces == {[start |-> 1, words |-> 5], [start |-> 10, words |-> 8]}
\* Room for more free blocks of growing size than a table of 2 records.
MCWide == {[start |-> 1, words |-> 9], [start |-> 12, words |-> 9]}
=============================================================================
