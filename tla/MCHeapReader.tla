---------------------------- MODULE MCHeapReader ----------------------------
(* Instances of HeapReader, and of LineNumber in it, for TLC.              *)
EXTENDS HeapReader

SomePositions == 0 .. 3
SomeOffsets == {-1, 0, 2}
=============================================================================
