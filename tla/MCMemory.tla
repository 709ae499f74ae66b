------------------------------ MODULE MCMemory ------------------------------
(***************************************************************************)
(* Instances of Memory for TLC.  Nobody makes a call after one that was    *)
(* misled and the properties do not look at the heap then, so TLC may take *)
(* all these states for one.                                               *)
(***************************************************************************)
EXTENDS Memory

View == IF heap.misled THEN <<>> ELSE vars
=============================================================================
