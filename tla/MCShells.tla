------------------------------ MODULE MCShells ------------------------------
(***************************************************************************)
(* Instances of Shells for TLC: process blocks are named by their numbers. *)
(*                                                                         *)
(* The links of a process outside the ring are never read before           *)
(* insertProcess assigns them again, so two states that differ only in     *)
(* them have the same futures, and TLC may take them for one.              *)
(***************************************************************************)
EXTENDS Shells

LinksOfRing == [p \in Live |-> <<next[p], prev[p]>>]
View == <<LinksOfRing, state, procVars, slicesLeft, currentProcess,
          preventTaskSwitch, channels, call, received, progVars>>
=============================================================================
