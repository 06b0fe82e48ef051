---------------------------- MODULE MCLiveRefresh ----------------------------
(***************************************************************************)
(* A tick stands for the shorter lifetimes: TTLs of one and two or of two  *)
(* and three ticks, and requests that may take a tick.  Processes and      *)
(* requests are interchangeable where only invariants are checked.         *)
(***************************************************************************)
EXTENDS LiveRefresh, TLC

Symmetry == Permutations(Proc) \cup Permutations(Slot)
=============================================================================
