--------------------------- MODULE VersionRegister ---------------------------
(***************************************************************************)
(* What an owner's history of parameters promises, without requests,       *)
(* snapshots, locks or failures: saving appends a version, which is in     *)
(* force at once, and activating puts a version of the history in force.   *)
(* Each is one step; nothing is numbered twice, skipped or lost.           *)
(***************************************************************************)
EXTENDS Naturals

VARIABLES
    newest,    \* the history is 1 .. newest
    inForce    \* the version in force

vars == <<newest, inForce>>

Init ==
    /\ newest \in Nat \ {0}
    /\ inForce = newest

Save ==
    /\ newest' = newest + 1
    /\ inForce' = newest + 1

Activate ==
    /\ inForce' \in 1 .. newest
    /\ UNCHANGED newest

Spec == Init /\ [][Save \/ Activate]_vars
=============================================================================
