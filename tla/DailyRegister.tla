---------------------------- MODULE DailyRegister ----------------------------
(***************************************************************************)
(* What the ingest worker promises about the one-shot tasks of a trade     *)
(* date, without ticks, sessions, faults or crashes: an item is completed  *)
(* at most once and stays completed, and readers are told of an item only  *)
(* after it is completed.                                                  *)
(***************************************************************************)
CONSTANT Item

VARIABLES
    done,   \* the items completed
    told    \* the items whose completion was announced

vars == <<done, told>>

Init == done = {} /\ told = {}

Complete(i) ==
    /\ i \notin done
    /\ done' = done \cup {i}
    /\ UNCHANGED told

Tell(i) ==
    /\ i \in done
    /\ told' = told \cup {i}
    /\ UNCHANGED done

Next == \E i \in Item : Complete(i) \/ Tell(i)

Spec == Init /\ [][Next]_vars
=============================================================================
