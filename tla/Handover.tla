------------------------------ MODULE Handover ------------------------------
(***************************************************************************)
(* What live migration promises (docs/live_migration.md): the guest runs   *)
(* in at most one place, it runs on from the memory it was stopped with,   *)
(* and once it has run at the destination it does not run at the source.   *)
(***************************************************************************)
EXTENDS Naturals

CONSTANT Pages

VARIABLES runs,   \* where the guest is running
          moved,  \* it has run at the destination
          mem     \* its memory, a version number for every page

vars == <<runs, moved, mem>>

Init ==
    /\ runs \in {"source", "nobody"}
    /\ moved = FALSE
    /\ mem = [p \in Pages |-> 0]

Write(p) ==
    /\ runs # "nobody"
    /\ mem' = [mem EXCEPT ![p] = @ + 1]
    /\ UNCHANGED <<runs, moved>>

Stop ==
    /\ runs' = "nobody"
    /\ UNCHANGED <<moved, mem>>

Restart ==
    /\ runs = "nobody"
    /\ ~moved
    /\ runs' = "source"
    /\ UNCHANGED <<moved, mem>>

Move ==
    /\ runs = "nobody"
    /\ ~moved
    /\ runs' = "destination"
    /\ moved' = TRUE
    /\ UNCHANGED mem

Next == (\E p \in Pages : Write(p)) \/ Stop \/ Restart \/ Move

Spec == Init /\ [][Next]_vars
=============================================================================
