----------------------------- MODULE MCIntents ------------------------------
(* Three intents: enough for a cycle that is not seen at once. *)
EXTENDS Intents, TLC

CONSTANTS planner, reviewer

MCIntentSet == 1 .. 3

MCMakes ==
    (planner  :> {"submit", "parent", "dependencies", "status"}) @@
    (reviewer :> {"parent", "dependencies", "tree"})

MCLists == {{}, {1}, {2}, {3}, {1, 2}}
=============================================================================
