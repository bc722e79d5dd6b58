------------------------------ MODULE MCScheduler ------------------------------
(***************************************************************************)
(* Two intervals, and the sets of faults the runs choose from.             *)
(***************************************************************************)
EXTENDS Scheduler

CONSTANTS half, hour

Two       == {half, hour}
Scenarios == {{},
              {"monitor"},
              {"crash", "lost", "monitor"},
              {"timer", "monitor", "database", "disk", "removed", "crash", "dies"},
              {"timer", "monitor", "database", "dies", "query"},
              {"dies", "unreadable", "engine"}}
=============================================================================
