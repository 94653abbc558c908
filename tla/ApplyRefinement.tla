-------------------------- MODULE ApplyRefinement --------------------------
(***************************************************************************)
(* The helper implements AtomicApply.  While the marker is set the tree in *)
(* force is the one found when it was set; otherwise it is what is on disk.*)
(***************************************************************************)
EXTENDS ApplyHelper

Unmarked == {"idle", "gate", "lint", "test_staged", "reject", "mark"}

Phase ==
    IF ~marker THEN "settled"
    ELSE IF pc["apply"] \in Unmarked THEN "interrupted"
    ELSE IF pc["apply"] = "clear" THEN "told"
    ELSE "open"

Atomic == INSTANCE AtomicApply WITH
    Trees <- ManagedTrees,
    tree <- IF marker THEN pre ELSE Managed(live),
    goal <- staged,
    phase <- Phase,
    said <- report

(* Every step of the helper, of recovery and of a crash is a step of the   *)
(* atomic apply or changes nothing it sees: in particular a report that    *)
(* says ok or rolled back tells exactly what the files of both directories *)
(* hold when the marker goes, and a refused apply has touched none.        *)
AtomicSpec == Atomic!Spec
=============================================================================
