---------------------------- MODULE AtomicApply ----------------------------
(***************************************************************************)
(* What an apply promises to the panel and to the operator, whatever the   *)
(* number of files and steps behind it: the managed files change as one,   *)
(* and what the report says is what happened to them.  An apply whose      *)
(* process dies leaves the question open until recovery, or the next       *)
(* apply, settles it.                                                      *)
(***************************************************************************)
CONSTANT Trees      \* the managed trees

VARIABLES
    tree,   \* the managed tree in force
    goal,   \* the tree the apply under way is to bring about
    phase,  \* "settled", "open", "told" or "interrupted"
    said    \* the last report: "none", "ok", "rejected", "undone" or "torn"

vars == <<tree, goal, phase, said>>

Init ==
    /\ tree \in Trees /\ goal \in Trees
    /\ phase = "settled"
    /\ said = "none"

(* A new set is staged for the next apply.                                 *)
Choose ==
    /\ phase \in {"settled", "interrupted"}
    /\ goal' \in Trees
    /\ UNCHANGED <<tree, phase, said>>

(* Refused before anything is touched.                                     *)
Refuse ==
    /\ phase \in {"settled", "interrupted"}
    /\ said' = "rejected"
    /\ goal' \in Trees
    /\ UNCHANGED <<tree, phase>>

(* After an interruption the files found are the new reference.            *)
Begin ==
    /\ phase \in {"settled", "interrupted"}
    /\ phase' = "open"
    /\ tree' \in Trees
    /\ phase = "settled" => tree' = tree
    /\ UNCHANGED <<goal, said>>

Tell ==
    /\ phase = "open"
    /\ phase' = "told"
    /\ said' \in {"ok", "undone", "torn"}
    /\ UNCHANGED <<tree, goal>>

(* The report decides: the new tree, the old one, or, when it says that    *)
(* the rollback failed, no promise.                                        *)
Settle ==
    /\ phase = "told"
    /\ phase' = "settled"
    /\ tree' \in Trees
    /\ said = "ok" => tree' = goal
    /\ said = "undone" => tree' = tree
    /\ goal' \in Trees
    /\ UNCHANGED said

Interrupt ==
    /\ phase \in {"open", "told"}
    /\ phase' = "interrupted"
    /\ goal' \in Trees
    /\ UNCHANGED <<tree, said>>

Resolve ==
    /\ phase = "interrupted"
    /\ phase' = "settled"
    /\ tree' \in Trees
    /\ UNCHANGED <<goal, said>>

(* The operator's own doing.                                               *)
Edit ==
    /\ phase = "settled"
    /\ tree' \in Trees
    /\ UNCHANGED <<goal, phase, said>>

Next == Choose \/ Refuse \/ Begin \/ Tell \/ Settle \/ Interrupt \/ Resolve \/ Edit

Spec == Init /\ [][Next]_vars
=============================================================================
