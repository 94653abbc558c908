--------------------------- MODULE MCApplyHelper ---------------------------
(***************************************************************************)
(* Instances of ApplyHelper for TLC: two files of http.d, one of stream.d, *)
(* two bodies and one the linter rejects.                                  *)
(***************************************************************************)
EXTENDS ApplyRefinement

CONSTANTS h1, h2, s1, b1, b2, bx

Tree(x, y, z) == [n \in {h1, h2, s1} |-> IF n = h1 THEN x ELSE IF n = h2 THEN y ELSE z]

(* One body of h1 needs the matching one of h2 (a zone or an upstream that *)
(* the other file defines); an operator's h2 beside a managed h1 is a      *)
(* duplicate; the stream file needs h2.                                    *)
MCValidTree(t) ==
    /\ ~(t[h1] = b2 /\ t[h2] = b1)
    /\ ~(t[h1] = b1 /\ t[h2] = Foreign)
    /\ ~(t[s1] = b2 /\ t[h2] = NoFile)

MCTargets == {Tree(b2, b2, NoFile), Tree(b1, NoFile, b1)}
MCInitTrees == {Tree(b1, b1, NoFile), Tree(NoFile, Foreign, NoFile)}
MCOperatorContents == {Foreign}

(* For the liveness run: a set that removes, replaces and creates files,   *)
(* and one the linter rejects.                                             *)
MCEndTargets == {Tree(b2, NoFile, b1), Tree(bx, b1, NoFile)}
MCEndInitTrees == {Tree(b1, b1, NoFile)}
=============================================================================
