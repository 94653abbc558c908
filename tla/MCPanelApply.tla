---------------------------- MODULE MCPanelApply ----------------------------
(***************************************************************************)
(* Instances of PanelApply for TLC.                                        *)
(***************************************************************************)
EXTENDS PanelApply, TLC

CONSTANTS g1, g2

HostSymmetry == Permutations(Hosts)
=============================================================================
