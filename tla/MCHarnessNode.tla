----------------------------- MODULE MCHarnessNode -----------------------------
(***************************************************************************)
(* HarnessNode for TLC: the configurations MC*.cfg give the constants      *)
(* their values.  Dialogs are never compared by order, so permuting them   *)
(* is a symmetry; it is used only where safety alone is checked.           *)
(***************************************************************************)
EXTENDS HarnessNode, TLC

DialogSymmetry == Permutations(Dialogs)
=============================================================================
