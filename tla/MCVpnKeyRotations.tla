------------------------- MODULE MCVpnKeyRotations -------------------------
(* Two slices that share the flag, with one gateway pair each.             *)
EXTENDS VpnKeyRotations

(* The expired rotation of one slice is rotated, whatever the other slice  *)
(* does with the flag of ReconcileVpnKeyRotation; the slices are           *)
(* interchangeable, so which one is of no importance.                      *)
SliceRotated == Rotated(CHOOSE s \in Slice : TRUE)
=============================================================================
