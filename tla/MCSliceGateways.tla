-------------------------- MODULE MCSliceGateways --------------------------
(* Small instances of SliceGateways.                                       *)
EXTENDS SliceGateways, TLC

CONSTANTS c1, c2, c3

Two   == {c1, c2}
Three == {c1, c2, c3}

OneList == {<<c1, c2>>}

(* The second cluster joins and leaves.                                    *)
JoinLists == {<<c1>>, <<c1, c2>>}

(* One cluster takes the place of another.                                 *)
SwapLists == {<<c1, c2>>, <<c1, c3>>}

(* One disturbance of any kind in a behaviour.                             *)
OneFault == errors + crashes + forcedGw <= 1
=============================================================================
