-------------------------- MODULE MCServiceExports --------------------------
(* Small instances of ServiceExports.                                      *)
EXTENDS ServiceExports, TLC

CONSTANTS c1, c2, e1, e2

Two == {c1, c2}
Exports == {e1, e2}
OneExport == {e1}

(* Each export from a cluster of its own; one export.                     *)
Apart == {e1 :> c1 @@ e2 :> c2, e1 :> c2 @@ e2 :> c1}
Alone == {e1 :> c1}

(* Either cluster leaves; only the one the export comes from.              *)
Shrinking == {Two, {c1}, {c2}}
LosesSource == {Two, {c2}}

(* Clusters are interchangeable: no list is special.                       *)
Symmetry == Permutations(Two)

Workers == {"create", "update", "delete"}
Faults == Workers \cup {"force", "slice", "error"}
All == Workers \cup {"force", "slice", "sliceDelete", "error", "crash", "resync"}
=============================================================================
