------------------------ MODULE MCWorkerSliceConfigs ------------------------
(* Small instances of WorkerSliceConfigs: three clusters, so that one can  *)
(* be added, removed, replaced and moved while the others stay.            *)
EXTENDS WorkerSliceConfigs, TLC, SequencesExt

CONSTANTS c1, c2, c3

Three == {c1, c2, c3}

(* Every list of distinct clusters.                                        *)
AllLists == SetToAllKPermutations(Three) \cup {<<>>}

(* Lists of two and three clusters in a fixed set of orders: grow, shrink, *)
(* replace and reorder.                                                    *)
SomeLists == {<<c1, c2>>, <<c1, c3>>, <<c2, c1>>, <<c1, c2, c3>>}

(* Two lists that replace one cluster by another, back and forth.          *)
SwapLists == {<<c1, c2>>, <<c1, c3>>}

Symmetric == Permutations(Three)
=============================================================================
