--------------------------- MODULE OctetAllocator ---------------------------
(***************************************************************************)
(* What the worker slice configs of a slice promise about octets: a        *)
(* cluster holds at most one octet, no two clusters hold the same one at   *)
(* the same time, and an octet that is held is never replaced by another:  *)
(* it is given back first.                                                 *)
(***************************************************************************)
EXTENDS Integers

CONSTANTS Cluster, None

VARIABLE held      \* held[c] is the octet cluster c holds, or None

Init == held = [c \in Cluster |-> None]

(* Cluster c, which holds none, is given an octet that no cluster holds.   *)
Acquire(c) ==
  /\ held[c] = None
  /\ held'[c] \in Nat
  /\ \A d \in Cluster : held[d] # held'[c]
  /\ held' = [held EXCEPT ![c] = held'[c]]

Release(c) ==
  /\ held[c] # None
  /\ held' = [held EXCEPT ![c] = None]

Next == \E c \in Cluster : Acquire(c) \/ Release(c)

Spec == Init /\ [][Next]_held
=============================================================================
