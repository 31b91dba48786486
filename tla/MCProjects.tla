----------------------------- MODULE MCProjects -----------------------------
(* Small instances of Projects.                                            *)
EXTENDS Projects, TLC

CONSTANTS u1, u2

Users == {u1, u2}

Lists(ro, rw) == [t \in AccessType |-> IF t = "readOnly" THEN ro ELSE rw]

(* A user comes, another one moves from one access type to the other.      *)
TwoSpecs == {Lists({u1}, {}), Lists({u2}, {u1})}

(* The account that u1 gets by moving may already be somebody's.           *)
Clash == {<<"readWrite", u1>>}

AllEvents == {"create", "update", "delete", "content", "account", "onboard", "error", "crash", "resync"}
=============================================================================
