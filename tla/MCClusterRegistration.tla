----------------------- MODULE MCClusterRegistration -----------------------
(* Small instances of ClusterRegistration.                                 *)
EXTENDS ClusterRegistration, TLC

CONSTANTS c1, c2, n1

Clusters == {c1, c2}
Namespaces == {n1}

(* The other slice takes the namespace in one cluster, in all of them.     *)
TakesAll == {{}, {<<n1, c1>>}, Namespaces \X Clusters}

AllEvents == {"create", "delete", "slice", "namespace", "uninstall", "error", "crash"}
=============================================================================
