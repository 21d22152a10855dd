------------------------------- MODULE MCBackup -------------------------------
(* Instances of Backup for TLC. *)
EXTENDS Backup, TLC

CONSTANTS k1, k2, k3, k4, k5, k6, k7, k8

MCKeys == {k1, k2, k3, k4, k5, k6, k7, k8}

(* Each site's two secrets. *)
MCSecret ==
  [s \in Sites |-> IF s = Here THEN [srvkey |-> k1, key |-> k2] ELSE [srvkey |-> k3, key |-> k4]]

WorkerSymmetry == Permutations(Workers)
=============================================================================
