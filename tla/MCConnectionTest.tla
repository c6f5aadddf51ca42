--------------------------- MODULE MCConnectionTest ---------------------------
(* The connection test on a platform with few deployments and faults. *)
EXTENDS ConnectionInvariant, TLC

(* Ids are only compared: any two of them may change places. *)
IdSymmetry == Permutations(Ids)
=============================================================================
