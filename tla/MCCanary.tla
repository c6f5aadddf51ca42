------------------------------- MODULE MCCanary -------------------------------
(* The canary process on a small number of slots. *)
EXTENDS Canary, TLC

(* The slots are interchangeable: no action or safety property names one. *)
SlotSymmetry == Permutations(Slots)
=============================================================================
