---------------------------- MODULE MCCausalLog ----------------------------
(* Instances of the causal log: event ids are interchangeable.             *)
EXTENDS CausalLog, TLC

IdSymmetry == Permutations(EventIds)
=============================================================================
