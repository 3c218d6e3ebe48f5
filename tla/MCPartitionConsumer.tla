------------------------ MODULE MCPartitionConsumer ------------------------
(* Instances of PartitionConsumer for TLC. *)
EXTENDS PartitionConsumer, TLC

\* Workers are interchangeable.
Symmetry == Permutations(Workers)
=============================================================================
