-------------------------- MODULE MCConsumerGroup --------------------------
(* Instances of ConsumerGroup for TLC. *)
EXTENDS ConsumerGroupProps, TLC

\* Members, partitions and workers are interchangeable.
Symmetry == Permutations(Members) \cup Permutations(Workers) \cup Permutations(Partitions)
=============================================================================
