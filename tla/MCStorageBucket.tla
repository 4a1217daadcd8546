-------------------------- MODULE MCStorageBucket --------------------------
(* Small instances of StorageBucket for TLC.                               *)
EXTENDS StorageBucket, TLC

\* Calls of one kind are interchangeable.
Symmetry == Permutations(Writers) \cup Permutations(Readers)
              \cup Permutations(Exporters)
=============================================================================
