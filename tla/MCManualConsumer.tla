-------------------------- MODULE MCManualConsumer --------------------------
(* ManualConsumer for TLC: its threads and partitions are interchangeable. *)
EXTENDS ManualConsumer, TLC

Interchangeable == Permutations(Threads) \cup Permutations(Partitions)

\* Bound: two records in the whole topic, in one partition or in two.
FewRecords == \A p, q \in Partitions : p # q => Len(log[p]) + Len(log[q]) <= 2

=============================================================================
