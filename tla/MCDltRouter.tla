----------------------------- MODULE MCDltRouter -----------------------------
(* DltRouter for TLC: the sets that make its instances symmetric. *)
EXTENDS DltRouter, TLC

\* The header of a message that is dead-lettered for the first time.
Unmarked  == {NoHeader}
Garbage   == {BadHeader}
Strange   == {BadHeader, -1}
MinusOne  == -1

\* Bound: a message with a header below zero, whose loop is the longest, is the only one.
DeficitAlone == belowZero > 0 => entered <= 1

\* Worker slots, pods and partitions are interchangeable.
Interchangeable ==
    Permutations(Slots) \cup Permutations(Pods) \cup Permutations(Partitions)

==============================================================================
