------------------------------- MODULE DltDrain -------------------------------
(***************************************************************************)
(* What draining a DLT promises, without pods, threads or batches: records *)
(* are appended; each is settled at some point; the position of the group  *)
(* only moves forward, and only over records that are settled.             *)
(***************************************************************************)
EXTENDS Integers

CONSTANT Partitions

VARIABLES
    length,     \* length[p]: records of partition p
    settled,    \* the places <<p, o>> of the records dealt with
    committed   \* committed[p]: records of p the group is past

vars == <<length, settled, committed>>

Init ==
    /\ length = [p \in Partitions |-> 0]
    /\ settled = {}
    /\ committed = [p \in Partitions |-> 0]

\* A record may be settled from its beginning: one at the end of its cycles.
Arrive(p) ==
    /\ length' = [length EXCEPT ![p] = @ + 1]
    /\ settled' \in {settled, settled \cup {<<p, length[p] + 1>>}}
    /\ UNCHANGED committed

Settle(p) ==
    /\ \E o \in 1..length[p] : settled' = settled \cup {<<p, o>>}
    /\ UNCHANGED <<length, committed>>

Pass(p) ==
    /\ \E n \in committed[p]..length[p] :
          /\ \A o \in 1..n : <<p, o>> \in settled
          /\ committed' = [committed EXCEPT ![p] = n]
    /\ UNCHANGED <<length, settled>>

Next == \E p \in Partitions : Arrive(p) \/ Settle(p) \/ Pass(p)

Spec == Init /\ [][Next]_vars

==============================================================================
