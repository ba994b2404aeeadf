---------------------------- MODULE MCKacConsume -----------------------------
(* Topics of two partitions for TLC. *)
EXTENDS KacConsume

TwoEach == [p \in Partitions |-> 2]
NoneTrimmed == [p \in Partitions |-> 0]

(* Partition 0 holds a single message. *)
OneSingle == [p \in Partitions |-> IF p = 0 THEN 1 ELSE 2]
=============================================================================
