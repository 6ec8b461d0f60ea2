-------------------------- MODULE MCKafkaConsumer --------------------------
(* Instances of KafkaConsumer for TLC. *)
EXTENDS KafkaConsumer, TLC

CONSTANTS m1, m2, p1

OneMember == {m1}
TwoMembers == {m1, m2}
OnePartition == {p1}

NoMessages == {}
LastMessage == {<<p1, 1>>}

Symmetry == Permutations(TwoMembers)
=============================================================================
