---------------------------- MODULE AtLeastOnce ----------------------------
(***************************************************************************)
(* What a consumer group promises of a topic: messages get settled in any  *)
(* order, and the group's position in a partition moves forward only past  *)
(* messages that are settled.  A message at or above the position is       *)
(* delivered again to whoever owns the partition next.                     *)
(***************************************************************************)
EXTENDS Integers

CONSTANTS Partition, LogLen

VARIABLES position,  \* per partition, the next offset a new owner starts at
          settled    \* messages that need no further delivery

Messages == Partition \X (0 .. LogLen - 1)

PastSettled(at) ==
    \A p \in Partition, o \in 0 .. LogLen - 1 :
        o < at[p] => <<p, o>> \in settled

Init ==
    /\ position = [p \in Partition |-> 0]
    /\ settled \in SUBSET Messages

Settle ==
    /\ settled' \in SUBSET Messages
    /\ settled \subseteq settled'
    /\ UNCHANGED position

Commit ==
    /\ position' \in [Partition -> 0 .. LogLen]
    /\ \A p \in Partition : position'[p] >= position[p]
    /\ PastSettled(position')
    /\ UNCHANGED settled

Spec == Init /\ [][Settle \/ Commit]_<<position, settled>>
=============================================================================
