----------------------------- MODULE MCTaskSet ------------------------------
(***************************************************************************)
(* Task sets for TLC.                                                      *)
(***************************************************************************)
EXTENDS TaskSet

\* No data, which the allocator refuses, and data that fill a unit in part and in full.
ThreeMessages ==
  {[prio |-> 1, bytes |-> 0], [prio |-> 1, bytes |-> 12], [prio |-> 2, bytes |-> 32]}

\* No tasks, no slots, one task with one and with two slots, and two tasks.
FiveShapes ==
  {[len |-> 0, depth |-> 1], [len |-> 1, depth |-> 0], [len |-> 1, depth |-> 1],
   [len |-> 1, depth |-> 2], [len |-> 2, depth |-> 1]}

\* What is ever asked of the allocator.
Sizes ==
  {SetBytes, QueueBytes, InfoBytes, DescriptorBytes} \union ArrayBytes \union DataSizes
=============================================================================
