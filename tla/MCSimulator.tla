----------------------------- MODULE MCSimulator -----------------------------
(***************************************************************************)
(* Instances of the simulator and its clients for TLC.                     *)
(***************************************************************************)
EXTENDS Simulator, TLC

CONSTANTS c1, c2

TwoClients == {c1, c2}

\* Clients are interchangeable: nothing orders them but the sequences they are in.
ClientSymmetry == Permutations(Clients)

TwoIds   == {0, 1}
BadId    == {3}        \* refused by a scheduler of two tasks
TwoPrios == {1, 2}
OnePrio  == {1}
=============================================================================
