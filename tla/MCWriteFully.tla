---------------------------- MODULE MCWriteFully ----------------------------
(* Small instances of WriteFully for TLC.                                   *)
EXTENDS WriteFully, TLC

CONSTANTS w1, w2, w3, a, b

MCTwoWorkers   == {w1, w2}
MCThreeWorkers == {w1, w2, w3}
MCWriters      == {a, b}
MCTasks        == MCWriters \cup (MCWriters \X (1..MaxRounds))

=============================================================================
