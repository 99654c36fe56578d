----------------------------- MODULE MCNetEvent -----------------------------
(* Small instances of NetEvent for TLC.                                     *)
EXTENDS NetEvent

CONSTANTS f1, f2, r1, r2

MCFds      == {f1, f2}
MCTwoRequests == {r1, r2}

=============================================================================
