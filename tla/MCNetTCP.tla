------------------------------ MODULE MCNetTCP ------------------------------
(* Small instances of NetTCP for TLC.                                       *)
EXTENDS NetTCP

CONSTANTS f1, r1, r2, r3, r4

MCFds      == {f1}
MCRequests == {r1, r2, r3, r4}

=============================================================================
