---------------------------- MODULE MCNetAccept ----------------------------
(* A small instance of NetAccept for TLC.                                   *)
EXTENDS NetAccept, TLC

CONSTANTS c1, c2, k1, k2

MCConns     == {c1, c2}
MCCallbacks == {k1, k2}

=============================================================================
