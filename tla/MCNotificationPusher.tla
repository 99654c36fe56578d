------------------------ MODULE MCNotificationPusher ------------------------
(* A small instance of NotificationPusher for TLC.                          *)
EXTENDS NotificationPusher, TLC

CONSTANTS c1, c2, r1, r2

MCClients  == {c1, c2}
MCRequests == {r1, r2}
MCFirstIds == {1, 255}

=============================================================================
