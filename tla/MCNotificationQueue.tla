----------------------- MODULE MCNotificationQueue -----------------------
(* Finite instances of NotificationQueue for TLC.                          *)
EXTENDS NotificationQueue, TLC

CONSTANTS e1, e2, i1, i2

Events == {e1, e2}
OneUnreadable == {e2}
Instances == {i1, i2}
=============================================================================
