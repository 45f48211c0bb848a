----------------------- MODULE CrashPacketDeliveryMC -----------------------
(* Small instances of CrashPacketDelivery for TLC.                         *)
EXTENDS CrashPacketDelivery
CONSTANTS c1, c2
OneCaller == {c1}
TwoCallers == {c1, c2}
=============================================================================
