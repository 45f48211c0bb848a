------------------------ MODULE SafetyNotificationMC ------------------------
(* Small instances of SafetyNotification for TLC: one for the task with    *)
(* both channels, its retries and faults, and one for the callbacks of a   *)
(* text whose requests overlap, come again, or are refused.                *)
EXTENDS SafetyNotification

Setting(channels, reported, retries, crash, raise, unanswered, copy) ==
   [channels |-> channels, reported |-> reported, retries |-> retries,
    limit |-> [d \in Disturbances |->
                 CASE d = "crash" -> crash [] d = "raise" -> raise
                   [] d = "unanswered" -> unanswered [] d = "copy" -> copy]]

TaskAndCallbacks ==
   {Setting({"sms", "voice"}, {}, 1, 1, 1, 1, 0),
    Setting({"sms"}, {"delivered", "undelivered"}, 0, 1, 0, 0, 1)}
=============================================================================
