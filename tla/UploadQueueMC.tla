---------------------------- MODULE UploadQueueMC ----------------------------
(* Two photos of one type: they share what the server makes of the type.     *)
EXTENDS UploadQueue
CONSTANTS photo1, photo2
Photos == {photo1, photo2}
SameType == [i \in Photos |-> "driver_photo"]
==============================================================================
