-------------------------- MODULE DashcamCaptureMC --------------------------
(* Small instances of DashcamCapture for TLC: two with a fault, where either *)
(* both streams have footage or two fetches of the only footage may differ,  *)
(* and one without, where the retry may choose any requests.                 *)
EXTENDS DashcamCapture
CONSTANTS clipA, clipB, clipC
SomeClips == {clipA, clipB, clipC}
Instance(offices, onlyFailed, most, clips) ==
    {[office |-> o, failedOnly |-> onlyFailed, faults |-> most, footage |-> clips] : o \in offices}
FaultOrAnyRetry ==
    Instance({TRUE}, TRUE, 1, <<{clipA}, {clipC}>>)
      \cup Instance(BOOLEAN, TRUE, 1, <<{clipA, clipB}, {}>>)
      \cup Instance(BOOLEAN, FALSE, 0, <<{clipA}, {clipC}>>)
=============================================================================
