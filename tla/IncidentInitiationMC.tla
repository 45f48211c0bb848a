----------------------- MODULE IncidentInitiationMC -----------------------
(* A small instance of IncidentInitiation for TLC: two drivers, of whom     *)
(* one can scan either of two trucks and the other the first one only.      *)
EXTENDS IncidentInitiation, TLC
CONSTANTS d1, d2, v1, v2
TwoDrivers == {d1, d2}
TwoVehicles == {v1, v2}
DriverOneScansBoth == d1 :> {v1, v2} @@ d2 :> {v1}
=============================================================================
