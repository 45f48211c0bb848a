--------------------------- MODULE InspectionMatch ---------------------------
(***************************************************************************)
(* Which roadside inspections a driver answers for: the matcher of         *)
(* services/fmcsa_attribution.py and the confidence that a row of the      *)
(* driver's unit history has (db/repo/driver_unit_history.py).  Pure.      *)
(*                                                                         *)
(* A field is Nil when it is missing.  Vehicles' identities and states are *)
(* values that are equal or not; the code compares them stripped and in    *)
(* upper case.                                                             *)
(***************************************************************************)
EXTENDS Naturals, Sequences, SequencesExt

CONSTANT Nil

Given(value) == value # Nil

\* An inspection without a date is in no window; an open window has no end.
WithinWindow(inspection, unit) ==
    /\ Given(inspection.date)
    /\ unit.start =< inspection.date
    /\ Given(unit.end) => inspection.date =< unit.end

SameVin(inspection, unit) == Given(inspection.vin) /\ inspection.vin = unit.vin
SamePlate(inspection, unit) == Given(inspection.plate) /\ inspection.plate = unit.plate
StatesKnown(inspection, unit) == Given(inspection.state) /\ Given(unit.state)

\* How well the vehicles agree; a plate of another state is another vehicle.
VehicleMatch(inspection, unit) ==
    IF SameVin(inspection, unit) THEN "strong"
    ELSE IF ~SamePlate(inspection, unit) THEN "none"
    ELSE IF ~StatesKnown(inspection, unit) THEN "weak"
    ELSE IF inspection.state = unit.state THEN "strong" ELSE "none"

FinalConfidence(confidence, strength) ==
    CASE strength = "strong" /\ confidence \in {"high", "medium"} -> confidence
      [] strength = "weak" /\ confidence = "high" -> "medium"
      [] OTHER -> "low"

Rank(confidence) == CASE confidence = "high" -> 2 [] confidence = "medium" -> 1 [] OTHER -> 0

\* Low confidence is stored with a reason, and left out of the brief.
Match(inspection, unit) ==
    LET final == FinalConfidence(unit.confidence, VehicleMatch(inspection, unit))
    IN [unit |-> unit.id, confidence |-> final, included |-> final # "low"]

NoMatch == [unit |-> Nil, confidence |-> "none", included |-> FALSE]

\* Mutant of Better: the last match is kept.
BetterLast(best, match) == match

\* The first of the best is kept.
Better(best, match) ==
    IF best = NoMatch \/ Rank(match.confidence) > Rank(best.confidence) THEN match ELSE best

Attribute(inspection, units) ==
    FoldLeft(LAMBDA best, unit :
                IF WithinWindow(inspection, unit) /\ VehicleMatch(inspection, unit) # "none"
                THEN Better(best, Match(inspection, unit)) ELSE best,
             NoMatch, units)

\* The confidence of a row of the unit history, from the fields it came with.
ClassifyConfidence(fields) ==
    LET identified == Given(fields.vin) \/ Given(fields.number)
                        \/ (Given(fields.plate) /\ Given(fields.state))
        bounded == Given(fields.start) /\ Given(fields.end)
    IN CASE ~Given(fields.driver) -> "low"
         [] Given(fields.driver) /\ identified /\ bounded -> "high"
         [] OTHER -> "medium"

==============================================================================
