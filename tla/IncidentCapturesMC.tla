------------------------- MODULE IncidentCapturesMC -------------------------
(* Small instances of IncidentCaptures, each chosen for one of its parts.  *)
EXTENDS IncidentCaptures

CONSTANTS u1, u2, i1, i2, s1, s2, driver

Unit(v, p, st, a, e) ==
    [driver |-> driver, number |-> Nil, vin |-> v, plate |-> p, state |-> st, start |-> a, end |-> e]

\* What a sync may read: a whole row, and one without plate and dates.
FeedRows == {Unit("v", "p", "tx", 1, 2), Unit("v", Nil, Nil, Nil, Nil)}

SomePulled ==
    [few |-> [vin : {"v", Nil}, plate : {"p"}, state : {"tx"}, date : {2}],
     many |-> [vin : {"v", "w", Nil}, plate : {"p", Nil}, state : {"tx", "la", Nil}, date : {1, 2, Nil}]]

\* The few begin with no units; the many are all pairs of rows of some shape.
ManyRows ==
    {Unit(v, p, st, 1, e) : v \in {"v", Nil}, p \in {"p", Nil}, st \in {"tx", Nil}, e \in {1, Nil}}
SomeKnown ==
    [few |-> [UnitIds -> {Nil}],
     many |-> {[u \in UnitIds |-> pair[u] @@ [id |-> u, confidence |-> ClassifyConfidence(pair[u])]] :
                    pair \in [UnitIds -> ManyRows]}]

Shape(sets, formats, most) == [sets |-> sets, formats |-> formats, faults |-> most, any |-> FALSE]
AnyStatus(sets, formats, most) == [Shape(sets, formats, most) EXCEPT !.any = TRUE]
Scope(cases, syncs, sample, most) ==
    [cases |-> cases, syncs |-> syncs, sample |-> sample, refreshes |-> most, losses |-> most]
Instance(origin, a, b) == [origin |-> origin, shape |-> a, scope |-> b]

Quiet == Scope({}, {}, "few", 0)
SomeInstances ==
    {Instance("driver", Shape(2, 2, 0), Quiet), Instance("driver", Shape(1, 2, 1), Quiet),
     Instance("office", Shape(2, 1, 0), Quiet), Instance("office", Shape(1, 1, 1), Quiet),
     Instance("driver", AnyStatus(1, 1, 1), Quiet), Instance("office", AnyStatus(1, 1, 0), Quiet),
     Instance("office", Shape(1, 1, 0), Scope({i1}, {}, "few", 0))}
    \cup {Instance("over", Shape(1, 1, 0), b) :
            b \in {Scope({i1, i2}, {}, "few", 1), Scope({i1}, {s1}, "few", 0),
                   Scope({}, {s1, s2}, "few", 0), Scope({i1}, {}, "many", 0)}}
=============================================================================
