SPECIFICATION Spec
CONSTANTS
    Answers = {a1, a2}
    None = None
    MaxRetries = 1
    Nil = Nil
    u1 = u1
    u2 = u2
    i1 = i1
    i2 = i2
    s1 = s1
    s2 = s2
    driver = driver
    Driver = driver
    Syncs = {s1, s2}
    UnitIds = {u1, u2}
    TrailerIds = {t1}
    Feed <- FeedRows
    Cases = {i1, i2}
    NewCase = i1
    Reports = {r1}
    Pulled <- SomePulled
    Known <- SomeKnown
    Instances <- SomeInstances
INVARIANTS
    BundleIsHonest
    HistoryIsHonest
    AttemptIsTrue
PROPERTY CapturesEnd
CHECK_DEADLOCK FALSE
