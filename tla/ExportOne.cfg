SPECIFICATION FairSpec
CONSTANTS
  Exports = {e1}
  Requests = {r1}
  Workers = {w1}
  Keys = {k1}
  None = None
  MaxRetries = 1
  MaxCrashes = 2
  MaxOutages = 1
  MaxCopies = 0
  MaxRequeues = 1
INVARIANTS TypeOK PackageIntegrity GeneratedOnce NoTaskLost
PROPERTIES ImplementsLifecycle ExportsSettle
CHECK_DEADLOCK FALSE
