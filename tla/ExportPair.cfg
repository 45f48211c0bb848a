SPECIFICATION PairSpec
CONSTANTS
  Exports = {e1, e2}
  Requests = {r1, r2}
  Workers = {w1, w2}
  Keys = {k1}
  None = None
  MaxRetries = 0
  MaxCrashes = 1
  MaxOutages = 0
  MaxCopies = 1
  MaxRequeues = 0
INVARIANTS OfferedPackageIsStored ProcessingIsOwnAttempt
SYMMETRY Symmetry
CHECK_DEADLOCK FALSE
