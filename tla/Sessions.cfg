SPECIFICATION Spec
CONSTANTS
  MaxRequests = 4
  MaxChallenges = 2
  MaxAttempts = 2
INVARIANTS
  EndedForGood
  HolderCanGoOn
  LoginIsEarned
CHECK_DEADLOCK FALSE
