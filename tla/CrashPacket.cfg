SPECIFICATION FairSpec
CONSTANTS
  c1 = c1
  c2 = c2
  Callers <- TwoCallers
  MaxRecipients = 2
  MaxRetries = 1
  MaxFaults = 1
INVARIANTS
  RowIsHonest
  ResendHasCause
PROPERTIES
  FlipIsFollowedUp
  DeliverySettles
CHECK_DEADLOCK FALSE
