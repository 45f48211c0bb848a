SPECIFICATION Spec
CONSTANTS
  c1 = c1
  c2 = c2
  Callers <- OneCaller
  MaxRecipients = 1
  MaxRetries = 0
  MaxFaults = 0
PROPERTIES
  SentIsNotFlipped
CHECK_DEADLOCK FALSE
