SPECIFICATION FairSpec
CONSTANTS
  Workers = {w1}
  Handlers = {h1, h2}
  Enqueued = 1
  Settings <- TaskAndCallbacks
INVARIANTS SendsAreAccountedFor EventsAreTrue DeliveryClaimsAreTrue
PROPERTY NotificationSettles
CHECK_DEADLOCK FALSE
