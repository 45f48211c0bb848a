SPECIFICATION FairSpec
CONSTANTS
  d1 = d1
  d2 = d2
  v1 = v1
  v2 = v2
  Drivers <- TwoDrivers
  Vehicles <- TwoVehicles
  InReach <- DriverOneScansBoth
  WeatherTasks = {"weather"}
  MaxRequests = 2
  MaxFaults = 1
INVARIANTS
  StartsOnceUnlessRaced
  AnswersAreTrue
PROPERTY DriverIsServed
CHECK_DEADLOCK FALSE
