SPECIFICATION WeatherSpec
CONSTANTS
  MaxAsks = 2
  MaxMishaps = 1
INVARIANT WeatherIsHonest
PROPERTY WeatherEnds
CHECK_DEADLOCK FALSE
