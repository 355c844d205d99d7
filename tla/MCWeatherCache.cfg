SPECIFICATION WeatherSpec
CONSTANTS
  Request = {r1, r2}
  Trip <- Trips
  Rain <- RainOfDay
  Lengths = {13, 24, 72}
  Gaps <- GapsOfDay2
  CACHE_TTL_S = 2
  CACHE_MAX_ENTRIES = 2
  MaxTime = 2
SYMMETRY Clients
INVARIANTS
  NoOldForecast
  WeatherOfItsDay
CHECK_DEADLOCK FALSE
