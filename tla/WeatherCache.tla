---------------------------- MODULE WeatherCache ----------------------------
(***************************************************************************)
(* The weather client (weather/client.py): a forecast for a range of days  *)
(* is taken from the cache of this process or fetched from Open-Meteo, and *)
(* cut into one window for each day asked for. The clock is read before    *)
(* the fetch, and other requests run while it lasts. Places are cells of   *)
(* the coordinates rounded to two digits.                                  *)
(***************************************************************************)
EXTENDS Integers, FiniteSets

CONSTANTS
  Request,
  Trip,        \* what is asked: [cell, days (numbers), start, end (hours)]
  Rain,        \* [day -> the hours in which it rains heavily]
  Lengths,     \* how many hours a series may have
  Gaps,        \* the sets of <<day, hour>> a series may hold no value for
  CACHE_TTL_S, CACHE_MAX_ENTRIES,
  MaxTime      \* the last moment of the clock (a bound)

\* A trip has a first and a last day, and rain falls in hours of a day.
ASSUME WeatherAssumption ==
  /\ Lengths \subseteq Nat
  /\ CACHE_TTL_S \in Nat /\ CACHE_MAX_ENTRIES \in Nat \ {0} /\ MaxTime \in Nat
  /\ \A t \in Trip :
       /\ t.days \subseteq Int /\ t.start \in Nat /\ t.end \in Nat
       /\ \E a, b \in t.days : \A d \in t.days : a <= d /\ d <= b
       /\ \A d \in t.days : Rain[d] \subseteq 0..23

VARIABLES
  clock,
  cache,     \* [key -> [at, forecast]]
  request    \* [request -> what it does]

weatherVars == <<clock, cache, request>>

First(days) == CHOOSE d \in days : \A x \in days : d <= x
Last(days)  == CHOOSE d \in days : \A x \in days : d >= x

\* Mutant: the key names how long the trip is, not when it begins.
MutKey(trip) == <<trip.cell, 0, Last(trip.days) - First(trip.days)>>

Key(trip) == <<trip.cell, First(trip.days), Last(trip.days)>>

\* hourly: index 0 is midnight of the first day asked for. The series may end
\* before the last day does, and hours in it may have no value (null). made is
\* when Open-Meteo made it.
Forecast(first, hours, gap, made) ==
  LET hour(i) == <<first + i \div 24, i % 24>>
      valued == {i \in 0..hours - 1 : hour(i) \notin gap}
  IN [first |-> first, made |-> made, valued |-> valued, hours |-> hours,
      rain |-> {i \in valued : hour(i)[2] \in Rain[hour(i)[1]]}]

WeatherUnavailable == "unavailable"

\* window_for_day; of the window, whether it expects heavy rain. Hours without
\* a value are left out, and the others decide.
WindowForDay(f, offset, start, end) ==
  LET base == 24 * offset
      lo == base + start
      past == base + (IF end < 23 THEN end ELSE 23) + 1
      hi == IF f.hours < past THEN f.hours ELSE past
      window == (lo..hi - 1) \cap f.valued
  IN IF window = {} THEN WeatherUnavailable
     ELSE IF window \cap f.rain # {} THEN "heavy_rain" ELSE "clear"

Windows(f, trip) ==
  [d \in trip.days |-> WindowForDay(f, d - First(trip.days), trip.start, trip.end)]

Idle == [stage |-> "idle"]

WeatherInit ==
  /\ clock = 0
  /\ cache = [k \in {} |-> Idle]
  /\ request = [r \in Request |-> Idle]

Fresh(key) == key \in DOMAIN cache /\ clock - cache[key].at < CACHE_TTL_S

Answered(f, trip, hit) ==
  [stage |-> "done", hit |-> hit, trip |-> trip, at |-> clock,
   forecast |-> f, windows |-> Windows(f, trip)]

\* get_windows up to the fetch.
Ask(r, trip) ==
  /\ request[r].stage \in {"idle", "done"}
  /\ LET key == Key(trip) IN
     request' = [request EXCEPT ![r] =
       IF Fresh(key) THEN Answered(cache[key].forecast, trip, TRUE)
       ELSE [stage |-> "fetching", trip |-> trip, at |-> clock]]
  /\ UNCHANGED <<clock, cache>>

\* Mutant: the entry is stamped when it is written.
MutStamp(r) == clock

Stamp(r) == request[r].at

Full == Cardinality(DOMAIN cache) >= CACHE_MAX_ENTRIES

\* The answer was made at some time since the fetch began.
Fetched(r) ==
  /\ request[r].stage = "fetching"
  /\ LET trip == request[r].trip
         kept == IF Full THEN {} ELSE DOMAIN cache
     IN \E made \in request[r].at..clock, hours \in Lengths, gap \in Gaps :
          LET f == Forecast(First(trip.days), hours, gap, made) IN
          /\ hours <= 24 * (Last(trip.days) - First(trip.days) + 1)
          /\ cache' = [k \in kept \cup {Key(trip)} |->
                         IF k = Key(trip) THEN [at |-> Stamp(r), forecast |-> f] ELSE cache[k]]
          /\ request' = [request EXCEPT ![r] = Answered(f, trip, FALSE)]
  /\ UNCHANGED clock

\* An error or the timeout: the plan goes on without weather, and nothing is
\* remembered.
Failed(r) ==
  /\ request[r].stage = "fetching"
  /\ request' = [request EXCEPT ![r] = Idle]
  /\ UNCHANGED <<clock, cache>>

ClockTick ==
  /\ clock < MaxTime
  /\ clock' = clock + 1
  /\ UNCHANGED <<cache, request>>

WeatherNext ==
  \/ ClockTick
  \/ \E r \in Request :
       \/ \E trip \in Trip : Ask(r, trip)
       \/ Fetched(r) \/ Failed(r)

WeatherSpec == WeatherInit /\ [][WeatherNext]_weatherVars
-----------------------------------------------------------------------------

WeatherTypeOK ==
  /\ clock \in 0..MaxTime
  /\ \A k \in DOMAIN cache : cache[k].at \in 0..clock
  /\ \A r \in Request :
       /\ request[r].stage \in {"idle", "fetching", "done"}
       /\ request[r].stage = "done" =>
            \A d \in request[r].trip.days :
              request[r].windows[d] \in {"clear", "heavy_rain", WeatherUnavailable}

\* "Responses are cached in-process for 10 minutes" (client.py:8): what the
\* cache answers was not made longer ago than that, however long its fetch took
\* and whichever of several fetches of one range wrote last.
NoOldForecast ==
  \A r \in Request :
    request[r].stage = "done" /\ request[r].hit =>
      request[r].at - request[r].forecast.made < CACHE_TTL_S

\* Each day of a trip gets the weather of that day, also when the forecast was
\* fetched for another trip: heavy rain is expected exactly if it falls in an
\* hour of the window that the forecast has a value for, and the weather is
\* unavailable exactly if it has none. "clear" therefore says nothing of the
\* hours without a value, in which it may rain.
HasValue(f, day, hour) == 24 * (day - f.first) + hour \in f.valued

WeatherOfItsDay ==
  \A r \in Request :
    request[r].stage = "done" =>
      \A d \in request[r].trip.days :
        LET trip == request[r].trip
            known == {h \in 0..23 : /\ trip.start <= h /\ h <= trip.end
                                    /\ HasValue(request[r].forecast, d, h)}
        IN /\ request[r].windows[d] = "heavy_rain" <=> Rain[d] \cap known # {}
           /\ request[r].windows[d] = WeatherUnavailable <=> known = {}

\* The cache never grows past its limit, though fetches end together.
CacheIsBounded == Cardinality(DOMAIN cache) <= CACHE_MAX_ENTRIES
=============================================================================
