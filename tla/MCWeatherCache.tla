--------------------------- MODULE MCWeatherCache ---------------------------
(***************************************************************************)
(* An instance of WeatherCache: a dry day, a day with rain at night and    *)
(* one with rain at noon and at one; trips that share a range, a day or    *)
(* only their length; series that end early, or have no value for the      *)
(* rainy hours of a window or for all of it.                               *)
(***************************************************************************)
EXTENDS WeatherCache, TLC

T(days, start, end) == [cell |-> "cell", days |-> days, start |-> start, end |-> end]

Trips == {T({1}, 9, 18), T({2}, 9, 18), T({0, 2}, 13, 24)}
RainOfDay == [d \in 0..2 |-> CASE d = 0 -> {} [] d = 1 -> {22} [] d = 2 -> {12, 13}]
GapsOfDay2 == {{}, {2} \X (12..23)}
Clients == Permutations(Request)
=============================================================================
