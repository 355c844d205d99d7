------------------------------ MODULE MultiModal ------------------------------
(***************************************************************************)
(* The ways to travel a leg: what OSRM says of it, adjusted for traffic,   *)
(* priced, and reduced to one arc before the optimiser sees it             *)
(* (routing/multimodal.py, routing/service.py, costs/estimator.py), and    *)
(* the second look the validator gets at the legs that were chosen.        *)
(*                                                                         *)
(* Durations are milliseconds, distances metres, fares thousandths of a    *)
(* rupee until they are rounded, traffic factors thousandths. How calls    *)
(* fail is module Routing's: here they are answered.                       *)
(***************************************************************************)
EXTENDS Integers, Sequences, FiniteSets, FiniteSetsExt

CONSTANTS
  Point,     \* the origin and the candidates
  Maps,      \* what OSRM may know: [road, foot : [pairs -> [dur, dist] or None]]
  Area,      \* of each pair: the area its midpoint lies in
  Requests,  \* [modes, maxWalk, minute, weekend]
  None

Pairs == {e \in Point \X Point : e[1] # e[2]}
Mode == {"walking", "auto", "cab", "own_car", "bike"}
ROAD_MODES == {"auto", "cab", "own_car"}

Route == [dur : Nat, dist : Nat]
RouteTable == [Pairs -> Route \cup {None}]
ArcRecord == [mode : Mode, dur : Nat, dist : Nat, cost : Nat, walk : Nat]
Request == [modes : SUBSET Mode \ {{}}, maxWalk : 0..15000,
            minute : 0..1439, weekend : BOOLEAN]

ASSUME MultiModalAssumption ==
  /\ Maps \subseteq [road : RouteTable, foot : RouteTable]
  /\ Area \in [Pairs -> {"core", "ring", "outer"}]
  /\ Requests \subseteq Request
  /\ None \notin Route \cup ArcRecord

VARIABLES
  osm,      \* the map the two OSRM servers run on now
  req,      \* the request
  car,      \* Matrix of the road profile, None until it was fetched
  foot,     \* Matrix of the walking profile
  grid,     \* the arcs, None until they are built
  checked   \* of each pair: the seconds refetched for the validator, or None

vars == <<osm, req, car, foot, grid, checked>>

-----------------------------------------------------------------------------
(* Traffic: data/config/traffic_factors.yaml and traffic_factor.           *)

Buckets == << [to |-> 420,  weekday |-> 85,  weekend |-> 85],
              [to |-> 660,  weekday |-> 175, weekend |-> 110],
              [to |-> 960,  weekday |-> 125, weekend |-> 120],
              [to |-> 1260, weekday |-> 190, weekend |-> 135],
              [to |-> 1380, weekday |-> 130, weekend |-> 130],
              [to |-> 1440, weekday |-> 90,  weekend |-> 100] >>

Bucket(minute) == Buckets[Min({k \in DOMAIN Buckets : minute < Buckets[k].to})]

AreaPercent == [core |-> 115, ring |-> 100, outer |-> 90]

\* Rounded to a thousandth: in binary floats the ties fall, but for the
\* weekday noon in the core, which rises.
Thousandths(time, area) ==
  IF time = 125 /\ area = 115 THEN 1438 ELSE (time * area) \div 10

TrafficFactor(profile, r, area) ==
  IF profile = "walking" THEN 1000
  ELSE Thousandths(IF r.weekend THEN Bucket(r.minute).weekend
                                ELSE Bucket(r.minute).weekday, AreaPercent[area])

-----------------------------------------------------------------------------
(* Fares: data/config/fares.yaml and estimate_leg_cost.                    *)

Fare == [auto |-> [minimum |-> 30000, km |-> 15], cab |-> [minimum |-> 50000, km |-> 18]]
MINIMUM_M == 2000
NIGHT_START == 1320
NIGHT_END == 300

\* Python's round: a tie goes to the even rupee.
Rupees(x) ==
  LET q == x \div 1000  r == x % 1000
  IN IF r > 500 \/ (r = 500 /\ q % 2 = 1) THEN q + 1 ELSE q

Metered(c, dist) ==
  c.minimum + IF dist <= MINIMUM_M THEN 0 ELSE (dist - MINIMUM_M) * c.km

IsNight(minute) == minute >= NIGHT_START \/ minute < NIGHT_END

LegCost(mode, dist, minute) ==
  CASE mode = "own_car" -> Rupees(dist * 8 + 40000)
    [] mode = "cab" -> Rupees(Metered(Fare.cab, dist))
    [] mode = "auto" -> LET f == Metered(Fare.auto, dist)
                        IN Rupees(IF IsNight(minute) THEN (f * 3) \div 2 ELSE f)
    [] OTHER -> 0

OverheadMin(mode) == CASE mode = "auto" -> 5 [] mode = "cab" -> 6
                       [] mode = "own_car" -> 8 [] OTHER -> 0

-----------------------------------------------------------------------------
(* The candidates of a leg, and the choice among them.                     *)

MAX_SINGLE_WALK_M == 2000

Candidate(mode, dur, dist, cost, walk) ==
  [mode |-> mode, dur |-> dur, dist |-> dist, cost |-> cost, walk |-> walk]

\* Mutant: hailing takes no time.
MutRoadCandidatesNoOverhead(route, r, area) ==
  {Candidate(m, route.dur * TrafficFactor("driving", r, area),
             route.dist, LegCost(m, route.dist, r.minute), 0) : m \in r.modes \cap ROAD_MODES}

RoadCandidates(route, r, area) ==
  {Candidate(m, route.dur * TrafficFactor("driving", r, area) + OverheadMin(m) * 60000,
             route.dist, LegCost(m, route.dist, r.minute), 0) : m \in r.modes \cap ROAD_MODES}

WalkCandidates(route) ==
  IF route.dist <= MAX_SINGLE_WALK_M
  THEN {Candidate("walking", route.dur * 1000, route.dist, 0, route.dist)} ELSE {}

\* The order candidates are tried in, which settles ties.
Rank(mode) == CASE mode = "walking" -> 1 [] mode = "auto" -> 2
                [] mode = "cab" -> 3 [] OTHER -> 4

Viable(cands, maxWalk) == {c \in cands : c.walk <= maxWalk}

Fastest(cands) == Min({c.dur : c \in cands})

\* Within TIME_TOLERANCE, a quarter, of the fastest.
Within(cands) == {c \in cands : 4 * c.dur <= 5 * Fastest(cands)}

Before(c, d) ==
  \/ c.cost < d.cost
  \/ c.cost = d.cost /\ c.dur < d.dur
  \/ c.cost = d.cost /\ c.dur = d.dur /\ Rank(c.mode) <= Rank(d.mode)

\* Mutant: the cheapest of all, tolerated or not.
MutSelectCheapest(cands, maxWalk) ==
  LET viable == Viable(cands, maxWalk) IN
  IF viable = {} THEN None
  ELSE CHOOSE c \in viable : \A d \in viable : Before(c, d)

Select(cands, maxWalk) ==
  LET within == Within(Viable(cands, maxWalk)) IN
  IF Viable(cands, maxWalk) = {} THEN None
  ELSE CHOOSE c \in within : \A d \in within : Before(c, d)

NeedsRoad(r) == r.modes \cap ROAD_MODES # {}
NeedsFoot(r) == "walking" \in r.modes

\* What a table says of a pair: nothing when it was not asked for.
Told(table, e) == IF table = None THEN None ELSE table[e]

Ways(onFoot, byRoad, r, area) ==
  (IF onFoot = None THEN {} ELSE WalkCandidates(onFoot))
  \cup (IF byRoad = None THEN {} ELSE RoadCandidates(byRoad, r, area))

\* build_matrix, once it has its tables.
Arcs(carTable, footTable, r) ==
  [e \in Pairs |->
     Select(Ways(Told(footTable, e), Told(carTable, e), r, Area[e]), r.maxWalk)]

-----------------------------------------------------------------------------
(* get_route, and the two that use it leg by leg.                          *)

\* The duration of one leg, traffic and the mode's overhead included.
RouteDuration(route, profile, r, area, overhead) ==
  route.dur * TrafficFactor(profile, r, area) + overhead * 60000

\* _refetch_leg_seconds: the chosen mode's own profile is asked again.
RefetchedLeg(m, e, mode, r) ==
  IF mode = "walking"
  THEN IF m.foot[e] = None THEN None
       ELSE RouteDuration(m.foot[e], "walking", r, Area[e], 0)
  ELSE IF m.road[e] = None THEN None
       ELSE RouteDuration(m.road[e], "driving", r, Area[e], OverheadMin(mode))

\* Mutant: the single-walk limit is left to the request's.
MutBuildArcLongWalks(m, e, r) ==
  Select((IF NeedsFoot(r) /\ m.foot[e] # None
          THEN {Candidate("walking", RouteDuration(m.foot[e], "walking", r, Area[e], 0),
                          m.foot[e].dist, 0, m.foot[e].dist)} ELSE {})
         \cup (IF NeedsRoad(r) /\ m.road[e] # None
               THEN RoadCandidates(m.road[e], r, Area[e]) ELSE {}),
         r.maxWalk)

\* build_arc: one leg by two /route calls; None is its RoutingUnavailable.
BuildArc(m, e, r) ==
  Select((IF /\ NeedsFoot(r) /\ m.foot[e] # None
             /\ m.foot[e].dist <= MAX_SINGLE_WALK_M
          THEN {Candidate("walking", RouteDuration(m.foot[e], "walking", r, Area[e], 0),
                          m.foot[e].dist, 0, m.foot[e].dist)} ELSE {})
         \cup (IF NeedsRoad(r) /\ m.road[e] # None
               THEN RoadCandidates(m.road[e], r, Area[e]) ELSE {}),
         r.maxWalk)

-----------------------------------------------------------------------------

Init ==
  /\ osm \in Maps
  /\ req \in Requests
  /\ car = None /\ foot = None /\ grid = None
  /\ checked = [e \in Pairs |-> None]

ReadCar ==
  /\ grid = None /\ car = None /\ NeedsRoad(req)
  /\ car' = osm.road
  /\ UNCHANGED <<osm, req, foot, grid, checked>>

\* The walking table is asked for after the road's was answered.
ReadFoot ==
  /\ grid = None /\ foot = None /\ NeedsFoot(req)
  /\ NeedsRoad(req) => car # None
  /\ foot' = osm.foot
  /\ UNCHANGED <<osm, req, car, grid, checked>>

Build ==
  /\ grid = None
  /\ NeedsRoad(req) => car # None
  /\ NeedsFoot(req) => foot # None
  /\ grid' = Arcs(car, foot, req)
  /\ UNCHANGED <<osm, req, car, foot, checked>>

\* A leg the solver chose is checked: any arc there is.
Refetch(e) ==
  /\ grid # None /\ grid[e] # None /\ checked[e] = None
  /\ checked' = [checked EXCEPT ![e] = RefetchedLeg(osm, e, grid[e].mode, req)]
  /\ UNCHANGED <<osm, req, car, foot, grid>>

\* OSRM is started again on another extract.
ChangeMap ==
  /\ osm' \in Maps \ {osm}
  /\ UNCHANGED <<req, car, foot, grid, checked>>

Next == ReadCar \/ ReadFoot \/ Build \/ ChangeMap \/ \E e \in Pairs : Refetch(e)

Spec == Init /\ [][Next]_vars

-----------------------------------------------------------------------------

TypeOK ==
  /\ osm \in Maps /\ req \in Requests
  /\ car \in {None} \cup {m.road : m \in Maps}
  /\ foot \in {None} \cup {m.foot : m \in Maps}
  /\ grid = None \/ /\ DOMAIN grid = Pairs
                    /\ \A e \in Pairs : grid[e] \in ArcRecord \cup {None}
  /\ \A e \in Pairs : checked[e] \in Nat \cup {None}

\* Every way to travel a pair that the request allows, by the fetched tables.
WaysOf(e, r) == Ways(Told(foot, e), Told(car, e), r, Area[e])

\* The leg the solver is given is a good one: no other way that respects the
\* walking limit is both cheaper and faster, none is faster by more than the
\* tolerance; and there is a leg whenever there is such a way (the selection
\* rule at multimodal.py:6).
ArcIsBestWay ==
  grid # None => \A e \in Pairs : \A w \in WaysOf(e, req) : w.walk <= req.maxWalk =>
    /\ grid[e] # None /\ grid[e].walk <= req.maxWalk
    /\ ~ (w.cost <= grid[e].cost /\ w.dur < grid[e].dur)
    /\ ~ (w.cost < grid[e].cost /\ w.dur <= grid[e].dur)
    /\ 4 * grid[e].dur <= 5 * w.dur

SameMap == car \in {None, osm.road} /\ foot \in {None, osm.foot}

\* What a grid holds is of its kind, and the best there is.
Inv == TypeOK /\ ArcIsBestWay

\* One leg asked for alone is the leg of the grid: two tables and two routes
\* lead to the same choice ("re-checking chosen legs", multimodal.py:134).
OneArcTwoWays ==
  grid # None /\ SameMap => \A e \in Pairs : BuildArc(osm, e, req) = grid[e]

\* A leg that is fetched again for the validator takes the time the solver was
\* given, unless OSRM changed its map in between: the two implementations of a
\* leg's duration (multimodal.py:116, service.py:282) cannot by themselves make
\* the validator refuse a plan.
RefetchAgrees ==
  [][\A e \in Pairs : checked'[e] # checked[e] /\ SameMap
       => checked'[e] = grid[e].dur]_vars
=============================================================================
