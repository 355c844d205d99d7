-------------------------- MODULE MultiModal_proofs --------------------------
(***************************************************************************)
(* Proofs about the ways to travel a leg, for any points, maps and         *)
(* requests: the arc of a pair is the best way there is, the two ways to   *)
(* build it agree, and so does the second look at its duration.            *)
(***************************************************************************)
EXTENDS MultiModal, WellFoundedInduction, TLAPS

-----------------------------------------------------------------------------
(* Numbers.                                                                  *)

\* A set of numbers that is not empty has a least one.
LEMMA Least ==
  ASSUME NEW S \in SUBSET Nat, S # {}
  PROVE  \E m \in S : \A x \in S : m <= x
  <1>1. PICK m \in S : \A x \in S : ~ (<<x, m>> \in OpToRel(<, Nat))
    BY NatLessThanWellFounded, WFMin
  <1>2. \A x \in S : ~ (x < m)
    BY <1>1 DEF OpToRel
  <1>3. QED
    BY <1>2

\* Min finds it.
LEMMA MinIsLeast ==
  ASSUME NEW S \in SUBSET Nat, S # {}
  PROVE  Min(S) \in S /\ \A x \in S : Min(S) <= x
  BY Least DEF Min

\* The hour of a request is in a bucket.
LEMMA BucketType ==
  ASSUME NEW minute \in Nat, minute < 1440
  PROVE  Bucket(minute).weekday \in Nat /\ Bucket(minute).weekend \in Nat
  <1> DEFINE S == {k \in DOMAIN Buckets : minute < Buckets[k].to}
             i == Min(S)
  <1>1. DOMAIN Buckets = 1..6 /\ Buckets[6].to = 1440
    BY DEF Buckets
  <1>2. 6 \in S /\ S \in SUBSET Nat
    BY <1>1
  <1> HIDE DEF S
  <1>3. i \in S
    BY <1>2, MinIsLeast
  <1>4. i \in 1..6
    BY <1>1, <1>3 DEF S
  <1>5. Bucket(minute) = Buckets[i]
    BY DEF Bucket, S
  <1> HIDE DEF i
  <1>6. \A k \in 1..6 : Buckets[k].weekday \in Nat /\ Buckets[k].weekend \in Nat
    BY DEF Buckets
  <1>7. QED
    BY <1>4, <1>5, <1>6

\* Traffic is a factor.
LEMMA TrafficType ==
  ASSUME NEW profile, NEW r \in Request, NEW area \in {"core", "ring", "outer"}
  PROVE  TrafficFactor(profile, r, area) \in Nat
  <1> DEFINE time == IF r.weekend THEN Bucket(r.minute).weekend ELSE Bucket(r.minute).weekday
             a == AreaPercent[area]
  <1>1. r.minute \in Nat /\ r.minute < 1440
    <2>1. r.minute \in 0..1439
      BY DEF Request
    <2>2. PICK m : m = r.minute
      OBVIOUS
    <2>3. m \in 0..1439
      BY <2>1, <2>2
    <2>4. m \in Nat /\ m < 1440
      BY <2>3
    <2>5. QED
      BY <2>2, <2>4
  <1>2. time \in Nat
    <2> DEFINE b == Bucket(r.minute)
    <2>1. b.weekday \in Nat /\ b.weekend \in Nat
      BY <1>1, BucketType
    <2> HIDE DEF b
    <2>2. (IF r.weekend THEN b.weekend ELSE b.weekday) \in Nat
      <3>1. CASE r.weekend
        BY <2>1, <3>1
      <3>2. CASE ~ r.weekend
        BY <2>1, <3>2
      <3>3. QED
        BY <3>1, <3>2
    <2>3. QED
      BY <2>2 DEF b
  <1>3. a \in {115, 100, 90}
    BY DEF AreaPercent
  <1>4. TrafficFactor(profile, r, area) = IF profile = "walking" THEN 1000 ELSE Thousandths(time, a)
    BY DEF TrafficFactor
  <1> HIDE DEF time, a
  <1>5. Thousandths(time, a) \in Nat
    BY <1>2, <1>3 DEF Thousandths
  <1>6. QED
    BY <1>4, <1>5

\* A leg takes a while.
LEMMA DurationType ==
  ASSUME NEW d \in Nat, NEW f \in Nat, NEW m \in Nat
  PROVE  d * f + m * 60000 \in Nat
  <1>1. d * f \in Nat
    OBVIOUS
  <1> DEFINE p == d * f
  <1> HIDE DEF p
  <1>2. p \in Nat
    BY <1>1 DEF p
  <1>3. p + m * 60000 \in Nat
    BY <1>2
  <1>4. QED
    BY <1>3 DEF p

\* A fare is a number of rupees.
LEMMA RupeesType == ASSUME NEW x \in Nat PROVE Rupees(x) \in Nat
  <1> DEFINE q == x \div 1000
  <1>1. q \in Nat
    OBVIOUS
  <1> HIDE DEF q
  <1>2. Rupees(x) = q \/ Rupees(x) = q + 1
    BY DEF Rupees, q
  <1>3. QED
    BY <1>1, <1>2

\* A leg costs rupees, whatever the mode.
LEMMA CostType ==
  ASSUME NEW mode \in Mode, NEW dist \in Nat, NEW minute \in Nat
  PROVE  LegCost(mode, dist, minute) \in Nat
  <1>1. Metered(Fare.cab, dist) \in Nat /\ Metered(Fare.auto, dist) \in Nat
    BY DEF Metered, Fare, MINIMUM_M
  <1>2. \A f \in Nat : (f * 3) \div 2 \in Nat
    OBVIOUS
  <1>3. dist * 8 + 40000 \in Nat
    OBVIOUS
  <1> HIDE DEF Metered
  <1>4. QED
    BY <1>1, <1>2, <1>3, RupeesType DEF LegCost

-----------------------------------------------------------------------------
(* The choice of a way.                                                      *)

\* The ways there are to travel a leg are what an arc may be.
LEMMA WaysType ==
  ASSUME NEW onFoot \in Route \cup {None}, NEW byRoad \in Route \cup {None},
         NEW r \in Request, NEW area \in {"core", "ring", "outer"}
  PROVE  Ways(onFoot, byRoad, r, area) \subseteq ArcRecord
  <1>1. ASSUME onFoot # None PROVE WalkCandidates(onFoot) \subseteq ArcRecord
    <2>1. onFoot.dur \in Nat /\ onFoot.dist \in Nat
      BY <1>1 DEF Route
    <2>2. onFoot.dur * 1000 \in Nat
      BY <2>1
    <2>3. Candidate("walking", onFoot.dur * 1000, onFoot.dist, 0, onFoot.dist) \in ArcRecord
      BY <2>1, <2>2 DEF Candidate, ArcRecord, Mode
    <2>4. QED
      BY <2>3 DEF WalkCandidates
  <1>2. ASSUME byRoad # None PROVE RoadCandidates(byRoad, r, area) \subseteq ArcRecord
    <2>1. byRoad.dur \in Nat /\ byRoad.dist \in Nat
      BY <1>2 DEF Route
    <2> SUFFICES ASSUME NEW m \in r.modes \cap ROAD_MODES
                 PROVE  Candidate(m, byRoad.dur * TrafficFactor("driving", r, area)
                                       + OverheadMin(m) * 60000,
                                  byRoad.dist, LegCost(m, byRoad.dist, r.minute), 0) \in ArcRecord
      BY DEF RoadCandidates
    <2> DEFINE f == TrafficFactor("driving", r, area)
               o == OverheadMin(m)
               cost == LegCost(m, byRoad.dist, r.minute)
               d == byRoad.dur
               dur == d * f + o * 60000
    <2>2. m \in Mode
      BY DEF ROAD_MODES, Mode
    <2>3. f \in Nat
      BY TrafficType
    <2>4. o \in Nat
      BY DEF OverheadMin
    <2>5. r.minute \in Nat
      BY DEF Request
    <2>6. cost \in Nat
      BY <2>1, <2>2, <2>5, CostType
    <2> HIDE DEF f, o, cost, d
    <2>7. dur \in Nat
      BY <2>1, <2>3, <2>4, DurationType DEF d
    <2> HIDE DEF dur
    <2>8. Candidate(m, dur, byRoad.dist, cost, 0) \in ArcRecord
      BY <2>1, <2>2, <2>6, <2>7 DEF Candidate, ArcRecord
    <2>9. QED
      BY <2>8 DEF f, o, cost, d, dur
  <1> HIDE DEF ArcRecord
  <1>3. QED
    BY <1>1, <1>2 DEF Ways

\* Ways are tried in an order.
LEMMA RankType == ASSUME NEW mode PROVE Rank(mode) \in Nat
  BY DEF Rank

\* Of any ways there is one that comes before all: the cheapest, of these the
\* fastest, of these the one tried first.
LEMMA FirstExists ==
  ASSUME NEW S \in SUBSET ArcRecord, S # {}
  PROVE  \E c \in S : \A d \in S : Before(c, d)
  <1>1. \A c \in S : c.cost \in Nat /\ c.dur \in Nat /\ Rank(c.mode) \in Nat
    BY RankType DEF ArcRecord
  <1> DEFINE A == {c.cost : c \in S}
  <1>2. PICK m \in A : \A x \in A : m <= x
    <2>1. A \in SUBSET Nat /\ A # {}
      BY <1>1
    <2> HIDE DEF A
    <2>2. QED
      BY <2>1, Least
  <1> DEFINE T == {c \in S : c.cost = m}
             B == {c.dur : c \in T}
  <1>3. PICK n \in B : \A x \in B : n <= x
    <2>1. T # {}
      BY <1>2
    <2>2. B \in SUBSET Nat /\ B # {}
      BY <1>1, <2>1
    <2> HIDE DEF B
    <2>3. QED
      BY <2>2, Least
  <1> DEFINE U == {c \in T : c.dur = n}
             C == {Rank(c.mode) : c \in U}
  <1>4. PICK k \in C : \A x \in C : k <= x
    <2>1. U # {}
      BY <1>3
    <2>2. C \in SUBSET Nat /\ C # {}
      BY <1>1, <2>1
    <2> HIDE DEF C
    <2>3. QED
      BY <2>2, Least
  <1>5. PICK c \in U : Rank(c.mode) = k
    BY <1>4
  <1>6. ASSUME NEW d \in S PROVE Before(c, d)
    <2>1. c.cost = m /\ c.dur = n /\ c \in S
      BY <1>5
    <2>2. m <= d.cost /\ m \in Nat
      BY <1>1, <1>2
    <2>3. CASE d.cost = m
      <3>1. n <= d.dur /\ n \in Nat
        BY <1>1, <1>3, <2>3
      <3>2. CASE d.dur = n
        <4>1. d \in U
          BY <2>3, <3>2
        <4>2. k <= Rank(d.mode)
          BY <1>4, <4>1
        <4>3. QED
          BY <1>5, <2>1, <2>3, <3>2, <4>2 DEF Before
      <3>3. QED
        BY <1>1, <2>1, <2>3, <3>1, <3>2 DEF Before
    <2>4. QED
      BY <1>1, <2>1, <2>2, <2>3 DEF Before
  <1>7. QED
    BY <1>5, <1>6

\* What is chosen: a viable way, tolerably fast, that comes before all that are.
LEMMA Chosen ==
  ASSUME NEW cands \in SUBSET ArcRecord, NEW maxWalk
  PROVE  LET V == Viable(cands, maxWalk)
             c == Select(cands, maxWalk) IN
         /\ V = {} => c = None
         /\ V # {} => /\ c \in V
                      /\ \A w \in V : 4 * c.dur <= 5 * w.dur
                      /\ \A w \in V : 4 * w.dur <= 5 * Fastest(V) => Before(c, w)
                      /\ Fastest(V) \in Nat /\ 4 * c.dur <= 5 * Fastest(V)
  <1> DEFINE V == Viable(cands, maxWalk)
             c == Select(cands, maxWalk)
             F == Fastest(V)
             D == {w.dur : w \in V}
             W == {w \in V : 4 * w.dur <= 5 * F}
  <1>1. V \in SUBSET ArcRecord /\ \A w \in V : w.dur \in Nat
    BY DEF Viable, ArcRecord
  <1>2. V = {} => c = None
    BY DEF Select
  <1>3. c = IF V = {} THEN None ELSE CHOOSE w \in W : \A d \in W : Before(w, d)
    BY DEF Select, Within
  <1>4. F = Min(D)
    BY DEF Fastest
  <1> HIDE DEF V, c, F
  <1>5. ASSUME V # {}
        PROVE  /\ c \in W /\ \A d \in W : Before(c, d)
               /\ F \in Nat /\ \A w \in V : F <= w.dur
    <2>1. D \in SUBSET Nat /\ D # {}
      BY <1>1, <1>5
    <2> HIDE DEF D
    <2>2. F \in D /\ \A x \in D : F <= x
      BY <1>4, <2>1, MinIsLeast
    <2>3. F \in Nat
      BY <2>1, <2>2
    <2>4. \A w \in V : F <= w.dur
      BY <2>2 DEF D
    <2>5. \E w \in V : w.dur = F
      BY <2>2 DEF D
    <2>6. W # {} /\ W \in SUBSET ArcRecord
      BY <1>1, <2>3, <2>5
    <2> HIDE DEF W
    <2>7. \E w \in W : \A d \in W : Before(w, d)
      BY <2>6, FirstExists
    <2>8. c = CHOOSE w \in W : \A d \in W : Before(w, d)
      BY <1>3, <1>5 DEF W
    <2>9. QED
      BY <2>3, <2>4, <2>7, <2>8
  <1>6. ASSUME V # {}
        PROVE  /\ c \in V
               /\ \A w \in V : 4 * c.dur <= 5 * w.dur
               /\ \A w \in V : 4 * w.dur <= 5 * F => Before(c, w)
               /\ F \in Nat /\ 4 * c.dur <= 5 * F
    <2>1. c \in V /\ c.dur \in Nat /\ 4 * c.dur <= 5 * F /\ F \in Nat
      BY <1>1, <1>5, <1>6
    <2>2. \A w \in V : F <= w.dur /\ w.dur \in Nat
      BY <1>1, <1>5, <1>6
    <2>3. \A w \in V : 4 * c.dur <= 5 * w.dur
      BY <2>1, <2>2
    <2>4. QED
      BY <1>5, <1>6, <2>1, <2>3
  <1>7. QED
    BY <1>2, <1>6 DEF V, c, F

\* So no way that respects the walking limit beats the one chosen.
LEMMA NothingBeatsIt ==
  ASSUME NEW cands \in SUBSET ArcRecord, NEW maxWalk, NEW w \in cands, w.walk <= maxWalk
  PROVE  LET c == Select(cands, maxWalk) IN
         /\ c # None /\ c.walk <= maxWalk
         /\ ~ (w.cost <= c.cost /\ w.dur < c.dur)
         /\ ~ (w.cost < c.cost /\ w.dur <= c.dur)
         /\ 4 * c.dur <= 5 * w.dur
  <1> DEFINE V == Viable(cands, maxWalk)
             c == Select(cands, maxWalk)
             F == Fastest(V)
  <1>1. w \in V
    BY DEF Viable
  <1>2. /\ c \in V
        /\ \A v \in V : 4 * c.dur <= 5 * v.dur
        /\ \A v \in V : 4 * v.dur <= 5 * F => Before(c, v)
        /\ F \in Nat /\ 4 * c.dur <= 5 * F
    BY <1>1, Chosen
  <1>3. c \in ArcRecord /\ c.walk <= maxWalk /\ w \in ArcRecord
    BY <1>2 DEF Viable
  <1>4. c # None
    BY <1>3, MultiModalAssumption
  <1> HIDE DEF V, c, F
  <1>5. c.cost \in Nat /\ c.dur \in Nat /\ w.cost \in Nat /\ w.dur \in Nat
    BY <1>3 DEF ArcRecord
  <1>6. w.dur <= c.dur => Before(c, w)
    BY <1>1, <1>2, <1>5
  <1>7. /\ ~ (w.cost <= c.cost /\ w.dur < c.dur)
        /\ ~ (w.cost < c.cost /\ w.dur <= c.dur)
    BY <1>5, <1>6 DEF Before
  <1>8. QED
    BY <1>1, <1>2, <1>3, <1>4, <1>7 DEF c

\* What is chosen is one of the ways there are, or there is nothing.
LEMMA ChosenIsAWay ==
  ASSUME NEW cands \in SUBSET ArcRecord, NEW maxWalk
  PROVE  Select(cands, maxWalk) \in cands \cup {None}
  BY Chosen DEF Viable

-----------------------------------------------------------------------------
(* The tables and the arcs.                                                  *)

\* A table was fetched only if the request needs it; the arcs were built from
\* every table it needs.
GridInv ==
  /\ osm \in Maps /\ req \in Requests
  /\ car \in {None} \cup {m.road : m \in Maps} /\ foot \in {None} \cup {m.foot : m \in Maps}
  /\ car # None => NeedsRoad(req)
  /\ foot # None => NeedsFoot(req)
  /\ grid # None =>
       /\ NeedsRoad(req) => car # None
       /\ NeedsFoot(req) => foot # None
       /\ grid = Arcs(car, foot, req)

\* The refetched durations are seconds.
CheckedInv ==
  checked = [e \in Pairs |-> checked[e]] /\ \A e \in Pairs : checked[e] \in Nat \cup {None}

\* What tables say of a pair.
LEMMA TableType ==
  ASSUME NEW m \in Maps, NEW e \in Pairs
  PROVE  m.road[e] \in Route \cup {None} /\ m.foot[e] \in Route \cup {None}
  <1>1. m.road \in RouteTable /\ m.foot \in RouteTable
    BY MultiModalAssumption
  <1>2. QED
    BY <1>1 DEF RouteTable

\* The ways to travel a pair by the fetched tables.
LEMMA WaysOfType ==
  ASSUME GridInv, NEW e \in Pairs
  PROVE  WaysOf(e, req) \subseteq ArcRecord
  <1> DEFINE onFoot == Told(foot, e)
             byRoad == Told(car, e)
  <1>1. onFoot \in Route \cup {None} /\ byRoad \in Route \cup {None}
    BY TableType DEF GridInv, Told
  <1>2. req \in Request /\ Area[e] \in {"core", "ring", "outer"}
    BY MultiModalAssumption DEF GridInv
  <1> HIDE DEF onFoot, byRoad
  <1>3. Ways(onFoot, byRoad, req, Area[e]) \subseteq ArcRecord
    BY <1>1, <1>2, WaysType
  <1>4. QED
    BY <1>3 DEF WaysOf, onFoot, byRoad

\* An arc is the way chosen among them.
LEMMA ArcOf ==
  ASSUME GridInv, grid # None, NEW e \in Pairs
  PROVE  grid[e] = Select(WaysOf(e, req), req.maxWalk)
  BY DEF GridInv, Arcs, WaysOf

\* The arcs there are the best ways.
LEMMA GridIsBest == GridInv => ArcIsBestWay
  <1> SUFFICES ASSUME GridInv, grid # None, NEW e \in Pairs, NEW w \in WaysOf(e, req),
                      w.walk <= req.maxWalk
               PROVE  /\ grid[e] # None /\ grid[e].walk <= req.maxWalk
                      /\ ~ (w.cost <= grid[e].cost /\ w.dur < grid[e].dur)
                      /\ ~ (w.cost < grid[e].cost /\ w.dur <= grid[e].dur)
                      /\ 4 * grid[e].dur <= 5 * w.dur
    BY DEF ArcIsBestWay
  <1> DEFINE cands == WaysOf(e, req)
  <1>1. cands \in SUBSET ArcRecord
    BY WaysOfType
  <1>2. grid[e] = Select(cands, req.maxWalk)
    BY ArcOf
  <1> HIDE DEF cands
  <1>3. w \in cands
    BY DEF cands
  <1>4. QED
    BY <1>1, <1>2, <1>3, NothingBeatsIt

\* And are of their kind.
LEMMA GridType ==
  ASSUME GridInv, grid # None
  PROVE  DOMAIN grid = Pairs /\ \A e \in Pairs : grid[e] \in ArcRecord \cup {None}
  <1>1. DOMAIN grid = Pairs
    BY DEF GridInv, Arcs
  <1>2. ASSUME NEW e \in Pairs PROVE grid[e] \in ArcRecord \cup {None}
    <2> DEFINE cands == WaysOf(e, req)
    <2>1. cands \in SUBSET ArcRecord
      BY WaysOfType
    <2>2. grid[e] = Select(cands, req.maxWalk)
      BY ArcOf
    <2> HIDE DEF cands
    <2>3. QED
      BY <2>1, <2>2, ChosenIsAWay
  <1>3. QED
    BY <1>1, <1>2

\* Nothing was fetched at first.
LEMMA InitGrid == Init => GridInv
  BY DEF Init, GridInv

\* The tables stay as they were fetched, and the arcs as they were built.
LEMMA StepGrid == GridInv /\ [Next]_vars => GridInv'
  <1> SUFFICES ASSUME GridInv, [Next]_vars PROVE GridInv'
    OBVIOUS
  <1> USE DEF GridInv, NeedsRoad, NeedsFoot
  <1>1. CASE ReadCar
    BY <1>1 DEF ReadCar
  <1>2. CASE ReadFoot
    BY <1>2 DEF ReadFoot
  <1>3. CASE Build
    BY <1>3 DEF Build, Arcs
  <1>4. CASE ChangeMap
    BY <1>4 DEF ChangeMap, Arcs
  <1>5. ASSUME NEW e \in Pairs, Refetch(e) PROVE GridInv'
    BY <1>5 DEF Refetch, Arcs
  <1>6. CASE UNCHANGED vars
    BY <1>6 DEF vars, Arcs
  <1>7. QED
    BY <1>1, <1>2, <1>3, <1>4, <1>5, <1>6 DEF Next

\* So it always is.
LEMMA AlwaysGrid == Spec => []GridInv
  BY InitGrid, StepGrid, PTL DEF Spec

-----------------------------------------------------------------------------
(* The second look.                                                          *)

\* The arc of a pair that is walked was walked by the walking table, and one
\* that is driven driven by the road's: with the duration a refetch computes.
LEMMA RefetchIsArc ==
  ASSUME GridInv, SameMap, grid # None, NEW e \in Pairs, grid[e] # None
  PROVE  RefetchedLeg(osm, e, grid[e].mode, req) = grid[e].dur
  <1> DEFINE onFoot == Told(foot, e)
             byRoad == Told(car, e)
             cands == WaysOf(e, req)
  <1>1. grid[e] \in cands
    <2>1. cands \in SUBSET ArcRecord /\ grid[e] = Select(cands, req.maxWalk)
      BY WaysOfType, ArcOf
    <2> HIDE DEF cands
    <2>2. QED
      BY <2>1, ChosenIsAWay
  <1>2. onFoot # None => onFoot = osm.foot[e]
    BY DEF Told, SameMap
  <1>3. byRoad # None => byRoad = osm.road[e]
    BY DEF Told, SameMap
  <1>4. cands = Ways(onFoot, byRoad, req, Area[e])
    BY DEF WaysOf
  <1>5. onFoot \in Route \cup {None} /\ byRoad \in Route \cup {None}
    BY TableType DEF GridInv, Told
  <1> HIDE DEF onFoot, byRoad, cands
  <1>6. CASE onFoot # None /\ grid[e] \in WalkCandidates(onFoot)
    <2>1. grid[e].mode = "walking" /\ grid[e].dur = onFoot.dur * 1000
      BY <1>6 DEF WalkCandidates, Candidate
    <2>2. onFoot.dur \in Nat
      BY <1>5, <1>6 DEF Route
    <2>3. RefetchedLeg(osm, e, "walking", req) = onFoot.dur * 1000 + 0 * 60000
      BY <1>2, <1>6 DEF RefetchedLeg, RouteDuration, TrafficFactor
    <2>4. QED
      BY <2>1, <2>2, <2>3
  <1>7. CASE byRoad # None /\ grid[e] \in RoadCandidates(byRoad, req, Area[e])
    <2>1. PICK m \in ROAD_MODES :
            /\ grid[e].mode = m
            /\ grid[e].dur = byRoad.dur * TrafficFactor("driving", req, Area[e])
                               + OverheadMin(m) * 60000
      BY <1>7 DEF RoadCandidates, Candidate
    <2>2. m # "walking"
      BY DEF ROAD_MODES
    <2>3. RefetchedLeg(osm, e, m, req)
            = byRoad.dur * TrafficFactor("driving", req, Area[e]) + OverheadMin(m) * 60000
      BY <1>3, <1>7, <2>2 DEF RefetchedLeg, RouteDuration
    <2>4. QED
      BY <2>1, <2>3
  <1>8. QED
    BY <1>1, <1>4, <1>6, <1>7 DEF Ways

\* Whatever map it is asked of, a refetch is answered with seconds or nothing.
LEMMA RefetchType ==
  ASSUME GridInv, NEW e \in Pairs, NEW mode
  PROVE  RefetchedLeg(osm, e, mode, req) \in Nat \cup {None}
  <1> DEFINE onFoot == osm.foot[e]
             byRoad == osm.road[e]
             o == OverheadMin(mode)
  <1>1. onFoot \in Route \cup {None} /\ byRoad \in Route \cup {None}
    BY TableType DEF GridInv
  <1>2. req \in Request /\ Area[e] \in {"core", "ring", "outer"}
    BY MultiModalAssumption DEF GridInv
  <1>3. o \in Nat
    BY DEF OverheadMin
  <1>4. ASSUME NEW route \in Route, NEW profile, NEW n \in Nat
        PROVE  RouteDuration(route, profile, req, Area[e], n) \in Nat
    <2> DEFINE d == route.dur
               f == TrafficFactor(profile, req, Area[e])
    <2>1. d \in Nat
      BY DEF Route
    <2>2. f \in Nat
      BY <1>2, TrafficType
    <2> HIDE DEF d, f
    <2>3. d * f + n * 60000 \in Nat
      BY <2>1, <2>2, DurationType
    <2>4. QED
      BY <2>3 DEF RouteDuration, d, f
  <1> HIDE DEF o
  <1>5. onFoot # None => RouteDuration(onFoot, "walking", req, Area[e], 0) \in Nat
    BY <1>1, <1>4
  <1>6. byRoad # None => RouteDuration(byRoad, "driving", req, Area[e], o) \in Nat
    BY <1>1, <1>3, <1>4
  <1>7. QED
    BY <1>5, <1>6 DEF RefetchedLeg, o

\* Nothing was refetched at first.
LEMMA InitChecked == Init => CheckedInv
  BY DEF Init, CheckedInv

\* Only a refetch changes what was refetched.
LEMMA StepChecked == GridInv /\ CheckedInv /\ [Next]_vars => CheckedInv'
  <1> SUFFICES ASSUME GridInv, CheckedInv, [Next]_vars PROVE CheckedInv'
    OBVIOUS
  <1>1. ASSUME NEW e \in Pairs, Refetch(e) PROVE CheckedInv'
    <2> DEFINE x == RefetchedLeg(osm, e, grid[e].mode, req)
    <2>1. checked' = [checked EXCEPT ![e] = x]
      BY <1>1 DEF Refetch
    <2>2. x \in Nat \cup {None}
      BY RefetchType
    <2> HIDE DEF x
    <2>3. QED
      BY <2>1, <2>2 DEF CheckedInv
  <1>2. CASE checked' = checked
    BY <1>2 DEF CheckedInv
  <1>3. QED
    BY <1>1, <1>2 DEF Next, ReadCar, ReadFoot, Build, ChangeMap, vars

\* What holds of the tables and of the refetched durations always does.
LEMMA AlwaysChecked == Spec => [](GridInv /\ CheckedInv)
  <1>1. Init => GridInv /\ CheckedInv
    BY InitGrid, InitChecked
  <1>2. (GridInv /\ CheckedInv) /\ [Next]_vars => (GridInv /\ CheckedInv)'
    BY StepGrid, StepChecked
  <1>3. QED
    BY <1>1, <1>2, PTL DEF Spec

-----------------------------------------------------------------------------

\* The solver is given good legs: of all the ways to travel a pair that the
\* request allows and the walking limit lets be, none is both cheaper and
\* faster than the arc, none is faster by more than the tolerance, and there is
\* an arc when there is such a way.
THEOREM BestWay == Spec => []Inv
  <1>1. GridInv /\ CheckedInv => Inv
    <2> SUFFICES ASSUME GridInv, CheckedInv PROVE Inv
      OBVIOUS
    <2>1. TypeOK
      <3>1. grid = None \/ /\ DOMAIN grid = Pairs
                           /\ \A e \in Pairs : grid[e] \in ArcRecord \cup {None}
        BY GridType
      <3>2. QED
        BY <3>1 DEF TypeOK, GridInv, CheckedInv
    <2>2. QED
      BY <2>1, GridIsBest DEF Inv
  <1>2. QED
    BY <1>1, AlwaysChecked, PTL

\* One leg asked for alone is the leg of the grid, as long as OSRM runs on the
\* map the tables came from.
THEOREM OneArc == Spec => []OneArcTwoWays
  <1>1. GridInv => OneArcTwoWays
    <2> SUFFICES ASSUME GridInv, grid # None, SameMap, NEW e \in Pairs
                 PROVE  BuildArc(osm, e, req) = grid[e]
      BY DEF OneArcTwoWays
    <2> DEFINE onFoot == Told(foot, e)
               byRoad == Told(car, e)
               walk == osm.foot[e]
               road == osm.road[e]
    <2>1. onFoot = IF NeedsFoot(req) THEN walk ELSE None
      BY DEF Told, GridInv, SameMap
    <2>2. byRoad = IF NeedsRoad(req) THEN road ELSE None
      BY DEF Told, GridInv, SameMap
    <2>3. walk \in Route \cup {None}
      BY TableType DEF GridInv
    <2> DEFINE A == IF NeedsFoot(req) /\ walk # None /\ walk.dist <= MAX_SINGLE_WALK_M
                    THEN {Candidate("walking",
                                    RouteDuration(walk, "walking", req, Area[e], 0),
                                    walk.dist, 0, walk.dist)} ELSE {}
               B == IF NeedsRoad(req) /\ road # None
                    THEN RoadCandidates(road, req, Area[e]) ELSE {}
    <2>4. A = IF onFoot = None THEN {} ELSE WalkCandidates(onFoot)
      <3>1. CASE NeedsFoot(req) /\ walk # None
        <4>1. walk.dur \in Nat
          BY <2>3, <3>1 DEF Route
        <4>2. RouteDuration(walk, "walking", req, Area[e], 0) = walk.dur * 1000
          BY <4>1 DEF RouteDuration, TrafficFactor
        <4>3. onFoot = walk
          BY <2>1, <3>1
        <4> HIDE DEF onFoot, walk
        <4>4. QED
          BY <3>1, <4>2, <4>3 DEF WalkCandidates
      <3>2. CASE ~ (NeedsFoot(req) /\ walk # None)
        <4>1. onFoot = None
          BY <2>1, <3>2
        <4>2. A = {}
          BY <3>2
        <4> HIDE DEF onFoot, A
        <4>3. QED
          BY <4>1, <4>2
      <3>3. QED
        BY <3>1, <3>2
    <2>5. B = IF byRoad = None THEN {} ELSE RoadCandidates(byRoad, req, Area[e])
      BY <2>2
    <2>6. BuildArc(osm, e, req) = Select(A \cup B, req.maxWalk)
      BY DEF BuildArc
    <2>7. grid[e] = Select(Ways(onFoot, byRoad, req, Area[e]), req.maxWalk)
      BY ArcOf DEF WaysOf
    <2>8. Ways(onFoot, byRoad, req, Area[e])
            = (IF onFoot = None THEN {} ELSE WalkCandidates(onFoot))
              \cup (IF byRoad = None THEN {} ELSE RoadCandidates(byRoad, req, Area[e]))
      BY DEF Ways
    <2> HIDE DEF onFoot, byRoad, walk, road, A, B
    <2>9. QED
      BY <2>4, <2>5, <2>6, <2>7, <2>8
  <1>2. QED
    BY <1>1, AlwaysGrid, PTL

\* A leg that is fetched again for the validator takes the time the solver was
\* given, unless OSRM changed its map in between.
THEOREM SecondLookAgrees == Spec => RefetchAgrees
  <1> DEFINE A == \A e \in Pairs : checked'[e] # checked[e] /\ SameMap
                    => checked'[e] = grid[e].dur
  <1>1. (GridInv /\ CheckedInv) /\ [Next]_vars => A
    <2> SUFFICES ASSUME GridInv, CheckedInv, [Next]_vars, SameMap,
                        NEW e \in Pairs, checked'[e] # checked[e]
                 PROVE  checked'[e] = grid[e].dur
      OBVIOUS
    <2>1. PICK p \in Pairs : Refetch(p)
      BY DEF Next, ReadCar, ReadFoot, Build, ChangeMap, vars
    <2> DEFINE x == RefetchedLeg(osm, p, grid[p].mode, req)
    <2>2. grid # None /\ grid[p] # None /\ checked' = [checked EXCEPT ![p] = x]
      BY <2>1 DEF Refetch
    <2>3. x = grid[p].dur
      BY <2>2, RefetchIsArc
    <2> HIDE DEF x
    <2>4. e = p /\ checked'[p] = x
      BY <2>2 DEF CheckedInv
    <2>5. QED
      BY <2>3, <2>4
  <1> HIDE DEF A
  <1>2. (GridInv /\ CheckedInv) /\ [Next]_vars => [A]_vars
    BY <1>1
  <1>3. Spec => [][A]_vars
    BY <1>2, AlwaysChecked, PTL DEF Spec
  <1>4. QED
    BY <1>3 DEF RefetchAgrees, A
=============================================================================
