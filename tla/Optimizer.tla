------------------------------ MODULE Optimizer ------------------------------
(***************************************************************************)
(* The CP-SAT model of optimizer/model.py: which timed tours satisfy its   *)
(* constraints, and the objective it maximises over them.                  *)
(*                                                                         *)
(* A tour is a sequence of [poi, arrive, depart]. The solver owns the      *)
(* arrival times: any value inside the constraints may come back, because  *)
(* the objective does not mention them. A problem is the record            *)
(*   [spec, cand, cat, hours]                                              *)
(* with the candidate places, the category each one was matched under and  *)
(* the hours the search returned.                                          *)
(***************************************************************************)
EXTENDS Places

CONSTANTS
    Granule,      \* arrivals explored: start + a multiple of Granule (a bound)
    TourLength    \* longest tour explored (a bound; the modes cap at 4, 6, 8)

ASSUME OptimizerAssumption == Granule \in Nat \ {0} /\ TourLength \in Nat

Mode == [balanced |-> [score |-> 100, travel |-> 5,  cost |-> 0, visit |-> 100, max_stops |-> 6],
         quick    |-> [score |-> 80,  travel |-> 12, cost |-> 1, visit |-> 70,  max_stops |-> 8],
         relaxed  |-> [score |-> 120, travel |-> 3,  cost |-> 0, visit |-> 140, max_stops |-> 4]]

MUST_WEIGHT == 100000
SCORE_SCALE == 100000
MAX_CONSECUTIVE_SAME_CATEGORY == 2
MEAL_WINDOWS == {<<12 * 60, 15 * 60>>, <<19 * 60, 22 * 60>>}
MIN_USABLE_OVERLAP_MIN == 90

Stop == [poi : Poi, arrive : Int, depart : Int]

Bigger(a, b) == IF a >= b THEN a ELSE b
Smaller(a, b) == IF a <= b THEN a ELSE b

VisitMinutes(p, spec) ==
    Bigger(15, (Place[p].visit * Mode[spec.mode].visit) \div 100)

(* The nodes of a tour in order, the origin before the first stop. The     *)
(* legs are the arcs into the stops; the circuit closes with a return arc. *)
NodeAt(tour, k) == IF k = 0 THEN Origin ELSE tour[k].poi
Leg(tour, k)    == <<NodeAt(tour, k - 1), NodeAt(tour, k)>>
Legs(tour)      == {Leg(tour, k) : k \in DOMAIN tour}
ReturnLeg(tour) == <<NodeAt(tour, Len(tour)), Origin>>
Circuit(tour)   == IF tour = <<>> THEN {} ELSE Legs(tour) \cup {ReturnLeg(tour)}
PoisOf(tour)    == {tour[k].poi : k \in DOMAIN tour}

(* max(1, int(duration_s / 60)) and int(walk_m).                           *)
LegMinutes(e) == Bigger(1, Arc[e].dur \div 60)
LegMetres(e)  == Arc[e].walk \div 10

Members(tour, prob, c) == {p \in PoisOf(tour) : prob.cat[p] = c}
Offered(prob, c)       == {p \in prob.cand : prob.cat[p] = c}

TotalCost(tour, spec) ==
    MapThenSumSet(LAMBDA p : VisitCost(p, spec), PoisOf(tour))
    + MapThenSumSet(LAMBDA e : Arc[e].cost, Circuit(tour))

(* --- the hard constraints, one operator each ---------------------------- *)
PinsVisited(tour, prob) == prob.spec.require \cap prob.cand \subseteq PoisOf(tour)

ClosedCircuit(tour) ==
    /\ \A j, k \in DOMAIN tour : j # k => tour[j].poi # tour[k].poi
    /\ Circuit(tour) \subseteq DOMAIN Arc

VisitLasts(tour, spec) ==
    \A k \in DOMAIN tour :
        /\ spec.start <= tour[k].arrive
        /\ tour[k].depart = tour[k].arrive + VisitMinutes(tour[k].poi, spec)
        /\ tour[k].depart <= spec.end

(* Mutant: the legs take no time.                                          *)
MutTimePropagatesNoTravel(tour, spec) ==
    \A k \in DOMAIN tour :
        tour[k].arrive >= IF k = 1 THEN spec.start ELSE tour[k - 1].depart

TimePropagates(tour, spec) ==
    \A k \in DOMAIN tour :
        tour[k].arrive >= (IF k = 1 THEN spec.start ELSE tour[k - 1].depart)
                          + LegMinutes(Leg(tour, k))

OpeningWindows(tour, prob) ==
    \A k \in DOMAIN tour :
        LET h == prob.hours[tour[k].poi]
        IN h.hard => h.open <= tour[k].arrive /\ tour[k].depart <= h.close

(* Mutant: transport is left out of the budget.                            *)
MutBudgetVisitsOnly(tour, spec) ==
    WithinBudget(MapThenSumSet(LAMBDA p : VisitCost(p, spec), PoisOf(tour)), spec)

BudgetHolds(tour, spec) == WithinBudget(TotalCost(tour, spec), spec)

WalkingHolds(tour, spec) ==
    MapThenSumSet(LegMetres, Circuit(tour)) <= spec.maxWalk

StopCap(tour, spec) == Len(tour) <= Mode[spec.mode].max_stops

InterestCaps(tour, prob) ==
    \A i \in prob.spec.interests : Cardinality(Members(tour, prob, i.cat)) <= i.count

UsableMeals(spec) ==
    {w \in {<<Bigger(m[1], spec.start + 30), Smaller(m[2], spec.end)>> : m \in MEAL_WINDOWS} :
        w[2] - w[1] >= MIN_USABLE_OVERLAP_MIN}

MealHolds(tour, prob) ==
    (prob.spec.meal /\ UsableMeals(prob.spec) # {} /\ \E p \in prob.cand : Place[p].meal)
        => \E k \in DOMAIN tour, w \in UsableMeals(prob.spec) :
              Place[tour[k].poi].meal /\ w[1] <= tour[k].arrive /\ tour[k].arrive <= w[2]

(* lit_ij + lit_jk <= MAX_CONSECUTIVE_SAME_CATEGORY - 1 + 1, over the two  *)
(* arcs joining three stops of one category.                               *)
Diversity(tour, prob) ==
    \A k \in 3..Len(tour) :
        Cardinality({prob.cat[tour[n].poi] : n \in (k - 2)..k}) = 1
            => 2 <= MAX_CONSECUTIVE_SAME_CATEGORY - 1 + 1

Solves(tour, prob) ==
    /\ Len(tour) <= TourLength
    /\ StopCap(tour, prob.spec)
    /\ ClosedCircuit(tour)
    /\ PinsVisited(tour, prob)
    /\ InterestCaps(tour, prob)
    /\ VisitLasts(tour, prob.spec)
    /\ TimePropagates(tour, prob.spec)
    /\ OpeningWindows(tour, prob)
    /\ BudgetHolds(tour, prob.spec)
    /\ WalkingHolds(tour, prob.spec)
    /\ MealHolds(tour, prob)
    /\ Diversity(tour, prob)

(* --- the tours the solver can return ------------------------------------ *)
Orders(S, n) == {s \in [1..n -> S] : \A j, k \in 1..n : j # k => s[j] # s[k]}

Arrivals(spec) == {spec.start + m * Granule : m \in 0..((spec.end - spec.start) \div Granule)}

Timed(order, at, spec) ==
    [k \in DOMAIN order |-> [poi |-> order[k], arrive |-> at[k],
                             depart |-> at[k] + VisitMinutes(order[k], spec)]]

Solutions(prob) ==
    {t \in UNION {{Timed(order, at, prob.spec) : order \in Orders(prob.cand, n),
                                                 at \in [1..n -> Arrivals(prob.spec)]}
                  : n \in 0..TourLength} : Solves(t, prob)}

(* --- the objective ------------------------------------------------------ *)
MustsMet(tour, prob) ==
    {i \in Musts(prob.spec) : /\ Offered(prob, i.cat) # {}
                              /\ Cardinality(Members(tour, prob, i.cat)) >= i.count}

(* int(w.score * SCORE_SCALE * score) with both factors in percent; a pin  *)
(* the ranker had cut scores 1.0.                                          *)
ScoreTerm(p, prob) ==
    (Mode[prob.spec.mode].score
     * (IF p \in prob.pinned THEN 100 ELSE Place[p].score) * SCORE_SCALE) \div 10000

Objective(tour, prob) ==
    LET w == Mode[prob.spec.mode] IN
    MUST_WEIGHT * Cardinality(MustsMet(tour, prob))
    + MapThenSumSet(LAMBDA p : ScoreTerm(p, prob), PoisOf(tour))
    - w.travel * MapThenSumSet(LegMinutes, Circuit(tour))
    - w.cost * TotalCost(tour, prob.spec)

Optimal(tours, prob) ==
    {t \in tours : \A u \in tours : Objective(t, prob) >= Objective(u, prob)}
=============================================================================
