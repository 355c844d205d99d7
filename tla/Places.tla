------------------------------- MODULE Places -------------------------------
(***************************************************************************)
(* The vocabulary the planning modules share: the catalogue of places the  *)
(* search reads, the arcs the router computes between them, the request    *)
(* (TripSpec), and the helpers every stage uses.                           *)
(*                                                                         *)
(* Minutes are minutes since midnight, money is whole rupees, arc          *)
(* durations are seconds and walked distances are tenths of a metre, so    *)
(* that the two roundings the orchestrator does (whole minutes, whole      *)
(* metres) are visible.                                                    *)
(***************************************************************************)
EXTENDS Integers, Sequences, FiniteSets, FiniteSetsExt

CONSTANTS
    Poi,          \* the active rows of pois
    Category,     \* poi_categories
    Place,        \* [Poi -> record]: what a search row says, hours apart
    Origin,       \* node 0 of the arc grid, not a place
    DefaultVisit, \* [Category -> minutes]: poi_categories.default_visit_minutes
    Arc,          \* <<node, node>> -> [dur, cost, walk], a partial function
    Unlimited     \* budget_inr is None

Node == Poi \cup {Origin}
Priority == {"must", "should", "nice"}
PlanningMode == {"balanced", "quick", "relaxed"}

(* One row of a search result without its hours: the categories it is      *)
(* linked to, whether its primary category is a meal, indoor, distance     *)
(* from the origin, the cost per person, visit minutes (a zero would read  *)
(* as absent), ranker score in percent.                                    *)
PlaceRecord == [cats : SUBSET Category, meal : BOOLEAN, indoor : BOOLEAN,
                km : Nat, unit : Nat, visit : Nat \ {0}, score : 0..100]

(* Opening hours of the trip's weekday. hard is confidence >= 0.5. A place *)
(* with no row, or open 24 hours, is open 0..1440.                         *)
HoursRecord == [open : 0..1440, close : 0..1440, hard : BOOLEAN]

ArcRecord == [dur : Nat, cost : Nat, walk : Nat]

ASSUME PlacesAssumption ==
    /\ IsFiniteSet(Poi) /\ IsFiniteSet(Category)
    /\ Origin \notin Poi
    /\ Place \in [Poi -> PlaceRecord]
    /\ DefaultVisit \in [Category -> Nat]
    /\ DOMAIN Arc \subseteq Node \X Node
    /\ \A e \in DOMAIN Arc : Arc[e] \in ArcRecord
    /\ Unlimited \notin Nat

(* TripSpec, the fields that change the course of a plan. date is relative *)
(* to today; vehicle says that some mode other than walking is allowed;    *)
(* maxWalk is max_walking_km in metres.                                    *)
Interest == [cat : Category, count : 1..5, prio : Priority]
DayCount == 1..7
MinuteOfDay == 0..1439
PartySize == 1..10
WalkLimit == 0..15000
Budget == Nat \cup {Unlimited}
TripSpec == [date : Int, days : DayCount, start : MinuteOfDay, end : MinuteOfDay,
             budget : Budget, party : PartySize, vehicle : BOOLEAN,
             maxWalk : WalkLimit, meal : BOOLEAN, mode : PlanningMode,
             interests : SUBSET Interest, avoid : SUBSET Poi,
             avoidCats : SUBSET Category, require : SUBSET Poi]

Wanted(spec) == {i.cat : i \in spec.interests}
Musts(spec)  == {i \in spec.interests : i.prio = "must"}

(* The schema's own validators: a request that fails one is refused with   *)
(* 422 before any handler runs.                                            *)
WellFormed(spec) ==
    /\ spec.interests # {}
    /\ Cardinality(spec.interests) <= 8
    /\ Cardinality(spec.require) <= 5
    /\ spec.end - spec.start >= 60
    /\ spec.end - spec.start <= 16 * 60
    /\ Wanted(spec) \cap spec.avoidCats = {}
    /\ spec.vehicle \/ spec.maxWalk >= 1000

(* estimate_poi_cost: the visit for the whole party.                       *)
VisitCost(p, spec) == Place[p].unit * spec.party

WithinBudget(amount, spec) == spec.budget = Unlimited \/ amount <= spec.budget

OpenAt(h, minute) == h.open <= minute /\ minute < h.close
=============================================================================
