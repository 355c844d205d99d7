----------------------------- MODULE Feasibility -----------------------------
(***************************************************************************)
(* The two checks that run before any optimisation: the semantic           *)
(* validator, and the feasibility engine with its relaxation ladder.       *)
(***************************************************************************)
EXTENDS Places

MIN_BUDGET_PER_PERSON_INR == 50
MIN_LEG_COST_INR == 30

(* Mutant: the budget floor is forgotten.                                  *)
MutSemanticErrorsNoFloor(spec) ==
    {e \in {"DATE_IN_PAST", "WALKING_ONLY_SHORT_LIMIT", "DUPLICATE_INTEREST"} :
        \/ e = "DATE_IN_PAST" /\ spec.date < 0
        \/ e = "WALKING_ONLY_SHORT_LIMIT" /\ ~ spec.vehicle /\ spec.maxWalk < 3000
        \/ e = "DUPLICATE_INTEREST"
           /\ Cardinality(Wanted(spec)) < Cardinality(spec.interests)}

(* The errors of validate_semantics (its warnings change nothing).         *)
SemanticErrors(spec) ==
    {e \in {"DATE_IN_PAST", "BUDGET_TOO_LOW",
            "WALKING_ONLY_SHORT_LIMIT", "DUPLICATE_INTEREST"} :
        \/ e = "DATE_IN_PAST" /\ spec.date < 0
        \/ e = "BUDGET_TOO_LOW"
           /\ ~ WithinBudget(MIN_BUDGET_PER_PERSON_INR * spec.party, spec)
        \/ e = "WALKING_ONLY_SHORT_LIMIT" /\ ~ spec.vehicle /\ spec.maxWalk < 3000
        \/ e = "DUPLICATE_INTEREST"
           /\ Cardinality(Wanted(spec)) < Cardinality(spec.interests)}

(* _candidate_summaries: the cheapest, nearest and shortest of a category, *)
(* each taken separately.                                                  *)
MinOf(f(_), rows) == Min({f(p) : p \in rows})
MinCost(rows)  == MinOf(LAMBDA p : Place[p].unit, rows)
MinVisit(rows) == MinOf(LAMBDA p : Place[p].visit, rows)
Nearest(rows)  == MinOf(LAMBDA p : Place[p].km, rows)
AnyOpen(rows, hours, minute) == \E p \in rows : OpenAt(hours[p], minute)
AllOutdoor(rows) == \A p \in rows : ~ Place[p].indoor

(* FeasibilityEngine.check: the lower bounds read the MUST interests only; *)
(* a category without candidates counts its default visit and no travel.   *)
(* 3.24 minutes per kilometre is DETOUR_FACTOR / LOWER_BOUND_SPEED_KMH.    *)
(* found and hours are per category: what each search returned, and the    *)
(* hours table it read.                                                    *)
Supplied(spec, found) == {i \in Musts(spec) : found[i.cat] # {}}

StopCount(ints) == MapThenSumSet(LAMBDA i : i.count, ints)
LowestCost(ints, found) ==
    MapThenSumSet(LAMBDA i : i.count * MinCost(found[i.cat]), ints)
LowestMinutes100(ints, supplied, found) ==
    MapThenSumSet(LAMBDA i : i.count *
                    IF i \in supplied
                    THEN 100 * MinVisit(found[i.cat]) + 324 * Nearest(found[i.cat])
                    ELSE 100 * DefaultVisit[i.cat],
                  ints)

TotalRequired100(spec, found) ==
    LowestMinutes100(Musts(spec), Supplied(spec, found), found)

LegCount(spec) == Max({StopCount(Musts(spec)), 1})

MinTripCost(spec, found) ==
    LowestCost(Supplied(spec, found), found) * spec.party
    + IF spec.vehicle THEN LegCount(spec) * MIN_LEG_COST_INR ELSE 0

Violated(spec, found, hours, rain) ==
    {v \in {"TIME", "BUDGET", "REACH", "HOURS", "WEATHER"} :
        \/ v = "TIME"
           /\ TotalRequired100(spec, found) > 100 * (spec.end - spec.start)
        \/ v = "BUDGET" /\ ~ WithinBudget(MinTripCost(spec, found), spec)
        \/ v = "REACH" /\ \E i \in Musts(spec) : found[i.cat] = {}
        \/ v = "HOURS"
           /\ \E i \in Musts(spec) : ~ AnyOpen(found[i.cat], hours[i.cat], spec.start)
        \/ v = "WEATHER" /\ rain
           /\ \E i \in Supplied(spec, found) : AllOutdoor(found[i.cat])}

(* The steps of _ladder that need no confirmation: 1, 2 and 4.             *)
AutoRelaxations(spec, violated) ==
    {r \in {"drop_nice", "reduce_should_counts", "widen_radius"} :
        \/ r = "drop_nice" /\ \E i \in spec.interests : i.prio = "nice"
        \/ r = "reduce_should_counts"
           /\ \E i \in spec.interests : i.prio = "should" /\ i.count > 1
        \/ r = "widen_radius" /\ "REACH" \in violated}

DropNice(interests) == {i \in interests : i.prio # "nice"}
ReduceShould(interests) ==
    {IF i.prio = "should" THEN [i EXCEPT !.count = 1] ELSE i : i \in interests}

(* apply_relaxation for each of them in ladder order. widen_radius changes *)
(* nothing: "handled by the caller".                                       *)
Relax(spec, relaxations) ==
    LET kept == IF "drop_nice" \in relaxations
                THEN DropNice(spec.interests) ELSE spec.interests
    IN [spec EXCEPT !.interests = IF "reduce_should_counts" \in relaxations
                                  THEN ReduceShould(kept) ELSE kept]
=============================================================================
