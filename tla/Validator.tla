------------------------------ MODULE Validator ------------------------------
(***************************************************************************)
(* The independent validator: nine rules over facts re-fetched from their  *)
(* primary sources. Findings is the set of rules that complain; any one    *)
(* of them blocks persistence.                                             *)
(*                                                                         *)
(* A fact is what _validate is given about one stop: the stop's own times  *)
(* and cost, the hours re-queried now, the leg into it from the arc grid,  *)
(* and whether the travel time refetched from OSRM drifted by more than    *)
(* the tolerance.                                                          *)
(***************************************************************************)
EXTENDS Places

COST_TOLERANCE_INR == 1
SINGLE_WALK_CAP_M == 1500

Rules == {"TRAVEL_TIME_MISMATCH", "VENUE_CLOSED", "BUDGET_EXCEEDED",
          "TIMELINE_INVALID", "WALKING_EXCEEDED", "MUST_UNSATISFIED",
          "EXCLUSION_VIOLATED", "WEATHER_UNSUITABLE"}

SumOver(facts, f(_)) == MapThenSumSet(LAMBDA k : f(facts[k]), DOMAIN facts)

Closed(s) == s.hours.hard /\ (s.arrive < s.hours.open \/ s.depart > s.hours.close)

OverBudget(facts, spec) ==
    spec.budget # Unlimited
    /\ SumOver(facts, LAMBDA s : s.cost + s.legCost) > spec.budget + COST_TOLERANCE_INR

BadTimeline(facts, spec) ==
    \E k \in DOMAIN facts :
        \/ facts[k].arrive < (IF k = 1 THEN spec.start ELSE facts[k - 1].depart)
        \/ facts[k].depart < facts[k].arrive
        \/ facts[k].arrive < spec.start
        \/ facts[k].depart > spec.end

TooMuchWalking(facts, spec) ==
    \/ SumOver(facts, LAMBDA s : s.walk) > 10 * spec.maxWalk
    \/ \E k \in DOMAIN facts : facts[k].walk > 10 * SINGLE_WALK_CAP_M

(* Mutant: one visit is enough whatever the count.                         *)
MutMustShortPresence(facts, spec, declared) ==
    \E i \in Musts(spec) : /\ \A k \in DOMAIN facts : facts[k].cat # i.cat
                           /\ i.cat \notin declared

MustShort(facts, spec, declared) ==
    \E i \in Musts(spec) :
        /\ Cardinality({k \in DOMAIN facts : facts[k].cat = i.cat}) < i.count
        /\ i.cat \notin declared

(* Mutant: the ids to avoid are not checked again.                         *)
MutExcludedTrustsSearch(facts, spec) ==
    \/ \E k \in DOMAIN facts : facts[k].cat \in spec.avoidCats
    \/ \E j, k \in DOMAIN facts : j # k /\ facts[j].poi = facts[k].poi

Excluded(facts, spec) ==
    \/ \E k \in DOMAIN facts : facts[k].cat \in spec.avoidCats \/ facts[k].poi \in spec.avoid
    \/ \E j, k \in DOMAIN facts : j # k /\ facts[j].poi = facts[k].poi

Findings(facts, spec, rain, declared) ==
    {r \in Rules :
        \/ r = "TRAVEL_TIME_MISMATCH" /\ \E k \in DOMAIN facts : facts[k].drifts
        \/ r = "VENUE_CLOSED" /\ \E k \in DOMAIN facts : Closed(facts[k])
        \/ r = "BUDGET_EXCEEDED" /\ OverBudget(facts, spec)
        \/ r = "TIMELINE_INVALID" /\ BadTimeline(facts, spec)
        \/ r = "WALKING_EXCEEDED" /\ TooMuchWalking(facts, spec)
        \/ r = "MUST_UNSATISFIED" /\ MustShort(facts, spec, declared)
        \/ r = "EXCLUSION_VIOLATED" /\ Excluded(facts, spec)
        \/ r = "WEATHER_UNSUITABLE" /\ rain
           /\ \E k \in DOMAIN facts : ~ Place[facts[k].poi].indoor}
=============================================================================
