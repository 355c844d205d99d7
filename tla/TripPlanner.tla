----------------------------- MODULE TripPlanner -----------------------------
(***************************************************************************)
(* plan_trip and the pipeline plan it runs once per day: semantic check,   *)
(* search, feasibility pre-check, ranking, arcs, optimiser, validator,     *)
(* persistence. (create_plan runs the same pipeline once, without the list *)
(* of used places, and gives each failure its HTTP code itself.)           *)
(*                                                                         *)
(* One request is followed from its arrival to its answer. Around it the   *)
(* forecast, the ranker's order, OSRM, the solver and the opening-hours    *)
(* table (which the data pipeline reloads in one transaction while         *)
(* requests run) are free to do what the code allows them to. Any step may *)
(* be cut short by a database error or a crash: Abort.                     *)
(***************************************************************************)
EXTENDS Feasibility, Optimizer, Validator

CONSTANTS
    Requests,        \* the TripSpecs that may arrive
    HoursTables,     \* the contents poi_opening_hours may have
    CandidateLimit,  \* candidate_limit of the ranker
    SolverProves,    \* TRUE: the solver finishes within its time limit
    MaxReloads,      \* hours reloads during one request (a bound)
    None

ASSUME TripPlannerAssumption ==
    /\ Requests \subseteq {r \in TripSpec : WellFormed(r)}
    /\ HoursTables \subseteq [Poi -> HoursRecord] /\ HoursTables # {}
    /\ CandidateLimit \in Nat \ {0}
    /\ SolverProves \in BOOLEAN
    /\ MaxReloads \in Nat

SEARCH_RADIUS_KM == 8
WIDENED_RADIUS_KM == 15

VARIABLES
    req,        \* the TripSpec as it arrived
    hours,      \* poi_opening_hours, now
    reloads,    \* how often it was reloaded
    rain,       \* heavy_rain_expected of each day
    used,       \* plan_trip's list: avoided ids and the stops of planned days
    days_out,   \* the entries of the answer so far, lost in an abort
    saved,      \* the itineraries committed for this request, in order
    stage,      \* where the request is
    spec,       \* the current day's TripSpec
    applied,    \* relaxations_applied
    pool,       \* [found, hours], per category searched, or None
    prob,       \* the optimiser's problem, or None
    tour,       \* the optimiser's stops
    hours_now   \* the hours read again for the validator, or None

local == <<spec, applied, pool, prob, tour, hours_now>>
trip  == <<req, rain, used, days_out>>
table == <<hours, reloads>>
vars  == <<req, hours, reloads, rain, used, days_out, saved, stage, spec,
           applied, pool, prob, tour, hours_now>>

Stages == {"arrived", "day", "search", "precheck", "rank", "arcs", "optimize",
           "recheck", "validate", "persist", "report", "done", "aborted"}
Running == Stages \ {"done", "aborted"}
Day == Len(days_out) + 1

Codes == {"OK", "SEMANTIC_INVALID", "INFEASIBLE", "NO_CANDIDATES",
          "PLANNING_FAILED", "ROUTING_UNAVAILABLE", "VALIDATION_FAILED"}

Init ==
    /\ req \in Requests
    /\ hours \in HoursTables
    /\ reloads = 0
    /\ rain = <<>>
    /\ used = req.avoid
    /\ days_out = <<>>
    /\ saved = <<>>
    /\ stage = "arrived"
    /\ spec = req
    /\ applied = {} /\ pool = None /\ prob = None /\ tour = <<>>
    /\ hours_now = None

(* Mutant: plan_trip does not extend its list of used places.              *)
MutAnswerForgetsUsed(code) ==
    /\ days_out' = Append(days_out, [code |-> code,
                                     pois |-> IF code = "OK" THEN PoisOf(tour) ELSE {}])
    /\ stage' = "day"
    /\ spec' = req /\ applied' = {} /\ pool' = None /\ prob' = None /\ tour' = <<>>
    /\ hours_now' = None
    /\ UNCHANGED <<req, rain, used, saved, table>>

(* The day's entry is appended to the answer, the pipeline's locals die.   *)
Answer(code) ==
    /\ days_out' = Append(days_out, [code |-> code,
                                     pois |-> IF code = "OK" THEN PoisOf(tour) ELSE {}])
    /\ used' = IF code = "OK" THEN used \cup PoisOf(tour) ELSE used
    /\ stage' = "day"
    /\ spec' = req /\ applied' = {} /\ pool' = None /\ prob' = None /\ tour' = <<>>
    /\ hours_now' = None
    /\ UNCHANGED <<req, rain, saved, table>>

(* get_windows: one forecast request for the whole trip. A failed fetch    *)
(* reads as no rain.                                                       *)
FetchWeather ==
    /\ stage = "arrived"
    /\ rain' \in [1..req.days -> BOOLEAN]
    /\ stage' = "day"
    /\ UNCHANGED <<req, used, days_out, saved, local, table>>

DaySpec == [req EXCEPT !.date = @ + Len(days_out), !.days = 1, !.avoid = used]

StartDay ==
    /\ stage = "day" /\ Len(days_out) < req.days
    /\ SemanticErrors(DaySpec) = {}
    /\ spec' = DaySpec
    /\ pool' = [found |-> <<>>, hours |-> <<>>]
    /\ stage' = "search"
    /\ UNCHANGED <<trip, saved, applied, prob, tour, hours_now, table>>

RefuseSemantics ==
    /\ stage = "day" /\ Len(days_out) < req.days
    /\ SemanticErrors(DaySpec) # {}
    /\ Answer("SEMANTIC_INVALID")

(* search_pois for one category. The widened search, run only when the     *)
(* first finds nothing, passes neither the exclusions nor the budget.      *)
SearchHit(p, c, radius, minute) ==
    /\ c \in Place[p].cats
    /\ Place[p].km <= radius
    /\ ~ hours[p].hard \/ OpenAt(hours[p], minute)

SearchCategory(c) ==
    LET near == {p \in Poi : /\ SearchHit(p, c, SEARCH_RADIUS_KM, spec.start)
                             /\ p \notin spec.avoid
                             /\ WithinBudget(Place[p].unit, spec)}
        wide == {p \in Poi : SearchHit(p, c, WIDENED_RADIUS_KM, spec.start)}
    IN IF near # {} THEN near ELSE wide

(* One query, awaited, per category: the hours table may change between    *)
(* them.                                                                   *)
Searched == DOMAIN pool.found

Search ==
    /\ stage = "search"
    /\ \E c \in Wanted(spec) \ Searched :
         /\ pool' = [found |-> [x \in Searched \cup {c} |->
                                  IF x = c THEN SearchCategory(c) ELSE pool.found[x]],
                     hours |-> [x \in Searched \cup {c} |->
                                  IF x = c THEN hours ELSE pool.hours[x]]]
         /\ stage' = IF Wanted(spec) \subseteq Searched \cup {c} THEN "precheck" ELSE stage
    /\ UNCHANGED <<trip, saved, spec, applied, prob, tour, hours_now, table>>

(* The pre-check, and if it fails the automatic relaxations, all applied,  *)
(* and the check again over the same search results.                       *)
DayViolations(s) == Violated(s, pool.found, pool.hours, rain[Day])
AutoSteps == IF DayViolations(spec) = {} THEN {}
             ELSE AutoRelaxations(spec, DayViolations(spec))
Relaxed == Relax(spec, AutoSteps)

PassPrecheck ==
    /\ stage = "precheck"
    /\ WellFormed(Relaxed)
    /\ DayViolations(Relaxed) = {}
    /\ spec' = Relaxed
    /\ applied' = AutoSteps
    /\ stage' = "rank"
    /\ UNCHANGED <<trip, saved, pool, prob, tour, hours_now, table>>

RefuseInfeasible ==
    /\ stage = "precheck"
    /\ WellFormed(Relaxed)
    /\ DayViolations(Relaxed) # {}
    /\ Answer("INFEASIBLE")

(* _unique_candidates: a place found for several categories is kept for    *)
(* the one with the fewest candidates.                                     *)
Flat == UNION {pool.found[c] : c \in Searched}
Matchings ==
    {m \in [Flat -> Searched] :
        \A p \in Flat :
            /\ p \in pool.found[m[p]]
            /\ \A c \in Searched :
                  p \in pool.found[c]
                      => Cardinality(pool.found[m[p]]) <= Cardinality(pool.found[c])}
HoursSeen(m) == [p \in Flat |-> pool.hours[m[p]][p]]

RefuseNoCandidates ==
    /\ stage = "rank" /\ Flat = {}
    /\ Answer("NO_CANDIDATES")

(* PinUnavailableError carries the code it inherits.                       *)
RefusePin ==
    /\ stage = "rank" /\ Flat # {} /\ ~ spec.require \subseteq Flat
    /\ Answer("PLANNING_FAILED")

(* rank keeps the best CandidateLimit places; _ensure_required puts the    *)
(* pins it had cut in front and cuts as many of the weakest.               *)
Rank ==
    /\ stage = "rank" /\ Flat # {} /\ spec.require \subseteq Flat
    /\ \E ranked \in kSubset(Smaller(CandidateLimit, Cardinality(Flat)), Flat),
          m \in Matchings :
         LET missing == spec.require \ ranked IN
         \E weakest \in kSubset(Smaller(Cardinality(missing), Cardinality(ranked)), ranked) :
            prob' = [spec |-> spec, cand |-> missing \cup (ranked \ weakest),
                     pinned |-> missing, cat |-> m, hours |-> HoursSeen(m)]
    /\ stage' = "arcs"
    /\ UNCHANGED <<trip, saved, spec, applied, pool, tour, hours_now, table>>

BuildArcs ==
    /\ stage = "arcs"
    /\ stage' = "optimize"
    /\ UNCHANGED <<trip, saved, local, table>>

(* Mutant: an unavailable router is retried from the search on.            *)
MutRefuseRoutingRetries ==
    /\ stage = "arcs"
    /\ stage' = "search"
    /\ pool' = [found |-> <<>>, hours |-> <<>>] /\ prob' = None
    /\ UNCHANGED <<trip, saved, spec, applied, tour, hours_now, table>>

RefuseRouting ==
    /\ stage = "arcs"
    /\ Answer("ROUTING_UNAVAILABLE")

(* With time to finish the solver returns an optimum; cut short it returns *)
(* any solution it has, or none (status UNKNOWN).                          *)
Returned == LET all == Solutions(prob) IN IF SolverProves THEN Optimal(all, prob) ELSE all

Optimize ==
    /\ stage = "optimize"
    /\ tour' \in Returned \ {<<>>}
    /\ stage' = "recheck"
    /\ UNCHANGED <<trip, saved, spec, applied, pool, prob, hours_now, table>>

RefuseUnsolved ==
    /\ stage = "optimize"
    /\ SolverProves => Returned \subseteq {<<>>}
    /\ Answer("INFEASIBLE")

(* _hours_for_stops reads the table again; a travel time is then fetched   *)
(* for every leg before the validator runs, so the table may change before *)
(* what was read is used.                                                  *)
ReadHours ==
    /\ stage = "recheck"
    /\ hours_now' = hours
    /\ stage' = "validate"
    /\ UNCHANGED <<trip, saved, spec, applied, pool, prob, tour, table>>

(* Mutant: the hours that came with the candidates are trusted.            *)
MutFactsTrustSearch(drifts) ==
    [k \in DOMAIN tour |->
        [poi |-> tour[k].poi, cat |-> prob.cat[tour[k].poi],
         arrive |-> tour[k].arrive, depart |-> tour[k].depart,
         cost |-> VisitCost(tour[k].poi, spec), hours |-> prob.hours[tour[k].poi],
         drifts |-> drifts, walk |-> Arc[Leg(tour, k)].walk,
         legCost |-> Arc[Leg(tour, k)].cost]]

(* What the validator is told: the hours read again, the legs of the arc   *)
(* grid, and a refetched travel time that agrees (or is unavailable) or    *)
(* drifts.                                                                 *)
Facts(drifts) ==
    [k \in DOMAIN tour |->
        [poi |-> tour[k].poi, cat |-> prob.cat[tour[k].poi],
         arrive |-> tour[k].arrive, depart |-> tour[k].depart,
         cost |-> VisitCost(tour[k].poi, spec), hours |-> hours_now[tour[k].poi],
         drifts |-> drifts, walk |-> Arc[Leg(tour, k)].walk,
         legCost |-> Arc[Leg(tour, k)].cost]]

Declared == IF "drop_nice" \in applied
            THEN {i.cat : i \in {j \in req.interests : j.prio = "nice"}} ELSE {}

Report(drifts) == Findings(Facts(drifts), spec, rain[Day], Declared)

Validate ==
    /\ stage = "validate"
    /\ \E drifts \in BOOLEAN : Report(drifts) = {}
    /\ stage' = "persist"
    /\ UNCHANGED <<trip, saved, local, table>>

RefuseInvalid ==
    /\ stage = "validate"
    /\ \E drifts \in BOOLEAN : Report(drifts) # {}
    /\ Answer("VALIDATION_FAILED")

(* Mutant: the commit is retried although it went through.                 *)
MutPersistTwice ==
    /\ stage = "persist"
    /\ LET row == [day |-> Day, tour |-> tour, cat |-> prob.cat]
       IN saved' = saved \o <<row, row>>
    /\ stage' = "report"
    /\ UNCHANGED <<trip, local, table>>

(* _persist: spec, itinerary, version, stops and snapshot in one commit.   *)
Persist ==
    /\ stage = "persist"
    /\ saved' = Append(saved, [day |-> Day, tour |-> tour, cat |-> prob.cat])
    /\ stage' = "report"
    /\ UNCHANGED <<trip, local, table>>

ReportDay == stage = "report" /\ Answer("OK")

Finish ==
    /\ stage = "day" /\ Len(days_out) = req.days
    /\ stage' = "done"
    /\ UNCHANGED <<trip, saved, local, table>>

(* A database error, an exception plan_trip does not catch, or a crash.    *)
(* The entries of the days so far are a local of plan_trip, returned at    *)
(* its end only: they die with it, what was committed stays.               *)
Abort ==
    /\ stage \in Running
    /\ days_out' = <<>>
    /\ stage' = "aborted"
    /\ UNCHANGED <<req, rain, used, saved, local, table>>

(* parse_hours.py: TRUNCATE and insert in one transaction.                 *)
ReloadHours ==
    /\ stage \in Running /\ reloads < MaxReloads
    /\ hours' \in HoursTables \ {hours}
    /\ reloads' = reloads + 1
    /\ UNCHANGED <<trip, saved, stage, local>>

Handler ==
    \/ FetchWeather \/ StartDay \/ RefuseSemantics \/ Search
    \/ PassPrecheck \/ RefuseInfeasible \/ RefuseNoCandidates \/ RefusePin
    \/ Rank \/ BuildArcs \/ RefuseRouting \/ Optimize \/ RefuseUnsolved
    \/ ReadHours \/ Validate \/ RefuseInvalid \/ Persist \/ ReportDay \/ Finish

Next == Handler \/ Abort \/ ReloadHours

Spec == Init /\ [][Next]_vars

(* Every await of the handler is bounded: httpx and solver time limits,    *)
(* and database statements that return or raise.                           *)
FairSpec == Spec /\ WF_vars(Handler)
=============================================================================
