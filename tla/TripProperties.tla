--------------------------- MODULE TripProperties ---------------------------
(***************************************************************************)
(* What a trip request promises, stated over TripPlanner.                  *)
(***************************************************************************)
EXTENDS TripPlanner

Planned == {d \in DOMAIN days_out : days_out[d].code = "OK"}

(* Every variable holds a value of its kind.                               *)
Matching == UNION {[S -> Category] : S \in SUBSET Poi}

TypeOK ==
    /\ req \in Requests
    /\ hours \in HoursTables
    /\ reloads \in 0..MaxReloads
    /\ used \subseteq Poi
    /\ days_out \in Seq([code : Codes, pois : SUBSET Poi])
    /\ Len(days_out) <= req.days
    /\ saved \in Seq([day : 1..7, tour : Seq(Stop), cat : Matching])
    /\ stage \in Stages
    /\ stage \in {"arrived", "day", "aborted"} \/ Len(days_out) < req.days \/ stage = "done"
    /\ spec \in TripSpec
    /\ applied \subseteq {"drop_nice", "reduce_should_counts", "widen_radius"}
    /\ stage \in {"search", "precheck", "rank"} =>
          /\ DOMAIN pool.found \subseteq Category
          /\ \A c \in DOMAIN pool.found : pool.found[c] \subseteq Poi
    /\ stage \in {"arcs", "optimize", "recheck", "validate", "persist", "report"} =>
          prob.spec = spec /\ prob.cand \subseteq Poi /\ prob.cat \in Matching
    /\ tour \in Seq(Stop)
    /\ stage \in {"validate", "persist", "report"} => hours_now \in HoursTables

(* "No POI repeated across days" (plan_trip, schemas/tripspec.py): no      *)
(* place is in two committed days of one trip, reported or not, although   *)
(* the widened search forgets the places already used.                     *)
NoPoiRepeated ==
    \A i, j \in DOMAIN saved :
        i # j => PoisOf(saved[i].tour) \cap PoisOf(saved[j].tour) = {}

(* What is committed is what the user asked for, not what a relaxation or  *)
(* a widened search made of it: nothing avoided, every MUST met, the       *)
(* delivered cost (the return leg apart) in budget.                        *)
DeliveredCost(t) ==
    MapThenSumSet(LAMBDA p : VisitCost(p, req), PoisOf(t))
    + MapThenSumSet(LAMBDA e : Arc[e].cost, Legs(t))

SavedHonoursRequest ==
    \A d \in DOMAIN saved :
        LET t == saved[d].tour IN
        /\ PoisOf(t) \cap req.avoid = {}
        /\ \A k \in DOMAIN t : saved[d].cat[t[k].poi] \notin req.avoidCats
        /\ \A i \in Musts(req) : Cardinality({k \in DOMAIN t :
                saved[d].cat[t[k].poi] = i.cat}) >= i.count
        /\ WithinBudget(DeliveredCost(t), req)

(* The traveller can keep the timetable: each leg fits between the stops   *)
(* it joins, up to the whole-minute rounding of the arcs, inside the       *)
(* window. The validator never checks this; only the solver's propagation  *)
(* does.                                                                   *)
TimetableCanBeKept ==
    \A d \in DOMAIN saved :
        LET t == saved[d].tour IN
        \A k \in DOMAIN t :
            LET left == IF k = 1 THEN req.start ELSE t[k - 1].depart IN
            /\ 60 * (t[k].arrive - left) + 59 >= Arc[Leg(t, k)].dur
            /\ left < t[k].arrive /\ t[k].depart <= req.end

(* The answer and the database agree. A day is called planned only after   *)
(* its itinerary was committed, with the same places; while the trip runs, *)
(* and in the answer it ends with, no commit but the one being reported    *)
(* goes untold; and an answer speaks of every day. A trip that is cut      *)
(* short gives no answer: then all its commits stay without one.           *)
SavedIsReported ==
    /\ \A d \in Planned : \E s \in DOMAIN saved :
          saved[s].day = d /\ PoisOf(saved[s].tour) = days_out[d].pois
    /\ stage \notin {"report", "aborted"} => Len(saved) = Cardinality(Planned)
    /\ stage = "report" => Len(saved) = Cardinality(Planned) + 1
    /\ stage = "done" => Len(days_out) = req.days

(* The ladder cannot empty a request: whatever it drops automatically, the *)
(* relaxed TripSpec still passes the schema that apply_relaxation runs it  *)
(* through (an error there is caught by nobody). It holds because a        *)
(* request without MUSTs passes the check: the semantic floor is above the *)
(* single leg the engine charges it.                                       *)
RelaxationStaysWellFormed == stage = "precheck" => WellFormed(Relaxed)

(* No request is ever planned relaxed, relaxations_applied is always       *)
(* empty: the automatic relaxations touch only interests the check does    *)
(* not read, so a failed check fails again.                                *)
NothingPlannedRelaxed == applied = {}

(* Two independent implementations: the validator never finds fault with   *)
(* what the solver constrains (budget, timeline, hours as the search saw   *)
(* them).                                                                  *)
ValidatorAgreesWithSolver ==
    stage = "validate" =>
        /\ Report(FALSE) \cap {"BUDGET_EXCEEDED", "TIMELINE_INVALID"} = {}
        /\ "VENUE_CLOSED" \in Report(FALSE) =>
              \E p \in PoisOf(tour) : hours_now[p] # prob.hours[p]

(* Hours are checked as they were read after solving, not as they were     *)
(* when the place was found: a plan about to be committed, or just         *)
(* committed, visits a place outside its known hours only if these were    *)
(* reloaded after the validator's reading of them.                         *)
OutsideHours(k) ==
    LET h == hours[tour[k].poi] IN
    h.hard /\ ~ (h.open <= tour[k].arrive /\ tour[k].depart <= h.close)

StaleOnlyAfterReading ==
    stage \in {"persist", "report"} =>
        \A k \in DOMAIN tour :
            OutsideHours(k) => hours[tour[k].poi] # hours_now[tour[k].poi]

(* Committed days are never taken back, nor, short of an abort, what the   *)
(* answer says already, and a day's commit comes before the next day is    *)
(* started.                                                                *)
HistoryOnlyGrows ==
    [][/\ Len(saved') >= Len(saved) /\ SubSeq(saved', 1, Len(saved)) = saved
       /\ stage' # "aborted" =>
             Len(days_out') >= Len(days_out) /\ SubSeq(days_out', 1, Len(days_out)) = days_out
       /\ saved' # saved => Len(days_out) = saved'[Len(saved')].day - 1]_vars

(* The whole pipeline, seen from outside, is the abstract trip: a committed*)
(* day is a planned day, refusals and everything in between are stutters.  *)
Abstract == INSTANCE Trip WITH
    avoid <- req.avoid, days <- req.days, open <- stage \in Running,
    plans <- [d \in DOMAIN saved |-> PoisOf(saved[d].tour)]

ImplementsTrip == Abstract!FairSpec

(* Every request is answered or fails; no day loops.                       *)
EventuallyAnswered == <>(stage \in {"done", "aborted"})

----------------------------------------------------------------------------
(* A property the documentation states and the code breaks.                *)

(* ADR-018: a chosen place is in the plan or the user is told why not.     *)
PinNeverDropped == \A d \in DOMAIN saved : req.require \subseteq PoisOf(saved[d].tour)
=============================================================================
