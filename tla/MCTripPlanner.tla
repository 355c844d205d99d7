---------------------------- MODULE MCTripPlanner ----------------------------
(***************************************************************************)
(* Small instances of TripPlanner. World A has a park near the origin,     *)
(* two places beyond the first search radius, and a cafe that is also a    *)
(* park; arcs are symmetric and take about half an hour: a walk to p1, a    *)
(* ride to p2, a longer ride to p3.                                        *)
(***************************************************************************)
EXTENDS TripProperties, TLC

CONSTANTS p1, p2, p3, o

P(cats, meal, indoor, km, unit, score) ==
    [cats |-> cats, meal |-> meal, indoor |-> indoor, km |-> km,
     unit |-> unit, visit |-> 30, score |-> score]

PlaceA == p1 :> P({"park"}, FALSE, FALSE, 2, 0, 60)
       @@ p2 :> P({"park", "cafe"}, TRUE, TRUE, 6, 40, 80)
       @@ p3 :> P({"park"}, FALSE, TRUE, 12, 100, 40)

DefaultVisitA == [c \in {"park", "cafe", "lake"} |-> 45]

Walk == [dur |-> 1830, cost |-> 0, walk |-> 14004]
Ride == [dur |-> 1859, cost |-> 20, walk |-> 0]
Far  == [dur |-> 1859, cost |-> 50, walk |-> 0]
NodesA == {p1, p2, p3, o}
ArcA == [e \in {x \in NodesA \X NodesA : x[1] # x[2]} |->
            CASE p3 \in {e[1], e[2]} -> Far
              [] {p1, o} = {e[1], e[2]} -> Walk
              [] OTHER -> Ride]

H(open, close, hard) == [open |-> open, close |-> close, hard |-> hard]
AllDay == H(0, 1440, FALSE)
HoursA == {[p \in {p1, p2, p3} |-> AllDay],
           p1 :> H(600, 690, TRUE) @@ p2 :> H(660, 840, TRUE) @@ p3 :> AllDay}

I(c, n, p) == [cat |-> c, count |-> n, prio |-> p]

Ask == [date |-> 0, days |-> 1, start |-> 600, end |-> 720, budget |-> Unlimited,
        party |-> 1, vehicle |-> TRUE, maxWalk |-> 3000, meal |-> FALSE,
        mode |-> "balanced", interests |-> {I("park", 1, "must")}, avoid |-> {},
        avoidCats |-> {}, require |-> {}]

RequestsA ==
    {[Ask EXCEPT !.days = 2, !.avoid = a, !.date = d] : a \in {{}, {p1}}, d \in {-1, 0}}
    \cup
    {[Ask EXCEPT !.days = 2, !.require = {p3}]}
    \cup
    {[Ask EXCEPT !.interests = {I("lake", 1, "should")}]}
    \cup
    {[Ask EXCEPT !.budget = b, !.interests = i] :
        b \in {20, 70, 100},
        i \in {{I("park", 2, "must"), I("cafe", 1, "nice")},
               {I("park", 2, "should"), I("cafe", 1, "must")},
               {I("park", 1, "nice")}}}
    \cup
    {[Ask EXCEPT !.meal = TRUE, !.start = 690, !.end = 840, !.budget = b, !.party = 2,
                 !.avoidCats = {"park"}, !.interests = {I("cafe", 1, "should")}] :
        b \in {40, 150}}
=============================================================================
