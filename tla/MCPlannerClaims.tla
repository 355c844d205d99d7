--------------------------- MODULE MCPlannerClaims ---------------------------
(***************************************************************************)
(* Instances of TripPlanner for the claims its documentation makes and its *)
(* code breaks. Three parks and one cafe lie within the first search       *)
(* radius; the cafe is an hour from everything, the parks half an hour.    *)
(***************************************************************************)
EXTENDS TripProperties, TLC

CONSTANTS p1, p2, p3, k1, o

Park(score) == [cats |-> {"park"}, meal |-> FALSE, indoor |-> FALSE, km |-> 3,
                unit |-> 0, visit |-> 30, score |-> score]
Cafe == [cats |-> {"cafe"}, meal |-> TRUE, indoor |-> TRUE, km |-> 5,
         unit |-> 50, visit |-> 30, score |-> 10]

PlaceB == p1 :> Park(80) @@ p2 :> Park(80) @@ p3 :> Park(70) @@ k1 :> Cafe
DefaultVisitB == [c \in {"park", "cafe"} |-> 45]

NodesB == {p1, p2, p3, k1, o}
ArcB == [e \in {x \in NodesB \X NodesB : x[1] # x[2]} |->
            IF k1 \in {e[1], e[2]} THEN [dur |-> 3600, cost |-> 60, walk |-> 0]
            ELSE [dur |-> 1800, cost |-> 0, walk |-> 9000]]

(* The category default of the cafes: from noon, not verified.             *)
HoursB == {[p \in {p1, p2, p3, k1} |->
              [open |-> IF p = k1 THEN 720 ELSE 0, close |-> 1440, hard |-> FALSE]]}

I(c, n, p) == [cat |-> c, count |-> n, prio |-> p]

Ask == [date |-> 0, days |-> 1, start |-> 600, end |-> 720, budget |-> Unlimited,
        party |-> 1, vehicle |-> TRUE, maxWalk |-> 5000, meal |-> FALSE,
        mode |-> "balanced", interests |-> {I("park", 2, "should")}, avoid |-> {},
        avoidCats |-> {}, require |-> {}]

(* Two pins; the ranker has room for two of the three parks.               *)
PinRequests == {[Ask EXCEPT !.require = {p1, p3}]}
=============================================================================
