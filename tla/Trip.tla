-------------------------------- MODULE Trip --------------------------------
(***************************************************************************)
(* What a trip request promises, with nothing of how it is computed: days  *)
(* are planned one at a time, each as a non-empty set of places that       *)
(* avoids the request's exclusions and every place of the days before it;  *)
(* days may fail; a planned day stays planned; the request is eventually   *)
(* closed, by an answer or by a failure.                                   *)
(***************************************************************************)
EXTENDS Naturals, Sequences

CONSTANT Poi

VARIABLES avoid, days, plans, open

vars == <<avoid, days, plans, open>>

Init ==
    /\ avoid \subseteq Poi
    /\ days \in 1..7
    /\ plans = <<>>
    /\ open = TRUE

Taken == avoid \cup UNION {plans[d] : d \in DOMAIN plans}

PlanDay(places) ==
    /\ open
    /\ Len(plans) < days
    /\ places # {} /\ places \cap Taken = {}
    /\ plans' = Append(plans, places)
    /\ UNCHANGED <<avoid, days, open>>

Close ==
    /\ open
    /\ open' = FALSE
    /\ UNCHANGED <<avoid, days, plans>>

Next == Close \/ \E places \in SUBSET Poi : PlanDay(places)

Spec == Init /\ [][Next]_vars
FairSpec == Spec /\ WF_vars(Next)
=============================================================================
