------------------------------ MODULE Resolver ------------------------------
(***************************************************************************)
(* A place name becomes coordinates (services/places/resolver.py): what    *)
(* resolve_place makes of the rows its two queries return. The queries     *)
(* themselves - trigram similarities of the gazetteer and of the POIs - are *)
(* a parameter. Scores and similarities are thousandths, positions units   *)
(* of SAME_PLACE_DEGREES / 2, distances kilometres; inside says that a     *)
(* position is in the region a TripSpec accepts.                           *)
(***************************************************************************)
EXTENDS Integers, Sequences, FiniteSets, FiniteSetsExt

Kind == {"suburb", "neighbourhood", "city", "locality", "village", "poi"}
Row == [name : STRING, kind : Kind, sim : 350..1000, exact : BOOLEAN,
        km : Nat, lat : Int, lon : Int, inside : BOOLEAN]

MAX_USEFUL_DISTANCE_KM == 60
HIGH_CONFIDENCE_GAP == 300
MEDIUM_CONFIDENCE_GAP == 150
SAME_PLACE == 2
SHOWN == 3

Bonus(kind) ==
  CASE kind = "suburb" -> 300 [] kind = "neighbourhood" -> 250
    [] kind = "city" -> 200   [] kind = "poi" -> 200
    [] kind = "locality" -> 50 [] OTHER -> 0

\* _score.
Score(r) ==
  r.sim + Bonus(r.kind)
  + (200 * Max({0, MAX_USEFUL_DISTANCE_KM - r.km})) \div MAX_USEFUL_DISTANCE_KM
  + (IF r.exact THEN 250 ELSE 0)

Gap(x, y) == IF x > y THEN x - y ELSE y - x

\* Mutant: a place is its exact position.
MutIsDistinctExact(a, b) == a.lat # b.lat \/ a.lon # b.lon

\* _is_distinct.
IsDistinct(a, b) == Gap(a.lat, b.lat) > SAME_PLACE \/ Gap(a.lon, b.lon) > SAME_PLACE

Confidence(gap) ==
  CASE gap >= HIGH_CONFIDENCE_GAP -> "high"
    [] gap >= MEDIUM_CONFIDENCE_GAP -> "medium"
    [] OTHER -> "low"

\* Best first; Python's sort is stable, so a tie goes to the earlier row (the
\* places come before the POIs).
Precedes(rows, i, j) ==
  \/ Score(rows[i]) > Score(rows[j])
  \/ Score(rows[i]) = Score(rows[j]) /\ i < j

Foremost(rows, s) == CHOOSE i \in s : \A j \in s \ {i} : Precedes(rows, i, j)

Nowhere == [match |-> <<>>, alternatives |-> {}, confidence |-> "none"]

\* resolve_place; match is a sequence of at most one row, and the alternatives
\* are those a question shows.
Resolve(rows) ==
  IF rows = <<>> THEN Nowhere
  ELSE LET best == Foremost(rows, DOMAIN rows)
           distinct == {i \in DOMAIN rows : IsDistinct(rows[best], rows[i])}
           gap == IF distinct = {} THEN 1000
                  ELSE Score(rows[best]) - Score(rows[Foremost(rows, distinct)])
           shown == {i \in distinct : Cardinality({j \in distinct : Precedes(rows, j, i)}) < SHOWN}
       IN [match |-> <<rows[best]>>, alternatives |-> {rows[i] : i \in shown},
           confidence |-> Confidence(gap)]

NeedsClarification(r) == r.confidence \in {"none", "low"}
=============================================================================
