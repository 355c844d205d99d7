--------------------------- MODULE MCDraftBuilder ---------------------------
(***************************************************************************)
(* Instances of DraftBuilder: a gazetteer with two suburbs of one name, a  *)
(* park whose name a neighbourhood nearly has, one hill entered twice, a   *)
(* suburb and a village that share a name, a town outside the region.      *)
(***************************************************************************)
EXTENDS DraftBuilder, TLC

Entry(name, kind, sim, exact, km, at) ==
  [name |-> name, kind |-> kind, sim |-> sim, exact |-> exact, km |-> km,
   lat |-> at, lon |-> 0, inside |-> km < 60]

Places ==
  "indiranagar" :> << Entry("indiranagar", "suburb", 1000, TRUE, 5, 10),
                      Entry("indiranagar", "suburb", 1000, TRUE, 14, 40) >>
  @@ "cubbon park" :> << Entry("cubbonpet", "neighbourhood", 500, FALSE, 2, 5),
                         Entry("cubbon park", "poi", 1000, TRUE, 1, 0) >>
  @@ "nandi hills" :> << Entry("nandi hill", "locality", 900, FALSE, 45, 100),
                         Entry("nandi hills", "locality", 1000, FALSE, 45, 101) >>
  @@ "koramangala" :> << Entry("koramangala", "village", 1000, TRUE, 45, 90),
                         Entry("koramangala", "suburb", 1000, TRUE, 6, 12) >>
  @@ "mysuru" :> << Entry("mysuru", "city", 1000, TRUE, 130, 300) >>
  @@ "nowhere" :> <<>>

Plain == [origin |-> "cubbon park", destination |-> None, interests |-> "some",
          date |-> None, start |-> None, end |-> None, wordy |-> FALSE, strolls |-> FALSE]

Ahead(n) == [kind |-> "ahead", n |-> n]
Days == {None, Unclear, Ahead(-1), Ahead(0), Ahead(1)}
        \cup [kind : {"weekday", "next"}, n : {0, 3, 6}]

Said ==
  {[Plain EXCEPT !.origin = o, !.destination = d, !.interests = i] :
     o \in Name \cup {None}, d \in {None, "indiranagar", "nandi hills", "mysuru"}, i \in {"none", "some"}}
  \cup {[Plain EXCEPT !.date = d, !.start = s, !.end = e] :
          d \in Days, s \in {None, Garbled, 600, 1275, 5999}, e \in {None, Garbled, 1080}}
  \cup {[Plain EXCEPT !.interests = i, !.wordy = w, !.strolls = TRUE] :
          i \in {"some", "many"}, w \in BOOLEAN}
=============================================================================
