---------------------------- MODULE MCCatalogue -----------------------------
(***************************************************************************)
(* Instances of Catalogue: a lake mapped twice, a garden and a nursing     *)
(* home of nearly one name, and tags of every form the parser knows and of *)
(* some it does not, one and two rules long.                               *)
(***************************************************************************)
EXTENDS Catalogue, TLC

\* Tags. The times are in hours.
T(from, to) == [from |-> 60 * from, to |-> 60 * to]
Open(spans, times) == [spans |-> spans, off |-> FALSE, times |-> times, kind |-> "read"]
DayOff(spans) == [Open(spans, <<>>) EXCEPT !.off = TRUE]
Kind(k, rule) == [rule EXCEPT !.kind = k]

Weekend == {<<4, 0>>}
Day == Open({}, <<T(9, 17)>>)
Night == Open({}, <<T(18, 2), T(0, 3)>>)
SomeNights == Open({<<6, 6>>, <<1, 2>>}, <<T(18, 2)>>)
Tags == <<<<Open({}, <<>>)>>, <<DayOff({})>>, <<Open({}, <<T(18, 26)>>)>>,
          <<Open({}, <<T(0, 0)>>), Open({<<2, 2>>}, <<T(24, 1)>>)>>,
          <<Open({<<0, 4>>}, <<T(9, 12), T(14, 24)>>), DayOff(Weekend)>>,
          <<Night, DayOff({<<6, 6>>})>>, <<DayOff({<<4, 6>>}), SomeNights>>,
          <<Open(Weekend, <<T(9, 17)>>), SomeNights>>, <<Day, Open(Weekend, <<T(9, 12)>>)>>,
          <<Night, Open(Weekend, <<T(12, 14)>>)>>,
          <<Kind("other", Night), Open(Weekend, <<T(9, 17)>>)>>,
          <<SomeNights, Kind("other", Open({}, <<>>))>>,
          <<Day, Kind("partly", Open(Weekend, <<T(14, 17)>>))>>>>

\* One moment between any two times the tags name, and the first of each.
HoursOfDay == {60 * h : h \in {0, 1, 2, 3, 9, 12, 14, 17, 18}}

Defaults == [c \in {"lake", "park", "clinic"} |-> [open |-> 360, close |-> 1080]]

Rec(ref, name, spot, tag, qid, oh) ==
  [ref |-> ref, name |-> name, nameEn |-> None, spot |-> spot, tags |-> <<tag>>,
   qid |-> qid, hours |-> oh]

Lake   == Rec(1, "Ulsoor Lake", 0, "water=lake", "Q1", NoTag)
Lake2  == Rec(2, "Ulsoor  lake", 100, "tourism=attraction", None, Always)
Lake3  == [Rec(3, None, 500, "water=lake", None, NoTag) EXCEPT !.nameEn = "Ulsoor Lake"]
Garden == Rec(4, "Lalbagh Garden", 900, "leisure=park", None, <<Open({}, <<T(6, 19)>>)>>)
Clinic == [Rec(5, "Lalbagh Clinic", 950, "amenity=clinic", None, NoTag)
             EXCEPT !.tags = <<"tourism=attraction", "amenity=clinic">>]
Walk   == Rec(6, "Lake Walk", 700, "leisure=park", "Q1", NoTag)

\* Gardens a kilometre apart, one for each tag.
Gardens == [k \in DOMAIN Tags |->
              [Garden EXCEPT !.ref = 6 + k, !.spot = 1000 * k, !.hours = Tags[k]]]

Files == {Gardens, <<Lake, Lake2, Walk, Garden>>,
           <<Lake2, [Lake EXCEPT !.spot = 60], Clinic, Lake3>>}

R(primary, secondary, named) == [primary |-> primary, secondary |-> secondary, named |-> named]
MapA == [drop |-> {"amenity=clinic"},
         rules |-> "water=lake" :> R("lake", {}, TRUE)
                   @@ "leisure=park" :> R("park", {"lake"}, FALSE)
                   @@ "tourism=attraction" :> R("lake", {"park"}, FALSE)]
MapB == [drop |-> {},
         rules |-> "water=lake" :> R("lake", {"park"}, FALSE)
                   @@ "leisure=park" :> R("park", {}, FALSE)
                   @@ "amenity=clinic" :> R("clinic", {}, FALSE)]

Normals == "Ulsoor Lake" :> "ulsoor lake" @@ "Ulsoor  lake" :> "ulsoor lake"
           @@ "Lalbagh Garden" :> "lalbagh garden" @@ "Lalbagh Clinic" :> "lalbagh clinic"
           @@ "Lake Walk" :> "lake walk"
Words == "ulsoor lake" :> {"ulsoor", "lake"} @@ "lalbagh garden" :> {"lalbagh", "garden"}
         @@ "lalbagh clinic" :> {"lalbagh", "clinic"} @@ "lake walk" :> {"lake", "walk"}

Label(words, head, ulsoor, garden, clinic, walk) ==
  [words |-> words, head |-> head,
   sim |-> "ulsoor lake" :> ulsoor @@ "lalbagh garden" :> garden
           @@ "lalbagh clinic" :> clinic @@ "lake walk" :> walk]
Thing(qid, labels, spot, sitelinks, found) ==
  [qid |-> qid, labels |-> labels, spot |-> spot, sitelinks |-> sitelinks, found |-> found]

TheLake == Thing("Q1", {Label({"ulsoor", "lake"}, {"ulsoor", "lake"}, 100, 0, 0, 30)}, 50, 9, TRUE)
TheArea == Thing("Q2", {Label({"ulsoor"}, {"ulsoor"}, 60, 0, 0, 0)}, 10, 40, TRUE)
Shore   == Thing("Q3", {Label({"ulsoor", "lake", "shore"}, {"ulsoor", "lake", "shore"},
                              70, 0, 0, 65)}, 300, 3, TRUE)
Botany  == Thing("Q4", {Label({"lalbagh", "garden"}, {"lalbagh", "garden"}, 0, 100, 50, 0)},
                 940, 9, TRUE)
Glass   == Thing("Q5", {Label({"lalbagh", "house"}, {"lalbagh", "house"}, 0, 55, 55, 0)},
                 920, 2, FALSE)
News == {<<TheLake, TheArea, Botany>>, <<Shore, TheLake, Glass>>}

Maps == {MapA, MapB}

Ranks == "clinic" :> 1 @@ "lake" :> 2 @@ "park" :> 3
Types == {"lake", "garden", "clinic"}
Areas == {"nagar", "station"}
=============================================================================
