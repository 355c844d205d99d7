----------------------------- MODULE MCMultiModal -----------------------------
(***************************************************************************)
(* Three points: a walk of 900 m, one of 1800 m that a car drives round,   *)
(* a distance only a car covers, one-way streets, and a second map on      *)
(* which a road was built and a footpath closed.                           *)
(***************************************************************************)
EXTENDS MultiModal, TLC

CONSTANTS o, a, b

R(dur, dist) == [dur |-> dur, dist |-> dist]

RoadA == <<o, a>> :> R(420, 2300) @@ <<a, o>> :> R(610, 3100)
      @@ <<a, b>> :> R(240, 1200) @@ <<b, a>> :> None
      @@ <<o, b>> :> R(1500, 9000) @@ <<b, o>> :> R(1440, 8700)
FootA == <<o, a>> :> R(1300, 1800) @@ <<a, o>> :> R(1300, 1800)
      @@ <<a, b>> :> R(650, 900) @@ <<b, a>> :> R(650, 900)
      @@ <<o, b>> :> R(6500, 9000) @@ <<b, o>> :> None

RoadB == (<<b, a>> :> R(300, 1500)) @@ RoadA
FootB == (<<a, b>> :> None) @@ (<<o, a>> :> R(1500, 2050)) @@ FootA

MapA == [road |-> RoadA, foot |-> FootA]
MapB == [road |-> RoadB, foot |-> FootB]
BothMaps == {MapA, MapB}

AreaA == [e \in Pairs |-> IF e \in {<<o, a>>, <<a, o>>} THEN "core"
                          ELSE IF e \in {<<a, b>>, <<b, a>>} THEN "ring" ELSE "outer"]

Ask(modes, walks, minutes) ==
  [modes : modes, maxWalk : walks, minute : minutes, weekend : {FALSE}]

Asked == Ask({{"walking"}, {"auto"}, {"walking", "auto"}, {"auto", "cab", "own_car"},
              {"walking", "auto", "cab"}, {"bike"}},
             {0, 1000, 5000}, {720, 1330})
=============================================================================
