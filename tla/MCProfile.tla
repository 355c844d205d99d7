------------------------------ MODULE MCProfile ------------------------------
(***************************************************************************)
(* Instances of the profile for TLC: three tabs of one account.  A home is *)
(* renamed, moved or cleared; the diet and the interests change beside it. *)
(***************************************************************************)
EXTENDS Profile, TLC

At(name, lat, lon) == [home_name |-> name, home_lat |-> lat, home_lon |-> lon]

MCHomes == {At("home", "1", "1"), At("flat", "1", "1"), At("home", "2", "1"),
            At("delhi", "9", "9")}
MCInRegion == {x \in MCHomes : x.home_lat # "9"}
MCKnown == {"[]", "[cafe]"}
MCBlank == At(NULL, NULL, NULL) @@
           [display_name |-> NULL, interests |-> "[]", vegetarian |-> "no"]
MCValues == {NULL, "home", "flat", "delhi", "1", "2", "9", "ann", "[]", "[cafe]",
             "[arcades]", "no", "yes"}
MCBodies ==
  {[home |-> x] : x \in MCHomes \cup {NULL}}
  \cup {[vegetarian |-> "yes"], [interests |-> "[cafe]"], [interests |-> NULL],
        [display_name |-> "ann", home |-> At("home", "1", "1")],
        [interests |-> "[arcades]", home |-> NULL]}

RequestSymmetry == Permutations(Requests)
=============================================================================
