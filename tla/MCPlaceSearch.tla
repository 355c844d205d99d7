--------------------------- MODULE MCPlaceSearch ----------------------------
(***************************************************************************)
(* An instance of PlaceSearch: two places of one name, one known by two    *)
(* texts, a text nothing is found for and one too short.                   *)
(***************************************************************************)
EXTENDS PlaceSearch

Texts == {"mg", "mg road", "mg road metro", "lalbagh", "xyzzy"}
TooShort == {"mg"}
Found == [t \in Texts |->
            CASE t = "mg road" -> {{"mg road", "mg road metro"}, {"mg road metro"}}
              [] t = "mg road metro" -> {{"mg road metro"}}
              [] t = "lalbagh" -> {{"lalbagh"}, {}}
              [] OTHER -> {{}}]
=============================================================================
