-------------------------- MODULE MCItineraryStore --------------------------
(***************************************************************************)
(* Instances of the accounts and saved plans for TLC.                      *)
(***************************************************************************)
EXTENDS StoreProperties
=============================================================================
