------------------------------ MODULE MCRouting ------------------------------
(***************************************************************************)
(* Instances of Routing. A timeout is one unit of time and a call makes    *)
(* two attempts, so a dead server costs a call two units; with a threshold *)
(* of two the breaker's window is half as long again as what it takes to   *)
(* open it, which leaves the window's end inside a plan.                   *)
(***************************************************************************)
EXTENDS Routing

CarAndFoot == {<<"driving", "walking">>, <<"walking">>}

Mixed == {<<"driving", "driving">>, <<"driving", "walking", "driving">>,
          <<"walking", "walking">>}
=============================================================================
