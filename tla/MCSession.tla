------------------------------ MODULE MCSession ------------------------------
(***************************************************************************)
(* Instances of Session. Two emails, so that a token and a page can be of  *)
(* different ones; two requests in flight, so that they can cross.         *)
(***************************************************************************)
EXTENDS Session, TLC

Emails == Permutations(Account)
=============================================================================
