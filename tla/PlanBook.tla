------------------------------- MODULE PlanBook -------------------------------
(***************************************************************************)
(* What the accounts and saved plans promise: every account owns a set of  *)
(* plans; a plan is added whole, to an account that exists or to nobody;   *)
(* it is removed alone, or with all of its account's, and is never         *)
(* changed.                                                                *)
(***************************************************************************)
EXTENDS Naturals

CONSTANT Nobody

VARIABLES
  accounts,   \* the ids of the accounts
  book        \* plans: [id, owner, made], made is the request it was made from

vars == <<accounts, book>>

Init == /\ accounts \subseteq Nat \ {Nobody}
        /\ book \subseteq [id : Nat, owner : accounts \cup {Nobody}, made : Nat]

Open(a) == /\ a \notin accounts \cup {Nobody}
           /\ accounts' = accounts \cup {a}
           /\ UNCHANGED book

Add(p) == /\ p.owner \in accounts \cup {Nobody}
          /\ \A q \in book : q.id # p.id /\ q.made # p.made
          /\ book' = book \cup {p}
          /\ UNCHANGED accounts

Remove(p) == /\ p \in book
             /\ book' = book \ {p}
             /\ UNCHANGED accounts

Close(a) == /\ a \in accounts
            /\ accounts' = accounts \ {a}
            /\ book' = {p \in book : p.owner # a}

Next == \/ \E a \in accounts' : Open(a)
        \/ \E a \in accounts : Close(a)
        \/ \E p \in book' : Add(p)
        \/ \E p \in book : Remove(p)

Spec == Init /\ [][Next]_vars
=============================================================================
