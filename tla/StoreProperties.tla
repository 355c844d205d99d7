--------------------------- MODULE StoreProperties ---------------------------
(***************************************************************************)
(* What must hold of the accounts and the saved plans.                     *)
(***************************************************************************)
EXTENDS ItineraryStore

\* A plan is stored whole: its request, one version which is the current one,
\* and the version's stops, and none of these is stored without its plan.
\* itineraries.py:143-157 deletes row and request in two statements, the rest
\* cascades (models/itinerary.py:59, 83, 107).
PlanIsWhole ==
  /\ \A i \in itineraries :
       /\ [id |-> i.tripspec_id, user_id |-> i.user_id] \in tripspecs
       /\ {v \in versions : v.itinerary_id = i.id}
            = {[id |-> i.current_version_id, itinerary_id |-> i.id]}
       /\ i.current_version_id \in contents
  /\ \A s \in tripspecs : \E i \in itineraries : i.tripspec_id = s.id
  /\ \A v \in versions : \E i \in itineraries : i.id = v.itinerary_id
  /\ \A c \in contents : \E v \in versions : v.id = c

\* Nothing stored belongs to an account that is gone, although a plan may be
\* in the middle of its inserts when its account is deleted (auth.py:162).
OwnersExist ==
  \A row \in tripspecs \cup itineraries : row.user_id \in UserIds \cup {Nobody}

\* Once a deletion was answered with 204, what it was asked to delete is gone,
\* and never comes back: no late commit, and no id given out again.
DeletedIsGone ==
  \A r \in Requests :
    out[r] = "deleted" =>
      IF plan[r].id # 0
      THEN \A i \in itineraries : i.id # plan[r].id
      ELSE /\ uid[r] \notin UserIds
           /\ \A i \in itineraries : i.user_id # uid[r]

\* A plan only goes away in the commit of a deletion its owner asked for, of
\* the plan or of the account: nothing is lost to a request that was rolled
\* back, to a crash, or to somebody else (itineraries.py:144).
GoneOnlyIfDeleted ==
  [][ \A i \in itineraries : i \notin itineraries' =>
        \E r \in Requests :
          /\ uid[r] = i.user_id /\ out[r] # "deleted" /\ out'[r] = "deleted"
          /\ plan[r].id \in {0, i.id} ]_vars

\* Saved plans are records (orchestrator.py:178, ADR-017): a step leaves the
\* row, the version and the stops of a stored plan as they are, or removes it.
PlansAreRecords ==
  [][ \A i \in itineraries, j \in itineraries' :
        i.id = j.id \/ i.tripspec_id = j.tripspec_id
          => i = j ]_vars

\* Two sign-ups with one address may both pass the check of auth.py:60: the
\* index lets one of them in.
OneAccountPerEmail ==
  \A u, w \in users : u.email = w.email => u = w

\* Every request is answered, or lost in a crash.  A plan's deletion and its
\* account's lock the plan and its request in opposite orders.
EventuallyAnswered ==
  \A r \in Requests : Running(r) ~> ~Running(r)

\* The tables, seen through their plans, are a PlanBook.
Book == {[id |-> i.id, owner |-> i.user_id, made |-> i.tripspec_id] :
         i \in itineraries}
Abstract == INSTANCE PlanBook WITH accounts <- UserIds, book <- Book
ImplementsPlanBook == Abstract!Spec

\* The header and the stops of a plan are two statements (itineraries.py:98): a
\* plan that is read without stops was deleted in between, and stays deleted.
ReadIsWholeOrGone ==
  \A r \in Requests : out[r] = "empty" => \A i \in itineraries : i.id # plan[r].id
=============================================================================
