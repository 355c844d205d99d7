---------------------------- MODULE ItineraryStore ----------------------------
(***************************************************************************)
(* Accounts and saved plans: the PostgreSQL tables and the requests that   *)
(* read and write them (api/v1/itineraries.py, api/v1/auth.py,             *)
(* api/deps.py, and _persist of the orchestrator).                         *)
(*                                                                         *)
(* Each request runs in one session; a statement is one action, and reads  *)
(* what is committed (READ COMMITTED).  What a request inserted is in its  *)
(* locals until it commits; what it deleted is in its "gone", and stays    *)
(* visible to the others, and locked, until then.  A foreign key check     *)
(* share-locks the row it finds.  Two requests that wait for each other    *)
(* are found by the server's deadlock detector, which fails one of them.   *)
(***************************************************************************)
EXTENDS Naturals, FiniteSets

CONSTANTS
  Requests,   \* the requests of a run; each is made at most once
  Emails,     \* normalised addresses
  MaxDays     \* the days of a trip: the commits of one planning request

ASSUME StoreAssumption == MaxDays \in Nat \ {0} /\ Emails # {}

VARIABLES
  users,        \* [id, email]
  tripspecs,    \* [id, user_id]
  itineraries,  \* [id, user_id, tripspec_id, current_version_id]
  versions,     \* [id, itinerary_id]
  contents,     \* the version ids that have their stops and snapshot: rows
                \* inserted by one flush and deleted by one cascade
  serial,       \* the next id of each table; never rolled back (a user's is a
                \* random UUID: all that matters is that it is new)
  pc,           \* of each request: where it is
  email,        \* the address it signs up
  uid,          \* its user
  plan,         \* the plan it makes, reads or deletes: [id, spec, version]
  days,         \* the plans it has committed
  gone,         \* the rows it has deleted and not yet committed
  out           \* its answer

tables == <<users, tripspecs, itineraries, versions, contents>>
vars == <<users, tripspecs, itineraries, versions, contents, serial,
          pc, email, uid, plan, days, gone, out>>

Id == Nat \ {0}
Nobody == 0      \* user_id NULL: planned signed out

User == [id : Id, email : Emails]
TripSpecRecord == [id : Id, user_id : Nat]
Itinerary == [id : Id, user_id : Nat, tripspec_id : Id, current_version_id : Id]
ItineraryVersion == [id : Id, itinerary_id : Id]
Table == {"user", "tripspec", "itinerary", "version"}

Waypoints == {"idle", "check", "insert", "refresh", "planned", "itinerary",
              "version", "commit", "header", "stops", "find", "delete_row",
              "delete_spec", "commit_plan", "verify", "lock_user", "cascade",
              "done", "lost"}
\* "empty" is a plan answered without stops.
Answers == {"none", "ok", "empty", "deleted", "refused", "not_found", "error"}

AnEmail == CHOOSE e \in Emails : TRUE
NoPlan == [id |-> 0, spec |-> 0, version |-> 0]

TypeOK ==
  /\ users \subseteq User
  /\ tripspecs \subseteq TripSpecRecord
  /\ itineraries \subseteq Itinerary
  /\ versions \subseteq ItineraryVersion
  /\ contents \subseteq Id
  /\ serial \in [Table -> Id]
  /\ pc \in [Requests -> Waypoints]
  /\ email \in [Requests -> Emails]
  /\ uid \in [Requests -> Nat]
  /\ plan \in [Requests -> [id : Nat, spec : Nat, version : Nat]]
  /\ days \in [Requests -> 0..MaxDays]
  /\ gone \in [Requests -> SUBSET (Table \X Nat)]
  /\ out \in [Requests -> Answers]

(***************************************************************************)
(* The service starts empty, or with an account that saved a plan and a    *)
(* plan made signed out.                                                   *)
(***************************************************************************)
Empty ==
  /\ users = {} /\ tripspecs = {} /\ itineraries = {} /\ versions = {}
  /\ contents = {}
  /\ serial = [t \in Table |-> 1]

InUse ==
  /\ users = {[id |-> 1, email |-> AnEmail]}
  /\ tripspecs = {[id |-> 1, user_id |-> 1], [id |-> 2, user_id |-> Nobody]}
  /\ itineraries =
       {[id |-> 1, user_id |-> 1, tripspec_id |-> 1, current_version_id |-> 1],
        [id |-> 2, user_id |-> Nobody, tripspec_id |-> 2, current_version_id |-> 2]}
  /\ versions = {[id |-> 1, itinerary_id |-> 1], [id |-> 2, itinerary_id |-> 2]}
  /\ contents = {1, 2}
  /\ serial = [t \in Table |-> 3]

Init ==
  /\ Empty \/ InUse
  /\ pc = [r \in Requests |-> "idle"]
  /\ email = [r \in Requests |-> AnEmail]
  /\ uid = [r \in Requests |-> Nobody]
  /\ plan = [r \in Requests |-> NoPlan]
  /\ days = [r \in Requests |-> 0]
  /\ gone = [r \in Requests |-> {}]
  /\ out = [r \in Requests |-> "none"]

-----------------------------------------------------------------------------
(* Locks *)

\* Mutant: the foreign key check takes no lock.
MutSharesUserNoLock(o, u) == FALSE

\* The foreign keys of an uncommitted tripspecs row hold its user's row.
SharesUser(o, u) ==
  u # Nobody /\ uid[o] = u /\ pc[o] \in {"itinerary", "version", "commit"}

\* The requests other than r that deleted a row, and may still roll back.
Deleters(r, row) == {o \in Requests \ {r} : row \in gone[o]}

\* Those that hold a row against a DELETE of r.
Holders(r, row) ==
  Deleters(r, row) \cup
  {o \in Requests \ {r} : row[1] = "user" /\ SharesUser(o, row[2])}

\* The rows the ON DELETE CASCADE of r's account has still to delete, in the
\* order in which the tables were created: tripspecs before itineraries.
RowsToCascade(r) ==
  LET specs == {<<"tripspec", s.id>> : s \in {t \in tripspecs : t.user_id = uid[r]}}
      plans == {<<"itinerary", i.id>> : i \in {t \in itineraries : t.user_id = uid[r]}}
  IN  IF specs \subseteq gone[r] THEN plans \ gone[r] ELSE specs \ gone[r]

\* The requests the next statement of r waits for, or may wait for.
WaitsFor(r) ==
  CASE pc[r] = "planned" -> Deleters(r, <<"user", uid[r]>>)
    [] pc[r] = "insert" ->
         UNION {Deleters(r, <<"user", u.id>>) : u \in {v \in users : v.email = email[r]}}
    [] pc[r] = "delete_row" -> Holders(r, <<"itinerary", plan[r].id>>)
    [] pc[r] = "delete_spec" -> Holders(r, <<"tripspec", plan[r].spec>>)
    [] pc[r] = "lock_user" -> Holders(r, <<"user", uid[r]>>)
    [] pc[r] = "cascade" -> UNION {Holders(r, row) : row \in RowsToCascade(r)}
    [] OTHER -> {}

InCycle(r) == \E s \in WaitsFor(r) : r \in WaitsFor(s)

UserIds == {u.id : u \in users}

-----------------------------------------------------------------------------

Go(r, to) == pc' = [pc EXCEPT ![r] = to]

\* Mutant: get_db leaves the session open.
MutEndKeepsSession(r, answer) ==
  /\ Go(r, "done")
  /\ out' = [out EXCEPT ![r] = answer]
  /\ UNCHANGED <<email, uid, plan, days, gone>>

\* The end of a request.  Closing the session rolls back what is uncommitted;
\* the locals that no answer tells are forgotten.
End(r, answer) ==
  /\ Go(r, "done")
  /\ out' = [out EXCEPT ![r] = answer]
  /\ gone' = [gone EXCEPT ![r] = {}]
  /\ plan' = [plan EXCEPT ![r] = [id |-> plan[r].id, spec |-> 0, version |-> 0]]
  /\ days' = [days EXCEPT ![r] = 0]
  /\ UNCHANGED <<email, uid>>

-----------------------------------------------------------------------------
(* Requests begin.  All but a sign-up find the user of their token first.   *)

\* Any id given out so far, or the next one; an account is deleted by no id.
IdsAsked(first) == IF first = "verify" THEN {0} ELSE 1..serial["itinerary"]

BeginSignUp(r) ==
  /\ pc[r] = "idle"
  /\ \E e \in Emails : email' = [email EXCEPT ![r] = e]
  /\ Go(r, "check")
  /\ UNCHANGED <<tables, serial, uid, plan, days, gone, out>>

\* get_optional_user: no token, a bad one or a user who is gone is nobody.
BeginPlan(r) ==
  /\ pc[r] = "idle"
  /\ \E u \in UserIds \cup {Nobody} : uid' = [uid EXCEPT ![r] = u]
  /\ Go(r, "planned")
  /\ UNCHANGED <<tables, serial, email, plan, days, gone, out>>

\* get_current_active_user, then get_itinerary, delete_itinerary or
\* delete_my_account.
BeginAs(r, first) ==
  /\ pc[r] = "idle"
  /\ \E u \in UserIds : uid' = [uid EXCEPT ![r] = u]
  /\ \E i \in IdsAsked(first) :
       plan' = [plan EXCEPT ![r] = [id |-> i, spec |-> 0, version |-> 0]]
  /\ Go(r, first)
  /\ UNCHANGED <<tables, serial, email, days, gone, out>>

NoSuchUser(r) ==
  /\ pc[r] = "idle"
  /\ \E e \in Emails : \A u \in users : u.email # e
  /\ End(r, "not_found")
  /\ UNCHANGED <<tables, serial>>

Begin(r) ==
  \/ BeginSignUp(r) \/ BeginPlan(r) \/ NoSuchUser(r)
  \/ \E first \in {"header", "find", "verify"} : BeginAs(r, first)

-----------------------------------------------------------------------------
(* Sign-up *)

CheckEmail(r) ==
  /\ pc[r] = "check"
  /\ \/ /\ \E u \in users : u.email = email[r]
        /\ End(r, "refused")
     \/ /\ \A u \in users : u.email # email[r]
        /\ Go(r, "insert")
        /\ UNCHANGED <<email, uid, plan, days, gone, out>>
  /\ UNCHANGED <<tables, serial>>

\* Mutant: no index on email.
MutInsertUserNoIndex(r) ==
  /\ pc[r] = "insert"
  /\ serial' = [serial EXCEPT !["user"] = @ + 1]
  /\ users' = users \cup {[id |-> serial["user"], email |-> email[r]]}
  /\ uid' = [uid EXCEPT ![r] = serial["user"]]
  /\ Go(r, "refresh")
  /\ UNCHANGED <<tripspecs, itineraries, versions, contents, email, plan, days, gone, out>>

\* The unique index on email waits for a deletion of that address to commit,
\* and refuses what the check before it did not see.
InsertUser(r) ==
  /\ pc[r] = "insert"
  /\ WaitsFor(r) = {}
  /\ serial' = [serial EXCEPT !["user"] = @ + 1]
  /\ \/ /\ \A u \in users : u.email # email[r]
        /\ users' = users \cup {[id |-> serial["user"], email |-> email[r]]}
        /\ uid' = [uid EXCEPT ![r] = serial["user"]]
        /\ Go(r, "refresh")
        /\ UNCHANGED <<email, plan, days, gone, out>>
     \/ /\ \E u \in users : u.email = email[r]
        /\ End(r, "error")
        /\ UNCHANGED users
  /\ UNCHANGED <<tripspecs, itineraries, versions, contents>>

RefreshUser(r) ==
  /\ pc[r] = "refresh"
  /\ End(r, IF uid[r] \in UserIds THEN "ok" ELSE "error")
  /\ UNCHANGED <<tables, serial>>

-----------------------------------------------------------------------------
(* Planning: _persist, once for each day that has a plan *)

\* The first insert checks the user, who may be gone since the request began:
\* nothing catches the integrity error.
FlushSpec(r) ==
  /\ pc[r] = "planned"
  /\ days[r] < MaxDays
  /\ WaitsFor(r) = {}
  /\ serial' = [serial EXCEPT !["tripspec"] = @ + 1]
  /\ \/ /\ uid[r] \in UserIds \cup {Nobody}
        /\ plan' = [plan EXCEPT ![r] = [id |-> 0, spec |-> serial["tripspec"], version |-> 0]]
        /\ Go(r, "itinerary")
        /\ UNCHANGED <<email, uid, days, gone, out>>
     \/ /\ uid[r] \notin UserIds \cup {Nobody}
        /\ End(r, "error")
  /\ UNCHANGED tables

FlushItinerary(r) ==
  /\ pc[r] = "itinerary"
  /\ serial' = [serial EXCEPT !["itinerary"] = @ + 1]
  /\ plan' = [plan EXCEPT ![r].id = serial["itinerary"]]
  /\ Go(r, "version")
  /\ UNCHANGED <<tables, email, uid, days, gone, out>>

FlushVersion(r) ==
  /\ pc[r] = "version"
  /\ serial' = [serial EXCEPT !["version"] = @ + 1]
  /\ plan' = [plan EXCEPT ![r].version = serial["version"]]
  /\ Go(r, "commit")
  /\ UNCHANGED <<tables, email, uid, days, gone, out>>

\* The rows of the plan r has flushed.
SpecRow(r) == [id |-> plan[r].spec, user_id |-> uid[r]]
ItineraryRow(r) == [id |-> plan[r].id, user_id |-> uid[r], tripspec_id |-> plan[r].spec,
                    current_version_id |-> plan[r].version]
VersionRow(r) == [id |-> plan[r].version, itinerary_id |-> plan[r].id]

\* Mutant: current_version_id is never set.
MutCommitPlanNoVersion(r) ==
  /\ pc[r] = "commit"
  /\ tripspecs' = tripspecs \cup {SpecRow(r)}
  /\ itineraries' = itineraries \cup {[ItineraryRow(r) EXCEPT !.current_version_id = 0]}
  /\ versions' = versions \cup {VersionRow(r)}
  /\ contents' = contents \cup {plan[r].version}
  /\ days' = [days EXCEPT ![r] = @ + 1]
  /\ Go(r, "planned")
  /\ UNCHANGED <<users, serial, email, uid, plan, gone, out>>

\* The last flush adds the stops, the snapshot and current_version_id; the
\* commit publishes it all, and planning goes on with the next day.
CommitPlan(r) ==
  /\ pc[r] = "commit"
  /\ tripspecs' = tripspecs \cup {SpecRow(r)}
  /\ itineraries' = itineraries \cup {ItineraryRow(r)}
  /\ versions' = versions \cup {VersionRow(r)}
  /\ contents' = contents \cup {plan[r].version}
  /\ days' = [days EXCEPT ![r] = @ + 1]
  /\ Go(r, "planned")
  /\ UNCHANGED <<users, serial, email, uid, plan, gone, out>>

\* No plan for the remaining days, or no day left.
EndPlanning(r) ==
  /\ pc[r] = "planned"
  /\ End(r, IF days[r] > 0 THEN "ok" ELSE "refused")
  /\ UNCHANGED <<tables, serial>>

-----------------------------------------------------------------------------
(* get_itinerary: the header and the stops are two statements *)

OwnRows(r) == {i \in itineraries : i.id = plan[r].id /\ i.user_id = uid[r]}

ReadHeader(r) ==
  /\ pc[r] = "header"
  /\ \/ /\ OwnRows(r) = {}
        /\ End(r, "not_found")
     \/ \E i \in OwnRows(r) :
          /\ plan' = [plan EXCEPT ![r].version = i.current_version_id]
          /\ Go(r, "stops")
          /\ UNCHANGED <<email, uid, days, gone, out>>
  /\ UNCHANGED <<tables, serial>>

ReadStops(r) ==
  /\ pc[r] = "stops"
  /\ End(r, IF plan[r].version \in contents THEN "ok" ELSE "empty")
  /\ UNCHANGED <<tables, serial>>

-----------------------------------------------------------------------------
(* Deletions.  A DELETE that waited for another one to commit finds no row. *)

Delete(r, row, next) ==
  /\ gone' = [gone EXCEPT ![r] = @ \cup row]
  /\ Go(r, next)
  /\ UNCHANGED <<tables, serial, email, uid, plan, days, out>>

\* A commit removes the rows deleted, and what cascades with an itinerary.
CommitGone(r) ==
  LET kept == {i \in itineraries : <<"itinerary", i.id>> \notin gone[r]}
      keptVersions == {v \in versions : \E i \in kept : i.id = v.itinerary_id}
  IN  /\ users' = {u \in users : <<"user", u.id>> \notin gone[r]}
      /\ tripspecs' = {s \in tripspecs : <<"tripspec", s.id>> \notin gone[r]}
      /\ itineraries' = kept
      /\ versions' = keptVersions
      /\ contents' = {c \in contents : \E v \in keptVersions : v.id = c}
      /\ End(r, "deleted")
      /\ UNCHANGED serial

FindPlan(r) ==
  /\ pc[r] = "find"
  /\ \/ /\ OwnRows(r) = {}
        /\ End(r, "not_found")
     \/ \E i \in OwnRows(r) :
          /\ plan' = [plan EXCEPT ![r].spec = i.tripspec_id]
          /\ Go(r, "delete_row")
          /\ UNCHANGED <<email, uid, days, gone, out>>
  /\ UNCHANGED <<tables, serial>>

DeletePlanRow(r) ==
  /\ pc[r] = "delete_row"
  /\ WaitsFor(r) = {}
  /\ Delete(r, {<<"itinerary", i.id>> : i \in {j \in itineraries : j.id = plan[r].id}},
            "delete_spec")

\* Mutant: the request outlives its plan.
MutDeleteSpecRowKeeps(r) == pc[r] = "delete_spec" /\ Delete(r, {}, "commit_plan")

\* Only if no itinerary that r still sees was made from it.
DeleteSpecRow(r) ==
  /\ pc[r] = "delete_spec"
  /\ WaitsFor(r) = {}
  /\ Delete(r, {<<"tripspec", s.id>> :
                  s \in {t \in tripspecs :
                           /\ t.id = plan[r].spec
                           /\ \A i \in itineraries : i.tripspec_id = t.id
                                => <<"itinerary", i.id>> \in gone[r]}},
            "commit_plan")

\* Mutant: no commit before the answer.
MutCommitDeleteForgets(r) ==
  /\ pc[r] = "commit_plan"
  /\ End(r, "deleted")
  /\ UNCHANGED <<tables, serial>>

CommitDelete(r) ==
  /\ pc[r] = "commit_plan"
  /\ CommitGone(r)

\* delete_my_account asks for the password again.  Every foreign key to user
\* cascades today, so its loop over them leaves all to the database.
VerifyPassword(r) ==
  /\ pc[r] = "verify"
  /\ \/ End(r, "refused")
     \/ Go(r, "lock_user") /\ UNCHANGED <<email, uid, plan, days, gone, out>>
  /\ UNCHANGED <<tables, serial>>

DeleteUserRow(r) ==
  /\ pc[r] = "lock_user"
  /\ WaitsFor(r) = {}
  /\ Delete(r, {<<"user", u>> : u \in UserIds \cap {uid[r]}}, "cascade")

CascadeRow(r) ==
  /\ pc[r] = "cascade"
  /\ \E row \in RowsToCascade(r) : Holders(r, row) = {} /\ Delete(r, {row}, "cascade")

\* Mutant: the user's plans are detached, not deleted.
MutCommitAccountDetaches(r) ==
  /\ pc[r] = "cascade"
  /\ users' = {u \in users : <<"user", u.id>> \notin gone[r]}
  /\ tripspecs' = {IF s.user_id = uid[r] THEN [s EXCEPT !.user_id = Nobody] ELSE s :
                     s \in tripspecs}
  /\ itineraries' = {IF i.user_id = uid[r] THEN [i EXCEPT !.user_id = Nobody] ELSE i :
                       i \in itineraries}
  /\ End(r, "deleted")
  /\ UNCHANGED <<versions, contents, serial>>

CommitAccount(r) ==
  /\ pc[r] = "cascade"
  /\ RowsToCascade(r) = {}
  /\ CommitGone(r)

-----------------------------------------------------------------------------
(* The detector fails a request that is in a cycle of waits; the process may *)
(* die, and the server then rolls back its open transactions.                *)

DeadlockAbort(r) ==
  /\ InCycle(r)
  /\ End(r, "error")
  /\ UNCHANGED <<tables, serial>>

Running(r) == pc[r] \notin {"idle", "done", "lost"}

Crash ==
  /\ \E r \in Requests : Running(r)
  /\ pc' = [r \in Requests |-> IF Running(r) THEN "lost" ELSE pc[r]]
  /\ gone' = [r \in Requests |-> {}]
  /\ plan' = [r \in Requests |-> IF Running(r) THEN NoPlan ELSE plan[r]]
  /\ days' = [r \in Requests |-> 0]
  /\ UNCHANGED <<tables, serial, email, uid, out>>

Step(r) ==
  \/ CheckEmail(r) \/ InsertUser(r) \/ RefreshUser(r)
  \/ FlushSpec(r) \/ FlushItinerary(r) \/ FlushVersion(r) \/ CommitPlan(r)
  \/ EndPlanning(r)
  \/ ReadHeader(r) \/ ReadStops(r)
  \/ FindPlan(r) \/ DeletePlanRow(r) \/ DeleteSpecRow(r) \/ CommitDelete(r)
  \/ VerifyPassword(r) \/ DeleteUserRow(r) \/ CascadeRow(r) \/ CommitAccount(r)
  \/ DeadlockAbort(r)

Next ==
  \/ \E r \in Requests : Begin(r) \/ Step(r)
  \/ Crash

Spec == Init /\ [][Next]_vars

\* A statement returns, or waits for a request that itself goes on.  Nothing
\* is assumed of clients or of crashes.
FairSpec == Spec /\ \A r \in Requests : WF_vars(Step(r))
=============================================================================
