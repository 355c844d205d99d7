------------------------ MODULE ItineraryStore_proofs ------------------------
(***************************************************************************)
(* Proofs about the accounts and the saved plans, for any number of        *)
(* requests, addresses and days.                                           *)
(***************************************************************************)
EXTENDS StoreProperties, TLAPS

-----------------------------------------------------------------------------
(* Types.  What a flush has numbered is a row id, and a day that is being    *)
(* saved is one of the trip's: the commit relies on both.                    *)

TablesOK ==
  /\ users \subseteq User
  /\ tripspecs \subseteq TripSpecRecord
  /\ itineraries \subseteq Itinerary
  /\ versions \subseteq ItineraryVersion
  /\ contents \subseteq Id

LocalsOK ==
  /\ pc \in [Requests -> Waypoints]
  /\ email \in [Requests -> Emails]
  /\ uid \in [Requests -> Nat]
  /\ plan \in [Requests -> [id : Nat, spec : Nat, version : Nat]]
  /\ days \in [Requests -> 0..MaxDays]
  /\ gone \in [Requests -> SUBSET (Table \X Nat)]
  /\ out \in [Requests -> Answers]

SerialOK == serial \in [Table -> Id]

Numbered ==
  \A r \in Requests :
    /\ pc[r] \in {"itinerary", "version", "commit"} =>
         plan[r].spec \in Id /\ days[r] < MaxDays
    /\ pc[r] \in {"version", "commit"} => plan[r].id \in Id
    /\ pc[r] = "commit" => plan[r].version \in Id

TypeInv == TablesOK /\ SerialOK /\ LocalsOK /\ Numbered

LEMMA TypeInvIsTypeOK == TypeInv => TypeOK
  BY DEF TypeInv, TablesOK, SerialOK, LocalsOK, TypeOK

\* A step that moves one request, to a waypoint before its first insert or
\* after its commit, and keeps its locals, keeps the types.
LEMMA GoType ==
  ASSUME LocalsOK, Numbered, NEW r \in Requests, NEW to \in Waypoints, Go(r, to),
         to \notin {"itinerary", "version", "commit"},
         UNCHANGED <<email, uid, plan, days, gone, out>>
  PROVE  LocalsOK' /\ Numbered'
  BY DEF LocalsOK, Numbered, Go

LEMMA EndType ==
  ASSUME LocalsOK, Numbered, NEW r \in Requests, NEW answer \in Answers, End(r, answer)
  PROVE  LocalsOK' /\ Numbered'
  <1>1. LocalsOK'
    BY StoreAssumption DEF LocalsOK, End, Go, Waypoints
  <1>2. Numbered'
    BY DEF LocalsOK, Numbered, End, Go
  <1>3. QED
    BY <1>1, <1>2

LEMMA DeleteType ==
  ASSUME LocalsOK, Numbered, NEW r \in Requests, NEW row, NEW to \in Waypoints,
         Delete(r, row, to), row \subseteq Table \X Nat,
         to \notin {"itinerary", "version", "commit"}
  PROVE  LocalsOK' /\ Numbered'
  <1>1. LocalsOK'
    BY DEF LocalsOK, Delete, Go
  <1>2. Numbered'
    BY DEF LocalsOK, Numbered, Delete, Go
  <1>3. QED
    BY <1>1, <1>2

LEMMA BeginType ==
  ASSUME TypeInv, NEW r \in Requests, Begin(r)
  PROVE  TypeInv'
  <1> USE DEF TypeInv
  <1>1. tables' = tables /\ serial' = serial
    BY DEF Begin, BeginSignUp, BeginPlan, BeginAs, NoSuchUser
  <1>2. TablesOK' /\ SerialOK'
    BY <1>1 DEF TablesOK, SerialOK, tables
  <1>3. ASSUME BeginSignUp(r) PROVE LocalsOK' /\ Numbered'
    BY <1>3 DEF BeginSignUp, Go, LocalsOK, Numbered, Waypoints
  <1>4. ASSUME BeginPlan(r) PROVE LocalsOK' /\ Numbered'
    <2>1. \A u \in UserIds \cup {Nobody} : u \in Nat
      BY DEF UserIds, TablesOK, User, Id, Nobody
    <2>2. QED
      BY <1>4, <2>1 DEF BeginPlan, Go, LocalsOK, Numbered, Waypoints
  <1>5. ASSUME NEW first \in {"header", "find", "verify"}, BeginAs(r, first)
        PROVE  LocalsOK' /\ Numbered'
    <2>1. PICK u \in UserIds : uid' = [uid EXCEPT ![r] = u]
      BY <1>5 DEF BeginAs
    <2>2. PICK i \in IdsAsked(first) :
            plan' = [plan EXCEPT ![r] = [id |-> i, spec |-> 0, version |-> 0]]
      BY <1>5 DEF BeginAs
    <2>3. u \in Nat /\ i \in Nat
      BY DEF UserIds, TablesOK, User, Id, IdsAsked
    <2>4. pc' = [pc EXCEPT ![r] = first] /\ UNCHANGED <<email, days, gone, out>>
      BY <1>5 DEF BeginAs, Go
    <2>5. QED
      BY <2>1, <2>2, <2>3, <2>4 DEF LocalsOK, Numbered, Waypoints
  <1>6. ASSUME NoSuchUser(r) PROVE LocalsOK' /\ Numbered'
    BY <1>6, EndType DEF NoSuchUser, Answers
  <1>7. QED
    BY <1>2, <1>3, <1>4, <1>5, <1>6 DEF Begin

LEMMA SignUpType ==
  ASSUME TypeInv, NEW r \in Requests, CheckEmail(r) \/ InsertUser(r) \/ RefreshUser(r)
  PROVE  TypeInv'
  <1> USE DEF TypeInv
  <1>1. CASE CheckEmail(r)
    <2>1. TablesOK' /\ SerialOK'
      BY <1>1 DEF CheckEmail, TablesOK, SerialOK, tables
    <2>2. "refused" \in Answers /\ "insert" \in Waypoints
      BY DEF Answers, Waypoints
    <2>3. LocalsOK' /\ Numbered'
      BY <1>1, <2>2, EndType, GoType DEF CheckEmail
    <2>4. QED
      BY <2>1, <2>3
  <1>2. CASE InsertUser(r)
    <2>1. SerialOK' /\ serial["user"] \in Id
      BY <1>2 DEF InsertUser, SerialOK, Table, Id
    <2>2. TablesOK'
      BY <1>2, <2>1 DEF InsertUser, TablesOK, User, LocalsOK
    <2>3. LocalsOK' /\ Numbered'
      <3>1. CASE End(r, "error")
        BY <3>1, EndType DEF Answers
      <3>2. CASE /\ uid' = [uid EXCEPT ![r] = serial["user"]]
                 /\ Go(r, "refresh")
                 /\ UNCHANGED <<email, plan, days, gone, out>>
        BY <3>2, <2>1 DEF LocalsOK, Numbered, Go, Waypoints, Id
      <3>3. QED
        BY <1>2, <3>1, <3>2 DEF InsertUser
    <2>4. QED
      BY <2>1, <2>2, <2>3
  <1>3. CASE RefreshUser(r)
    <2>1. TablesOK' /\ SerialOK'
      BY <1>3 DEF RefreshUser, TablesOK, SerialOK, tables
    <2>2. LocalsOK' /\ Numbered'
      BY <1>3, EndType DEF RefreshUser, Answers
    <2>3. QED
      BY <2>1, <2>2
  <1>4. QED
    BY <1>1, <1>2, <1>3

LEMMA PlanningType ==
  ASSUME TypeInv, NEW r \in Requests,
         FlushSpec(r) \/ FlushItinerary(r) \/ FlushVersion(r) \/ CommitPlan(r)
           \/ EndPlanning(r)
  PROVE  TypeInv'
  <1> USE DEF TypeInv
  <1>0. serial \in [Table -> Id]
    BY DEF SerialOK
  <1>1. CASE FlushSpec(r)
    <2>1. TablesOK' /\ SerialOK' /\ serial["tripspec"] \in Id
      BY <1>0, <1>1 DEF FlushSpec, TablesOK, SerialOK, tables, Table, Id
    <2>2. CASE End(r, "error")
      BY <2>1, <2>2, EndType DEF Answers
    <2>3. CASE /\ plan' = [plan EXCEPT ![r] =
                             [id |-> 0, spec |-> serial["tripspec"], version |-> 0]]
               /\ Go(r, "itinerary")
               /\ UNCHANGED <<email, uid, days, gone, out>>
      <3>1. LocalsOK'
        BY <2>1, <2>3 DEF LocalsOK, Go, Waypoints, Id
      <3>2. Numbered'
        BY <1>1, <2>1, <2>3 DEF FlushSpec, LocalsOK, Numbered, Go
      <3>3. QED
        BY <2>1, <3>1, <3>2
    <2>4. QED
      BY <1>1, <2>2, <2>3 DEF FlushSpec
  <1>2. CASE FlushItinerary(r)
    <2>1. TablesOK' /\ SerialOK' /\ serial["itinerary"] \in Id
      BY <1>0, <1>2 DEF FlushItinerary, TablesOK, SerialOK, tables, Table, Id
    <2>2. LocalsOK'
      BY <1>2, <2>1 DEF FlushItinerary, LocalsOK, Go, Waypoints, Id
    <2>3. Numbered'
      BY <1>2, <2>1 DEF FlushItinerary, LocalsOK, Numbered, Go
    <2>4. QED
      BY <2>1, <2>2, <2>3
  <1>3. CASE FlushVersion(r)
    <2>1. TablesOK' /\ SerialOK' /\ serial["version"] \in Id
      BY <1>0, <1>3 DEF FlushVersion, TablesOK, SerialOK, tables, Table, Id
    <2>2. LocalsOK'
      BY <1>3, <2>1 DEF FlushVersion, LocalsOK, Go, Waypoints, Id
    <2>3. Numbered'
      BY <1>3, <2>1 DEF FlushVersion, LocalsOK, Numbered, Go
    <2>4. QED
      BY <2>1, <2>2, <2>3
  <1>4. CASE CommitPlan(r)
    <2>1. /\ plan[r].spec \in Id /\ plan[r].id \in Id /\ plan[r].version \in Id
          /\ uid[r] \in Nat
      BY <1>4 DEF CommitPlan, Numbered, LocalsOK
    <2>2. TablesOK' /\ SerialOK'
      BY <1>4, <2>1 DEF CommitPlan, TablesOK, SerialOK, SpecRow, ItineraryRow, VersionRow,
                        TripSpecRecord, Itinerary, ItineraryVersion
    <2>3. LocalsOK' /\ Numbered'
      BY <1>4, StoreAssumption DEF CommitPlan, LocalsOK, Numbered, Go, Waypoints
    <2>4. QED
      BY <2>2, <2>3
  <1>5. CASE EndPlanning(r)
    <2>1. TablesOK' /\ SerialOK'
      BY <1>5 DEF EndPlanning, TablesOK, SerialOK, tables
    <2>2. LocalsOK' /\ Numbered'
      BY <1>5, EndType DEF EndPlanning, Answers
    <2>3. QED
      BY <2>1, <2>2
  <1>6. QED
    BY <1>1, <1>2, <1>3, <1>4, <1>5

LEMMA ReadType ==
  ASSUME TypeInv, NEW r \in Requests, ReadHeader(r) \/ ReadStops(r) \/ FindPlan(r)
  PROVE  TypeInv'
  <1> USE DEF TypeInv
  <1>1. TablesOK' /\ SerialOK'
    BY DEF ReadHeader, ReadStops, FindPlan, TablesOK, SerialOK, tables
  <1>2. \A i \in OwnRows(r) : i.current_version_id \in Nat /\ i.tripspec_id \in Nat
    BY DEF OwnRows, TablesOK, Itinerary, Id
  <1>3. CASE ReadHeader(r)
    <2>1. CASE End(r, "not_found")
      BY <1>1, <2>1, EndType DEF Answers
    <2>2. ASSUME NEW i \in OwnRows(r), Go(r, "stops"),
                 plan' = [plan EXCEPT ![r].version = i.current_version_id],
                 UNCHANGED <<email, uid, days, gone, out>>
          PROVE  TypeInv'
      BY <1>1, <1>2, <2>2 DEF LocalsOK, Numbered, Go, Waypoints
    <2>3. QED
      BY <1>3, <2>1, <2>2 DEF ReadHeader
  <1>4. CASE ReadStops(r)
    BY <1>1, <1>4, EndType DEF ReadStops, Answers
  <1>5. CASE FindPlan(r)
    <2>1. CASE End(r, "not_found")
      BY <1>1, <2>1, EndType DEF Answers
    <2>2. ASSUME NEW i \in OwnRows(r), Go(r, "delete_row"),
                 plan' = [plan EXCEPT ![r].spec = i.tripspec_id],
                 UNCHANGED <<email, uid, days, gone, out>>
          PROVE  TypeInv'
      BY <1>1, <1>2, <2>2 DEF LocalsOK, Numbered, Go, Waypoints
    <2>3. QED
      BY <1>5, <2>1, <2>2 DEF FindPlan
  <1>6. QED
    BY <1>3, <1>4, <1>5

LEMMA CommitGoneType ==
  ASSUME TypeInv, NEW r \in Requests, CommitGone(r)
  PROVE  TypeInv'
  <1> USE DEF TypeInv
  <1>1. TablesOK' /\ SerialOK'
    BY DEF CommitGone, TablesOK, SerialOK
  <1>2. LocalsOK' /\ Numbered'
    BY EndType DEF CommitGone, Answers
  <1>3. QED
    BY <1>1, <1>2

\* The rows a deletion names.
LEMMA RowsDeleted ==
  ASSUME TablesOK, NEW r \in Requests
  PROVE  /\ \A i \in itineraries : <<"itinerary", i.id>> \in Table \X Nat
         /\ \A s \in tripspecs : <<"tripspec", s.id>> \in Table \X Nat
         /\ \A u \in UserIds : <<"user", u>> \in Table \X Nat
         /\ RowsToCascade(r) \subseteq Table \X Nat
  <1>1. /\ \A i \in itineraries : i.id \in Nat
        /\ \A s \in tripspecs : s.id \in Nat
        /\ \A u \in UserIds : u \in Nat
    BY DEF TablesOK, Itinerary, TripSpecRecord, UserIds, User, Id
  <1>2. QED
    BY <1>1 DEF Table, RowsToCascade

LEMMA DeletionType ==
  ASSUME TypeInv, NEW r \in Requests,
         DeletePlanRow(r) \/ DeleteSpecRow(r) \/ CommitDelete(r) \/ VerifyPassword(r)
           \/ DeleteUserRow(r) \/ CascadeRow(r) \/ CommitAccount(r)
  PROVE  TypeInv'
  <1> USE DEF TypeInv
  <1>1. ASSUME NEW rows, NEW to \in {"delete_spec", "commit_plan", "cascade"},
               Delete(r, rows, to), rows \subseteq Table \X Nat
        PROVE  TypeInv'
    <2>1. TablesOK' /\ SerialOK'
      BY <1>1 DEF Delete, TablesOK, SerialOK, tables
    <2>2. to \in Waypoints \ {"itinerary", "version", "commit"}
      BY DEF Waypoints
    <2>3. QED
      BY <1>1, <2>1, <2>2, DeleteType
  <1>2. CASE DeletePlanRow(r)
    BY <1>1, <1>2, RowsDeleted DEF DeletePlanRow
  <1>3. CASE DeleteSpecRow(r)
    BY <1>1, <1>3, RowsDeleted DEF DeleteSpecRow
  <1>4. CASE CommitDelete(r)
    BY <1>4, CommitGoneType DEF CommitDelete
  <1>5. CASE VerifyPassword(r)
    <2>1. TablesOK' /\ SerialOK'
      BY <1>5 DEF VerifyPassword, TablesOK, SerialOK, tables
    <2>2. LocalsOK' /\ Numbered'
      BY <1>5, EndType, GoType DEF VerifyPassword, Answers, Waypoints
    <2>3. QED
      BY <2>1, <2>2
  <1>6. CASE DeleteUserRow(r)
    BY <1>1, <1>6, RowsDeleted DEF DeleteUserRow
  <1>7. CASE CascadeRow(r)
    BY <1>1, <1>7, RowsDeleted DEF CascadeRow
  <1>8. CASE CommitAccount(r)
    BY <1>8, CommitGoneType DEF CommitAccount
  <1>9. QED
    BY <1>2, <1>3, <1>4, <1>5, <1>6, <1>7, <1>8

LEMMA CrashType ==
  ASSUME TypeInv, Crash
  PROVE  TypeInv'
  <1>1. TablesOK' /\ SerialOK'
    BY DEF TypeInv, Crash, TablesOK, SerialOK, tables
  <1>2. LocalsOK'
    BY StoreAssumption DEF TypeInv, Crash, LocalsOK, Waypoints, NoPlan
  <1>3. Numbered'
    BY DEF TypeInv, Crash, LocalsOK, Numbered, Running
  <1>4. QED
    BY <1>1, <1>2, <1>3 DEF TypeInv

LEMMA TypeStep == TypeInv /\ [Next]_vars => TypeInv'
  <1> SUFFICES ASSUME TypeInv, [Next]_vars PROVE TypeInv'
    OBVIOUS
  <1>1. ASSUME NEW r \in Requests, Begin(r) PROVE TypeInv'
    BY <1>1, BeginType
  <1>2. ASSUME NEW r \in Requests, DeadlockAbort(r) PROVE TypeInv'
    <2>1. TablesOK' /\ SerialOK'
      BY <1>2 DEF TypeInv, DeadlockAbort, TablesOK, SerialOK, tables
    <2>2. QED
      BY <1>2, <2>1, EndType DEF TypeInv, DeadlockAbort, Answers
  <1>3. ASSUME NEW r \in Requests, Step(r) PROVE TypeInv'
    BY <1>2, <1>3, SignUpType, PlanningType, ReadType, DeletionType DEF Step
  <1>4. CASE Crash
    BY <1>4, CrashType
  <1>5. CASE UNCHANGED vars
    BY <1>5 DEF vars, tables, TypeInv, TablesOK, SerialOK, LocalsOK, Numbered
  <1>6. QED
    BY <1>1, <1>3, <1>4, <1>5 DEF Next

LEMMA TypeInit == Init => TypeInv
  <1> SUFFICES ASSUME Init PROVE TypeInv
    OBVIOUS
  <1>1. AnEmail \in Emails
    BY StoreAssumption DEF AnEmail
  <1>2. TablesOK
    BY <1>1 DEF Init, Empty, InUse, TablesOK, User, TripSpecRecord, Itinerary,
                ItineraryVersion, Id, Nobody
  <1>3. SerialOK
    BY DEF Init, Empty, InUse, SerialOK, Table, Id
  <1>4. LocalsOK /\ Numbered
    BY <1>1, StoreAssumption DEF Init, LocalsOK, Numbered, Waypoints, Answers, NoPlan, Nobody
  <1>5. QED
    BY <1>2, <1>3, <1>4 DEF TypeInv

LEMMA AlwaysTyped == Spec => []TypeInv
  BY TypeInit, TypeStep, PTL DEF Spec

\* Tables and requests keep their types; TypeOK alone does not survive a commit,
\* whose rows are numbered by the flushes before it.
THEOREM TypeCorrect == Spec => []TypeOK
  BY AlwaysTyped, TypeInvIsTypeOK, PTL

-----------------------------------------------------------------------------
(* The inductive invariant.  The other tables are what the itineraries say   *)
(* they are; ids in flight are nobody else's; a deletion holds what it will  *)
(* remove, and nobody else does.                                             *)

Saving == {"itinerary", "version", "commit"}
Numbering == {"version", "commit"}
Removing == {"delete_row", "delete_spec", "commit_plan"}

\* Ids are below the next one, and no two itineraries share one.
Keys ==
  /\ \A u \in users : u.id < serial["user"]
  /\ \A i \in itineraries :
       /\ i.id < serial["itinerary"]
       /\ i.tripspec_id < serial["tripspec"]
       /\ i.current_version_id < serial["version"]
  /\ \A i, j \in itineraries :
       \/ i.id = j.id
       \/ i.tripspec_id = j.tripspec_id
       \/ i.current_version_id = j.current_version_id
       => i = j

Derived ==
  /\ tripspecs = {[id |-> i.tripspec_id, user_id |-> i.user_id] : i \in itineraries}
  /\ versions = {[id |-> i.current_version_id, itinerary_id |-> i.id] : i \in itineraries}
  /\ contents = {i.current_version_id : i \in itineraries}

\* What a request has numbered and not committed is used by no stored plan...
Unused ==
  \A r \in Requests :
    /\ pc[r] \in Saving =>
         /\ plan[r].spec < serial["tripspec"]
         /\ \A i \in itineraries : i.tripspec_id # plan[r].spec
    /\ pc[r] \in Numbering =>
         /\ plan[r].id < serial["itinerary"]
         /\ \A i \in itineraries : i.id # plan[r].id
    /\ pc[r] = "commit" =>
         /\ plan[r].version < serial["version"]
         /\ \A i \in itineraries : i.current_version_id # plan[r].version

\* ... nor by another request.
Apart ==
  \A r, o \in Requests :
    r # o =>
      /\ pc[r] \in Saving /\ pc[o] \in Saving => plan[r].spec # plan[o].spec
      /\ pc[r] \in Numbering /\ pc[o] \in Numbering => plan[r].id # plan[o].id
      /\ pc[r] = "commit" /\ pc[o] = "commit" => plan[r].version # plan[o].version

\* A plan is saved for an account that is there and that no deletion holds.
Owned ==
  /\ OwnersExist
  /\ \A r \in Requests : pc[r] \in Saving => uid[r] \in UserIds \cup {Nobody}
  /\ \A r \in Requests : \A u :
       <<"user", u>> \in gone[r] =>
         /\ pc[r] = "cascade" /\ u = uid[r]
         /\ \A o \in Requests : ~SharesUser(o, u)

\* What a request deletes is there, and is its own to delete...
HeldBy(r) ==
  \A x :
    /\ <<"itinerary", x>> \in gone[r] =>
         /\ \E i \in itineraries : i.id = x /\ i.user_id = uid[r]
         /\ \/ pc[r] = "cascade"
            \/ pc[r] \in {"delete_spec", "commit_plan"} /\ x = plan[r].id
    /\ <<"tripspec", x>> \in gone[r] =>
         \E i \in itineraries :
           /\ i.tripspec_id = x /\ i.user_id = uid[r]
           /\ \/ pc[r] = "cascade"
              \/ pc[r] = "commit_plan" /\ <<"itinerary", i.id>> \in gone[r]

\* ... and no other request deletes it.
Held ==
  /\ \A r, o \in Requests : r # o => gone[r] \cap gone[o] = {}
  /\ \A r \in Requests : HeldBy(r)

\* An id that was found is no longer free: no plan will be stored under it.
Taken(r) ==
  /\ plan[r].id # 0 /\ plan[r].id < serial["itinerary"]
  /\ \A o \in Requests : pc[o] \in Numbering => plan[o].id # plan[r].id

\* The plan a deletion found, if it is still there.
RemovingPlan(r) ==
  pc[r] \in Removing =>
    /\ Taken(r)
    /\ \A i \in itineraries : i.id = plan[r].id =>
         /\ i.tripspec_id = plan[r].spec /\ i.user_id = uid[r]
         /\ pc[r] # "delete_row" => <<"itinerary", i.id>> \in gone[r]
         /\ pc[r] = "commit_plan" => <<"tripspec", i.tripspec_id>> \in gone[r]

RemovingAccount(r) ==
  /\ pc[r] \in {"verify", "lock_user", "cascade"} =>
       plan[r].id = 0 /\ uid[r] # Nobody /\ uid[r] < serial["user"]
  /\ pc[r] = "cascade" /\ uid[r] \in UserIds => <<"user", uid[r]>> \in gone[r]

Deleting == \A r \in Requests : RemovingPlan(r) /\ RemovingAccount(r)

DeletedBy(r) ==
  out[r] = "deleted" =>
    /\ pc[r] = "done"
    /\ \/ Taken(r) /\ \A i \in itineraries : i.id # plan[r].id
       \/ /\ plan[r].id = 0
          /\ uid[r] # Nobody /\ uid[r] < serial["user"] /\ uid[r] \notin UserIds

Deleted == \A r \in Requests : DeletedBy(r)

StoreInv == Keys /\ Derived /\ Unused /\ Apart /\ Owned /\ Held /\ Deleting /\ Deleted

-----------------------------------------------------------------------------
(* What the step of one request leaves to the others.                        *)

Same(o) == /\ pc'[o] = pc[o] /\ uid'[o] = uid[o] /\ plan'[o] = plan[o]
           /\ gone'[o] = gone[o] /\ out'[o] = out[o]

LEMMA HeldByKept ==
  ASSUME NEW o \in Requests, HeldBy(o), Same(o),
         \A i \in itineraries :
           \/ <<"itinerary", i.id>> \in gone[o]
           \/ <<"tripspec", i.tripspec_id>> \in gone[o]
           => i \in itineraries'
  PROVE  HeldBy(o)'
  <1> SUFFICES ASSUME NEW x
               PROVE  /\ <<"itinerary", x>> \in gone'[o] =>
                           /\ \E i \in itineraries' : i.id = x /\ i.user_id = uid'[o]
                           /\ \/ pc'[o] = "cascade"
                              \/ pc'[o] \in {"delete_spec", "commit_plan"} /\ x = plan'[o].id
                      /\ <<"tripspec", x>> \in gone'[o] =>
                           \E i \in itineraries' :
                             /\ i.tripspec_id = x /\ i.user_id = uid'[o]
                             /\ \/ pc'[o] = "cascade"
                                \/ pc'[o] = "commit_plan" /\ <<"itinerary", i.id>> \in gone'[o]
    BY DEF HeldBy
  <1>1. ASSUME <<"itinerary", x>> \in gone[o]
        PROVE  /\ \E i \in itineraries' : i.id = x /\ i.user_id = uid[o]
               /\ \/ pc[o] = "cascade"
                  \/ pc[o] \in {"delete_spec", "commit_plan"} /\ x = plan[o].id
    BY <1>1 DEF HeldBy
  <1>2. ASSUME <<"tripspec", x>> \in gone[o]
        PROVE  \E i \in itineraries' :
                 /\ i.tripspec_id = x /\ i.user_id = uid[o]
                 /\ \/ pc[o] = "cascade"
                    \/ pc[o] = "commit_plan" /\ <<"itinerary", i.id>> \in gone[o]
    BY <1>2 DEF HeldBy
  <1>3. QED
    BY <1>1, <1>2 DEF Same

LEMMA RemovingPlanKept ==
  ASSUME NEW o \in Requests, RemovingPlan(o), Same(o), Taken(o) => Taken(o)',
         \A i \in itineraries' : i.id = plan[o].id /\ Taken(o) => i \in itineraries
  PROVE  RemovingPlan(o)'
  BY DEF RemovingPlan, Same

LEMMA RemovingAccountKept ==
  ASSUME TypeInv, TypeInv', NEW o \in Requests, RemovingAccount(o), Same(o),
         serial["user"] <= serial'["user"],
         uid[o] < serial["user"] /\ uid[o] \in UserIds' => uid[o] \in UserIds
  PROVE  RemovingAccount(o)'
  <1>1. /\ uid[o] \in Nat /\ serial["user"] \in Nat /\ serial'["user"] \in Nat
    BY DEF TypeInv, LocalsOK, SerialOK, Table, Id
  <1>2. pc[o] \in {"verify", "lock_user", "cascade"} =>
          plan[o].id = 0 /\ uid[o] # Nobody /\ uid[o] < serial'["user"]
    BY <1>1 DEF RemovingAccount
  <1>3. pc[o] = "cascade" /\ uid[o] \in UserIds' => <<"user", uid[o]>> \in gone[o]
    BY DEF RemovingAccount
  <1>4. QED
    BY <1>2, <1>3 DEF RemovingAccount, Same

LEMMA DeletedByKept ==
  ASSUME TypeInv, TypeInv', NEW o \in Requests, DeletedBy(o), Same(o), Taken(o) => Taken(o)',
         serial["user"] <= serial'["user"],
         uid[o] < serial["user"] /\ uid[o] \in UserIds' => uid[o] \in UserIds,
         \A i \in itineraries' : i.id = plan[o].id /\ Taken(o) => i \in itineraries
  PROVE  DeletedBy(o)'
  <1>1. /\ uid[o] \in Nat /\ serial["user"] \in Nat /\ serial'["user"] \in Nat
    BY DEF TypeInv, LocalsOK, SerialOK, Table, Id
  <1>2. CASE Taken(o) /\ \A i \in itineraries : i.id # plan[o].id
    BY <1>2 DEF DeletedBy, Same
  <1>3. CASE /\ plan[o].id = 0
             /\ uid[o] # Nobody /\ uid[o] < serial["user"] /\ uid[o] \notin UserIds
    BY <1>1, <1>3 DEF DeletedBy, Same
  <1>4. CASE out[o] # "deleted"
    BY <1>4 DEF DeletedBy, Same
  <1>5. QED
    BY <1>2, <1>3, <1>4 DEF DeletedBy

\* An id stays taken as long as ids in flight stay, or are new.
LEMMA TakenKept ==
  ASSUME TypeInv, TypeInv', NEW o \in Requests, Same(o),
         serial["itinerary"] <= serial'["itinerary"],
         \A q \in Requests : pc'[q] \in Numbering =>
           \/ pc[q] \in Numbering /\ plan'[q].id = plan[q].id
           \/ plan'[q].id = serial["itinerary"]
  PROVE  Taken(o) => Taken(o)'
  <1>1. /\ plan[o].id \in Nat /\ serial["itinerary"] \in Nat /\ serial'["itinerary"] \in Nat
    BY DEF TypeInv, LocalsOK, SerialOK, Table, Id
  <1>2. QED
    BY <1>1 DEF Taken, Same

\* The waypoints of a request that holds nothing, numbers nothing and has found
\* nothing it will delete.
Calm == Waypoints \ (Saving \cup Removing \cup {"verify", "lock_user", "cascade"})

\* Only r moves, the ids given out only grow, and a user may be added.
Quiet(r, to) ==
  /\ pc' = [pc EXCEPT ![r] = to]
  /\ UNCHANGED <<tripspecs, itineraries, versions, contents>>
  /\ \A t \in Table : serial[t] <= serial'[t]
  /\ users \subseteq users'
  /\ \A u \in users' : u \in users \/ (u.id = serial["user"] /\ u.id < serial'["user"])
  /\ \A o \in Requests \ {r} : /\ uid'[o] = uid[o] /\ plan'[o] = plan[o]
                                /\ gone'[o] = gone[o] /\ out'[o] = out[o]
  /\ gone'[r] = {} \/ (gone'[r] = gone[r] /\ pc[r] \in Calm)
  /\ out'[r] # "deleted"

LEMMA QuietStep ==
  ASSUME TypeInv, TypeInv', StoreInv, NEW r \in Requests, NEW to \in Calm, Quiet(r, to)
  PROVE  StoreInv'
  <1> USE DEF StoreInv, TypeInv
  <1>0. /\ pc \in [Requests -> Waypoints] /\ plan \in [Requests -> [id : Nat, spec : Nat, version : Nat]]
        /\ serial \in [Table -> Nat] /\ serial' \in [Table -> Nat]
        /\ \A i \in itineraries : /\ i.id \in Nat /\ i.tripspec_id \in Nat
                                   /\ i.current_version_id \in Nat
        /\ \A u \in users' : u.id \in Nat
        /\ uid \in [Requests -> Nat]
    BY DEF LocalsOK, SerialOK, TablesOK, Id, Itinerary, User
  <1>p. /\ pc'[r] = to
        /\ \A o \in Requests \ {r} : pc'[o] = pc[o]
    BY <1>0 DEF Quiet
  <1>s. /\ serial["user"] <= serial'["user"] /\ serial["itinerary"] <= serial'["itinerary"]
        /\ serial["tripspec"] <= serial'["tripspec"] /\ serial["version"] <= serial'["version"]
        /\ serial["user"] \in Nat /\ serial["itinerary"] \in Nat
        /\ serial["tripspec"] \in Nat /\ serial["version"] \in Nat
        /\ serial'["user"] \in Nat /\ serial'["itinerary"] \in Nat
        /\ serial'["tripspec"] \in Nat /\ serial'["version"] \in Nat
    BY <1>0 DEF Quiet, Table
  <1>c. to \notin Saving /\ to \notin Numbering /\ to # "commit" /\ to \notin Removing
        /\ to \notin {"verify", "lock_user", "cascade"}
    BY DEF Calm, Saving, Numbering
  <1>u. UserIds \subseteq UserIds' /\ \A n : n \in UserIds' => n \in UserIds \/ n = serial["user"]
    BY DEF Quiet, UserIds
  <1>o. \A o \in Requests \ {r} : Same(o)
    BY <1>p DEF Quiet, Same
  <1>1. Keys'
    BY <1>0, <1>s DEF Keys, Quiet
  <1>2. Derived'
    BY DEF Derived, Quiet
  <1>3. Unused'
    BY <1>0, <1>p, <1>s, <1>c DEF Unused, Quiet
  <1>4. Apart'
    BY <1>p, <1>c DEF Apart, Quiet
  <1>g. /\ \A u : <<"user", u>> \notin gone'[r]
        /\ \A x : <<"itinerary", x>> \notin gone'[r]
        /\ \A x : <<"tripspec", x>> \notin gone'[r]
    BY <1>c DEF Owned, Held, HeldBy, Quiet, Calm, Removing
  <1>5. Owned'
    <2>1. \A o \in Requests : \A u : SharesUser(o, u)' => SharesUser(o, u)
      BY <1>p, <1>c DEF SharesUser, Saving, Quiet
    <2>2. OwnersExist'
      BY <1>u DEF Owned, OwnersExist, Quiet
    <2>3. QED
      BY <1>p, <1>c, <1>u, <1>g, <2>1, <2>2 DEF Owned, Quiet
  <1>6. Held'
    <2>1. gone'[r] \subseteq gone[r]
      BY DEF Quiet
    <2>2. \A o, q \in Requests : o # q => gone'[o] \cap gone'[q] = {}
      <3>1. \A o \in Requests : gone'[o] \subseteq gone[o]
        BY <2>1 DEF Quiet
      <3>2. QED
        BY <3>1 DEF Held
    <2>3. ASSUME NEW o \in Requests PROVE HeldBy(o)'
      <3>1. CASE o = r
        BY <3>1, <1>g DEF HeldBy
      <3>2. CASE o # r
        BY <3>2, <1>o, HeldByKept DEF Held, Quiet
      <3>3. QED
        BY <3>1, <3>2
    <2>4. QED
      BY <2>2, <2>3 DEF Held
  <1>t. ASSUME NEW o \in Requests \ {r} PROVE Taken(o) => Taken(o)'
    BY <1>p, <1>s, <1>c, <1>o, TakenKept DEF Quiet
  <1>n. \A o \in Requests : uid[o] < serial["user"] /\ uid[o] \in UserIds' => uid[o] \in UserIds
    BY <1>0, <1>s, <1>u
  <1>7. Deleting'
    <2>1. RemovingPlan(r)' /\ RemovingAccount(r)'
      BY <1>p, <1>c DEF RemovingPlan, RemovingAccount
    <2>2. ASSUME NEW o \in Requests \ {r} PROVE RemovingPlan(o)'
      BY <1>o, <1>t, RemovingPlanKept DEF Deleting, Quiet
    <2>3. ASSUME NEW o \in Requests \ {r} PROVE RemovingAccount(o)'
      BY <1>o, <1>s, <1>n, RemovingAccountKept DEF Deleting
    <2>4. QED
      BY <2>1, <2>2, <2>3 DEF Deleting
  <1>8. Deleted'
    <2>1. DeletedBy(r)'
      BY DEF DeletedBy, Quiet
    <2>2. ASSUME NEW o \in Requests \ {r} PROVE DeletedBy(o)'
      BY <1>o, <1>s, <1>n, <1>t, DeletedByKept DEF Deleted, Quiet
    <2>3. QED
      BY <2>1, <2>2 DEF Deleted
  <1>9. QED
    BY <1>1, <1>2, <1>3, <1>4, <1>5, <1>6, <1>7, <1>8

\* The conjuncts about each request, for all but the one that moves.
LEMMA OthersKept ==
  ASSUME TypeInv, TypeInv', StoreInv, NEW r \in Requests,
         \A o \in Requests \ {r} : Same(o),
         serial["user"] <= serial'["user"], serial["itinerary"] <= serial'["itinerary"],
         UserIds' \subseteq UserIds,
         pc'[r] \in Numbering =>
           \/ pc[r] \in Numbering /\ plan'[r].id = plan[r].id
           \/ plan'[r].id = serial["itinerary"],
         \A i \in itineraries' :
           i \in itineraries \/ (pc[r] = "commit" /\ i.id = plan[r].id),
         \A i \in itineraries : \A o \in Requests \ {r} :
           \/ <<"itinerary", i.id>> \in gone[o]
           \/ <<"tripspec", i.tripspec_id>> \in gone[o]
           => i \in itineraries',
         NEW o \in Requests \ {r}
  PROVE  HeldBy(o)' /\ RemovingPlan(o)' /\ RemovingAccount(o)' /\ DeletedBy(o)'
  <1>1. HeldBy(o) /\ RemovingPlan(o) /\ RemovingAccount(o) /\ DeletedBy(o)
    BY DEF StoreInv, Held, Deleting, Deleted
  <1>2. \A q \in Requests : pc'[q] \in Numbering =>
           \/ pc[q] \in Numbering /\ plan'[q].id = plan[q].id
           \/ plan'[q].id = serial["itinerary"]
    BY DEF Same
  <1>3. Taken(o) => Taken(o)'
    BY <1>2, TakenKept
  <1>4. \A i \in itineraries' : i.id = plan[o].id /\ Taken(o) => i \in itineraries
    BY DEF Taken, Numbering
  <1>5. QED
    BY <1>1, <1>3, <1>4, HeldByKept, RemovingPlanKept, RemovingAccountKept, DeletedByKept

-----------------------------------------------------------------------------
(* The steps of deletions that leave the tables alone                        *)

LEMMA LockingKeeps ==
  ASSUME TypeInv, TypeInv', StoreInv, NEW r \in Requests,
         UNCHANGED <<tables, serial>>,
         \A o \in Requests \ {r} : Same(o),
         pc'[r] \notin Saving
  PROVE  /\ Keys' /\ Derived' /\ Unused' /\ Apart'
         /\ OwnersExist'
         /\ \A o \in Requests : pc'[o] \in Saving => uid'[o] \in UserIds' \cup {Nobody}
         /\ \A o \in Requests : \A u : SharesUser(o, u)' => SharesUser(o, u)
         /\ \A o \in Requests \ {r} :
              HeldBy(o)' /\ RemovingPlan(o)' /\ RemovingAccount(o)' /\ DeletedBy(o)'
  <1> USE DEF StoreInv
  <1>1. /\ UserIds' = UserIds /\ UNCHANGED <<users, tripspecs, itineraries, versions, contents>>
    BY DEF UserIds, tables
  <1>2. pc'[r] \notin Numbering /\ pc'[r] # "commit"
    BY DEF Saving, Numbering
  <1>3. Keys' /\ Derived'
    BY <1>1 DEF Keys, Derived
  <1>4. Unused'
    BY <1>1, <1>2 DEF Unused, Same
  <1>5. Apart'
    BY <1>2 DEF Apart, Same
  <1>6. OwnersExist'
    BY <1>1 DEF Owned, OwnersExist
  <1>7. \A o \in Requests : pc'[o] \in Saving => uid'[o] \in UserIds' \cup {Nobody}
    BY <1>1 DEF Owned, Same
  <1>8. \A o \in Requests : \A u : SharesUser(o, u)' => SharesUser(o, u)
    BY DEF SharesUser, Saving, Same
  <1>9. serial["user"] \in Nat /\ serial["itinerary"] \in Nat
    BY DEF TypeInv, SerialOK, Table, Id
  <1>10. ASSUME NEW o \in Requests \ {r}
         PROVE  HeldBy(o)' /\ RemovingPlan(o)' /\ RemovingAccount(o)' /\ DeletedBy(o)'
    BY <1>1, <1>2, <1>9, OthersKept
  <1>11. QED
    BY <1>3, <1>4, <1>5, <1>6, <1>7, <1>8, <1>10

\* A request that goes on to hold nothing more than it did.
LEMMA ClaimStep ==
  ASSUME TypeInv, TypeInv', StoreInv, NEW r \in Requests,
         UNCHANGED <<tables, serial>>,
         \A o \in Requests \ {r} : Same(o),
         pc[r] \in Calm \cup {"verify"}, gone'[r] = gone[r], out'[r] = out[r],
         pc'[r] \in {"delete_row", "verify", "lock_user"},
         pc[r] # "done",
         RemovingPlan(r)', RemovingAccount(r)'
  PROVE  StoreInv'
  <1> USE DEF StoreInv
  <1>1. pc'[r] \notin Saving
    BY DEF Saving
  <1>2. /\ \A u : <<"user", u>> \notin gone[r]
        /\ \A x : <<"itinerary", x>> \notin gone[r]
        /\ \A x : <<"tripspec", x>> \notin gone[r]
    BY DEF Owned, Held, HeldBy, Calm, Removing
  <1>3. \A o \in Requests : gone'[o] = gone[o]
    BY DEF Same
  <1>4. Owned'
    BY <1>1, <1>2, LockingKeeps DEF Owned, Same
  <1>5. Held'
    <2>1. HeldBy(r)'
      BY <1>2 DEF HeldBy
    <2>2. QED
      BY <1>1, <1>3, <2>1, LockingKeeps DEF Held
  <1>6. DeletedBy(r)'
    BY DEF Deleted, DeletedBy
  <1>7. QED
    BY <1>1, <1>4, <1>5, <1>6, LockingKeeps DEF Deleting, Deleted

\* A DELETE adds rows nobody else holds.
LEMMA HoldStep ==
  ASSUME TypeInv, TypeInv', StoreInv, NEW r \in Requests, NEW rows,
         NEW to \in {"delete_spec", "commit_plan", "cascade"},
         Delete(r, rows, to), pc[r] # "done",
         \A row \in rows : Deleters(r, row) = {},
         \A u : <<"user", u>> \in gone'[r] =>
            to = "cascade" /\ u = uid[r] /\ \A o \in Requests : ~SharesUser(o, u)',
         HeldBy(r)', RemovingPlan(r)', RemovingAccount(r)'
  PROVE  StoreInv'
  <1> USE DEF StoreInv
  <1>0. /\ pc' = [pc EXCEPT ![r] = to] /\ gone' = [gone EXCEPT ![r] = gone[r] \cup rows]
        /\ UNCHANGED <<tables, serial, email, uid, plan, days, out>>
        /\ pc \in [Requests -> Waypoints] /\ gone \in [Requests -> SUBSET (Table \X Nat)]
    BY DEF Delete, Go, TypeInv, LocalsOK
  <1>1. pc'[r] = to /\ gone'[r] = gone[r] \cup rows /\ to \notin Saving
    BY <1>0 DEF Saving
  <1>2. \A o \in Requests \ {r} : Same(o)
    BY <1>0 DEF Same
  <1>3. UNCHANGED <<tables, serial>>
    BY <1>0
  <1>4. Owned'
    <2>1. \A o \in Requests : uid'[o] = uid[o]
      BY <1>0
    <2>2. ASSUME NEW o \in Requests \ {r}, NEW u, <<"user", u>> \in gone'[o]
          PROVE  /\ pc'[o] = "cascade" /\ u = uid'[o]
                 /\ \A q \in Requests : ~SharesUser(q, u)'
      BY <1>1, <1>2, <1>3, <2>2, LockingKeeps DEF Owned, Same
    <2>3. QED
      BY <1>1, <1>2, <1>3, <2>1, <2>2, LockingKeeps DEF Owned
  <1>5. Held'
    <2>1. ASSUME NEW o \in Requests \ {r} PROVE gone'[r] \cap gone'[o] = {}
      <3>1. \A row \in rows : row \notin gone[o]
        BY DEF Deleters
      <3>2. gone'[o] = gone[o] /\ gone[r] \cap gone[o] = {}
        BY <1>2 DEF Same, Held
      <3>3. QED
        BY <1>1, <3>1, <3>2
    <2>2. \A o, q \in Requests : o # q => gone'[o] \cap gone'[q] = {}
      BY <1>2, <2>1 DEF Same, Held
    <2>3. QED
      BY <1>1, <1>2, <1>3, <2>2, LockingKeeps DEF Held
  <1>6. DeletedBy(r)'
    BY <1>0 DEF Deleted, DeletedBy
  <1>7. QED
    BY <1>1, <1>2, <1>3, <1>4, <1>5, <1>6, LockingKeeps DEF Deleting, Deleted

LEMMA DeletePlanRowStep ==
  ASSUME TypeInv, TypeInv', StoreInv, NEW r \in Requests, DeletePlanRow(r)
  PROVE  StoreInv'
  <1> DEFINE rows == {<<"itinerary", i.id>> : i \in {j \in itineraries : j.id = plan[r].id}}
  <1>0. /\ pc[r] = "delete_row" /\ Delete(r, rows, "delete_spec")
        /\ Holders(r, <<"itinerary", plan[r].id>>) = {}
    BY DEF DeletePlanRow, WaitsFor
  <1>1. /\ pc'[r] = "delete_spec" /\ gone'[r] = gone[r] \cup rows
        /\ \A o \in Requests \ {r} : pc'[o] = pc[o]
        /\ UNCHANGED <<tables, serial, uid, plan>>
    BY <1>0 DEF Delete, Go, TypeInv, LocalsOK
  <1>2. \A row \in rows : row = <<"itinerary", plan[r].id>>
    OBVIOUS
  <1>3. \A row \in rows : Deleters(r, row) = {}
    BY <1>0, <1>2 DEF Holders
  <1>4. /\ Taken(r)
        /\ \A i \in itineraries : i.id = plan[r].id =>
             i.tripspec_id = plan[r].spec /\ i.user_id = uid[r]
    BY <1>0 DEF StoreInv, Deleting, RemovingPlan, Removing
  <1>5. /\ \A u : <<"user", u>> \notin gone[r]
        /\ \A x : <<"itinerary", x>> \notin gone[r]
        /\ \A x : <<"tripspec", x>> \notin gone[r]
    BY <1>0 DEF StoreInv, Owned, Held, HeldBy
  <1>6. /\ \A u : <<"user", u>> \notin gone'[r]
        /\ \A x : <<"itinerary", x>> \in gone'[r] =>
             x = plan[r].id /\ \E i \in itineraries : i.id = x
        /\ \A x : <<"tripspec", x>> \notin gone'[r]
    BY <1>1, <1>5
  <1>7. HeldBy(r)'
    BY <1>1, <1>4, <1>6 DEF HeldBy, tables
  <1>8. RemovingPlan(r)'
    <2>1. Taken(r)'
      BY <1>1, <1>4 DEF Taken, Numbering
    <2>2. QED
      BY <1>1, <1>4, <2>1 DEF RemovingPlan, tables
  <1>9. RemovingAccount(r)'
    BY <1>1 DEF RemovingAccount
  <1> HIDE DEF rows
  <1>10. QED
    BY <1>0, <1>3, <1>6, <1>7, <1>8, <1>9, HoldStep

LEMMA DeleteSpecRowStep ==
  ASSUME TypeInv, TypeInv', StoreInv, NEW r \in Requests, DeleteSpecRow(r)
  PROVE  StoreInv'
  <1> DEFINE rows == {<<"tripspec", s.id>> :
                        s \in {t \in tripspecs :
                                 /\ t.id = plan[r].spec
                                 /\ \A i \in itineraries : i.tripspec_id = t.id
                                      => <<"itinerary", i.id>> \in gone[r]}}
  <1>0. /\ pc[r] = "delete_spec" /\ Delete(r, rows, "commit_plan")
        /\ Holders(r, <<"tripspec", plan[r].spec>>) = {}
    BY DEF DeleteSpecRow, WaitsFor
  <1>1. /\ pc'[r] = "commit_plan" /\ gone'[r] = gone[r] \cup rows
        /\ \A o \in Requests \ {r} : pc'[o] = pc[o]
        /\ UNCHANGED <<tables, serial, uid, plan>>
    BY <1>0 DEF Delete, Go, TypeInv, LocalsOK
  <1>2. \A row \in rows : Deleters(r, row) = {}
    BY <1>0 DEF Holders
  <1>3. /\ Taken(r)
        /\ \A i \in itineraries : i.id = plan[r].id =>
             /\ i.tripspec_id = plan[r].spec /\ i.user_id = uid[r]
             /\ <<"itinerary", i.id>> \in gone[r]
    BY <1>0 DEF StoreInv, Deleting, RemovingPlan, Removing
  <1>4. /\ \A u : <<"user", u>> \notin gone[r]
        /\ \A x : <<"itinerary", x>> \in gone[r] =>
             x = plan[r].id /\ \E i \in itineraries : i.id = x /\ i.user_id = uid[r]
        /\ \A x : <<"tripspec", x>> \notin gone[r]
    BY <1>0 DEF StoreInv, Owned, Held, HeldBy
  <1>5. /\ \A u : <<"user", u>> \notin gone'[r]
        /\ \A x : <<"itinerary", x>> \in gone'[r] <=> <<"itinerary", x>> \in gone[r]
        /\ \A x : <<"tripspec", x>> \in gone'[r] =>
             \E i \in itineraries :
               i.tripspec_id = x /\ i.user_id = uid[r] /\ <<"itinerary", i.id>> \in gone[r]
    <2>1. \A row \in rows : \E s \in tripspecs :
            /\ row = <<"tripspec", s.id>>
            /\ \A i \in itineraries : i.tripspec_id = s.id => <<"itinerary", i.id>> \in gone[r]
      OBVIOUS
    <2>2. \A s \in tripspecs : \E i \in itineraries : i.tripspec_id = s.id
      BY DEF StoreInv, Derived
    <2>3. \A i \in itineraries : <<"itinerary", i.id>> \in gone[r] => i.user_id = uid[r]
      BY <1>3, <1>4
    <2>4. ASSUME NEW x, <<"tripspec", x>> \in gone'[r]
          PROVE  \E i \in itineraries :
                   i.tripspec_id = x /\ i.user_id = uid[r] /\ <<"itinerary", i.id>> \in gone[r]
      <3>1. PICK s \in tripspecs :
              /\ x = s.id
              /\ \A i \in itineraries : i.tripspec_id = s.id => <<"itinerary", i.id>> \in gone[r]
        BY <1>1, <1>4, <2>1, <2>4
      <3>2. QED
        BY <3>1, <2>2, <2>3
    <2>5. QED
      BY <1>1, <1>4, <2>4
  <1>6. HeldBy(r)'
    <2>1. itineraries' = itineraries
      BY <1>1 DEF tables
    <2>2. ASSUME NEW x, <<"itinerary", x>> \in gone'[r]
          PROVE  x = plan'[r].id /\ \E i \in itineraries' : i.id = x /\ i.user_id = uid'[r]
      BY <1>1, <1>4, <1>5, <2>1, <2>2
    <2>3. ASSUME NEW x, <<"tripspec", x>> \in gone'[r]
          PROVE  \E i \in itineraries' : /\ i.tripspec_id = x /\ i.user_id = uid'[r]
                                         /\ <<"itinerary", i.id>> \in gone'[r]
      BY <1>1, <1>5, <2>1, <2>3
    <2>4. QED
      BY <1>1, <2>2, <2>3 DEF HeldBy
  <1>7. RemovingPlan(r)'
    <2>1. Taken(r)'
      BY <1>1, <1>3 DEF Taken, Numbering
    <2>2. ASSUME NEW i \in itineraries, i.id = plan[r].id
          PROVE  <<"tripspec", i.tripspec_id>> \in gone'[r]
      <3>1. [id |-> i.tripspec_id, user_id |-> i.user_id] \in tripspecs
        BY DEF StoreInv, Derived
      <3>2. \A j \in itineraries : j.tripspec_id = i.tripspec_id => j = i
        BY DEF StoreInv, Keys
      <3>3. <<"tripspec", [id |-> i.tripspec_id, user_id |-> i.user_id].id>> \in rows
        BY <1>3, <2>2, <3>1, <3>2
      <3>4. QED
        BY <1>1, <3>3
    <2>3. QED
      BY <1>1, <1>3, <1>5, <2>1, <2>2 DEF RemovingPlan, tables
  <1>8. RemovingAccount(r)'
    BY <1>1 DEF RemovingAccount
  <1> HIDE DEF rows
  <1>9. QED
    BY <1>0, <1>2, <1>5, <1>6, <1>7, <1>8, HoldStep

LEMMA DeleteUserRowStep ==
  ASSUME TypeInv, TypeInv', StoreInv, NEW r \in Requests, DeleteUserRow(r)
  PROVE  StoreInv'
  <1> DEFINE rows == {<<"user", u>> : u \in UserIds \cap {uid[r]}}
  <1>0. /\ pc[r] = "lock_user" /\ Delete(r, rows, "cascade")
        /\ Holders(r, <<"user", uid[r]>>) = {}
    BY DEF DeleteUserRow, WaitsFor
  <1>1. /\ pc'[r] = "cascade" /\ gone'[r] = gone[r] \cup rows
        /\ \A o \in Requests \ {r} : pc'[o] = pc[o]
        /\ UNCHANGED <<tables, serial, uid, plan>>
    BY <1>0 DEF Delete, Go, TypeInv, LocalsOK
  <1>2. \A row \in rows : Deleters(r, row) = {}
    BY <1>0 DEF Holders
  <1>3. \A u : <<"user", u>> \notin gone[r]
    BY <1>0 DEF StoreInv, Owned
  <1>4. /\ \A x : <<"itinerary", x>> \notin gone'[r]
        /\ \A x : <<"tripspec", x>> \notin gone'[r]
    BY <1>0, <1>1 DEF StoreInv, Held, HeldBy
  <1>5. \A o \in Requests : ~SharesUser(o, uid[r])'
    <2>1. \A o \in Requests \ {r} : ~SharesUser(o, uid[r])
      BY <1>0 DEF Holders
    <2>2. QED
      BY <1>1, <2>1 DEF SharesUser
  <1>6. \A u : <<"user", u>> \in gone'[r] =>
          u = uid[r] /\ \A o \in Requests : ~SharesUser(o, u)'
    <2>1. \A u : <<"user", u>> \in gone'[r] => u = uid[r]
      BY <1>1, <1>3
    <2>2. QED
      BY <1>1, <1>5, <2>1 DEF SharesUser
  <1>7. HeldBy(r)' /\ RemovingPlan(r)'
    BY <1>1, <1>4 DEF HeldBy, RemovingPlan, Removing
  <1>8. RemovingAccount(r)'
    <2>1. plan[r].id = 0 /\ uid[r] # Nobody /\ uid[r] < serial["user"]
      BY <1>0 DEF StoreInv, Deleting, RemovingAccount
    <2>2. UserIds' = UserIds
      BY <1>1 DEF UserIds, tables
    <2>3. QED
      BY <1>1, <2>1, <2>2 DEF RemovingAccount
  <1> HIDE DEF rows
  <1>9. QED
    BY <1>0, <1>2, <1>6, <1>7, <1>8, HoldStep

LEMMA CascadeRowStep ==
  ASSUME TypeInv, TypeInv', StoreInv, NEW r \in Requests, CascadeRow(r)
  PROVE  StoreInv'
  <1>0. PICK row \in RowsToCascade(r) :
          pc[r] = "cascade" /\ Holders(r, row) = {} /\ Delete(r, {row}, "cascade")
    BY DEF CascadeRow
  <1>1. /\ pc'[r] = "cascade" /\ gone'[r] = gone[r] \cup {row}
        /\ \A o \in Requests : pc'[o] = pc[o]
        /\ UNCHANGED <<tables, serial, uid, plan>>
    BY <1>0 DEF Delete, Go, TypeInv, LocalsOK
  <1>2. \A q \in {row} : Deleters(r, q) = {}
    BY <1>0 DEF Holders
  <1>3. \/ \E s \in tripspecs : s.user_id = uid[r] /\ row = <<"tripspec", s.id>>
        \/ \E i \in itineraries : i.user_id = uid[r] /\ row = <<"itinerary", i.id>>
    BY DEF RowsToCascade
  <1>4. \A u : <<"user", u>> \in gone'[r] =>
          u = uid[r] /\ \A o \in Requests : ~SharesUser(o, u)'
    <2>1. ASSUME NEW u, <<"user", u>> \in gone'[r] PROVE <<"user", u>> \in gone[r]
      BY <1>1, <1>3, <2>1
    <2>2. \A o \in Requests : \A u : SharesUser(o, u)' <=> SharesUser(o, u)
      BY <1>1 DEF SharesUser
    <2>3. QED
      BY <2>1, <2>2 DEF StoreInv, Owned
  <1>5. HeldBy(r)'
    <2>1. HeldBy(r) /\ itineraries' = itineraries
      BY <1>1 DEF StoreInv, Held, tables
    <2>2. \A s \in tripspecs : \E i \in itineraries :
            i.tripspec_id = s.id /\ i.user_id = s.user_id
      BY DEF StoreInv, Derived
    <2>3. ASSUME NEW x, <<"itinerary", x>> \in gone'[r]
          PROVE  \E i \in itineraries : i.id = x /\ i.user_id = uid[r]
      <3>1. CASE <<"itinerary", x>> \in gone[r]
        BY <2>1, <3>1 DEF HeldBy
      <3>2. CASE <<"itinerary", x>> = row
        BY <1>3, <3>2
      <3>3. QED
        BY <1>1, <2>3, <3>1, <3>2
    <2>4. ASSUME NEW x, <<"tripspec", x>> \in gone'[r]
          PROVE  \E i \in itineraries : i.tripspec_id = x /\ i.user_id = uid[r]
      <3>1. CASE <<"tripspec", x>> \in gone[r]
        BY <2>1, <3>1 DEF HeldBy
      <3>2. CASE <<"tripspec", x>> = row
        <4>1. PICK s \in tripspecs : s.user_id = uid[r] /\ s.id = x
          BY <1>3, <3>2
        <4>2. QED
          BY <2>2, <4>1
      <3>3. QED
        BY <1>1, <2>4, <3>1, <3>2
    <2>5. ASSUME NEW x
          PROVE  /\ <<"itinerary", x>> \in gone'[r] =>
                      \E i \in itineraries' : i.id = x /\ i.user_id = uid'[r]
                 /\ <<"tripspec", x>> \in gone'[r] =>
                      \E i \in itineraries' : i.tripspec_id = x /\ i.user_id = uid'[r]
      BY <1>1, <2>1, <2>3, <2>4
    <2>6. QED
      BY <1>1, <2>5 DEF HeldBy
  <1>6. RemovingPlan(r)'
    BY <1>1 DEF RemovingPlan, Removing
  <1>7. RemovingAccount(r)'
    <2>1. UserIds' = UserIds
      BY <1>1 DEF UserIds, tables
    <2>2. QED
      BY <1>0, <1>1, <2>1 DEF StoreInv, Deleting, RemovingAccount
  <1>8. pc[r] # "done"
    BY <1>0
  <1>9. Delete(r, {row}, "cascade")
    BY <1>0
  <1>10. QED
    BY <1>2, <1>4, <1>5, <1>6, <1>7, <1>8, <1>9, HoldStep

-----------------------------------------------------------------------------
(* The commits of deletions                                                  *)

\* Where a deletion commits, it holds a plan if and only if it holds the plan's
\* request, and every row of the account it holds.
Complete(r) ==
  /\ pc[r] \in {"commit_plan", "cascade"}
  /\ \A i \in itineraries :
       <<"itinerary", i.id>> \in gone[r] <=> <<"tripspec", i.tripspec_id>> \in gone[r]
  /\ \A i \in itineraries :
       <<"user", i.user_id>> \in gone[r] => <<"itinerary", i.id>> \in gone[r]

LEMMA DeleteIsComplete ==
  ASSUME TypeInv, StoreInv, NEW r \in Requests, CommitDelete(r)
  PROVE  Complete(r)
  <1>1. pc[r] = "commit_plan"
    BY DEF CommitDelete
  <1>2. \A x : /\ <<"user", x>> \notin gone[r]
               /\ <<"itinerary", x>> \in gone[r] => x = plan[r].id
               /\ <<"tripspec", x>> \in gone[r] =>
                    \E i \in itineraries : i.tripspec_id = x /\ <<"itinerary", i.id>> \in gone[r]
    BY <1>1 DEF StoreInv, Owned, Held, HeldBy
  <1>3. \A i \in itineraries :
          <<"itinerary", i.id>> \in gone[r] => <<"tripspec", i.tripspec_id>> \in gone[r]
    BY <1>1, <1>2 DEF StoreInv, Deleting, RemovingPlan, Removing
  <1>4. \A i \in itineraries :
          <<"tripspec", i.tripspec_id>> \in gone[r] => <<"itinerary", i.id>> \in gone[r]
    <2> SUFFICES ASSUME NEW i \in itineraries, <<"tripspec", i.tripspec_id>> \in gone[r]
                 PROVE  <<"itinerary", i.id>> \in gone[r]
      OBVIOUS
    <2>1. PICK j \in itineraries :
            j.tripspec_id = i.tripspec_id /\ <<"itinerary", j.id>> \in gone[r]
      BY <1>2
    <2>2. j = i
      BY <2>1 DEF StoreInv, Keys
    <2>3. QED
      BY <2>1, <2>2
  <1>5. QED
    BY <1>1, <1>2, <1>3, <1>4 DEF Complete

LEMMA AccountIsComplete ==
  ASSUME TypeInv, StoreInv, NEW r \in Requests, CommitAccount(r)
  PROVE  /\ Complete(r)
         /\ \A i \in itineraries :
              i.user_id = uid[r] => <<"itinerary", i.id>> \in gone[r]
  <1>1. pc[r] = "cascade" /\ RowsToCascade(r) = {}
    BY DEF CommitAccount
  <1>2. /\ \A s \in tripspecs : s.user_id = uid[r] => <<"tripspec", s.id>> \in gone[r]
        /\ \A i \in itineraries : i.user_id = uid[r] => <<"itinerary", i.id>> \in gone[r]
    <2> DEFINE specs == {<<"tripspec", s.id>> : s \in {t \in tripspecs : t.user_id = uid[r]}}
               plans == {<<"itinerary", i.id>> : i \in {t \in itineraries : t.user_id = uid[r]}}
    <2>1. IF specs \subseteq gone[r] THEN plans \ gone[r] = {} ELSE specs \ gone[r] = {}
      BY <1>1 DEF RowsToCascade
    <2>2. specs \subseteq gone[r] /\ plans \subseteq gone[r]
      <3> HIDE DEF specs, plans
      <3>1. QED
        BY <2>1
    <2>3. QED
      BY <2>2
  <1>3. \A i \in itineraries : i.user_id = uid[r] => <<"tripspec", i.tripspec_id>> \in gone[r]
    <2> SUFFICES ASSUME NEW i \in itineraries, i.user_id = uid[r]
                 PROVE  <<"tripspec", i.tripspec_id>> \in gone[r]
      OBVIOUS
    <2>1. [id |-> i.tripspec_id, user_id |-> i.user_id] \in tripspecs
      BY DEF StoreInv, Derived
    <2>2. QED
      BY <1>2, <2>1
  <1>4. \A x : /\ <<"user", x>> \in gone[r] => x = uid[r]
               /\ <<"itinerary", x>> \in gone[r] =>
                    \E i \in itineraries : i.id = x /\ i.user_id = uid[r]
               /\ <<"tripspec", x>> \in gone[r] =>
                    \E i \in itineraries : i.tripspec_id = x /\ i.user_id = uid[r]
    <2> SUFFICES ASSUME NEW x
                 PROVE  /\ <<"user", x>> \in gone[r] => x = uid[r]
                        /\ <<"itinerary", x>> \in gone[r] =>
                             \E i \in itineraries : i.id = x /\ i.user_id = uid[r]
                        /\ <<"tripspec", x>> \in gone[r] =>
                             \E i \in itineraries : i.tripspec_id = x /\ i.user_id = uid[r]
      OBVIOUS
    <2>1. Owned /\ HeldBy(r)
      BY DEF StoreInv, Held
    <2>2. <<"user", x>> \in gone[r] => x = uid[r]
      BY <2>1 DEF Owned
    <2>3. /\ <<"itinerary", x>> \in gone[r] =>
               \E i \in itineraries : i.id = x /\ i.user_id = uid[r]
          /\ <<"tripspec", x>> \in gone[r] =>
               \E i \in itineraries : i.tripspec_id = x /\ i.user_id = uid[r]
      BY <2>1 DEF HeldBy
    <2>4. QED
      BY <2>2, <2>3
  <1>5. \A i, j \in itineraries : i.id = j.id \/ i.tripspec_id = j.tripspec_id => i = j
    BY DEF StoreInv, Keys
  <1>6. ASSUME NEW i \in itineraries
        PROVE  <<"itinerary", i.id>> \in gone[r] <=> <<"tripspec", i.tripspec_id>> \in gone[r]
    BY <1>2, <1>3, <1>4, <1>5
  <1>7. QED
    BY <1>1, <1>2, <1>4, <1>6 DEF Complete

\* What such a commit leaves of the tables.
LEMMA CommitGoneTables ==
  ASSUME TypeInv, StoreInv, NEW r \in Requests, CommitGone(r), Complete(r)
  PROVE  /\ itineraries' = {i \in itineraries : <<"itinerary", i.id>> \notin gone[r]}
         /\ Derived'
         /\ UserIds' = {u \in UserIds : <<"user", u>> \notin gone[r]}
  <1>1. itineraries' = {i \in itineraries : <<"itinerary", i.id>> \notin gone[r]}
    BY DEF CommitGone
  <1>2. tripspecs' = {[id |-> i.tripspec_id, user_id |-> i.user_id] : i \in itineraries'}
    <2>1. tripspecs' = {s \in tripspecs : <<"tripspec", s.id>> \notin gone[r]}
      BY DEF CommitGone
    <2>2. \A i \in itineraries :
            i \in itineraries' <=> <<"tripspec", i.tripspec_id>> \notin gone[r]
      BY <1>1 DEF Complete
    <2>3. \A i \in itineraries :
            [id |-> i.tripspec_id, user_id |-> i.user_id].id = i.tripspec_id
      OBVIOUS
    <2>4. QED
      BY <1>1, <2>1, <2>2, <2>3 DEF StoreInv, Derived
  <1>3. \A i, j \in itineraries : i.id = j.id => i = j
    BY DEF StoreInv, Keys
  <1>4. versions' = {v \in versions : \E i \in itineraries' : i.id = v.itinerary_id}
    BY <1>1 DEF CommitGone
  <1>5. versions' = {[id |-> i.current_version_id, itinerary_id |-> i.id] : i \in itineraries'}
    <2>1. \A v : v \in versions <=>
            \E i \in itineraries : v = [id |-> i.current_version_id, itinerary_id |-> i.id]
      BY DEF StoreInv, Derived
    <2>2. itineraries' \subseteq itineraries
      BY <1>1
    <2>3. ASSUME NEW v \in versions'
          PROVE  \E i \in itineraries' : v = [id |-> i.current_version_id, itinerary_id |-> i.id]
      <3>1. PICK i \in itineraries : v = [id |-> i.current_version_id, itinerary_id |-> i.id]
        BY <1>4, <2>1
      <3>2. PICK j \in itineraries' : j.id = v.itinerary_id
        BY <1>4
      <3>3. j = i
        BY <1>3, <2>2, <3>1, <3>2
      <3>4. QED
        BY <3>1, <3>2, <3>3
    <2>4. ASSUME NEW i \in itineraries'
          PROVE  [id |-> i.current_version_id, itinerary_id |-> i.id] \in versions'
      BY <1>4, <2>1, <2>2
    <2>5. QED
      BY <2>3, <2>4
  <1>6. contents' = {i.current_version_id : i \in itineraries'}
    <2>1. contents' = {c \in contents : \E v \in versions' : v.id = c}
      BY <1>1, <1>4 DEF CommitGone
    <2>2. \A c : (\E v \in versions' : v.id = c)
                 <=> \E i \in itineraries' : i.current_version_id = c
      <3>1. ASSUME NEW v \in versions'
            PROVE  \E i \in itineraries' : i.current_version_id = v.id
        <4>1. PICK i \in itineraries' : v = [id |-> i.current_version_id, itinerary_id |-> i.id]
          BY <1>5
        <4>2. QED
          BY <4>1
      <3>2. ASSUME NEW i \in itineraries'
            PROVE  \E v \in versions' : v.id = i.current_version_id
        <4>1. [id |-> i.current_version_id, itinerary_id |-> i.id] \in versions'
          BY <1>5
        <4>2. QED
          BY <4>1
      <3>3. QED
        BY <3>1, <3>2
    <2>3. itineraries' \subseteq itineraries /\ contents = {i.current_version_id : i \in itineraries}
      BY <1>1 DEF StoreInv, Derived
    <2>4. \A i \in itineraries' : i.current_version_id \in contents
      BY <2>3
    <2>5. QED
      <3>1. ASSUME NEW c \in contents' PROVE \E i \in itineraries' : i.current_version_id = c
        BY <2>1, <2>2
      <3>2. ASSUME NEW i \in itineraries' PROVE i.current_version_id \in contents'
        BY <2>1, <2>2, <2>4
      <3>3. QED
        BY <3>1, <3>2
  <1>7. UserIds' = {u \in UserIds : <<"user", u>> \notin gone[r]}
    BY DEF CommitGone, UserIds
  <1>8. QED
    BY <1>1, <1>2, <1>5, <1>6, <1>7 DEF Derived

LEMMA CommitGoneStep ==
  ASSUME TypeInv, TypeInv', StoreInv, NEW r \in Requests, CommitGone(r), Complete(r),
         DeletedBy(r)'
  PROVE  StoreInv'
  <1> USE DEF StoreInv
  <1>0. /\ itineraries' = {i \in itineraries : <<"itinerary", i.id>> \notin gone[r]}
        /\ Derived'
        /\ UserIds' = {u \in UserIds : <<"user", u>> \notin gone[r]}
    BY CommitGoneTables
  <1>1. /\ pc'[r] = "done" /\ gone'[r] = {} /\ UNCHANGED <<serial, uid>>
        /\ users' \subseteq users /\ tripspecs' \subseteq tripspecs
        /\ itineraries' \subseteq itineraries
    BY <1>0 DEF CommitGone, End, Go, TypeInv, LocalsOK
  <1>2. \A o \in Requests \ {r} : Same(o)
    BY DEF CommitGone, End, Go, Same, TypeInv, LocalsOK
  <1>3. Keys'
    BY <1>1 DEF Keys
  <1>4. Unused'
    BY <1>1, <1>2 DEF Unused, Same, Saving, Numbering
  <1>5. Apart'
    BY <1>1, <1>2 DEF Apart, Same, Saving, Numbering
  <1>6. \A o \in Requests : \A u : SharesUser(o, u)' => SharesUser(o, u)
    BY <1>1, <1>2 DEF SharesUser, Same
  <1>7. Owned'
    <2>1. OwnersExist'
      <3>1. ASSUME NEW i \in itineraries' PROVE i.user_id \in UserIds' \cup {Nobody}
        BY <1>0, <3>1 DEF Owned, OwnersExist, Complete
      <3>2. ASSUME NEW s \in tripspecs' PROVE s.user_id \in UserIds' \cup {Nobody}
        <4>1. PICK i \in itineraries' : s = [id |-> i.tripspec_id, user_id |-> i.user_id]
          BY <1>0 DEF Derived
        <4>2. QED
          BY <3>1, <4>1
      <3>3. QED
        BY <3>1, <3>2 DEF OwnersExist
    <2>2. ASSUME NEW o \in Requests, pc'[o] \in Saving
          PROVE  uid'[o] \in UserIds' \cup {Nobody}
      <3>1. o # r /\ pc[o] \in Saving /\ uid'[o] = uid[o]
        BY <1>1, <1>2, <2>2 DEF Same, Saving
      <3>2. uid[o] # Nobody => SharesUser(o, uid[o])
        BY <3>1 DEF SharesUser, Saving
      <3>3. <<"user", uid[o]>> \in gone[r] => ~SharesUser(o, uid[o])
        BY DEF Owned
      <3>4. uid[o] \in UserIds \cup {Nobody}
        BY <3>1 DEF Owned
      <3>5. QED
        BY <1>0, <3>1, <3>2, <3>3, <3>4
    <2>3. ASSUME NEW o \in Requests, NEW u, <<"user", u>> \in gone'[o]
          PROVE  /\ pc'[o] = "cascade" /\ u = uid'[o]
                 /\ \A q \in Requests : ~SharesUser(q, u)'
      BY <1>1, <1>2, <1>6, <2>3 DEF Owned, Same
    <2>4. QED
      BY <2>1, <2>2, <2>3 DEF Owned
  <1>8. ASSUME NEW o \in Requests \ {r}
        PROVE  HeldBy(o)' /\ RemovingPlan(o)' /\ RemovingAccount(o)' /\ DeletedBy(o)'
    <2>1. UserIds' \subseteq UserIds
      BY <1>0
    <2>2. pc'[r] \notin Numbering
      BY <1>1 DEF Numbering
    <2>3. serial["user"] \in Nat /\ serial["itinerary"] \in Nat
      BY DEF TypeInv, SerialOK, Table, Id
    <2>4. serial["user"] <= serial'["user"] /\ serial["itinerary"] <= serial'["itinerary"]
      BY <1>1, <2>3
    <2>5. ASSUME NEW i \in itineraries, NEW q \in Requests \ {r},
                 \/ <<"itinerary", i.id>> \in gone[q]
                 \/ <<"tripspec", i.tripspec_id>> \in gone[q]
          PROVE  i \in itineraries'
      <3>1. gone[q] \cap gone[r] = {}
        BY DEF Held
      <3>2. QED
        BY <1>0, <2>5, <3>1 DEF Complete
    <2>6. QED
      BY <1>1, <1>2, <2>1, <2>2, <2>4, <2>5, OthersKept
  <1>9. HeldBy(r)' /\ RemovingPlan(r)' /\ RemovingAccount(r)'
    BY <1>1 DEF HeldBy, RemovingPlan, RemovingAccount, Removing
  <1>10. \A o, q \in Requests : o # q => gone'[o] \cap gone'[q] = {}
    BY <1>1, <1>2 DEF Held, Same
  <1>11. QED
    BY <1>0, <1>3, <1>4, <1>5, <1>7, <1>8, <1>9, <1>10 DEF Held, Deleting, Deleted

LEMMA CommitDeleteStep ==
  ASSUME TypeInv, TypeInv', StoreInv, NEW r \in Requests, CommitDelete(r)
  PROVE  StoreInv'
  <1>1. CommitGone(r) /\ pc[r] = "commit_plan" /\ Complete(r)
    BY DeleteIsComplete DEF CommitDelete
  <1>2. /\ pc'[r] = "done" /\ plan'[r].id = plan[r].id /\ UNCHANGED serial
        /\ \A o \in Requests \ {r} : Same(o)
    BY <1>1 DEF CommitGone, End, Go, Same, TypeInv, LocalsOK
  <1>3. Taken(r) /\ \A i \in itineraries : i.id = plan[r].id => <<"itinerary", i.id>> \in gone[r]
    BY <1>1 DEF StoreInv, Deleting, RemovingPlan, Removing
  <1>4. Taken(r)'
    BY <1>2, <1>3 DEF Taken, Same, Numbering
  <1>5. \A i \in itineraries' : i.id # plan'[r].id
    BY <1>1, <1>2, <1>3, CommitGoneTables
  <1>6. DeletedBy(r)'
    BY <1>2, <1>4, <1>5 DEF DeletedBy
  <1>7. QED
    BY <1>1, <1>6, CommitGoneStep

LEMMA CommitAccountStep ==
  ASSUME TypeInv, TypeInv', StoreInv, NEW r \in Requests, CommitAccount(r)
  PROVE  StoreInv'
  <1>1. CommitGone(r) /\ pc[r] = "cascade" /\ Complete(r)
    BY AccountIsComplete DEF CommitAccount
  <1>2. /\ pc'[r] = "done" /\ plan'[r].id = plan[r].id /\ UNCHANGED <<serial, uid>>
    BY <1>1 DEF CommitGone, End, Go, TypeInv, LocalsOK
  <1>3. /\ plan[r].id = 0 /\ uid[r] # Nobody /\ uid[r] < serial["user"]
        /\ uid[r] \in UserIds => <<"user", uid[r]>> \in gone[r]
    BY <1>1 DEF StoreInv, Deleting, RemovingAccount
  <1>4. uid'[r] \notin UserIds'
    BY <1>1, <1>2, <1>3, CommitGoneTables
  <1>5. DeletedBy(r)'
    BY <1>2, <1>3, <1>4 DEF DeletedBy
  <1>6. QED
    BY <1>1, <1>5, CommitGoneStep

-----------------------------------------------------------------------------
(* Planning                                                                  *)

\* A flush numbers a row with the next id of its table.
LEMMA FlushStep ==
  ASSUME TypeInv, TypeInv', StoreInv, NEW r \in Requests,
         NEW table \in Table, NEW to \in Saving,
         pc' = [pc EXCEPT ![r] = to],
         serial' = [serial EXCEPT ![table] = serial[table] + 1],
         UNCHANGED <<tables, uid, gone, out>>,
         \A o \in Requests \ {r} : plan'[o] = plan[o],
         \/ /\ pc[r] = "planned" /\ to = "itinerary" /\ table = "tripspec"
            /\ plan'[r].spec = serial["tripspec"]
            /\ uid[r] \in UserIds \cup {Nobody}
            /\ \A o \in Requests : <<"user", uid[r]>> \notin gone[o]
         \/ /\ pc[r] = "itinerary" /\ to = "version" /\ table = "itinerary"
            /\ plan'[r].spec = plan[r].spec /\ plan'[r].id = serial["itinerary"]
         \/ /\ pc[r] = "version" /\ to = "commit" /\ table = "version"
            /\ plan'[r].spec = plan[r].spec /\ plan'[r].id = plan[r].id
            /\ plan'[r].version = serial["version"]
  PROVE  StoreInv'
  <1> USE DEF StoreInv
  <1>1. /\ pc'[r] = to /\ pc[r] \in {"planned", "itinerary", "version"}
        /\ \A o \in Requests \ {r} : Same(o)
        /\ UNCHANGED <<users, tripspecs, itineraries, versions, contents>>
    BY DEF Same, TypeInv, LocalsOK, tables
  <1>2. \A t \in Table : /\ serial[t] \in Nat /\ serial'[t] \in Nat
                         /\ serial[t] <= serial'[t]
    BY DEF TypeInv, SerialOK, Id
  <1>3. serial'[table] = serial[table] + 1
    BY DEF TypeInv, SerialOK
  <1>4. {"user", "tripspec", "itinerary", "version"} \subseteq Table
    BY DEF Table
  <1>5. \A i \in itineraries : /\ i.id \in Nat /\ i.tripspec_id \in Nat
                              /\ i.current_version_id \in Nat
    BY DEF TypeInv, TablesOK, Itinerary, Id
  <1>6. \A o \in Requests : plan[o].id \in Nat /\ plan[o].spec \in Nat /\ plan[o].version \in Nat
    BY DEF TypeInv, LocalsOK
  <1>7. Keys'
    <2>1. \A u \in users : u.id \in Nat
      BY DEF TypeInv, TablesOK, User, Id
    <2>2. QED
      BY <1>1, <1>2, <1>4, <1>5, <2>1 DEF Keys
  <1>8. Derived'
    BY <1>1 DEF Derived
  <1>9. Unused'
    <2>1. ASSUME NEW o \in Requests \ {r}
          PROVE  /\ pc'[o] \in Saving =>
                      /\ plan'[o].spec < serial'["tripspec"]
                      /\ \A i \in itineraries' : i.tripspec_id # plan'[o].spec
                 /\ pc'[o] \in Numbering =>
                      /\ plan'[o].id < serial'["itinerary"]
                      /\ \A i \in itineraries' : i.id # plan'[o].id
                 /\ pc'[o] = "commit" =>
                      /\ plan'[o].version < serial'["version"]
                      /\ \A i \in itineraries' : i.current_version_id # plan'[o].version
      BY <1>1, <1>2, <1>4, <1>6 DEF Unused, Same
    <2>2. /\ plan'[r].spec < serial'["tripspec"]
          /\ \A i \in itineraries' : i.tripspec_id # plan'[r].spec
      BY <1>1, <1>2, <1>3, <1>4, <1>5, <1>6 DEF Unused, Keys, Saving
    <2>3. to \in Numbering =>
            /\ plan'[r].id < serial'["itinerary"]
            /\ \A i \in itineraries' : i.id # plan'[r].id
      BY <1>1, <1>2, <1>3, <1>4, <1>5, <1>6 DEF Unused, Keys, Numbering
    <2>4. to = "commit" =>
            /\ plan'[r].version < serial'["version"]
            /\ \A i \in itineraries' : i.current_version_id # plan'[r].version
      BY <1>1, <1>2, <1>3, <1>4, <1>5, <1>6 DEF Keys
    <2>5. QED
      BY <1>1, <2>1, <2>2, <2>3, <2>4 DEF Unused
  <1>10. Apart'
    <2>1. ASSUME NEW o \in Requests \ {r}
          PROVE  /\ pc[o] \in Saving => plan'[r].spec # plan[o].spec
                 /\ to \in Numbering /\ pc[o] \in Numbering => plan'[r].id # plan[o].id
                 /\ to = "commit" /\ pc[o] = "commit" => plan'[r].version # plan[o].version
      BY <1>1, <1>2, <1>4, <1>6 DEF Unused, Apart, Saving, Numbering
    <2>2. QED
      BY <1>1, <2>1 DEF Apart, Same
  <1>11. Owned'
    <2>1. UserIds' = UserIds /\ OwnersExist'
      BY <1>1 DEF Owned, OwnersExist, UserIds
    <2>2. uid[r] \in UserIds \cup {Nobody}
      BY DEF Owned, Saving
    <2>3. ASSUME NEW o \in Requests, NEW u, <<"user", u>> \in gone[o]
          PROVE  ~SharesUser(r, u)'
      BY <1>1, <2>3 DEF Owned, SharesUser
    <2>4. \A o \in Requests : \A u : <<"user", u>> \in gone[o] =>
            pc'[o] = "cascade" /\ \A q \in Requests : ~SharesUser(q, u)'
      BY <1>1, <2>3 DEF Owned, SharesUser, Same
    <2>5. QED
      BY <1>1, <2>1, <2>2, <2>4 DEF Owned, Same
  <1>12. ASSUME NEW o \in Requests \ {r}
         PROVE  HeldBy(o)' /\ RemovingPlan(o)' /\ RemovingAccount(o)' /\ DeletedBy(o)'
    <2>1. to \in Numbering => \/ pc[r] \in Numbering /\ plan'[r].id = plan[r].id
                             \/ plan'[r].id = serial["itinerary"]
      BY DEF Numbering
    <2>2. UserIds' = UserIds
      BY <1>1 DEF UserIds
    <2>3. QED
      BY <1>1, <1>2, <1>4, <2>1, <2>2, OthersKept
  <1>13. Held'
    <2>1. HeldBy(r)'
      BY <1>1 DEF Held, HeldBy
    <2>2. QED
      BY <1>12, <2>1 DEF Held
  <1>14. RemovingPlan(r)' /\ RemovingAccount(r)' /\ DeletedBy(r)'
    BY <1>1 DEF RemovingPlan, RemovingAccount, Deleted, DeletedBy, Removing, Saving
  <1>15. QED
    BY <1>7, <1>8, <1>9, <1>10, <1>11, <1>12, <1>13, <1>14 DEF Deleting, Deleted

LEMMA CommitPlanStep ==
  ASSUME TypeInv, TypeInv', StoreInv, NEW r \in Requests, CommitPlan(r)
  PROVE  StoreInv'
  <1> USE DEF StoreInv
  <1> DEFINE new == ItineraryRow(r)
  <1>1. /\ pc[r] = "commit" /\ pc'[r] = "planned"
        /\ itineraries' = itineraries \cup {new}
        /\ UNCHANGED <<users, serial, uid, plan, gone, out>>
        /\ \A o \in Requests \ {r} : Same(o)
    BY DEF CommitPlan, Go, Same, TypeInv, LocalsOK
  <1>2. /\ new.id = plan[r].id /\ new.user_id = uid[r]
        /\ new.tripspec_id = plan[r].spec /\ new.current_version_id = plan[r].version
    BY DEF ItineraryRow
  <1> HIDE DEF new
  <1>3. /\ plan[r].spec < serial["tripspec"] /\ plan[r].id < serial["itinerary"]
        /\ plan[r].version < serial["version"]
        /\ \A i \in itineraries : /\ i.id # plan[r].id /\ i.tripspec_id # plan[r].spec
                                  /\ i.current_version_id # plan[r].version
    BY <1>1 DEF Unused, Saving, Numbering
  <1>4. Keys'
    BY <1>1, <1>2, <1>3 DEF Keys
  <1>5. Derived'
    <2>1. /\ SpecRow(r) = [id |-> new.tripspec_id, user_id |-> new.user_id]
          /\ VersionRow(r) = [id |-> new.current_version_id, itinerary_id |-> new.id]
      BY <1>2 DEF SpecRow, VersionRow
    <2>2. /\ tripspecs' = tripspecs \cup {[id |-> new.tripspec_id, user_id |-> new.user_id]}
          /\ versions' = versions \cup
               {[id |-> new.current_version_id, itinerary_id |-> new.id]}
          /\ contents' = contents \cup {new.current_version_id}
      BY <1>2, <2>1 DEF CommitPlan
    <2>3. QED
      BY <1>1, <2>2 DEF Derived
  <1>6. Unused'
    <2>1. ASSUME NEW o \in Requests \ {r}
          PROVE  /\ pc[o] \in Saving => plan[o].spec # plan[r].spec
                 /\ pc[o] \in Numbering => plan[o].id # plan[r].id
                 /\ pc[o] = "commit" => plan[o].version # plan[r].version
      BY <1>1 DEF Apart, Saving, Numbering
    <2>2. QED
      BY <1>1, <1>2, <2>1 DEF Unused, Same, Saving, Numbering
  <1>7. Apart'
    BY <1>1 DEF Apart, Same, Saving, Numbering
  <1>8. UserIds' = UserIds
    BY <1>1 DEF UserIds
  <1>9. Owned'
    <2>1. uid[r] \in UserIds \cup {Nobody}
      BY <1>1 DEF Owned, Saving
    <2>2. \A i \in itineraries' : i.user_id \in UserIds \cup {Nobody}
      BY <1>1, <1>2, <2>1 DEF Owned, OwnersExist
    <2>3. \A s \in tripspecs' : s.user_id \in UserIds \cup {Nobody}
      BY <2>1 DEF Owned, OwnersExist, CommitPlan, SpecRow
    <2>4. \A o \in Requests : \A u : SharesUser(o, u)' => SharesUser(o, u)
      BY <1>1 DEF SharesUser, Same
    <2>5. ASSUME NEW o \in Requests, pc'[o] \in Saving
          PROVE  uid'[o] \in UserIds' \cup {Nobody}
      BY <1>1, <1>8, <2>5 DEF Owned, Same, Saving
    <2>6. ASSUME NEW o \in Requests, NEW u, <<"user", u>> \in gone'[o]
          PROVE  /\ pc'[o] = "cascade" /\ u = uid'[o]
                 /\ \A q \in Requests : ~SharesUser(q, u)'
      BY <1>1, <2>4, <2>6 DEF Owned, Same
    <2>7. QED
      BY <1>8, <2>2, <2>3, <2>5, <2>6 DEF Owned, OwnersExist
  <1>10. ASSUME NEW o \in Requests \ {r}
         PROVE  HeldBy(o)' /\ RemovingPlan(o)' /\ RemovingAccount(o)' /\ DeletedBy(o)'
    <2>1. serial["user"] \in Nat /\ serial["itinerary"] \in Nat
      BY DEF TypeInv, SerialOK, Table, Id
    <2>2. serial["user"] <= serial'["user"] /\ serial["itinerary"] <= serial'["itinerary"]
      BY <1>1, <2>1
    <2>3. pc'[r] \notin Numbering
      BY <1>1 DEF Numbering
    <2>4. QED
      BY <1>1, <1>2, <1>8, <2>2, <2>3, OthersKept
  <1>11. Held'
    <2>1. HeldBy(r)'
      BY <1>1 DEF Held, HeldBy
    <2>2. QED
      BY <1>1, <1>10, <2>1 DEF Held
  <1>12. RemovingPlan(r)' /\ RemovingAccount(r)' /\ DeletedBy(r)'
    BY <1>1 DEF RemovingPlan, RemovingAccount, Deleted, DeletedBy, Removing
  <1>13. QED
    BY <1>4, <1>5, <1>6, <1>7, <1>9, <1>10, <1>11, <1>12 DEF Deleting, Deleted

LEMMA PlanningStep ==
  ASSUME TypeInv, TypeInv', StoreInv, NEW r \in Requests,
         FlushSpec(r) \/ FlushItinerary(r) \/ FlushVersion(r) \/ CommitPlan(r)
           \/ EndPlanning(r)
  PROVE  StoreInv'
  <1>0. /\ pc \in [Requests -> Waypoints] /\ out \in [Requests -> Answers]
        /\ plan \in [Requests -> [id : Nat, spec : Nat, version : Nat]]
        /\ gone \in [Requests -> SUBSET (Table \X Nat)]
        /\ \A t \in Table : serial[t] \in Nat
        /\ serial \in [Table -> Id]
    BY DEF TypeInv, LocalsOK, SerialOK, Id
  <1>1. CASE FlushSpec(r) /\ ~End(r, "error")
    <2>1. /\ pc[r] = "planned" /\ WaitsFor(r) = {}
          /\ pc' = [pc EXCEPT ![r] = "itinerary"]
          /\ serial' = [serial EXCEPT !["tripspec"] = serial["tripspec"] + 1]
          /\ UNCHANGED <<tables, uid, gone, out>>
          /\ plan' = [plan EXCEPT ![r] = [id |-> 0, spec |-> serial["tripspec"], version |-> 0]]
          /\ uid[r] \in UserIds \cup {Nobody}
      BY <1>1 DEF FlushSpec, Go
    <2>2. Deleters(r, <<"user", uid[r]>>) = {}
      BY <2>1 DEF WaitsFor
    <2>3. \A o \in Requests : <<"user", uid[r]>> \notin gone[o]
      BY <2>1, <2>2 DEF Deleters, StoreInv, Owned
    <2>4. "tripspec" \in Table /\ "itinerary" \in Saving
      BY DEF Table, Saving
    <2>5. plan'[r].spec = serial["tripspec"] /\ \A o \in Requests \ {r} : plan'[o] = plan[o]
      BY <1>0, <2>1
    <2>6. QED
      BY <2>1, <2>3, <2>4, <2>5, FlushStep
  <1>2. CASE FlushItinerary(r)
    <2>1. /\ pc[r] = "itinerary" /\ pc' = [pc EXCEPT ![r] = "version"]
          /\ serial' = [serial EXCEPT !["itinerary"] = serial["itinerary"] + 1]
          /\ UNCHANGED <<tables, uid, gone, out>>
      BY <1>2 DEF FlushItinerary, Go
    <2>2. /\ plan'[r].spec = plan[r].spec /\ plan'[r].id = serial["itinerary"]
          /\ \A o \in Requests \ {r} : plan'[o] = plan[o]
      BY <1>0, <1>2 DEF FlushItinerary
    <2>3. "itinerary" \in Table /\ "version" \in Saving
      BY DEF Table, Saving
    <2>4. QED
      BY <2>1, <2>2, <2>3, FlushStep
  <1>3. CASE FlushVersion(r)
    <2>1. /\ pc[r] = "version" /\ pc' = [pc EXCEPT ![r] = "commit"]
          /\ serial' = [serial EXCEPT !["version"] = serial["version"] + 1]
          /\ UNCHANGED <<tables, uid, gone, out>>
      BY <1>3 DEF FlushVersion, Go
    <2>2. /\ plan'[r].spec = plan[r].spec /\ plan'[r].id = plan[r].id
          /\ plan'[r].version = serial["version"]
          /\ \A o \in Requests \ {r} : plan'[o] = plan[o]
      BY <1>0, <1>3 DEF FlushVersion
    <2>3. "version" \in Table /\ "commit" \in Saving
      BY DEF Table, Saving
    <2>4. QED
      BY <2>1, <2>2, <2>3, FlushStep
  <1>4. CASE CommitPlan(r)
    BY <1>4, CommitPlanStep
  <1>c. "done" \in Calm
    BY DEF Calm, Waypoints, Saving, Removing
  <1>5. CASE FlushSpec(r) /\ End(r, "error")
    <2>1. Quiet(r, "done")
      BY <1>0, <1>5 DEF FlushSpec, Quiet, End, Go, tables, Table, Id
    <2>2. QED
      BY <1>c, <2>1, QuietStep
  <1>6. CASE EndPlanning(r)
    <2>1. Quiet(r, "done")
      BY <1>0, <1>6 DEF EndPlanning, Quiet, End, Go, tables
    <2>2. QED
      BY <1>c, <2>1, QuietStep
  <1>7. QED
    BY <1>1, <1>2, <1>3, <1>4, <1>5, <1>6

-----------------------------------------------------------------------------
(* The other steps                                                           *)

\* An answer other than "deleted" ends a request.
LEMMA EndStep ==
  ASSUME TypeInv, TypeInv', StoreInv, NEW r \in Requests, NEW answer \in Answers \ {"deleted"},
         End(r, answer), UNCHANGED <<tables, serial>>
  PROVE  StoreInv'
  <1>1. Quiet(r, "done")
    <2>1. \A t \in Table : serial[t] \in Nat
      BY DEF TypeInv, SerialOK, Id
    <2>2. QED
      BY <2>1 DEF Quiet, End, Go, tables, TypeInv, LocalsOK
  <1>2. "done" \in Calm
    BY DEF Calm, Waypoints, Saving, Removing
  <1>3. QED
    BY <1>1, <1>2, QuietStep

\* A request that has done nothing yet goes on.
LEMMA CalmStep ==
  ASSUME TypeInv, TypeInv', StoreInv, NEW r \in Requests, NEW to \in Calm, Go(r, to),
         UNCHANGED <<tables, serial, gone, out>>, pc[r] \in Calm, pc[r] # "done",
         \A o \in Requests \ {r} : uid'[o] = uid[o] /\ plan'[o] = plan[o]
  PROVE  StoreInv'
  <1>1. Quiet(r, to)
    <2>1. \A t \in Table : serial[t] \in Nat
      BY DEF TypeInv, SerialOK, Id
    <2>2. out[r] # "deleted"
      BY DEF StoreInv, Deleted, DeletedBy
    <2>3. QED
      BY <2>1, <2>2 DEF Quiet, Go, tables
  <1>2. QED
    BY <1>1, QuietStep

LEMMA BeginStep ==
  ASSUME TypeInv, TypeInv', StoreInv, NEW r \in Requests, Begin(r)
  PROVE  StoreInv'
  <1>0. /\ pc \in [Requests -> Waypoints] /\ uid \in [Requests -> Nat]
        /\ plan \in [Requests -> [id : Nat, spec : Nat, version : Nat]]
    BY DEF TypeInv, LocalsOK
  <1>c. /\ {"idle", "check", "planned", "header", "find"} \subseteq Calm
    BY DEF Calm, Waypoints, Saving, Removing
  <1>1. CASE BeginSignUp(r)
    BY <1>1, <1>c, CalmStep DEF BeginSignUp
  <1>2. CASE BeginPlan(r)
    <2>1. \A o \in Requests \ {r} : uid'[o] = uid[o]
      BY <1>0, <1>2 DEF BeginPlan
    <2>2. QED
      BY <1>2, <1>c, <2>1, CalmStep DEF BeginPlan
  <1>3. ASSUME NEW first \in {"header", "find"}, BeginAs(r, first) PROVE StoreInv'
    <2>1. \A o \in Requests \ {r} : uid'[o] = uid[o] /\ plan'[o] = plan[o]
      BY <1>0, <1>3 DEF BeginAs
    <2>2. QED
      BY <1>3, <1>c, <2>1, CalmStep DEF BeginAs
  <1>4. CASE BeginAs(r, "verify")
    <2>1. PICK u \in UserIds : uid' = [uid EXCEPT ![r] = u]
      BY <1>4 DEF BeginAs
    <2>2. plan' = [plan EXCEPT ![r] = [id |-> 0, spec |-> 0, version |-> 0]]
      BY <1>4 DEF BeginAs, IdsAsked
    <2>3. /\ pc[r] = "idle" /\ pc' = [pc EXCEPT ![r] = "verify"]
          /\ UNCHANGED <<tables, serial, gone, out>>
      BY <1>4 DEF BeginAs, Go
    <2>4. u # Nobody /\ u < serial["user"]
      BY DEF UserIds, StoreInv, Keys, TypeInv, TablesOK, User, Id, Nobody
    <2>5. RemovingPlan(r)' /\ RemovingAccount(r)'
      BY <1>0, <2>1, <2>2, <2>3, <2>4 DEF RemovingPlan, RemovingAccount, Removing
    <2>6. \A o \in Requests \ {r} : Same(o)
      BY <1>0, <2>1, <2>2, <2>3 DEF Same
    <2>7. pc'[r] = "verify" /\ gone'[r] = gone[r] /\ out'[r] = out[r]
      BY <1>0, <2>3
    <2>8. QED
      BY <1>c, <2>3, <2>5, <2>6, <2>7, ClaimStep
  <1>5. CASE NoSuchUser(r)
    BY <1>5, EndStep DEF NoSuchUser, Answers
  <1>6. QED
    BY <1>1, <1>2, <1>3, <1>4, <1>5 DEF Begin

LEMMA SignUpStep ==
  ASSUME TypeInv, TypeInv', StoreInv, NEW r \in Requests,
         CheckEmail(r) \/ InsertUser(r) \/ RefreshUser(r)
  PROVE  StoreInv'
  <1>0. /\ pc \in [Requests -> Waypoints] /\ uid \in [Requests -> Nat]
        /\ serial \in [Table -> Id] /\ \A t \in Table : serial[t] \in Nat
        /\ gone \in [Requests -> SUBSET (Table \X Nat)]
        /\ plan \in [Requests -> [id : Nat, spec : Nat, version : Nat]]
        /\ out \in [Requests -> Answers]
    BY DEF TypeInv, LocalsOK, SerialOK, Id
  <1>c. {"check", "insert", "refresh", "done"} \subseteq Calm
    BY DEF Calm, Waypoints, Saving, Removing
  <1>1. CASE CheckEmail(r)
    BY <1>1, <1>c, EndStep, CalmStep DEF CheckEmail, Answers
  <1>2. CASE InsertUser(r)
    <2>1. /\ serial' = [serial EXCEPT !["user"] = serial["user"] + 1] /\ pc[r] = "insert"
          /\ UNCHANGED <<tripspecs, itineraries, versions, contents>>
      BY <1>2 DEF InsertUser
    <2>2. /\ \A t \in Table : serial[t] <= serial'[t]
          /\ serial["user"] < serial'["user"]
      BY <1>0, <2>1 DEF Table
    <2>3. CASE End(r, "error") /\ UNCHANGED users
      <3>1. Quiet(r, "done")
        BY <1>0, <2>1, <2>2, <2>3 DEF Quiet, End, Go
      <3>2. QED
        BY <1>c, <3>1, QuietStep
    <2>4. CASE /\ users' = users \cup {[id |-> serial["user"], email |-> email[r]]}
               /\ uid' = [uid EXCEPT ![r] = serial["user"]]
               /\ Go(r, "refresh")
               /\ UNCHANGED <<email, plan, days, gone, out>>
      <3>1. out[r] # "deleted"
        BY <2>1 DEF StoreInv, Deleted, DeletedBy
      <3>2. Quiet(r, "refresh")
        BY <1>0, <1>c, <2>1, <2>2, <2>4, <3>1 DEF Quiet, Go
      <3>3. QED
        BY <1>c, <3>2, QuietStep
    <2>5. QED
      BY <1>2, <2>3, <2>4 DEF InsertUser
  <1>3. CASE RefreshUser(r)
    BY <1>3, EndStep DEF RefreshUser, Answers
  <1>4. QED
    BY <1>1, <1>2, <1>3

LEMMA ReadStep ==
  ASSUME TypeInv, TypeInv', StoreInv, NEW r \in Requests,
         ReadHeader(r) \/ ReadStops(r) \/ FindPlan(r)
  PROVE  StoreInv'
  <1>0. /\ pc \in [Requests -> Waypoints]
        /\ plan \in [Requests -> [id : Nat, spec : Nat, version : Nat]]
    BY DEF TypeInv, LocalsOK
  <1>c. {"header", "stops", "find"} \subseteq Calm
    BY DEF Calm, Waypoints, Saving, Removing
  <1>1. CASE ReadHeader(r)
    <2>1. CASE End(r, "not_found")
      BY <1>1, <2>1, EndStep DEF ReadHeader, Answers
    <2>2. CASE ~End(r, "not_found")
      <3>1. /\ pc[r] = "header" /\ Go(r, "stops") /\ UNCHANGED <<tables, serial, uid, gone, out>>
            /\ \A o \in Requests \ {r} : plan'[o] = plan[o]
        BY <1>0, <1>1, <2>2 DEF ReadHeader
      <3>2. QED
        BY <1>c, <3>1, CalmStep
    <2>3. QED
      BY <2>1, <2>2
  <1>2. CASE ReadStops(r)
    BY <1>2, EndStep DEF ReadStops, Answers
  <1>3. CASE FindPlan(r)
    <2>1. CASE End(r, "not_found")
      BY <1>3, <2>1, EndStep DEF FindPlan, Answers
    <2>2. CASE ~End(r, "not_found")
      <3>1. PICK i \in OwnRows(r) :
              /\ plan' = [plan EXCEPT ![r].spec = i.tripspec_id]
              /\ Go(r, "delete_row")
              /\ UNCHANGED <<email, uid, days, gone, out>>
        BY <1>3, <2>2 DEF FindPlan
      <3>2. /\ pc[r] = "find" /\ pc'[r] = "delete_row" /\ UNCHANGED <<tables, serial>>
            /\ plan'[r].id = plan[r].id /\ plan'[r].spec = i.tripspec_id
            /\ \A o \in Requests \ {r} : Same(o)
        BY <1>0, <1>3, <3>1 DEF FindPlan, Go, Same
      <3>3. i \in itineraries /\ i.id = plan[r].id /\ i.user_id = uid[r]
        BY DEF OwnRows
      <3>4. Taken(r)'
        <4>1. i.id # 0 /\ i.id < serial["itinerary"]
          BY <3>3 DEF StoreInv, Keys, TypeInv, TablesOK, Itinerary, Id
        <4>2. \A o \in Requests : pc[o] \in Numbering => plan[o].id # i.id
          BY <3>3 DEF StoreInv, Unused
        <4>3. QED
          BY <3>2, <3>3, <4>1, <4>2 DEF Taken, Same, Numbering
      <3>5. RemovingPlan(r)'
        <4>1. \A j \in itineraries : j.id = i.id => j = i
          BY <3>3 DEF StoreInv, Keys
        <4>2. UNCHANGED <<itineraries, uid>>
          BY <3>1, <3>2 DEF tables
        <4>3. QED
          BY <3>2, <3>3, <3>4, <4>1, <4>2 DEF RemovingPlan
      <3>6. RemovingAccount(r)'
        BY <3>2 DEF RemovingAccount
      <3>7. QED
        BY <1>c, <3>1, <3>2, <3>5, <3>6, ClaimStep
    <2>3. QED
      BY <2>1, <2>2
  <1>4. QED
    BY <1>1, <1>2, <1>3

LEMMA VerifyStep ==
  ASSUME TypeInv, TypeInv', StoreInv, NEW r \in Requests, VerifyPassword(r)
  PROVE  StoreInv'
  <1>1. CASE End(r, "refused")
    BY <1>1, EndStep DEF VerifyPassword, Answers
  <1>2. CASE ~End(r, "refused")
    <2>1. /\ pc[r] = "verify" /\ pc'[r] = "lock_user"
          /\ UNCHANGED <<tables, serial, uid, plan, gone, out>>
          /\ \A o \in Requests \ {r} : Same(o)
      BY <1>2 DEF VerifyPassword, Go, Same, TypeInv, LocalsOK
    <2>2. RemovingAccount(r)
      BY DEF StoreInv, Deleting
    <2>3. RemovingPlan(r)' /\ RemovingAccount(r)'
      BY <2>1, <2>2 DEF RemovingPlan, RemovingAccount, Removing
    <2>4. QED
      BY <2>1, <2>3, ClaimStep
  <1>3. QED
    BY <1>1, <1>2

LEMMA CrashStep ==
  ASSUME TypeInv, TypeInv', StoreInv, Crash
  PROVE  StoreInv'
  <1> USE DEF StoreInv
  <1>1. /\ UNCHANGED <<users, tripspecs, itineraries, versions, contents, serial, uid, out>>
        /\ UserIds' = UserIds
    BY DEF Crash, tables, UserIds
  <1>2. ASSUME NEW r \in Requests
        PROVE  /\ gone'[r] = {} /\ pc'[r] \in {"idle", "done", "lost"}
               /\ pc[r] \in {"idle", "done", "lost"} => pc'[r] = pc[r] /\ plan'[r] = plan[r]
    BY DEF Crash, Running, TypeInv, LocalsOK
  <1>3. Keys' /\ Derived'
    BY <1>1 DEF Keys, Derived
  <1>4. Unused' /\ Apart'
    BY <1>2 DEF Unused, Apart, Saving, Numbering
  <1>5. Owned'
    BY <1>1, <1>2 DEF Owned, OwnersExist, Saving
  <1>6. Held'
    BY <1>2 DEF Held, HeldBy
  <1>7. Deleting'
    BY <1>2 DEF Deleting, RemovingPlan, RemovingAccount, Removing
  <1>8. Deleted'
    <2> SUFFICES ASSUME NEW r \in Requests PROVE DeletedBy(r)'
      BY DEF Deleted
    <2>1. Taken(r) /\ pc[r] = "done" => Taken(r)'
      BY <1>1, <1>2 DEF Taken, Numbering
    <2>2. QED
      BY <1>1, <1>2, <2>1 DEF Deleted, DeletedBy
  <1>9. QED
    BY <1>3, <1>4, <1>5, <1>6, <1>7, <1>8

LEMMA StoreStep == TypeInv /\ TypeInv' /\ StoreInv /\ [Next]_vars => StoreInv'
  <1> SUFFICES ASSUME TypeInv, TypeInv', StoreInv, [Next]_vars PROVE StoreInv'
    OBVIOUS
  <1>1. ASSUME NEW r \in Requests, Begin(r) PROVE StoreInv'
    BY <1>1, BeginStep
  <1>2. ASSUME NEW r \in Requests, DeadlockAbort(r) PROVE StoreInv'
    BY <1>2, EndStep DEF DeadlockAbort, Answers
  <1>3. ASSUME NEW r \in Requests, Step(r) PROVE StoreInv'
    BY <1>2, <1>3, SignUpStep, PlanningStep, ReadStep, VerifyStep, DeletePlanRowStep,
       DeleteSpecRowStep, CommitDeleteStep, DeleteUserRowStep, CascadeRowStep, CommitAccountStep
       DEF Step
  <1>4. CASE Crash
    BY <1>4, CrashStep
  <1>5. CASE UNCHANGED vars
    <2>1. UNCHANGED <<users, tripspecs, itineraries, versions, contents, serial,
                      pc, email, uid, plan, days, gone, out>>
      BY <1>5 DEF vars, tables
    <2>2. Keys' /\ Derived' /\ Unused' /\ Apart'
      BY <2>1 DEF StoreInv, Keys, Derived, Unused, Apart
    <2>3. Owned' /\ Held'
      <3>1. \A r \in Requests : Same(r)
        BY <2>1 DEF Same
      <3>2. Owned'
        BY <2>1 DEF StoreInv, Owned, OwnersExist, UserIds, SharesUser
      <3>3. \A r \in Requests : HeldBy(r)'
        BY <2>1, <3>1, HeldByKept DEF StoreInv, Held
      <3>4. QED
        BY <2>1, <3>2, <3>3 DEF StoreInv, Held
    <2>4. Deleting' /\ Deleted'
      BY <2>1 DEF StoreInv, Deleting, RemovingPlan, RemovingAccount, Deleted, DeletedBy,
                  Taken, UserIds
    <2>5. QED
      BY <2>2, <2>3, <2>4 DEF StoreInv
  <1>6. QED
    BY <1>1, <1>3, <1>4, <1>5 DEF Next

LEMMA StoreInit == Init => StoreInv
  <1> SUFFICES ASSUME Init PROVE StoreInv
    OBVIOUS
  <1>1. \A r \in Requests : pc[r] = "idle" /\ gone[r] = {} /\ out[r] = "none"
    BY DEF Init
  <1>2. Unused /\ Apart /\ Held /\ Deleting /\ Deleted
    BY <1>1 DEF Unused, Apart, Held, HeldBy, Deleting, RemovingPlan, RemovingAccount, Deleted,
                DeletedBy, Saving, Numbering, Removing
  <1>3. CASE Empty
    <2>1. Keys /\ Derived
      BY <1>3 DEF Empty, Keys, Derived
    <2>2. Owned
      BY <1>1, <1>3 DEF Empty, Owned, OwnersExist, Saving
    <2>3. QED
      BY <1>2, <2>1, <2>2 DEF StoreInv
  <1>4. CASE InUse
    <2>1. Keys
      BY <1>4 DEF InUse, Keys, Table
    <2>2. Derived
      BY <1>4 DEF InUse, Derived
    <2>3. UserIds = {1}
      BY <1>4 DEF InUse, UserIds
    <2>4. Owned
      BY <1>1, <1>4, <2>3 DEF InUse, Owned, OwnersExist, Saving, Nobody
    <2>5. QED
      BY <1>2, <2>1, <2>2, <2>4 DEF StoreInv
  <1>5. QED
    BY <1>3, <1>4 DEF Init

LEMMA AlwaysStored == Spec => []StoreInv
  BY TypeInit, TypeStep, StoreInit, StoreStep, PTL DEF Spec

-----------------------------------------------------------------------------
(* What the invariant says of states                                         *)

\* A plan is stored whole, or not at all.
THEOREM AlwaysWhole == Spec => []PlanIsWhole
  <1>1. TypeInv /\ StoreInv => PlanIsWhole
    <2> SUFFICES ASSUME TypeInv, StoreInv PROVE PlanIsWhole
      OBVIOUS
    <2>0. /\ tripspecs = {[id |-> i.tripspec_id, user_id |-> i.user_id] : i \in itineraries}
          /\ versions = {[id |-> i.current_version_id, itinerary_id |-> i.id] : i \in itineraries}
          /\ contents = {i.current_version_id : i \in itineraries}
      BY DEF StoreInv, Derived
    <2>1. ASSUME NEW i \in itineraries
          PROVE  {v \in versions : v.itinerary_id = i.id}
                   = {[id |-> i.current_version_id, itinerary_id |-> i.id]}
      <3>1. ASSUME NEW v \in versions, v.itinerary_id = i.id
            PROVE  v = [id |-> i.current_version_id, itinerary_id |-> i.id]
        <4>1. PICK j \in itineraries : v = [id |-> j.current_version_id, itinerary_id |-> j.id]
          BY <2>0
        <4>2. j = i
          BY <3>1, <4>1 DEF StoreInv, Keys
        <4>3. QED
          BY <4>1, <4>2
      <3>2. [id |-> i.current_version_id, itinerary_id |-> i.id] \in versions
        BY <2>0
      <3>3. QED
        BY <3>1, <3>2
    <2>2. ASSUME NEW i \in itineraries
          PROVE  /\ [id |-> i.tripspec_id, user_id |-> i.user_id] \in tripspecs
                 /\ i.current_version_id \in contents
      BY <2>0
    <2>3. ASSUME NEW s \in tripspecs PROVE \E i \in itineraries : i.tripspec_id = s.id
      BY <2>0
    <2>4. ASSUME NEW v \in versions PROVE \E i \in itineraries : i.id = v.itinerary_id
      BY <2>0
    <2>5. ASSUME NEW c \in contents PROVE \E v \in versions : v.id = c
      <3>1. PICK i \in itineraries : c = i.current_version_id
        BY <2>0
      <3>2. [id |-> i.current_version_id, itinerary_id |-> i.id] \in versions
        BY <2>0
      <3>3. QED
        BY <3>1, <3>2
    <2>6. QED
      BY <2>1, <2>2, <2>3, <2>4, <2>5 DEF PlanIsWhole
  <1>2. QED
    BY <1>1, AlwaysTyped, AlwaysStored, PTL

\* Nothing stored belongs to an account that is gone: the foreign key's lock
\* keeps the account until the plan commits, and then the cascade sees it.
THEOREM AlwaysOwned == Spec => []OwnersExist
  <1>1. StoreInv => OwnersExist
    BY DEF StoreInv, Owned
  <1>2. QED
    BY <1>1, AlwaysStored, PTL

\* What was answered as deleted is gone and stays gone.
THEOREM StaysDeleted == Spec => []DeletedIsGone
  <1>1. TypeInv /\ StoreInv => DeletedIsGone
    <2> SUFFICES ASSUME TypeInv, StoreInv, NEW r \in Requests, out[r] = "deleted"
                 PROVE  IF plan[r].id # 0
                        THEN \A i \in itineraries : i.id # plan[r].id
                        ELSE /\ uid[r] \notin UserIds
                             /\ \A i \in itineraries : i.user_id # uid[r]
      BY DEF DeletedIsGone
    <2>1. DeletedBy(r)
      BY DEF StoreInv, Deleted
    <2>2. \A i \in itineraries : i.user_id \in UserIds \cup {Nobody}
      BY DEF StoreInv, Owned, OwnersExist
    <2>3. QED
      BY <2>1, <2>2 DEF DeletedBy, Taken
  <1>2. QED
    BY <1>1, AlwaysTyped, AlwaysStored, PTL

-----------------------------------------------------------------------------
(* What a step does to the accounts and to the plans                         *)

LEMMA TableSteps ==
  ASSUME TypeInv, StoreInv, [Next]_vars
  PROVE  \/ users' = users /\ itineraries' = itineraries
         \/ \E r \in Requests :
              /\ users' = users \cup {[id |-> serial["user"], email |-> email[r]]}
              /\ \A u \in users : u.email # email[r]
              /\ itineraries' = itineraries
         \/ \E r \in Requests : CommitPlan(r) \/ CommitDelete(r) \/ CommitAccount(r)
  <1>1. CASE UNCHANGED vars
    BY <1>1 DEF vars, tables
  <1>2. CASE Crash
    BY <1>2 DEF Crash, tables
  <1>3. ASSUME NEW r \in Requests, Begin(r) PROVE users' = users /\ itineraries' = itineraries
    BY <1>3 DEF Begin, BeginSignUp, BeginPlan, BeginAs, NoSuchUser, tables
  <1>4. ASSUME NEW r \in Requests, Step(r), ~InsertUser(r),
               ~(CommitPlan(r) \/ CommitDelete(r) \/ CommitAccount(r))
        PROVE  users' = users /\ itineraries' = itineraries
    BY <1>4 DEF Step, CheckEmail, RefreshUser, FlushSpec, FlushItinerary, FlushVersion,
                EndPlanning, ReadHeader, ReadStops, FindPlan, DeletePlanRow, DeleteSpecRow,
                VerifyPassword, DeleteUserRow, CascadeRow, DeadlockAbort, Delete, tables
  <1>5. ASSUME NEW r \in Requests, InsertUser(r)
        PROVE  /\ itineraries' = itineraries
               /\ \/ users' = users
                  \/ /\ users' = users \cup {[id |-> serial["user"], email |-> email[r]]}
                     /\ \A u \in users : u.email # email[r]
    BY <1>5 DEF InsertUser
  <1>6. QED
    BY <1>1, <1>2, <1>3, <1>4, <1>5 DEF Next

\* The unique index lets one of two sign-ups in.
THEOREM OneAccount == Spec => []OneAccountPerEmail
  <1>1. Init => OneAccountPerEmail
    BY DEF Init, Empty, InUse, OneAccountPerEmail
  <1>2. TypeInv /\ StoreInv /\ OneAccountPerEmail /\ [Next]_vars => OneAccountPerEmail'
    <2> SUFFICES ASSUME TypeInv, StoreInv, OneAccountPerEmail, [Next]_vars
                 PROVE  OneAccountPerEmail'
      OBVIOUS
    <2>1. CASE users' \subseteq users
      BY <2>1 DEF OneAccountPerEmail
    <2>2. ASSUME NEW r \in Requests,
                 users' = users \cup {[id |-> serial["user"], email |-> email[r]]},
                 \A u \in users : u.email # email[r]
          PROVE  OneAccountPerEmail'
      BY <2>2 DEF OneAccountPerEmail
    <2>3. ASSUME NEW r \in Requests, CommitPlan(r) \/ CommitDelete(r) \/ CommitAccount(r)
          PROVE  users' \subseteq users
      BY <2>3 DEF CommitPlan, CommitDelete, CommitAccount, CommitGone
    <2>4. QED
      BY <2>1, <2>2, <2>3, TableSteps
  <1>3. QED
    BY <1>1, <1>2, AlwaysTyped, AlwaysStored, PTL DEF Spec

\* A plan goes away only in the commit of a deletion of its owner's.
LEMMA GoneByOwner ==
  ASSUME TypeInv, StoreInv, NEW r \in Requests, CommitDelete(r) \/ CommitAccount(r),
         NEW i \in itineraries, i \notin itineraries'
  PROVE  /\ uid[r] = i.user_id /\ out[r] # "deleted" /\ out'[r] = "deleted"
         /\ plan[r].id = IF CommitDelete(r) THEN i.id ELSE 0
  <1>1. CommitGone(r) /\ pc[r] = IF CommitDelete(r) THEN "commit_plan" ELSE "cascade"
    BY DEF CommitDelete, CommitAccount
  <1>2. out[r] # "deleted" /\ out'[r] = "deleted"
    BY <1>1 DEF CommitGone, End, StoreInv, Deleted, DeletedBy, TypeInv, LocalsOK
  <1>3. <<"itinerary", i.id>> \in gone[r]
    BY <1>1 DEF CommitGone
  <1>4. HeldBy(r) /\ RemovingAccount(r)
    BY DEF StoreInv, Held, Deleting
  <1>5. /\ \E j \in itineraries : j.id = i.id /\ j.user_id = uid[r]
        /\ pc[r] = "commit_plan" => i.id = plan[r].id
    BY <1>1, <1>3, <1>4 DEF HeldBy
  <1>6. uid[r] = i.user_id
    BY <1>5 DEF StoreInv, Keys
  <1>7. pc[r] = "cascade" => plan[r].id = 0
    BY <1>4 DEF RemovingAccount
  <1>8. QED
    BY <1>1, <1>2, <1>5, <1>6, <1>7

THEOREM GoneOnlyByOwner == Spec => GoneOnlyIfDeleted
  <1> DEFINE A == \A i \in itineraries : i \notin itineraries' =>
                    \E r \in Requests :
                      /\ uid[r] = i.user_id /\ out[r] # "deleted" /\ out'[r] = "deleted"
                      /\ plan[r].id \in {0, i.id}
  <1>1. TypeInv /\ StoreInv /\ [Next]_vars => A
    <2> SUFFICES ASSUME TypeInv, StoreInv, [Next]_vars,
                        NEW i \in itineraries, i \notin itineraries'
                 PROVE  \E r \in Requests :
                          /\ uid[r] = i.user_id /\ out[r] # "deleted" /\ out'[r] = "deleted"
                          /\ plan[r].id \in {0, i.id}
      OBVIOUS
    <2>1. PICK r \in Requests : CommitDelete(r) \/ CommitAccount(r)
      BY TableSteps DEF CommitPlan
    <2>2. QED
      BY <2>1, GoneByOwner
  <1> HIDE DEF A
  <1>2. TypeInv /\ StoreInv /\ [Next]_vars => [A]_vars
    BY <1>1
  <1>3. Spec => [][A]_vars
    BY <1>2, AlwaysTyped, AlwaysStored, PTL DEF Spec
  <1>4. QED
    BY <1>3 DEF GoneOnlyIfDeleted, A

\* The plans after a step: those before it, or one more under ids of its own.
LEMMA PlanSteps ==
  ASSUME TypeInv, StoreInv, [Next]_vars, NEW j \in itineraries', j \notin itineraries
  PROVE  \E r \in Requests :
           /\ CommitPlan(r) /\ j = ItineraryRow(r)
           /\ \A i \in itineraries : i.id # j.id /\ i.tripspec_id # j.tripspec_id
  <1>1. PICK r \in Requests : CommitPlan(r)
    <2>1. ASSUME NEW r \in Requests, CommitDelete(r) \/ CommitAccount(r)
          PROVE  itineraries' \subseteq itineraries
      BY <2>1 DEF CommitDelete, CommitAccount, CommitGone
    <2>2. QED
      BY <2>1, TableSteps
  <1>2. j = ItineraryRow(r) /\ pc[r] = "commit"
    BY <1>1 DEF CommitPlan
  <1>3. j.id = plan[r].id /\ j.tripspec_id = plan[r].spec
    BY <1>2 DEF ItineraryRow
  <1>4. QED
    BY <1>1, <1>2, <1>3 DEF StoreInv, Unused, Saving, Numbering

THEOREM RecordsKept == Spec => PlansAreRecords
  <1> DEFINE A == \A i \in itineraries, j \in itineraries' :
                    i.id = j.id \/ i.tripspec_id = j.tripspec_id
                      => i = j
  <1>1. TypeInv /\ StoreInv /\ [Next]_vars => A
    <2> SUFFICES ASSUME TypeInv, StoreInv, [Next]_vars,
                        NEW i \in itineraries, NEW j \in itineraries',
                        i.id = j.id \/ i.tripspec_id = j.tripspec_id
                 PROVE  i = j
      OBVIOUS
    <2>1. j \in itineraries
      BY PlanSteps
    <2>2. QED
      BY <2>1 DEF StoreInv, Keys
  <1> HIDE DEF A
  <1>2. TypeInv /\ StoreInv /\ [Next]_vars => [A]_vars
    BY <1>1
  <1>3. Spec => [][A]_vars
    BY <1>2, AlwaysTyped, AlwaysStored, PTL DEF Spec
  <1>4. QED
    BY <1>3 DEF PlansAreRecords, A

-----------------------------------------------------------------------------
(* The tables implement the book of plans                                    *)

Entry(i) == [id |-> i.id, owner |-> i.user_id, made |-> i.tripspec_id]

LEMMA BookEntries == Book = {Entry(i) : i \in itineraries}
  BY DEF Book, Entry

LEMMA InitRefines == Init => Abstract!Init
  <1> SUFFICES ASSUME Init PROVE Abstract!Init
    OBVIOUS
  <1>1. TypeInv /\ StoreInv
    BY TypeInit, StoreInit
  <1>2. UserIds \subseteq Nat \ {Nobody}
    BY <1>1 DEF TypeInv, TablesOK, User, Id, UserIds, Nobody
  <1>3. ASSUME NEW i \in itineraries
        PROVE  /\ i.id \in Nat /\ i.tripspec_id \in Nat
               /\ i.user_id \in UserIds \cup {Nobody}
    BY <1>1 DEF TypeInv, TablesOK, Itinerary, Id, StoreInv, Owned, OwnersExist
  <1>4. Book \subseteq [id : Nat, owner : UserIds \cup {Nobody}, made : Nat]
    BY <1>3 DEF Book
  <1>5. QED
    BY <1>2, <1>4 DEF Abstract!Init

LEMMA CommitPlanAdds ==
  ASSUME TypeInv, StoreInv, [Next]_vars, NEW r \in Requests, CommitPlan(r)
  PROVE  Abstract!Next
  <1> DEFINE new == ItineraryRow(r)
  <1>1. /\ itineraries' = itineraries \cup {new} /\ UNCHANGED users
        /\ pc[r] = "commit"
    BY DEF CommitPlan
  <1>2. /\ new.id = plan[r].id /\ new.user_id = uid[r] /\ new.tripspec_id = plan[r].spec
    BY DEF ItineraryRow
  <1> HIDE DEF new
  <1>3. new.user_id \in UserIds \cup {Nobody}
    BY <1>1, <1>2 DEF StoreInv, Owned, Saving
  <1>4. \A i \in itineraries : i.id # new.id /\ i.tripspec_id # new.tripspec_id
    BY <1>1, <1>2 DEF StoreInv, Unused, Saving, Numbering
  <1>5. Book' = Book \cup {Entry(new)} /\ UserIds' = UserIds
    BY <1>1 DEF Book, Entry, UserIds
  <1>6. \A q \in Book : q.id # Entry(new).id /\ q.made # Entry(new).made
    <2>1. ASSUME NEW i \in itineraries
          PROVE  Entry(i).id # Entry(new).id /\ Entry(i).made # Entry(new).made
      BY <1>4 DEF Entry
    <2>2. QED
      BY <2>1, BookEntries
  <1>7. Entry(new).owner \in UserIds \cup {Nobody}
    BY <1>3 DEF Entry
  <1>8. Abstract!Add(Entry(new)) /\ Entry(new) \in Book'
    BY <1>5, <1>6, <1>7 DEF Abstract!Add
  <1>9. QED
    BY <1>8 DEF Abstract!Next

LEMMA DeletesRemove ==
  ASSUME TypeInv, StoreInv, NEW r \in Requests, CommitDelete(r)
  PROVE  Abstract!Next \/ (UserIds' = UserIds /\ Book' = Book)
  <1>1. pc[r] = "commit_plan" /\ CommitGone(r) /\ Complete(r)
    BY DeleteIsComplete DEF CommitDelete
  <1>2. /\ itineraries' = {i \in itineraries : <<"itinerary", i.id>> \notin gone[r]}
        /\ UserIds' = {u \in UserIds : <<"user", u>> \notin gone[r]}
    BY <1>1, CommitGoneTables
  <1>3. UserIds' = UserIds
    BY <1>1, <1>2 DEF StoreInv, Owned
  <1>4. CASE itineraries' = itineraries
    BY <1>3, <1>4 DEF Book
  <1>5. CASE itineraries' # itineraries
    <2>1. PICK i \in itineraries : i \notin itineraries'
      BY <1>2, <1>5
    <2>2. \A j \in itineraries : j \notin itineraries' => j.id = plan[r].id
      BY <1>1, <1>2 DEF StoreInv, Held, HeldBy
    <2>3. \A j \in itineraries : j \in itineraries' <=> j # i
      BY <1>2, <2>1, <2>2 DEF StoreInv, Keys
    <2>4. \A j \in itineraries : j # i => Entry(j) # Entry(i)
      <3>1. \A j \in itineraries : j # i => j.id # i.id
        BY DEF StoreInv, Keys
      <3>2. \A j \in itineraries : Entry(j).id = j.id
        BY DEF Entry
      <3>3. QED
        BY <3>1, <3>2
    <2>5. Book' = Book \ {Entry(i)}
      <3>1. Book' = {Entry(j) : j \in itineraries'}
        BY DEF Book, Entry
      <3>2. itineraries' = itineraries \ {i}
        BY <1>2, <2>3
      <3>3. QED
        BY <2>4, <3>1, <3>2, BookEntries
    <2>6. Entry(i) \in Book
      BY BookEntries
    <2>7. QED
      BY <1>3, <2>5, <2>6 DEF Abstract!Next, Abstract!Remove
  <1>6. QED
    BY <1>4, <1>5

LEMMA AccountsClose ==
  ASSUME TypeInv, StoreInv, NEW r \in Requests, CommitAccount(r)
  PROVE  Abstract!Next \/ (UserIds' = UserIds /\ Book' = Book)
  <1>1. /\ pc[r] = "cascade" /\ CommitGone(r) /\ Complete(r)
        /\ \A i \in itineraries : i.user_id = uid[r] => <<"itinerary", i.id>> \in gone[r]
    BY AccountIsComplete DEF CommitAccount
  <1>2. /\ itineraries' = {i \in itineraries : <<"itinerary", i.id>> \notin gone[r]}
        /\ UserIds' = {u \in UserIds : <<"user", u>> \notin gone[r]}
    BY <1>1, CommitGoneTables
  <1>3. UserIds' = UserIds \ {uid[r]}
    BY <1>1, <1>2 DEF StoreInv, Owned, Deleting, RemovingAccount
  <1>4. itineraries' = {i \in itineraries : i.user_id # uid[r]}
    <2>1. ASSUME NEW i \in itineraries, <<"itinerary", i.id>> \in gone[r]
          PROVE  i.user_id = uid[r]
      <3>1. HeldBy(r)
        BY DEF StoreInv, Held
      <3>2. \E j \in itineraries : j.id = i.id /\ j.user_id = uid[r]
        BY <2>1, <3>1 DEF HeldBy
      <3>3. PICK j \in itineraries : j.id = i.id /\ j.user_id = uid[r]
        BY <3>2
      <3>4. j = i
        BY <3>3 DEF StoreInv, Keys
      <3>5. QED
        BY <3>3, <3>4
    <2>2. QED
      BY <1>1, <1>2, <2>1
  <1>5. Book' = {p \in Book : p.owner # uid[r]}
    <2>1. Book' = {Entry(i) : i \in itineraries'}
      BY DEF Book, Entry
    <2>2. \A i \in itineraries : Entry(i).owner = i.user_id
      BY DEF Entry
    <2>3. QED
      BY <1>4, <2>1, <2>2, BookEntries
  <1>6. CASE uid[r] \in UserIds
    BY <1>3, <1>5, <1>6 DEF Abstract!Next, Abstract!Close
  <1>7. CASE uid[r] \notin UserIds
    <2>1. uid[r] # Nobody
      BY <1>1 DEF StoreInv, Deleting, RemovingAccount
    <2>2. \A i \in itineraries : i.user_id # uid[r]
      BY <1>7, <2>1 DEF StoreInv, Owned, OwnersExist
    <2>3. itineraries' = itineraries
      BY <1>4, <2>2
    <2>4. QED
      BY <1>3, <1>7, <2>3 DEF Book
  <1>8. QED
    BY <1>6, <1>7

LEMMA NextRefines == TypeInv /\ StoreInv /\ [Next]_vars => [Abstract!Next]_(Abstract!vars)
  <1> SUFFICES ASSUME TypeInv, StoreInv, [Next]_vars
               PROVE  Abstract!Next \/ (UserIds' = UserIds /\ Book' = Book)
    BY DEF Abstract!vars
  <1>1. CASE users' = users /\ itineraries' = itineraries
    BY <1>1 DEF UserIds, Book
  <1>2. ASSUME NEW r \in Requests,
               users' = users \cup {[id |-> serial["user"], email |-> email[r]]},
               itineraries' = itineraries
        PROVE  Abstract!Next
    <2> DEFINE added == [id |-> serial["user"], email |-> email[r]]
    <2>a. Book' = Book
      BY <1>2 DEF Book
    <2>b. users' = users \cup {added} /\ added.id = serial["user"]
      BY <1>2
    <2>c. UserIds' = {u.id : u \in users \cup {added}}
      BY <2>b DEF UserIds
    <2>d. {u.id : u \in users \cup {added}} = UserIds \cup {added.id}
      <3> HIDE DEF added
      <3>1. QED
        BY DEF UserIds
    <2>1. UserIds' = UserIds \cup {serial["user"]} /\ Book' = Book
      BY <2>a, <2>b, <2>c, <2>d
    <2>2. serial["user"] \in Id /\ \A u \in UserIds : u \in Nat /\ u < serial["user"]
      BY DEF TypeInv, SerialOK, TablesOK, Table, User, Id, UserIds, StoreInv, Keys
    <2>3. serial["user"] \notin UserIds \cup {Nobody}
      BY <2>2 DEF Id, Nobody
    <2>4. QED
      BY <2>1, <2>3 DEF Abstract!Next, Abstract!Open
  <1>3. QED
    BY <1>1, <1>2, TableSteps, CommitPlanAdds, DeletesRemove, AccountsClose

\* Statement by statement, with locks, rollbacks and crashes, the tables do
\* nothing a book of plans would not do in one step.
THEOREM RefinesPlanBook == Spec => ImplementsPlanBook
  <1>1. Spec => Abstract!Spec
    BY InitRefines, NextRefines, AlwaysTyped, AlwaysStored, PTL DEF Spec, Abstract!Spec
  <1>2. QED
    BY <1>1 DEF ImplementsPlanBook

-----------------------------------------------------------------------------
(* What is read in two statements.                                           *)

\* A step is one request's, or a crash, or none.
LEMMA OneMoves ==
  ASSUME TypeInv, NEW q \in Requests, Begin(q) \/ Step(q), NEW o \in Requests, o # q
  PROVE  Same(o)
  <1>1. ASSUME NEW to, Go(q, to) PROVE pc'[o] = pc[o]
    BY <1>1 DEF Go, TypeInv, LocalsOK
  <1>2. ASSUME NEW answer, End(q, answer) PROVE Same(o)
    BY <1>1, <1>2 DEF End, Same, TypeInv, LocalsOK
  <1> USE DEF Same, TypeInv, LocalsOK
  <1>3. CASE Begin(q)
    BY <1>1, <1>2, <1>3 DEF Begin, BeginSignUp, BeginPlan, BeginAs, NoSuchUser
  <1>4. CASE CheckEmail(q) \/ InsertUser(q) \/ RefreshUser(q)
    BY <1>1, <1>2, <1>4 DEF CheckEmail, InsertUser, RefreshUser
  <1>5. CASE FlushSpec(q) \/ FlushItinerary(q) \/ FlushVersion(q) \/ CommitPlan(q) \/ EndPlanning(q)
    BY <1>1, <1>2, <1>5 DEF FlushSpec, FlushItinerary, FlushVersion, CommitPlan, EndPlanning
  <1>6. CASE ReadHeader(q) \/ ReadStops(q) \/ FindPlan(q)
    BY <1>1, <1>2, <1>6 DEF ReadHeader, ReadStops, FindPlan
  <1>7. CASE DeletePlanRow(q) \/ DeleteSpecRow(q) \/ DeleteUserRow(q) \/ CascadeRow(q)
    BY <1>1, <1>7 DEF DeletePlanRow, DeleteSpecRow, DeleteUserRow, CascadeRow, Delete
  <1>8. CASE CommitDelete(q) \/ CommitAccount(q) \/ VerifyPassword(q) \/ DeadlockAbort(q)
    BY <1>1, <1>2, <1>8 DEF CommitDelete, CommitAccount, CommitGone, VerifyPassword, DeadlockAbort
  <1>9. QED
    BY <1>3, <1>4, <1>5, <1>6, <1>7, <1>8 DEF Step

\* Ids of plans are handed out in order, to requests that number one.
LEMMA IdsGrow ==
  ASSUME TypeInv, [Next]_vars
  PROVE  /\ serial["itinerary"] <= serial'["itinerary"]
         /\ \A q \in Requests : pc'[q] \in Numbering =>
              \/ pc[q] \in Numbering /\ plan'[q].id = plan[q].id
              \/ plan'[q].id = serial["itinerary"]
  <1> USE DEF TypeInv, LocalsOK, SerialOK, Numbering
  <1>0. serial["itinerary"] \in Nat
    BY DEF Table, Id
  <1>1. ASSUME serial' = serial PROVE serial["itinerary"] <= serial'["itinerary"]
    BY <1>0, <1>1
  <1>2. ASSUME NEW q \in Requests, Begin(q) \/ Step(q)
        PROVE  /\ serial["itinerary"] <= serial'["itinerary"]
               /\ pc'[q] \in Numbering =>
                    \/ pc[q] \in Numbering /\ plan'[q].id = plan[q].id
                    \/ plan'[q].id = serial["itinerary"]
    <2>1. ASSUME NEW to, Go(q, to) PROVE pc'[q] = to
      BY <2>1 DEF Go
    <2>2. ASSUME NEW answer, End(q, answer) PROVE pc'[q] \notin Numbering
      BY <2>1, <2>2 DEF End
    <2>3. CASE Begin(q)
      BY <1>1, <2>1, <2>2, <2>3 DEF Begin, BeginSignUp, BeginPlan, BeginAs, NoSuchUser
    <2>4. CASE CheckEmail(q) \/ RefreshUser(q)
      BY <1>1, <2>1, <2>2, <2>4 DEF CheckEmail, RefreshUser
    <2>5. CASE InsertUser(q)
      BY <1>0, <2>1, <2>2, <2>5 DEF InsertUser, Table
    <2>6. CASE FlushSpec(q)
      BY <1>0, <2>1, <2>2, <2>6 DEF FlushSpec, Table
    <2>7. CASE FlushItinerary(q)
      <3>1. serial'["itinerary"] = serial["itinerary"] + 1 /\ plan'[q].id = serial["itinerary"]
        BY <2>7 DEF FlushItinerary, Table
      <3>2. QED
        BY <1>0, <3>1
    <2>8. CASE FlushVersion(q)
      <3>1. serial'["itinerary"] = serial["itinerary"] /\ pc[q] = "version"
            /\ plan'[q].id = plan[q].id
        BY <2>8 DEF FlushVersion, Table
      <3>2. QED
        BY <1>0, <3>1
    <2>9. CASE CommitPlan(q) \/ EndPlanning(q)
      BY <1>1, <2>1, <2>2, <2>9 DEF CommitPlan, EndPlanning
    <2>10. CASE ReadHeader(q) \/ ReadStops(q) \/ FindPlan(q)
      BY <1>1, <2>1, <2>2, <2>10 DEF ReadHeader, ReadStops, FindPlan
    <2>11. CASE DeletePlanRow(q) \/ DeleteSpecRow(q) \/ DeleteUserRow(q) \/ CascadeRow(q)
      BY <1>1, <2>1, <2>11 DEF DeletePlanRow, DeleteSpecRow, DeleteUserRow, CascadeRow, Delete
    <2>12. CASE CommitDelete(q) \/ CommitAccount(q) \/ VerifyPassword(q) \/ DeadlockAbort(q)
      BY <1>1, <2>1, <2>2, <2>12
         DEF CommitDelete, CommitAccount, CommitGone, VerifyPassword, DeadlockAbort
    <2>13. QED
      BY <1>2, <2>3, <2>4, <2>5, <2>6, <2>7, <2>8, <2>9, <2>10, <2>11, <2>12 DEF Step
  <1>3. CASE \E q \in Requests : Begin(q) \/ Step(q)
    <2>1. PICK q \in Requests : Begin(q) \/ Step(q)
      BY <1>3
    <2>2. \A o \in Requests : o # q => Same(o)
      BY <2>1, OneMoves
    <2>3. QED
      BY <1>2, <2>1, <2>2 DEF Same
  <1>4. CASE Crash
    BY <1>1, <1>4 DEF Crash, Running
  <1>5. CASE UNCHANGED vars
    BY <1>1, <1>5 DEF vars
  <1>6. QED
    BY <1>3, <1>4, <1>5 DEF Next

\* A reader between its statements holds the version of its plan, if the plan is
\* still there; one that found no stops was late.
ReaderOK(r) ==
  /\ pc[r] = "stops" =>
       /\ Taken(r)
       /\ \A i \in itineraries : i.id = plan[r].id => i.current_version_id = plan[r].version
  /\ out[r] = "empty" =>
       /\ pc[r] = "done" /\ Taken(r)
       /\ \A i \in itineraries : i.id # plan[r].id

ReadInv == \A r \in Requests : ReaderOK(r)

\* No step takes that from a request that does not move.
LEMMA ReaderStays ==
  ASSUME TypeInv, TypeInv', StoreInv, [Next]_vars, NEW r \in Requests, ReaderOK(r), Same(r)
  PROVE  ReaderOK(r)'
  <1>1. Taken(r) => Taken(r)'
    BY IdsGrow, TakenKept
  <1>2. ASSUME Taken(r), NEW i \in itineraries', i.id = plan[r].id
        PROVE  i \in itineraries
    <2>1. SUFFICES ASSUME i \notin itineraries PROVE FALSE
      OBVIOUS
    <2>2. PICK q \in Requests : CommitPlan(q) /\ i = ItineraryRow(q)
      BY <2>1, PlanSteps
    <2>3. pc[q] \in Numbering /\ i.id = plan[q].id
      BY <2>2 DEF CommitPlan, ItineraryRow, Numbering
    <2>4. QED
      BY <1>2, <2>3 DEF Taken
  <1>3. QED
    BY <1>1, <1>2 DEF ReaderOK, Same

\* The header names the version the plan has then; what a reader is answered
\* follows from that.
LEMMA ReaderMoves ==
  ASSUME TypeInv, TypeInv', StoreInv, [Next]_vars, NEW r \in Requests, ReaderOK(r),
         Begin(r) \/ Step(r)
  PROVE  ReaderOK(r)'
  <1> USE DEF TypeInv, LocalsOK
  <1>0. out[r] # "empty"
    <2>1. pc[r] # "done"
      BY DEF Begin, BeginSignUp, BeginPlan, BeginAs, NoSuchUser, Step, CheckEmail, InsertUser,
             RefreshUser, FlushSpec, FlushItinerary, FlushVersion, CommitPlan, EndPlanning,
             ReadHeader, ReadStops, FindPlan, DeletePlanRow, DeleteSpecRow, CommitDelete,
             VerifyPassword, DeleteUserRow, CascadeRow, CommitAccount, DeadlockAbort,
             InCycle, WaitsFor
    <2>2. QED
      BY <2>1 DEF ReaderOK
  <1>1. ASSUME NEW to, to # "stops", Go(r, to), UNCHANGED out PROVE ReaderOK(r)'
    BY <1>0, <1>1 DEF ReaderOK, Go
  <1>2. ASSUME NEW answer, answer # "empty", End(r, answer) PROVE ReaderOK(r)'
    <2>1. pc'[r] = "done" /\ out'[r] = answer
      BY <1>2 DEF End, Go
    <2>2. QED
      BY <1>2, <2>1 DEF ReaderOK
  <1>3. CASE Begin(r)
    <2>1. CASE NoSuchUser(r)
      BY <1>2, <2>1 DEF NoSuchUser
    <2>2. CASE BeginSignUp(r) \/ BeginPlan(r)
      BY <1>1, <2>2 DEF BeginSignUp, BeginPlan
    <2>3. ASSUME NEW first \in {"header", "find", "verify"}, BeginAs(r, first)
          PROVE  ReaderOK(r)'
      <3>1. first # "stops" /\ Go(r, first) /\ UNCHANGED out
        BY <2>3 DEF BeginAs
      <3>2. QED
        BY <1>1, <3>1
    <2>4. QED
      BY <1>3, <2>1, <2>2, <2>3 DEF Begin
  <1>4. CASE CheckEmail(r) \/ InsertUser(r)
    BY <1>1, <1>2, <1>4 DEF CheckEmail, InsertUser
  <1>5. CASE RefreshUser(r)
    <2>1. End(r, "ok") \/ End(r, "error")
      BY <1>5 DEF RefreshUser
    <2>2. QED
      BY <1>2, <2>1
  <1>6. CASE FlushSpec(r) \/ FlushItinerary(r) \/ FlushVersion(r) \/ CommitPlan(r)
    BY <1>1, <1>2, <1>6 DEF FlushSpec, FlushItinerary, FlushVersion, CommitPlan
  <1>7. CASE EndPlanning(r)
    <2>1. End(r, "ok") \/ End(r, "refused")
      BY <1>7 DEF EndPlanning
    <2>2. QED
      BY <1>2, <2>1
  <1>8. CASE ReadHeader(r)
    <2>1. CASE End(r, "not_found")
      BY <1>2, <2>1
    <2>2. CASE ~ End(r, "not_found")
      <3>1. PICK i \in OwnRows(r) :
              /\ plan' = [plan EXCEPT ![r].version = i.current_version_id]
              /\ Go(r, "stops") /\ UNCHANGED <<uid, out>>
        BY <1>8, <2>2 DEF ReadHeader
      <3>2. /\ pc[r] = "header" /\ pc'[r] = "stops" /\ UNCHANGED <<itineraries, serial>>
            /\ plan'[r].id = plan[r].id /\ plan'[r].version = i.current_version_id
        BY <1>8, <3>1 DEF ReadHeader, Go, tables
      <3>3. i \in itineraries /\ i.id = plan[r].id
        BY DEF OwnRows
      <3>4. \A j \in itineraries : j.id = i.id => j = i
        BY <3>3 DEF StoreInv, Keys
      <3>5. Taken(r)'
        <4>1. i.id # 0 /\ i.id < serial["itinerary"]
          BY <3>3 DEF StoreInv, Keys, TablesOK, Itinerary, Id
        <4>2. \A o \in Requests : pc[o] \in Numbering => plan[o].id # i.id
          BY <3>3 DEF StoreInv, Unused
        <4>3. \A o \in Requests : o # r => Same(o)
          BY OneMoves
        <4>4. pc'[r] \notin Numbering
          BY <3>2 DEF Numbering
        <4>5. QED
          BY <3>2, <3>3, <4>1, <4>2, <4>3, <4>4 DEF Taken, Same
      <3>6. QED
        BY <1>0, <3>1, <3>2, <3>3, <3>4, <3>5 DEF ReaderOK
    <2>3. QED
      BY <2>1, <2>2
  <1>9. CASE ReadStops(r)
    <2>1. CASE plan[r].version \in contents
      <3>1. End(r, "ok")
        BY <1>9, <2>1 DEF ReadStops
      <3>2. QED
        BY <1>2, <3>1
    <2>2. CASE plan[r].version \notin contents
      <3>1. /\ pc[r] = "stops" /\ pc'[r] = "done" /\ UNCHANGED <<itineraries, serial>>
            /\ plan'[r].id = plan[r].id
        BY <1>9, <2>2 DEF ReadStops, End, Go, tables
      <3>2. Taken(r) /\ \A i \in itineraries : i.id = plan[r].id => i.current_version_id = plan[r].version
        BY <3>1 DEF ReaderOK
      <3>3. \A i \in itineraries : i.id # plan[r].id
        BY <2>2, <3>2 DEF StoreInv, Derived
      <3>4. Taken(r)'
        <4>1. \A o \in Requests : o # r => Same(o)
          BY OneMoves
        <4>2. pc'[r] \notin Numbering
          BY <3>1 DEF Numbering
        <4>3. QED
          BY <3>1, <3>2, <4>1, <4>2 DEF Taken, Same
      <3>5. QED
        BY <3>1, <3>3, <3>4 DEF ReaderOK
    <2>3. QED
      BY <2>1, <2>2
  <1>10. CASE FindPlan(r) \/ VerifyPassword(r)
    BY <1>1, <1>2, <1>10 DEF FindPlan, VerifyPassword
  <1>11. CASE DeletePlanRow(r) \/ DeleteSpecRow(r) \/ DeleteUserRow(r) \/ CascadeRow(r)
    BY <1>1, <1>11 DEF DeletePlanRow, DeleteSpecRow, DeleteUserRow, CascadeRow, Delete
  <1>12. CASE CommitDelete(r) \/ CommitAccount(r) \/ DeadlockAbort(r)
    BY <1>2, <1>12 DEF CommitDelete, CommitAccount, CommitGone, DeadlockAbort
  <1>13. QED
    BY <1>3, <1>4, <1>5, <1>6, <1>7, <1>8, <1>9, <1>10, <1>11, <1>12 DEF Step

\* Every step keeps it; a crash forgets what was being read.
LEMMA ReadStepKeeps ==
  TypeInv /\ TypeInv' /\ StoreInv /\ ReadInv /\ [Next]_vars => ReadInv'
  <1> SUFFICES ASSUME TypeInv, TypeInv', StoreInv, ReadInv, [Next]_vars, NEW r \in Requests
               PROVE  ReaderOK(r)'
    BY DEF ReadInv
  <1>0. ReaderOK(r)
    BY DEF ReadInv
  <1>1. CASE \E q \in Requests : Begin(q) \/ Step(q)
    <2>1. PICK q \in Requests : Begin(q) \/ Step(q)
      BY <1>1
    <2>2. CASE q = r
      BY <1>0, <2>1, <2>2, ReaderMoves
    <2>3. CASE q # r
      BY <1>0, <2>1, <2>3, OneMoves, ReaderStays
    <2>4. QED
      BY <2>2, <2>3
  <1>2. CASE Crash
    <2>1. /\ pc'[r] = (IF Running(r) THEN "lost" ELSE pc[r])
          /\ plan'[r] = (IF Running(r) THEN NoPlan ELSE plan[r])
          /\ UNCHANGED <<itineraries, serial, out>>
          /\ \A o \in Requests : pc'[o] \in Numbering => pc[o] \in Numbering /\ plan'[o] = plan[o]
      BY <1>2 DEF Crash, tables, Numbering, Running
    <2>2. pc'[r] # "stops"
      BY <2>1 DEF Running
    <2>3. ASSUME out'[r] = "empty"
          PROVE  pc'[r] = "done" /\ Taken(r)' /\ \A i \in itineraries' : i.id # plan'[r].id
      <3>1. pc[r] = "done" /\ Taken(r) /\ \A i \in itineraries : i.id # plan[r].id
        BY <1>0, <2>1, <2>3 DEF ReaderOK
      <3>2. pc'[r] = "done" /\ plan'[r] = plan[r]
        BY <2>1, <3>1 DEF Running
      <3>3. QED
        BY <2>1, <3>1, <3>2 DEF Taken
    <2>4. QED
      BY <2>2, <2>3 DEF ReaderOK
  <1>3. CASE UNCHANGED vars
    <2>1. Same(r)
      BY <1>3 DEF vars, Same
    <2>2. QED
      BY <1>0, <2>1, ReaderStays
  <1>4. QED
    BY <1>1, <1>2, <1>3 DEF Next

\* A plan that was answered without its stops is gone for good: the header was
\* read, the plan deleted before the stops were, and its id is not given again.
THEOREM ReadWholeOrGone == Spec => []ReadIsWholeOrGone
  <1>1. Init => ReadInv
    BY DEF Init, ReadInv, ReaderOK
  <1>2. ReadInv => ReadIsWholeOrGone
    BY DEF ReadInv, ReaderOK, ReadIsWholeOrGone
  <1>3. QED
    BY <1>1, <1>2, ReadStepKeeps, AlwaysTyped, AlwaysStored, PTL DEF Spec
=============================================================================
