------------------------------- MODULE Profile -------------------------------
(***************************************************************************)
(* The planning profile on one user's row, changed by PATCH /auth/users/me *)
(* from any number of tabs and devices (api/v1/auth.py, api/deps.py).      *)
(*                                                                         *)
(* A request loads the row to find its user, awaits, and at its commit     *)
(* the ORM writes the columns whose new value differs from the one loaded. *)
(***************************************************************************)
EXTENDS Naturals

HomeColumns == {"home_name", "home_lat", "home_lon"}
Columns == HomeColumns \cup {"display_name", "interests", "vegetarian"}

CONSTANTS
  Requests,   \* PATCH requests of one account
  Values,     \* what columns hold: names, coordinates, lists, diets
  Homes,      \* functions from HomeColumns to values
  InRegion,   \* the homes in_region accepts
  Known,      \* the interest lists whose categories all exist
  Bodies,     \* the bodies sent: a function on the fields sent
  Blank,      \* the profile of a new account
  NULL

ASSUME ProfileAssumption ==
  /\ NULL \in Values
  /\ Homes \subseteq [HomeColumns -> Values]
  /\ InRegion \subseteq Homes
  /\ NULL \notin Bodies
  /\ \A b \in Bodies :
       /\ DOMAIN b \subseteq {"home", "display_name", "interests", "vegetarian"}
       /\ \A f \in DOMAIN b : b[f] \in IF f = "home" THEN Homes \cup {NULL} ELSE Values
  /\ Blank \in [Columns -> Values]
  /\ \A c \in HomeColumns : Blank[c] = NULL

VARIABLES
  row,      \* the profile columns, as committed
  exists,   \* the account has not been deleted
  pc,       \* of each request: where it is
  body,     \* what it sent
  loaded,   \* the profile it loaded
  out       \* the status of its answer

vars == <<row, exists, pc, body, loaded, out>>

Sends(b, c) == (IF c \in HomeColumns THEN "home" ELSE c) \in DOMAIN b

\* Mutant: clearing the home leaves its name.
MutSentKeepsName(old, b, c) ==
  IF c \in HomeColumns
  THEN IF b["home"] # NULL THEN b["home"][c]
       ELSE IF c = "home_name" THEN old[c] ELSE NULL
  ELSE IF b[c] = NULL /\ c # "display_name" THEN old[c] ELSE b[c]

\* A null home or name clears; null interests or diet change nothing.
Sent(old, b, c) ==
  IF c \in HomeColumns
  THEN IF b["home"] = NULL THEN NULL ELSE b["home"][c]
  ELSE IF b[c] = NULL /\ c # "display_name" THEN old[c] ELSE b[c]

\* The object after the assignments: the row it was loaded from, with what was
\* sent.
Assigned(old, b) ==
  [c \in Columns |-> IF Sends(b, c) THEN Sent(old, b, c) ELSE old[c]]

\* Mutant: every column of the object is written.
MutWrittenAll(old, b) == Columns

\* The columns the UPDATE names.
Written(old, b) ==
  {c \in Columns : Assigned(old, b)[c] # old[c]}

Valid(b) ==
  /\ "interests" \in DOMAIN b =>
       b["interests"] = NULL \/ b["interests"] \in Known
  /\ "home" \in DOMAIN b => b["home"] \in InRegion \cup {NULL}

Init ==
  /\ row = Blank
  /\ exists = TRUE
  /\ pc = [r \in Requests |-> "idle"]
  /\ body = [r \in Requests |-> NULL]
  /\ loaded = [r \in Requests |-> Blank]
  /\ out = [r \in Requests |-> 0]

Answer(r, code) ==
  /\ pc' = [pc EXCEPT ![r] = "done"]
  /\ out' = [out EXCEPT ![r] = code]

-----------------------------------------------------------------------------

\* get_current_user: the token's user is loaded, or is gone.
Load(r) ==
  /\ pc[r] = "idle"
  /\ \/ /\ exists
        /\ pc' = [pc EXCEPT ![r] = "loaded"]
        /\ \E b \in Bodies : body' = [body EXCEPT ![r] = b]
        /\ loaded' = [loaded EXCEPT ![r] = row]
        /\ UNCHANGED out
     \/ /\ ~exists
        /\ Answer(r, 404)
        /\ UNCHANGED <<body, loaded>>
  /\ UNCHANGED <<row, exists>>

\* An unknown interest or a home outside the region: the assignments made
\* before it was found are never flushed.
Refuse(r) ==
  /\ pc[r] = "loaded"
  /\ ~Valid(body[r])
  /\ Answer(r, 422)
  /\ UNCHANGED <<row, exists, body, loaded>>

\* The flush and the commit.  With nothing to write there is no UPDATE.
Commit(r) ==
  /\ pc[r] = "loaded"
  /\ Valid(body[r])
  /\ exists \/ Written(loaded[r], body[r]) = {}
  /\ row' = [c \in Columns |-> IF exists /\ c \in Written(loaded[r], body[r])
                               THEN Assigned(loaded[r], body[r])[c]
                               ELSE row[c]]
  /\ pc' = [pc EXCEPT ![r] = "committed"]
  /\ UNCHANGED <<exists, body, loaded, out>>

\* An UPDATE that matches no row raises.
CommitFails(r) ==
  /\ pc[r] = "loaded"
  /\ Valid(body[r])
  /\ ~exists /\ Written(loaded[r], body[r]) # {}
  /\ Answer(r, 500)
  /\ UNCHANGED <<row, exists, body, loaded>>

\* db.refresh, whose row may be gone by then.
Refresh(r) ==
  /\ pc[r] = "committed"
  /\ Answer(r, IF exists THEN 200 ELSE 500)
  /\ UNCHANGED <<row, exists, body, loaded>>

\* delete_my_account, from another tab.
DeleteAccount ==
  /\ exists
  /\ exists' = FALSE
  /\ UNCHANGED <<row, pc, body, loaded, out>>

Next ==
  \/ \E r \in Requests :
       Load(r) \/ Refuse(r) \/ Commit(r) \/ CommitFails(r) \/ Refresh(r)
  \/ DeleteAccount

Spec == Init /\ [][Next]_vars

-----------------------------------------------------------------------------
(* Properties                                                                *)

TypeOK ==
  /\ row \in [Columns -> Values]
  /\ exists \in BOOLEAN
  /\ pc \in [Requests -> {"idle", "loaded", "committed", "done"}]
  /\ body \in [Requests -> Bodies \cup {NULL}]
  /\ loaded \in [Requests -> [Columns -> Values]]
  /\ out \in [Requests -> {0, 200, 404, 422, 500}]
  /\ \A r \in Requests : pc[r] = "loaded" => body[r] \in Bodies

HomeOf(profile) == [c \in HomeColumns |-> profile[c]]
NoHome == [c \in HomeColumns |-> NULL]

\* "Only the fields sent are changed" (auth.py:87), whatever other requests
\* changed since the row was loaded: a column changes only in the commit of a
\* request that sent its field.
OnlySentChanges ==
  [][ \A c \in Columns : row'[c] # row[c] =>
        \E r \in Requests :
          /\ pc[r] = "loaded" /\ pc'[r] = "committed"
          /\ Sends(body[r], c) ]_vars

\* The home a request sent, or none if it cleared it.
SentHome(b) == IF b["home"] = NULL THEN NoHome ELSE b["home"]

\* A home is changed as a whole as long as the request that changes it has seen
\* the home it replaces (auth.py:98-106).
HomeChangesWhole ==
  [][ \A r \in Requests :
        /\ pc[r] = "loaded" /\ pc'[r] = "committed" /\ exists
        /\ "home" \in DOMAIN body[r]
        /\ HomeOf(row) = HomeOf(loaded[r])
        => HomeOf(row') = SentHome(body[r]) ]_vars
=============================================================================
