---------------------------- MODULE PlaceSearch -----------------------------
(***************************************************************************)
(* The search box for a place (frontend PlaceSearch.tsx): a person edits   *)
(* the text or picks an option, a timer waits until the typing stops, and  *)
(* answers of /places/resolve arrive in any order or fail. Each change of  *)
(* text or value runs the effect; its cleanup clears the timer. Searches   *)
(* are numbered; only the newest one may show its answer.                  *)
(*                                                                         *)
(* Texts stand for what is left of them when trimmed.                      *)
(***************************************************************************)
EXTENDS Integers

CONSTANTS
  Text,      \* what may be in the box
  Short,     \* the texts of less than three characters
  Finds,     \* [text -> the sets of places, named by texts, it may find]
  MaxSearch, \* how many searches begin (a bound)
  None

ASSUME PlaceSearchAssumption ==
  /\ None \notin Text /\ Short \subseteq Text /\ MaxSearch \in Nat
  /\ Finds \in [Text -> SUBSET SUBSET Text]

VARIABLES
  text, value,  \* what is in the box, and the place chosen (its name) or None
  options,      \* [of |-> the text searched for, places]
  status,
  latest,       \* number of the newest search
  timer,        \* the search that waits for the typing to stop, or None
  asked         \* the searches sent and not answered

searchVars == <<text, value, options, status, latest, timer, asked>>

Nothing == [of |-> None, places |-> {}]
Search == [id : 1..MaxSearch, q : Text]

\* The box opens empty, or with a place chosen before.
SearchInit ==
  /\ \/ value = None /\ text \in Short
     \/ value \in Text /\ text = value
  /\ options = Nothing /\ status = "idle"
  /\ latest = 0 /\ timer = None /\ asked = {}

\* The effect for the text and value there are now. A place just picked is not
\* searched for.
Effect(picked) ==
  IF picked
  THEN timer' = None /\ UNCHANGED latest /\ options' = Nothing /\ status' = "idle"
  ELSE IF text' \in Short
  THEN timer' = None /\ UNCHANGED latest /\ options' = Nothing /\ status' = "idle"
  ELSE /\ latest' = latest + 1
       /\ timer' = [id |-> latest + 1, q |-> text']
       /\ status' = "searching" /\ UNCHANGED options

\* Editing clears the chosen place.
Edit ==
  /\ latest < MaxSearch
  /\ text' \in Text \ {text} /\ value' = None
  /\ Effect(FALSE)
  /\ UNCHANGED asked

Pick ==
  /\ value = None
  /\ value' \in options.places /\ text' = value'
  /\ Effect(TRUE)
  /\ UNCHANGED asked

TimerFires ==
  /\ timer # None
  /\ asked' = asked \cup {timer} /\ timer' = None
  /\ UNCHANGED <<text, value, options, status, latest>>

\* Mutant: every answer is shown.
MutIsNewest(s) == TRUE

IsNewest(s) == s.id = latest

\* An answer is shown if no newer search has begun.
ShowAnswer(s) ==
  /\ s \in asked /\ asked' = asked \ {s}
  /\ IF IsNewest(s)
     THEN \E found \in Finds[s.q] :
            /\ options' = IF found = {} THEN Nothing ELSE [of |-> s.q, places |-> found]
            /\ status' \in IF found = {} THEN {"none"} ELSE {"idle", "ambiguous"}
     ELSE UNCHANGED <<options, status>>
  /\ UNCHANGED <<text, value, latest, timer>>

\* Mutant: a failed search changes nothing.
MutFail(s) ==
  /\ s \in asked /\ asked' = asked \ {s}
  /\ UNCHANGED <<text, value, options, status, latest, timer>>

Fail(s) ==
  /\ s \in asked /\ asked' = asked \ {s}
  /\ status' = IF IsNewest(s) THEN "error" ELSE status
  /\ UNCHANGED <<text, value, options, latest, timer>>

SearchNext ==
  \/ Edit \/ Pick \/ TimerFires
  \/ \E s \in asked : ShowAnswer(s) \/ Fail(s)

\* The timer fires; a request is answered or fails.
SearchFairness ==
  /\ WF_searchVars(TimerFires)
  /\ \A s \in Search : WF_searchVars(ShowAnswer(s) \/ Fail(s))

SearchSpec == SearchInit /\ [][SearchNext]_searchVars /\ SearchFairness

-----------------------------------------------------------------------------

SearchTypeOK ==
  /\ text \in Text /\ value \in Text \cup {None}
  /\ options.places \subseteq Text /\ options.of \in Text \cup {None}
  /\ status \in {"idle", "searching", "ambiguous", "none", "error"}
  /\ latest \in 0..MaxSearch
  /\ timer \in Search \cup {None} /\ asked \subseteq Search

\* What the box lists and says is about the text in it ("a newer search has
\* started", PlaceSearch.tsx:39), unless a search for that text is under way or
\* has failed; or the text was made too short, or a place was picked, while
\* the newest search was under way: nothing stops its answer.
LateOnlyWhenGivenUp ==
  options # Nothing /\ options.of # text =>
    status \in {"searching", "error"} \/ text \in Short \/ value # None

\* The wheel stops turning.
SearchEnds == status = "searching" ~> status # "searching"
=============================================================================
