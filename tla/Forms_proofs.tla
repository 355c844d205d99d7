---------------------------- MODULE Forms_proofs ----------------------------
(***************************************************************************)
(* Proofs about the two forms that are filled in here and there at once:   *)
(* the profile, for any number of requests and any homes, and the search   *)
(* box, for any texts and any number of searches.                          *)
(***************************************************************************)
EXTENDS Profile, PlaceSearch, TLAPS

-----------------------------------------------------------------------------
(* The profile.                                                            *)

LEMMA AssignedType ==
  ASSUME NEW old \in [Columns -> Values], NEW b \in Bodies
  PROVE  Assigned(old, b) \in [Columns -> Values]
  <1> SUFFICES ASSUME NEW c \in Columns, Sends(b, c)
               PROVE  Sent(old, b, c) \in Values
    BY DEF Assigned
  <1>1. CASE c \in HomeColumns
    <2>1. b["home"] \in Homes \cup {NULL}
      BY <1>1, ProfileAssumption DEF Sends
    <2>2. \A x \in Homes : x[c] \in Values
      BY <1>1, ProfileAssumption
    <2>3. QED
      BY <1>1, <2>1, <2>2, ProfileAssumption DEF Sent
  <1>2. CASE c \notin HomeColumns
    <2>1. c \in DOMAIN b /\ c # "home"
      BY <1>2 DEF Sends, Columns, HomeColumns
    <2>2. b[c] \in Values
      BY <2>1, ProfileAssumption
    <2>3. QED
      BY <1>2, <2>2 DEF Sent
  <1>3. QED
    BY <1>1, <1>2

LEMMA StepType == TypeOK /\ [Next]_vars => TypeOK'
  <1> SUFFICES ASSUME TypeOK, [Next]_vars PROVE TypeOK'
    OBVIOUS
  <1> USE DEF TypeOK
  <1>1. ASSUME NEW r \in Requests, Load(r) PROVE TypeOK'
    <2>1. CASE exists
      <3>1. PICK b \in Bodies : body' = [body EXCEPT ![r] = b]
        BY <1>1, <2>1 DEF Load
      <3>2. QED
        BY <1>1, <2>1, <3>1 DEF Load
    <2>2. CASE ~exists
      <3>1. /\ pc' = [pc EXCEPT ![r] = "done"] /\ out' = [out EXCEPT ![r] = 404]
            /\ UNCHANGED <<row, exists, body, loaded>>
        BY <1>1, <2>2, Zenon DEF Load, Answer
      <3>2. QED
        BY <3>1
    <2>3. QED
      BY <2>1, <2>2
  <1>2. ASSUME NEW r \in Requests, Refuse(r) PROVE TypeOK'
    BY <1>2 DEF Refuse, Answer
  <1>3. ASSUME NEW r \in Requests, Commit(r) PROVE TypeOK'
    <2>1. Assigned(loaded[r], body[r]) \in [Columns -> Values]
      BY <1>3, AssignedType DEF Commit
    <2>2. QED
      BY <1>3, <2>1 DEF Commit
  <1>4. ASSUME NEW r \in Requests, CommitFails(r) PROVE TypeOK'
    BY <1>4 DEF CommitFails, Answer
  <1>5. ASSUME NEW r \in Requests, Refresh(r) PROVE TypeOK'
    BY <1>5 DEF Refresh, Answer
  <1>6. CASE DeleteAccount
    BY <1>6 DEF DeleteAccount
  <1>7. CASE UNCHANGED vars
    BY <1>7 DEF vars
  <1>8. QED
    BY <1>1, <1>2, <1>3, <1>4, <1>5, <1>6, <1>7 DEF Next

\* Rows and requests keep their type: an assignment puts values into columns.
THEOREM TypeCorrect == Spec => []TypeOK
  <1>1. Init => TypeOK
    BY ProfileAssumption DEF Init, TypeOK
  <1>2. QED
    BY <1>1, StepType, PTL DEF Spec

\* A column that is written was sent: Assigned leaves the others as loaded.
LEMMA WrittenWasSent ==
  ASSUME NEW old, NEW b, NEW c \in Written(old, b)
  PROVE  Sends(b, c)
  BY DEF Written, Assigned

\* Only Commit writes the row, and only the columns of Written.
THEOREM OnlySent == Spec => OnlySentChanges
  <1> DEFINE A == \A c \in Columns : row'[c] # row[c] =>
                    \E r \in Requests :
                      /\ pc[r] = "loaded" /\ pc'[r] = "committed"
                      /\ Sends(body[r], c)
  <1>1. TypeOK /\ [Next]_vars => A
    <2> SUFFICES ASSUME TypeOK, [Next]_vars, NEW c \in Columns, row'[c] # row[c]
                 PROVE  \E r \in Requests :
                          /\ pc[r] = "loaded" /\ pc'[r] = "committed"
                          /\ Sends(body[r], c)
      OBVIOUS
    <2>1. PICK r \in Requests : Commit(r)
      BY DEF Next, vars, Load, Refuse, CommitFails, Refresh, DeleteAccount
    <2>2. pc[r] = "loaded" /\ pc'[r] = "committed"
      BY <2>1 DEF Commit, TypeOK
    <2>3. c \in Written(loaded[r], body[r])
      BY <2>1 DEF Commit
    <2>4. QED
      BY <2>2, <2>3, WrittenWasSent
  <1> HIDE DEF A
  <1>2. TypeOK /\ [Next]_vars => [A]_vars
    BY <1>1
  <1>3. Spec => [][A]_vars
    BY <1>2, TypeCorrect, PTL DEF Spec
  <1>4. QED
    BY <1>3 DEF OnlySentChanges, A

\* Only its own commit takes a request from "loaded" to "committed".
LEMMA CommitsItself ==
  ASSUME TypeOK, [Next]_vars, NEW r \in Requests,
         pc[r] = "loaded", pc'[r] = "committed"
  PROVE  Commit(r)
  <1>1. ASSUME NEW s \in Requests, s # r,
               Load(s) \/ Refuse(s) \/ Commit(s) \/ CommitFails(s) \/ Refresh(s)
        PROVE  pc'[r] = pc[r]
    BY <1>1 DEF Load, Refuse, Commit, CommitFails, Refresh, Answer, TypeOK
  <1>2. ~(Load(r) \/ Refuse(r) \/ CommitFails(r) \/ Refresh(r))
    BY DEF Load, Refuse, CommitFails, Refresh, Answer, TypeOK
  <1>3. QED
    BY <1>1, <1>2 DEF Next, vars, DeleteAccount

\* A request that sends a home and has seen the home it replaces leaves the home
\* it sent: the columns it does not write already have their value.
THEOREM HomeWhole == Spec => HomeChangesWhole
  <1> DEFINE A == \A r \in Requests :
                    /\ pc[r] = "loaded" /\ pc'[r] = "committed" /\ exists
                    /\ "home" \in DOMAIN body[r]
                    /\ HomeOf(row) = HomeOf(loaded[r])
                    => HomeOf(row') = SentHome(body[r])
  <1>1. TypeOK /\ [Next]_vars => A
    <2> SUFFICES ASSUME TypeOK, [Next]_vars, NEW r \in Requests,
                        pc[r] = "loaded", pc'[r] = "committed", exists,
                        "home" \in DOMAIN body[r],
                        HomeOf(row) = HomeOf(loaded[r])
                 PROVE  HomeOf(row') = SentHome(body[r])
      OBVIOUS
    <2> DEFINE b == body[r]
               old == loaded[r]
    <2>1. \A c \in Columns :
            row'[c] = IF c \in Written(old, b) THEN Assigned(old, b)[c] ELSE row[c]
      BY CommitsItself DEF Commit
    <2>2. b \in Bodies
      BY DEF TypeOK
    <2>3. ASSUME NEW c \in HomeColumns PROVE row'[c] = SentHome(b)[c]
      <3>1. c \in Columns /\ Sends(b, c)
        BY DEF Columns, Sends
      <3>2. Assigned(old, b)[c] = Sent(old, b, c)
        BY <3>1 DEF Assigned
      <3>3. Sent(old, b, c) = SentHome(b)[c]
        BY DEF Sent, SentHome, NoHome
      <3>4. row[c] = old[c]
        <4>1. HomeOf(row)[c] = row[c] /\ HomeOf(old)[c] = old[c]
          BY DEF HomeOf
        <4>2. QED
          BY <4>1
      <3>5. QED
        BY <2>1, <3>1, <3>2, <3>3, <3>4 DEF Written
    <2>4. SentHome(b) \in [HomeColumns -> Values]
      <3>1. b["home"] \in Homes \cup {NULL}
        BY <2>2, ProfileAssumption
      <3>2. QED
        BY <3>1, ProfileAssumption DEF SentHome, NoHome
    <2>5. QED
      BY <2>3, <2>4 DEF HomeOf
  <1> HIDE DEF A
  <1>2. TypeOK /\ [Next]_vars => [A]_vars
    BY <1>1
  <1>3. Spec => [][A]_vars
    BY <1>2, TypeCorrect, PTL DEF Spec
  <1>4. QED
    BY <1>3 DEF HomeChangesWhole, A

-----------------------------------------------------------------------------
(* The search box.                                                         *)

\* The searches that wait for the timer or for an answer.
Pending(s) == s \in asked \/ (timer # None /\ s = timer)

\* Only the newest search may be shown, and it is for the text in the box
\* unless that was given up since.
NewestIsForText ==
  \A s \in Search : Pending(s) =>
    /\ s.id <= latest
    /\ s.id = latest => s.q = text \/ text \in Short \/ value # None

SearchIInv == SearchTypeOK /\ NewestIsForText /\ LateOnlyWhenGivenUp

LEMMA NoneIsNoSearch == ASSUME NEW s \in Search PROVE s.id \in 1..MaxSearch /\ s.q \in Text
  BY DEF Search

LEMMA EffectType ==
  ASSUME SearchTypeOK, NEW picked \in BOOLEAN, text' \in Text,
         picked \/ latest < MaxSearch, Effect(picked)
  PROVE  /\ latest' \in 0..MaxSearch /\ timer' \in Search \cup {None}
         /\ options'.places \subseteq Text /\ options'.of \in Text \cup {None}
         /\ status' \in {"idle", "searching"}
  <1> USE PlaceSearchAssumption DEF SearchTypeOK
  <1>1. CASE picked \/ text' \in Short
    BY <1>1 DEF Effect, Nothing
  <1>2. CASE ~ (picked \/ text' \in Short)
    <2>1. /\ latest' = latest + 1 /\ timer' = [id |-> latest + 1, q |-> text']
          /\ status' = "searching" /\ options' = options
      BY <1>2 DEF Effect
    <2>2. latest + 1 \in 1..MaxSearch
      BY <1>2
    <2>3. timer' \in Search
      BY <2>1, <2>2 DEF Search
    <2>4. QED
      BY <2>1, <2>2, <2>3
  <1>3. QED
    BY <1>1, <1>2

LEMMA SearchStepType == SearchTypeOK /\ [SearchNext]_searchVars => SearchTypeOK'
  <1> SUFFICES ASSUME SearchTypeOK, [SearchNext]_searchVars PROVE SearchTypeOK'
    OBVIOUS
  <1> USE PlaceSearchAssumption
  <1>1. CASE Edit
    <2>1. /\ text' \in Text /\ value' = None /\ Effect(FALSE) /\ asked' = asked
          /\ latest < MaxSearch
      BY <1>1 DEF Edit
    <2>2. QED
      BY <2>1, EffectType DEF SearchTypeOK
  <1>2. CASE Pick
    <2>1. /\ value' \in Text /\ text' = value' /\ Effect(TRUE) /\ asked' = asked
      BY <1>2 DEF Pick, SearchTypeOK
    <2>2. QED
      BY <2>1, EffectType DEF SearchTypeOK
  <1>3. CASE TimerFires
    BY <1>3 DEF TimerFires, SearchTypeOK
  <1>4. ASSUME NEW s \in asked, ShowAnswer(s) PROVE SearchTypeOK'
    <2>1. CASE IsNewest(s)
      <3>1. PICK found \in Finds[s.q] :
              /\ options' = IF found = {} THEN Nothing ELSE [of |-> s.q, places |-> found]
              /\ status' \in IF found = {} THEN {"none"} ELSE {"idle", "ambiguous"}
        BY <1>4, <2>1 DEF ShowAnswer
      <3>2. s.q \in Text
        BY NoneIsNoSearch DEF SearchTypeOK
      <3>3. found \subseteq Text
        BY <3>2
      <3>4. /\ options'.places \subseteq Text /\ options'.of \in Text \cup {None}
            /\ status' \in {"idle", "ambiguous", "none"}
        BY <3>1, <3>2, <3>3 DEF Nothing
      <3>5. QED
        BY <1>4, <3>4 DEF ShowAnswer, SearchTypeOK
    <2>2. CASE ~ IsNewest(s)
      BY <1>4, <2>2 DEF ShowAnswer, SearchTypeOK
    <2>3. QED
      BY <2>1, <2>2
  <1>5. ASSUME NEW s \in asked, Fail(s) PROVE SearchTypeOK'
    BY <1>5 DEF Fail, SearchTypeOK
  <1>6. CASE UNCHANGED searchVars
    BY <1>6 DEF searchVars, SearchTypeOK
  <1>7. QED
    BY <1>1, <1>2, <1>3, <1>4, <1>5, <1>6 DEF SearchNext

LEMMA SearchStepNewest == SearchIInv /\ [SearchNext]_searchVars => NewestIsForText'
  <1> SUFFICES ASSUME SearchIInv, [SearchNext]_searchVars, NEW s \in Search, Pending(s)'
               PROVE  /\ s.id <= latest'
                      /\ s.id = latest' => s.q = text' \/ text' \in Short \/ value' # None
    BY DEF NewestIsForText
  <1>a. s.id \in Int /\ latest \in Int
    BY PlaceSearchAssumption DEF Search, SearchIInv, SearchTypeOK
  <1>1. CASE Edit
    <2>1. asked' = asked /\ Effect(FALSE)
      BY <1>1 DEF Edit
    <2>2. CASE text' \in Short
      <3>1. timer' = None /\ latest' = latest
        BY <2>1, <2>2 DEF Effect
      <3>2. QED
        BY <2>1, <2>2, <3>1 DEF Pending, SearchIInv, NewestIsForText
    <2>3. CASE text' \notin Short
      <3>1. latest' = latest + 1 /\ timer' = [id |-> latest + 1, q |-> text']
        BY <2>1, <2>3 DEF Effect
      <3>2. CASE s \in asked
        BY <1>a, <3>1, <3>2 DEF Pending, SearchIInv, NewestIsForText
      <3>3. CASE s = timer'
        BY <1>a, <3>1, <3>3
      <3>4. QED
        BY <2>1, <3>2, <3>3 DEF Pending
    <2>4. QED
      BY <2>2, <2>3
  <1>2. CASE Pick
    <2>1. asked' = asked /\ timer' = None /\ latest' = latest
      BY <1>2 DEF Pick, Effect
    <2>2. value' # None
      BY <1>2, PlaceSearchAssumption DEF Pick, SearchIInv, SearchTypeOK
    <2>3. QED
      BY <2>1, <2>2 DEF Pending, SearchIInv, NewestIsForText
  <1>3. CASE TimerFires
    BY <1>3 DEF TimerFires, Pending, SearchIInv, NewestIsForText
  <1>4. ASSUME NEW x \in asked, ShowAnswer(x) \/ Fail(x)
        PROVE /\ s.id <= latest'
              /\ s.id = latest' => s.q = text' \/ text' \in Short \/ value' # None
    <2>1. asked' \subseteq asked /\ UNCHANGED <<text, value, timer, latest>>
      BY <1>4 DEF ShowAnswer, Fail
    <2>2. QED
      BY <2>1 DEF Pending, SearchIInv, NewestIsForText
  <1>5. CASE UNCHANGED searchVars
    BY <1>5 DEF searchVars, Pending, SearchIInv, NewestIsForText
  <1>6. QED
    BY <1>1, <1>2, <1>3, <1>4, <1>5 DEF SearchNext

LEMMA SearchStepLate == SearchIInv /\ [SearchNext]_searchVars => LateOnlyWhenGivenUp'
  <1> SUFFICES ASSUME SearchIInv, [SearchNext]_searchVars PROVE LateOnlyWhenGivenUp'
    OBVIOUS
  <1>1. CASE Edit
    <2>1. options' = Nothing \/ status' = "searching"
      BY <1>1 DEF Edit, Effect
    <2>2. QED
      BY <2>1 DEF LateOnlyWhenGivenUp, Nothing
  <1>2. CASE Pick
    BY <1>2 DEF Pick, Effect, LateOnlyWhenGivenUp, Nothing
  <1>3. CASE TimerFires
    BY <1>3 DEF TimerFires, SearchIInv, LateOnlyWhenGivenUp, Nothing
  <1>4. ASSUME NEW s \in asked, ShowAnswer(s) PROVE LateOnlyWhenGivenUp'
    <2>0. UNCHANGED <<text, value>>
      BY <1>4 DEF ShowAnswer
    <2>1. CASE IsNewest(s)
      <3>1. options' = Nothing \/ options'.of = s.q
        BY <1>4, <2>1 DEF ShowAnswer
      <3>2. s \in Search /\ Pending(s)
        BY DEF SearchIInv, SearchTypeOK, Pending
      <3>3. s.q = text \/ text \in Short \/ value # None
        BY <2>1, <3>2 DEF IsNewest, SearchIInv, NewestIsForText
      <3>4. QED
        BY <2>0, <3>1, <3>3 DEF LateOnlyWhenGivenUp, Nothing
    <2>2. CASE ~ IsNewest(s)
      <3>1. UNCHANGED <<options, status>>
        BY <1>4, <2>2 DEF ShowAnswer
      <3>2. QED
        BY <2>0, <3>1 DEF SearchIInv, LateOnlyWhenGivenUp, Nothing
    <2>3. QED
      BY <2>1, <2>2
  <1>5. ASSUME NEW s \in asked, Fail(s) PROVE LateOnlyWhenGivenUp'
    BY <1>5 DEF Fail, SearchIInv, LateOnlyWhenGivenUp, Nothing
  <1>6. CASE UNCHANGED searchVars
    BY <1>6 DEF searchVars, SearchIInv, LateOnlyWhenGivenUp, Nothing
  <1>7. QED
    BY <1>1, <1>2, <1>3, <1>4, <1>5, <1>6 DEF SearchNext

LEMMA SearchInvariance == SearchSpec => []SearchIInv
  <1>1. SearchInit => SearchIInv
    BY PlaceSearchAssumption
    DEF SearchInit, SearchIInv, SearchTypeOK, NewestIsForText, LateOnlyWhenGivenUp, Pending, Nothing
  <1>2. SearchIInv /\ [SearchNext]_searchVars => SearchIInv'
    BY SearchStepType, SearchStepNewest, SearchStepLate DEF SearchIInv
  <1>3. QED
    BY <1>1, <1>2, PTL DEF SearchSpec

\* Text, options and searches keep their types, and searches their numbers.
THEOREM SearchTypeCorrect == SearchSpec => []SearchTypeOK
  BY SearchInvariance, PTL DEF SearchIInv

\* Whatever the order in which searches are answered or fail, what the box
\* lists is for the text in it, but where the text was given up under a search.
THEOREM LateOnly == SearchSpec => []LateOnlyWhenGivenUp
  BY SearchInvariance, PTL DEF SearchIInv
=============================================================================
