------------------------ MODULE DraftBuilder_proofs -------------------------
(***************************************************************************)
(* Proofs about drafts and the places they name: for any gazetteer, any    *)
(* drafts, and every minute and weekday.                                   *)
(***************************************************************************)
EXTENDS DraftBuilder, SequenceTheorems, WellFoundedInduction, TLAPS

-----------------------------------------------------------------------------
(* The rows that rank best.                                                *)

\* Of some numbers one is the least.
LEMMA Least ==
  ASSUME NEW S \in SUBSET Nat, S # {}
  PROVE  \E m \in S : \A x \in S : m <= x
  <1>1. PICK m \in S : \A x \in S : ~ (<<x, m>> \in OpToRel(<, Nat))
    BY NatLessThanWellFounded, WFMin
  <1>2. \A x \in S : ~ (x < m)
    BY <1>1 DEF OpToRel
  <1>3. QED
    BY <1>2

\* The extrema of two integers.
LEMMA MinOfTwo ==
  ASSUME NEW a \in Int, NEW b \in Int
  PROVE  Min({a, b}) = IF a <= b THEN a ELSE b
  <1>1. \A x \in {a, b} : (\A y \in {a, b} : x <= y) <=> (x = IF a <= b THEN a ELSE b)
    OBVIOUS
  <1>2. (IF a <= b THEN a ELSE b) \in {a, b}
    OBVIOUS
  <1>3. QED
    BY <1>1, <1>2 DEF Min

LEMMA MaxOfTwo ==
  ASSUME NEW a \in Int, NEW b \in Int
  PROVE  Max({a, b}) = IF a <= b THEN b ELSE a
  <1>1. \A x \in {a, b} : (\A y \in {a, b} : x >= y) <=> (x = IF a <= b THEN b ELSE a)
    OBVIOUS
  <1>2. (IF a <= b THEN b ELSE a) \in {a, b}
    OBVIOUS
  <1>3. QED
    BY <1>1, <1>2 DEF Max

\* No row scores more than 1750.
LEMMA ScoreType ==
  ASSUME NEW r \in Row
  PROVE  Score(r) \in Int /\ Score(r) <= 1750
  <1> DEFINE near == Max({0, MAX_USEFUL_DISTANCE_KM - r.km})
             closeness == (200 * near) \div MAX_USEFUL_DISTANCE_KM
             exactness == IF r.exact THEN 250 ELSE 0
  <1>1. r.sim \in Int /\ r.sim <= 1000 /\ r.km \in Nat
    BY DEF Row
  <1>2. near \in Int /\ 0 <= near /\ near <= 60
    <2>1. near = IF 0 <= 60 - r.km THEN 60 - r.km ELSE 0
      BY <1>1, MaxOfTwo DEF MAX_USEFUL_DISTANCE_KM
    <2>2. QED
      BY <1>1, <2>1
  <1>3. closeness \in Int /\ closeness <= 200
    <2> HIDE DEF near
    <2>1. \A n \in Int : 0 <= n /\ n <= 60 => (200 * n) \div 60 \in Int /\ (200 * n) \div 60 <= 200
      OBVIOUS
    <2>2. QED
      BY <1>2, <2>1 DEF MAX_USEFUL_DISTANCE_KM
  <1>4. Bonus(r.kind) \in Int /\ Bonus(r.kind) <= 300
    BY DEF Bonus
  <1>5. exactness \in Int /\ exactness <= 250
    OBVIOUS
  <1>6. Score(r) = r.sim + Bonus(r.kind) + closeness + exactness
    BY DEF Score
  <1> HIDE DEF closeness, exactness
  <1>7. QED
    BY <1>1, <1>3, <1>4, <1>5, <1>6

\* Of some rows one precedes all others: those with the highest score have a
\* first.
LEMMA ForemostIsFirst ==
  ASSUME NEW rows \in Seq(Row), NEW s \in SUBSET DOMAIN rows, s # {}
  PROVE  /\ Foremost(rows, s) \in s
         /\ \A j \in s \ {Foremost(rows, s)} : Precedes(rows, Foremost(rows, s), j)
  <1> DEFINE short(i) == 1750 - Score(rows[i])
             S == {short(i) : i \in s}
  <1>1. \A i \in s : i \in Nat /\ rows[i] \in Row
    BY ElementOfSeq
  <1>2. \A i \in s : Score(rows[i]) \in Int /\ short(i) \in Nat
    BY <1>1, ScoreType
  <1>3. PICK m \in S : \A x \in S : m <= x
    <2>1. S \in SUBSET Nat /\ S # {}
      BY <1>2
    <2> HIDE DEF S
    <2>2. QED
      BY <2>1, Least
  <1> DEFINE T == {i \in s : short(i) = m}
  <1>4. PICK i \in T : \A j \in T : i <= j
    <2>1. T \in SUBSET Nat /\ T # {}
      BY <1>1
    <2> HIDE DEF T
    <2>2. QED
      BY <2>1, Least
  <1>5. i \in s
    OBVIOUS
  <1>6. \A j \in s \ {i} : Precedes(rows, i, j)
    <2> SUFFICES ASSUME NEW j \in s, j # i PROVE Precedes(rows, i, j)
      OBVIOUS
    <2>1. short(i) = m /\ m <= short(j)
      BY <1>3
    <2>2. Score(rows[i]) >= Score(rows[j])
      BY <1>2, <2>1
    <2>3. CASE Score(rows[i]) = Score(rows[j])
      <3>1. j \in T
        BY <2>1, <2>3
      <3>2. i <= j
        BY <1>4, <3>1
      <3>3. i < j
        BY <1>1, <3>2
      <3>4. QED
        BY <2>3, <3>3 DEF Precedes
    <2>4. CASE Score(rows[i]) # Score(rows[j])
      BY <1>2, <2>2, <2>4 DEF Precedes
    <2>5. QED
      BY <2>3, <2>4
  <1>7. QED
    BY <1>5, <1>6 DEF Foremost

\* A name is unclear because nothing has it, or because something elsewhere
\* scores nearly as much.
LEMMA UnclearForReason ==
  ASSUME NEW rows \in Seq(Row), NeedsClarification(Resolve(rows))
  PROVE  rows = <<>> \/ NearRival(rows)
  <1> SUFFICES ASSUME rows # <<>> PROVE NearRival(rows)
    OBVIOUS
  <1> DEFINE best == Foremost(rows, DOMAIN rows)
             distinct == {i \in DOMAIN rows : IsDistinct(rows[best], rows[i])}
             rival == Foremost(rows, distinct)
             gap == IF distinct = {} THEN 1000 ELSE Score(rows[best]) - Score(rows[rival])
  <1>1. Resolve(rows).confidence = Confidence(gap)
    BY DEF Resolve
  <1>2. \A i \in DOMAIN rows : rows[i] \in Row /\ Score(rows[i]) \in Int
    BY ElementOfSeq, ScoreType
  <1>3. /\ best \in DOMAIN rows
        /\ \A k \in DOMAIN rows : Score(rows[k]) <= Score(rows[best])
    <2>1. DOMAIN rows # {}
      BY EmptySeq
    <2>2. /\ best \in DOMAIN rows
          /\ \A k \in DOMAIN rows \ {best} : Precedes(rows, best, k)
      BY <2>1, ForemostIsFirst
    <2> HIDE DEF best
    <2>3. QED
      BY <1>2, <2>2 DEF Precedes
  <1> HIDE DEF best
  <1>4. distinct # {} /\ gap < MEDIUM_CONFIDENCE_GAP
    <2>1. gap \in Int
      <3>1. distinct # {} => rival \in DOMAIN rows
        BY ForemostIsFirst
      <3> HIDE DEF rival
      <3>2. QED
        BY <1>2, <1>3, <3>1
    <2> HIDE DEF gap
    <2>2. gap < MEDIUM_CONFIDENCE_GAP
      BY <1>1, <2>1 DEF NeedsClarification, Confidence, MEDIUM_CONFIDENCE_GAP,
                        HIGH_CONFIDENCE_GAP
    <2>3. distinct = {} => gap = 1000
      BY DEF gap
    <2>4. QED
      BY <2>2, <2>3 DEF MEDIUM_CONFIDENCE_GAP
  <1>5. rival \in DOMAIN rows /\ IsDistinct(rows[best], rows[rival])
    <2>1. rival \in distinct
      BY <1>4, ForemostIsFirst
    <2>2. QED
      BY <2>1
  <1>6. Score(rows[best]) - Score(rows[rival]) < MEDIUM_CONFIDENCE_GAP
    BY <1>4
  <1> HIDE DEF rival
  <1>7. QED
    BY <1>3, <1>5, <1>6 DEF NearRival, IsDistinct, SAME_PLACE

-----------------------------------------------------------------------------
(* Dates and times.                                                        *)

\* The next day of a given weekday is the remainder away.
LEMMA FirstDay ==
  ASSUME NEW n \in 0..6, NEW today \in 0..6, NEW first \in {0, 1}
  PROVE  LET ahead == (n - today) % 7
         IN Min({d \in first..7 : (today + d) % 7 = n})
              = IF ahead = 0 /\ first = 1 THEN 7 ELSE ahead
  <1> DEFINE ahead == (n - today) % 7
             day == IF ahead = 0 /\ first = 1 THEN 7 ELSE ahead
             days == {d \in first..7 : (today + d) % 7 = n}
  <1>1. day \in days /\ \A d \in days : day <= d
    <2>1. ahead = IF n >= today THEN n - today ELSE n - today + 7
      OBVIOUS
    <2>2. day \in first..7
      BY <2>1
    <2>3. (today + day) % 7 = n
      BY <2>1
    <2>4. ASSUME NEW d \in first..7, (today + d) % 7 = n PROVE day <= d
      <3>1. today + d = n \/ today + d = n + 7 \/ today + d = n + 14
        BY <2>4
      <3>2. QED
        BY <2>1, <3>1
    <2>5. QED
      BY <2>2, <2>3, <2>4
  <1>2. \A d \in days : d \in Int
    OBVIOUS
  <1> HIDE DEF day, days
  <1>3. \A x \in days : (\A y \in days : x <= y) => x = day
    <2> SUFFICES ASSUME NEW x \in days, \A y \in days : x <= y PROVE x = day
      OBVIOUS
    <2>1. x <= day /\ day <= x
      BY <1>1
    <2>2. QED
      BY <1>1, <1>2, <2>1
  <1>4. Min(days) = day
    BY <1>1, <1>3 DEF Min
  <1>5. QED
    BY <1>4 DEF day, days

LEMMA DatesCome == TypeOK => DateIsComing
  <1> SUFFICES ASSUME TypeOK, draft.date \notin {None, Unclear}, draft.date.kind # "ahead"
               PROVE  LET first == IF draft.date.kind = "next" THEN 1 ELSE 0
                      IN ResolveDate(draft.date, weekday)
                           = Min({n \in first..7 : (weekday + n) % 7 = draft.date.n})
    BY DEF DateIsComing
  <1> DEFINE first == IF draft.date.kind = "next" THEN 1 ELSE 0
             ahead == (draft.date.n - weekday) % 7
  <1>1. draft.date \in [kind : {"weekday", "next"}, n : 0..6] /\ weekday \in 0..6
    BY DEF TypeOK, Draft, Day
  <1>2. draft.date.n \in 0..6 /\ first \in {0, 1}
    BY <1>1
  <1>3. Min({d \in first..7 : (weekday + d) % 7 = draft.date.n})
          = IF ahead = 0 /\ first = 1 THEN 7 ELSE ahead
    <2> HIDE DEF first
    <2>1. QED
      BY <1>1, <1>2, FirstDay
  <1>4. ResolveDate(draft.date, weekday)
          = IF ahead = 0 /\ draft.date.kind = "next" THEN 7 ELSE ahead
    BY DEF ResolveDate
  <1>5. QED
    BY <1>3, <1>4

\* A draft without questions has a date to come.
LEMMA TripDateType ==
  ASSUME TypeOK, NEW d \in Draft, DateQuestion(d) = <<>>
  PROVE  TripDate(d) \in Nat
  <1>1. CASE d.date = None
    BY <1>1 DEF TripDate
  <1>2. CASE d.date # None
    <2> DEFINE day == ResolveDate(d.date, weekday)
    <2>1. day # None /\ ~ (day < 0)
      BY <1>2 DEF DateQuestion
    <2>2. d.date # Unclear
      BY <2>1 DEF ResolveDate
    <2>3. d.date \in Day /\ weekday \in 0..6
      BY <1>2, <2>2 DEF Draft, TypeOK
    <2>4. d.date.n \in Int
      BY <2>3 DEF Day
    <2>5. day \in Int
      BY <2>2, <2>3, <2>4 DEF ResolveDate
    <2> HIDE DEF day
    <2>6. QED
      BY <1>2, <2>1, <2>5 DEF TripDate, day
  <1>3. QED
    BY <1>1, <1>2

\* The start the builder chooses for a draft that has none.
LEMMA ChosenStart ==
  ASSUME TypeOK, NEW d, d.start = None
  PROVE  /\ Start(d) \in Nat /\ Start(d) <= 1260
         /\ TripDate(d) = 0 /\ now < 1260 => Start(d) > now
         /\ TripDate(d) = 0 /\ now <= 1200 => Start(d) <= 1230
  <1> DEFINE half == (now \div 30 + 1) * 30
  <1>0. now \in Nat /\ now < 1440
    BY DraftAssumption DEF TypeOK
  <1>1. half \in Nat /\ half > now /\ (now <= 1200 => half <= 1230)
    BY <1>0
  <1>2. Start(d) = IF TripDate(d) = 0 THEN Min({half, 1260}) ELSE 600
    BY DEF Start, LATEST_END
  <1> HIDE DEF half
  <1>3. Min({half, 1260}) = IF half <= 1260 THEN half ELSE 1260
    BY <1>1, MinOfTwo
  <1>4. QED
    BY <1>0, <1>1, <1>2, <1>3

LEMMA IsTimeOfDay ==
  ASSUME NEW t \in Nat, t < 1440
  PROVE  IsTime(t)
  <1>1. Garbled \notin Nat
    BY DraftAssumption
  <1>2. QED
    BY <1>1 DEF IsTime

\* Times the builder chooses both are times, and an hour apart at least.
LEMMA ChosenWindow ==
  ASSUME TypeOK, NEW d, d.start = None, d.end = None
  PROVE  IsTime(Start(d)) /\ IsTime(End(d)) /\ End(d) - Start(d) \in 60..960
  <1>1. Start(d) \in Nat /\ Start(d) <= 1260
    BY ChosenStart
  <1>2. End(d) = Min({Start(d) + 300, 1320})
    BY DEF End, DEFAULT_TRIP, LATEST_END
  <1>3. End(d) = IF Start(d) + 300 <= 1320 THEN Start(d) + 300 ELSE 1320
    BY <1>1, <1>2, MinOfTwo
  <1>4. /\ Start(d) \in Nat /\ Start(d) < 1440 /\ End(d) \in Nat /\ End(d) < 1440
        /\ End(d) - Start(d) \in 60..960
    BY <1>1, <1>3
  <1>5. QED
    BY <1>4, IsTimeOfDay

LEMMA StartsAhead == TypeOK => ChosenStartIsAhead
  <1> SUFFICES ASSUME TypeOK, draft.start = None, TripDate(draft) = 0
               PROVE  /\ now < LATEST_END - 60 => Start(draft) > now
                      /\ draft.date = None => LATEST_END - Start(draft) >= 90
    BY DEF ChosenStartIsAhead
  <1>1. draft.date = None => now <= 1200
    <2>1. now \in Nat
      BY DraftAssumption DEF TypeOK
    <2>2. QED
      BY <2>1 DEF TripDate, LATEST_END
  <1>2. QED
    BY <1>1, ChosenStart DEF LATEST_END

-----------------------------------------------------------------------------
(* Questions.                                                              *)

FirstFields == {"origin", "destination", "interests", "date"}
Fields == FirstFields \cup {"start", "end", "free_text", "window", "walk"}

\* What has to be so for a question about a field: a place is missing, unclear
\* or out of the region; a time was given.
Reason(field, d) ==
  /\ field \in {"origin", "destination"} =>
       \/ d[field] = None
       \/ NeedsClarification(Answer(d[field]))
       \/ ~ InRegion(d[field])
  /\ field \in {"start", "end", "window"} => d.start # None \/ d.end # None

Askable(d) == {f \in Fields : Reason(f, d)}

\* The questions about a draft have their reasons.
AskedForReason == stage = "asked" => asked \in Seq(Askable(draft))

IInv == TypeOK /\ AskedForReason

LEMMA OneQuestion == ASSUME NEW S, NEW f \in S PROVE <<f>> \in Seq(S) /\ <<f>> # <<>>
  OBVIOUS

LEMMA FirstQuestions ==
  ASSUME NEW d \in Draft
  PROVE  /\ Questions(d) \in Seq(Askable(d))
         /\ Questions(d) = <<>> => DateQuestion(d) = <<>>
  <1> DEFINE S == Askable(d)
             q1 == PlaceQuestion("origin", d.origin, TRUE)
             q2 == PlaceQuestion("destination", d.destination, FALSE)
             q3 == IF d.interests = "none" THEN <<"interests">> ELSE <<>>
             q4 == DateQuestion(d)
  <1>0. <<>> \in Seq(S)
    BY EmptySeq
  <1>1. q1 \in Seq(S)
    <2>1. q1 # <<>> => q1 = <<"origin">> /\ Reason("origin", d)
      BY DEF PlaceQuestion, Reason
    <2>2. Reason("origin", d) => <<"origin">> \in Seq(S)
      BY OneQuestion DEF Askable, Fields, FirstFields
    <2>3. QED
      BY <1>0, <2>1, <2>2
  <1>2. q2 \in Seq(S)
    <2>1. q2 # <<>> => q2 = <<"destination">> /\ Reason("destination", d)
      BY DEF PlaceQuestion, Reason
    <2>2. Reason("destination", d) => <<"destination">> \in Seq(S)
      BY OneQuestion DEF Askable, Fields, FirstFields
    <2>3. QED
      BY <1>0, <2>1, <2>2
  <1>3. q3 \in Seq(S)
    <2>1. "interests" \in S
      BY DEF Askable, Fields, FirstFields, Reason
    <2>2. <<"interests">> \in Seq(S)
      BY <2>1, OneQuestion
    <2>3. QED
      BY <1>0, <2>2
  <1>4. q4 \in Seq(S)
    <2>1. "date" \in S
      BY DEF Askable, Fields, FirstFields, Reason
    <2>2. <<"date">> \in Seq(S)
      BY <2>1, OneQuestion
    <2>3. q4 = <<>> \/ q4 = <<"date">>
      BY DEF DateQuestion
    <2>4. QED
      BY <1>0, <2>2, <2>3
  <1>5. Questions(d) = q1 \o q2 \o q3 \o q4
    BY DEF Questions
  <1> HIDE DEF q1, q2, q3, q4, S
  <1>6. q1 \o q2 \in Seq(S)
    BY <1>1, <1>2, ConcatProperties
  <1>7. q1 \o q2 \o q3 \in Seq(S)
    BY <1>3, <1>6, ConcatProperties
  <1>8. q1 \o q2 \o q3 \o q4 \in Seq(S)
    BY <1>4, <1>7, ConcatProperties
  <1>9. q1 \o q2 \o q3 \o q4 = <<>> => q4 = <<>>
    BY <1>4, <1>7, ConcatEqualIffEmpty
  <1>10. QED
    BY <1>5, <1>8, <1>9 DEF q4, S

\* What is left to ask of a draft that becomes a TripSpec but is refused.
LEMMA LastQuestion ==
  ASSUME TypeOK, NEW d \in Draft
  PROVE  /\ SpecQuestion(d) \in Seq(Askable(d))
         /\ SpecQuestion(d) = <<>> => IsTime(Start(d)) /\ IsTime(End(d))
  <1> DEFINE S == Askable(d)
             given == d.start # None \/ d.end # None
  <1>1. ~ given => IsTime(Start(d)) /\ IsTime(End(d)) /\ End(d) - Start(d) \in 60..960
    BY ChosenWindow
  <1>2. \/ SpecQuestion(d) = <<"origin">> /\ ~ InRegion(d.origin)
        \/ SpecQuestion(d) = <<"destination">> /\ ~ InRegion(d.destination)
        \/ SpecQuestion(d) \in {<<"start">>, <<"end">>, <<"window">>} /\ given
        \/ SpecQuestion(d) \in {<<"interests">>, <<"free_text">>, <<"walk">>}
        \/ SpecQuestion(d) = <<>> /\ IsTime(Start(d)) /\ IsTime(End(d))
    <2> DEFINE fits == End(d) - Start(d) \in 60..960
    <2> HIDE DEF given, fits
    <2>1. SpecQuestion(d) =
            CASE ~ InRegion(d.origin) -> <<"origin">>
              [] ~ InRegion(d.destination) -> <<"destination">>
              [] ~ IsTime(Start(d)) -> <<"start">>
              [] ~ IsTime(End(d)) -> <<"end">>
              [] d.interests = "many" -> <<"interests">>
              [] d.wordy -> <<"free_text">>
              [] ~ fits -> <<"window">>
              [] d.strolls -> <<"walk">>
              [] OTHER -> <<>>
      BY DEF SpecQuestion, fits
    <2>2. ~ given => IsTime(Start(d)) /\ IsTime(End(d)) /\ fits
      BY <1>1 DEF fits
    <2>3. QED
      BY <2>1, <2>2
  <1>3. {"interests", "free_text", "walk"} \subseteq S /\ (given => {"start", "end", "window"} \subseteq S)
    BY DEF Askable, Fields, FirstFields, Reason
  <1>4. /\ ~ InRegion(d.origin) => "origin" \in S
        /\ ~ InRegion(d.destination) => "destination" \in S
    BY DEF Askable, Fields, FirstFields, Reason
  <1> HIDE DEF S, given
  <1>5. SpecQuestion(d) \in Seq(S)
    <2>1. CASE SpecQuestion(d) = <<"origin">> /\ ~ InRegion(d.origin)
      BY <1>4, <2>1, OneQuestion
    <2>2. CASE SpecQuestion(d) = <<"destination">> /\ ~ InRegion(d.destination)
      BY <1>4, <2>2, OneQuestion
    <2>3. CASE SpecQuestion(d) \in {<<"start">>, <<"end">>, <<"window">>} /\ given
      BY <1>3, <2>3, OneQuestion
    <2>4. CASE SpecQuestion(d) \in {<<"interests">>, <<"free_text">>, <<"walk">>}
      BY <1>3, <2>4, OneQuestion
    <2>5. CASE SpecQuestion(d) = <<>>
      BY <2>5, EmptySeq
    <2>6. QED
      BY <1>2, <2>1, <2>2, <2>3, <2>4, <2>5
  <1>6. SpecQuestion(d) = <<>> => IsTime(Start(d)) /\ IsTime(End(d))
    BY <1>2
  <1>7. QED
    BY <1>5, <1>6 DEF S

\* The first two of some questions are asked.
LEMMA AskType ==
  ASSUME NEW S, NEW q \in Seq(S), q # <<>>, Ask(q)
  PROVE  stage' = "asked" /\ asked' \in Seq(S) /\ Len(asked') <= MAX_CLARIFICATIONS /\ spec' = None
  <1> DEFINE k == Min({Len(q), MAX_CLARIFICATIONS})
  <1>1. Len(q) \in Nat /\ Len(q) > 0
    BY EmptySeq, LenProperties
  <1>2. k \in Int /\ 1 <= k /\ k <= Len(q) /\ k <= 2
    <2>1. k = IF Len(q) <= 2 THEN Len(q) ELSE 2
      BY <1>1, MinOfTwo DEF MAX_CLARIFICATIONS
    <2>2. QED
      BY <1>1, <2>1
  <1> HIDE DEF k
  <1>3. \A i \in 1..k : q[i] \in S
    BY <1>1, <1>2, ElementOfSeq
  <1>4. SubSeq(q, 1, k) \in Seq(S) /\ Len(SubSeq(q, 1, k)) = k
    <2>1. Len(SubSeq(q, 1, k)) = IF 1 <= k THEN k - 1 + 1 ELSE 0
      BY <1>2, <1>3, SubSeqProperties
    <2>2. SubSeq(q, 1, k) \in Seq(S)
      BY <1>2, <1>3, SubSeqProperties
    <2>3. QED
      BY <1>2, <2>1, <2>2
  <1>5. asked' = SubSeq(q, 1, k) /\ stage' = "asked" /\ spec' = None
    BY DEF Ask, k
  <1>6. QED
    BY <1>2, <1>4, <1>5 DEF MAX_CLARIFICATIONS

\* A cooperative person answers with a draft.
LEMMA AnswersAreDrafts ==
  ASSUME NEW d \in Draft, NEW field
  PROVE  Answers(field, d) \subseteq Draft
  <1>1. \A n : PlaceAnswers(n) \subseteq Name
    BY DEF PlaceAnswers
  <1>2. \A n \in Name : [d EXCEPT !.origin = n] \in Draft /\ [d EXCEPT !.destination = n] \in Draft
    BY DEF Draft
  <1>3. [d EXCEPT !.interests = "some"] \in Draft /\ [d EXCEPT !.strolls = FALSE] \in Draft
        /\ [d EXCEPT !.wordy = FALSE] \in Draft
    BY DEF Draft
  <1>4. [d EXCEPT !.date = [kind |-> "ahead", n |-> 1]] \in Draft
    BY DEF Draft, Day
  <1>5. [d EXCEPT !.start = 600, !.end = 900] \in Draft
    <2> DEFINE e == [d EXCEPT !.start = 600]
    <2>1. e \in Draft
      BY DEF Draft, Time
    <2>2. [d EXCEPT !.start = 600, !.end = 900] = [e EXCEPT !.end = 900]
      BY DEF Draft
    <2> HIDE DEF e
    <2>3. [e EXCEPT !.end = 900] \in Draft
      <3>1. 900 \in Time
        BY DEF Time
      <3>2. QED
        BY <2>1, <3>1 DEF Draft
    <2>4. QED
      BY <2>2, <2>3
  <1>6. CASE field = "origin"
    <2>1. Answers(field, d) = {[d EXCEPT !.origin = n] : n \in PlaceAnswers(d.origin)}
      BY <1>6 DEF Answers
    <2>2. QED
      BY <1>1, <1>2, <2>1
  <1>7. CASE field = "destination"
    <2>1. Answers(field, d) = {[d EXCEPT !.destination = n] : n \in PlaceAnswers(d.destination)}
      BY <1>7 DEF Answers
    <2>2. QED
      BY <1>1, <1>2, <2>1
  <1>8. CASE field \in {"interests", "date", "free_text", "walk"}
    <2>1. field = "interests" => Answers(field, d) = {[d EXCEPT !.interests = "some"]}
      BY DEF Answers
    <2>2. field = "date" => Answers(field, d) = {[d EXCEPT !.date = [kind |-> "ahead", n |-> 1]]}
      BY DEF Answers
    <2>3. field = "walk" => Answers(field, d) = {[d EXCEPT !.strolls = FALSE]}
      BY DEF Answers
    <2>4. field = "free_text" => Answers(field, d) = {[d EXCEPT !.wordy = FALSE]}
      BY DEF Answers
    <2>5. QED
      BY <1>3, <1>4, <1>8, <2>1, <2>2, <2>3, <2>4
  <1>9. CASE field \notin {"origin", "destination", "interests", "date", "free_text", "walk"}
    <2>1. Answers(field, d) = {[d EXCEPT !.start = 600, !.end = 900]}
      BY <1>9 DEF Answers
    <2>2. QED
      BY <1>5, <2>1
  <1>10. QED
    BY <1>6, <1>7, <1>8, <1>9

LEMMA InitOK == Init => IInv
  BY DraftAssumption DEF Init, IInv, TypeOK, AskedForReason, MAX_CLARIFICATIONS

LEMMA BuildOK == IInv /\ Build => IInv'
  <1> SUFFICES ASSUME IInv, Build PROVE IInv'
    OBVIOUS
  <1>1. TypeOK /\ draft \in Draft /\ stage = "sent" /\ UNCHANGED <<draft, weekday, now>>
    BY DEF IInv, TypeOK, Build
  <1>2. CASE Crashes(draft)
    <2>1. stage' = "failed" /\ UNCHANGED <<asked, spec>>
      BY <1>2 DEF Build
    <2>2. QED
      BY <1>1, <2>1 DEF IInv, TypeOK, AskedForReason
  <1>3. ASSUME NEW q \in Seq(Askable(draft)), q # <<>>, Ask(q) PROVE IInv'
    <2>1. /\ stage' = "asked" /\ asked' \in Seq(Askable(draft))
          /\ Len(asked') <= MAX_CLARIFICATIONS /\ spec' = None
      BY <1>3, AskType
    <2>2. Askable(draft)' = Askable(draft)
      BY <1>1 DEF Askable, Reason
    <2>3. QED
      BY <1>1, <2>1, <2>2 DEF IInv, TypeOK, AskedForReason
  <1>4. CASE ~ Crashes(draft) /\ Questions(draft) # <<>>
    <2>1. Ask(Questions(draft))
      BY <1>4 DEF Build
    <2>2. QED
      BY <1>1, <1>3, <1>4, <2>1, FirstQuestions
  <1>5. CASE ~ Crashes(draft) /\ Questions(draft) = <<>> /\ SpecQuestion(draft) # <<>>
    <2>1. Ask(SpecQuestion(draft))
      BY <1>5 DEF Build
    <2>2. QED
      BY <1>1, <1>3, <1>5, <2>1, LastQuestion
  <1>6. CASE ~ Crashes(draft) /\ Questions(draft) = <<>> /\ SpecQuestion(draft) = <<>>
    <2>1. /\ stage' = "planned" /\ asked' = <<>>
          /\ spec' = [date |-> TripDate(draft), start |-> Start(draft), end |-> End(draft)]
      BY <1>6 DEF Build
    <2>2. TripDate(draft) \in Nat
      BY <1>1, <1>6, FirstQuestions, TripDateType
    <2>3. Start(draft) \in 0..1439 /\ End(draft) \in 0..1439
      <3>1. IsTime(Start(draft)) /\ IsTime(End(draft))
        BY <1>1, <1>6, LastQuestion
      <3>2. QED
        BY <3>1 DEF IsTime
    <2>4. Len(asked') <= MAX_CLARIFICATIONS
      BY <2>1 DEF MAX_CLARIFICATIONS
    <2>5. QED
      BY <1>1, <2>1, <2>2, <2>3, <2>4 DEF TypeOK, IInv, AskedForReason
  <1>7. QED
    BY <1>2, <1>4, <1>5, <1>6

LEMMA StepOK == IInv /\ [Next]_vars => IInv'
  <1> SUFFICES ASSUME IInv, [Next]_vars PROVE IInv'
    OBVIOUS
  <1>1. CASE Build
    BY <1>1, BuildOK
  <1>2. CASE Resubmit
    <2>1. draft' \in Draft
      <3>1. draft \in Draft
        BY DEF IInv, TypeOK
      <3>2. \A d \in Draft : Answers(asked[1], d) \subseteq Draft /\ Answers(asked[2], d) \subseteq Draft
        BY AnswersAreDrafts
      <3>3. QED
        BY <1>2, <3>1, <3>2 DEF Resubmit
    <2>2. stage' = "sent" /\ UNCHANGED <<weekday, now, asked, spec>>
      BY <1>2 DEF Resubmit
    <2>3. QED
      BY <2>1, <2>2 DEF IInv, TypeOK, AskedForReason
  <1>3. CASE Wait \/ UNCHANGED vars
    <2>1. now' \in Minutes /\ UNCHANGED <<draft, weekday, stage, asked, spec>>
      BY <1>3 DEF Wait, vars, IInv, TypeOK
    <2>2. Askable(draft)' = Askable(draft)
      BY <2>1 DEF Askable, Reason
    <2>3. QED
      BY <2>1, <2>2 DEF IInv, TypeOK, AskedForReason
  <1>4. QED
    BY <1>1, <1>2, <1>3 DEF Next

LEMMA Invariance == Spec => []IInv
  BY InitOK, StepOK, PTL DEF Spec

-----------------------------------------------------------------------------
(* The theorems.                                                           *)

LEMMA NoneOfItsOwn == IInv => NoQuestionOfItsOwn
  <1> SUFFICES ASSUME IInv, stage = "asked", NEW i \in DOMAIN asked,
                      asked[i] \in {"start", "end", "window"}
               PROVE  draft.start # None \/ draft.end # None
    BY DEF NoQuestionOfItsOwn
  <1>1. asked[i] \in Askable(draft)
    BY ElementOfSeq DEF IInv, AskedForReason
  <1>2. QED
    BY <1>1 DEF Askable, Reason

\* Whatever is said at whatever minute: no question comes of a time the builder
\* chose, a start it chose for today is ahead of now, a weekday is the next one
\* of its name, at most two questions are asked, and a plan has a date to come
\* and times of day.
THEOREM DefaultsAreSound == Spec => []Inv
  <1>1. IInv => Inv
    BY NoneOfItsOwn, StartsAhead, DatesCome DEF IInv, Inv, DefaultsFit
  <1>2. QED
    BY <1>1, Invariance, PTL

\* In any gazetteer: a place is asked about when it is missing or unknown, when
\* another one elsewhere scores nearly as much as the best, or when it is out of
\* the region.
THEOREM AskedWithReason == Spec => []PlacesAskedForReason
  <1>1. IInv => PlacesAskedForReason
    <2> SUFFICES ASSUME IInv, stage = "asked", NEW i \in DOMAIN asked,
                        asked[i] \in {"origin", "destination"}
                 PROVE  LET n == draft[asked[i]]
                        IN n = None \/ Gazetteer[n] = <<>> \/ NearRival(Gazetteer[n])
                           \/ ~ InRegion(n)
      BY DEF PlacesAskedForReason
    <2> DEFINE n == draft[asked[i]]
    <2>1. asked[i] \in Askable(draft)
      BY ElementOfSeq DEF IInv, AskedForReason
    <2>2. n = None \/ NeedsClarification(Answer(n)) \/ ~ InRegion(n)
      BY <2>1 DEF Askable, Reason
    <2>3. n \in Name \cup {None}
      BY DEF IInv, TypeOK, Draft
    <2>4. ASSUME n \in Name, NeedsClarification(Answer(n))
          PROVE  Gazetteer[n] = <<>> \/ NearRival(Gazetteer[n])
      <3>1. Answer(n) = Resolve(Gazetteer[n]) /\ Gazetteer[n] \in Seq(Row)
        BY <2>4, DraftAssumption DEF Answer, Resolved
      <3>2. QED
        BY <2>4, <3>1, UnclearForReason
    <2>5. QED
      BY <2>2, <2>3, <2>4
  <1>2. QED
    BY <1>1, Invariance, PTL
=============================================================================
