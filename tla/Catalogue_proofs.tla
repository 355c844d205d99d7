-------------------------- MODULE Catalogue_proofs ---------------------------
(***************************************************************************)
(* Proofs about the data pipelines, for any tags, extracts, mappings,      *)
(* items and categories.                                                   *)
(***************************************************************************)
EXTENDS Catalogue, FiniteSetTheorems, WellFoundedInduction, TLAPS

\* Of some numbers one is the least.
LEMMA Least ==
  ASSUME NEW S \in SUBSET Nat, S # {}
  PROVE  \E m \in S : \A x \in S : m <= x
  <1>1. PICK m \in S : \A x \in S : ~ (<<x, m>> \in OpToRel(<, Nat))
    BY NatLessThanWellFounded, WFMin
  <1>2. \A x \in S : ~ (x < m)
    BY <1>1 DEF OpToRel
  <1>3. QED
    BY <1>2

\* Of the members of a finite set, one comes before all others that an order
\* relates to it.
LEMMA Foremost ==
  ASSUME NEW S, IsFiniteSet(S), S # {}, NEW R,
         \A x \in S : <<x, x>> \notin R,
         \A x, y, z \in S : <<x, y>> \in R /\ <<y, z>> \in R => <<x, z>> \in R
  PROVE  \E m \in S : \A x \in S : <<x, m>> \notin R
  <1> DEFINE below(x) == {y \in S : <<y, x>> \in R}
             N == {Cardinality(below(x)) : x \in S}
  <1>1. \A x \in S : IsFiniteSet(below(x)) /\ Cardinality(below(x)) \in Nat
    <2> TAKE x \in S
    <2>1. below(x) \in SUBSET S
      OBVIOUS
    <2> HIDE DEF below
    <2>2. IsFiniteSet(below(x))
      BY <2>1, FS_Subset
    <2>3. QED
      BY <2>2, FS_CardinalityType
  <1>a. \A x, y \in S : y \in below(x) <=> <<y, x>> \in R
    OBVIOUS
  <1>b. \A x \in S : below(x) \subseteq S
    OBVIOUS
  <1> HIDE DEF below
  <1>2. N \in SUBSET Nat /\ N # {}
    BY <1>1
  <1>3. PICK n \in N : \A k \in N : n <= k
    <2> HIDE DEF N
    <2>1. QED
      BY <1>2, Least
  <1>4. PICK m \in S : \A x \in S : Cardinality(below(m)) <= Cardinality(below(x))
    BY <1>3
  <1>5. ASSUME NEW x \in S, <<x, m>> \in R
        PROVE  FALSE
    <2>1. below(x) \in SUBSET below(m) /\ x \in below(m) /\ x \notin below(x)
      BY <1>5, <1>a, <1>b
    <2>2. Cardinality(below(m)) <= Cardinality(below(x))
      BY <1>4
    <2>3. Cardinality(below(x)) <= Cardinality(below(m))
          /\ (Cardinality(below(m)) = Cardinality(below(x)) => below(m) = below(x))
      BY <1>1, <2>1, FS_Subset
    <2>4. Cardinality(below(m)) = Cardinality(below(x))
      BY <1>1, <2>2, <2>3
    <2>5. QED
      BY <2>1, <2>3, <2>4
  <1>6. QED
    BY <1>5

-----------------------------------------------------------------------------
(* Opening hours.                                                          *)

Time == [from : Nat, to : Nat]

LEMMA ModuloWeek ==
  ASSUME NEW x \in Int, -6 <= x, x <= 13
  PROVE  x % 7 = IF x < 0 THEN x + 7 ELSE IF x < 7 THEN x ELSE x - 7
  OBVIOUS

\* expand_days goes round the week.
LEMMA DaysMeant ==
  ASSUME NEW rule \in TagRule, NEW d \in Weekday
  PROVE  d \in Days(rule) <=> Meant(rule, d)
  <1>1. ASSUME NEW i \in Weekday, NEW j \in Weekday
        PROVE  d \in Span(i, j) <=> (d - i) % 7 <= (j - i) % 7
    <2>1. /\ d \in Int /\ i \in Int /\ j \in Int /\ 0 <= d /\ d <= 6 /\ 0 <= i /\ i <= 6
          /\ 0 <= j /\ j <= 6
      BY DEF Weekday
    <2>2. (d - i) % 7 = IF d < i THEN d - i + 7 ELSE d - i
      BY <2>1, ModuloWeek
    <2>3. (j - i) % 7 = IF j < i THEN j - i + 7 ELSE j - i
      BY <2>1, ModuloWeek
    <2>4. QED
      BY <2>1, <2>2, <2>3 DEF Span
  <1>2. \A s \in rule.spans : s[1] \in Weekday /\ s[2] \in Weekday
    BY DEF TagRule
  <1>3. CASE rule.spans = {}
    BY <1>3 DEF Days, Meant
  <1>4. CASE rule.spans # {}
    BY <1>1, <1>2, <1>4 DEF Days, Meant
  <1>5. QED
    BY <1>3, <1>4

LEMMA TagType ==
  ASSUME NEW tag \in Seq(TagRule), NEW i \in DOMAIN tag
  PROVE  /\ i \in Nat /\ tag[i] \in TagRule /\ DOMAIN tag[i].times \subseteq Nat
         /\ \A k \in DOMAIN tag[i].times : tag[i].times[k] \in Time
  <1>1. tag[i] \in TagRule /\ i \in Nat
    OBVIOUS
  <1>2. tag[i].times \in Seq(Time)
    BY <1>1 DEF TagRule, Time
  <1>3. QED
    BY <1>1, <1>2

LEMMA ClosedIsOff ==
  ASSUME NEW tag \in Seq(TagRule), NEW d \in Weekday
  PROVE  d \in Closed(tag) <=> Cleared(tag, d)
  <1>1. \A i \in DOMAIN tag : d \in Days(tag[i]) <=> Meant(tag[i], d)
    BY TagType, DaysMeant
  <1>2. QED
    BY <1>1 DEF Closed, Cleared

\* A time a rule gives a day is read, and its rows stay on days that are open.
LEMMA TimeIsRead ==
  ASSUME NEW tag \in Seq(TagRule), NEW d \in Weekday, NEW t \in TimesRead(tag, d),
         NEW r \in RowsOf({d}, t), r.day \in Weekday, ~ Cleared(tag, r.day)
  PROVE  \E s : <<s, r>> \in Parse(tag)
  <1>0. PICK i \in DOMAIN tag :
          ~ tag[i].off /\ Meant(tag[i], d) /\ \E k \in DOMAIN tag[i].times : t = tag[i].times[k]
    BY DEF TimesRead, TimesAmong
  <1>1. PICK k \in DOMAIN tag[i].times : t = tag[i].times[k]
    BY <1>0
  <1>2. <<i, k>> \in Slots(tag)
    BY <1>0 DEF Slots
  <1>3. d \in Days(tag[i])
    BY <1>0, TagType, DaysMeant
  <1>4. r \in RowsOf(Days(tag[i]), t)
    BY <1>3 DEF RowsOf
  <1>5. r.day \notin Closed(tag)
    BY ClosedIsOff
  <1>6. <<<<i, k>>, r>> \in Parse(tag)
    BY <1>1, <1>2, <1>4, <1>5 DEF Parse
  <1>7. QED
    BY <1>6

\* The row of a time that begins on b.
RowOf(r, b, t) ==
  \/ t.from < t.to /\ r = OpenFor(b, t.from, t.to)
  \/ t.to < t.from /\ r = OpenFor(b, t.from, MIDNIGHT)
  \/ t.to < t.from /\ r = OpenFor((b + 1) % 7, 0, t.to)

\* What is read comes from a time of a day.
LEMMA ReadFromTime ==
  ASSUME NEW tag \in Seq(TagRule), NEW p \in Parse(tag)
  PROVE  /\ p[1] \in Nat \X Nat
         /\ \E b \in Weekday : \E t \in TimesRead(tag, b) :
              t \in Time /\ Readable(t) /\ RowOf(p[2], b, t)
         /\ p[2].day \in Weekday /\ ~ Cleared(tag, p[2].day)
  <1>a. PICK s \in Slots(tag) :
          \E r : /\ p = <<s, r>> /\ r.day \notin Closed(tag)
                 /\ r \in RowsOf(Days(tag[s[1]]), tag[s[1]].times[s[2]])
    BY DEF Parse
  <1>1. PICK r : /\ p = <<s, r>> /\ r.day \notin Closed(tag)
                 /\ r \in RowsOf(Days(tag[s[1]]), tag[s[1]].times[s[2]])
    BY <1>a
  <1>0. PICK i \in DOMAIN tag : ~ tag[i].off /\ \E k \in DOMAIN tag[i].times : s = <<i, k>>
    BY DEF Slots
  <1>2. PICK k \in DOMAIN tag[i].times : ~ tag[i].off /\ s = <<i, k>>
    BY <1>0
  <1> DEFINE t == tag[i].times[k]
  <1>3. i \in Nat /\ k \in Nat /\ tag[i] \in TagRule /\ t \in Time
    BY TagType
  <1>4. r \in RowsOf(Days(tag[i]), t)
    BY <1>1, <1>2
  <1>5. Days(tag[i]) \subseteq Weekday
    <2>1. \A x \in tag[i].spans : x[1] \in Weekday /\ x[2] \in Weekday
      BY <1>3 DEF TagRule
    <2>2. QED
      BY <2>1 DEF Days, Span, Weekday
  <1>6. PICK b \in Days(tag[i]) : RowOf(r, b, t) /\ Readable(t)
    BY <1>3, <1>4 DEF RowsOf, RowOf, Readable, Time, MIDNIGHT
  <1>7. b \in Weekday /\ Meant(tag[i], b)
    BY <1>3, <1>5, <1>6, DaysMeant
  <1>8. t \in TimesRead(tag, b)
    BY <1>2, <1>7 DEF TimesRead, TimesAmong
  <1>9. r.day \in Weekday
    BY <1>6, <1>7 DEF RowOf, OpenFor, Weekday
  <1>10. ~ Cleared(tag, r.day)
    BY <1>1, <1>9, ClosedIsOff
  <1>11. QED
    BY <1>1, <1>2, <1>3, <1>6, <1>7, <1>8, <1>9, <1>10

\* Of the rows with one key, one is kept.
LEMMA OneIsKept ==
  ASSUME NEW tag \in Seq(TagRule), NEW p \in Parse(tag)
  PROVE  \E q \in Parse(tag) : SameKey(q[2], p[2]) /\ q[2] \in Inserted(tag)
  <1> DEFINE same == {q \in Parse(tag) : SameKey(q[2], p[2])}
             I == {q[1][1] : q \in same}
  <1>1. \A q \in same : q[1] \in Nat \X Nat
    BY ReadFromTime
  <1>2. I \in SUBSET Nat /\ I # {}
    BY <1>1 DEF SameKey
  <1>3. PICK i \in I : \A x \in I : i <= x
    <2> HIDE DEF I
    <2>1. QED
      BY <1>2, Least
  <1> DEFINE K == {q[1][2] : q \in {x \in same : x[1][1] = i}}
  <1>4. K \in SUBSET Nat /\ K # {}
    BY <1>1
  <1>5. PICK k \in K : \A x \in K : k <= x
    <2> HIDE DEF K
    <2>1. QED
      BY <1>4, Least
  <1>6. PICK q \in same : q[1][1] = i /\ q[1][2] = k
    OBVIOUS
  <1>7. ASSUME NEW x \in Parse(tag), SameKey(x[2], q[2])
        PROVE  ~ Earlier(x[1], q[1])
    <2>1. x \in same
      BY <1>6, <1>7 DEF SameKey
    <2>2. i <= x[1][1] /\ (x[1][1] = i => k <= x[1][2])
      BY <1>3, <1>5, <2>1
    <2>3. x[1][1] \in Nat /\ x[1][2] \in Nat /\ i \in Nat /\ k \in Nat
      BY <1>1, <1>6, <2>1
    <2>4. QED
      BY <1>6, <2>2, <2>3 DEF Earlier
  <1>8. q[2] \in Inserted(tag)
    BY <1>6, <1>7 DEF Inserted
  <1>9. QED
    BY <1>6, <1>8

LEMMA InsertedWasRead ==
  ASSUME NEW tag \in Seq(TagRule), NEW r \in Inserted(tag)
  PROVE  \E p \in Parse(tag) : p[2] = r
  BY DEF Inserted

LEMMA DayBefore ==
  ASSUME NEW d \in Weekday
  PROVE  Before(d) \in Weekday /\ \A b \in Weekday : (b + 1) % 7 = d <=> b = Before(d)
  <1>1. ASSUME NEW b \in Weekday
        PROVE  (b + 1) % 7 = IF b = 6 THEN 0 ELSE b + 1
    BY ModuloWeek DEF Weekday
  <1>2. (d + 6) % 7 = IF d = 0 THEN 6 ELSE d - 1
    BY ModuloWeek DEF Weekday
  <1>3. QED
    BY <1>1, <1>2 DEF Before, Weekday

LEMMA TimesType ==
  ASSUME NEW tag \in Seq(TagRule), NEW d, NEW t \in TimesRead(tag, d)
  PROVE  t \in Time
  BY TagType DEF TimesRead, TimesAmong

\* What decides about a day was read for it.
LEMMA MeantIsRead ==
  ASSUME NEW tag, NEW d, NEW t \in TimesOf(tag, d)
  PROVE  t \in TimesRead(tag, d)
  BY DEF TimesOf, TimesRead, TimesAmong, Decides

\* What was read for a day is meant, or belongs to an overruled rule.
LEMMA ReadIsMeant ==
  ASSUME NEW tag, NEW d, NEW t \in TimesRead(tag, d), NEW m, Within(t, m), ~ Overruled(tag, d, m)
  PROVE  t \in TimesOf(tag, d)
  <1>1. PICK i \in DOMAIN tag :
          ~ tag[i].off /\ Meant(tag[i], d) /\ \E k \in DOMAIN tag[i].times : t = tag[i].times[k]
    BY DEF TimesRead, TimesAmong
  <1>2. PICK k \in DOMAIN tag[i].times : t = tag[i].times[k]
    BY <1>1
  <1>3. Decides(tag, i, d)
    BY <1>1, <1>2 DEF Overruled
  <1>4. QED
    BY <1>1, <1>2, <1>3 DEF TimesOf, TimesAmong

\* Rows and tag agree on a day, if the known rows are those inserted.
LEMMA DayAgrees ==
  ASSUME NEW tag \in Seq(TagRule), NEW rows, NEW d \in Weekday,
         \A r : r \in rows /\ r.known <=> r \in Inserted(tag)
  PROVE  AgreesOn(tag, rows, d)
  <1> DEFINE begun == TimesRead(tag, d)
             night == TimesRead(tag, Before(d))
             known == {r \in DayRows(rows, d) : r.known}
             rowOf(g) == OpenFor(d, g.from, IF g.to < g.from THEN MIDNIGHT ELSE g.to)
  <1>1. /\ \A t \in begun : t \in Time
        /\ \A t \in night : t \in Time
        /\ \A t \in Begins(tag, d) : t \in Time
    BY TimesType DEF Time, Begins
  <1>2. \A r : r \in known <=> r \in Inserted(tag) /\ r.day = d
    BY DEF DayRows
  <1>3. Before(d) \in Weekday /\ (Before(d) + 1) % 7 = d
        /\ \A b \in Weekday : (b + 1) % 7 = d => b = Before(d)
    BY DayBefore
  <1>4. ASSUME NEW p \in Parse(tag), p[2].day = d
        PROVE  \E g \in Begins(tag, d) : p[2] = rowOf(g)
    <2>1. PICK b \in Weekday : \E t \in TimesRead(tag, b) :
            t \in Time /\ Readable(t) /\ RowOf(p[2], b, t)
      BY ReadFromTime
    <2>2. PICK t \in TimesRead(tag, b) : t \in Time /\ Readable(t) /\ RowOf(p[2], b, t)
      BY <2>1
    <2>3. CASE p[2] = OpenFor(b, t.from, t.to) /\ t.from < t.to
      <3>1. b = d
        BY <1>4, <2>3 DEF OpenFor
      <3>2. t \in Begins(tag, d) /\ p[2] = rowOf(t)
        BY <2>2, <2>3, <3>1 DEF Time, Begins
      <3>3. QED
        BY <3>2
    <2>4. CASE p[2] = OpenFor(b, t.from, MIDNIGHT) /\ t.to < t.from
      <3>1. b = d
        BY <1>4, <2>4 DEF OpenFor
      <3>2. t \in Begins(tag, d) /\ p[2] = rowOf(t)
        BY <2>2, <2>4, <3>1 DEF Time, Begins
      <3>3. QED
        BY <3>2
    <2>5. CASE p[2] = OpenFor((b + 1) % 7, 0, t.to) /\ t.to < t.from
      <3>1. (b + 1) % 7 = d
        BY <1>4, <2>5 DEF OpenFor
      <3>2. t \in night
        BY <1>3, <2>2, <2>5, <3>1
      <3>3. t.to \in Nat
        BY <2>2 DEF Time
      <3>4. p[2] = rowOf([from |-> 0, to |-> t.to])
        BY <2>5, <3>1, <3>3
      <3>5. [from |-> 0, to |-> t.to] \in Begins(tag, d)
        BY <2>5, <3>2 DEF Begins
      <3>6. QED
        BY <3>4, <3>5
    <2>6. QED
      BY <2>2, <2>3, <2>4, <2>5 DEF RowOf
  <1>5. ASSUME ~ Clash(tag, d), NEW p \in Parse(tag), p[2].day = d
        PROVE  p[2] \in known
    <2>1. PICK q \in Parse(tag) : SameKey(q[2], p[2]) /\ q[2] \in Inserted(tag)
      BY OneIsKept
    <2>2. PICK g \in Begins(tag, d) : p[2] = rowOf(g)
      BY <1>4, <1>5
    <2>3. q[2].day = d
      BY <1>5, <2>1 DEF SameKey
    <2>4. PICK h \in Begins(tag, d) : q[2] = rowOf(h)
      BY <1>4, <2>3
    <2>5. g.from = h.from
      BY <2>1, <2>2, <2>4 DEF SameKey, OpenFor
    <2>6. g = h
      BY <1>5, <2>5 DEF Clash
    <2>7. QED
      BY <1>2, <1>5, <2>1, <2>2, <2>4, <2>6
  <1>6. ASSUME NEW m \in Nat, m < MIDNIGHT, NEW r \in known, r.open <= m, m < r.close
        PROVE  \/ \E t \in begun : Within(t, m)
               \/ \E t \in night : Within(t, m + MIDNIGHT)
    <2>1. r \in Inserted(tag) /\ r.day = d
      BY <1>2
    <2>2. PICK p \in Parse(tag) : p[2] = r
      BY <2>1, InsertedWasRead
    <2>4. PICK b \in Weekday : \E t \in TimesRead(tag, b) :
            t \in Time /\ Readable(t) /\ RowOf(r, b, t)
      BY <2>2, ReadFromTime
    <2>5. PICK t \in TimesRead(tag, b) : t \in Time /\ Readable(t) /\ RowOf(r, b, t)
      BY <2>4
    <2>6. t.from \in Nat /\ t.to \in Nat
      BY <2>5 DEF Time
    <2>7. CASE r = OpenFor(b, t.from, t.to) /\ t.from < t.to
      <3>1. b = d /\ t.from <= m /\ m < t.to
        BY <1>6, <2>1, <2>7 DEF OpenFor
      <3>2. Within(t, m)
        BY <2>6, <2>7, <3>1 DEF Within
      <3>3. QED
        BY <2>5, <3>1, <3>2
    <2>8. CASE r = OpenFor(b, t.from, MIDNIGHT) /\ t.to < t.from
      <3>1. b = d /\ t.from <= m
        BY <1>6, <2>1, <2>8 DEF OpenFor
      <3>2. Within(t, m)
        BY <1>6, <2>6, <2>8, <3>1 DEF Within, MIDNIGHT
      <3>3. QED
        BY <2>5, <3>1, <3>2
    <2>9. CASE r = OpenFor((b + 1) % 7, 0, t.to) /\ t.to < t.from
      <3>1. (b + 1) % 7 = d /\ m < t.to
        BY <1>6, <2>1, <2>9 DEF OpenFor
      <3>2. t \in night
        BY <1>3, <2>5, <3>1
      <3>3. Within(t, m + MIDNIGHT)
        BY <1>6, <2>5, <2>6, <2>9, <3>1 DEF Within, Readable, MIDNIGHT
      <3>4. QED
        BY <3>2, <3>3
    <2>10. QED
      BY <2>5, <2>7, <2>8, <2>9 DEF RowOf
  <1>7. ASSUME ~ Clash(tag, d), NEW m \in Nat, m < MIDNIGHT, ~ Cleared(tag, d),
               NEW t \in begun, Readable(t), Within(t, m)
        PROVE  \E r \in known : r.open <= m /\ m < r.close
    <2>2. t.from \in Nat /\ t.to \in Nat /\ t.from # t.to /\ t.from <= m
          /\ m < (IF t.to < t.from THEN MIDNIGHT + t.to ELSE t.to)
      BY <1>1, <1>7 DEF Within, Time, Readable
    <2>3. rowOf(t) \in RowsOf({d}, t)
      BY <1>7, <2>2 DEF RowsOf, Readable, MIDNIGHT
    <2>4. rowOf(t).day = d /\ rowOf(t).open = t.from
          /\ rowOf(t).close = IF t.to < t.from THEN MIDNIGHT ELSE t.to
      BY DEF OpenFor
    <2>5. \E s : <<s, rowOf(t)>> \in Parse(tag)
      BY <1>7, <2>3, <2>4, TimeIsRead
    <2>6. rowOf(t) \in known
      BY <1>5, <1>7, <2>4, <2>5
    <2>7. rowOf(t).open <= m /\ m < rowOf(t).close
      BY <1>7, <2>2, <2>4
    <2>8. QED
      BY <2>6, <2>7
  <1>8. ASSUME ~ Clash(tag, d), NEW m \in Nat, m < MIDNIGHT, ~ Cleared(tag, d),
               NEW t \in night, Readable(t), Within(t, m + MIDNIGHT)
        PROVE  \E r \in known : r.open <= m /\ m < r.close
    <2>2. t.from \in Nat /\ t.to \in Nat /\ t.to < t.from /\ m < t.to
      BY <1>1, <1>8 DEF Within, Time, Readable, MIDNIGHT
    <2> DEFINE r == OpenFor(d, 0, t.to)
    <2>3. r \in RowsOf({Before(d)}, t)
      BY <1>3, <1>8, <2>2 DEF RowsOf, Readable, MIDNIGHT
    <2>4. r.day = d /\ r.open = 0 /\ r.close = t.to
      BY DEF OpenFor
    <2>5. \E s : <<s, r>> \in Parse(tag)
      BY <1>3, <1>8, <2>3, <2>4, TimeIsRead
    <2>6. r \in known
      BY <1>5, <1>8, <2>4, <2>5
    <2>7. r.open <= m /\ m < r.close
      BY <1>8, <2>2, <2>4
    <2>8. QED
      BY <2>6, <2>7
  <1> DEFINE openBy(m) == {t \in TimesOf(tag, d) : Within(t, m)}
                          \cup {t \in TimesOf(tag, Before(d)) : Within(t, m + MIDNIGHT)}
  <1>9. \A m : HasRow(rows, d, m) <=> \E r \in known : r.open <= m /\ m < r.close
    BY DEF HasRow
  <1>10. ASSUME NEW m \in Moments
         PROVE  IF HasRow(rows, d, m)
                THEN \/ openBy(m) # {}
                     \/ Overruled(tag, d, m) \/ Overruled(tag, Before(d), m + MIDNIGHT)
                ELSE (\E t \in openBy(m) : Readable(t)) => Cleared(tag, d) \/ Clash(tag, d)
    <2>1. m \in Nat /\ m < MIDNIGHT
      BY HoursAssumption DEF MIDNIGHT
    <2>2. CASE HasRow(rows, d, m)
      <3>1. PICK r \in known : r.open <= m /\ m < r.close
        BY <1>9, <2>2
      <3>2. \/ \E t \in begun : Within(t, m)
            \/ \E t \in night : Within(t, m + MIDNIGHT)
        BY <1>6, <2>1, <3>1
      <3>3. QED
        BY <2>2, <3>2, ReadIsMeant
    <2>3. CASE ~ HasRow(rows, d, m)
      <3>1. SUFFICES ASSUME NEW t \in openBy(m), Readable(t), ~ Cleared(tag, d), ~ Clash(tag, d)
                     PROVE  FALSE
        BY <2>3
      <3>2. \/ t \in begun /\ Within(t, m)
            \/ t \in night /\ Within(t, m + MIDNIGHT)
        BY MeantIsRead
      <3>3. QED
        BY <1>7, <1>8, <1>9, <2>1, <2>3, <3>1, <3>2
    <2>4. QED
      BY <2>2, <2>3
  <1>11. QED
    BY <1>10 DEF AgreesOn

\* A tag of rules leaves behind the rows inserted, and no others that are known.
LEMMA KnownRows ==
  ASSUME NEW tag \in Seq(TagRule), tag \notin {NoTag, Always}, NEW cat, NEW r
  PROVE  r \in Stored(tag, cat) /\ r.known <=> r \in Inserted(tag)
  <1>1. ASSUME r \in Inserted(tag) PROVE r.known
    <2>1. PICK p \in Parse(tag) : p[2] = r
      BY <1>1, InsertedWasRead
    <2>2. \A d, o, c : OpenFor(d, o, c).known
      BY DEF OpenFor
    <2>3. \E d, o, c : p[2] = OpenFor(d, o, c)
      BY ReadFromTime DEF RowOf
    <2>4. QED
      BY <2>1, <2>2, <2>3
  <1>2. ASSUME r \in Inferred(cat) PROVE ~ r.known
    BY <1>2 DEF Inferred
  <1>3. QED
    BY <1>1, <1>2 DEF Stored

LEMMA TagAgrees ==
  ASSUME NEW tag \in Seq(TagRule), tag \notin {NoTag, Always}, NEW cat
  PROVE  SaysTheSame(tag, Stored(tag, cat))
  BY KnownRows, DayAgrees DEF SaysTheSame

LEMMA StoredType ==
  ASSUME NEW tag \in {NoTag, Always} \cup Seq(TagRule), NEW cat \in Category
  PROVE  Stored(tag, cat) \subseteq Row /\ Stored(tag, cat) # {}
  <1>1. ASSUME tag \in Seq(TagRule), NEW r \in Inserted(tag) PROVE r \in Row
    <2>1. PICK p \in Parse(tag) : p[2] = r
      BY <1>1, InsertedWasRead
    <2>2. PICK b \in Weekday : \E t \in TimesRead(tag, b) :
            t \in Time /\ Readable(t) /\ RowOf(r, b, t)
      BY <1>1, <2>1, ReadFromTime
    <2>3. PICK t \in Time : Readable(t) /\ RowOf(r, b, t)
      BY <2>2
    <2>4. \A x \in Weekday, y, z \in 0..MIDNIGHT : OpenFor(x, y, z) \in Row
      BY DEF OpenFor, Row
    <2>5. t.from \in Nat /\ t.to \in Nat /\ t.from <= MIDNIGHT /\ t.to <= MIDNIGHT
      BY <2>3 DEF Time, Readable
    <2>6. \A x \in Nat : x <= MIDNIGHT => x \in 0..MIDNIGHT
      BY DEF MIDNIGHT
    <2>7. t.from \in 0..MIDNIGHT /\ t.to \in 0..MIDNIGHT
      BY <2>5, <2>6
    <2>8. (b + 1) % 7 \in Weekday /\ 0 \in 0..MIDNIGHT /\ MIDNIGHT \in 0..MIDNIGHT
      BY DEF Weekday, MIDNIGHT
    <2>9. QED
      BY <2>3, <2>4, <2>7, <2>8 DEF RowOf
  <1>2. Inferred(cat) \subseteq Row /\ Inferred(cat) # {}
    <2>1. CategoryDefault[cat].open \in 0..MIDNIGHT /\ CategoryDefault[cat].close \in 0..MIDNIGHT
      BY HoursAssumption, CatalogueAssumption
    <2>2. 0 \in Weekday
      BY DEF Weekday
    <2>3. \A d \in Weekday, o, c \in 0..MIDNIGHT :
            [day |-> d, open |-> o, close |-> c, always |-> FALSE, known |-> FALSE] \in Row
      BY DEF Row
    <2>4. QED
      BY <2>1, <2>2, <2>3 DEF Inferred
  <1>3. /\ \A d \in Weekday :
             [day |-> d, open |-> 0, close |-> MIDNIGHT, always |-> TRUE, known |-> TRUE] \in Row
        /\ 0 \in Weekday
    <2>1. 0 \in Weekday /\ 0 \in 0..MIDNIGHT /\ MIDNIGHT \in 0..MIDNIGHT
      BY DEF Weekday, MIDNIGHT
    <2>2. QED
      BY <2>1 DEF Row
  <1>4. QED
    BY <1>1, <1>2, <1>3 DEF Stored

-----------------------------------------------------------------------------
(* The invariant.                                                          *)

\* One row of n.
Columns == {"rank", "norm", "spot", "primary", "links", "hours", "qid", "photo", "hash"}
RowOK(row, n) ==
  /\ DOMAIN row = Columns
  /\ row.rank \in 1..n
  /\ row.primary \in row.links /\ row.links \subseteq Category
  /\ row.norm \in DOMAIN WordsOf
  /\ row.hours \in {NoTag, Always} \cup Seq(TagRule)
  /\ row.photo # None => row.qid = row.photo.item /\ row.photo.links \in Nat

PoisInv ==
  /\ pois = [r \in DOMAIN pois |-> pois[r]]
  /\ IsFiniteSet(DOMAIN pois) /\ DOMAIN pois \subseteq UNION {Refs(x) : x \in Extracts}
  /\ \A r \in DOMAIN pois : RowOK(pois[r], Cardinality(DOMAIN pois))
  /\ \A r, x \in DOMAIN pois : pois[r].rank = pois[x].rank => r = x

HoursInv ==
  /\ DOMAIN hours \subseteq DOMAIN pois
  /\ \A r \in DOMAIN hours : hours[r] \subseteq Row /\ hours[r] # {}

PhotosInv ==
  /\ files \subseteq Category /\ manifest \subseteq Category
  /\ job # None => job \in Job /\ job.done = files
  /\ PhotosAreCredited

\* What was loaded is what would be loaded.
LoadedInv == loaded => \A i \in Final : Unchanged(staging[i])

\* The places have the photos that some way to match items to places gives them.
PhotosOf(m) ==
  \A r \in DOMAIN pois :
    (\E i \in DOMAIN m : m[i] = r) => Photographed(pois[r], cache[Chosen(m, r)]) = pois[r]
SettledInv == enriched => \E m \in Matches : PhotosOf(m)

IInv ==
  /\ staging \in Extracts /\ mapping \in Mappings /\ changes \in 0..MaxChanges
  /\ loaded \in BOOLEAN /\ enriched \in BOOLEAN
  /\ cache \in Answers \cup {None} /\ (enriched => cache \in Answers)
  /\ PoisInv /\ HoursInv /\ PhotosInv /\ LoadedInv /\ SettledInv

LEMMA InitHolds == Init => IInv
  <1> SUFFICES ASSUME Init PROVE IInv
    OBVIOUS
  <1>1. DOMAIN pois = {} /\ pois = [r \in DOMAIN pois |-> pois[r]] /\ DOMAIN hours = {}
    BY DEF Init, NothingYet
  <1>2. PoisInv
    BY <1>1, FS_EmptySet DEF PoisInv
  <1>3. HoursInv /\ PhotosInv
    BY <1>1 DEF Init, HoursInv, PhotosInv, PhotosAreCredited
  <1>4. LoadedInv /\ SettledInv
    BY DEF Init, LoadedInv, SettledInv
  <1>5. 0 \in 0..MaxChanges
    BY CatalogueAssumption
  <1>6. QED
    BY <1>2, <1>3, <1>4, <1>5 DEF Init, IInv

-----------------------------------------------------------------------------
(* What stays as it is.                                                    *)

LEMMA FinalStays ==
  ASSUME UNCHANGED <<staging, mapping>>
  PROVE  UNCHANGED Final
  BY DEF Final, ByWikidata, Candidates, Rule, SameSpot

LEMMA LoadedStays ==
  ASSUME UNCHANGED <<staging, mapping, pois, loaded>>
  PROVE  UNCHANGED LoadedInv
  BY FinalStays DEF LoadedInv, Unchanged

LEMMA SettledStays ==
  ASSUME SettledInv, UNCHANGED <<pois, cache>>, enriched' => enriched
  PROVE  SettledInv'
  <1>1. UNCHANGED Matches
    BY DEF Matches, BestMatches, Fits, Distance
  <1>2. ASSUME NEW m, PhotosOf(m) PROVE PhotosOf(m)'
    <2>1. ASSUME NEW r PROVE Chosen(m, r)' = Chosen(m, r)
      BY DEF Chosen, Notability
    <2>2. QED
      BY <1>2, <2>1 DEF PhotosOf
  <1>3. SUFFICES ASSUME enriched' PROVE \E m \in Matches : PhotosOf(m)'
    BY <1>1 DEF SettledInv
  <1>4. PICK m \in Matches : PhotosOf(m)
    BY <1>3 DEF SettledInv
  <1>5. QED
    BY <1>2, <1>4

LEMMA TablesStay ==
  /\ UNCHANGED pois /\ PoisInv => PoisInv'
  /\ UNCHANGED <<pois, hours>> /\ HoursInv => HoursInv'
  /\ UNCHANGED <<files, manifest, job, cut>> /\ PhotosInv => PhotosInv'
  BY DEF PoisInv, HoursInv, PhotosInv, PhotosAreCredited

-----------------------------------------------------------------------------
(* The steps.                                                              *)

LEMMA ChangeKeeps == IInv /\ Change => IInv'
  <1> SUFFICES ASSUME IInv, Change PROVE IInv'
    OBVIOUS
  <1>1. UNCHANGED <<pois, hours, cache, files, manifest, job, cut, enriched>> /\ loaded' = FALSE
    BY DEF Change, tables, photos
  <1>2. staging' \in Extracts /\ mapping' \in Mappings
    BY DEF Change, IInv
  <1>3. changes' \in 0..MaxChanges
    BY CatalogueAssumption DEF Change, IInv
  <1>4. PoisInv' /\ HoursInv' /\ PhotosInv' /\ SettledInv'
    BY <1>1, TablesStay, SettledStays DEF IInv
  <1>5. LoadedInv'
    BY <1>1 DEF LoadedInv
  <1>6. QED
    BY <1>1, <1>2, <1>3, <1>4, <1>5 DEF IInv

LEMMA FetchKeeps == IInv /\ FetchItems => IInv'
  <1> SUFFICES ASSUME IInv, FetchItems PROVE IInv'
    OBVIOUS
  <1>1. /\ UNCHANGED <<staging, mapping, pois, hours, files, manifest, job, cut, loaded>>
        /\ enriched' = FALSE /\ cache' \in Answers
    BY DEF FetchItems, tables, photos
  <1>2. changes' \in 0..MaxChanges
    BY CatalogueAssumption DEF FetchItems, IInv
  <1>3. PoisInv' /\ HoursInv' /\ PhotosInv' /\ LoadedInv'
    BY <1>1, TablesStay, LoadedStays DEF IInv
  <1>4. SettledInv'
    BY <1>1 DEF SettledInv
  <1>5. QED
    BY <1>1, <1>2, <1>3, <1>4 DEF IInv

LEMMA ParseKeeps == IInv /\ ParseHours => IInv'
  <1> SUFFICES ASSUME IInv, ParseHours PROVE IInv'
    OBVIOUS
  <1>1. /\ UNCHANGED <<staging, mapping, changes, pois, cache, files, manifest, job, cut>>
        /\ UNCHANGED <<loaded, enriched>>
        /\ hours' = [r \in DOMAIN pois |-> Stored(pois[r].hours, pois[r].primary)]
    BY DEF ParseHours, world, photos
  <1>2. HoursInv'
    <2>1. DOMAIN hours' = DOMAIN pois'
      BY <1>1
    <2>2. ASSUME NEW r \in DOMAIN pois
          PROVE  hours'[r] \subseteq Row /\ hours'[r] # {}
      <3>1. RowOK(pois[r], Cardinality(DOMAIN pois))
        BY DEF IInv, PoisInv
      <3>2. pois[r].primary \in Category /\ pois[r].hours \in {NoTag, Always} \cup Seq(TagRule)
        BY <3>1 DEF RowOK
      <3>3. QED
        BY <1>1, <3>2, StoredType
    <2>3. QED
      BY <2>1, <2>2, <1>1 DEF HoursInv
  <1>3. PoisInv' /\ PhotosInv' /\ LoadedInv' /\ SettledInv'
    BY <1>1, TablesStay, LoadedStays, SettledStays DEF IInv
  <1>4. QED
    BY <1>1, <1>2, <1>3 DEF IInv

\* A step of category_photos leaves the tables alone.
LEMMA PhotosKeep ==
  ASSUME IInv, PhotosInv',
         UNCHANGED <<staging, mapping, changes, pois, hours, cache, loaded, enriched>>
  PROVE  IInv'
  BY TablesStay, LoadedStays, SettledStays DEF IInv

-----------------------------------------------------------------------------
(* The choice of photos.                                                   *)

\* Of some places with photos and ids of their own, one is the most notable.
LEMMA OneIsMostNotable ==
  ASSUME PoisInv, NEW s \in SUBSET WithPhoto, s # {}
  PROVE  MostNotable(s) \in s
  <1> DEFINE before(x, y) ==
               \/ pois[y].photo.links < pois[x].photo.links
               \/ pois[y].photo.links = pois[x].photo.links /\ pois[y].rank > pois[x].rank
             R == {p \in s \X s : before(p[1], p[2])}
  <1>1. ASSUME NEW x \in s
        PROVE  pois[x].photo.links \in Nat /\ pois[x].rank \in Nat /\ x \in DOMAIN pois
    <2>1. x \in DOMAIN pois /\ pois[x].photo # None
      BY DEF WithPhoto
    <2>2. RowOK(pois[x], Cardinality(DOMAIN pois)) /\ Cardinality(DOMAIN pois) \in Nat
      BY <2>1, FS_CardinalityType DEF PoisInv
    <2>3. QED
      BY <2>1, <2>2 DEF RowOK
  <1>2. IsFiniteSet(s)
    <2>1. s \in SUBSET DOMAIN pois
      BY DEF WithPhoto
    <2>2. QED
      BY <2>1, FS_Subset DEF PoisInv
  <1>3. \A x, y \in s : <<x, y>> \in R <=> before(x, y)
    OBVIOUS
  <1>4. \A x \in s : ~ before(x, x)
    BY <1>1
  <1>5. \A x, y, z \in s : before(x, y) /\ before(y, z) => before(x, z)
    BY <1>1
  <1>6. \A x, y \in s : x # y => before(x, y) \/ before(y, x)
    BY <1>1 DEF PoisInv
  <1> HIDE DEF R, before
  <1>7. PICK m \in s : \A x \in s : <<x, m>> \notin R
    BY <1>2, <1>3, <1>4, <1>5, Foremost
  <1>8. \A x \in s \ {m} : before(m, x)
    BY <1>3, <1>6, <1>7
  <1>9. \E r \in s : \A x \in s \ {r} : before(r, x)
    BY <1>8
  <1>10. MostNotable(s) = CHOOSE r \in s : \A x \in s \ {r} : before(r, x)
    BY DEF MostNotable, before
  <1>11. QED
    BY <1>9, <1>10

LEMMA CandidatesAreFinite ==
  ASSUME PoisInv, NEW c
  PROVE  IsFiniteSet(Of(c)) /\ Cardinality(Of(c)) \in Nat /\ Of(c) \subseteq WithPhoto
  <1>1. Of(c) \in SUBSET DOMAIN pois /\ Of(c) \subseteq WithPhoto
    BY DEF Of, WithPhoto
  <1>2. IsFiniteSet(Of(c))
    BY <1>1, FS_Subset DEF PoisInv
  <1>3. QED
    BY <1>1, <1>2, FS_CardinalityType

LEMMA ChoosingIsOrdered ==
  ASSUME PoisInv
  PROVE  /\ \A a \in Category : ~ ChoosesBefore(a, a)
         /\ \A a, b, c \in Category :
              ChoosesBefore(a, b) /\ ChoosesBefore(b, c) => ChoosesBefore(a, c)
         /\ \A a, b \in Category : a # b => ChoosesBefore(a, b) \/ ChoosesBefore(b, a)
  <1>1. \A a \in Category : Cardinality(Of(a)) \in Nat /\ CategoryRank[a] \in Nat
    BY CandidatesAreFinite, CatalogueAssumption
  <1>2. \A a, b \in Category : CategoryRank[a] = CategoryRank[b] => a = b
    BY CatalogueAssumption
  <1>3. QED
    BY <1>1, <1>2 DEF ChoosesBefore

\* What category c takes, if the others have taken f.
Free(f, c) == Of(c) \ UNION {f[k] : k \in {x \in Category : ChoosesBefore(x, c)}}
Take(f, c) == IF Free(f, c) = {} THEN {} ELSE {MostNotable(Free(f, c))}

LEMMA TakeReadsEarlier ==
  ASSUME NEW f, NEW g, NEW c,
         \A k \in Category : ChoosesBefore(k, c) => f[k] = g[k]
  PROVE  Take(f, c) = Take(g, c)
  <1>1. {f[k] : k \in {x \in Category : ChoosesBefore(x, c)}}
        = {g[k] : k \in {x \in Category : ChoosesBefore(x, c)}}
    OBVIOUS
  <1>2. Free(f, c) = Free(g, c)
    BY <1>1 DEF Free
  <1>3. QED
    BY <1>2 DEF Take

\* A choice for some categories, and for all that choose before them, can be
\* made for one more; so there is one for all.
LEMMA ChoiceExists ==
  ASSUME PoisInv
  PROVE  \E f : f = [c \in Category |-> Take(f, c)]
  <1> DEFINE closed(D) == \A c \in D, x \in Category : ChoosesBefore(x, c) => x \in D
             solves(f, D) == f = [x \in Category |-> f[x]] /\ \A c \in D : f[c] = Take(f, c)
             Good == {D \in SUBSET Category : closed(D) /\ \E f : solves(f, D)}
             N == {Cardinality(Category) - Cardinality(D) : D \in Good}
  <1>1. IsFiniteSet(Category) /\ Cardinality(Category) \in Nat
    BY FS_CardinalityType, CatalogueAssumption
  <1>2. \A D \in SUBSET Category : /\ IsFiniteSet(D) /\ Cardinality(D) \in Nat
                                   /\ Cardinality(D) <= Cardinality(Category)
    BY <1>1, FS_Subset, FS_CardinalityType
  <1>3. {} \in Good
    <2> DEFINE f == [x \in Category |-> {}]
    <2>1. f = [x \in Category |-> f[x]]
      OBVIOUS
    <2> HIDE DEF f
    <2>2. solves(f, {})
      BY <2>1
    <2>3. QED
      BY <2>2
  <1> HIDE DEF solves
  <1>4. PICK D \in Good : \A E \in Good : Cardinality(E) <= Cardinality(D)
    <2>1. \A E \in Good : E \in SUBSET Category
      OBVIOUS
    <2> HIDE DEF Good
    <2>2. N \in SUBSET Nat /\ N # {}
      BY <1>1, <1>2, <1>3, <2>1
    <2> HIDE DEF N
    <2>3. PICK n \in N : \A k \in N : n <= k
      BY <2>2, Least
    <2> USE DEF N
    <2>4. PICK D \in Good : \A E \in Good :
            Cardinality(Category) - Cardinality(D) <= Cardinality(Category) - Cardinality(E)
      BY <2>3
    <2>5. QED
      BY <1>1, <1>2, <2>1, <2>4
  <1>5. D \in SUBSET Category /\ closed(D) /\ \E f : solves(f, D)
    OBVIOUS
  <1>6. PICK f : solves(f, D)
    BY <1>5
  <1>7. CASE D = Category
    BY <1>6, <1>7 DEF solves
  <1>8. ASSUME D # Category PROVE FALSE
    <2> DEFINE S == Category \ D
               R == {p \in Category \X Category : ChoosesBefore(p[1], p[2])}
    <2>1. \A x, y \in Category : <<x, y>> \in R <=> ChoosesBefore(x, y)
      OBVIOUS
    <2>2. IsFiniteSet(S) /\ S # {} /\ S \subseteq Category
      BY <1>1, <1>5, <1>8, FS_Subset
    <2> HIDE DEF R
    <2>3. /\ \A x \in S : <<x, x>> \notin R
          /\ \A x, y, z \in S : <<x, y>> \in R /\ <<y, z>> \in R => <<x, z>> \in R
      BY <2>1, <2>2, ChoosingIsOrdered
    <2>4. \E c \in S : \A x \in S : <<x, c>> \notin R
      <3> HIDE DEF S
      <3>1. QED
        BY <2>2, <2>3, Foremost
    <2>5. PICK c \in S : \A x \in S : ~ ChoosesBefore(x, c)
      BY <2>1, <2>2, <2>4
    <2> DEFINE g == [x \in Category |-> IF x = c THEN Take(f, c) ELSE f[x]]
               E == D \cup {c}
    <2>6. c \in Category /\ c \notin D /\ \A x \in Category : ChoosesBefore(x, c) => x \in D
      BY <2>5
    <2>7. E \in SUBSET Category /\ closed(E)
      BY <1>5, <2>6
    <2>8. ASSUME NEW k \in E PROVE g[k] = Take(g, k)
      <3>1. k \in Category /\ \A x \in Category : ChoosesBefore(x, k) => x \in D /\ x # c
        BY <1>5, <2>6, <2>7
      <3>2. \A x \in Category : ChoosesBefore(x, k) => f[x] = g[x]
        BY <3>1
      <3> HIDE DEF g
      <3>3. Take(f, k) = Take(g, k)
        BY <3>2, TakeReadsEarlier
      <3> USE DEF g
      <3>4. g[k] = Take(f, k)
        BY <1>6, <2>6, <3>1 DEF solves
      <3>5. QED
        BY <3>3, <3>4
    <2>9. g = [x \in Category |-> g[x]]
      OBVIOUS
    <2>10. solves(g, E)
      <3> HIDE DEF g, E
      <3>1. QED
        BY <2>8, <2>9 DEF solves
    <2>11. E \in Good
      BY <2>7, <2>10
    <2>12. Cardinality(E) = Cardinality(D) + 1
      BY <1>2, <1>5, <2>6, FS_AddElement
    <2>13. QED
      BY <1>2, <1>4, <1>5, <2>11, <2>12
  <1>9. QED
    BY <1>7, <1>8

LEMMA ChoiceIsMade ==
  ASSUME PoisInv
  PROVE  Choice = [c \in Category |-> Take(Choice, c)]
  BY ChoiceExists DEF Choice, Take, Free

LEMMA ChosenPlaces ==
  ASSUME PoisInv, NEW c \in Category
  PROVE  /\ Choice[c] \subseteq Of(c)
         /\ \A k \in Category : ChoosesBefore(k, c) => Choice[c] \cap Choice[k] = {}
         /\ Choice[c] = {} =>
              \A r \in Of(c) : \E k \in Category : ChoosesBefore(k, c) /\ r \in Choice[k]
  <1> DEFINE taken == UNION {Choice[k] : k \in {x \in Category : ChoosesBefore(x, c)}}
             free == Of(c) \ taken
  <1>1. Choice[c] = IF free = {} THEN {} ELSE {MostNotable(free)}
    BY ChoiceIsMade DEF Take, Free
  <1>2. \A r : r \in taken <=> \E k \in Category : ChoosesBefore(k, c) /\ r \in Choice[k]
    OBVIOUS
  <1>3. free \subseteq WithPhoto
    BY CandidatesAreFinite
  <1>4. free # {} => MostNotable(free) \in free
    BY <1>3, OneIsMostNotable
  <1>5. Choice[c] \subseteq free
    BY <1>1, <1>4
  <1>6. Choice[c] = {} => free = {}
    BY <1>1
  <1> HIDE DEF taken
  <1>7. QED
    BY <1>2, <1>5, <1>6

LEMMA BeginKeeps == IInv /\ BeginPhotos => IInv'
  <1> SUFFICES ASSUME IInv, BeginPhotos PROVE IInv'
    OBVIOUS
  <1>1. /\ UNCHANGED <<staging, mapping, changes, pois, hours, cache, manifest, loaded, enriched>>
        /\ files' = {}
    BY DEF BeginPhotos, world, tables
  <1>2. PICK found \in SUBSET {c \in Category : Choice[c] = {}} :
          job' = [todo |-> {c \in Category : Choice[c] # {}} \cup found, done |-> {},
                  chosen |-> Choice]
    BY DEF BeginPhotos
  <1>3. Choice \in [Category -> SUBSET UNION {Refs(x) : x \in Extracts}]
    <2>1. ASSUME NEW c \in Category
          PROVE  Choice[c] \in SUBSET UNION {Refs(x) : x \in Extracts}
      BY ChosenPlaces DEF IInv, PoisInv, Of, WithPhoto
    <2>2. Choice = [c \in Category |-> Choice[c]]
      BY ChoiceIsMade DEF IInv
    <2>3. QED
      BY <2>1, <2>2
  <1>4. job' \in Job /\ job'.done = {}
    BY <1>2, <1>3 DEF Job
  <1>5. PhotosInv'
    <2>1. job' # None
      BY <1>4, CatalogueAssumption
    <2>2. QED
      BY <1>1, <1>4, <2>1 DEF PhotosInv, PhotosAreCredited, IInv
  <1>6. QED
    BY <1>1, <1>5, PhotosKeep

\* While there is something to download, one comes before the others.
LEMMA NextIsToDo ==
  ASSUME PoisInv, job \in Job, job.todo # {}
  PROVE  NextDownload \in job.todo
  <1> DEFINE s == job.todo
             R == {p \in s \X s : SavedBefore(p[1], p[2])}
  <1>1. s \subseteq Category /\ IsFiniteSet(s) /\ s # {}
    <2>1. s \in SUBSET Category
      BY DEF Job
    <2>2. QED
      BY <2>1, FS_Subset, CatalogueAssumption
  <1>2. \A a, b \in s : <<a, b>> \in R <=> SavedBefore(a, b)
    OBVIOUS
  <1>3. \A a \in s : CategoryRank[a] \in Nat
    BY <1>1, CatalogueAssumption
  <1>4. \A a, b \in s : CategoryRank[a] = CategoryRank[b] => a = b
    BY <1>1, CatalogueAssumption
  <1>5. \A a \in s : ~ SavedBefore(a, a)
    BY <1>1, <1>3, ChoosingIsOrdered DEF SavedBefore
  <1>6. \A a, b, c \in s : SavedBefore(a, b) /\ SavedBefore(b, c) => SavedBefore(a, c)
    BY <1>1, <1>3, ChoosingIsOrdered DEF SavedBefore
  <1>7. \A a, b \in s : a # b => SavedBefore(a, b) \/ SavedBefore(b, a)
    BY <1>1, <1>3, <1>4, ChoosingIsOrdered DEF SavedBefore
  <1> HIDE DEF R, s
  <1>8. PICK m \in s : \A x \in s : <<x, m>> \notin R
    BY <1>1, <1>2, <1>5, <1>6, Foremost
  <1>9. \A x \in s \ {m} : SavedBefore(m, x)
    BY <1>2, <1>7, <1>8
  <1>10. \E c \in s : \A k \in s \ {c} : SavedBefore(c, k)
    BY <1>9
  <1>11. NextDownload = CHOOSE c \in s : \A k \in s \ {c} : SavedBefore(c, k)
    BY DEF NextDownload, s
  <1>12. QED
    BY <1>10, <1>11 DEF s

LEMMA SkipKeeps == IInv /\ SkipDownload => IInv'
  <1> SUFFICES ASSUME IInv, SkipDownload PROVE IInv'
    OBVIOUS
  <1>1. /\ UNCHANGED <<staging, mapping, changes, pois, hours, cache, loaded, enriched>>
        /\ UNCHANGED <<files, manifest, cut>> /\ job # None
        /\ job' = [job EXCEPT !.todo = @ \ {NextDownload}]
    BY DEF SkipDownload, Underway, world, tables
  <1>2. job \in Job /\ job.done = files
    BY <1>1 DEF IInv, PhotosInv
  <1>3. job' \in Job /\ job'.done = job.done
    BY <1>1, <1>2 DEF Job
  <1>4. job' # None
    BY <1>3, CatalogueAssumption
  <1>5. PhotosInv'
    BY <1>1, <1>2, <1>3, <1>4 DEF PhotosInv, PhotosAreCredited, IInv
  <1>6. QED
    BY <1>1, <1>5, PhotosKeep

LEMMA DownloadKeeps == IInv /\ Download => IInv'
  <1> SUFFICES ASSUME IInv, Download PROVE IInv'
    OBVIOUS
  <1>1. /\ UNCHANGED <<staging, mapping, changes, pois, hours, cache, loaded, enriched>>
        /\ UNCHANGED <<manifest, cut>> /\ job # None /\ job.todo # {}
        /\ job' = [job EXCEPT !.todo = @ \ {NextDownload}, !.done = @ \cup {NextDownload}]
        /\ files' = files \cup {NextDownload}
    BY DEF Download, Underway, world, tables
  <1>2. job \in Job /\ job.done = files
    BY <1>1 DEF IInv, PhotosInv
  <1>3. NextDownload \in Category
    <2>1. NextDownload \in job.todo
      BY <1>1, <1>2, NextIsToDo DEF IInv
    <2>2. QED
      BY <1>2, <2>1 DEF Job
  <1>4. job' \in Job /\ job'.done = job.done \cup {NextDownload}
    BY <1>1, <1>2, <1>3 DEF Job
  <1>5. job' # None
    BY <1>4, CatalogueAssumption
  <1>6. PhotosInv'
    BY <1>1, <1>2, <1>3, <1>4, <1>5 DEF PhotosInv, PhotosAreCredited, IInv
  <1>7. QED
    BY <1>1, <1>6, PhotosKeep

LEMMA EndKeeps == IInv /\ (EndPhotos \/ CutPhotos) => IInv'
  <1> SUFFICES ASSUME IInv, EndPhotos \/ CutPhotos PROVE IInv'
    OBVIOUS
  <1>1. /\ UNCHANGED <<staging, mapping, changes, pois, hours, cache, loaded, enriched>>
        /\ UNCHANGED files /\ job # None /\ job' = None
        /\ manifest' = job.done \/ (UNCHANGED manifest /\ cut' = TRUE)
    BY DEF EndPhotos, CutPhotos, world, tables
  <1>2. job \in Job /\ job.done = files /\ files \subseteq Category
        /\ manifest \subseteq Category
    BY <1>1 DEF IInv, PhotosInv
  <1>3. PhotosInv'
    BY <1>1, <1>2 DEF PhotosInv, PhotosAreCredited
  <1>4. QED
    BY <1>1, <1>3, PhotosKeep

-----------------------------------------------------------------------------
(* The load.                                                               *)

LEMMA RuleType ==
  ASSUME mapping \in Mappings, NEW rec, DOMAIN rec.tags \subseteq Nat, Rule(rec) # None
  PROVE  /\ Rule(rec).primary \in Category
         /\ {Rule(rec).primary} \cup Rule(rec).secondary \subseteq Category
  <1> DEFINE telling == {i \in DOMAIN rec.tags :
                           rec.tags[i] \in mapping.drop \cup DOMAIN mapping.rules}
             t == rec.tags[Min(telling)]
  <1>1. telling # {} /\ telling \in SUBSET Nat
    BY DEF Rule
  <1>2. Min(telling) \in telling
    <2> HIDE DEF telling
    <2>1. QED
      BY <1>1, Least DEF Min
  <1>3. t \in DOMAIN mapping.rules /\ Rule(rec) = mapping.rules[t]
    BY <1>1, <1>2 DEF Rule
  <1> HIDE DEF t
  <1>4. QED
    BY <1>3, CatalogueAssumption

LEMMA FinalType ==
  ASSUME staging \in Extracts, mapping \in Mappings
  PROVE  /\ IsFiniteSet(Final) /\ Final \subseteq Nat /\ Final \subseteq DOMAIN staging
         /\ \A i \in Final : FullName(staging[i]) # None /\ Rule(staging[i]) # None
         /\ \A i, j \in Final : staging[i].ref = staging[j].ref => i = j
  <1>1. Final \subseteq Candidates
    BY DEF Final, ByWikidata
  <1>2. Len(staging) \in Nat /\ DOMAIN staging = 1..Len(staging)
    BY CatalogueAssumption
  <1>3. IsFiniteSet(1..Len(staging))
    BY <1>2, FS_Interval
  <1>4. Final \in SUBSET (1..Len(staging))
    BY <1>1, <1>2 DEF Candidates
  <1>5. IsFiniteSet(Final)
    BY <1>3, <1>4, FS_Subset
  <1>6. \A i, j \in DOMAIN staging : staging[i].ref = staging[j].ref => i = j
    BY CatalogueAssumption
  <1>7. \A i \in Final : FullName(staging[i]) # None /\ Rule(staging[i]) # None
    BY <1>1 DEF Candidates
  <1>8. Final \subseteq Nat /\ Final \subseteq DOMAIN staging
    BY <1>2, <1>4
  <1>9. QED
    BY <1>5, <1>6, <1>7, <1>8

LEMMA FreshOK ==
  ASSUME staging \in Extracts, mapping \in Mappings, NEW i \in Final,
         NEW n \in Nat, NEW rank \in 1..n
  PROVE  RowOK(Fresh(staging[i], rank), n)
  <1>1. i \in DOMAIN staging /\ FullName(staging[i]) # None /\ Rule(staging[i]) # None
    BY FinalType
  <1>2. /\ DOMAIN staging[i].tags \subseteq Nat
        /\ staging[i].hours \in {NoTag, Always} \cup Seq(TagRule)
        /\ Normal[FullName(staging[i])] \in DOMAIN WordsOf
    BY <1>1, CatalogueAssumption
  <1>3. {Rule(staging[i]).primary} \cup Rule(staging[i]).secondary \subseteq Category
    BY <1>1, <1>2, RuleType
  <1>4. DOMAIN Fresh(staging[i], rank) = Columns
    BY DEF Fresh, Columns
  <1>5. QED
    BY <1>2, <1>3, <1>4 DEF Fresh, RowOK

LEMMA UpdateOK ==
  ASSUME staging \in Extracts, mapping \in Mappings, NEW i \in Final,
         NEW n \in Nat, NEW row, RowOK(row, n)
  PROVE  /\ RowOK(Update(row, staging[i]), n) /\ Update(row, staging[i]).rank = row.rank
         /\ Update(row, staging[i]).hash = staging[i]
         /\ Update(row, staging[i]).photo = row.photo
  <1> DEFINE f == Fresh(staging[i], row.rank)
             u == Update(row, staging[i])
  <1>1. RowOK(f, n)
    BY FreshOK DEF RowOK
  <1>2. f.rank = row.rank /\ f.hash = staging[i]
    BY DEF Fresh
  <1>3. /\ u.rank = f.rank /\ u.primary = f.primary /\ u.links = f.links /\ u.norm = f.norm
        /\ u.hours = f.hours /\ u.hash = f.hash /\ u.qid = row.qid /\ u.photo = row.photo
        /\ DOMAIN u = DOMAIN f
    BY DEF Update, Fresh
  <1> HIDE DEF f, u
  <1>4. RowOK(u, n)
    BY <1>1, <1>3 DEF RowOK
  <1>5. QED
    BY <1>2, <1>3, <1>4 DEF u

\* What a load writes: a row for each record that is new or has changed.
Rewritten(i) ==
  IF staging[i].ref \in DOMAIN pois THEN Update(pois[staging[i].ref], staging[i])
  ELSE Fresh(staging[i], NextRank(i, Written))

LEMMA LoadWrites ==
  ASSUME IInv, Load
  PROVE  /\ UNCHANGED <<staging, mapping, changes, hours, cache, files, manifest, job, cut>>
         /\ loaded' = TRUE /\ enriched' \in BOOLEAN /\ (enriched' => enriched /\ Written = {})
         /\ DOMAIN pois' = DOMAIN pois \cup {staging[i].ref : i \in Written}
         /\ pois' = [r \in DOMAIN pois' |-> pois'[r]]
         /\ \A i \in Written : pois'[staging[i].ref] = Rewritten(i)
         /\ \A r \in DOMAIN pois : (\A i \in Written : staging[i].ref # r) => pois'[r] = pois[r]
         /\ Written = {} => pois' = pois
  <1>1. /\ UNCHANGED <<staging, mapping, changes, hours, cache, files, manifest, job, cut>>
        /\ loaded' = TRUE /\ enriched' = (enriched /\ Written = {})
    BY DEF Load, world, photos
  <1>2. pois' = [r \in DOMAIN pois \cup {staging[i].ref : i \in Written} |->
                   IF \E i \in Written : staging[i].ref = r
                   THEN Rewritten(CHOOSE i \in Written : staging[i].ref = r)
                   ELSE pois[r]]
    BY DEF Load, Rewritten
  <1>3. \A i, j \in Written : staging[i].ref = staging[j].ref => i = j
    BY FinalType DEF Written, IInv
  <1>4. ASSUME NEW i \in Written PROVE pois'[staging[i].ref] = Rewritten(i)
    <2>1. (CHOOSE k \in Written : staging[k].ref = staging[i].ref) = i
      BY <1>3
    <2>2. QED
      BY <1>2, <2>1
  <1>5. Written = {} => pois' = pois
    BY <1>2 DEF IInv, PoisInv
  <1>6. enriched' \in BOOLEAN /\ (enriched' => enriched /\ Written = {})
    BY <1>1
  <1>7. QED
    BY <1>1, <1>2, <1>4, <1>5, <1>6

New == {i \in Written : staging[i].ref \notin DOMAIN pois}

LEMMA WrittenType ==
  ASSUME IInv
  PROVE  /\ IsFiniteSet(Written) /\ Written \subseteq Final /\ Written \subseteq Nat
         /\ IsFiniteSet(New) /\ New \subseteq Written /\ Cardinality(New) \in Nat
         /\ \A i, j \in Written : staging[i].ref = staging[j].ref => i = j
  <1>1. /\ IsFiniteSet(Final) /\ Final \subseteq Nat
        /\ \A i, j \in Final : staging[i].ref = staging[j].ref => i = j
    BY FinalType DEF IInv
  <1>2. Written \in SUBSET Final /\ New \in SUBSET Written
    BY DEF Written, New
  <1>3. IsFiniteSet(Written)
    BY <1>1, <1>2, FS_Subset
  <1>4. IsFiniteSet(New)
    BY <1>2, <1>3, FS_Subset
  <1>5. Cardinality(New) \in Nat
    BY <1>4, FS_CardinalityType
  <1>6. QED
    BY <1>1, <1>2, <1>3, <1>4, <1>5

\* New rows have ids beyond those given, one each.
LEMMA NextRanks ==
  ASSUME IInv, NEW n, n = Cardinality(DOMAIN pois), NEW i \in New, NEW j \in New
  PROVE  /\ NextRank(i, Written) \in n + 1..n + Cardinality(New)
         /\ i < j => NextRank(i, Written) < NextRank(j, Written)
  <1> DEFINE upTo(k) == {x \in Written : staging[x].ref \notin DOMAIN pois /\ x <= k}
  <1>1. n \in Nat
    BY FS_CardinalityType DEF IInv, PoisInv
  <1>2. i \in Nat /\ j \in Nat /\ Cardinality(New) \in Nat /\ New \subseteq Nat
    BY WrittenType
  <1>3. ASSUME NEW k \in New
        PROVE  /\ IsFiniteSet(upTo(k)) /\ Cardinality(upTo(k)) \in 1..Cardinality(New)
               /\ NextRank(k, Written) = n + Cardinality(upTo(k))
    <2>1. upTo(k) \in SUBSET New /\ k \in upTo(k)
      BY <1>2, WrittenType DEF New
    <2>2. NextRank(k, Written) = n + Cardinality(upTo(k))
      BY DEF NextRank
    <2> HIDE DEF upTo
    <2>3. IsFiniteSet(upTo(k)) /\ Cardinality(upTo(k)) <= Cardinality(New)
      BY <2>1, WrittenType, FS_Subset
    <2>4. Cardinality(upTo(k)) \in Nat /\ Cardinality(upTo(k)) # 0
      BY <2>1, <2>3, FS_CardinalityType, FS_EmptySet
    <2>5. QED
      BY <1>2, <2>2, <2>3, <2>4
  <1>4. ASSUME i < j PROVE Cardinality(upTo(i)) < Cardinality(upTo(j))
    <2>1. upTo(i) \in SUBSET upTo(j) /\ j \in upTo(j) /\ j \notin upTo(i)
      BY <1>2, <1>4, WrittenType DEF New
    <2>2. IsFiniteSet(upTo(j)) /\ Cardinality(upTo(j)) \in Nat /\ Cardinality(upTo(i)) \in Nat
      BY <1>3
    <2> HIDE DEF upTo
    <2>3. Cardinality(upTo(i)) <= Cardinality(upTo(j))
          /\ (Cardinality(upTo(j)) = Cardinality(upTo(i)) => upTo(j) = upTo(i))
      BY <2>1, <2>2, FS_Subset
    <2>4. QED
      BY <2>1, <2>2, <2>3
  <1> HIDE DEF upTo
  <1>5. NextRank(i, Written) \in n + 1..n + Cardinality(New)
    BY <1>1, <1>2, <1>3
  <1>6. i < j => NextRank(i, Written) < NextRank(j, Written)
    BY <1>1, <1>2, <1>3, <1>4
  <1>7. QED
    BY <1>5, <1>6

LEMMA MorePlaces ==
  ASSUME IInv, NEW dom, dom = DOMAIN pois \cup {staging[i].ref : i \in Written}
  PROVE  IsFiniteSet(dom) /\ Cardinality(dom) = Cardinality(DOMAIN pois) + Cardinality(New)
  <1> DEFINE added == {staging[i].ref : i \in New}
             f == [i \in New |-> staging[i].ref]
  <1>1. /\ IsFiniteSet(DOMAIN pois) /\ Cardinality(DOMAIN pois) \in Nat
        /\ IsFiniteSet(New) /\ Cardinality(New) \in Nat
    BY WrittenType, FS_CardinalityType DEF IInv, PoisInv
  <1>2. f \in Surjection(New, added)
    BY DEF Surjection
  <1>3. f \in Injection(New, added)
    BY WrittenType DEF Injection, IsInjective
  <1> HIDE DEF f, added
  <1>4. IsFiniteSet(added) /\ Cardinality(added) = Cardinality(New)
    BY <1>1, <1>2, <1>3, FS_Surjection
  <1>5. DOMAIN pois \cap added = {} /\ dom = DOMAIN pois \cup added
    BY DEF added, New
  <1>6. QED
    BY <1>1, <1>4, <1>5, FS_Union, FS_EmptySet

LEMMA MoreRows ==
  ASSUME NEW row, NEW n \in Nat, NEW m \in Nat, n <= m, RowOK(row, n)
  PROVE  RowOK(row, m)
  <1>1. row.rank \in 1..m
    BY DEF RowOK
  <1>2. QED
    BY <1>1 DEF RowOK

\* Each row is well formed after a load, and keeps its rank or has a new one.
LEMMA LoadedRow ==
  ASSUME IInv, Load, NEW r, r \in DOMAIN pois'
  PROVE  /\ RowOK(pois'[r], Cardinality(DOMAIN pois'))
         /\ r \in DOMAIN pois => pois'[r].rank = pois[r].rank
         /\ r \in DOMAIN pois => pois'[r].photo = pois[r].photo
         /\ r \notin DOMAIN pois =>
              \E i \in New : staging[i].ref = r /\ pois'[r].rank = NextRank(i, Written)
  <1> DEFINE n == Cardinality(DOMAIN pois)
             m == Cardinality(DOMAIN pois')
  <1>1. staging \in Extracts /\ mapping \in Mappings
    BY DEF IInv
  <1>2. n \in Nat /\ Cardinality(New) \in Nat /\ m = n + Cardinality(New)
    BY LoadWrites, MorePlaces, WrittenType, FS_CardinalityType DEF IInv, PoisInv
  <1>3. m \in Nat /\ n <= m
    BY <1>2
  <1>4. \A x \in DOMAIN pois : RowOK(pois[x], n)
    BY DEF IInv, PoisInv
  <1>5. \A x \in DOMAIN pois : RowOK(pois[x], m)
    BY <1>2, <1>3, <1>4, MoreRows
  <1> HIDE DEF n, m
  <1>6. CASE r \in DOMAIN pois /\ \A i \in Written : staging[i].ref # r
    <2>1. pois'[r] = pois[r]
      BY <1>6, LoadWrites
    <2>2. QED
      BY <1>5, <1>6, <2>1 DEF m
  <1>7. CASE r \in DOMAIN pois /\ \E i \in Written : staging[i].ref = r
    <2>1. PICK i \in Written : staging[i].ref = r
      BY <1>7
    <2>2. pois'[r] = Update(pois[r], staging[i])
      BY <1>7, <2>1, LoadWrites DEF Rewritten
    <2>3. i \in Final
      BY WrittenType
    <2>4. RowOK(Update(pois[r], staging[i]), m) /\ Update(pois[r], staging[i]).rank = pois[r].rank
          /\ Update(pois[r], staging[i]).photo = pois[r].photo
      BY <1>1, <1>3, <1>5, <1>7, <2>3, UpdateOK
    <2>5. QED
      BY <1>7, <2>2, <2>4 DEF m
  <1>8. CASE r \notin DOMAIN pois
    <2>1. PICK i \in Written : staging[i].ref = r
      BY <1>8, LoadWrites
    <2>2. i \in New /\ i \in Final
      BY <1>8, <2>1, WrittenType DEF New
    <2>3. pois'[r] = Fresh(staging[i], NextRank(i, Written))
      BY <1>8, <2>1, LoadWrites DEF Rewritten
    <2>4. NextRank(i, Written) \in n + 1..n + Cardinality(New)
      BY <2>2, NextRanks DEF n
    <2>5. NextRank(i, Written) \in 1..m
      BY <1>2, <2>4
    <2>6. RowOK(pois'[r], m)
      BY <1>1, <1>3, <2>2, <2>3, <2>5, FreshOK
    <2>7. pois'[r].rank = NextRank(i, Written)
      BY <2>3 DEF Fresh
    <2>8. QED
      BY <1>8, <2>1, <2>2, <2>6, <2>7 DEF m
  <1>9. QED
    BY <1>6, <1>7, <1>8

LEMMA LoadKeeps == IInv /\ Load => IInv'
  <1> SUFFICES ASSUME IInv, Load PROVE IInv'
    OBVIOUS
  <1>1. /\ UNCHANGED <<staging, mapping, changes, hours, cache, files, manifest, job, cut>>
        /\ loaded' = TRUE /\ enriched' \in BOOLEAN /\ (enriched' => enriched)
    BY LoadWrites
  <1>2. PoisInv'
    <2>1. pois' = [r \in DOMAIN pois' |-> pois'[r]]
      BY LoadWrites
    <2>2. IsFiniteSet(DOMAIN pois')
      BY LoadWrites, MorePlaces
    <2>3. DOMAIN pois' \subseteq UNION {Refs(x) : x \in Extracts}
      <3>1. \A i \in Written : i \in DOMAIN staging /\ staging \in Extracts
        BY WrittenType, FinalType DEF IInv
      <3>2. DOMAIN pois \subseteq UNION {Refs(x) : x \in Extracts}
        BY DEF IInv, PoisInv
      <3>3. QED
        BY <3>1, <3>2, LoadWrites DEF Refs
    <2>4. \A r \in DOMAIN pois' : RowOK(pois'[r], Cardinality(DOMAIN pois'))
      BY LoadedRow
    <2>5. ASSUME NEW r, NEW x, r \in DOMAIN pois', x \in DOMAIN pois', pois'[r].rank = pois'[x].rank
          PROVE  r = x
      <3> DEFINE n == Cardinality(DOMAIN pois)
      <3>1. n \in Nat /\ \A y \in DOMAIN pois : pois[y].rank \in 1..n
        BY FS_CardinalityType DEF IInv, PoisInv, RowOK
      <3>2. \A i \in New : NextRank(i, Written) \in n + 1..n + Cardinality(New)
        BY NextRanks
      <3>3. Cardinality(New) \in Nat
        BY WrittenType
      <3> HIDE DEF n
      <3>4. CASE r \in DOMAIN pois /\ x \in DOMAIN pois
        BY <2>5, <3>4, LoadedRow DEF IInv, PoisInv
      <3>5. CASE r \in DOMAIN pois /\ x \notin DOMAIN pois
        <4>1. pois'[r].rank \in 1..n
          BY <2>5, <3>1, <3>5, LoadedRow
        <4>2. pois'[x].rank \in n + 1..n + Cardinality(New)
          BY <2>5, <3>2, <3>5, LoadedRow
        <4>3. QED
          BY <2>5, <3>1, <3>3, <4>1, <4>2
      <3>6. CASE r \notin DOMAIN pois /\ x \in DOMAIN pois
        <4>1. pois'[x].rank \in 1..n
          BY <2>5, <3>1, <3>6, LoadedRow
        <4>2. pois'[r].rank \in n + 1..n + Cardinality(New)
          BY <2>5, <3>2, <3>6, LoadedRow
        <4>3. QED
          BY <2>5, <3>1, <3>3, <4>1, <4>2
      <3>7. CASE r \notin DOMAIN pois /\ x \notin DOMAIN pois
        <4>1. PICK i \in New : staging[i].ref = r /\ pois'[r].rank = NextRank(i, Written)
          BY <2>5, <3>7, LoadedRow
        <4>2. PICK j \in New : staging[j].ref = x /\ pois'[x].rank = NextRank(j, Written)
          BY <2>5, <3>7, LoadedRow
        <4>3. (i < j => NextRank(i, Written) < NextRank(j, Written))
              /\ (j < i => NextRank(j, Written) < NextRank(i, Written))
          BY NextRanks
        <4>4. i \in Nat /\ j \in Nat /\ NextRank(i, Written) \in Nat
          BY <3>1, <3>2, <3>3, WrittenType
        <4>5. NextRank(i, Written) = NextRank(j, Written)
          BY <2>5, <4>1, <4>2
        <4>6. ~ (i < j) /\ ~ (j < i)
          BY <4>3, <4>4, <4>5
        <4>7. i = j
          BY <4>4, <4>6
        <4>8. QED
          BY <4>1, <4>2, <4>7
      <3>8. QED
        BY <3>4, <3>5, <3>6, <3>7
    <2>6. QED
      BY <2>1, <2>2, <2>3, <2>4, <2>5 DEF PoisInv
  <1>3. HoursInv'
    BY <1>1, LoadWrites DEF IInv, HoursInv
  <1>4. PhotosInv'
    BY <1>1, TablesStay DEF IInv
  <1>5. LoadedInv'
    <2>1. UNCHANGED Final
      BY <1>1, FinalStays
    <2>2. ASSUME NEW i \in Final
          PROVE  staging[i].ref \in DOMAIN pois' /\ pois'[staging[i].ref].hash = staging[i]
      <3> DEFINE ref == staging[i].ref
      <3>1. CASE i \in Written /\ ref \in DOMAIN pois
        <4>1. pois'[ref] = Update(pois[ref], staging[i]) /\ ref \in DOMAIN pois'
          BY <3>1, LoadWrites DEF Rewritten
        <4>2. Update(pois[ref], staging[i]).hash = staging[i]
          BY DEF Update, Fresh
        <4>3. QED
          BY <4>1, <4>2
      <3>2. CASE i \in Written /\ ref \notin DOMAIN pois
        <4>1. pois'[ref] = Fresh(staging[i], NextRank(i, Written)) /\ ref \in DOMAIN pois'
          BY <3>2, LoadWrites DEF Rewritten
        <4>2. QED
          BY <4>1 DEF Fresh
      <3>3. CASE i \notin Written
        <4>1. ref \in DOMAIN pois /\ pois[ref].hash = staging[i]
          BY <3>3 DEF Written, Unchanged
        <4>2. \A j \in Written : staging[j].ref # ref
          BY <3>3, WrittenType, FinalType DEF IInv
        <4>3. pois'[ref] = pois[ref] /\ ref \in DOMAIN pois'
          BY <4>1, <4>2, LoadWrites
        <4>4. QED
          BY <4>1, <4>3
      <3>4. QED
        BY <3>1, <3>2, <3>3
    <2>3. QED
      BY <1>1, <2>1, <2>2 DEF LoadedInv, Unchanged
  <1>6. SettledInv'
    <2>1. CASE enriched'
      <3>1. UNCHANGED <<pois, cache>>
        BY <1>1, <2>1, LoadWrites
      <3>2. QED
        BY <1>1, <3>1, SettledStays DEF IInv
    <2>2. CASE ~ enriched'
      BY <2>2 DEF SettledInv
    <2>3. QED
      BY <2>1, <2>2
  <1>7. QED
    BY <1>1, <1>2, <1>3, <1>4, <1>5, <1>6 DEF IInv

-----------------------------------------------------------------------------
(* The enrichment.                                                         *)

LEMMA SimType ==
  ASSUME NEW x \in Answers, NEW i \in DOMAIN x, NEW norm \in DOMAIN WordsOf
  PROVE  Sim(x[i], norm) \in Nat
  <1> DEFINE S == {0} \cup {l.sim[norm] : l \in {y \in x[i].labels : ~ Rejects(y, norm)}}
             R == {p \in S \X S : p[1] > p[2]}
  <1>1. \A l \in x[i].labels : l.sim[norm] \in 0..100
    BY CatalogueAssumption
  <1>2. S \in SUBSET (0..100) /\ S # {}
    BY <1>1
  <1>3. Sim(x[i], norm) = Max(S)
    BY DEF Sim
  <1> HIDE DEF S
  <1>4. IsFiniteSet(S)
    <2>1. \A n \in Nat : IsFiniteSet(0..n)
      BY FS_Interval
    <2>2. IsFiniteSet(0..100)
      BY <2>1
    <2>3. QED
      BY <1>2, <2>2, FS_Subset
  <1>5. \A u, v \in S : <<u, v>> \in R <=> u > v
    OBVIOUS
  <1>6. S \subseteq Nat
    BY <1>2
  <1>7. \A u \in S : ~ (u > u)
    BY <1>6
  <1>8. \A u, v, w \in S : u > v /\ v > w => u > w
    BY <1>6
  <1> HIDE DEF R
  <1>9. \E m \in S : \A u \in S : <<u, m>> \notin R
    BY <1>2, <1>4, <1>5, <1>7, <1>8, Foremost
  <1>10. \E m \in S : \A u \in S : m >= u
    <2>1. PICK m \in S : \A u \in S : <<u, m>> \notin R
      BY <1>9
    <2>2. \A u \in S : ~ (u > m)
      BY <1>5, <2>1
    <2>3. \A u \in S : m >= u
      BY <1>6, <2>2
    <2>4. QED
      BY <2>3
  <1>11. Max(S) \in S
    BY <1>10 DEF Max
  <1>12. QED
    BY <1>3, <1>6, <1>11

\* Of the items matched to one place, one is chosen.
LEMMA ItemIsChosen ==
  ASSUME IInv, cache \in Answers, NEW m, DOMAIN m = DOMAIN cache,
         NEW r \in DOMAIN pois, \E i \in DOMAIN m : m[i] = r
  PROVE  Chosen(m, r) \in DOMAIN cache
  <1> DEFINE I == {i \in DOMAIN m : m[i] = r}
             before(i, j) == \/ Above(Notability(i, r), Notability(j, r))
                             \/ ~ Above(Notability(j, r), Notability(i, r)) /\ i < j
             R == {p \in I \X I : before(p[1], p[2])}
  <1>1. Len(cache) \in Nat /\ DOMAIN cache = 1..Len(cache)
    BY CatalogueAssumption
  <1>2. IsFiniteSet(I) /\ I \subseteq Nat /\ I # {}
    <2>1. I \in SUBSET (1..Len(cache)) /\ I # {}
      BY <1>1
    <2> HIDE DEF I
    <2>2. IsFiniteSet(1..Len(cache)) /\ 1..Len(cache) \subseteq Nat
      BY <1>1, FS_Interval
    <2>3. IsFiniteSet(I)
      BY <2>1, <2>2, FS_Subset
    <2>4. QED
      BY <2>1, <2>2, <2>3
  <1>3. pois[r].norm \in DOMAIN WordsOf
    BY DEF IInv, PoisInv, RowOK
  <1>4. \A i \in I : cache[i].sitelinks \in Nat /\ Sim(cache[i], pois[r].norm) \in Nat
    BY <1>3, SimType, CatalogueAssumption
  <1>5. \A i, j \in I : Above(Notability(i, r), Notability(j, r)) <=>
          \/ cache[i].sitelinks > cache[j].sitelinks
          \/ /\ cache[i].sitelinks = cache[j].sitelinks
             /\ Sim(cache[i], pois[r].norm) > Sim(cache[j], pois[r].norm)
    BY DEF Above, Notability
  <1>6. \A i \in I : ~ before(i, i)
    BY <1>2, <1>4, <1>5
  <1>7. \A i, j, k \in I : before(i, j) /\ before(j, k) => before(i, k)
    BY <1>2, <1>4, <1>5
  <1>8. \A i, j \in I : <<i, j>> \in R <=> before(i, j)
    OBVIOUS
  <1>9. \A i, j \in I : i # j => before(i, j) \/ before(j, i)
    BY <1>2, <1>4, <1>5
  <1>10. \A i, j \in I : before(i, j) =>
           \/ Above(Notability(i, r), Notability(j, r))
           \/ ~ Above(Notability(j, r), Notability(i, r)) /\ i <= j
    BY <1>2
  <1>11. \A i \in I : ~ Above(Notability(i, r), Notability(i, r)) /\ i <= i
    BY <1>2, <1>4, <1>5
  <1> HIDE DEF R, before
  <1>12. PICK i \in I : \A j \in I : <<j, i>> \notin R
    <2> HIDE DEF I
    <2>1. QED
      BY <1>2, <1>6, <1>7, <1>8, Foremost
  <1>13. \A j \in I : j # i => before(i, j)
    BY <1>8, <1>9, <1>12
  <1>14. \A j \in I : \/ Above(Notability(i, r), Notability(j, r))
                      \/ ~ Above(Notability(j, r), Notability(i, r)) /\ i <= j
    BY <1>10, <1>11, <1>13
  <1>15. Chosen(m, r) \in DOMAIN m
    BY <1>14 DEF Chosen
  <1>16. QED
    BY <1>15

LEMMA PhotographedOK ==
  ASSUME NEW n \in Nat, NEW row, RowOK(row, n), NEW item, item.sitelinks \in Nat
  PROVE  LET p == Photographed(row, item) IN
         /\ RowOK(p, n) /\ p.rank = row.rank /\ p.norm = row.norm /\ p.spot = row.spot
         /\ p.hash = row.hash /\ Photographed(p, item) = p
  <1> DEFINE photo == [item |-> item.qid, links |-> item.sitelinks]
             p == Photographed(row, item)
  <1>1. CASE ~ item.found
    BY <1>1 DEF Photographed
  <1>2. CASE item.found
    <2>1. p = [k \in Columns |-> IF k = "qid" THEN item.qid
                                 ELSE IF k = "photo" THEN photo ELSE row[k]]
      BY <1>2 DEF Photographed, RowOK, Columns
    <2>2. Photographed(p, item) = [k \in DOMAIN p |-> IF k = "qid" THEN item.qid
                                 ELSE IF k = "photo" THEN photo ELSE p[k]]
      BY <1>2, <2>1 DEF Photographed, Columns
    <2>3. photo.item = item.qid /\ photo.links = item.sitelinks
      OBVIOUS
    <2> HIDE DEF photo, p
    <2>4. /\ p.qid = item.qid /\ p.photo = photo /\ DOMAIN p = Columns
          /\ p.rank = row.rank /\ p.norm = row.norm /\ p.spot = row.spot /\ p.hash = row.hash
          /\ p.primary = row.primary /\ p.links = row.links /\ p.hours = row.hours
      BY <2>1 DEF Columns
    <2>5. Photographed(p, item) = p
      BY <2>1, <2>2
    <2>6. RowOK(p, n)
      BY <2>3, <2>4 DEF RowOK
    <2>7. QED
      BY <2>4, <2>5, <2>6 DEF p
  <1>3. QED
    BY <1>1, <1>2

\* What an enrichment writes, if it matches items to places in way m.
Enriched(m) ==
  pois' = [r \in DOMAIN pois |->
             IF \E i \in DOMAIN m : m[i] = r
             THEN Photographed(pois[r], cache[Chosen(m, r)]) ELSE pois[r]]

LEMMA EnrichWrites ==
  ASSUME IInv, cache \in Answers, NEW m, DOMAIN m = DOMAIN cache, Enriched(m),
         NEW r \in DOMAIN pois, NEW n, n = Cardinality(DOMAIN pois)
  PROVE  /\ RowOK(pois'[r], n) /\ pois'[r].rank = pois[r].rank
         /\ pois'[r].norm = pois[r].norm /\ pois'[r].spot = pois[r].spot
         /\ pois'[r].hash = pois[r].hash
         /\ (\E i \in DOMAIN m : m[i] = r) =>
              Photographed(pois'[r], cache[Chosen(m, r)]) = pois'[r]
  <1>1. RowOK(pois[r], n) /\ n \in Nat
    BY FS_CardinalityType DEF IInv, PoisInv
  <1>2. CASE \E i \in DOMAIN m : m[i] = r
    <2>1. PICK item : item = cache[Chosen(m, r)]
      OBVIOUS
    <2>2. item.sitelinks \in Nat
      BY <1>2, <2>1, ItemIsChosen, CatalogueAssumption
    <2>3. pois'[r] = Photographed(pois[r], item)
      BY <1>2, <2>1 DEF Enriched
    <2>4. QED
      BY <1>1, <2>1, <2>2, <2>3, PhotographedOK
  <1>3. CASE ~ \E i \in DOMAIN m : m[i] = r
    <2>1. pois'[r] = pois[r]
      BY <1>3 DEF Enriched
    <2>2. QED
      BY <1>1, <1>3, <2>1
  <1>4. QED
    BY <1>2, <1>3

LEMMA EnrichKeeps == IInv /\ Enrich => IInv'
  <1> SUFFICES ASSUME IInv, Enrich PROVE IInv'
    OBVIOUS
  <1>1. /\ UNCHANGED <<staging, mapping, changes, hours, cache, files, manifest, job, cut>>
        /\ UNCHANGED loaded /\ enriched' = TRUE /\ cache \in Answers
    BY DEF Enrich, world, photos, IInv
  <1>2. PICK m \in Matches : Enriched(m)
    BY DEF Enrich, Enriched
  <1>3. DOMAIN m = DOMAIN cache
    BY DEF Matches
  <1>4. DOMAIN pois' = DOMAIN pois /\ pois' = [r \in DOMAIN pois' |-> pois'[r]]
    BY <1>2 DEF Enriched
  <1>5. ASSUME NEW r \in DOMAIN pois
        PROVE  /\ RowOK(pois'[r], Cardinality(DOMAIN pois)) /\ pois'[r].rank = pois[r].rank
               /\ pois'[r].norm = pois[r].norm /\ pois'[r].spot = pois[r].spot
               /\ pois'[r].hash = pois[r].hash
               /\ (\E i \in DOMAIN m : m[i] = r) =>
                    Photographed(pois'[r], cache[Chosen(m, r)]) = pois'[r]
    BY <1>1, <1>2, <1>3, EnrichWrites
  <1>6. PoisInv'
    <2>1. \A r \in DOMAIN pois' : RowOK(pois'[r], Cardinality(DOMAIN pois'))
      BY <1>4, <1>5
    <2>2. \A r, x \in DOMAIN pois' : pois'[r].rank = pois'[x].rank => r = x
      BY <1>4, <1>5 DEF IInv, PoisInv
    <2>3. QED
      BY <1>4, <2>1, <2>2 DEF IInv, PoisInv
  <1>7. HoursInv' /\ PhotosInv'
    BY <1>1, <1>4, TablesStay DEF IInv, HoursInv
  <1>8. LoadedInv'
    <2>1. UNCHANGED Final
      BY <1>1, FinalStays
    <2>2. \A i \in Final : Unchanged(staging[i]) => Unchanged(staging[i])'
      BY <1>1, <1>4, <1>5 DEF Unchanged
    <2>3. QED
      BY <1>1, <2>1, <2>2 DEF LoadedInv, IInv
  <1>9. SettledInv'
    <2>1. ASSUME NEW item PROVE BestMatches(item)' = BestMatches(item)
      <3>1. \A r \in DOMAIN pois :
              /\ Sim(item, pois'[r].norm) = Sim(item, pois[r].norm)
              /\ Distance(item, pois'[r]) = Distance(item, pois[r])
        BY <1>5 DEF Distance
      <3>2. Fits(item)' = Fits(item)
        BY <1>4, <3>1 DEF Fits
      <3>3. Fits(item) \subseteq DOMAIN pois
        BY DEF Fits
      <3>4. QED
        BY <3>1, <3>2, <3>3 DEF BestMatches
    <2>2. Matches' = Matches
      BY <1>1, <2>1 DEF Matches
    <2>3. ASSUME NEW r \in DOMAIN pois PROVE Chosen(m, r)' = Chosen(m, r)
      <3>1. \A i : Notability(i, r)' = Notability(i, r)
        BY <1>1, <1>5 DEF Notability
      <3>2. QED
        BY <3>1 DEF Chosen
    <2>4. PhotosOf(m)'
      BY <1>1, <1>4, <1>5, <2>3 DEF PhotosOf
    <2>5. QED
      BY <1>2, <2>2, <2>4 DEF SettledInv
  <1>10. QED
    BY <1>1, <1>6, <1>7, <1>8, <1>9 DEF IInv

-----------------------------------------------------------------------------
(* The theorems.                                                           *)

LEMMA StepKeeps == IInv /\ [Next]_vars => IInv'
  <1> SUFFICES ASSUME IInv, [Next]_vars PROVE IInv'
    OBVIOUS
  <1>1. CASE UNCHANGED vars
    <2>1. UNCHANGED <<staging, mapping, changes, pois, hours, cache, files, manifest, job, cut>>
          /\ UNCHANGED <<loaded, enriched>>
      BY <1>1 DEF vars, world, tables, photos
    <2>2. PhotosInv'
      BY <2>1, TablesStay DEF IInv
    <2>3. QED
      BY <2>1, <2>2, PhotosKeep
  <1>2. CASE Next
    BY <1>2, ChangeKeeps, LoadKeeps, ParseKeeps, FetchKeeps, EnrichKeeps, BeginKeeps,
       SkipKeeps, DownloadKeeps, EndKeeps DEF Next
  <1>3. QED
    BY <1>1, <1>2

LEMMA Invariance == Spec => []IInv
  BY InitHolds, StepKeeps, PTL DEF Spec

LEMMA InvFollows == IInv => Inv
  <1> SUFFICES ASSUME IInv PROVE Inv
    OBVIOUS
  <1>1. \A r \in DOMAIN pois : PoiRow(pois[r])
    BY DEF IInv, PoisInv, RowOK, PoiRow
  <1>2. TypeOK
    BY <1>1 DEF IInv, PoisInv, HoursInv, PhotosInv, TypeOK
  <1>3. QED
    BY <1>2 DEF IInv, PhotosInv, Inv

\* For any extracts, mappings and answers and in any order of runs, a place has
\* one row and a rank of its own, its main category is among its links, its hours
\* are rows on some day, its photo is of the item it is linked with, and the photos
\* on disk are those categories.json credits.
THEOREM CatalogueIsSound == Spec => []Inv
  BY Invariance, InvFollows, PTL

LEMMA LoadsOnce ==
  ASSUME IInv, Load
  PROVE  /\ loaded => pois' = pois
         /\ \A r \in DOMAIN pois : pois'[r].photo = pois[r].photo
  <1>1. ASSUME loaded PROVE pois' = pois
    <2>1. Written = {}
      BY <1>1 DEF IInv, LoadedInv, Written
    <2>2. QED
      BY <2>1, LoadWrites
  <1>2. ASSUME NEW r \in DOMAIN pois PROVE pois'[r].photo = pois[r].photo
    BY LoadedRow, LoadWrites
  <1>3. QED
    BY <1>1, <1>2

\* load_pois on unchanged input writes no row, whatever enrichments and parsed
\* hours came in between, and never takes a photo from a place.
THEOREM SecondLoadIsIdle == Spec => LoadWritesOnce
  <1>1. IInv /\ [Next]_vars =>
          [Load => /\ loaded => pois' = pois
                   /\ \A r \in DOMAIN pois : pois'[r].photo = pois[r].photo]_vars
    BY LoadsOnce
  <1>2. QED
    BY <1>1, Invariance, PTL DEF Spec, LoadWritesOnce

LEMMA HoursAreParsed ==
  ASSUME IInv, ParseHours, NEW r \in DOMAIN pois, pois[r].hours \notin {NoTag, Always}
  PROVE  SaysTheSame(pois[r].hours, hours'[r])
  <1>1. RowOK(pois[r], Cardinality(DOMAIN pois))
    BY DEF IInv, PoisInv
  <1>2. pois[r].hours \in Seq(TagRule)
    BY <1>1 DEF RowOK
  <1>3. hours'[r] = Stored(pois[r].hours, pois[r].primary)
    BY DEF ParseHours
  <1>4. QED
    BY <1>2, <1>3, TagAgrees

\* For tags of any number of rules, spans and times the rows parse_hours stores
\* leave out nothing the tag says, but for times past 24:00, on cleared days and
\* where rows clash, and add nothing to it but what overruled rules say.
THEOREM ParsedAsMeant == Spec => HoursSayTheTag
  <1>1. IInv /\ [Next]_vars =>
          [ParseHours =>
             \A r \in DOMAIN pois :
               pois[r].hours \notin {NoTag, Always} =>
                 SaysTheSame(pois[r].hours, hours'[r])]_vars
    BY HoursAreParsed
  <1>2. QED
    BY <1>1, Invariance, PTL DEF Spec, HoursSayTheTag

LEMMA ScarceAreServed ==
  ASSUME IInv, BeginPhotos
  PROVE  \A c \in Category :
           /\ job'.chosen[c] \subseteq Of(c)
           /\ \A k \in Category : c # k => job'.chosen[c] \cap job'.chosen[k] = {}
           /\ job'.chosen[c] = {} => \A r \in Of(c) : \E k \in Category :
                r \in job'.chosen[k] /\ Cardinality(Of(k)) <= Cardinality(Of(c))
  <1>1. PoisInv /\ job'.chosen = Choice
    BY DEF IInv, BeginPhotos
  <1>2. ASSUME NEW c \in Category
        PROVE  /\ Choice[c] \subseteq Of(c)
               /\ \A k \in Category : c # k => Choice[c] \cap Choice[k] = {}
               /\ Choice[c] = {} => \A r \in Of(c) : \E k \in Category :
                    r \in Choice[k] /\ Cardinality(Of(k)) <= Cardinality(Of(c))
    <2>1. \A k \in Category : c # k => ChoosesBefore(k, c) \/ ChoosesBefore(c, k)
      BY <1>1, ChoosingIsOrdered
    <2>2. \A k \in Category : c # k => Choice[c] \cap Choice[k] = {}
      BY <1>1, <2>1, ChosenPlaces
    <2>3. \A k \in Category : ChoosesBefore(k, c) => Cardinality(Of(k)) <= Cardinality(Of(c))
      BY <1>1, CandidatesAreFinite DEF ChoosesBefore
    <2>4. QED
      BY <1>1, <2>2, <2>3, ChosenPlaces
  <1>3. QED
    BY <1>1, <1>2

\* Whatever photos the places have, no place stands for two categories, and a
\* category is left without one only when each of its places was taken by one
\* that had no more to choose from.
THEOREM ScarceChooseFirst == Spec => ScarceFirst
  <1>1. IInv /\ [Next]_vars =>
          [BeginPhotos =>
             LET picked == job'.chosen IN
             \A c \in Category :
               /\ picked[c] \subseteq Of(c)
               /\ \A k \in Category : c # k => picked[c] \cap picked[k] = {}
               /\ picked[c] = {} => \A r \in Of(c) : \E k \in Category :
                    r \in picked[k] /\ Cardinality(Of(k)) <= Cardinality(Of(c))]_vars
    BY ScarceAreServed
  <1>2. QED
    BY <1>1, Invariance, PTL DEF Spec, ScarceFirst

\* A finite set of at most one member has no two.
LEMMA AtMostOne ==
  ASSUME NEW S, IsFiniteSet(S), Cardinality(S) <= 1, NEW a \in S, NEW b \in S
  PROVE  a = b
  <1> SUFFICES ASSUME a # b PROVE FALSE
    OBVIOUS
  <1>1. PICK T : T = {a}
    OBVIOUS
  <1>2. IsFiniteSet(T) /\ Cardinality(T) = 1 /\ b \notin T
    BY <1>1, FS_Singleton
  <1>3. Cardinality(T \cup {b}) = Cardinality(T) + 1
    BY <1>2, FS_AddElement
  <1>4. T \cup {b} \in SUBSET S
    BY <1>1
  <1>5. Cardinality(T \cup {b}) <= Cardinality(S)
    BY <1>4, FS_Subset
  <1>6. Cardinality(S) \in Nat
    BY FS_CardinalityType
  <1>7. QED
    BY <1>2, <1>3, <1>5, <1>6

LEMMA OneWayToMatch ==
  ASSUME PoisInv, Decided, NEW m \in Matches, NEW k \in Matches
  PROVE  m = k
  <1>1. /\ m = [i \in DOMAIN cache |-> m[i]] /\ k = [i \in DOMAIN cache |-> k[i]]
    BY DEF Matches
  <1>2. ASSUME NEW i \in DOMAIN cache PROVE m[i] = k[i]
    <2>1. IF BestMatches(cache[i]) = {} THEN m[i] = None /\ k[i] = None
          ELSE m[i] \in BestMatches(cache[i]) /\ k[i] \in BestMatches(cache[i])
      BY DEF Matches
    <2>2. BestMatches(cache[i]) \in SUBSET DOMAIN pois
      BY DEF BestMatches, Fits
    <2>3. IsFiniteSet(BestMatches(cache[i]))
      BY <2>2, FS_Subset DEF PoisInv
    <2>4. Cardinality(BestMatches(cache[i])) <= 1
      BY DEF Decided
    <2>5. QED
      BY <2>1, <2>3, <2>4, AtMostOne
  <1>3. QED
    BY <1>1, <1>2

LEMMA EnrichedOnce ==
  ASSUME IInv, Enrich, enriched, Decided
  PROVE  pois' = pois
  <1>1. PICK m \in Matches : Enriched(m)
    BY DEF Enrich, Enriched
  <1>2. PICK k \in Matches : PhotosOf(k)
    BY DEF IInv, SettledInv
  <1>3. m = k
    BY OneWayToMatch DEF IInv
  <1>4. \A r \in DOMAIN pois : pois'[r] = pois[r]
    BY <1>1, <1>2, <1>3 DEF Enriched, PhotosOf
  <1>5. pois' = [r \in DOMAIN pois |-> pois'[r]]
    BY <1>1 DEF Enriched
  <1>6. QED
    BY <1>4, <1>5 DEF IInv, PoisInv

\* Running wikidata_enrich again writes what is there already, if no item fits
\* two places equally well.
THEOREM SecondEnrichmentIsIdle == Spec => EnrichWritesOnce
  <1>1. IInv /\ [Next]_vars => [pois' # pois /\ Enrich => ~ Decided \/ ~ enriched]_vars
    BY EnrichedOnce
  <1>2. QED
    BY <1>1, Invariance, PTL DEF Spec, EnrichWritesOnce
=============================================================================
