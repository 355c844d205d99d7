------------------------------- MODULE Hours --------------------------------
(***************************************************************************)
(* What becomes of an opening_hours tag (data/pipelines/parse_hours.py):   *)
(* the rows of poi_opening_hours parsed from it, and what the planner and  *)
(* the page of a place read from those rows.                               *)
(*                                                                         *)
(* A tag is a sequence of rules. A rule says what its beginning is read as *)
(* - spans of weekdays, none for every day - and what is read after it:    *)
(* "off", or times, which may be none. Its kind is what the parser does    *)
(* not look at: "read" is a rule that says just that, "partly" one that    *)
(* says more about weekdays (sunset, a second rule after a comma), "other" *)
(* one about holidays or months. Weekdays are 0..6, Monday first, times    *)
(* are minutes of the day.                                                 *)
(***************************************************************************)
EXTENDS Integers, Sequences, FiniteSets

CONSTANTS
  Always,      \* the tag 24/7, in any of its spellings
  NoTag,       \* a place without opening_hours
  Moments,     \* the minutes of a day at which rows and tags are compared
  CategoryDefault  \* [category -> [open, close]]

Weekday == 0..6
MIDNIGHT == 1440
TagRule == [spans : SUBSET (Weekday \X Weekday), off : BOOLEAN,
            times : Seq([from : Nat, to : Nat]), kind : {"read", "partly", "other"}]
Row == [day : Weekday, open : 0..MIDNIGHT, close : 0..MIDNIGHT,
        always : BOOLEAN, known : BOOLEAN]  \* known: confidence 1.0, not 0.3

ASSUME HoursAssumption ==
  /\ Moments \subseteq 0..MIDNIGHT - 1
  /\ \A c \in DOMAIN CategoryDefault :
       CategoryDefault[c].open \in 0..MIDNIGHT /\ CategoryDefault[c].close \in 0..MIDNIGHT

\* One part of expand_days, "fr-mo" or "su" (which is the span su-su).
Span(i, j) == IF i <= j THEN i..j ELSE i..6 \cup 0..j
Days(rule) ==
  IF rule.spans = {} THEN Weekday ELSE UNION {Span(s[1], s[2]) : s \in rule.spans}

OpenFor(d, o, c) == [day |-> d, open |-> o, close |-> c, always |-> FALSE, known |-> TRUE]

\* Mutant: the hours after midnight are given to the day they began on.
MutRowsOfSameDay(days, t) ==
  IF t.from > MIDNIGHT \/ t.to > MIDNIGHT \/ t.to = t.from THEN {}
  ELSE IF t.to > t.from THEN {OpenFor(d, t.from, t.to) : d \in days}
  ELSE UNION {{OpenFor(d, t.from, MIDNIGHT), OpenFor(d, 0, t.to)} : d \in days}

\* One "h:m-h:m" on some days; hours past midnight are split at it.
RowsOf(days, t) ==
  IF t.from > MIDNIGHT \/ t.to > MIDNIGHT \/ t.to = t.from THEN {}
  ELSE IF t.to > t.from THEN {OpenFor(d, t.from, t.to) : d \in days}
  ELSE UNION {{OpenFor(d, t.from, MIDNIGHT), OpenFor((d + 1) % 7, 0, t.to)} : d \in days}

Closed(tag) == UNION {Days(tag[i]) : i \in {k \in DOMAIN tag : tag[k].off}}

\* The times in the order they are read: the rule, and which of its times.
Slots(tag) ==
  UNION {{<<i, k>> : k \in DOMAIN tag[i].times} : i \in {j \in DOMAIN tag : ~ tag[j].off}}
Earlier(u, s) == u[1] < s[1] \/ (u[1] = s[1] /\ u[2] < s[2])

\* parse: the rows of the tag, with the time each was read from; days that are
\* off are taken out at the end, whatever put the row on them.
Parse(tag) ==
  LET closed == Closed(tag)
      rows(s) == RowsOf(Days(tag[s[1]]), tag[s[1]].times[s[2]])
  IN UNION {{<<s, r>> : r \in {x \in rows(s) : x.day \notin closed}} : s \in Slots(tag)}

\* INSERT ... ON CONFLICT DO NOTHING: of the rows with one key, which is
\* (place, weekday, open_min), the first one read stays.
SameKey(r, x) == r.day = x.day /\ r.open = x.open
Inserted(tag) ==
  LET read == Parse(tag)
  IN {p[2] : p \in {q \in read : \A x \in read : SameKey(x[2], q[2]) => ~ Earlier(x[1], q[1])}}

Inferred(cat) ==
  {[day |-> d, open |-> CategoryDefault[cat].open, close |-> CategoryDefault[cat].close,
    always |-> FALSE, known |-> FALSE] : d \in Weekday}

\* The rows of one place. No rows, for whatever reason, are the category's.
Stored(tag, cat) ==
  IF tag = NoTag THEN Inferred(cat)
  ELSE IF tag = Always
  THEN {[day |-> d, open |-> 0, close |-> MIDNIGHT, always |-> TRUE, known |-> TRUE] :
          d \in Weekday}
  ELSE LET parsed == Inserted(tag)
       IN IF parsed = {} THEN Inferred(cat) ELSE parsed

-----------------------------------------------------------------------------
(* The readers.                                                            *)

DayRows(rows, d) == {r \in rows : r.day = d}

\* The search and the validator take one row a day, the longest (known ones
\* first); several may be as long. No row is all day, and not held against
\* anybody (orchestrator.py:471).
Unknown == [open |-> 0, close |-> MIDNIGHT, hard |-> FALSE]
Windows(rows, d) ==
  LET best == {r \in DayRows(rows, d) : \A x \in DayRows(rows, d) :
                  /\ x.known => r.known
                  /\ x.known = r.known => x.close - x.open <= r.close - r.open}
  IN IF DayRows(rows, d) = {} THEN {Unknown}
     ELSE {[open |-> IF r.always THEN 0 ELSE r.open,
            close |-> IF r.always THEN MIDNIGHT ELSE r.close, hard |-> r.known] : r \in best}

\* The search offers a place for a visit that begins at minute m.
Offered(w, m) == ~ w.hard \/ (w.open <= m /\ m < w.close)

\* PlacePage: a day without rows is shown as closed.
ShownClosed(rows, d) == DayRows(rows, d) = {}

-----------------------------------------------------------------------------
(* The tag as OpenStreetMap means it, minute by minute, in a week without  *)
(* holidays: the last rule about a weekday replaces those before it, times *)
(* may go past 24:00, and belong to the day they begin on.                 *)

Meant(rule, d) ==
  rule.spans = {} \/ \E s \in rule.spans : (d - s[1]) % 7 <= (s[2] - s[1]) % 7

\* Rule i is the last one about a day.
Decides(tag, i, d) ==
  /\ tag[i].kind # "other" /\ Meant(tag[i], d)
  /\ \A j \in DOMAIN tag : j > i => tag[j].kind = "other" \/ ~ Meant(tag[j], d)

Within(t, m) == t.from <= m /\ m < (IF t.to <= t.from THEN MIDNIGHT + t.to ELSE t.to)

TimesAmong(tag, is) == UNION {{tag[i].times[k] : k \in DOMAIN tag[i].times} : i \in is}

\* The times that begin on a day.
TimesOf(tag, d) == TimesAmong(tag, {i \in DOMAIN tag : Decides(tag, i, d) /\ ~ tag[i].off})

Before(d) == (d + 6) % 7

(* What the parser makes of it otherwise.                                  *)

\* A day some "off" was read for, which has no rows at all: not after another
\* rule has replaced that "off", and not in the night that ends on it.
Cleared(tag, d) == \E i \in DOMAIN tag : tag[i].off /\ Meant(tag[i], d)

\* All times read for a day, and with the ends of nights all rows of a day. Two
\* rows that begin together have one key, and the first is kept.
TimesRead(tag, d) == TimesAmong(tag, {i \in DOMAIN tag : ~ tag[i].off /\ Meant(tag[i], d)})
Begins(tag, d) ==
  TimesRead(tag, d)
  \cup {[from |-> 0, to |-> t.to] : t \in {x \in TimesRead(tag, Before(d)) : x.to < x.from}}
Clash(tag, d) == \E t, u \in Begins(tag, d) : t # u /\ t.from = u.from

\* A time that goes past 24:00, or round the clock, gives no rows.
Readable(t) == t.from <= MIDNIGHT /\ t.to <= MIDNIGHT /\ t.from # t.to

\* A rule that is not the last one about the day, or is about holidays or
\* months, has its rows all the same.
Overruled(tag, d, m) ==
  \E i \in DOMAIN tag :
    /\ ~ tag[i].off /\ Meant(tag[i], d) /\ ~ Decides(tag, i, d)
    /\ \E k \in DOMAIN tag[i].times : Within(tag[i].times[k], m)

Unread(tag, d) == \E i \in DOMAIN tag : tag[i].kind = "partly" /\ Meant(tag[i], d)

HasRow(rows, d, m) == \E r \in DayRows(rows, d) : r.known /\ r.open <= m /\ m < r.close

\* When the tag says the place is open there is a known row, but on a cleared
\* day, for a time that is not readable, and when rows clash. When there is a
\* known row the tag says the place is open, or an overruled rule does. Rules
\* read in part are left out, where they may matter.
AgreesOn(tag, rows, d) ==
  LET begun == TimesOf(tag, d)
      night == TimesOf(tag, Before(d))
      openBy(m) == {t \in begun : Within(t, m)} \cup {t \in night : Within(t, m + MIDNIGHT)}
  IN \/ Unread(tag, d) \/ Unread(tag, Before(d))
     \/ \A m \in Moments :
          IF HasRow(rows, d, m)
          THEN openBy(m) # {} \/ Overruled(tag, d, m) \/ Overruled(tag, Before(d), m + MIDNIGHT)
          ELSE (\E t \in openBy(m) : Readable(t)) => Cleared(tag, d) \/ Clash(tag, d)

SaysTheSame(tag, rows) == \A d \in Weekday : AgreesOn(tag, rows, d)
=============================================================================
