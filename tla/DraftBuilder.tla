---------------------------- MODULE DraftBuilder ----------------------------
(***************************************************************************)
(* POST /plan/draft: a draft, words somebody said, becomes a TripSpec or   *)
(* questions (planning/draft_builder.py); the questions are answered and   *)
(* the draft is sent again, until there is a TripSpec.                     *)
(*                                                                         *)
(* Days are counted from today, times are minutes of the day. A draft has  *)
(* the fields that can lead to a question; the others are copied.          *)
(***************************************************************************)
EXTENDS Resolver

CONSTANTS
  Gazetteer,  \* of each name: the rows the resolver's queries find
  Drafts,     \* the drafts a conversation may begin with
  Minutes,    \* the times of day things happen at
  Garbled,    \* a time that is not of the form h:m
  Unclear,    \* a date phrase nobody understands
  None

Name == DOMAIN Gazetteer
LATEST_END == 1320
DEFAULT_TRIP == 300
MAX_CLARIFICATIONS == 2

\* Date phrases: a number of days from now, or a weekday, with or without
\* "next"; days from now may also have been said as a date.
Day == [kind : {"ahead"}, n : Int] \cup [kind : {"weekday", "next"}, n : 0..6]
Time == 0..5999 \cup {None, Garbled}
Draft == [origin : Name \cup {None}, destination : Name \cup {None},
          interests : {"none", "some", "many"},  \* many: more than eight
          date : Day \cup {None, Unclear}, start : Time, end : Time,
          wordy : BOOLEAN,    \* free-text interests beyond the schema's limits
          strolls : BOOLEAN]  \* walks only, and less than a kilometre

ASSUME DraftAssumption ==
  /\ \A n \in Name : Gazetteer[n] \in Seq(Row)
  /\ Drafts \subseteq Draft
  /\ Minutes \subseteq 0..1439
  /\ None \notin Name \cup Nat \cup {Garbled} /\ Garbled \notin Nat

VARIABLES
  draft,    \* the draft as it stands
  weekday,  \* today's
  now,      \* datetime.now(IST), as minutes
  stage,    \* "sent", "asked", "planned" or "failed"
  asked,    \* the fields the questions are about, most important first
  spec      \* the TripSpec: [date, start, end], or None

vars == <<draft, weekday, now, stage, asked, spec>>

Init ==
  /\ draft \in Drafts
  /\ weekday \in 0..6 /\ now \in Minutes
  /\ stage = "sent" /\ asked = <<>> /\ spec = None

-----------------------------------------------------------------------------

\* resolve_date_phrase.
ResolveDate(p, today) ==
  IF p = Unclear THEN None
  ELSE IF p.kind = "ahead" THEN p.n
  ELSE LET ahead == (p.n - today) % 7
       IN IF ahead = 0 /\ p.kind = "next" THEN 7 ELSE ahead

Resolved == [n \in Name |-> Resolve(Gazetteer[n])]
Answer(n) == Resolved[n]

\* _resolve: a field about a place is asked about, or resolved.
PlaceQuestion(field, n, required) ==
  IF n = None THEN IF required THEN <<field>> ELSE <<>>
  ELSE IF NeedsClarification(Answer(n)) THEN <<field>> ELSE <<>>

DateQuestion(d) ==
  IF d.date = None THEN <<>>
  ELSE LET day == ResolveDate(d.date, weekday)
       IN IF day = None THEN <<"date">> ELSE IF day < 0 THEN <<"date">> ELSE <<>>

Questions(d) ==
  PlaceQuestion("origin", d.origin, TRUE)
  \o PlaceQuestion("destination", d.destination, FALSE)
  \o (IF d.interests = "none" THEN <<"interests">> ELSE <<>>)
  \o DateQuestion(d)

\* Today if two hours remain before 22:00, else tomorrow.
TripDate(d) ==
  IF d.date # None THEN ResolveDate(d.date, weekday)
  ELSE IF LATEST_END - now >= 120 THEN 0 ELSE 1

Start(d) ==
  IF d.start # None THEN d.start
  ELSE IF TripDate(d) = 0 THEN Min({(now \div 30 + 1) * 30, LATEST_END - 60})
  ELSE 600

\* Mutant: the trip has its five hours, however late it is.
MutEndUnbounded(d) == IF d.end # None THEN d.end ELSE Start(d) + DEFAULT_TRIP

End(d) == IF d.end # None THEN d.end ELSE Min({Start(d) + DEFAULT_TRIP, LATEST_END})

\* Mutant: a phrase that is no date is compared with today.
MutCrashesOnUnclear(d) ==
  (d.start = Garbled /\ d.end = None) \/ d.date = Unclear

\* The start has no time in it to add five hours to: the request dies of it.
Crashes(d) == d.start = Garbled /\ d.end = None

\* The first error TripSpec has, by its field: those of single fields come in
\* their order, before those of the whole.
InRegion(n) == n = None \/ Answer(n).match[1].inside
IsTime(t) == t # Garbled /\ t \in 0..1439
SpecQuestion(d) ==
  CASE ~ InRegion(d.origin) -> <<"origin">>
    [] ~ InRegion(d.destination) -> <<"destination">>
    [] ~ IsTime(Start(d)) -> <<"start">>
    [] ~ IsTime(End(d)) -> <<"end">>
    [] d.interests = "many" -> <<"interests">>
    [] d.wordy -> <<"free_text">>
    [] End(d) - Start(d) \notin 60..960 -> <<"window">>
    [] d.strolls -> <<"walk">>
    [] OTHER -> <<>>

Ask(q) ==
  /\ stage' = "asked"
  /\ asked' = SubSeq(q, 1, Min({Len(q), MAX_CLARIFICATIONS}))
  /\ spec' = None

\* build_tripspec and plan_from_draft.
Build ==
  /\ stage = "sent"
  /\ IF Crashes(draft)
     THEN stage' = "failed" /\ UNCHANGED <<asked, spec>>
     ELSE IF Questions(draft) # <<>> THEN Ask(Questions(draft))
     ELSE IF SpecQuestion(draft) # <<>> THEN Ask(SpecQuestion(draft))
     ELSE /\ stage' = "planned" /\ asked' = <<>>
          /\ spec' = [date |-> TripDate(draft), start |-> Start(draft), end |-> End(draft)]
  /\ UNCHANGED <<draft, weekday, now>>

-----------------------------------------------------------------------------

\* What a cooperative person answers. A place asked about because several have
\* its name is picked among the options, and a draft has only its name; any
\* other place is named so that it is found nearby.
Near(n) == ~ NeedsClarification(Answer(n)) /\ InRegion(n)
Options(n) ==
  LET r == Answer(n) IN {r.match[1].name} \cup {x.name : x \in r.alternatives}
PlaceAnswers(n) ==
  IF n # None /\ Answer(n).confidence = "low" THEN Options(n) \cap Name
  ELSE {m \in Name : Near(m)}

Answers(field, d) ==
  CASE field = "origin" -> {[d EXCEPT !.origin = n] : n \in PlaceAnswers(d.origin)}
    [] field = "destination" -> {[d EXCEPT !.destination = n] : n \in PlaceAnswers(d.destination)}
    [] field = "interests" -> {[d EXCEPT !.interests = "some"]}
    [] field = "date" -> {[d EXCEPT !.date = [kind |-> "ahead", n |-> 1]]}
    [] field = "free_text" -> {[d EXCEPT !.wordy = FALSE]}
    [] field = "walk" -> {[d EXCEPT !.strolls = FALSE]}
    [] OTHER -> {[d EXCEPT !.start = 600, !.end = 900]}

\* The questions shown are answered, and the draft is sent again.
Resubmit ==
  /\ stage = "asked"
  /\ draft' \in IF Len(asked) = 1 THEN Answers(asked[1], draft)
                ELSE UNION {Answers(asked[2], d) : d \in Answers(asked[1], draft)}
  /\ stage' = "sent"
  /\ UNCHANGED <<weekday, now, asked, spec>>

\* It takes the person a while.
Wait ==
  /\ stage = "asked"
  /\ \E m \in Minutes : now < m /\ now' = m
  /\ UNCHANGED <<draft, weekday, stage, asked, spec>>

Next == Build \/ Resubmit \/ Wait

Spec == Init /\ [][Next]_vars

\* The server answers, and so does the person.
FairSpec == Spec /\ WF_vars(Build) /\ WF_vars(Resubmit)

-----------------------------------------------------------------------------

TypeOK ==
  /\ draft \in Draft /\ weekday \in 0..6 /\ now \in Minutes
  /\ stage \in {"sent", "asked", "planned", "failed"}
  /\ Len(asked) <= MAX_CLARIFICATIONS
  /\ spec = None \/ spec \in [date : Nat, start : 0..1439, end : 0..1439]

\* What the builder fills in by itself can be used, whatever the time of day. No
\* question about times comes of it; a start chosen for today is ahead of now,
\* but for somebody who says "today" after nine in the evening; and an hour and
\* a half remain at least when the builder chose the day too.
NoQuestionOfItsOwn ==
  stage = "asked" /\ (\E i \in DOMAIN asked : asked[i] \in {"start", "end", "window"})
    => draft.start # None \/ draft.end # None

ChosenStartIsAhead ==
  stage = "sent" /\ draft.start = None /\ Questions(draft) = <<>> /\ TripDate(draft) = 0
    => /\ now < LATEST_END - 60 => Start(draft) > now
       /\ draft.date = None => LATEST_END - Start(draft) >= 90

DefaultsFit == NoQuestionOfItsOwn /\ ChosenStartIsAhead

\* "saturday" is the first one from today on, "next saturday" the first one
\* after today, on whatever day it is said.
DateIsComing ==
  draft.date \notin {None, Unclear} /\ draft.date.kind # "ahead" =>
    LET first == IF draft.date.kind = "next" THEN 1 ELSE 0
    IN ResolveDate(draft.date, weekday)
         = Min({n \in first..7 : (weekday + n) % 7 = draft.date.n})

\* At most two questions at a time (draft_builder.py:9), and defaults and
\* dates that can be used.
Inv == TypeOK /\ DefaultsFit /\ DateIsComing

\* Two entries of the gazetteer at one spot are no reason to ask which is meant
\* (resolver.py:20). A place is asked about when it is missing, unknown or out of
\* the region, or when one elsewhere scores nearly as much as the best.
NearRival(rows) ==
  \E i, j \in DOMAIN rows :
    /\ \A k \in DOMAIN rows : Score(rows[k]) <= Score(rows[i])
    /\ Score(rows[i]) - Score(rows[j]) < MEDIUM_CONFIDENCE_GAP
    /\ Gap(rows[i].lat, rows[j].lat) > 2 \/ Gap(rows[i].lon, rows[j].lon) > 2

PlacesAskedForReason ==
  stage = "asked" =>
    \A f \in {asked[i] : i \in DOMAIN asked} \cap {"origin", "destination"} :
      LET n == draft[f]
      IN n = None \/ Gazetteer[n] = <<>> \/ NearRival(Gazetteer[n]) \/ ~ InRegion(n)

Ambiguous(n) == n # None /\ Answer(n).confidence = "low"

\* A conversation whose questions are answered comes to a plan; the exceptions
\* are a name that several places share, and a start that cannot be read.
EndsUnlessAmbiguous ==
  stage = "sent" ~> \/ stage = "planned"
                    \/ Ambiguous(draft.origin) \/ Ambiguous(draft.destination)
                    \/ draft.start = Garbled
=============================================================================
