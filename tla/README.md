# NavigIQ in TLA+

NavigIQ plans day trips: a request (TripSpec) goes through a deterministic
pipeline - semantic check, search, feasibility pre-check, ranking, arcs, CP-SAT,
an independent validator - and a plan that survives all of it is committed.
This directory models that pipeline and the services it calls, the accounts and
saved plans behind it, the browser in front of it, the dialogue that turns words
into a request, and the data pipelines that fill its tables; checks them with TLC
on small instances; and proves their main properties with TLAPS, for every value
of the constants.

## The system

| Component | State it keeps | Operations | What is hard | What makes it correct |
|---|---|---|---|---|
| Planning pipeline (`services/planning/orchestrator.py`, `api/v1/plan.py`) | one request's locals; the list of used places of a trip | `plan`, `plan_trip`, `_persist` | awaits between reading hours and using them, failures in a later day, widened search, pins | no place twice in a trip, what is committed honours the request, commits and answers agree |
| Feasibility (`validators/semantic.py`, `feasibility/engine.py`) | none | `validate_semantics`, `check`, `_ladder`, `apply_relaxation` | relaxing until nothing is left; bounds that claim to be optimistic | a relaxed request is still a request; the bound never refuses what could succeed |
| Optimiser (`optimizer/model.py`) | none | `optimize` | weights that compete, off-by-one constraints, the time limit | its constraints imply what the validator checks; MUSTs first |
| Validator (`validator/itinerary.py`) | none | `validate` | independent of the solver, different scope of the same limits | accepts only visits inside current hours, nothing avoided, every MUST met |
| Search and ranking (`services/poi`) | none | `search_pois`, `rank` | hours at the start minute only; a place in two categories | each place once, under one category |
| Routing service (`services/routing/service.py`) | a circuit breaker per mode | `_call`, `get_route`, `get_matrix` | retries, late successes, windows that begin before the failure | a dead router costs bounded time, and an open breaker stays open |
| Multi-modal router (`services/routing/multimodal.py`, `services/costs`) | none | `build_matrix`, `build_arc`, `_select` | the same leg computed by three pieces of code | the arc is the best way there is, and looks the same each time |
| Weather (`services/weather/client.py`) | a process-wide cache | `get_windows` | concurrent misses, stale entries | a failure degrades, never blocks |
| Itinerary store (`api/v1/itineraries.py`, `models/itinerary.py`) | plans, versions, stops, snapshots, requests | list, get, delete, commit | two-statement reads, deletes between them | a plan is whole or absent, and its owner's only |
| Accounts (`api/v1/auth.py`, `api/deps.py`) | users | sign-up, log-in, patch, delete | check-then-insert, deletes beside commits | one account per email, nothing left of a deleted one |
| Browser session (`frontend/src/store`, `frontend/src/api/client.ts`) | token, profile, twenty saved plans | restore, sign in and out, save, clear | stale answers, 401 against 403, full storage | the profile shown belongs to the token |
| Search box (`frontend/src/components/PlaceSearch.tsx`) | query, options, a sequence number | type, answer, pick | answers out of order | what is listed is for the text in the box |
| Draft builder and resolver (`planning/draft_builder.py`, `places/resolver.py`) | none | `build_tripspec`, `resolve_place` | late starts, names that several places share, clarification loops | its own defaults fit; the dialogue ends |
| Hours pipeline (`data/pipelines/parse_hours.py`) | `poi_opening_hours` | parse, truncate and insert | hours past midnight, days off, conflicting rules | the rows say what the tag says |
| Data pipelines (`load_pois`, `wikidata_enrich`, `category_photos`) | `pois` and its links, photos on disk and their manifest | load, match and assign photos, pick and download | run again, in any order, on changed input, or cut short | a second run changes nothing; what is promised is there |

The pipeline calls search, router, weather, solver and validator in turn and
awaits each of them; requests share only the database. The data
pipelines write the tables the search and the validator read. The browser calls the
API and keeps a token and copies of plans.

## Modules

| Module | Models | Used by |
|---|---|---|
| `Places` | the vocabulary: catalogue, hours, arcs, TripSpec and the schema's validators | all |
| `Feasibility` | `validate_semantics`, `FeasibilityEngine.check`, the automatic half of `_ladder`, `apply_relaxation` | `TripPlanner` |
| `Optimizer` | each hard constraint of the CP-SAT model as an operator over timed tours, `Solutions` as the tours that satisfy all, and the objective | `TripPlanner` |
| `Validator` | the validator's rules over the facts the orchestrator re-fetches | `TripPlanner` |
| `TripPlanner` | the state machine of one request: one action per stage and outcome, plus `Abort` (a crash or an uncaught error at any await) and `ReloadHours` (the hours pipeline) | `TripProperties` |
| `Trip` | the abstract specification: days are planned one by one, each avoiding everything before it, until the request is closed | refinement in `TripProperties` |
| `TripProperties` | the properties and the refinement mapping | the MC modules |
| `TripPlanner_proofs` | the theorems | |
| `ItineraryStore` | the tables and every request that writes or deletes in them, and the read of one plan: one action per SQL statement, with row locks, deadlocks and crashes | `StoreProperties` |
| `PlanBook` | the abstract specification: accounts own plans; a plan is added whole, removed alone or with its account, never changed | refinement in `StoreProperties` |
| `StoreProperties` | the store's properties and its refinement mapping | its MC module |
| `ItineraryStore_proofs` | its theorems | |
| `Profile` | `PATCH /auth/users/me` from several tabs: load, compare, write the differing columns; its properties | its MC module |
| `Routing` | one plan's calls to OSRM: retries, timeouts and breakers, through the three stages that make them | |
| `MultiModal`, `MultiModal_proofs` | the arcs: traffic, fares, candidates, selection, and the second look at chosen legs | |
| `WeatherCache` | the forecast cache under overlapping requests, and the window of each day | |
| `Services_proofs` | the theorems about the breaker and the weather client | |
| `Resolver` | what `resolve_place` makes of the rows its queries return | `DraftBuilder` |
| `DraftBuilder`, `DraftBuilder_proofs` | `build_tripspec` and the dialogue around it | |
| `Session`, `Session_proofs` | one tab: token, profile and plans, and the part of the server they meet | |
| `PlaceSearch` | the search box: effect, timer, numbered searches | |
| `Forms_proofs` | the theorems about the profile and the search box, the two forms that are filled in here and there at once | |
| `Hours` | a tag to rows, rows to what planner and page read | `Catalogue` |
| `Catalogue` | the four data pipelines and the world that changes between their runs | its MC module |
| `Catalogue_proofs` | the theorems about the pipelines and the parser | |
| `MC*` | instances for TLC | |

`TripPlanner`'s state is the code's: `req` and `used` are `plan_trip`'s spec and
list, `days_out` its answer so far, `saved` the rows `_persist` commits, `stage`
the place in `plan`, and `spec`, `applied`, `pool`, `prob`, `tour` the pipeline's
locals (the day's spec, `relaxations_applied`, `pois_by_cat`, the optimiser's
input, its stops). Each `await` ends an action. `Search` is one action per
category, because each is one query. The optimiser has the hours each search returned;
`ReadHours` reads the table again for the tour into `hours_now`, and `Validate` and
`RefuseInvalid` use that after the legs have been fetched again, so that a reload may fall
on either side of it. `Abort` empties `days_out`: the report is a local of `plan_trip`,
and an error it does not catch loses it. A refusal is an action of
its own, ending in `Answer`, which is the end of the loop body of `plan_trip`.

Abstractions of the pipeline. A place is a model value with the fields the stages tell apart. The
ranker's scores and the router's arcs are constants; the ranker may keep any
`CandidateLimit` places, the solver return any solution (with `SolverProves`, any
optimal one), the router fail, and a refetched travel time drift. Hours do not
depend on the weekday within a trip. The rounding of durations to minutes and of
walks to metres is kept. The ordering and limit of search results, the region
rule, warnings, and fields nothing in planning reads (diet, `max_stops` beyond
its schema check, language) are left out.

`ItineraryStore`'s state is the database and, per request, the handler's locals.
`users`, `tripspecs`, `itineraries` and `versions` are the tables; `contents` is
the stops and snapshots, which one flush inserts and one cascade deletes.
`serial` gives out ids as sequences do, without ever taking one back. A
request's `pc` names the statement it executes next. Sessions run READ COMMITTED,
so a statement sees what is committed and what it wrote itself:

- what a request has *inserted* and not committed is in its locals (`plan`), and
  becomes rows in `CommitPlan`; `_persist` commits once per day, so a request
  loops from `planned` to `commit` up to `MaxDays` times;
- what it has *deleted* and not committed is in `gone[r]`: still visible to the
  others, and locked. A DELETE that meets it waits (`WaitsFor`), and goes on when
  the holder ends: without the row after a commit, with it after a rollback;
- the foreign key check of an insert share-locks the user's row until the
  request commits (`SharesUser`), and a deletion of the account waits for it;
- `CascadeRow` is one row of the `ON DELETE CASCADE`, requests before plans, as
  the tables were created; the versions and stops go with their plan in the same
  statement and nothing else locks them;
- `DeadlockAbort` is the server's detector, `End` closes the session (what is
  uncommitted is rolled back), and `Crash` is the death of the process: all
  open requests are lost at once and their transactions rolled back.

`BeginAs` enters the handlers behind `get_current_active_user` (a plan's read, its
deletion, the account's deletion), `BeginPlan` those behind `get_optional_user`,
which takes a bad token for nobody. A request asks for any id given out so far, or
the next one. A password matches or does not. `Profile` keeps one user's columns;
the values of a body are its parameters, and `Written` is the set of columns the
ORM's UPDATE names, those whose new value differs from the one *loaded*.

`Routing` has one action per thing that may happen to a call: it passes the breaker
(`Call`, which is where `is_open` starts a breaker again), meets an open one
(`FailFast`), is answered, fails and is tried again, or is given up. `left` is the
sequence of calls the stage still makes; `Choose` and `Verdict` are the solver and
the validator, any outcome. `streak` is a history of the calls that were given up.
`TripPlanner` has of all this one outcome, an arc grid or none.

`MultiModal` counts milliseconds, metres and thousandths of a rupee, and keeps
every rounding that decides something: the traffic factor's three digits and the
whole rupees. Its actions are the two tables, the grid, one refetch per leg, and a
restart of OSRM on another map.

`WeatherCache` reads the clock in `Ask`, before the fetch; `Fetched` writes the entry
with that stamp. A series starts at midnight of the first day of its range, so an entry
fetched for one trip differs from that of another; it may end early (`Lengths`) and have
no value for some of its hours (`Gaps`). `WindowForDay` leaves those hours out and lets
the others decide, as the client does.

`DraftBuilder` builds, asks, and gets its answers from a cooperative person
(`Answers`, external): whoever is offered a choice picks one of the names offered.
`Resolver` has the scores in thousandths; trigram similarities are parameters. It sorts
no rows: `Foremost` is the row that precedes all others in the order of the sort, and
the alternatives are the three a question shows.

`Session` has one flow per kind of request. The server handles a request at one
moment (`Handle*`) and the browser goes on at a later one; a request may fail at
either. The server's part is what the browser can tell apart: who has an account,
whose a token is, and which plans an account has. `ItineraryStore` is the detailed
model of the same server; the two are not composed, because the browser sees only
answers.

`PlaceSearch` numbers searches as `latest` does. Every change of text or value runs
`Effect`, as React runs the effect and its cleanup.

`Catalogue` has one action for each pipeline that writes in one transaction, and four
for `category_photos`, which writes files one by one. Positions lie on a line;
similarities of names are parameters. What the code keeps while it loops is said of the
whole: `Final` are the records no earlier one replaces, `Choice` is what a category
takes of what those before it left, and `NextDownload` is the first of what is left to
do. `Hours` has rules in place of the text of a tag, with everything the parser does to
days and times; `Parse` keeps with each row the time it was read from, because of two
rows with one key the first stays (`Inserted`). What a tag means is said apart from
the parser, after OpenStreetMap's `opening_hours`: the last rule about a weekday replaces
the earlier ones (`Decides`), times may pass 24:00, and a rule of holidays or months says
nothing of an ordinary week. Where the parser reads something else, the case has a name:
`Cleared`, `Clash`, `Readable`, `Overruled`, `Unread`. Of a place's id only its rank is
kept (`NextRank`): ids have gaps, because an INSERT that meets a conflict takes one too,
and nothing but their order is ever read. `loaded` and `enriched` are histories: whether
the next load or enrichment repeats the last one.

## Runs

Twelve runs, ten of properties that hold and two of claims that do not.

| Run | States | Instance |
|---|---|---|
| `mc_trip` | 24 thousand | three places - one near, one in two categories, one reachable only by the widened search and affordable only to some -, two hours tables, one reload, trips of one and two days; requests that avoid, pin, are too poor, ask for what does not exist, or need a meal |
| `mc_store` | 335 thousand | three requests of any kind at any time, on an empty service or one with an account and two plans |
| `mc_profile` | 105 thousand | three PATCH requests that rename, move or clear the home, some with other fields or refused, beside a deletion |
| `mc_routing` | 383 thousand | one plan, two modes, tours with up to three legs; OSRM up, failing or hung, changing at any time |
| `mc_multimodal` | 8 thousand | three points, two maps, six sets of modes, three walking limits, noon and night |
| `mc_weather` | 568 thousand | two overlapping requests, two cache entries, a clock that passes the time to live; series that end early or lack hours |
| `mc_search` | 10 thousand | four searches over texts that find one, several or no places |
| `mc_session` | 3.5 million | two accounts, two tokens, two plans, two requests in flight |
| `mc_draft` | 24 thousand | six names of a gazetteer, two hundred first drafts, six times of day, every weekday |
| `mc_catalogue` | 78 thousand | three extracts, two mappings, two answers of Wikidata, thirteen tags, two changes of the world |

What they check:

- `mc_trip`. `NoPoiRepeated`, `SavedHonoursRequest`, `TimetableCanBeKept` of what is
  committed; `SavedIsReported`: commits and answers agree, unless the trip is cut short.
  `RelaxationStaysWellFormed`: the ladder cannot crash the request.
  `ValidatorAgreesWithSolver`: the two differ only when the hours changed between search
  and reading. `StaleOnlyAfterReading`: a visit outside its known hours is committed only
  when they changed after it, while legs were fetched again or the plan was written. `ImplementsTrip`: the pipeline refines `Trip`, fairness
  included. `EventuallyAnswered`.
- `mc_store`. `PlanIsWhole`, `OwnersExist`, `OneAccountPerEmail` of every state,
  `DeletedIsGone` of what was answered, `ReadIsWholeOrGone` of a read that a deletion
  overtakes, `EventuallyAnswered`, and `ImplementsPlanBook`.
- `mc_profile`. `OnlySentChanges`, and `HomeChangesWhole` for a request that has seen
  the home it replaces.
- `mc_routing`. `CallsAreSpaced`: whatever the windows, any threshold + 1 failed calls
  in a row span one. `OpenMeansConsecutive`, `OpenStaysOpen`, `EveryPlanEnds`.
- `mc_multimodal`. `Inv`: an arc is the best way its tables allow. `OneArcTwoWays`,
  `RefetchAgrees`: grid, single arc and refetched leg are the same leg, unless OSRM
  changed its map.
- `mc_weather`. `NoOldForecast`. `WeatherOfItsDay`: heavy rain is expected exactly when it
  falls in an hour of that day's window that the forecast has a value for.
- `mc_search`. `LateOnlyWhenGivenUp` states exactly when the list is not about the
  text in the box: the guard is a counter that only a new search advances. `SearchEnds`.
- `mc_session`. `OnlyLateAnswersMislead` names the only two ways - in three of the flows - in which the page
  shows somebody whose token is not kept. `LostOnlyIfRejected`: a plan is kept nowhere
  only when a bad token was ignored. `Inv`: the plans kept, until storage refuses one.
- `mc_draft`. `Inv`: defaults fit at every minute, and dates are ahead.
  `PlacesAskedForReason`, `EndsUnlessAmbiguous`: a name shared by two distinct places
  is asked about for ever, because an answer carries only the name.
- `mc_catalogue`. `LoadWritesOnce`, `EnrichWritesOnce`: a second run changes nothing,
  unless two places fit an item equally well. `HoursSayTheTag` compares rows and tag in
  both directions, each with its own exceptions. `ScarceFirst`, and `Inv`: the photos on
  disk are the credited ones.

Deadlock is not checked where a system may stop: requests are made once and end, a
plan or a trip ends, a clock or the number of changes is bounded.

| Claim | Shows |
|---|---|
| `claim_pin` | two pins, room for two candidates: re-inserting the pin the ranker cut drops the other (ADR-018) |
| `claim_closed` | a day off and an unknown day are both stored as no row: the planner takes people to a closed place, whose page says "Closed" that day |

Other disagreements between code and words were met while modelling and have no run
of their own. A trip refuses an unusable pin as `PLANNING_FAILED`, not
`PIN_UNAVAILABLE` (ADR-018). Two optional stops can outbid a MUST
(`optimizer/model.py:153`), and three stops of a category in a row are possible
(`optimizer/model.py:312`): the solver's constraint reaches one short. The pre-check
charges a fare for legs that can be walked, and reads the hours of the start minute,
so its lower bounds are none (`feasibility/engine.py:122`). `get_itinerary` reads in
two statements, so a plan deleted between them comes back with its header and no
stops (`api/v1/itineraries.py:4`); `ReadIsWholeOrGone` says that this is all that can
happen. Two tabs that loaded one profile can store a home nobody sent
(`api/v1/auth.py:104`); `HomeChangesWhole` excludes it by its condition. The router
offers walks of 2000 m, the validator rejects those above 1500 m. Bikes are a mode of
a TripSpec for which no arc is ever built. The breakers live as long as one request,
so a second request waits for the dead server again. "A failed day does not abort the
trip; each day reports its own result" (`orchestrator.py:622`) holds of a
`PlanningError` only: a database error in a later day loses the report of the days
committed before it (`Abort`), which `SavedIsReported` exempts. A forecast may lack values
for some hours; `window_for_day` leaves them out, so "clear" may be said of a window in
which it rains in an hour nothing is known of (`weather/client.py:73`).

Bounds of the pipeline. Two days suffice for everything that passes from one day to the next
(`used`, `saved`, the order of commits). Two stops are the shortest tour with a
leg between stops; three are used where a property needs three. One reload gives
each stage an older and a newer table. No symmetry is used: the places differ.

Bounds of the store. Locks, deadlocks and stale reads are between two requests; a
third can change the rows between their steps, or observe them after. One address is
enough for two sign-ups to compete, and a second account would only add rows
nobody contends for: every condition in the code compares with the request's own
user. One day is a commit among the other requests' statements; a second commit of one
request, after its account was deleted or a crash, is left to the theorems, which
hold for any `MaxDays`. For the profile, two stale requests make the hazard and a
third may repair or worsen it.

Bounds of the other modules. `mc_routing` has a threshold of two, calls of two units
at worst and a window of three, so that a window ends inside a plan and in the middle
of a call; while nobody waits the clock stops at `MaxIdle`. A second plan has its own router and shares nothing. Two requests are what a
cache entry can be raced by; two entries make it overflow. Four searches let a late
answer meet a shortened text, a picked place and a newer search. In `mc_session`, two
flights are a late answer and what overtakes it, two tokens an old and a new
one, and a shelf of one plan (`MaxPlans`) overflows at the second. The gazetteer has one name for
each outcome of the resolver, the tags one for each form the parser treats apart or does not know, and
the minutes are the ends of what the draft builder treats apart. Two changes of the
world let each pipeline run before, between and after them.

Fairness. The pipeline's `FairSpec` adds weak fairness of the handler's steps taken together:
each await is bounded (HTTP timeouts, the solver's time limit, database
statements that return or raise). Nothing is assumed of `ReloadHours` or `Abort`.
The store's `FairSpec` is weak fairness of `Step(r)` for each request: a statement
that nothing blocks returns, the server grants a lock once it is free, and its
deadlock detector aborts a request whose wait is in a cycle. Requests need not be
made, and the process need not die.
`Routing` is fair to a plan that has begun and to the clock while somebody waits: httpx's
timeout fires. OSRM owes no answer and need not come back. `DraftBuilder` is fair to
the server and to the person, who answers what is asked. `PlaceSearch` is fair to the
timer and to answers, since `fetch` ends, with an answer or an error. `Catalogue`,
`WeatherCache`, `Session` and `MultiModal` state no liveness.

## Proofs

### The pipeline

`TripPlanner_proofs` assumes only the named assumptions of the constants
(`PlacesAssumption`, `OptimizerAssumption`, `TripPlannerAssumption`), which TLC
evaluates on every run.

- `TypeCorrect`: `TypeOK` is inductive by itself. Per action; the lemmas give the
  types of what the actions compute (a day's spec, relaxed specs, solutions).
- `NeverRelaxed`: `CheckReadsMustsOnly` and `RelaxKeepsMusts` give
  `RelaxingNeverHelps`: the relaxed spec violates exactly what the original did,
  so `PassPrecheck` happens only when nothing was relaxed.
- `NoRepeat`: `NoPoiRepeated` is not inductive, because nothing in it says that
  the day being planned knows the days before. `DayInv` adds it: between days
  `used` covers everything committed, during a day the spec's `avoid` is `used`,
  and after validation the tour is disjoint from it (`AcceptedAvoids`: rule 7 of
  the validator, not the search, is what makes this true). At `report` the tour
  is committed and not yet in `used`, which has its own conjunct.
- `HistoryKept`: every step appends or leaves alone.
- `RefinesTrip`: `Persist` is `PlanDay`, `Finish` and `Abort` are `Close`, all
  else stutters; uses `DayInv` for the guard of `PlanDay`.

- `HoursAsRead`: from the validator on, each visit is inside the hours that were read
  (`AcceptedInside`); the table differs from them only if it was reloaded since.
- `AnswerMatchesDatabase` rests on `ReportInv`: commits and reports are as many, but
  between `Persist` and the answer, where the last commit is of the day in hand; the
  commits before have their reports. After an abort nothing is reported, which the
  invariant says too.
- `CommitsHonourRequest` and `TimetablesCanBeKept` rest on `PlanInv`: what is planned
  is the day's own request, unrelaxed (`RelaxingNeverHelps`); from `validate` on the
  tour is a solution for it, and what was accepted honours it. It takes both: to the
  solver MUSTs are a soft aim and what is avoided is unknown, so these come from the
  validator; the budget and the room for the legs come from the solver.
- `ValidatorAgrees` goes rule by rule from the solver's constraints. Its budget is the
  solver's sum over the sets of places and legs of a circuit, against the validator's
  over the stops (`FactsCost`, `LegsWithinCircuit`).
- `LadderStaysWellFormed`: relaxing adds no interest and no category and keeps every
  MUST (`RelaxedInterests`), and a spec without a MUST is not relaxed.
- `NoDayLoops` is the part of `EventuallyAnswered` that needs no fairness: `StepsLeft`
  counts the steps ahead - nineteen for a day at most, since a request names eight
  categories and each is one search -, and every step of the handler lowers it. What is left
  to TLC is that the handler is never without a step, and that it takes it.

Sums are folds, recursive functions over the subsets of a set. The library's induction
theorems take an operator as a parameter, which none of the provers can
instantiate; well-founded induction in its first-order form can be used
(`SubsetInduction`, for a family of subsets): the fold exists, and adding an element
adds its term.

Only model-checked of the pipeline: `EventuallyAnswered` and the fairness part of
`ImplementsTrip`. Liveness and ENABLED are out of the prover's reach.

### The store

`ItineraryStore_proofs` assumes `StoreAssumption` (there is an address, and
`MaxDays` is positive), for any set of requests. Everything rests on two inductive
invariants:

- `TypeInv` is `TypeOK` and `Numbered`: what a request has flushed has a positive
  id, and a request that is saving has a day left. `TypeOK` alone does not survive a
  commit.
- `StoreInv`, in eight parts. `Derived`: the other tables are exactly what the
  itineraries say they are (so `PlanIsWhole` is a consequence, and a step need only
  be followed through one table). `Keys`: ids are unique and below the next one.
  `Unused` and `Apart`: ids in flight belong to no stored plan and to one request,
  which is why a commit never overwrites. `Owned`: a plan is saved for an account
  that is there, and a deleted account's row is shared by no saver; this is the
  foreign key's lock, and what makes `OwnersExist` survive a late commit. `Held`:
  what a request has in `gone` is a stored row of its own user, and in no other
  request's `gone`; this is the row lock. `Deleting`: what a deletion has locked
  at each statement, up to all it will remove at its commit. `Deleted`: what was
  answered for is absent, and its ids are neither in flight nor ahead.

`TypeStep` and `StoreStep` prove one part at a time over the actions that disturb it.
From them:

- `AlwaysWhole`, `AlwaysOwned`, `OneAccount`, `StaysDeleted` are consequences of
  the invariant.
- `TableSteps` says that the tables change in four actions only; `GoneOnlyByOwner`
  follows from what `CommitDelete` and `CommitAccount` hold, `RecordsKept` from
  `Unused`.
- `RefinesPlanBook`: `InsertUser` is `Open`, `CommitPlan` is `Add`, `CommitDelete` is
  `Remove` (or a stutter, if another request removed the plan first),
  `CommitAccount` is `Close` (or a stutter), all else stutters. `PlanBook` states no
  fairness, so this is all of `ImplementsPlanBook`.
- `ReadWholeOrGone` adds `ReadInv`: a reader between its two statements holds the
  version of its plan, if the plan is still there, and the plan's id is one already
  given out (`Taken`), which no later commit can reuse (`IdsGrow`). So a late reader
  finds all stops or finds its plan gone, and what is gone stays gone.

Only model-checked of the store: `EventuallyAnswered` (liveness).

### The profile

`Forms_proofs` assumes `ProfileAssumption` (what homes and bodies are functions
of). `TypeCorrect` needs `AssignedType`, the type of the object after the
assignments. `OnlySent` follows from `WrittenWasSent`, whatever was loaded.
`HomeWhole` needs the loaded home to be the stored one: then the columns that are
not written already have the value sent, which is exactly what two tabs with a stale profile break.

### Routing

`Services_proofs` assumes `RoutingAssumption` (a call makes at least one attempt, a
breaker has a positive threshold). `IInv` speaks of one breaker at a time: its failures are
the last calls of `streak`, it is open exactly when they are `Threshold`, and between them
and the call before lies a window - which is why more than `CallsAreSpaced` itself is
needed: what a window separates is not two neighbours but the counted failures from
the rest. `CallInv` adds that a call under way began at a time that keeps this, with its
breaker closed; its first conjunct is what `OpenStaysOpen` needs. `PassOK`, `SuccessOK`
and `FailureOK` are `is_open`, `record_success` and `record_failure` as functions; the steps
only find the breaker they change. From it: `TypeCorrect`, `OpenedByStreak`, `Spacing`,
`StaysOpen`. Only model-checked: `EveryPlanEnds`.

### The browser

`Forms_proofs`: `LateOnlyWhenGivenUp` is not inductive; `NewestIsForText` adds that
the newest search, while it waits or is on its way, is for the text in the box unless it
was given up. `SearchTypeCorrect`, `LateOnly`. Only model-checked: `SearchEnds`.

`Session_proofs`: the invariant types the requests in flight and says that the answer to
a profile request is the owner of the token it was sent with (tokens never change
owner). `OnlyLate` then goes through the steps that make `Matches` false.

`SInv` adds the plans. `ServerInv`: the accounts tokens were issued to are there or
were deleted, and only plans that were made are on the server. `ShelfInv`: the lists
hold plans that were made, none twice, at most `MaxPlans`. `PlanFlow`: a plan on its way
here is in no list yet (why saving it cannot store it twice), and is on the account if
the page counts on that, or its token is known to be no good; `OnAccountStays` follows
this through log-ins, expiries and deletions. From it: `SessionKept` and `LostOnlyThen`.
`Without` is a recursive function; `FilterExists` and `WithoutType` say by induction
over the prefixes (`CountUp`) what it leaves: a shorter list without the plan, in which
nothing is new and nothing twice.

### The weather

`Services_proofs` assumes `WeatherAssumption` (a trip has a first and a last day).
`WindowIsOfItsDay` is the arithmetic of the window: an offset of whole days into the
series, of whose hours those with a value count (`Known`). `WeatherIInv` carries, for each entry, the range and the time it was made for,
and for each request what it was answered from. `WeatherTypeCorrect`, `NeverOld`, `RightDay`,
and `Bounded`, which no run checks: the cache's limit is in the invariant.

### The ways to travel

`MultiModal_proofs` assumes `MultiModalAssumption` (tables of routes, areas of pairs,
requests of the schema, `None` apart from them). `Chosen` is the heart: of any viable
ways, finite or not, one comes before all that are tolerably fast, because costs,
durations and ranks are numbers and have a least one (`Least`, three times in
`FirstExists`); it is within the tolerance of the fastest. `NothingBeatsIt` draws the
conclusion. `GridInv` says that a table is there only if the request needs it, and that
the arcs are those of the tables that are there; without the first, a grid and a single
arc need not see the same ways. From it: `BestWay`; `OneArc`, because the ways of
`build_arc` are then the ways of `build_matrix`; and `SecondLookAgrees`, because the mode
of a chosen way says which table it came from (`RefetchIsArc`).

### Drafts and names

`DraftBuilder_proofs` assumes `DraftAssumption` (rows of the gazetteer, drafts of the
schema, minutes of a day, `None` and `Garbled` apart from names and numbers). The
invariant is `AskedForReason`: every question on the table has a reason in the draft it
is about. It speaks of the draft alone, not of the clock, which is why `Wait` keeps it
although the start and the end the builder would choose move on. `FirstQuestions` and `LastQuestion` establish it for the
two rounds of questions, `AskType` says that cutting them to two keeps it.
`ChosenStart` and `ChosenWindow` are the arithmetic of the half hours, `FirstDay` that
of the week. For names, `ForemostIsFirst` says that of any rows one precedes the others
(the least distance from the highest score possible, then the least index), and
`UnclearForReason` that a gap below the threshold means a rival at another spot. From
them: `DefaultsAreSound`, `AskedWithReason`. Only model-checked: `EndsUnlessAmbiguous`.

### The data pipelines

`Catalogue_proofs` assumes `HoursAssumption` (moments and default hours are minutes of a
day) and `CatalogueAssumption` (extracts and answers are sequences, a `source_ref` is in
an extract once, a mapping names categories, similarities are percentages). It has two
parts, which meet in `HoursSayTheTag`.

The parser. `DayAgrees` compares a day's rows with the tag as it is meant, at each minute,
in both directions. A row was read from some time of its own day or of the night before
(`ReadFromTime`), and that time is meant or belongs to an overruled rule (`ReadIsMeant`).
A time that is meant was read (`MeantIsRead`), and is kept because its row was inserted
(`TimeIsRead`) or an earlier row has its key (`OneIsKept`: of the rows with one key, the
one whose rule and time come first in the tag; there is one because the places in a tag
are numbers). The second is possible only when two times begin together, which the
property excepts. Tags are sequences of any length.

The tables. `IInv` is `Inv` and three facts no state shows by itself:

- `PoisInv` types the rows and says that their ranks are distinct numbers up to the number
  of places; a load gives the new ones the next numbers in the order of the file
  (`NextRanks`, which counts the new records up to one of them).
- `LoadedInv`: while `loaded` holds, every record a load would write is stored as
  it is. The hash of the record is what an enrichment leaves alone. A load then
  has nothing to write (`SecondLoadIsIdle`).
- `SettledInv`: while `enriched` holds, there is *some* way to match the items to the places
  that gives each place the photo it has. It says no more, because places that fit
  equally well may be matched in either way. `EnrichKeeps` shows that an enrichment
  changes nothing the next one decides by: names and positions stay, so the matches do
  (`PhotographedOK`, `EnrichWrites`). If no two places fit an item equally well there is
  one way only (`OneWayToMatch`), and a second run writes what is there
  (`SecondEnrichmentIsIdle`).

`Choice` refers to itself. `ChoiceExists` says that it can be made: of the sets of
categories that have chosen, closed under who chooses earlier, take a largest; were a
category left, the first of those (`Foremost`, since choosing is a total order,
`ChoosingIsOrdered`) could choose too. `ChosenPlaces` is what one choice guarantees, and
`ScarceChooseFirst` follows. `ItemIsChosen` and `OneIsMostNotable` find the chosen of a
finite set in the same way.

### Not proved

Every safety property of a passing run is stated by a theorem. What TLC alone checks is
liveness, which is out of the prover's reach: `EventuallyAnswered` of the pipeline and of
the store, the fairness part of `ImplementsTrip`, `EveryPlanEnds`, `SearchEnds`,
`EndsUnlessAmbiguous`.

That a dialogue asks about a shared name for ever, and the two claims that do not hold,
are counterexamples: they need an instance, not a proof.

## Plan

What could follow:

1. `Session` over `ItineraryStore`: the browser's server as a refinement of the store.
2. The optimiser's objective: a bound between the MUST weight and the optional scores
   under which no optional stop outbids a MUST.

## Not modelled

- `osm_extract`, `place_extract` and `load_places`: filters of one file into another,
  or into a table nobody writes besides; no state to speak of.
- The SPARQL and GeoSearch queries, and the search of Commons for categories without a
  photo: what they answer is `Answers`, any of a set.
- Cartographic detail (geometry, photos' attribution), presentation pages of the
  frontend, start-up, settings and logging.
- CP-SAT's search: the solver is the set of its solutions. The ranker's greedy order:
  any choice of its size.
- Of the store, the list of plans and the log-in, which only read, and the sealing of
  tokens and passwords. A second tab of the browser: it shares localStorage, and no code
  listens to its changes.
- The Redis cache of routes: `plan` builds the routing service without one.

The `note` of a component in `PROJECT.json` says what of it is left out.
