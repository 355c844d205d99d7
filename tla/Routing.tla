------------------------------- MODULE Routing -------------------------------
(***************************************************************************)
(* One plan's calls to OSRM: retries, timeouts and the circuit breaker of  *)
(* services/routing/service.py, driven by the stages of the orchestrator   *)
(* that make them - the tables that become the arc grid, one route per     *)
(* chosen leg for the validator, one per leg for the map.                  *)
(*                                                                         *)
(* plan() builds a MultiModalRouter, and with it a RoutingService and its  *)
(* breakers, for every request; it awaits its calls one after another.     *)
(* Redis is not passed to it, so no route is ever cached.                  *)
(*                                                                         *)
(* Time is counted in units of a timeout's granularity. An attempt fails   *)
(* at the latest Timeout after it began; connecting and reading, which     *)
(* httpx limits one by one, are one wait here.                             *)
(***************************************************************************)
EXTENDS Integers, Sequences, FiniteSets, Functions

CONSTANTS
  Plan,          \* requests being planned
  Mode,          \* OSRM profiles: "driving", "walking"
  Tables,        \* the sequences of tables a request's transport needs
  Tours,         \* the legs a solver may choose: sequences of modes
  Health,        \* states OSRM moves between: "up", "failing", "hung"
  Timeout,       \* TIMEOUT_S
  Attempts,      \* MAX_RETRIES + 1
  Threshold,     \* BREAKER_THRESHOLD
  ResetAfter,    \* BREAKER_RESET_S
  MaxIdle,       \* bound: the clock stops there while nobody waits
  None

ASSUME RoutingAssumption ==
  /\ Tables \subseteq Seq(Mode) /\ Tours \subseteq Seq(Mode)
  /\ Health \subseteq {"up", "failing", "hung"}
  /\ Timeout \in Nat \ {0} /\ Attempts \in Nat \ {0}
  /\ Threshold \in Nat \ {0} /\ ResetAfter \in Nat /\ MaxIdle \in Nat
  /\ None \notin Nat

VARIABLES
  now,        \* time.monotonic()
  osrm,       \* of each profile: how its server behaves
  failures,   \* of each plan and mode: _Breaker.failures
  openedAt,   \* of each plan and mode: _Breaker.opened_at
  stage,      \* of each plan: where plan() is
  left,       \* of each plan: the calls this stage has yet to make
  legs,       \* of each plan: its tables, then the legs the solver chose
  attempt,    \* of each plan: the attempt in flight, 0 when there is none
  began,      \* of each plan: _call's now, read when the call began
  since,      \* of each plan: when the attempt in flight began
  streak      \* history, of each plan and mode: when each call began that
              \* used up its attempts, since OSRM last answered this plan

breaker == <<failures, openedAt, streak>>
wire == <<attempt, began, since>>
vars == <<now, osrm, breaker, stage, left, legs, wire>>

Stages == {"tables", "refetch", "draw"}
Over == {"refused", "blocked", "planned"}

Init ==
  /\ now = 0
  /\ osrm \in [Mode -> Health]
  /\ failures = [p \in Plan |-> [m \in Mode |-> 0]]
  /\ openedAt = [p \in Plan |-> [m \in Mode |-> None]]
  /\ streak = [p \in Plan |-> [m \in Mode |-> <<>>]]
  /\ stage = [p \in Plan |-> "idle"]
  /\ left = [p \in Plan |-> <<>>]
  /\ legs = [p \in Plan |-> <<>>]
  /\ attempt = [p \in Plan |-> 0]
  /\ began = [p \in Plan |-> 0]
  /\ since = [p \in Plan |-> 0]

-----------------------------------------------------------------------------

Waiting(p) == attempt[p] > 0

\* Mutant: the window is measured the wrong way round.
MutIsOpenSwapped(p, m) ==
  openedAt[p][m] # None /\ openedAt[p][m] - now >= ResetAfter

\* _Breaker.is_open, but for the reset of a breaker whose window is over.
IsOpen(p, m) == openedAt[p][m] # None /\ now - openedAt[p][m] < ResetAfter

\* The next call this stage makes.
Due(p) == stage[p] \in Stages /\ left[p] # <<>> /\ ~ Waiting(p)

\* _call passes the breaker; a breaker whose window is over starts again.
Call(p) ==
  LET m == Head(left[p]) IN
  /\ Due(p) /\ ~ IsOpen(p, m)
  /\ failures' = [failures EXCEPT ![p][m] = IF openedAt[p][m] = None THEN @ ELSE 0]
  /\ openedAt' = [openedAt EXCEPT ![p][m] = None]
  /\ attempt' = [attempt EXCEPT ![p] = 1]
  /\ began' = [began EXCEPT ![p] = now]
  /\ since' = [since EXCEPT ![p] = now]
  /\ UNCHANGED <<now, osrm, stage, left, legs, streak>>

\* A call that returned a route or a table, or a stage that does without it.
Proceed(p) ==
  /\ left' = [left EXCEPT ![p] = Tail(@)]
  /\ UNCHANGED <<stage, legs>>

\* RoutingUnavailable: fatal to a table, a leg's check is skipped, a leg is
\* drawn as a straight line.
Unavailable(p) ==
  IF stage[p] = "tables"
  THEN /\ stage' = [stage EXCEPT ![p] = "refused"]
       /\ left' = [left EXCEPT ![p] = <<>>]
       /\ UNCHANGED legs
  ELSE Proceed(p)

\* The breaker of the mode is open: no attempt is made.
FailFast(p) ==
  /\ Due(p) /\ IsOpen(p, Head(left[p]))
  /\ Unavailable(p)
  /\ UNCHANGED <<now, osrm, breaker, wire>>

\* Mutant: NoRoute and its like are counted as failures.
MutRecordSuccessCounts(p, m) ==
  /\ failures' = [failures EXCEPT ![p][m] = @ + 1]
  /\ openedAt' = [openedAt EXCEPT ![p][m] =
                    IF failures'[p][m] >= Threshold THEN began[p] ELSE @]
  /\ streak' = [streak EXCEPT ![p][m] = <<>>]

\* _Breaker.record_success.
RecordSuccess(p, m) ==
  /\ failures' = [failures EXCEPT ![p][m] = 0]
  /\ openedAt' = [openedAt EXCEPT ![p][m] = None]
  /\ streak' = [streak EXCEPT ![p][m] = <<>>]

EndCall(p) ==
  /\ attempt' = [attempt EXCEPT ![p] = 0]
  /\ UNCHANGED <<now, osrm, began, since>>

\* OSRM answers, with what was asked for or with a code other than Ok: both
\* are a success to the breaker, the second is none to the caller.
Answer(p) ==
  LET m == Head(left[p]) IN
  /\ Waiting(p) /\ osrm[m] = "up"
  /\ RecordSuccess(p, m)
  /\ Proceed(p) \/ Unavailable(p)
  /\ EndCall(p)

AttemptFails(p) ==
  \/ osrm[Head(left[p])] = "failing"
  \/ now - since[p] = Timeout

Retry(p) ==
  /\ Waiting(p) /\ AttemptFails(p)
  /\ attempt[p] < Attempts
  /\ attempt' = [attempt EXCEPT ![p] = @ + 1]
  /\ since' = [since EXCEPT ![p] = now]
  /\ UNCHANGED <<now, osrm, breaker, stage, left, legs, began>>

\* Mutant: the breaker opens one failure late.
MutRecordFailureLate(p, m, at) ==
  /\ failures' = [failures EXCEPT ![p][m] = @ + 1]
  /\ openedAt' = [openedAt EXCEPT ![p][m] =
                    IF failures'[p][m] > Threshold THEN at ELSE @]
  /\ streak' = [streak EXCEPT ![p][m] = Append(@, at)]

\* _Breaker.record_failure, given the time the call began.
RecordFailure(p, m, at) ==
  /\ failures' = [failures EXCEPT ![p][m] = @ + 1]
  /\ openedAt' = [openedAt EXCEPT ![p][m] =
                    IF failures'[p][m] >= Threshold THEN at ELSE @]
  /\ streak' = [streak EXCEPT ![p][m] = Append(@, at)]

GiveUp(p) ==
  /\ Waiting(p) /\ AttemptFails(p)
  /\ attempt[p] = Attempts
  /\ RecordFailure(p, Head(left[p]), began[p])
  /\ Unavailable(p)
  /\ EndCall(p)

-----------------------------------------------------------------------------

\* plan() reaches its arcs with a router of its own.
Start(p) ==
  /\ stage[p] = "idle"
  /\ stage' = [stage EXCEPT ![p] = "tables"]
  /\ \E t \in Tables : /\ left' = [left EXCEPT ![p] = t]
                       /\ legs' = [legs EXCEPT ![p] = t]
  /\ UNCHANGED <<now, osrm, breaker, wire>>

StageDone(p, s) == stage[p] = s /\ left[p] = <<>>

\* The solver chose legs, of the modes there is a table of, or found no plan.
Choose(p) ==
  /\ StageDone(p, "tables")
  /\ \/ \E t \in Tours :
          /\ Range(t) \subseteq Range(legs[p])
          /\ legs' = [legs EXCEPT ![p] = t]
          /\ left' = [left EXCEPT ![p] = t]
          /\ stage' = [stage EXCEPT ![p] = "refetch"]
     \/ /\ stage' = [stage EXCEPT ![p] = "blocked"]
        /\ UNCHANGED <<legs, left>>
  /\ UNCHANGED <<now, osrm, breaker, wire>>

\* Mutant: a leg that could not be checked is fetched again.
MutVerdictInsists(p) ==
  /\ StageDone(p, "refetch")
  /\ \/ /\ stage' = [stage EXCEPT ![p] = "draw"]
        /\ left' = [left EXCEPT ![p] = legs[p]]
     \/ /\ \E m \in Mode : IsOpen(p, m)
        /\ left' = [left EXCEPT ![p] = legs[p]]
        /\ UNCHANGED stage
  /\ UNCHANGED <<now, osrm, breaker, legs, wire>>

\* The validator accepts, and the map wants the same legs; or it does not.
Verdict(p) ==
  /\ StageDone(p, "refetch")
  /\ \/ /\ stage' = [stage EXCEPT ![p] = "draw"]
        /\ left' = [left EXCEPT ![p] = legs[p]]
     \/ /\ stage' = [stage EXCEPT ![p] = "blocked"]
        /\ UNCHANGED left
  /\ UNCHANGED <<now, osrm, breaker, legs, wire>>

Finish(p) ==
  /\ StageDone(p, "draw")
  /\ stage' = [stage EXCEPT ![p] = "planned"]
  /\ UNCHANGED <<now, osrm, breaker, left, legs, wire>>

\* Time passes, but for no attempt past its timeout.
Tick ==
  /\ \A p \in Plan : Waiting(p) => now - since[p] < Timeout
  /\ (\A p \in Plan : ~ Waiting(p)) => now < MaxIdle
  /\ now' = now + 1
  /\ UNCHANGED <<osrm, breaker, stage, left, legs, wire>>

\* A server goes down, hangs, or comes back.
Turn(m) ==
  /\ \E h \in Health : h # osrm[m] /\ osrm' = [osrm EXCEPT ![m] = h]
  /\ UNCHANGED <<now, breaker, stage, left, legs, wire>>

Step(p) ==
  \/ Start(p) \/ Choose(p) \/ Verdict(p) \/ Finish(p)
  \/ Call(p) \/ FailFast(p) \/ Answer(p) \/ Retry(p) \/ GiveUp(p)

Next ==
  \/ \E p \in Plan : Step(p)
  \/ Tick
  \/ \E m \in Mode : Turn(m)

Spec == Init /\ [][Next]_vars

\* The event loop runs what is ready, timers fire: a plan that has begun goes
\* on, and time goes on while it waits. OSRM owes no answer.
FairSpec ==
  /\ Spec
  /\ WF_vars(Tick)
  /\ \A p \in Plan : WF_vars(stage[p] # "idle" /\ Step(p))

-----------------------------------------------------------------------------

TypeOK ==
  /\ now \in Nat
  /\ osrm \in [Mode -> Health]
  /\ failures \in [Plan -> [Mode -> 0..Threshold]]
  /\ openedAt \in [Plan -> [Mode -> Nat \cup {None}]]
  /\ streak \in [Plan -> [Mode -> Seq(Nat)]]
  /\ stage \in [Plan -> {"idle"} \cup Stages \cup Over]
  /\ left \in [Plan -> Seq(Mode)] /\ legs \in [Plan -> Seq(Mode)]
  /\ attempt \in [Plan -> 0..Attempts]
  /\ began \in [Plan -> Nat] /\ since \in [Plan -> Nat]

\* However calls, windows and retries fall, of the calls in a row that a dead
\* server cost a plan, any Threshold + 1 span a whole window: the failure is
\* stamped with the time its call began (service.py:239), which takes the time
\* it waited off the window, but not off this.
CallsAreSpaced ==
  \A p \in Plan, m \in Mode :
    \A i \in DOMAIN streak[p][m] :
      i + Threshold \in DOMAIN streak[p][m]
        => streak[p][m][i + Threshold] - streak[p][m][i] >= ResetAfter

\* A breaker is open only after that many consecutive failures
\* (BREAKER_THRESHOLD), with no answer among them: not even a NoRoute.
OpenMeansConsecutive ==
  \A p \in Plan, m \in Mode :
    openedAt[p][m] # None => Len(streak[p][m]) >= Threshold

\* An open breaker stays open until its window is over: no answer of an
\* earlier call comes late and closes it, as calls are awaited one by one.
OpenStaysOpen ==
  [][\A p \in Plan, m \in Mode :
       openedAt[p][m] # None /\ openedAt'[p][m] = None
         => now - openedAt[p][m] >= ResetAfter]_vars

\* Whatever OSRM does, and does in the middle of it, a plan comes to an end.
EveryPlanEnds == \A p \in Plan : stage[p] = "tables" ~> stage[p] \in Over
=============================================================================
