--------------------------- MODULE Services_proofs ---------------------------
(***************************************************************************)
(* Proofs about the two services a plan calls: the circuit breaker of OSRM *)
(* and the weather client.                                                 *)
(***************************************************************************)
EXTENDS Routing, WeatherCache, SequenceTheorems, FiniteSetTheorems, TLAPS

-----------------------------------------------------------------------------
(* The circuit breaker, for any plans, modes, timeouts, thresholds and     *)
(* windows. The invariant looks at one breaker by itself: its failures are *)
(* the last calls of its streak, and a window lies between them and the    *)
(* call before.                                                            *)

\* The calls of a streak, in order, none begun after t.
Ordered(s, t) ==
  /\ s \in Seq(Nat)
  /\ \A i \in 1..Len(s) : s[i] <= t
  /\ \A i, j \in 1..Len(s) : i <= j => s[i] <= s[j]

\* Of Threshold + 1 calls in a row the last began a window after the first.
Spaced(s) ==
  \A i, j \in 1..Len(s) : i + Threshold = j => s[j] - s[i] >= ResetAfter

\* A breaker with f failures, opened at o, at time t.
BreakerOK(f, o, s, t) ==
  /\ f \in 0..Threshold /\ f <= Len(s) /\ Ordered(s, t) /\ Spaced(s)
  /\ o = None => f < Threshold
  /\ o # None => f = Threshold /\ o = s[Len(s)]
  /\ f > 0 /\ f < Len(s) => s[Len(s) - f + 1] - s[Len(s) - f] >= ResetAfter
  /\ f = 0 /\ Len(s) > 0 => t - s[Len(s)] >= ResetAfter

\* A call that passed it at time b is under way.
CallOK(f, o, s, b) ==
  /\ o = None /\ Ordered(s, b)
  /\ f = 0 /\ Len(s) > 0 => b - s[Len(s)] >= ResetAfter

CallInv(p) ==
  Waiting(p) =>
    /\ stage[p] # "idle" /\ left[p] # <<>> /\ began[p] <= now
    /\ CallOK(failures[p][Head(left[p])], openedAt[p][Head(left[p])],
              streak[p][Head(left[p])], began[p])

IInv ==
  /\ TypeOK
  /\ \A p \in Plan, m \in Mode :
       BreakerOK(failures[p][m], openedAt[p][m], streak[p][m], now)
  /\ \A p \in Plan : CallInv(p)

-----------------------------------------------------------------------------
(* One breaker.                                                            *)

LEMMA LaterOK ==
  ASSUME NEW f, NEW o, NEW s, NEW t \in Nat, NEW u \in Nat, t <= u,
         BreakerOK(f, o, s, t)
  PROVE  BreakerOK(f, o, s, u)
  <1>1. s \in Seq(Nat) /\ Len(s) \in Nat
    BY DEF BreakerOK, Ordered
  <1>2. Ordered(s, u)
    BY <1>1 DEF BreakerOK, Ordered
  <1>3. f = 0 /\ Len(s) > 0 => u - s[Len(s)] >= ResetAfter
    <2>1. SUFFICES ASSUME f = 0, Len(s) > 0 PROVE u - s[Len(s)] >= ResetAfter
      OBVIOUS
    <2>2. s[Len(s)] \in Nat /\ t - s[Len(s)] >= ResetAfter
      BY <1>1, <2>1 DEF BreakerOK
    <2>3. QED
      BY <2>2, RoutingAssumption
  <1>4. QED
    BY <1>2, <1>3 DEF BreakerOK

\* is_open lets a call pass, and may start the breaker again.
LEMMA PassOK ==
  ASSUME NEW f, NEW o \in Nat \cup {None}, NEW s, NEW t \in Nat,
         BreakerOK(f, o, s, t), o # None => t - o >= ResetAfter,
         NEW g, g = IF o = None THEN f ELSE 0
  PROVE  BreakerOK(g, None, s, t) /\ CallOK(g, None, s, t)
  <1>1. s \in Seq(Nat) /\ Len(s) \in Nat /\ Ordered(s, t) /\ Spaced(s)
    BY DEF BreakerOK, Ordered
  <1>2. CASE o = None
    BY <1>1, <1>2 DEF BreakerOK, CallOK
  <1>3. CASE o # None
    <2>1. g = 0 /\ o = s[Len(s)]
      BY <1>3 DEF BreakerOK
    <2>2. g \in 0..Threshold /\ g <= Len(s) /\ g < Threshold
      BY <1>1, <2>1, RoutingAssumption
    <2>3. t - s[Len(s)] >= ResetAfter
      BY <1>3, <2>1
    <2>4. QED
      BY <1>1, <2>1, <2>2, <2>3 DEF BreakerOK, CallOK
  <1>4. QED
    BY <1>2, <1>3

\* record_success.
LEMMA SuccessOK ==
  ASSUME NEW t \in Nat
  PROVE  BreakerOK(0, None, <<>>, t)
  BY RoutingAssumption DEF BreakerOK, Ordered, Spaced

\* record_failure. The new call began a window after the one Threshold before
\* it: by the gap behind the failures counted, which are fewer.
LEMMA FailureOK ==
  ASSUME NEW f, NEW o, NEW s, NEW t \in Nat, NEW b \in Nat, b <= t,
         BreakerOK(f, o, s, t), CallOK(f, o, s, b),
         NEW x, x = IF f + 1 >= Threshold THEN b ELSE o
  PROVE  BreakerOK(f + 1, x, Append(s, b), t)
  <1> DEFINE n == Len(s)
             r == Append(s, b)
  <1>1. s \in Seq(Nat) /\ n \in Nat /\ f \in Nat /\ f <= n /\ f < Threshold
    BY RoutingAssumption DEF BreakerOK, CallOK, Ordered
  <1>2. r \in Seq(Nat) /\ Len(r) = n + 1 /\ r[n + 1] = b /\ \A i \in 1..n : r[i] = s[i]
    BY <1>1
  <1>3. /\ \A i \in 1..n : s[i] \in Nat /\ s[i] <= b
        /\ \A i, j \in 1..n : i <= j => s[i] <= s[j]
    BY <1>1 DEF CallOK, Ordered
  <1> HIDE DEF r
  <1>4. Ordered(r, t)
    <2>1. ASSUME NEW i \in 1..n + 1
          PROVE  r[i] \in Nat /\ r[i] <= b /\ r[i] <= t /\ (i \in 1..n \/ i = n + 1)
      <3>1. CASE i = n + 1
        BY <1>2, <3>1
      <3>2. CASE i # n + 1
        <4>1. i \in 1..n
          BY <1>1, <3>2
        <4>2. r[i] = s[i] /\ s[i] \in Nat /\ s[i] <= b
          BY <1>2, <1>3, <4>1
        <4>3. QED
          BY <4>1, <4>2
      <3>3. QED
        BY <3>1, <3>2
    <2>2. ASSUME NEW i \in 1..n + 1, NEW j \in 1..n + 1, i <= j PROVE r[i] <= r[j]
      <3>1. CASE j = n + 1
        BY <1>2, <2>1, <3>1
      <3>2. CASE j \in 1..n
        <4>1. i \in 1..n
          BY <1>1, <2>2, <3>2
        <4>2. s[i] <= s[j]
          BY <1>3, <2>2, <3>2, <4>1
        <4>3. QED
          BY <1>2, <3>2, <4>1, <4>2
      <3>3. QED
        BY <2>1, <3>1, <3>2
    <2>3. QED
      BY <1>2, <2>1, <2>2 DEF Ordered
  <1>5. n - f >= 1 => b - s[n - f] >= ResetAfter
    <2>1. SUFFICES ASSUME n - f >= 1 PROVE b - s[n - f] >= ResetAfter
      OBVIOUS
    <2>2. CASE f = 0
      BY <1>1, <2>1, <2>2 DEF CallOK
    <2>3. CASE f > 0
      <3>1. s[n - f + 1] - s[n - f] >= ResetAfter
        BY <1>1, <2>1, <2>3 DEF BreakerOK
      <3>2. n - f \in 1..n /\ n - f + 1 \in 1..n
        BY <1>1, <2>1, <2>3
      <3>3. s[n - f] \in Nat /\ s[n - f + 1] \in Nat /\ s[n - f + 1] <= b
        BY <1>3, <3>2
      <3>4. QED
        BY <3>1, <3>3, RoutingAssumption
    <2>4. QED
      BY <1>1, <2>2, <2>3
  <1>6. Spaced(r)
    <2>1. SUFFICES ASSUME NEW i \in 1..n + 1, NEW j \in 1..n + 1, i + Threshold = j
                   PROVE  r[j] - r[i] >= ResetAfter
      BY <1>2 DEF Spaced
    <2>2. CASE j <= n
      <3>1. i \in 1..n /\ j \in 1..n
        BY <1>1, <2>1, <2>2, RoutingAssumption
      <3>2. QED
        BY <1>2, <2>1, <3>1 DEF BreakerOK, Spaced
    <2>3. CASE j = n + 1
      <3>1. i \in 1..n /\ n - f \in 1..n /\ i <= n - f
        BY <1>1, <2>1, <2>3, RoutingAssumption
      <3>2. s[i] \in Nat /\ s[n - f] \in Nat /\ s[i] <= s[n - f]
        BY <1>3, <3>1
      <3>3. b - s[n - f] >= ResetAfter
        BY <1>5, <3>1
      <3>4. r[j] = b /\ r[i] = s[i]
        BY <1>2, <2>3, <3>1
      <3>5. QED
        BY <3>2, <3>3, <3>4, RoutingAssumption
    <2>4. QED
      BY <1>1, <2>2, <2>3
  <1>7. f + 1 \in 0..Threshold /\ f + 1 <= Len(r) /\ f + 1 > 0
    BY <1>1, <1>2, RoutingAssumption
  <1>8. f + 1 < Len(r) => r[Len(r) - (f + 1) + 1] - r[Len(r) - (f + 1)] >= ResetAfter
    <2>0. Len(r) - (f + 1) + 1 = n + 1 - f /\ Len(r) - (f + 1) = n - f
      BY <1>1, <1>2
    <2>1. SUFFICES ASSUME f < n PROVE r[n + 1 - f] - r[n - f] >= ResetAfter
      <3>1. f + 1 < Len(r) => f < n
        BY <1>1, <1>2
      <3>2. QED
        BY <2>0, <2>1, <3>1
    <2>a. n - f \in 1..n
      BY <1>1, <2>1
    <2>2. r[n - f] = s[n - f] /\ s[n - f] \in Nat
      BY <1>2, <1>3, <2>a
    <2>3. r[n + 1 - f] - s[n - f] >= ResetAfter
      <3>1. CASE f = 0
        BY <1>1, <1>2, <1>5, <2>1, <3>1
      <3>2. CASE f > 0
        <4>1. n + 1 - f \in 1..n /\ n + 1 - f = n - f + 1
          BY <1>1, <2>1, <3>2
        <4>2. s[n - f + 1] - s[n - f] >= ResetAfter
          BY <1>1, <2>1, <3>2 DEF BreakerOK
        <4>3. QED
          BY <1>2, <4>1, <4>2
      <3>3. QED
        BY <1>1, <3>1, <3>2
    <2>4. QED
      BY <2>2, <2>3
  <1>9. (x = None => f + 1 < Threshold) /\ (x # None => f + 1 = Threshold /\ x = r[Len(r)])
    <2>1. o = None /\ b # None
      BY RoutingAssumption DEF CallOK
    <2>2. QED
      BY <1>1, <1>2, <2>1, RoutingAssumption
  <1>10. QED
    BY <1>4, <1>6, <1>7, <1>8, <1>9 DEF BreakerOK, r

-----------------------------------------------------------------------------
(* The steps.                                                              *)

\* One entry of a table of plans and modes changes.
LEMMA EntryChanges ==
  ASSUME NEW S, NEW old \in [Plan -> [Mode -> S]], NEW p \in Plan, NEW m \in Mode,
         NEW v \in S, NEW new, new = [old EXCEPT ![p][m] = v]
  PROVE  /\ new \in [Plan -> [Mode -> S]]
         /\ new[p][m] = v
         /\ \A q \in Plan, n \in Mode : q # p \/ n # m => new[q][n] = old[q][n]
  OBVIOUS

LEMMA HeadOfLeft ==
  ASSUME TypeOK, NEW p \in Plan, left[p] # <<>>
  PROVE  Head(left[p]) \in Mode /\ Tail(left[p]) \in Seq(Mode)
  BY DEF TypeOK

\* The breaker of one plan's mode changes to one that is right, and the plan is
\* in no call, or in one that is right.
LEMMA OneBreaker ==
  ASSUME IInv, NEW p \in Plan, NEW m \in Mode,
         NEW f \in 0..Threshold, NEW o \in Nat \cup {None}, NEW s \in Seq(Nat),
         BreakerOK(f, o, s, now), now' = now, TypeOK',
         failures' = [failures EXCEPT ![p][m] = f],
         openedAt' = [openedAt EXCEPT ![p][m] = o],
         streak' = [streak EXCEPT ![p][m] = s],
         \A q \in Plan : q # p =>
            /\ attempt'[q] = attempt[q] /\ left'[q] = left[q]
            /\ began'[q] = began[q] /\ stage'[q] = stage[q],
         attempt'[p] > 0 =>
            /\ stage'[p] # "idle" /\ left'[p] # <<>> /\ Head(left'[p]) = m /\ began'[p] <= now
            /\ CallOK(f, o, s, began'[p])
  PROVE  IInv'
  <1>a. /\ failures'[p][m] = f
        /\ \A q \in Plan, n \in Mode : q # p \/ n # m => failures'[q][n] = failures[q][n]
    BY DEF IInv, TypeOK
  <1>b. /\ openedAt'[p][m] = o
        /\ \A q \in Plan, n \in Mode : q # p \/ n # m => openedAt'[q][n] = openedAt[q][n]
    BY DEF IInv, TypeOK
  <1>c. /\ streak'[p][m] = s
        /\ \A q \in Plan, n \in Mode : q # p \/ n # m => streak'[q][n] = streak[q][n]
    BY DEF IInv, TypeOK
  <1>1. /\ failures'[p][m] = f /\ openedAt'[p][m] = o /\ streak'[p][m] = s
        /\ \A q \in Plan, n \in Mode : q # p \/ n # m =>
             /\ failures'[q][n] = failures[q][n]
             /\ openedAt'[q][n] = openedAt[q][n]
             /\ streak'[q][n] = streak[q][n]
    BY <1>a, <1>b, <1>c
  <1>2. \A q \in Plan, n \in Mode :
          BreakerOK(failures'[q][n], openedAt'[q][n], streak'[q][n], now')
    BY <1>1 DEF IInv
  <1>3. ASSUME NEW q \in Plan PROVE CallInv(q)'
    <2>1. CASE q = p
      BY <1>1, <2>1 DEF CallInv, Waiting
    <2>2. CASE q # p
      <3>1. SUFFICES ASSUME attempt[q] > 0 PROVE CallInv(q)'
        BY <2>2 DEF CallInv, Waiting
      <3>2. left[q] # <<>> /\ Head(left[q]) \in Mode
        BY <3>1, HeadOfLeft DEF IInv, CallInv, Waiting
      <3>3. QED
        BY <1>1, <2>2, <3>1, <3>2 DEF IInv, CallInv, Waiting
    <2>3. QED
      BY <2>1, <2>2
  <1>4. QED
    BY <1>2, <1>3 DEF IInv

\* The breakers stay, and no call begins or moves on.
LEMMA NoBreaker ==
  ASSUME IInv, TypeOK', UNCHANGED <<failures, openedAt, streak, began>>, now <= now',
         \A q \in Plan : attempt'[q] > 0 =>
            attempt[q] > 0 /\ left'[q] = left[q] /\ stage'[q] = stage[q]
  PROVE  IInv'
  <1>1. now \in Nat /\ now' \in Nat /\ \A q \in Plan : began[q] \in Nat
    BY DEF IInv, TypeOK
  <1>2. \A q \in Plan, n \in Mode :
          BreakerOK(failures[q][n], openedAt[q][n], streak[q][n], now')
    BY <1>1, LaterOK DEF IInv
  <1>3. ASSUME NEW q \in Plan PROVE CallInv(q)'
    <2>1. SUFFICES ASSUME attempt'[q] > 0 PROVE CallInv(q)'
      BY DEF CallInv, Waiting
    <2>2. CallInv(q) /\ attempt[q] > 0 /\ left'[q] = left[q] /\ stage'[q] = stage[q]
      BY <2>1 DEF IInv
    <2>3. began[q] <= now'
      BY <1>1, <2>2 DEF CallInv, Waiting
    <2>4. QED
      BY <2>2, <2>3 DEF CallInv, Waiting
  <1>4. QED
    BY <1>2, <1>3 DEF IInv

LEMMA InitHolds == Init => IInv
  <1> SUFFICES ASSUME Init PROVE IInv
    OBVIOUS
  <1>1. TypeOK
    BY RoutingAssumption DEF Init, TypeOK
  <1>2. \A p \in Plan, m \in Mode :
          BreakerOK(failures[p][m], openedAt[p][m], streak[p][m], now)
    BY SuccessOK DEF Init
  <1>3. QED
    BY <1>1, <1>2 DEF IInv, CallInv, Waiting, Init

LEMMA UnavailableTypes ==
  ASSUME TypeOK, NEW p \in Plan, left[p] # <<>>, Proceed(p) \/ Unavailable(p)
  PROVE  /\ stage' \in [Plan -> {"idle"} \cup Stages \cup Over]
         /\ left' \in [Plan -> Seq(Mode)] /\ legs' \in [Plan -> Seq(Mode)]
         /\ \A q \in Plan : q # p => left'[q] = left[q] /\ stage'[q] = stage[q]
  <1>1. CASE Proceed(p)
    BY <1>1, HeadOfLeft DEF Proceed, TypeOK
  <1>2. CASE Unavailable(p) /\ stage[p] = "tables"
    <2>1. <<>> \in Seq(Mode) /\ "refused" \in {"idle"} \cup Stages \cup Over
      BY DEF Over
    <2>2. /\ stage' = [stage EXCEPT ![p] = "refused"] /\ left' = [left EXCEPT ![p] = <<>>]
          /\ legs' = legs
      BY <1>2 DEF Unavailable
    <2>3. QED
      BY <2>1, <2>2 DEF TypeOK
  <1>3. QED
    BY <1>1, <1>2 DEF Unavailable

LEMMA CallKeeps == ASSUME IInv, NEW p \in Plan, Call(p) PROVE IInv'
  <1> DEFINE m == Head(left[p])
             f == failures[p][m]
             o == openedAt[p][m]
             s == streak[p][m]
             g == IF o = None THEN f ELSE 0
  <1>1. left[p] # <<>> /\ m \in Mode
    BY HeadOfLeft DEF Call, Due, IInv
  <1>2. /\ f \in 0..Threshold /\ o \in Nat \cup {None} /\ s \in Seq(Nat) /\ now \in Nat
        /\ BreakerOK(f, o, s, now)
    BY <1>1 DEF IInv, TypeOK
  <1>3. o # None => now - o >= ResetAfter
    <2>1. o # None => ~ (now - o < ResetAfter)
      BY DEF Call, IsOpen
    <2>2. QED
      BY <1>2, <2>1, RoutingAssumption
  <1>4. BreakerOK(g, None, s, now) /\ CallOK(g, None, s, now)
    BY <1>2, <1>3, PassOK
  <1>5. /\ failures' = [failures EXCEPT ![p][m] = g]
        /\ openedAt' = [openedAt EXCEPT ![p][m] = None]
        /\ streak' = [streak EXCEPT ![p][m] = s]
    BY <1>1 DEF Call, IInv, TypeOK
  <1>6. g \in 0..Threshold
    BY <1>2, RoutingAssumption
  <1>7. /\ failures' \in [Plan -> [Mode -> 0..Threshold]]
        /\ openedAt' \in [Plan -> [Mode -> Nat \cup {None}]]
    BY <1>1, <1>5, <1>6, EntryChanges DEF IInv, TypeOK
  <1>8. /\ attempt' \in [Plan -> 0..Attempts] /\ began' \in [Plan -> Nat]
        /\ since' \in [Plan -> Nat]
    BY RoutingAssumption DEF Call, IInv, TypeOK
  <1>9. TypeOK'
    BY <1>7, <1>8 DEF Call, IInv, TypeOK
  <1>10. /\ \A q \in Plan : q # p =>
              /\ attempt'[q] = attempt[q] /\ left'[q] = left[q]
              /\ began'[q] = began[q] /\ stage'[q] = stage[q]
         /\ left'[p] = left[p] /\ began'[p] = now /\ now' = now
         /\ stage'[p] # "idle"
    BY DEF Call, Due, Stages, IInv, TypeOK
  <1> HIDE DEF m, f, o, s, g
  <1>11. left'[p] # <<>> /\ Head(left'[p]) = m /\ began'[p] <= now
    BY <1>1, <1>2, <1>10 DEF m
  <1>12. QED
    BY <1>1, <1>2, <1>4, <1>5, <1>6, <1>9, <1>10, <1>11, OneBreaker

LEMMA AnswerKeeps == ASSUME IInv, NEW p \in Plan, Answer(p) PROVE IInv'
  <1> DEFINE m == Head(left[p])
  <1>1. left[p] # <<>> /\ m \in Mode /\ now \in Nat
    BY HeadOfLeft DEF Answer, IInv, CallInv, TypeOK
  <1>2. /\ failures' = [failures EXCEPT ![p][m] = 0]
        /\ openedAt' = [openedAt EXCEPT ![p][m] = None]
        /\ streak' = [streak EXCEPT ![p][m] = <<>>]
    BY DEF Answer, RecordSuccess
  <1>3. attempt' = [attempt EXCEPT ![p] = 0] /\ UNCHANGED <<now, osrm, began, since>>
    BY DEF Answer, EndCall
  <1>4. 0 \in 0..Threshold /\ <<>> \in Seq(Nat) /\ 0 \in 0..Attempts
    BY RoutingAssumption
  <1>5. /\ failures' \in [Plan -> [Mode -> 0..Threshold]]
        /\ openedAt' \in [Plan -> [Mode -> Nat \cup {None}]]
        /\ streak' \in [Plan -> [Mode -> Seq(Nat)]]
    BY <1>1, <1>2, <1>4, EntryChanges DEF IInv, TypeOK
  <1>6. /\ stage' \in [Plan -> {"idle"} \cup Stages \cup Over]
        /\ left' \in [Plan -> Seq(Mode)] /\ legs' \in [Plan -> Seq(Mode)]
        /\ \A q \in Plan : q # p => left'[q] = left[q] /\ stage'[q] = stage[q]
    BY <1>1, UnavailableTypes DEF Answer, IInv
  <1>7. TypeOK'
    BY <1>3, <1>4, <1>5, <1>6 DEF IInv, TypeOK
  <1>8. /\ \A q \in Plan : q # p => attempt'[q] = attempt[q] /\ began'[q] = began[q]
        /\ ~ attempt'[p] > 0
    BY <1>3 DEF IInv, TypeOK
  <1> HIDE DEF m
  <1>9. QED
    BY <1>1, <1>2, <1>3, <1>4, <1>6, <1>7, <1>8, SuccessOK, OneBreaker

LEMMA GiveUpKeeps == ASSUME IInv, NEW p \in Plan, GiveUp(p) PROVE IInv'
  <1> DEFINE m == Head(left[p])
             f == failures[p][m]
             o == openedAt[p][m]
             s == streak[p][m]
             b == began[p]
             x == IF f + 1 >= Threshold THEN b ELSE o
  <1>1. left[p] # <<>> /\ m \in Mode /\ now \in Nat /\ b \in Nat /\ b <= now
        /\ CallOK(f, o, s, b)
    BY HeadOfLeft DEF GiveUp, IInv, CallInv, TypeOK
  <1>2. /\ f \in 0..Threshold /\ o \in Nat \cup {None} /\ s \in Seq(Nat)
        /\ BreakerOK(f, o, s, now)
    BY <1>1 DEF IInv, TypeOK
  <1>3. BreakerOK(f + 1, x, Append(s, b), now)
    BY <1>1, <1>2, FailureOK
  <1>4. f + 1 \in 0..Threshold /\ x \in Nat \cup {None} /\ Append(s, b) \in Seq(Nat)
    <2>1. f + 1 \in 0..Threshold
      BY <1>3 DEF BreakerOK
    <2>2. QED
      BY <1>1, <1>2, <2>1
  <1>5. failures' = [failures EXCEPT ![p][m] = f + 1] /\ failures'[p][m] = f + 1
    BY <1>1 DEF GiveUp, RecordFailure, IInv, TypeOK
  <1>6. /\ openedAt' = [openedAt EXCEPT ![p][m] = x]
        /\ streak' = [streak EXCEPT ![p][m] = Append(s, b)]
    BY <1>1, <1>5 DEF GiveUp, RecordFailure, IInv, TypeOK
  <1>7. attempt' = [attempt EXCEPT ![p] = 0] /\ UNCHANGED <<now, osrm, began, since>>
    BY DEF GiveUp, EndCall
  <1>8. /\ failures' \in [Plan -> [Mode -> 0..Threshold]]
        /\ openedAt' \in [Plan -> [Mode -> Nat \cup {None}]]
        /\ streak' \in [Plan -> [Mode -> Seq(Nat)]]
    BY <1>1, <1>4, <1>5, <1>6, EntryChanges DEF IInv, TypeOK
  <1>9. /\ stage' \in [Plan -> {"idle"} \cup Stages \cup Over]
        /\ left' \in [Plan -> Seq(Mode)] /\ legs' \in [Plan -> Seq(Mode)]
        /\ \A q \in Plan : q # p => left'[q] = left[q] /\ stage'[q] = stage[q]
    BY <1>1, UnavailableTypes DEF GiveUp, IInv
  <1>10. 0 \in 0..Attempts
    BY RoutingAssumption
  <1>11. TypeOK'
    BY <1>7, <1>8, <1>9, <1>10 DEF IInv, TypeOK
  <1>12. /\ \A q \in Plan : q # p => attempt'[q] = attempt[q] /\ began'[q] = began[q]
         /\ ~ attempt'[p] > 0
    BY <1>7 DEF IInv, TypeOK
  <1> HIDE DEF m, f, o, s, b, x
  <1>13. failures' = [failures EXCEPT ![p][m] = f + 1]
    BY <1>5
  <1>14. QED
    BY <1>1, <1>3, <1>4, <1>6, <1>7, <1>9, <1>11, <1>12, <1>13, OneBreaker

\* The stages, and the calls that neither pass nor end.
LEMMA StageKeeps ==
  ASSUME IInv, NEW p \in Plan,
         Start(p) \/ Choose(p) \/ Verdict(p) \/ Finish(p) \/ FailFast(p) \/ Retry(p)
  PROVE  IInv'
  <1>1. UNCHANGED <<failures, openedAt, streak, began, now>>
    BY DEF Start, Choose, Verdict, Finish, FailFast, Retry, breaker, wire
  <1>2. ASSUME NEW q \in Plan, attempt'[q] > 0
        PROVE  attempt[q] > 0 /\ left'[q] = left[q] /\ stage'[q] = stage[q]
    <2>1. ASSUME attempt[p] > 0
          PROVE  left' = left /\ stage' = stage
      <3>1. stage[p] # "idle" /\ left[p] # <<>>
        BY <2>1 DEF IInv, CallInv, Waiting
      <3>2. Retry(p)
        BY <2>1, <3>1 DEF Start, Choose, Verdict, Finish, FailFast, StageDone, Due, Waiting
      <3>3. QED
        BY <3>2 DEF Retry
    <2>2. q # p => attempt'[q] = attempt[q] /\ left'[q] = left[q] /\ stage'[q] = stage[q]
      BY DEF Start, Choose, Verdict, Finish, FailFast, Retry, Unavailable, Proceed, wire,
             IInv, TypeOK
    <2>3. attempt'[p] > 0 => attempt[p] > 0
      BY DEF Start, Choose, Verdict, Finish, FailFast, Retry, Waiting, wire
    <2>4. QED
      BY <1>2, <2>1, <2>2, <2>3
  <1>3. TypeOK'
    <2>1. ASSUME Start(p) PROVE TypeOK'
      BY <2>1, RoutingAssumption DEF Start, IInv, TypeOK, Stages, breaker, wire
    <2>2. ASSUME Choose(p) PROVE TypeOK'
      <3>1. CASE stage' = [stage EXCEPT ![p] = "blocked"] /\ UNCHANGED <<legs, left>>
        BY <2>2, <3>1 DEF Choose, IInv, TypeOK, Over, breaker, wire
      <3>2. CASE \E t \in Tours : /\ legs' = [legs EXCEPT ![p] = t]
                                 /\ left' = [left EXCEPT ![p] = t]
                                 /\ stage' = [stage EXCEPT ![p] = "refetch"]
        <4>1. PICK t \in Seq(Mode) : /\ legs' = [legs EXCEPT ![p] = t]
                                     /\ left' = [left EXCEPT ![p] = t]
                                     /\ stage' = [stage EXCEPT ![p] = "refetch"]
          BY <3>2, RoutingAssumption
        <4>2. UNCHANGED <<now, osrm, breaker, wire>>
          BY <2>2 DEF Choose
        <4>3. QED
          BY <4>1, <4>2 DEF IInv, TypeOK, Stages, breaker, wire
      <3>3. QED
        BY <2>2, <3>1, <3>2 DEF Choose
    <2>3. ASSUME Verdict(p) PROVE TypeOK'
      BY <2>3 DEF Verdict, IInv, TypeOK, Stages, Over, breaker, wire
    <2>4. ASSUME Finish(p) PROVE TypeOK'
      BY <2>4 DEF Finish, IInv, TypeOK, Over, breaker, wire
    <2>5. ASSUME FailFast(p) PROVE TypeOK'
      <3>1. left[p] # <<>> /\ Unavailable(p) /\ UNCHANGED <<now, osrm, breaker, wire>>
        BY <2>5 DEF FailFast, Due
      <3>2. QED
        BY <3>1, UnavailableTypes DEF IInv, TypeOK, breaker, wire
    <2>6. ASSUME Retry(p) PROVE TypeOK'
      <3>1. attempt[p] + 1 \in 0..Attempts
        BY <2>6, RoutingAssumption DEF Retry, IInv, TypeOK
      <3>2. QED
        BY <2>6, <3>1 DEF Retry, IInv, TypeOK, breaker
    <2>7. QED
      BY <2>1, <2>2, <2>3, <2>4, <2>5, <2>6
  <1>4. now <= now'
    BY <1>1 DEF IInv, TypeOK
  <1>5. QED
    BY <1>1, <1>2, <1>3, <1>4, NoBreaker

LEMMA WorldKeeps == ASSUME IInv, Tick \/ \E m \in Mode : Turn(m) PROVE IInv'
  <1>1. TypeOK' /\ now <= now'
    <2>1. CASE Tick
      BY <2>1 DEF Tick, IInv, TypeOK, breaker, wire
    <2>2. CASE \E m \in Mode : Turn(m)
      BY <2>2 DEF Turn, IInv, TypeOK, breaker, wire
    <2>3. QED
      BY <2>1, <2>2
  <1>2. UNCHANGED <<failures, openedAt, streak, attempt, left, stage, began>>
    BY DEF Tick, Turn, breaker, wire
  <1>3. QED
    BY <1>1, <1>2, NoBreaker

LEMMA StepKeeps == IInv /\ [Next]_vars => IInv'
  <1>1. IInv /\ UNCHANGED vars => IInv'
    BY DEF vars, breaker, wire, IInv, TypeOK, CallInv, Waiting
  <1>2. QED
    BY <1>1, CallKeeps, AnswerKeeps, GiveUpKeeps, StageKeeps, WorldKeeps DEF Next, Step

LEMMA Invariance == Spec => []IInv
  BY InitHolds, StepKeeps, PTL DEF Spec

-----------------------------------------------------------------------------

\* The breakers, the stages and the calls of every plan are well typed; a
\* breaker never counts more than BREAKER_THRESHOLD failures (service.py:178).
THEOREM TypeCorrect == Spec => []TypeOK
  <1>1. IInv => TypeOK
    BY DEF IInv
  <1>2. QED
    BY <1>1, Invariance, PTL

\* A breaker is open only after that many calls in a row that used up their
\* attempts, none of them answered (_Breaker.record_failure, record_success).
THEOREM OpenedByStreak == Spec => []OpenMeansConsecutive
  <1>1. IInv => OpenMeansConsecutive
    <2>1. SUFFICES ASSUME IInv, NEW p \in Plan, NEW m \in Mode, openedAt[p][m] # None
                   PROVE  Len(streak[p][m]) >= Threshold
      BY DEF OpenMeansConsecutive
    <2>2. BreakerOK(failures[p][m], openedAt[p][m], streak[p][m], now)
      BY <2>1 DEF IInv
    <2>3. QED
      BY <2>1, <2>2 DEF BreakerOK
  <1>2. QED
    BY <1>1, Invariance, PTL

\* Any Threshold + 1 failed calls in a row span a window: what a dead OSRM can
\* cost a plan, for any timeouts, retries and answers in between.
THEOREM Spacing == Spec => []CallsAreSpaced
  <1>1. IInv => CallsAreSpaced
    <2>1. SUFFICES ASSUME IInv, NEW p \in Plan, NEW m \in Mode,
                          NEW i \in DOMAIN streak[p][m],
                          i + Threshold \in DOMAIN streak[p][m]
                   PROVE  streak[p][m][i + Threshold] - streak[p][m][i] >= ResetAfter
      BY DEF CallsAreSpaced
    <2>2. streak[p][m] \in Seq(Nat) /\ Spaced(streak[p][m])
      BY <2>1 DEF IInv, BreakerOK, Ordered
    <2>3. QED
      BY <2>1, <2>2 DEF Spaced
  <1>2. QED
    BY <1>1, Invariance, PTL

\* No answer that comes late closes a breaker before its window is over: a
\* plan's calls are awaited one by one, so none is under way when it opens.
THEOREM StaysOpen == Spec => OpenStaysOpen
  <1>1. ASSUME IInv, [Next]_vars, NEW p \in Plan, NEW m \in Mode,
               openedAt[p][m] # None, openedAt'[p][m] = None
        PROVE  now - openedAt[p][m] >= ResetAfter
    <2>1. ASSUME NEW q \in Plan, Call(q) PROVE now - openedAt[p][m] >= ResetAfter
      <3>1. left[q] # <<>> /\ Head(left[q]) \in Mode /\ ~ IsOpen(q, Head(left[q]))
        BY <1>1, <2>1, HeadOfLeft DEF Call, Due, IInv
      <3>2. q = p /\ Head(left[q]) = m
        BY <1>1, <2>1, <3>1 DEF Call, IInv, TypeOK
      <3>3. now \in Nat /\ openedAt[p][m] \in Nat
        BY <1>1 DEF IInv, TypeOK
      <3>4. QED
        BY <1>1, <3>1, <3>2, <3>3, RoutingAssumption DEF IsOpen
    <2>2. ASSUME NEW q \in Plan, Answer(q) \/ GiveUp(q) PROVE FALSE
      <3>1. /\ left[q] # <<>> /\ Head(left[q]) \in Mode
            /\ openedAt[q][Head(left[q])] = None
        BY <1>1, <2>2, HeadOfLeft DEF Answer, GiveUp, IInv, CallInv, CallOK
      <3>2. q # p \/ Head(left[q]) # m
        BY <1>1, <3>1
      <3> DEFINE h == Head(left[q])
      <3>a. PICK v : openedAt' = [openedAt EXCEPT ![q][h] = v]
        <4>1. CASE Answer(q)
          BY <4>1 DEF Answer, RecordSuccess
        <4>2. CASE GiveUp(q)
          <5>1. openedAt' = [openedAt EXCEPT ![q][h] =
                               IF failures'[q][h] >= Threshold THEN began[q] ELSE @]
            BY <4>2 DEF GiveUp, RecordFailure
          <5>2. QED
            BY <5>1
        <4>3. QED
          BY <2>2, <4>1, <4>2
      <3>b. openedAt \in [Plan -> [Mode -> Nat \cup {None}]]
        BY <1>1 DEF IInv, TypeOK
      <3> HIDE DEF h
      <3>3. openedAt'[p][m] = openedAt[p][m]
        BY <3>1, <3>2, <3>a, <3>b DEF h
      <3>4. QED
        BY <1>1, <3>3
    <2>3. CASE UNCHANGED openedAt
      BY <1>1, <2>3
    <2>4. QED
      BY <1>1, <2>1, <2>2, <2>3
         DEF Next, Step, Start, Choose, Verdict, Finish, FailFast, Retry, Tick, Turn,
             vars, breaker
  <1>2. IInv /\ [Next]_vars
          => \A p \in Plan, m \in Mode :
               openedAt[p][m] # None /\ openedAt'[p][m] = None
                 => now - openedAt[p][m] >= ResetAfter
    BY <1>1
  <1>3. QED
    BY <1>2, Invariance, PTL DEF Spec, OpenStaysOpen

-----------------------------------------------------------------------------
(* The weather client, for any trips and weather, any number of requests   *)
(* and any size of the cache.                                              *)

LEMMA FirstDay ==
  ASSUME NEW t \in Trip
  PROVE  /\ First(t.days) \in t.days /\ First(t.days) \in Int
         /\ \A d \in t.days : First(t.days) <= d
  <1>1. \E a \in t.days : \A x \in t.days : a <= x
    BY WeatherAssumption
  <1>2. First(t.days) \in t.days /\ \A d \in t.days : First(t.days) <= d
    BY <1>1 DEF First
  <1>3. QED
    BY <1>2, WeatherAssumption

\* The hours of the window of day d that the forecast has a value for.
Known(f, t, d) == {h \in 0..23 : t.start <= h /\ h <= t.end /\ HasValue(f, d, h)}

\* What a window may say of its day.
Says(w, f, t, d) ==
  /\ w \in {"clear", "heavy_rain", WeatherUnavailable}
  /\ w = "heavy_rain" <=> Rain[d] \cap Known(f, t, d) # {}
  /\ w = WeatherUnavailable <=> Known(f, t, d) = {}

\* The window cut out of a series is the weather of its day.
LEMMA WindowIsOfItsDay ==
  ASSUME NEW t \in Trip, NEW d \in t.days, NEW hours \in Nat, NEW gap, NEW made,
         NEW f, f = Forecast(First(t.days), hours, gap, made)
  PROVE  Says(Windows(f, t)[d], f, t, d)
  <1> DEFINE first == First(t.days)
             w == Windows(f, t)[d]
             offset == d - first
             base == 24 * offset
             lo == base + t.start
             past == base + (IF t.end < 23 THEN t.end ELSE 23) + 1
             hi == IF f.hours < past THEN f.hours ELSE past
             window == (lo..hi - 1) \cap f.valued
  <1>1. first \in Int /\ d \in Int /\ first <= d /\ t.start \in Nat /\ t.end \in Nat
        /\ Rain[d] \subseteq 0..23
    BY FirstDay, WeatherAssumption
  <1>2. offset \in Nat /\ first + offset = d /\ base \in Nat /\ lo \in Nat
    BY <1>1
  <1>3. f.hours = hours /\ f.first = first /\ f.valued \subseteq 0..hours - 1
        /\ f.rain = {i \in f.valued : i % 24 \in Rain[first + i \div 24]}
    BY DEF Forecast
  <1>4. w = IF window = {} THEN WeatherUnavailable
            ELSE IF window \cap f.rain # {} THEN "heavy_rain" ELSE "clear"
    BY DEF Windows, WindowForDay
  <1>5. \A j \in 0..23 : (base + j) % 24 = j /\ (base + j) \div 24 = offset
    <2>1. \A o \in Nat : \A j \in 0..23 : (24 * o + j) % 24 = j /\ (24 * o + j) \div 24 = o
      OBVIOUS
    <2>2. QED
      BY <1>2, <2>1
  <1>a. /\ lo = base + t.start /\ past \in Int
        /\ past <= base + 24 /\ past <= base + t.end + 1
        /\ \A j \in 0..23 : j <= t.end => base + j < past
    BY <1>1, <1>2
  <1>b. hi \in Int /\ hi <= past /\ hi <= hours /\ (hi = past \/ hi = hours)
    BY <1>1, <1>3, <1>a
  <1>c. \A h \in 0..23 : HasValue(f, d, h) <=> base + h \in f.valued
    BY <1>3 DEF HasValue
  <1>d. base \in Nat
    BY <1>2
  <1> HIDE DEF base, lo, past, hi, w
  <1>6. \A h \in Known(f, t, d) : base + h \in window
    <2>1. SUFFICES ASSUME NEW h \in Known(f, t, d) PROVE base + h \in window
      OBVIOUS
    <2>2. h \in 0..23 /\ t.start <= h /\ h <= t.end /\ base + h \in f.valued
      BY <1>c, <2>1 DEF Known
    <2>3. base + h \in 0..hours - 1
      BY <1>3, <2>2
    <2>4. base + h \in lo..hi - 1
      BY <1>1, <1>a, <1>b, <1>d, <2>2, <2>3
    <2>5. QED
      BY <2>2, <2>4
  <1>7. \A i \in window : \E h \in Known(f, t, d) : base + h = i
    <2>1. SUFFICES ASSUME NEW i \in window PROVE \E h \in Known(f, t, d) : base + h = i
      OBVIOUS
    <2>2. PICK h : h = i - base
      OBVIOUS
    <2>3. h \in 0..23 /\ t.start <= h /\ h <= t.end /\ base + h = i
      BY <1>1, <1>a, <1>b, <1>d, <2>1, <2>2
    <2>4. h \in Known(f, t, d)
      BY <1>c, <2>1, <2>3 DEF Known
    <2>5. QED
      BY <2>3, <2>4
  <1>8. \A h \in Known(f, t, d) : base + h \in f.rain <=> h \in Rain[d]
    <2>1. SUFFICES ASSUME NEW h \in Known(f, t, d)
                   PROVE  base + h \in f.rain <=> h \in Rain[d]
      OBVIOUS
    <2>2. h \in 0..23 /\ base + h \in f.valued
      BY <1>c, <2>1 DEF Known
    <2>3. (base + h) % 24 = h /\ (base + h) \div 24 = offset
      BY <1>5, <2>2
    <2>4. QED
      BY <1>2, <1>3, <2>2, <2>3
  <1>9. window = {} <=> Known(f, t, d) = {}
    <2> HIDE DEF window
    <2> QED
      BY <1>6, <1>7
  <1>10. window \cap f.rain # {} <=> Rain[d] \cap Known(f, t, d) # {}
    <2>1. ASSUME NEW i \in window \cap f.rain PROVE Rain[d] \cap Known(f, t, d) # {}
      <3>1. PICK h \in Known(f, t, d) : base + h = i
        BY <1>7, <2>1
      <3>2. QED
        BY <1>8, <2>1, <3>1
    <2>2. ASSUME NEW h \in Rain[d] \cap Known(f, t, d) PROVE window \cap f.rain # {}
      <3>1. base + h \in window /\ base + h \in f.rain
        BY <1>6, <1>8, <2>2
      <3>2. QED
        BY <3>1
    <2>3. QED
      BY <2>1, <2>2
  <1>11. Says(w, f, t, d)
    <2>1. CASE window = {}
      <3>1. Known(f, t, d) = {} /\ w = WeatherUnavailable
        BY <1>4, <1>9, <2>1
      <3>2. QED
        BY <3>1 DEF Says, WeatherUnavailable
    <2>2. CASE window # {}
      <3>1. Known(f, t, d) # {}
        BY <1>9, <2>2
      <3>2. w = IF window \cap f.rain # {} THEN "heavy_rain" ELSE "clear"
        BY <1>4, <2>2
      <3> HIDE DEF window
      <3>3. QED
        BY <1>10, <3>1, <3>2 DEF Says, WeatherUnavailable
    <2>3. QED
      BY <2>1, <2>2
  <1>12. QED
    BY <1>11 DEF w

-----------------------------------------------------------------------------

\* A request that holds what it may hold at a moment.
Right(q, moment) ==
  /\ q.stage \in {"idle", "fetching", "done"}
  /\ q.stage # "idle" => q.trip \in Trip
  /\ q.stage = "fetching" => q.at \in 0..moment
  /\ q.stage = "done" =>
       /\ q.hit => q.at - q.forecast.made < CACHE_TTL_S
       /\ \A d \in q.trip.days : Says(q.windows[d], q.forecast, q.trip, d)

\* An entry is stamped no later than its forecast was made, and holds the
\* forecast of the range its key names.
Sound(k, e, moment) ==
  \E hours \in Nat, made \in Nat, gap \in Gaps :
    /\ e.at \in 0..moment /\ e.at <= made
    /\ e.forecast = Forecast(k[2], hours, gap, made)

WeatherIInv ==
  /\ clock \in 0..MaxTime
  /\ request = [r \in Request |-> request[r]]
  /\ \A r \in Request : Right(request[r], clock)
  /\ \A k \in DOMAIN cache : Sound(k, cache[k], clock)
  /\ IsFiniteSet(DOMAIN cache) /\ CacheIsBounded

\* What is answered out of a forecast of the trip's own range is right.
LEMMA AnswerIsRight ==
  ASSUME NEW t \in Trip, NEW hours \in Nat, NEW gap, NEW made \in Nat, NEW hit \in BOOLEAN,
         NEW f, f = Forecast(First(t.days), hours, gap, made), clock \in Nat,
         hit => clock - made < CACHE_TTL_S
  PROVE  Right(Answered(f, t, hit), clock)
  <1> DEFINE a == Answered(f, t, hit)
  <1>1. /\ a.stage = "done" /\ a.trip = t /\ a.at = clock /\ a.forecast = f /\ a.hit = hit
        /\ a.windows = Windows(f, t)
    BY DEF Answered
  <1>2. f.made = made
    BY DEF Forecast
  <1>3. \A d \in t.days : Says(Windows(f, t)[d], f, t, d)
    BY WindowIsOfItsDay
  <1> HIDE DEF a
  <1>4. Right(a, clock)
    BY <1>1, <1>2, <1>3 DEF Right
  <1>5. QED
    BY <1>4 DEF a

LEMMA WeatherInitHolds == WeatherInit => WeatherIInv
  <1> SUFFICES ASSUME WeatherInit PROVE WeatherIInv
    OBVIOUS
  <1>1. DOMAIN cache = {}
    BY DEF WeatherInit
  <1>2. IsFiniteSet(DOMAIN cache) /\ Cardinality(DOMAIN cache) = 0
    BY <1>1, FS_EmptySet
  <1>3. \A r \in Request : Right(request[r], clock)
    BY DEF WeatherInit, Idle, Right
  <1>4. QED
    BY <1>1, <1>2, <1>3, WeatherAssumption DEF WeatherInit, WeatherIInv, CacheIsBounded

LEMMA TickKeeps == WeatherIInv /\ ClockTick => WeatherIInv'
  <1> SUFFICES ASSUME WeatherIInv, ClockTick PROVE WeatherIInv'
    OBVIOUS
  <1>1. clock \in Nat /\ clock' = clock + 1 /\ clock' \in 0..MaxTime
        /\ UNCHANGED <<cache, request>>
    BY WeatherAssumption DEF WeatherIInv, ClockTick
  <1>2. \A r \in Request : Right(request'[r], clock')
    BY <1>1 DEF WeatherIInv, Right
  <1>3. \A k \in DOMAIN cache' : Sound(k, cache'[k], clock')
    BY <1>1 DEF WeatherIInv, Sound
  <1>4. QED
    BY <1>1, <1>2, <1>3 DEF WeatherIInv, CacheIsBounded

LEMMA AskKeeps ==
  ASSUME WeatherIInv, NEW r \in Request, NEW t \in Trip, Ask(r, t)
  PROVE  WeatherIInv'
  <1> DEFINE key == Key(t)
  <1>1. UNCHANGED <<clock, cache>> /\ clock \in Nat
    BY WeatherAssumption DEF Ask, WeatherIInv
  <1>2. Right(request'[r], clock)
    <2>1. CASE Fresh(key)
      <3>1. key \in DOMAIN cache /\ clock - cache[key].at < CACHE_TTL_S
        BY <2>1 DEF Fresh
      <3>2. PICK hours \in Nat, made \in Nat, gap \in Gaps :
              /\ cache[key].at \in 0..clock /\ cache[key].at <= made
              /\ cache[key].forecast = Forecast(key[2], hours, gap, made)
        BY <3>1 DEF WeatherIInv, Sound
      <3>3. key[2] = First(t.days)
        BY DEF Key
      <3>4. request'[r] = Answered(cache[key].forecast, t, TRUE)
        BY <2>1 DEF Ask, WeatherIInv
      <3>5. clock - made < CACHE_TTL_S
        BY <1>1, <3>1, <3>2, WeatherAssumption
      <3>6. Right(Answered(cache[key].forecast, t, TRUE), clock)
        BY <1>1, <3>2, <3>3, <3>5, AnswerIsRight
      <3>7. QED
        BY <3>4, <3>6
    <2>2. CASE ~ Fresh(key)
      <3>1. request'[r] = [stage |-> "fetching", trip |-> t, at |-> clock]
        BY <2>2 DEF Ask, WeatherIInv
      <3>2. QED
        BY <1>1, <3>1 DEF Right
    <2>3. QED
      BY <2>1, <2>2
  <1>3. (\A x \in Request : x # r => request'[x] = request[x])
        /\ request' = [x \in Request |-> request'[x]]
    BY DEF Ask, WeatherIInv
  <1>4. QED
    BY <1>1, <1>2, <1>3 DEF WeatherIInv, CacheIsBounded

LEMMA FetchedKeeps ==
  ASSUME WeatherIInv, NEW r \in Request, Fetched(r)
  PROVE  WeatherIInv'
  <1> DEFINE t == request[r].trip
             kept == IF Full THEN {} ELSE DOMAIN cache
             key == Key(t)
  <1>1. clock' = clock /\ clock \in Nat /\ request[r].stage = "fetching"
    BY WeatherAssumption DEF Fetched, WeatherIInv
  <1>2. t \in Trip /\ request[r].at \in 0..clock
    BY <1>1 DEF WeatherIInv, Right
  <1>3. PICK made \in request[r].at..clock, hours \in Lengths, gap \in Gaps :
          LET f == Forecast(First(t.days), hours, gap, made) IN
          /\ cache' = [k \in kept \cup {key} |->
                         IF k = key THEN [at |-> Stamp(r), forecast |-> f] ELSE cache[k]]
          /\ request' = [request EXCEPT ![r] = Answered(f, t, FALSE)]
    BY DEF Fetched
  <1> DEFINE f == Forecast(First(t.days), hours, gap, made)
             entry == [at |-> request[r].at, forecast |-> f]
  <1>4. hours \in Nat /\ made \in Nat /\ request[r].at <= made
    BY <1>1, <1>2, WeatherAssumption
  <1>5. Right(Answered(f, t, FALSE), clock)
    BY <1>1, <1>2, <1>4, AnswerIsRight
  <1>6. /\ request'[r] = Answered(f, t, FALSE)
        /\ \A x \in Request : x # r => request'[x] = request[x]
        /\ request' = [x \in Request |-> request'[x]]
    BY <1>3 DEF WeatherIInv
  <1>7. Sound(key, entry, clock)
    <2>1. key[2] = First(t.days)
      BY DEF Key
    <2>2. entry.at = request[r].at /\ entry.forecast = Forecast(key[2], hours, gap, made)
      BY <2>1
    <2>3. QED
      BY <1>2, <1>4, <2>2 DEF Sound
  <1>8. /\ DOMAIN cache' = kept \cup {key} /\ cache'[key] = entry
        /\ \A k \in kept : k # key => cache'[k] = cache[k]
    BY <1>3 DEF Stamp
  <1> DEFINE dom == DOMAIN cache
             domNext == DOMAIN cache'
  <1>9. kept \subseteq dom /\ (Full => kept = {}) /\ (~ Full => kept = dom)
    OBVIOUS
  <1> HIDE DEF f, t, key, entry, kept, dom, domNext
  <1>10. \A x \in Request : Right(request'[x], clock')
    BY <1>1, <1>5, <1>6 DEF WeatherIInv
  <1>11. \A k \in domNext : Sound(k, cache'[k], clock')
    <2> SUFFICES ASSUME NEW k \in domNext PROVE Sound(k, cache'[k], clock)
      BY <1>1
    <2>1. CASE k = key
      BY <1>7, <1>8, <2>1
    <2>2. CASE k # key
      <3>1. k \in kept /\ cache'[k] = cache[k]
        BY <1>8, <2>2 DEF domNext
      <3>2. QED
        BY <1>9, <3>1 DEF WeatherIInv, dom
    <2>3. QED
      BY <2>1, <2>2
  <1>12. IsFiniteSet(domNext) /\ Cardinality(domNext) <= CACHE_MAX_ENTRIES
    <2>0. domNext = kept \cup {key}
      BY <1>8 DEF domNext
    <2>1. CASE Full
      <3>1. domNext = {key}
        BY <1>9, <2>0, <2>1
      <3>2. IsFiniteSet({key}) /\ Cardinality({key}) = 1
        BY FS_Singleton
      <3>3. QED
        BY <3>1, <3>2, WeatherAssumption
    <2>2. CASE ~ Full
      <3>1. domNext = dom \cup {key}
        BY <1>9, <2>0, <2>2
      <3>2. IsFiniteSet(dom) /\ Cardinality(dom) \in Nat
        BY FS_CardinalityType DEF WeatherIInv, dom
      <3>3. ~ (Cardinality(dom) >= CACHE_MAX_ENTRIES)
        BY <2>2 DEF Full, dom
      <3>4. /\ IsFiniteSet(dom \cup {key})
            /\ \/ Cardinality(dom \cup {key}) = Cardinality(dom)
               \/ Cardinality(dom \cup {key}) = Cardinality(dom) + 1
        BY <3>2, FS_AddElement
      <3>5. QED
        BY <3>1, <3>2, <3>3, <3>4, WeatherAssumption
    <2>3. QED
      BY <2>1, <2>2
  <1>13. QED
    BY <1>1, <1>6, <1>10, <1>11, <1>12 DEF WeatherIInv, CacheIsBounded, domNext

LEMMA FailedKeeps ==
  ASSUME WeatherIInv, NEW r \in Request, Failed(r)
  PROVE  WeatherIInv'
  <1>1. UNCHANGED <<clock, cache>> /\ request' = [request EXCEPT ![r] = Idle]
    BY DEF Failed
  <1>2. /\ request'[r] = Idle /\ request' = [x \in Request |-> request'[x]]
        /\ \A x \in Request : x # r => request'[x] = request[x]
    BY <1>1 DEF WeatherIInv
  <1>3. Right(Idle, clock)
    BY DEF Right, Idle
  <1>4. QED
    BY <1>1, <1>2, <1>3 DEF WeatherIInv, CacheIsBounded

LEMMA WeatherInvariance == WeatherSpec => []WeatherIInv
  <1>1. WeatherIInv /\ [WeatherNext]_weatherVars => WeatherIInv'
    <2> SUFFICES ASSUME WeatherIInv, [WeatherNext]_weatherVars PROVE WeatherIInv'
      OBVIOUS
    <2>1. CASE UNCHANGED weatherVars
      BY <2>1 DEF weatherVars, WeatherIInv, CacheIsBounded
    <2>2. QED
      BY <2>1, TickKeeps, AskKeeps, FetchedKeeps, FailedKeeps DEF WeatherNext
  <1>2. QED
    BY <1>1, WeatherInitHolds, PTL DEF WeatherSpec

\* The clock, the entries and the requests keep their types.
THEOREM WeatherTypeCorrect == WeatherSpec => []WeatherTypeOK
  <1>1. WeatherIInv => WeatherTypeOK
    BY DEF WeatherIInv, WeatherTypeOK, Right, Says, Sound
  <1>2. QED
    BY <1>1, WeatherInvariance, PTL

\* No answer out of the cache is older than its time to live, however long
\* fetches take and in whichever order those of one range end.
THEOREM NeverOld == WeatherSpec => []NoOldForecast
  <1>1. WeatherIInv => NoOldForecast
    BY DEF WeatherIInv, NoOldForecast, Right
  <1>2. QED
    BY <1>1, WeatherInvariance, PTL

\* Each day gets its own weather: the window cut out of the series of any
\* range, cached or fetched, of any length and with any hours missing, is that
\* of the day's hours which the series has a value for.
THEOREM RightDay == WeatherSpec => []WeatherOfItsDay
  <1>1. WeatherIInv => WeatherOfItsDay
    BY DEF WeatherIInv, WeatherOfItsDay, Right, Says, Known
  <1>2. QED
    BY <1>1, WeatherInvariance, PTL

\* The cache never holds more entries than its limit.
THEOREM Bounded == WeatherSpec => []CacheIsBounded
  <1>1. WeatherIInv => CacheIsBounded
    BY DEF WeatherIInv
  <1>2. QED
    BY <1>1, WeatherInvariance, PTL
=============================================================================
