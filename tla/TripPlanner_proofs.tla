------------------------- MODULE TripPlanner_proofs -------------------------
(***************************************************************************)
(* Proofs about TripPlanner, for every catalogue, arc grid, set of         *)
(* requests and bound.                                                     *)
(***************************************************************************)
EXTENDS TripProperties, SequenceTheorems, FiniteSetTheorems, TLAPS

(* Sums over finite sets. The folds of the community modules are functions *)
(* defined by recursion over the subsets; what they compute is proved by   *)
(* induction over the strict subset ordering, for a family of subsets.     *)

(* A family of subsets of a finite set that holds a set whenever it holds  *)
(* all its proper subsets holds every subset.                              *)
LEMMA SubsetInduction ==
    ASSUME NEW U, IsFiniteSet(U), NEW Good,
           \A T \in SUBSET U : (\A V \in SUBSET T : V # T => V \in Good) => T \in Good
    PROVE  \A T \in SUBSET U : T \in Good
<1> DEFINE Bad == {T \in SUBSET U : T \notin Good}
           R == StrictSubsetOrdering(U)
<1>1. IsWellFoundedOn(R, SUBSET U)
  BY FS_StrictSubsetOrderingWellFounded, FS_FiniteSubsetsOfFinite
<1>2. SUFFICES ASSUME Bad # {} PROVE FALSE
  OBVIOUS
<1>3. PICK T \in Bad : \A V \in Bad : ~ (<<V, T>> \in R)
  <2> HIDE DEF R
  <2>1. Bad \subseteq SUBSET U
    OBVIOUS
  <2> HIDE DEF Bad
  <2> QED BY <1>1, <1>2, <2>1, WFMin
<1>4. \A V \in SUBSET T : V # T => V \in Good
  <2> SUFFICES ASSUME NEW V \in SUBSET T, V # T, V \notin Good PROVE FALSE
    OBVIOUS
  <2>1. V \in Bad
    OBVIOUS
  <2>2. <<V, T>> \in R
    BY <2>1 DEF StrictSubsetOrdering
  <2> QED BY <1>3, <2>1, <2>2
<1> QED BY <1>4

(* The function a sum over S is read from.                                 *)
Chosen(T) == CHOOSE x \in T : TRUE
Counts(F, f, S) == F = [T \in SUBSET S |-> IF T = {} THEN 0
                                           ELSE f[Chosen(T)] + F[T \ {Chosen(T)}]]

(* What is chosen of a set that has members is one of them.                *)
LEMMA ChosenIsMember == ASSUME NEW T, T # {} PROVE Chosen(T) \in T
BY DEF Chosen

(* Read from a larger set or from a smaller one, a sum is the same.        *)
LEMMA CountsAgree ==
    ASSUME NEW U, NEW S \in SUBSET U, IsFiniteSet(S),
           NEW f, NEW F, NEW G, Counts(F, f, S), Counts(G, f, U)
    PROVE  \A T \in SUBSET S : F[T] = G[T]
<1> DEFINE Good == {T \in SUBSET S : F[T] = G[T]}
<1>1. ASSUME NEW T \in SUBSET S, \A V \in SUBSET T : V # T => V \in Good
      PROVE  T \in Good
  <2>1. CASE T = {}
    BY <2>1 DEF Counts
  <2>2. CASE T # {}
    <3>1. Chosen(T) \in T
      BY <2>2, ChosenIsMember
    <3>2. T \ {Chosen(T)} \in Good
      BY <1>1, <3>1
    <3>3. F[T] = f[Chosen(T)] + F[T \ {Chosen(T)}]
      BY <2>2 DEF Counts
    <3>4. G[T] = f[Chosen(T)] + G[T \ {Chosen(T)}]
      BY <2>2 DEF Counts
    <3> QED BY <3>2, <3>3, <3>4
  <2> QED BY <2>1, <2>2
<1> HIDE DEF Good
<1>2. \A T \in SUBSET S : T \in Good
  BY <1>1, SubsetInduction
<1> QED BY <1>2 DEF Good

(* There is one such function at most: CHOOSE has no choice.               *)
LEMMA CountsUnique ==
    ASSUME NEW S, IsFiniteSet(S), NEW f, NEW F, NEW G, Counts(F, f, S), Counts(G, f, S)
    PROVE  F = G
<1>1. \A T \in SUBSET S : F[T] = G[T]
  <2>1. S \in SUBSET S
    OBVIOUS
  <2> HIDE DEF Counts
  <2> QED BY <2>1, CountsAgree, Z3
<1> DEFINE Step(H) == [T \in SUBSET S |-> IF T = {} THEN 0
                                 ELSE f[Chosen(T)] + H[T \ {Chosen(T)}]]
<1>2. F = Step(F) /\ G = Step(G)
  BY DEF Counts
<1>3. \A T \in SUBSET S : F[T \ {Chosen(T)}] = G[T \ {Chosen(T)}]
  BY <1>1
<1>4. Step(F) = Step(G)
  BY <1>3
<1> QED BY <1>2, <1>4

(* There is such a function: the recursion is well founded.                *)
LEMMA CountsExists ==
    ASSUME NEW S, IsFiniteSet(S), NEW f
    PROVE  \E F : Counts(F, f, S)
<1> DEFINE Good == {T \in SUBSET S : \E F : Counts(F, f, T)}
           Of(T) == CHOOSE F : Counts(F, f, T)
<1>1. ASSUME NEW T \in SUBSET S, \A V \in SUBSET T : V # T => V \in Good
      PROVE  T \in Good
  <2> DEFINE F == [V \in SUBSET T |-> IF V = {} THEN 0
                     ELSE f[Chosen(V)] + Of(V \ {Chosen(V)})[V \ {Chosen(V)}]]
  <2>1. ASSUME NEW W \in SUBSET T, W # T
        PROVE  Counts(Of(W), f, W)
    BY <1>1, <2>1
  <2>2. ASSUME NEW W \in SUBSET T, W # T
        PROVE  F[W] = Of(W)[W]
    <3>1. Counts(Of(W), f, W)
      BY <2>1, <2>2
    <3> HIDE DEF Of
    <3>2. CASE W = {}
      BY <3>1, <3>2 DEF Counts
    <3>3. CASE W # {}
      <4> DEFINE X == W \ {Chosen(W)}
      <4>1. X \in SUBSET W /\ X # T /\ IsFiniteSet(X)
        BY <3>3, ChosenIsMember, FS_Subset
      <4>2. Of(W)[W] = f[Chosen(W)] + Of(W)[X]
        BY <3>1, <3>3 DEF Counts
      <4>3. Counts(Of(X), f, X)
        BY <2>1, <4>1
      <4>4. Of(X)[X] = Of(W)[X]
        <5> HIDE DEF X
        <5> QED BY <3>1, <4>1, <4>3, CountsAgree
      <4>5. F[W] = f[Chosen(W)] + Of(X)[X]
        BY <3>3
      <4> QED BY <4>2, <4>4, <4>5
    <3> QED BY <3>2, <3>3
  <2> HIDE DEF Of
  <2>3. \A V \in SUBSET T : F[V] = IF V = {} THEN 0
                            ELSE f[Chosen(V)] + F[V \ {Chosen(V)}]
    <3> SUFFICES ASSUME NEW V \in SUBSET T, V # {}
                 PROVE  F[V] = f[Chosen(V)] + F[V \ {Chosen(V)}]
      OBVIOUS
    <3>1. V \ {Chosen(V)} \in SUBSET T /\ V \ {Chosen(V)} # T
      BY ChosenIsMember
    <3>2. F[V \ {Chosen(V)}] = Of(V \ {Chosen(V)})[V \ {Chosen(V)}]
      <4> HIDE DEF F
      <4> QED BY <2>2, <3>1
    <3> QED BY <3>2
  <2>4. F = [V \in SUBSET T |-> F[V]]
    OBVIOUS
  <2> HIDE DEF F
  <2>5. Counts(F, f, T)
    BY <2>3, <2>4 DEF Counts
  <2> QED BY <2>5
<1> HIDE DEF Good
<1>2. S \in Good
  BY <1>1, SubsetInduction
<1> QED BY <1>2 DEF Good

(* A sum unfolds one chosen element at a time, whatever set it is part of. *)
Total(f, S) == SumFunctionOnSet(f, S)

(* What the fold of the community modules computes.                        *)
LEMMA TotalIs ==
    ASSUME NEW S, IsFiniteSet(S), NEW f, NEW F, Counts(F, f, S)
    PROVE  Total(f, S) = F[S]
<1>1. \A G : Counts(G, f, S) => G = F
  BY CountsUnique
<1> QED BY <1>1 DEF Total, SumFunctionOnSet, FoldFunctionOnSet, MapThenFoldSet, Counts, Chosen

(* One element is taken off, the rest is summed.                           *)
LEMMA TotalUnfolds ==
    ASSUME NEW S, IsFiniteSet(S), NEW f
    PROVE  Total(f, S) = IF S = {} THEN 0 ELSE f[Chosen(S)] + Total(f, S \ {Chosen(S)})
<1>1. PICK F : Counts(F, f, S)
  BY CountsExists
<1>2. Total(f, S) = F[S]
  BY <1>1, TotalIs
<1>3. CASE S = {}
  BY <1>1, <1>2, <1>3 DEF Counts
<1>4. CASE S # {}
  <2> DEFINE T == S \ {Chosen(S)}
  <2>1. IsFiniteSet(T) /\ T \subseteq S
    BY FS_Subset
  <2>2. F[S] = f[Chosen(S)] + F[T]
    BY <1>1, <1>4 DEF Counts
  <2> HIDE DEF T
  <2>3. PICK G : Counts(G, f, T)
    BY <2>1, CountsExists
  <2>4. Total(f, T) = G[T]
    BY <2>1, <2>3, TotalIs
  <2>5. G[T] = F[T]
    BY <1>1, <2>1, <2>3, CountsAgree
  <2> QED BY <1>2, <1>4, <2>2, <2>4, <2>5 DEF T
<1> QED BY <1>3, <1>4

(* Nothing adds up to zero.                                                *)
LEMMA TotalOfNone == ASSUME NEW f PROVE Total(f, {}) = 0
BY TotalUnfolds, FS_EmptySet

(* A sum of naturals is a natural.                                         *)
LEMMA TotalType ==
    ASSUME NEW S, IsFiniteSet(S), NEW f, \A x \in S : f[x] \in Nat
    PROVE  \A T \in SUBSET S : Total(f, T) \in Nat
<1> DEFINE Good == {T \in SUBSET S : Total(f, T) \in Nat}
<1>1. ASSUME NEW T \in SUBSET S, \A V \in SUBSET T : V # T => V \in Good
      PROVE  T \in Good
  <2>1. IsFiniteSet(T)
    BY FS_Subset
  <2>2. CASE T = {}
    BY <2>2, TotalOfNone
  <2>3. CASE T # {}
    <3>1. Chosen(T) \in T
      BY <2>3, ChosenIsMember
    <3>2. T \ {Chosen(T)} \in Good
      BY <1>1, <3>1
    <3>3. Total(f, T) = f[Chosen(T)] + Total(f, T \ {Chosen(T)})
      BY <2>1, <2>3, TotalUnfolds
    <3> QED BY <3>1, <3>2, <3>3
  <2> QED BY <2>2, <2>3
<1> HIDE DEF Good
<1>2. \A T \in SUBSET S : T \in Good
  BY <1>1, SubsetInduction
<1> QED BY <1>2 DEF Good

(* Any element can be taken out of a sum first.                            *)
LEMMA TotalRemoves ==
    ASSUME NEW S, IsFiniteSet(S), NEW f, \A x \in S : f[x] \in Nat
    PROVE  \A T \in SUBSET S : \A x \in T : Total(f, T) = f[x] + Total(f, T \ {x})
<1> DEFINE Good == {T \in SUBSET S : \A x \in T : Total(f, T) = f[x] + Total(f, T \ {x})}
<1>1. ASSUME NEW T \in SUBSET S, \A V \in SUBSET T : V # T => V \in Good
      PROVE  T \in Good
  <2> SUFFICES ASSUME NEW x \in T, x # Chosen(T)
               PROVE  Total(f, T) = f[x] + Total(f, T \ {x})
    <3>1. IsFiniteSet(T)
      BY FS_Subset
    <3> QED BY <3>1, TotalUnfolds
  <2> DEFINE c == Chosen(T)
             W == (T \ {c}) \ {x}
  <2>1. IsFiniteSet(T) /\ c \in T
    BY FS_Subset, ChosenIsMember
  <2>2. T \ {c} \in Good /\ T \ {x} \in Good
    BY <1>1, <2>1
  <2>3. Total(f, T) = f[c] + Total(f, T \ {c})
    BY <2>1, TotalUnfolds
  <2>4. Total(f, T \ {c}) = f[x] + Total(f, W)
    BY <2>2
  <2>5. Total(f, T \ {x}) = f[c] + Total(f, W)
    <3>1. W = (T \ {x}) \ {c}
      OBVIOUS
    <3> QED BY <2>1, <2>2, <3>1
  <2>6. Total(f, W) \in Nat /\ f[c] \in Nat /\ f[x] \in Nat
    BY <2>1, TotalType
  <2> HIDE DEF c, W
  <2> QED BY <2>3, <2>4, <2>5, <2>6
<1> HIDE DEF Good
<1>2. \A T \in SUBSET S : T \in Good
  BY <1>1, SubsetInduction
<1> QED BY <1>2 DEF Good

(* A sum of natural numbers over part of a set is at most the whole sum.   *)
LEMMA TotalOfPart ==
    ASSUME NEW S, IsFiniteSet(S), NEW f, \A x \in S : f[x] \in Nat, NEW V \in SUBSET S
    PROVE  Total(f, V) <= Total(f, S)
<1> DEFINE Good == {T \in SUBSET S : V \subseteq T => Total(f, V) <= Total(f, T)}
<1>1. ASSUME NEW T \in SUBSET S, \A W \in SUBSET T : W # T => W \in Good
      PROVE  T \in Good
  <2> SUFFICES ASSUME V \subseteq T, V # T PROVE Total(f, V) <= Total(f, T)
    <3>1. Total(f, V) \in Nat
      BY TotalType
    <3> QED BY <3>1
  <2>1. PICK x \in T : x \notin V
    OBVIOUS
  <2>2. T \ {x} \in Good
    BY <1>1
  <2>3. Total(f, T) = f[x] + Total(f, T \ {x})
    BY TotalRemoves
  <2>4. Total(f, V) \in Nat /\ Total(f, T \ {x}) \in Nat /\ f[x] \in Nat
    BY TotalType
  <2> QED BY <2>1, <2>2, <2>3, <2>4
<1> HIDE DEF Good
<1>2. S \in Good
  BY <1>1, SubsetInduction
<1> QED BY <1>2 DEF Good

(* Sums over two ways of naming the same summands are equal.               *)
LEMMA TotalRenamed ==
    ASSUME NEW S, IsFiniteSet(S), NEW U, IsFiniteSet(U), NEW f, NEW g,
           \A x \in U : f[x] \in Nat,
           NEW h \in [S -> U],
           \A x, y \in S : h[x] = h[y] => x = y,
           \A y \in U : \E x \in S : h[x] = y,
           \A x \in S : g[x] = f[h[x]]
    PROVE  Total(g, S) = Total(f, U)
<1> DEFINE Img(T) == {h[x] : x \in T}
           Good == {T \in SUBSET S : Total(g, T) = Total(f, Img(T))}
<1>0. \A x \in S : g[x] \in Nat
  OBVIOUS
<1>1. ASSUME NEW T \in SUBSET S, \A W \in SUBSET T : W # T => W \in Good
      PROVE  T \in Good
  <2>1. CASE T = {}
    <3>1. Img(T) = {}
      BY <2>1
    <3> QED BY <2>1, <3>1, TotalOfNone
  <2>2. CASE T # {}
    <3>1. PICK x \in T : TRUE
      BY <2>2
    <3>2. T \ {x} \in Good
      BY <1>1
    <3>3. Total(g, T) = g[x] + Total(g, T \ {x})
      BY <1>0, TotalRemoves
    <3>4. Img(T) \subseteq U /\ h[x] \in Img(T) /\ Img(T \ {x}) = Img(T) \ {h[x]}
      OBVIOUS
    <3>5. Total(f, Img(T)) = f[h[x]] + Total(f, Img(T) \ {h[x]})
      <4> HIDE DEF Img
      <4> QED BY <3>4, TotalRemoves
    <3> HIDE DEF Img
    <3> QED BY <3>2, <3>3, <3>4, <3>5
  <2> QED BY <2>1, <2>2
<1> HIDE DEF Good
<1>2. S \in Good
  BY <1>1, SubsetInduction
<1>3. Img(S) = U
  OBVIOUS
<1> QED BY <1>2, <1>3 DEF Good

(* The sum of two kinds of summands is the sum of their sums.              *)
LEMMA TotalAdds ==
    ASSUME NEW S, IsFiniteSet(S), NEW f, NEW g, NEW s,
           \A x \in S : f[x] \in Nat /\ g[x] \in Nat /\ s[x] = f[x] + g[x]
    PROVE  Total(s, S) = Total(f, S) + Total(g, S)
<1> DEFINE Good == {T \in SUBSET S : Total(s, T) = Total(f, T) + Total(g, T)}
<1>0. \A x \in S : s[x] \in Nat
  OBVIOUS
<1>1. ASSUME NEW T \in SUBSET S, \A W \in SUBSET T : W # T => W \in Good
      PROVE  T \in Good
  <2>1. CASE T = {}
    <3>1. Total(s, {}) = 0 /\ Total(f, {}) = 0 /\ Total(g, {}) = 0
      BY TotalOfNone
    <3> QED BY <2>1, <3>1
  <2>2. CASE T # {}
    <3>1. PICK x \in T : TRUE
      BY <2>2
    <3>2. T \ {x} \in Good
      BY <1>1
    <3>3. /\ Total(s, T) = s[x] + Total(s, T \ {x})
          /\ Total(f, T) = f[x] + Total(f, T \ {x})
          /\ Total(g, T) = g[x] + Total(g, T \ {x})
      BY <1>0, TotalRemoves
    <3>4. Total(f, T \ {x}) \in Nat /\ Total(g, T \ {x}) \in Nat
      BY TotalType
    <3> QED BY <3>2, <3>3, <3>4
  <2> QED BY <2>1, <2>2
<1> HIDE DEF Good
<1>2. S \in Good
  BY <1>1, SubsetInduction
<1> QED BY <1>2 DEF Good

(* The sums of the model are such totals.                                  *)
LEMMA VisitSum ==
    ASSUME NEW S, IsFiniteSet(S), NEW s, NEW f, \A p \in S : f[p] = VisitCost(p, s)
    PROVE  MapThenSumSet(LAMBDA p : VisitCost(p, s), S) = Total(f, S)
<1> DEFINE Step(F, T) == IF T = {} THEN 0
                         ELSE VisitCost(Chosen(T), s) + F[T \ {Chosen(T)}]
<1>1. PICK F : Counts(F, f, S)
  BY CountsExists
<1>2. \A G : Counts(G, f, S) <=> G = [T \in SUBSET S |-> Step(G, T)]
  <2>1. \A T \in SUBSET S : T # {} => f[Chosen(T)] = VisitCost(Chosen(T), s)
    BY ChosenIsMember
  <2> QED BY <2>1 DEF Counts
<1>3. \A G : G = [T \in SUBSET S |-> Step(G, T)] => G = F
  BY <1>1, <1>2, CountsUnique
<1>4. MapThenSumSet(LAMBDA p : VisitCost(p, s), S) = F[S]
  BY <1>1, <1>2, <1>3 DEF MapThenSumSet, MapThenFoldSet, Chosen
<1> QED BY <1>1, <1>4, TotalIs

(* Fares over legs are such a total.                                       *)
LEMMA ArcSum ==
    ASSUME NEW S, IsFiniteSet(S), NEW f, \A e \in S : f[e] = Arc[e].cost
    PROVE  MapThenSumSet(LAMBDA e : Arc[e].cost, S) = Total(f, S)
<1> DEFINE Step(F, T) == IF T = {} THEN 0
                         ELSE Arc[Chosen(T)].cost + F[T \ {Chosen(T)}]
<1>1. PICK F : Counts(F, f, S)
  BY CountsExists
<1>2. \A G : Counts(G, f, S) <=> G = [T \in SUBSET S |-> Step(G, T)]
  <2>1. \A T \in SUBSET S : T # {} => f[Chosen(T)] = Arc[Chosen(T)].cost
    BY ChosenIsMember
  <2> QED BY <2>1 DEF Counts
<1>3. \A G : G = [T \in SUBSET S |-> Step(G, T)] => G = F
  BY <1>1, <1>2, CountsUnique
<1> DEFINE W == CHOOSE G : G = [T \in SUBSET S |-> Step(G, T)]
<1>4. MapThenSumSet(LAMBDA e : Arc[e].cost, S) = W[S]
  BY DEF MapThenSumSet, MapThenFoldSet, Chosen
<1>5. W = F
  <2> HIDE DEF Step
  <2> QED BY <1>1, <1>2, <1>3
<1> QED BY <1>1, <1>4, <1>5, TotalIs

(* So is what the validator adds up over the stops.                        *)
LEMMA FactSum ==
    ASSUME NEW facts, IsFiniteSet(DOMAIN facts), NEW f,
           \A k \in DOMAIN facts : f[k] = facts[k].cost + facts[k].legCost
    PROVE  SumOver(facts, LAMBDA s : s.cost + s.legCost) = Total(f, DOMAIN facts)
<1> DEFINE S == DOMAIN facts
           Step(F, T) == IF T = {} THEN 0
                         ELSE facts[Chosen(T)].cost + facts[Chosen(T)].legCost
                              + F[T \ {Chosen(T)}]
<1>1. PICK F : Counts(F, f, S)
  BY CountsExists
<1>2. \A G : Counts(G, f, S) <=> G = [T \in SUBSET S |-> Step(G, T)]
  <2>1. \A T \in SUBSET S : T # {} =>
           f[Chosen(T)] = facts[Chosen(T)].cost + facts[Chosen(T)].legCost
    BY ChosenIsMember
  <2> QED BY <2>1 DEF Counts
<1>3. \A G : G = [T \in SUBSET S |-> Step(G, T)] => G = F
  BY <1>1, <1>2, CountsUnique
<1> DEFINE W == CHOOSE G : G = [T \in SUBSET S |-> Step(G, T)]
<1>4. SumOver(facts, LAMBDA s : s.cost + s.legCost) = W[S]
  BY DEF SumOver, MapThenSumSet, MapThenFoldSet, Chosen
<1>5. W = F
  <2> HIDE DEF Step
  <2> QED BY <1>1, <1>2, <1>3
<1> QED BY <1>1, <1>4, <1>5, TotalIs

(* A sum of no summands is zero, whatever is added up.                     *)
LEMMA NothingToCount == StopCount({}) = 0
<1> DEFINE Z == [T \in SUBSET {} |-> 0]
           Rec(G) == G = [T \in SUBSET {} |-> IF T = {} THEN 0
               ELSE (CHOOSE x \in T : TRUE).count + G[T \ {CHOOSE x \in T : TRUE}]]
<1>1. Rec(Z)
  OBVIOUS
<1>2. \A G : Rec(G) => G = Z
  OBVIOUS
<1> HIDE DEF Z
<1>3. StopCount({}) = Z[{}]
  BY <1>1, <1>2 DEF StopCount, MapThenSumSet, MapThenFoldSet
<1> QED BY <1>3 DEF Z

(* No MUST, no price.                                                      *)
LEMMA NothingToPay == ASSUME NEW found PROVE LowestCost({}, found) = 0
<1> DEFINE Z == [T \in SUBSET {} |-> 0]
           Rec(G) == G = [T \in SUBSET {} |-> IF T = {} THEN 0
               ELSE (CHOOSE x \in T : TRUE).count
                    * MinCost(found[(CHOOSE x \in T : TRUE).cat])
                    + G[T \ {CHOOSE x \in T : TRUE}]]
<1>1. Rec(Z)
  OBVIOUS
<1>2. \A G : Rec(G) => G = Z
  OBVIOUS
<1> HIDE DEF Z
<1>3. LowestCost({}, found) = Z[{}]
  BY <1>1, <1>2 DEF LowestCost, MapThenSumSet, MapThenFoldSet
<1> QED BY <1>3 DEF Z

(* No MUST, no time.                                                       *)
LEMMA NoTimeNeeded ==
    ASSUME NEW found, NEW supplied PROVE LowestMinutes100({}, supplied, found) = 0
<1> DEFINE Z == [T \in SUBSET {} |-> 0]
           Cost(i) == i.count *
                    IF i \in supplied
                    THEN 100 * MinVisit(found[i.cat]) + 324 * Nearest(found[i.cat])
                    ELSE 100 * DefaultVisit[i.cat]
           Rec(G) == G = [T \in SUBSET {} |-> IF T = {} THEN 0
               ELSE Cost(CHOOSE x \in T : TRUE) + G[T \ {CHOOSE x \in T : TRUE}]]
<1>1. Rec(Z)
  OBVIOUS
<1>2. \A G : Rec(G) => G = Z
  OBVIOUS
<1> HIDE DEF Z
<1>3. LowestMinutes100({}, supplied, found) = Z[{}]
  BY <1>1, <1>2 DEF LowestMinutes100, MapThenSumSet, MapThenFoldSet
<1> QED BY <1>3 DEF Z

----------------------------------------------------------------------------
(* The relaxation ladder and the check.                                    *)

(* Dropping optional interests leaves the MUSTs as they were.              *)
LEMMA DropNiceKeepsMusts ==
    ASSUME NEW ints \in SUBSET Interest
    PROVE  /\ DropNice(ints) \in SUBSET Interest
           /\ {i \in DropNice(ints) : i.prio = "must"} = {i \in ints : i.prio = "must"}
BY DEF DropNice, Interest

(* So does reducing the counts of preferred ones.                          *)
LEMMA ReduceShouldKeepsMusts ==
    ASSUME NEW ints \in SUBSET Interest
    PROVE  /\ ReduceShould(ints) \in SUBSET Interest
           /\ {i \in ReduceShould(ints) : i.prio = "must"} = {i \in ints : i.prio = "must"}
<1>1. \A i \in ints : i.prio = "should" =>
         [i EXCEPT !.count = 1] \in Interest /\ [i EXCEPT !.count = 1].prio = "should"
  BY DEF Interest
<1>2. ReduceShould(ints) \in SUBSET Interest
  BY <1>1 DEF ReduceShould
<1>3. ASSUME NEW i \in ReduceShould(ints), i.prio = "must"
      PROVE  i \in ints
  BY <1>1, <1>3 DEF ReduceShould
<1>4. ASSUME NEW i \in ints, i.prio = "must"
      PROVE  i \in ReduceShould(ints)
  BY <1>4 DEF ReduceShould
<1> QED BY <1>2, <1>3, <1>4

(* Relaxing a request automatically changes its interests only, and none   *)
(* of its MUSTs.                                                           *)
LEMMA RelaxKeepsMusts ==
    ASSUME NEW s \in TripSpec, NEW steps
    PROVE  /\ Relax(s, steps) \in TripSpec
           /\ Musts(Relax(s, steps)) = Musts(s)
           /\ Relax(s, steps).avoid = s.avoid
           /\ Relax(s, steps).require = s.require
           /\ Relax(s, steps).start = s.start /\ Relax(s, steps).end = s.end
           /\ Relax(s, steps).budget = s.budget /\ Relax(s, steps).party = s.party
           /\ Relax(s, steps).vehicle = s.vehicle
<1> DEFINE kept == IF "drop_nice" \in steps THEN DropNice(s.interests) ELSE s.interests
           ints == IF "reduce_should_counts" \in steps THEN ReduceShould(kept) ELSE kept
<1>1. s.interests \in SUBSET Interest
  BY DEF TripSpec
<1>2. kept \in SUBSET Interest /\ {i \in kept : i.prio = "must"} = Musts(s)
  BY <1>1, DropNiceKeepsMusts DEF Musts
<1>3. ints \in SUBSET Interest /\ {i \in ints : i.prio = "must"} = Musts(s)
  <2> HIDE DEF kept
  <2> QED BY <1>2, ReduceShouldKeepsMusts
<1>4. Relax(s, steps) = [s EXCEPT !.interests = ints]
  BY DEF Relax
<1> HIDE DEF ints
<1>5. [s EXCEPT !.interests = ints] \in TripSpec
  BY <1>3 DEF TripSpec
<1>6. [s EXCEPT !.interests = ints].interests = ints
  BY DEF TripSpec
<1>7. Musts(Relax(s, steps)) = Musts(s)
  BY <1>3, <1>4, <1>6 DEF Musts
<1> QED BY <1>4, <1>5, <1>7 DEF TripSpec

(* The check reads the window, the budget, the party, whether a vehicle is *)
(* allowed and the MUSTs: requests that agree on them fare alike.          *)
LEMMA CheckReadsMustsOnly ==
    ASSUME NEW s, NEW t, NEW found, NEW h, NEW wet,
           Musts(s) = Musts(t), s.start = t.start, s.end = t.end,
           s.budget = t.budget, s.party = t.party, s.vehicle = t.vehicle
    PROVE  Violated(s, found, h, wet) = Violated(t, found, h, wet)
<1>1. Supplied(s, found) = Supplied(t, found)
  BY DEF Supplied
<1>2. LegCount(s) = LegCount(t)
  BY DEF LegCount
<1>3. TotalRequired100(s, found) = TotalRequired100(t, found)
  BY <1>1 DEF TotalRequired100
<1>4. MinTripCost(s, found) = MinTripCost(t, found)
  BY <1>1, <1>2 DEF MinTripCost
<1>5. \A amount : WithinBudget(amount, s) <=> WithinBudget(amount, t)
  BY DEF WithinBudget
<1> QED BY <1>1, <1>3, <1>4, <1>5 DEF Violated

(* What the automatic relaxations leave is as infeasible as it was.        *)
LEMMA RelaxingNeverHelps ==
    ASSUME NEW s \in TripSpec, NEW steps, NEW found, NEW h, NEW wet
    PROVE  Violated(Relax(s, steps), found, h, wet) = Violated(s, found, h, wet)
BY RelaxKeepsMusts, CheckReadsMustsOnly

----------------------------------------------------------------------------
(* Type correctness.                                                       *)

(* Requests are TripSpecs.                                                 *)
LEMMA RequestsAreTripSpecs == ASSUME NEW r \in Requests PROVE r \in TripSpec
BY TripPlannerAssumption

(* How long a visit lasts is a number.                                     *)
LEMMA VisitMinutesType ==
    ASSUME NEW s \in TripSpec, NEW p \in Poi
    PROVE  VisitMinutes(p, s) \in Int
<1>1. Place[p].visit \in Nat
  BY PlacesAssumption DEF PlaceRecord
<1>2. s.mode \in {"balanced", "quick", "relaxed"}
  BY DEF TripSpec, PlanningMode
<1>3. Mode[s.mode].visit \in Nat
  BY <1>2 DEF Mode
<1> QED BY <1>1, <1>3 DEF VisitMinutes, Bigger

(* The solver chooses arrivals among whole minutes.                        *)
LEMMA ArrivalsType == ASSUME NEW s \in TripSpec PROVE Arrivals(s) \subseteq Int
<1>1. s.start \in MinuteOfDay /\ s.end \in MinuteOfDay
  BY DEF TripSpec
<1>2. MinuteOfDay \subseteq Int
  BY DEF MinuteOfDay
<1>3. s.start \in Int /\ s.end \in Int
  BY <1>1, <1>2, Zenon
<1>4. \A a, b \in Int : (b - a) \div Granule \in Int
  BY OptimizerAssumption
<1>5. \A a, m \in Int : a + m * Granule \in Int
  BY OptimizerAssumption
<1>6. \A x \in Arrivals(s) : \E m \in Int : x = s.start + m * Granule
  BY <1>3, <1>4 DEF Arrivals
<1> QED BY <1>3, <1>5, <1>6

(* Whatever the solver returns is a sequence of stops at known places.     *)
LEMMA SolutionsAreTours ==
    ASSUME NEW p, p.cand \subseteq Poi, p.spec \in TripSpec, NEW t \in Solutions(p)
    PROVE  t \in Seq(Stop)
<1>0. PICK n \in 0..TourLength :
        \E order \in Orders(p.cand, n), at \in [1..n -> Arrivals(p.spec)] :
            t = Timed(order, at, p.spec)
  BY DEF Solutions
<1>1. PICK order \in Orders(p.cand, n), at \in [1..n -> Arrivals(p.spec)] :
        t = Timed(order, at, p.spec)
  BY <1>0
<1>2. order \in [1..n -> Poi]
  BY DEF Orders
<1>3. Arrivals(p.spec) \subseteq Int
  BY ArrivalsType
<1>4. \A k \in 1..n : [poi |-> order[k], arrive |-> at[k],
                       depart |-> at[k] + VisitMinutes(order[k], p.spec)] \in Stop
  BY <1>2, <1>3, VisitMinutesType DEF Stop
<1>5. t \in [1..n -> Stop]
  BY <1>1, <1>2, <1>4 DEF Timed
<1>6. n \in Nat
  BY OptimizerAssumption
<1> QED BY <1>5, <1>6

(* A tour visits places of the catalogue.                                  *)
LEMMA PlacesOfATour == ASSUME NEW t \in Seq(Stop) PROVE PoisOf(t) \subseteq Poi
<1>1. \A k \in DOMAIN t : t[k] \in Stop
  OBVIOUS
<1>2. \A s \in Stop : s.poi \in Poi
  BY DEF Stop
<1> QED BY <1>1, <1>2 DEF PoisOf

(* The fields of a TripSpec that say what, where and for how long.         *)
LEMMA SpecFields ==
    ASSUME NEW s \in TripSpec
    PROVE  /\ s.avoid \subseteq Poi /\ s.require \subseteq Poi
           /\ s.days \in 1..7
           /\ Wanted(s) \subseteq Category
<1>1. s.days \in DayCount /\ s.interests \in SUBSET Interest
      /\ s.avoid \in SUBSET Poi /\ s.require \in SUBSET Poi
  BY DEF TripSpec
<1>2. \A i \in s.interests : i.cat \in Category
  BY <1>1 DEF Interest
<1> QED BY <1>1, <1>2 DEF DayCount, Wanted

(* Each day's request is the trip's, on its own date and with more to      *)
(* avoid.                                                                  *)
LEMMA DaySpecType ==
    ASSUME req \in TripSpec, used \subseteq Poi, Len(days_out) \in Nat
    PROVE  DaySpec \in TripSpec /\ DaySpec.avoid = used
<1>1. 1 \in DayCount
  BY DEF DayCount
<1> DEFINE d == req.date + Len(days_out)
<1>2. d \in Int
  BY DEF TripSpec
<1>3. DaySpec = [req EXCEPT !.date = d, !.days = 1, !.avoid = used]
  BY DEF DaySpec
<1> HIDE DEF d
<1>4. [req EXCEPT !.date = d, !.days = 1, !.avoid = used] \in TripSpec
  BY <1>1, <1>2 DEF TripSpec
<1>5. [req EXCEPT !.date = d, !.days = 1, !.avoid = used].avoid = used
  BY DEF TripSpec
<1> QED BY <1>3, <1>4, <1>5

(* A request that has just arrived is of its kind.                         *)
LEMMA InitTypeOK == Init => TypeOK
<1> SUFFICES ASSUME Init PROVE TypeOK
  OBVIOUS
<1>1. req \in Requests /\ req \in TripSpec /\ req.avoid \subseteq Poi /\ req.days \in 1..7
  BY RequestsAreTripSpecs, SpecFields DEF Init
<1> QED BY <1>1, TripPlannerAssumption DEF Init, TypeOK, Stages

(* A refusal or a report extends the answer by one well-formed entry.      *)
LEMMA AnswerTypeOK ==
    ASSUME TypeOK, Len(days_out) < req.days, NEW code \in Codes, Answer(code)
    PROVE  TypeOK'
<1>1. PoisOf(tour) \subseteq Poi
  BY PlacesOfATour DEF TypeOK
<1>2. days_out' \in Seq([code : Codes, pois : SUBSET Poi])
      /\ Len(days_out') = Len(days_out) + 1
  BY <1>1 DEF TypeOK, Answer
<1>3. req \in TripSpec /\ req.days \in 1..7
  BY RequestsAreTripSpecs, SpecFields DEF TypeOK
<1>4. Len(days_out) \in Nat
  BY DEF TypeOK
<1>5. Len(days_out') <= req'.days
  BY <1>2, <1>3, <1>4 DEF Answer
<1> QED BY <1>1, <1>2, <1>3, <1>5 DEF TypeOK, Answer, Stages, table

(* What a search found are places of the catalogue, matched to categories. *)
LEMMA FlatType ==
    ASSUME TypeOK, stage = "rank"
    PROVE  Flat \subseteq Poi /\ Matchings \subseteq Matching
<1>1. Flat \in SUBSET Poi
  BY DEF Flat, Searched, TypeOK
<1>2. ASSUME NEW m \in Matchings
      PROVE  m \in [Flat -> Category]
  BY DEF Matchings, Searched, TypeOK
<1> QED BY <1>1, <1>2 DEF Matching

(* No step of the pipeline leaves the types.                               *)
LEMMA NextTypeOK == TypeOK /\ [Next]_vars => TypeOK'
<1> SUFFICES ASSUME TypeOK, [Next]_vars PROVE TypeOK'
  OBVIOUS
<1> USE DEF Stages, Running
<1>0. req \in TripSpec /\ req.days \in 1..7 /\ Len(days_out) \in Nat
  BY RequestsAreTripSpecs, SpecFields DEF TypeOK
<1>1. CASE FetchWeather
  BY <1>1 DEF FetchWeather, local, table, TypeOK
<1>2. CASE StartDay
  <2>1. DaySpec \in TripSpec
    BY <1>0, DaySpecType DEF TypeOK
  <2> QED BY <1>2, <2>1 DEF StartDay, trip, table, TypeOK
<1>3. CASE RefuseSemantics
  BY <1>3, AnswerTypeOK DEF RefuseSemantics, Codes
<1>4. CASE Search
  <2>1. Wanted(spec) \subseteq Category
    BY SpecFields DEF TypeOK
  <2>2. \A c : SearchCategory(c) \subseteq Poi
    BY DEF SearchCategory
  <2>3. PICK c \in Wanted(spec) \ Searched :
           pool' = [found |-> [x \in Searched \cup {c} |->
                                 IF x = c THEN SearchCategory(c) ELSE pool.found[x]],
                    hours |-> [x \in Searched \cup {c} |->
                                 IF x = c THEN hours ELSE pool.hours[x]]]
    BY <1>4 DEF Search
  <2>4. /\ Searched \subseteq Category
        /\ \A x \in Searched : pool.found[x] \subseteq Poi
    BY <1>4 DEF Search, Searched, TypeOK
  <2>5. /\ DOMAIN pool'.found \subseteq Category
        /\ \A x \in DOMAIN pool'.found : pool'.found[x] \subseteq Poi
    BY <2>1, <2>2, <2>3, <2>4
  <2>6. stage' \in {"search", "precheck"} /\ stage = "search"
    BY <1>4 DEF Search
  <2> QED BY <1>4, <2>5, <2>6 DEF Search, trip, table, TypeOK
<1>5. CASE PassPrecheck
  <2>1. Relaxed \in TripSpec
    BY RelaxKeepsMusts DEF Relaxed, TypeOK
  <2>2. AutoSteps \subseteq {"drop_nice", "reduce_should_counts", "widen_radius"}
    BY DEF AutoSteps, AutoRelaxations
  <2> QED BY <1>5, <2>1, <2>2 DEF PassPrecheck, trip, table, TypeOK
<1>6. CASE RefuseInfeasible
  BY <1>6, AnswerTypeOK DEF RefuseInfeasible, Codes, TypeOK
<1>7. CASE RefuseNoCandidates
  BY <1>7, AnswerTypeOK DEF RefuseNoCandidates, Codes, TypeOK
<1>8. CASE RefusePin
  BY <1>8, AnswerTypeOK DEF RefusePin, Codes, TypeOK
<1>9. CASE Rank
  <2>1. Flat \subseteq Poi /\ Matchings \subseteq Matching
    BY <1>9, FlatType DEF Rank
  <2>2. spec.require \subseteq Poi
    BY SpecFields DEF TypeOK
  <2>3. PICK ranked \in kSubset(Smaller(CandidateLimit, Cardinality(Flat)), Flat),
             m \in Matchings :
          \E weakest \in kSubset(Smaller(Cardinality(spec.require \ ranked),
                                          Cardinality(ranked)), ranked) :
            prob' = [spec |-> spec,
                     cand |-> (spec.require \ ranked) \cup (ranked \ weakest),
                     pinned |-> spec.require \ ranked, cat |-> m,
                     hours |-> HoursSeen(m)]
    BY <1>9 DEF Rank
  <2>4. ranked \subseteq Poi
    BY <2>1 DEF kSubset
  <2>5. prob'.spec = spec /\ prob'.cand \subseteq Poi /\ prob'.cat \in Matching
    BY <2>1, <2>2, <2>3, <2>4
  <2> QED BY <1>9, <2>5 DEF Rank, trip, table, TypeOK
<1>10. CASE BuildArcs
  BY <1>10 DEF BuildArcs, trip, local, table, TypeOK
<1>11. CASE RefuseRouting
  BY <1>11, AnswerTypeOK DEF RefuseRouting, Codes, TypeOK
<1>12. CASE Optimize
  <2>1. tour' \in Solutions(prob)
    BY <1>12 DEF Optimize, Returned, Optimal
  <2>2. prob.cand \subseteq Poi /\ prob.spec \in TripSpec
    BY <1>12 DEF Optimize, TypeOK
  <2>3. tour' \in Seq(Stop)
    BY <2>1, <2>2, SolutionsAreTours
  <2> QED BY <1>12, <2>3 DEF Optimize, trip, table, TypeOK
<1>13. CASE RefuseUnsolved
  BY <1>13, AnswerTypeOK DEF RefuseUnsolved, Codes, TypeOK
<1>14. CASE ReadHours \/ Validate
  BY <1>14 DEF ReadHours, Validate, trip, local, table, TypeOK
<1>15. CASE RefuseInvalid
  BY <1>15, AnswerTypeOK DEF RefuseInvalid, Codes, TypeOK
<1>16. CASE Persist
  <2>1. Day \in 1..7
    <3>1. Len(days_out) < req.days
      BY <1>16 DEF Persist, TypeOK
    <3>2. \A n \in Nat, m \in 1..7 : n < m => n + 1 \in 1..7
      OBVIOUS
    <3> QED BY <1>0, <3>1, <3>2 DEF Day
  <2>2. [day |-> Day, tour |-> tour, cat |-> prob.cat]
          \in [day : 1..7, tour : Seq(Stop), cat : Matching]
    BY <1>16, <2>1 DEF Persist, TypeOK
  <2>3. saved' \in Seq([day : 1..7, tour : Seq(Stop), cat : Matching])
    BY <1>16, <2>2 DEF Persist, TypeOK
  <2> QED BY <1>16, <2>3 DEF Persist, trip, local, table, TypeOK
<1>17. CASE ReportDay
  BY <1>17, AnswerTypeOK DEF ReportDay, Codes, TypeOK
<1>18. CASE Finish
  BY <1>18 DEF Finish, trip, local, table, TypeOK
<1>19. CASE Abort
  <2>1. days_out' = <<>> /\ stage' = "aborted" /\ req' = req
    BY <1>19 DEF Abort
  <2>2. days_out' \in Seq([code : Codes, pois : SUBSET Poi]) /\ Len(days_out') <= req'.days
    BY <1>0, <2>1
  <2> QED BY <1>19, <2>1, <2>2 DEF Abort, local, table, TypeOK
<1>20. CASE ReloadHours
  BY <1>20, TripPlannerAssumption DEF ReloadHours, trip, local, TypeOK
<1>21. CASE UNCHANGED vars
  BY <1>21 DEF vars, TypeOK
<1> QED
  BY <1>1, <1>2, <1>3, <1>4, <1>5, <1>6, <1>7, <1>8, <1>9, <1>10, <1>11, <1>12,
     <1>13, <1>14, <1>15, <1>16, <1>17, <1>18, <1>19, <1>20, <1>21 DEF Next, Handler

(* Every reachable state of every instance is well typed; in particular no *)
(* trip answers for more days than were asked.                             *)
THEOREM TypeCorrect == Spec => []TypeOK
BY InitTypeOK, NextTypeOK, PTL DEF Spec

----------------------------------------------------------------------------
(* The automatic relaxations never rescue a request.                       *)

(* When the relaxed request passes, there was nothing to relax.            *)
LEMMA PassedUnrelaxed == ASSUME TypeOK, PassPrecheck PROVE AutoSteps = {}
<1>1. DayViolations(Relaxed) = DayViolations(spec)
  BY RelaxingNeverHelps DEF DayViolations, Relaxed, TypeOK
<1>2. DayViolations(Relaxed) = {}
  BY DEF PassPrecheck
<1> QED BY <1>1, <1>2 DEF AutoSteps

(* relaxations_applied of every plan ever returned is empty.               *)
THEOREM NeverRelaxed == Spec => []NothingPlannedRelaxed
<1>1. Init => NothingPlannedRelaxed
  BY DEF Init, NothingPlannedRelaxed
<1>2. TypeOK /\ NothingPlannedRelaxed /\ [Next]_vars => NothingPlannedRelaxed'
  <2> SUFFICES ASSUME TypeOK, applied = {}, [Next]_vars PROVE applied' = {}
    BY DEF NothingPlannedRelaxed
  <2>1. CASE PassPrecheck
    BY <2>1, PassedUnrelaxed DEF PassPrecheck
  <2>2. ASSUME NEW code, Answer(code) PROVE applied' = {}
    BY <2>2 DEF Answer
  <2>3. CASE RefuseSemantics \/ RefuseInfeasible \/ RefuseNoCandidates \/ RefusePin
             \/ RefuseRouting \/ RefuseUnsolved \/ RefuseInvalid \/ ReportDay
    BY <2>2, <2>3 DEF RefuseSemantics, RefuseInfeasible, RefuseNoCandidates, RefusePin,
                      RefuseRouting, RefuseUnsolved, RefuseInvalid, ReportDay
  <2>4. CASE FetchWeather \/ StartDay \/ Search \/ Rank \/ BuildArcs \/ Optimize
             \/ ReadHours \/ Validate \/ Persist \/ Finish \/ Abort \/ ReloadHours
    BY <2>4 DEF FetchWeather, StartDay, Search, Rank, BuildArcs, Optimize, ReadHours,
                Validate, Persist, Finish, Abort, ReloadHours, local
  <2>5. CASE UNCHANGED vars
    BY <2>5 DEF vars
  <2> QED BY <2>1, <2>3, <2>4, <2>5 DEF Next, Handler
<1> QED BY <1>1, <1>2, TypeCorrect, PTL DEF Spec

----------------------------------------------------------------------------
(* No place twice in a trip, and the refinement of the abstract trip.      *)

PlanningADay == {"search", "precheck", "rank", "arcs", "optimize", "recheck",
                 "validate", "persist", "report"}
Taken == req.avoid \cup UNION {PoisOf(saved[d].tour) : d \in DOMAIN saved}

(* NoPoiRepeated is not inductive: it needs that the list the day was      *)
(* started with (used, the day's avoid) holds everything committed before, *)
(* and that the validator kept the day's tour off that list.               *)
DayInv ==
    /\ req.avoid \subseteq used
    /\ stage \in PlanningADay => spec.avoid = used
    /\ stage \in {"recheck", "validate", "persist", "report"} => tour # <<>>
    /\ stage \in {"persist", "report"} => PoisOf(tour) \cap used = {}
    /\ stage \notin {"report", "aborted"} =>
          /\ Taken \subseteq used
          /\ Len(saved) <= Len(days_out)
    /\ stage = "report" =>
          \A d \in DOMAIN saved : \/ PoisOf(saved[d].tour) \subseteq used
                                 \/ PoisOf(saved[d].tour) = PoisOf(tour)
    /\ stage = "report" => Len(saved) <= Len(days_out) + 1
    /\ NoPoiRepeated

(* A tour the validator accepted visits nothing the day has to avoid.      *)
LEMMA AcceptedAvoids == ASSUME Validate PROVE PoisOf(tour) \cap spec.avoid = {}
<1>1. PICK drifts \in BOOLEAN : Report(drifts) = {}
  BY DEF Validate
<1> DEFINE facts == Facts(drifts)
<1>2. ~ Excluded(facts, spec)
  BY <1>1 DEF Report, Findings, Rules
<1>3. DOMAIN facts = DOMAIN tour /\ \A k \in DOMAIN tour : facts[k].poi = tour[k].poi
  BY DEF Facts
<1> HIDE DEF facts
<1>4. \A k \in DOMAIN tour : tour[k].poi \notin spec.avoid
  BY <1>2, <1>3 DEF Excluded
<1> QED BY <1>4 DEF PoisOf

(* Before the first day nothing is used.                                   *)
LEMMA InitDayInv == Init => DayInv
BY DEF Init, DayInv, NoPoiRepeated, Taken, PlanningADay

(* A refused day leaves the invariant as it was.                           *)
LEMMA RefusalKeepsDayInv ==
    ASSUME TypeOK, DayInv, NEW code, code # "OK", Answer(code),
           stage \in PlanningADay \cup {"day"}, stage # "report"
    PROVE  DayInv'
<1>1. Len(days_out') = Len(days_out) + 1 /\ Len(days_out) \in Nat /\ Len(saved) \in Nat
  BY DEF Answer, TypeOK
<1>2. used' = used /\ req' = req /\ saved' = saved /\ stage' = "day"
  BY DEF Answer
<1>3. stage \notin {"report", "aborted"}
  BY DEF PlanningADay
<1>4. Taken' = Taken /\ NoPoiRepeated'
  BY <1>2 DEF Taken, NoPoiRepeated, DayInv
<1>5. req'.avoid \subseteq used' /\ Taken' \subseteq used'
  BY <1>2, <1>3, <1>4 DEF DayInv
<1>6. Len(saved') <= Len(days_out')
  BY <1>1, <1>2, <1>3 DEF DayInv
<1> QED BY <1>2, <1>4, <1>5, <1>6 DEF DayInv, PlanningADay

(* The commit adds the accepted tour, disjoint from all before it.         *)
LEMMA PersistKeepsDayInv == ASSUME TypeOK, DayInv, Persist PROVE DayInv'
<1> DEFINE row == [day |-> Day, tour |-> tour, cat |-> prob.cat]
<1>1. saved' = Append(saved, row) /\ Len(saved) \in Nat /\ row.tour = tour
  BY DEF Persist, TypeOK
<1>2. saved \in Seq([day : 1..7, tour : Seq(Stop), cat : Matching])
  BY DEF TypeOK
<1> HIDE DEF row
<1>3. /\ DOMAIN saved' = DOMAIN saved \cup {Len(saved) + 1}
      /\ Len(saved') = Len(saved) + 1
      /\ \A d \in DOMAIN saved : saved'[d] = saved[d]
      /\ saved'[Len(saved) + 1] = row
  BY <1>1, <1>2
<1>4. \A d \in DOMAIN saved : PoisOf(saved[d].tour) \subseteq used
  BY DEF DayInv, Taken, Persist
<1>5. PoisOf(tour) \cap used = {}
  BY DEF DayInv, Persist
<1>6. \A d \in DOMAIN saved : PoisOf(saved[d].tour) \cap PoisOf(tour) = {}
  BY <1>4, <1>5
<1>7. \A i, j \in DOMAIN saved :
         i # j => PoisOf(saved[i].tour) \cap PoisOf(saved[j].tour) = {}
  BY DEF DayInv, NoPoiRepeated
<1>8. NoPoiRepeated'
  BY <1>1, <1>3, <1>6, <1>7 DEF NoPoiRepeated
<1>9. \A d \in DOMAIN saved' : \/ PoisOf(saved'[d].tour) \subseteq used
                                \/ PoisOf(saved'[d].tour) = PoisOf(tour)
  BY <1>1, <1>3, <1>4
<1>10. Len(saved') <= Len(days_out) + 1
  BY <1>1, <1>3 DEF DayInv, Persist, TypeOK
<1>11. stage' = "report" /\ UNCHANGED <<req, used, spec, tour, days_out>> /\ stage = "persist"
  BY DEF Persist, trip, local
<1>12. req'.avoid \subseteq used' /\ spec'.avoid = used' /\ tour' # <<>>
       /\ PoisOf(tour') \cap used' = {}
  BY <1>5, <1>11 DEF DayInv, PlanningADay
<1>13. \A d \in DOMAIN saved' : \/ PoisOf(saved'[d].tour) \subseteq used'
                                 \/ PoisOf(saved'[d].tour) = PoisOf(tour')
  BY <1>9, <1>11
<1>14. Len(saved') <= Len(days_out') + 1
  BY <1>10, <1>11
<1> HIDE DEF Taken, NoPoiRepeated
<1>15. stage' \notin {"recheck", "validate", "persist"} /\ stage' = "report"
  BY <1>11
<1> QED BY <1>8, <1>12, <1>13, <1>14, <1>15 DEF DayInv

(* Reporting the day puts its places on the list.                          *)
LEMMA ReportKeepsDayInv == ASSUME TypeOK, DayInv, ReportDay PROVE DayInv'
<1>1. /\ Len(days_out') = Len(days_out) + 1 /\ Len(days_out) \in Nat /\ Len(saved) \in Nat
      /\ used' = used \cup PoisOf(tour)
      /\ req' = req /\ saved' = saved /\ stage' = "day" /\ stage = "report"
  BY DEF ReportDay, Answer, TypeOK
<1>2. \A d \in DOMAIN saved : PoisOf(saved[d].tour) \subseteq used'
  BY <1>1 DEF DayInv
<1>3. req'.avoid \subseteq used' /\ NoPoiRepeated'
  BY <1>1 DEF DayInv, NoPoiRepeated
<1>4. Taken' \subseteq used'
  BY <1>1, <1>2, <1>3 DEF Taken
<1>5. Len(saved') <= Len(days_out')
  BY <1>1 DEF DayInv
<1>6. stage' = "day"
  BY <1>1
<1>7. stage' \notin PlanningADay
  BY <1>6 DEF PlanningADay
<1> QED BY <1>3, <1>4, <1>5, <1>6, <1>7 DEF DayInv

(* Every step keeps it.                                                    *)
LEMMA NextDayInv == TypeOK /\ DayInv /\ [Next]_vars => DayInv'
<1> SUFFICES ASSUME TypeOK, DayInv, [Next]_vars PROVE DayInv'
  OBVIOUS
<1> USE DEF PlanningADay
<1>1. ASSUME UNCHANGED <<req, used, saved>> PROVE Taken' = Taken /\ NoPoiRepeated'
  BY <1>1 DEF Taken, NoPoiRepeated, DayInv
<1>2. CASE FetchWeather
  BY <1>1, <1>2 DEF FetchWeather, local, table, DayInv
<1>3. CASE StartDay
  <2>1. spec'.avoid = used'
    BY <1>3, DaySpecType, RequestsAreTripSpecs DEF StartDay, trip, TypeOK
  <2> QED BY <1>1, <1>3, <2>1 DEF StartDay, trip, table, DayInv
<1>4. CASE RefuseSemantics \/ RefuseInfeasible \/ RefuseNoCandidates \/ RefusePin
           \/ RefuseRouting \/ RefuseUnsolved \/ RefuseInvalid
  BY <1>4, RefusalKeepsDayInv
     DEF RefuseSemantics, RefuseInfeasible, RefuseNoCandidates, RefusePin,
         RefuseRouting, RefuseUnsolved, RefuseInvalid
<1>5. CASE Search \/ Rank \/ BuildArcs \/ ReadHours
  BY <1>1, <1>5 DEF Search, Rank, BuildArcs, ReadHours, trip, local, table, DayInv
<1>6. CASE PassPrecheck
  <2>1. spec'.avoid = spec.avoid
    BY <1>6, RelaxKeepsMusts DEF PassPrecheck, Relaxed, TypeOK
  <2> QED BY <1>1, <1>6, <2>1 DEF PassPrecheck, trip, table, DayInv
<1>7. CASE Optimize
  BY <1>1, <1>7 DEF Optimize, trip, table, DayInv
<1>8. CASE Validate
  <2>1. PoisOf(tour) \cap used = {}
    BY <1>8, AcceptedAvoids DEF Validate, DayInv
  <2> QED BY <1>1, <1>8, <2>1 DEF Validate, trip, local, table, DayInv
<1>9. CASE Persist
  BY <1>9, PersistKeepsDayInv
<1>10. CASE ReportDay
  BY <1>10, ReportKeepsDayInv
<1>11. CASE Finish
  BY <1>1, <1>11 DEF Finish, trip, local, table, DayInv
<1>12. CASE Abort
  BY <1>1, <1>12 DEF Abort, local, table, DayInv
<1>13. CASE ReloadHours
  BY <1>1, <1>13 DEF ReloadHours, trip, local, DayInv
<1>14. CASE UNCHANGED vars
  BY <1>1, <1>14 DEF vars, DayInv
<1> QED
  BY <1>2, <1>3, <1>4, <1>5, <1>6, <1>7, <1>8, <1>9, <1>10, <1>11, <1>12, <1>13,
     <1>14 DEF Next, Handler

(* It always holds.                                                        *)
LEMMA DayInvariant == Spec => []DayInv
BY InitDayInv, NextDayInv, TypeCorrect, PTL DEF Spec

(* Over a whole trip, and whatever the widened search brings back, no place*)
(* is committed for two days.                                              *)
THEOREM NoRepeat == Spec => []NoPoiRepeated
BY DayInvariant, PTL DEF DayInv

----------------------------------------------------------------------------
(* The pipeline implements the abstract trip.                              *)

Plans == [d \in DOMAIN saved |-> PoisOf(saved[d].tour)]
Open == stage \in Running

(* An arrived request is an abstract trip with no day.                     *)
LEMMA InitRefines == Init => Abstract!Init
<1> SUFFICES ASSUME Init PROVE Abstract!Init
  OBVIOUS
<1>1. req.avoid \subseteq Poi /\ req.days \in 1..7
  BY RequestsAreTripSpecs, SpecFields DEF Init
<1>2. saved = <<>> /\ stage = "arrived"
  BY DEF Init
<1>3. [d \in DOMAIN saved |-> PoisOf(saved[d].tour)] = <<>>
  BY <1>2
<1> QED BY <1>1, <1>2, <1>3 DEF Abstract!Init, Running, Stages

(* A function that adds one value to a sequence is the sequence appended.  *)
LEMMA AppendIs ==
    ASSUME NEW S, NEW s \in Seq(S), NEW x \in S, NEW f,
           f = [d \in 1..(Len(s) + 1) |-> f[d]],
           \A d \in 1..Len(s) : f[d] = s[d], f[Len(s) + 1] = x
    PROVE  f = Append(s, x)
<1>1. \A d \in 1..(Len(s) + 1) : d \in 1..Len(s) \/ d = Len(s) + 1
  OBVIOUS
<1>2. \A d \in 1..(Len(s) + 1) : f[d] \in S /\ f[d] = Append(s, x)[d]
  <2>1. \A d \in 1..Len(s) : s[d] \in S
    OBVIOUS
  <2> QED BY <1>1, <2>1, AppendProperties
<1>3. f \in Seq(S) /\ Len(f) = Len(s) + 1
  BY <1>2
<1>4. Append(s, x) \in Seq(S) /\ Len(Append(s, x)) = Len(s) + 1
  BY AppendProperties
<1>5. \A d \in 1..Len(f) : f[d] = Append(s, x)[d]
  BY <1>2, <1>3
<1>6. Len(f) = Len(Append(s, x))
  BY <1>3, <1>4
<1> QED BY <1>3, <1>4, <1>5, <1>6, SeqEqual

(* A commit is the abstract trip's next planned day.                       *)
LEMMA PersistRefines == ASSUME TypeOK, DayInv, Persist PROVE Abstract!Next
<1> DEFINE row == [day |-> Day, tour |-> tour, cat |-> prob.cat]
<1>1. saved' = Append(saved, row) /\ row.tour = tour
  BY DEF Persist
<1>2. saved \in Seq([day : 1..7, tour : Seq(Stop), cat : Matching]) /\ Len(saved) \in Nat
  BY DEF TypeOK
<1> HIDE DEF row
<1>3. /\ DOMAIN saved' = 1..(Len(saved) + 1)
      /\ \A d \in DOMAIN saved : saved'[d] = saved[d]
      /\ saved'[Len(saved) + 1] = row
      /\ DOMAIN saved = 1..Len(saved)
  BY <1>1, <1>2
<1>4. Plans' = Append(Plans, PoisOf(tour)) /\ Len(Plans) = Len(saved)
  <2>1. Plans \in Seq(SUBSET Poi) /\ Len(Plans) = Len(saved) /\ DOMAIN Plans = 1..Len(saved)
    <3>0. \A r \in [day : 1..7, tour : Seq(Stop), cat : Matching] : r.tour \in Seq(Stop)
      OBVIOUS
    <3>1. \A d \in DOMAIN saved : PoisOf(saved[d].tour) \in SUBSET Poi
      <4> DEFINE Rows == [day : 1..7, tour : Seq(Stop), cat : Matching]
      <4>0. saved \in Seq(Rows)
        BY <1>2
      <4> HIDE DEF Rows
      <4>1. \A d \in DOMAIN saved : saved[d] \in Rows
        BY <4>0
      <4>2. \A t \in Seq(Stop) : PoisOf(t) \subseteq Poi
        BY PlacesOfATour
      <4> QED BY <3>0, <4>1, <4>2, Zenon DEF Rows
    <3> QED BY <1>2, <1>3, <3>1 DEF Plans
  <2>2. DOMAIN Plans' = 1..(Len(saved) + 1)
    BY <1>3 DEF Plans
  <2>3. \A d \in 1..Len(saved) : Plans'[d] = Plans[d]
    <3>1. \A d \in DOMAIN saved : d \in DOMAIN saved'
      BY <1>2, <1>3
    <3>2. \A d \in DOMAIN saved : Plans'[d] = Plans[d]
      BY <1>3, <3>1 DEF Plans
    <3> QED BY <1>3, <3>2
  <2>4. Plans'[Len(saved) + 1] = PoisOf(tour)
    BY <1>1, <1>2, <1>3 DEF Plans
  <2>5. PoisOf(tour) \in SUBSET Poi
    BY PlacesOfATour DEF TypeOK
  <2>6. Plans' = [d \in 1..(Len(saved) + 1) |-> Plans'[d]]
    BY <2>2 DEF Plans
  <2> HIDE DEF Plans
  <2> QED BY <2>1, <2>3, <2>4, <2>5, <2>6, AppendIs
<1>5. Len(saved) < req.days
  <2>1. Len(saved) <= Len(days_out) /\ Len(days_out) < req.days /\ Len(days_out) \in Nat
    BY DEF Persist, DayInv, TypeOK
  <2>2. req.days \in 1..7
    BY RequestsAreTripSpecs, SpecFields DEF TypeOK
  <2> QED BY <1>2, <2>1, <2>2
<1>6. PoisOf(tour) # {} /\ PoisOf(tour) \in SUBSET Poi
  <2>1. tour # <<>> /\ tour \in Seq(Stop)
    BY DEF DayInv, Persist, TypeOK
  <2>2. 1 \in DOMAIN tour
    BY <2>1
  <2> QED BY <2>1, <2>2, PlacesOfATour DEF PoisOf
<1>7. PoisOf(tour) \cap (req.avoid \cup UNION {Plans[d] : d \in DOMAIN Plans}) = {}
  <2>1. \A d \in DOMAIN saved : PoisOf(saved[d].tour) \cap PoisOf(tour) = {}
    BY DEF DayInv, Taken, Persist
  <2>2. req.avoid \cap PoisOf(tour) = {}
    BY DEF DayInv, Persist
  <2> QED BY <2>1, <2>2 DEF Plans
<1>8. Open /\ Open' /\ req' = req
  BY DEF Open, Running, Stages, Persist, trip
<1>9. Abstract!PlanDay(PoisOf(tour))
  BY <1>4, <1>5, <1>6, <1>7, <1>8 DEF Abstract!PlanDay, Abstract!Taken, Plans, Open
<1> QED BY <1>6, <1>9 DEF Abstract!Next

(* Every step is one of the abstract trip's, or invisible to it.           *)
LEMMA NextRefines == TypeOK /\ DayInv /\ [Next]_vars => [Abstract!Next]_(Abstract!vars)
<1> SUFFICES ASSUME TypeOK, DayInv, [Next]_vars PROVE [Abstract!Next]_(Abstract!vars)
  OBVIOUS
<1> USE DEF Running, Stages
<1>1. ASSUME req' = req, saved' = saved, Open' = Open PROVE UNCHANGED Abstract!vars
  BY <1>1 DEF Abstract!vars, Open
<1>2. CASE FetchWeather \/ StartDay \/ Search \/ PassPrecheck \/ Rank \/ BuildArcs
           \/ Optimize \/ ReadHours \/ Validate
  <2>1. CASE Search
    <3>1. stage' \in {"search", "precheck"} /\ stage = "search" /\ req' = req /\ saved' = saved
      BY <2>1 DEF Search, trip
    <3> QED BY <1>1, <3>1 DEF Open
  <2> QED BY <1>1, <1>2, <2>1 DEF FetchWeather, StartDay, PassPrecheck, Rank, BuildArcs,
                                  Optimize, ReadHours, Validate, Open, trip
<1>3. CASE RefuseSemantics \/ RefuseInfeasible \/ RefuseNoCandidates \/ RefusePin
           \/ RefuseRouting \/ RefuseUnsolved \/ RefuseInvalid \/ ReportDay
  BY <1>1, <1>3 DEF RefuseSemantics, RefuseInfeasible, RefuseNoCandidates, RefusePin,
                    RefuseRouting, RefuseUnsolved, RefuseInvalid, ReportDay, Answer, Open
<1>4. CASE Persist
  BY <1>4, PersistRefines
<1>5. CASE Finish \/ Abort
  <2>1. Open /\ ~ Open' /\ req' = req /\ saved' = saved
    BY <1>5 DEF Finish, Abort, Open, trip
  <2> QED BY <2>1 DEF Abstract!Next, Abstract!Close, Open
<1>6. CASE ReloadHours
  BY <1>1, <1>6 DEF ReloadHours, Open, trip
<1>7. CASE UNCHANGED vars
  BY <1>1, <1>7 DEF vars, Open
<1> QED
  BY <1>2, <1>3, <1>4, <1>5, <1>6, <1>7 DEF Next, Handler

(* The whole pipeline refines the abstract trip (its safety part; the      *)
(* fairness of ImplementsTrip is TLC's).                                   *)
THEOREM RefinesTrip == Spec => Abstract!Spec
BY InitRefines, NextRefines, TypeCorrect, DayInvariant, PTL DEF Spec, Abstract!Spec

----------------------------------------------------------------------------
(* Commits and answers are never taken back.                               *)

(* What is appended to a sequence starts with the sequence.                *)
LEMMA PrefixStays ==
    ASSUME NEW S, NEW s \in Seq(S), NEW x
    PROVE  SubSeq(s, 1, Len(s)) = s /\ SubSeq(Append(s, x), 1, Len(s)) = s
<1>1. Len(s) \in Nat /\ s = [k \in 1..Len(s) |-> s[k]]
  OBVIOUS
<1>2. \A k \in 1..Len(s) : Append(s, x)[k] = s[k]
  OBVIOUS
<1> QED BY <1>1, <1>2

(* Whatever fails later, a committed day stays committed; what the answer  *)
(* says it says until an abort; and days are committed in their order.     *)
THEOREM HistoryKept == Spec => HistoryOnlyGrows
<1> DEFINE A == /\ Len(saved') >= Len(saved) /\ SubSeq(saved', 1, Len(saved)) = saved
                /\ stage' # "aborted" =>
                      /\ Len(days_out') >= Len(days_out)
                      /\ SubSeq(days_out', 1, Len(days_out)) = days_out
                /\ saved' # saved => Len(days_out) = saved'[Len(saved')].day - 1
<1>1. TypeOK /\ [Next]_vars => A
  <2> SUFFICES ASSUME TypeOK, [Next]_vars PROVE A
    OBVIOUS
  <2>1. /\ saved \in Seq([day : 1..7, tour : Seq(Stop), cat : Matching])
        /\ days_out \in Seq([code : Codes, pois : SUBSET Poi])
        /\ Len(saved) \in Nat /\ Len(days_out) \in Nat
    BY DEF TypeOK
  <2>2. SubSeq(saved, 1, Len(saved)) = saved
        /\ \A x : SubSeq(Append(saved, x), 1, Len(saved)) = saved
    BY <2>1, PrefixStays
  <2>3. SubSeq(days_out, 1, Len(days_out)) = days_out
        /\ \A x : SubSeq(Append(days_out, x), 1, Len(days_out)) = days_out
    BY <2>1, PrefixStays
  <2>4. CASE saved' = saved /\ days_out' = days_out
    BY <2>1, <2>2, <2>3, <2>4
  <2>5. CASE Persist
    <3> DEFINE row == [day |-> Day, tour |-> tour, cat |-> prob.cat]
    <3>1. saved' = Append(saved, row) /\ days_out' = days_out /\ row.day = Len(days_out) + 1
      BY <2>5 DEF Persist, trip, Day
    <3> HIDE DEF row
    <3>2. Len(saved') = Len(saved) + 1 /\ saved'[Len(saved')] = row
      BY <2>1, <3>1
    <3>3. Len(days_out) = saved'[Len(saved')].day - 1
      BY <2>1, <3>1, <3>2
    <3>4. SubSeq(saved', 1, Len(saved)) = saved /\ Len(saved') >= Len(saved)
      BY <2>1, <2>2, <3>1, <3>2
    <3>5. SubSeq(days_out', 1, Len(days_out)) = days_out /\ Len(days_out') >= Len(days_out)
      BY <2>1, <2>3, <3>1
    <3> QED BY <3>3, <3>4, <3>5
  <2>6. ASSUME NEW code, Answer(code) PROVE A
    <3>1. saved' = saved /\ \E x : days_out' = Append(days_out, x)
      BY <2>6 DEF Answer
    <3>2. Len(days_out') = Len(days_out) + 1
      BY <2>1, <3>1
    <3> QED BY <2>1, <2>2, <2>3, <3>1, <3>2
  <2>7. CASE RefuseSemantics \/ RefuseInfeasible \/ RefuseNoCandidates \/ RefusePin
             \/ RefuseRouting \/ RefuseUnsolved \/ RefuseInvalid \/ ReportDay
    BY <2>6, <2>7 DEF RefuseSemantics, RefuseInfeasible, RefuseNoCandidates, RefusePin,
                      RefuseRouting, RefuseUnsolved, RefuseInvalid, ReportDay
  <2>8. CASE FetchWeather \/ StartDay \/ Search \/ PassPrecheck \/ Rank \/ BuildArcs
             \/ Optimize \/ ReadHours \/ Validate \/ Finish \/ ReloadHours \/ UNCHANGED vars
    <3>1. saved' = saved /\ days_out' = days_out
      BY <2>8 DEF FetchWeather, StartDay, Search, PassPrecheck, Rank, BuildArcs,
                  Optimize, ReadHours, Validate, Finish, ReloadHours, trip, vars
    <3> QED BY <2>4, <3>1
  <2>9. CASE Abort
    <3>1. saved' = saved /\ stage' = "aborted"
      BY <2>9 DEF Abort
    <3> QED BY <2>1, <2>2, <3>1
  <2> QED BY <2>5, <2>7, <2>8, <2>9 DEF Next, Handler
<1>2. TypeOK /\ [Next]_vars => [A]_vars
  BY <1>1
<1> QED BY <1>2, TypeCorrect, PTL DEF Spec, HistoryOnlyGrows

----------------------------------------------------------------------------
(* What is accepted, and on what.                                          *)

(* Opening hours are whole minutes.                                        *)
LEMMA HoursAreMinutes ==
    ASSUME NEW h \in HoursRecord PROVE h.open \in Int /\ h.close \in Int
<1>1. h.open \in 0..1440 /\ h.close \in 0..1440
  BY DEF HoursRecord
<1> DEFINE o == h.open
           c == h.close
<1>2. o \in 0..1440 /\ c \in 0..1440
  BY <1>1
<1> HIDE DEF o, c
<1>3. o \in Int /\ c \in Int
  BY <1>2
<1> QED BY <1>3 DEF o, c

(* What is accepted is inside the hours the validator was given.           *)
InsideHoursRead(k) ==
    LET h == hours_now[tour[k].poi] IN
    h.hard => h.open <= tour[k].arrive /\ tour[k].depart <= h.close

AcceptedInv ==
    stage \in {"persist", "report"} => \A k \in DOMAIN tour : InsideHoursRead(k)

LEMMA AcceptedInside ==
    ASSUME TypeOK, Validate, NEW k \in DOMAIN tour
    PROVE  InsideHoursRead(k)
<1> SUFFICES ASSUME hours_now[tour[k].poi].hard
             PROVE  /\ hours_now[tour[k].poi].open <= tour[k].arrive
                    /\ tour[k].depart <= hours_now[tour[k].poi].close
  BY DEF InsideHoursRead
<1>1. PICK drifts \in BOOLEAN : Report(drifts) = {}
  BY DEF Validate
<1> DEFINE facts == Facts(drifts)
<1>2. \A j \in DOMAIN facts : ~ Closed(facts[j])
  BY <1>1 DEF Report, Findings, Rules
<1>3. /\ DOMAIN facts = DOMAIN tour
      /\ facts[k].hours = hours_now[tour[k].poi]
      /\ facts[k].arrive = tour[k].arrive /\ facts[k].depart = tour[k].depart
  BY DEF Facts
<1> HIDE DEF facts
<1>4. ~ (tour[k].arrive < hours_now[tour[k].poi].open
         \/ tour[k].depart > hours_now[tour[k].poi].close)
  BY <1>2, <1>3 DEF Closed
<1>5. tour[k].arrive \in Int /\ tour[k].depart \in Int
      /\ hours_now[tour[k].poi].open \in Int /\ hours_now[tour[k].poi].close \in Int
  <2>1. tour[k] \in Stop
    BY DEF TypeOK
  <2>2. tour[k].poi \in Poi /\ tour[k].arrive \in Int /\ tour[k].depart \in Int
    BY <2>1 DEF Stop
  <2>3. hours_now \in [Poi -> HoursRecord]
    BY TripPlannerAssumption DEF TypeOK, Validate
  <2>4. hours_now[tour[k].poi] \in HoursRecord
    BY <2>2, <2>3
  <2> QED BY <2>2, <2>4, HoursAreMinutes
<1> QED BY <1>4, <1>5

LEMMA NextAcceptedInv == TypeOK /\ AcceptedInv /\ [Next]_vars => AcceptedInv'
<1> SUFFICES ASSUME TypeOK, AcceptedInv, [Next]_vars, stage' \in {"persist", "report"},
                    NEW k \in DOMAIN tour'
             PROVE  InsideHoursRead(k)'
  BY DEF AcceptedInv
<1>1. ASSUME NEW code, Answer(code) PROVE stage' = "day"
  BY <1>1 DEF Answer
<1>2. UNCHANGED <<tour, hours_now>>
      /\ (Validate \/ stage \in {"persist", "report"})
  BY <1>1 DEF Next, Handler, FetchWeather, StartDay, RefuseSemantics, Search,
        PassPrecheck, RefuseInfeasible, RefuseNoCandidates, RefusePin, Rank,
        BuildArcs, RefuseRouting, Optimize, RefuseUnsolved, ReadHours, Validate,
        RefuseInvalid, Persist, ReportDay, Finish, Abort, ReloadHours, local, vars
<1>3. InsideHoursRead(k)
  BY <1>2, AcceptedInside DEF AcceptedInv
<1> QED BY <1>2, <1>3 DEF InsideHoursRead

(* A plan about to be committed, or just committed, visits a place outside *)
(* its known hours only if these were reloaded after the validator read    *)
(* them: a reload at any earlier moment of the request is noticed.         *)
THEOREM HoursAsRead == Spec => []StaleOnlyAfterReading
<1>1. Init => AcceptedInv
  BY DEF Init, AcceptedInv
<1>2. AcceptedInv => StaleOnlyAfterReading
  BY DEF AcceptedInv, InsideHoursRead, StaleOnlyAfterReading, OutsideHours
<1> QED BY <1>1, <1>2, NextAcceptedInv, TypeCorrect, PTL DEF Spec

----------------------------------------------------------------------------
(* The answer and the database agree.                                      *)

(* Some commit is what day d was reported as.                              *)
Reported(d) == \E s \in DOMAIN saved :
                  saved[s].day = d /\ PoisOf(saved[s].tour) = days_out[d].pois

(* SavedIsReported counts; to be inductive it needs the exact count at each *)
(* stage, and that the commit waiting to be reported is the current day's. *)
ReportInv ==
    /\ stage \notin {"report", "aborted"} => Len(saved) = Cardinality(Planned)
    /\ stage = "report" =>
          /\ Len(saved) = Cardinality(Planned) + 1
          /\ saved[Len(saved)].day = Day
          /\ PoisOf(saved[Len(saved)].tour) = PoisOf(tour)
    /\ stage = "done" => Len(days_out) = req.days
    /\ \A d \in Planned : Reported(d)

(* The days reported planned can be counted.                               *)
LEMMA PlannedCount == ASSUME TypeOK PROVE IsFiniteSet(Planned) /\ Cardinality(Planned) \in Nat
<1>1. Planned \subseteq 1..Len(days_out) /\ Len(days_out) \in Nat
  BY DEF Planned, TypeOK
<1>2. IsFiniteSet(1..Len(days_out))
  BY <1>1, FS_Interval
<1>3. IsFiniteSet(Planned)
  BY <1>1, <1>2, FS_Subset
<1> QED BY <1>3, FS_CardinalityType

(* Before the first day both are empty.                                    *)
LEMMA InitReportInv == Init => ReportInv
<1> SUFFICES ASSUME Init PROVE ReportInv
  OBVIOUS
<1>1. Planned = {} /\ stage = "arrived" /\ saved = <<>>
  BY DEF Init, Planned
<1> QED BY <1>1, FS_EmptySet DEF ReportInv

(* A refused day adds nothing to the planned days.                         *)
LEMMA RefusalKeepsReportInv ==
    ASSUME TypeOK, ReportInv, NEW code, code # "OK", Answer(code),
           stage \notin {"report", "aborted"}
    PROVE  ReportInv'
<1>1. days_out' = Append(days_out, [code |-> code, pois |-> {}])
      /\ saved' = saved /\ stage' = "day"
  BY DEF Answer
<1>2. DOMAIN days_out' = DOMAIN days_out \cup {Len(days_out) + 1}
      /\ days_out'[Len(days_out) + 1] = [code |-> code, pois |-> {}]
      /\ \A d \in DOMAIN days_out : days_out'[d] = days_out[d]
  BY <1>1 DEF TypeOK
<1>3. Planned' = Planned
  BY <1>2 DEF Planned
<1>4. \A d \in Planned : Reported(d)'
  BY <1>1, <1>2 DEF ReportInv, Reported, Planned
<1> QED BY <1>1, <1>3, <1>4 DEF ReportInv

(* The commit is one more than the days reported so far.                   *)
LEMMA PersistKeepsReportInv == ASSUME TypeOK, ReportInv, Persist PROVE ReportInv'
<1> DEFINE row == [day |-> Day, tour |-> tour, cat |-> prob.cat]
<1>1. /\ saved' = Append(saved, row) /\ row.tour = tour /\ row.day = Day
      /\ stage = "persist" /\ stage' = "report" /\ tour' = tour /\ days_out' = days_out
  BY DEF Persist, trip, local
<1> HIDE DEF row
<1>2. /\ Len(saved') = Len(saved) + 1 /\ Len(saved) \in Nat
      /\ saved'[Len(saved) + 1] = row
      /\ DOMAIN saved \subseteq DOMAIN saved'
      /\ \A s \in DOMAIN saved : saved'[s] = saved[s]
  BY <1>1 DEF TypeOK
<1>3. Planned' = Planned /\ Day' = Day
  BY <1>1 DEF Planned, Day
<1>4. \A d \in Planned : Reported(d)'
  BY <1>1, <1>2 DEF ReportInv, Reported
<1>5. PoisOf(saved'[Len(saved')].tour) = PoisOf(tour') /\ saved'[Len(saved')].day = Day'
  BY <1>1, <1>2, <1>3
<1>6. Len(saved') = Cardinality(Planned') + 1
  BY <1>1, <1>2, <1>3 DEF ReportInv
<1> QED BY <1>1, <1>3, <1>4, <1>5, <1>6 DEF ReportInv

(* The report makes the two counts equal again.                            *)
LEMMA ReportKeepsReportInv == ASSUME TypeOK, ReportInv, ReportDay PROVE ReportInv'
<1>1. /\ days_out' = Append(days_out, [code |-> "OK", pois |-> PoisOf(tour)])
      /\ saved' = saved /\ stage = "report" /\ stage' = "day"
  BY DEF ReportDay, Answer
<1>2. DOMAIN days_out' = DOMAIN days_out \cup {Day}
      /\ days_out'[Day] = [code |-> "OK", pois |-> PoisOf(tour)]
      /\ \A d \in DOMAIN days_out : days_out'[d] = days_out[d]
      /\ Day \notin DOMAIN days_out
  BY <1>1 DEF TypeOK, Day
<1>3. Planned' = Planned \cup {Day} /\ Day \notin Planned
  BY <1>2 DEF Planned
<1>4. Cardinality(Planned') = Cardinality(Planned) + 1
  <2>1. IsFiniteSet(Planned)
    BY PlannedCount
  <2> HIDE DEF Planned
  <2> QED BY <1>3, <2>1, FS_AddElement
<1>5. \A d \in Planned : Reported(d)'
  BY <1>1, <1>2 DEF ReportInv, Reported, Planned
<1>6. \E s \in DOMAIN saved : saved[s].day = Day /\ PoisOf(saved[s].tour) = PoisOf(tour)
  <2>1. Len(saved) = Cardinality(Planned) + 1 /\ Len(saved) \in Nat
    BY <1>1 DEF ReportInv, TypeOK
  <2>2. Len(saved) \in DOMAIN saved
    BY <2>1, PlannedCount DEF TypeOK
  <2> QED BY <1>1, <2>2 DEF ReportInv
<1>7. \A d \in Planned' : Reported(d)'
  <2>1. ASSUME NEW d, d = Day PROVE Reported(d)'
    <3>1. days_out'[d].pois = PoisOf(tour)
      BY <1>2, <2>1
    <3>2. PICK s \in DOMAIN saved : saved[s].day = Day /\ PoisOf(saved[s].tour) = PoisOf(tour)
      BY <1>6
    <3> QED BY <1>1, <2>1, <3>1, <3>2 DEF Reported
  <2> QED BY <1>3, <1>5, <2>1
<1>8. Len(saved') = Cardinality(Planned')
  BY <1>1, <1>4 DEF ReportInv
<1> QED BY <1>1, <1>7, <1>8 DEF ReportInv

(* Every step keeps the counts in step.                                    *)
LEMMA NextReportInv == TypeOK /\ ReportInv /\ [Next]_vars => ReportInv'
<1> SUFFICES ASSUME TypeOK, ReportInv, [Next]_vars PROVE ReportInv'
  OBVIOUS
<1>1. ASSUME UNCHANGED <<saved, days_out>>
      PROVE  Planned' = Planned /\ \A d \in Planned' : Reported(d)'
  BY <1>1 DEF Planned, Reported, ReportInv
<1>2. CASE FetchWeather \/ StartDay \/ Search \/ PassPrecheck \/ Rank \/ BuildArcs
           \/ Optimize \/ ReadHours \/ Validate \/ Finish
  <2>1. UNCHANGED <<saved, days_out, req>> /\ stage \notin {"report", "aborted"}
        /\ stage' \notin {"report", "aborted"}
        /\ (stage' = "done" => Len(days_out) = req.days)
    BY <1>2 DEF FetchWeather, StartDay, Search, PassPrecheck, Rank, BuildArcs, Optimize,
                ReadHours, Validate, Finish, trip
  <2> QED BY <1>1, <2>1 DEF ReportInv
<1>3. CASE RefuseSemantics \/ RefuseInfeasible \/ RefuseNoCandidates \/ RefusePin
           \/ RefuseRouting \/ RefuseUnsolved \/ RefuseInvalid
  BY <1>3, RefusalKeepsReportInv
     DEF RefuseSemantics, RefuseInfeasible, RefuseNoCandidates, RefusePin,
         RefuseRouting, RefuseUnsolved, RefuseInvalid
<1>4. CASE Persist
  BY <1>4, PersistKeepsReportInv
<1>5. CASE ReportDay
  BY <1>5, ReportKeepsReportInv
<1>6. CASE Abort
  <2>1. days_out' = <<>> /\ stage' = "aborted"
    BY <1>6 DEF Abort
  <2>2. Planned' = {}
    BY <2>1 DEF Planned
  <2> QED BY <2>1, <2>2 DEF ReportInv
<1>7. CASE ReloadHours \/ UNCHANGED vars
  <2>1. UNCHANGED <<saved, days_out, stage, tour, req>>
    BY <1>7 DEF ReloadHours, vars, trip, local
  <2>2. Day' = Day /\ PoisOf(tour') = PoisOf(tour)
    BY <2>1 DEF Day
  <2> QED BY <1>1, <2>1, <2>2 DEF ReportInv
<1> QED BY <1>2, <1>3, <1>4, <1>5, <1>6, <1>7 DEF Next, Handler

(* They always are.                                                        *)
LEMMA ReportInvariant == Spec => []ReportInv
BY InitReportInv, NextReportInv, TypeCorrect, PTL DEF Spec

(* A day is called planned only after its itinerary was committed, with    *)
(* the same places, and until a trip is cut short no commit but the one    *)
(* being reported goes untold. Of a trip that is cut short nothing is told.*)
THEOREM AnswerMatchesDatabase == Spec => []SavedIsReported
<1>1. ReportInv => SavedIsReported
  BY DEF ReportInv, Reported, SavedIsReported
<1> QED BY <1>1, ReportInvariant, PTL

----------------------------------------------------------------------------
(* What the solver guarantees of the tours it returns.                     *)

(* Every constraint of the model holds of its solutions.                   *)
LEMMA SolutionsSolve == ASSUME NEW p, NEW t \in Solutions(p) PROVE Solves(t, p)
BY DEF Solutions

(* A leg takes at least a minute, and at most a minute less than driven.   *)
LEMMA LegMinutesBound ==
    ASSUME NEW e \in DOMAIN Arc
    PROVE  /\ LegMinutes(e) \in Nat /\ LegMinutes(e) >= 1
           /\ 60 * LegMinutes(e) + 59 >= Arc[e].dur
<1>1. Arc[e].dur \in Nat
  BY PlacesAssumption DEF ArcRecord
<1>2. \A n \in Nat : n \div 60 \in Nat /\ 60 * (n \div 60) + 59 >= n
  OBVIOUS
<1>3. Arc[e].dur \div 60 \in Nat /\ 60 * (Arc[e].dur \div 60) + 59 >= Arc[e].dur
  BY <1>1, <1>2
<1> DEFINE m == Arc[e].dur \div 60
<1>4. LegMinutes(e) = IF 1 >= m THEN 1 ELSE m
  BY DEF LegMinutes, Bigger
<1> HIDE DEF m
<1>5. m \in Nat /\ 60 * m + 59 >= Arc[e].dur
  BY <1>3 DEF m
<1> QED BY <1>1, <1>4, <1>5

(* A visit is never shorter than a quarter of an hour.                     *)
LEMMA VisitMinutesBound ==
    ASSUME NEW s \in TripSpec, NEW p \in Poi
    PROVE  VisitMinutes(p, s) \in Nat /\ VisitMinutes(p, s) >= 15
<1>1. Place[p].visit \in Nat
  BY PlacesAssumption DEF PlaceRecord
<1>2. s.mode \in {"balanced", "quick", "relaxed"}
  BY DEF TripSpec, PlanningMode
<1>3. Mode[s.mode].visit \in Nat
  BY <1>2 DEF Mode
<1> DEFINE m == (Place[p].visit * Mode[s.mode].visit) \div 100
<1>4. m \in Int
  BY <1>1, <1>3
<1>5. VisitMinutes(p, s) = IF 15 >= m THEN 15 ELSE m
  BY DEF VisitMinutes, Bigger
<1> HIDE DEF m
<1> QED BY <1>4, <1>5

(* The window of a request is made of whole minutes.                       *)
LEMMA WindowType == ASSUME NEW s \in TripSpec PROVE s.start \in Int /\ s.end \in Int
<1>1. s.start \in 0..1439 /\ s.end \in 0..1439
  BY DEF TripSpec, MinuteOfDay
<1> DEFINE a == s.start
           b == s.end
<1>2. a \in 0..1439 /\ b \in 0..1439
  BY <1>1
<1> HIDE DEF a, b
<1>3. a \in Int /\ b \in Int
  BY <1>2
<1> QED BY <1>3 DEF a, b

(* Every leg of a closed circuit is an arc of the grid.                    *)
LEMMA LegsAreArcs ==
    ASSUME NEW t \in Seq(Stop), ClosedCircuit(t)
    PROVE  /\ Legs(t) \subseteq Circuit(t)
           /\ \A k \in DOMAIN t : Leg(t, k) \in DOMAIN Arc
<1>1. CASE t = <<>>
  BY <1>1 DEF Legs
<1>2. CASE t # <<>>
  BY <1>2 DEF Legs, Circuit, ClosedCircuit
<1> QED BY <1>1, <1>2

(* One visit of a tour: reachable from the one before, inside the window.  *)
Before(t, s, k) == IF k = 1 THEN s.start ELSE t[k - 1].depart
Keepable(t, s) ==
    \A k \in DOMAIN t :
        /\ 60 * (t[k].arrive - Before(t, s, k)) + 59 >= Arc[Leg(t, k)].dur
        /\ Before(t, s, k) < t[k].arrive
        /\ t[k].depart <= s.end

(* It is a whole minute.                                                   *)
LEMMA BeforeType ==
    ASSUME NEW t \in Seq(Stop), NEW s \in TripSpec, NEW k \in DOMAIN t
    PROVE  Before(t, s, k) \in Int
<1>1. CASE k = 1
  BY <1>1, WindowType DEF Before
<1>2. CASE k # 1
  <2>1. k - 1 \in DOMAIN t
    BY <1>2
  <2>2. t[k - 1] \in Stop
    BY <2>1
  <2> QED BY <1>2, <2>2 DEF Before, Stop
<1> QED BY <1>1, <1>2

(* The propagated times leave room for the legs, whole minutes rounded.    *)
LEMMA SolvedIsKeepable ==
    ASSUME NEW p, p.spec \in TripSpec, NEW t \in Seq(Stop), Solves(t, p)
    PROVE  Keepable(t, p.spec)
<1> SUFFICES ASSUME NEW k \in DOMAIN t
             PROVE  /\ 60 * (t[k].arrive - Before(t, p.spec, k)) + 59 >= Arc[Leg(t, k)].dur
                    /\ Before(t, p.spec, k) < t[k].arrive
                    /\ t[k].depart <= p.spec.end
  BY DEF Keepable
<1> DEFINE b == Before(t, p.spec, k)
           a == t[k].arrive
           m == LegMinutes(Leg(t, k))
<1>1. b \in Int
  BY BeforeType
<1>2. a \in Int
  <2>1. t[k] \in Stop
    OBVIOUS
  <2> QED BY <2>1 DEF Stop
<1>3. Leg(t, k) \in DOMAIN Arc
  BY LegsAreArcs DEF Solves
<1>4. m \in Nat /\ m >= 1 /\ 60 * m + 59 >= Arc[Leg(t, k)].dur /\ Arc[Leg(t, k)].dur \in Nat
  BY <1>3, LegMinutesBound, PlacesAssumption DEF ArcRecord
<1>5. a >= b + m
  BY DEF Solves, TimePropagates, Before
<1>6. t[k].depart <= p.spec.end
  BY DEF Solves, VisitLasts
<1> HIDE DEF a, b, m
<1>7. 60 * (a - b) >= 60 * m
  BY <1>1, <1>2, <1>4, <1>5
<1>8. 60 * (a - b) + 59 >= Arc[Leg(t, k)].dur /\ b < a
  BY <1>1, <1>2, <1>4, <1>5, <1>7
<1> QED BY <1>6, <1>8 DEF a, b

----------------------------------------------------------------------------
(* The money of a tour.                                                    *)

(* Prices and fares are naturals, and there are finitely many arcs.        *)
LEMMA CostTypes ==
    ASSUME NEW s \in TripSpec
    PROVE  /\ \A p \in Poi : VisitCost(p, s) \in Nat
           /\ \A e \in DOMAIN Arc : Arc[e].cost \in Nat
           /\ IsFiniteSet(DOMAIN Arc)
<1>1. \A p \in Poi : Place[p].unit \in Nat
  BY PlacesAssumption DEF PlaceRecord
<1>2. s.party \in 1..10
  BY DEF TripSpec, PartySize
<1>3. \A p \in Poi : VisitCost(p, s) \in Nat
  BY <1>1, <1>2 DEF VisitCost
<1>4. \A e \in DOMAIN Arc : Arc[e].cost \in Nat
  BY PlacesAssumption DEF ArcRecord
<1>5. IsFiniteSet(Node)
  BY PlacesAssumption, FS_AddElement DEF Node
<1>6. IsFiniteSet(Node \X Node)
  BY <1>5, FS_Product
<1>7. IsFiniteSet(DOMAIN Arc)
  BY <1>6, FS_Subset, PlacesAssumption
<1> QED BY <1>3, <1>4, <1>7

(* What its tickets cost, and what its legs do, the way back left out.     *)
Visits(t, s) == MapThenSumSet(LAMBDA p : VisitCost(p, s), PoisOf(t))
LegCosts(t) == MapThenSumSet(LAMBDA e : Arc[e].cost, Legs(t))

(* The legs without the way back cost no more than the whole circuit.      *)
LEMMA LegsWithinCircuit ==
    ASSUME NEW t \in Seq(Stop), ClosedCircuit(t), NEW s \in TripSpec
    PROVE  /\ Visits(t, s) \in Nat /\ LegCosts(t) \in Nat
           /\ TotalCost(t, s) \in Nat
           /\ Visits(t, s) + LegCosts(t) <= TotalCost(t, s)
<1> DEFINE v == [p \in Poi |-> VisitCost(p, s)]
           c == [e \in DOMAIN Arc |-> Arc[e].cost]
<1>1. PoisOf(t) \subseteq Poi /\ Circuit(t) \subseteq DOMAIN Arc /\ Legs(t) \subseteq Circuit(t)
  BY PlacesOfATour, LegsAreArcs DEF ClosedCircuit
<1>2. IsFiniteSet(PoisOf(t)) /\ IsFiniteSet(Circuit(t)) /\ IsFiniteSet(Legs(t))
  BY <1>1, CostTypes, FS_Subset, PlacesAssumption
<1>3. \A p \in PoisOf(t) : v[p] = VisitCost(p, s) /\ v[p] \in Nat
  BY <1>1, CostTypes
<1>4. \A e \in Circuit(t) : c[e] = Arc[e].cost /\ c[e] \in Nat
  BY <1>1, CostTypes
<1> HIDE DEF v, c
<1>5. Visits(t, s) = Total(v, PoisOf(t))
  BY <1>2, <1>3, VisitSum DEF Visits
<1>6. LegCosts(t) = Total(c, Legs(t))
  BY <1>1, <1>2, <1>4, ArcSum DEF LegCosts
<1>7. MapThenSumSet(LAMBDA e : Arc[e].cost, Circuit(t)) = Total(c, Circuit(t))
  BY <1>2, <1>4, ArcSum
<1>8. TotalCost(t, s) = Total(v, PoisOf(t)) + Total(c, Circuit(t))
  BY <1>5, <1>7 DEF TotalCost, Visits
<1>9. Total(c, Legs(t)) <= Total(c, Circuit(t))
  BY <1>1, <1>2, <1>4, TotalOfPart
<1>10. Total(v, PoisOf(t)) \in Nat
  BY <1>2, <1>3, TotalType
<1>11. Total(c, Legs(t)) \in Nat
  BY <1>1, <1>2, <1>4, TotalType
<1>12. Total(c, Circuit(t)) \in Nat
  BY <1>2, <1>4, TotalType
<1> QED BY <1>5, <1>6, <1>8, <1>9, <1>10, <1>11, <1>12

(* Added up stop by stop, as the validator does, a tour costs the same.    *)
LEMMA StopByStop ==
    ASSUME NEW t \in Seq(Stop), ClosedCircuit(t), NEW s \in TripSpec, NEW f,
           \A k \in DOMAIN t : f[k] = VisitCost(t[k].poi, s) + Arc[Leg(t, k)].cost
    PROVE  Total(f, DOMAIN t) = Visits(t, s) + LegCosts(t)
<1> DEFINE v == [p \in Poi |-> VisitCost(p, s)]
           c == [e \in DOMAIN Arc |-> Arc[e].cost]
           vk == [k \in DOMAIN t |-> VisitCost(t[k].poi, s)]
           ck == [k \in DOMAIN t |-> Arc[Leg(t, k)].cost]
           toPoi == [k \in DOMAIN t |-> t[k].poi]
           toLeg == [k \in DOMAIN t |-> Leg(t, k)]
<1>1. PoisOf(t) \subseteq Poi /\ Legs(t) \subseteq DOMAIN Arc
  BY PlacesOfATour, LegsAreArcs DEF ClosedCircuit
<1>2. IsFiniteSet(PoisOf(t)) /\ IsFiniteSet(Legs(t)) /\ IsFiniteSet(DOMAIN t)
  <2>1. DOMAIN t = 1..Len(t) /\ Len(t) \in Nat
    OBVIOUS
  <2>2. IsFiniteSet(DOMAIN t)
    BY <2>1, FS_Interval
  <2> QED BY <1>1, <2>2, CostTypes, FS_Subset, PlacesAssumption
<1>3. \A j, k \in DOMAIN t : t[j].poi = t[k].poi => j = k
  BY DEF ClosedCircuit
<1>4. \A p \in PoisOf(t) : v[p] = VisitCost(p, s) /\ v[p] \in Nat
  BY <1>1, CostTypes
<1>5. \A e \in Legs(t) : c[e] = Arc[e].cost /\ c[e] \in Nat
  BY <1>1, CostTypes
<1>6. Total(vk, DOMAIN t) = Total(v, PoisOf(t))
  <2>1. toPoi \in [DOMAIN t -> PoisOf(t)]
    BY DEF PoisOf
  <2>2. \A j, k \in DOMAIN t : toPoi[j] = toPoi[k] => j = k
    BY <1>3
  <2>3. \A p \in PoisOf(t) : \E k \in DOMAIN t : toPoi[k] = p
    BY DEF PoisOf
  <2>4. \A k \in DOMAIN t : vk[k] = v[toPoi[k]]
    BY <1>4, <2>1
  <2> DEFINE D == DOMAIN t
             U == PoisOf(t)
  <2>6. IsFiniteSet(D)
    BY <1>2
  <2> HIDE DEF v, vk, toPoi, D, U
  <2>7. IsFiniteSet(U) /\ \A p \in U : v[p] \in Nat
    BY <1>2, <1>4 DEF U
  <2>8. /\ toPoi \in [D -> U]
        /\ \A x, y \in D : toPoi[x] = toPoi[y] => x = y
        /\ \A y \in U : \E x \in D : toPoi[x] = y
        /\ \A x \in D : vk[x] = v[toPoi[x]]
    BY <2>1, <2>2, <2>3, <2>4 DEF D, U
  <2>9. Total(vk, D) = Total(v, U)
    BY <2>6, <2>7, <2>8, TotalRenamed
  <2> QED BY <2>9 DEF D, U
<1>7. Total(ck, DOMAIN t) = Total(c, Legs(t))
  <2>1. toLeg \in [DOMAIN t -> Legs(t)]
    BY DEF Legs
  <2>2. \A j, k \in DOMAIN t : toLeg[j] = toLeg[k] => j = k
    <3>1. \A j \in DOMAIN t : toLeg[j][2] = t[j].poi
      <4>1. \A j \in DOMAIN t : j # 0
        OBVIOUS
      <4>2. \A j \in DOMAIN t : Leg(t, j) = <<NodeAt(t, j - 1), t[j].poi>>
        BY <4>1 DEF Leg, NodeAt
      <4> QED BY <4>2
    <3> HIDE DEF toLeg
    <3> QED BY <1>3, <3>1
  <2>3. \A e \in Legs(t) : \E k \in DOMAIN t : toLeg[k] = e
    BY DEF Legs
  <2>4. \A k \in DOMAIN t : ck[k] = c[toLeg[k]]
    BY <1>5, <2>1
  <2> DEFINE D == DOMAIN t
             U == Legs(t)
  <2>6. IsFiniteSet(D)
    BY <1>2
  <2> HIDE DEF c, ck, toLeg, D, U
  <2>7. IsFiniteSet(U) /\ \A e \in U : c[e] \in Nat
    BY <1>2, <1>5 DEF U
  <2>8. /\ toLeg \in [D -> U]
        /\ \A x, y \in D : toLeg[x] = toLeg[y] => x = y
        /\ \A y \in U : \E x \in D : toLeg[x] = y
        /\ \A x \in D : ck[x] = c[toLeg[x]]
    BY <2>1, <2>2, <2>3, <2>4 DEF D, U
  <2>9. Total(ck, D) = Total(c, U)
    BY <2>6, <2>7, <2>8, TotalRenamed
  <2> QED BY <2>9 DEF D, U
<1>8. Total(f, DOMAIN t) = Total(vk, DOMAIN t) + Total(ck, DOMAIN t)
  <2>1. \A k \in DOMAIN t : vk[k] \in Nat /\ ck[k] \in Nat /\ f[k] = vk[k] + ck[k]
    <3>1. \A k \in DOMAIN t : t[k].poi \in Poi /\ Leg(t, k) \in DOMAIN Arc
      BY <1>1 DEF PoisOf, Legs
    <3>2. \A k \in DOMAIN t : VisitCost(t[k].poi, s) \in Nat /\ Arc[Leg(t, k)].cost \in Nat
      BY <3>1, CostTypes
    <3> QED BY <3>2
  <2> HIDE DEF vk, ck
  <2> QED BY <1>2, <2>1, TotalAdds
<1> HIDE DEF v, c
<1>9. Visits(t, s) = Total(v, PoisOf(t)) /\ LegCosts(t) = Total(c, Legs(t))
  BY <1>2, <1>4, <1>5, VisitSum, ArcSum DEF Visits, LegCosts
<1> QED BY <1>6, <1>7, <1>8, <1>9

----------------------------------------------------------------------------
(* What a day is planned and committed for.                                *)

(* A tour, with the categories its places were picked for, honours request *)
(* r: see SavedHonoursRequest.                                             *)
Honoured(t, cat, r) ==
    /\ PoisOf(t) \cap r.avoid = {}
    /\ \A k \in DOMAIN t : cat[t[k].poi] \notin r.avoidCats
    /\ \A i \in Musts(r) : Cardinality({k \in DOMAIN t : cat[t[k].poi] = i.cat}) >= i.count
    /\ WithinBudget(Visits(t, r) + LegCosts(t), r)

(* SavedHonoursRequest and TimetableCanBeKept speak of commits; what makes *)
(* them hold is that the pipeline plans the day's own request, unrelaxed,  *)
(* that the tour is a solution for it, and that it has been accepted.      *)
PlanInv ==
    /\ stage \in PlanningADay => spec = DaySpec /\ SemanticErrors(DaySpec) = {}
    /\ stage \in {"recheck", "validate", "persist", "report"} => tour \in Solutions(prob)
    /\ stage = "persist" => Honoured(tour, prob.cat, req)
    /\ \A d \in DOMAIN saved : /\ Honoured(saved[d].tour, saved[d].cat, req)
                               /\ Keepable(saved[d].tour, req)

(* The day's request differs from the trip's in date, days and avoid only. *)
LEMMA DaySpecKeeps ==
    ASSUME req \in TripSpec
    PROVE  /\ DaySpec.start = req.start /\ DaySpec.end = req.end
           /\ DaySpec.budget = req.budget /\ DaySpec.party = req.party
           /\ DaySpec.vehicle = req.vehicle /\ DaySpec.maxWalk = req.maxWalk
           /\ DaySpec.interests = req.interests /\ DaySpec.avoidCats = req.avoidCats
           /\ DaySpec.require = req.require
           /\ Musts(DaySpec) = Musts(req) /\ Wanted(DaySpec) = Wanted(req)
<1> DEFINE d == req.date + Len(days_out)
<1>1. DaySpec = [req EXCEPT !.date = d, !.days = 1, !.avoid = used]
  BY DEF DaySpec
<1> HIDE DEF d
<1>2. /\ DaySpec.start = req.start /\ DaySpec.end = req.end
      /\ DaySpec.budget = req.budget /\ DaySpec.party = req.party
      /\ DaySpec.vehicle = req.vehicle /\ DaySpec.maxWalk = req.maxWalk
      /\ DaySpec.interests = req.interests /\ DaySpec.avoidCats = req.avoidCats
      /\ DaySpec.require = req.require
  BY <1>1 DEF TripSpec
<1> QED BY <1>2 DEF Musts, Wanted

(* Dropping nothing and reducing nothing is no change.                     *)
LEMMA RelaxByNothing == ASSUME NEW s \in TripSpec PROVE Relax(s, {}) = s
<1>1. Relax(s, {}) = [s EXCEPT !.interests = s.interests]
  BY DEF Relax
<1> QED BY <1>1 DEF TripSpec

(* Parties of one size pay the same for the same places.                   *)
LEMMA SamePartySameCost ==
    ASSUME NEW t \in Seq(Stop), NEW s \in TripSpec, NEW u \in TripSpec, s.party = u.party
    PROVE  Visits(t, s) = Visits(t, u)
<1> DEFINE v == [p \in Poi |-> VisitCost(p, s)]
<1>1. PoisOf(t) \subseteq Poi
  BY PlacesOfATour
<1>2. IsFiniteSet(PoisOf(t))
  BY <1>1, FS_Subset, PlacesAssumption
<1>3. \A p \in PoisOf(t) : v[p] = VisitCost(p, s) /\ v[p] = VisitCost(p, u)
  BY <1>1 DEF VisitCost
<1> HIDE DEF v
<1>4. Visits(t, s) = Total(v, PoisOf(t))
  BY <1>2, <1>3, VisitSum DEF Visits
<1>5. Visits(t, u) = Total(v, PoisOf(t))
  BY <1>2, <1>3, VisitSum DEF Visits
<1> QED BY <1>4, <1>5

(* A tour that solves the day's problem is within the trip's budget.       *)
LEMMA SolvedInBudget ==
    ASSUME NEW p, p.spec \in TripSpec, NEW t \in Seq(Stop), Solves(t, p),
           req \in TripSpec, p.spec.party = req.party, p.spec.budget = req.budget
    PROVE  WithinBudget(Visits(t, req) + LegCosts(t), req)
<1> DEFINE cost == Visits(t, req) + LegCosts(t)
<1>2. Visits(t, req) = Visits(t, p.spec)
  BY SamePartySameCost
<1>3. ClosedCircuit(t) /\ WithinBudget(TotalCost(t, p.spec), p.spec)
  BY DEF Solves, BudgetHolds
<1>4. cost \in Nat /\ TotalCost(t, p.spec) \in Nat /\ cost <= TotalCost(t, p.spec)
  BY <1>2, <1>3, LegsWithinCircuit
<1> HIDE DEF cost
<1>5. req.budget \in Nat \cup {Unlimited}
  BY DEF TripSpec, Budget
<1>6. req.budget = Unlimited \/ TotalCost(t, p.spec) <= req.budget
  BY <1>3 DEF WithinBudget
<1>7. CASE req.budget = Unlimited
  BY <1>7 DEF WithinBudget
<1>8. CASE req.budget # Unlimited
  <2>1. req.budget \in Nat /\ TotalCost(t, p.spec) <= req.budget
    BY <1>5, <1>6, <1>8
  <2>2. cost <= req.budget
    BY <1>4, <2>1
  <2> QED BY <2>2 DEF WithinBudget, cost
<1> QED BY <1>7, <1>8

(* What passes the validator honours the trip's request.                   *)
LEMMA AcceptedHonours ==
    ASSUME TypeOK, DayInv, NothingPlannedRelaxed, PlanInv, Validate
    PROVE  Honoured(tour, prob.cat, req)
<1>1. PICK drifts \in BOOLEAN : Report(drifts) = {}
  BY DEF Validate
<1> DEFINE facts == Facts(drifts)
<1>2. Declared = {}
  BY DEF Declared, NothingPlannedRelaxed
<1>3. ~ Excluded(facts, spec) /\ ~ MustShort(facts, spec, {})
  BY <1>1, <1>2 DEF Report, Findings, Rules
<1>4. /\ DOMAIN facts = DOMAIN tour
      /\ \A k \in DOMAIN tour : facts[k].poi = tour[k].poi /\ facts[k].cat = prob.cat[tour[k].poi]
  BY DEF Facts
<1> HIDE DEF facts
<1>5. req \in TripSpec /\ stage = "validate" /\ spec = DaySpec /\ prob.spec = spec
      /\ spec \in TripSpec /\ tour \in Seq(Stop)
  BY RequestsAreTripSpecs DEF TypeOK, Validate, PlanInv, PlanningADay
<1>6. PoisOf(tour) \cap req.avoid = {}
  BY AcceptedAvoids, <1>5 DEF DayInv, PlanningADay
<1>7. \A k \in DOMAIN tour : prob.cat[tour[k].poi] \notin req.avoidCats
  BY <1>3, <1>4, <1>5, DaySpecKeeps DEF Excluded
<1>8. ASSUME NEW i \in Musts(req)
      PROVE  Cardinality({k \in DOMAIN tour : prob.cat[tour[k].poi] = i.cat}) >= i.count
  <2> DEFINE mine == {k \in DOMAIN tour : prob.cat[tour[k].poi] = i.cat}
  <2>1. {k \in DOMAIN facts : facts[k].cat = i.cat} = mine
    BY <1>4
  <2>2. i \in Musts(spec)
    BY <1>5, DaySpecKeeps
  <2>3. ~ (Cardinality(mine) < i.count)
    <3> HIDE DEF mine
    <3> QED BY <1>3, <2>1, <2>2 DEF MustShort
  <2>4. Cardinality(mine) \in Nat
    <3>1. DOMAIN tour = 1..Len(tour) /\ Len(tour) \in Nat
      BY <1>5
    <3>2. IsFiniteSet(DOMAIN tour)
      BY <3>1, FS_Interval
    <3>3. IsFiniteSet(mine)
      BY <3>2, FS_Subset
    <3> QED BY <3>3, FS_CardinalityType
  <2>5. i.count \in Nat
    <3>1. i \in Interest
      BY <1>5 DEF Musts, TripSpec
    <3> QED BY <3>1 DEF Interest
  <2> HIDE DEF mine
  <2>6. Cardinality(mine) >= i.count
    BY <2>3, <2>4, <2>5
  <2> QED BY <2>6 DEF mine
<1>9. WithinBudget(Visits(tour, req) + LegCosts(tour), req)
  <2>1. Solves(tour, prob)
    BY <1>5, SolutionsSolve DEF PlanInv
  <2> QED BY <1>5, <2>1, SolvedInBudget, DaySpecKeeps
<1> QED BY <1>6, <1>7, <1>8, <1>9 DEF Honoured

(* Nothing is planned or committed at first.                               *)
LEMMA InitPlanInv == Init => PlanInv
BY DEF Init, PlanInv, PlanningADay

(* Giving an answer ends the day's planning.                               *)
LEMMA AnswerKeepsPlanInv == ASSUME PlanInv, NEW code, Answer(code) PROVE PlanInv'
<1>1. saved' = saved /\ req' = req /\ stage' = "day"
  BY DEF Answer
<1>2. \A d \in DOMAIN saved' : Honoured(saved[d].tour, saved[d].cat, req)' /\ Keepable(saved[d].tour, req)'
  BY <1>1 DEF PlanInv
<1> QED BY <1>1, <1>2 DEF PlanInv, PlanningADay

(* Commits of honoured, keepable tours leave all commits so.               *)
LEMMA PersistKeepsPlanInv == ASSUME TypeOK, PlanInv, Persist PROVE PlanInv'
<1> DEFINE row == [day |-> Day, tour |-> tour, cat |-> prob.cat]
<1>1. /\ saved' = Append(saved, row) /\ row.tour = tour /\ row.cat = prob.cat
      /\ stage = "persist" /\ stage' = "report" /\ UNCHANGED <<tour, prob, spec>>
      /\ UNCHANGED <<req, used, days_out>>
  BY DEF Persist, trip, local
<1> HIDE DEF row
<1>2. /\ DOMAIN saved' = DOMAIN saved \cup {Len(saved) + 1}
      /\ saved'[Len(saved) + 1] = row
      /\ \A s \in DOMAIN saved : saved'[s] = saved[s]
  BY <1>1 DEF TypeOK
<1>3. req \in TripSpec /\ spec = DaySpec /\ prob.spec = spec /\ spec \in TripSpec
      /\ tour \in Seq(Stop) /\ Honoured(tour, prob.cat, req)
  BY <1>1, RequestsAreTripSpecs DEF TypeOK, PlanInv, PlanningADay
<1>4. Keepable(tour, req)
  <2>1. Keepable(tour, prob.spec)
    BY <1>1, <1>3, SolutionsSolve, SolvedIsKeepable DEF PlanInv
  <2>2. prob.spec.start = req.start /\ prob.spec.end = req.end
    BY <1>3, DaySpecKeeps
  <2> QED BY <2>1, <2>2 DEF Keepable, Before
<1>5. \A d \in DOMAIN saved' : Honoured(saved'[d].tour, saved'[d].cat, req) /\ Keepable(saved'[d].tour, req)
  BY <1>1, <1>2, <1>3, <1>4 DEF PlanInv
<1>7. \A d \in DOMAIN saved' : Honoured(saved[d].tour, saved[d].cat, req)' /\ Keepable(saved[d].tour, req)'
  BY <1>1, <1>5
<1>8. DaySpec' = DaySpec
  BY <1>1 DEF DaySpec
<1> QED BY <1>1, <1>7, <1>8 DEF PlanInv, PlanningADay

(* Every step keeps it.                                                    *)
LEMMA NextPlanInv ==
    TypeOK /\ DayInv /\ NothingPlannedRelaxed /\ PlanInv /\ [Next]_vars => PlanInv'
<1> SUFFICES ASSUME TypeOK, DayInv, NothingPlannedRelaxed, PlanInv, [Next]_vars PROVE PlanInv'
  OBVIOUS
<1> USE DEF PlanningADay
<1>1. ASSUME UNCHANGED <<req, saved>>
      PROVE  \A d \in DOMAIN saved' : /\ Honoured(saved[d].tour, saved[d].cat, req)'
                                      /\ Keepable(saved[d].tour, req)'
  BY <1>1 DEF PlanInv
<1>2. ASSUME UNCHANGED <<req, used, days_out>> PROVE DaySpec' = DaySpec
  BY <1>2 DEF DaySpec
<1>3. CASE FetchWeather \/ Finish \/ Abort
  <2>1. stage' \in {"day", "done", "aborted"} /\ UNCHANGED <<req, saved>>
    BY <1>3 DEF FetchWeather, Finish, Abort, trip
  <2> QED BY <1>1, <2>1 DEF PlanInv
<1>4. CASE StartDay
  <2>1. /\ UNCHANGED <<req, saved, used, days_out>> /\ stage' = "search"
        /\ spec' = DaySpec /\ SemanticErrors(DaySpec) = {}
    BY <1>4 DEF StartDay, trip
  <2>2. SemanticErrors(DaySpec)' = {} /\ DaySpec' = DaySpec
    BY <1>2, <2>1
  <2> QED BY <1>1, <2>1, <2>2 DEF PlanInv
<1>5. CASE RefuseSemantics \/ RefuseInfeasible \/ RefuseNoCandidates \/ RefusePin
           \/ RefuseRouting \/ RefuseUnsolved \/ RefuseInvalid \/ ReportDay
  BY <1>5, AnswerKeepsPlanInv
     DEF RefuseSemantics, RefuseInfeasible, RefuseNoCandidates, RefusePin,
         RefuseRouting, RefuseUnsolved, RefuseInvalid, ReportDay
<1>6. CASE Search \/ Rank \/ BuildArcs
  <2>1. /\ UNCHANGED <<req, saved, used, days_out, spec>>
        /\ stage \in {"search", "rank", "arcs"}
        /\ stage' \in {"search", "precheck", "arcs", "optimize"}
    BY <1>6 DEF Search, Rank, BuildArcs, trip, local
  <2>2. SemanticErrors(DaySpec)' = SemanticErrors(DaySpec) /\ DaySpec' = DaySpec
    BY <1>2, <2>1
  <2> QED BY <1>1, <2>1, <2>2 DEF PlanInv
<1>7. CASE PassPrecheck
  <2>1. /\ UNCHANGED <<req, saved, used, days_out>> /\ spec' = Relaxed
        /\ stage = "precheck" /\ stage' = "rank"
    BY <1>7 DEF PassPrecheck, trip
  <2>2. Relaxed = spec
    BY <1>7, PassedUnrelaxed, RelaxByNothing DEF Relaxed, TypeOK
  <2>3. SemanticErrors(DaySpec)' = SemanticErrors(DaySpec) /\ DaySpec' = DaySpec
    BY <1>2, <2>1
  <2> QED BY <1>1, <2>1, <2>2, <2>3 DEF PlanInv
<1>8. CASE Optimize
  <2>1. /\ UNCHANGED <<req, saved, used, days_out, spec, prob>>
        /\ stage = "optimize" /\ stage' = "recheck"
    BY <1>8 DEF Optimize, trip
  <2>2. tour' \in Solutions(prob')
    BY <1>8, <2>1 DEF Optimize, Returned, Optimal
  <2>3. SemanticErrors(DaySpec)' = SemanticErrors(DaySpec) /\ DaySpec' = DaySpec
    BY <1>2, <2>1
  <2> QED BY <1>1, <2>1, <2>2, <2>3 DEF PlanInv
<1>12. CASE ReadHours
  <2>1. /\ UNCHANGED <<req, saved, used, days_out, spec, prob, tour>>
        /\ stage = "recheck" /\ stage' = "validate"
    BY <1>12 DEF ReadHours, trip
  <2>2. SemanticErrors(DaySpec)' = SemanticErrors(DaySpec) /\ DaySpec' = DaySpec
    BY <1>2, <2>1
  <2> QED BY <1>1, <2>1, <2>2 DEF PlanInv
<1>9. CASE Validate
  <2>1. /\ UNCHANGED <<req, saved, used, days_out, spec, prob, tour>>
        /\ stage = "validate" /\ stage' = "persist"
    BY <1>9 DEF Validate, trip, local
  <2>2. Honoured(tour, prob.cat, req)'
    BY <1>9, <2>1, AcceptedHonours
  <2>3. SemanticErrors(DaySpec)' = SemanticErrors(DaySpec) /\ DaySpec' = DaySpec
    BY <1>2, <2>1
  <2> QED BY <1>1, <2>1, <2>2, <2>3 DEF PlanInv
<1>10. CASE Persist
  BY <1>10, PersistKeepsPlanInv
<1>11. CASE ReloadHours \/ UNCHANGED vars
  <2>1. UNCHANGED <<req, saved, used, days_out, spec, prob, tour, stage>>
    BY <1>11 DEF ReloadHours, vars, trip, local
  <2>2. SemanticErrors(DaySpec)' = SemanticErrors(DaySpec) /\ DaySpec' = DaySpec
    BY <1>2, <2>1
  <2>3. Honoured(tour, prob.cat, req)' <=> Honoured(tour, prob.cat, req)
    BY <2>1
  <2> QED BY <1>1, <2>1, <2>2, <2>3 DEF PlanInv
<1> QED
  BY <1>3, <1>4, <1>5, <1>6, <1>7, <1>8, <1>9, <1>10, <1>11, <1>12 DEF Next, Handler

(* It always holds.                                                        *)
LEMMA PlanInvariant == Spec => []PlanInv
BY InitPlanInv, NextPlanInv, TypeCorrect, DayInvariant, NeverRelaxed, PTL DEF Spec

(* What is committed is what was asked for: nothing avoided, every MUST    *)
(* met, the delivered cost in budget - on every day, whatever the widened  *)
(* search brought back and whatever the ladder tried.                      *)
THEOREM CommitsHonourRequest == Spec => []SavedHonoursRequest
<1>1. PlanInv => SavedHonoursRequest
  BY DEF PlanInv, Honoured, SavedHonoursRequest, DeliveredCost, Visits, LegCosts
<1> QED BY <1>1, PlanInvariant, PTL

(* Every committed timetable leaves room for its legs.                     *)
THEOREM TimetablesCanBeKept == Spec => []TimetableCanBeKept
<1>1. PlanInv => TimetableCanBeKept
  BY DEF PlanInv, Keepable, Before, TimetableCanBeKept
<1> QED BY <1>1, PlanInvariant, PTL

----------------------------------------------------------------------------
(* The validator and the solver.                                           *)

(* The stops of a tour as the validator adds them up.                      *)
LEMMA FactsCost ==
    ASSUME NEW drifts, tour \in Seq(Stop), ClosedCircuit(tour), spec \in TripSpec
    PROVE  SumOver(Facts(drifts), LAMBDA s : s.cost + s.legCost)
           = Visits(tour, spec) + LegCosts(tour)
<1> DEFINE facts == Facts(drifts)
           f == [k \in DOMAIN tour |-> VisitCost(tour[k].poi, spec) + Arc[Leg(tour, k)].cost]
<1>1. /\ DOMAIN facts = DOMAIN tour
      /\ \A k \in DOMAIN tour : f[k] = facts[k].cost + facts[k].legCost
  BY DEF Facts
<1>2. IsFiniteSet(DOMAIN tour)
  <2>1. DOMAIN tour = 1..Len(tour) /\ Len(tour) \in Nat
    OBVIOUS
  <2> QED BY <2>1, FS_Interval
<1>3. \A k \in DOMAIN tour : f[k] = VisitCost(tour[k].poi, spec) + Arc[Leg(tour, k)].cost
  OBVIOUS
<1> HIDE DEF f
<1>4. Total(f, DOMAIN tour) = Visits(tour, spec) + LegCosts(tour)
  BY <1>3, StopByStop
<1>5. SumOver(facts, LAMBDA s : s.cost + s.legCost) = Total(f, DOMAIN facts)
  <2> HIDE DEF facts
  <2> QED BY <1>1, <1>2, FactSum
<1> QED BY <1>1, <1>4, <1>5

(* A solution's times follow one another inside the window.                *)
LEMMA SolvedTimeline ==
    ASSUME NEW drifts, tour \in Seq(Stop), spec \in TripSpec, NEW p, p.spec = spec,
           Solves(tour, p)
    PROVE  ~ BadTimeline(Facts(drifts), spec)
<1> DEFINE facts == Facts(drifts)
<1>1. /\ DOMAIN facts = DOMAIN tour
      /\ \A k \in DOMAIN tour : facts[k].arrive = tour[k].arrive /\ facts[k].depart = tour[k].depart
  BY DEF Facts
<1>2. Keepable(tour, spec)
  BY SolvedIsKeepable
<1>3. ASSUME NEW k \in DOMAIN tour
      PROVE  /\ tour[k].arrive \in Int /\ tour[k].depart \in Int /\ spec.start \in Int
             /\ Before(tour, spec, k) < tour[k].arrive
             /\ Before(tour, spec, k) = IF k = 1 THEN spec.start ELSE tour[k - 1].depart
             /\ Before(tour, spec, k) \in Int
             /\ spec.start <= tour[k].arrive /\ tour[k].depart <= spec.end
             /\ tour[k].arrive < tour[k].depart
             /\ spec.end \in Int
  <2>1. tour[k] \in Stop
    OBVIOUS
  <2>2. tour[k].arrive \in Int /\ tour[k].depart \in Int /\ tour[k].poi \in Poi
    BY <2>1 DEF Stop
  <2>3. /\ spec.start <= tour[k].arrive /\ tour[k].depart <= spec.end
        /\ tour[k].depart = tour[k].arrive + VisitMinutes(tour[k].poi, spec)
    BY DEF Solves, VisitLasts
  <2>4. VisitMinutes(tour[k].poi, spec) \in Nat /\ VisitMinutes(tour[k].poi, spec) >= 15
    BY <2>2, VisitMinutesBound
  <2>5. tour[k].arrive < tour[k].depart
    BY <2>2, <2>3, <2>4
  <2>6. Before(tour, spec, k) < tour[k].arrive
    BY <1>2 DEF Keepable
  <2>7. Before(tour, spec, k) = IF k = 1 THEN spec.start ELSE tour[k - 1].depart
    BY DEF Before
  <2> QED BY <2>2, <2>3, <2>5, <2>6, <2>7, BeforeType, WindowType
<1>4. ASSUME NEW k \in DOMAIN tour
      PROVE  ~ (tour[k].arrive < (IF k = 1 THEN spec.start ELSE tour[k - 1].depart))
  BY <1>3
<1>5. ASSUME NEW k \in DOMAIN tour
      PROVE  ~ (tour[k].depart < tour[k].arrive) /\ ~ (tour[k].arrive < spec.start)
             /\ ~ (tour[k].depart > spec.end)
  BY <1>3
<1>6. \A k \in DOMAIN tour : k # 1 => k - 1 \in DOMAIN tour
  OBVIOUS
<1> HIDE DEF facts
<1>7. \A k \in DOMAIN tour :
         (IF k = 1 THEN spec.start ELSE facts[k - 1].depart)
         = (IF k = 1 THEN spec.start ELSE tour[k - 1].depart)
  BY <1>1, <1>6
<1> QED BY <1>1, <1>4, <1>5, <1>7 DEF BadTimeline, facts

(* The places of a solution are open, on the hours the search saw.         *)
LEMMA SolvedIsOpen ==
    ASSUME tour \in Seq(Stop), NEW p, Solves(tour, p), NEW k \in DOMAIN tour,
           hours_now[tour[k].poi] = p.hours[tour[k].poi], hours_now \in HoursTables, NEW drifts
    PROVE  ~ Closed(Facts(drifts)[k])
<1> DEFINE facts == Facts(drifts)
           h == hours_now[tour[k].poi]
<1>1. /\ facts[k].hours = h
      /\ facts[k].arrive = tour[k].arrive /\ facts[k].depart = tour[k].depart
  BY DEF Facts
<1>2. h.hard => h.open <= tour[k].arrive /\ tour[k].depart <= h.close
  BY DEF Solves, OpeningWindows
<1>3. tour[k] \in Stop
  OBVIOUS
<1>4. tour[k].poi \in Poi /\ tour[k].arrive \in Int /\ tour[k].depart \in Int
  BY <1>3 DEF Stop
<1>5. hours_now \in [Poi -> HoursRecord]
  BY TripPlannerAssumption
<1>6. h \in HoursRecord
  BY <1>4, <1>5
<1> HIDE DEF h, facts
<1>7. h.open \in Int
  BY <1>6, HoursAreMinutes
<1>8. h.close \in Int
  BY <1>6, HoursAreMinutes
<1>9. h.hard => ~ (tour[k].arrive < h.open) /\ ~ (tour[k].depart > h.close)
  BY <1>2, <1>4, <1>7, <1>8
<1> QED BY <1>1, <1>9 DEF Closed, facts

(* What the solver constrains the validator never complains about: budget, *)
(* timeline, and the hours as long as what was read again is what the      *)
(* search saw.                                                             *)
THEOREM ValidatorAgrees == Spec => []ValidatorAgreesWithSolver
<1>1. TypeOK /\ PlanInv => ValidatorAgreesWithSolver
  <2> SUFFICES ASSUME TypeOK, PlanInv, stage = "validate"
               PROVE  /\ "BUDGET_EXCEEDED" \notin Report(FALSE)
                      /\ "TIMELINE_INVALID" \notin Report(FALSE)
                      /\ "VENUE_CLOSED" \in Report(FALSE) =>
                            \E p \in PoisOf(tour) : hours_now[p] # prob.hours[p]
    BY DEF ValidatorAgreesWithSolver
  <2> DEFINE facts == Facts(FALSE)
  <2>1. prob.spec = spec /\ spec \in TripSpec /\ tour \in Seq(Stop) /\ hours_now \in HoursTables
    BY DEF TypeOK
  <2>2. Solves(tour, prob)
    BY SolutionsSolve DEF PlanInv
  <2>3. ClosedCircuit(tour) /\ WithinBudget(TotalCost(tour, spec), spec)
    BY <2>1, <2>2 DEF Solves, BudgetHolds
  <2>4. ~ OverBudget(facts, spec)
    <3> DEFINE cost == Visits(tour, spec) + LegCosts(tour)
               limit == TotalCost(tour, spec)
    <3>1. SumOver(facts, LAMBDA s : s.cost + s.legCost) = cost
      BY <2>1, <2>3, FactsCost
    <3>2. cost \in Nat /\ limit \in Nat /\ cost <= limit
      BY <2>1, <2>3, LegsWithinCircuit
    <3>3. spec.budget = Unlimited \/ (spec.budget \in Nat /\ limit <= spec.budget)
      BY <2>1, <2>3 DEF WithinBudget, TripSpec, Budget
    <3> HIDE DEF cost, limit, facts
    <3>4. spec.budget # Unlimited => ~ (cost > spec.budget + COST_TOLERANCE_INR)
      BY <3>2, <3>3 DEF COST_TOLERANCE_INR
    <3> QED BY <3>1, <3>4 DEF OverBudget
  <2>5. ~ BadTimeline(facts, spec)
    BY <2>1, <2>2, SolvedTimeline
  <2>6. ASSUME NEW k \in DOMAIN facts, Closed(facts[k])
        PROVE  \E p \in PoisOf(tour) : hours_now[p] # prob.hours[p]
    <3>1. k \in DOMAIN tour
      BY DEF Facts
    <3>2. hours_now[tour[k].poi] # prob.hours[tour[k].poi]
      BY <2>1, <2>2, <2>6, <3>1, SolvedIsOpen
    <3> QED BY <3>1, <3>2 DEF PoisOf
  <2> HIDE DEF facts
  <2>7. Report(FALSE) = Findings(facts, spec, rain[Day], Declared)
    BY DEF Report, facts
  <2>8. "BUDGET_EXCEEDED" \notin Report(FALSE) /\ "TIMELINE_INVALID" \notin Report(FALSE)
    BY <2>4, <2>5, <2>7 DEF Findings
  <2>9. "VENUE_CLOSED" \in Report(FALSE) => \E k \in DOMAIN facts : Closed(facts[k])
    BY <2>7 DEF Findings
  <2> QED BY <2>6, <2>8, <2>9
<1> QED BY <1>1, PlanInvariant, TypeCorrect, PTL

----------------------------------------------------------------------------
(* The ladder and the schema.                                              *)

(* Without a MUST there is nothing the check could object to: the one leg  *)
(* it charges is below the floor of the semantic check.                    *)
LEMMA NoMustsNoViolations ==
    ASSUME NEW s \in TripSpec, Musts(s) = {}, SemanticErrors(s) = {}, WellFormed(s),
           NEW found, NEW h, NEW wet
    PROVE  Violated(s, found, h, wet) = {}
<1>1. s.start \in Int /\ s.end \in Int /\ s.end - s.start >= 60
  BY WindowType DEF WellFormed
<1>2. TotalRequired100(s, found) = 0
  BY NoTimeNeeded DEF TotalRequired100
<1>3. ~ (TotalRequired100(s, found) > 100 * (s.end - s.start))
  BY <1>1, <1>2
<1>4. Supplied(s, found) = {}
  BY DEF Supplied
<1>5. LegCount(s) = 1
  <2>1. Max({0, 1}) = 1
    <3>1. \A x \in {0, 1} : (\A y \in {0, 1} : x >= y) <=> x = 1
      OBVIOUS
    <3>2. 1 \in {0, 1} /\ \A y \in {0, 1} : 1 >= y
      OBVIOUS
    <3> QED BY <3>1, <3>2 DEF Max
  <2> QED BY <2>1, NothingToCount DEF LegCount
<1>6. s.party \in 1..10 /\ s.vehicle \in BOOLEAN
  BY DEF TripSpec, PartySize
<1>7. MinTripCost(s, found) = IF s.vehicle THEN MIN_LEG_COST_INR ELSE 0
  BY <1>4, <1>5, <1>6, NothingToPay DEF MinTripCost, MIN_LEG_COST_INR
<1>8. WithinBudget(MIN_BUDGET_PER_PERSON_INR * s.party, s)
  BY DEF SemanticErrors
<1>9. s.budget = Unlimited \/ (s.budget \in Nat /\ 50 * s.party <= s.budget)
  BY <1>8 DEF WithinBudget, MIN_BUDGET_PER_PERSON_INR, TripSpec, Budget
<1>10. MinTripCost(s, found) \in {0, 30}
  BY <1>7 DEF MIN_LEG_COST_INR
<1>11. WithinBudget(MinTripCost(s, found), s)
  BY <1>6, <1>9, <1>10 DEF WithinBudget
<1> QED BY <1>3, <1>4, <1>11 DEF Violated

(* Interests are finitely many.                                            *)
LEMMA InterestsFinite == ASSUME NEW ints \in SUBSET Interest PROVE IsFiniteSet(ints)
<1> DEFINE D == Category \X ((1..5) \X Priority)
           f == [d \in D |-> [cat |-> d[1], count |-> d[2][1], prio |-> d[2][2]]]
<1>1. IsFiniteSet(Category)
  BY PlacesAssumption
<1>2. IsFiniteSet(1..5)
  <2> DEFINE a == 1
             b == 5
  <2>1. a \in Int /\ b \in Int
    OBVIOUS
  <2> HIDE DEF a, b
  <2>2. IsFiniteSet(a..b)
    BY <2>1, FS_Interval
  <2> QED BY <2>2 DEF a, b
<1>3. IsFiniteSet(Priority)
  <2>1. IsFiniteSet({"must"}) /\ IsFiniteSet({"should"}) /\ IsFiniteSet({"nice"})
    BY FS_Singleton
  <2>2. IsFiniteSet({"must"} \cup {"should"})
    BY <2>1, FS_Union
  <2>3. IsFiniteSet(({"must"} \cup {"should"}) \cup {"nice"})
    BY <2>1, <2>2, FS_Union
  <2>4. Priority = ({"must"} \cup {"should"}) \cup {"nice"}
    BY DEF Priority
  <2> QED BY <2>3, <2>4
<1>4. IsFiniteSet((1..5) \X Priority)
  BY <1>2, <1>3, FS_Product
<1>5. IsFiniteSet(D)
  BY <1>1, <1>4, FS_Product
<1>6. f \in Surjection(D, Interest)
  <2>1. f \in [D -> Interest]
    BY DEF Interest
  <2>2. ASSUME NEW i \in Interest PROVE \E d \in D : f[d] = i
    <3>1. i.cat \in Category /\ i.count \in 1..5 /\ i.prio \in Priority
          /\ i = [cat |-> i.cat, count |-> i.count, prio |-> i.prio]
      BY DEF Interest
    <3>2. <<i.cat, <<i.count, i.prio>>>> \in D
      BY <3>1
    <3>3. f[<<i.cat, <<i.count, i.prio>>>>] = i
      BY <3>1, <3>2
    <3> QED BY <3>2, <3>3
  <2> HIDE DEF f, D
  <2> QED BY <2>1, <2>2 DEF Surjection
<1> HIDE DEF D, f
<1>7. IsFiniteSet(Interest)
  BY <1>5, <1>6, FS_Surjection
<1> QED BY <1>7, FS_Subset

(* Relaxing adds no interest and no category, and keeps every MUST.        *)
LEMMA RelaxedInterests ==
    ASSUME NEW s \in TripSpec, NEW steps
    PROVE  /\ Relax(s, steps).interests \in SUBSET Interest
           /\ Cardinality(Relax(s, steps).interests) <= Cardinality(s.interests)
           /\ Wanted(Relax(s, steps)) \subseteq Wanted(s)
           /\ Relax(s, steps).avoidCats = s.avoidCats
           /\ Relax(s, steps).maxWalk = s.maxWalk
<1> DEFINE kept == IF "drop_nice" \in steps THEN DropNice(s.interests) ELSE s.interests
           cut(i) == IF i.prio = "should" THEN [i EXCEPT !.count = 1] ELSE i
           f == [i \in kept |-> cut(i)]
           ints == IF "reduce_should_counts" \in steps THEN ReduceShould(kept) ELSE kept
<1>1. s.interests \in SUBSET Interest
  BY DEF TripSpec
<1>2. kept \subseteq s.interests
  BY DEF DropNice
<1>3. IsFiniteSet(s.interests) /\ IsFiniteSet(kept)
      /\ Cardinality(kept) <= Cardinality(s.interests) /\ Cardinality(kept) \in Nat
      /\ Cardinality(s.interests) \in Nat
  <2> HIDE DEF kept
  <2>1. IsFiniteSet(s.interests)
    BY <1>1, InterestsFinite
  <2> QED BY <1>2, <2>1, FS_Subset, FS_CardinalityType
<1>4. \A i \in kept : cut(i).cat = i.cat
  BY <1>1, <1>2 DEF Interest
<1>5. ReduceShould(kept) = {cut(i) : i \in kept}
  BY DEF ReduceShould
<1>6. IsFiniteSet(ReduceShould(kept)) /\ Cardinality(ReduceShould(kept)) <= Cardinality(kept)
  <2>1. f \in Surjection(kept, ReduceShould(kept))
    <3> HIDE DEF kept, cut
    <3> QED BY <1>5 DEF Surjection
  <2> HIDE DEF f, kept
  <2> QED BY <1>3, <2>1, FS_Surjection
<1>7. Cardinality(ints) <= Cardinality(s.interests)
  <2>1. CASE "reduce_should_counts" \in steps
    <3>1. Cardinality(ReduceShould(kept)) \in Nat
      <4> HIDE DEF kept
      <4> QED BY <1>6, FS_CardinalityType
    <3> HIDE DEF kept
    <3> QED BY <1>3, <1>6, <2>1, <3>1
  <2>2. CASE "reduce_should_counts" \notin steps
    BY <1>3, <2>2
  <2> QED BY <2>1, <2>2
<1>8. {i.cat : i \in ints} \subseteq {i.cat : i \in s.interests}
  <2> HIDE DEF cut
  <2> QED BY <1>2, <1>4, <1>5
<1>9. Relax(s, steps) = [s EXCEPT !.interests = ints]
  BY DEF Relax
<1> HIDE DEF ints
<1>10. Relax(s, steps).interests = ints /\ Relax(s, steps).avoidCats = s.avoidCats
       /\ Relax(s, steps).maxWalk = s.maxWalk
  BY <1>9 DEF TripSpec
<1>11. Relax(s, steps) \in TripSpec
  BY RelaxKeepsMusts
<1>12. Relax(s, steps).interests \in SUBSET Interest
  BY <1>11 DEF TripSpec
<1> QED BY <1>7, <1>8, <1>10, <1>12 DEF Wanted

(* The ladder never empties a request: what it leaves passes the schema.   *)
THEOREM LadderStaysWellFormed == Spec => []RelaxationStaysWellFormed
<1>1. TypeOK /\ PlanInv => RelaxationStaysWellFormed
  <2> SUFFICES ASSUME TypeOK, PlanInv, stage = "precheck" PROVE WellFormed(Relaxed)
    BY DEF RelaxationStaysWellFormed
  <2>1. req \in TripSpec /\ WellFormed(req)
    BY TripPlannerAssumption DEF TypeOK
  <2>2. spec \in TripSpec /\ spec = DaySpec /\ SemanticErrors(spec) = {}
    BY DEF TypeOK, PlanInv, PlanningADay
  <2>3. WellFormed(spec)
    BY <2>1, <2>2, DaySpecKeeps DEF WellFormed
  <2>4. CASE Musts(spec) = {}
    <3>1. DayViolations(spec) = {}
      BY <2>2, <2>3, <2>4, NoMustsNoViolations DEF DayViolations
    <3>2. Relaxed = spec
      BY <2>2, <3>1, RelaxByNothing DEF Relaxed, AutoSteps
    <3> QED BY <2>3, <3>2
  <2>5. CASE Musts(spec) # {}
    <3> DEFINE r == Relaxed
    <3>1. /\ r.interests \in SUBSET Interest
          /\ Cardinality(r.interests) <= Cardinality(spec.interests)
          /\ Wanted(r) \subseteq Wanted(spec)
          /\ r.avoidCats = spec.avoidCats /\ r.maxWalk = spec.maxWalk
      BY <2>2, RelaxedInterests DEF Relaxed
    <3>2. /\ Musts(r) = Musts(spec) /\ r.require = spec.require
          /\ r.start = spec.start /\ r.end = spec.end /\ r.vehicle = spec.vehicle
      BY <2>2, RelaxKeepsMusts DEF Relaxed
    <3> HIDE DEF r
    <3>3. r.interests # {}
      BY <2>5, <3>2 DEF Musts
    <3>4. Cardinality(r.interests) <= 8
      <4>1. IsFiniteSet(r.interests) /\ IsFiniteSet(spec.interests)
        BY <2>2, <3>1, InterestsFinite DEF TripSpec
      <4>2. Cardinality(r.interests) \in Nat /\ Cardinality(spec.interests) \in Nat
        BY <4>1, FS_CardinalityType
      <4> QED BY <2>3, <3>1, <4>2 DEF WellFormed
    <3>5. WellFormed(r)
      BY <2>3, <3>1, <3>2, <3>3, <3>4 DEF WellFormed
    <3> QED BY <3>5 DEF r
  <2> QED BY <2>4, <2>5
<1> QED BY <1>1, PlanInvariant, TypeCorrect, PTL

----------------------------------------------------------------------------
(* No day loops: a count of the steps ahead that every step of the handler *)
(* lowers.                                                                 *)

DayStepsLeft ==
    CASE stage = "search"   -> 9 + Cardinality(Wanted(spec) \ Searched)
      [] stage = "precheck" -> 9
      [] stage = "rank"     -> 8
      [] stage = "arcs"     -> 7
      [] stage = "optimize" -> 6
      [] stage = "recheck"  -> 5
      [] stage = "validate" -> 4
      [] stage = "persist"  -> 3
      [] stage = "report"   -> 2

(* A day takes at most eight searches and eleven other steps.                 *)
StepsLeft ==
    CASE stage \in {"done", "aborted"} -> 0
      [] stage = "arrived" -> 19 * req.days + 2
      [] stage = "day"     -> 19 * (req.days - Len(days_out)) + 1
      [] OTHER -> 19 * (req.days - Len(days_out) - 1) + 1 + DayStepsLeft

Counted == stage = "search" =>
             /\ IsFiniteSet(Wanted(spec)) /\ Cardinality(Wanted(spec)) <= 8

(* A request asks for eight categories at most.                            *)
LEMMA FewSearches ==
    ASSUME NEW s \in TripSpec, Cardinality(s.interests) <= 8
    PROVE  IsFiniteSet(Wanted(s)) /\ Cardinality(Wanted(s)) <= 8
<1> DEFINE f == [i \in s.interests |-> i.cat]
<1>1. IsFiniteSet(s.interests)
  BY InterestsFinite DEF TripSpec
<1>2. f \in Surjection(s.interests, Wanted(s))
  BY DEF Surjection, Wanted
<1> HIDE DEF f
<1>3. IsFiniteSet(Wanted(s)) /\ Cardinality(Wanted(s)) <= Cardinality(s.interests)
  BY <1>1, <1>2, FS_Surjection
<1>4. Cardinality(Wanted(s)) \in Nat /\ Cardinality(s.interests) \in Nat
  BY <1>1, <1>3, FS_CardinalityType
<1> QED BY <1>3, <1>4

InADay == Running \ {"arrived", "day"}

LEMMA DayStepsType ==
    ASSUME Counted, stage \in InADay
    PROVE  /\ DayStepsLeft \in 2..17
           /\ stage = "search" => DayStepsLeft = 9 + Cardinality(Wanted(spec) \ Searched)
           /\ stage # "search" => DayStepsLeft <= 9
<1>1. CASE stage = "search"
  <2> DEFINE c == Cardinality(Wanted(spec) \ Searched)
  <2>1. IsFiniteSet(Wanted(spec)) /\ Cardinality(Wanted(spec)) <= 8
    BY <1>1 DEF Counted
  <2>2. IsFiniteSet(Wanted(spec) \ Searched) /\ c <= Cardinality(Wanted(spec))
    BY <2>1, FS_Subset
  <2>3. c \in Nat /\ Cardinality(Wanted(spec)) \in Nat
    BY <2>1, <2>2, FS_CardinalityType
  <2>4. DayStepsLeft = 9 + c
    BY <1>1 DEF DayStepsLeft
  <2> HIDE DEF c
  <2>5. c \in 0..8
    BY <2>1, <2>2, <2>3
  <2> QED BY <1>1, <2>4, <2>5 DEF c
<1>2. CASE stage # "search"
  BY <1>2 DEF DayStepsLeft, InADay, Running, Stages
<1> QED BY <1>1, <1>2

LEMMA DaysOfSteps ==
    ASSUME NEW d \in Int, NEW n \in Int, NEW k \in Int
    PROVE  /\ 19 * (d - (n + 1)) + 1 < 19 * (d - n) + 1
           /\ 19 * (d - (n + 1)) + 1 = 19 * (d - n - 1) + 1
           /\ k < 19 => 19 * (d - n - 1) + 1 + k < 19 * (d - n) + 1
OBVIOUS

(* A refusal or a report ends its day.                                     *)
LEMMA AnswerCounts ==
    ASSUME TypeOK, Counted, Len(days_out) < req.days, stage \in InADay \cup {"day"},
           NEW code, Answer(code)
    PROVE  StepsLeft' < StepsLeft
<1>1. req.days \in 1..7 /\ Len(days_out) \in Nat
  BY RequestsAreTripSpecs, SpecFields DEF TypeOK
<1>2. stage' = "day" /\ req' = req /\ Len(days_out') = Len(days_out) + 1
  BY DEF Answer, TypeOK
<1>3. StepsLeft' = 19 * (req.days - (Len(days_out) + 1)) + 1
  BY <1>2 DEF StepsLeft
<1>4. CASE stage = "day"
  <2>1. StepsLeft = 19 * (req.days - Len(days_out)) + 1
    BY <1>4 DEF StepsLeft
  <2>2. PICK d, n : d = req.days /\ n = Len(days_out)
    OBVIOUS
  <2>3. d \in Int /\ n \in Int
    BY <1>1, <2>2
  <2>4. StepsLeft = 19 * (d - n) + 1 /\ StepsLeft' = 19 * (d - (n + 1)) + 1
    BY <1>3, <2>1, <2>2
  <2>5. 19 * (d - (n + 1)) + 1 < 19 * (d - n) + 1
    BY <2>3, DaysOfSteps
  <2> QED BY <2>4, <2>5
<1>5. CASE stage \in InADay
  <2>1. StepsLeft = 19 * (req.days - Len(days_out) - 1) + 1 + DayStepsLeft
    BY <1>5 DEF StepsLeft, InADay, Running, Stages
  <2>2. DayStepsLeft \in 2..17
    BY <1>5, DayStepsType
  <2> DEFINE base == 19 * (req.days - Len(days_out) - 1) + 1
  <2>3. base \in Int /\ StepsLeft' = base
    BY <1>1, <1>3, DaysOfSteps
  <2> QED BY <2>1, <2>2, <2>3
<1> QED BY <1>4, <1>5

LEMMA InitCounted == Init => Counted
BY DEF Init, Counted

LEMMA StartDayCounts ==
    ASSUME TypeOK, StartDay
    PROVE  Counted' /\ StepsLeft' < StepsLeft
<1>1. req \in TripSpec /\ Cardinality(req.interests) <= 8 /\ req.days \in 1..7
      /\ Len(days_out) \in Nat
  BY RequestsAreTripSpecs, TripPlannerAssumption, SpecFields DEF TypeOK, WellFormed
<1>2. Wanted(DaySpec) = Wanted(req)
  <2>1. DaySpec.interests = req.interests
    BY <1>1 DEF DaySpec, TripSpec
  <2> QED BY <2>1 DEF Wanted
<1>3. /\ stage = "day" /\ stage' = "search" /\ spec' = DaySpec /\ UNCHANGED <<req, days_out>>
      /\ pool' = [found |-> <<>>, hours |-> <<>>]
  BY DEF StartDay, trip
<1>4. Searched' = {}
  BY <1>3 DEF Searched
<1>5. Wanted(spec)' = Wanted(req)
  BY <1>2, <1>3 DEF Wanted
<1>6. IsFiniteSet(Wanted(req)) /\ Cardinality(Wanted(req)) <= 8
      /\ Cardinality(Wanted(req)) \in Nat
  BY <1>1, FewSearches, FS_CardinalityType
<1>7. Counted'
  BY <1>5, <1>6 DEF Counted
<1>8. Wanted(spec)' \ Searched' = Wanted(req)
  BY <1>4, <1>5
<1>9. DayStepsLeft' = 9 + Cardinality(Wanted(req))
  BY <1>3, <1>8 DEF DayStepsLeft
<1>10. StepsLeft' = 19 * (req.days - Len(days_out) - 1) + 1 + DayStepsLeft'
  BY <1>3 DEF StepsLeft
<1>11. StepsLeft = 19 * (req.days - Len(days_out)) + 1
  BY <1>3 DEF StepsLeft
<1>12. DayStepsLeft' \in Int /\ DayStepsLeft' < 19
  BY <1>6, <1>9
<1>13. PICK d, n, k : d = req.days /\ n = Len(days_out) /\ k = DayStepsLeft'
  OBVIOUS
<1>14. d \in Int /\ n \in Int /\ k \in Int /\ k < 19
  BY <1>1, <1>12, <1>13
<1>15. 19 * (d - n - 1) + 1 + k < 19 * (d - n) + 1
  BY <1>14, DaysOfSteps
<1> QED BY <1>7, <1>10, <1>11, <1>13, <1>15

LEMMA SearchCounts ==
    ASSUME TypeOK, Counted, Search
    PROVE  Counted' /\ DayStepsLeft' \in Int /\ DayStepsLeft' < DayStepsLeft
<1>1. stage = "search" /\ stage' \in {"search", "precheck"} /\ UNCHANGED <<req, days_out, spec>>
  BY DEF Search, trip
<1>2. Wanted(spec)' = Wanted(spec)
  BY <1>1 DEF Wanted
<1>3. Counted'
  BY <1>1, <1>2 DEF Counted
<1>4. PICK c \in Wanted(spec) \ Searched : DOMAIN pool'.found = Searched \cup {c}
  BY DEF Search
<1> DEFINE before == Wanted(spec) \ Searched
           after == Wanted(spec) \ (Searched \cup {c})
<1>5. Wanted(spec)' \ Searched' = after
  BY <1>2, <1>4 DEF Searched
<1>6. DayStepsLeft = 9 + Cardinality(before)
  BY <1>1 DEF DayStepsLeft
<1>7. IsFiniteSet(before) /\ c \in before /\ after = before \ {c}
  <2>1. IsFiniteSet(Wanted(spec)) /\ before \in SUBSET Wanted(spec)
    BY <1>1 DEF Counted
  <2>2. IsFiniteSet(before)
    BY <2>1, FS_Subset
  <2> QED BY <1>4, <2>2
<1> HIDE DEF before, after
<1>8. Cardinality(after) = Cardinality(before) - 1 /\ Cardinality(before) \in Nat
      /\ Cardinality(after) \in Nat
  <2>1. IsFiniteSet(after)
    BY <1>7, FS_RemoveElement
  <2> QED BY <1>7, <2>1, FS_RemoveElement, FS_CardinalityType
<1>9. DayStepsLeft' = 9 + Cardinality(after) \/ DayStepsLeft' = 9
  BY <1>1, <1>5 DEF DayStepsLeft
<1> QED BY <1>3, <1>6, <1>8, <1>9

(* Within a day a step leads to a later stage.                             *)
LEMMA DayGoesOn ==
    ASSUME TypeOK, Counted, stage \in InADay, stage' \in InADay,
           UNCHANGED <<req, days_out>>, DayStepsLeft' \in Int, DayStepsLeft' < DayStepsLeft
    PROVE  StepsLeft' < StepsLeft
<1>1. req.days \in 1..7 /\ Len(days_out) \in Nat
  BY RequestsAreTripSpecs, SpecFields DEF TypeOK
<1> DEFINE base == 19 * (req.days - Len(days_out) - 1) + 1
<1>2. base \in Int
  BY <1>1
<1>3. DayStepsLeft \in Int
  BY DayStepsType
<1>4. StepsLeft = base + DayStepsLeft
  BY DEF StepsLeft, InADay, Running, Stages
<1>5. StepsLeft' = base + DayStepsLeft'
  BY DEF StepsLeft, InADay, Running, Stages
<1> HIDE DEF base
<1>6. \A b, k, l \in Int : k < l => b + k < b + l
  OBVIOUS
<1>7. base + DayStepsLeft' < base + DayStepsLeft
  BY <1>2, <1>3, <1>6
<1> QED BY <1>4, <1>5, <1>7

LEMMA StepsType ==
    ASSUME TypeOK, Counted
    PROVE  StepsLeft \in 0..135 /\ (stage \in Running => StepsLeft > 0)
<1>1. PICK d, n : d = req.days /\ n = Len(days_out)
  OBVIOUS
<1>2. d \in 1..7 /\ n \in Nat /\ n <= d
  BY <1>1, RequestsAreTripSpecs, SpecFields DEF TypeOK
<1>3. /\ 19 * d + 2 \in 1..135
      /\ 19 * (d - n) + 1 \in 1..135
      /\ n < d => \A k \in 2..17 : 19 * (d - n - 1) + 1 + k \in 1..135
  BY <1>2
<1>4. CASE stage \notin Running
  BY <1>4 DEF StepsLeft, Running, Stages, TypeOK
<1>5. CASE stage = "arrived" \/ stage = "day"
  <2>1. CASE stage = "arrived"
    <3>1. StepsLeft = 19 * d + 2
      BY <1>1, <2>1 DEF StepsLeft
    <3> QED BY <1>3, <3>1
  <2>2. CASE stage = "day"
    <3>1. StepsLeft = 19 * (d - n) + 1
      BY <1>1, <2>2 DEF StepsLeft
    <3> QED BY <1>3, <3>1
  <2> QED BY <1>5, <2>1, <2>2
<1>6. CASE stage \in InADay
  <2>1. n < d
    BY <1>1, <1>6 DEF InADay, Running, Stages, TypeOK
  <2>2. StepsLeft = 19 * (d - n - 1) + 1 + DayStepsLeft
    BY <1>1, <1>6 DEF StepsLeft, InADay, Running, Stages
  <2>3. DayStepsLeft \in 2..17
    BY <1>6, DayStepsType
  <2> QED BY <1>3, <2>1, <2>2, <2>3
<1> QED BY <1>4, <1>5, <1>6 DEF InADay

LEMMA StepCounts ==
    ASSUME TypeOK, Counted, [Next]_vars
    PROVE  /\ Counted'
           /\ vars' # vars => IF reloads' = reloads THEN StepsLeft' < StepsLeft
                              ELSE StepsLeft' = StepsLeft
<1>0. req.days \in 1..7 /\ Len(days_out) \in Nat
  BY RequestsAreTripSpecs, SpecFields DEF TypeOK
<1>1. CASE FetchWeather
  <2>1. stage = "arrived" /\ stage' = "day" /\ UNCHANGED <<req, days_out>>
        /\ reloads' = reloads
    BY <1>1 DEF FetchWeather, table
  <2>2. StepsLeft = 19 * req.days + 2 /\ StepsLeft' = 19 * (req.days - Len(days_out)) + 1
    BY <2>1 DEF StepsLeft
  <2>3. PICK d, n : d = req.days /\ n = Len(days_out)
    OBVIOUS
  <2>4. d \in Int /\ n \in Nat
    BY <1>0, <2>3
  <2>5. 19 * (d - n) + 1 < 19 * d + 2
    BY <2>4
  <2> QED BY <2>1, <2>2, <2>3, <2>5 DEF Counted
<1>2. CASE StartDay
  BY <1>2, StartDayCounts DEF StartDay, table
<1>3. CASE Search
  <2>1. stage \in InADay /\ stage' \in InADay /\ UNCHANGED <<req, days_out>>
        /\ reloads' = reloads
    BY <1>3 DEF Search, InADay, Running, Stages, trip, table
  <2>2. Counted' /\ DayStepsLeft' \in Int /\ DayStepsLeft' < DayStepsLeft
    BY <1>3, SearchCounts
  <2> QED BY <2>1, <2>2, DayGoesOn
<1>4. CASE PassPrecheck \/ Rank \/ BuildArcs \/ Optimize \/ ReadHours
           \/ Validate \/ Persist
  <2>1. \/ stage = "precheck" /\ stage' = "rank"
        \/ stage = "rank" /\ stage' = "arcs"
        \/ stage = "arcs" /\ stage' = "optimize"
        \/ stage = "optimize" /\ stage' = "recheck"
        \/ stage = "recheck" /\ stage' = "validate"
        \/ stage = "validate" /\ stage' = "persist"
        \/ stage = "persist" /\ stage' = "report"
    BY <1>4 DEF PassPrecheck, Rank, BuildArcs, Optimize, ReadHours, Validate, Persist
  <2>2. UNCHANGED <<req, days_out>> /\ reloads' = reloads
    BY <1>4 DEF PassPrecheck, Rank, BuildArcs, Optimize, ReadHours, Validate, Persist, trip, table
  <2>3. DayStepsLeft' \in Int /\ DayStepsLeft' < DayStepsLeft
    BY <2>1 DEF DayStepsLeft
  <2>4. stage \in InADay /\ stage' \in InADay /\ Counted'
    BY <2>1 DEF InADay, Running, Stages, Counted
  <2> QED BY <2>2, <2>3, <2>4, DayGoesOn
<1>5. CASE RefuseSemantics \/ RefuseInfeasible \/ RefuseNoCandidates \/ RefusePin
           \/ RefuseRouting \/ RefuseUnsolved \/ RefuseInvalid \/ ReportDay
  <2>1. PICK code : Answer(code)
    BY <1>5 DEF RefuseSemantics, RefuseInfeasible, RefuseNoCandidates, RefusePin,
                RefuseRouting, RefuseUnsolved, RefuseInvalid, ReportDay
  <2>2. stage \in InADay \cup {"day"}
    BY <1>5 DEF RefuseSemantics, RefuseInfeasible, RefuseNoCandidates, RefusePin,
                RefuseRouting, RefuseUnsolved, RefuseInvalid, ReportDay,
                InADay, Running, Stages
  <2>3. Len(days_out) < req.days
    BY <1>5 DEF RefuseSemantics, RefuseInfeasible, RefuseNoCandidates, RefusePin,
                RefuseRouting, RefuseUnsolved, RefuseInvalid, ReportDay, TypeOK
  <2>4. stage' = "day" /\ reloads' = reloads
    BY <2>1 DEF Answer, table
  <2> QED BY <2>1, <2>2, <2>3, <2>4, AnswerCounts DEF Counted
<1>6. CASE Finish \/ Abort
  <2>1. stage \in Running /\ stage' \in {"done", "aborted"} /\ reloads' = reloads
    BY <1>6 DEF Finish, Abort, Running, Stages, table
  <2>2. StepsLeft' = 0 /\ Counted'
    BY <2>1 DEF StepsLeft, Counted
  <2> QED BY <2>1, <2>2, StepsType
<1>7. CASE ReloadHours \/ UNCHANGED vars
  <2>1. UNCHANGED <<req, days_out, stage, spec, pool>>
    BY <1>7 DEF ReloadHours, trip, local, vars
  <2>2. UNCHANGED StepsLeft /\ Counted'
    BY <2>1 DEF StepsLeft, DayStepsLeft, Searched, Counted, Wanted
  <2>3. vars' # vars => reloads' # reloads
    BY <1>7 DEF ReloadHours, TypeOK
  <2> QED BY <2>2, <2>3
<1> QED BY <1>1, <1>2, <1>3, <1>4, <1>5, <1>6, <1>7 DEF Next, Handler

LEMMA CountedInvariant == Spec => []Counted
<1>1. TypeOK /\ Counted /\ [Next]_vars => Counted'
  BY StepCounts
<1> QED BY <1>1, InitCounted, TypeCorrect, PTL DEF Spec

(* No day loops: the handler has at most 135 steps ahead of it and each    *)
(* one, but never a reload of the hours, lowers that number; so whatever   *)
(* fails, is refused or is relaxed, plan_trip comes to its end if it is    *)
(* not left waiting.                                                       *)
EachStepCounts ==
    [][IF reloads' = reloads THEN StepsLeft' < StepsLeft ELSE StepsLeft' = StepsLeft]_vars

THEOREM NoDayLoops == Spec => [](StepsLeft \in 0..135) /\ EachStepCounts
<1>1. TypeOK /\ Counted => StepsLeft \in 0..135
  BY StepsType
<1>2. TypeOK /\ Counted /\ [Next]_vars =>
        [IF reloads' = reloads THEN StepsLeft' < StepsLeft ELSE StepsLeft' = StepsLeft]_vars
  BY StepCounts
<1> QED BY <1>1, <1>2, TypeCorrect, CountedInvariant, PTL DEF Spec, EachStepCounts
=============================================================================
