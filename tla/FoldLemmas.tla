----------------------------- MODULE FoldLemmas -----------------------------
(***************************************************************************)
(* Facts about folds over finite sets, for any operation: the proofs of      *)
(* several components instantiate them, for sums and for operations on       *)
(* sequences.  A statement about every subset of a finite set is proved by   *)
(* the absence of a smallest counterexample: the set of counterexamples has  *)
(* a minimal element, because strict inclusion of finite sets is well        *)
(* founded.                                                                  *)
(***************************************************************************)
EXTENDS Integers, FiniteSets, Folds, FiniteSetTheorems, WellFoundedInduction, TLAPS

CONSTANTS
  Op(_, _),   \* the operation: a value and what has been made of the others
  Base,       \* what is made of none
  Pick(_)     \* the member of a set that is taken last

\* A well-founded relation has a minimal element in every set.
LEMMA MinimalElement ==
  ASSUME NEW R, NEW S, IsWellFoundedOn(R, S), NEW B, B \subseteq S, B # {}
  PROVE  \E T \in B : \A U \in B : ~(<<U, T>> \in R)
  BY WFMin

\* Induction over the subsets of a finite set: a set of subsets that contains
\* a subset whenever it contains all the smaller ones contains them all.
LEMMA SubsetInduction ==
  ASSUME NEW S, IsFiniteSet(S), NEW G,
         \A T \in SUBSET S : (\A U \in SUBSET T : U # T => U \in G) => T \in G
  PROVE  \A T \in SUBSET S : T \in G
<1> DEFINE R == StrictSubsetOrdering(S)
           F == FiniteSubsetsOf(S)
           B == {T \in SUBSET S : T \notin G}
<1>1. IsWellFoundedOn(R, F)
  BY FS_StrictSubsetOrderingWellFounded
<1>2. B \subseteq F
  BY FS_Subset DEF FiniteSubsetsOf
<1>3. ASSUME B # {} PROVE FALSE
  <2> HIDE DEF R, F, B
  <2>1. \E T \in B : \A U \in B : ~(<<U, T>> \in R)
    BY <1>1, <1>2, <1>3, MinimalElement
  <2>2. PICK T \in B : \A U \in B : ~(<<U, T>> \in R)
    BY <2>1
  <2>3. \A U \in SUBSET T : U # T => U \in G
    BY <2>2 DEF R, B, StrictSubsetOrdering
  <2>. QED  BY <2>2, <2>3 DEF B
<1>. QED  BY <1>3

\* Induction over the natural numbers, for a set.
LEMMA NumberInduction ==
  ASSUME NEW G, 0 \in G, \A n \in Nat : n \in G => n + 1 \in G
  PROVE  \A n \in Nat : n \in G
<1> SUFFICES ASSUME NEW n \in Nat  PROVE n \in G
  OBVIOUS
<1> DEFINE S == 0..n
           H == {T \in SUBSET S : \A k \in S : T = 0..k => k \in G}
<1>1. IsFiniteSet(S)
  <2>1. 0 \in Int /\ n \in Int
    OBVIOUS
  <2>. QED  BY <2>1, FS_Interval
<1>2. ASSUME NEW T \in SUBSET S, \A U \in SUBSET T : U # T => U \in H
      PROVE  T \in H
  <2> SUFFICES ASSUME NEW k \in S, T = 0..k, k # 0  PROVE k \in G
    OBVIOUS
  <2>1. k - 1 \in S /\ 0..(k - 1) \in SUBSET T /\ 0..(k - 1) # T
    <3>1. k \notin 0..(k - 1) /\ k \in 0..k
      OBVIOUS
    <3>. QED  BY <3>1
  <2>2. k - 1 \in G
    BY <1>2, <2>1
  <2>. QED  BY <2>1, <2>2
<1> HIDE DEF H, S
<1>3. S \in H
  BY <1>1, <1>2, SubsetInduction
<1>. QED  BY <1>3 DEF H, S

\* A finite set of numbers has a greatest member.
LEMMA Greatest ==
  ASSUME NEW S, IsFiniteSet(S), S \subseteq Int
  PROVE  \A T \in SUBSET S : T # {} => \E x \in T : \A y \in T : x >= y
<1> DEFINE G == {T \in SUBSET S : T # {} => \E x \in T : \A y \in T : x >= y}
<1>1. ASSUME NEW T \in SUBSET S, \A U \in SUBSET T : U # T => U \in G
      PROVE  T \in G
  <2> SUFFICES ASSUME NEW x \in T  PROVE \E y \in T : \A z \in T : y >= z
    OBVIOUS
  <2>1. CASE T \ {x} = {}
    <3>1. \A z \in T : x >= z
      BY <2>1
    <3>. QED  BY <3>1
  <2>2. CASE T \ {x} # {}
    <3>1. T \ {x} \in G
      BY <1>1
    <3>2. PICK y \in T \ {x} : \A z \in T \ {x} : y >= z
      BY <2>2, <3>1
    <3>3. x \in Int /\ y \in Int
      OBVIOUS
    <3>4. CASE y >= x
      BY <3>2, <3>4
    <3>5. CASE ~(y >= x)
      <4>1. \A z \in T : z \in Int /\ (z = x \/ y >= z)
        BY <3>2
      <4>2. \A z \in T : x >= z
        BY <3>3, <3>5, <4>1
      <4>. QED  BY <4>2
    <3>. QED  BY <3>4, <3>5
  <2>. QED  BY <2>1, <2>2
<1> HIDE DEF G
<1>2. \A T \in SUBSET S : T \in G
  BY <1>1, SubsetInduction
<1>. QED  BY <1>2 DEF G

\* The fold of the values of f over the set S.
Fold(f, S) == MapThenFoldSet(Op, Base, LAMBDA x : f[x], Pick, S)

Picks(S) == \A s \in SUBSET S : s # {} => Pick(s) \in s

\* The function that Fold(f, S) is an application of.
IsFold(g, f, S) ==
  g = [s \in SUBSET S |-> IF s = {} THEN Base ELSE Op(f[Pick(s)], g[s \ {Pick(s)}])]

Partial(f, S) == CHOOSE g : IsFold(g, f, S)

\* The same from any value b instead of Base.
IsFoldFrom(b, g, f, S) ==
  g = [s \in SUBSET S |-> IF s = {} THEN b ELSE Op(f[Pick(s)], g[s \ {Pick(s)}])]

PartialFrom(b, f, S) == CHOOSE g : IsFoldFrom(b, g, f, S)

LEMMA IsFoldFromAt ==
  ASSUME NEW b, NEW f, NEW S, NEW g, IsFoldFrom(b, g, f, S)
  PROVE  /\ g[{}] = b
         /\ \A s \in SUBSET S : s # {} => g[s] = Op(f[Pick(s)], g[s \ {Pick(s)}])
  BY DEF IsFoldFrom

\* Two such functions agree wherever both are defined.
LEMMA FoldFromUnique ==
  ASSUME NEW b, NEW f, NEW S, IsFiniteSet(S), Picks(S), NEW A, NEW B, S \subseteq A, S \subseteq B,
         NEW g, IsFoldFrom(b, g, f, A), NEW h, IsFoldFrom(b, h, f, B)
  PROVE  g[S] = h[S]
<1> DEFINE G == {T \in SUBSET S : g[T] = h[T]}
<1>1. ASSUME NEW T \in SUBSET S, \A U \in SUBSET T : U # T => U \in G
      PROVE  T \in G
  <2>1. CASE T = {}
    <3>1. g[{}] = b /\ h[{}] = b
      BY IsFoldFromAt
    <3>. QED  BY <2>1, <3>1
  <2>2. CASE T # {}
    <3>1. Pick(T) \in T
      BY <2>2 DEF Picks
    <3>2. T \ {Pick(T)} \in G
      BY <1>1, <3>1
    <3>3. g[T] = Op(f[Pick(T)], g[T \ {Pick(T)}])
      <4>1. \A s \in SUBSET A : s # {} => g[s] = Op(f[Pick(s)], g[s \ {Pick(s)}])
        BY DEF IsFoldFrom
      <4>. QED  BY <2>2, <4>1
    <3>4. h[T] = Op(f[Pick(T)], h[T \ {Pick(T)}])
      <4>1. \A s \in SUBSET B : s # {} => h[s] = Op(f[Pick(s)], h[s \ {Pick(s)}])
        BY DEF IsFoldFrom
      <4>. QED  BY <2>2, <4>1
    <3>. QED  BY <3>2, <3>3, <3>4
  <2>. QED  BY <2>1, <2>2
<1> HIDE DEF G
<1>2. \A T \in SUBSET S : T \in G
  BY <1>1, SubsetInduction
<1>. QED  BY <1>2 DEF G

\* There is one for every finite set.
LEMMA FoldFromExists ==
  ASSUME NEW b, NEW f, NEW S, IsFiniteSet(S), Picks(S)
  PROVE  IsFoldFrom(b, PartialFrom(b, f, S), f, S)
<1> DEFINE G == {T \in SUBSET S : \E g : IsFoldFrom(b, g, f, T)}
<1>1. ASSUME NEW T \in SUBSET S, \A U \in SUBSET T : U # T => U \in G
      PROVE  T \in G
  <2> DEFINE P(s) == PartialFrom(b, f, s)[s]
             h == [s \in SUBSET T |->
                     IF s = {} THEN b ELSE Op(f[Pick(s)], P(s \ {Pick(s)}))]
  <2>1. \A U \in SUBSET T : U # T => IsFoldFrom(b, PartialFrom(b, f, U), f, U)
    BY <1>1 DEF PartialFrom
  <2>2. ASSUME NEW s \in SUBSET T, s # T PROVE h[s] = P(s)
    <3>1. IsFoldFrom(b, PartialFrom(b, f, s), f, s)
      BY <2>1, <2>2
    <3>2. CASE s = {}
      <4>1. PartialFrom(b, f, {})[{}] = b
        BY <3>1, <3>2, IsFoldFromAt
      <4>. QED  BY <3>2, <4>1
    <3>3. CASE s # {}
      <4>1. Pick(s) \in s
        BY <3>3 DEF Picks
      <4> DEFINE r == s \ {Pick(s)}
      <4>2. r \in SUBSET T /\ r # T /\ r \subseteq s /\ IsFiniteSet(r) /\ Picks(r)
        BY <4>1, FS_Subset DEF Picks
      <4>3. IsFoldFrom(b, PartialFrom(b, f, r), f, r)
        BY <2>1, <4>2
      <4>4. P(s) = Op(f[Pick(s)], PartialFrom(b, f, s)[r])
        BY <3>1, <3>3, IsFoldFromAt
      <4> HIDE DEF r
      <4>5. PartialFrom(b, f, s)[r] = PartialFrom(b, f, r)[r]
        BY <3>1, <4>2, <4>3, FoldFromUnique
      <4>6. h[s] = Op(f[Pick(s)], P(r))
        BY <3>3 DEF r
      <4>. QED  BY <4>4, <4>5, <4>6
    <3>. QED  BY <3>2, <3>3
  <2>3. IsFoldFrom(b, h, f, T)
    <3>1. ASSUME NEW s \in SUBSET T
          PROVE  h[s] = IF s = {} THEN b ELSE Op(f[Pick(s)], h[s \ {Pick(s)}])
      <4>1. CASE s = {}
        BY <4>1
      <4>2. CASE s # {}
        <5>1. Pick(s) \in s
          BY <4>2 DEF Picks
        <5>2. h[s \ {Pick(s)}] = P(s \ {Pick(s)})
          BY <5>1, <2>2
        <5>. QED  BY <4>2, <5>2
      <4>. QED  BY <4>1, <4>2
    <3> DEFINE k == [s \in SUBSET T |-> IF s = {} THEN b ELSE Op(f[Pick(s)], h[s \ {Pick(s)}])]
    <3>2. h = k
      <4>1. DOMAIN h = SUBSET T /\ DOMAIN k = SUBSET T
        OBVIOUS
      <4>2. h = [s \in SUBSET T |-> h[s]] /\ k = [s \in SUBSET T |-> k[s]]
        OBVIOUS
      <4>3. \A s \in SUBSET T : h[s] = k[s]
        BY <3>1
      <4> HIDE DEF h, k
      <4>. QED  BY <4>2, <4>3
    <3>. QED  BY <3>2 DEF IsFoldFrom
  <2>. QED  BY <2>3
<1> HIDE DEF G
<1>2. \A T \in SUBSET S : T \in G
  BY <1>1, SubsetInduction
<1>. QED  BY <1>2 DEF G, PartialFrom

\* Fold is defined by a recursive function over the subsets.
LEMMA FoldIsPartial ==
  ASSUME NEW f, NEW S
  PROVE  Fold(f, S) = Partial(f, S)[S]
  BY DEF Fold, MapThenFoldSet, Partial, IsFold

LEMMA IsFoldAt ==
  ASSUME NEW f, NEW S, NEW g, IsFold(g, f, S)
  PROVE  /\ g[{}] = Base
         /\ \A s \in SUBSET S : s # {} => g[s] = Op(f[Pick(s)], g[s \ {Pick(s)}])
  BY DEF IsFold

\* Two such functions agree wherever both are defined.
LEMMA FoldUnique ==
  ASSUME NEW f, NEW S, IsFiniteSet(S), Picks(S), NEW A, NEW B, S \subseteq A, S \subseteq B,
         NEW g, IsFold(g, f, A), NEW h, IsFold(h, f, B)
  PROVE  g[S] = h[S]
<1>1. IsFoldFrom(Base, g, f, A) /\ IsFoldFrom(Base, h, f, B)
  BY DEF IsFold, IsFoldFrom
<1>. QED  BY <1>1, FoldFromUnique

\* There is one for every finite set.
LEMMA FoldExists ==
  ASSUME NEW f, NEW S, IsFiniteSet(S), Picks(S)
  PROVE  IsFold(Partial(f, S), f, S)
<1>1. IsFoldFrom(Base, PartialFrom(Base, f, S), f, S)
  BY FoldFromExists
<1>. QED  BY <1>1 DEF IsFold, IsFoldFrom, Partial, PartialFrom

\* A fold over a sequence, last member first, runs through it from b.
Running(b, f, n, r) ==
  /\ r[0] = b
  /\ \A k \in Nat : k < n => r[k + 1] = Op(f[k + 1], r[k])

LEMMA FoldRuns ==
  ASSUME NEW n \in Nat, NEW b, NEW f, NEW g, Picks(1..n), \A k \in 1..n : Pick(1..k) = k,
         IsFoldFrom(b, g, f, 1..n)
  PROVE  Running(b, f, n, [k \in 0..n |-> g[1..k]])
<1> DEFINE r == [k \in 0..n |-> g[1..k]]
<1>1. /\ g[{}] = b
      /\ \A s \in SUBSET (1..n) : s # {} => g[s] = Op(f[Pick(s)], g[s \ {Pick(s)}])
  <2> DEFINE S == 1..n
  <2>1. IsFoldFrom(b, g, f, S)
    OBVIOUS
  <2> HIDE DEF S
  <2>2. /\ g[{}] = b
        /\ \A s \in SUBSET S : s # {} => g[s] = Op(f[Pick(s)], g[s \ {Pick(s)}])
    BY <2>1 DEF IsFoldFrom
  <2>. QED  BY <2>2 DEF S
<1>2. r[0] = b
  <2>1. 1..0 = {} /\ 0 \in 0..n
    OBVIOUS
  <2>. QED  BY <1>1, <2>1
<1>3. ASSUME NEW k \in Nat, k < n  PROVE r[k + 1] = Op(f[k + 1], r[k])
  <2> DEFINE D == 1..k
             E == 1..(k + 1)
  <2>1. E \in SUBSET (1..n) /\ E # {} /\ E \ {k + 1} = D /\ k + 1 \in 1..n /\ k + 1 \in 0..n /\ k \in 0..n
    BY <1>3
  <2>2. Pick(E) = k + 1
    BY <2>1
  <2>3. r[k + 1] = g[E] /\ r[k] = g[D]
    BY <2>1
  <2> HIDE DEF D, E, r
  <2>. QED  BY <1>1, <2>1, <2>2, <2>3
<1>. QED  BY <1>2, <1>3 DEF Running

LEMMA FoldHasRun ==
  ASSUME NEW n \in Nat, NEW b, NEW f, IsFiniteSet(1..n), Picks(1..n), \A k \in 1..n : Pick(1..k) = k
  PROVE  \E r : Running(b, f, n, r) /\ PartialFrom(b, f, 1..n)[1..n] = r[n]
<1> DEFINE D == 1..n
           g == PartialFrom(b, f, D)
           r == [k \in 0..n |-> g[1..k]]
<1>1. IsFoldFrom(b, g, f, D)
  <2> HIDE DEF D
  <2>. QED  BY FoldFromExists DEF D
<1> HIDE DEF g
<1>2. Running(b, f, n, r)
  BY <1>1, FoldRuns
<1>3. r[n] = g[D]
  OBVIOUS
<1> HIDE DEF r
<1>. QED  BY <1>2, <1>3 DEF g

\* The recursion, for the sum itself.
LEMMA FoldStep ==
  ASSUME NEW f, NEW S, IsFiniteSet(S), Picks(S)
  PROVE  /\ S = {} => Fold(f, S) = Base
         /\ S # {} => Fold(f, S)
                        = Op(f[Pick(S)], Fold(f, S \ {Pick(S)}))
<1> DEFINE r == S \ {Pick(S)}
<1>1. IsFold(Partial(f, S), f, S)
  BY FoldExists
<1>2. IsFiniteSet(r) /\ r \subseteq S /\ Picks(r)
  BY FS_Subset DEF Picks
<1>3. IsFold(Partial(f, r), f, r)
  BY <1>2, FoldExists
<1> HIDE DEF r
<1>4. Partial(f, S)[r] = Partial(f, r)[r]
  <2>1. ASSUME NEW g, NEW h, IsFold(g, f, S), IsFold(h, f, r)  PROVE g[r] = h[r]
    <3>1. r \subseteq r /\ r \subseteq S /\ IsFiniteSet(r) /\ Picks(r)
      BY <1>2
    <3>2. ASSUME NEW A, NEW B, r \subseteq A, r \subseteq B, IsFold(g, f, A), IsFold(h, f, B)
          PROVE  g[r] = h[r]
      BY ONLY <3>1, <3>2, FoldUnique
    <3>. QED  BY ONLY <2>1, <3>1, <3>2
  <2>. QED  BY <1>1, <1>3, <2>1
<1>5. Fold(f, S) = Partial(f, S)[S] /\ Fold(f, r) = Partial(f, r)[r]
  BY FoldIsPartial
<1>6. CASE S = {}
  <2>1. Partial(f, S)[{}] = Base
    BY <1>1, IsFoldAt
  <2>. QED  BY <1>5, <1>6, <2>1
<1>7. CASE S # {}
  <2>1. Partial(f, S)[S] = Op(f[Pick(S)], Partial(f, S)[r])
    <3> DEFINE g == Partial(f, S)
    <3> HIDE DEF g
    <3>1. IsFold(g, f, S)
      BY <1>1 DEF g
    <3>2. \A s \in SUBSET S : s # {} => g[s] = Op(f[Pick(s)], g[s \ {Pick(s)}])
      BY <3>1 DEF IsFold
    <3>. QED  BY <1>7, <3>2 DEF g, r
  <2>. QED  BY <1>4, <1>5, <1>7, <2>1 DEF r
<1>. QED  BY <1>6, <1>7

\* A fold depends only on the values that are taken.
LEMMA FoldCongruence ==
  ASSUME NEW f, NEW g, NEW S, IsFiniteSet(S), Picks(S), \A x \in S : f[x] = g[x]
  PROVE  Fold(f, S) = Fold(g, S)
<1> DEFINE Same == {T \in SUBSET S : Fold(f, T) = Fold(g, T)}
<1>1. ASSUME NEW T \in SUBSET S, \A U \in SUBSET T : U # T => U \in Same
      PROVE  T \in Same
  <2>0. IsFiniteSet(T) /\ Picks(T)
    BY FS_Subset DEF Picks
  <2>1. CASE T = {}
    <3>1. Fold(f, T) = Base /\ Fold(g, T) = Base
      BY <2>0, <2>1, FoldStep
    <3>. QED  BY <3>1
  <2>2. CASE T # {}
    <3>1. Pick(T) \in T
      BY <2>2 DEF Picks
    <3>2. T \ {Pick(T)} \in Same /\ f[Pick(T)] = g[Pick(T)]
      BY <1>1, <3>1
    <3>3. /\ Fold(f, T) = Op(f[Pick(T)], Fold(f, T \ {Pick(T)}))
          /\ Fold(g, T) = Op(g[Pick(T)], Fold(g, T \ {Pick(T)}))
      BY <2>0, <2>2, FoldStep
    <3>. QED  BY <3>2, <3>3
  <2>. QED  BY <2>1, <2>2
<1> HIDE DEF Same
<1>2. \A T \in SUBSET S : T \in Same
  BY <1>1, SubsetInduction
<1>. QED  BY <1>2 DEF Same

\* Folding a longer sequence goes on where the shorter one ended.
LEMMA FoldLast ==
  ASSUME NEW n \in Nat, NEW f, NEW g, Picks(1..(n + 1)), Pick(1..(n + 1)) = n + 1,
         \A i \in 1..n : f[i] = g[i]
  PROVE  Fold(g, 1..(n + 1)) = Op(g[n + 1], Fold(f, 1..n))
<1> DEFINE D == 1..n
           E == 1..(n + 1)
<1>1. IsFiniteSet(D) /\ IsFiniteSet(E) /\ E # {} /\ E \ {n + 1} = D /\ D \subseteq E
  <2>1. n \in Int /\ n + 1 \in Int /\ 1 \in Int
    OBVIOUS
  <2>2. IsFiniteSet(D) /\ IsFiniteSet(E)
    BY <2>1, FS_Interval
  <2>3. E # {} /\ E \ {n + 1} = D /\ D \subseteq E
    OBVIOUS
  <2> HIDE DEF D, E
  <2>. QED  BY <2>2, <2>3
<1>2. Picks(D)
  BY <1>1 DEF Picks
<1> HIDE DEF D, E
<1>3. Fold(f, D) = Fold(g, D)
  BY <1>1, <1>2, FoldCongruence DEF D
<1>4. Fold(g, E) = Op(g[n + 1], Fold(g, D))
  BY <1>1, FoldStep DEF E
<1>. QED  BY <1>3, <1>4 DEF D, E

\* From values of W the operation makes members of V, in whatever order.
Commutes(W, V) ==
  /\ Base \in V
  /\ \A w \in W, v \in V : Op(w, v) \in V
  /\ \A w \in W, u \in W, v \in V : Op(w, Op(u, v)) = Op(u, Op(w, v))

\* Where the operation does not mind the order, any member may be taken last.
LEMMA FoldFacts ==
  ASSUME NEW S, IsFiniteSet(S), Picks(S), NEW V, NEW W, NEW f \in [S -> W],
         Commutes(W, V)
  PROVE  /\ Fold(f, {}) = Base
         /\ \A T \in SUBSET S :
              /\ Fold(f, T) \in V
              /\ \A x \in T : Fold(f, T) = Op(f[x], Fold(f, T \ {x}))
<1> DEFINE Sum(T) == Fold(f, T)
           G == {T \in SUBSET S : /\ Sum(T) \in V
                                  /\ \A x \in T : Sum(T) = Op(f[x], Sum(T \ {x}))}
<1>0. /\ \A T \in SUBSET S : IsFiniteSet(T) /\ Picks(T)
      /\ Base \in V /\ \A w \in W, v \in V : Op(w, v) \in V
      /\ \A w \in W, u \in W, v \in V : Op(w, Op(u, v)) = Op(u, Op(w, v))
  BY FS_Subset DEF Picks, Commutes
<1>1. Sum({}) = Base
  BY <1>0, FoldStep
<1>2. ASSUME NEW T \in SUBSET S, \A U \in SUBSET T : U # T => U \in G
      PROVE  T \in G
  <2>1. CASE T = {}
    BY <2>1, <1>0, <1>1
  <2>2. CASE T # {}
    <3> DEFINE c == Pick(T)
    <3>1. c \in T
      BY <2>2 DEF Picks
    <3>2. Sum(T) = Op(f[c], Sum(T \ {c}))
      BY <1>0, <2>2, FoldStep
    <3> HIDE DEF c, Sum
    <3>3. T \ {c} \in G
      BY <1>2, <3>1
    <3>4. Sum(T) \in V
      BY <1>0, <3>1, <3>2, <3>3
    <3>5. ASSUME NEW x \in T, x # c PROVE Sum(T) = Op(f[x], Sum(T \ {x}))
      <4>1. x \in T \ {c} /\ c \in T \ {x}
        BY <3>1, <3>5
      <4> DEFINE u == (T \ {c}) \ {x}
      <4>2. Sum(T \ {c}) = Op(f[x], Sum(u))
        BY <3>3, <4>1
      <4>3. T \ {x} \in G
        BY <1>2
      <4>4. Sum(T \ {x}) = Op(f[c], Sum(u))
        <5>1. u = (T \ {x}) \ {c}
          OBVIOUS
        <5>. QED  BY <4>1, <4>3, <5>1
      <4>5. u \in SUBSET T /\ u # T
        BY <3>1
      <4>6. Sum(u) \in V /\ f[x] \in W /\ f[c] \in W
        BY <1>2, <4>5, <3>1
      <4> HIDE DEF u
      <4>. QED  BY <1>0, <3>2, <4>2, <4>4, <4>6
    <3>. QED  BY <3>2, <3>4, <3>5
  <2>. QED  BY <2>1, <2>2
<1> HIDE DEF G
<1>3. \A T \in SUBSET S : T \in G
  BY <1>2, SubsetInduction
<1>. QED  BY <1>1, <1>3 DEF G

=============================================================================
