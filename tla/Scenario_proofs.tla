--------------------------- MODULE Scenario_proofs ---------------------------
(***************************************************************************)
(* Proofs about Scenario for any menu of steps, any requests of the          *)
(* application, any delay, any size of the journal and any bounds.           *)
(***************************************************************************)
EXTENDS Scenario, NaturalsInduction, FiniteSetTheorems, TLAPS

-----------------------------------------------------------------------------
(* Choosing the verifying steps, dropping a scope's entries and scanning the *)
(* journal are folds over a sequence.                                        *)

Highest(S) == Max(S)

KeepPair(p, kept) == IF p[1] THEN Append(kept, p[2]) ELSE kept
Keeping == INSTANCE FoldLemmas WITH Op <- KeepPair, Base <- <<>>, Pick <- Highest

NewScan == [from |-> 1, prev |-> None, why |-> None]

\* Match, with the entries and what tells their times as parameters.
MatchIn(es, md, acc, m) ==
  LET hits == {i \in acc.from .. Len(es) : Hits(m, es[i])}
      at(e) == IF md = "verify" THEN e.wall ELSE e.at
      entry == es[Min(hits)]
  IN IF acc.why # None THEN acc
     ELSE IF hits = {} THEN [acc EXCEPT !.why = "never"]
     ELSE IF GapViolated(m, at(entry), acc.prev) THEN [acc EXCEPT !.why = "gap"]
     ELSE IF Unprovable(m, entry) THEN [acc EXCEPT !.why = "unprovable"]
     ELSE [from |-> NextFrom(Min(hits)), prev |-> at(entry), why |-> None]

MatchTriple(p, acc) == MatchIn(p[1], p[2], acc, p[3])
Scanning == INSTANCE FoldLemmas WITH Op <- MatchTriple, Base <- NewScan, Pick <- Highest

LEMMA Finite == \A S : IsFiniteSet(S) => Keeping!IsFiniteSet(S) /\ Scanning!IsFiniteSet(S)
BY DEF IsFiniteSet, Keeping!IsFiniteSet, Scanning!IsFiniteSet

\* A finite set of integers has a greatest element, and Max is it.
LEMMA MaxFacts ==
  ASSUME NEW S, IsFiniteSet(S), S \subseteq Int, S # {}
  PROVE  Max(S) \in S /\ \A y \in S : Max(S) >= y
<1>1. \E x \in S : \A y \in S : x >= y
  <2>1. \A T \in SUBSET S : T # {} => \E x \in T : \A y \in T : x >= y
    BY Finite, Keeping!Greatest
  <2>. QED  BY <2>1
<1>. QED  BY <1>1 DEF Max

\* A set of natural numbers has a smallest element, and Min is it.
LEMMA MinFacts ==
  ASSUME NEW S, S \subseteq Nat, S # {}
  PROVE  Min(S) \in S /\ \A y \in S : Min(S) <= y
<1>1. \E x \in S : \A y \in S : x <= y
  <2> SUFFICES ASSUME \A x \in S : \E y \in S : y < x
               PROVE  FALSE
    OBVIOUS
  <2> DEFINE G == {n \in Nat : \A j \in 0..n : j \notin S}
  <2>1. 0 \in G
    OBVIOUS
  <2>2. \A n \in Nat : n \in G => n + 1 \in G
    <3> SUFFICES ASSUME NEW n \in G, n + 1 \in S PROVE FALSE
      OBVIOUS
    <3>. QED  OBVIOUS
  <2> HIDE DEF G
  <2>3. \A n \in Nat : n \in G
    BY <2>1, <2>2, Keeping!NumberInduction
  <2>4. \A n \in Nat : n \notin S
    BY <2>3 DEF G
  <2>. QED  BY <2>4
<1>. QED  BY <1>1 DEF Min

LEMMA IntervalFinite == \A n \in Nat : IsFiniteSet(1..n)
<1> TAKE n \in Nat
<1>1. 1 \in Int /\ n \in Int
  OBVIOUS
<1>. QED  BY <1>1, FS_Interval

\* The last position is taken last.
LEMMA HighestIsLast ==
  ASSUME NEW n \in Nat
  PROVE  /\ n # 0 => Highest(1..n) = n
         /\ IsFiniteSet(1..n) /\ Keeping!Picks(1..n) /\ Scanning!Picks(1..n)
<1> DEFINE D == 1..n
<1>1. IsFiniteSet(D) /\ D \subseteq Int
  BY IntervalFinite
<1>2. n # 0 => n \in D /\ \A y \in D : y <= n
  OBVIOUS
<1> HIDE DEF D
<1>3. ASSUME NEW T \in SUBSET D, T # {} PROVE Highest(T) \in T /\ \A y \in T : Highest(T) >= y
  <2>1. IsFiniteSet(T) /\ T \subseteq Int
    BY <1>1, FS_Subset
  <2>. QED  BY <1>3, <2>1, MaxFacts DEF Highest
<1>4. n # 0 => Highest(D) = n
  <2> SUFFICES ASSUME n # 0 PROVE Highest(D) = n
    OBVIOUS
  <2> DEFINE h == Highest(D)
  <2> HIDE DEF h
  <2>1. h \in D /\ h >= n
    BY <1>2, <1>3 DEF h
  <2>2. h \in Int /\ h <= n
    BY <1>1, <1>2, <2>1
  <2>3. h = n
    BY ONLY <2>1, <2>2, n \in Nat
  <2>. QED  BY <2>3 DEF h
<1>. QED  BY <1>1, <1>3, <1>4 DEF D, Keeping!Picks, Scanning!Picks

-----------------------------------------------------------------------------
(* Filters                                                                   *)

\* Filtering the first k of the pairs f.
Kept(f, k) == Keeping!Fold(f, 1..k)

LEMMA KeptStep ==
  ASSUME NEW f
  PROVE  /\ Kept(f, 0) = <<>>
         /\ \A k \in Nat : Kept(f, k + 1) = KeepPair(f[k + 1], Kept(f, k))
<1>1. Kept(f, 0) = <<>>
  <2>1. 1..0 = {} /\ 0 \in Nat
    OBVIOUS
  <2>2. Keeping!IsFiniteSet(1..0) /\ Keeping!Picks(1..0)
    BY <2>1, HighestIsLast, Finite
  <2>. QED  BY <2>1, <2>2, Keeping!FoldStep DEF Kept
<1>2. ASSUME NEW k \in Nat PROVE Kept(f, k + 1) = KeepPair(f[k + 1], Kept(f, k))
  <2>1. k + 1 \in Nat /\ k + 1 # 0
    OBVIOUS
  <2>2. Highest(1..(k + 1)) = k + 1 /\ Keeping!Picks(1..(k + 1))
    BY <2>1, HighestIsLast
  <2>3. \A i \in 1..k : f[i] = f[i]
    OBVIOUS
  <2>. QED  BY <2>2, <2>3, Keeping!FoldLast DEF Kept
<1>. QED  BY <1>1, <1>2

\* One sequence is part of another, in its order.
PartOf(a, b) ==
  \E g \in [DOMAIN a -> DOMAIN b] :
    /\ \A i \in DOMAIN a : a[i] = b[g[i]]
    /\ \A i, j \in DOMAIN a : i < j => g[i] < g[j]

Paired(es, t) == [i \in 1..Len(es) |-> <<t[i], es[i]>>]

\* What a filter keeps is part of what it is given, whatever it asks; it keeps
\* all when it never says no.
LEMMA KeptIsPart ==
  ASSUME NEW E, NEW es \in Seq(E), NEW t
  PROVE  /\ Kept(Paired(es, t), Len(es)) \in Seq(E)
         /\ PartOf(Kept(Paired(es, t), Len(es)), es)
<1> DEFINE f == Paired(es, t)
           K == [k \in Nat |-> Kept(f, k)]
           P(k) == /\ K[k] \in Seq(E)
                   /\ \E g \in [1..Len(K[k]) -> 1..k] :
                        /\ \A i \in 1..Len(K[k]) : K[k][i] = es[g[i]]
                        /\ \A i, j \in 1..Len(K[k]) : i < j => g[i] < g[j]
           G == {k \in Nat : k <= Len(es) => P(k)}
<1>1. K[0] = <<>> /\ \A k \in Nat : K[k + 1] = KeepPair(f[k + 1], K[k])
  BY KeptStep
<1>2. \A i \in 1..Len(es) : f[i] = <<t[i], es[i]>> /\ es[i] \in E
  BY DEF Paired
<1>3. Len(es) \in Nat
  OBVIOUS
<1> HIDE DEF f, K
<1>4. 0 \in G
  <2>0. K[0] = <<>>
    BY <1>1
  <2>1. K[0] \in Seq(E) /\ Len(K[0]) = 0
    BY ONLY <2>0
  <2>2. [i \in 1..0 |-> 1] \in [1..Len(K[0]) -> 1..0]
    BY <2>1
  <2>3. P(0)
    BY <2>1, <2>2
  <2>. QED  BY <2>3
<1>5. ASSUME NEW k \in G PROVE k + 1 \in G
  <2> SUFFICES ASSUME k + 1 <= Len(es) PROVE P(k + 1)
    <3> HIDE DEF P
    <3>. QED  OBVIOUS
  <2>1. k \in Nat /\ k + 1 \in 1..Len(es) /\ P(k)
    BY <1>3, <1>5
  <2>2. K[k + 1] = IF t[k + 1] THEN Append(K[k], es[k + 1]) ELSE K[k]
    <3>1. K[k + 1] = KeepPair(f[k + 1], K[k]) /\ f[k + 1] = <<t[k + 1], es[k + 1]>>
      BY <1>1, <1>2, <2>1
    <3>. QED  BY ONLY <3>1 DEF KeepPair
  <2>3. PICK g \in [1..Len(K[k]) -> 1..k] :
              /\ \A i \in 1..Len(K[k]) : K[k][i] = es[g[i]]
              /\ \A i, j \in 1..Len(K[k]) : i < j => g[i] < g[j]
    BY <2>1
  <2> DEFINE n == Len(K[k])
  <2>4. n \in Nat /\ K[k] \in Seq(E) /\ es[k + 1] \in E
    BY <1>2, <2>1
  <2>5. CASE t[k + 1]
    <3> DEFINE h == [i \in 1..(n + 1) |-> IF i = n + 1 THEN k + 1 ELSE g[i]]
    <3>1. /\ K[k + 1] = Append(K[k], es[k + 1]) /\ K[k + 1] \in Seq(E) /\ Len(K[k + 1]) = n + 1
          /\ K[k + 1][n + 1] = es[k + 1] /\ \A i \in 1..n : K[k + 1][i] = K[k][i]
      <4>1. K[k + 1] = Append(K[k], es[k + 1])
        BY <2>2, <2>5
      <4>. QED  BY ONLY <2>4, <4>1
    <3> HIDE DEF n
    <3>2. \A i \in 1..n : g[i] \in 1..k
      BY <2>3 DEF n
    <3>3. h \in [1..(n + 1) -> 1..(k + 1)]
      BY <2>1, <2>4, <3>2
    <3>4. \A i \in 1..(n + 1) : K[k + 1][i] = es[h[i]]
      BY <2>3, <2>4, <3>1 DEF n
    <3>5. \A i, j \in 1..(n + 1) : i < j => h[i] < h[j]
      <4> SUFFICES ASSUME NEW i \in 1..(n + 1), NEW j \in 1..(n + 1), i < j PROVE h[i] < h[j]
        OBVIOUS
      <4>1. CASE j = n + 1
        BY <2>1, <2>4, <3>2, <4>1
      <4>2. CASE j # n + 1
        <5>0. i \in 1..n /\ j \in 1..n /\ i # n + 1
          <6>1. n \in Nat /\ i \in 1..(n + 1) /\ j \in 1..(n + 1) /\ i < j /\ j # n + 1
            BY <2>4, <4>2
          <6>. QED  BY ONLY <6>1
        <5>1. i \in 1..n /\ j \in 1..n /\ h[i] = g[i] /\ h[j] = g[j]
          BY <4>2, <5>0
        <5>. QED  BY <2>3, <5>1 DEF n
      <4>. QED  BY <4>1, <4>2
    <3> HIDE DEF h
    <3>. QED  BY <3>1, <3>3, <3>4, <3>5
  <2>6. CASE ~t[k + 1]
    <3>1. K[k + 1] = K[k]
      BY <2>2, <2>6
    <3>2. g \in [1..Len(K[k]) -> 1..(k + 1)]
      BY <2>1
    <3>. QED  BY <2>1, <2>3, <3>1, <3>2
  <2>. QED  BY <2>5, <2>6
<1> HIDE DEF G
<1>6. \A k \in Nat : k \in G
  BY <1>4, <1>5, Keeping!NumberInduction
<1>7. P(Len(es))
  <2>1. Len(es) <= Len(es)
    BY <1>3
  <2> HIDE DEF P
  <2>. QED  BY <1>3, <1>6, <2>1 DEF G
<1>8. DOMAIN K[Len(es)] = 1..Len(K[Len(es)]) /\ DOMAIN es = 1..Len(es)
  BY <1>7
<1>9. K[Len(es)] = Kept(Paired(es, t), Len(es))
  BY <1>3 DEF K, f
<1> DEFINE a == K[Len(es)]
<1>10. a \in Seq(E) /\ PartOf(a, es)
  <2> HIDE DEF a
  <2>1. DOMAIN a = 1..Len(a)
    BY <1>8 DEF a
  <2>. QED  BY <1>7, <1>8, <2>1 DEF PartOf, a
<1>. QED  BY <1>9, <1>10

\* mode.Compile is a filter.
LEMMA VerifyingIsKept ==
  ASSUME NEW E, NEW es \in Seq(E)
  PROVE  FoldLeft(KeepVerifying, <<>>, es) = Keeping!Fold(Paired(es, [i \in 1..Len(es) |-> Verifying(es[i])]), 1..Len(es))
<1> DEFINE D == 1..Len(es)
           f == Paired(es, [i \in 1..Len(es) |-> Verifying(es[i])])
           W(g) == g = [s \in SUBSET D |-> IF s = {} THEN <<>> ELSE
                          KeepVerifying(g[s \ {Max(s)}], es[Max(s)])]
<1>1. DOMAIN es = D /\ Len(es) \in Nat
  OBVIOUS
<1>2. FoldLeft(KeepVerifying, <<>>, es) = (CHOOSE g : W(g))[D]
  BY <1>1 DEF FoldLeft, MapThenFoldSet
<1>3. Keeping!Fold(f, D) = (CHOOSE g : Keeping!IsFold(g, f, D))[D]
  BY DEF Keeping!Fold, Keeping!MapThenFoldSet, Keeping!IsFold
<1>4. ASSUME NEW g PROVE W(g) <=> Keeping!IsFold(g, f, D)
  <2>0. \A s \in SUBSET D : s # {} => Highest(s) \in D
    <3>1. Keeping!Picks(D)
      BY <1>1, HighestIsLast
    <3>. QED  BY <3>1 DEF Keeping!Picks
  <2>1. \A s \in SUBSET D : s # {} => f[Highest(s)] = <<Verifying(es[Highest(s)]), es[Highest(s)]>>
    <3> SUFFICES ASSUME NEW s \in SUBSET D, s # {} PROVE f[Highest(s)] = <<Verifying(es[Highest(s)]), es[Highest(s)]>>
      OBVIOUS
    <3> DEFINE h == Highest(s)
    <3>1. h \in 1..Len(es)
      BY <2>0
    <3> HIDE DEF h
    <3>2. f[h] = <<Verifying(es[h]), es[h]>>
      BY <3>1 DEF Paired
    <3>. QED  BY <3>2 DEF h
  <2> DEFINE u == [s \in SUBSET D |-> IF s = {} THEN <<>> ELSE
                     KeepVerifying(g[s \ {Max(s)}], es[Max(s)])]
             v == [s \in SUBSET D |-> IF s = {} THEN <<>> ELSE
                     KeepPair(f[Highest(s)], g[s \ {Highest(s)}])]
  <2> HIDE DEF f
  <2>2. u = v
    BY <2>1 DEF Highest, KeepPair, KeepVerifying
  <2>3. W(g) <=> g = u
    OBVIOUS
  <2>4. Keeping!IsFold(g, f, D) <=> g = v
    BY DEF Keeping!IsFold
  <2> HIDE DEF u, v, W
  <2>. QED  BY <2>2, <2>3, <2>4
<1> HIDE DEF W, f, D
<1>5. (CHOOSE g : W(g)) = (CHOOSE g : Keeping!IsFold(g, f, D))
  BY <1>4
<1>. QED  BY <1>2, <1>3, <1>5 DEF f, D

\* dropScope is a filter.
LEMMA UnscopedIsKept ==
  ASSUME NEW E, NEW es \in Seq(E)
  PROVE  FoldLeft(KeepUnscoped, <<>>, es) = Keeping!Fold(Paired(es, [i \in 1..Len(es) |-> IF es[i].scoped THEN FALSE ELSE TRUE]), 1..Len(es))
<1> DEFINE D == 1..Len(es)
           f == Paired(es, [i \in 1..Len(es) |-> IF es[i].scoped THEN FALSE ELSE TRUE])
           W(g) == g = [s \in SUBSET D |-> IF s = {} THEN <<>> ELSE
                          KeepUnscoped(g[s \ {Max(s)}], es[Max(s)])]
<1>1. DOMAIN es = D /\ Len(es) \in Nat
  OBVIOUS
<1>2. FoldLeft(KeepUnscoped, <<>>, es) = (CHOOSE g : W(g))[D]
  BY <1>1 DEF FoldLeft, MapThenFoldSet
<1>3. Keeping!Fold(f, D) = (CHOOSE g : Keeping!IsFold(g, f, D))[D]
  BY DEF Keeping!Fold, Keeping!MapThenFoldSet, Keeping!IsFold
<1>4. ASSUME NEW g PROVE W(g) <=> Keeping!IsFold(g, f, D)
  <2>0. \A s \in SUBSET D : s # {} => Highest(s) \in D
    <3>1. Keeping!Picks(D)
      BY <1>1, HighestIsLast
    <3>. QED  BY <3>1 DEF Keeping!Picks
  <2>1. \A s \in SUBSET D : s # {} => f[Highest(s)] = <<IF es[Highest(s)].scoped THEN FALSE ELSE TRUE, es[Highest(s)]>>
    <3> SUFFICES ASSUME NEW s \in SUBSET D, s # {} PROVE f[Highest(s)] = <<IF es[Highest(s)].scoped THEN FALSE ELSE TRUE, es[Highest(s)]>>
      OBVIOUS
    <3> DEFINE h == Highest(s)
    <3>1. h \in 1..Len(es)
      BY <2>0
    <3> HIDE DEF h
    <3>2. f[h] = <<IF es[h].scoped THEN FALSE ELSE TRUE, es[h]>>
      BY <3>1 DEF Paired
    <3>. QED  BY <3>2 DEF h
  <2> DEFINE u == [s \in SUBSET D |-> IF s = {} THEN <<>> ELSE
                     KeepUnscoped(g[s \ {Max(s)}], es[Max(s)])]
             v == [s \in SUBSET D |-> IF s = {} THEN <<>> ELSE
                     KeepPair(f[Highest(s)], g[s \ {Highest(s)}])]
  <2> HIDE DEF f
  <2>2. u = v
    <3>1. \A kept, e : KeepPair(<<IF e.scoped THEN FALSE ELSE TRUE, e>>, kept) = KeepUnscoped(kept, e)
      BY DEF KeepPair, KeepUnscoped
    <3>. QED  BY <2>1, <3>1 DEF Highest
  <2>3. W(g) <=> g = u
    OBVIOUS
  <2>4. Keeping!IsFold(g, f, D) <=> g = v
    BY DEF Keeping!IsFold
  <2> HIDE DEF u, v, W
  <2>. QED  BY <2>2, <2>3, <2>4
<1> HIDE DEF W, f, D
<1>5. (CHOOSE g : W(g)) = (CHOOSE g : Keeping!IsFold(g, f, D))
  BY <1>4
<1>. QED  BY <1>2, <1>3, <1>5 DEF f, D

-----------------------------------------------------------------------------
(* Scanning the journal                                                      *)

Tripled(ms, entries, md) == [i \in 1..Len(ms) |-> <<entries, md, ms[i]>>]

\* The scan of the first k matchers.
Scan(ms, entries, md, k) == Scanning!Fold(Tripled(ms, entries, md), 1..k)

\* verifySequence goes through the matchers.
LEMMA MatchIsScan ==
  ASSUME NEW E, NEW es \in Seq(E)
  PROVE  FoldLeft(Match, NewScan, es) = Scanning!Fold(Tripled(es, journal.entries, mode), 1..Len(es))
<1> DEFINE D == 1..Len(es)
           f == Tripled(es, journal.entries, mode)
           W(g) == g = [s \in SUBSET D |-> IF s = {} THEN NewScan ELSE
                          Match(g[s \ {Max(s)}], es[Max(s)])]
<1>1. DOMAIN es = D /\ Len(es) \in Nat
  OBVIOUS
<1>2. FoldLeft(Match, NewScan, es) = (CHOOSE g : W(g))[D]
  BY <1>1 DEF FoldLeft, MapThenFoldSet
<1>3. Scanning!Fold(f, D) = (CHOOSE g : Scanning!IsFold(g, f, D))[D]
  BY DEF Scanning!Fold, Scanning!MapThenFoldSet, Scanning!IsFold
<1>4. ASSUME NEW g PROVE W(g) <=> Scanning!IsFold(g, f, D)
  <2>0. \A s \in SUBSET D : s # {} => Highest(s) \in D
    <3>1. Scanning!Picks(D)
      BY <1>1, HighestIsLast
    <3>. QED  BY <3>1 DEF Scanning!Picks
  <2>1. \A s \in SUBSET D : s # {} => f[Highest(s)] = <<journal.entries, mode, es[Highest(s)]>>
    <3> SUFFICES ASSUME NEW s \in SUBSET D, s # {} PROVE f[Highest(s)] = <<journal.entries, mode, es[Highest(s)]>>
      OBVIOUS
    <3> DEFINE h == Highest(s)
    <3>1. h \in 1..Len(es)
      BY <2>0
    <3> HIDE DEF h
    <3>2. f[h] = <<journal.entries, mode, es[h]>>
      BY <3>1 DEF Tripled
    <3>. QED  BY <3>2 DEF h
  <2> DEFINE u == [s \in SUBSET D |-> IF s = {} THEN NewScan ELSE
                     Match(g[s \ {Max(s)}], es[Max(s)])]
             v == [s \in SUBSET D |-> IF s = {} THEN NewScan ELSE
                     MatchTriple(f[Highest(s)], g[s \ {Highest(s)}])]
  <2> HIDE DEF f
  <2>2. u = v
    <3>1. \A acc, m : MatchTriple(<<journal.entries, mode, m>>, acc) = MatchIn(journal.entries, mode, acc, m)
      BY DEF MatchTriple
    <3>2. \A acc, m : MatchIn(journal.entries, mode, acc, m) = Match(acc, m)
      BY DEF Match, MatchIn, At
    <3>3. ASSUME NEW s \in SUBSET D, s # {}
          PROVE  Match(g[s \ {Max(s)}], es[Max(s)]) = MatchTriple(f[Max(s)], g[s \ {Max(s)}])
      <4> DEFINE h == Max(s)
      <4>1. f[h] = <<journal.entries, mode, es[h]>>
        BY <2>1, <3>3 DEF Highest
      <4> HIDE DEF h
      <4>2. MatchTriple(f[h], g[s \ {h}]) = Match(g[s \ {h}], es[h])
        BY <3>1, <3>2, <4>1
      <4>. QED  BY <4>2 DEF h
    <3>. QED  BY <3>3 DEF Highest
  <2>3. W(g) <=> g = u
    OBVIOUS
  <2>4. Scanning!IsFold(g, f, D) <=> g = v
    BY DEF Scanning!IsFold
  <2> HIDE DEF u, v, W
  <2>. QED  BY <2>2, <2>3, <2>4
<1> HIDE DEF W, f, D
<1>5. (CHOOSE g : W(g)) = (CHOOSE g : Scanning!IsFold(g, f, D))
  BY <1>4
<1>. QED  BY <1>2, <1>3, <1>5 DEF f, D

LEMMA ScanStep ==
  ASSUME NEW E, NEW ms \in Seq(E), NEW es, NEW md
  PROVE  /\ Scan(ms, es, md, 0) = NewScan
         /\ \A k \in Nat : k < Len(ms) =>
              Scan(ms, es, md, k + 1) = MatchIn(es, md, Scan(ms, es, md, k), ms[k + 1])
<1> DEFINE f == Tripled(ms, es, md)
<1>1. Scan(ms, es, md, 0) = NewScan
  <2>1. 1..0 = {} /\ 0 \in Nat
    OBVIOUS
  <2>2. Scanning!IsFiniteSet(1..0) /\ Scanning!Picks(1..0)
    BY <2>1, HighestIsLast, Finite
  <2>. QED  BY <2>1, <2>2, Scanning!FoldStep DEF Scan
<1>2. ASSUME NEW k \in Nat, k < Len(ms)
      PROVE  Scan(ms, es, md, k + 1) = MatchIn(es, md, Scan(ms, es, md, k), ms[k + 1])
  <2>1. k + 1 \in Nat /\ k + 1 # 0 /\ k + 1 \in 1..Len(ms)
    BY <1>2
  <2>2. Highest(1..(k + 1)) = k + 1 /\ Scanning!Picks(1..(k + 1))
    BY <2>1, HighestIsLast
  <2>3. f[k + 1] = <<es, md, ms[k + 1]>>
    BY <2>1 DEF Tripled
  <2>4. \A i \in 1..k : f[i] = f[i]
    OBVIOUS
  <2> HIDE DEF f
  <2>5. Scanning!Fold(f, 1..(k + 1)) = MatchTriple(f[k + 1], Scanning!Fold(f, 1..k))
    BY <2>2, <2>4, Scanning!FoldLast
  <2>. QED  BY <2>3, <2>5 DEF Scan, MatchTriple, f
<1>. QED  BY <1>1, <1>2

AtIn(md, e) == IF md = "verify" THEN e.wall ELSE e.at

\* The state of a scan: where it goes on, the time of the last match, and what
\* has stopped it.
IsScan(acc) ==
  acc.from \in Nat \ {0} /\ acc = [from |-> acc.from, prev |-> acc.prev, why |-> acc.why]

HitsFrom(es, from, m) == {i \in from .. Len(es) : Hits(m, es[i])}

\* What one matcher makes of acc: n.
Matched(es, md, acc, m, n) ==
  LET hits == HitsFrom(es, acc.from, m)
      at == AtIn(md, es[Min(hits)])
  IN /\ IsScan(n)
     /\ acc.why # None => n = acc
     /\ acc.why = None /\ hits # {} => n.why # "never"
     /\ acc.why = None /\ n.why = None =>
          /\ Min(hits) \in hits /\ \A i \in hits : Min(hits) <= i
          /\ n.from = Min(hits) + 1 /\ n.prev = at
          /\ ~GapViolated(m, at, acc.prev)

LEMMA MatchFacts ==
  ASSUME NEW E, NEW es \in Seq(E), NEW md, NEW acc, IsScan(acc), NEW m
  PROVE  Matched(es, md, acc, m, MatchIn(es, md, acc, m))
<1> DEFINE from == acc.from
           prev == acc.prev
           why == acc.why
<1>2. from \in Nat \ {0} /\ acc = [from |-> from, prev |-> prev, why |-> why]
  BY DEF IsScan
<1> DEFINE n == MatchIn(es, md, acc, m)
           hits == HitsFrom(es, acc.from, m)
           h == Min(hits)
           at == AtIn(md, es[h])
<1>3. hits \subseteq Nat \ {0}
  BY <1>2 DEF HitsFrom
<1>4. hits # {} => h \in hits /\ \A i \in hits : h <= i
  BY <1>3, MinFacts
<1>5. None # "never" /\ None # "gap" /\ None # "unprovable"
  BY StepAssumption DEF Reasons
<1>6. n = IF acc.why # None THEN acc
          ELSE IF hits = {} THEN [acc EXCEPT !.why = "never"]
          ELSE IF GapViolated(m, at, acc.prev) THEN [acc EXCEPT !.why = "gap"]
          ELSE IF Unprovable(m, es[h]) THEN [acc EXCEPT !.why = "unprovable"]
          ELSE [from |-> h + 1, prev |-> at, why |-> None]
  BY DEF MatchIn, AtIn, NextFrom, HitsFrom
<1> HIDE DEF n, hits, h, at, from, prev, why
<1>7. /\ acc.from = from /\ acc.prev = prev /\ acc.why = why
      /\ \A w : [acc EXCEPT !.why = w] = [from |-> from, prev |-> prev, why |-> w]
  BY <1>2
<1>8. hits # {} => h + 1 \in Nat \ {0}
  <2> SUFFICES ASSUME hits # {} PROVE h + 1 \in Nat \ {0}
    OBVIOUS
  <2>1. h \in Nat
    BY <1>3, <1>4
  <2>. QED  BY <2>1
<1>9. IsScan(n)
  BY <1>2, <1>6, <1>7, <1>8 DEF IsScan
<1>10. /\ acc.why # None => n = acc
       /\ acc.why = None /\ hits # {} => n.why # "never"
       /\ acc.why = None /\ n.why = None =>
            hits # {} /\ n.from = h + 1 /\ n.prev = at /\ ~GapViolated(m, at, acc.prev)
  BY <1>5, <1>6, <1>7
<1>. QED  BY <1>4, <1>9, <1>10 DEF Matched, n, hits, h, at

\* Where the first k matchers matched.
Found(ms, es, md, k, f) ==
  /\ f \in [1..k -> 1..Len(es)]
  /\ \A i \in 1..k :
       /\ Hits(ms[i], es[f[i]])
       /\ i > 1 => /\ f[i - 1] < f[i]
                   /\ ~GapViolated(ms[i], AtIn(md, es[f[i]]), AtIn(md, es[f[i - 1]]))

\* A scan that nothing has stopped has found entries in order for its matchers.
LEMMA ScanSound ==
  ASSUME NEW E, NEW es \in Seq(E), NEW M, NEW ms \in Seq(M), NEW md,
         Scan(ms, es, md, Len(ms)).why = None
  PROVE  \E f : Found(ms, es, md, Len(ms), f)
<1> DEFINE S == [k \in Nat |-> Scan(ms, es, md, k)]
           P(k) == /\ IsScan(S[k])
                   /\ S[k].why = None =>
                        \E f : /\ Found(ms, es, md, k, f)
                               /\ k > 0 => S[k].from = f[k] + 1 /\ S[k].prev = AtIn(md, es[f[k]])
           G == {k \in Nat : k <= Len(ms) => P(k)}
<1>1. S[0] = NewScan
  BY ScanStep
<1>2. \A k \in Nat : k < Len(ms) => S[k + 1] = MatchIn(es, md, S[k], ms[k + 1])
  <2>1. \A k \in Nat : k + 1 \in Nat
    OBVIOUS
  <2>. QED  BY <2>1, ScanStep
<1>3. Len(ms) \in Nat /\ Len(es) \in Nat
  OBVIOUS
<1> HIDE DEF S
<1>4. 0 \in G
  <2>1. IsScan(S[0])
    BY <1>1 DEF IsScan, NewScan
  <2>2. Found(ms, es, md, 0, <<>>)
    BY DEF Found
  <2>. QED  BY <2>1, <2>2
<1>5. ASSUME NEW k \in G PROVE k + 1 \in G
  <2> SUFFICES ASSUME k + 1 <= Len(ms) PROVE P(k + 1)
    OBVIOUS
  <2>1. k \in Nat /\ k < Len(ms) /\ P(k)
    BY <1>3, <1>5
  <2> DEFINE acc == S[k]
             n == S[k + 1]
             m == ms[k + 1]
             hits == HitsFrom(es, acc.from, m)
             h == Min(hits)
  <2>2. IsScan(acc) /\ n = MatchIn(es, md, acc, m)
    BY <1>2, <2>1
  <2>3. /\ IsScan(n)
        /\ acc.why # None => n = acc
        /\ acc.why = None /\ n.why = None =>
             /\ h \in hits /\ n.from = h + 1 /\ n.prev = AtIn(md, es[h])
             /\ ~GapViolated(m, AtIn(md, es[h]), acc.prev)
             /\ acc.why = None
    <3>1. Matched(es, md, acc, m, n)
      <4> HIDE DEF acc, n, m
      <4>. QED  BY <2>2, MatchFacts
    <3> HIDE DEF acc, n, m
    <3>. QED  BY <3>1 DEF Matched, hits, h
  <2>4. ASSUME n.why = None
        PROVE  \E f : /\ Found(ms, es, md, k + 1, f)
                       /\ n.from = f[k + 1] + 1 /\ n.prev = AtIn(md, es[f[k + 1]])
    <3>1. acc.why = None
      BY <2>3, <2>4
    <3>2. PICK g : /\ Found(ms, es, md, k, g)
                   /\ k > 0 => acc.from = g[k] + 1 /\ acc.prev = AtIn(md, es[g[k]])
      BY <2>1, <3>1
    <3>3. /\ h \in hits /\ n.from = h + 1 /\ n.prev = AtIn(md, es[h])
          /\ ~GapViolated(m, AtIn(md, es[h]), acc.prev)
      BY <2>3, <2>4, <3>1
    <3>4. acc.from \in Nat \ {0}
      BY <2>2 DEF IsScan
    <3>5. h \in acc.from .. Len(es) /\ Hits(m, es[h])
      BY <3>3 DEF HitsFrom
    <3> DEFINE f == [i \in 1..(k + 1) |-> IF i = k + 1 THEN h ELSE g[i]]
    <3> HIDE DEF acc, n, h, hits
    <3>6. g \in [1..k -> 1..Len(es)]
      BY <3>2 DEF Found
    <3>7. f \in [1..(k + 1) -> 1..Len(es)] /\ f[k + 1] = h /\ \A i \in 1..k : f[i] = g[i]
      BY <1>3, <2>1, <3>4, <3>5, <3>6
    <3> HIDE DEF f
    <3>8. ASSUME NEW i \in 1..(k + 1)
          PROVE  /\ Hits(ms[i], es[f[i]])
                 /\ i > 1 => /\ f[i - 1] < f[i]
                             /\ ~GapViolated(ms[i], AtIn(md, es[f[i]]), AtIn(md, es[f[i - 1]]))
      <4>1. CASE i = k + 1
        <5>1. Hits(ms[i], es[f[i]])
          BY <3>5, <3>7, <4>1
        <5>2. ASSUME i > 1
              PROVE  /\ f[i - 1] < f[i]
                     /\ ~GapViolated(ms[i], AtIn(md, es[f[i]]), AtIn(md, es[f[i - 1]]))
          <6>1. k > 0 /\ i - 1 = k /\ k \in 1..k
            BY <2>1, <4>1, <5>2
          <6>2. f[i - 1] = g[k] /\ g[k] \in 1..Len(es) /\ f[i] = h
            BY <3>6, <3>7, <4>1, <6>1
          <6>3. acc.from = g[k] + 1 /\ acc.prev = AtIn(md, es[g[k]])
            BY <3>2, <6>1
          <6>4. g[k] < h
            BY <3>5, <6>2, <6>3
          <6>. QED  BY <3>3, <4>1, <6>2, <6>3, <6>4
        <5>. QED  BY <5>1, <5>2
      <4>2. CASE i # k + 1
        <5>1. i \in 1..k /\ (i > 1 => i - 1 \in 1..k)
          BY <2>1, <4>2
        <5>. QED  BY <3>2, <3>7, <5>1 DEF Found
      <4>. QED  BY <4>1, <4>2
    <3>9. Found(ms, es, md, k + 1, f)
      BY <3>7, <3>8 DEF Found
    <3>. QED  BY <3>3, <3>7, <3>9
  <2> HIDE DEF acc
  <2>. QED  BY <2>3, <2>4
<1> HIDE DEF G
<1>6. \A k \in Nat : k \in G
  BY <1>4, <1>5, Keeping!NumberInduction
<1>7. P(Len(ms))
  <2>1. Len(ms) <= Len(ms)
    BY <1>3
  <2> HIDE DEF P
  <2>. QED  BY <1>3, <1>6, <2>1 DEF G
<1>. QED  BY <1>3, <1>7 DEF S

\* A choice of entries that the first k matchers describe, in order.
Choice(ms, es, f) ==
  /\ f \in [1..Len(ms) -> 1..Len(es)]
  /\ \A i \in 1..Len(ms) : Hits(ms[i], es[f[i]]) /\ (i > 1 => f[i - 1] < f[i])

\* Where there is such a choice, no matcher is said never to match: the scan is
\* never past it.
LEMMA ScanComplete ==
  ASSUME NEW E, NEW es \in Seq(E), NEW M, NEW ms \in Seq(M), NEW md,
         NEW f, Choice(ms, es, f)
  PROVE  Scan(ms, es, md, Len(ms)).why # "never"
<1> DEFINE S == [k \in Nat |-> Scan(ms, es, md, k)]
           P(k) == /\ IsScan(S[k]) /\ S[k].why # "never"
                   /\ S[k].why = None => S[k].from <= IF k = 0 THEN 1 ELSE f[k] + 1
           G == {k \in Nat : k <= Len(ms) => P(k)}
<1>1. S[0] = NewScan
  BY ScanStep
<1>2. \A k \in Nat : k < Len(ms) => S[k + 1] = MatchIn(es, md, S[k], ms[k + 1])
  <2>1. \A k \in Nat : k + 1 \in Nat
    OBVIOUS
  <2>. QED  BY <2>1, ScanStep
<1>3. Len(ms) \in Nat /\ Len(es) \in Nat /\ None # "never"
  BY StepAssumption DEF Reasons
<1> HIDE DEF S
<1>4. 0 \in G
  <2>1. IsScan(S[0])
    BY <1>1 DEF IsScan, NewScan
  <2>. QED  BY <1>1, <1>3, <2>1 DEF NewScan
<1>5. ASSUME NEW k \in G PROVE k + 1 \in G
  <2> SUFFICES ASSUME k + 1 <= Len(ms) PROVE P(k + 1)
    OBVIOUS
  <2>1. k \in Nat /\ k < Len(ms) /\ P(k)
    BY <1>3, <1>5
  <2> DEFINE acc == S[k]
             n == S[k + 1]
             m == ms[k + 1]
             hits == HitsFrom(es, acc.from, m)
             h == Min(hits)
  <2>2. IsScan(acc) /\ n = MatchIn(es, md, acc, m)
    BY <1>2, <2>1
  <2>3. /\ IsScan(n)
        /\ acc.why # None => n = acc
        /\ acc.why = None /\ hits # {} => n.why # "never"
        /\ acc.why = None /\ n.why = None => (\A i \in hits : h <= i) /\ h \in hits /\ n.from = h + 1
    <3>1. Matched(es, md, acc, m, n)
      <4> HIDE DEF acc, n, m
      <4>. QED  BY <2>2, MatchFacts
    <3> HIDE DEF acc, n, m
    <3>. QED  BY <3>1 DEF Matched, hits, h
  <2>4. k + 1 \in 1..Len(ms) /\ f[k + 1] \in 1..Len(es) /\ Hits(m, es[f[k + 1]])
    BY <1>3, <2>1 DEF Choice
  <2>5. acc.from \in Nat \ {0}
    BY <2>2 DEF IsScan
  <2>6. ASSUME acc.why = None PROVE f[k + 1] \in hits
    <3>1. acc.from <= f[k + 1]
      <4>1. CASE k = 0
        BY <2>1, <2>4, <2>5, <2>6, <4>1
      <4>2. CASE k # 0
        <5>1. k \in 1..Len(ms) /\ k + 1 > 1 /\ (k + 1) - 1 = k
          BY <1>3, <2>1, <4>2
        <5>2. f[k] < f[k + 1] /\ f[k] \in 1..Len(es)
          BY <2>4, <5>1 DEF Choice
        <5>3. acc.from <= f[k] + 1
          BY <2>1, <2>6, <4>2
        <5> HIDE DEF acc
        <5>. QED  BY <2>4, <2>5, <5>2, <5>3
      <4>. QED  BY <4>1, <4>2
    <3> HIDE DEF acc, m
    <3>. QED  BY <1>3, <2>4, <2>5, <3>1 DEF HitsFrom
  <2>7. n.why # "never"
    BY <1>3, <2>1, <2>3, <2>6
  <2>8. ASSUME n.why = None PROVE n.from <= f[k + 1] + 1
    <3>1. acc.why = None
      BY <2>3, <2>8
    <3>2. h <= f[k + 1] /\ n.from = h + 1 /\ h \in hits
      BY <2>3, <2>6, <2>8, <3>1
    <3>3. h \in Int
      BY <2>5, <3>2 DEF HitsFrom
    <3> HIDE DEF n, h, hits
    <3>. QED  BY <2>4, <3>2, <3>3
  <2>. QED  BY <2>1, <2>3, <2>7, <2>8
<1> HIDE DEF G
<1>6. \A k \in Nat : k \in G
  BY <1>4, <1>5, Keeping!NumberInduction
<1>7. P(Len(ms))
  <2>1. Len(ms) <= Len(ms)
    BY <1>3
  <2> HIDE DEF P
  <2>. QED  BY <1>3, <1>6, <2>1 DEF G
<1>. QED  BY <1>3, <1>7 DEF S

-----------------------------------------------------------------------------
(* The invariant                                                             *)

Phases == {"served", "recorded", "answered"}
Paths == {rq.path : rq \in AppRequest} \cup UNION {{step.path : step \in Menu[m]} : m \in Modes}
Requests ==
  [path : Paths, header : BOOLEAN, large : BOOLEAN, scoped : BOOLEAN, wall : Nat, at : Nat,
   phase : Phases]
Entries ==
  [id : Nat, path : Paths, header : BOOLEAN, large : BOOLEAN, scoped : BOOLEAN, at : Nat, wall : Nat]
Outs ==
  [status : Outcomes \cup {"ERRORED", "SKIPPED"}, why : Reasons \cup {None},
   captured : SUBSET Variable, none : Nat, checks : Nat]
Counts == [count : Nat, evicted : BOOLEAN, seen : Nat, begun : Nat]
Reads == {None} \cup Counts \cup [ids : Seq(Nat), whole : BOOLEAN]
Results == [out : Outs, end : Nat, read : Reads]

DefinitionInv ==
  /\ mode \in Modes /\ steps \in Seq(Menu[mode])
  /\ mode = "check" => Valid(steps, inputs.declared)

EngineTypes ==
  /\ clock \in Nat /\ now \in Nat /\ lag \in Nat
  /\ due \subseteq Nat /\ IsFiniteSet(due)

TrafficTypes ==
  /\ sent \in Seq(Requests) /\ history \in Seq(Nat)
  /\ journal \in [entries : Seq(Entries), evicted : Nat]
  /\ dropped \in BOOLEAN

RunnerTypes ==
  /\ pc \in Nat /\ pc >= 1 /\ pc <= Len(steps) + 1
  /\ results \in Seq(Results) /\ Len(results) = pc - 1
  /\ counted \in {None} \cup Counts
  /\ time \in Nat /\ evaluated \in Nat
  /\ captures \subseteq Variable

TypeOK == DefinitionInv /\ EngineTypes /\ TrafficTypes /\ RunnerTypes

\* The request has been journaled.
Finally(s, id) == id \in DOMAIN s /\ s[id].phase # "served"

\* The entry tells of its request what the journal keeps.
Tells(s, e) ==
  /\ e.id \in DOMAIN s
  /\ e.path = s[e.id].path /\ e.large = s[e.id].large
  /\ e.header <=> s[e.id].header /\ ~s[e.id].large
  /\ e.wall = s[e.id].wall /\ e.at = s[e.id].at

HistoryInv ==
  /\ \A a, b \in DOMAIN history : history[a] = history[b] => a = b
  /\ \A a \in DOMAIN history : Finally(sent, history[a])
  /\ \A id \in DOMAIN sent : Finally(sent, id) => \E a \in DOMAIN history : history[a] = id

\* The entries tell of the requests of the history, in its order.
EntriesInv ==
  /\ \A i \in DOMAIN journal.entries :
       /\ Tells(sent, journal.entries[i])
       /\ \E a \in DOMAIN history : history[a] = journal.entries[i].id
  /\ \A i, j \in DOMAIN journal.entries : \A a, b \in DOMAIN history :
       (i < j /\ history[a] = journal.entries[i].id /\ history[b] = journal.entries[j].id) => a < b

\* Nothing is missing from a journal that has evicted and dropped nothing.
CompleteInv ==
  journal.evicted = 0 /\ ~dropped =>
    /\ Len(journal.entries) = Len(history)
    /\ \A i \in DOMAIN history : journal.entries[i].id = history[i]

JournalInv == HistoryInv /\ EntriesInv /\ CompleteInv

\* Between the two reads of VERIFY_REQUESTS.
CountedInv ==
  counted # None =>
    /\ pc <= Len(steps) /\ steps[pc].type = "VERIFY_REQUESTS"
    /\ counted.count <= counted.begun
    /\ ~counted.evicted /\ ~dropped => counted.seen <= counted.count

\* What a step's outcome says of the application, given what the step had read,
\* unless a scope has gone.
CountsRight(gone, step, out, read) ==
  step.type = "VERIFY_REQUESTS" /\ out.status = "PASSED" /\ ~gone =>
    \A k \in DOMAIN step.asserts :
      LET a == step.asserts[k]
      IN (a.target = "count" /\ ~a.soft) =>
           /\ a.op \in {"lte", "equals"} => read.seen <= a.n
           /\ a.op \in {"gte", "equals"} => read.begun >= a.n

\* Happened, for the requests s of a run in mode md.
HappenedIn(s, md, matchers, ids, gaps) ==
  \E f \in [DOMAIN matchers -> DOMAIN ids] :
    \A i \in DOMAIN matchers :
      /\ s[ids[f[i]]].path = matchers[i].path
      /\ matchers[i].header => s[ids[f[i]]].header
      /\ i > 1 => /\ f[i - 1] < f[i]
                  /\ gaps => ~GapViolated(matchers[i], AtIn(md, s[ids[f[i]]]), AtIn(md, s[ids[f[i - 1]]]))

Journaled(s, read) ==
  /\ read.ids \in Seq(Nat) /\ read.whole \in BOOLEAN
  /\ \A a \in DOMAIN read.ids : Finally(s, read.ids[a])

SequenceRight(s, md, step, out, read) ==
  /\ step.type = "VERIFY_SEQUENCE" /\ out.status = "PASSED" =>
       Journaled(s, read) /\ HappenedIn(s, md, step.matchers, read.ids, TRUE)
  /\ out.why = "never" =>
       Journaled(s, read) /\ (read.whole => ~HappenedIn(s, md, step.matchers, read.ids, FALSE))

EvidenceInv ==
  \A i \in DOMAIN results :
    /\ CountsRight(dropped, steps[i], results[i].out, results[i].read)
    /\ SequenceRight(sent, mode, steps[i], results[i].out, results[i].read)

CaptureInv == \A i \in DOMAIN results : results[i].out.captured \subseteq captures

\* What counts was compared, or is credited, or is the failure that ends the run.
Sound(step, out) ==
  /\ Counted(step, out) \in Nat /\ Compared(step, out) \in Nat
  /\ Counted(step, out) > 0 =>
       Compared(step, out) > 0 \/ Credited(step, out) \/ Hard(step, out)
  /\ Compared(step, out) > 0 => Counted(step, out) > 0

Executed(i) == results[i].out.status # "SKIPPED"

VerdictInv ==
  /\ pc <= Len(steps) => \A i \in DOMAIN results : ~Hard(steps[i], results[i].out)
  /\ \A i \in DOMAIN results :
       /\ ~Executed(i) <=> \E j \in 1 .. i - 1 : Hard(steps[j], results[j].out)
       /\ Executed(i) => Sound(steps[i], results[i].out)
  /\ evaluated > 0 <=> \E i \in DOMAIN results : Executed(i) /\ Counted(steps[i], results[i].out) > 0

IInv ==
  /\ TypeOK /\ JournalInv /\ CountedInv /\ EvidenceInv /\ CaptureInv /\ VerdictInv
  /\ ClocksDifferByTimeouts /\ ValidatedResolves

-----------------------------------------------------------------------------
(* Initial states                                                            *)

LEMMA NoneIsNoReason == \A w \in Reasons : None # w
BY StepAssumption

LEMMA CompileType ==
  ASSUME NEW E, NEW def \in Seq(E), NEW m
  PROVE  Compile(m, def) \in Seq(E)
<1> DEFINE t == [i \in 1..Len(def) |-> Verifying(def[i])]
<1>1. FoldLeft(KeepVerifying, <<>>, def) = Kept(Paired(def, t), Len(def))
  BY VerifyingIsKept DEF Kept
<1> HIDE DEF t
<1>2. FoldLeft(KeepVerifying, <<>>, def) \in Seq(E)
  BY <1>1, KeptIsPart
<1>. QED  BY <1>2 DEF Compile

LEMMA InitInv == Init => IInv
<1> SUFFICES ASSUME Init PROVE IInv
  OBVIOUS
<1>1. DefinitionInv
  <2>1. mode \in Modes
    BY DEF Init
  <2>a. PICK n \in 1 .. MaxSteps[mode] : \E def \in [1 .. n -> Menu[mode]] :
          \E declared \in SUBSET UNION {def[i].uses : i \in 1 .. n} :
            /\ Valid(def, declared)
            /\ \E provided \in SUBSET declared : inputs = [declared |-> declared, provided |-> provided]
            /\ steps = Compile(mode, def)
    BY DEF Init
  <2>b. PICK def \in [1 .. n -> Menu[mode]] :
          \E declared \in SUBSET UNION {def[i].uses : i \in 1 .. n} :
            /\ Valid(def, declared)
            /\ \E provided \in SUBSET declared : inputs = [declared |-> declared, provided |-> provided]
            /\ steps = Compile(mode, def)
    BY <2>a
  <2>2. PICK declared \in SUBSET UNION {def[i].uses : i \in 1 .. n} :
          /\ Valid(def, declared)
          /\ \E provided \in SUBSET declared : inputs = [declared |-> declared, provided |-> provided]
          /\ steps = Compile(mode, def)
    BY <2>b
  <2>3. n \in Nat
    <3>1. MaxSteps[mode] \in Nat
      BY <2>1, ScenarioAssumption
    <3>. QED  BY <3>1
  <2>4. def \in Seq(Menu[mode])
    BY <2>3
  <2>5. steps \in Seq(Menu[mode])
    BY <2>2, <2>4, CompileType
  <2>6. inputs.declared = declared
    BY <2>2
  <2>7. mode = "check" => steps = def
    BY <2>2 DEF Compile
  <2>. QED  BY <2>1, <2>2, <2>5, <2>6, <2>7 DEF DefinitionInv
<1>2. EngineTypes
  <2>1. due = {} \/ due = {Delay}
    BY DEF Init
  <2>a. IsFiniteSet({}) /\ IsFiniteSet({Delay})
    BY FS_EmptySet, FS_Singleton
  <2>b. Delay \in Nat
    BY ScenarioAssumption
  <2>2. IsFiniteSet(due) /\ due \subseteq Nat
    BY ONLY <2>1, <2>a, <2>b
  <2>. QED  BY <2>2 DEF Init, EngineTypes
<1>3. TrafficTypes
  <2>1. sent = <<>> /\ history = <<>> /\ journal = [entries |-> <<>>, evicted |-> 0] /\ dropped = FALSE
    BY DEF Init
  <2>2. <<>> \in Seq(Requests) /\ <<>> \in Seq(Nat) /\ <<>> \in Seq(Entries)
    OBVIOUS
  <2>3. journal \in [entries : Seq(Entries), evicted : Nat]
    BY <2>1, <2>2
  <2>. QED  BY <2>1, <2>2, <2>3 DEF TrafficTypes
<1>4. pc = 1 /\ counted = None /\ time = 0 /\ captures = {} /\ results = <<>> /\ evaluated = 0
  BY DEF Init
<1>5. RunnerTypes
  <2>1. Len(steps) \in Nat
    BY <1>1 DEF DefinitionInv
  <2>2. results \in Seq(Results) /\ Len(results) = 0
    BY <1>4
  <2>. QED  BY <1>4, <2>1, <2>2 DEF RunnerTypes
<1>6. JournalInv
  BY DEF Init, JournalInv, HistoryInv, EntriesInv, CompleteInv, Finally
<1>7. CountedInv /\ EvidenceInv /\ CaptureInv /\ ValidatedResolves
  BY <1>4 DEF CountedInv, EvidenceInv, CaptureInv, ValidatedResolves
<1>8. VerdictInv
  BY <1>4 DEF VerdictInv
<1>9. ClocksDifferByTimeouts
  BY DEF Init, ClocksDifferByTimeouts
<1>. QED  BY <1>1, <1>2, <1>3, <1>5, <1>6, <1>7, <1>8, <1>9 DEF IInv, TypeOK

-----------------------------------------------------------------------------
(* The journal                                                               *)

\* What a step keeps of the requests that have been journaled.
Preserved ==
  \A id \in DOMAIN sent : Finally(sent, id) =>
    /\ id \in DOMAIN sent' /\ sent'[id].phase # "served"
    /\ sent'[id].path = sent[id].path /\ sent'[id].header = sent[id].header
    /\ sent'[id].large = sent[id].large
    /\ sent'[id].wall = sent[id].wall /\ sent'[id].at = sent[id].at

LEMMA RecordFacts ==
  ASSUME TrafficTypes, NEW e \in Entries, Record(e)
  PROVE  /\ history' = Append(history, e.id)
         /\ journal' \in [entries : Seq(Entries), evicted : Nat]
         /\ \E drop \in Nat :
              /\ drop <= Len(journal.entries) + 1
              /\ journal'.evicted = journal.evicted + drop
              /\ Len(journal'.entries) = Len(journal.entries) + 1 - drop
              /\ \A i \in DOMAIN journal'.entries :
                   journal'.entries[i] = Append(journal.entries, e)[i + drop]
<1> DEFINE all == Append(journal.entries, e)
           drop == Excess(all)
           x == Len(all) - MaxJournal
<1>1. journal.entries \in Seq(Entries) /\ journal.evicted \in Nat
  BY DEF TrafficTypes
<1>2. all \in Seq(Entries) /\ Len(all) = Len(journal.entries) + 1 /\ Len(journal.entries) \in Nat
  BY <1>1
<1>3. MaxJournal \in Nat
  BY ScenarioAssumption
<1>4. drop \in Nat /\ drop <= Len(all)
  <2>1. x \in Int /\ x <= Len(all) /\ Len(all) \in Nat
    BY <1>2, <1>3
  <2> DEFINE S == {0, x}
  <2>2. IsFiniteSet(S) /\ S \subseteq Int /\ S # {}
    <3>1. IsFiniteSet({x})
      BY FS_Singleton
    <3>2. IsFiniteSet({x} \cup {0})
      BY <3>1, FS_AddElement
    <3>3. S = {x} \cup {0}
      OBVIOUS
    <3> HIDE DEF x
    <3>4. x \in Int
      BY <2>1
    <3>5. IsFiniteSet(S)
      BY <3>2, <3>3
    <3>6. S \subseteq Int /\ S # {}
      BY ONLY <3>4
    <3>. QED  BY <3>5, <3>6
  <2>3. Max(S) \in S /\ \A y \in S : Max(S) >= y
    BY <2>2, MaxFacts
  <2>4. drop = Max(S)
    BY DEF Excess
  <2> HIDE DEF drop, x, all
  <2>5. drop \in {0, x} /\ drop >= 0
    BY <2>3, <2>4
  <2>. QED  BY <2>1, <2>5
<1> HIDE DEF drop
<1>5. /\ journal' = [entries |-> SubSeq(all, drop + 1, Len(all)), evicted |-> journal.evicted + drop]
      /\ history' = Append(history, e.id)
  BY DEF Record, drop
<1> HIDE DEF all
<1>6. /\ SubSeq(all, drop + 1, Len(all)) \in Seq(Entries)
      /\ Len(SubSeq(all, drop + 1, Len(all))) = Len(all) - drop
      /\ \A i \in 1..(Len(all) - drop) : SubSeq(all, drop + 1, Len(all))[i] = all[i + drop]
  <2>1. Len(all) \in Nat /\ drop \in Nat /\ drop <= Len(all) /\ all \in Seq(Entries)
    BY <1>2, <1>4
  <2>. QED  BY ONLY <2>1
<1>7. journal' \in [entries : Seq(Entries), evicted : Nat]
  BY <1>1, <1>4, <1>5, <1>6
<1>8. DOMAIN journal'.entries = 1..(Len(all) - drop)
  BY <1>5, <1>6
<1>9. /\ drop \in Nat /\ drop <= Len(journal.entries) + 1
      /\ journal'.evicted = journal.evicted + drop
      /\ Len(journal'.entries) = Len(journal.entries) + 1 - drop
      /\ \A i \in DOMAIN journal'.entries : journal'.entries[i] = Append(journal.entries, e)[i + drop]
  <2>1. /\ journal'.evicted = journal.evicted + drop
        /\ journal'.entries = SubSeq(all, drop + 1, Len(all))
    BY <1>5
  <2>2. Len(all) = Len(journal.entries) + 1 /\ Len(journal.entries) \in Nat
    BY <1>2 DEF all
  <2>3. drop \in Nat /\ drop <= Len(journal.entries) + 1
    BY <1>4, <2>2
  <2>4. Len(journal'.entries) = Len(journal.entries) + 1 - drop
    BY <1>6, <2>1, <2>2, <2>3
  <2>5. \A i \in DOMAIN journal'.entries : journal'.entries[i] = all[i + drop]
    BY <1>6, <1>8, <2>1
  <2>6. \A i \in DOMAIN journal'.entries : journal'.entries[i] = Append(journal.entries, e)[i + drop]
    BY <2>5 DEF all
  <2>. QED  BY <2>1, <2>3, <2>4, <2>6
<1>. QED  BY <1>5, <1>7, <1>9

\* Journaling a request that was not in the journal.
LEMMA RecordInv ==
  ASSUME TrafficTypes, JournalInv, NEW e \in Entries, Record(e), Preserved, dropped' = dropped,
         ~Finally(sent, e.id), Finally(sent', e.id), Tells(sent', e),
         \A id \in DOMAIN sent' : Finally(sent', id) => id = e.id \/ Finally(sent, id)
  PROVE  JournalInv' /\ history' \in Seq(Nat) /\ journal' \in [entries : Seq(Entries), evicted : Nat]
<1>1. /\ history' = Append(history, e.id)
      /\ journal' \in [entries : Seq(Entries), evicted : Nat]
      /\ \E drop \in Nat :
           /\ drop <= Len(journal.entries) + 1
           /\ journal'.evicted = journal.evicted + drop
           /\ Len(journal'.entries) = Len(journal.entries) + 1 - drop
           /\ \A i \in DOMAIN journal'.entries :
                journal'.entries[i] = Append(journal.entries, e)[i + drop]
  BY RecordFacts
<1>2. PICK drop \in Nat :
           /\ drop <= Len(journal.entries) + 1
           /\ journal'.evicted = journal.evicted + drop
           /\ Len(journal'.entries) = Len(journal.entries) + 1 - drop
           /\ \A i \in DOMAIN journal'.entries :
                journal'.entries[i] = Append(journal.entries, e)[i + drop]
  BY <1>1
<1> DEFINE n == Len(history)
           l == Len(journal.entries)
<1>3. /\ history \in Seq(Nat) /\ n \in Nat /\ journal.entries \in Seq(Entries) /\ l \in Nat
      /\ e.id \in Nat /\ journal.evicted \in Nat
  BY DEF TrafficTypes, Entries
<1>4. /\ history' \in Seq(Nat) /\ DOMAIN history' = 1..(n + 1) /\ DOMAIN history = 1..n
      /\ history'[n + 1] = e.id /\ \A a \in 1..n : history'[a] = history[a]
  BY <1>1, <1>3
<1>5. /\ DOMAIN journal'.entries = 1..(l + 1 - drop) /\ DOMAIN journal.entries = 1..l
      /\ \A i \in 1..(l + 1 - drop) : journal'.entries[i] = IF i + drop = l + 1 THEN e ELSE journal.entries[i + drop]
      /\ \A i \in 1..(l + 1 - drop) : i + drop # l + 1 => i + drop \in 1..l
  <2>1. journal'.entries \in Seq(Entries)
    BY <1>1
  <2>2. DOMAIN journal'.entries = 1..(l + 1 - drop) /\ DOMAIN journal.entries = 1..l
    BY <1>2, <1>3, <2>1
  <2>3. \A i \in 1..(l + 1) : Append(journal.entries, e)[i] = IF i = l + 1 THEN e ELSE journal.entries[i]
    BY <1>3
  <2> HIDE DEF l
  <2>4. \A i \in 1..(l + 1 - drop) : i + drop \in 1..(l + 1) /\ (i + drop # l + 1 => i + drop \in 1..l)
    BY <1>2, <1>3
  <2>. QED  BY <1>2, <2>2, <2>3, <2>4
<1> HIDE DEF n, l
<1>6. \A a \in 1..n : history[a] # e.id /\ history[a] \in DOMAIN sent /\ Finally(sent, history[a])
  BY <1>4 DEF JournalInv, HistoryInv, Finally
<1>7. HistoryInv'
  <2>1. \A a, b \in 1..(n + 1) : history'[a] = history'[b] => a = b
    <3> SUFFICES ASSUME NEW a \in 1..(n + 1), NEW b \in 1..(n + 1), history'[a] = history'[b] PROVE a = b
      OBVIOUS
    <3>1. CASE a \in 1..n /\ b \in 1..n
      BY <1>4, <3>1 DEF JournalInv, HistoryInv
    <3>2. CASE a = n + 1 \/ b = n + 1
      <4>1. (a \in 1..n \/ a = n + 1) /\ (b \in 1..n \/ b = n + 1)
        BY <1>3
      <4>. QED  BY <1>4, <1>6, <3>2, <4>1
    <3>. QED  BY <1>3, <3>1, <3>2
  <2>2. \A a \in 1..(n + 1) : Finally(sent', history'[a])
    <3> SUFFICES ASSUME NEW a \in 1..(n + 1) PROVE Finally(sent', history'[a])
      OBVIOUS
    <3>1. CASE a \in 1..n
      BY <1>4, <1>6, <3>1 DEF Preserved, Finally
    <3>2. CASE a = n + 1
      BY <1>4, <3>2 DEF Finally
    <3>. QED  BY <1>3, <3>1, <3>2
  <2>3. \A id \in DOMAIN sent' : Finally(sent', id) => \E a \in 1..(n + 1) : history'[a] = id
    <3> SUFFICES ASSUME NEW id \in DOMAIN sent', Finally(sent', id) PROVE \E a \in 1..(n + 1) : history'[a] = id
      OBVIOUS
    <3>1. CASE id = e.id
      BY <1>3, <1>4, <3>1
    <3>2. CASE id # e.id
      <4>1. Finally(sent, id)
        BY <3>2
      <4>2. PICK a \in 1..n : history[a] = id
        BY <1>4, <4>1 DEF JournalInv, HistoryInv, Finally
      <4>. QED  BY <1>3, <1>4, <4>2
    <3>. QED  BY <3>1, <3>2
  <2>. QED  BY <1>4, <2>1, <2>2, <2>3 DEF HistoryInv, Finally
<1>8. EntriesInv'
  <2> DEFINE es == journal'.entries
             D == 1..(l + 1 - drop)
  <2>1. ASSUME NEW i \in D PROVE Tells(sent', es[i]) /\ \E a \in 1..(n + 1) : history'[a] = es[i].id
    <3>1. CASE i + drop = l + 1
      <4>1. es[i] = e
        BY <1>5, <3>1
      <4>2. n + 1 \in 1..(n + 1)
        BY <1>3
      <4> HIDE DEF es
      <4>. QED  BY <1>4, <4>1, <4>2
    <3>2. CASE i + drop # l + 1
      <4> DEFINE o == journal.entries[i + drop]
      <4>1. es[i] = o /\ i + drop \in DOMAIN journal.entries
        BY <1>5, <3>2
      <4>2. Tells(sent, o) /\ \E a \in 1..n : history[a] = o.id
        BY <1>4, <4>1 DEF JournalInv, EntriesInv
      <4> HIDE DEF o
      <4>3. PICK a \in 1..n : history[a] = o.id
        BY <4>2
      <4>4. a \in 1..(n + 1) /\ history'[a] = o.id
        BY <1>3, <1>4, <4>3
      <4>5. Finally(sent, o.id) /\ o.id \in DOMAIN sent
        BY <1>6, <4>3
      <4>6. /\ o.id \in DOMAIN sent'
            /\ sent'[o.id].path = sent[o.id].path /\ sent'[o.id].header = sent[o.id].header
            /\ sent'[o.id].large = sent[o.id].large
            /\ sent'[o.id].wall = sent[o.id].wall /\ sent'[o.id].at = sent[o.id].at
        BY <4>5 DEF Preserved
      <4>. QED  BY <4>1, <4>2, <4>4, <4>6 DEF Tells
    <3>. QED  BY <3>1, <3>2
  <2>2. ASSUME NEW i \in D, NEW j \in D, NEW a \in 1..(n + 1), NEW b \in 1..(n + 1),
               i < j, history'[a] = es[i].id, history'[b] = es[j].id
        PROVE  a < b
    <3>1. i + drop \in 1..l /\ es[i] = journal.entries[i + drop]
      <4>1. i + drop # l + 1
        BY <1>2, <1>3, <2>2
      <4>. QED  BY <1>5, <4>1
    <3>2. a \in 1..n /\ history[a] = es[i].id
      <4>1. PICK c \in 1..n : history[c] = es[i].id
        BY <1>4, <1>5, <3>1 DEF JournalInv, EntriesInv
      <4> HIDE DEF es
      <4>2. history'[c] = es[i].id /\ history'[a] = es[i].id
        BY <1>4, <2>2, <4>1
      <4>3. c \in 1..(n + 1)
        BY ONLY <1>3, c \in 1..n
      <4>4. c = a
        BY <1>4, <1>7, <4>2, <4>3 DEF HistoryInv
      <4>. QED  BY <4>1, <4>4
    <3>3. CASE j + drop = l + 1
      <4>1. es[j].id = e.id
        BY <1>5, <3>3
      <4>2. b = n + 1
        <5>1. b \notin 1..n
          BY <1>4, <1>6, <2>2, <4>1
        <5>. QED  BY <1>3, <5>1
      <4>. QED  BY <1>3, <3>2, <4>2
    <3>4. CASE j + drop # l + 1
      <4>0. j \in 1..(l + 1 - drop) /\ i \in Int /\ j \in Int /\ i < j
        BY <2>2
      <4>1. j + drop \in 1..l /\ es[j] = journal.entries[j + drop] /\ i + drop < j + drop
        <5>1. j + drop \in 1..l /\ es[j] = journal.entries[j + drop]
          BY ONLY <1>5, <3>4, <4>0 DEF es
        <5>2. i + drop < j + drop
          BY ONLY <4>0, drop \in Nat
        <5>. QED  BY <5>1, <5>2
      <4>2. CASE b \in 1..n
        <5>1. history[b] = es[j].id
          BY <1>4, <2>2, <4>2
        <5>2. /\ i + drop \in DOMAIN journal.entries /\ j + drop \in DOMAIN journal.entries
              /\ a \in DOMAIN history /\ b \in DOMAIN history
          BY <1>4, <1>5, <3>1, <3>2, <4>1, <4>2
        <5>3. history[a] = journal.entries[i + drop].id /\ history[b] = journal.entries[j + drop].id
          BY <3>1, <3>2, <4>1, <5>1
        <5>4. \A p, q \in DOMAIN journal.entries : \A c, d \in DOMAIN history :
                (p < q /\ history[c] = journal.entries[p].id /\ history[d] = journal.entries[q].id) => c < d
          BY DEF JournalInv, EntriesInv
        <5> HIDE DEF es
        <5>. QED  BY ONLY <4>1, <5>2, <5>3, <5>4
      <4>3. CASE b \notin 1..n
        <5>1. b = n + 1
          BY <1>3, <4>3
        <5>. QED  BY <1>3, <3>2, <5>1
      <4>. QED  BY <4>2, <4>3
    <3>. QED  BY <3>3, <3>4
  <2>3. DOMAIN journal'.entries = D /\ DOMAIN history' = 1..(n + 1)
    BY <1>4, <1>5
  <2>4. \A i \in D : Tells(sent', es[i])
    BY <2>1
  <2>5. \A i \in D : \E a \in 1..(n + 1) : history'[a] = es[i].id
    BY <2>1
  <2>6. \A i, j \in D : \A a, b \in 1..(n + 1) :
          (i < j /\ history'[a] = es[i].id /\ history'[b] = es[j].id) => a < b
    BY <2>2
  <2> HIDE DEF D
  <2>. QED  BY ONLY <2>3, <2>4, <2>5, <2>6 DEF EntriesInv, Tells, es
<1>9. CompleteInv'
  <2> SUFFICES ASSUME journal'.evicted = 0, ~dropped'
               PROVE  /\ Len(journal'.entries) = Len(history')
                      /\ \A i \in DOMAIN history' : journal'.entries[i].id = history'[i]
    BY DEF CompleteInv
  <2>1. drop = 0 /\ journal.evicted = 0 /\ ~dropped
    BY <1>2, <1>3
  <2>2. l = n /\ \A i \in 1..n : journal.entries[i].id = history[i]
    BY <1>4, <2>1 DEF JournalInv, CompleteInv, l, n
  <2>3. Len(history') = n + 1
    BY <1>3, <1>4
  <2>4. Len(journal'.entries) = l + 1
    BY <1>2, <1>3, <2>1 DEF l
  <2>5. ASSUME NEW i \in 1..(n + 1) PROVE journal'.entries[i].id = history'[i]
    <3>1. i + drop = i /\ i \in 1..(l + 1 - drop)
      BY <1>3, <2>1, <2>2
    <3>2. journal'.entries[i] = IF i = l + 1 THEN e ELSE journal.entries[i]
      BY <1>5, <3>1
    <3>. QED  BY <1>3, <1>4, <2>2, <3>2
  <2>. QED  BY <1>4, <2>2, <2>3, <2>4, <2>5
<1>. QED  BY <1>1, <1>4, <1>7, <1>8, <1>9 DEF JournalInv

\* Steps that neither journal nor forget.
LEMMA KeptTraffic ==
  ASSUME TrafficTypes, JournalInv, sent' \in Seq(Requests), UNCHANGED <<journal, history, dropped>>,
         Preserved, \A id \in DOMAIN sent' : Finally(sent', id) => Finally(sent, id)
  PROVE  TrafficTypes' /\ JournalInv'
<1>1. TrafficTypes'
  BY DEF TrafficTypes
<1>2. HistoryInv'
  <2>1. \A a \in DOMAIN history : Finally(sent', history[a])
    BY DEF JournalInv, HistoryInv, Preserved, Finally
  <2>2. \A id \in DOMAIN sent' : Finally(sent', id) => \E a \in DOMAIN history : history[a] = id
    BY DEF JournalInv, HistoryInv, Finally
  <2>3. \A a, b \in DOMAIN history : history[a] = history[b] => a = b
    BY DEF JournalInv, HistoryInv
  <2>4. history' = history
    OBVIOUS
  <2>. QED  BY <2>1, <2>2, <2>3, <2>4 DEF HistoryInv, Finally
<1>3. EntriesInv'
  <2>1. ASSUME NEW i \in DOMAIN journal.entries PROVE Tells(sent', journal.entries[i])
    <3> DEFINE o == journal.entries[i]
    <3>1. Tells(sent, o) /\ \E a \in DOMAIN history : history[a] = o.id
      BY DEF JournalInv, EntriesInv
    <3> HIDE DEF o
    <3>2. Finally(sent, o.id)
      BY <3>1 DEF JournalInv, HistoryInv
    <3>3. o.id \in DOMAIN sent
      BY <3>2 DEF Finally
    <3>4. /\ o.id \in DOMAIN sent'
          /\ sent'[o.id].path = sent[o.id].path /\ sent'[o.id].header = sent[o.id].header
          /\ sent'[o.id].large = sent[o.id].large
          /\ sent'[o.id].wall = sent[o.id].wall /\ sent'[o.id].at = sent[o.id].at
      BY <3>2, <3>3 DEF Preserved
    <3>5. Tells(sent', o)
      BY <3>1, <3>4 DEF Tells
    <3>. QED  BY <3>5 DEF o
  <2>2. journal' = journal /\ history' = history
    OBVIOUS
  <2>3. \A i \in DOMAIN journal.entries : \E a \in DOMAIN history : history[a] = journal.entries[i].id
    BY DEF JournalInv, EntriesInv
  <2>4. \A i, j \in DOMAIN journal.entries : \A a, b \in DOMAIN history :
          (i < j /\ history[a] = journal.entries[i].id /\ history[b] = journal.entries[j].id) => a < b
    BY DEF JournalInv, EntriesInv
  <2>. QED  BY <2>1, <2>2, <2>3, <2>4 DEF EntriesInv, Tells
<1>4. CompleteInv'
  BY DEF JournalInv, CompleteInv
<1>. QED  BY <1>1, <1>2, <1>3, <1>4 DEF JournalInv

\* What every step does to the requests and to the journal.
TrafficStep == TrafficTypes' /\ JournalInv' /\ Preserved /\ (dropped => dropped')

LEMMA SameTraffic ==
  ASSUME IInv, UNCHANGED <<traffic, dropped>>
  PROVE  TrafficStep
<1>1. /\ sent' = sent /\ journal' = journal /\ history' = history /\ dropped' = dropped
      /\ TrafficTypes /\ JournalInv
  BY DEF IInv, TypeOK, traffic
<1>2. Preserved
  BY <1>1 DEF Preserved, Finally
<1>3. sent' \in Seq(Requests) /\ \A id \in DOMAIN sent' : Finally(sent', id) => Finally(sent, id)
  BY <1>1 DEF TrafficTypes
<1>. QED  BY <1>1, <1>2, <1>3, KeptTraffic DEF TrafficStep

LEMMA AppSendTraffic ==
  ASSUME IInv, AppSend
  PROVE  TrafficStep
<1>1. TrafficTypes /\ JournalInv /\ EngineTypes
  BY DEF IInv, TypeOK
<1>2. PICK rq \in AppRequest :
        sent' = Append(sent, [path |-> rq.path, header |-> rq.header, large |-> rq.large,
                              scoped |-> rq.scoped, wall |-> now, at |-> clock, phase |-> "served"])
  BY DEF AppSend
<1> DEFINE r == [path |-> rq.path, header |-> rq.header, large |-> rq.large,
                 scoped |-> rq.scoped, wall |-> now, at |-> clock, phase |-> "served"]
<1>3. r \in Requests /\ r.phase = "served"
  <2>1. rq.path \in Paths
    BY DEF Paths
  <2>2. rq.header \in BOOLEAN /\ rq.large \in BOOLEAN /\ rq.scoped \in BOOLEAN
    BY StepAssumption
  <2>3. now \in Nat /\ clock \in Nat /\ "served" \in Phases
    BY <1>1 DEF EngineTypes, Phases
  <2>. QED  BY <2>1, <2>2, <2>3 DEF Requests
<1> HIDE DEF r
<1>4. sent' = Append(sent, r) /\ sent \in Seq(Requests) /\ Len(sent) \in Nat
  BY <1>1, <1>2 DEF r, TrafficTypes
<1>5. /\ sent' \in Seq(Requests) /\ DOMAIN sent = 1..Len(sent) /\ DOMAIN sent' = 1..(Len(sent) + 1)
      /\ sent'[Len(sent) + 1] = r /\ \A id \in 1..Len(sent) : sent'[id] = sent[id]
  BY <1>3, <1>4
<1>6. \A id \in DOMAIN sent' : id = Len(sent) + 1 \/ id \in DOMAIN sent
  BY <1>4, <1>5
<1>7. \A id \in DOMAIN sent' : Finally(sent', id) => Finally(sent, id)
  BY <1>3, <1>5, <1>6 DEF Finally
<1>8. Preserved
  <2>1. \A id \in DOMAIN sent : id \in DOMAIN sent' /\ sent'[id] = sent[id]
    BY <1>4, <1>5
  <2>. QED  BY <2>1 DEF Preserved, Finally
<1>9. journal' = journal /\ history' = history /\ dropped' = dropped
  BY DEF AppSend
<1>. QED  BY <1>1, <1>5, <1>7, <1>8, <1>9, KeptTraffic DEF TrafficStep

LEMMA AppAnswerTraffic ==
  ASSUME IInv, AppAnswer
  PROVE  TrafficStep
<1>1. TrafficTypes /\ JournalInv /\ sent \in Seq(Requests)
  BY DEF IInv, TypeOK, TrafficTypes
<1>2. PICK id \in DOMAIN sent :
        sent[id].phase = "recorded" /\ sent' = [sent EXCEPT ![id].phase = "answered"]
  BY DEF AppAnswer
<1>3. /\ DOMAIN sent' = DOMAIN sent /\ sent'[id] = [sent[id] EXCEPT !.phase = "answered"]
      /\ \A x \in DOMAIN sent : x # id => sent'[x] = sent[x]
  BY <1>1, <1>2
<1>4. sent[id] \in Requests
  BY <1>1
<1>5. /\ sent'[id] \in Requests /\ sent'[id].phase = "answered"
      /\ sent'[id].path = sent[id].path /\ sent'[id].header = sent[id].header
      /\ sent'[id].large = sent[id].large
      /\ sent'[id].wall = sent[id].wall /\ sent'[id].at = sent[id].at
  BY <1>3, <1>4 DEF Requests, Phases
<1>6. sent' \in Seq(Requests)
  <2>1. \A x \in 1..Len(sent) : sent'[x] \in Requests
    BY <1>1, <1>3, <1>5
  <2>a. sent' = [x \in DOMAIN sent |-> sent'[x]]
    BY <1>2
  <2>b. DOMAIN sent = 1..Len(sent)
    BY <1>1
  <2>2. sent' = [x \in 1..Len(sent) |-> sent'[x]]
    BY <2>a, <2>b
  <2>3. Len(sent) \in Nat
    BY <1>1
  <2>. QED  BY <2>1, <2>2, <2>3
<1>7. \A x \in DOMAIN sent' : Finally(sent', x) => Finally(sent, x)
  BY <1>2, <1>3 DEF Finally
<1>8. Preserved
  BY <1>3, <1>5 DEF Preserved, Finally
<1>9. journal' = journal /\ history' = history /\ dropped' = dropped
  BY DEF AppAnswer
<1>. QED  BY <1>1, <1>6, <1>7, <1>8, <1>9, KeptTraffic DEF TrafficStep

LEMMA AppRecordTraffic ==
  ASSUME IInv, AppRecord
  PROVE  TrafficStep
<1>1. TrafficTypes /\ JournalInv /\ sent \in Seq(Requests) /\ clock \in Nat
  BY DEF IInv, TypeOK, TrafficTypes, EngineTypes
<1>2. PICK id \in DOMAIN sent :
        /\ sent[id].phase = "served"
        /\ Record(Entry(id, Stamped(id), clock))
        /\ sent' = [sent EXCEPT ![id].phase = "recorded", ![id].at = clock]
  BY DEF AppRecord
<1> DEFINE e == Entry(id, Stamped(id), clock)
           r == sent[id]
<1>3. /\ DOMAIN sent' = DOMAIN sent /\ \A x \in DOMAIN sent : x # id => sent'[x] = sent[x]
      /\ sent'[id] = [r EXCEPT !.phase = "recorded", !.at = clock]
  BY <1>1, <1>2
<1>4. r \in Requests /\ id \in Nat
  BY <1>1
<1>5. e = [id |-> id, path |-> r.path, header |-> r.header /\ ~r.large, large |-> r.large,
           scoped |-> r.scoped, at |-> clock, wall |-> r.wall]
  BY DEF Entry, Stamped
<1>6. Record(e)
  BY <1>2
<1>a. r.phase = "served"
  BY <1>2
<1>b. r = sent[id]
  OBVIOUS
<1> HIDE DEF e, r
<1>7. /\ sent'[id] \in Requests /\ sent'[id].phase = "recorded" /\ sent'[id].at = clock
      /\ sent'[id].path = r.path /\ sent'[id].header = r.header /\ sent'[id].large = r.large
      /\ sent'[id].wall = r.wall
  BY <1>1, <1>3, <1>4 DEF Requests, Phases
<1>8. e \in Entries
  <2>1. (r.header /\ ~r.large) \in BOOLEAN
    OBVIOUS
  <2>. QED  BY <1>1, <1>4, <1>5, <2>1 DEF Entries, Requests
<1>9. sent' \in Seq(Requests)
  <2>1. \A x \in 1..Len(sent) : sent'[x] \in Requests
    BY <1>1, <1>3, <1>7
  <2>a. sent' = [x \in DOMAIN sent |-> sent'[x]]
    BY <1>2
  <2>b. DOMAIN sent = 1..Len(sent)
    BY <1>1
  <2>2. sent' = [x \in 1..Len(sent) |-> sent'[x]]
    BY <2>a, <2>b
  <2>3. Len(sent) \in Nat
    BY <1>1
  <2>. QED  BY <2>1, <2>2, <2>3
<1>10. e.id = id
  BY <1>5
<1>11. ~Finally(sent, e.id) /\ Finally(sent', e.id)
  BY <1>3, <1>7, <1>10, <1>a, <1>b DEF Finally
<1>12. Tells(sent', e)
  BY <1>3, <1>5, <1>7, <1>10 DEF Tells
<1>13. \A x \in DOMAIN sent' : Finally(sent', x) => x = e.id \/ Finally(sent, x)
  BY <1>3, <1>10 DEF Finally
<1>14. Preserved
  BY <1>3, <1>a, <1>b DEF Preserved, Finally
<1>15. dropped' = dropped
  BY DEF AppRecord
<1>16. JournalInv' /\ history' \in Seq(Nat) /\ journal' \in [entries : Seq(Entries), evicted : Nat]
  BY <1>1, <1>6, <1>8, <1>11, <1>12, <1>13, <1>14, <1>15, RecordInv
<1>. QED  BY <1>1, <1>9, <1>14, <1>15, <1>16 DEF TrafficStep, TrafficTypes

\* A request of the runner's own is journaled before it is answered.
LEMMA SendRequestTraffic ==
  ASSUME IInv, SendRequest
  PROVE  TrafficStep
<1>1. TrafficTypes /\ JournalInv /\ sent \in Seq(Requests) /\ clock \in Nat /\ now \in Nat
  BY DEF IInv, TypeOK, TrafficTypes, EngineTypes
<1> DEFINE path == steps[pc].path
           rq == [path |-> path, header |-> FALSE, large |-> FALSE, scoped |-> FALSE, wall |-> now]
           e == Entry(Len(sent) + 1, rq, clock)
           r == [path |-> path, header |-> FALSE, large |-> FALSE, scoped |-> FALSE, wall |-> now,
                 at |-> clock, phase |-> "answered"]
<1>2. sent' = Append(sent, r) /\ Record(e) /\ dropped' = dropped
  BY DEF SendRequest
<1>3. path \in Paths
  <2>1. mode \in Modes /\ steps \in Seq(Menu[mode])
    BY DEF IInv, TypeOK, DefinitionInv
  <2>2. pc \in 1..Len(steps)
    BY <2>1 DEF SendRequest, Executing, IInv, TypeOK, RunnerTypes
  <2>3. steps[pc] \in Menu[mode]
    BY <2>1, <2>2
  <2>4. path \in {step.path : step \in Menu[mode]}
    BY <2>3
  <2>. QED  BY <2>1, <2>4 DEF Paths
<1>4. e = [id |-> Len(sent) + 1, path |-> path, header |-> FALSE, large |-> FALSE,
           scoped |-> FALSE, at |-> clock, wall |-> now]
  BY DEF Entry
<1>5. Len(sent) + 1 \in Nat /\ Len(sent) \in Nat
  BY <1>1
<1> HIDE DEF path
<1>6. r \in Requests
  BY <1>1, <1>3 DEF Requests, Phases
<1> HIDE DEF e
<1>7. e \in Entries /\ e.id = Len(sent) + 1
  BY <1>1, <1>3, <1>4, <1>5 DEF Entries
<1>8. /\ sent' \in Seq(Requests) /\ DOMAIN sent = 1..Len(sent) /\ DOMAIN sent' = 1..(Len(sent) + 1)
      /\ sent'[Len(sent) + 1] = r /\ \A id \in 1..Len(sent) : sent'[id] = sent[id]
  <2> HIDE DEF r
  <2>. QED  BY <1>1, <1>2, <1>6
<1>9. /\ \A id \in DOMAIN sent' : id = Len(sent) + 1 \/ id \in DOMAIN sent
      /\ \A id \in DOMAIN sent : id \in DOMAIN sent' /\ sent'[id] = sent[id]
      /\ Len(sent) + 1 \notin DOMAIN sent /\ Len(sent) + 1 \in DOMAIN sent'
  BY <1>5, <1>8
<1>10. ~Finally(sent, e.id) /\ Finally(sent', e.id)
  BY <1>7, <1>8, <1>9 DEF Finally
<1>11. Tells(sent', e)
  <2>1. /\ e.path = path /\ e.header = FALSE /\ e.large = FALSE /\ e.at = clock /\ e.wall = now
        /\ r.path = path /\ r.header = FALSE /\ r.large = FALSE /\ r.at = clock /\ r.wall = now
    BY <1>4
  <2>2. sent'[e.id] = r /\ e.id \in DOMAIN sent'
    BY <1>7, <1>8, <1>9
  <2> HIDE DEF r
  <2>. QED  BY <2>1, <2>2 DEF Tells
<1>12. \A x \in DOMAIN sent' : Finally(sent', x) => x = e.id \/ Finally(sent, x)
  BY <1>7, <1>9 DEF Finally
<1>13. Preserved
  BY <1>9 DEF Preserved, Finally
<1>14. Record(e) /\ dropped' = dropped
  BY <1>2
<1>15. JournalInv' /\ history' \in Seq(Nat) /\ journal' \in [entries : Seq(Entries), evicted : Nat]
  BY <1>1, <1>7, <1>10, <1>11, <1>12, <1>13, <1>14, RecordInv
<1>. QED  BY <1>1, <1>8, <1>13, <1>14, <1>15 DEF TrafficStep, TrafficTypes

LEMMA ForgetScopeTraffic ==
  ASSUME IInv, ForgetScope
  PROVE  TrafficStep
<1>1. TrafficTypes /\ JournalInv
  BY DEF IInv, TypeOK
<1>2. /\ sent' = sent /\ history' = history /\ dropped' = TRUE
      /\ journal' = [journal EXCEPT !.entries = FoldLeft(KeepUnscoped, <<>>, @)]
  BY DEF ForgetScope
<1> DEFINE es == journal.entries
           kept == FoldLeft(KeepUnscoped, <<>>, es)
           t == [i \in 1..Len(es) |-> IF es[i].scoped THEN FALSE ELSE TRUE]
<1>3. es \in Seq(Entries) /\ journal \in [entries : Seq(Entries), evicted : Nat]
  BY <1>1 DEF TrafficTypes
<1>4. kept = Kept(Paired(es, t), Len(es))
  BY <1>3, UnscopedIsKept DEF Kept
<1> HIDE DEF t, kept
<1>5. kept \in Seq(Entries) /\ PartOf(kept, es)
  BY <1>3, <1>4, KeptIsPart
<1>6. journal' = [entries |-> kept, evicted |-> journal.evicted]
  BY <1>2, <1>3 DEF kept
<1>7. TrafficTypes'
  <2>1. journal' \in [entries : Seq(Entries), evicted : Nat]
    <3>1. journal.evicted \in Nat
      BY <1>3
    <3>. QED  BY <3>1, <1>5, <1>6
  <2>2. sent' \in Seq(Requests) /\ history' \in Seq(Nat) /\ dropped' \in BOOLEAN
    BY <1>1, <1>2 DEF TrafficTypes
  <2>. QED  BY ONLY <2>1, <2>2 DEF TrafficTypes
<1>8. HistoryInv'
  BY <1>1, <1>2 DEF JournalInv, HistoryInv, Finally
<1>9. PICK g \in [DOMAIN kept -> DOMAIN es] :
        /\ \A i \in DOMAIN kept : kept[i] = es[g[i]]
        /\ \A i, j \in DOMAIN kept : i < j => g[i] < g[j]
  BY <1>5 DEF PartOf
<1>10. EntriesInv'
  <2>1. ASSUME NEW i \in DOMAIN kept
        PROVE  Tells(sent, kept[i]) /\ \E a \in DOMAIN history : history[a] = kept[i].id
    <3>1. g[i] \in DOMAIN es /\ kept[i] = es[g[i]]
      BY <1>9
    <3>. QED  BY <1>1, <3>1 DEF JournalInv, EntriesInv
  <2>2. ASSUME NEW i \in DOMAIN kept, NEW j \in DOMAIN kept, NEW a \in DOMAIN history, NEW b \in DOMAIN history,
               i < j, history[a] = kept[i].id, history[b] = kept[j].id
        PROVE  a < b
    <3>1. g[i] \in DOMAIN es /\ kept[i] = es[g[i]] /\ g[j] \in DOMAIN es /\ kept[j] = es[g[j]] /\ g[i] < g[j]
      BY <1>9, <2>2
    <3>2. \A p, q \in DOMAIN es : \A c, d \in DOMAIN history :
            (p < q /\ history[c] = es[p].id /\ history[d] = es[q].id) => c < d
      BY <1>1 DEF JournalInv, EntriesInv
    <3>. QED  BY <2>2, <3>1, <3>2
  <2>3. journal'.entries = kept
    BY <1>6
  <2>. QED  BY <1>2, <2>1, <2>2, <2>3 DEF EntriesInv, Tells
<1>11. CompleteInv'
  BY <1>2 DEF CompleteInv
<1>12. Preserved
  BY <1>2 DEF Preserved, Finally
<1>. QED  BY <1>2, <1>7, <1>8, <1>10, <1>11, <1>12 DEF TrafficStep, JournalInv

-----------------------------------------------------------------------------
(* Evidence stays what it was                                                *)

\* What has happened to requests that were journaled has happened for good, and
\* what has not has not.
LEMMA HappenedStays ==
  ASSUME Preserved, NEW md, NEW M, NEW ms \in Seq(M), NEW ids, NEW gaps,
         \A a \in DOMAIN ids : Finally(sent, ids[a])
  PROVE  HappenedIn(sent', md, ms, ids, gaps) <=> HappenedIn(sent, md, ms, ids, gaps)
<1>1. \A a \in DOMAIN ids : /\ sent'[ids[a]].path = sent[ids[a]].path
                            /\ sent'[ids[a]].header = sent[ids[a]].header
                            /\ AtIn(md, sent'[ids[a]]) = AtIn(md, sent[ids[a]])
  BY DEF Preserved, Finally, AtIn
<1> DEFINE Right(s, f) ==
             \A i \in DOMAIN ms :
               /\ s[ids[f[i]]].path = ms[i].path
               /\ ms[i].header => s[ids[f[i]]].header
               /\ i > 1 => /\ f[i - 1] < f[i]
                           /\ gaps => ~GapViolated(ms[i], AtIn(md, s[ids[f[i]]]), AtIn(md, s[ids[f[i - 1]]]))
<1>2. ASSUME NEW f \in [DOMAIN ms -> DOMAIN ids] PROVE Right(sent', f) <=> Right(sent, f)
  <2>1. \A i \in DOMAIN ms : f[i] \in DOMAIN ids /\ (i > 1 => f[i - 1] \in DOMAIN ids)
    <3>1. DOMAIN ms = 1..Len(ms) /\ Len(ms) \in Nat
      OBVIOUS
    <3>2. \A i \in DOMAIN ms : i > 1 => i - 1 \in DOMAIN ms
      BY <3>1
    <3>. QED  BY <3>2
  <2>2. ASSUME NEW i \in DOMAIN ms
        PROVE  /\ sent'[ids[f[i]]].path = sent[ids[f[i]]].path
               /\ sent'[ids[f[i]]].header = sent[ids[f[i]]].header
               /\ AtIn(md, sent'[ids[f[i]]]) = AtIn(md, sent[ids[f[i]]])
               /\ i > 1 => AtIn(md, sent'[ids[f[i - 1]]]) = AtIn(md, sent[ids[f[i - 1]]])
    BY <1>1, <2>1
  <2>. QED  BY <2>2
<1>3. \A s : HappenedIn(s, md, ms, ids, gaps) <=> \E f \in [DOMAIN ms -> DOMAIN ids] : Right(s, f)
  BY DEF HappenedIn
<1> HIDE DEF Right
<1>. QED  BY <1>2, <1>3

LEMMA EvidenceStays ==
  ASSUME Preserved, dropped => dropped', NEW md, NEW M, NEW step, step.matchers \in Seq(M), NEW out, NEW read,
         CountsRight(dropped, step, out, read), SequenceRight(sent, md, step, out, read)
  PROVE  CountsRight(dropped', step, out, read) /\ SequenceRight(sent', md, step, out, read)
<1>1. CountsRight(dropped', step, out, read)
  BY DEF CountsRight
<1>2. Journaled(sent, read) => Journaled(sent', read)
  BY DEF Journaled, Preserved, Finally
<1>3. ASSUME Journaled(sent, read), NEW gaps
      PROVE  HappenedIn(sent', md, step.matchers, read.ids, gaps) <=>
               HappenedIn(sent, md, step.matchers, read.ids, gaps)
  BY <1>3, HappenedStays DEF Journaled
<1>4. SequenceRight(sent', md, step, out, read)
  BY <1>2, <1>3 DEF SequenceRight
<1>. QED  BY <1>1, <1>4

-----------------------------------------------------------------------------
(* What RunWith makes of an outcome                                          *)

LEMMA MenuFacts ==
  ASSUME DefinitionInv, NEW i \in 1 .. Len(steps)
  PROVE  /\ Len(steps) \in Nat /\ DOMAIN steps = 1 .. Len(steps)
         /\ steps[i].captures \subseteq Variable /\ steps[i].ms \in Nat
         /\ steps[i].asserts \in Seq(Range(steps[i].asserts))
         /\ \A a \in Range(steps[i].asserts) : a.n \in Int
         /\ steps[i].matchers \in Seq(Range(steps[i].matchers))
         /\ steps[i].path \in Paths
<1>1. mode \in Modes /\ steps \in Seq(Menu[mode]) /\ steps[i] \in Menu[mode]
  BY DEF DefinitionInv
<1>2. steps[i].path \in {step.path : step \in Menu[mode]}
  BY <1>1
<1>3. steps[i].path \in Paths
  BY <1>1, <1>2 DEF Paths
<1>. QED  BY <1>1, <1>3, StepAssumption

\* An outcome that a step may settle with, before the requests it sends.
Due(out, end, read) ==
  /\ pc <= Len(steps)
  /\ out \in Outs /\ out.status # "SKIPPED" /\ end \in Nat /\ read \in Reads
  /\ Sound(steps[pc], out)
  /\ out.why = "unresolved" => ~Resolved(steps[pc])
  /\ CountsRight(dropped, steps[pc], out, read)
  /\ SequenceRight(sent, mode, steps[pc], out, read)

\* What a step that ends at end does to the engine's clock.
ClockRight(out, end) ==
  (/\ mode = "check" /\ time = clock + lag
   /\ ~(steps[pc].type = "EXPECT_WEBHOOK" /\ out.why = "capture")) => end = clock' + lag'

Settled == \E out, end, read : Due(out, end, read) /\ Settle(out, end, read) /\ ClockRight(out, end)

SkippedResult(end) == [out |-> Skipped, end |-> end, read |-> None]

LEMMA SkippedFacts ==
  /\ Skipped \in Outs /\ Skipped.status = "SKIPPED" /\ Skipped.captured = {}
  /\ Skipped.why = None /\ None \notin Reasons
  /\ \A step : ~Hard(step, Skipped)
BY StepAssumption DEF Skipped, Outcome, Outs, Hard, Fails

LEMMA SettleShape ==
  ASSUME DefinitionInv, RunnerTypes, UNCHANGED definition, NEW out, NEW end, NEW read,
         Due(out, end, read), Settle(out, end, read)
  PROVE  /\ steps' = steps /\ mode' = mode /\ inputs' = inputs
         /\ RunnerTypes'
         /\ pc' = IF Hard(steps[pc], out) THEN Len(steps) + 1 ELSE pc + 1
         /\ DOMAIN results = 1 .. pc - 1 /\ DOMAIN results' = 1 .. pc' - 1
         /\ pc \in 1 .. pc' - 1
         /\ \A i \in 1 .. pc - 1 : i \in 1 .. pc' - 1 /\ results'[i] = results[i]
         /\ results'[pc] = [out |-> out, end |-> end, read |-> read]
         /\ \A i \in 1 .. pc' - 1 : i < pc \/ i = pc \/ i > pc
         /\ \A i \in 1 .. pc' - 1 : i > pc => results'[i] = SkippedResult(end)
         /\ captures' = captures \cup out.captured /\ time' = end /\ counted' = None
         /\ evaluated' = evaluated + Counted(steps[pc], out)
<1> DEFINE n == Len(steps)
           step == steps[pc]
           new == [out |-> out, end |-> end, read |-> read]
           rest == [i \in 1 .. n - pc |-> SkippedResult(end)]
           hard == Hard(step, out)
<1>1. /\ n \in Nat /\ pc \in Nat /\ pc >= 1 /\ pc <= n
      /\ results \in Seq(Results) /\ Len(results) = pc - 1 /\ evaluated \in Nat
      /\ captures \subseteq Variable
  BY DEF RunnerTypes, DefinitionInv, Due
<1>2. /\ out \in Outs /\ end \in Nat /\ read \in Reads /\ Counted(step, out) \in Nat
  BY DEF Due, Sound
<1>3. /\ results' = results \o <<new>> \o (IF hard THEN rest ELSE <<>>)
      /\ pc' = IF hard THEN n + 1 ELSE pc + 1
      /\ captures' = captures \cup out.captured
      /\ evaluated' = evaluated + Counted(step, out)
      /\ time' = end /\ counted' = None
  BY DEF Settle, SkippedResult
<1>4. steps' = steps /\ mode' = mode /\ inputs' = inputs
  BY DEF definition
<1>5. new \in Results
  BY <1>2 DEF Results
<1>6. SkippedResult(end) \in Results
  BY <1>2, SkippedFacts DEF Results, SkippedResult, Reads
<1>7. rest \in Seq(Results) /\ Len(rest) = n - pc /\ \A i \in 1 .. n - pc : rest[i] = SkippedResult(end)
  <2>1. n - pc \in Nat
    BY <1>1
  <2>2. rest \in [1 .. n - pc -> Results]
    BY <1>6
  <2> HIDE DEF n
  <2>. QED  BY <1>6, <2>1, <2>2
<1>8. out.captured \subseteq Variable
  BY <1>2 DEF Outs
<1>a. Len(steps') = n
  BY <1>4
<1> HIDE DEF n, step, new, rest, hard
<1>b. time' \in Nat /\ captures' \subseteq Variable /\ counted' = None
  BY <1>1, <1>2, <1>3, <1>8
<1>c. evaluated' \in Nat
  BY <1>1, <1>2, <1>3
<1>d. ASSUME pc' \in Nat, pc' >= 1, pc' <= n + 1, results' \in Seq(Results), Len(results') = pc' - 1
      PROVE  RunnerTypes'
  BY <1>a, <1>b, <1>c, <1>d DEF RunnerTypes
<1>9. CASE hard
  <2>1. results' = results \o <<new>> \o rest /\ pc' = n + 1
    BY <1>3, <1>9
  <2>2. results' \in Seq(Results) /\ Len(results') = n
    <3>1. results \o <<new>> \in Seq(Results) /\ Len(results \o <<new>>) = pc
      BY <1>1, <1>5
    <3>2. results \o <<new>> \o rest \in Seq(Results) /\ Len(results \o <<new>> \o rest) = pc + (n - pc)
      BY <1>7, <3>1
    <3>. QED  BY <1>1, <2>1, <3>2
  <2>3. \A i \in 1 .. pc - 1 : results'[i] = results[i]
    <3>1. results \o <<new>> \in Seq(Results) /\ Len(results \o <<new>>) = pc
      BY <1>1, <1>5
    <3>2. \A i \in 1 .. pc - 1 : (results \o <<new>>)[i] = results[i]
      BY <1>1, <1>5
    <3>3. \A i \in 1 .. pc : results'[i] = (results \o <<new>>)[i]
      BY <1>1, <1>7, <2>1, <3>1
    <3>. QED  BY <1>1, <3>2, <3>3
  <2>4. results'[pc] = new /\ \A i \in 1 .. n : i > pc => results'[i] = rest[i - pc]
    <3>1. results \o <<new>> \in Seq(Results) /\ Len(results \o <<new>>) = pc
      BY <1>1, <1>5
    <3>2. (results \o <<new>>)[pc] = new
      BY <1>1, <1>5
    <3>3. \A i \in 1 .. pc : results'[i] = (results \o <<new>>)[i]
      BY <1>1, <1>7, <2>1, <3>1
    <3>4. \A i \in 1 .. n : i > pc => results'[i] = rest[i - pc]
      BY <1>1, <1>7, <2>1, <3>1
    <3>. QED  BY <1>1, <3>2, <3>3, <3>4
  <2>5. \A i \in 1 .. n : i > pc => i - pc \in 1 .. n - pc
    BY <1>1
  <2>6. pc' - 1 = n /\ DOMAIN results' = 1 .. n
    BY <1>1, <2>1, <2>2
  <2>7. RunnerTypes'
    <3>1. pc' \in Nat /\ pc' >= 1 /\ pc' <= n + 1 /\ results' \in Seq(Results) /\ Len(results') = pc' - 1
      BY <1>1, <2>1, <2>2
    <3>. QED  BY <1>d, <3>1
  <2>8. pc \in 1 .. n /\ \A i \in 1 .. pc - 1 : i \in 1 .. n
    BY <1>1
  <2>9. \A i \in 1 .. n : i < pc \/ i = pc \/ i > pc
    BY <1>1
  <2>10. \A i \in 1 .. n : i > pc => results'[i] = SkippedResult(end)
    BY <1>7, <2>4, <2>5
  <2>11. DOMAIN results = 1 .. pc - 1
    BY <1>1
  <2>. QED  BY <1>3, <1>4, <2>3, <2>4, <2>6, <2>7, <2>8, <2>9, <2>10, <2>11 DEF new, n, step, hard
<1>10. CASE ~hard
  <2>1. results' = results \o <<new>> \o <<>> /\ pc' = pc + 1
    BY <1>3, <1>10
  <2>2. results \o <<new>> \in Seq(Results) /\ Len(results \o <<new>>) = pc
    BY <1>1, <1>5
  <2>3. results' = results \o <<new>>
    BY <2>1, <2>2
  <2>4. /\ results' \in Seq(Results) /\ Len(results') = pc
        /\ \A i \in 1 .. pc - 1 : results'[i] = results[i]
        /\ results'[pc] = new
    BY <1>1, <1>5, <2>2, <2>3
  <2>5. pc' - 1 = pc /\ DOMAIN results' = 1 .. pc /\ DOMAIN results = 1 .. pc - 1
    BY <1>1, <2>1, <2>4
  <2>6. RunnerTypes'
    <3>1. pc' \in Nat /\ pc' >= 1 /\ pc' <= n + 1 /\ results' \in Seq(Results) /\ Len(results') = pc' - 1
      BY <1>1, <2>1, <2>4
    <3>. QED  BY <1>d, <3>1
  <2>7. pc \in 1 .. pc /\ \A i \in 1 .. pc - 1 : i \in 1 .. pc
    BY <1>1
  <2>8. \A i \in 1 .. pc : (i < pc \/ i = pc \/ i > pc) /\ ~(i > pc)
    BY <1>1
  <2>. QED  BY <1>3, <1>4, <1>10, <2>1, <2>4, <2>5, <2>6, <2>7, <2>8 DEF new, n, step, hard
<1>. QED  BY <1>9, <1>10

LEMMA SettleVerdict ==
  ASSUME IInv, UNCHANGED definition, NEW out, NEW end, NEW read,
         Due(out, end, read), Settle(out, end, read)
  PROVE  VerdictInv'
<1> DEFINE step == steps[pc]
           old(i) == steps[i]
<1>1. DefinitionInv /\ RunnerTypes /\ VerdictInv
  BY DEF IInv, TypeOK
<1>2. /\ steps' = steps /\ RunnerTypes'
      /\ pc' = IF Hard(step, out) THEN Len(steps) + 1 ELSE pc + 1
      /\ DOMAIN results = 1 .. pc - 1 /\ DOMAIN results' = 1 .. pc' - 1
      /\ pc \in 1 .. pc' - 1
      /\ \A i \in 1 .. pc - 1 : i \in 1 .. pc' - 1 /\ results'[i] = results[i]
      /\ results'[pc] = [out |-> out, end |-> end, read |-> read]
      /\ \A i \in 1 .. pc' - 1 : i < pc \/ i = pc \/ i > pc
      /\ \A i \in 1 .. pc' - 1 : i > pc => results'[i] = SkippedResult(end)
      /\ evaluated' = evaluated + Counted(step, out)
  BY <1>1, SettleShape
<1>3. pc \in Nat /\ pc <= Len(steps) /\ Len(steps) \in Nat /\ evaluated \in Nat
  BY <1>1 DEF RunnerTypes, DefinitionInv, Due
<1>4. Sound(step, out) /\ Counted(step, out) \in Nat /\ out.status # "SKIPPED"
  BY DEF Due, Sound
<1>5. \A i \in 1 .. pc - 1 : ~Hard(steps[i], results[i].out)
  BY <1>1, <1>2, <1>3 DEF VerdictInv
<1>6. \A i \in 1 .. pc - 1 : results[i].out.status # "SKIPPED" /\ Sound(steps[i], results[i].out)
  <2> SUFFICES ASSUME NEW i \in 1 .. pc - 1
               PROVE  results[i].out.status # "SKIPPED" /\ Sound(steps[i], results[i].out)
    OBVIOUS
  <2>1. \A j \in 1 .. i - 1 : j \in 1 .. pc - 1
    BY <1>3
  <2>2. Executed(i)
    BY <1>1, <1>2, <1>5, <2>1 DEF VerdictInv
  <2>. QED  BY <1>1, <1>2, <2>2 DEF VerdictInv, Executed
<1>7. results'[pc].out = out
  BY <1>2
<1>8. \A i \in 1 .. pc' - 1 : i > pc =>
        /\ results'[i].out = Skipped /\ results'[i].out.status = "SKIPPED" /\ Hard(step, out)
        /\ ~Hard(steps[i], results'[i].out)
  <2> SUFFICES ASSUME NEW i \in 1 .. pc' - 1, i > pc
               PROVE  /\ results'[i].out = Skipped /\ results'[i].out.status = "SKIPPED" /\ Hard(step, out)
                      /\ ~Hard(steps[i], results'[i].out)
    OBVIOUS
  <2>1. results'[i].out = Skipped
    BY <1>2 DEF SkippedResult
  <2>2. pc' # pc + 1
    BY <1>3
  <2>. QED  BY <1>2, <2>1, <2>2, SkippedFacts
<1> HIDE DEF step
<1>9. \A i \in 1 .. pc' - 1 : i <= pc => results'[i].out.status # "SKIPPED" /\ Sound(steps[i], results'[i].out)
  <2> SUFFICES ASSUME NEW i \in 1 .. pc' - 1, i <= pc
               PROVE  results'[i].out.status # "SKIPPED" /\ Sound(steps[i], results'[i].out)
    OBVIOUS
  <2>1. i \in 1 .. pc - 1 \/ i = pc
    BY <1>3
  <2>. QED  BY <1>2, <1>4, <1>6, <1>7, <2>1 DEF step
<1>10. ASSUME pc' <= Len(steps'), NEW i \in 1 .. pc' - 1 PROVE ~Hard(steps[i], results'[i].out)
  <2>1. ~Hard(step, out) /\ pc' = pc + 1
    BY <1>2, <1>3, <1>10
  <2>2. i \in 1 .. pc - 1 \/ i = pc
    BY <1>3, <2>1
  <2>. QED  BY <1>2, <1>5, <1>7, <2>1, <2>2 DEF step
<1>11. ASSUME NEW i \in 1 .. pc' - 1
       PROVE  results'[i].out.status = "SKIPPED" <=> \E j \in 1 .. i - 1 : Hard(steps[j], results'[j].out)
  <2>1. CASE i > pc
    <3>1. pc \in 1 .. i - 1 /\ Hard(steps[pc], results'[pc].out)
      BY <1>2, <1>3, <1>7, <1>8, <2>1 DEF step
    <3>. QED  BY <1>8, <2>1, <3>1
  <2>2. CASE ~(i > pc)
    <3>1. i <= pc /\ \A j \in 1 .. i - 1 : j \in 1 .. pc - 1
      BY <1>2, <1>3, <2>2
    <3>2. \A j \in 1 .. i - 1 : ~Hard(steps[j], results'[j].out)
      BY <1>2, <1>5, <3>1
    <3>. QED  BY <1>9, <3>1, <3>2
  <2>. QED  BY <2>1, <2>2
<1>12. evaluated' > 0 <=>
         \E i \in 1 .. pc' - 1 : results'[i].out.status # "SKIPPED" /\ Counted(steps[i], results'[i].out) > 0
  <2>1. evaluated > 0 <=>
          \E i \in 1 .. pc - 1 : results[i].out.status # "SKIPPED" /\ Counted(steps[i], results[i].out) > 0
    BY <1>1, <1>2 DEF VerdictInv, Executed
  <2>2. evaluated' > 0 <=> evaluated > 0 \/ Counted(step, out) > 0
    <3>1. evaluated' = evaluated + Counted(step, out)
      BY <1>2
    <3>. QED  BY <1>3, <1>4, <3>1
  <2>3. ASSUME NEW i \in 1 .. pc' - 1, results'[i].out.status # "SKIPPED", Counted(steps[i], results'[i].out) > 0
        PROVE  evaluated' > 0
    <3>1. ~(i > pc)
      BY <1>8, <2>3
    <3>2. i \in 1 .. pc - 1 \/ i = pc
      BY <1>2, <1>3, <3>1
    <3>. QED  BY <1>2, <1>7, <2>1, <2>2, <2>3, <3>2 DEF step
  <2>4. ASSUME evaluated > 0
        PROVE  \E i \in 1 .. pc' - 1 : results'[i].out.status # "SKIPPED" /\ Counted(steps[i], results'[i].out) > 0
    BY <1>2, <2>1, <2>4
  <2>5. ASSUME Counted(step, out) > 0
        PROVE  \E i \in 1 .. pc' - 1 : results'[i].out.status # "SKIPPED" /\ Counted(steps[i], results'[i].out) > 0
    BY <1>2, <1>4, <1>7, <2>5 DEF step
  <2>. QED  BY <2>2, <2>3, <2>4, <2>5
<1>13. \A i \in 1 .. pc' - 1 : results'[i].out.status # "SKIPPED" => Sound(steps[i], results'[i].out)
  BY <1>3, <1>8, <1>9, <1>2
<1>. QED  BY <1>2, <1>10, <1>11, <1>12, <1>13 DEF VerdictInv, Executed

\* The results of a step that settles, and all that was true before.
LEMMA SettleInv ==
  ASSUME IInv, UNCHANGED definition, TrafficStep, EngineTypes', Settled
  PROVE  IInv'
<1>1. PICK out, end, read : Due(out, end, read) /\ Settle(out, end, read) /\ ClockRight(out, end)
  BY DEF Settled
<1>2. /\ DefinitionInv /\ RunnerTypes /\ EvidenceInv /\ CaptureInv /\ VerdictInv
      /\ ClocksDifferByTimeouts /\ ValidatedResolves
  BY DEF IInv, TypeOK
<1>3. /\ steps' = steps /\ mode' = mode /\ inputs' = inputs
      /\ RunnerTypes'
      /\ DOMAIN results = 1 .. pc - 1 /\ DOMAIN results' = 1 .. pc' - 1
      /\ pc \in 1 .. pc' - 1
      /\ \A i \in 1 .. pc - 1 : i \in 1 .. pc' - 1 /\ results'[i] = results[i]
      /\ results'[pc] = [out |-> out, end |-> end, read |-> read]
      /\ \A i \in 1 .. pc' - 1 : i < pc \/ i = pc \/ i > pc
      /\ \A i \in 1 .. pc' - 1 : i > pc => results'[i] = SkippedResult(end)
      /\ captures' = captures \cup out.captured /\ time' = end /\ counted' = None
  BY <1>1, <1>2, SettleShape
<1>4. /\ results'[pc].out = out /\ results'[pc].read = read
      /\ \A i \in 1 .. pc' - 1 : i < pc => i \in 1 .. pc - 1
      /\ \A i \in 1 .. pc' - 1 : i > pc => results'[i].out = Skipped
      /\ pc \in Nat /\ pc \in 1 .. Len(steps) /\ Len(steps) \in Nat
  <2>1. pc \in Nat /\ pc >= 1 /\ pc <= Len(steps) /\ Len(steps) \in Nat
    BY <1>1, <1>2 DEF Due, RunnerTypes, DefinitionInv
  <2>2. \A i \in 1 .. pc' - 1 : i < pc => i \in 1 .. pc - 1
    BY <2>1
  <2>3. \A i \in 1 .. pc' - 1 : i > pc => results'[i].out = Skipped
    BY <1>3 DEF SkippedResult
  <2>. QED  BY <1>3, <2>1, <2>2, <2>3
<1>5. DefinitionInv'
  BY <1>2, <1>3 DEF DefinitionInv, Valid, References, CapturedBefore
<1>6. CountedInv'
  BY <1>3 DEF CountedInv
<1>7. VerdictInv'
  BY <1>1, SettleVerdict
<1>8. EvidenceInv'
  <2>1. Preserved /\ (dropped => dropped')
    BY DEF TrafficStep
  <2>2. ASSUME NEW i \in 1 .. pc' - 1
        PROVE  /\ CountsRight(dropped', steps[i], results'[i].out, results'[i].read)
               /\ SequenceRight(sent', mode, steps[i], results'[i].out, results'[i].read)
    <3>1. CASE i < pc
      <4> DEFINE o == results[i].out
                 r == results[i].read
                 s == steps[i]
      <4>1. results'[i] = results[i] /\ i \in DOMAIN results
        BY <1>3, <1>4, <3>1
      <4>2. CountsRight(dropped, s, o, r) /\ SequenceRight(sent, mode, s, o, r)
        BY <1>2, <4>1 DEF EvidenceInv
      <4>3. s.matchers \in Seq(Range(s.matchers))
        <5>1. i \in 1 .. Len(steps)
          BY <1>4, <3>1
        <5>. QED  BY <1>2, <5>1, MenuFacts
      <4> HIDE DEF o, r, s
      <4>4. CountsRight(dropped', s, o, r) /\ SequenceRight(sent', mode, s, o, r)
        BY <2>1, <4>2, <4>3, EvidenceStays
      <4>. QED  BY <4>1, <4>4 DEF o, r, s
    <3>2. CASE i = pc
      <4> DEFINE s == steps[pc]
      <4>2. CountsRight(dropped, s, out, read) /\ SequenceRight(sent, mode, s, out, read)
        BY <1>1 DEF Due
      <4>3. s.matchers \in Seq(Range(s.matchers))
        BY <1>2, <1>4, MenuFacts
      <4> HIDE DEF s
      <4>4. CountsRight(dropped', s, out, read) /\ SequenceRight(sent', mode, s, out, read)
        BY <2>1, <4>2, <4>3, EvidenceStays
      <4>. QED  BY <1>4, <3>2, <4>4 DEF s
    <3>3. CASE i > pc
      <4>1. results'[i].out.status = "SKIPPED" /\ results'[i].out.why # "never"
        BY <1>4, <3>3, SkippedFacts DEF Reasons
      <4>. QED  BY <4>1 DEF CountsRight, SequenceRight
    <3>. QED  BY <1>3, <3>1, <3>2, <3>3
  <2>3. \A i \in DOMAIN results' :
          /\ CountsRight(dropped', steps'[i], results'[i].out, results'[i].read)
          /\ SequenceRight(sent', mode', steps'[i], results'[i].out, results'[i].read)
    BY <1>3, <2>2
  <2>. QED  BY ONLY <2>3 DEF EvidenceInv, CountsRight, SequenceRight, Journaled, Finally, HappenedIn, AtIn, GapViolated
<1>9. CaptureInv'
  <2>1. ASSUME NEW i \in 1 .. pc' - 1 PROVE results'[i].out.captured \subseteq captures'
    <3>1. CASE i < pc
      BY <1>2, <1>3, <1>4, <3>1 DEF CaptureInv
    <3>2. CASE i = pc
      BY <1>3, <1>4, <3>2
    <3>3. CASE i > pc
      BY <1>4, <3>3, SkippedFacts
    <3>. QED  BY <1>3, <3>1, <3>2, <3>3
  <2>. QED  BY <1>3, <2>1 DEF CaptureInv
<1>10. ClocksDifferByTimeouts'
  <2> SUFFICES ASSUME mode' = "check", ~(Ahead') PROVE time' = clock' + lag'
    BY DEF ClocksDifferByTimeouts
  <2>1. ~(steps[pc].type = "EXPECT_WEBHOOK" /\ out.why = "capture")
    BY <1>3, <1>4 DEF Ahead
  <2>2. ~Ahead
    BY <1>3 DEF Ahead
  <2>3. time = clock + lag
    BY <1>2, <1>3, <2>2 DEF ClocksDifferByTimeouts
  <2>. QED  BY <1>1, <1>3, <2>1, <2>3 DEF ClockRight
<1>11. ValidatedResolves'
  <2> DEFINE Explained(i, v) == \/ v \in inputs.declared
                                \/ \E j \in 1 .. i - 1 : v \in steps[j].captures /\ v \notin results'[j].out.captured
  <2>1. ASSUME NEW i \in 1 .. pc' - 1, results'[i].out.why = "unresolved", mode = "check",
               steps[i].type \notin Unexamined
        PROVE  \E v \in steps[i].uses \ inputs.provided : Explained(i, v)
    <3>1. CASE i < pc
      <4>1. i \in 1 .. pc - 1 /\ results'[i] = results[i]
        BY <1>3, <1>4, <3>1
      <4>2. PICK v \in steps[i].uses \ inputs.provided :
              \/ v \in inputs.declared
              \/ \E j \in 1 .. i - 1 : v \in steps[j].captures /\ v \notin results[j].out.captured
        BY <1>2, <1>3, <2>1, <4>1 DEF ValidatedResolves
      <4>3. \A j \in 1 .. i - 1 : j \in 1 .. pc - 1
        BY <1>4, <3>1
      <4>. QED  BY <1>3, <4>2, <4>3
    <3>2. CASE i = pc
      <4>1. ~Resolved(steps[pc])
        BY <1>1, <1>4, <2>1, <3>2 DEF Due
      <4>2. PICK v \in steps[pc].uses : v \notin inputs.provided /\ v \notin captures
        BY <4>1 DEF Resolved
      <4>3. References(steps[pc]) \subseteq inputs.declared \cup CapturedBefore(steps, pc)
        BY <1>2, <1>4, <2>1, MenuFacts DEF DefinitionInv, Valid
      <4>4. v \in inputs.declared \/ \E j \in 1 .. pc - 1 : v \in steps[j].captures
        BY <2>1, <3>2, <4>2, <4>3 DEF References, CapturedBefore
      <4>5. \A j \in 1 .. pc - 1 : v \notin results'[j].out.captured
        BY <1>2, <1>3, <4>2 DEF CaptureInv
      <4>6. Explained(pc, v)
        BY <4>4, <4>5
      <4> HIDE DEF Explained
      <4>. QED  BY <3>2, <4>2, <4>6
    <3>3. CASE i > pc
      BY <1>4, <2>1, <3>3, SkippedFacts DEF Reasons
    <3>. QED  BY <1>3, <3>1, <3>2, <3>3
  <2>. QED  BY <1>3, <2>1 DEF ValidatedResolves
<1>12. TypeOK' /\ JournalInv'
  BY <1>3, <1>5 DEF TypeOK, TrafficStep
<1>. QED  BY <1>6, <1>7, <1>8, <1>9, <1>10, <1>11, <1>12 DEF IInv

-----------------------------------------------------------------------------
(* The outcomes of the steps                                                 *)

LEMMA StateFacts ==
  ASSUME IInv
  PROVE  /\ DefinitionInv /\ EngineTypes /\ TrafficTypes /\ RunnerTypes
         /\ HistoryInv /\ EntriesInv /\ CompleteInv /\ CountedInv
         /\ time \in Nat /\ clock \in Nat /\ lag \in Nat
BY DEF IInv, TypeOK, JournalInv, EngineTypes, RunnerTypes

\* A step that could not be executed has compared nothing and counts nothing.
LEMMA ErroredDue ==
  ASSUME DefinitionInv, RunnerTypes, pc <= Len(steps), NEW why \in Reasons, why # "never",
         why = "unresolved" => ~Resolved(steps[pc])
  PROVE  Due(Errored(steps[pc], why), time, None)
<1> DEFINE step == steps[pc]
           n == Len(step.asserts)
           out == Errored(step, why)
<1>1. pc \in 1 .. Len(steps) /\ time \in Nat
  BY DEF RunnerTypes, DefinitionInv
<1>2. n \in Nat
  BY <1>1, MenuFacts
<1> HIDE DEF step, n
<1>3. out = [status |-> "ERRORED", why |-> why, captured |-> {}, none |-> n, checks |-> 0]
  BY DEF Errored, Outcome, n
<1> HIDE DEF out
<1>4. out \in Outs /\ out.status = "ERRORED" /\ out.why = why /\ None \in Reads
  BY <1>2, <1>3 DEF Outs, Reads
<1>5. Counted(step, out) = 0 /\ Compared(step, out) = 0
  BY <1>2, <1>3 DEF Counted, Compared, n
<1>6. Sound(step, out)
  BY <1>5 DEF Sound
<1>7. CountsRight(dropped, step, out, None) /\ SequenceRight(sent, mode, step, out, None)
  BY <1>4 DEF CountsRight, SequenceRight
<1>8. Due(out, time, None)
  BY <1>1, <1>4, <1>6, <1>7 DEF Due, step
<1>. QED  BY <1>8 DEF out, step

\* A step that failed closed counts its assertions: it may fail, or it ends the run.
LEMMA FailClosedDue ==
  ASSUME DefinitionInv, RunnerTypes, pc <= Len(steps), NEW why \in Reasons, why # "unresolved",
         NEW read \in Reads, SequenceRight(sent, mode, steps[pc], FailClosed(why), read)
  PROVE  Due(FailClosed(why), time, read)
<1> DEFINE step == steps[pc]
           n == Len(step.asserts)
           out == FailClosed(why)
<1>1. pc \in 1 .. Len(steps) /\ time \in Nat
  BY DEF RunnerTypes, DefinitionInv
<1>2. n \in Nat
  BY <1>1, MenuFacts
<1>3. SequenceRight(sent, mode, step, out, read)
  OBVIOUS
<1> HIDE DEF step, n
<1>4. out = [status |-> "FAILED", why |-> why, captured |-> {}, none |-> 0, checks |-> 0]
  BY DEF FailClosed, Outcome
<1> HIDE DEF out
<1>5. out \in Outs /\ out.status = "FAILED" /\ out.why = why /\ None # why
  BY <1>4, NoneIsNoReason DEF Outs, Outcomes
<1>6. Counted(step, out) = n /\ Compared(step, out) = 0
  BY <1>2, <1>4, <1>5 DEF Counted, Compared, n
<1>7. Credited(step, out) \/ Hard(step, out)
  BY <1>5 DEF Credited, Hard, Fails
<1>8. Sound(step, out)
  BY <1>2, <1>6, <1>7 DEF Sound
<1>9. CountsRight(dropped, step, out, read)
  BY <1>5 DEF CountsRight
<1>10. Due(out, time, read)
  BY <1>1, <1>3, <1>5, <1>8, <1>9 DEF Due, step
<1>. QED  BY <1>10 DEF out

\* A step that never looks at its assertions is credited with them.
LEMMA UnreadDue ==
  ASSUME DefinitionInv, RunnerTypes, pc <= Len(steps), NEW end \in Nat,
         NEW status \in {"PASSED", "NOT_EVALUATED"},
         steps[pc].type \in Unread \ {"VERIFY_SEQUENCE"}
  PROVE  Due(Outcome(status, None, {}, 0, 0), end, None)
<1> DEFINE step == steps[pc]
           n == Len(step.asserts)
           out == Outcome(status, None, {}, 0, 0)
<1>1. pc \in 1 .. Len(steps)
  BY DEF RunnerTypes, DefinitionInv
<1>2. n \in Nat /\ (n > 0 => step.asserts # <<>>)
  BY <1>1, MenuFacts
<1>3. step.type \in Unread /\ step.type # "VERIFY_SEQUENCE" /\ step.type # "VERIFY_REQUESTS"
  BY DEF Unread
<1> HIDE DEF step, n
<1>4. out = [status |-> status, why |-> None, captured |-> {}, none |-> 0, checks |-> 0]
  BY DEF Outcome
<1> HIDE DEF out
<1>5. out \in Outs /\ out.status = status /\ out.why = None /\ None \in Reads
  BY <1>4 DEF Outs, Outcomes, Reads
<1>6. None # "never" /\ None # "unresolved"
  BY NoneIsNoReason DEF Reasons
<1>7. Counted(step, out) = n /\ Compared(step, out) = 0
  BY <1>2, <1>3, <1>4 DEF Counted, Compared, n
<1>8. n > 0 => Credited(step, out)
  BY <1>2, <1>3, <1>5 DEF Credited
<1>9. Sound(step, out)
  BY <1>2, <1>7, <1>8 DEF Sound
<1>10. CountsRight(dropped, step, out, None) /\ SequenceRight(sent, mode, step, out, None)
  BY <1>3, <1>5, <1>6 DEF CountsRight, SequenceRight
<1>11. Due(out, end, None)
  BY <1>1, <1>5, <1>6, <1>9, <1>10 DEF Due, step
<1>. QED  BY <1>11 DEF out

\* How many of n there are.
LEMMA PartCount ==
  ASSUME NEW n \in Nat, NEW N \in SUBSET (1 .. n)
  PROVE  Cardinality(N) \in Nat /\ Cardinality(N) <= n /\ (Cardinality(N) = n <=> N = 1 .. n)
<1>1. IsFiniteSet(1 .. n) /\ Cardinality(1 .. n) = IF 1 > n THEN 0 ELSE n - 1 + 1
  <2>1. 1 \in Int /\ n \in Int
    OBVIOUS
  <2>. QED  BY ONLY <2>1, FS_Interval
<1>2. Cardinality(1 .. n) = n
  BY <1>1
<1>3. IsFiniteSet(N) /\ Cardinality(N) <= Cardinality(1 .. n) /\ (Cardinality(1 .. n) = Cardinality(N) => 1 .. n = N)
  BY <1>1, FS_Subset
<1>4. Cardinality(N) \in Nat
  BY <1>3, FS_CardinalityType
<1>. QED  BY <1>2, <1>3, <1>4

\* Where assertions are evaluated, those without a subject are not counted.
LEMMA JudgedDue ==
  ASSUME DefinitionInv, RunnerTypes, pc <= Len(steps), NEW end \in Nat, NEW read \in Reads,
         NEW got \in SUBSET Variable, NEW v \in [DOMAIN steps[pc].asserts -> Outcomes],
         steps[pc].type \notin Unread,
         CountsRight(dropped, steps[pc], Judged(steps[pc], v, got), read)
  PROVE  Due(Judged(steps[pc], v, got), end, read)
<1> DEFINE step == steps[pc]
           n == Len(step.asserts)
           status == StepStatus(step.asserts, v)
           N == {i \in DOMAIN v : v[i] = "NOT_EVALUATED"}
           none == Cardinality(N)
           out == Judged(step, v, got)
<1>1. pc \in 1 .. Len(steps)
  BY DEF RunnerTypes, DefinitionInv
<1>2. n \in Nat /\ DOMAIN step.asserts = 1 .. n
  BY <1>1, MenuFacts
<1>3. step.type \notin Unread /\ CountsRight(dropped, step, out, read)
  OBVIOUS
<1>4. N \subseteq DOMAIN v /\ DOMAIN v = 1 .. n
  BY <1>2
<1>6. none \in Nat /\ none <= n /\ (n = none <=> N = DOMAIN v)
  <2>1. N \in SUBSET (1 .. n)
    BY <1>4
  <2> HIDE DEF N, n
  <2>2. Cardinality(N) \in Nat /\ Cardinality(N) <= n /\ (Cardinality(N) = n <=> N = 1 .. n)
    BY <1>2, <2>1, PartCount
  <2>. QED  BY <1>4, <2>2
<1>7. status \in Outcomes
  BY DEF StepStatus, Outcomes
<1>8. status = "NOT_EVALUATED" => N = DOMAIN v
  <2>1. v \in [DOMAIN step.asserts -> Outcomes]
    OBVIOUS
  <2> HIDE DEF step
  <2>. QED  BY <2>1 DEF StepStatus, Outcomes
<1>9. N = DOMAIN v => none = n
  BY <1>6
<1>a. Unevaluated(v) = none
  BY DEF Unevaluated
<1> HIDE DEF step, n, N, none
<1>10. out = [status |-> status, why |-> None, captured |-> got, none |-> none, checks |-> 0]
  BY <1>a DEF Judged, Outcome
<1> HIDE DEF out, status
<1>11. out \in Outs /\ out.status = status /\ out.why = None /\ status # "SKIPPED"
  BY <1>6, <1>7, <1>10 DEF Outs, Outcomes
<1>12. None # "never" /\ None # "unresolved"
  BY NoneIsNoReason DEF Reasons
<1>13. Counted(step, out) = n - none
  BY <1>2, <1>6, <1>10 DEF Counted, n
<1>14. Compared(step, out) = IF status = "NOT_EVALUATED" THEN 0 ELSE n - none
  BY <1>2, <1>3, <1>6, <1>7, <1>10 DEF Compared, Outcomes, n
<1>15. Sound(step, out)
  BY <1>2, <1>6, <1>8, <1>9, <1>13, <1>14 DEF Sound
<1>16. SequenceRight(sent, mode, step, out, read)
  <2>1. step.type # "VERIFY_SEQUENCE"
    BY <1>3 DEF Unread
  <2>. QED  BY <1>11, <1>12, <2>1 DEF SequenceRight
<1>17. Due(out, end, read)
  BY <1>1, <1>3, <1>11, <1>12, <1>15, <1>16 DEF Due, step
<1>. QED  BY <1>17 DEF out, step

\* A sequence that passed has compared its matchers.
LEMMA SequenceDue ==
  ASSUME DefinitionInv, RunnerTypes, pc <= Len(steps), steps[pc].type = "VERIFY_SEQUENCE",
         NEW read \in Reads, NEW out, out = Outcome("PASSED", None, {}, 0, Len(steps[pc].matchers)),
         SequenceRight(sent, mode, steps[pc], out, read)
  PROVE  Due(out, time, read)
<1> DEFINE step == steps[pc]
           n == Len(step.asserts)
           m == Len(step.matchers)
<1>1. pc \in 1 .. Len(steps) /\ time \in Nat
  BY DEF RunnerTypes, DefinitionInv
<1>2. n \in Nat /\ m \in Nat /\ (n > 0 => step.asserts # <<>>)
  BY <1>1, MenuFacts
<1>3. step.type = "VERIFY_SEQUENCE" /\ step.type \in Unread /\ SequenceRight(sent, mode, step, out, read)
  BY DEF Unread
<1>4. out = [status |-> "PASSED", why |-> None, captured |-> {}, none |-> 0, checks |-> m]
  BY DEF Outcome
<1> HIDE DEF step, n, m
<1>5. out \in Outs /\ out.status = "PASSED" /\ out.why = None
  BY <1>2, <1>4 DEF Outs, Outcomes
<1>6. None # "unresolved"
  BY NoneIsNoReason DEF Reasons
<1>7. Counted(step, out) = n + m /\ Compared(step, out) = m
  BY <1>2, <1>3, <1>4 DEF Counted, Compared, n
<1>8. n > 0 => Credited(step, out)
  BY <1>2, <1>3, <1>5 DEF Credited
<1>9. Sound(step, out)
  BY <1>2, <1>7, <1>8 DEF Sound
<1>10. CountsRight(dropped, step, out, read)
  BY <1>3 DEF CountsRight
<1>. QED  BY <1>1, <1>3, <1>5, <1>6, <1>9, <1>10 DEF Due, step

-----------------------------------------------------------------------------
(* Every step preserves the invariant                                        *)

\* Steps that leave the runner and its engine alone.
LEMMA BackgroundInv ==
  ASSUME IInv, TrafficStep, UNCHANGED <<definition, engine, runner, lag>>,
         now' = now \/ now' = now + 1
  PROVE  IInv'
<1>1. TrafficStep
  OBVIOUS
<1>2. /\ UNCHANGED <<definition, engine, runner, lag>>
      /\ now' = now \/ now' = now + 1
  OBVIOUS
<1>3. /\ mode' = mode /\ steps' = steps /\ inputs' = inputs
      /\ clock' = clock /\ due' = due /\ lag' = lag
      /\ pc' = pc /\ counted' = counted /\ time' = time /\ captures' = captures
      /\ results' = results /\ evaluated' = evaluated
  BY <1>2 DEF definition, engine, runner
<1>4. /\ DefinitionInv /\ EngineTypes /\ RunnerTypes /\ CountedInv /\ EvidenceInv /\ CaptureInv
      /\ VerdictInv /\ ClocksDifferByTimeouts /\ ValidatedResolves
  BY DEF IInv, TypeOK
<1>5. DefinitionInv'
  BY <1>3, <1>4 DEF DefinitionInv, Valid, References, CapturedBefore
<1>6. EngineTypes'
  BY <1>2, <1>3, <1>4 DEF EngineTypes
<1>7. RunnerTypes'
  BY <1>3, <1>4 DEF RunnerTypes
<1>8. CountedInv'
  BY <1>1, <1>3, <1>4 DEF CountedInv, TrafficStep
<1>9. EvidenceInv'
  <2>1. ASSUME NEW i \in DOMAIN results
        PROVE  /\ CountsRight(dropped', steps[i], results[i].out, results[i].read)
               /\ SequenceRight(sent', mode, steps[i], results[i].out, results[i].read)
    <3> DEFINE o == results[i].out
               r == results[i].read
               s == steps[i]
    <3>1. CountsRight(dropped, s, o, r) /\ SequenceRight(sent, mode, s, o, r)
      BY <1>4 DEF EvidenceInv
    <3>2. s.matchers \in Seq(Range(s.matchers))
      <4>1. i \in 1 .. Len(steps)
        BY <1>4 DEF RunnerTypes, DefinitionInv
      <4>. QED  BY <1>4, <4>1, MenuFacts
    <3>3. Preserved /\ (dropped => dropped')
      BY <1>1 DEF TrafficStep
    <3> HIDE DEF o, r, s
    <3>4. CountsRight(dropped', s, o, r) /\ SequenceRight(sent', mode, s, o, r)
      BY <3>1, <3>2, <3>3, EvidenceStays
    <3>. QED  BY <3>4 DEF o, r, s
  <2>2. \A i \in DOMAIN results' :
          /\ CountsRight(dropped', steps'[i], results'[i].out, results'[i].read)
          /\ SequenceRight(sent', mode', steps'[i], results'[i].out, results'[i].read)
    BY <1>3, <2>1
  <2>. QED  BY ONLY <2>2 DEF EvidenceInv, CountsRight, SequenceRight, Journaled, Finally, HappenedIn, AtIn, GapViolated
<1>10. CaptureInv'
  BY <1>3, <1>4 DEF CaptureInv
<1>11. VerdictInv'
  BY <1>3, <1>4 DEF VerdictInv, Hard, Fails, Executed, Sound, Counted, Compared, Credited
<1>12. ClocksDifferByTimeouts'
  BY <1>3, <1>4 DEF ClocksDifferByTimeouts, Ahead
<1>13. ValidatedResolves'
  BY <1>3, <1>4 DEF ValidatedResolves
<1>. QED  BY <1>1, <1>5, <1>6, <1>7, <1>8, <1>9, <1>10, <1>11, <1>12, <1>13
          DEF IInv, TypeOK, TrafficStep

\* The application, the wall clock and the registry of scopes.
LEMMA ApplicationInv ==
  ASSUME IInv, Application
  PROVE  IInv'
<1>1. TrafficStep
  <2>1. ASSUME Tick PROVE UNCHANGED <<traffic, dropped>>
    BY <2>1 DEF Tick
  <2>. QED  BY <2>1, SameTraffic, AppSendTraffic, AppRecordTraffic, AppAnswerTraffic, ForgetScopeTraffic
            DEF Application
<1>2. /\ UNCHANGED <<definition, engine, runner, lag>>
      /\ now' = now \/ now' = now + 1
  <2>1. CASE AppSend
    BY <2>1 DEF AppSend
  <2>2. CASE AppRecord
    BY <2>2 DEF AppRecord
  <2>3. CASE AppAnswer
    BY <2>3 DEF AppAnswer
  <2>4. CASE ForgetScope
    BY <2>4 DEF ForgetScope
  <2>5. CASE Tick
    BY <2>5 DEF Tick
  <2>. QED  BY <2>1, <2>2, <2>3, <2>4, <2>5 DEF Application
<1>. QED  BY <1>1, <1>2, BackgroundInv

\* A step that the engine or nobody answers.
LEMMA AnsweredDue ==
  ASSUME IInv, pc <= Len(steps), steps[pc].type \notin Unread \cup {"VERIFY_REQUESTS"},
         NEW document, NEW end \in Nat, Answered(steps[pc], document, end)
  PROVE  \E out, e, read :
           /\ Due(out, e, read) /\ Settle(out, e, read)
           /\ (e = end /\ out.why # "capture") \/ (e = time /\ out.why = "capture")
<1>1. DefinitionInv /\ RunnerTypes /\ pc \in 1 .. Len(steps)
  BY StateFacts DEF RunnerTypes, DefinitionInv
<1>2. CASE Settle(Errored(steps[pc], "capture"), time, None)
  <2>1. "capture" \in Reasons
    BY DEF Reasons
  <2>2. Due(Errored(steps[pc], "capture"), time, None)
    BY <1>1, <2>1, ErroredDue
  <2>3. Errored(steps[pc], "capture").why = "capture"
    BY DEF Errored, Outcome
  <2>. QED  BY <1>2, <2>2, <2>3
<1>3. CASE \E v \in Verdicts(steps[pc].asserts, 0, FALSE) :
             Settle(Judged(steps[pc], v, IF document THEN steps[pc].captures ELSE {}), end, None)
  <2> DEFINE got == IF document THEN steps[pc].captures ELSE {}
  <2>1. got \in SUBSET Variable
    BY <1>1, MenuFacts
  <2> HIDE DEF got
  <2>3. PICK v \in Verdicts(steps[pc].asserts, 0, FALSE) : Settle(Judged(steps[pc], v, got), end, None)
    BY <1>3 DEF got
  <2>4. v \in [DOMAIN steps[pc].asserts -> Outcomes]
    BY <2>3 DEF Verdicts
  <2>5. None \in Reads
    BY DEF Reads
  <2>6. CountsRight(dropped, steps[pc], Judged(steps[pc], v, got), None)
    BY DEF CountsRight
  <2>7. Due(Judged(steps[pc], v, got), end, None)
    BY <1>1, <2>1, <2>4, <2>5, <2>6, JudgedDue
  <2>8. Judged(steps[pc], v, got).why # "capture"
    BY NoneIsNoReason DEF Judged, Outcome, Reasons
  <2>. QED  BY <2>3, <2>7, <2>8
<1>. QED  BY <1>2, <1>3 DEF Answered

\* Steps that settle and leave the requests and the engine's clock alone.
LEMMA QuietStep ==
  ASSUME IInv, UNCHANGED <<definition, traffic, dropped>>, EngineTypes', Settled
  PROVE  IInv'
BY SameTraffic, SettleInv

LEMMA SameClock ==
  ASSUME clock' = clock, lag' = lag, NEW out
  PROVE  ClockRight(out, time)
BY DEF ClockRight

LEMMA SameEngine ==
  ASSUME IInv, UNCHANGED <<engine, now, lag>>
  PROVE  EngineTypes' /\ clock' = clock /\ lag' = lag
BY StateFacts DEF engine, EngineTypes

LEMMA UnresolvedInv ==
  ASSUME IInv, NEW type, Unresolved(type)
  PROVE  IInv'
<1>1. /\ pc <= Len(steps) /\ ~Resolved(steps[pc])
      /\ Settle(Errored(steps[pc], "unresolved"), time, None)
      /\ UNCHANGED <<definition, traffic, dropped>> /\ UNCHANGED <<engine, now, lag>>
  BY DEF Unresolved, Executing
<1>2. "unresolved" \in Reasons
  BY DEF Reasons
<1>3. Due(Errored(steps[pc], "unresolved"), time, None)
  BY <1>1, <1>2, StateFacts, ErroredDue
<1>4. EngineTypes' /\ clock' = clock /\ lag' = lag
  BY <1>1, SameEngine
<1>5. Settled
  BY <1>1, <1>3, <1>4, SameClock DEF Settled
<1>. QED  BY <1>1, <1>4, <1>5, QuietStep

LEMMA DeliverTypes ==
  ASSUME IInv, Deliver, clock' = clock, now' = now, lag' = lag
  PROVE  EngineTypes'
<1> DEFINE at == clock + (IF slow THEN Delay ELSE 0)
<1>1. EngineTypes /\ Delay \in Nat
  BY StateFacts, ScenarioAssumption
<1>2. at \in Nat
  BY <1>1 DEF EngineTypes
<1>3. due' = due \cup {at}
  BY DEF Deliver
<1> HIDE DEF at
<1>4. IsFiniteSet(due \cup {at})
  BY <1>1, FS_AddElement DEF EngineTypes
<1>. QED  BY <1>1, <1>2, <1>3, <1>4 DEF EngineTypes

LEMMA SendRequestInv ==
  ASSUME IInv, SendRequest
  PROVE  IInv'
<1>1. /\ pc <= Len(steps) /\ steps[pc].type = "REQUEST" /\ Deliver
      /\ Answered(steps[pc], TRUE, time) /\ UNCHANGED definition
      /\ clock' = clock /\ now' = now /\ lag' = lag
  BY DEF SendRequest, Executing
<1>2. steps[pc].type \notin Unread \cup {"VERIFY_REQUESTS"} /\ time \in Nat
  BY <1>1, StateFacts DEF Unread
<1>3. \E out, e, read : Due(out, e, read) /\ Settle(out, e, read) /\ e = time
  BY <1>1, <1>2, AnsweredDue
<1>4. Settled
  BY <1>1, <1>3, SameClock DEF Settled
<1>5. EngineTypes'
  BY <1>1, DeliverTypes
<1>. QED  BY <1>1, <1>4, <1>5, SendRequestTraffic, SettleInv

LEMMA AssertStateInv ==
  ASSUME IInv, AssertState
  PROVE  IInv'
<1>1. /\ pc <= Len(steps) /\ steps[pc].type = "ASSERT_STATE"
      /\ Answered(steps[pc], FALSE, time)
      /\ UNCHANGED <<definition, traffic, dropped>> /\ UNCHANGED <<engine, now, lag>>
  BY DEF AssertState, Executing
<1>2. steps[pc].type \notin Unread \cup {"VERIFY_REQUESTS"} /\ time \in Nat
  BY <1>1, StateFacts DEF Unread
<1>3. \E out, e, read : Due(out, e, read) /\ Settle(out, e, read) /\ e = time
  BY <1>1, <1>2, AnsweredDue
<1>4. EngineTypes' /\ clock' = clock /\ lag' = lag
  BY <1>1, SameEngine
<1>5. Settled
  BY <1>3, <1>4, SameClock DEF Settled
<1>. QED  BY <1>1, <1>4, <1>5, QuietStep

\* Steps of which RunWith only takes the outcome.
LEMMA UnreadInv ==
  ASSUME IInv, NEW status \in {"PASSED", "NOT_EVALUATED"}, pc <= Len(steps),
         steps[pc].type \in Unread \ {"VERIFY_SEQUENCE"},
         Settle(Outcome(status, None, {}, 0, 0), time, None),
         UNCHANGED <<definition, traffic, dropped>>, EngineTypes', clock' = clock, lag' = lag
  PROVE  IInv'
<1>1. Due(Outcome(status, None, {}, 0, 0), time, None)
  BY StateFacts, UnreadDue
<1>2. Settled
  BY <1>1, SameClock DEF Settled
<1>. QED  BY <1>2, QuietStep

LEMMA InjectFaultInv ==
  ASSUME IInv, InjectFault
  PROVE  IInv'
<1>1. /\ pc <= Len(steps) /\ steps[pc].type = "INJECT_FAULT" /\ Settle(Quiet, time, None)
      /\ UNCHANGED <<definition, traffic, dropped>> /\ UNCHANGED <<clock, due, now, lag>>
  BY DEF InjectFault, Executing
<1>2. EngineTypes'
  BY <1>1, StateFacts DEF EngineTypes
<1>. QED  BY <1>1, <1>2, UnreadInv DEF Quiet, Unread

LEMMA ClearFaultInv ==
  ASSUME IInv, ClearFault
  PROVE  IInv'
<1>1. /\ pc <= Len(steps) /\ steps[pc].type = "CLEAR_FAULT" /\ Settle(Quiet, time, None)
      /\ UNCHANGED <<definition, traffic, dropped>> /\ UNCHANGED <<clock, due, now, lag>>
  BY DEF ClearFault, Executing
<1>2. EngineTypes'
  BY <1>1, StateFacts DEF EngineTypes
<1>. QED  BY <1>1, <1>2, UnreadInv DEF Quiet, Unread

LEMMA NoteInv ==
  ASSUME IInv, Note
  PROVE  IInv'
<1>1. /\ pc <= Len(steps) /\ steps[pc].type = "NOTE"
      /\ Settle(Outcome("PASSED", None, {}, 0, 0), time, None)
      /\ UNCHANGED <<definition, traffic, dropped>> /\ UNCHANGED <<engine, now, lag>>
  BY DEF Note, Executing
<1>2. EngineTypes' /\ clock' = clock /\ lag' = lag
  BY <1>1, SameEngine
<1>. QED  BY <1>1, <1>2, UnreadInv DEF Unread

LEMMA EmitWebhookInv ==
  ASSUME IInv, EmitWebhook
  PROVE  IInv'
<1>1. /\ pc <= Len(steps) /\ steps[pc].type = "EMIT_WEBHOOK"
      /\ \/ Deliver /\ Settle(Quiet, time, None)
         \/ UNCHANGED <<slow, due>> /\ Settle(Errored(steps[pc], "unbuilt"), time, None)
      /\ UNCHANGED <<definition, traffic, dropped>> /\ UNCHANGED <<clock, resources, now, lag>>
  BY DEF EmitWebhook, Executing
<1>2. CASE Deliver /\ Settle(Quiet, time, None)
  <2>1. EngineTypes'
    BY <1>1, <1>2, DeliverTypes
  <2>. QED  BY <1>1, <1>2, <2>1, UnreadInv DEF Quiet, Unread
<1>3. CASE UNCHANGED <<slow, due>> /\ Settle(Errored(steps[pc], "unbuilt"), time, None)
  <2>1. EngineTypes'
    BY <1>1, <1>3, StateFacts DEF EngineTypes
  <2>2. "unbuilt" \in Reasons
    BY DEF Reasons
  <2>3. Due(Errored(steps[pc], "unbuilt"), time, None)
    BY <1>1, <2>2, StateFacts, ErroredDue
  <2>4. Settled
    BY <1>1, <1>3, <2>3, SameClock DEF Settled
  <2>. QED  BY <1>1, <2>1, <2>4, QuietStep
<1>. QED  BY <1>1, <1>2, <1>3

LEMMA SeedStateInv ==
  ASSUME IInv, SeedState
  PROVE  IInv'
<1>1. /\ pc <= Len(steps) /\ steps[pc].type = "SEED_STATE"
      /\ Settle(Errored(steps[pc], "conflict"), time, None) \/ Settle(Quiet, time, None)
      /\ UNCHANGED <<definition, traffic, dropped>> /\ UNCHANGED <<clock, due, now, lag>>
  BY DEF SeedState, Executing
<1>2. EngineTypes'
  BY <1>1, StateFacts DEF EngineTypes
<1>3. CASE Settle(Quiet, time, None)
  BY <1>1, <1>2, <1>3, UnreadInv DEF Quiet, Unread
<1>4. CASE Settle(Errored(steps[pc], "conflict"), time, None)
  <2>1. "conflict" \in Reasons
    BY DEF Reasons
  <2>2. Due(Errored(steps[pc], "conflict"), time, None)
    BY <1>1, <2>1, StateFacts, ErroredDue
  <2>3. Settled
    BY <1>1, <1>4, <2>2, SameClock DEF Settled
  <2>. QED  BY <1>1, <1>2, <2>3, QuietStep
<1>. QED  BY <1>1, <1>3, <1>4

\* WAIT moves both clocks by the same.
LEMMA WaitInv ==
  ASSUME IInv, WaitStep
  PROVE  IInv'
<1> DEFINE end == time + steps[pc].ms
<1>1. /\ pc <= Len(steps) /\ steps[pc].type = "WAIT" /\ SetClock(end) /\ Settle(Quiet, end, None)
      /\ UNCHANGED <<definition, traffic, dropped>> /\ UNCHANGED <<due, now>>
  BY DEF WaitStep, Executing
<1>2. DefinitionInv /\ RunnerTypes /\ EngineTypes /\ time \in Nat /\ clock \in Nat /\ lag \in Nat
  BY StateFacts
<1>3. end \in Nat
  <2>1. pc \in 1 .. Len(steps)
    BY <1>1, <1>2 DEF RunnerTypes, DefinitionInv
  <2>2. steps[pc].ms \in Nat
    BY <1>2, <2>1, MenuFacts
  <2>. QED  BY <1>2, <2>2
<1> HIDE DEF end
<1>4. EngineTypes'
  BY <1>1, <1>2, <1>3 DEF EngineTypes, SetClock
<1>5. Due(Quiet, end, None)
  BY <1>1, <1>2, <1>3, UnreadDue DEF Quiet, Unread
<1>6. ClockRight(Quiet, end)
  BY <1>1, <1>3 DEF ClockRight, SetClock
<1>7. Settled
  BY <1>1, <1>5, <1>6 DEF Settled
<1>. QED  BY <1>1, <1>4, <1>7, QuietStep

\* EXPECT_WEBHOOK moves the runner's clock to the last delivery that is due, and
\* the engine's unless it has passed it; a wait in vain is what the lag counts.
LEMMA ExpectWebhookInv ==
  ASSUME IInv, ExpectWebhook
  PROVE  IInv'
<1> DEFINE ms == steps[pc].ms
           arrivals == {d \in due : d <= time + ms}
           document == arrivals # {}
           end == IF arrivals = {} THEN time + ms ELSE Max(arrivals \cup {time})
<1>1. /\ pc <= Len(steps) /\ steps[pc].type = "EXPECT_WEBHOOK" /\ SyncClock(arrivals)
      /\ Answered(steps[pc], arrivals # {}, end)
      /\ UNCHANGED <<definition, traffic, dropped>> /\ UNCHANGED <<due, now>>
  BY DEF ExpectWebhook, Executing
<1>2. DefinitionInv /\ RunnerTypes /\ EngineTypes /\ time \in Nat /\ clock \in Nat /\ lag \in Nat
  BY StateFacts
<1>3. ms \in Nat
  <2>1. pc \in 1 .. Len(steps)
    BY <1>1, <1>2 DEF RunnerTypes, DefinitionInv
  <2>. QED  BY <1>2, <2>1, MenuFacts
<1>4. arrivals \subseteq Nat /\ IsFiniteSet(arrivals)
  <2>1. due \subseteq Nat /\ IsFiniteSet(due) /\ arrivals \in SUBSET due
    BY <1>2 DEF EngineTypes
  <2>. QED  BY <2>1, FS_Subset
<1>a. end = IF arrivals = {} THEN time + ms ELSE Max(arrivals \cup {time})
  OBVIOUS
<1>b. SyncClock(arrivals) <=>
        IF arrivals = {} THEN UNCHANGED clock /\ lag' = lag + ms
        ELSE IF Max(arrivals) > time THEN SetClock(Max(arrivals)) ELSE UNCHANGED <<clock, lag>>
  BY DEF SyncClock
<1> HIDE DEF arrivals, ms, end
<1>5. arrivals # {} => /\ Max(arrivals) \in Nat
                       /\ Max(arrivals \cup {time}) = IF Max(arrivals) > time THEN Max(arrivals) ELSE time
  <2> SUFFICES ASSUME arrivals # {}
               PROVE  /\ Max(arrivals) \in Nat
                      /\ Max(arrivals \cup {time}) = IF Max(arrivals) > time THEN Max(arrivals) ELSE time
    OBVIOUS
  <2> DEFINE x == Max(arrivals)
             S == arrivals \cup {time}
             y == Max(S)
  <2>1. x \in arrivals /\ \A z \in arrivals : x >= z
    <3>1. arrivals \subseteq Int
      BY <1>4
    <3>. QED  BY <1>4, <3>1, MaxFacts
  <2>2. IsFiniteSet(S) /\ S \subseteq Int /\ S # {}
    <3>1. IsFiniteSet(S)
      BY <1>4, FS_AddElement
    <3>2. S \subseteq Int
      BY <1>2, <1>4
    <3>. QED  BY <3>1, <3>2
  <2>a. S = arrivals \cup {time}
    OBVIOUS
  <2> HIDE DEF S
  <2>3. y \in S /\ \A z \in S : y >= z
    BY <2>2, MaxFacts
  <2> HIDE DEF x, y
  <2>4. x \in Nat /\ x \in S /\ time \in S /\ (y = time \/ y \in arrivals)
    BY <1>4, <2>1, <2>3, <2>a
  <2>5. y >= x /\ y >= time /\ (y = time \/ x >= y) /\ y \in Nat
    BY <1>2, <1>4, <2>1, <2>3, <2>4
  <2>6. y = IF x > time THEN x ELSE time
    BY <1>2, <2>4, <2>5
  <2>. QED  BY <2>4, <2>6 DEF x, y, S
<1>6. end \in Nat
  BY <1>2, <1>3, <1>5, <1>a
<1>7. clock' \in Nat /\ lag' \in Nat /\ (mode = "check" /\ time = clock + lag => end = clock' + lag')
  <2>1. CASE arrivals = {}
    <3>1. clock' = clock /\ lag' = lag + ms /\ end = time + ms
      BY <1>1, <1>a, <1>b, <2>1
    <3>. QED  BY <1>2, <1>3, <3>1
  <2>2. CASE arrivals # {} /\ Max(arrivals) > time
    <3>1. SetClock(Max(arrivals)) /\ end = Max(arrivals) /\ Max(arrivals) \in Nat
      BY <1>1, <1>5, <1>a, <1>b, <2>2
    <3>. QED  BY <1>2, <3>1 DEF SetClock
  <2>3. CASE arrivals # {} /\ ~(Max(arrivals) > time)
    <3>1. clock' = clock /\ lag' = lag /\ end = time
      BY <1>1, <1>5, <1>a, <1>b, <2>3
    <3>. QED  BY <1>2, <3>1
  <2>. QED  BY <2>1, <2>2, <2>3
<1>8. EngineTypes'
  BY <1>1, <1>2, <1>7 DEF EngineTypes
<1>9. steps[pc].type \notin Unread \cup {"VERIFY_REQUESTS"}
  BY <1>1 DEF Unread
<1>10. PICK out, e, read :
         /\ Due(out, e, read) /\ Settle(out, e, read)
         /\ (e = end /\ out.why # "capture") \/ (e = time /\ out.why = "capture")
  BY <1>1, <1>6, <1>9, AnsweredDue
<1>11. ClockRight(out, e)
  BY <1>1, <1>7, <1>10 DEF ClockRight
<1>12. Settled
  BY <1>10, <1>11 DEF Settled
<1>. QED  BY <1>1, <1>8, <1>12, QuietStep

\* JournalCount: the journal holds no request twice and none that was not begun;
\* if it lost none, every answered one is in it.
LEMMA CountRequestsInv ==
  ASSUME IInv, CountRequests
  PROVE  IInv'
<1> DEFINE path == steps[pc].path
           M == Matching(path)
           S == Seen(path)
           B == Begun(path)
           new == [count |-> Cardinality(M), evicted |-> journal.evicted > 0,
                   seen |-> Cardinality(S), begun |-> Cardinality(B)]
<1>1. /\ pc <= Len(steps) /\ steps[pc].type = "VERIFY_REQUESTS" /\ counted' = new
      /\ UNCHANGED <<definition, traffic, dropped>> /\ UNCHANGED <<engine, now, lag>>
      /\ pc' = pc /\ time' = time /\ captures' = captures /\ results' = results /\ evaluated' = evaluated
  BY DEF CountRequests, Executing
<1>2. /\ TrafficTypes /\ HistoryInv /\ EntriesInv /\ CompleteInv
      /\ journal.entries \in Seq(Entries) /\ journal.evicted \in Nat
      /\ sent \in Seq(Requests) /\ history \in Seq(Nat)
  BY StateFacts DEF TrafficTypes
<1>3. IsFiniteSet(M) /\ IsFiniteSet(S) /\ IsFiniteSet(B)
  <2>1. IsFiniteSet(DOMAIN journal.entries) /\ IsFiniteSet(DOMAIN sent)
    BY <1>2, IntervalFinite
  <2>2. M \in SUBSET DOMAIN journal.entries /\ S \in SUBSET DOMAIN sent /\ B \in SUBSET DOMAIN sent
    BY DEF Matching, Seen, Begun
  <2> HIDE DEF M, S, B
  <2>. QED  BY <2>1, <2>2, FS_Subset
<1>4. Cardinality(M) <= Cardinality(B)
  <2> DEFINE f == [i \in M |-> journal.entries[i].id]
  <2>1. \A i \in M : i \in DOMAIN journal.entries /\ journal.entries[i].path = path
    BY DEF Matching
  <2>2. \A i \in M : journal.entries[i].id \in B
    BY <1>2, <2>1 DEF EntriesInv, Tells, Begun
  <2>3. \A i, j \in M : journal.entries[i].id = journal.entries[j].id => i = j
    <3> SUFFICES ASSUME NEW i \in M, NEW j \in M, journal.entries[i].id = journal.entries[j].id PROVE i = j
      OBVIOUS
    <3>1. i \in DOMAIN journal.entries /\ j \in DOMAIN journal.entries /\ i \in Nat /\ j \in Nat
      BY <1>2, <2>1
    <3>2. PICK a \in DOMAIN history : history[a] = journal.entries[i].id
      BY <1>2, <3>1 DEF EntriesInv
    <3>3. a \in Nat
      BY <1>2
    <3>4. ~(i < j) /\ ~(j < i)
      <4>1. \A p, q \in DOMAIN journal.entries : \A c, d \in DOMAIN history :
              (p < q /\ history[c] = journal.entries[p].id /\ history[d] = journal.entries[q].id) => c < d
        BY <1>2 DEF EntriesInv
      <4>2. ~(a < a)
        BY <3>3
      <4>. QED  BY <3>1, <3>2, <4>1, <4>2
    <3>. QED  BY <3>1, <3>4
  <2> HIDE DEF M, B
  <2>4. f \in Injection(M, B)
    BY <2>2, <2>3 DEF Injection, IsInjective
  <2> HIDE DEF f
  <2>. QED  BY <1>3, <2>4, FS_Injection
<1>5. ~(journal.evicted > 0) /\ ~dropped => Cardinality(S) <= Cardinality(M)
  <2> SUFFICES ASSUME ~(journal.evicted > 0), ~dropped PROVE Cardinality(S) <= Cardinality(M)
    OBVIOUS
  <2> DEFINE g == [id \in S |-> CHOOSE a \in DOMAIN history : history[a] = id]
  <2>1. /\ DOMAIN history = DOMAIN journal.entries
        /\ \A a \in DOMAIN history : journal.entries[a].id = history[a]
    <3>1. journal.evicted = 0
      BY <1>2
    <3>. QED  BY <1>2, <3>1 DEF CompleteInv
  <2>2. \A id \in S : g[id] \in DOMAIN history /\ history[g[id]] = id
    <3> SUFFICES ASSUME NEW id \in S PROVE \E a \in DOMAIN history : history[a] = id
      OBVIOUS
    <3>1. id \in DOMAIN sent /\ sent[id].phase = "answered"
      BY DEF Seen, Begun
    <3>. QED  BY <1>2, <3>1 DEF HistoryInv, Finally
  <2>3. \A id \in S : g[id] \in M
    <3> SUFFICES ASSUME NEW id \in S PROVE g[id] \in M
      OBVIOUS
    <3> DEFINE a == g[id]
    <3>1. a \in DOMAIN journal.entries /\ journal.entries[a].id = id
      BY <2>1, <2>2
    <3> HIDE DEF g, a
    <3>2. journal.entries[a].path = sent[id].path
      BY <1>2, <3>1 DEF EntriesInv, Tells
    <3>3. sent[id].path = path
      BY DEF Seen, Begun
    <3>4. a \in M
      BY <3>1, <3>2, <3>3 DEF Matching
    <3>. QED  BY <3>4 DEF a
  <2>4. \A x, y \in S : g[x] = g[y] => x = y
    <3> HIDE DEF g
    <3>. QED  BY <2>2
  <2>5. g = [id \in S |-> g[id]]
    OBVIOUS
  <2> HIDE DEF g, S, M
  <2>6. g \in Injection(S, M)
    BY <2>3, <2>4, <2>5 DEF Injection, IsInjective
  <2>. QED  BY <1>3, <2>6, FS_Injection
<1>6. Cardinality(M) \in Nat /\ Cardinality(S) \in Nat /\ Cardinality(B) \in Nat
  BY <1>3, FS_CardinalityType
<1> HIDE DEF M, S, B
<1>7. new \in Counts
  <2>1. (journal.evicted > 0) \in BOOLEAN
    BY <1>2
  <2>. QED  BY <1>6, <2>1 DEF Counts
<1>8. /\ mode' = mode /\ steps' = steps /\ inputs' = inputs
      /\ sent' = sent /\ journal' = journal /\ history' = history /\ dropped' = dropped
      /\ clock' = clock /\ lag' = lag /\ due' = due /\ now' = now
  BY <1>1 DEF definition, traffic, engine
<1>9. /\ DefinitionInv /\ EngineTypes /\ RunnerTypes /\ EvidenceInv /\ CaptureInv
      /\ VerdictInv /\ ClocksDifferByTimeouts /\ ValidatedResolves
  BY DEF IInv, TypeOK
<1>10. CountedInv'
  <2>1. new.count <= new.begun /\ (~new.evicted /\ ~dropped => new.seen <= new.count)
    BY <1>4, <1>5
  <2> HIDE DEF new
  <2>. QED  BY <1>1, <1>8, <2>1 DEF CountedInv
<1>11. RunnerTypes'
  <2> HIDE DEF new
  <2>. QED  BY <1>1, <1>7, <1>8, <1>9 DEF RunnerTypes
<1>12. DefinitionInv'
  BY <1>8, <1>9 DEF DefinitionInv, Valid, References, CapturedBefore
<1>13. EngineTypes'
  BY <1>8, <1>9 DEF EngineTypes
<1>14. EvidenceInv'
  <2>1. \A i \in DOMAIN results' :
          /\ CountsRight(dropped', steps'[i], results'[i].out, results'[i].read)
          /\ SequenceRight(sent', mode', steps'[i], results'[i].out, results'[i].read)
    BY <1>1, <1>8, <1>9 DEF EvidenceInv
  <2>. QED  BY ONLY <2>1 DEF EvidenceInv, CountsRight, SequenceRight, Journaled, Finally, HappenedIn, AtIn, GapViolated
<1>15. CaptureInv'
  BY <1>1, <1>9 DEF CaptureInv
<1>16. VerdictInv'
  BY <1>1, <1>8, <1>9 DEF VerdictInv, Hard, Fails, Executed, Sound, Counted, Compared, Credited
<1>17. ClocksDifferByTimeouts' /\ ValidatedResolves'
  BY <1>1, <1>8, <1>9 DEF ClocksDifferByTimeouts, Ahead, ValidatedResolves
<1>18. TrafficStep
  BY <1>1, SameTraffic
<1>. QED  BY <1>10, <1>11, <1>12, <1>13, <1>14, <1>15, <1>16, <1>17, <1>18 DEF IInv, TypeOK, TrafficStep

\* JournalLast, and the assertions on what both have read.
LEMMA VerifyRequestsInv ==
  ASSUME IInv, VerifyRequests
  PROVE  IInv'
<1> DEFINE step == steps[pc]
           found == Matching(step.path) # {}
           unprovable == {i \in DOMAIN step.asserts :
                            \/ counted.evicted /\ step.asserts[i].target = "count" /\ UpperBound(step.asserts[i])
                            \/ /\ step.asserts[i].target = "last" /\ found
                               /\ journal.entries[Max(Matching(step.path))].large}
<1>1. /\ pc <= Len(steps) /\ counted # None
      /\ \/ Settle(FailClosed("unprovable"), time, counted)
         \/ /\ unprovable = {}
            /\ \E v \in Verdicts(step.asserts, counted.count, found) :
                 Settle(Judged(step, v, {}), time, counted)
      /\ UNCHANGED <<definition, traffic, dropped>> /\ UNCHANGED <<engine, now, lag>>
  BY DEF VerifyRequests
<1>2. DefinitionInv /\ RunnerTypes /\ CountedInv /\ time \in Nat
  BY StateFacts
<1>3. /\ steps[pc].type = "VERIFY_REQUESTS" /\ counted.count <= counted.begun
      /\ ~counted.evicted /\ ~dropped => counted.seen <= counted.count
      /\ counted \in Counts /\ counted \in Reads
  BY <1>1, <1>2 DEF CountedInv, RunnerTypes, Reads
<1>4. EngineTypes' /\ clock' = clock /\ lag' = lag
  BY <1>1, SameEngine
<1>5. ASSUME NEW out, Due(out, time, counted), Settle(out, time, counted) PROVE IInv'
  <2>1. Settled
    BY <1>4, <1>5, SameClock DEF Settled
  <2>. QED  BY <1>1, <1>4, <2>1, QuietStep
<1>6. CASE Settle(FailClosed("unprovable"), time, counted)
  <2>1. "unprovable" \in Reasons
    BY DEF Reasons
  <2>2. SequenceRight(sent, mode, steps[pc], FailClosed("unprovable"), counted)
    BY DEF SequenceRight, FailClosed, Outcome
  <2>3. Due(FailClosed("unprovable"), time, counted)
    BY <1>1, <1>2, <1>3, <2>1, <2>2, FailClosedDue
  <2>. QED  BY <1>5, <1>6, <2>3
<1>7. ASSUME unprovable = {},
             NEW v \in Verdicts(step.asserts, counted.count, found), Settle(Judged(step, v, {}), time, counted)
      PROVE  IInv'
  <2>1. v \in [DOMAIN steps[pc].asserts -> Outcomes]
    BY DEF Verdicts
  <2>2. steps[pc].type \notin Unread
    BY <1>3 DEF Unread
  <2>3. CountsRight(dropped, steps[pc], Judged(steps[pc], v, {}), counted)
    <3> DEFINE out == Judged(steps[pc], v, {})
    <3> SUFFICES ASSUME out.status = "PASSED", ~dropped, NEW k \in DOMAIN step.asserts,
                        step.asserts[k].target = "count", ~step.asserts[k].soft
                 PROVE  /\ step.asserts[k].op \in {"lte", "equals"} => counted.seen <= step.asserts[k].n
                        /\ step.asserts[k].op \in {"gte", "equals"} => counted.begun >= step.asserts[k].n
      BY DEF CountsRight
    <3> DEFINE a == step.asserts[k]
    <3>1. StepStatus(step.asserts, v) = "PASSED"
      BY DEF Judged, Outcome
    <3>2. v[k] # "FAILED"
      <4>1. ~\E i \in DOMAIN v : v[i] = "FAILED" /\ ~step.asserts[i].soft
        BY <3>1 DEF StepStatus
      <4>. QED  BY <2>1, <4>1
    <3>3. v[k] = IF Holds(a, counted.count) THEN "PASSED" ELSE "FAILED"
      BY DEF Verdicts
    <3>4. Holds(a, counted.count)
      BY <3>2, <3>3
    <3>5. UpperBound(a) => ~counted.evicted
      BY <1>7
    <3>6. a.n \in Int
      <4>1. pc \in 1 .. Len(steps)
        BY <1>1, <1>2 DEF RunnerTypes, DefinitionInv
      <4>2. a \in Range(step.asserts)
        BY DEF Range
      <4>. QED  BY <1>2, <4>1, <4>2, MenuFacts
    <3>7. counted.count \in Nat /\ counted.seen \in Nat /\ counted.begun \in Nat
      BY <1>3 DEF Counts
    <3> HIDE DEF a
    <3>8. /\ a.op \in {"lte", "equals"} => counted.count <= a.n
          /\ a.op \in {"gte", "equals"} => counted.count >= a.n
      <4> DEFINE c == counted.count
      <4> HIDE DEF c
      <4>1. Holds(a, c)
        BY <3>4 DEF c
      <4>2. ASSUME a.op = "lte" PROVE c <= a.n
        BY <4>1, <4>2 DEF Holds
      <4>3. ASSUME a.op = "gte" PROVE c >= a.n
        BY <4>1, <4>3 DEF Holds
      <4>4. ASSUME a.op = "equals" PROVE c = a.n
        BY <4>1, <4>4 DEF Holds
      <4>5. c \in Nat
        BY <3>7 DEF c
      <4>. QED  BY <3>6, <4>2, <4>3, <4>4, <4>5 DEF c
    <3>9. a.op \in {"lte", "equals"} => counted.seen <= counted.count
      BY <1>3, <3>5 DEF UpperBound
    <3>10. /\ a.op \in {"lte", "equals"} => counted.seen <= a.n
           /\ a.op \in {"gte", "equals"} => counted.begun >= a.n
      BY <1>3, <3>6, <3>7, <3>8, <3>9
    <3>. QED  BY <3>10 DEF a
  <2>4. Due(Judged(steps[pc], v, {}), time, counted)
    BY <1>1, <1>2, <1>3, <2>1, <2>2, <2>3, JudgedDue
  <2>. QED  BY <1>5, <1>7, <2>4
<1>. QED  BY <1>1, <1>6, <1>7

\* Why a scan stops.
LEMMA ScanWhy ==
  ASSUME NEW E, NEW es \in Seq(E), NEW M, NEW ms \in Seq(M), NEW md
  PROVE  Scan(ms, es, md, Len(ms)).why \in {None, "never", "gap", "unprovable"}
<1> DEFINE S == [k \in Nat |-> Scan(ms, es, md, k)]
           P(k) == IsScan(S[k]) /\ S[k].why \in {None, "never", "gap", "unprovable"}
           G == {k \in Nat : k <= Len(ms) => P(k)}
<1>1. S[0] = NewScan
  BY ScanStep
<1>2. \A k \in Nat : k < Len(ms) => S[k + 1] = MatchIn(es, md, S[k], ms[k + 1])
  <2>1. \A k \in Nat : k + 1 \in Nat
    OBVIOUS
  <2>. QED  BY <2>1, ScanStep
<1>3. Len(ms) \in Nat
  OBVIOUS
<1> HIDE DEF S
<1>4. 0 \in G
  BY <1>1 DEF IsScan, NewScan
<1>5. ASSUME NEW k \in G PROVE k + 1 \in G
  <2> SUFFICES ASSUME k + 1 <= Len(ms) PROVE P(k + 1)
    OBVIOUS
  <2>1. k \in Nat /\ k < Len(ms) /\ P(k)
    BY <1>3, <1>5
  <2> DEFINE acc == S[k]
             n == S[k + 1]
             m == ms[k + 1]
  <2>2. IsScan(acc) /\ n = MatchIn(es, md, acc, m) /\ acc.why \in {None, "never", "gap", "unprovable"}
    BY <1>2, <2>1
  <2> HIDE DEF acc, n, m
  <2>3. IsScan(n)
    BY <2>2, MatchFacts DEF Matched
  <2>4. n.why \in {None, "never", "gap", "unprovable"}
    <3> DEFINE from == acc.from
               prev == acc.prev
               why == acc.why
    <3>1. acc = [from |-> from, prev |-> prev, why |-> why]
      BY <2>2 DEF IsScan
    <3>2. why \in {None, "never", "gap", "unprovable"}
      BY <2>2
    <3> HIDE DEF from, prev, why
    <3>3. \A w : [acc EXCEPT !.why = w].why = w
      BY <3>1
    <3>4. acc.why = why
      BY <3>1
    <3>. QED  BY <2>2, <3>2, <3>3, <3>4 DEF MatchIn
  <2>. QED  BY <2>3, <2>4 DEF n
<1> HIDE DEF G
<1>6. \A k \in Nat : k \in G
  BY <1>4, <1>5, Scanning!NumberInduction
<1>7. P(Len(ms))
  <2>1. Len(ms) <= Len(ms)
    BY <1>3
  <2> HIDE DEF P
  <2>. QED  BY <1>3, <1>6, <2>1 DEF G
<1>. QED  BY <1>3, <1>7 DEF S

\* A scan that found its matchers in the journal found requests that were sent,
\* in the order in which they were journaled.
LEMMA FoundHappened ==
  ASSUME TrafficTypes, HistoryInv, EntriesInv, NEW M, NEW ms \in Seq(M), NEW md,
         NEW f, Found(ms, journal.entries, md, Len(ms), f)
  PROVE  HappenedIn(sent, md, ms, history, TRUE)
<1> DEFINE es == journal.entries
           h == [i \in DOMAIN es |-> CHOOSE a \in DOMAIN history : history[a] = es[i].id]
           F == [i \in DOMAIN ms |-> h[f[i]]]
<1>1. /\ es \in Seq(Entries) /\ DOMAIN es = 1 .. Len(es)
      /\ DOMAIN ms = 1 .. Len(ms) /\ Len(ms) \in Nat
  BY DEF TrafficTypes
<1>2. \A i \in DOMAIN es : Tells(sent, es[i]) /\ \E a \in DOMAIN history : history[a] = es[i].id
  BY DEF EntriesInv
<1>3. \A i \in DOMAIN es : h[i] \in DOMAIN history /\ history[h[i]] = es[i].id
  BY <1>2
<1>4. \A i, j \in DOMAIN es : \A a, b \in DOMAIN history :
        (i < j /\ history[a] = es[i].id /\ history[b] = es[j].id) => a < b
  BY DEF EntriesInv
<1>5. /\ f \in [1 .. Len(ms) -> 1 .. Len(es)]
      /\ \A i \in 1 .. Len(ms) :
           /\ Hits(ms[i], es[f[i]])
           /\ i > 1 => /\ f[i - 1] < f[i]
                       /\ ~GapViolated(ms[i], AtIn(md, es[f[i]]), AtIn(md, es[f[i - 1]]))
  BY DEF Found
<1>6. \A i \in DOMAIN es : AtIn(md, es[i]) = AtIn(md, sent[es[i].id])
  BY <1>2 DEF Tells, AtIn
<1> HIDE DEF h, es
<1>7. F \in [DOMAIN ms -> DOMAIN history]
  BY <1>1, <1>3, <1>5
<1>8. ASSUME NEW i \in DOMAIN ms
      PROVE  /\ sent[history[F[i]]].path = ms[i].path
             /\ ms[i].header => sent[history[F[i]]].header
             /\ i > 1 => /\ F[i - 1] < F[i]
                         /\ ~GapViolated(ms[i], AtIn(md, sent[history[F[i]]]), AtIn(md, sent[history[F[i - 1]]]))
  <2>1. f[i] \in DOMAIN es /\ history[F[i]] = es[f[i]].id /\ F[i] = h[f[i]]
    BY <1>1, <1>3, <1>5
  <2>2. Hits(ms[i], es[f[i]]) /\ Tells(sent, es[f[i]])
    BY <1>1, <1>2, <1>5, <2>1
  <2>3. sent[history[F[i]]].path = ms[i].path /\ (ms[i].header => sent[history[F[i]]].header)
    BY <2>1, <2>2 DEF Hits, Tells
  <2>4. ASSUME i > 1
        PROVE  /\ F[i - 1] < F[i]
               /\ ~GapViolated(ms[i], AtIn(md, sent[history[F[i]]]), AtIn(md, sent[history[F[i - 1]]]))
    <3>1. i - 1 \in DOMAIN ms
      BY <1>1, <2>4
    <3>2. f[i - 1] \in DOMAIN es /\ history[F[i - 1]] = es[f[i - 1]].id /\ F[i - 1] = h[f[i - 1]]
      BY <1>1, <1>3, <1>5, <3>1
    <3>3. /\ f[i - 1] < f[i]
          /\ ~GapViolated(ms[i], AtIn(md, es[f[i]]), AtIn(md, es[f[i - 1]]))
      BY <1>1, <1>5, <2>4
    <3>4. F[i - 1] \in DOMAIN history /\ F[i] \in DOMAIN history
      BY <1>3, <2>1, <3>2
    <3>5. F[i - 1] < F[i]
      <4> HIDE DEF F
      <4>. QED  BY <1>4, <2>1, <3>2, <3>3, <3>4
    <3>6. /\ AtIn(md, es[f[i]]) = AtIn(md, sent[history[F[i]]])
          /\ AtIn(md, es[f[i - 1]]) = AtIn(md, sent[history[F[i - 1]]])
      BY <1>6, <2>1, <3>2
    <3>. QED  BY <3>3, <3>5, <3>6
  <2>. QED  BY <2>3, <2>4
<1> HIDE DEF F
<1>. QED  BY <1>7, <1>8 DEF HappenedIn

\* Where nothing is missing from the journal and every header was kept, requests
\* that happened in that order are a choice that the scan cannot miss.
LEMMA HappenedChoice ==
  ASSUME TrafficTypes, EntriesInv, CompleteInv, ~(journal.evicted > 0), ~dropped,
         \A a \in DOMAIN history : ~sent[history[a]].large,
         NEW M, NEW ms \in Seq(M), NEW md, HappenedIn(sent, md, ms, history, FALSE)
  PROVE  \E f : Choice(ms, journal.entries, f)
<1> DEFINE es == journal.entries
<1>1. /\ es \in Seq(Entries) /\ DOMAIN es = 1 .. Len(es) /\ journal.evicted \in Nat
      /\ DOMAIN ms = 1 .. Len(ms) /\ Len(ms) \in Nat
      /\ history \in Seq(Nat) /\ DOMAIN history = 1 .. Len(history)
  BY DEF TrafficTypes
<1>2. Len(es) = Len(history) /\ \A i \in DOMAIN history : es[i].id = history[i]
  BY <1>1 DEF CompleteInv
<1>3. PICK f \in [DOMAIN ms -> DOMAIN history] :
        \A i \in DOMAIN ms :
          /\ sent[history[f[i]]].path = ms[i].path
          /\ ms[i].header => sent[history[f[i]]].header
          /\ i > 1 => f[i - 1] < f[i]
  BY DEF HappenedIn
<1>4. \A i \in DOMAIN es : Tells(sent, es[i])
  BY DEF EntriesInv
<1>5. f \in [1 .. Len(ms) -> 1 .. Len(es)]
  BY <1>1, <1>2, <1>3
<1>6. ASSUME NEW i \in 1 .. Len(ms) PROVE Hits(ms[i], es[f[i]]) /\ (i > 1 => f[i - 1] < f[i])
  <2>1. f[i] \in DOMAIN es /\ f[i] \in DOMAIN history /\ es[f[i]].id = history[f[i]]
    BY <1>1, <1>2, <1>3
  <2>2. Tells(sent, es[f[i]]) /\ ~sent[history[f[i]]].large
    BY <1>4, <2>1
  <2>3. es[f[i]].path = ms[i].path /\ (ms[i].header => es[f[i]].header)
    BY <1>1, <1>3, <2>1, <2>2 DEF Tells
  <2>. QED  BY <1>1, <1>3, <2>3 DEF Hits
<1>. QED  BY <1>5, <1>6 DEF Choice

LEMMA VerifySequenceInv ==
  ASSUME IInv, VerifySequence
  PROVE  IInv'
<1> DEFINE step == steps[pc]
           ms == step.matchers
           es == journal.entries
           why == FoldLeft(Match, [from |-> 1, prev |-> None, why |-> None], ms).why
           whole == ~dropped /\ \A id \in Range(history) : ~sent[id].large
           read == [ids |-> history, whole |-> whole]
           passed == Outcome("PASSED", None, {}, 0, Len(ms))
<1>1. /\ pc <= Len(steps) /\ step.type = "VERIFY_SEQUENCE"
      /\ \/ Settle(FailClosed("evicted"), time, read)
         \/ ~Evicted /\ why # None /\ Settle(FailClosed(why), time, read)
         \/ ~Evicted /\ why = None /\ Settle(passed, time, read)
      /\ UNCHANGED <<definition, traffic, dropped>> /\ UNCHANGED <<engine, now, lag>>
  BY DEF VerifySequence, Executing
<1>2. /\ DefinitionInv /\ RunnerTypes /\ TrafficTypes /\ HistoryInv /\ EntriesInv /\ CompleteInv
      /\ time \in Nat
  BY StateFacts
<1>3. ms \in Seq(Range(ms)) /\ es \in Seq(Entries) /\ history \in Seq(Nat)
  <2>1. pc \in 1 .. Len(steps)
    BY <1>1, <1>2 DEF RunnerTypes, DefinitionInv
  <2>. QED  BY <1>2, <2>1, MenuFacts DEF TrafficTypes
<1>4. EngineTypes' /\ clock' = clock /\ lag' = lag
  BY <1>1, SameEngine
<1>5. ASSUME NEW out, Due(out, time, read), Settle(out, time, read) PROVE IInv'
  <2> HIDE DEF read
  <2>1. Settled
    BY <1>4, <1>5, SameClock DEF Settled
  <2>. QED  BY <1>1, <1>4, <2>1, QuietStep
<1>6. why = Scan(ms, es, mode, Len(ms)).why
  <2>1. FoldLeft(Match, NewScan, ms) = Scan(ms, es, mode, Len(ms))
    BY <1>3, MatchIsScan DEF Scan
  <2>. QED  BY <2>1 DEF NewScan
<1>7. whole \in BOOLEAN
  OBVIOUS
<1>8. whole => ~dropped /\ \A a \in DOMAIN history : ~sent[history[a]].large
  BY DEF Range
<1> HIDE DEF why, whole
<1>9. read \in Reads /\ Journaled(sent, read) /\ read.ids = history /\ read.whole = whole
  <2>1. read \in [ids : Seq(Nat), whole : BOOLEAN]
    BY <1>3, <1>7
  <2>2. read.ids = history /\ read.whole = whole
    OBVIOUS
  <2> HIDE DEF read
  <2>3. \A a \in DOMAIN history : Finally(sent, history[a])
    BY <1>2 DEF HistoryInv
  <2>. QED  BY <1>3, <1>7, <2>1, <2>2, <2>3 DEF Reads, Journaled
<1> HIDE DEF read
<1>10. CASE Settle(FailClosed("evicted"), time, read)
  <2>1. "evicted" \in Reasons
    BY DEF Reasons
  <2>2. SequenceRight(sent, mode, step, FailClosed("evicted"), read)
    BY DEF SequenceRight, FailClosed, Outcome
  <2>3. Due(FailClosed("evicted"), time, read)
    BY <1>1, <1>2, <1>9, <2>1, <2>2, FailClosedDue
  <2>. QED  BY <1>5, <1>10, <2>3
<1>11. CASE ~Evicted /\ why # None /\ Settle(FailClosed(why), time, read)
  <2>1. why \in Reasons /\ why # "unresolved"
    <3>1. why \in {None, "never", "gap", "unprovable"}
      BY <1>3, <1>6, ScanWhy
    <3>. QED  BY <1>11, <3>1 DEF Reasons
  <2>2. FailClosed(why).status = "FAILED" /\ FailClosed(why).why = why
    BY DEF FailClosed, Outcome
  <2>3. ASSUME why = "never", whole, HappenedIn(sent, mode, ms, history, FALSE) PROVE FALSE
    <3>1. ~(journal.evicted > 0)
      BY <1>11 DEF Evicted
    <3>2. PICK f : Choice(ms, es, f)
      <4> HIDE DEF ms, es
      <4>1. \E f : Choice(ms, journal.entries, f)
        BY <1>2, <1>3, <1>8, <2>3, <3>1, HappenedChoice
      <4>. QED  BY <4>1 DEF es
    <3> HIDE DEF ms, es
    <3>3. Scan(ms, es, mode, Len(ms)).why # "never"
      BY <1>3, <3>2, ScanComplete
    <3>. QED  BY <1>6, <2>3, <3>3
  <2>4. SequenceRight(sent, mode, step, FailClosed(why), read)
    BY <1>9, <2>2, <2>3 DEF SequenceRight
  <2>5. Due(FailClosed(why), time, read)
    BY <1>1, <1>2, <1>9, <2>1, <2>4, FailClosedDue
  <2>. QED  BY <1>5, <1>11, <2>5
<1>12. CASE ~Evicted /\ why = None /\ Settle(passed, time, read)
  <2>1. HappenedIn(sent, mode, ms, history, TRUE)
    <3> HIDE DEF ms, es
    <3>1. PICK f : Found(ms, es, mode, Len(ms), f)
      BY <1>3, <1>6, <1>12, ScanSound
    <3>2. Found(ms, journal.entries, mode, Len(ms), f)
      BY <3>1 DEF es
    <3>. QED  BY <1>2, <1>3, <3>2, FoundHappened
  <2>2. passed.why # "never"
    BY NoneIsNoReason DEF Outcome, Reasons
  <2>3. SequenceRight(sent, mode, step, passed, read)
    BY <1>9, <2>1, <2>2 DEF SequenceRight
  <2>4. Due(passed, time, read)
    BY <1>1, <1>2, <1>9, <2>3, SequenceDue
  <2>. QED  BY <1>5, <1>12, <2>4
<1>. QED  BY <1>1, <1>10, <1>11, <1>12

LEMMA NextInv == IInv /\ [Next]_vars => IInv'
<1> SUFFICES ASSUME IInv, [Next]_vars PROVE IInv'
  OBVIOUS
<1>1. CASE RunnerStep
  BY <1>1, UnresolvedInv, SendRequestInv, WaitInv, ExpectWebhookInv, InjectFaultInv, ClearFaultInv,
     SeedStateInv, AssertStateInv, EmitWebhookInv, NoteInv, CountRequestsInv, VerifyRequestsInv,
     VerifySequenceInv DEF RunnerStep
<1>2. CASE Application
  BY <1>2, ApplicationInv
<1>3. CASE UNCHANGED vars
  <2>1. UNCHANGED <<traffic, dropped>> /\ UNCHANGED <<definition, engine, runner, lag>> /\ now' = now
    BY <1>3 DEF vars
  <2>. QED  BY <2>1, SameTraffic, BackgroundInv
<1>. QED  BY <1>1, <1>2, <1>3 DEF Next

LEMMA SpecInv == Spec => []IInv
BY InitInv, NextInv, PTL DEF Spec

-----------------------------------------------------------------------------
(* Theorems                                                                  *)

\* Every variable of a run holds what the code's types allow, in particular one
\* result for every step that is done or skipped.
THEOREM TypeCorrect == Spec => []TypeOK
<1>1. IInv => TypeOK
  BY DEF IInv
<1>. QED  BY <1>1, SpecInv, PTL

\* What VERIFY_REQUESTS and VERIFY_SEQUENCE say of the application's requests is
\* what it did, with requests in flight, evicted entries, forgotten scopes and a
\* journal in the order in which requests were finished.
THEOREM EvidenceIsHonest == Spec => []EvidenceHonest
<1>1. ASSUME IInv PROVE CountHonest
  <2>1. EvidenceInv
    BY <1>1 DEF IInv
  <2>. QED  BY <2>1 DEF EvidenceInv, CountsRight, CountHonest
<1>2. \A ms, ids, gaps : Happened(ms, ids, gaps) <=> HappenedIn(sent, mode, ms, ids, gaps)
  BY DEF Happened, HappenedIn, Sent, SentAt, AtIn
<1>3. ASSUME IInv PROVE SequenceHonest
  <2>1. EvidenceInv
    BY <1>3 DEF IInv
  <2>2. \A i \in DOMAIN results : SequenceRight(sent, mode, steps[i], results[i].out, results[i].read)
    BY <2>1 DEF EvidenceInv
  <2>3. SequenceSound
    BY <1>2, <2>2 DEF SequenceSound, SequenceRight
  <2>4. SequenceComplete
    BY <1>2, <2>2 DEF SequenceComplete, SequenceRight
  <2>. QED  BY <2>3, <2>4 DEF SequenceHonest
<1>4. IInv => EvidenceHonest
  BY <1>1, <1>3 DEF EvidenceHonest
<1>. QED  BY <1>4, SpecInv, PTL

\* The runner's clock is ahead of its engine's by the waits in vain since the
\* engine's was last set, unless the captures of an EXPECT_WEBHOOK failed.
THEOREM ClocksAgree == Spec => []ClocksDifferByTimeouts
<1>1. IInv => ClocksDifferByTimeouts
  BY DEF IInv
<1>. QED  BY <1>1, SpecInv, PTL

\* A definition that was validated misses a variable at run time only where an
\* input was not given or a capture failed.
THEOREM ValidatedRunsResolve == Spec => []ValidatedResolves
<1>1. IInv => ValidatedResolves
  BY DEF IInv
<1>. QED  BY <1>1, SpecInv, PTL

\* A run's status follows from what was compared and from what failed, and the
\* skipped steps are those after a failure that may not happen.
THEOREM VerdictIsHonest == Spec => []VerdictHonest
<1>1. ASSUME IInv, Finished
      PROVE  /\ RunStatus = "PASSED" =>
                  /\ \A i \in DOMAIN results : Fails(results[i].out) => steps[i].continues
                  /\ \E i \in DOMAIN results :
                       Compared(steps[i], results[i].out) > 0 \/ Credited(steps[i], results[i].out)
             /\ RunStatus = "CONDITION_GENERATED" =>
                  \A i \in DOMAIN results : Compared(steps[i], results[i].out) = 0
             /\ \A i \in DOMAIN results :
                  (results[i].out.status = "SKIPPED") <=>
                    \E j \in 1 .. i - 1 : Fails(results[j].out) /\ ~steps[j].continues
  <2> DEFINE stops == {i \in DOMAIN results : Hard(steps[i], results[i].out)}
  <2>1. VerdictInv /\ RunnerTypes
    BY <1>1 DEF IInv, TypeOK
  <2>2. \A i \in DOMAIN results :
          /\ ~Executed(i) <=> \E j \in 1 .. i - 1 : Hard(steps[j], results[j].out)
          /\ Executed(i) => Sound(steps[i], results[i].out)
    BY <2>1 DEF VerdictInv
  <2>3. evaluated > 0 <=> \E i \in DOMAIN results : Executed(i) /\ Counted(steps[i], results[i].out) > 0
    BY <2>1 DEF VerdictInv
  <2>4. \A i \in DOMAIN results :
          (results[i].out.status = "SKIPPED") <=>
            \E j \in 1 .. i - 1 : Fails(results[j].out) /\ ~steps[j].continues
    BY <2>2 DEF Executed, Hard
  <2>5. RunStatus \in {"PASSED", "CONDITION_GENERATED"} =>
          /\ \A i \in DOMAIN results : ~Hard(steps[i], results[i].out)
          /\ RunStatus = "PASSED" <=> evaluated > 0
    BY DEF RunStatus
  <2>6. ASSUME RunStatus = "PASSED"
        PROVE  /\ \A i \in DOMAIN results : Fails(results[i].out) => steps[i].continues
               /\ \E i \in DOMAIN results :
                    Compared(steps[i], results[i].out) > 0 \/ Credited(steps[i], results[i].out)
    <3>1. \A i \in DOMAIN results : ~Hard(steps[i], results[i].out)
      BY <2>5, <2>6
    <3>2. PICK i \in DOMAIN results : Executed(i) /\ Counted(steps[i], results[i].out) > 0
      BY <2>3, <2>5, <2>6
    <3>3. Compared(steps[i], results[i].out) > 0 \/ Credited(steps[i], results[i].out)
      BY <2>2, <3>1, <3>2 DEF Sound
    <3>. QED  BY <3>1, <3>3 DEF Hard
  <2>7. ASSUME RunStatus = "CONDITION_GENERATED", NEW i \in DOMAIN results
        PROVE  Compared(steps[i], results[i].out) = 0
    <3>1. (\A j \in DOMAIN results : ~Hard(steps[j], results[j].out)) /\ ~(evaluated > 0)
      BY <2>5, <2>7
    <3>2. DOMAIN results = 1 .. pc - 1 /\ pc \in Nat
      BY <2>1 DEF RunnerTypes
    <3>3. \A j \in 1 .. i - 1 : j \in DOMAIN results
      BY <3>2
    <3>4. Executed(i)
      BY <2>2, <3>1, <3>3
    <3>5. Sound(steps[i], results[i].out) /\ ~(Counted(steps[i], results[i].out) > 0)
      BY <2>2, <2>3, <3>1, <3>4
    <3>. QED  BY <3>5 DEF Sound
  <2>. QED  BY <2>4, <2>6, <2>7
<1>2. IInv => VerdictHonest
  BY <1>1 DEF VerdictHonest
<1>. QED  BY <1>2, SpecInv, PTL

=============================================================================
