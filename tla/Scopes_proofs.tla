---------------------------- MODULE Scopes_proofs ----------------------------
(***************************************************************************)
(* Proofs about Scopes for any number of clients, scopes, faults, rules and  *)
(* recordings, any room for scopes, keys and journal entries, and any number *)
(* of requests and resets.                                                   *)
(***************************************************************************)
EXTENDS Scopes, FiniteSetTheorems, TLAPS

-----------------------------------------------------------------------------
(* Dropping a scope's entries, and replaying a scope's requests, are folds.  *)

Highest(S) == Max(S)

KeepPair(p, kept) == Keep(p[1], kept, p[2])
Keeping == INSTANCE FoldLemmas WITH Op <- KeepPair, Base <- <<>>, Pick <- Highest

AloneNext(rq, state) == Alone(state, rq)
Replaying == INSTANCE FoldLemmas WITH Op <- AloneNext, Base <- Untouched, Pick <- Highest

LEMMA Finite == \A S : IsFiniteSet(S) => Keeping!IsFiniteSet(S) /\ Replaying!IsFiniteSet(S)
BY DEF IsFiniteSet, Keeping!IsFiniteSet, Replaying!IsFiniteSet

\* The last position is taken last.
LEMMA HighestIsLast ==
  ASSUME NEW n \in Nat
  PROVE  /\ \A T \in SUBSET (1..n) : T # {} => Highest(T) \in T
         /\ n # 0 => Highest(1..n) = n
         /\ IsFiniteSet(1..n) /\ Keeping!Picks(1..n) /\ Replaying!Picks(1..n)
<1> DEFINE D == 1..n
<1>1. IsFiniteSet(D) /\ D \subseteq Int
  <2>1. 1 \in Int /\ n \in Int
    OBVIOUS
  <2>. QED  BY <2>1, FS_Interval
<1> HIDE DEF D
<1>2. \A T \in SUBSET D : T # {} => \E x \in T : \A y \in T : x >= y
  BY <1>1, Finite, Keeping!Greatest
<1>3. \A T \in SUBSET D : T # {} => Highest(T) \in T /\ \A y \in T : Highest(T) >= y
  BY <1>2 DEF Highest, Max
<1>4. n # 0 => Highest(D) = n
  <2> SUFFICES ASSUME n # 0 PROVE Highest(D) = n
    OBVIOUS
  <2>1. n \in D /\ D \in SUBSET D
    BY DEF D
  <2>2. Highest(D) \in D /\ Highest(D) >= n
    BY <1>3, <2>1
  <2>. QED  BY <2>2 DEF D
<1>. QED  BY <1>1, <1>3, <1>4 DEF D, Keeping!Picks, Replaying!Picks

-----------------------------------------------------------------------------
(* Without                                                                   *)

Paired(es, s) == [i \in 1..Len(es) |-> <<s, es[i]>>]

LEMMA WithoutIsFold ==
  ASSUME NEW E, NEW es \in Seq(E), NEW s
  PROVE  Without(es, s) = Keeping!Fold(Paired(es, s), 1..Len(es))
<1> DEFINE D == 1..Len(es)
           f == Paired(es, s)
           W(g) == g = [t \in SUBSET D |-> IF t = {} THEN <<>> ELSE
                          Keep(s, g[t \ {Max(t)}], es[Max(t)])]
<1>1. DOMAIN es = D /\ Len(es) \in Nat
  OBVIOUS
<1>2. Without(es, s) = (CHOOSE g : W(g))[D]
  BY <1>1 DEF Without, FoldLeft, MapThenFoldSet
<1>3. Keeping!Fold(f, D) = (CHOOSE g : Keeping!IsFold(g, f, D))[D]
  BY DEF Keeping!Fold, Keeping!MapThenFoldSet, Keeping!IsFold
<1>4. ASSUME NEW g PROVE W(g) <=> Keeping!IsFold(g, f, D)
  <2>1. \A t \in SUBSET D : t # {} => f[Highest(t)] = <<s, es[Highest(t)]>>
    BY <1>1, HighestIsLast DEF Paired
  <2> DEFINE u == [t \in SUBSET D |-> IF t = {} THEN <<>> ELSE
                     Keep(s, g[t \ {Max(t)}], es[Max(t)])]
             v == [t \in SUBSET D |-> IF t = {} THEN <<>> ELSE
                     KeepPair(f[Highest(t)], g[t \ {Highest(t)}])]
  <2> HIDE DEF f
  <2>2. u = v
    BY <2>1 DEF Highest, KeepPair
  <2>3. W(g) <=> g = u
    OBVIOUS
  <2>4. Keeping!IsFold(g, f, D) <=> g = v
    BY DEF Keeping!IsFold
  <2> HIDE DEF u, v, W
  <2>. QED  BY <2>2, <2>3, <2>4
<1> HIDE DEF W, f, D
<1>5. (CHOOSE g : W(g)) = (CHOOSE g : Keeping!IsFold(g, f, D))
  BY <1>4
<1>. QED  BY <1>2, <1>3, <1>5 DEF f, D

\* dropScope, entry by entry.
LEMMA WithoutStep ==
  ASSUME NEW E, NEW s
  PROVE  /\ Without(<<>>, s) = <<>>
         /\ \A es \in Seq(E), e \in E :
              Without(Append(es, e), s) = Keep(s, Without(es, s), e)
<1>1. Without(<<>>, s) = <<>>
  <2>1. Without(<<>>, s) = Keeping!Fold(Paired(<<>>, s), 1..0)
    <3>1. <<>> \in Seq(E) /\ Len(<<>>) = 0
      OBVIOUS
    <3>. QED  BY <3>1, WithoutIsFold
  <2>2. Keeping!IsFiniteSet(1..0) /\ Keeping!Picks(1..0) /\ 1..0 = {}
    <3>1. 0 \in Nat /\ 1..0 = {}
      OBVIOUS
    <3>. QED  BY <3>1, HighestIsLast, Finite
  <2>. QED  BY <2>1, <2>2, Keeping!FoldStep
<1>2. ASSUME NEW es \in Seq(E), NEW e \in E
      PROVE  Without(Append(es, e), s) = Keep(s, Without(es, s), e)
  <2> DEFINE q == Append(es, e)
             n == Len(es)
             f == Paired(es, s)
             g == Paired(q, s)
  <2>1. n \in Nat /\ q \in Seq(E) /\ Len(q) = n + 1
    OBVIOUS
  <2>2. \A i \in 1..n : f[i] = g[i]
    BY DEF Paired
  <2>3. g[n + 1] = <<s, e>>
    BY <2>1 DEF Paired
  <2>4. /\ Without(es, s) = Keeping!Fold(f, 1..n)
        /\ Without(q, s) = Keeping!Fold(g, 1..(n + 1))
    BY <2>1, WithoutIsFold
  <2> HIDE DEF q, n, f, g
  <2>5. Highest(1..(n + 1)) = n + 1 /\ Keeping!Picks(1..(n + 1))
    <3>1. n + 1 \in Nat /\ n + 1 # 0
      BY <2>1
    <3>. QED  BY <3>1, HighestIsLast
  <2>6. Keeping!Fold(g, 1..(n + 1)) = KeepPair(g[n + 1], Keeping!Fold(f, 1..n))
    BY <2>1, <2>2, <2>5, Keeping!FoldLast
  <2>. QED  BY <2>3, <2>4, <2>6 DEF KeepPair, q
<1>. QED  BY <1>1, <1>2

Replayed(requested) == FoldLeft(Alone, Untouched, requested)

\* A scope that has made no request has an untouched sandbox, and one more
\* request goes on from where the others ended.
LEMMA ReplayStep ==
  ASSUME NEW R
  PROVE  /\ Replayed(<<>>) = Untouched
         /\ \A h \in Seq(R), rq \in R : Replayed(Append(h, rq)) = Alone(Replayed(h), rq)
<1>0. \A h : Replayed(h) = Replaying!Fold(h, DOMAIN h)
  BY DEF Replayed, FoldLeft, MapThenFoldSet, Replaying!Fold, Replaying!MapThenFoldSet, AloneNext, Highest
<1>1. Replayed(<<>>) = Untouched
  <2>1. Replaying!IsFiniteSet({}) /\ Replaying!Picks({}) /\ DOMAIN <<>> = {}
    <3>1. 0 \in Nat /\ 1..0 = {} /\ DOMAIN <<>> = {}
      OBVIOUS
    <3>. QED  BY <3>1, HighestIsLast, Finite
  <2>. QED  BY <1>0, <2>1, Replaying!FoldStep
<1>2. ASSUME NEW h \in Seq(R), NEW rq \in R
      PROVE  Replayed(Append(h, rq)) = Alone(Replayed(h), rq)
  <2> DEFINE q == Append(h, rq)
             n == Len(h)
  <2>1. n \in Nat /\ DOMAIN h = 1..n /\ DOMAIN q = 1..(n + 1) /\ q[n + 1] = rq
        /\ \A i \in 1..n : h[i] = q[i]
    OBVIOUS
  <2> HIDE DEF q, n
  <2>2. Highest(1..(n + 1)) = n + 1 /\ Replaying!Picks(1..(n + 1))
    <3>1. n + 1 \in Nat /\ n + 1 # 0
      BY <2>1
    <3>. QED  BY <3>1, HighestIsLast
  <2>3. Replaying!Fold(q, 1..(n + 1)) = AloneNext(q[n + 1], Replaying!Fold(h, 1..n))
    BY <2>1, <2>2, Replaying!FoldLast
  <2>4. Replaying!Fold(q, DOMAIN q) = Alone(Replaying!Fold(h, DOMAIN h), rq)
    BY <2>1, <2>3 DEF AloneNext
  <2>. QED  BY <1>0, <2>4 DEF q
<1>. QED  BY <1>1, <1>2

-----------------------------------------------------------------------------
(* The journal's entries.                                                    *)

Entry == [scope : Name, seq : Nat]

\* The entries of a scope, as EntriesOf counts them.
Of(es, t) == Cardinality({i \in DOMAIN es : es[i].scope = t})

Rising(es) == \A i, j \in 1..Len(es) : i < j => es[i].seq < es[j].seq
Below(es, n) == \A i \in 1..Len(es) : es[i].seq <= n

LEMMA AppendEntry ==
  ASSUME NEW es \in Seq(Entry), NEW e \in Entry, NEW q, q = Append(es, e)
  PROVE  /\ q \in Seq(Entry) /\ Len(es) \in Nat /\ Len(q) = Len(es) + 1
         /\ \A i \in 1..Len(es) : q[i] = es[i]
         /\ q[Len(q)] = e
         /\ \A i \in 1..Len(q) : i \in 1..Len(es) \/ (i = Len(q) /\ q[i] = e)
OBVIOUS

LEMMA OfFacts ==
  /\ \A t : Of(<<>>, t) = 0
  /\ \A es \in Seq(Entry) : \A t : Of(es, t) \in Nat
  /\ \A es \in Seq(Entry), e \in Entry : \A t :
       Of(Append(es, e), t) = IF e.scope = t THEN Of(es, t) + 1 ELSE Of(es, t)
<1>1. ASSUME NEW t PROVE Of(<<>>, t) = 0
  <2>1. {i \in DOMAIN <<>> : <<>>[i].scope = t} = {}
    OBVIOUS
  <2>. QED  BY <2>1, FS_EmptySet DEF Of
<1>2. ASSUME NEW es \in Seq(Entry), NEW t
      PROVE  /\ Of(es, t) \in Nat /\ IsFiniteSet({i \in DOMAIN es : es[i].scope = t})
             /\ DOMAIN es = 1..Len(es)
  <2> DEFINE S == {i \in DOMAIN es : es[i].scope = t}
  <2>1. IsFiniteSet(1..Len(es)) /\ S \subseteq 1..Len(es) /\ DOMAIN es = 1..Len(es)
    BY HighestIsLast
  <2> HIDE DEF S
  <2>2. IsFiniteSet(S) /\ Cardinality(S) \in Nat
    BY <2>1, FS_Subset, FS_CardinalityType
  <2>. QED  BY <2>1, <2>2 DEF S, Of
<1>3. ASSUME NEW es \in Seq(Entry), NEW e \in Entry, NEW t
      PROVE  Of(Append(es, e), t) = IF e.scope = t THEN Of(es, t) + 1 ELSE Of(es, t)
  <2> DEFINE q == Append(es, e)
             n == Len(es)
             S == {i \in DOMAIN es : es[i].scope = t}
             U == {i \in DOMAIN q : q[i].scope = t}
  <2>1. n \in Nat /\ DOMAIN es = 1..n /\ DOMAIN q = 1..(n + 1) /\ q[n + 1] = e
        /\ \A i \in 1..n : q[i] = es[i]
    OBVIOUS
  <2>2. IsFiniteSet(S) /\ n + 1 \notin S
    <3>1. IsFiniteSet(S)
      BY <1>2
    <3>2. n + 1 \notin 1..n /\ S \subseteq 1..n
      BY <2>1
    <3>. QED  BY <3>1, <3>2
  <2>3. U = IF e.scope = t THEN S \cup {n + 1} ELSE S
    BY <2>1
  <2> HIDE DEF q, n, S, U
  <2>4. Cardinality(S \cup {n + 1}) = Cardinality(S) + 1
    BY <2>2, FS_AddElement
  <2>. QED  BY <2>3, <2>4 DEF Of, q, S, U
<1>. QED  BY <1>1, <1>2, <1>3

\* What dropScope keeps: the entries of the other scopes, all of them, in order.
Keeps(es, s) ==
  LET w == Without(es, s) IN
  /\ w \in Seq(Entry) /\ Len(w) <= Len(es)
  /\ \A i \in 1..Len(w) : w[i].scope # s
  /\ \A n : Below(es, n) => Below(w, n)
  /\ Rising(es) => Rising(w)
  /\ \A t : t # s => Of(w, t) = Of(es, t)

LEMMA KeepsNext ==
  ASSUME NEW es \in Seq(Entry), NEW e \in Entry, NEW s, Keeps(es, s)
  PROVE  Keeps(Append(es, e), s)
<1> DEFINE w == Without(es, s)
           q == Append(es, e)
           v == Without(q, s)
<1>1. v = Keep(s, w, e)
  BY WithoutStep
<1>2. /\ w \in Seq(Entry) /\ Len(w) <= Len(es)
      /\ \A i \in 1..Len(w) : w[i].scope # s
      /\ \A n : Below(es, n) => Below(w, n)
      /\ Rising(es) => Rising(w)
      /\ \A t : t # s => Of(w, t) = Of(es, t)
  BY DEF Keeps
<1>3. /\ q \in Seq(Entry) /\ Len(es) \in Nat /\ Len(q) = Len(es) + 1
      /\ \A i \in 1..Len(es) : q[i] = es[i]
      /\ q[Len(q)] = e
  BY AppendEntry
<1>4. \A t : Of(q, t) = IF e.scope = t THEN Of(es, t) + 1 ELSE Of(es, t)
  BY OfFacts
<1>5. (\A n : Below(q, n) => Below(es, n)) /\ (Rising(q) => Rising(es))
  BY <1>3 DEF Below, Rising
<1>6. Len(w) \in Nat /\ e.seq \in Nat
  BY <1>2 DEF Entry
<1>7. CASE e.scope = s
  <2>1. v = w
    BY <1>1, <1>7 DEF Keep
  <2> HIDE DEF w, v, q
  <2>. QED  BY <1>2, <1>3, <1>4, <1>5, <1>6, <1>7, <2>1 DEF Keeps, q, v
<1>8. CASE e.scope # s
  <2>1. v = Append(w, e)
    BY <1>1, <1>8 DEF Keep
  <2>2. \A t : Of(v, t) = IF e.scope = t THEN Of(w, t) + 1 ELSE Of(w, t)
    BY <1>2, <2>1, OfFacts
  <2> HIDE DEF w, v, q
  <2>3. /\ v \in Seq(Entry) /\ Len(v) = Len(w) + 1
        /\ \A i \in 1..Len(w) : v[i] = w[i]
        /\ \A i \in 1..Len(v) : i \in 1..Len(w) \/ (i = Len(v) /\ v[i] = e)
    BY <1>2, <2>1, AppendEntry
  <2>4. \A i \in 1..Len(v) : v[i].scope # s
    BY <1>2, <1>8, <2>3
  <2>5. \A n : Below(q, n) => Below(v, n)
    <3> SUFFICES ASSUME NEW n, Below(q, n)  PROVE Below(v, n)
      OBVIOUS
    <3>1. Below(w, n)
      BY <1>2, <1>5
    <3>2. e.seq <= n
      <4>1. Len(q) \in 1..Len(q)
        BY <1>3
      <4>. QED  BY <1>3, <4>1 DEF Below
    <3>. QED  BY <2>3, <3>1, <3>2 DEF Below
  <2>6. ASSUME Rising(q) PROVE Rising(v)
    <3>1. Rising(w)
      BY <1>2, <1>5, <2>6
    <3>2. Below(es, e.seq - 1)
      <4> SUFFICES ASSUME NEW i \in 1..Len(es)  PROVE es[i].seq <= e.seq - 1
        BY DEF Below
      <4>1. i \in 1..Len(q) /\ Len(q) \in 1..Len(q) /\ i < Len(q)
        BY <1>3
      <4>2. q[i].seq < q[Len(q)].seq
        BY <2>6, <4>1 DEF Rising
      <4>3. es[i] \in Entry
        OBVIOUS
      <4>4. es[i].seq \in Nat
        BY <4>3 DEF Entry
      <4>. QED  BY <1>3, <1>6, <4>2, <4>4
    <3>3. Below(w, e.seq - 1)
      BY <1>2, <3>2
    <3>4. \A i \in 1..Len(w) : w[i].seq \in Nat /\ w[i].seq < e.seq
      <4> SUFFICES ASSUME NEW i \in 1..Len(w)  PROVE w[i].seq \in Nat /\ w[i].seq < e.seq
        OBVIOUS
      <4>1. w[i] \in Entry
        BY <1>2
      <4>2. w[i].seq \in Nat /\ w[i].seq <= e.seq - 1
        BY <3>3, <4>1 DEF Entry, Below
      <4>. QED  BY <1>6, <4>2
    <3>5. Rising(v)
      <4> SUFFICES ASSUME NEW i \in 1..Len(v), NEW j \in 1..Len(v), i < j
                   PROVE  v[i].seq < v[j].seq
        BY DEF Rising
      <4>1. i \in 1..Len(w) /\ v[i] = w[i]
        BY <1>6, <2>3
      <4>2. CASE j \in 1..Len(w)
        BY <2>3, <3>1, <4>1, <4>2 DEF Rising
      <4>3. CASE v[j] = e
        BY <3>4, <4>1, <4>3
      <4>. QED  BY <2>3, <4>2, <4>3
    <3>. QED  BY <3>5
  <2>7. \A t : t # s => Of(v, t) = Of(q, t)
    BY <1>2, <1>4, <2>2
  <2>8. Len(v) <= Len(q)
    BY <1>2, <1>3, <1>6, <2>3
  <2>. QED  BY <2>3, <2>4, <2>5, <2>6, <2>7, <2>8 DEF Keeps, q, v
<1>. QED  BY <1>7, <1>8

LEMMA WithoutKeeps == \A es \in Seq(Entry) : \A s : Keeps(es, s)
<1> DEFINE G == {n \in Nat : \A es \in Seq(Entry) : \A s : Len(es) = n => Keeps(es, s)}
<1>1. 0 \in G
  <2> SUFFICES ASSUME NEW es \in Seq(Entry), NEW s, Len(es) = 0  PROVE Keeps(es, s)
    OBVIOUS
  <2>1. es = <<>> /\ 1..Len(<<>>) = {} /\ <<>> \in Seq(Entry) /\ Len(<<>>) <= Len(<<>>)
    OBVIOUS
  <2>2. Without(<<>>, s) = <<>>
    BY WithoutStep
  <2>. QED  BY <2>1, <2>2 DEF Keeps, Below, Rising
<1>2. ASSUME NEW n \in Nat, n \in G PROVE n + 1 \in G
  <2> SUFFICES ASSUME NEW q \in Seq(Entry), NEW s, Len(q) = n + 1  PROVE Keeps(q, s)
    OBVIOUS
  <2> DEFINE es == SubSeq(q, 1, n)
  <2>1. es \in Seq(Entry) /\ Len(es) = n /\ q[n + 1] \in Entry /\ q = Append(es, q[n + 1])
    OBVIOUS
  <2> HIDE DEF es
  <2>2. Keeps(es, s)
    BY <1>2, <2>1
  <2>. QED  BY <2>1, <2>2, KeepsNext
<1> HIDE DEF G
<1>3. \A n \in Nat : n \in G
  BY <1>1, <1>2, Keeping!NumberInduction
<1>. QED  BY <1>3 DEF G

-----------------------------------------------------------------------------
(* The inductive invariant                                                   *)

ToForget == {"forget journal", "forget faults", "forget rules", "forget recordings"}

Windows(list) == [DOMAIN list -> [WindowKey -> Nat]]

Types ==
  /\ seen \in [Scope -> Nat] /\ tick \in Nat
  /\ consumed = [w \in {"fault", "rule"} |-> consumed[w]]
  /\ consumed["fault"] \in Windows(Faults) /\ consumed["rule"] \in Windows(Rules)
  /\ served = [s \in Name |-> served[s]]
  /\ journal \in [entries : Seq(Entry), seq : Nat, evicted : Nat]
  /\ at = [c \in Client |-> at[c]] /\ answer = [c \in Client |-> answer[c]]
  /\ request = [c \in Client |-> request[c]] /\ victim \in [Client -> Scope \cup {None}]
  /\ \A c \in Client : /\ at[c] # "idle" => request[c] \in Request
                       /\ at[c] \in ToForget <=> victim[c] # None
  /\ history \in [Name -> Seq(Request)] /\ answers = [s \in Name |-> answers[s]]
  /\ clean \in [Name -> BOOLEAN] /\ crowded \in BOOLEAN
  /\ recorded \in [Name -> Nat]

\* The journal j, of which n unscoped entries were recorded.
Honest(j, n) ==
  /\ Rising(j.entries) /\ Below(j.entries, j.seq) /\ Len(j.entries) <= MaxJournal
  /\ j.evicted = 0 => Of(j.entries, NoScope) = n

NoEntries(es, s) == \A i \in 1..Len(es) : es[i].scope # s
NoKeys(windows, s) == \A i \in DOMAIN windows : \A k \in WindowKey : k[1] = s => windows[i][k] = 0

\* Someone has yet to forget s, and has come no further than these steps.
Awaits(s, steps) == \E d \in Client : victim[d] = s /\ at[d] \in steps

\* A scope that is not registered is forgotten table by table.
Gone(s) ==
  clean[s] /\ s \notin Known =>
    /\ InFlight(s) = {}
    /\ history[s] = <<>> /\ answers[s] = <<>>
    /\ Awaits(s, {"forget journal"}) \/ NoEntries(journal.entries, s)
    /\ Awaits(s, {"forget journal", "forget faults"}) \/ NoKeys(consumed["fault"], s)
    /\ Awaits(s, ToForget \ {"forget recordings"}) \/ NoKeys(consumed["rule"], s)
    /\ Awaits(s, ToForget) \/ served[s] = {}

\* No table of windows is full.
Roomy == crowded \/ (~Full(consumed["fault"]) /\ ~Full(consumed["rule"]))

\* What the scope s has to itself.
Mine(windows, s) ==
  [i \in DOMAIN windows |-> [k \in WindowKey |-> IF k[1] = s THEN windows[i][k] ELSE 0]]

State(fault, rule, marks, given) ==
  [fault |-> fault, rule |-> rule, marks |-> marks, answers |-> given]

Own(s) == State(Mine(consumed["fault"], s), Mine(consumed["rule"], s), served[s], answers[s])

\* Where the sandbox of a scope ends up when the request rq, which has come as
\* far as `step` with the answer `said`, meets no other request on its way.
Rest(step, rq, said, st) ==
  CASE step = "rules" ->
         LET r == RuleAnswer(st.rule, rq)
             hit == Match(st.marks, rq)
         IN State(st.fault, AfterRules(st.rule, rq), IF r = None THEN hit.marks ELSE st.marks,
                  Append(st.answers, IF r = None THEN hit.answer ELSE r))
    [] step = "recordings" ->
         LET hit == Match(st.marks, rq)
         IN State(st.fault, st.rule, hit.marks, Append(st.answers, hit.answer))
    [] step = "record" -> State(st.fault, st.rule, st.marks, Append(st.answers, said))
    [] step \in ToForget \cup {"faults"} -> Alone(st, rq)
    [] OTHER -> st

\* A scope that has had the sandbox to itself is where its requests would have
\* brought it alone, or will be there when the one under way is answered.
Undisturbed(s) ==
  clean[s] /\ ~crowded /\ (s = NoScope \/ s \in Known) =>
    /\ InFlight(s) = {} => Own(s) = Replayed(history[s])
    /\ \A c \in InFlight(s) : Rest(at[c], request[c], answer[c], Own(s)) = Replayed(history[s])

\* Nobody forgets a registered scope, or serves two requests of it.
Single(s) ==
  clean[s] /\ (s = NoScope \/ s \in Known) =>
    Forgetting(s) = {} /\ \A c, d \in InFlight(s) : c = d

IInv ==
  /\ Types /\ Roomy /\ Honest(journal, recorded[NoScope])
  /\ \A s \in Scope : Gone(s)
  /\ \A s \in Name : Single(s) /\ Undisturbed(s)

-----------------------------------------------------------------------------
(* Facts about the operators                                                 *)

Journal == [entries : Seq(Entry), seq : Nat, evicted : Nat]

\* Recording one more entry in a journal that may be full.
LEMMA RecordedFacts ==
  ASSUME ScopesAssumption, NEW j \in Journal, NEW s \in Name, NEW n \in Nat
  PROVE  /\ Recorded(j, s) \in Journal
         /\ Honest(j, n) => Honest(Recorded(j, s), IF s = NoScope THEN n + 1 ELSE n)
         /\ \A t : t # s /\ NoEntries(j.entries, t) => NoEntries(Recorded(j, s).entries, t)
<1> DEFINE es == j.entries
           e == [scope |-> s, seq |-> j.seq + 1]
           q == Append(es, e)
           extra == IF Len(q) > MaxJournal THEN Len(q) - MaxJournal ELSE 0
           w == SubSeq(q, extra + 1, Len(q))
           r == Recorded(j, s)
<1>1. es \in Seq(Entry) /\ j.seq \in Nat /\ j.evicted \in Nat
  BY DEF Journal
<1>2. e \in Entry /\ e.seq = j.seq + 1 /\ e.scope = s
  BY <1>1 DEF Entry
<1>3. r.entries = w /\ r.seq = j.seq + 1 /\ r.evicted = j.evicted + extra
      /\ r = [entries |-> w, seq |-> j.seq + 1, evicted |-> j.evicted + extra]
  BY DEF Recorded
<1> HIDE DEF e, r
<1>4. /\ q \in Seq(Entry) /\ Len(es) \in Nat /\ Len(q) = Len(es) + 1
      /\ \A i \in 1..Len(es) : q[i] = es[i]
      /\ \A i \in 1..Len(q) : i \in 1..Len(es) \/ (i = Len(q) /\ q[i] = e)
  BY <1>1, <1>2, AppendEntry
<1>m. MaxJournal \in Nat \ {0}
  BY DEF ScopesAssumption
<1> HIDE DEF q, es
<1>5. /\ extra \in Nat /\ extra <= Len(q)
      /\ extra = 0 => Len(q) <= MaxJournal
      /\ Len(q) - extra <= MaxJournal
  BY <1>4, <1>m
<1> HIDE DEF extra
<1>6. /\ w \in Seq(Entry) /\ Len(w) = Len(q) - extra
      /\ \A i \in 1..Len(w) : w[i] = q[i + extra] /\ i + extra \in 1..Len(q)
      /\ extra = 0 => w = q
  <2>1. extra + 1 \in 1..(Len(q) + 1) /\ Len(q) \in Nat
    BY <1>4, <1>5
  <2>2. w \in Seq(Entry) /\ Len(w) = Len(q) - extra
    BY <1>4, <1>5, <2>1
  <2>3. \A i \in 1..Len(w) : w[i] = q[i + extra] /\ i + extra \in 1..Len(q)
    BY <1>4, <1>5, <2>1, <2>2
  <2>4. extra = 0 => w = q
    BY <1>4, <1>5, <2>1, <2>2, <2>3
  <2>. QED  BY <2>2, <2>3, <2>4
<1> HIDE DEF w
<1>7. r \in Journal
  BY <1>1, <1>3, <1>5, <1>6 DEF Journal
<1>8. ASSUME Honest(j, n)
      PROVE  Honest(r, IF s = NoScope THEN n + 1 ELSE n)
  <2>1. Rising(es) /\ Below(es, j.seq)
    BY <1>8 DEF Honest, es
  <2>2. \A i \in 1..Len(q) : q[i].seq \in Nat /\ q[i].seq <= j.seq + 1
    <3> SUFFICES ASSUME NEW i \in 1..Len(q)  PROVE q[i].seq \in Nat /\ q[i].seq <= j.seq + 1
      OBVIOUS
    <3>1. q[i].seq \in Nat
      <4>1. q[i] \in Entry
        BY <1>4
      <4>. QED  BY <4>1 DEF Entry
    <3>2. CASE i \in 1..Len(es)
      BY <1>1, <1>4, <2>1, <3>1, <3>2 DEF Below
    <3>. QED  BY <1>1, <1>2, <1>4, <3>1, <3>2
  <2>3. Rising(q)
    <3> SUFFICES ASSUME NEW i \in 1..Len(q), NEW k \in 1..Len(q), i < k
                 PROVE  q[i].seq < q[k].seq
      BY DEF Rising
    <3>1. i \in 1..Len(es) /\ q[i] = es[i]
      BY <1>4
    <3>2. CASE k \in 1..Len(es)
      BY <1>4, <2>1, <3>1, <3>2 DEF Rising
    <3>3. CASE q[k] = e
      <4>1. q[i].seq <= j.seq /\ q[i].seq \in Nat
        BY <2>1, <2>2, <3>1 DEF Below
      <4>. QED  BY <1>1, <1>2, <3>3, <4>1
    <3>. QED  BY <1>4, <3>2, <3>3
  <2>4. Rising(w)
    <3> SUFFICES ASSUME NEW i \in 1..Len(w), NEW k \in 1..Len(w), i < k
                 PROVE  w[i].seq < w[k].seq
      BY DEF Rising
    <3>1. i + extra < k + extra
      BY <1>5
    <3>. QED  BY <1>6, <2>3, <3>1 DEF Rising
  <2>5. Below(w, j.seq + 1)
    BY <1>6, <2>2 DEF Below
  <2>6. Len(w) <= MaxJournal
    BY <1>5, <1>6
  <2>7. j.evicted + extra = 0 => Of(w, NoScope) = IF s = NoScope THEN n + 1 ELSE n
    <3> SUFFICES ASSUME j.evicted + extra = 0
                 PROVE  Of(w, NoScope) = IF s = NoScope THEN n + 1 ELSE n
      OBVIOUS
    <3>1. j.evicted = 0 /\ w = q
      BY <1>1, <1>5, <1>6
    <3>2. Of(es, NoScope) = n
      BY <1>8, <3>1 DEF Honest, es
    <3>3. Of(q, NoScope) = IF e.scope = NoScope THEN Of(es, NoScope) + 1 ELSE Of(es, NoScope)
      BY <1>1, <1>2, OfFacts DEF q
    <3>. QED  BY <1>2, <3>1, <3>2, <3>3
  <2>. QED  BY <1>3, <2>4, <2>5, <2>6, <2>7 DEF Honest
<1>9. ASSUME NEW t, t # s, NoEntries(es, t)  PROVE NoEntries(w, t)
  <2>1. \A i \in 1..Len(q) : q[i].scope # t
    BY <1>2, <1>4, <1>9 DEF NoEntries
  <2>. QED  BY <1>6, <2>1 DEF NoEntries
<1>. QED  BY <1>3, <1>7, <1>8, <1>9 DEF r, es

-----------------------------------------------------------------------------
(* Windows                                                                   *)

LEMMA Keys ==
  ASSUME ScopesAssumption
  PROVE  /\ IsFiniteSet(WindowKey)
         /\ \A rq \in Request : \A per : KeyOf(per, rq) \in WindowKey /\ KeyOf(per, rq)[1] = rq.scope
<1>1. IsFiniteSet(Name)
  BY FS_AddElement DEF ScopesAssumption, Name
<1>2. IsFiniteSet(IdemKey \cup {None})
  BY FS_AddElement DEF ScopesAssumption
<1>3. IsFiniteSet(WindowKey)
  BY <1>1, <1>2, FS_Product DEF WindowKey
<1>. QED  BY <1>3 DEF KeyOf, WindowKey, Request

\* Only the window of the rule that fired counts the request.
LEMMA AfterRulesIs ==
  ASSUME NEW ws, NEW rq
  PROVE  AfterRules(ws, rq) =
           IF FiredRule(ws, rq) = 0 THEN ws
           ELSE [i \in DOMAIN ws |->
                   IF i = FiredRule(ws, rq)
                   THEN [ws[i] EXCEPT ![KeyOf(Rules[FiredRule(ws, rq)].per, rq)] = @ + 1]
                   ELSE ws[i]]
BY DEF AfterRules

\* Every step leaves windows that count.
LEMMA WindowTypes ==
  ASSUME ScopesAssumption
  PROVE  /\ NoWindows = [w \in {"fault", "rule"} |-> NoWindows[w]]
         /\ NoWindows["fault"] \in Windows(Faults) /\ NoWindows["rule"] \in Windows(Rules)
         /\ \A ws \in Windows(Faults), rq \in Request : AfterFaults(ws, rq) \in Windows(Faults)
         /\ \A ws \in Windows(Rules), rq \in Request : AfterRules(ws, rq) \in Windows(Rules)
         /\ \A ws \in Windows(Faults) : \A s : Dropped(ws, s) \in Windows(Faults)
         /\ \A ws \in Windows(Rules) : \A s : Dropped(ws, s) \in Windows(Rules)
<1>1. ASSUME NEW ws \in Windows(Faults), NEW rq \in Request
      PROVE  AfterFaults(ws, rq) \in Windows(Faults)
  <2>1. ASSUME NEW i \in DOMAIN Faults
        PROVE  [ws[i] EXCEPT ![KeyOf(Faults[i].per, rq)] = @ + 1] \in [WindowKey -> Nat]
               /\ ws[i] \in [WindowKey -> Nat]
    <3>1. ws[i] \in [WindowKey -> Nat]
      BY DEF Windows
    <3>2. KeyOf(Faults[i].per, rq) \in WindowKey
      BY Keys
    <3>. QED  BY <3>1, <3>2
  <2>. QED  BY <2>1 DEF Windows, AfterFaults
<1>2. ASSUME NEW ws \in Windows(Rules), NEW rq \in Request
      PROVE  AfterRules(ws, rq) \in Windows(Rules)
  <2>1. ASSUME NEW i \in DOMAIN Rules, NEW per
        PROVE  [ws[i] EXCEPT ![KeyOf(per, rq)] = @ + 1] \in [WindowKey -> Nat]
               /\ ws[i] \in [WindowKey -> Nat]
    <3>1. ws[i] \in [WindowKey -> Nat]
      BY DEF Windows
    <3>2. KeyOf(per, rq) \in WindowKey
      BY Keys
    <3>. QED  BY <3>1, <3>2
  <2>2. DOMAIN ws = DOMAIN Rules
    BY DEF Windows
  <2>. QED  BY <2>1, <2>2, AfterRulesIs DEF Windows
<1>3. /\ \A ws \in Windows(Faults) : \A s : Dropped(ws, s) \in Windows(Faults)
      /\ \A ws \in Windows(Rules) : \A s : Dropped(ws, s) \in Windows(Rules)
  BY DEF Windows, Dropped
<1>4. /\ NoWindows["fault"] \in Windows(Faults) /\ NoWindows["rule"] \in Windows(Rules)
      /\ NoWindows = [w \in {"fault", "rule"} |-> NoWindows[w]]
  BY DEF NoWindows, Windows
<1>. QED  BY <1>1, <1>2, <1>3, <1>4

\* No step of a request counts for another scope.
LEMMA OtherKeys ==
  ASSUME ScopesAssumption, NEW rq \in Request, NEW k \in WindowKey, k[1] # rq.scope
  PROVE  /\ \A ws \in Windows(Faults) : \A i \in DOMAIN Faults : AfterFaults(ws, rq)[i][k] = ws[i][k]
         /\ \A ws \in Windows(Rules) : \A i \in DOMAIN Rules : AfterRules(ws, rq)[i][k] = ws[i][k]
<1>1. ASSUME NEW f \in [WindowKey -> Nat], NEW per
      PROVE  [f EXCEPT ![KeyOf(per, rq)] = @ + 1][k] = f[k]
  BY Keys
<1>2. ASSUME NEW ws \in Windows(Faults), NEW i \in DOMAIN Faults
      PROVE  AfterFaults(ws, rq)[i][k] = ws[i][k]
  <2>1. ws[i] \in [WindowKey -> Nat]
    BY DEF Windows
  <2>2. [ws[i] EXCEPT ![KeyOf(Faults[i].per, rq)] = @ + 1][k] = ws[i][k]
    BY <1>1, <2>1
  <2>3. AfterFaults(ws, rq)[i] = ws[i]
        \/ AfterFaults(ws, rq)[i] = [ws[i] EXCEPT ![KeyOf(Faults[i].per, rq)] = @ + 1]
    BY DEF AfterFaults
  <2>. QED  BY <2>2, <2>3
<1>3. ASSUME NEW ws \in Windows(Rules), NEW i \in DOMAIN Rules
      PROVE  AfterRules(ws, rq)[i][k] = ws[i][k]
  <2> DEFINE per == Rules[FiredRule(ws, rq)].per
  <2>1. ws[i] \in [WindowKey -> Nat] /\ DOMAIN ws = DOMAIN Rules
    BY DEF Windows
  <2>2. [ws[i] EXCEPT ![KeyOf(per, rq)] = @ + 1][k] = ws[i][k]
    BY <1>1, <2>1
  <2>3. AfterRules(ws, rq)[i] = ws[i]
        \/ AfterRules(ws, rq)[i] = [ws[i] EXCEPT ![KeyOf(per, rq)] = @ + 1]
    BY <2>1, AfterRulesIs
  <2>. QED  BY <2>2, <2>3
<1>. QED  BY <1>2, <1>3

\* What forgetting a scope leaves, and what it does not touch.
LEMMA DroppedFacts ==
  ASSUME ScopesAssumption, NEW list, NEW ws \in Windows(list), NEW v
  PROVE  /\ NoKeys(Dropped(ws, v), v)
         /\ \A s : NoKeys(ws, s) => NoKeys(Dropped(ws, v), s)
         /\ \A s : s # v => Mine(Dropped(ws, v), s) = Mine(ws, s)
         /\ Full(Dropped(ws, v)) => Full(ws)
<1> DEFINE d == Dropped(ws, v)
<1>1. DOMAIN d = DOMAIN ws /\ \A i \in DOMAIN ws : \A k \in WindowKey :
                                  d[i][k] = IF k[1] = v THEN 0 ELSE ws[i][k]
  BY DEF Dropped
<1>2. \A i \in DOMAIN ws : d[i] = [k \in WindowKey |-> d[i][k]] /\ ws[i] \in [WindowKey -> Nat]
  BY DEF Dropped, Windows
<1> HIDE DEF d
<1>3. NoKeys(d, v)
  BY <1>1 DEF NoKeys
<1>4. ASSUME NEW s, NoKeys(ws, s)  PROVE NoKeys(d, s)
  BY <1>1, <1>4 DEF NoKeys
<1>5. ASSUME NEW s, s # v  PROVE Mine(d, s) = Mine(ws, s)
  BY <1>1, <1>5 DEF Mine
<1>6. ASSUME Full(d)  PROVE Full(ws)
  <2>1. PICK i \in DOMAIN ws : Cardinality(KeysIn(d[i])) >= MaxKeys
    BY <1>1, <1>6 DEF Full
  <2> DEFINE S == KeysIn(ws[i])
             T == KeysIn(d[i])
  <2>2. IsFiniteSet(S) /\ T \in SUBSET S
    <3>1. S \subseteq WindowKey /\ T \subseteq S
      BY <1>1 DEF KeysIn
    <3>. QED  BY <3>1, Keys, FS_Subset
  <2> HIDE DEF S, T
  <2>3. IsFiniteSet(T) /\ Cardinality(T) <= Cardinality(S)
    BY <2>2, FS_Subset
  <2>4. Cardinality(S) \in Nat /\ Cardinality(T) \in Nat /\ MaxKeys \in Nat
    BY <2>2, <2>3, FS_CardinalityType DEF ScopesAssumption
  <2>5. Cardinality(T) >= MaxKeys
    BY <2>1 DEF T
  <2>6. Cardinality(S) >= MaxKeys
    BY <2>3, <2>4, <2>5
  <2>. QED  BY <2>6 DEF Full, S
<1>. QED  BY <1>3, <1>4, <1>5, <1>6 DEF d

\* A window that counts nothing is not full.
LEMMA NoWindowsFacts ==
  ASSUME ScopesAssumption
  PROVE  /\ ~Full(NoWindows["fault"]) /\ ~Full(NoWindows["rule"])
         /\ \A s : NoKeys(NoWindows["fault"], s) /\ NoKeys(NoWindows["rule"], s)
         /\ \A s : \A ws \in Windows(Faults) : NoKeys(ws, s) => Mine(ws, s) = NoWindows["fault"]
         /\ \A s : \A ws \in Windows(Rules) : NoKeys(ws, s) => Mine(ws, s) = NoWindows["rule"]
<1>1. \A ws : (\A i \in DOMAIN ws : \A k \in WindowKey : ws[i][k] = 0) => ~Full(ws)
  <2> SUFFICES ASSUME NEW ws, \A i \in DOMAIN ws : \A k \in WindowKey : ws[i][k] = 0,
                      NEW i \in DOMAIN ws
               PROVE  ~(Cardinality(KeysIn(ws[i])) >= MaxKeys)
    BY DEF Full
  <2>1. KeysIn(ws[i]) = {}
    BY DEF KeysIn
  <2>2. Cardinality({}) = 0 /\ MaxKeys \in Nat \ {0}
    BY FS_EmptySet DEF ScopesAssumption
  <2>. QED  BY <2>1, <2>2
<1>2. /\ \A i \in DOMAIN NoWindows["fault"] : \A k \in WindowKey : NoWindows["fault"][i][k] = 0
      /\ \A i \in DOMAIN NoWindows["rule"] : \A k \in WindowKey : NoWindows["rule"][i][k] = 0
  BY DEF NoWindows
<1>3. ASSUME NEW s, NEW ws \in Windows(Faults), NoKeys(ws, s)
      PROVE  Mine(ws, s) = NoWindows["fault"]
  BY <1>3 DEF NoKeys, Mine, NoWindows, Windows
<1>4. ASSUME NEW s, NEW ws \in Windows(Rules), NoKeys(ws, s)
      PROVE  Mine(ws, s) = NoWindows["rule"]
  BY <1>4 DEF NoKeys, Mine, NoWindows, Windows
<1>. QED  BY <1>1, <1>2, <1>3, <1>4 DEF NoKeys

\* While its table has room, whether a window is open depends on the scope alone.
LEMMA OwnFires ==
  ASSUME ScopesAssumption, NEW list, NEW ws \in Windows(list), ~Full(ws), NEW s,
         NEW i \in DOMAIN list, NEW k \in WindowKey, k[1] = s, NEW times
  PROVE  Fires(Mine(ws, s)[i], times, k) <=> Fires(ws[i], times, k)
<1> DEFINE w == ws[i]
           m == Mine(ws, s)[i]
<1>1. w \in [WindowKey -> Nat] /\ DOMAIN ws = DOMAIN list
  BY DEF Windows
<1>2. \A x \in WindowKey : m[x] = IF x[1] = s THEN w[x] ELSE 0
  BY <1>1 DEF Mine
<1> DEFINE S == KeysIn(w)
           T == KeysIn(m)
<1>3. IsFiniteSet(S) /\ T \in SUBSET S
  <2>1. S \subseteq WindowKey /\ T \subseteq S
    BY <1>2 DEF KeysIn
  <2>. QED  BY <2>1, Keys, FS_Subset
<1>4. ~(Cardinality(S) >= MaxKeys)
  BY <1>1 DEF Full
<1> HIDE DEF S, T
<1>5. IsFiniteSet(T) /\ Cardinality(T) <= Cardinality(S)
  BY <1>3, FS_Subset
<1>6. Cardinality(S) \in Nat /\ Cardinality(T) \in Nat /\ MaxKeys \in Nat
  BY <1>3, <1>5, FS_CardinalityType DEF ScopesAssumption
<1>7. Cardinality(S) < MaxKeys /\ Cardinality(T) < MaxKeys
  BY <1>4, <1>5, <1>6
<1>8. m[k] = w[k]
  BY <1>2
<1> HIDE DEF w, m
<1>9. Fires(m, times, k) <=> Fires(w, times, k)
  BY <1>7, <1>8 DEF Fires, S, T
<1>. QED  BY <1>9 DEF w, m

\* The fault step of a request, seen from its scope and from another one.
LEMMA OwnFaults ==
  ASSUME ScopesAssumption, NEW ws \in Windows(Faults), NEW rq \in Request
  PROVE  /\ ~Full(ws) =>
              /\ FaultAnswer(Mine(ws, rq.scope), rq) = FaultAnswer(ws, rq)
              /\ AfterFaults(Mine(ws, rq.scope), rq) = Mine(AfterFaults(ws, rq), rq.scope)
         /\ \A t : t # rq.scope =>
              /\ Mine(AfterFaults(ws, rq), t) = Mine(ws, t)
              /\ NoKeys(ws, t) => NoKeys(AfterFaults(ws, rq), t)
<1> DEFINE s == rq.scope
           m == Mine(ws, s)
<1>1. DOMAIN ws = DOMAIN Faults /\ \A i \in DOMAIN Faults : ws[i] \in [WindowKey -> Nat]
  BY DEF Windows
<1>2. DOMAIN m = DOMAIN Faults /\ \A i \in DOMAIN Faults : \A k \in WindowKey :
                                     m[i][k] = IF k[1] = s THEN ws[i][k] ELSE 0
  BY <1>1 DEF Mine
<1>3. \A i \in DOMAIN Faults : m[i] = [k \in WindowKey |-> m[i][k]]
  BY <1>1 DEF Mine
<1>4. ASSUME ~Full(ws)
      PROVE  /\ FaultAnswer(m, rq) = FaultAnswer(ws, rq)
             /\ AfterFaults(m, rq) = Mine(AfterFaults(ws, rq), s)
  <2> DEFINE key(i) == KeyOf(Faults[i].per, rq)
             F == FiredFaults(ws, rq)
             x == AfterFaults(ws, rq)
  <2>1. \A i : key(i) \in WindowKey /\ key(i)[1] = s
    BY Keys
  <2>2. \A i \in DOMAIN Faults : Fires(m[i], Faults[i].times, key(i))
                                 <=> Fires(ws[i], Faults[i].times, key(i))
    BY <1>4, <2>1, OwnFires
  <2>3. FiredFaults(m, rq) = F
    BY <2>2 DEF FiredFaults
  <2>4. FaultAnswer(m, rq) = FaultAnswer(ws, rq)
    BY <2>3 DEF FaultAnswer
  <2>5. DOMAIN x = DOMAIN Faults /\ \A i \in DOMAIN Faults : \A k \in WindowKey :
          x[i][k] = IF i \in F /\ k = key(i) THEN ws[i][k] + 1 ELSE ws[i][k]
    BY <1>1 DEF AfterFaults
  <2>6. \A i \in DOMAIN Faults :
          [m[i] EXCEPT ![key(i)] = @ + 1]
            = [k \in WindowKey |-> IF k = key(i) THEN m[i][k] + 1 ELSE m[i][k]]
    BY <1>3
  <2>7. AfterFaults(m, rq)
          = [i \in DOMAIN Faults |-> [k \in WindowKey |->
               IF i \in F /\ k = key(i) THEN m[i][k] + 1 ELSE m[i][k]]]
    BY <1>3, <2>3, <2>6 DEF AfterFaults
  <2>8. Mine(x, s)
          = [i \in DOMAIN Faults |-> [k \in WindowKey |-> IF k[1] = s THEN x[i][k] ELSE 0]]
    BY <2>5 DEF Mine
  <2> HIDE DEF m, x, key, F, s
  <2>9. \A i \in DOMAIN Faults : \A k \in WindowKey :
          (IF i \in F /\ k = key(i) THEN m[i][k] + 1 ELSE m[i][k])
            = IF k[1] = s THEN x[i][k] ELSE 0
    BY <1>2, <2>1, <2>5
  <2>. QED  BY <2>4, <2>7, <2>8, <2>9 DEF x
<1>5. ASSUME NEW t, t # s
      PROVE  /\ Mine(AfterFaults(ws, rq), t) = Mine(ws, t)
             /\ NoKeys(ws, t) => NoKeys(AfterFaults(ws, rq), t)
  <2>1. DOMAIN AfterFaults(ws, rq) = DOMAIN Faults
    BY DEF AfterFaults
  <2>2. \A i \in DOMAIN Faults : \A k \in WindowKey :
          k[1] = t => AfterFaults(ws, rq)[i][k] = ws[i][k]
    BY <1>5, OtherKeys
  <2>. QED  BY <1>1, <2>1, <2>2 DEF Mine, NoKeys
<1>. QED  BY <1>4, <1>5

\* The same for the rule step.
LEMMA OwnRules ==
  ASSUME ScopesAssumption, NEW ws \in Windows(Rules), NEW rq \in Request
  PROVE  /\ ~Full(ws) =>
              /\ RuleAnswer(Mine(ws, rq.scope), rq) = RuleAnswer(ws, rq)
              /\ AfterRules(Mine(ws, rq.scope), rq) = Mine(AfterRules(ws, rq), rq.scope)
         /\ \A t : t # rq.scope =>
              /\ Mine(AfterRules(ws, rq), t) = Mine(ws, t)
              /\ NoKeys(ws, t) => NoKeys(AfterRules(ws, rq), t)
<1> DEFINE s == rq.scope
           m == Mine(ws, s)
<1>1. DOMAIN ws = DOMAIN Rules /\ \A i \in DOMAIN Rules : ws[i] \in [WindowKey -> Nat]
  BY DEF Windows
<1>2. DOMAIN m = DOMAIN Rules /\ \A i \in DOMAIN Rules : \A k \in WindowKey :
                                    m[i][k] = IF k[1] = s THEN ws[i][k] ELSE 0
  BY <1>1 DEF Mine
<1>3. \A i \in DOMAIN Rules : m[i] = [k \in WindowKey |-> m[i][k]]
  BY <1>1 DEF Mine
<1>4. ASSUME ~Full(ws)
      PROVE  /\ RuleAnswer(m, rq) = RuleAnswer(ws, rq)
             /\ AfterRules(m, rq) = Mine(AfterRules(ws, rq), s)
  <2> DEFINE n == FiredRule(ws, rq)
             key(i) == KeyOf(Rules[i].per, rq)
             x == AfterRules(ws, rq)
  <2>1. \A i : key(i) \in WindowKey /\ key(i)[1] = s
    BY Keys
  <2>2. \A i \in DOMAIN Rules : Fires(m[i], Rules[i].times, key(i))
                                <=> Fires(ws[i], Rules[i].times, key(i))
    BY <1>4, <2>1, OwnFires
  <2>3. {i \in DOMAIN Rules : Fires(m[i], Rules[i].times, key(i))}
          = {i \in DOMAIN Rules : Fires(ws[i], Rules[i].times, key(i))}
    BY <2>2
  <2>4. FiredRule(m, rq) = n
    BY <2>3 DEF FiredRule
  <2>5. RuleAnswer(m, rq) = RuleAnswer(ws, rq)
    BY <2>4 DEF RuleAnswer
  <2>6. CASE n = 0
    BY <2>4, <2>5, <2>6, AfterRulesIs
  <2>7. CASE n # 0
    <3>1. x = [i \in DOMAIN Rules |-> IF i = n THEN [ws[i] EXCEPT ![key(n)] = @ + 1] ELSE ws[i]]
      BY <1>1, <2>7, AfterRulesIs
    <3>2. AfterRules(m, rq)
            = [i \in DOMAIN Rules |-> IF i = n THEN [m[i] EXCEPT ![key(n)] = @ + 1] ELSE m[i]]
      BY <1>2, <2>4, <2>7, AfterRulesIs
    <3> HIDE DEF m, x, key, n, s
    <3>3. DOMAIN x = DOMAIN Rules /\ \A i \in DOMAIN Rules : \A k \in WindowKey :
            x[i][k] = IF i = n /\ k = key(n) THEN ws[i][k] + 1 ELSE ws[i][k]
      BY <1>1, <3>1
    <3>4. \A i \in DOMAIN Rules :
            [m[i] EXCEPT ![key(n)] = @ + 1]
              = [k \in WindowKey |-> IF k = key(n) THEN m[i][k] + 1 ELSE m[i][k]]
      BY <1>3
    <3>5. AfterRules(m, rq)
            = [i \in DOMAIN Rules |-> [k \in WindowKey |->
                 IF i = n /\ k = key(n) THEN m[i][k] + 1 ELSE m[i][k]]]
      BY <1>3, <3>2, <3>4
    <3>6. Mine(x, s)
            = [i \in DOMAIN Rules |-> [k \in WindowKey |-> IF k[1] = s THEN x[i][k] ELSE 0]]
      BY <3>3 DEF Mine
    <3>7. \A i \in DOMAIN Rules : \A k \in WindowKey :
            (IF i = n /\ k = key(n) THEN m[i][k] + 1 ELSE m[i][k])
              = IF k[1] = s THEN x[i][k] ELSE 0
      BY <1>2, <2>1, <3>3
    <3>8. AfterRules(m, rq) = Mine(x, s)
      BY <3>5, <3>6, <3>7
    <3>. QED  BY <2>5, <3>8 DEF m, x, s
  <2>. QED  BY <2>6, <2>7
<1>5. ASSUME NEW t, t # s
      PROVE  /\ Mine(AfterRules(ws, rq), t) = Mine(ws, t)
             /\ NoKeys(ws, t) => NoKeys(AfterRules(ws, rq), t)
  <2>1. DOMAIN AfterRules(ws, rq) = DOMAIN Rules
    BY <1>1, AfterRulesIs
  <2>2. \A i \in DOMAIN Rules : \A k \in WindowKey :
          k[1] = t => AfterRules(ws, rq)[i][k] = ws[i][k]
    BY <1>5, OtherKeys
  <2>. QED  BY <1>1, <2>1, <2>2 DEF Mine, NoKeys
<1>. QED  BY <1>4, <1>5

-----------------------------------------------------------------------------
(* Types                                                                     *)

\* There is a least recently touched scope when any is registered.
LEMMA OldestKnown ==
  ASSUME ScopesAssumption, seen \in [Scope -> Nat], Known # {}
  PROVE  Oldest \in Known
<1> DEFINE S == {0 - seen[s] : s \in Known}
<1>1. IsFiniteSet(Known)
  BY FS_Subset DEF Known, ScopesAssumption
<1>2. IsFiniteSet(S)
  <2> DEFINE f == [s \in Known |-> 0 - seen[s]]
  <2>1. f \in Surjection(Known, S)
    BY DEF Surjection
  <2>. QED  BY <1>1, <2>1, FS_Surjection
<1>3. S \subseteq Int /\ S # {}
  BY DEF Known
<1>4. \E x \in S : \A y \in S : x >= y
  <2> HIDE DEF S
  <2>. QED  BY <1>2, <1>3, Finite, Keeping!Greatest
<1>5. \E s \in Known : \A t \in Known : 0 - seen[s] >= 0 - seen[t]
  BY <1>4
<1>6. \E s \in Known : \A t \in Known : seen[s] <= seen[t]
  BY <1>5 DEF Known
<1>. QED  BY <1>6 DEF Oldest

LEMMA TypesInit == ScopesAssumption /\ Init => Types
<1> SUFFICES ASSUME ScopesAssumption, Init  PROVE Types
  OBVIOUS
<1>1. consumed["fault"] \in Windows(Faults) /\ consumed["rule"] \in Windows(Rules)
      /\ consumed = [w \in {"fault", "rule"} |-> consumed[w]]
  BY WindowTypes DEF Init
<1>2. <<>> \in Seq(Entry) /\ <<>> \in Seq(Request)
  OBVIOUS
<1>. QED  BY <1>1, <1>2 DEF Init, Types, ToForget

\* The scope evicted by a request, if any.
Evicted(s) ==
  IF s \in Scope /\ s \notin Known /\ Cardinality(Known) >= MaxScopes THEN Oldest ELSE None

LEMMA EvictedIsKnown ==
  ASSUME ScopesAssumption, Types, NEW s \in Name
  PROVE  /\ Evicted(s) \in Known \cup {None} /\ Evicted(s) # s /\ Evicted(s) \in Scope \cup {None}
         /\ s \notin Scope => Evicted(s) = None
         /\ Evicted(s) = None
              <=> ~(s \in Scope /\ s \notin Known /\ Cardinality(Known) >= MaxScopes)
<1>1. Cardinality(Known) >= MaxScopes => Known # {}
  <2>1. Cardinality({}) = 0 /\ MaxScopes \in Nat \ {0}
    BY FS_EmptySet DEF ScopesAssumption
  <2>. QED  BY <2>1
<1>2. s \in Scope /\ s \notin Known /\ Cardinality(Known) >= MaxScopes => Oldest \in Known
  BY <1>1, OldestKnown DEF Types
<1>. QED  BY <1>2 DEF Evicted, Known, ScopesAssumption, Name

\* What touchScope changes.
LEMMA BeginIs ==
  ASSUME ScopesAssumption, Types, NEW c \in Client, NEW rq \in Request, Begin(c, rq)
  PROVE  LET s == rq.scope
             gone == Evicted(s)
             next == IF gone # None THEN "forget journal" ELSE "faults"
         IN
         /\ gone \in Scope \cup {None} /\ s \in Name /\ gone # s
         /\ request' = [request EXCEPT ![c] = rq]
         /\ tick' = IF s = NoScope THEN tick ELSE tick + 1
         /\ seen' = [t \in Scope |-> IF t = s THEN tick + 1 ELSE IF t = gone THEN 0 ELSE seen[t]]
         /\ victim' = [victim EXCEPT ![c] = gone]
         /\ at' = [at EXCEPT ![c] = next]
         /\ history' = [t \in Name |-> IF t = s THEN Append(history[t], rq)
                                       ELSE IF t = gone THEN <<>> ELSE history[t]]
         /\ answers' = [t \in Name |-> IF t = gone THEN <<>> ELSE answers[t]]
         /\ clean' = [t \in Name |-> /\ clean[t]
                                     /\ t \in {s, gone} => InFlight(t) = {}
                                     /\ t = s => Forgetting(t) = {}]
         /\ UNCHANGED <<consumed, served, journal, answer, crowded, recorded>>
<1> DEFINE s == rq.scope
           gone == Evicted(s)
<1>1. gone \in Scope \cup {None} /\ s \in Name /\ gone # s
  BY EvictedIsKnown DEF Request
<1>2. gone = None <=> ~(s \in Scope /\ s \notin Known /\ Cardinality(Known) >= MaxScopes)
  BY EvictedIsKnown DEF Request
<1>. QED  BY <1>1, <1>2 DEF Begin, Evicted, Goto

LEMMA TypesNext == ScopesAssumption /\ Types /\ [Next]_vars => Types'
<1> SUFFICES ASSUME ScopesAssumption, Types, [Next]_vars  PROVE Types'
  OBVIOUS
<1>1. ASSUME NEW c \in Client, NEW rq \in Request, Begin(c, rq)  PROVE Types'
  <2> DEFINE s == rq.scope
             gone == Evicted(s)
             next == IF gone # None THEN "forget journal" ELSE "faults"
  <2>0. /\ gone \in Scope \cup {None} /\ s \in Name /\ gone # s
        /\ request' = [request EXCEPT ![c] = rq]
        /\ tick' = IF s = NoScope THEN tick ELSE tick + 1
        /\ seen' = [t \in Scope |-> IF t = s THEN tick + 1 ELSE IF t = gone THEN 0 ELSE seen[t]]
        /\ victim' = [victim EXCEPT ![c] = gone]
        /\ at' = [at EXCEPT ![c] = next]
        /\ history' = [t \in Name |-> IF t = s THEN Append(history[t], rq)
                                      ELSE IF t = gone THEN <<>> ELSE history[t]]
        /\ answers' = [t \in Name |-> IF t = gone THEN <<>> ELSE answers[t]]
        /\ clean' = [t \in Name |-> /\ clean[t]
                                    /\ t \in {s, gone} => InFlight(t) = {}
                                    /\ t = s => Forgetting(t) = {}]
        /\ UNCHANGED <<consumed, served, journal, answer, crowded, recorded>>
    BY <1>1, BeginIs
  <2> HIDE DEF gone
  <2>4. seen' \in [Scope -> Nat] /\ tick' \in Nat
    <3>1. seen \in [Scope -> Nat] /\ tick \in Nat
      BY DEF Types
    <3>2. tick' \in Nat
      <4>1. tick' = tick \/ tick' = tick + 1
        BY <2>0, Zenon
      <4>. QED  BY ONLY <3>1, <4>1
    <3>3. \A t \in Scope : (IF t = s THEN tick + 1 ELSE IF t = gone THEN 0 ELSE seen[t]) \in Nat
      BY <3>1
    <3>. QED  BY <2>0, <3>2, <3>3
  <2>5. history' \in [Name -> Seq(Request)]
    <3>1. \A h \in Seq(Request) : Append(h, rq) \in Seq(Request)
      OBVIOUS
    <3>2. history \in [Name -> Seq(Request)] /\ <<>> \in Seq(Request)
      BY DEF Types
    <3>. QED  BY ONLY <2>0, <3>1, <3>2
  <2>6. clean' \in [Name -> BOOLEAN]
    <3> DEFINE P(t) == /\ clean[t]
                       /\ t \in {s, gone} => InFlight(t) = {}
                       /\ t = s => Forgetting(t) = {}
    <3>1. \A t \in Name : P(t) \in BOOLEAN
      OBVIOUS
    <3>2. clean' = [t \in Name |-> P(t)]
      BY <2>0
    <3> HIDE DEF P
    <3>. QED  BY <3>1, <3>2
  <2>7. answers' = [t \in Name |-> answers'[t]]
    BY <2>0
  <2>8. \A d \in Client : /\ at'[d] # "idle" => request'[d] \in Request
                          /\ at'[d] \in ToForget <=> victim'[d] # None
    BY <2>0 DEF Types, ToForget
  <2>9. victim' \in [Client -> Scope \cup {None}]
    BY <2>0 DEF Types
  <2>10. at' = [d \in Client |-> at'[d]] /\ request' = [d \in Client |-> request'[d]]
    BY <2>0 DEF Types
  <2>. QED  BY <2>0, <2>4, <2>5, <2>6, <2>7, <2>8, <2>9, <2>10 DEF Types
<1>2. ASSUME NEW c \in Client, ForgetJournal(c)  PROVE Types'
  <2>1. journal' \in Journal
    <3>1. Without(journal.entries, victim[c]) \in Seq(Entry)
      BY WithoutKeeps DEF Keeps, Types
    <3>. QED  BY <1>2, <3>1 DEF ForgetJournal, Types, Journal
  <2>. QED  BY <1>2, <2>1 DEF ForgetJournal, Types, Journal, Goto, ToForget, ghosts
<1>3. ASSUME NEW c \in Client, ForgetFaults(c)  PROVE Types'
  <2>1. Dropped(consumed["fault"], victim[c]) \in Windows(Faults)
    BY WindowTypes DEF Types
  <2>2. /\ consumed' = [w \in {"fault", "rule"} |-> consumed'[w]]
        /\ consumed'["fault"] \in Windows(Faults) /\ consumed'["rule"] \in Windows(Rules)
    BY <1>3, <2>1 DEF ForgetFaults, Types
  <2>. QED  BY <1>3, <2>2 DEF ForgetFaults, Types, Goto, ToForget, ghosts
<1>4. ASSUME NEW c \in Client, ForgetRules(c)  PROVE Types'
  <2>1. Dropped(consumed["rule"], victim[c]) \in Windows(Rules)
    BY WindowTypes DEF Types
  <2>2. /\ consumed' = [w \in {"fault", "rule"} |-> consumed'[w]]
        /\ consumed'["fault"] \in Windows(Faults) /\ consumed'["rule"] \in Windows(Rules)
    BY <1>4, <2>1 DEF ForgetRules, Types
  <2>. QED  BY <1>4, <2>2 DEF ForgetRules, Types, Goto, ToForget, ghosts
<1>5. ASSUME NEW c \in Client, ForgetRecordings(c)  PROVE Types'
  BY <1>5 DEF ForgetRecordings, Types, Goto, ToForget, ghosts
<1>6. ASSUME NEW c \in Client, EvaluateFaults(c)  PROVE Types'
  <2>1. request[c] \in Request
    BY <1>6 DEF EvaluateFaults, Types
  <2>2. AfterFaults(consumed["fault"], request[c]) \in Windows(Faults)
    BY <2>1, WindowTypes DEF Types
  <2>3. /\ consumed' = [w \in {"fault", "rule"} |-> consumed'[w]]
        /\ consumed'["fault"] \in Windows(Faults) /\ consumed'["rule"] \in Windows(Rules)
    BY <1>6, <2>2 DEF EvaluateFaults, Types
  <2>4. crowded' \in BOOLEAN
    BY <1>6 DEF EvaluateFaults, Types, Full
  <2>. QED  BY <1>6, <2>3, <2>4 DEF EvaluateFaults, Types, Goto, ToForget
<1>7. ASSUME NEW c \in Client, ApplyRules(c)  PROVE Types'
  <2>1. request[c] \in Request
    BY <1>7 DEF ApplyRules, Types
  <2>2. AfterRules(consumed["rule"], request[c]) \in Windows(Rules)
    BY <2>1, WindowTypes DEF Types
  <2>3. /\ consumed' = [w \in {"fault", "rule"} |-> consumed'[w]]
        /\ consumed'["fault"] \in Windows(Faults) /\ consumed'["rule"] \in Windows(Rules)
    BY <1>7, <2>2 DEF ApplyRules, Types
  <2>4. crowded' \in BOOLEAN
    BY <1>7 DEF ApplyRules, Types, Full
  <2>. QED  BY <1>7, <2>3, <2>4 DEF ApplyRules, Types, Goto, ToForget
<1>8. ASSUME NEW c \in Client, MatchRecording(c)  PROVE Types'
  BY <1>8 DEF MatchRecording, Types, Goto, ToForget, ghosts
<1>9. ASSUME NEW c \in Client, Record(c)  PROVE Types'
  <2>1. request[c] \in Request /\ request[c].scope \in Name
    BY <1>9 DEF Record, Types, Request
  <2>2. journal \in Journal /\ 0 \in Nat
    BY DEF Types, Journal
  <2>3. journal' \in Journal
    BY <1>9, <2>1, <2>2, RecordedFacts DEF Record
  <2> DEFINE s == request[c].scope
  <2>4. recorded' \in [Name -> Nat] /\ answers' = [t \in Name |-> answers'[t]]
    <3>1. recorded' = [recorded EXCEPT ![s] = @ + 1] /\ recorded \in [Name -> Nat] /\ s \in Name
      BY <1>9, <2>1 DEF Record, Types
    <3>2. answers' = [answers EXCEPT ![s] = Append(@, answer[c])]
          /\ answers = [t \in Name |-> answers[t]]
      BY <1>9 DEF Record, Types
    <3> HIDE DEF s
    <3>3. recorded' \in [Name -> Nat]
      BY ONLY <3>1
    <3>. QED  BY ONLY <3>2, <3>3
  <2>5. /\ at' = [d \in Client |-> at'[d]] /\ answer' = [d \in Client |-> answer'[d]]
        /\ request' = [d \in Client |-> request'[d]] /\ victim' \in [Client -> Scope \cup {None}]
        /\ \A d \in Client : /\ at'[d] # "idle" => request'[d] \in Request
                             /\ at'[d] \in ToForget <=> victim'[d] # None
    BY <1>9 DEF Record, Types, Goto, ToForget
  <2>. QED  BY <1>9, <2>3, <2>4, <2>5 DEF Record, Types, Journal
<1>10. ASSUME ResetJournal  PROVE Types'
  <2>1. <<>> \in Seq(Entry)
    OBVIOUS
  <2>. QED  BY <1>10, <2>1 DEF ResetJournal, Types, locals
<1>11. ASSUME NEW s \in Scope, ResetJournalScope(s)  PROVE Types'
  <2>1. Without(journal.entries, s) \in Seq(Entry)
    BY WithoutKeeps DEF Keeps, Types
  <2>. QED  BY <1>11, <2>1 DEF ResetJournalScope, Types, locals, Name
<1>12. ASSUME UNCHANGED vars  PROVE Types'
  BY <1>12 DEF vars, locals, ghosts, Types
<1>. QED  BY <1>1, <1>2, <1>3, <1>4, <1>5, <1>6, <1>7, <1>8, <1>9, <1>10, <1>11, <1>12 DEF Next

-----------------------------------------------------------------------------
(* The journal and the tables                                                *)

LEMMA HonestNext ==
  ASSUME ScopesAssumption, Types, Honest(journal, recorded[NoScope]), [Next]_vars
  PROVE  Honest(journal', recorded'[NoScope])
<1> DEFINE n == recorded[NoScope]
<1>1. /\ journal \in Journal /\ n \in Nat /\ journal.entries \in Seq(Entry)
      /\ recorded \in [Name -> Nat] /\ NoScope \in Name
  BY DEF Types, Journal, Name
\* Dropping the entries of a scope drops none of the unscoped ones.
<1>2. ASSUME NEW s \in Scope, NEW j, j = [journal EXCEPT !.entries = Without(@, s)]
      PROVE  Honest(j, n)
  <2>1. s # NoScope /\ MaxJournal \in Nat
    BY DEF ScopesAssumption
  <2>2. Keeps(journal.entries, s)
    BY <1>1, WithoutKeeps
  <2>3. j.entries = Without(journal.entries, s) /\ j.seq = journal.seq /\ j.evicted = journal.evicted
    BY <1>1, <1>2 DEF Journal
  <2> DEFINE es == journal.entries
             w == Without(es, s)
  <2>4. /\ w \in Seq(Entry) /\ Len(w) <= Len(es)
        /\ \A m : Below(es, m) => Below(w, m)
        /\ Rising(es) => Rising(w)
        /\ Of(w, NoScope) = Of(es, NoScope)
    BY <2>1, <2>2 DEF Keeps
  <2>5. Len(es) <= MaxJournal /\ Len(es) \in Nat /\ Len(w) \in Nat
    BY <1>1, <2>4 DEF Honest
  <2>6. Len(w) <= MaxJournal
    BY <2>1, <2>4, <2>5
  <2>. QED  BY <2>3, <2>4, <2>6 DEF Honest
<1>3. ASSUME NEW c \in Client, ForgetJournal(c)  PROVE Honest(journal', recorded'[NoScope])
  <2>1. victim[c] \in Scope
    BY <1>3 DEF ForgetJournal, Types, ToForget
  <2>. QED  BY <1>2, <1>3, <2>1 DEF ForgetJournal, ghosts
<1>4. ASSUME NEW c \in Client, Record(c)  PROVE Honest(journal', recorded'[NoScope])
  <2> DEFINE s == request[c].scope
  <2>1. s \in Name
    BY <1>4 DEF Record, Types, Request
  <2>2. journal' = Recorded(journal, s) /\ recorded' = [recorded EXCEPT ![s] = @ + 1]
    BY <1>4 DEF Record
  <2> HIDE DEF s
  <2>3. recorded'[NoScope] = IF s = NoScope THEN n + 1 ELSE n
    BY <1>1, <2>1, <2>2
  <2>. QED  BY <1>1, <2>1, <2>2, <2>3, RecordedFacts
<1>5. ASSUME ResetJournal  PROVE Honest(journal', recorded'[NoScope])
  <2>1. journal'.entries = <<>> /\ recorded'[NoScope] = 0
    BY <1>1, <1>5 DEF ResetJournal, Journal
  <2>2. Rising(<<>>) /\ Below(<<>>, journal'.seq) /\ Len(<<>>) = 0 /\ Of(<<>>, NoScope) = 0
    <3>1. Len(<<>>) = 0 /\ 1..0 = {}
      OBVIOUS
    <3>. QED  BY <3>1, OfFacts DEF Rising, Below
  <2>. QED  BY <2>1, <2>2 DEF Honest, ScopesAssumption
<1>6. ASSUME NEW s \in Scope, ResetJournalScope(s)  PROVE Honest(journal', recorded'[NoScope])
  <2>1. recorded'[NoScope] = n
    BY <1>1, <1>6 DEF ResetJournalScope, ScopesAssumption
  <2>. QED  BY <1>2, <1>6, <2>1 DEF ResetJournalScope
<1>7. ASSUME UNCHANGED <<journal, recorded>>  PROVE Honest(journal', recorded'[NoScope])
  BY <1>7
<1>8. ASSUME NEW c \in Client,
             \/ \E rq \in Request : Begin(c, rq)
             \/ ForgetFaults(c) \/ ForgetRules(c) \/ ForgetRecordings(c)
             \/ EvaluateFaults(c) \/ ApplyRules(c) \/ MatchRecording(c)
      PROVE  UNCHANGED <<journal, recorded>>
  BY <1>8 DEF Begin, ForgetFaults, ForgetRules, ForgetRecordings, EvaluateFaults, ApplyRules,
              MatchRecording, ghosts
<1>9. CASE UNCHANGED vars
  BY <1>7, <1>9 DEF vars, ghosts
<1>. QED  BY <1>3, <1>4, <1>5, <1>6, <1>7, <1>8, <1>9 DEF Next

LEMMA RoomyNext ==
  ASSUME ScopesAssumption, Types, Roomy, [Next]_vars
  PROVE  Roomy'
<1>1. consumed["fault"] \in Windows(Faults) /\ consumed["rule"] \in Windows(Rules)
      /\ consumed = [w \in {"fault", "rule"} |-> consumed[w]]
  BY DEF Types
<1>2. ASSUME NEW c \in Client, ForgetFaults(c)  PROVE Roomy'
  <2>1. /\ consumed'["fault"] = Dropped(consumed["fault"], victim[c])
        /\ consumed'["rule"] = consumed["rule"] /\ crowded' = crowded
    BY <1>1, <1>2 DEF ForgetFaults, ghosts
  <2>2. Full(Dropped(consumed["fault"], victim[c])) => Full(consumed["fault"])
    BY <1>1, DroppedFacts
  <2>. QED  BY <2>1, <2>2 DEF Roomy, Full
<1>3. ASSUME NEW c \in Client, ForgetRules(c)  PROVE Roomy'
  <2>1. /\ consumed'["rule"] = Dropped(consumed["rule"], victim[c])
        /\ consumed'["fault"] = consumed["fault"] /\ crowded' = crowded
    BY <1>1, <1>3 DEF ForgetRules, ghosts
  <2>2. Full(Dropped(consumed["rule"], victim[c])) => Full(consumed["rule"])
    BY <1>1, DroppedFacts
  <2>. QED  BY <2>1, <2>2 DEF Roomy, Full
<1>4. ASSUME NEW c \in Client, EvaluateFaults(c)  PROVE Roomy'
  <2>1. consumed'["rule"] = consumed["rule"] /\ crowded' = (crowded \/ Full(consumed["fault"]'))
    BY <1>1, <1>4 DEF EvaluateFaults
  <2>. QED  BY <2>1 DEF Roomy, Full
<1>5. ASSUME NEW c \in Client, ApplyRules(c)  PROVE Roomy'
  <2>1. consumed'["fault"] = consumed["fault"] /\ crowded' = (crowded \/ Full(consumed["rule"]'))
    BY <1>1, <1>5 DEF ApplyRules
  <2>. QED  BY <2>1 DEF Roomy, Full
<1>6. ASSUME UNCHANGED <<consumed, crowded>>  PROVE Roomy'
  BY <1>6 DEF Roomy, Full
<1>7. ASSUME NEW c \in Client,
             \/ \E rq \in Request : Begin(c, rq)
             \/ ForgetJournal(c) \/ ForgetRecordings(c) \/ MatchRecording(c) \/ Record(c)
      PROVE  UNCHANGED <<consumed, crowded>>
  BY <1>7 DEF Begin, ForgetJournal, ForgetRecordings, MatchRecording, Record, ghosts
<1>8. ASSUME ResetJournal \/ (\E s \in Scope : ResetJournalScope(s)) \/ UNCHANGED vars
      PROVE  UNCHANGED <<consumed, crowded>>
  BY <1>8 DEF ResetJournal, ResetJournalScope, vars, ghosts
<1>. QED  BY <1>2, <1>3, <1>4, <1>5, <1>6, <1>7, <1>8 DEF Next

-----------------------------------------------------------------------------
(* Who is where                                                              *)

\* A step of a client once it has been let in.
Move(c) ==
  \/ ForgetJournal(c) \/ ForgetFaults(c) \/ ForgetRules(c) \/ ForgetRecordings(c)
  \/ EvaluateFaults(c) \/ ApplyRules(c) \/ MatchRecording(c) \/ Record(c)

LEMMA MoveFacts ==
  ASSUME Types, NEW c \in Client, Move(c)
  PROVE  /\ at[c] # "idle" /\ request[c] \in Request
         /\ seen' = seen /\ clean' = clean /\ history' = history
         /\ \A d \in Client : d # c => /\ at'[d] = at[d] /\ request'[d] = request[d]
                                       /\ victim'[d] = victim[d] /\ answer'[d] = answer[d]
         /\ request'[c] = request[c] \/ at'[c] = "idle"
         /\ victim'[c] = victim[c] \/ victim'[c] = None
<1>1. CASE ForgetJournal(c) \/ ForgetFaults(c) \/ ForgetRules(c) \/ ForgetRecordings(c)
  BY <1>1 DEF ForgetJournal, ForgetFaults, ForgetRules, ForgetRecordings, Goto, ghosts, Types
<1>2. CASE EvaluateFaults(c) \/ ApplyRules(c) \/ MatchRecording(c)
  BY <1>2 DEF EvaluateFaults, ApplyRules, MatchRecording, Goto, ghosts, Types
<1>3. CASE Record(c)
  BY <1>3 DEF Record, Goto, Types
<1>. QED  BY <1>1, <1>2, <1>3 DEF Move

\* No move adds to the requests under way, or to what is being forgotten.
LEMMA MoveLess ==
  ASSUME ScopesAssumption, Types, NEW c \in Client, Move(c), NEW s \in Name
  PROVE  /\ InFlight(s)' \subseteq InFlight(s) /\ Forgetting(s)' \subseteq Forgetting(s)
         /\ \A d \in Client : d # c => (d \in InFlight(s) <=> d \in InFlight(s)')
         /\ c \in InFlight(s) <=> request[c].scope = s
<1>1. None # s
  BY DEF ScopesAssumption
<1>2. Known' = Known
  BY MoveFacts DEF Known
<1>. QED  BY <1>1, MoveFacts DEF InFlight, Forgetting

LEMMA SingleNext ==
  ASSUME ScopesAssumption, Types, [Next]_vars, NEW s \in Name, Single(s)
  PROVE  Single(s)'
<1> SUFFICES ASSUME clean'[s], s = NoScope \/ s \in Known'
             PROVE  Forgetting(s)' = {} /\ \A c, d \in InFlight(s)' : c = d
  BY DEF Single
<1>0. s # None
  BY DEF ScopesAssumption
<1>1. ASSUME NEW c \in Client, NEW rq \in Request, Begin(c, rq)
      PROVE  Forgetting(s)' = {} /\ \A d, e \in InFlight(s)' : d = e
  <2> DEFINE r == rq.scope
             gone == Evicted(r)
  <2>1. /\ gone \in Scope \cup {None} /\ gone # r
        /\ request' = [request EXCEPT ![c] = rq] /\ victim' = [victim EXCEPT ![c] = gone]
        /\ at' = [at EXCEPT ![c] = IF gone # None THEN "forget journal" ELSE "faults"]
        /\ seen' = [t \in Scope |-> IF t = r THEN tick + 1 ELSE IF t = gone THEN 0 ELSE seen[t]]
        /\ clean' = [t \in Name |-> /\ clean[t]
                                    /\ t \in {r, gone} => InFlight(t) = {}
                                    /\ t = r => Forgetting(t) = {}]
    BY <1>1, BeginIs
  <2>a. at[c] = "idle"
    BY <1>1 DEF Begin
  <2> HIDE DEF gone
  <2>2. s # gone
    <3>1. s = gone => s \in Scope /\ seen'[s] = 0 /\ s # NoScope
      BY <1>0, <2>1 DEF ScopesAssumption
    <3>. QED  BY <3>1 DEF Known
  <2>3. clean[s] /\ (s = r => InFlight(s) = {} /\ Forgetting(s) = {})
    BY <2>1
  <2>4. s # r => s = NoScope \/ s \in Known
    BY <2>1, <2>2 DEF Known
  <2>5. Forgetting(s) = {} /\ \A d, e \in InFlight(s) : d = e
    BY <2>3, <2>4 DEF Single
  <2>6. Forgetting(s)' \subseteq Forgetting(s)
    BY <2>1, <2>2, <2>a DEF Forgetting, Types
  <2>7. InFlight(s)' \subseteq IF s = r THEN {c} ELSE InFlight(s)
    BY <2>1, <2>3, <2>a DEF InFlight, Types
  <2>. QED  BY <2>5, <2>6, <2>7
<1>2. ASSUME NEW c \in Client, Move(c)
      PROVE  Forgetting(s)' = {} /\ \A d, e \in InFlight(s)' : d = e
  <2>1. Forgetting(s) = {} /\ \A d, e \in InFlight(s) : d = e
    BY <1>2, MoveFacts DEF Single, Known
  <2>. QED  BY <1>2, <2>1, MoveLess
<1>3. CASE ResetJournal
  BY <1>3 DEF ResetJournal
<1>4. CASE (\E t \in Scope : ResetJournalScope(t)) \/ UNCHANGED vars
  BY <1>4 DEF ResetJournalScope, vars, locals, ghosts, Single, Known, Forgetting, InFlight
<1>. QED  BY <1>1, <1>2, <1>3, <1>4 DEF Next, Move

-----------------------------------------------------------------------------
(* What is left of a scope that is not registered                            *)

LEMMA NoEntriesKept ==
  ASSUME NEW es \in Seq(Entry), NEW v, NEW t
  PROVE  NoEntries(es, t) \/ t = v => NoEntries(Without(es, v), t)
<1>1. CASE t = v
  BY <1>1, WithoutKeeps DEF Keeps, NoEntries
<1>2. CASE t # v /\ NoEntries(es, t)
  <2>1. \A q \in Seq(Entry) : NoEntries(q, t) <=> Of(q, t) = 0
    <3> SUFFICES ASSUME NEW q \in Seq(Entry)  PROVE NoEntries(q, t) <=> Of(q, t) = 0
      OBVIOUS
    <3> DEFINE S == {i \in DOMAIN q : q[i].scope = t}
    <3>1. DOMAIN q = 1..Len(q) /\ IsFiniteSet(1..Len(q)) /\ S \in SUBSET (1..Len(q))
      BY HighestIsLast
    <3>2. NoEntries(q, t) <=> S = {}
      BY <3>1 DEF NoEntries
    <3> HIDE DEF S
    <3>3. IsFiniteSet(S)
      BY <3>1, FS_Subset
    <3>4. Cardinality(S) = 0 <=> S = {}
      BY <3>3, FS_EmptySet
    <3>. QED  BY <3>2, <3>4 DEF Of, S
  <2>2. Without(es, v) \in Seq(Entry) /\ Of(Without(es, v), t) = Of(es, t)
    BY <1>2, WithoutKeeps DEF Keeps
  <2>. QED  BY <1>2, <2>1, <2>2
<1>. QED  BY <1>1, <1>2

\* Someone still has to forget a scope until the client that let it go moves on.
LEMMA StillAwaits ==
  ASSUME Types, NEW s \in Scope, NEW steps, Awaits(s, steps), NEW c \in Client, Move(c),
         victim[c] # s \/ (at'[c] \in steps /\ victim'[c] = s)
  PROVE  Awaits(s, steps)'
<1>1. PICK d \in Client : victim[d] = s /\ at[d] \in steps
  BY DEF Awaits
<1>2. CASE d = c
  BY <1>1, <1>2 DEF Awaits
<1>3. CASE d # c
  BY <1>1, <1>3, MoveFacts DEF Awaits
<1>. QED  BY <1>2, <1>3

LEMMA GoneNext ==
  ASSUME ScopesAssumption, Types, [Next]_vars, NEW s \in Scope, Gone(s)
  PROVE  Gone(s)'
<1> DEFINE J == {"forget journal"}
           F == {"forget journal", "forget faults"}
           R == ToForget \ {"forget recordings"}
           W == ToForget
<1> SUFFICES ASSUME clean'[s], s \notin Known'
             PROVE  /\ InFlight(s)' = {}
                    /\ history'[s] = <<>> /\ answers'[s] = <<>>
                    /\ Awaits(s, J)' \/ NoEntries(journal'.entries, s)
                    /\ Awaits(s, F)' \/ NoKeys(consumed'["fault"], s)
                    /\ Awaits(s, R)' \/ NoKeys(consumed'["rule"], s)
                    /\ Awaits(s, W)' \/ served'[s] = {}
  BY DEF Gone, Awaits
<1>0. s # None /\ s # NoScope /\ s \in Name
  BY DEF ScopesAssumption, Name
<1>1. ASSUME clean[s], s \notin Known
      PROVE  /\ InFlight(s) = {}
             /\ history[s] = <<>> /\ answers[s] = <<>>
             /\ Awaits(s, J) \/ NoEntries(journal.entries, s)
             /\ Awaits(s, F) \/ NoKeys(consumed["fault"], s)
             /\ Awaits(s, R) \/ NoKeys(consumed["rule"], s)
             /\ Awaits(s, W) \/ served[s] = {}
  BY <1>1 DEF Gone
<1>2. ASSUME NEW c \in Client, NEW rq \in Request, Begin(c, rq)
      PROVE  Gone(s)'
  <2> DEFINE r == rq.scope
             gone == Evicted(r)
  <2>1. /\ gone \in Scope \cup {None} /\ gone # r
        /\ request' = [request EXCEPT ![c] = rq] /\ victim' = [victim EXCEPT ![c] = gone]
        /\ at' = [at EXCEPT ![c] = IF gone # None THEN "forget journal" ELSE "faults"]
        /\ seen' = [t \in Scope |-> IF t = r THEN tick + 1 ELSE IF t = gone THEN 0 ELSE seen[t]]
        /\ history' = [t \in Name |-> IF t = r THEN Append(history[t], rq)
                                      ELSE IF t = gone THEN <<>> ELSE history[t]]
        /\ answers' = [t \in Name |-> IF t = gone THEN <<>> ELSE answers[t]]
        /\ clean' = [t \in Name |-> /\ clean[t]
                                    /\ t \in {r, gone} => InFlight(t) = {}
                                    /\ t = r => Forgetting(t) = {}]
        /\ UNCHANGED <<consumed, served, journal>>
    BY <1>2, BeginIs
  <2>2. at[c] = "idle" /\ victim[c] = None
    BY <1>2 DEF Begin, Types, ToForget
  <2> HIDE DEF gone
  <2>3. s # r
    <3>1. s = r => seen'[s] = tick + 1 /\ tick \in Nat
      BY <2>1 DEF Types
    <3>2. seen'[s] > 0 => s \in Known'
      BY DEF Known
    <3>. QED  BY <3>1, <3>2
  <2>4. clean[s] /\ (s = gone => InFlight(s) = {})
    BY <1>0, <2>1
  <2>5. CASE s = gone
    <3>1. InFlight(s)' = {}
      BY <2>1, <2>3, <2>4, <2>5 DEF InFlight, Types
    <3>2. history'[s] = <<>> /\ answers'[s] = <<>>
      BY <1>0, <2>1, <2>3, <2>5
    <3>3. victim'[c] = s /\ at'[c] = "forget journal"
      BY <1>0, <2>1, <2>5 DEF Types
    <3>4. Awaits(s, J)' /\ Awaits(s, F)' /\ Awaits(s, R)' /\ Awaits(s, W)'
      BY <3>3 DEF Awaits, ToForget
    <3>. QED  BY <3>1, <3>2, <3>4 DEF Gone
  <2>6. CASE s # gone
    <3>1. s \notin Known
      BY <2>1, <2>3, <2>6 DEF Known
    <3>2. InFlight(s)' = {}
      BY <1>1, <2>1, <2>2, <2>3, <2>4, <3>1 DEF InFlight, Types
    <3>3. history'[s] = <<>> /\ answers'[s] = <<>>
      BY <1>0, <1>1, <2>1, <2>3, <2>4, <3>1
    <3>4. ASSUME NEW steps, Awaits(s, steps)  PROVE Awaits(s, steps)'
      <4>1. PICK d \in Client : victim[d] = s /\ at[d] \in steps
        BY <3>4 DEF Awaits
      <4>2. d # c
        BY <1>0, <2>2, <4>1
      <4>. QED  BY <2>1, <4>1, <4>2 DEF Awaits, Types
    <3>5. /\ Awaits(s, J)' \/ NoEntries(journal.entries, s)
          /\ Awaits(s, F)' \/ NoKeys(consumed["fault"], s)
          /\ Awaits(s, R)' \/ NoKeys(consumed["rule"], s)
          /\ Awaits(s, W)' \/ served[s] = {}
      BY <1>1, <2>4, <3>1, <3>4
    <3>. QED  BY <2>1, <3>2, <3>3, <3>5 DEF Gone
  <2>. QED  BY <2>5, <2>6
<1>3. ASSUME NEW c \in Client, Move(c)  PROVE Gone(s)'
  <2>1. clean[s] /\ s \notin Known
    BY <1>3, MoveFacts DEF Known
  <2>2. InFlight(s)' = {} /\ request[c].scope # s /\ request[c] \in Request
    BY <1>0, <1>1, <1>3, <2>1, MoveLess, MoveFacts
  <2>3. history'[s] = <<>>
    BY <1>1, <1>3, <2>1, MoveFacts
  <2>4. answers'[s] = <<>>
    <3>1. CASE Record(c)
      <4>1. answers' = [answers EXCEPT ![request[c].scope] = Append(@, answer[c])]
            /\ answers = [t \in Name |-> answers[t]]
        BY <3>1 DEF Record, Types
      <4>. QED  BY <1>0, <1>1, <2>1, <2>2, <4>1
    <3>2. CASE ~Record(c)
      <4>1. answers' = answers
        BY <1>3, <3>2 DEF Move, ForgetJournal, ForgetFaults, ForgetRules, ForgetRecordings,
               EvaluateFaults, ApplyRules, MatchRecording, ghosts
      <4>. QED  BY <1>1, <2>1, <4>1
    <3>. QED  BY <3>1, <3>2
  <2> DEFINE Rest4 ==
               /\ Awaits(s, J)' \/ NoEntries(journal'.entries, s)
               /\ Awaits(s, F)' \/ NoKeys(consumed'["fault"], s)
               /\ Awaits(s, R)' \/ NoKeys(consumed'["rule"], s)
               /\ Awaits(s, W)' \/ served'[s] = {}
  <2>5. /\ Awaits(s, J) \/ NoEntries(journal.entries, s)
        /\ Awaits(s, F) \/ NoKeys(consumed["fault"], s)
        /\ Awaits(s, R) \/ NoKeys(consumed["rule"], s)
        /\ Awaits(s, W) \/ served[s] = {}
    BY <1>1, <2>1
  <2>6. /\ journal.entries \in Seq(Entry) /\ journal \in Journal
        /\ consumed["fault"] \in Windows(Faults) /\ consumed["rule"] \in Windows(Rules)
        /\ consumed = [w \in {"fault", "rule"} |-> consumed[w]]
        /\ served = [t \in Name |-> served[t]]
    BY DEF Types, Journal
  <2>7. ASSUME ForgetJournal(c)  PROVE Rest4
    <3>1. /\ journal'.entries = Without(journal.entries, victim[c])
          /\ UNCHANGED <<consumed, served, victim>>
          /\ at'[c] = "forget faults"
      BY <2>6, <2>7 DEF ForgetJournal, Goto, Types, Journal
    <3>2. /\ Awaits(s, F) => Awaits(s, F)'
          /\ Awaits(s, R) => Awaits(s, R)'
          /\ Awaits(s, W) => Awaits(s, W)'
          /\ victim[c] # s /\ Awaits(s, J) => Awaits(s, J)'
      BY <1>3, <3>1, StillAwaits DEF ToForget
    <3>3. NoEntries(journal.entries, s) \/ s = victim[c] => NoEntries(journal'.entries, s)
      <4>1. \A es \in Seq(Entry) : \A v : NoEntries(es, s) \/ s = v => NoEntries(Without(es, v), s)
        BY NoEntriesKept
      <4>. QED  BY ONLY <2>6, <3>1, <4>1
    <3>. QED  BY <2>5, <3>1, <3>2, <3>3
  <2>8. ASSUME ForgetFaults(c)  PROVE Rest4
    <3>1. /\ consumed'["fault"] = Dropped(consumed["fault"], victim[c])
          /\ consumed'["rule"] = consumed["rule"]
          /\ UNCHANGED <<journal, served, victim>>
          /\ at[c] = "forget faults" /\ at'[c] = "forget rules"
      BY <2>6, <2>8 DEF ForgetFaults, Goto, Types
    <3>2. /\ victim[c] # s => (Awaits(s, J) => Awaits(s, J)') /\ (Awaits(s, F) => Awaits(s, F)')
          /\ Awaits(s, R) => Awaits(s, R)'
          /\ Awaits(s, W) => Awaits(s, W)'
      BY <1>3, <3>1, StillAwaits DEF ToForget
    <3>3. Awaits(s, J) => Awaits(s, J)'
      <4> SUFFICES ASSUME Awaits(s, J)  PROVE Awaits(s, J)'
        OBVIOUS
      <4>1. PICK d \in Client : victim[d] = s /\ at[d] \in J
        BY DEF Awaits
      <4>. QED  BY <1>3, <3>1, <4>1, MoveFacts DEF Awaits
    <3>4. NoKeys(consumed["fault"], s) \/ s = victim[c] => NoKeys(consumed'["fault"], s)
      <4>1. \A ws \in Windows(Faults) : \A v : NoKeys(ws, s) \/ s = v => NoKeys(Dropped(ws, v), s)
        BY DroppedFacts
      <4>. QED  BY ONLY <2>6, <3>1, <4>1
    <3>. QED  BY <2>5, <3>1, <3>2, <3>3, <3>4
  <2>9. ASSUME ForgetRules(c)  PROVE Rest4
    <3>1. /\ consumed'["rule"] = Dropped(consumed["rule"], victim[c])
          /\ consumed'["fault"] = consumed["fault"]
          /\ UNCHANGED <<journal, served, victim>>
          /\ at[c] = "forget rules" /\ at'[c] = "forget recordings"
      BY <2>6, <2>9 DEF ForgetRules, Goto, Types
    <3>2. /\ victim[c] # s => (Awaits(s, R) => Awaits(s, R)')
          /\ Awaits(s, W) => Awaits(s, W)'
      BY <1>3, <3>1, StillAwaits DEF ToForget
    <3>3. ASSUME NEW steps, "forget rules" \notin steps, Awaits(s, steps)  PROVE Awaits(s, steps)'
      <4>1. PICK d \in Client : victim[d] = s /\ at[d] \in steps
        BY <3>3 DEF Awaits
      <4>2. d # c
        BY <3>1, <3>3, <4>1
      <4>3. victim'[d] = s /\ at'[d] \in steps
        BY <1>3, <4>1, <4>2, MoveFacts
      <4>. QED  BY <4>3 DEF Awaits
    <3>4. NoKeys(consumed["rule"], s) \/ s = victim[c] => NoKeys(consumed'["rule"], s)
      <4>1. \A ws \in Windows(Rules) : \A v : NoKeys(ws, s) \/ s = v => NoKeys(Dropped(ws, v), s)
        BY DroppedFacts
      <4>. QED  BY ONLY <2>6, <3>1, <4>1
    <3>5. (Awaits(s, J) => Awaits(s, J)') /\ (Awaits(s, F) => Awaits(s, F)')
      BY <3>3
    <3>. QED  BY <2>5, <3>1, <3>2, <3>4, <3>5
  <2>10. ASSUME ForgetRecordings(c)  PROVE Rest4
    <3>1. /\ served' = [served EXCEPT ![victim[c]] = {}]
          /\ UNCHANGED <<journal, consumed>>
          /\ at[c] = "forget recordings"
      BY <2>10 DEF ForgetRecordings
    <3>2. victim[c] # s => (Awaits(s, W) => Awaits(s, W)')
      BY <1>3, StillAwaits
    <3>3. ASSUME NEW steps, "forget recordings" \notin steps, Awaits(s, steps)
          PROVE  Awaits(s, steps)'
      <4>1. PICK d \in Client : victim[d] = s /\ at[d] \in steps
        BY <3>3 DEF Awaits
      <4>2. d # c
        BY <3>1, <3>3, <4>1
      <4>3. victim'[d] = s /\ at'[d] \in steps
        BY <1>3, <4>1, <4>2, MoveFacts
      <4>. QED  BY <4>3 DEF Awaits
    <3>4. (Awaits(s, J) => Awaits(s, J)') /\ (Awaits(s, F) => Awaits(s, F)')
          /\ (Awaits(s, R) => Awaits(s, R)')
      BY <3>3
    <3>5. served[s] = {} \/ victim[c] = s => served'[s] = {}
      BY <1>0, <2>6, <3>1
    <3>. QED  BY <2>5, <3>1, <3>2, <3>4, <3>5
  <2>11. ASSUME EvaluateFaults(c) \/ ApplyRules(c) \/ MatchRecording(c) \/ Record(c)  PROVE Rest4
    <3>0. at[c] \notin ToForget /\ victim[c] = None
      BY <2>11 DEF EvaluateFaults, ApplyRules, MatchRecording, Record, Types, ToForget
    <3>1. ASSUME NEW steps, Awaits(s, steps)  PROVE Awaits(s, steps)'
      BY <1>0, <1>3, <3>0, <3>1, StillAwaits
    <3>2. (Awaits(s, J) => Awaits(s, J)') /\ (Awaits(s, F) => Awaits(s, F)')
          /\ (Awaits(s, R) => Awaits(s, R)') /\ (Awaits(s, W) => Awaits(s, W)')
      BY <3>1
    <3>3. CASE EvaluateFaults(c)
      <4>1. /\ consumed'["fault"] = AfterFaults(consumed["fault"], request[c])
            /\ consumed'["rule"] = consumed["rule"] /\ UNCHANGED <<journal, served>>
        BY <2>6, <3>3 DEF EvaluateFaults
      <4>2. NoKeys(consumed["fault"], s) => NoKeys(consumed'["fault"], s)
        BY <2>2, <2>6, <4>1, OwnFaults
      <4>. QED  BY <2>5, <3>2, <4>1, <4>2
    <3>4. CASE ApplyRules(c)
      <4>1. /\ consumed'["rule"] = AfterRules(consumed["rule"], request[c])
            /\ consumed'["fault"] = consumed["fault"] /\ UNCHANGED <<journal, served>>
        BY <2>6, <3>4 DEF ApplyRules
      <4>2. NoKeys(consumed["rule"], s) => NoKeys(consumed'["rule"], s)
        BY <2>2, <2>6, <4>1, OwnRules
      <4>. QED  BY <2>5, <3>2, <4>1, <4>2
    <3>5. CASE MatchRecording(c)
      <4>1. served'[s] = served[s] /\ UNCHANGED <<journal, consumed>>
        BY <1>0, <2>2, <2>6, <3>5 DEF MatchRecording
      <4>. QED  BY <2>5, <3>2, <4>1
    <3>6. CASE Record(c)
      <4>1. /\ journal' = Recorded(journal, request[c].scope) /\ UNCHANGED <<consumed, served>>
            /\ request[c].scope \in Name
        BY <2>2, <3>6 DEF Record, Request
      <4>2. NoEntries(journal.entries, s) => NoEntries(journal'.entries, s)
        <5>1. 0 \in Nat
          OBVIOUS
        <5>. QED  BY <2>2, <2>6, <4>1, <5>1, RecordedFacts
      <4>. QED  BY <2>5, <3>2, <4>1, <4>2
    <3>. QED  BY <2>11, <3>3, <3>4, <3>5, <3>6
  <2>12. Rest4
    BY <1>3, <2>7, <2>8, <2>9, <2>10, <2>11 DEF Move
  <2>. QED  BY <2>2, <2>3, <2>4, <2>12 DEF Gone, Awaits
<1>4. CASE ResetJournal
  BY <1>0, <1>4 DEF ResetJournal
<1>5. CASE \E t \in Scope : ResetJournalScope(t)
  <2>1. PICK t \in Scope : ResetJournalScope(t)
    BY <1>5
  <2>2. /\ journal'.entries = Without(journal.entries, t) /\ journal.entries \in Seq(Entry)
        /\ UNCHANGED <<consumed, served, seen, at, request, victim, history, answers, clean>>
    BY <2>1 DEF ResetJournalScope, locals, Types
  <2>3. NoEntries(journal.entries, s) => NoEntries(journal'.entries, s)
    BY <2>2, NoEntriesKept
  <2>4. clean[s] /\ s \notin Known
    BY <2>2 DEF Known
  <2>. QED  BY <1>1, <2>2, <2>3, <2>4 DEF Awaits, InFlight
<1>6. CASE UNCHANGED vars
  BY <1>1, <1>6 DEF vars, locals, ghosts, Known, Awaits, InFlight
<1>7. ASSUME Gone(s)'
      PROVE  /\ InFlight(s)' = {}
             /\ history'[s] = <<>> /\ answers'[s] = <<>>
             /\ Awaits(s, J)' \/ NoEntries(journal'.entries, s)
             /\ Awaits(s, F)' \/ NoKeys(consumed'["fault"], s)
             /\ Awaits(s, R)' \/ NoKeys(consumed'["rule"], s)
             /\ Awaits(s, W)' \/ served'[s] = {}
  BY <1>7 DEF Gone, Awaits
<1>. QED  BY <1>2, <1>3, <1>4, <1>5, <1>6, <1>7 DEF Next, Move

-----------------------------------------------------------------------------
(* A scope that has the sandbox to itself                                    *)

\* Each step of a request leaves what is still to come.
LEMMA RestFacts ==
  ASSUME NEW f, NEW r, NEW m, NEW a, NEW rq
  PROVE  /\ \A step \in ToForget \cup {"faults"} : \A x, st : Rest(step, rq, x, st) = Alone(st, rq)
         /\ rq.ask.route = "declared" /\ FaultAnswer(f, rq) = None =>
              \A x : Alone(State(f, r, m, a), rq)
                       = Rest("rules", rq, x, State(AfterFaults(f, rq), r, m, a))
         /\ rq.ask.route = "declared" /\ FaultAnswer(f, rq) # None =>
              Alone(State(f, r, m, a), rq)
                = Rest("record", rq, FaultAnswer(f, rq), State(AfterFaults(f, rq), r, m, a))
         /\ RuleAnswer(r, rq) = None =>
              \A x, y : Rest("rules", rq, x, State(f, r, m, a))
                          = Rest("recordings", rq, y, State(f, AfterRules(r, rq), m, a))
         /\ RuleAnswer(r, rq) # None =>
              \A x : Rest("rules", rq, x, State(f, r, m, a))
                       = Rest("record", rq, RuleAnswer(r, rq), State(f, AfterRules(r, rq), m, a))
         /\ rq.ask.route = "unknown" =>
              Alone(State(f, r, m, a), rq)
                = Rest("record", rq, Match(m, rq).answer, State(f, r, Match(m, rq).marks, a))
<1> DEFINE st == State(f, r, m, a)
           hit == Match(m, rq)
<1>1. \A step \in ToForget \cup {"faults"} : \A x, t : Rest(step, rq, x, t) = Alone(t, rq)
  BY DEF Rest, ToForget
<1>s. \A ff, rr, mm, aa : /\ State(ff, rr, mm, aa).fault = ff /\ State(ff, rr, mm, aa).rule = rr
                         /\ State(ff, rr, mm, aa).marks = mm /\ State(ff, rr, mm, aa).answers = aa
  BY DEF State
<1>2. \A x, ff, rr, mm, aa : Rest("record", rq, x, State(ff, rr, mm, aa)) = State(ff, rr, mm, Append(aa, x))
  <2>1. \A x, t : Rest("record", rq, x, t) = State(t.fault, t.rule, t.marks, Append(t.answers, x))
    BY DEF Rest, ToForget
  <2>. QED  BY <1>s, <2>1
<1>3. \A x, ff, rr, mm, aa :
        Rest("recordings", rq, x, State(ff, rr, mm, aa))
          = State(ff, rr, Match(mm, rq).marks, Append(aa, Match(mm, rq).answer))
  <2>1. \A x, t : Rest("recordings", rq, x, t)
                    = State(t.fault, t.rule, Match(t.marks, rq).marks,
                            Append(t.answers, Match(t.marks, rq).answer))
    BY DEF Rest, ToForget
  <2>. QED  BY <1>s, <2>1
<1>4. \A x, ff, rr, mm, aa :
        Rest("rules", rq, x, State(ff, rr, mm, aa))
          = State(ff, AfterRules(rr, rq),
                  IF RuleAnswer(rr, rq) = None THEN Match(mm, rq).marks ELSE mm,
                  Append(aa, IF RuleAnswer(rr, rq) = None THEN Match(mm, rq).answer
                             ELSE RuleAnswer(rr, rq)))
  <2>1. \A x, t : Rest("rules", rq, x, t)
          = State(t.fault, AfterRules(t.rule, rq),
                  IF RuleAnswer(t.rule, rq) = None THEN Match(t.marks, rq).marks ELSE t.marks,
                  Append(t.answers, IF RuleAnswer(t.rule, rq) = None THEN Match(t.marks, rq).answer
                                    ELSE RuleAnswer(t.rule, rq)))
    BY DEF Rest, ToForget
  <2>. QED  BY <1>s, <2>1
<1>5. st.fault = f /\ st.rule = r /\ st.marks = m /\ st.answers = a
  BY DEF State
<1> HIDE DEF st
<1>6. ASSUME rq.ask.route = "declared", FaultAnswer(f, rq) = None
      PROVE  Alone(st, rq)
               = State(AfterFaults(f, rq), AfterRules(r, rq),
                       IF RuleAnswer(r, rq) = None THEN hit.marks ELSE m,
                       Append(a, IF RuleAnswer(r, rq) = None THEN hit.answer ELSE RuleAnswer(r, rq)))
  BY <1>5, <1>6 DEF Alone, State
<1>7. ASSUME rq.ask.route = "declared", FaultAnswer(f, rq) # None
      PROVE  Alone(st, rq) = State(AfterFaults(f, rq), r, m, Append(a, FaultAnswer(f, rq)))
  BY <1>5, <1>7 DEF Alone, State
<1>8. ASSUME rq.ask.route = "unknown"
      PROVE  Alone(st, rq) = State(f, r, hit.marks, Append(a, hit.answer))
  BY <1>5, <1>8 DEF Alone, State
<1>. QED  BY <1>1, <1>2, <1>3, <1>4, <1>6, <1>7, <1>8 DEF st

LEMMA RestEnds ==
  ASSUME NEW f, NEW r, NEW m, NEW a, NEW rq, NEW x
  PROVE  /\ Rest("recordings", rq, x, State(f, r, m, a))
              = Rest("record", rq, Match(m, rq).answer, State(f, r, Match(m, rq).marks, a))
         /\ Rest("record", rq, x, State(f, r, m, a)) = State(f, r, m, Append(a, x))
<1>1. \A ff, rr, mm, aa : /\ State(ff, rr, mm, aa).fault = ff /\ State(ff, rr, mm, aa).rule = rr
                         /\ State(ff, rr, mm, aa).marks = mm /\ State(ff, rr, mm, aa).answers = aa
  BY DEF State
<1>2. \A y, t : Rest("record", rq, y, t) = State(t.fault, t.rule, t.marks, Append(t.answers, y))
  BY DEF Rest, ToForget
<1>3. \A y, t : Rest("recordings", rq, y, t)
                  = State(t.fault, t.rule, Match(t.marks, rq).marks,
                          Append(t.answers, Match(t.marks, rq).answer))
  BY DEF Rest, ToForget
<1>. QED  BY <1>1, <1>2, <1>3

\* A scope that has left nothing behind finds an untouched sandbox.
LEMMA FreshIsUntouched ==
  ASSUME ScopesAssumption, Types, NEW s \in Scope, Gone(s), clean[s], s \notin Known,
         Forgetting(s) = {}
  PROVE  Own(s) = Replayed(history[s])
<1>1. \A steps : ~Awaits(s, steps)
  BY DEF Awaits, Forgetting
<1>2. /\ history[s] = <<>> /\ answers[s] = <<>> /\ served[s] = {}
      /\ NoKeys(consumed["fault"], s) /\ NoKeys(consumed["rule"], s)
  BY <1>1 DEF Gone
<1>3. Mine(consumed["fault"], s) = NoWindows["fault"] /\ Mine(consumed["rule"], s) = NoWindows["rule"]
  BY <1>2, NoWindowsFacts DEF Types
<1>4. Replayed(<<>>) = Untouched
  BY ReplayStep
<1>. QED  BY <1>2, <1>3, <1>4 DEF Own, State, Untouched

\* The moves of the other scopes' requests do not touch it.
LEMMA OwnKept ==
  ASSUME ScopesAssumption, Types, NEW s \in Name, Forgetting(s) = {},
         NEW c \in Client, Move(c), request[c].scope # s
  PROVE  Own(s)' = Own(s)
<1>0. /\ consumed = [w \in {"fault", "rule"} |-> consumed[w]]
      /\ consumed["fault"] \in Windows(Faults) /\ consumed["rule"] \in Windows(Rules)
      /\ served = [t \in Name |-> served[t]] /\ answers = [t \in Name |-> answers[t]]
      /\ request[c] \in Request /\ victim[c] # s
  BY MoveFacts DEF Types, Forgetting
<1>1. /\ Mine(consumed'["fault"], s) = Mine(consumed["fault"], s)
      /\ Mine(consumed'["rule"], s) = Mine(consumed["rule"], s)
      /\ served'[s] = served[s] /\ answers'[s] = answers[s]
  <2>1. CASE ForgetJournal(c)
    BY <2>1 DEF ForgetJournal, ghosts
  <2>2. CASE ForgetFaults(c)
    <3>1. /\ consumed'["fault"] = Dropped(consumed["fault"], victim[c])
          /\ consumed'["rule"] = consumed["rule"] /\ UNCHANGED <<served, answers>>
      BY <1>0, <2>2 DEF ForgetFaults, ghosts
    <3>. QED  BY <1>0, <3>1, DroppedFacts
  <2>3. CASE ForgetRules(c)
    <3>1. /\ consumed'["rule"] = Dropped(consumed["rule"], victim[c])
          /\ consumed'["fault"] = consumed["fault"] /\ UNCHANGED <<served, answers>>
      BY <1>0, <2>3 DEF ForgetRules, ghosts
    <3>. QED  BY <1>0, <3>1, DroppedFacts
  <2>4. CASE ForgetRecordings(c)
    <3>1. served' = [served EXCEPT ![victim[c]] = {}] /\ UNCHANGED <<consumed, answers>>
      BY <2>4 DEF ForgetRecordings, ghosts
    <3>. QED  BY <1>0, <3>1
  <2>5. CASE EvaluateFaults(c)
    <3>1. /\ consumed'["fault"] = AfterFaults(consumed["fault"], request[c])
          /\ consumed'["rule"] = consumed["rule"] /\ UNCHANGED <<served, answers>>
      BY <1>0, <2>5 DEF EvaluateFaults
    <3>. QED  BY <1>0, <3>1, OwnFaults
  <2>6. CASE ApplyRules(c)
    <3>1. /\ consumed'["rule"] = AfterRules(consumed["rule"], request[c])
          /\ consumed'["fault"] = consumed["fault"] /\ UNCHANGED <<served, answers>>
      BY <1>0, <2>6 DEF ApplyRules
    <3>. QED  BY <1>0, <3>1, OwnRules
  <2>7. CASE MatchRecording(c)
    <3>1. /\ served' = [served EXCEPT ![request[c].scope] =
                          Match(served[request[c].scope], request[c]).marks]
          /\ UNCHANGED <<consumed, answers>>
      BY <2>7 DEF MatchRecording, ghosts
    <3>. QED  BY <1>0, <3>1
  <2>8. CASE Record(c)
    <3>1. /\ answers' = [answers EXCEPT ![request[c].scope] = Append(@, answer[c])]
          /\ UNCHANGED <<consumed, served>>
      BY <2>8 DEF Record
    <3>. QED  BY <1>0, <3>1
  <2>. QED  BY <2>1, <2>2, <2>3, <2>4, <2>5, <2>6, <2>7, <2>8 DEF Move
<1>. QED  BY <1>1 DEF Own

\* Its own request goes on to where it would end alone.
LEMMA OwnMove ==
  ASSUME ScopesAssumption, Types, ~Full(consumed["fault"]), ~Full(consumed["rule"]),
         NEW s \in Name, Forgetting(s) = {},
         NEW c \in Client, Move(c), request[c].scope = s
  PROVE  IF at'[c] = "idle" THEN Own(s)' = Rest(at[c], request[c], answer[c], Own(s))
         ELSE Rest(at'[c], request[c], answer'[c], Own(s)')
                = Rest(at[c], request[c], answer[c], Own(s))
<1> DEFINE f == Mine(consumed["fault"], s)
           r == Mine(consumed["rule"], s)
           m == served[s]
           a == answers[s]
           rq == request[c]
<1>0. /\ consumed = [w \in {"fault", "rule"} |-> consumed[w]]
      /\ consumed["fault"] \in Windows(Faults) /\ consumed["rule"] \in Windows(Rules)
      /\ served = [t \in Name |-> served[t]] /\ answers = [t \in Name |-> answers[t]]
      /\ at = [d \in Client |-> at[d]] /\ answer = [d \in Client |-> answer[d]]
      /\ request[c] \in Request /\ victim[c] # s
  BY MoveFacts DEF Types, Forgetting
<1>1. Own(s) = State(f, r, m, a)
  BY DEF Own
<1>2. CASE ForgetJournal(c) \/ ForgetFaults(c) \/ ForgetRules(c) \/ ForgetRecordings(c)
  <2>1. at[c] \in ToForget /\ at'[c] \in (ToForget \cup {"faults"}) \ {"idle"}
    BY <1>0, <1>2 DEF ForgetJournal, ForgetFaults, ForgetRules, ForgetRecordings, Goto, ToForget
  <2>2. Own(s)' = Own(s)
    <3>1. CASE ForgetJournal(c)
      BY <3>1 DEF ForgetJournal, ghosts, Own
    <3>2. CASE ForgetFaults(c)
      <4>1. /\ consumed'["fault"] = Dropped(consumed["fault"], victim[c])
            /\ consumed'["rule"] = consumed["rule"] /\ UNCHANGED <<served, answers>>
        BY <1>0, <3>2 DEF ForgetFaults, ghosts
      <4>2. Mine(consumed'["fault"], s) = f
        BY <1>0, <4>1, DroppedFacts
      <4>. QED  BY <4>1, <4>2 DEF Own
    <3>3. CASE ForgetRules(c)
      <4>1. /\ consumed'["rule"] = Dropped(consumed["rule"], victim[c])
            /\ consumed'["fault"] = consumed["fault"] /\ UNCHANGED <<served, answers>>
        BY <1>0, <3>3 DEF ForgetRules, ghosts
      <4>2. Mine(consumed'["rule"], s) = r
        BY <1>0, <4>1, DroppedFacts
      <4>. QED  BY <4>1, <4>2 DEF Own
    <3>4. CASE ForgetRecordings(c)
      <4>1. served' = [served EXCEPT ![victim[c]] = {}] /\ UNCHANGED <<consumed, answers>>
        BY <3>4 DEF ForgetRecordings, ghosts
      <4>2. served'[s] = m
        BY <1>0, <4>1
      <4>. QED  BY <4>1, <4>2 DEF Own
    <3>. QED  BY <1>2, <3>1, <3>2, <3>3, <3>4
  <2>3. \A step \in ToForget \cup {"faults"} : \A x, st : Rest(step, rq, x, st) = Alone(st, rq)
    BY RestFacts
  <2> HIDE DEF rq
  <2>4. at'[c] # "idle" /\ at[c] \in ToForget \cup {"faults"} /\ at'[c] \in ToForget \cup {"faults"}
    BY <2>1
  <2>5. Rest(at'[c], rq, answer'[c], Own(s)') = Rest(at[c], rq, answer[c], Own(s))
    BY ONLY <2>2, <2>3, <2>4
  <2>. QED  BY <2>4, <2>5 DEF rq
<1>3. CASE EvaluateFaults(c)
  <2>1. /\ at[c] = "faults" /\ rq.ask.route = "declared"
        /\ consumed'["fault"] = AfterFaults(consumed["fault"], rq)
        /\ consumed'["rule"] = consumed["rule"] /\ UNCHANGED <<served, answers>>
        /\ answer'[c] = FaultAnswer(consumed["fault"], rq)
        /\ at'[c] = IF FaultAnswer(consumed["fault"], rq) = None THEN "rules" ELSE "record"
    BY <1>0, <1>3 DEF EvaluateFaults, Goto
  <2>2. /\ FaultAnswer(f, rq) = FaultAnswer(consumed["fault"], rq)
        /\ AfterFaults(f, rq) = Mine(consumed'["fault"], s)
    BY <1>0, <2>1, OwnFaults
  <2>3. Own(s)' = State(AfterFaults(f, rq), r, m, a)
    BY <2>1, <2>2 DEF Own
  <2>4. Rest(at[c], rq, answer[c], Own(s)) = Alone(State(f, r, m, a), rq)
    BY <1>1, <2>1, RestFacts
  <2> HIDE DEF f, r, m, a, rq
  <2>5. Rest(at'[c], rq, answer'[c], State(AfterFaults(f, rq), r, m, a)) = Alone(State(f, r, m, a), rq)
    <3>1. CASE FaultAnswer(f, rq) = None
      BY <2>1, <2>2, <3>1, RestFacts
    <3>2. CASE FaultAnswer(f, rq) # None
      BY <2>1, <2>2, <3>2, RestFacts
    <3>. QED  BY <3>1, <3>2
  <2>6. at'[c] # "idle"
    BY <2>1
  <2>. QED  BY <2>3, <2>4, <2>5, <2>6 DEF rq
<1>4. CASE ApplyRules(c)
  <2>1. /\ at[c] = "rules"
        /\ consumed'["rule"] = AfterRules(consumed["rule"], rq)
        /\ consumed'["fault"] = consumed["fault"] /\ UNCHANGED <<served, answers>>
        /\ answer'[c] = RuleAnswer(consumed["rule"], rq)
        /\ at'[c] = IF RuleAnswer(consumed["rule"], rq) = None THEN "recordings" ELSE "record"
    BY <1>0, <1>4 DEF ApplyRules, Goto
  <2>2. /\ RuleAnswer(r, rq) = RuleAnswer(consumed["rule"], rq)
        /\ AfterRules(r, rq) = Mine(consumed'["rule"], s)
    BY <1>0, <2>1, OwnRules
  <2>3. Own(s)' = State(f, AfterRules(r, rq), m, a)
    BY <2>1, <2>2 DEF Own
  <2>4. Rest(at[c], rq, answer[c], Own(s)) = Rest("rules", rq, answer[c], State(f, r, m, a))
    BY <1>1, <2>1
  <2> HIDE DEF f, r, m, a, rq
  <2>5. Rest(at'[c], rq, answer'[c], State(f, AfterRules(r, rq), m, a))
          = Rest("rules", rq, answer[c], State(f, r, m, a))
    <3>1. CASE RuleAnswer(r, rq) = None
      BY <2>1, <2>2, <3>1, RestFacts
    <3>2. CASE RuleAnswer(r, rq) # None
      BY <2>1, <2>2, <3>2, RestFacts
    <3>. QED  BY <3>1, <3>2
  <2>6. at'[c] # "idle"
    BY <2>1
  <2>. QED  BY <2>3, <2>4, <2>5, <2>6 DEF rq
<1>5. CASE MatchRecording(c)
  <2>1. /\ at[c] = "recordings" \/ (at[c] = "faults" /\ rq.ask.route = "unknown")
        /\ served'[s] = Match(m, rq).marks /\ UNCHANGED <<consumed, answers>>
        /\ answer'[c] = Match(m, rq).answer /\ at'[c] = "record"
    BY <1>0, <1>5 DEF MatchRecording, Goto, ghosts
  <2>2. Own(s)' = State(f, r, Match(m, rq).marks, a)
    BY <2>1 DEF Own
  <2> HIDE DEF f, r, m, a, rq
  <2>3. Rest(at[c], rq, answer[c], State(f, r, m, a))
          = Rest("record", rq, Match(m, rq).answer, State(f, r, Match(m, rq).marks, a))
    <3>1. CASE at[c] = "recordings"
      BY <3>1, RestEnds
    <3>2. CASE at[c] = "faults" /\ rq.ask.route = "unknown"
      <4>1. Rest(at[c], rq, answer[c], State(f, r, m, a)) = Alone(State(f, r, m, a), rq)
        BY <3>2, RestFacts
      <4>. QED  BY <3>2, <4>1, RestFacts
    <3>. QED  BY <2>1, <3>1, <3>2
  <2>. QED  BY <1>1, <2>1, <2>2, <2>3 DEF rq
<1>6. CASE Record(c)
  <2>1. /\ at[c] = "record" /\ at'[c] = "idle"
        /\ answers'[s] = Append(a, answer[c]) /\ UNCHANGED <<consumed, served>>
    BY <1>0, <1>6 DEF Record, Goto
  <2>2. Own(s)' = State(f, r, m, Append(a, answer[c]))
    BY <2>1 DEF Own
  <2> HIDE DEF f, r, m, a
  <2>3. Rest(at[c], rq, answer[c], State(f, r, m, a)) = State(f, r, m, Append(a, answer[c]))
    BY <2>1, RestEnds
  <2>. QED  BY <1>1, <2>1, <2>2, <2>3
<1>. QED  BY <1>2, <1>3, <1>4, <1>5, <1>6 DEF Move

LEMMA UndisturbedNext ==
  ASSUME ScopesAssumption, IInv, [Next]_vars, NEW s \in Name
  PROVE  Undisturbed(s)'
<1> SUFFICES ASSUME clean'[s], ~crowded', s = NoScope \/ s \in Known'
             PROVE  /\ InFlight(s)' = {} => Own(s)' = Replayed(history'[s])
                    /\ \A c \in InFlight(s)' :
                         Rest(at'[c], request'[c], answer'[c], Own(s)') = Replayed(history'[s])
  BY DEF Undisturbed
<1> DEFINE Goal == /\ InFlight(s)' = {} => Own(s)' = Replayed(history'[s])
                   /\ \A c \in InFlight(s)' :
                        Rest(at'[c], request'[c], answer'[c], Own(s)') = Replayed(history'[s])
<1>0. /\ Types /\ Roomy /\ Single(s) /\ Undisturbed(s) /\ s # None
      /\ s \in Scope => Gone(s)
      /\ s = NoScope => s \notin Scope
  BY DEF IInv, ScopesAssumption
<1>1. ASSUME NEW c \in Client, NEW rq \in Request, Begin(c, rq)  PROVE Goal
  <2> DEFINE r == rq.scope
             gone == Evicted(r)
  <2>1. /\ gone \in Scope \cup {None} /\ gone # r
        /\ request' = [request EXCEPT ![c] = rq]
        /\ at' = [at EXCEPT ![c] = IF gone # None THEN "forget journal" ELSE "faults"]
        /\ seen' = [t \in Scope |-> IF t = r THEN tick + 1 ELSE IF t = gone THEN 0 ELSE seen[t]]
        /\ history' = [t \in Name |-> IF t = r THEN Append(history[t], rq)
                                      ELSE IF t = gone THEN <<>> ELSE history[t]]
        /\ answers' = [t \in Name |-> IF t = gone THEN <<>> ELSE answers[t]]
        /\ clean' = [t \in Name |-> /\ clean[t]
                                    /\ t \in {r, gone} => InFlight(t) = {}
                                    /\ t = r => Forgetting(t) = {}]
        /\ UNCHANGED <<consumed, served, answer, crowded>>
    BY <1>0, <1>1, BeginIs
  <2>2. at[c] = "idle"
    BY <1>1 DEF Begin
  <2> HIDE DEF gone
  <2>3. s # gone
    <3>1. s = gone => s \in Scope /\ seen'[s] = 0 /\ s # NoScope
      BY <1>0, <2>1
    <3>. QED  BY <3>1 DEF Known
  <2>4. clean[s] /\ (s = r => InFlight(s) = {} /\ Forgetting(s) = {})
    BY <2>1
  <2>5. Own(s)' = Own(s)
    <3>1. answers'[s] = answers[s]
      BY <2>1, <2>3
    <3>. QED  BY <2>1, <3>1 DEF Own
  <2>6. CASE s = r
    <3>1. Own(s) = Replayed(history[s])
      <4>1. CASE s = NoScope \/ s \in Known
        BY <1>0, <2>1, <2>4, <2>6, <4>1 DEF Undisturbed
      <4>2. CASE s # NoScope /\ s \notin Known
        <5>1. s \in Scope
          BY <4>2 DEF Name
        <5>. QED  BY <1>0, <2>4, <2>6, <4>2, <5>1, FreshIsUntouched
      <4>. QED  BY <4>1, <4>2
    <3>2. Replayed(history'[s]) = Alone(Own(s), rq)
      <4>1. history'[s] = Append(history[s], rq) /\ history[s] \in Seq(Request)
        BY <1>0, <2>1, <2>6 DEF Types
      <4>. QED  BY <3>1, <4>1, ReplayStep
    <3>3. InFlight(s)' = {c}
      BY <1>0, <2>1, <2>4, <2>6 DEF InFlight, Types
    <3>4. /\ at'[c] \in ToForget \cup {"faults"} /\ request'[c] = rq
      BY <1>0, <2>1 DEF Types, ToForget
    <3>5. \A step \in ToForget \cup {"faults"} : \A x, st : Rest(step, rq, x, st) = Alone(st, rq)
      BY RestFacts
    <3>6. Rest(at'[c], request'[c], answer'[c], Own(s)') = Alone(Own(s), rq)
      BY ONLY <2>5, <3>4, <3>5
    <3>. QED  BY <3>2, <3>3, <3>6
  <2>7. CASE s # r
    <3>1. s = NoScope \/ s \in Known
      BY <2>1, <2>3, <2>7 DEF Known
    <3>2. history'[s] = history[s]
      BY <2>1, <2>3, <2>7
    <3>3. InFlight(s)' = InFlight(s) /\ c \notin InFlight(s)
      BY <1>0, <2>1, <2>2, <2>7 DEF InFlight, Types
    <3>4. \A d \in InFlight(s) : at'[d] = at[d] /\ request'[d] = request[d] /\ answer'[d] = answer[d]
      BY <1>0, <2>1, <3>3 DEF InFlight, Types
    <3>5. /\ InFlight(s) = {} => Own(s) = Replayed(history[s])
          /\ \A d \in InFlight(s) : Rest(at[d], request[d], answer[d], Own(s)) = Replayed(history[s])
      BY <1>0, <2>1, <2>4, <3>1 DEF Undisturbed
    <3>. QED  BY <2>5, <3>2, <3>3, <3>4, <3>5
  <2>. QED  BY <2>6, <2>7
<1>2. ASSUME NEW c \in Client, Move(c)  PROVE Goal
  <2>1. /\ at[c] # "idle" /\ request[c] \in Request
        /\ seen' = seen /\ clean' = clean /\ history' = history
        /\ \A d \in Client : d # c => /\ at'[d] = at[d] /\ request'[d] = request[d]
                                      /\ answer'[d] = answer[d]
        /\ request'[c] = request[c] \/ at'[c] = "idle"
    BY <1>0, <1>2, MoveFacts
  <2>2. ~crowded
    BY <1>2 DEF Move, ForgetJournal, ForgetFaults, ForgetRules, ForgetRecordings, EvaluateFaults,
               ApplyRules, MatchRecording, Record, ghosts
  <2>3. clean[s] /\ (s = NoScope \/ s \in Known)
    BY <2>1 DEF Known
  <2>4. /\ InFlight(s) = {} => Own(s) = Replayed(history[s])
        /\ \A d \in InFlight(s) : Rest(at[d], request[d], answer[d], Own(s)) = Replayed(history[s])
        /\ Forgetting(s) = {} /\ \A d, e \in InFlight(s) : d = e
    BY <1>0, <2>2, <2>3 DEF Undisturbed, Single
  <2>5. ~Full(consumed["fault"]) /\ ~Full(consumed["rule"])
    BY <1>0, <2>2 DEF Roomy
  <2>6. /\ InFlight(s)' \subseteq InFlight(s)
        /\ \A d \in Client : d # c => (d \in InFlight(s) <=> d \in InFlight(s)')
        /\ c \in InFlight(s) <=> request[c].scope = s
    BY <1>0, <1>2, MoveLess
  <2>7. InFlight(s) \subseteq Client
    BY DEF InFlight
  <2>8. CASE request[c].scope # s
    <3>1. Own(s)' = Own(s)
      BY <1>0, <1>2, <2>4, <2>8, OwnKept
    <3>2. InFlight(s)' = InFlight(s) /\ c \notin InFlight(s)
      BY <2>6, <2>7, <2>8
    <3>. QED  BY <2>1, <2>4, <2>7, <3>1, <3>2
  <2>9. CASE request[c].scope = s
    <3>1. IF at'[c] = "idle" THEN Own(s)' = Rest(at[c], request[c], answer[c], Own(s))
          ELSE Rest(at'[c], request[c], answer'[c], Own(s)')
                 = Rest(at[c], request[c], answer[c], Own(s))
      BY <1>0, <1>2, <2>4, <2>5, <2>9, OwnMove
    <3>2. InFlight(s) = {c} /\ Rest(at[c], request[c], answer[c], Own(s)) = Replayed(history[s])
      BY <2>4, <2>6, <2>9
    <3>3. CASE at'[c] = "idle"
      <4>1. InFlight(s)' = {}
        BY <2>6, <3>2, <3>3 DEF InFlight
      <4>. QED  BY <2>1, <3>1, <3>2, <3>3, <4>1
    <3>4. CASE at'[c] # "idle"
      <4>1. InFlight(s)' = {c} /\ request'[c] = request[c]
        BY <2>1, <2>6, <2>9, <3>2, <3>4 DEF InFlight
      <4>. QED  BY <2>1, <3>1, <3>2, <3>4, <4>1
    <3>. QED  BY <3>3, <3>4
  <2>. QED  BY <2>8, <2>9
<1>3. CASE ResetJournal
  BY <1>3 DEF ResetJournal
<1>4. CASE (\E t \in Scope : ResetJournalScope(t)) \/ UNCHANGED vars
  <2>1. UNCHANGED <<consumed, served, seen, at, request, victim, answer, history, answers, clean, crowded>>
    BY <1>4 DEF ResetJournalScope, vars, locals, ghosts
  <2>. QED  BY <1>0, <2>1 DEF Undisturbed, Known, InFlight, Own
<1>. QED  BY <1>1, <1>2, <1>3, <1>4 DEF Next, Move

-----------------------------------------------------------------------------
(* The invariant and what follows from it                                    *)

LEMMA IInvInit == ScopesAssumption /\ Init => IInv
<1> SUFFICES ASSUME ScopesAssumption, Init  PROVE IInv
  OBVIOUS
<1>1. Types
  BY TypesInit
<1>2. Roomy
  BY NoWindowsFacts DEF Init, Roomy
<1>3. Honest(journal, recorded[NoScope])
  <2>1. /\ journal.entries = <<>> /\ journal.seq = 0 /\ journal.evicted = 0
        /\ recorded[NoScope] = 0
    BY DEF Init, Name
  <2>2. Rising(<<>>) /\ Below(<<>>, 0) /\ Len(<<>>) = 0 /\ Of(<<>>, NoScope) = 0
    <3>1. Len(<<>>) = 0 /\ 1..0 = {}
      OBVIOUS
    <3>. QED  BY <3>1, OfFacts DEF Rising, Below
  <2>. QED  BY <2>1, <2>2 DEF Honest, ScopesAssumption
<1>4. ASSUME NEW s \in Name
      PROVE  /\ InFlight(s) = {} /\ Forgetting(s) = {}
             /\ history[s] = <<>> /\ answers[s] = <<>> /\ served[s] = {}
             /\ NoKeys(consumed["fault"], s) /\ NoKeys(consumed["rule"], s)
             /\ NoEntries(journal.entries, s)
  <2>1. InFlight(s) = {} /\ Forgetting(s) = {}
    BY DEF Init, InFlight, Forgetting, ScopesAssumption
  <2>2. NoKeys(consumed["fault"], s) /\ NoKeys(consumed["rule"], s)
    BY NoWindowsFacts DEF Init
  <2>3. NoEntries(<<>>, s)
    <3>1. Len(<<>>) = 0 /\ 1..0 = {}
      OBVIOUS
    <3>. QED  BY <3>1 DEF NoEntries
  <2>. QED  BY <2>1, <2>2, <2>3 DEF Init
<1>5. ASSUME NEW s \in Name  PROVE Single(s) /\ Undisturbed(s)
  <2>1. /\ Mine(consumed["fault"], s) = NoWindows["fault"]
        /\ Mine(consumed["rule"], s) = NoWindows["rule"]
    BY <1>1, <1>4, NoWindowsFacts DEF Types
  <2>2. Own(s) = Replayed(history[s])
    BY <1>4, <2>1, ReplayStep DEF Own, State, Untouched
  <2>. QED  BY <1>4, <2>2 DEF Single, Undisturbed
<1>6. \A s \in Scope : Gone(s)
  BY <1>4 DEF Gone, Name
<1>. QED  BY <1>1, <1>2, <1>3, <1>5, <1>6 DEF IInv

LEMMA IInvNext == ScopesAssumption /\ IInv /\ [Next]_vars => IInv'
<1> SUFFICES ASSUME ScopesAssumption, IInv, [Next]_vars  PROVE IInv'
  OBVIOUS
<1>1. Types /\ Roomy /\ Honest(journal, recorded[NoScope])
  BY DEF IInv
<1>2. Types' /\ Roomy' /\ Honest(journal', recorded'[NoScope])
  BY <1>1, TypesNext, RoomyNext, HonestNext
<1>3. ASSUME NEW s \in Scope  PROVE Gone(s)'
  <2>1. Gone(s)
    BY DEF IInv
  <2>. QED  BY <1>1, <2>1, GoneNext
<1>4. ASSUME NEW s \in Name  PROVE Single(s)' /\ Undisturbed(s)'
  <2>1. Single(s)
    BY DEF IInv
  <2>. QED  BY <1>1, <2>1, SingleNext, UndisturbedNext
<1>. QED  BY <1>2, <1>3, <1>4 DEF IInv

LEMMA Invariance == ScopesAssumption /\ Spec => []IInv
<1> SUFFICES ASSUME ScopesAssumption  PROVE Spec => []IInv
  OBVIOUS
<1>1. Init => IInv
  BY IInvInit
<1>2. IInv /\ [Next]_vars => IInv'
  BY IInvNext
<1>. QED  BY <1>1, <1>2, PTL DEF Spec

\* What VERIFY_REQUESTS reads is ordered and bounded, and while it says that
\* nothing was evicted the unscoped requests since the last reset are all there:
\* dropping a scope's entries drops none of theirs.
THEOREM JournalIsHonest == Spec => []JournalHonest
<1>1. IInv => JournalHonest
  <2> SUFFICES ASSUME IInv  PROVE JournalHonest
    OBVIOUS
  <2>1. Honest(journal, recorded[NoScope]) /\ DOMAIN journal.entries = 1..Len(journal.entries)
    BY DEF IInv, Types
  <2>. QED  BY <2>1 DEF Honest, Rising, Of, JournalHonest, JournalInOrder, UnscopedCountExact,
                        EntriesOf
<1>2. Spec => []IInv
  BY Invariance, ScopesAssumption
<1>. QED  BY <1>1, <1>2, PTL

\* forgetScope forgets: once nobody is at it, an evicted scope is in none of the
\* four tables, whatever the other scopes' requests did between its steps.
THEOREM EvictedScopesAreForgotten == Spec => []NothingLeftBehind
<1>1. ScopesAssumption /\ IInv => NothingLeftBehind
  <2> SUFFICES ASSUME ScopesAssumption, IInv, NEW s \in Scope, clean[s], s \notin Known,
                      Forgetting(s) = {}
               PROVE  /\ served[s] = {}
                      /\ \A i \in DOMAIN journal.entries : journal.entries[i].scope # s
                      /\ \A w \in DOMAIN consumed : \A i \in DOMAIN consumed[w] :
                           \A k \in KeysIn(consumed[w][i]) : k[1] # s
    BY DEF NothingLeftBehind
  <2>1. \A steps : ~Awaits(s, steps)
    BY DEF Awaits, Forgetting
  <2>2. /\ served[s] = {} /\ NoEntries(journal.entries, s)
        /\ NoKeys(consumed["fault"], s) /\ NoKeys(consumed["rule"], s)
    BY <2>1 DEF IInv, Gone
  <2>3. /\ DOMAIN journal.entries = 1..Len(journal.entries) /\ DOMAIN consumed = {"fault", "rule"}
    BY DEF IInv, Types
  <2>4. ASSUME NEW ws, NoKeys(ws, s)
        PROVE  \A i \in DOMAIN ws : \A k \in KeysIn(ws[i]) : k[1] # s
    BY <2>4 DEF NoKeys, KeysIn
  <2>. QED  BY <2>2, <2>3, <2>4 DEF NoEntries
<1>2. Spec => []IInv
  BY Invariance, ScopesAssumption
<1>. QED  BY <1>1, <1>2, ScopesAssumption, PTL

\* Scopes do not see each other: a scope whose requests come one after the other
\* is answered as if it were alone with a fresh sandbox, for any number of other
\* scopes, of their requests and of evictions between its own.
THEOREM ScopesAreIsolated == Spec => []AnsweredAsIfAlone
<1>1. ScopesAssumption /\ IInv => AnsweredAsIfAlone
  <2> SUFFICES ASSUME ScopesAssumption, IInv, NEW s \in Name, clean[s], InFlight(s) = {}, ~crowded
               PROVE  answers[s] = Replayed(history[s]).answers
    BY DEF AnsweredAsIfAlone, Replayed
  <2>1. CASE s = NoScope \/ s \in Known
    <3>1. Own(s) = Replayed(history[s])
      BY <2>1 DEF IInv, Undisturbed
    <3>2. Own(s).answers = answers[s]
      BY DEF Own, State
    <3>. QED  BY <3>1, <3>2
  <2>2. CASE s # NoScope /\ s \notin Known
    <3>1. history[s] = <<>> /\ answers[s] = <<>>
      BY <2>2 DEF IInv, Gone, Name
    <3>2. Replayed(<<>>) = Untouched
      BY ReplayStep
    <3>. QED  BY <3>1, <3>2 DEF Untouched
  <2>. QED  BY <2>1, <2>2
<1>2. Spec => []IInv
  BY Invariance, ScopesAssumption
<1>. QED  BY <1>1, <1>2, ScopesAssumption, PTL

=============================================================================
