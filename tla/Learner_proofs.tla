--------------------------- MODULE Learner_proofs ---------------------------
(***************************************************************************)
(* Proofs about Learner for any exchanges, any guard, any warm-up, any cap    *)
(* of the values, any number of accepters and any bounds.                     *)
(***************************************************************************)
EXTENDS Learner, FiniteSetTheorems, TLAPS

-----------------------------------------------------------------------------
(* The invariant                                                             *)

Lacking(S, f) == {x \in S : f \notin DOMAIN x.body}
Times(fields, f) == IF f \in DOMAIN fields THEN fields[f].count ELSE 0
Tables == UNION {[V -> Nat] : V \in SUBSET Value}

IsStats(st) ==
  /\ DOMAIN st = {"count", "types", "values", "high"}
  /\ st.count \in Nat /\ st.high \in BOOLEAN
  /\ st.values \in {None} \cup Tables

IsStatistics(fields) ==
  /\ fields = [f \in DOMAIN fields |-> fields[f]]
  /\ DOMAIN fields \subseteq Field
  /\ \A f \in DOMAIN fields : IsStats(fields[f])

IsFamily(fam) ==
  /\ DOMAIN fam = {"samples", "codes", "fields", "frozen", "ref", "refCodes", "frozenSamples",
                   "learned", "refLearned", "forgot", "version"}
  /\ fam.samples \in Nat /\ fam.frozen \in BOOLEAN /\ fam.frozenSamples \in Nat
  /\ IsStatistics(fam.fields) /\ IsStatistics(fam.ref)
  /\ fam.learned \subseteq Exchange /\ IsFiniteSet(fam.learned)
  /\ fam.refLearned \subseteq Exchange /\ IsFiniteSet(fam.refLearned)

\* The statistics know the exchanges S, but for values of forgotten fields.
Knows(fields, codes, S, forgot) ==
  \A x \in S :
    /\ x.status \in DOMAIN codes
    /\ \A f \in DOMAIN x.body :
         /\ f \in DOMAIN fields
         /\ x.body[f].type \in DOMAIN fields[f].types
         /\ (x.body[f].type = "string" /\ f \notin forgot /\ ~fields[f].high) =>
              fields[f].values # None /\ x.body[f].value \in DOMAIN fields[f].values

\* Of n samples, those of S without a field are not among those with it.
Within(fields, S, n) ==
  \A f \in Field : Times(fields, f) + Cardinality(Lacking(S, f)) <= n

Good(fam) ==
  /\ IsFamily(fam)
  /\ Knows(fam.fields, fam.codes, fam.learned, fam.forgot)
  /\ Knows(fam.ref, fam.refCodes, fam.refLearned, fam.forgot)
  /\ Within(fam.fields, fam.learned, fam.samples)
  /\ Within(fam.ref, fam.refLearned, fam.samples)

\* The number of samples of a reference is not of an earlier one.
Settled(fam) == fam.frozen => Within(fam.ref, fam.refLearned, fam.frozenSamples)

AllGood(fams) ==
  /\ fams = [k \in DOMAIN fams |-> fams[k]] /\ IsFiniteSet(DOMAIN fams)
  /\ \A k \in DOMAIN fams : Good(fams[k])
AllSettled(fams) == \A k \in DOMAIN fams : Settled(fams[k])

FamiliesInv ==
  /\ AllGood(families)
  /\ \A k \in DOMAIN families : (mu = None \/ k[1] # target[mu]) => Settled(families[k])

CopiesInv ==
  /\ AllGood(disk) /\ AllSettled(disk)
  /\ \A w \in Writer : at[w] = "write" => AllGood(snap[w]) /\ AllSettled(snap[w])

ThreadsInv ==
  /\ at \in [Thread -> {"idle", "compare", "removed", "samples", "persist", "write"}]
  /\ DOMAIN target = Accepter /\ DOMAIN snap = Writer
  /\ mu \in Accepter \cup {None}
  /\ \A w \in Writer : at[w] = "samples" <=> mu = w

RecorderInv ==
  /\ DOMAIN last = {"exchange", "learned", "forgot", "found", "raced", "samples"}
  /\ at["recorder"] \in {"compare", "removed"} =>
       /\ DOMAIN obs = {"key", "exchange", "ref"}
       /\ obs.key \in DOMAIN families /\ families[obs.key].frozen /\ obs.exchange \in Exchange
  /\ at["recorder"] = "removed" =>
       /\ last.exchange = obs.exchange
       /\ \A x \in last.learned : DOMAIN x.body \subseteq DOMAIN obs.ref
       /\ DOMAIN obs.ref \subseteq Field
       /\ \A found \in last.found : found.kind # "field_removed"
       /\ ~last.raced =>
            /\ mu = None
            /\ last.learned = families[obs.key].refLearned /\ obs.ref = families[obs.key].ref

IInv == FamiliesInv /\ CopiesInv /\ ThreadsInv /\ RecorderInv /\ LearnedIsSilent /\ RemovedWasAlwaysThere

-----------------------------------------------------------------------------
(* Folds: the merge of the families, the segments of a path, the samples     *)

MergeInto(k, acc) == Merge(acc, k)
WalkInto(s, acc) == Segment(acc, s)
ReadInto(s, acc) == [acc EXCEPT !.template = Append(acc.template, Read(acc.pins, acc.template, s))]
Highest(S) == Max(S)

Merging == INSTANCE FoldLemmas WITH Op <- MergeInto, Base <- None, Pick <- Highest
Walking == INSTANCE FoldLemmas WITH Op <- WalkInto, Base <- None, Pick <- Highest
Reading == INSTANCE FoldLemmas WITH Op <- ReadInto, Base <- None, Pick <- Highest

AddSamples(fam, n) == fam.samples + n
AddCount(c, n) == c + n
Some(S) == CHOOSE x \in S : TRUE

Samples == INSTANCE FoldLemmas WITH Op <- AddSamples, Base <- 0, Pick <- Some
Counts == INSTANCE FoldLemmas WITH Op <- AddCount, Base <- 0, Pick <- Some

LEMMA Finite ==
  \A S : IsFiniteSet(S) =>
    /\ Merging!IsFiniteSet(S) /\ Walking!IsFiniteSet(S) /\ Reading!IsFiniteSet(S)
    /\ Samples!IsFiniteSet(S) /\ Counts!IsFiniteSet(S)
BY DEF IsFiniteSet, Merging!IsFiniteSet, Walking!IsFiniteSet, Reading!IsFiniteSet,
       Samples!IsFiniteSet, Counts!IsFiniteSet

LEMMA IntervalFinite == \A n \in Nat : IsFiniteSet(1..n)
<1> TAKE n \in Nat
<1>1. 1 \in Int /\ n \in Int
  OBVIOUS
<1>. QED  BY <1>1, FS_Interval

\* The last place of a sequence is taken last.
LEMMA HighestIsLast ==
  ASSUME NEW n \in Nat
  PROVE  /\ IsFiniteSet(1..n)
         /\ \A S \in SUBSET (1..n) : S # {} => Highest(S) \in S
         /\ \A k \in 1..n : Highest(1..k) = k
<1>1. IsFiniteSet(1..n)
  BY IntervalFinite
<1>2. ASSUME NEW S \in SUBSET (1..n), S # {}  PROVE Highest(S) \in S
  <2> DEFINE D == 1..n
  <2>1. S \subseteq D /\ D \subseteq Int
    OBVIOUS
  <2> HIDE DEF D
  <2>2. IsFiniteSet(S)
    BY <1>1, <2>1, FS_Subset DEF D
  <2>3. \A T \in SUBSET S : T # {} => \E x \in T : \A y \in T : x >= y
    BY <2>1, <2>2, Finite, Merging!Greatest
  <2>4. \E x \in S : \A y \in S : x >= y
    BY <1>2, <2>3
  <2>. QED  BY <2>4 DEF Highest, Max
<1>3. ASSUME NEW k \in 1..n PROVE Highest(1..k) = k
  BY DEF Highest, Max
<1>. QED  BY <1>1, <1>2, <1>3

-----------------------------------------------------------------------------
(* One family                                                                *)

LEMMA EmptyTable ==
  EmptyBag \in Tables
<1>1. EmptyBag \in [{} -> Nat]
  BY DEF EmptyBag, SetToBag
<1>. QED  BY <1>1 DEF Tables

\* A table of values grows by one, or by another table.
LEMMA TableFacts ==
  ASSUME NEW b \in Tables
  PROVE  /\ b # None
         /\ \A c \in Tables : b (+) c \in Tables
         /\ \A v \in Value : SetToBag({v}) \in Tables
<1>1. b # None
  BY LearnerAssumption DEF Tables
<1>2. ASSUME NEW c \in Tables PROVE b (+) c \in Tables
  <2>1. PICK V \in SUBSET Value : b \in [V -> Nat]
    BY DEF Tables
  <2>2. PICK U \in SUBSET Value : c \in [U -> Nat]
    BY <1>2 DEF Tables
  <2>3. b (+) c \in [V \cup U -> Nat]
    BY <2>1, <2>2 DEF (+)
  <2>4. V \cup U \in SUBSET Value
    BY <2>1, <2>2
  <2>. QED  BY <2>3, <2>4 DEF Tables
<1>3. ASSUME NEW v \in Value PROVE SetToBag({v}) \in Tables
  <2>1. SetToBag({v}) \in [{v} -> Nat]
    BY DEF SetToBag
  <2>2. {v} \in SUBSET Value
    BY <1>3
  <2>. QED  BY <2>1, <2>2 DEF Tables
<1>. QED  BY <1>1, <1>2, <1>3

LEMMA CappedFacts ==
  ASSUME NEW st, IsStats(st)
  PROVE  /\ IsStats(Capped(st)) /\ Capped(st).count = st.count /\ Capped(st).types = st.types
         /\ st.high => Capped(st).high
         /\ ~Capped(st).high => Capped(st) = st
<1>1. CASE Capped(st) = st
  BY <1>1
<1>2. CASE Capped(st) = [st EXCEPT !.values = None, !.high = TRUE]
  BY <1>2 DEF IsStats
<1>. QED  BY <1>1, <1>2 DEF Capped

\* One field of an exchange is noted.
LEMMA NotedFacts ==
  ASSUME NEW st, IsStats(st), NEW field, NEW fv, fv.value \in Value
  PROVE  /\ IsStats(Noted(st, field, fv)) /\ Noted(st, field, fv).count = st.count + 1
         /\ DOMAIN Noted(st, field, fv).types = DOMAIN st.types \cup {fv.type}
         /\ ~Noted(st, field, fv).high =>
              /\ ~st.high
              /\ st.values # None => /\ Noted(st, field, fv).values # None
                                     /\ DOMAIN st.values \subseteq DOMAIN Noted(st, field, fv).values
              /\ fv.type = "string" => /\ Noted(st, field, fv).values # None
                                       /\ fv.value \in DOMAIN Noted(st, field, fv).values
<1> DEFINE new == Noted(st, field, fv)
           types == st.types (+) SetToBag({fv.type})
           base == IF st.values = None THEN EmptyBag ELSE st.values
           one == SetToBag({fv.value})
           grown == base (+) one
           counted == [st EXCEPT !.count = @ + 1, !.types = types]
           noted == [counted EXCEPT !.values = grown]
           dropped == [counted EXCEPT !.values = None, !.high = TRUE]
<1>1. /\ DOMAIN st = {"count", "types", "values", "high"}
      /\ st.count \in Nat /\ st.high \in BOOLEAN /\ st.values \in {None} \cup Tables
  BY DEF IsStats
<1>2. DOMAIN types = DOMAIN st.types \cup {fv.type}
  BY DEF (+), SetToBag
<1>3. EmptyBag \in Tables
  BY EmptyTable
<1>4. base \in Tables
  BY <1>1, <1>3
<1>5. grown \in Tables /\ DOMAIN grown = DOMAIN base \cup {fv.value} /\ grown # None
  <2>1. one \in Tables
    BY <1>4, TableFacts
  <2>2. DOMAIN grown = DOMAIN base \cup {fv.value}
    BY DEF (+), SetToBag
  <2> HIDE DEF base, one
  <2>3. grown \in Tables
    BY <1>4, <2>1, TableFacts
  <2> HIDE DEF grown
  <2>4. grown # None
    BY <2>3, TableFacts
  <2>. QED  BY <2>2, <2>3, <2>4
<1>6. new = IF field \in Volatile THEN dropped
            ELSE IF fv.type # "string" \/ st.high THEN counted ELSE Capped(noted)
  <2>1. counted.high = st.high /\ counted.values = st.values
    BY <1>1
  <2>. QED  BY DEF Noted
<1> HIDE DEF types, base, one, grown
<1>7. /\ IsStats(counted) /\ counted.count = st.count + 1 /\ counted.types = types
      /\ counted.values = st.values /\ counted.high = st.high
  BY <1>1 DEF IsStats
<1>8. /\ IsStats(noted) /\ noted.count = st.count + 1 /\ noted.types = types
      /\ noted.values = grown /\ noted.high = st.high
  BY <1>1, <1>5 DEF IsStats
<1>9. IsStats(dropped) /\ dropped.count = st.count + 1 /\ dropped.types = types /\ dropped.high
  BY <1>1 DEF IsStats
<1> HIDE DEF new, counted, noted, dropped
<1>10. CASE field \in Volatile
  <2>1. new = dropped
    BY <1>6, <1>10
  <2>. QED  BY <1>2, <1>9, <2>1 DEF new
<1>11. CASE field \notin Volatile /\ (fv.type # "string" \/ st.high)
  <2>1. new = counted
    BY <1>6, <1>11
  <2>. QED  BY <1>2, <1>7, <1>11, <2>1 DEF new
<1>12. CASE field \notin Volatile /\ ~(fv.type # "string" \/ st.high)
  <2>1. new = Capped(noted)
    BY <1>6, <1>12
  <2>2. /\ IsStats(new) /\ new.count = noted.count /\ new.types = noted.types
        /\ noted.high => new.high
        /\ ~new.high => new = noted
    BY <1>8, <2>1, CappedFacts
  <2>3. st.values # None => base = st.values
    BY DEF base
  <2>. QED  BY <1>2, <1>5, <1>8, <2>2, <2>3 DEF new
<1>. QED  BY <1>10, <1>11, <1>12

\* What a family lacks grows by at most what is added to it.
LEMMA LackingFacts ==
  ASSUME NEW S, IsFiniteSet(S), NEW T, IsFiniteSet(T), NEW f, NEW x
  PROVE  /\ Cardinality(Lacking(S, f)) \in Nat
         /\ Cardinality(Lacking(S \cup T, f)) <= Cardinality(Lacking(S, f)) + Cardinality(Lacking(T, f))
         /\ f \in DOMAIN x.body => Lacking(S \cup {x}, f) = Lacking(S, f)
         /\ Cardinality(Lacking(S \cup {x}, f)) <= Cardinality(Lacking(S, f)) + 1
<1> DEFINE A == Lacking(S, f)
           B == Lacking(T, f)
<1>1. IsFiniteSet(A) /\ IsFiniteSet(B)
  BY FS_Subset DEF Lacking
<1>2. Lacking(S \cup T, f) = A \cup B
  BY DEF Lacking
<1>3. Lacking(S \cup {x}, f) = IF f \in DOMAIN x.body THEN A ELSE A \cup {x}
  BY DEF Lacking
<1> HIDE DEF A, B
<1>4. Cardinality(A) \in Nat /\ Cardinality(B) \in Nat
  BY <1>1, FS_CardinalityType
<1>5. Cardinality(A \cup B) <= Cardinality(A) + Cardinality(B)
  <2>1. Cardinality(A \cup B) = Cardinality(A) + Cardinality(B) - Cardinality(A \cap B)
    BY <1>1, FS_Union
  <2>2. IsFiniteSet(A \cap B)
    BY <1>1, FS_Intersection
  <2>3. Cardinality(A \cap B) \in Nat
    BY <2>2, FS_CardinalityType
  <2>. QED  BY ONLY <1>4, <2>1, <2>3
<1>6. Cardinality(A \cup {x}) <= Cardinality(A) + 1
  <2>1. Cardinality(A \cup {x}) = IF x \in A THEN Cardinality(A) ELSE Cardinality(A) + 1
    BY <1>1, FS_AddElement
  <2>. QED  BY ONLY <1>4, <2>1
<1>7. f \in DOMAIN x.body => Lacking(S \cup {x}, f) = A
  BY <1>3
<1>8. Cardinality(Lacking(S \cup {x}, f)) <= Cardinality(A) + 1
  <2>1. CASE f \in DOMAIN x.body
    <3>1. Lacking(S \cup {x}, f) = A
      BY <1>3, <2>1
    <3>. QED  BY ONLY <3>1, <1>4
  <2>2. CASE f \notin DOMAIN x.body
    <3>1. Lacking(S \cup {x}, f) = A \cup {x}
      BY <1>3, <2>2
    <3>. QED  BY ONLY <3>1, <1>6
  <2>. QED  BY <2>1, <2>2
<1>9. Cardinality(Lacking(S \cup T, f)) <= Cardinality(A) + Cardinality(B)
  BY ONLY <1>2, <1>5
<1>. QED  BY ONLY <1>4, <1>7, <1>8, <1>9 DEF A, B

LEMMA FieldFacts ==
  ASSUME NEW x \in Exchange
  PROVE  /\ DOMAIN x.body \subseteq Field
         /\ \A f \in DOMAIN x.body : x.body[f].value \in Value
BY DEF Field, Value

LEMMA NewFacts ==
  /\ IsStats(NewStats) /\ NewStats.count = 0 /\ ~NewStats.high
  /\ Good(NewFamily) /\ Settled(NewFamily)
<1>1. IsStats(NewStats) /\ NewStats.count = 0 /\ ~NewStats.high
  BY DEF IsStats, NewStats
<1>2. IsFiniteSet({})
  BY FS_EmptySet
<1>3. /\ DOMAIN NewFamily = {"samples", "codes", "fields", "frozen", "ref", "refCodes", "frozenSamples",
                             "learned", "refLearned", "forgot", "version"}
      /\ NewFamily.samples = 0 /\ NewFamily.frozen = FALSE /\ NewFamily.frozenSamples = 0
      /\ NewFamily.fields = Empty /\ NewFamily.ref = Empty
      /\ NewFamily.learned = {} /\ NewFamily.refLearned = {}
  BY DEF NewFamily
<1>4. DOMAIN Empty = {} /\ IsStatistics(Empty)
  BY DEF Empty, IsStatistics
<1>5. IsFamily(NewFamily)
  <2>1. IsStatistics(NewFamily.fields) /\ IsStatistics(NewFamily.ref)
    BY <1>3, <1>4
  <2>2. IsFiniteSet(NewFamily.learned) /\ IsFiniteSet(NewFamily.refLearned)
    BY <1>2, <1>3
  <2>3. NewFamily.frozen \in BOOLEAN
    BY DEF NewFamily
  <2>4. NewFamily.samples \in Nat /\ NewFamily.frozenSamples \in Nat
    BY <1>3
  <2>5. NewFamily.learned \subseteq Exchange /\ NewFamily.refLearned \subseteq Exchange
    BY <1>3
  <2> HIDE DEF NewFamily
  <2>. QED  BY ONLY <1>3, <2>1, <2>2, <2>3, <2>4, <2>5 DEF IsFamily
<1>6. \A fields, codes, forgot : Knows(fields, codes, {}, forgot)
  BY DEF Knows
<1>7. Within(Empty, {}, 0)
  <2>1. Cardinality({}) = 0
    BY FS_EmptySet
  <2>2. \A f : Lacking({}, f) = {}
    BY DEF Lacking
  <2>3. \A f : Times(Empty, f) = 0
    BY ONLY <1>4 DEF Times
  <2> HIDE DEF Times, Lacking
  <2>4. \A f : Times(Empty, f) + Cardinality(Lacking({}, f)) <= 0
    BY ONLY <2>1, <2>2, <2>3
  <2>. QED  BY ONLY <2>4 DEF Within
<1>8. Good(NewFamily)
  BY <1>3, <1>5, <1>6, <1>7 DEF Good
<1>. QED  BY <1>1, <1>3, <1>8 DEF Settled

\* An exchange is folded into a family.
LEMMA FoldGood ==
  ASSUME NEW fam, Good(fam), NEW x \in Exchange
  PROVE  /\ Good(Fold(fam, x)) /\ Fold(fam, x).frozen = fam.frozen
         /\ Settled(fam) => Settled(Fold(fam, x))
         /\ Fold(fam, x).ref = fam.ref /\ Fold(fam, x).refLearned = fam.refLearned
<1> DEFINE new == Fold(fam, x)
           old == [f \in Field |-> IF f \in DOMAIN fam.fields THEN fam.fields[f] ELSE NewStats]
           fields == [f \in DOMAIN fam.fields \cup DOMAIN x.body |->
                        IF f \in DOMAIN x.body THEN Noted(old[f], f, x.body[f]) ELSE fam.fields[f]]
<1>1. /\ IsFamily(fam)
      /\ Knows(fam.fields, fam.codes, fam.learned, fam.forgot)
      /\ Knows(fam.ref, fam.refCodes, fam.refLearned, fam.forgot)
      /\ Within(fam.fields, fam.learned, fam.samples) /\ Within(fam.ref, fam.refLearned, fam.samples)
  BY DEF Good
<1>2. /\ DOMAIN x.body \subseteq Field /\ DOMAIN fam.fields \subseteq Field
      /\ \A f \in DOMAIN x.body : x.body[f].value \in Value
  BY <1>1, FieldFacts DEF IsFamily, IsStatistics
<1>3. fields = [f \in DOMAIN fam.fields \cup DOMAIN x.body |->
                  IF f \in DOMAIN x.body
                  THEN Noted(IF f \in DOMAIN fam.fields THEN fam.fields[f] ELSE NewStats, f, x.body[f])
                  ELSE fam.fields[f]]
  BY <1>2
<1>4. /\ new = [fam EXCEPT !.samples = @ + 1, !.codes = @ (+) SetToBag({x.status}),
                           !.fields = fields, !.learned = @ \cup {x}]
  <2> DEFINE given == [f \in DOMAIN fam.fields \cup DOMAIN x.body |->
                  IF f \in DOMAIN x.body
                  THEN Noted(IF f \in DOMAIN fam.fields THEN fam.fields[f] ELSE NewStats, f, x.body[f])
                  ELSE fam.fields[f]]
  <2>1. new = [fam EXCEPT !.samples = @ + 1, !.codes = @ (+) SetToBag({x.status}),
                           !.fields = given, !.learned = @ \cup {x}]
    BY DEF Fold
  <2> HIDE DEF given, fields, new
  <2>. QED  BY <1>3, <2>1 DEF given
<1> HIDE DEF new, fields
<1>5. /\ DOMAIN new = DOMAIN fam
      /\ new.samples = fam.samples + 1 /\ new.codes = fam.codes (+) SetToBag({x.status})
      /\ new.fields = fields /\ new.learned = fam.learned \cup {x}
      /\ new.frozen = fam.frozen /\ new.ref = fam.ref /\ new.refCodes = fam.refCodes
      /\ new.frozenSamples = fam.frozenSamples /\ new.refLearned = fam.refLearned
      /\ new.forgot = fam.forgot
  BY <1>1, <1>4 DEF IsFamily
<1>6. \A f \in Field : IsStats(old[f]) /\ old[f].count = Times(fam.fields, f)
  BY <1>1, NewFacts DEF IsFamily, IsStatistics, Times
<1>7. \A f \in DOMAIN x.body : fields[f] = Noted(old[f], f, x.body[f])
  BY DEF fields
<1>8. \A f \in DOMAIN fam.fields \ DOMAIN x.body : fields[f] = fam.fields[f]
  BY DEF fields
<1>9. DOMAIN fields = DOMAIN fam.fields \cup DOMAIN x.body
  BY DEF fields
<1>10. \A f \in DOMAIN fam.fields : old[f] = fam.fields[f]
  BY <1>2
<1> HIDE DEF old
<1>11. \A f \in DOMAIN x.body :
         /\ IsStats(fields[f]) /\ fields[f].count = old[f].count + 1
         /\ DOMAIN fields[f].types = DOMAIN old[f].types \cup {x.body[f].type}
         /\ ~fields[f].high =>
              /\ ~old[f].high
              /\ old[f].values # None => /\ fields[f].values # None
                                         /\ DOMAIN old[f].values \subseteq DOMAIN fields[f].values
              /\ x.body[f].type = "string" => /\ fields[f].values # None
                                              /\ x.body[f].value \in DOMAIN fields[f].values
  <2> SUFFICES ASSUME NEW f \in DOMAIN x.body
               PROVE  /\ IsStats(fields[f]) /\ fields[f].count = old[f].count + 1
                      /\ DOMAIN fields[f].types = DOMAIN old[f].types \cup {x.body[f].type}
                      /\ ~fields[f].high =>
                           /\ ~old[f].high
                           /\ old[f].values # None => /\ fields[f].values # None
                                                      /\ DOMAIN old[f].values \subseteq DOMAIN fields[f].values
                           /\ x.body[f].type = "string" => /\ fields[f].values # None
                                                           /\ x.body[f].value \in DOMAIN fields[f].values
    OBVIOUS
  <2> DEFINE st == old[f]
             fv == x.body[f]
  <2>1. IsStats(st) /\ fv.value \in Value /\ fields[f] = Noted(st, f, fv)
    BY <1>2, <1>6, <1>7
  <2> HIDE DEF st, fv
  <2>2. /\ IsStats(fields[f]) /\ fields[f].count = st.count + 1
        /\ DOMAIN fields[f].types = DOMAIN st.types \cup {fv.type}
        /\ ~fields[f].high =>
              /\ ~st.high
              /\ st.values # None => /\ fields[f].values # None
                                     /\ DOMAIN st.values \subseteq DOMAIN fields[f].values
              /\ fv.type = "string" => /\ fields[f].values # None
                                       /\ fv.value \in DOMAIN fields[f].values
    BY <2>1, NotedFacts
  <2>. QED  BY <2>2 DEF st, fv
<1>12. IsStatistics(fields)
  <2>1. fields = [f \in DOMAIN fields |-> fields[f]]
    BY DEF fields
  <2>2. \A f \in DOMAIN fields : IsStats(fields[f])
    BY <1>1, <1>8, <1>9, <1>11 DEF IsFamily, IsStatistics
  <2>. QED  BY <1>2, <1>9, <2>1, <2>2 DEF IsStatistics
<1>13. IsFamily(new)
  <2>1. IsFiniteSet(new.learned)
    BY <1>1, <1>5, FS_AddElement DEF IsFamily
  <2>. QED  BY <1>1, <1>5, <1>12, <2>1 DEF IsFamily
<1>14. Knows(new.fields, new.codes, new.learned, new.forgot)
  <2>1. DOMAIN new.codes = DOMAIN fam.codes \cup {x.status}
    BY <1>5 DEF (+), SetToBag
  <2> SUFFICES ASSUME NEW y \in fam.learned \cup {x}
               PROVE  /\ y.status \in DOMAIN new.codes
                      /\ \A f \in DOMAIN y.body :
                           /\ f \in DOMAIN fields
                           /\ y.body[f].type \in DOMAIN fields[f].types
                           /\ (y.body[f].type = "string" /\ f \notin fam.forgot /\ ~fields[f].high) =>
                                fields[f].values # None /\ y.body[f].value \in DOMAIN fields[f].values
    BY <1>5 DEF Knows
  <2>2. CASE y = x
    BY <1>9, <1>11, <2>1, <2>2
  <2>3. CASE y \in fam.learned
    <3>1. y.status \in DOMAIN new.codes
      BY <1>1, <2>1, <2>3 DEF Knows
    <3>2. ASSUME NEW f \in DOMAIN y.body
          PROVE  /\ f \in DOMAIN fields
                 /\ y.body[f].type \in DOMAIN fields[f].types
                 /\ (y.body[f].type = "string" /\ f \notin fam.forgot /\ ~fields[f].high) =>
                      fields[f].values # None /\ y.body[f].value \in DOMAIN fields[f].values
      <4>1. /\ f \in DOMAIN fam.fields
            /\ y.body[f].type \in DOMAIN fam.fields[f].types
            /\ (y.body[f].type = "string" /\ f \notin fam.forgot /\ ~fam.fields[f].high) =>
                  fam.fields[f].values # None /\ y.body[f].value \in DOMAIN fam.fields[f].values
        BY <1>1, <2>3 DEF Knows
      <4>2. CASE f \in DOMAIN x.body
        <5>1. /\ DOMAIN fields[f].types = DOMAIN fam.fields[f].types \cup {x.body[f].type}
              /\ ~fields[f].high =>
                   /\ ~fam.fields[f].high
                   /\ fam.fields[f].values # None => /\ fields[f].values # None
                                              /\ DOMAIN fam.fields[f].values \subseteq DOMAIN fields[f].values
          BY <1>10, <1>11, <4>1, <4>2
        <5>. QED  BY <1>9, <4>1, <5>1
      <4>3. CASE f \notin DOMAIN x.body
        BY <1>8, <1>9, <4>1, <4>3
      <4>. QED  BY <4>2, <4>3
    <3>. QED  BY <3>1, <3>2
  <2>. QED  BY <2>2, <2>3
<1>15. Within(new.fields, new.learned, new.samples)
  <2> SUFFICES ASSUME NEW f \in Field
               PROVE  Times(fields, f) + Cardinality(Lacking(fam.learned \cup {x}, f)) <= fam.samples + 1
    BY <1>5 DEF Within
  <2>1. /\ Times(fam.fields, f) + Cardinality(Lacking(fam.learned, f)) <= fam.samples
        /\ fam.samples \in Nat
    BY <1>1 DEF Within, IsFamily
  <2>2. /\ Cardinality(Lacking(fam.learned, f)) \in Nat
        /\ f \in DOMAIN x.body => Lacking(fam.learned \cup {x}, f) = Lacking(fam.learned, f)
        /\ Cardinality(Lacking(fam.learned \cup {x}, f)) <= Cardinality(Lacking(fam.learned, f)) + 1
    BY <1>1, LackingFacts DEF IsFamily
  <2>3. Cardinality(Lacking(fam.learned \cup {x}, f)) \in Nat
    <3>1. IsFiniteSet(fam.learned \cup {x})
      BY <1>5, <1>13 DEF IsFamily
    <3>. QED  BY <3>1, LackingFacts
  <2>4. Times(fam.fields, f) \in Nat
    BY <1>6 DEF IsStats
  <2>5. CASE f \in DOMAIN x.body
    <3>1. Times(fields, f) = Times(fam.fields, f) + 1
      <4>1. f \in DOMAIN fields /\ fields[f].count = old[f].count + 1
        BY <1>9, <1>11, <2>5
      <4>2. old[f].count = Times(fam.fields, f)
        BY <1>6
      <4>3. Times(fields, f) = fields[f].count
        BY <4>1 DEF Times
      <4>. QED  BY <4>1, <4>2, <4>3
    <3>. QED  BY <2>1, <2>2, <2>3, <2>4, <2>5, <3>1
  <2>6. CASE f \notin DOMAIN x.body
    <3>1. Times(fields, f) = Times(fam.fields, f)
      BY <1>8, <1>9, <2>6 DEF Times
    <3>. QED  BY <2>1, <2>2, <2>3, <2>4, <3>1
  <2>. QED  BY <2>5, <2>6
<1>16. Within(new.ref, new.refLearned, new.samples)
  <2> SUFFICES ASSUME NEW f \in Field
               PROVE  Times(fam.ref, f) + Cardinality(Lacking(fam.refLearned, f)) <= fam.samples + 1
    BY <1>5 DEF Within
  <2>1. /\ Times(fam.ref, f) + Cardinality(Lacking(fam.refLearned, f)) <= fam.samples
        /\ fam.samples \in Nat
    BY <1>1 DEF Within, IsFamily
  <2>2. Times(fam.ref, f) \in Nat /\ Cardinality(Lacking(fam.refLearned, f)) \in Nat
    <3>1. Cardinality(Lacking(fam.refLearned, f)) \in Nat
      BY <1>1, LackingFacts DEF IsFamily
    <3>2. Times(fam.ref, f) \in Nat
      BY <1>1 DEF Times, IsFamily, IsStatistics, IsStats
    <3>. QED  BY <3>1, <3>2
  <2>. QED  BY <2>1, <2>2
<1>17. Good(new)
  BY <1>1, <1>5, <1>13, <1>14, <1>15, <1>16 DEF Good
<1>18. Settled(fam) => Settled(new)
  BY <1>5 DEF Settled
<1>. QED  BY <1>5, <1>17, <1>18 DEF new

\* A family is frozen, in its two parts.
LEMMA ReferenceGood ==
  ASSUME NEW fam, Good(fam), NEW version
  PROVE  /\ Good(TakeReference(fam, version)) /\ TakeReference(fam, version).frozen = TRUE
         /\ TakeReference(fam, version).samples = fam.samples
<1> DEFINE new == TakeReference(fam, version)
<1>1. /\ IsFamily(fam)
      /\ Knows(fam.fields, fam.codes, fam.learned, fam.forgot)
      /\ Within(fam.fields, fam.learned, fam.samples)
  BY DEF Good
<1>2. /\ DOMAIN new = DOMAIN fam /\ new.samples = fam.samples /\ new.codes = fam.codes
      /\ new.fields = fam.fields /\ new.frozen = TRUE /\ new.ref = fam.fields
      /\ new.refCodes = fam.codes /\ new.frozenSamples = fam.frozenSamples
      /\ new.learned = fam.learned /\ new.refLearned = fam.learned /\ new.forgot = fam.forgot
  BY <1>1 DEF TakeReference, IsFamily
<1> HIDE DEF new
<1>3. IsFamily(new)
  BY <1>1, <1>2 DEF IsFamily
<1>4. Good(new)
  BY <1>1, <1>2, <1>3 DEF Good
<1>. QED  BY <1>2, <1>4 DEF new

LEMMA SamplesGood ==
  ASSUME NEW fam, Good(fam)
  PROVE  /\ Good(TakeSamples(fam)) /\ Settled(TakeSamples(fam))
         /\ TakeSamples(fam).frozen = fam.frozen
         /\ TakeSamples(fam).ref = fam.ref /\ TakeSamples(fam).refLearned = fam.refLearned
         /\ TakeSamples(fam).samples = fam.samples
<1> DEFINE new == TakeSamples(fam)
<1>1. /\ IsFamily(fam)
      /\ Knows(fam.fields, fam.codes, fam.learned, fam.forgot)
      /\ Knows(fam.ref, fam.refCodes, fam.refLearned, fam.forgot)
      /\ Within(fam.fields, fam.learned, fam.samples) /\ Within(fam.ref, fam.refLearned, fam.samples)
  BY DEF Good
<1>2. /\ DOMAIN new = DOMAIN fam /\ new.samples = fam.samples /\ new.codes = fam.codes
      /\ new.fields = fam.fields /\ new.frozen = fam.frozen /\ new.ref = fam.ref
      /\ new.refCodes = fam.refCodes /\ new.frozenSamples = fam.samples
      /\ new.learned = fam.learned /\ new.refLearned = fam.refLearned /\ new.forgot = fam.forgot
  BY <1>1 DEF TakeSamples, IsFamily
<1> HIDE DEF new
<1>3. IsFamily(new)
  BY <1>1, <1>2 DEF IsFamily
<1>4. Good(new)
  BY <1>1, <1>2, <1>3 DEF Good
<1>5. Settled(new)
  BY <1>1, <1>2 DEF Settled
<1>. QED  BY <1>2, <1>4, <1>5 DEF new

\* Two statistics of a field are merged; the second one's values are lost where
\* the first has none and its table is not full.
LEMMA MergedFacts ==
  ASSUME NEW mine, IsStats(mine), NEW st, IsStats(st)
  PROVE  /\ IsStats(MergedStats(mine, st)) /\ MergedStats(mine, st).count = mine.count + st.count
         /\ DOMAIN MergedStats(mine, st).types = DOMAIN mine.types \cup DOMAIN st.types
         /\ ~MergedStats(mine, st).high =>
              /\ ~mine.high /\ ~st.high
              /\ mine.values # None =>
                   /\ MergedStats(mine, st).values # None
                   /\ DOMAIN mine.values \subseteq DOMAIN MergedStats(mine, st).values
              /\ (mine.values # None /\ st.values # None) =>
                   DOMAIN st.values \subseteq DOMAIN MergedStats(mine, st).values
<1> DEFINE new == MergedStats(mine, st)
           types == mine.types (+) st.types
           grown == mine.values (+) st.values
           added == [mine EXCEPT !.count = @ + st.count, !.types = types]
           merged == [added EXCEPT !.values = grown]
           dropped == [added EXCEPT !.values = None, !.high = TRUE]
<1>1. /\ DOMAIN mine = {"count", "types", "values", "high"}
      /\ mine.count \in Nat /\ mine.high \in BOOLEAN /\ mine.values \in {None} \cup Tables
      /\ st.count \in Nat /\ st.high \in BOOLEAN /\ st.values \in {None} \cup Tables
  BY DEF IsStats
<1>2. DOMAIN types = DOMAIN mine.types \cup DOMAIN st.types
  BY DEF (+)
<1>3. (mine.values # None /\ st.values # None) =>
        grown \in Tables /\ DOMAIN grown = DOMAIN mine.values \cup DOMAIN st.values /\ grown # None
  <2> SUFFICES ASSUME mine.values # None, st.values # None
               PROVE  grown \in Tables /\ DOMAIN grown = DOMAIN mine.values \cup DOMAIN st.values /\ grown # None
    OBVIOUS
  <2>1. mine.values \in Tables /\ st.values \in Tables
    BY <1>1
  <2>2. DOMAIN grown = DOMAIN mine.values \cup DOMAIN st.values
    BY DEF (+)
  <2>3. grown \in Tables
    BY <2>1, TableFacts
  <2> HIDE DEF grown
  <2>4. grown # None
    BY <2>3, TableFacts
  <2>. QED  BY <2>2, <2>3, <2>4
<1>4. new = IF st.high THEN dropped
            ELSE IF mine.values # None /\ st.values # None THEN Capped(merged) ELSE added
  <2>1. added.values = mine.values
    BY <1>1
  <2>. QED  BY <2>1 DEF MergedStats
<1> HIDE DEF types, grown
<1>5. /\ IsStats(added) /\ added.count = mine.count + st.count /\ added.types = types
      /\ added.values = mine.values /\ added.high = mine.high
  BY <1>1 DEF IsStats
<1>6. (mine.values # None /\ st.values # None) =>
        /\ IsStats(merged) /\ merged.count = mine.count + st.count /\ merged.types = types
        /\ merged.values = grown /\ merged.high = mine.high
  BY <1>1, <1>3 DEF IsStats
<1>7. IsStats(dropped) /\ dropped.count = mine.count + st.count /\ dropped.types = types /\ dropped.high
  BY <1>1 DEF IsStats
<1> HIDE DEF new, added, merged, dropped
<1>8. CASE st.high
  <2>1. new = dropped
    BY <1>4, <1>8
  <2>. QED  BY <1>2, <1>7, <2>1 DEF new
<1>9. CASE ~st.high /\ ~(mine.values # None /\ st.values # None)
  <2>1. new = added
    BY <1>4, <1>9
  <2>. QED  BY <1>2, <1>5, <1>9, <2>1 DEF new
<1>10. CASE ~st.high /\ mine.values # None /\ st.values # None
  <2>1. new = Capped(merged)
    BY <1>4, <1>10
  <2>2. /\ IsStats(new) /\ new.count = merged.count /\ new.types = merged.types
        /\ merged.high => new.high
        /\ ~new.high => new = merged
    BY <1>6, <1>10, <2>1, CappedFacts
  <2>. QED  BY <1>2, <1>3, <1>6, <1>10, <2>2 DEF new
<1>. QED  BY <1>8, <1>9, <1>10

LEMMA AbsorbGood ==
  ASSUME NEW fam, Good(fam), NEW other, Good(other)
  PROVE  /\ Good(Absorb(fam, other)) /\ Absorb(fam, other).frozen = FALSE
         /\ Settled(Absorb(fam, other))
         /\ Absorb(fam, other).samples = fam.samples + other.samples
<1> DEFINE new == Absorb(fam, other)
           both == DOMAIN fam.fields \cap DOMAIN other.fields
           all == DOMAIN fam.fields \cup DOMAIN other.fields
           lost == {f \in both : /\ fam.fields[f].values = None /\ ~fam.fields[f].high
                                 /\ other.fields[f].values # None}
           fields == [f \in all |-> IF f \in both THEN MergedStats(fam.fields[f], other.fields[f])
                                    ELSE IF f \in DOMAIN fam.fields THEN fam.fields[f] ELSE other.fields[f]]
<1>1. /\ IsFamily(fam) /\ IsFamily(other)
      /\ Knows(fam.fields, fam.codes, fam.learned, fam.forgot)
      /\ Knows(other.fields, other.codes, other.learned, other.forgot)
      /\ Within(fam.fields, fam.learned, fam.samples) /\ Within(other.fields, other.learned, other.samples)
  BY DEF Good
<1>2. new = [fam EXCEPT !.samples = @ + other.samples, !.codes = @ (+) other.codes, !.fields = fields,
                        !.frozen = FALSE, !.ref = Empty, !.learned = @ \cup other.learned,
                        !.refLearned = {}, !.forgot = @ \cup other.forgot \cup lost]
  BY DEF Absorb
<1>3. /\ DOMAIN fields = all
      /\ \A f \in both : fields[f] = MergedStats(fam.fields[f], other.fields[f])
      /\ \A f \in all \ both : fields[f] = IF f \in DOMAIN fam.fields THEN fam.fields[f] ELSE other.fields[f]
      /\ fields = [f \in DOMAIN fields |-> fields[f]]
  OBVIOUS
<1> HIDE DEF new, fields
<1>4. /\ DOMAIN new = DOMAIN fam
      /\ new.samples = fam.samples + other.samples /\ new.codes = fam.codes (+) other.codes
      /\ new.fields = fields /\ new.frozen = FALSE /\ new.ref = Empty /\ new.frozenSamples = fam.frozenSamples
      /\ new.learned = fam.learned \cup other.learned /\ new.refLearned = {}
      /\ new.forgot = fam.forgot \cup other.forgot \cup lost
  BY <1>1, <1>2 DEF IsFamily
<1>5. \A f \in both :
        /\ IsStats(fields[f]) /\ fields[f].count = fam.fields[f].count + other.fields[f].count
        /\ DOMAIN fields[f].types = DOMAIN fam.fields[f].types \cup DOMAIN other.fields[f].types
        /\ ~fields[f].high =>
             /\ ~fam.fields[f].high /\ ~other.fields[f].high
             /\ fam.fields[f].values # None =>
                  /\ fields[f].values # None
                  /\ DOMAIN fam.fields[f].values \subseteq DOMAIN fields[f].values
             /\ (fam.fields[f].values # None /\ other.fields[f].values # None) =>
                  DOMAIN other.fields[f].values \subseteq DOMAIN fields[f].values
  <2> SUFFICES ASSUME NEW f \in both
               PROVE  /\ IsStats(fields[f]) /\ fields[f].count = fam.fields[f].count + other.fields[f].count
                      /\ DOMAIN fields[f].types = DOMAIN fam.fields[f].types \cup DOMAIN other.fields[f].types
                      /\ ~fields[f].high =>
                           /\ ~fam.fields[f].high /\ ~other.fields[f].high
                           /\ fam.fields[f].values # None =>
                                /\ fields[f].values # None
                                /\ DOMAIN fam.fields[f].values \subseteq DOMAIN fields[f].values
                           /\ (fam.fields[f].values # None /\ other.fields[f].values # None) =>
                                DOMAIN other.fields[f].values \subseteq DOMAIN fields[f].values
    OBVIOUS
  <2> DEFINE mine == fam.fields[f]
             st == other.fields[f]
  <2>1. IsStats(mine) /\ IsStats(st) /\ fields[f] = MergedStats(mine, st)
    BY <1>1, <1>3 DEF IsFamily, IsStatistics
  <2> HIDE DEF mine, st
  <2>2. /\ IsStats(fields[f]) /\ fields[f].count = mine.count + st.count
        /\ DOMAIN fields[f].types = DOMAIN mine.types \cup DOMAIN st.types
        /\ ~fields[f].high =>
             /\ ~mine.high /\ ~st.high
             /\ mine.values # None =>
                  /\ fields[f].values # None
                  /\ DOMAIN mine.values \subseteq DOMAIN fields[f].values
             /\ (mine.values # None /\ st.values # None) =>
                  DOMAIN st.values \subseteq DOMAIN fields[f].values
    BY <2>1, MergedFacts
  <2>. QED  BY <2>2 DEF mine, st
<1>6. IsStatistics(fields)
  <2>1. \A f \in DOMAIN fields : IsStats(fields[f])
    BY <1>1, <1>3, <1>5 DEF IsFamily, IsStatistics
  <2>2. DOMAIN fields \subseteq Field
    BY <1>1, <1>3 DEF IsFamily, IsStatistics
  <2>. QED  BY <1>3, <2>1, <2>2 DEF IsStatistics
<1>7. /\ DOMAIN Empty = {} /\ IsStatistics(Empty) /\ IsFiniteSet({}) /\ Cardinality({}) = 0
  BY FS_EmptySet DEF Empty, IsStatistics
<1>8. IsFiniteSet(new.learned) /\ IsFiniteSet(new.refLearned)
  <2>1. IsFiniteSet(fam.learned) /\ IsFiniteSet(other.learned)
    BY <1>1 DEF IsFamily
  <2>2. IsFiniteSet(fam.learned \cup other.learned)
    BY ONLY <2>1, FS_Union
  <2>. QED  BY ONLY <1>4, <1>7, <2>2
<1>9. IsFamily(new)
  <2>1. new.samples \in Nat /\ new.frozenSamples \in Nat
    BY <1>1, <1>4 DEF IsFamily
  <2>2. new.frozen \in BOOLEAN
    BY <1>4
  <2>3. new.learned \subseteq Exchange /\ new.refLearned \subseteq Exchange
    BY <1>1, <1>4 DEF IsFamily
  <2>4. IsStatistics(new.fields) /\ IsStatistics(new.ref)
    BY <1>4, <1>6, <1>7
  <2>5. DOMAIN new = {"samples", "codes", "fields", "frozen", "ref", "refCodes", "frozenSamples",
                      "learned", "refLearned", "forgot", "version"}
    BY <1>1, <1>4 DEF IsFamily
  <2>. QED  BY ONLY <1>8, <2>1, <2>2, <2>3, <2>4, <2>5 DEF IsFamily
<1>10. Knows(new.fields, new.codes, new.learned, new.forgot)
  <2>1. DOMAIN new.codes = DOMAIN fam.codes \cup DOMAIN other.codes
    BY <1>4 DEF (+)
  <2> SUFFICES ASSUME NEW y \in fam.learned \cup other.learned
               PROVE  /\ y.status \in DOMAIN new.codes
                      /\ \A f \in DOMAIN y.body :
                           /\ f \in DOMAIN fields
                           /\ y.body[f].type \in DOMAIN fields[f].types
                           /\ (y.body[f].type = "string" /\ f \notin new.forgot /\ ~fields[f].high) =>
                                fields[f].values # None /\ y.body[f].value \in DOMAIN fields[f].values
    BY <1>4 DEF Knows
  <2>2. y.status \in DOMAIN new.codes
    BY <1>1, <2>1 DEF Knows
  <2>3. ASSUME NEW f \in DOMAIN y.body
        PROVE  /\ f \in DOMAIN fields
               /\ y.body[f].type \in DOMAIN fields[f].types
               /\ (y.body[f].type = "string" /\ f \notin new.forgot /\ ~fields[f].high) =>
                    fields[f].values # None /\ y.body[f].value \in DOMAIN fields[f].values
    <3>1. CASE y \in fam.learned
      <4>1. /\ f \in DOMAIN fam.fields
            /\ y.body[f].type \in DOMAIN fam.fields[f].types
            /\ (y.body[f].type = "string" /\ f \notin fam.forgot /\ ~fam.fields[f].high) =>
                  fam.fields[f].values # None /\ y.body[f].value \in DOMAIN fam.fields[f].values
        BY <1>1, <3>1 DEF Knows
      <4>2. CASE f \in both
        BY <1>3, <1>4, <1>5, <4>1, <4>2
      <4>3. CASE f \notin both
        BY <1>3, <1>4, <4>1, <4>3
      <4>. QED  BY <4>2, <4>3
    <3>2. CASE y \in other.learned
      <4>1. /\ f \in DOMAIN other.fields
            /\ y.body[f].type \in DOMAIN other.fields[f].types
            /\ (y.body[f].type = "string" /\ f \notin other.forgot /\ ~other.fields[f].high) =>
                  other.fields[f].values # None /\ y.body[f].value \in DOMAIN other.fields[f].values
        BY <1>1, <3>2 DEF Knows
      <4>2. CASE f \in both
        BY <1>3, <1>4, <1>5, <4>1, <4>2
      <4>3. CASE f \notin both
        BY <1>3, <1>4, <4>1, <4>3
      <4>. QED  BY <4>2, <4>3
    <3>. QED  BY <3>1, <3>2
  <2>. QED  BY <2>2, <2>3
<1>11. Within(new.fields, new.learned, new.samples)
  <2> SUFFICES ASSUME NEW f \in Field
               PROVE  Times(fields, f) + Cardinality(Lacking(fam.learned \cup other.learned, f))
                        <= fam.samples + other.samples
    BY <1>4 DEF Within
  <2>1. /\ Times(fam.fields, f) + Cardinality(Lacking(fam.learned, f)) <= fam.samples
        /\ Times(other.fields, f) + Cardinality(Lacking(other.learned, f)) <= other.samples
        /\ fam.samples \in Nat /\ other.samples \in Nat
    BY <1>1 DEF Within, IsFamily
  <2>2. IsFiniteSet(fam.learned) /\ IsFiniteSet(other.learned) /\ IsFiniteSet(fam.learned \cup other.learned)
    BY <1>1, <1>4, <1>8 DEF IsFamily
  <2>3. /\ Cardinality(Lacking(fam.learned, f)) \in Nat /\ Cardinality(Lacking(other.learned, f)) \in Nat
        /\ Cardinality(Lacking(fam.learned \cup other.learned, f)) \in Nat
        /\ Cardinality(Lacking(fam.learned \cup other.learned, f))
             <= Cardinality(Lacking(fam.learned, f)) + Cardinality(Lacking(other.learned, f))
    BY <2>2, LackingFacts
  <2>4. Times(fam.fields, f) \in Nat /\ Times(other.fields, f) \in Nat
    BY <1>1 DEF Times, IsFamily, IsStatistics, IsStats
  <2>5. Times(fields, f) = Times(fam.fields, f) + Times(other.fields, f)
    <3>1. CASE f \in both
      BY <1>3, <1>5, <3>1 DEF Times
    <3>2. CASE f \in all \ both
      BY <1>3, <2>4, <3>2 DEF Times
    <3>3. CASE f \notin all
      BY <1>3, <3>3 DEF Times
    <3>. QED  BY <3>1, <3>2, <3>3
  <2>. QED  BY ONLY <2>1, <2>3, <2>4, <2>5
<1>12. Within(new.ref, new.refLearned, new.samples) /\ Knows(new.ref, new.refCodes, new.refLearned, new.forgot)
  <2>1. \A f : Lacking({}, f) = {} /\ Times(Empty, f) = 0
    BY <1>7 DEF Lacking, Times
  <2>2. new.samples \in Nat
    BY <1>9 DEF IsFamily
  <2>3. \A S, codes, forgot : Knows(S, codes, {}, forgot)
    BY DEF Knows
  <2>4. Within(Empty, {}, new.samples)
    <3> SUFFICES ASSUME NEW f \in Field
                 PROVE  Times(Empty, f) + Cardinality(Lacking({}, f)) <= new.samples
      BY DEF Within
    <3>1. Times(Empty, f) = 0 /\ Cardinality(Lacking({}, f)) = 0
      BY <1>7, <2>1
    <3>. QED  BY ONLY <2>2, <3>1
  <2>5. new.ref = Empty /\ new.refLearned = {}
    BY <1>4
  <2>. QED  BY ONLY <2>3, <2>4, <2>5
<1>13. Good(new)
  BY <1>9, <1>10, <1>11, <1>12 DEF Good
<1>14. Settled(new)
  BY <1>4 DEF Settled
<1>. QED  BY <1>4, <1>13, <1>14 DEF new

-----------------------------------------------------------------------------
(* The merge of all families                                                 *)

\* What is put into sound families leaves them sound.
LEMMA PutGood ==
  ASSUME NEW fams, AllGood(fams), NEW k, NEW fam, Good(fam)
  PROVE  /\ AllGood(Put(fams, k, fam))
         /\ DOMAIN Put(fams, k, fam) = DOMAIN fams \cup {k} /\ Put(fams, k, fam)[k] = fam
         /\ \A j \in DOMAIN fams \ {k} : Put(fams, k, fam)[j] = fams[j]
         /\ AllSettled(fams) /\ Settled(fam) => AllSettled(Put(fams, k, fam))
<1>1. /\ DOMAIN Put(fams, k, fam) = DOMAIN fams \cup {k} /\ Put(fams, k, fam)[k] = fam
      /\ \A j \in DOMAIN fams \ {k} : Put(fams, k, fam)[j] = fams[j]
      /\ Put(fams, k, fam) = [j \in DOMAIN Put(fams, k, fam) |-> Put(fams, k, fam)[j]]
  BY DEF Put
<1> DEFINE new == Put(fams, k, fam)
<1> HIDE DEF new
<1>2. AllGood(new)
  <2>1. IsFiniteSet(DOMAIN fams \cup {k})
    BY FS_AddElement DEF AllGood
  <2>. QED  BY <1>1, <2>1 DEF AllGood, new
<1>3. AllSettled(fams) /\ Settled(fam) => AllSettled(new)
  BY <1>1 DEF AllSettled, new
<1>. QED  BY <1>1, <1>2, <1>3 DEF new

Merged(fams) == AllGood(fams) /\ AllSettled(fams)

LEMMA MergeGood ==
  ASSUME NEW acc, Merged(acc.merged), NEW k, Good(families[k]), Settled(families[k])
  PROVE  Merged(Merge(acc, k).merged)
<1> DEFINE new == <<Apply(acc.guard, k[1]).template, k[2]>>
           fam == IF new \in DOMAIN acc.merged THEN Absorb(acc.merged[new], families[k]) ELSE families[k]
           fams == acc.merged
<1>1. Merge(acc, k).merged = Put(fams, new, fam)
  BY DEF Merge
<1> HIDE DEF new
<1>2. Good(fam) /\ Settled(fam)
  <2>1. CASE new \in DOMAIN fams
    <3> DEFINE mine == fams[new]
               other == families[k]
    <3>1. Good(mine) /\ Good(other)
      BY <2>1 DEF Merged, AllGood
    <3>2. fam = Absorb(mine, other)
      BY <2>1
    <3> HIDE DEF mine, other, fam
    <3>. QED  BY <3>1, <3>2, AbsorbGood
  <2>2. CASE new \notin DOMAIN fams
    BY <2>2
  <2>. QED  BY <2>1, <2>2
<1>3. AllGood(fams) /\ AllSettled(fams)
  BY DEF Merged
<1> HIDE DEF fam, fams
<1>4. AllGood(Put(fams, new, fam)) /\ AllSettled(Put(fams, new, fam))
  BY <1>2, <1>3, PutGood
<1>. QED  BY <1>1, <1>4 DEF Merged

\* The families are merged one after the other.
LEMMA MergeRuns ==
  ASSUME NEW g, NEW S, NEW order \in Seq(S)
  PROVE  \E r : /\ r[0] = [guard |-> g, nested |-> FALSE, merged |-> Empty]
                /\ \A k \in Nat : k < Len(order) => r[k + 1] = Merge(r[k], order[k + 1])
                /\ MergeFamilies(g, order) = r[Len(order)]
<1> DEFINE n == Len(order)
           D == 1..n
           b == [guard |-> g, nested |-> FALSE, merged |-> Empty]
           W(h) == h = [s \in SUBSET D |-> IF s = {} THEN b ELSE
                          Merge(h[s \ {Max(s)}], order[Max(s)])]
           h == Merging!PartialFrom(b, order, D)
<1>1. DOMAIN order = D /\ n \in Nat
  OBVIOUS
<1>2. MergeFamilies(g, order) = (CHOOSE x : W(x))[D]
  BY <1>1 DEF MergeFamilies, FoldLeft, MapThenFoldSet
<1>3. ASSUME NEW x PROVE W(x) <=> Merging!IsFoldFrom(b, x, order, D)
  BY DEF Merging!IsFoldFrom, MergeInto, Highest
<1>4. (CHOOSE x : W(x)) = h
  <2> HIDE DEF W
  <2>. QED  BY <1>3 DEF Merging!PartialFrom
<1>5. Merging!Picks(D) /\ (\A k \in D : Highest(1..k) = k) /\ Merging!IsFiniteSet(D)
  BY <1>1, HighestIsLast, Finite DEF Merging!Picks
<1> HIDE DEF b, n, W
<1>6. \E r : Merging!Running(b, order, n, r) /\ h[D] = r[n]
  BY <1>1, <1>5, Merging!FoldHasRun
<1> HIDE DEF h
<1>. QED  BY <1>2, <1>4, <1>6 DEF Merging!Running, MergeInto, b, n

\* An order of the families is a sequence of them, each once.
LEMMA OrderFacts ==
  ASSUME NEW S, IsFiniteSet(S), NEW order \in SetToSeqs(S)
  PROVE  /\ order \in Seq(S) /\ Len(order) = Cardinality(S) /\ Cardinality(S) \in Nat
         /\ \A i, j \in 1..Len(order) : i # j => order[i] # order[j]
<1> DEFINE n == Cardinality(S)
<1>1. n \in Nat
  BY FS_CardinalityType
<1>2. order \in [1..n -> S] /\ \A i, j \in 1..n : i # j => order[i] # order[j]
  BY DEF SetToSeqs
<1> HIDE DEF n
<1>3. order \in Seq(S) /\ Len(order) = n
  BY <1>1, <1>2
<1>. QED  BY <1>1, <1>2, <1>3 DEF n

LEMMA MergeFamiliesGood ==
  ASSUME Merged(families), NEW order \in Seq(DOMAIN families), NEW g
  PROVE  Merged(MergeFamilies(g, order).merged)
<1> DEFINE n == Len(order)
           b == [guard |-> g, nested |-> FALSE, merged |-> Empty]
<1>1. PICK r : /\ r[0] = b
               /\ \A k \in Nat : k < n => r[k + 1] = Merge(r[k], order[k + 1])
               /\ MergeFamilies(g, order) = r[n]
  BY MergeRuns
<1> DEFINE G == {k \in Nat : k <= n => Merged(r[k].merged)}
<1>2. 0 \in G
  <2>1. r[0].merged = Empty
    BY <1>1
  <2>2. Merged(Empty)
    BY FS_EmptySet DEF Merged, AllGood, AllSettled, Empty
  <2>. QED  BY <2>1, <2>2
<1>3. ASSUME NEW k \in G PROVE k + 1 \in G
  <2> SUFFICES ASSUME k + 1 <= n PROVE Merged(r[k + 1].merged)
    OBVIOUS
  <2> DEFINE acc == r[k]
             key == order[k + 1]
  <2>1. k \in Nat /\ k < n /\ k + 1 \in 1..n /\ Merged(acc.merged)
    BY <1>3
  <2>2. key \in DOMAIN families
    BY <2>1
  <2>3. Good(families[key]) /\ Settled(families[key])
    BY <2>2 DEF Merged, AllGood, AllSettled
  <2>4. r[k + 1] = Merge(acc, key)
    BY <1>1, <2>1
  <2> HIDE DEF acc, key
  <2>. QED  BY <2>1, <2>3, <2>4, MergeGood
<1> HIDE DEF G
<1>4. \A k \in Nat : k \in G
  BY <1>2, <1>3, Merging!NumberInduction
<1>. QED  BY <1>1, <1>4 DEF G

-----------------------------------------------------------------------------
(* Counts and their sums                                                     *)

IsCounts(c) == IsFiniteSet(DOMAIN c) /\ c \in [DOMAIN c -> Nat]

LEMMA SumFacts ==
  ASSUME NEW c, IsCounts(c)
  PROVE  /\ SumFunctionOnSet(c, {}) = 0 /\ SumFunction(c) = SumFunctionOnSet(c, DOMAIN c)
         /\ \A T \in SUBSET DOMAIN c :
              /\ SumFunctionOnSet(c, T) \in Nat
              /\ \A x \in T : SumFunctionOnSet(c, T) = c[x] + SumFunctionOnSet(c, T \ {x})
<1> DEFINE D == DOMAIN c
<1>1. \A T : SumFunctionOnSet(c, T) = Counts!Fold(c, T)
  BY DEF SumFunctionOnSet, FoldFunctionOnSet, MapThenFoldSet, Counts!Fold, Counts!MapThenFoldSet,
         AddCount, Some
<1>2. Counts!Picks(D)
  BY DEF Counts!Picks, Some
<1>3. Counts!Commutes(Nat, Nat)
  BY DEF Counts!Commutes, AddCount
<1>4. Counts!IsFiniteSet(D) /\ c \in [D -> Nat]
  BY Finite DEF IsCounts
<1>5. SumFunction(c) = SumFunctionOnSet(c, D)
  BY DEF SumFunction
<1> HIDE DEF D
<1>6. /\ Counts!Fold(c, {}) = 0
      /\ \A T \in SUBSET D : /\ Counts!Fold(c, T) \in Nat
                             /\ \A x \in T : Counts!Fold(c, T) = AddCount(c[x], Counts!Fold(c, T \ {x}))
  BY <1>2, <1>3, <1>4, Counts!FoldFacts
<1>. QED  BY <1>1, <1>5, <1>6 DEF AddCount, D

\* Counts that agree have the same sum.
LEMMA SumSame ==
  ASSUME NEW b, NEW c, NEW S, IsFiniteSet(S), \A x \in S : b[x] = c[x]
  PROVE  SumFunctionOnSet(b, S) = SumFunctionOnSet(c, S)
<1>1. SumFunctionOnSet(b, S) = Counts!Fold(b, S) /\ SumFunctionOnSet(c, S) = Counts!Fold(c, S)
  BY DEF SumFunctionOnSet, FoldFunctionOnSet, MapThenFoldSet, Counts!Fold, Counts!MapThenFoldSet,
         AddCount, Some
<1>2. Counts!Picks(S) /\ Counts!IsFiniteSet(S)
  BY Finite DEF Counts!Picks, Some
<1>3. Counts!Fold(b, S) = Counts!Fold(c, S)
  BY <1>2, Counts!FoldCongruence
<1>. QED  BY <1>1, <1>3

\* Bags that are put together have the sum of both.
LEMMA BagSum ==
  ASSUME NEW b, IsCounts(b), NEW c, IsCounts(c)
  PROVE  IsCounts(b (+) c) /\ SumFunction(b (+) c) = SumFunction(b) + SumFunction(c)
<1> DEFINE s == b (+) c
           A == DOMAIN b
           B == DOMAIN c
           D == A \cup B
           Sum(f, T) == SumFunctionOnSet(f, T)
<1>1. /\ DOMAIN s = D /\ s = [x \in D |-> s[x]]
      /\ \A x \in D : s[x] = (IF x \in A THEN b[x] ELSE 0) + (IF x \in B THEN c[x] ELSE 0)
  BY DEF (+)
<1>2. IsFiniteSet(A) /\ IsFiniteSet(B) /\ b \in [A -> Nat] /\ c \in [B -> Nat]
  BY DEF IsCounts
<1>3. IsFiniteSet(D)
  BY <1>2, FS_Union
<1> HIDE DEF s
<1>4. IsCounts(s)
  <2>1. \A x \in D : s[x] \in Nat
    BY <1>1, <1>2
  <2>. QED  BY <1>1, <1>3, <2>1 DEF IsCounts
<1>5. /\ Sum(s, {}) = 0 /\ Sum(b, {}) = 0 /\ Sum(c, {}) = 0
      /\ SumFunction(s) = Sum(s, D) /\ SumFunction(b) = Sum(b, A) /\ SumFunction(c) = Sum(c, B)
      /\ \A T \in SUBSET D : \A x \in T : Sum(s, T) = s[x] + Sum(s, T \ {x})
      /\ \A T \in SUBSET A : Sum(b, T) \in Nat /\ \A x \in T : Sum(b, T) = b[x] + Sum(b, T \ {x})
      /\ \A T \in SUBSET B : Sum(c, T) \in Nat /\ \A x \in T : Sum(c, T) = c[x] + Sum(c, T \ {x})
  BY <1>1, <1>4, SumFacts
<1> HIDE DEF Sum
<1> DEFINE G == {T \in SUBSET D : Sum(s, T) = Sum(b, T \cap A) + Sum(c, T \cap B)}
<1>6. ASSUME NEW T \in SUBSET D, \A U \in SUBSET T : U # T => U \in G  PROVE T \in G
  <2>1. CASE T = {}
    <3>1. T \cap A = {} /\ T \cap B = {}
      BY <2>1
    <3>. QED  BY <1>5, <2>1, <3>1
  <2>2. CASE T # {}
    <3>1. PICK x \in T : TRUE
      BY <2>2
    <3> DEFINE U == T \ {x}
    <3>2. Sum(s, U) = Sum(b, U \cap A) + Sum(c, U \cap B)
      BY <1>6, <3>1
    <3>3. Sum(s, T) = s[x] + Sum(s, U) /\ x \in D
      BY <1>5, <3>1
    <3>4. Sum(b, U \cap A) \in Nat /\ Sum(c, U \cap B) \in Nat
      BY <1>5
    <3>5. Sum(b, T \cap A) = (IF x \in A THEN b[x] ELSE 0) + Sum(b, U \cap A)
      <4>1. CASE x \in A
        <5>1. (T \cap A) \ {x} = U \cap A /\ x \in T \cap A /\ T \cap A \in SUBSET A
          BY <3>1, <4>1
        <5>. QED  BY <1>5, <4>1, <5>1
      <4>2. CASE x \notin A
        <5>1. T \cap A = U \cap A
          BY <4>2
        <5>. QED  BY <3>4, <4>2, <5>1
      <4>. QED  BY <4>1, <4>2
    <3>6. Sum(c, T \cap B) = (IF x \in B THEN c[x] ELSE 0) + Sum(c, U \cap B)
      <4>1. CASE x \in B
        <5>1. (T \cap B) \ {x} = U \cap B /\ x \in T \cap B /\ T \cap B \in SUBSET B
          BY <3>1, <4>1
        <5>. QED  BY <1>5, <4>1, <5>1
      <4>2. CASE x \notin B
        <5>1. T \cap B = U \cap B
          BY <4>2
        <5>. QED  BY <3>4, <4>2, <5>1
      <4>. QED  BY <4>1, <4>2
    <3> DEFINE m == IF x \in A THEN b[x] ELSE 0
               n == IF x \in B THEN c[x] ELSE 0
    <3>7. s[x] = m + n /\ m \in Nat /\ n \in Nat
      BY <1>1, <1>2, <3>3
    <3> HIDE DEF m, n, U
    <3>8. Sum(s, T) = Sum(b, T \cap A) + Sum(c, T \cap B)
      BY <3>2, <3>3, <3>4, <3>5, <3>6, <3>7 DEF m, n
    <3>. QED  BY <3>8
  <2>. QED  BY <2>1, <2>2
<1> HIDE DEF G
<1>7. \A T \in SUBSET D : T \in G
  <2>1. Counts!IsFiniteSet(D)
    BY <1>3, Finite
  <2> HIDE DEF D
  <2>. QED  BY <1>6, <2>1, Counts!SubsetInduction
<1>8. Sum(s, D) = Sum(b, A) + Sum(c, B)
  <2>1. D \cap A = A /\ D \cap B = B /\ D \in G
    BY <1>7
  <2>. QED  BY <2>1 DEF G
<1>. QED  BY <1>4, <1>5, <1>8 DEF s

LEMMA FewCounts ==
  /\ IsCounts(EmptyBag) /\ SumFunction(EmptyBag) = 0
  /\ \A v : IsCounts(SetToBag({v})) /\ SumFunction(SetToBag({v})) = 1
<1>1. DOMAIN EmptyBag = {} /\ EmptyBag \in [{} -> Nat]
  BY DEF EmptyBag, SetToBag
<1>2. IsCounts(EmptyBag)
  BY <1>1, FS_EmptySet DEF IsCounts
<1>3. SumFunction(EmptyBag) = 0
  BY <1>1, <1>2, SumFacts
<1>4. ASSUME NEW v  PROVE IsCounts(SetToBag({v})) /\ SumFunction(SetToBag({v})) = 1
  <2> DEFINE c == SetToBag({v})
  <2>1. DOMAIN c = {v} /\ c \in [{v} -> Nat] /\ c[v] = 1
    BY DEF SetToBag
  <2> HIDE DEF c
  <2>2. IsCounts(c)
    BY <2>1, FS_Singleton DEF IsCounts
  <2>3. /\ SumFunction(c) = SumFunctionOnSet(c, {v}) /\ {v} \ {v} = {}
        /\ SumFunctionOnSet(c, {v}) = c[v] + SumFunctionOnSet(c, {v} \ {v}) /\ SumFunctionOnSet(c, {}) = 0
    BY <2>1, <2>2, SumFacts
  <2>. QED  BY <2>1, <2>2, <2>3 DEF c
<1>. QED  BY <1>2, <1>3, <1>4

\* A count takes the place of another.
LEMMA PutSum ==
  ASSUME NEW c, IsCounts(c), NEW k, NEW n \in Nat
  PROVE  /\ IsCounts(Put(c, k, n))
         /\ SumFunction(Put(c, k, n)) + (IF k \in DOMAIN c THEN c[k] ELSE 0) = SumFunction(c) + n
<1> DEFINE d == Put(c, k, n)
           D == DOMAIN c
           E == D \ {k}
           old == IF k \in D THEN c[k] ELSE 0
<1>1. /\ DOMAIN d = D \cup {k} /\ d[k] = n /\ \A x \in E : d[x] = c[x]
      /\ d = [x \in D \cup {k} |-> d[x]]
  BY DEF Put
<1> HIDE DEF d
<1>2. IsFiniteSet(D) /\ IsFiniteSet(D \cup {k}) /\ IsFiniteSet(E) /\ c \in [D -> Nat]
  BY FS_AddElement, FS_RemoveElement DEF IsCounts
<1>3. IsCounts(d)
  <2>1. \A x \in D \cup {k} : d[x] \in Nat
    BY <1>1, <1>2
  <2>. QED  BY <1>1, <1>2, <2>1 DEF IsCounts
<1>4. SumFunctionOnSet(d, E) = SumFunctionOnSet(c, E)
  BY <1>1, <1>2, SumSame
<1>5. SumFunction(d) = n + SumFunctionOnSet(d, E)
  <2>1. (D \cup {k}) \ {k} = E /\ k \in D \cup {k}
    OBVIOUS
  <2> HIDE DEF D, E
  <2>. QED  BY <1>1, <1>3, <2>1, SumFacts
<1>6. SumFunction(c) = old + SumFunctionOnSet(c, E) /\ SumFunctionOnSet(c, E) \in Nat /\ old \in Nat
  <2>1. SumFunctionOnSet(c, E) \in Nat /\ SumFunction(c) = SumFunctionOnSet(c, D)
    BY SumFacts
  <2>2. CASE k \in D
    BY <1>2, <2>1, <2>2, SumFacts
  <2>3. CASE k \notin D
    BY <2>1, <2>3
  <2>. QED  BY <2>2, <2>3
<1> HIDE DEF old, E
<1>7. SumFunction(d) + old = SumFunction(c) + n
  BY <1>4, <1>5, <1>6
<1>. QED  BY <1>3, <1>7 DEF d, old

-----------------------------------------------------------------------------
(* The samples of all families                                               *)

\* The status codes of a family add up to its samples.
Tallied(fam) == IsCounts(fam.codes) /\ SumFunction(fam.codes) = fam.samples
AllTallied(fams) == \A k \in DOMAIN fams : Tallied(fams[k])

LEMMA FamiliesTallied ==
  /\ Tallied(NewFamily) /\ NewFamily.samples = 0
  /\ \A fam, x : Good(fam) /\ Tallied(fam) =>
       Tallied(Fold(fam, x)) /\ Fold(fam, x).samples = fam.samples + 1
  /\ \A fam, v : Good(fam) /\ Tallied(fam) =>
       /\ Tallied(TakeReference(fam, v)) /\ TakeReference(fam, v).samples = fam.samples
       /\ Tallied(TakeSamples(fam)) /\ TakeSamples(fam).samples = fam.samples
  /\ \A fam, other : Good(fam) /\ Tallied(fam) /\ Good(other) /\ Tallied(other) =>
       Tallied(Absorb(fam, other)) /\ Absorb(fam, other).samples = fam.samples + other.samples
<1>1. Tallied(NewFamily) /\ NewFamily.samples = 0
  BY FewCounts DEF Tallied, NewFamily
<1>2. ASSUME NEW fam, NEW x, Good(fam), Tallied(fam)
      PROVE  Tallied(Fold(fam, x)) /\ Fold(fam, x).samples = fam.samples + 1
  <2> DEFINE new == Fold(fam, x)
             codes == fam.codes
             one == SetToBag({x.status})
  <2>1. new.samples = fam.samples + 1 /\ new.codes = codes (+) one
    BY <1>2 DEF Fold, Good, IsFamily
  <2>2. IsCounts(codes) /\ IsCounts(one) /\ SumFunction(codes) = fam.samples /\ SumFunction(one) = 1
    BY <1>2, FewCounts DEF Tallied
  <2> HIDE DEF new, codes, one
  <2>3. IsCounts(codes (+) one) /\ SumFunction(codes (+) one) = SumFunction(codes) + SumFunction(one)
    BY <2>2, BagSum
  <2>4. Tallied(new)
    BY <2>1, <2>2, <2>3 DEF Tallied
  <2>. QED  BY <2>1, <2>4 DEF new
<1>3. ASSUME NEW fam, NEW v, Good(fam), Tallied(fam)
      PROVE  /\ Tallied(TakeReference(fam, v)) /\ TakeReference(fam, v).samples = fam.samples
             /\ Tallied(TakeSamples(fam)) /\ TakeSamples(fam).samples = fam.samples
  <2>1. /\ TakeReference(fam, v).samples = fam.samples /\ TakeReference(fam, v).codes = fam.codes
        /\ TakeSamples(fam).samples = fam.samples /\ TakeSamples(fam).codes = fam.codes
    BY <1>3 DEF TakeReference, TakeSamples, Good, IsFamily
  <2>. QED  BY <1>3, <2>1 DEF Tallied
<1>4. ASSUME NEW fam, NEW other, Good(fam), Tallied(fam), Good(other), Tallied(other)
      PROVE  Tallied(Absorb(fam, other)) /\ Absorb(fam, other).samples = fam.samples + other.samples
  <2> DEFINE new == Absorb(fam, other)
             mine == fam.codes
             codes == other.codes
  <2>1. new.samples = fam.samples + other.samples /\ new.codes = mine (+) codes
    BY <1>4 DEF Absorb, Good, IsFamily
  <2>2. /\ IsCounts(mine) /\ IsCounts(codes)
        /\ SumFunction(mine) = fam.samples /\ SumFunction(codes) = other.samples
    BY <1>4 DEF Tallied
  <2> HIDE DEF new, mine, codes
  <2>3. IsCounts(mine (+) codes) /\ SumFunction(mine (+) codes) = SumFunction(mine) + SumFunction(codes)
    BY <2>2, BagSum
  <2>4. Tallied(new)
    BY <2>1, <2>2, <2>3 DEF Tallied
  <2>. QED  BY <2>1, <2>4 DEF new
<1>. QED  BY <1>1, <1>2, <1>3, <1>4

SamplesOf(fams) == [k \in DOMAIN fams |-> fams[k].samples]
Total(fams) == FoldFunction(LAMBDA fam, n : fam.samples + n, 0, fams)
Had(fams, k) == IF k \in DOMAIN fams THEN fams[k].samples ELSE 0

LEMMA TotalFacts ==
  ASSUME NEW fams, AllGood(fams)
  PROVE  IsCounts(SamplesOf(fams)) /\ Total(fams) = SumFunction(SamplesOf(fams)) /\ Total(fams) \in Nat
<1> DEFINE D == DOMAIN fams
           c == SamplesOf(fams)
<1>1. IsFiniteSet(D) /\ DOMAIN c = D /\ \A k \in D : c[k] = fams[k].samples /\ fams[k].samples \in Nat
  BY DEF AllGood, Good, IsFamily, SamplesOf
<1>2. IsCounts(c)
  <2>1. c = [k \in D |-> c[k]]
    BY DEF SamplesOf
  <2> HIDE DEF c
  <2>. QED  BY <1>1, <2>1 DEF IsCounts
<1>3. Total(fams) = Samples!Fold(fams, D)
  BY DEF Total, FoldFunction, FoldFunctionOnSet, MapThenFoldSet, Samples!Fold, Samples!MapThenFoldSet,
         AddSamples, Some
<1>4. SumFunction(c) = Counts!Fold(c, D)
  BY <1>1 DEF SumFunction, SumFunctionOnSet, FoldFunctionOnSet, MapThenFoldSet, Counts!Fold,
         Counts!MapThenFoldSet, AddCount, Some
<1>5. \A g : Samples!IsFold(g, fams, D) <=> Counts!IsFold(g, c, D)
  <2> SUFFICES ASSUME NEW g  PROVE Samples!IsFold(g, fams, D) <=> Counts!IsFold(g, c, D)
    OBVIOUS
  <2>1. \A s \in SUBSET D : s # {} => AddSamples(fams[Some(s)], g[s \ {Some(s)}]) = AddCount(c[Some(s)], g[s \ {Some(s)}])
    BY <1>1 DEF AddSamples, AddCount, Some
  <2> HIDE DEF D, c
  <2>2. [s \in SUBSET D |-> IF s = {} THEN 0 ELSE AddSamples(fams[Some(s)], g[s \ {Some(s)}])]
          = [s \in SUBSET D |-> IF s = {} THEN 0 ELSE AddCount(c[Some(s)], g[s \ {Some(s)}])]
    BY <2>1
  <2>. QED  BY <2>2 DEF Samples!IsFold, Counts!IsFold
<1> HIDE DEF D, c
<1>6. Samples!Partial(fams, D) = Counts!Partial(c, D)
  BY <1>5 DEF Samples!Partial, Counts!Partial
<1>7. Samples!Fold(fams, D) = Counts!Fold(c, D)
  BY <1>6, Samples!FoldIsPartial, Counts!FoldIsPartial
<1>8. SumFunction(c) \in Nat
  BY <1>2, SumFacts
<1>. QED  BY <1>2, <1>3, <1>4, <1>7, <1>8 DEF c, D

\* A family takes the place of another.
LEMMA PutTotal ==
  ASSUME NEW fams, AllGood(fams), NEW k, NEW fam, Good(fam)
  PROVE  /\ Total(Put(fams, k, fam)) + Had(fams, k) = Total(fams) + fam.samples
         /\ Had(fams, k) \in Nat
<1> DEFINE new == Put(fams, k, fam)
           c == SamplesOf(fams)
           n == fam.samples
<1>1. AllGood(new)
  BY PutGood
<1>2. n \in Nat
  BY DEF Good, IsFamily
<1>3. SamplesOf(new) = Put(c, k, n)
  BY DEF SamplesOf, Put
<1>4. Had(fams, k) = IF k \in DOMAIN c THEN c[k] ELSE 0
  BY DEF Had, SamplesOf
<1>5. IsCounts(c) /\ Total(fams) = SumFunction(c) /\ Total(new) = SumFunction(SamplesOf(new))
  BY <1>1, TotalFacts
<1>6. Had(fams, k) \in Nat
  BY DEF Had, AllGood, Good, IsFamily
<1> HIDE DEF new, c, n
<1>7. SumFunction(Put(c, k, n)) + (IF k \in DOMAIN c THEN c[k] ELSE 0) = SumFunction(c) + n
  BY <1>2, <1>5, PutSum
<1>. QED  BY <1>3, <1>4, <1>5, <1>6, <1>7 DEF new, n

\* One family is merged: its samples are the merged families' now.
LEMMA MergeTotal ==
  ASSUME NEW acc, Merged(acc.merged), AllTallied(acc.merged),
         NEW k, Good(families[k]), Settled(families[k]), Tallied(families[k])
  PROVE  /\ AllTallied(Merge(acc, k).merged)
         /\ Total(Merge(acc, k).merged) = Total(acc.merged) + families[k].samples
<1> DEFINE new == <<Apply(acc.guard, k[1]).template, k[2]>>
           fams == acc.merged
           other == families[k]
           mine == fams[new]
           fam == IF new \in DOMAIN fams THEN Absorb(mine, other) ELSE other
<1>1. Merge(acc, k).merged = Put(fams, new, fam)
  BY DEF Merge
<1>2. Good(other) /\ Tallied(other) /\ AllGood(fams) /\ AllTallied(fams)
  BY DEF Merged
<1> HIDE DEF new, other, fams, mine
<1>3. /\ Good(fam) /\ Tallied(fam) /\ fam.samples = Had(fams, new) + other.samples
      /\ other.samples \in Nat
  <2>0. other.samples \in Nat
    BY <1>2 DEF Good, IsFamily
  <2>1. CASE new \in DOMAIN fams
    <3>1. Good(mine) /\ Tallied(mine) /\ fam = Absorb(mine, other) /\ Had(fams, new) = mine.samples
      BY <1>2, <2>1 DEF AllGood, AllTallied, mine, Had
    <3> HIDE DEF fam
    <3>2. Good(Absorb(mine, other))
      BY <1>2, <3>1, AbsorbGood
    <3>3. Tallied(Absorb(mine, other)) /\ Absorb(mine, other).samples = mine.samples + other.samples
      BY <1>2, <3>1, FamiliesTallied
    <3>. QED  BY <2>0, <3>1, <3>2, <3>3
  <2>2. CASE new \notin DOMAIN fams
    BY <1>2, <2>0, <2>2 DEF Had
  <2>. QED  BY <2>1, <2>2
<1> HIDE DEF fam
<1>4. AllTallied(Put(fams, new, fam))
  BY <1>2, <1>3 DEF AllTallied, Put
<1>5. Total(Put(fams, new, fam)) + Had(fams, new) = Total(fams) + fam.samples /\ Had(fams, new) \in Nat
  BY <1>2, <1>3, PutTotal
<1>6. Total(fams) \in Nat /\ Total(Put(fams, new, fam)) \in Nat
  <2>1. AllGood(Put(fams, new, fam))
    BY <1>2, <1>3, PutGood
  <2>. QED  BY <1>2, <2>1, TotalFacts
<1>7. Total(Put(fams, new, fam)) = Total(fams) + other.samples
  BY ONLY <1>3, <1>5, <1>6
<1>. QED  BY <1>1, <1>4, <1>7 DEF fams, other

LEMMA MergeFamiliesTotal ==
  ASSUME Merged(families), AllTallied(families), NEW order \in SetToSeqs(DOMAIN families), NEW g
  PROVE  /\ AllTallied(MergeFamilies(g, order).merged)
         /\ Total(MergeFamilies(g, order).merged) = Total(families)
<1> DEFINE D == DOMAIN families
           n == Len(order)
           c == SamplesOf(families)
           W(k) == {order[j] : j \in 1..k}
           b == [guard |-> g, nested |-> FALSE, merged |-> Empty]
<1>1. /\ order \in Seq(D) /\ n = Cardinality(D) /\ n \in Nat /\ IsFiniteSet(D)
      /\ \A i, j \in 1..n : i # j => order[i] # order[j]
  BY OrderFacts DEF Merged, AllGood
<1>2. IsCounts(c) /\ DOMAIN c = D /\ Total(families) = SumFunction(c) /\ \A k \in D : c[k] = families[k].samples
  BY TotalFacts DEF Merged, SamplesOf
<1>3. PICK r : /\ r[0] = b
               /\ \A k \in Nat : k < n => r[k + 1] = Merge(r[k], order[k + 1])
               /\ MergeFamilies(g, order) = r[n]
  BY <1>1, MergeRuns
<1> DEFINE Sum(T) == SumFunctionOnSet(c, T)
           Step(k) == /\ Merged(r[k].merged) /\ AllTallied(r[k].merged)
                      /\ W(k) \in SUBSET D /\ Cardinality(W(k)) = k /\ IsFiniteSet(W(k))
                      /\ Total(r[k].merged) = Sum(W(k))
           G == {k \in Nat : k <= n => Step(k)}
<1>4. 0 \in G
  <2>1. r[0].merged = Empty /\ W(0) = {} /\ 0 \in Nat
    BY <1>3
  <2>2. Merged(Empty) /\ AllTallied(Empty) /\ AllGood(Empty)
    BY FS_EmptySet DEF Merged, AllGood, AllSettled, AllTallied, Empty
  <2>3. DOMAIN SamplesOf(Empty) = {}
    BY DEF SamplesOf, Empty
  <2>4. Total(Empty) = 0 /\ Sum({}) = 0
    BY <1>2, <2>2, <2>3, SumFacts, TotalFacts
  <2>. QED  BY <2>1, <2>2, <2>4, FS_EmptySet
<1>5. ASSUME NEW k \in Nat, k \in G  PROVE k + 1 \in G
  <2> SUFFICES ASSUME k + 1 <= n  PROVE Step(k + 1)
    OBVIOUS
  <2> DEFINE acc == r[k]
             key == order[k + 1]
             new == r[k + 1]
  <2>1. k < n /\ k + 1 \in 1..n /\ Step(k)
    BY <1>1, <1>5
  <2>2. key \in D /\ key \notin W(k) /\ W(k + 1) = W(k) \cup {key}
    <3>1. key \in D
      BY <1>1, <2>1
    <3>2. \A j \in 1..k : j \in 1..n /\ j # k + 1
      BY <1>1, <2>1
    <3>3. key \notin W(k)
      BY <1>1, <2>1, <3>2
    <3>4. 1..(k + 1) = (1..k) \cup {k + 1}
      OBVIOUS
    <3>. QED  BY <3>1, <3>3, <3>4
  <2>3. Good(families[key]) /\ Settled(families[key]) /\ Tallied(families[key])
    BY <2>2 DEF Merged, AllGood, AllSettled, AllTallied
  <2>4. new = Merge(acc, key)
    BY <1>3, <2>1
  <2>5. Merged(acc.merged) /\ AllTallied(acc.merged) /\ Total(acc.merged) = Sum(W(k))
    BY <2>1
  <2>6. W(k) \in SUBSET D /\ Cardinality(W(k)) = k /\ IsFiniteSet(W(k))
    BY <2>1
  <2> HIDE DEF acc, key, new, W, D
  <2>7. Merged(new.merged)
    BY <2>3, <2>4, <2>5, MergeGood
  <2>8. AllTallied(new.merged) /\ Total(new.merged) = Total(acc.merged) + families[key].samples
    BY <2>3, <2>4, <2>5, MergeTotal
  <2>9. W(k + 1) \in SUBSET D /\ Cardinality(W(k + 1)) = k + 1 /\ IsFiniteSet(W(k + 1))
    BY <2>2, <2>6, FS_AddElement
  <2>10. Sum(W(k + 1)) = c[key] + Sum(W(k)) /\ Sum(W(k)) \in Nat /\ c[key] \in Nat
    <3>1. (W(k) \cup {key}) \ {key} = W(k) /\ key \in W(k) \cup {key}
      BY <2>2
    <3>2. c[key] \in Nat
      BY <1>2, <2>2 DEF IsCounts
    <3>. QED  BY <1>2, <2>2, <2>6, <2>9, <3>1, <3>2, SumFacts
  <2>11. Total(new.merged) = Sum(W(k + 1))
    BY <1>2, <2>2, <2>5, <2>8, <2>10
  <2>. QED  BY <2>7, <2>8, <2>9, <2>11 DEF new
<1> HIDE DEF G
<1>6. \A k \in Nat : k \in G
  BY <1>4, <1>5, Merging!NumberInduction
<1>7. Step(n)
  <2>1. n \in Nat /\ n \in G /\ n <= n
    BY <1>1, <1>6
  <2> HIDE DEF Step, n
  <2>. QED  BY <2>1 DEF G
<1>8. W(n) = D
  <2>1. W(n) \in SUBSET D /\ Cardinality(W(n)) = Cardinality(D)
    BY <1>1, <1>7
  <2> HIDE DEF W, D
  <2>. QED  BY <1>1, <2>1, FS_Subset
<1>9. Sum(D) = SumFunction(c)
  BY <1>2, SumFacts
<1>. QED  BY <1>2, <1>3, <1>7, <1>8, <1>9

-----------------------------------------------------------------------------
(* The guard                                                                 *)

\* What a path or a template is made of.
Word == (UNION {Range(x.path) : x \in Exchange}) \cup {Placeholder[s] : s \in DOMAIN Placeholder} \cup {Id}
Path == Seq(Word)
Prefix(p, n) == SubSeq(p, 1, n)
Literal(s) == s \notin {Placeholder[v] : v \in DOMAIN Placeholder} \cup {Id}

\* The prefixes of a sequence.
LEMMA PrefixFacts ==
  ASSUME NEW p \in Path
  PROVE  /\ Len(p) \in Nat /\ Prefix(p, Len(p)) = p
         /\ \A n \in 0..Len(p) :
              /\ Prefix(p, n) \in Path /\ Len(Prefix(p, n)) = n
              /\ \A i \in 1..n : Prefix(p, n)[i] = p[i]
              /\ \A m \in 0..n : Prefix(Prefix(p, n), m) = Prefix(p, m)
<1>1. Len(p) \in Nat /\ p \in [1..Len(p) -> Word]
  BY DEF Path
<1>2. ASSUME NEW n \in 0..Len(p)
      PROVE  /\ Prefix(p, n) = [i \in 1..n |-> p[i]]
             /\ Prefix(p, n) \in Path /\ Len(Prefix(p, n)) = n
             /\ \A i \in 1..n : Prefix(p, n)[i] = p[i]
  <2>1. Prefix(p, n) = [i \in 1..n |-> p[i]]
    BY <1>1 DEF Prefix
  <2>2. [i \in 1..n |-> p[i]] \in [1..n -> Word] /\ n \in Nat
    BY <1>1
  <2>3. [i \in 1..n |-> p[i]] \in Path
    BY <2>2 DEF Path
  <2>. QED  BY <2>1, <2>2, <2>3
<1>3. Prefix(p, Len(p)) = p
  <2>1. Len(p) \in 0..Len(p)
    BY <1>1
  <2>2. Prefix(p, Len(p)) = [i \in 1..Len(p) |-> p[i]]
    BY <1>2, <2>1
  <2>. QED  BY <1>1, <2>2
<1>4. ASSUME NEW n \in 0..Len(p), NEW m \in 0..n
      PROVE  Prefix(Prefix(p, n), m) = Prefix(p, m)
  <2>1. /\ m \in 0..Len(p) /\ m \in 0..Len(Prefix(p, n)) /\ Prefix(p, n) \in Path
        /\ \A i \in 1..m : Prefix(p, n)[i] = p[i]
    BY <1>1, <1>2
  <2>2. Prefix(p, m) = [i \in 1..m |-> p[i]]
    BY <1>2, <2>1
  <2>3. Prefix(Prefix(p, n), m) = [i \in 1..m |-> Prefix(p, n)[i]]
    BY <2>1 DEF Prefix
  <2>. QED  BY <2>1, <2>2, <2>3
<1>. QED  BY <1>1, <1>2, <1>3, <1>4

LEMMA AppendFacts ==
  ASSUME NEW p \in Path, NEW s \in Word
  PROVE  /\ Append(p, s) \in Path /\ Len(Append(p, s)) = Len(p) + 1 /\ Append(p, s)[Len(p) + 1] = s
         /\ \A i \in 1..Len(p) : Append(p, s)[i] = p[i]
         /\ \A n \in 0..Len(p) : Prefix(Append(p, s), n) = Prefix(p, n)
<1>1. /\ Append(p, s) \in Path /\ Len(Append(p, s)) = Len(p) + 1 /\ Append(p, s)[Len(p) + 1] = s
      /\ \A i \in 1..Len(p) : Append(p, s)[i] = p[i]
      /\ Len(p) \in Nat
  BY DEF Path
<1>2. ASSUME NEW n \in 0..Len(p)  PROVE Prefix(Append(p, s), n) = Prefix(p, n)
  <2> DEFINE q == Append(p, s)
  <2>1. q \in Path /\ \A i \in 1..n : q[i] = p[i]
    BY <1>1
  <2> HIDE DEF q
  <2>2. Prefix(q, n) = [i \in 1..n |-> q[i]] /\ Prefix(p, n) = [i \in 1..n |-> p[i]]
    BY <1>1 DEF Prefix
  <2>. QED  BY <2>1, <2>2 DEF q
<1>. QED  BY <1>1, <1>2

\* Two paths are the same that agree everywhere.
LEMMA SamePath ==
  ASSUME NEW p \in Path, NEW q \in Path, Len(p) = Len(q), \A i \in 1..Len(p) : p[i] = q[i]
  PROVE  p = q
BY DEF Path

\* How often a value was counted at a place, and how many values.
Count(g, place, s) ==
  IF place \in DOMAIN g.seen /\ s \in DOMAIN g.seen[place] THEN g.seen[place][s] ELSE 0
Many(g, place) == IF place \in DOMAIN g.seen THEN Cardinality(DOMAIN g.seen[place]) ELSE 0

IsGuard(g) ==
  /\ DOMAIN g = {"seen", "pins"}
  /\ DOMAIN g.seen \subseteq Path /\ DOMAIN g.pins \subseteq Path
  /\ \A place \in DOMAIN g.seen :
       /\ IsFiniteSet(DOMAIN g.seen[place])
       /\ g.seen[place] \in [DOMAIN g.seen[place] -> Nat]

\* A place is reached through literals that were counted at least as often as
\* it has values, and often enough to be pinned if it was promoted.
Worth(g, place) == IF place \in DOMAIN g.pins THEN PinCount ELSE Many(g, place)
Backed(g) ==
  \A place \in Path : \A i \in 1..Len(place) :
    Prefix(place, i - 1) \notin DOMAIN g.pins /\ Literal(place[i]) =>
      Count(g, Prefix(place, i - 1), place[i]) >= Worth(g, place)

\* The literals of the template t were counted once more than the values of what lies
\* behind them.
Ahead(g, t) ==
  \A i \in 1..Len(t) :
    Prefix(t, i - 1) \notin DOMAIN g.pins /\ Literal(t[i]) =>
      \A place \in Path :
        Len(place) >= Len(t) /\ Prefix(place, Len(t)) = t /\ place \notin DOMAIN g.pins =>
          Count(g, Prefix(t, i - 1), t[i]) >= Many(g, place) + 1

\* What becomes of a guard as it goes on: pins stay, counts rise, and a place
\* that is promoted pins what had been frequent there.
Grown(g, h) ==
  /\ \A place \in DOMAIN g.pins : place \in DOMAIN h.pins /\ h.pins[place] = g.pins[place]
  /\ \A place, s : place \notin DOMAIN h.pins => Count(h, place, s) >= Count(g, place, s)
  /\ \A place \in DOMAIN h.pins \ DOMAIN g.pins : \A s :
       Count(g, place, s) >= PinCount => s \in h.pins[place]

LEMMA CountType ==
  ASSUME NEW g, IsGuard(g), NEW place
  PROVE  Many(g, place) \in Nat /\ \A s : Count(g, place, s) \in Nat
<1>1. Many(g, place) \in Nat
  BY FS_CardinalityType DEF IsGuard, Many
<1>2. \A s : Count(g, place, s) \in Nat
  BY DEF IsGuard, Count
<1>. QED  BY <1>1, <1>2

LEMMA GrownTransitive ==
  ASSUME NEW g, NEW h, NEW k, IsGuard(g), IsGuard(h), IsGuard(k), Grown(g, h), Grown(h, k)
  PROVE  Grown(g, k)
<1>1. \A place, s : Count(g, place, s) \in Nat /\ Count(h, place, s) \in Nat /\ Count(k, place, s) \in Nat
  BY CountType
<1>2. PinCount \in Nat
  BY PathGuardAssumption
<1> HIDE DEF Count
<1>3. \A place \in DOMAIN g.pins : place \in DOMAIN k.pins /\ k.pins[place] = g.pins[place]
  BY DEF Grown
<1>4. ASSUME NEW place, NEW s, place \notin DOMAIN k.pins  PROVE Count(k, place, s) >= Count(g, place, s)
  <2>1. place \notin DOMAIN h.pins
    BY <1>4 DEF Grown
  <2>2. Count(k, place, s) >= Count(h, place, s) /\ Count(h, place, s) >= Count(g, place, s)
    BY <1>4, <2>1 DEF Grown
  <2>. QED  BY <1>1, <2>2
<1>5. ASSUME NEW place \in DOMAIN k.pins \ DOMAIN g.pins, NEW s, Count(g, place, s) >= PinCount
      PROVE  s \in k.pins[place]
  <2>1. CASE place \in DOMAIN h.pins
    BY <1>5, <2>1 DEF Grown
  <2>2. CASE place \notin DOMAIN h.pins
    <3>1. Count(h, place, s) >= Count(g, place, s)
      BY <2>2 DEF Grown
    <3>2. Count(h, place, s) >= PinCount
      BY <1>1, <1>2, <1>5, <3>1
    <3>. QED  BY <1>5, <2>2, <3>2 DEF Grown
  <2>. QED  BY <2>1, <2>2
<1>. QED  BY <1>3, <1>4, <1>5 DEF Grown

\* The values counted at a place when the value s is counted too.
CountsWith(g, place, s) == SeenAt(g, place) (+) SetToBag({s})

LEMMA CountsFacts ==
  ASSUME NEW g, IsGuard(g), NEW place, NEW s
  PROVE  LET c == CountsWith(g, place, s) IN
         /\ IsFiniteSet(DOMAIN c) /\ c \in [DOMAIN c -> Nat]
         /\ s \in DOMAIN c /\ c[s] = Count(g, place, s) + 1
         /\ \A v : v # s => (v \in DOMAIN c => c[v] = Count(g, place, v)) /\ (v \notin DOMAIN c => Count(g, place, v) = 0)
         /\ Cardinality(DOMAIN c) \in Nat /\ Cardinality(DOMAIN c) <= Many(g, place) + 1
<1> DEFINE b == SeenAt(g, place)
           c == CountsWith(g, place, s)
<1>1. IsFiniteSet(DOMAIN b) /\ b \in [DOMAIN b -> Nat] /\ Many(g, place) = Cardinality(DOMAIN b)
  <2>1. CASE place \in DOMAIN g.seen
    BY <2>1 DEF IsGuard, SeenAt, Many
  <2>2. CASE place \notin DOMAIN g.seen
    <3>1. DOMAIN EmptyBag = {} /\ EmptyBag \in [DOMAIN EmptyBag -> Nat]
      BY DEF EmptyBag, SetToBag
    <3>. QED  BY <2>2, <3>1, FS_EmptySet DEF SeenAt, Many
  <2>. QED  BY <2>1, <2>2
<1>2. \A v : (v \in DOMAIN b => b[v] = Count(g, place, v)) /\ (v \notin DOMAIN b => Count(g, place, v) = 0)
  BY DEF SeenAt, Count, EmptyBag, SetToBag
<1>3. /\ DOMAIN c = DOMAIN b \cup {s}
      /\ \A v \in DOMAIN b \cup {s} :
           c[v] = (IF v \in DOMAIN b THEN b[v] ELSE 0) + (IF v = s THEN 1 ELSE 0)
      /\ c = [v \in DOMAIN c |-> c[v]]
  BY DEF CountsWith, (+), SetToBag
<1> HIDE DEF b, c
<1>4. IsFiniteSet(DOMAIN c)
  BY <1>1, <1>3, FS_AddElement
<1>5. \A v \in DOMAIN c : c[v] \in Nat
  BY <1>1, <1>3
<1>6. c \in [DOMAIN c -> Nat]
  BY <1>3, <1>5
<1>7. Cardinality(DOMAIN c) \in Nat /\ Cardinality(DOMAIN c) <= Many(g, place) + 1
  <2>1. Cardinality(DOMAIN b) \in Nat
    BY <1>1, FS_CardinalityType
  <2>2. Cardinality(DOMAIN c) = IF s \in DOMAIN b THEN Cardinality(DOMAIN b) ELSE Cardinality(DOMAIN b) + 1
    BY <1>1, <1>3, FS_AddElement
  <2>. QED  BY <1>1, <2>1, <2>2
<1>8. s \in DOMAIN c /\ c[s] = Count(g, place, s) + 1
  <2>1. \A v : Count(g, place, v) \in Nat
    BY CountType
  <2>. QED  BY <1>2, <1>3, <2>1
<1>9. ASSUME NEW v, v # s
      PROVE  (v \in DOMAIN c => c[v] = Count(g, place, v)) /\ (v \notin DOMAIN c => Count(g, place, v) = 0)
  <2>1. \A u : Count(g, place, u) \in Nat
    BY CountType
  <2>. QED  BY <1>2, <1>3, <1>9, <2>1
<1>. QED  BY <1>4, <1>6, <1>7, <1>8, <1>9 DEF c

\* What Segment does to the guard: a value is counted at a place, or the place is promoted.
CountedAt(g, h, place, s) ==
  /\ place \notin DOMAIN g.pins /\ h.pins = g.pins
  /\ \A other : other # place => /\ Many(h, other) = Many(g, other)
                                 /\ \A v : Count(h, other, v) = Count(g, other, v)
  /\ Many(h, place) <= Many(g, place) + 1
  /\ Count(h, place, s) = Count(g, place, s) + 1
  /\ \A v : Count(h, place, v) >= Count(g, place, v)

PromotedAt(g, h, place) ==
  /\ place \notin DOMAIN g.pins /\ DOMAIN h.pins = DOMAIN g.pins \cup {place}
  /\ \A other \in DOMAIN g.pins : h.pins[other] = g.pins[other]
  /\ \A other : other # place => /\ Many(h, other) = Many(g, other)
                                 /\ \A v : Count(h, other, v) = Count(g, other, v)
  /\ Many(g, place) + 1 >= PinCount
  /\ \A v : Count(g, place, v) >= PinCount => v \in h.pins[place]

LEMMA CountingFacts ==
  ASSUME NEW g, IsGuard(g), NEW place \in Path, place \notin DOMAIN g.pins, NEW s,
         NEW h, h = [g EXCEPT !.seen = Put(g.seen, place, CountsWith(g, place, s))]
  PROVE  IsGuard(h) /\ CountedAt(g, h, place, s)
<1> DEFINE c == CountsWith(g, place, s)
           seen == Put(g.seen, place, c)
<1>1. /\ IsFiniteSet(DOMAIN c) /\ c \in [DOMAIN c -> Nat]
      /\ s \in DOMAIN c /\ c[s] = Count(g, place, s) + 1
      /\ \A v : v # s => (v \in DOMAIN c => c[v] = Count(g, place, v)) /\ (v \notin DOMAIN c => Count(g, place, v) = 0)
      /\ Cardinality(DOMAIN c) <= Many(g, place) + 1
  BY CountsFacts
<1>2. h = [g EXCEPT !.seen = seen]
  OBVIOUS
<1> HIDE DEF c
<1>3. /\ DOMAIN seen = DOMAIN g.seen \cup {place} /\ seen[place] = c
      /\ \A other \in DOMAIN g.seen : other # place => seen[other] = g.seen[other]
  BY DEF Put
<1> HIDE DEF seen
<1>4. DOMAIN h = {"seen", "pins"} /\ h.seen = seen /\ h.pins = g.pins
  BY <1>2 DEF IsGuard
<1>5. IsGuard(h)
  <2>1. DOMAIN h.seen \subseteq Path /\ DOMAIN h.pins \subseteq Path
    BY <1>3, <1>4 DEF IsGuard
  <2>2. ASSUME NEW other \in DOMAIN h.seen
        PROVE  IsFiniteSet(DOMAIN h.seen[other]) /\ h.seen[other] \in [DOMAIN h.seen[other] -> Nat]
    BY <1>1, <1>3, <1>4 DEF IsGuard
  <2>. QED  BY <1>4, <2>1, <2>2 DEF IsGuard
<1>6. ASSUME NEW other, other # place
      PROVE  Many(h, other) = Many(g, other) /\ \A v : Count(h, other, v) = Count(g, other, v)
  BY <1>3, <1>4, <1>6 DEF Many, Count
<1>7. Many(h, place) = Cardinality(DOMAIN c) /\ \A v : Count(h, place, v) = IF v \in DOMAIN c THEN c[v] ELSE 0
  BY <1>3, <1>4 DEF Many, Count
<1>8. \A v : Count(g, place, v) \in Nat
  BY CountType
<1> HIDE DEF Many, Count
<1>9. \A v : Count(h, place, v) >= Count(g, place, v)
  BY <1>1, <1>7, <1>8
<1>10. Count(h, place, s) = Count(g, place, s) + 1
  BY <1>1, <1>7
<1>. QED  BY <1>1, <1>4, <1>5, <1>6, <1>7, <1>9, <1>10 DEF CountedAt

LEMMA PromotingFacts ==
  ASSUME NEW g, IsGuard(g), NEW place \in Path, place \notin DOMAIN g.pins, NEW s,
         Cardinality(DOMAIN CountsWith(g, place, s)) > Threshold
  PROVE  LET h == Promote(g, place, CountsWith(g, place, s)) IN
         /\ IsGuard(h) /\ PromotedAt(g, h, place) /\ h.pins[place] = Frequent(CountsWith(g, place, s))
<1> DEFINE c == CountsWith(g, place, s)
           h == Promote(g, place, c)
<1>1. /\ IsFiniteSet(DOMAIN c) /\ c \in [DOMAIN c -> Nat]
      /\ s \in DOMAIN c /\ c[s] = Count(g, place, s) + 1
      /\ \A v : v # s => (v \in DOMAIN c => c[v] = Count(g, place, v)) /\ (v \notin DOMAIN c => Count(g, place, v) = 0)
      /\ Cardinality(DOMAIN c) \in Nat /\ Cardinality(DOMAIN c) <= Many(g, place) + 1
  BY CountsFacts
<1>2. Cardinality(DOMAIN c) > Threshold
  OBVIOUS
<1> HIDE DEF c
<1>3. DOMAIN h = {"seen", "pins"} /\ h.seen = Without(g.seen, place) /\ h.pins = Put(g.pins, place, Frequent(c))
  BY DEF Promote
<1> HIDE DEF h
<1>4. /\ DOMAIN h.seen = DOMAIN g.seen \ {place}
      /\ \A other \in DOMAIN h.seen : h.seen[other] = g.seen[other]
  BY <1>3 DEF Without
<1>5. /\ DOMAIN h.pins = DOMAIN g.pins \cup {place} /\ h.pins[place] = Frequent(c)
      /\ \A other \in DOMAIN g.pins : h.pins[other] = g.pins[other]
  BY <1>3 DEF Put
<1>6. IsGuard(h)
  BY <1>3, <1>4, <1>5 DEF IsGuard
<1>7. ASSUME NEW other, other # place
      PROVE  Many(h, other) = Many(g, other) /\ \A v : Count(h, other, v) = Count(g, other, v)
  BY <1>4, <1>7 DEF Many, Count
<1>8. (\A v : Count(g, place, v) \in Nat) /\ Many(g, place) \in Nat
  BY CountType
<1>9. PinCount \in Nat \ {0} /\ Threshold \in Nat /\ PinCount <= Threshold + 1
  BY PathGuardAssumption
<1> HIDE DEF Many, Count
<1>10. Many(g, place) + 1 >= PinCount
  BY <1>1, <1>2, <1>8, <1>9
<1>11. ASSUME NEW v, Count(g, place, v) >= PinCount  PROVE v \in h.pins[place]
  <2>1. v \in DOMAIN c /\ c[v] >= PinCount
    BY <1>1, <1>8, <1>9, <1>11
  <2>. QED  BY <1>5, <2>1 DEF Frequent
<1>. QED  BY <1>5, <1>6, <1>7, <1>10, <1>11 DEF PromotedAt, h, c

\* One segment of a path.
Walked(acc, new, s) ==
  LET g == acc.guard  h == new.guard  place == acc.template IN
  /\ DOMAIN new = {"template", "guard", "promoted"}
  /\ IsGuard(h)
  /\ new.template = Append(place, Read(h.pins, place, s)) /\ Read(h.pins, place, s) \in Word
  /\ \/ /\ h = g /\ new.promoted = acc.promoted
        /\ place \in DOMAIN g.pins \/ ~Literal(Read(h.pins, place, s))
     \/ /\ CountedAt(g, h, place, s) /\ new.promoted = acc.promoted
        /\ Read(h.pins, place, s) = s
     \/ PromotedAt(g, h, place) /\ new.promoted

LEMMA ReadType ==
  ASSUME NEW pins, NEW place, NEW s \in Word
  PROVE  Read(pins, place, s) \in Word
BY DEF Read, Kept, Word

LEMMA SegmentWalks ==
  ASSUME NEW acc, IsGuard(acc.guard), acc.template \in Path, NEW s \in Word
  PROVE  Walked(acc, Segment(acc, s), s)
<1> DEFINE g == acc.guard
           place == acc.template
           c == CountsWith(g, place, s)
           new == Segment(acc, s)
           with(t, h, p) == [template |-> Append(place, t), guard |-> h, promoted |-> p]
<1>1. new = IF s \in DOMAIN Placeholder THEN with(Placeholder[s], g, acc.promoted)
            ELSE IF place \in DOMAIN g.pins THEN with(Kept(g.pins[place], s), g, acc.promoted)
            ELSE IF Cardinality(DOMAIN c) > Threshold
            THEN with(Kept(Frequent(c), s), Promote(g, place, c), TRUE)
            ELSE with(s, [g EXCEPT !.seen = Put(g.seen, place, c)], acc.promoted)
  BY DEF Segment, CountsWith
<1>2. \A t, h, p : /\ DOMAIN with(t, h, p) = {"template", "guard", "promoted"}
                   /\ with(t, h, p).template = Append(place, t) /\ with(t, h, p).guard = h
                   /\ with(t, h, p).promoted = p
  OBVIOUS
<1>3. \A h : Read(h.pins, place, s) \in Word
  BY ReadType
<1> HIDE DEF new, with
<1>4. CASE s \in DOMAIN Placeholder
  <2>1. new.template = Append(place, Placeholder[s]) /\ new.guard = g /\ new.promoted = acc.promoted
        /\ DOMAIN new = {"template", "guard", "promoted"}
    BY <1>1, <1>2, <1>4
  <2>2. Read(g.pins, place, s) = Placeholder[s] /\ ~Literal(Placeholder[s])
    BY <1>4 DEF Read, Literal
  <2>3. new.template = Append(place, Read(new.guard.pins, place, s)) /\ ~Literal(Read(new.guard.pins, place, s))
    BY <2>1, <2>2
  <2>. QED  BY <1>3, <2>1, <2>3 DEF Walked, new
<1>5. CASE s \notin DOMAIN Placeholder /\ place \in DOMAIN g.pins
  <2>1. new.template = Append(place, Kept(g.pins[place], s)) /\ new.guard = g /\ new.promoted = acc.promoted
        /\ DOMAIN new = {"template", "guard", "promoted"}
    BY <1>1, <1>2, <1>5
  <2>2. Read(g.pins, place, s) = Kept(g.pins[place], s)
    BY <1>5 DEF Read
  <2>3. new.template = Append(place, Read(new.guard.pins, place, s))
    BY <2>1, <2>2
  <2>. QED  BY <1>3, <1>5, <2>1, <2>3 DEF Walked, new
<1>6. CASE s \notin DOMAIN Placeholder /\ place \notin DOMAIN g.pins /\ Cardinality(DOMAIN c) > Threshold
  <2> DEFINE h == Promote(g, place, c)
  <2>1. IsGuard(h) /\ PromotedAt(g, h, place) /\ h.pins[place] = Frequent(c)
    BY <1>6, PromotingFacts
  <2>2. new.template = Append(place, Kept(Frequent(c), s)) /\ new.guard = h /\ new.promoted = TRUE
        /\ DOMAIN new = {"template", "guard", "promoted"}
    BY <1>1, <1>2, <1>6
  <2> HIDE DEF h, c
  <2>3. Read(h.pins, place, s) = Kept(Frequent(c), s)
    BY <1>6, <2>1 DEF Read, PromotedAt
  <2>. QED  BY <1>3, <2>1, <2>2, <2>3 DEF Walked, new
<1>7. CASE s \notin DOMAIN Placeholder /\ place \notin DOMAIN g.pins /\ ~(Cardinality(DOMAIN c) > Threshold)
  <2> DEFINE h == [g EXCEPT !.seen = Put(g.seen, place, c)]
  <2>1. IsGuard(h) /\ CountedAt(g, h, place, s)
    BY <1>7, CountingFacts
  <2>2. new.template = Append(place, s) /\ new.guard = h /\ new.promoted = acc.promoted
        /\ DOMAIN new = {"template", "guard", "promoted"}
    BY <1>1, <1>2, <1>7
  <2> HIDE DEF h, c
  <2>3. Read(h.pins, place, s) = s
    BY <1>7, <2>1 DEF Read, CountedAt
  <2>. QED  BY <1>3, <2>1, <2>2, <2>3 DEF Walked, new
<1>. QED  BY <1>4, <1>5, <1>6, <1>7

LEMMA WorthType ==
  ASSUME NEW g, IsGuard(g), NEW place
  PROVE  Worth(g, place) \in Nat /\ PinCount \in Nat
BY CountType, PathGuardAssumption DEF Worth

\* The prefixes of a template that has grown by a value are the template's and itself.
LEMMA LongerFacts ==
  ASSUME NEW t \in Path, NEW w \in Word
  PROVE  LET u == Append(t, w) IN
         /\ u \in Path /\ Len(u) = Len(t) + 1 /\ Len(t) \in Nat
         /\ \A i \in 1..Len(u) : \/ i \in 1..Len(t) /\ u[i] = t[i] /\ Prefix(u, i - 1) = Prefix(t, i - 1)
                                    /\ Prefix(t, i - 1) # t
                                 \/ i = Len(u) /\ u[i] = w /\ Prefix(u, i - 1) = t
         /\ \A place \in Path : Len(place) >= Len(u) /\ Prefix(place, Len(u)) = u =>
              /\ Len(place) >= Len(t) /\ Prefix(place, Len(t)) = t /\ place # t
              /\ place[Len(u)] = w /\ Len(u) \in 1..Len(place) /\ Prefix(place, Len(u) - 1) = t
<1> DEFINE u == Append(t, w)
           n == Len(t)
<1>1. /\ u \in Path /\ Len(u) = n + 1 /\ u[n + 1] = w /\ \A i \in 1..n : u[i] = t[i]
      /\ \A i \in 0..n : Prefix(u, i) = Prefix(t, i)
  BY AppendFacts
<1>2. n \in Nat /\ Prefix(t, n) = t /\ \A i \in 0..n : Len(Prefix(t, i)) = i
  BY PrefixFacts
<1> HIDE DEF u, n
<1>3. ASSUME NEW i \in 1..Len(u)
      PROVE \/ i \in 1..n /\ u[i] = t[i] /\ Prefix(u, i - 1) = Prefix(t, i - 1) /\ Prefix(t, i - 1) # t
            \/ i = Len(u) /\ u[i] = w /\ Prefix(u, i - 1) = t
  <2>1. CASE i \in 1..n
    <3>1. i - 1 \in 0..n /\ i - 1 # n
      BY <1>2, <2>1
    <3>2. Len(Prefix(t, i - 1)) # Len(Prefix(t, n))
      BY <1>2, <3>1
    <3>. QED  BY <1>1, <1>2, <2>1, <3>1, <3>2
  <2>2. CASE i \notin 1..n
    <3>1. i = n + 1 /\ i - 1 = n /\ n \in 0..n
      BY <1>1, <1>2, <2>2
    <3>. QED  BY <1>1, <1>2, <3>1
  <2>. QED  BY <2>1, <2>2
<1>4. ASSUME NEW place \in Path, Len(place) >= Len(u), Prefix(place, Len(u)) = u
      PROVE  /\ Len(place) >= n /\ Prefix(place, n) = t /\ place # t
             /\ place[Len(u)] = w /\ Len(u) \in 1..Len(place) /\ Prefix(place, Len(u) - 1) = t
  <2>1. Len(place) \in Nat
    BY PrefixFacts
  <2>2. n + 1 \in 0..Len(place) /\ n \in 0..(n + 1) /\ n + 1 \in 1..(n + 1) /\ Len(place) # n /\ Len(u) - 1 = n
        /\ Len(u) \in 1..Len(place) /\ n \in 0..n
    BY <1>1, <1>2, <1>4, <2>1
  <2>3. Prefix(place, n + 1)[n + 1] = place[n + 1] /\ Prefix(Prefix(place, n + 1), n) = Prefix(place, n)
    BY <2>2, PrefixFacts
  <2>4. Prefix(place, n + 1) = u
    BY <1>1, <1>4
  <2>5. Prefix(place, n) = t
    BY <1>1, <1>2, <2>2, <2>3, <2>4
  <2>6. place[n + 1] = w
    BY <1>1, <2>3, <2>4
  <2>7. place # t /\ Len(place) >= n
    BY <2>2, <1>1, <1>2, <1>4, <2>1 DEF n
  <2>. QED  BY <1>1, <2>2, <2>5, <2>6, <2>7
<1>. QED  BY <1>1, <1>2, <1>3, <1>4 DEF u, n

LEMMA PassingKeeps ==
  ASSUME NEW g, IsGuard(g), Backed(g), NEW t \in Path, Ahead(g, t), NEW w \in Word,
         t \in DOMAIN g.pins \/ ~Literal(w)
  PROVE  Ahead(g, Append(t, w))
<1> DEFINE u == Append(t, w)
<1>1. /\ \A i \in 1..Len(u) : \/ i \in 1..Len(t) /\ u[i] = t[i] /\ Prefix(u, i - 1) = Prefix(t, i - 1)
                              \/ i = Len(u) /\ u[i] = w /\ Prefix(u, i - 1) = t
      /\ \A place \in Path : Len(place) >= Len(u) /\ Prefix(place, Len(u)) = u =>
              Len(place) >= Len(t) /\ Prefix(place, Len(t)) = t
  BY LongerFacts
<1> HIDE DEF u
<1> SUFFICES ASSUME NEW i \in 1..Len(u), Prefix(u, i - 1) \notin DOMAIN g.pins, Literal(u[i]),
                    NEW place \in Path, Len(place) >= Len(u), Prefix(place, Len(u)) = u,
                    place \notin DOMAIN g.pins
             PROVE  Count(g, Prefix(u, i - 1), u[i]) >= Many(g, place) + 1
  BY DEF Ahead, u
<1>2. i \in 1..Len(t) /\ u[i] = t[i] /\ Prefix(u, i - 1) = Prefix(t, i - 1)
  BY <1>1
<1>3. Len(place) >= Len(t) /\ Prefix(place, Len(t)) = t
  BY <1>1
<1>. QED  BY <1>2, <1>3 DEF Ahead

LEMMA CountingKeeps ==
  ASSUME NEW g, IsGuard(g), Backed(g), NEW t \in Path, Ahead(g, t), NEW s \in Word,
         NEW h, IsGuard(h), CountedAt(g, h, t, s)
  PROVE  Backed(h) /\ Ahead(h, Append(t, s)) /\ Grown(g, h)
<1> DEFINE u == Append(t, s)
<1>1. /\ u \in Path /\ Len(t) \in Nat
      /\ \A i \in 1..Len(u) : \/ i \in 1..Len(t) /\ u[i] = t[i] /\ Prefix(u, i - 1) = Prefix(t, i - 1)
                                 /\ Prefix(t, i - 1) # t
                              \/ i = Len(u) /\ u[i] = s /\ Prefix(u, i - 1) = t
      /\ \A place \in Path : Len(place) >= Len(u) /\ Prefix(place, Len(u)) = u =>
              /\ Len(place) >= Len(t) /\ Prefix(place, Len(t)) = t /\ place # t
              /\ place[Len(u)] = s /\ Len(u) \in 1..Len(place) /\ Prefix(place, Len(u) - 1) = t
  BY LongerFacts
<1> HIDE DEF u
<1>2. \A place : /\ Many(g, place) \in Nat /\ Many(h, place) \in Nat /\ Worth(g, place) \in Nat /\ Worth(h, place) \in Nat
                 /\ \A v : Count(g, place, v) \in Nat /\ Count(h, place, v) \in Nat
  BY CountType, WorthType
<1> HIDE DEF Many, Count
<1>3. /\ t \notin DOMAIN g.pins /\ h.pins = g.pins
      /\ \A other : other # t => /\ Many(h, other) = Many(g, other)
                                 /\ \A v : Count(h, other, v) = Count(g, other, v)
      /\ Many(h, t) <= Many(g, t) + 1
      /\ Count(h, t, s) = Count(g, t, s) + 1
      /\ \A v : Count(h, t, v) >= Count(g, t, v)
  BY DEF CountedAt
<1>4. \A place, v : Count(h, place, v) >= Count(g, place, v)
  BY <1>2, <1>3
<1>5. ASSUME NEW place \in Path, NEW i \in 1..Len(place),
             Prefix(place, i - 1) \notin DOMAIN h.pins, Literal(place[i])
      PROVE  Count(h, Prefix(place, i - 1), place[i]) >= Worth(h, place)
  <2> DEFINE q == Prefix(place, i - 1)
             v == place[i]
  <2> HIDE DEF q, v
  <2>1. Count(g, q, v) >= Worth(g, place)
    BY <1>3, <1>5 DEF Backed, q, v
  <2>2. CASE place # t \/ place \in DOMAIN g.pins
    <3>1. Worth(h, place) = Worth(g, place)
      BY <1>3, <2>2 DEF Worth
    <3>2. Count(h, q, v) >= Count(g, q, v)
      BY <1>4
    <3>3. Count(h, q, v) \in Nat /\ Count(g, q, v) \in Nat /\ Worth(g, place) \in Nat
      BY <1>2
    <3>4. Count(h, q, v) >= Worth(h, place)
      BY ONLY <2>1, <3>1, <3>2, <3>3
    <3>. QED  BY <3>4 DEF q, v
  <2>3. CASE place = t /\ place \notin DOMAIN g.pins
    <3>1. Len(t) >= Len(t) /\ Prefix(t, Len(t)) = t
      BY <1>1, PrefixFacts
    <3>2. Count(g, q, v) >= Many(g, t) + 1
      BY <1>3, <1>5, <2>3, <3>1 DEF Ahead, q, v
    <3>3. Worth(h, place) = Many(h, t)
      BY <1>3, <2>3 DEF Worth
    <3>4. Count(h, q, v) >= Count(g, q, v)
      BY <1>4
    <3>5. Count(h, q, v) \in Nat /\ Count(g, q, v) \in Nat /\ Many(g, t) \in Nat /\ Many(h, t) \in Nat
      BY <1>2
    <3>6. Many(h, t) <= Many(g, t) + 1
      BY <1>3
    <3>7. Count(h, q, v) >= Worth(h, place)
      BY ONLY <3>2, <3>3, <3>4, <3>5, <3>6
    <3>. QED  BY <3>7 DEF q, v
  <2>. QED  BY <2>2, <2>3
<1>6. Backed(h)
  BY <1>5 DEF Backed
<1>7. ASSUME NEW i \in 1..Len(u), Prefix(u, i - 1) \notin DOMAIN h.pins, Literal(u[i]),
             NEW place \in Path, Len(place) >= Len(u), Prefix(place, Len(u)) = u,
             place \notin DOMAIN h.pins
      PROVE  Count(h, Prefix(u, i - 1), u[i]) >= Many(h, place) + 1
  <2>1. /\ Len(place) >= Len(t) /\ Prefix(place, Len(t)) = t /\ place # t
        /\ place[Len(u)] = s /\ Len(u) \in 1..Len(place) /\ Prefix(place, Len(u) - 1) = t
    BY <1>1, <1>7
  <2>2. Many(h, place) = Many(g, place) /\ place \notin DOMAIN g.pins
    BY <1>3, <1>7, <2>1
  <2>3. CASE i \in 1..Len(t) /\ u[i] = t[i] /\ Prefix(u, i - 1) = Prefix(t, i - 1)
    <3>1. Count(g, Prefix(u, i - 1), u[i]) >= Many(g, place) + 1
      BY <1>3, <1>7, <2>1, <2>2, <2>3 DEF Ahead
    <3> DEFINE a == Count(g, Prefix(u, i - 1), u[i])
               b == Count(h, Prefix(u, i - 1), u[i])
    <3>2. b >= a /\ a \in Nat /\ b \in Nat /\ Many(g, place) \in Nat
      BY <1>2, <1>4
    <3> HIDE DEF a, b
    <3>3. a >= Many(g, place) + 1
      BY <3>1 DEF a
    <3>4. b >= Many(h, place) + 1
      BY ONLY <2>2, <3>2, <3>3
    <3>. QED  BY <3>4 DEF b
  <2>4. CASE i = Len(u) /\ u[i] = s /\ Prefix(u, i - 1) = t
    <3>1. Count(g, t, s) >= Worth(g, place)
      BY <1>3, <1>7, <2>1, <2>4 DEF Backed
    <3>2. Worth(g, place) = Many(g, place)
      BY <2>2 DEF Worth
    <3>3. /\ Count(h, t, s) = Count(g, t, s) + 1
          /\ Count(g, t, s) \in Nat /\ Many(g, place) \in Nat
      BY <1>2, <1>3
    <3>4. Count(h, t, s) >= Many(h, place) + 1
      BY ONLY <2>2, <3>1, <3>2, <3>3
    <3>. QED  BY <2>4, <3>4
  <2>. QED  BY <1>1, <2>3, <2>4
<1>8. Ahead(h, u)
  BY <1>7 DEF Ahead
<1>9. Grown(g, h)
  BY <1>3, <1>4 DEF Grown
<1>. QED  BY <1>6, <1>8, <1>9 DEF u

LEMMA PromotingKeeps ==
  ASSUME NEW g, IsGuard(g), Backed(g), NEW t \in Path, Ahead(g, t), NEW w \in Word,
         NEW h, IsGuard(h), PromotedAt(g, h, t)
  PROVE  Backed(h) /\ Ahead(h, Append(t, w)) /\ Grown(g, h)
<1> DEFINE u == Append(t, w)
<1>1. /\ u \in Path /\ Len(t) \in Nat
      /\ \A i \in 1..Len(u) : \/ i \in 1..Len(t) /\ u[i] = t[i] /\ Prefix(u, i - 1) = Prefix(t, i - 1)
                                 /\ Prefix(t, i - 1) # t
                              \/ i = Len(u) /\ u[i] = w /\ Prefix(u, i - 1) = t
      /\ \A place \in Path : Len(place) >= Len(u) /\ Prefix(place, Len(u)) = u =>
              Len(place) >= Len(t) /\ Prefix(place, Len(t)) = t /\ place # t
  BY LongerFacts
<1> HIDE DEF u
<1>2. \A place : /\ Many(g, place) \in Nat /\ Many(h, place) \in Nat /\ Worth(g, place) \in Nat /\ Worth(h, place) \in Nat
                 /\ PinCount \in Nat
                 /\ \A v : Count(g, place, v) \in Nat /\ Count(h, place, v) \in Nat
  BY CountType, WorthType
<1> HIDE DEF Many, Count
<1>3. /\ t \notin DOMAIN g.pins /\ DOMAIN h.pins = DOMAIN g.pins \cup {t}
      /\ \A other \in DOMAIN g.pins : h.pins[other] = g.pins[other]
      /\ \A other : other # t => /\ Many(h, other) = Many(g, other)
                                 /\ \A v : Count(h, other, v) = Count(g, other, v)
      /\ Many(g, t) + 1 >= PinCount
      /\ \A v : Count(g, t, v) >= PinCount => v \in h.pins[t]
  BY DEF PromotedAt
<1>5. ASSUME NEW place \in Path, NEW i \in 1..Len(place),
             Prefix(place, i - 1) \notin DOMAIN h.pins, Literal(place[i])
      PROVE  Count(h, Prefix(place, i - 1), place[i]) >= Worth(h, place)
  <2> DEFINE q == Prefix(place, i - 1)
             v == place[i]
  <2> HIDE DEF q, v
  <2>1. q \notin DOMAIN g.pins /\ q # t /\ Count(h, q, v) = Count(g, q, v)
    BY <1>3, <1>5 DEF q, v
  <2>2. CASE place # t
    <3>1. Worth(h, place) = Worth(g, place)
      BY <1>3, <2>2 DEF Worth
    <3>2. Count(g, q, v) >= Worth(g, place)
      BY <1>5, <2>1 DEF Backed, q, v
    <3>. QED  BY <2>1, <3>1, <3>2 DEF q, v
  <2>3. CASE place = t
    <3>1. Len(t) >= Len(t) /\ Prefix(t, Len(t)) = t
      BY <1>1, PrefixFacts
    <3>2. Count(g, q, v) >= Many(g, t) + 1
      BY <1>3, <1>5, <2>1, <2>3, <3>1 DEF Ahead, q, v
    <3>3. Worth(h, place) = PinCount
      BY <1>3, <2>3 DEF Worth
    <3>4. Count(h, q, v) \in Nat /\ Many(g, t) \in Nat /\ PinCount \in Nat
      BY <1>2
    <3>5. Many(g, t) + 1 >= PinCount
      BY <1>3
    <3>6. Count(h, q, v) >= Worth(h, place)
      BY ONLY <2>1, <3>2, <3>3, <3>4, <3>5
    <3>. QED  BY <3>6 DEF q, v
  <2>. QED  BY <2>2, <2>3
<1>6. Backed(h)
  BY <1>5 DEF Backed
<1>7. ASSUME NEW i \in 1..Len(u), Prefix(u, i - 1) \notin DOMAIN h.pins, Literal(u[i]),
             NEW place \in Path, Len(place) >= Len(u), Prefix(place, Len(u)) = u,
             place \notin DOMAIN h.pins
      PROVE  Count(h, Prefix(u, i - 1), u[i]) >= Many(h, place) + 1
  <2>1. Len(place) >= Len(t) /\ Prefix(place, Len(t)) = t /\ place # t
    BY <1>1, <1>7
  <2>2. Many(h, place) = Many(g, place) /\ place \notin DOMAIN g.pins
    BY <1>3, <1>7, <2>1
  <2>3. i \in 1..Len(t) /\ u[i] = t[i] /\ Prefix(u, i - 1) = Prefix(t, i - 1) /\ Prefix(t, i - 1) # t
    BY <1>1, <1>3, <1>7
  <2>4. Count(g, Prefix(t, i - 1), t[i]) >= Many(g, place) + 1
    BY <1>3, <1>7, <2>1, <2>2, <2>3 DEF Ahead
  <2>. QED  BY <1>3, <2>2, <2>3, <2>4
<1>8. Ahead(h, u)
  BY <1>7 DEF Ahead
<1>9. Grown(g, h)
  <2>1. \A place, v : place \notin DOMAIN h.pins => Count(h, place, v) >= Count(g, place, v)
    BY <1>2, <1>3
  <2>2. \A place \in DOMAIN h.pins \ DOMAIN g.pins : \A v : Count(g, place, v) >= PinCount => v \in h.pins[place]
    BY <1>3
  <2>. QED  BY <1>3, <2>1, <2>2 DEF Grown
<1>. QED  BY <1>6, <1>8, <1>9 DEF u

-----------------------------------------------------------------------------
(* Apply and TemplateOf go through a path from its start                     *)

LEMMA ApplyRuns ==
  ASSUME NEW g, NEW p \in Path
  PROVE  \E r : /\ r[0] = [template |-> <<>>, guard |-> g, promoted |-> FALSE]
                /\ \A k \in Nat : k < Len(p) => r[k + 1] = Segment(r[k], p[k + 1])
                /\ Apply(g, p) = r[Len(p)]
<1> DEFINE n == Len(p)
           D == 1..n
           b == [template |-> <<>>, guard |-> g, promoted |-> FALSE]
           W(h) == h = [s \in SUBSET D |-> IF s = {} THEN b ELSE Segment(h[s \ {Max(s)}], p[Max(s)])]
           h == Walking!PartialFrom(b, p, D)
<1>1. DOMAIN p = D /\ n \in Nat
  BY DEF Path
<1>2. Apply(g, p) = (CHOOSE x : W(x))[D]
  BY <1>1 DEF Apply, FoldLeft, MapThenFoldSet
<1>3. ASSUME NEW x PROVE W(x) <=> Walking!IsFoldFrom(b, x, p, D)
  BY DEF Walking!IsFoldFrom, WalkInto, Highest
<1>4. (CHOOSE x : W(x)) = h
  <2> HIDE DEF W
  <2>. QED  BY <1>3 DEF Walking!PartialFrom
<1>5. Walking!Picks(D) /\ (\A k \in D : Highest(1..k) = k) /\ Walking!IsFiniteSet(D)
  BY <1>1, HighestIsLast, Finite DEF Walking!Picks
<1> HIDE DEF b, n, W
<1>6. \E r : Walking!Running(b, p, n, r) /\ h[D] = r[n]
  BY <1>1, <1>5, Walking!FoldHasRun
<1> HIDE DEF h
<1>. QED  BY <1>2, <1>4, <1>6 DEF Walking!Running, WalkInto, b, n

LEMMA TemplateRuns ==
  ASSUME NEW g, NEW p \in Path
  PROVE  \E r : /\ r[0] = [template |-> <<>>, pins |-> g.pins]
                /\ \A k \in Nat : k < Len(p) => r[k + 1] = ReadInto(p[k + 1], r[k])
                /\ TemplateOf(g, p) = r[Len(p)].template
<1> DEFINE n == Len(p)
           D == 1..n
           b == [template |-> <<>>, pins |-> g.pins]
           next(acc, s) == [acc EXCEPT !.template = Append(@, Read(acc.pins, @, s))]
           W(h) == h = [s \in SUBSET D |-> IF s = {} THEN b ELSE next(h[s \ {Max(s)}], p[Max(s)])]
           h == Reading!PartialFrom(b, p, D)
<1>1. DOMAIN p = D /\ n \in Nat
  BY DEF Path
<1>2. TemplateOf(g, p) = (CHOOSE x : W(x))[D].template
  BY <1>1 DEF TemplateOf, FoldLeft, MapThenFoldSet
<1>3. ASSUME NEW x PROVE W(x) <=> Reading!IsFoldFrom(b, x, p, D)
  BY DEF Reading!IsFoldFrom, ReadInto, Highest
<1>4. (CHOOSE x : W(x)) = h
  <2> HIDE DEF W
  <2>. QED  BY <1>3 DEF Reading!PartialFrom
<1>5. Reading!Picks(D) /\ (\A k \in D : Highest(1..k) = k) /\ Reading!IsFiniteSet(D)
  BY <1>1, HighestIsLast, Finite DEF Reading!Picks
<1> HIDE DEF b, n, W
<1>6. \E r : Reading!Running(b, p, n, r) /\ h[D] = r[n]
  BY <1>1, <1>5, Reading!FoldHasRun
<1> HIDE DEF h
<1>. QED  BY <1>2, <1>4, <1>6 DEF Reading!Running, b, n

\* Two paths agree as far as each value is the same behind what is the same.
LEMMA Agree ==
  ASSUME NEW t \in Path, NEW u \in Path, NEW n \in Nat, n <= Len(t), n <= Len(u),
         \A i \in 1..n : Prefix(t, i - 1) = Prefix(u, i - 1) => t[i] = u[i]
  PROVE  Prefix(t, n) = Prefix(u, n)
<1>1. /\ Len(t) \in Nat /\ Len(u) \in Nat
      /\ \A m \in 0..n : /\ Prefix(t, m) \in Path /\ Prefix(u, m) \in Path
                         /\ Len(Prefix(t, m)) = m /\ Len(Prefix(u, m)) = m
                         /\ \A i \in 1..m : Prefix(t, m)[i] = t[i] /\ Prefix(u, m)[i] = u[i]
  <2>1. Len(t) \in Nat /\ Len(u) \in Nat
    BY PrefixFacts
  <2>2. \A m \in 0..n : m \in 0..Len(t) /\ m \in 0..Len(u)
    BY <2>1
  <2>. QED  BY <2>1, <2>2, PrefixFacts
<1> DEFINE G == {m \in Nat : m <= n => \A i \in 1..m : t[i] = u[i]}
<1>2. 0 \in G
  OBVIOUS
<1>3. ASSUME NEW m \in Nat, m \in G  PROVE m + 1 \in G
  <2> SUFFICES ASSUME m + 1 <= n  PROVE \A i \in 1..(m + 1) : t[i] = u[i]
    OBVIOUS
  <2>1. m \in 0..n /\ m + 1 \in 1..n /\ (m + 1) - 1 = m
    OBVIOUS
  <2>2. \A i \in 1..m : t[i] = u[i]
    BY <1>3, <2>1
  <2>3. Prefix(t, m) = Prefix(u, m)
    <3> DEFINE a == Prefix(t, m)
               b == Prefix(u, m)
    <3>1. a \in Path /\ b \in Path /\ Len(a) = m /\ Len(b) = m /\ \A i \in 1..m : a[i] = b[i]
      BY <1>1, <2>1, <2>2
    <3> HIDE DEF a, b
    <3>2. a = b
      BY <3>1, SamePath
    <3>. QED  BY <3>2 DEF a, b
  <2>4. t[m + 1] = u[m + 1]
    BY <2>1, <2>3
  <2>. QED  BY <2>2, <2>4
<1> HIDE DEF G
<1>4. \A m \in Nat : m \in G
  BY <1>2, <1>3, Walking!NumberInduction
<1>5. n \in 0..n /\ \A i \in 1..n : t[i] = u[i]
  BY <1>4 DEF G
<1> DEFINE a == Prefix(t, n)
           b == Prefix(u, n)
<1>6. a \in Path /\ b \in Path /\ Len(a) = n /\ Len(b) = n /\ \A i \in 1..n : a[i] = b[i]
  BY <1>1, <1>5
<1> HIDE DEF a, b
<1>7. a = b
  BY <1>6, SamePath
<1>. QED  BY <1>7 DEF a, b

\* t is the template of the path p, as the pins are.
ReadOff(pins, t, p) ==
  /\ t \in Path /\ Len(t) <= Len(p)
  /\ \A i \in 1..Len(t) : t[i] = Read(pins, Prefix(t, i - 1), p[i])
IsTemplate(pins, t, p) == ReadOff(pins, t, p) /\ Len(t) = Len(p)

LEMMA OneTemplate ==
  ASSUME NEW pins, NEW p \in Path, NEW t, NEW u, IsTemplate(pins, t, p), IsTemplate(pins, u, p)
  PROVE  t = u
<1>1. t \in Path /\ u \in Path /\ Len(t) = Len(p) /\ Len(u) = Len(p) /\ Len(p) \in Nat
  BY PrefixFacts DEF IsTemplate, ReadOff
<1>2. \A i \in 1..Len(p) : Prefix(t, i - 1) = Prefix(u, i - 1) => t[i] = u[i]
  BY DEF IsTemplate, ReadOff
<1>3. Prefix(t, Len(p)) = Prefix(u, Len(p))
  BY <1>1, <1>2, Agree
<1>. QED  BY <1>1, <1>3, PrefixFacts

LEMMA TemplatePrefix ==
  ASSUME NEW pins, NEW p \in Path, NEW t, IsTemplate(pins, t, p), NEW n \in 0..Len(p)
  PROVE  Prefix(p, n) \in Path /\ IsTemplate(pins, Prefix(t, n), Prefix(p, n))
<1> DEFINE a == Prefix(t, n)
           q == Prefix(p, n)
<1>1. t \in Path /\ Len(t) = Len(p) /\ n \in 0..Len(t) /\ Len(p) \in Nat
  BY PrefixFacts DEF IsTemplate, ReadOff
<1>2. /\ a \in Path /\ Len(a) = n /\ q \in Path /\ Len(q) = n
      /\ \A i \in 1..n : a[i] = t[i] /\ q[i] = p[i]
      /\ \A m \in 0..n : Prefix(a, m) = Prefix(t, m)
  BY <1>1, PrefixFacts
<1> HIDE DEF a, q
<1>3. ASSUME NEW i \in 1..n PROVE a[i] = Read(pins, Prefix(a, i - 1), q[i])
  <2>1. i \in 1..Len(p) /\ i - 1 \in 0..n
    BY <1>1
  <2>2. t[i] = Read(pins, Prefix(t, i - 1), p[i])
    BY <2>1 DEF IsTemplate, ReadOff
  <2>. QED  BY <1>2, <2>1, <2>2
<1>. QED  BY <1>2, <1>3 DEF IsTemplate, ReadOff, a, q

\* A template that is read one value further.
NextRead(pins, t, p, u) == Len(t) < Len(p) /\ u = Append(t, Read(pins, t, p[Len(t) + 1]))

LEMMA TemplateGrows ==
  ASSUME NEW pins, NEW p \in Path, NEW t, ReadOff(pins, t, p), NEW u, NextRead(pins, t, p, u)
  PROVE  ReadOff(pins, u, p) /\ Len(u) = Len(t) + 1
<1> DEFINE s == p[Len(t) + 1]
           w == Read(pins, t, s)
           n == Len(t)
<1>0. Len(t) < Len(p) /\ u = Append(t, w)
  BY DEF NextRead
<1>1. w \in Word /\ t \in Path /\ n \in Nat /\ Len(p) \in Nat
  <2>1. t \in Path /\ n \in Nat /\ Len(p) \in Nat
    BY PrefixFacts DEF ReadOff
  <2>2. n + 1 \in 1..Len(p)
    BY <1>0, <2>1
  <2>3. s \in Word
    BY <2>2 DEF Path
  <2>. QED  BY <2>1, <2>3, ReadType
<1>2. u = Append(t, w)
  BY <1>0
<1> HIDE DEF w
<1>3. /\ Append(t, w) \in Path /\ Len(Append(t, w)) = n + 1
      /\ \A i \in 1..Len(Append(t, w)) :
           \/ i \in 1..n /\ Append(t, w)[i] = t[i] /\ Prefix(Append(t, w), i - 1) = Prefix(t, i - 1)
           \/ i = Len(Append(t, w)) /\ Append(t, w)[i] = w /\ Prefix(Append(t, w), i - 1) = t
  BY <1>1, LongerFacts
<1>4. /\ u \in Path /\ Len(u) = n + 1
      /\ \A i \in 1..(n + 1) : \/ i \in 1..n /\ u[i] = t[i] /\ Prefix(u, i - 1) = Prefix(t, i - 1)
                               \/ i = n + 1 /\ u[i] = w /\ Prefix(u, i - 1) = t
  BY ONLY <1>2, <1>3
<1>5. ASSUME NEW i \in 1..(n + 1) PROVE u[i] = Read(pins, Prefix(u, i - 1), p[i])
  <2>1. CASE i \in 1..n /\ u[i] = t[i] /\ Prefix(u, i - 1) = Prefix(t, i - 1)
    BY <2>1 DEF ReadOff
  <2>2. CASE i = n + 1 /\ u[i] = w /\ Prefix(u, i - 1) = t
    BY <2>2 DEF w
  <2>. QED  BY <1>4, <2>1, <2>2
<1> HIDE DEF n
<1>6. Len(u) <= Len(p)
  BY <1>0, <1>1, <1>4 DEF n
<1>. QED  BY <1>4, <1>5, <1>6 DEF ReadOff, n

LEMMA TemplateFacts ==
  ASSUME NEW g, NEW p \in Path
  PROVE  IsTemplate(g.pins, TemplateOf(g, p), p)
<1> DEFINE n == Len(p)
           pins == g.pins
<1>0. n \in Nat
  BY PrefixFacts
<1>1. PICK r : /\ r[0] = [template |-> <<>>, pins |-> g.pins]
               /\ \A k \in Nat : k < n => r[k + 1] = ReadInto(p[k + 1], r[k])
               /\ TemplateOf(g, p) = r[n].template
  BY TemplateRuns
<1> DEFINE Sound(acc, k) == /\ DOMAIN acc = {"template", "pins"} /\ acc.pins = pins
                            /\ ReadOff(pins, acc.template, p) /\ Len(acc.template) = k
           G == {k \in Nat : k <= n => Sound(r[k], k)}
<1>2. 0 \in G
  <2>1. r[0].template = <<>> /\ r[0].pins = pins /\ DOMAIN r[0] = {"template", "pins"}
    BY <1>1
  <2>2. <<>> \in Path /\ Len(<<>>) = 0 /\ ReadOff(pins, <<>>, p)
    BY <1>0 DEF Path, ReadOff
  <2>. QED  BY <2>1, <2>2
<1>3. ASSUME NEW k \in Nat, k \in G  PROVE k + 1 \in G
  <2> SUFFICES ASSUME k + 1 <= n  PROVE Sound(r[k + 1], k + 1)
    OBVIOUS
  <2> DEFINE acc == r[k]
             s == p[k + 1]
             new == r[k + 1]
  <2>1. k < n /\ Sound(acc, k)
    BY <1>0, <1>3
  <2>2. new = ReadInto(s, acc)
    BY <1>1, <2>1
  <2> HIDE DEF acc, new
  <2>3. DOMAIN new = {"template", "pins"} /\ new.pins = pins /\ new.template = Append(acc.template, Read(pins, acc.template, s))
    BY <2>1, <2>2 DEF ReadInto
  <2> DEFINE t == acc.template
             u == new.template
  <2>4. /\ ReadOff(pins, t, p) /\ Len(t) = k /\ Len(t) < Len(p) /\ s = p[Len(t) + 1]
        /\ u = Append(t, Read(pins, t, s))
    BY <2>1, <2>3
  <2> HIDE DEF t, u, n, s, pins
  <2>5. ReadOff(pins, u, p) /\ Len(u) = Len(t) + 1
    <3>1. NextRead(pins, t, p, u)
      BY <2>4 DEF NextRead
    <3>. QED  BY <2>4, <3>1, TemplateGrows
  <2>. QED  BY <2>3, <2>4, <2>5 DEF new, u
<1> HIDE DEF G
<1>4. \A k \in Nat : k \in G
  BY <1>2, <1>3, Walking!NumberInduction
<1>5. Sound(r[n], n)
  BY <1>0, <1>4 DEF G
<1>. QED  BY <1>1, <1>5 DEF IsTemplate, ReadOff

\* What is read does not depend on the pins of the place that it leads to.
SamePins(pins, qins, t) ==
  \A place : place # t => /\ place \in DOMAIN pins <=> place \in DOMAIN qins
                          /\ place \in DOMAIN pins => pins[place] = qins[place]

LEMMA ReadOffKept ==
  ASSUME NEW pins, NEW qins, NEW p \in Path, NEW t, ReadOff(pins, t, p), SamePins(pins, qins, t)
  PROVE  ReadOff(qins, t, p)
<1>1. t \in Path
  BY DEF ReadOff
<1>2. ASSUME NEW i \in 1..Len(t) PROVE t[i] = Read(qins, Prefix(t, i - 1), p[i])
  <2> DEFINE place == Prefix(t, i - 1)
  <2>1. Len(t) \in Nat
    BY <1>1, PrefixFacts
  <2>2. i - 1 \in 0..Len(t) /\ i - 1 # Len(t)
    BY <2>1
  <2>3. Len(place) = i - 1
    BY <1>1, <2>2, PrefixFacts
  <2>4. place # t
    BY <2>2, <2>3
  <2>5. t[i] = Read(pins, place, p[i])
    BY DEF ReadOff
  <2> HIDE DEF place
  <2>6. Read(pins, place, p[i]) = Read(qins, place, p[i])
    BY <2>4 DEF Read, SamePins
  <2>. QED  BY <2>5, <2>6 DEF place
<1>. QED  BY <1>2 DEF ReadOff

GuardOK(g) == IsGuard(g) /\ Backed(g)

\* A walk through p that started with the guard g.
Walk(acc, g, p) ==
  /\ GuardOK(acc.guard) /\ Ahead(acc.guard, acc.template) /\ Grown(g, acc.guard)
  /\ ReadOff(acc.guard.pins, acc.template, p)
  /\ ~acc.promoted => acc.guard.pins = g.pins

LEMMA GrownSame == ASSUME NEW g, IsGuard(g) PROVE Grown(g, g)
<1>1. \A place, s : Count(g, place, s) \in Nat
  BY CountType
<1> HIDE DEF Count
<1>. QED  BY <1>1 DEF Grown

Longer(new, acc, g, p) == Walk(new, g, p) /\ Len(new.template) = Len(acc.template) + 1

LEMMA WalkStep ==
  ASSUME NEW g, IsGuard(g), NEW p \in Path, NEW acc, Walk(acc, g, p), NEW s \in Word,
         NEW new, NextRead(new.guard.pins, acc.template, p, new.template), Walked(acc, new, s)
  PROVE  Longer(new, acc, g, p)
<1> DEFINE f == acc.guard
           h == new.guard
           t == acc.template
           u == new.template
           w == Read(h.pins, t, s)
<1>1. /\ IsGuard(f) /\ Backed(f) /\ Ahead(f, t) /\ Grown(g, f) /\ ReadOff(f.pins, t, p) /\ t \in Path
      /\ ~acc.promoted => f.pins = g.pins
  BY DEF Walk, GuardOK, ReadOff
<1>2. IsGuard(h) /\ u = Append(t, w) /\ w \in Word
  BY DEF Walked
<1>3. \/ h = f /\ new.promoted = acc.promoted /\ (t \in DOMAIN f.pins \/ ~Literal(w))
      \/ CountedAt(f, h, t, s) /\ new.promoted = acc.promoted /\ w = s
      \/ PromotedAt(f, h, t) /\ new.promoted
  BY DEF Walked
<1>4. NextRead(h.pins, t, p, u)
  OBVIOUS
<1> HIDE DEF f, h, t, u, w
<1>5. Backed(h) /\ Ahead(h, u) /\ Grown(f, h) /\ SamePins(f.pins, h.pins, t) /\ (~new.promoted => h.pins = g.pins)
  <2>1. CASE h = f /\ new.promoted = acc.promoted /\ (t \in DOMAIN f.pins \/ ~Literal(w))
    <3>1. Ahead(f, Append(t, w))
      BY <1>1, <1>2, <2>1, PassingKeeps
    <3>2. Grown(f, f) /\ SamePins(f.pins, f.pins, t)
      BY <1>1, GrownSame DEF SamePins
    <3>. QED  BY <1>1, <1>2, <2>1, <3>1, <3>2
  <2>2. CASE CountedAt(f, h, t, s) /\ new.promoted = acc.promoted /\ w = s
    <3>1. Backed(h) /\ Ahead(h, Append(t, s)) /\ Grown(f, h)
      BY <1>1, <1>2, <2>2, CountingKeeps
    <3>2. h.pins = f.pins
      BY <2>2 DEF CountedAt
    <3>3. SamePins(f.pins, h.pins, t)
      BY <3>2 DEF SamePins
    <3>. QED  BY <1>1, <1>2, <2>2, <3>1, <3>2, <3>3
  <2>3. CASE PromotedAt(f, h, t) /\ new.promoted
    <3>1. Backed(h) /\ Ahead(h, Append(t, w)) /\ Grown(f, h)
      BY <1>1, <1>2, <2>3, PromotingKeeps
    <3>2. SamePins(f.pins, h.pins, t)
      BY <2>3 DEF PromotedAt, SamePins
    <3>. QED  BY <1>2, <2>3, <3>1, <3>2
  <2>. QED  BY <1>3, <2>1, <2>2, <2>3
<1>6. Grown(g, h)
  BY <1>1, <1>2, <1>5, GrownTransitive
<1>7. ReadOff(h.pins, t, p)
  BY <1>1, <1>5, ReadOffKept
<1>8. ReadOff(h.pins, u, p) /\ Len(u) = Len(t) + 1
  BY <1>4, <1>7, TemplateGrows
<1>9. Walk(new, g, p)
  BY <1>2, <1>5, <1>6, <1>8 DEF Walk, GuardOK, h, u
<1>. QED  BY <1>8, <1>9 DEF t, u, Longer

\* What Apply makes of a guard and a path.
Applied(a, g, p) ==
  /\ GuardOK(a.guard) /\ Grown(g, a.guard)
  /\ a.template \in Path /\ IsTemplate(a.guard.pins, a.template, p)
  /\ ~a.promoted => a.guard.pins = g.pins

LEMMA ApplyFacts ==
  ASSUME NEW g, GuardOK(g), NEW p \in Path
  PROVE  Applied(Apply(g, p), g, p)
<1> DEFINE n == Len(p)
<1>0. n \in Nat /\ \A i \in 1..n : p[i] \in Word
  BY PrefixFacts DEF Path
<1>1. PICK r : /\ r[0] = [template |-> <<>>, guard |-> g, promoted |-> FALSE]
               /\ \A k \in Nat : k < n => r[k + 1] = Segment(r[k], p[k + 1])
               /\ Apply(g, p) = r[n]
  BY ApplyRuns
<1> DEFINE G == {k \in Nat : k <= n => Walk(r[k], g, p) /\ Len(r[k].template) = k}
<1>2. 0 \in G
  <2>1. r[0].template = <<>> /\ r[0].guard = g
    BY <1>1
  <2>2. <<>> \in Path /\ Len(<<>>) = 0 /\ ReadOff(g.pins, <<>>, p)
    BY <1>0 DEF Path, ReadOff
  <2>3. Ahead(g, <<>>)
    BY <2>2 DEF Ahead
  <2>. QED  BY <2>1, <2>2, <2>3, GrownSame DEF Walk, GuardOK
<1>3. ASSUME NEW k \in Nat, k \in G  PROVE k + 1 \in G
  <2> SUFFICES ASSUME k + 1 <= n  PROVE Walk(r[k + 1], g, p) /\ Len(r[k + 1].template) = k + 1
    OBVIOUS
  <2> DEFINE acc == r[k]
             s == p[k + 1]
             new == r[k + 1]
  <2>1. k < n /\ Walk(acc, g, p) /\ Len(acc.template) = k /\ s \in Word
    BY <1>0, <1>3
  <2>2. new = Segment(acc, s)
    BY <1>1, <2>1
  <2> HIDE DEF acc, new, s
  <2>3. IsGuard(g) /\ IsGuard(acc.guard) /\ acc.template \in Path
    BY <2>1 DEF GuardOK, Walk, ReadOff
  <2>4. Walked(acc, new, s)
    BY <2>1, <2>2, <2>3, SegmentWalks
  <2>5. new.template = Append(acc.template, Read(new.guard.pins, acc.template, s))
    BY <2>4 DEF Walked
  <2>6. NextRead(new.guard.pins, acc.template, p, new.template)
    BY <2>1, <2>5 DEF NextRead, s
  <2>7. Longer(new, acc, g, p)
    BY <2>1, <2>3, <2>4, <2>6, WalkStep
  <2>. QED  BY <2>1, <2>7 DEF new, Longer
<1> HIDE DEF G
<1>4. \A k \in Nat : k \in G
  BY <1>2, <1>3, Walking!NumberInduction
<1>5. Walk(r[n], g, p) /\ Len(r[n].template) = n
  BY <1>0, <1>4 DEF G
<1>. QED  BY <1>1, <1>5 DEF Applied, Walk, IsTemplate, ReadOff

-----------------------------------------------------------------------------
(* Templates, as the guard goes on                                           *)

\* No word of a path tells more of an id than that it is one.
Untyped(p) == \A i \in 1..Len(p) : p[i] \notin Typed

\* A path that reached a promoted place reaches it still: what led there had been
\* counted often enough to be pinned.
LEMMA Stable ==
  ASSUME NEW g, NEW h, GuardOK(g), Grown(g, h), NEW p \in Path, Untyped(p),
         NEW t, IsTemplate(g.pins, t, p), NEW u, IsTemplate(h.pins, u, p),
         NEW i \in 1..Len(p), Prefix(t, i - 1) \in DOMAIN g.pins
  PROVE  Prefix(t, i - 1) = Prefix(u, i - 1)
<1> DEFINE n == i - 1
           place == Prefix(t, n)
<1>1. /\ t \in Path /\ u \in Path /\ Len(t) = Len(p) /\ Len(u) = Len(p)
      /\ Len(p) \in Nat /\ n \in 0..Len(p) /\ n \in Nat /\ n <= Len(p)
  BY PrefixFacts DEF IsTemplate, ReadOff
<1>2. /\ place \in Path /\ Len(place) = n
      /\ \A j \in 1..n : place[j] = t[j]
      /\ \A m \in 0..n : Prefix(place, m) = Prefix(t, m)
  BY <1>1, PrefixFacts
<1>3. place \in DOMAIN g.pins
  OBVIOUS
<1> HIDE DEF place, n
<1>4. ASSUME NEW j \in 1..n, Prefix(t, j - 1) = Prefix(u, j - 1)  PROVE t[j] = u[j]
  <2> DEFINE q == Prefix(t, j - 1)
             s == p[j]
  <2>1. j \in 1..Len(p) /\ j - 1 \in 0..n
    BY <1>1
  <2>2. t[j] = Read(g.pins, q, s) /\ u[j] = Read(h.pins, q, s) /\ s \notin Typed
    BY <1>1, <1>4, <2>1 DEF IsTemplate, ReadOff, Untyped
  <2>3. q \in DOMAIN g.pins => q \in DOMAIN h.pins /\ h.pins[q] = g.pins[q]
    BY DEF Grown
  <2>4. ASSUME q \notin DOMAIN g.pins, q \in DOMAIN h.pins, s \notin DOMAIN Placeholder, s # Id
        PROVE  s \in h.pins[q]
    <3>1. t[j] = s /\ Literal(s)
      BY <2>2, <2>4 DEF Read, Literal, Typed
    <3>2. Prefix(place, j - 1) = q /\ place[j] = s /\ j \in 1..Len(place)
      BY <1>2, <2>1, <3>1
    <3> HIDE DEF q, s
    <3>3. Count(g, q, s) >= Worth(g, place)
      BY <1>2, <2>4, <3>1, <3>2 DEF GuardOK, Backed
    <3>4. Worth(g, place) = PinCount
      BY <1>3 DEF Worth
    <3>5. Count(g, q, s) >= PinCount
      BY <3>3, <3>4
    <3>. QED  BY <2>4, <3>5 DEF Grown
  <2> HIDE DEF q, s
  <2>. QED  BY <2>2, <2>3, <2>4 DEF Read, Kept
<1>5. Prefix(t, n) = Prefix(u, n)
  BY <1>1, <1>4, Agree
<1>. QED  BY <1>5 DEF n

\* None of a path's ids is mistaken for one more value of a promoted place, u being
\* the path's template.
Plain(pins, u, p) ==
  /\ Untyped(p)
  /\ \A i \in 1..Len(p) :
       p[i] \in DOMAIN Placeholder /\ Placeholder[p[i]] # Id => Prefix(u, i - 1) \notin DOMAIN pins

\* The template a path had is read as the path is.
LEMMA Reread ==
  ASSUME NEW g, NEW h, GuardOK(g), Grown(g, h), NEW p \in Path,
         NEW t, IsTemplate(g.pins, t, p), NEW u, IsTemplate(h.pins, u, p), Plain(h.pins, u, p)
  PROVE  IsTemplate(h.pins, u, t)
<1>1. u \in Path /\ Len(t) = Len(p) /\ Len(u) = Len(p) /\ Untyped(p)
  BY DEF IsTemplate, ReadOff, Plain
<1>2. \A pins, place : Read(pins, place, Id) = Id
  BY PathGuardAssumption DEF Read, Kept
<1>3. ASSUME NEW i \in 1..Len(u) PROVE u[i] = Read(h.pins, Prefix(u, i - 1), t[i])
  <2> DEFINE q == Prefix(u, i - 1)
             o == Prefix(t, i - 1)
             s == p[i]
  <2>1. i \in 1..Len(p)
    BY <1>1
  <2>2. t[i] = Read(g.pins, o, s) /\ u[i] = Read(h.pins, q, s)
    BY <1>1, <2>1 DEF IsTemplate, ReadOff
  <2>3. o \in DOMAIN g.pins => o = q
    BY <1>1, <2>1, Stable
  <2>4. s \in DOMAIN Placeholder /\ Placeholder[s] # Id => q \notin DOMAIN h.pins
    BY <2>1 DEF Plain
  <2>5. o \in DOMAIN g.pins => o \in DOMAIN h.pins /\ h.pins[o] = g.pins[o]
    BY DEF Grown
  <2> HIDE DEF q, o, s
  <2>6. CASE s \in DOMAIN Placeholder
    <3>1. t[i] = Placeholder[s] /\ u[i] = Placeholder[s]
      BY <2>2, <2>6 DEF Read
    <3>2. CASE Placeholder[s] = Id
      BY <1>2, <3>1, <3>2 DEF q
    <3>3. CASE Placeholder[s] # Id
      <4>1. Placeholder[s] \notin DOMAIN Placeholder
        BY <2>6, PathGuardAssumption
      <4>. QED  BY <2>4, <2>6, <3>1, <3>3, <4>1 DEF Read, q
    <3>. QED  BY <3>2, <3>3
  <2>7. CASE s \notin DOMAIN Placeholder /\ o \in DOMAIN g.pins
    <3>1. t[i] = u[i] /\ u[i] = Kept(h.pins[q], s) /\ q \in DOMAIN h.pins
      BY <2>2, <2>3, <2>5, <2>7 DEF Read
    <3>2. CASE s \in h.pins[q]
      BY <2>7, <3>1, <3>2 DEF Read, Kept, q
    <3>3. CASE s \notin h.pins[q]
      BY <1>2, <3>1, <3>3 DEF Kept, q
    <3>. QED  BY <3>2, <3>3
  <2>8. CASE s \notin DOMAIN Placeholder /\ o \notin DOMAIN g.pins
    BY <2>2, <2>8 DEF Read, q
  <2>. QED  BY <2>6, <2>7, <2>8
<1>. QED  BY <1>1, <1>3 DEF IsTemplate, ReadOff

\* What is mistaken remains so.
LEMMA PlainBefore ==
  ASSUME NEW g, NEW h, GuardOK(g), Grown(g, h), NEW p \in Path,
         NEW t, IsTemplate(g.pins, t, p), NEW u, IsTemplate(h.pins, u, p), Plain(h.pins, u, p)
  PROVE  Plain(g.pins, t, p)
<1>1. Untyped(p)
  BY DEF Plain
<1>2. ASSUME NEW i \in 1..Len(p), p[i] \in DOMAIN Placeholder, Placeholder[p[i]] # Id,
             Prefix(t, i - 1) \in DOMAIN g.pins
      PROVE  FALSE
  <2>1. Prefix(t, i - 1) = Prefix(u, i - 1)
    BY <1>1, <1>2, Stable
  <2>2. Prefix(t, i - 1) \in DOMAIN h.pins
    BY <1>2 DEF Grown
  <2>. QED  BY <1>2, <2>1, <2>2 DEF Plain
<1>. QED  BY <1>1, <1>2 DEF Plain

-----------------------------------------------------------------------------
(* The merge, and the guard it counts with                                   *)

\* A merge that started with the guard g, of families with the keys S: unless it
\* promoted a place, each merged key is read off a key there was.
Remapped(acc, g, S) ==
  /\ GuardOK(acc.guard) /\ Grown(g, acc.guard)
  /\ ~acc.nested => acc.guard.pins = g.pins
  /\ \A k \in DOMAIN acc.merged :
       k[1] \in Path /\ (~acc.nested => \E o \in S : IsTemplate(g.pins, k[1], o[1]))

LEMMA MergeRemaps ==
  ASSUME NEW g, GuardOK(g), NEW S, \A o \in S : o[1] \in Path, NEW acc, Remapped(acc, g, S), NEW key \in S
  PROVE  Remapped(Merge(acc, key), g, S)
<1> DEFINE f == acc.guard
           p == key[1]
           a == Apply(f, p)
           k == <<a.template, key[2]>>
           new == Merge(acc, key)
<1>1. /\ DOMAIN new.merged = DOMAIN acc.merged \cup {k} /\ new.guard = a.guard
      /\ ~new.nested => ~acc.nested /\ ~a.promoted
  BY DEF Merge, Put
<1>2. GuardOK(f) /\ Grown(g, f) /\ (~acc.nested => f.pins = g.pins) /\ p \in Path
  BY DEF Remapped
<1> HIDE DEF f, p, new
<1>3. Applied(a, f, p)
  BY <1>2, ApplyFacts
<1>4. k[1] = a.template
  OBVIOUS
<1> HIDE DEF a, k
<1>5. /\ GuardOK(a.guard) /\ Grown(f, a.guard) /\ a.template \in Path
      /\ IsTemplate(a.guard.pins, a.template, p) /\ (~a.promoted => a.guard.pins = f.pins)
  BY <1>3 DEF Applied
<1>6. Grown(g, a.guard)
  BY <1>2, <1>5, GrownTransitive DEF GuardOK
<1>7. ASSUME ~new.nested  PROVE a.guard.pins = g.pins
  BY <1>1, <1>2, <1>5, <1>7
<1>8. ASSUME NEW j \in DOMAIN new.merged
      PROVE  j[1] \in Path /\ (~new.nested => \E o \in S : IsTemplate(g.pins, j[1], o[1]))
  <2>1. CASE j = k
    BY <1>4, <1>5, <1>7, <2>1 DEF p
  <2>2. CASE j \in DOMAIN acc.merged
    BY <1>1, <2>2 DEF Remapped
  <2>. QED  BY <1>1, <2>1, <2>2
<1>. QED  BY <1>1, <1>5, <1>6, <1>7, <1>8 DEF Remapped, new

LEMMA MergeFamiliesRemaps ==
  ASSUME NEW g, GuardOK(g), NEW S, \A o \in S : o[1] \in Path, NEW order \in Seq(S)
  PROVE  Remapped(MergeFamilies(g, order), g, S)
<1> DEFINE n == Len(order)
           b == [guard |-> g, nested |-> FALSE, merged |-> Empty]
<1>1. PICK r : /\ r[0] = b
               /\ \A k \in Nat : k < n => r[k + 1] = Merge(r[k], order[k + 1])
               /\ MergeFamilies(g, order) = r[n]
  BY MergeRuns
<1> DEFINE G == {k \in Nat : k <= n => Remapped(r[k], g, S)}
<1>2. 0 \in G
  <2>1. b.guard = g /\ b.merged = Empty /\ DOMAIN Empty = {}
    BY DEF Empty
  <2>2. Remapped(b, g, S)
    BY <2>1, GrownSame DEF Remapped, GuardOK
  <2>. QED  BY <1>1, <2>2
<1>3. ASSUME NEW k \in Nat, k \in G  PROVE k + 1 \in G
  <2> SUFFICES ASSUME k + 1 <= n  PROVE Remapped(r[k + 1], g, S)
    OBVIOUS
  <2> DEFINE acc == r[k]
             key == order[k + 1]
  <2>1. k < n /\ k + 1 \in 1..n /\ Remapped(acc, g, S)
    BY <1>3
  <2>2. key \in S
    BY <2>1
  <2>3. r[k + 1] = Merge(acc, key)
    BY <1>1, <2>1
  <2> HIDE DEF acc, key
  <2>. QED  BY <2>1, <2>2, <2>3, MergeRemaps
<1> HIDE DEF G
<1>4. \A k \in Nat : k \in G
  BY <1>2, <1>3, Merging!NumberInduction
<1>. QED  BY <1>1, <1>4 DEF G

\* Whether a path is mistaken, by its template.
MistakenBy(g, path) ==
  \E i \in DOMAIN path :
    \/ path[i] \in Typed
    \/ /\ path[i] \in DOMAIN Placeholder /\ Placeholder[path[i]] # Id
       /\ TemplateOf(g, SubSeq(path, 1, i - 1)) \in DOMAIN g.pins

LEMMA MistakenPath ==
  ASSUME NEW g, NEW p \in Path
  PROVE  ~MistakenBy(g, p) <=> Plain(g.pins, TemplateOf(g, p), p)
<1> DEFINE t == TemplateOf(g, p)
           pins == g.pins
<1>1. IsTemplate(pins, t, p) /\ Len(p) \in Nat /\ DOMAIN p = 1..Len(p)
  BY TemplateFacts, PrefixFacts DEF Path
<1> HIDE DEF t, pins
<1>2. ASSUME NEW i \in 1..Len(p)  PROVE TemplateOf(g, Prefix(p, i - 1)) = Prefix(t, i - 1)
  <2> DEFINE q == Prefix(p, i - 1)
             u == Prefix(t, i - 1)
  <2>1. i - 1 \in 0..Len(p)
    BY <1>1
  <2>2. q \in Path /\ IsTemplate(pins, u, q)
    BY <1>1, <2>1, TemplatePrefix
  <2> HIDE DEF q, u
  <2>3. IsTemplate(pins, TemplateOf(g, q), q)
    BY <2>2, TemplateFacts DEF pins
  <2>. QED  BY <2>2, <2>3, OneTemplate DEF q, u
<1>3. \A i \in 1..Len(p) : SubSeq(p, 1, i - 1) = Prefix(p, i - 1)
  BY DEF Prefix
<1>. QED  BY <1>1, <1>2, <1>3 DEF MistakenBy, Plain, Untyped, t, pins

\* Paths that are not mistaken were not before, and the template a path had goes
\* where the path goes.
LEMMA StillHome ==
  ASSUME NEW g, NEW h, GuardOK(g), Grown(g, h), NEW p \in Path, ~MistakenBy(h, p)
  PROVE  /\ ~MistakenBy(g, p)
         /\ IsTemplate(h.pins, TemplateOf(h, p), TemplateOf(g, p)) /\ TemplateOf(g, p) \in Path
<1> DEFINE t == TemplateOf(g, p)
           u == TemplateOf(h, p)
<1>1. IsTemplate(g.pins, t, p) /\ IsTemplate(h.pins, u, p) /\ Plain(h.pins, u, p)
  BY TemplateFacts, MistakenPath
<1> HIDE DEF t, u
<1>2. Plain(g.pins, t, p) /\ IsTemplate(h.pins, u, t)
  BY <1>1, PlainBefore, Reread
<1>3. t \in Path
  BY <1>1 DEF IsTemplate, ReadOff
<1>4. ~MistakenBy(g, p)
  BY <1>2, MistakenPath DEF t
<1>. QED  BY <1>2, <1>3, <1>4 DEF t, u

-----------------------------------------------------------------------------
(* The steps                                                                 *)

\* What Observe makes of the families, in the order o.
MergedBy(a, o) == IF a.promoted THEN MergeFamilies(a.guard, o)
                  ELSE [guard |-> a.guard, nested |-> FALSE, merged |-> families]
FamilyAt(fams, k) == IF k \in DOMAIN fams THEN fams[k] ELSE NewFamily
Freezes(fam) == ~fam.frozen /\ fam.samples >= MinSamples
Ready(fam, v) == IF Freezes(fam) THEN TakeSamples(TakeReference(fam, v)) ELSE fam
KeyOf(a, x) == <<a.template, ClassOf[x.status]>>

Observed(x, a, o, m, k, fam) ==
  /\ a = Apply(guard, x.path)
  /\ o \in IF a.promoted THEN SetToSeqs(DOMAIN families) ELSE {<<>>}
  /\ m = MergedBy(a, o) /\ k = KeyOf(a, x) /\ fam = FamilyAt(m.merged, k)
  /\ guard' = m.guard
  /\ families' = Put(m.merged, k, Fold(Ready(fam, freezes + 1), x))
  /\ obs' = [key |-> k, exchange |-> x, ref |-> Empty]
  /\ at' = [at EXCEPT !["recorder"] = IF Ready(fam, freezes + 1).frozen THEN "compare" ELSE "idle"]
  /\ nested' = (nested \/ m.nested)

LEMMA ObservedFacts ==
  ASSUME NEW x, Observe(x)
  PROVE  \E a, o, m, k, fam : Observed(x, a, o, m, k, fam)
<1> DEFINE a == Apply(guard, x.path)
<1>1. PICK o \in IF a.promoted THEN SetToSeqs(DOMAIN families) ELSE {<<>>} :
        LET m == IF a.promoted THEN MergeFamilies(a.guard, o)
                 ELSE [guard |-> a.guard, nested |-> FALSE, merged |-> families]
            k == <<a.template, ClassOf[x.status]>>
            fam == IF k \in DOMAIN m.merged THEN m.merged[k] ELSE NewFamily
            freezesNow == ~fam.frozen /\ fam.samples >= MinSamples
            ready == IF freezesNow THEN TakeSamples(TakeReference(fam, freezes + 1)) ELSE fam
        IN /\ guard' = m.guard
           /\ families' = Put(m.merged, k, Fold(ready, x))
           /\ obs' = [key |-> k, exchange |-> x, ref |-> Empty]
           /\ Goto("recorder", IF ready.frozen THEN "compare" ELSE "idle")
           /\ nested' = (nested \/ m.nested)
  BY DEF Observe
<1> DEFINE m == MergedBy(a, o)
           k == KeyOf(a, x)
           fam == FamilyAt(m.merged, k)
<1>2. /\ guard' = m.guard
      /\ families' = Put(m.merged, k, Fold(Ready(fam, freezes + 1), x))
      /\ obs' = [key |-> k, exchange |-> x, ref |-> Empty]
      /\ at' = [at EXCEPT !["recorder"] = IF Ready(fam, freezes + 1).frozen THEN "compare" ELSE "idle"]
      /\ nested' = (nested \/ m.nested)
  BY <1>1 DEF MergedBy, KeyOf, FamilyAt, Ready, Freezes, Goto
<1>3. Observed(x, a, o, m, k, fam)
  <2> HIDE DEF m, k, fam
  <2>. QED  BY ONLY <1>1, <1>2, m = MergedBy(a, o), k = KeyOf(a, x), fam = FamilyAt(m.merged, k) DEF Observed, m, k, fam
<1>. QED  BY <1>3

LEMMA FamilyAtGood ==
  ASSUME NEW fams, Merged(fams), NEW k
  PROVE  Good(FamilyAt(fams, k)) /\ Settled(FamilyAt(fams, k))
BY NewFacts DEF FamilyAt, Merged, AllGood, AllSettled

LEMMA ReadyGood ==
  ASSUME NEW fam, Good(fam), Settled(fam), NEW v
  PROVE  /\ Good(Ready(fam, v)) /\ Settled(Ready(fam, v)) /\ Ready(fam, v).samples = fam.samples
<1>1. Good(TakeReference(fam, v)) /\ TakeReference(fam, v).samples = fam.samples
  BY ReferenceGood
<1> DEFINE ref == TakeReference(fam, v)
<1> HIDE DEF ref
<1>2. Good(TakeSamples(ref)) /\ Settled(TakeSamples(ref)) /\ TakeSamples(ref).samples = ref.samples
  BY <1>1, SamplesGood DEF ref
<1>. QED  BY <1>1, <1>2 DEF Ready, ref

ThreadStates == {"idle", "compare", "removed", "samples", "persist", "write"}

LEMMA ObserveKeepsInv ==
  ASSUME IInv, NEW x \in Exchange, Observe(x)
  PROVE  IInv'
<1>1. /\ mu = None /\ at["recorder"] = "idle"
      /\ mu' = mu /\ target' = target /\ snap' = snap /\ disk' = disk /\ last' = last
  BY DEF Observe
<1>2. PICK a, o, m, k, fam : Observed(x, a, o, m, k, fam)
  BY ObservedFacts
<1>3. Merged(families)
  BY <1>1 DEF IInv, FamiliesInv, Merged, AllSettled
<1>4. Merged(m.merged)
  <2>1. CASE a.promoted
    <3>1. o \in SetToSeqs(DOMAIN families) /\ m = MergeFamilies(a.guard, o)
      BY <1>2, <2>1 DEF Observed, MergedBy
    <3>2. o \in Seq(DOMAIN families)
      BY <1>3, <3>1, OrderFacts DEF Merged, AllGood
    <3>. QED  BY <1>3, <3>1, <3>2, MergeFamiliesGood
  <2>2. CASE ~a.promoted
    BY <1>2, <1>3, <2>2 DEF Observed, MergedBy
  <2>. QED  BY <2>1, <2>2
<1> DEFINE ready == Ready(fam, freezes + 1)
           new == Fold(ready, x)
           fams == m.merged
<1>5. Good(fam) /\ Settled(fam)
  BY <1>2, <1>4, FamilyAtGood DEF Observed
<1>6. Good(ready) /\ Settled(ready)
  BY <1>5, ReadyGood
<1>7. /\ families' = Put(fams, k, new)
      /\ obs' = [key |-> k, exchange |-> x, ref |-> Empty]
      /\ at' = [at EXCEPT !["recorder"] = IF ready.frozen THEN "compare" ELSE "idle"]
  BY <1>2 DEF Observed
<1> HIDE DEF ready
<1>8. Good(new) /\ Settled(new) /\ new.frozen = ready.frozen
  BY <1>6, FoldGood
<1> HIDE DEF new, fams
<1>9. AllGood(fams) /\ AllSettled(fams)
  BY <1>4 DEF Merged, fams
<1>10. AllGood(families') /\ AllSettled(families') /\ k \in DOMAIN families' /\ families'[k] = new
  <2>1. AllGood(Put(fams, k, new)) /\ DOMAIN Put(fams, k, new) = DOMAIN fams \cup {k}
    BY <1>8, <1>9, PutGood
  <2>2. Put(fams, k, new)[k] = new
    BY DEF Put
  <2>3. AllSettled(Put(fams, k, new))
    BY <1>8, <1>9, PutGood
  <2>4. k \in DOMAIN Put(fams, k, new)
    BY <2>1
  <2>. QED  BY ONLY <1>7, <2>1, <2>2, <2>3, <2>4
<1>11. FamiliesInv'
  BY <1>10 DEF FamiliesInv, AllSettled
<1>12. at \in [Thread -> ThreadStates] /\ "recorder" \in Thread /\ "recorder" \notin Writer
  BY LearnerAssumption DEF IInv, ThreadsInv, Thread, ThreadStates
<1>13. \A w \in Writer : at'[w] = at[w]
  BY <1>7, <1>12 DEF Thread
<1>14. CopiesInv'
  BY <1>1, <1>13 DEF IInv, CopiesInv
<1>15. ThreadsInv'
  <2>1. at' \in [Thread -> ThreadStates]
    BY <1>7, <1>12 DEF ThreadStates
  <2>. QED  BY <1>1, <1>13, <2>1 DEF IInv, ThreadsInv, ThreadStates
<1>16. RecorderInv'
  <2>1. at'["recorder"] = IF ready.frozen THEN "compare" ELSE "idle"
    BY <1>7, <1>12
  <2>2. obs'.key = k /\ obs'.exchange = x /\ DOMAIN obs' = {"key", "exchange", "ref"}
    BY <1>7
  <2>3. DOMAIN last' = {"exchange", "learned", "forgot", "found", "raced", "samples"}
    BY <1>1 DEF IInv, RecorderInv
  <2>. QED  BY <1>8, <1>10, <2>1, <2>2, <2>3 DEF RecorderInv
<1>17. LearnedIsSilent' /\ RemovedWasAlwaysThere'
  BY <1>1 DEF IInv, LearnedIsSilent, RemovedWasAlwaysThere
<1>. QED  BY <1>11, <1>14, <1>15, <1>16, <1>17 DEF IInv

\* What a recorder compares: the reference knows the exchanges it was learned from.
LEMMA CompareKeepsInv ==
  ASSUME IInv, Compare
  PROVE  IInv'
<1> DEFINE fam == families[obs.key]
           x == obs.exchange
           codes == IF x.status \notin DOMAIN fam.refCodes /\ DOMAIN fam.refCodes # {}
                    THEN {Found("status_code_changed", None)} ELSE {}
           found == codes \cup UNION {FieldFindings(fam.ref, f, x.body[f]) : f \in DOMAIN x.body}
<1>1. /\ at["recorder"] = "compare"
      /\ obs' = [obs EXCEPT !.ref = fam.ref]
      /\ last' = [exchange |-> x, learned |-> fam.refLearned, forgot |-> fam.forgot,
                  found |-> found, raced |-> mu # None, samples |-> 0]
      /\ at' = [at EXCEPT !["recorder"] = "removed"]
      /\ families' = families /\ mu' = mu /\ target' = target /\ snap' = snap /\ disk' = disk
  BY DEF Compare, Goto
<1>2. at \in [Thread -> ThreadStates] /\ "recorder" \in Thread /\ "recorder" \notin Writer
  BY LearnerAssumption DEF IInv, ThreadsInv, Thread, ThreadStates
<1>3. at'["recorder"] = "removed" /\ \A w \in Writer : at'[w] = at[w]
  BY <1>1, <1>2 DEF Thread
<1>4. obs.key \in DOMAIN families /\ fam.frozen /\ x \in Exchange
  BY <1>1 DEF IInv, RecorderInv
<1>5. Good(fam)
  BY <1>4 DEF IInv, FamiliesInv, AllGood
<1>6. Knows(fam.ref, fam.refCodes, fam.refLearned, fam.forgot) /\ DOMAIN fam.ref \subseteq Field
  BY <1>5 DEF Good, IsFamily, IsStatistics
<1> HIDE DEF fam
<1>7. ASSUME x \in fam.refLearned, NEW y \in found
      PROVE  y.kind = "enum_value_new" /\ y.field \in fam.forgot
  <2>1. x.status \in DOMAIN fam.refCodes
    BY <1>6, <1>7 DEF Knows
  <2>2. PICK f \in DOMAIN x.body : y \in FieldFindings(fam.ref, f, x.body[f])
    BY <1>7, <2>1
  <2>3. /\ f \in DOMAIN fam.ref
        /\ x.body[f].type \in DOMAIN fam.ref[f].types
        /\ (x.body[f].type = "string" /\ f \notin fam.forgot /\ ~fam.ref[f].high) =>
             fam.ref[f].values # None /\ x.body[f].value \in DOMAIN fam.ref[f].values
    BY <1>6, <1>7 DEF Knows
  <2>4. /\ x.body[f].type = "string" /\ ~fam.ref[f].high
        /\ x.body[f].value \notin DOMAIN fam.ref[f].values
        /\ y = Found("enum_value_new", f)
    BY <2>2, <2>3 DEF FieldFindings
  <2>. QED  BY <2>3, <2>4 DEF Found
<1>8. \A y \in found : y.kind # "field_removed"
  <2> SUFFICES ASSUME NEW y \in found PROVE y.kind # "field_removed"
    OBVIOUS
  <2>1. CASE y \in codes
    BY <2>1 DEF Found
  <2>2. CASE y \notin codes
    <3>1. PICK f \in DOMAIN x.body : y \in FieldFindings(fam.ref, f, x.body[f])
      BY <2>2
    <3>2. \E kind \in {"field_nullable", "type_changed", "enum_value_new"} : y = Found(kind, f)
      BY <3>1 DEF FieldFindings
    <3>. QED  BY <3>2 DEF Found
  <2>. QED  BY <2>1, <2>2
<1> HIDE DEF found, x
<1>9. /\ last'.exchange = x /\ last'.learned = fam.refLearned /\ last'.forgot = fam.forgot
      /\ last'.found = found /\ last'.raced = (mu # None)
  BY <1>1
<1>10. LearnedIsSilent'
  BY <1>7, <1>9 DEF LearnedIsSilent
<1>11. RemovedWasAlwaysThere'
  BY <1>8, <1>9 DEF RemovedWasAlwaysThere
<1>12. FamiliesInv'
  BY <1>1 DEF IInv, FamiliesInv
<1>13. CopiesInv'
  BY <1>1, <1>3 DEF IInv, CopiesInv
<1>14. ThreadsInv'
  <2>1. at' \in [Thread -> ThreadStates]
    BY <1>1, <1>2 DEF ThreadStates
  <2>. QED  BY <1>1, <1>3, <2>1 DEF IInv, ThreadsInv, ThreadStates
<1>15. RecorderInv'
  <2>1. DOMAIN obs = {"key", "exchange", "ref"} /\ obs.key \in DOMAIN families
        /\ families[obs.key].frozen /\ obs.exchange \in Exchange
    BY <1>1 DEF IInv, RecorderInv
  <2>2. DOMAIN obs' = {"key", "exchange", "ref"} /\ obs'.key = obs.key /\ obs'.exchange = obs.exchange
        /\ obs'.ref = fam.ref
    BY <1>1, <2>1
  <2>3. \A y \in last'.learned : DOMAIN y.body \subseteq DOMAIN obs'.ref
    BY <1>6, <1>9, <2>2 DEF Knows
  <2>4. DOMAIN obs'.ref \subseteq Field
    BY <1>6, <2>2
  <2>5. \A y \in last'.found : y.kind # "field_removed"
    BY <1>8, <1>9
  <2>6. ~last'.raced => mu' = None
    BY <1>1, <1>9
  <2>7. last'.learned = families'[obs'.key].refLearned /\ obs'.ref = families'[obs'.key].ref
    BY <1>1, <1>9, <2>2 DEF fam
  <2>8. DOMAIN last' = {"exchange", "learned", "forgot", "found", "raced", "samples"}
    BY <1>1
  <2>9. last'.exchange = obs'.exchange
    BY <1>9, <2>2 DEF x
  <2>10. obs'.key \in DOMAIN families' /\ families'[obs'.key].frozen /\ obs'.exchange \in Exchange
    BY <1>1, <2>1, <2>2
  <2>. QED  BY ONLY <1>3, <2>2, <2>3, <2>4, <2>5, <2>6, <2>7, <2>8, <2>9, <2>10 DEF RecorderInv
<1>. QED  BY <1>10, <1>11, <1>12, <1>13, <1>14, <1>15 DEF IInv

LEMMA RemovedKeepsInv ==
  ASSUME IInv, CompareRemoved
  PROVE  IInv'
<1> DEFINE fam == families[obs.key]
           x == obs.exchange
           added == {f \in DOMAIN x.body : f \notin DOMAIN obs.ref}
           removed == {f \in DOMAIN obs.ref \ DOMAIN x.body :
                         AlwaysThere(fam, f) /\ obs.ref[f].count > 1}
           shape == IF obs.key[2] \in ErrorClass /\ added # {} /\ removed # {}
                    THEN {Found("error_shape_changed", None)}
                    ELSE {Found("field_added", f) : f \in added} \cup
                         {Found("field_removed", f) : f \in removed}
<1>1. /\ at["recorder"] = "removed"
      /\ last' = [last EXCEPT !.found = @ \cup shape, !.samples = fam.frozenSamples]
      /\ obs' = None
      /\ at' = [at EXCEPT !["recorder"] = "idle"]
      /\ families' = families /\ mu' = mu /\ target' = target /\ snap' = snap /\ disk' = disk
  BY DEF CompareRemoved, Goto
<1>2. at \in [Thread -> ThreadStates] /\ "recorder" \in Thread /\ "recorder" \notin Writer
  BY LearnerAssumption DEF IInv, ThreadsInv, Thread, ThreadStates
<1>3. at'["recorder"] = "idle" /\ \A w \in Writer : at'[w] = at[w]
  BY <1>1, <1>2 DEF Thread
<1>4. /\ DOMAIN last = {"exchange", "learned", "forgot", "found", "raced", "samples"}
      /\ obs.key \in DOMAIN families /\ fam.frozen /\ x \in Exchange /\ last.exchange = x
      /\ \A y \in last.learned : DOMAIN y.body \subseteq DOMAIN obs.ref
      /\ DOMAIN obs.ref \subseteq Field
      /\ \A y \in last.found : y.kind # "field_removed"
      /\ ~last.raced => mu = None /\ last.learned = fam.refLearned /\ obs.ref = fam.ref
  BY <1>1 DEF IInv, RecorderInv
<1>5. Good(fam) /\ (mu = None => Settled(fam))
  BY <1>4 DEF IInv, FamiliesInv, AllGood
<1> HIDE DEF fam, x
<1>6. /\ last'.exchange = last.exchange /\ last'.learned = last.learned /\ last'.forgot = last.forgot
      /\ last'.raced = last.raced /\ last'.found = last.found \cup shape
      /\ last'.samples = fam.frozenSamples
      /\ DOMAIN last' = DOMAIN last
  <2> HIDE DEF shape
  <2>. QED  BY <1>1, <1>4
<1>7. ASSUME x \in last.learned, NEW y \in shape PROVE y.kind = "field_removed"
  <2>1. added = {}
    BY <1>4, <1>7
  <2>. QED  BY <1>7, <2>1 DEF Found
<1>8. ASSUME NEW y \in shape, y.kind = "field_removed" PROVE y.field \in removed
  <2> HIDE DEF added, removed
  <2>. QED  BY <1>8 DEF Found
<1> HIDE DEF shape
<1>9. LearnedIsSilent'
  <2> SUFFICES ASSUME last'.exchange \in last'.learned, NEW y \in last'.found
               PROVE  \/ y.kind = "field_removed"
                      \/ y.kind = "enum_value_new" /\ y.field \in last'.forgot
    BY DEF LearnedIsSilent
  <2>1. last.exchange \in last.learned /\ last'.forgot = last.forgot
    BY <1>6
  <2>2. CASE y \in last.found
    BY <2>1, <2>2 DEF IInv, LearnedIsSilent
  <2>3. CASE y \in shape
    BY <1>4, <1>7, <2>1, <2>3
  <2>. QED  BY <1>6, <2>2, <2>3
<1>10. RemovedWasAlwaysThere'
  <2> SUFFICES ASSUME ~last'.raced, NEW y \in last'.found, y.kind = "field_removed"
               PROVE  50 * Cardinality(Lacking(last'.learned, y.field)) <= last'.samples
    BY DEF RemovedWasAlwaysThere, Lacking
  <2>1. y \in shape /\ ~last.raced
    BY <1>4, <1>6
  <2> DEFINE f == y.field
  <2>2. f \in DOMAIN obs.ref /\ AlwaysThere(fam, f) /\ obs.ref = fam.ref /\ mu = None
        /\ last.learned = fam.refLearned
    BY <1>4, <1>8, <2>1
  <2>3. f \in Field /\ f \in DOMAIN fam.ref /\ Times(fam.ref, f) = fam.ref[f].count
        /\ 100 * fam.ref[f].count >= 98 * fam.frozenSamples
    BY <1>4, <2>2 DEF AlwaysThere, Times
  <2> HIDE DEF f
  <2>4. Within(fam.ref, fam.refLearned, fam.frozenSamples)
    BY <1>4, <1>5, <2>2 DEF Settled
  <2>5. Times(fam.ref, f) + Cardinality(Lacking(fam.refLearned, f)) <= fam.frozenSamples
    BY <2>3, <2>4 DEF Within
  <2>6. Times(fam.ref, f) \in Nat /\ fam.frozenSamples \in Nat
    BY <1>5, <2>3 DEF Good, IsFamily, IsStatistics, IsStats
  <2>7. Cardinality(Lacking(fam.refLearned, f)) \in Nat
    BY <1>5, LackingFacts DEF Good, IsFamily
  <2> DEFINE c == Cardinality(Lacking(fam.refLearned, f))
             t == Times(fam.ref, f)
             s == fam.frozenSamples
  <2>8. c \in Nat /\ t \in Nat /\ s \in Nat /\ t + c <= s /\ 100 * t >= 98 * s
    BY <2>3, <2>5, <2>6, <2>7
  <2>9. c = Cardinality(Lacking(last'.learned, y.field)) /\ s = last'.samples
    BY <1>6, <2>2 DEF f
  <2> HIDE DEF c, t, s
  <2>10. 50 * c <= s
    BY ONLY <2>8
  <2>. QED  BY <2>9, <2>10
<1>11. FamiliesInv'
  BY <1>1 DEF IInv, FamiliesInv
<1>12. CopiesInv'
  BY <1>1, <1>3 DEF IInv, CopiesInv
<1>13. ThreadsInv'
  <2>1. at' \in [Thread -> ThreadStates]
    BY <1>1, <1>2 DEF ThreadStates
  <2>. QED  BY <1>1, <1>3, <2>1 DEF IInv, ThreadsInv, ThreadStates
<1>14. RecorderInv'
  BY <1>3, <1>4, <1>6 DEF RecorderInv
<1>. QED  BY <1>9, <1>10, <1>11, <1>12, <1>13, <1>14 DEF IInv

\* An accept takes the lock and the references; a comparison under way is raced.
LEMMA RefreezeReferenceKeepsInv ==
  ASSUME IInv, NEW w, NEW template, RefreezeReference(w, template)
  PROVE  IInv'
<1> DEFINE R == Refrozen(template)
<1>1. /\ w \in Accepter /\ at[w] = "idle" /\ mu = None
      /\ mu' = w /\ target' = [target EXCEPT ![w] = template]
      /\ families' = [k \in DOMAIN families |-> IF k \in R THEN TakeReference(families[k], freezes + 1)
                                                ELSE families[k]]
      /\ at' = [at EXCEPT ![w] = "samples"]
      /\ last' = [last EXCEPT !.raced = @ \/ at["recorder"] = "removed"]
      /\ obs' = obs /\ snap' = snap /\ disk' = disk
  BY DEF RefreezeReference, Goto
<1>2. /\ at \in [Thread -> ThreadStates] /\ "recorder" \in Thread /\ "recorder" \notin Writer
      /\ w \in Writer /\ Writer \subseteq Thread /\ None \notin Writer
  BY <1>1, LearnerAssumption DEF IInv, ThreadsInv, Thread, ThreadStates, Writer
<1>3. /\ at'[w] = "samples" /\ at'["recorder"] = at["recorder"]
      /\ \A v \in Writer \ {w} : at'[v] = at[v]
  BY <1>1, <1>2
<1>4. target'[w] = template
  BY <1>1 DEF IInv, ThreadsInv
<1>5. \A k \in DOMAIN families : Good(families[k]) /\ Settled(families[k])
  BY <1>1 DEF IInv, FamiliesInv, AllGood
<1>6. /\ DOMAIN families' = DOMAIN families /\ IsFiniteSet(DOMAIN families)
      /\ families' = [k \in DOMAIN families' |-> families'[k]]
  BY <1>1 DEF IInv, FamiliesInv, AllGood
<1>7. ASSUME NEW k \in DOMAIN families
      PROVE  /\ Good(families'[k]) /\ (k[1] # template => Settled(families'[k]))
             /\ families[k].frozen => families'[k].frozen
  <2> DEFINE fam == families[k]
  <2>1. CASE k \in R
    <3>1. families'[k] = TakeReference(fam, freezes + 1) /\ k[1] = template
      BY <1>1, <2>1 DEF Refrozen
    <3>2. Good(fam)
      BY <1>5
    <3> HIDE DEF fam
    <3>. QED  BY <3>1, <3>2, ReferenceGood
  <2>2. CASE k \notin R
    BY <1>1, <1>5, <2>2
  <2>. QED  BY <2>1, <2>2
<1>8. FamiliesInv'
  <2>1. AllGood(families')
    BY <1>6, <1>7 DEF AllGood
  <2>2. mu' # None /\ target'[mu'] = template
    BY <1>1, <1>2, <1>4
  <2>3. \A k \in DOMAIN families' : k[1] # template => Settled(families'[k])
    BY <1>6, <1>7
  <2>. QED  BY <2>1, <2>2, <2>3 DEF FamiliesInv
<1>9. CopiesInv'
  <2>1. \A v \in Writer : at'[v] = "write" => at[v] = "write"
    BY <1>3
  <2>. QED  BY <1>1, <2>1 DEF IInv, CopiesInv
<1>10. ThreadsInv'
  <2>1. at' \in [Thread -> ThreadStates]
    BY <1>1, <1>2 DEF ThreadStates
  <2>2. DOMAIN target' = Accepter /\ DOMAIN snap' = Writer
    BY <1>1 DEF IInv, ThreadsInv
  <2>3. \A v \in Writer : at'[v] = "samples" <=> mu' = v
    BY <1>1, <1>2, <1>3 DEF IInv, ThreadsInv
  <2>. QED  BY <1>1, <2>1, <2>2, <2>3 DEF ThreadsInv, ThreadStates
<1>11. /\ last'.exchange = last.exchange /\ last'.learned = last.learned /\ last'.forgot = last.forgot
       /\ last'.found = last.found /\ last'.samples = last.samples /\ DOMAIN last' = DOMAIN last
       /\ ~last'.raced => ~last.raced /\ at["recorder"] # "removed"
  BY <1>1 DEF IInv, RecorderInv
<1>12. RecorderInv'
  <2>1. at["recorder"] \in {"compare", "removed"} =>
          obs'.key \in DOMAIN families' /\ families'[obs'.key].frozen
    BY <1>1, <1>6, <1>7 DEF IInv, RecorderInv
  <2>2. at["recorder"] = "removed" => last'.raced
    BY <1>11
  <2>. QED  BY <1>1, <1>3, <1>11, <2>1, <2>2 DEF IInv, RecorderInv
<1>13. LearnedIsSilent' /\ RemovedWasAlwaysThere'
  BY <1>11 DEF IInv, LearnedIsSilent, RemovedWasAlwaysThere
<1>. QED  BY <1>8, <1>9, <1>10, <1>12, <1>13 DEF IInv

LEMMA RefreezeSamplesKeepsInv ==
  ASSUME IInv, NEW w, RefreezeSamples(w)
  PROVE  IInv'
<1> DEFINE R == Refrozen(target[w])
<1>1. /\ w \in Accepter /\ at[w] = "samples"
      /\ mu' = None /\ target' = target
      /\ families' = [k \in DOMAIN families |-> IF k \in R THEN TakeSamples(families[k]) ELSE families[k]]
      /\ at' = [at EXCEPT ![w] = "persist"]
      /\ last' = last /\ obs' = obs /\ snap' = snap /\ disk' = disk
  BY DEF RefreezeSamples, Goto, ghosts
<1>2. /\ at \in [Thread -> ThreadStates] /\ "recorder" \in Thread /\ "recorder" \notin Writer
      /\ w \in Writer /\ Writer \subseteq Thread /\ None \notin Writer /\ mu = w
  BY <1>1, LearnerAssumption DEF IInv, ThreadsInv, Thread, ThreadStates, Writer
<1>3. /\ at'[w] = "persist" /\ at'["recorder"] = at["recorder"]
      /\ \A v \in Writer \ {w} : at'[v] = at[v]
  BY <1>1, <1>2
<1>4. \A k \in DOMAIN families : Good(families[k]) /\ (k[1] # target[w] => Settled(families[k]))
  BY <1>2 DEF IInv, FamiliesInv, AllGood
<1>5. /\ DOMAIN families' = DOMAIN families /\ IsFiniteSet(DOMAIN families)
      /\ families' = [k \in DOMAIN families' |-> families'[k]]
  BY <1>1 DEF IInv, FamiliesInv, AllGood
<1>6. ASSUME NEW k \in DOMAIN families
      PROVE  /\ Good(families'[k]) /\ Settled(families'[k])
             /\ families[k].frozen => families'[k].frozen
  <2> DEFINE fam == families[k]
  <2>1. CASE k \in R
    <3>1. families'[k] = TakeSamples(fam) /\ Good(fam)
      BY <1>1, <1>4, <2>1
    <3> HIDE DEF fam
    <3>2. Good(TakeSamples(fam)) /\ Settled(TakeSamples(fam)) /\ TakeSamples(fam).frozen = fam.frozen
      BY <3>1, SamplesGood
    <3>. QED  BY <3>1, <3>2 DEF fam
  <2>2. CASE k \notin R /\ k[1] = target[w]
    <3>1. families'[k] = fam /\ ~fam.frozen
      BY <1>1, <2>2 DEF Refrozen
    <3>. QED  BY <1>4, <3>1 DEF Settled
  <2>3. CASE k \notin R /\ k[1] # target[w]
    BY <1>1, <1>4, <2>3
  <2>. QED  BY <2>1, <2>2, <2>3
<1>7. FamiliesInv'
  <2>1. AllGood(families')
    BY <1>5, <1>6 DEF AllGood
  <2>. QED  BY <1>5, <1>6, <2>1 DEF FamiliesInv
<1>8. CopiesInv'
  <2>1. \A v \in Writer : at'[v] = "write" => at[v] = "write"
    BY <1>3
  <2>. QED  BY <1>1, <2>1 DEF IInv, CopiesInv
<1>9. ThreadsInv'
  <2>1. at' \in [Thread -> ThreadStates]
    BY <1>1, <1>2 DEF ThreadStates
  <2>2. \A v \in Writer : at'[v] = "samples" <=> mu' = v
    BY <1>1, <1>2, <1>3 DEF IInv, ThreadsInv
  <2>. QED  BY <1>1, <2>1, <2>2 DEF IInv, ThreadsInv, ThreadStates
<1>10. RecorderInv'
  <2>1. at["recorder"] \in {"compare", "removed"} =>
          obs'.key \in DOMAIN families' /\ families'[obs'.key].frozen
    BY <1>1, <1>5, <1>6 DEF IInv, RecorderInv
  <2>2. at["recorder"] = "removed" => last.raced
    BY <1>2 DEF IInv, RecorderInv, ThreadsInv
  <2>. QED  BY <1>1, <1>3, <2>1, <2>2 DEF IInv, RecorderInv
<1>11. LearnedIsSilent' /\ RemovedWasAlwaysThere'
  BY <1>1 DEF IInv, LearnedIsSilent, RemovedWasAlwaysThere
<1>. QED  BY <1>7, <1>8, <1>9, <1>10, <1>11 DEF IInv

LEMMA CopyKeepsInv ==
  ASSUME IInv, NEW w \in Writer, Copy(w)
  PROVE  IInv'
<1>1. /\ at[w] \in {"persist", "idle"} /\ mu = None
      /\ snap' = [snap EXCEPT ![w] = families]
      /\ at' = [at EXCEPT ![w] = "write"]
      /\ families' = families /\ mu' = mu /\ target' = target /\ obs' = obs /\ disk' = disk /\ last' = last
  BY DEF Copy, Goto, ghosts
<1>2. /\ at \in [Thread -> ThreadStates] /\ "recorder" \in Thread /\ "recorder" \notin Writer
      /\ Writer \subseteq Thread
  BY <1>1, LearnerAssumption DEF IInv, ThreadsInv, Thread, ThreadStates
<1>3. /\ at'[w] = "write" /\ at'["recorder"] = at["recorder"]
      /\ \A v \in Writer \ {w} : at'[v] = at[v]
  BY <1>1, <1>2
<1>4. /\ DOMAIN snap' = Writer /\ snap'[w] = families /\ \A v \in Writer \ {w} : snap'[v] = snap[v]
  BY <1>1 DEF IInv, ThreadsInv
<1>5. AllGood(families) /\ AllSettled(families)
  BY <1>1 DEF IInv, FamiliesInv, AllSettled
<1>6. FamiliesInv'
  BY <1>1 DEF IInv, FamiliesInv
<1>7. CopiesInv'
  BY <1>1, <1>3, <1>4, <1>5 DEF IInv, CopiesInv
<1>8. ThreadsInv'
  <2>1. at' \in [Thread -> ThreadStates]
    BY <1>1, <1>2 DEF ThreadStates
  <2>2. \A v \in Writer : at'[v] = "samples" <=> mu' = v
    BY <1>1, <1>3 DEF IInv, ThreadsInv
  <2>. QED  BY <1>1, <1>4, <2>1, <2>2 DEF IInv, ThreadsInv, ThreadStates
<1>9. RecorderInv'
  BY <1>1, <1>3 DEF IInv, RecorderInv
<1>10. LearnedIsSilent' /\ RemovedWasAlwaysThere'
  BY <1>1 DEF IInv, LearnedIsSilent, RemovedWasAlwaysThere
<1>. QED  BY <1>6, <1>7, <1>8, <1>9, <1>10 DEF IInv

\* The file becomes a sound copy, or stays as it is.
LEMMA AnsweredKeepsInv ==
  ASSUME IInv, NEW w \in Writer, at[w] = "write", NEW file, AllGood(file), AllSettled(file), Answered(w, file)
  PROVE  IInv'
<1>1. /\ disk' = file /\ snap' = [snap EXCEPT ![w] = None]
      /\ target' = IF w \in Accepter THEN [target EXCEPT ![w] = None] ELSE target
      /\ at' = [at EXCEPT ![w] = "idle"]
      /\ families' = families /\ mu' = mu /\ obs' = obs /\ last' = last
  BY DEF Answered, Goto
<1>2. /\ at \in [Thread -> ThreadStates] /\ "recorder" \in Thread /\ "recorder" \notin Writer
      /\ Writer \subseteq Thread
  BY <1>1, LearnerAssumption DEF IInv, ThreadsInv, Thread, ThreadStates
<1>3. /\ at'[w] = "idle" /\ at'["recorder"] = at["recorder"]
      /\ \A v \in Writer \ {w} : at'[v] = at[v]
  BY <1>1, <1>2
<1>4. /\ DOMAIN snap' = Writer /\ \A v \in Writer \ {w} : snap'[v] = snap[v]
      /\ DOMAIN target' = Accepter /\ mu # w /\ (mu # None => target'[mu] = target[mu])
  <2>1. mu # w
    BY DEF IInv, ThreadsInv
  <2>. QED  BY <1>1, <2>1 DEF IInv, ThreadsInv
<1>5. FamiliesInv'
  BY <1>1, <1>4 DEF IInv, FamiliesInv
<1>6. CopiesInv'
  BY <1>1, <1>3, <1>4 DEF IInv, CopiesInv
<1>7. ThreadsInv'
  <2>1. at' \in [Thread -> ThreadStates]
    BY <1>1, <1>2 DEF ThreadStates
  <2>2. \A v \in Writer : at'[v] = "samples" <=> mu' = v
    BY <1>1, <1>3, <1>4 DEF IInv, ThreadsInv
  <2>. QED  BY <1>1, <1>4, <2>1, <2>2 DEF IInv, ThreadsInv, ThreadStates
<1>8. RecorderInv'
  BY <1>1, <1>3 DEF IInv, RecorderInv
<1>9. LearnedIsSilent' /\ RemovedWasAlwaysThere'
  BY <1>1 DEF IInv, LearnedIsSilent, RemovedWasAlwaysThere
<1>. QED  BY <1>5, <1>6, <1>7, <1>8, <1>9 DEF IInv

\* The process starts, from a file that is sound.
LEMMA StartMakesInv ==
  ASSUME AllGood(disk'), AllSettled(disk'), families' = disk', mu' = None,
         at' = [t \in Thread |-> "idle"], target' = [w \in Accepter |-> None],
         snap' = [w \in Writer |-> None], last' = NothingCompared
  PROVE  IInv'
<1>1. FamiliesInv'
  BY DEF FamiliesInv, AllSettled
<1>2. CopiesInv'
  BY DEF CopiesInv, Thread
<1>3. "recorder" \in Thread /\ Writer \subseteq Thread /\ None \notin Writer
  BY LearnerAssumption DEF Thread
<1>4. ThreadsInv'
  BY <1>3 DEF ThreadsInv
<1>5. RecorderInv'
  BY <1>3 DEF RecorderInv, NothingCompared
<1>6. LearnedIsSilent' /\ RemovedWasAlwaysThere'
  BY DEF LearnedIsSilent, RemovedWasAlwaysThere, NothingCompared
<1>. QED  BY <1>1, <1>2, <1>4, <1>5, <1>6 DEF IInv

LEMMA InitMakesInv == Init => IInv
<1> SUFFICES ASSUME Init PROVE IInv
  OBVIOUS
<1>1. AllGood(Empty) /\ AllSettled(Empty)
  BY FS_EmptySet DEF AllGood, AllSettled, Empty
<1>2. FamiliesInv
  BY <1>1 DEF FamiliesInv, Init, AllSettled
<1>3. CopiesInv
  BY <1>1 DEF CopiesInv, Init, Thread
<1>4. "recorder" \in Thread /\ Writer \subseteq Thread /\ None \notin Writer
  BY LearnerAssumption DEF Thread
<1>5. ThreadsInv
  BY <1>4 DEF ThreadsInv, Init
<1>6. RecorderInv
  BY <1>4 DEF RecorderInv, NothingCompared, Init
<1>7. LearnedIsSilent /\ RemovedWasAlwaysThere
  BY DEF LearnedIsSilent, RemovedWasAlwaysThere, NothingCompared, Init
<1>. QED  BY <1>2, <1>3, <1>5, <1>6, <1>7 DEF IInv

LEMMA NextKeepsInv == IInv /\ [Next]_vars => IInv'
<1> SUFFICES ASSUME IInv, [Next]_vars PROVE IInv'
  OBVIOUS
<1>1. ASSUME NEW x \in Exchange, Observe(x) PROVE IInv'
  BY <1>1, ObserveKeepsInv
<1>2. CASE Compare
  BY <1>2, CompareKeepsInv
<1>3. CASE CompareRemoved
  BY <1>3, RemovedKeepsInv
<1>4. ASSUME NEW w \in Writer, NEW template \in reported, RefreezeReference(w, template) PROVE IInv'
  BY <1>4, RefreezeReferenceKeepsInv
<1>5. ASSUME NEW w \in Writer, RefreezeSamples(w) PROVE IInv'
  BY <1>5, RefreezeSamplesKeepsInv
<1>6. ASSUME NEW w \in Writer, Copy(w) PROVE IInv'
  BY <1>6, CopyKeepsInv
<1>7. ASSUME NEW w \in Writer, Write(w) PROVE IInv'
  <2> DEFINE file == snap[w]
  <2>1. at[w] = "write" /\ Answered(w, file) /\ AllGood(file) /\ AllSettled(file)
    BY <1>7 DEF Write, IInv, CopiesInv
  <2> HIDE DEF file
  <2>. QED  BY <2>1, AnsweredKeepsInv
<1>8. ASSUME NEW w \in Writer, WriteFails(w) PROVE IInv'
  <2>1. at[w] = "write" /\ Answered(w, disk) /\ AllGood(disk) /\ AllSettled(disk)
    BY <1>8 DEF WriteFails, IInv, CopiesInv
  <2>. QED  BY <2>1, AnsweredKeepsInv
<1>9. CASE Restart
  BY <1>9, StartMakesInv DEF Restart, IInv, CopiesInv
<1>10. CASE UNCHANGED vars
  BY <1>10 DEF vars, ghosts, IInv, FamiliesInv, CopiesInv, ThreadsInv, RecorderInv, LearnedIsSilent,
               RemovedWasAlwaysThere
<1>. QED  BY <1>1, <1>2, <1>3, <1>4, <1>5, <1>6, <1>7, <1>8, <1>9, <1>10 DEF Next

-----------------------------------------------------------------------------
(* Merging                                                                   *)

PathKeys(fams) == \A k \in DOMAIN fams : k[1] \in Path
Accounted(fams) == AllTallied(fams) /\ PathKeys(fams)

MergeInv ==
  /\ total = Total(families) /\ Accounted(families) /\ Accounted(disk)
  /\ \A w \in Writer : at[w] = "write" => Accounted(snap[w])
  /\ GuardOK(guard) /\ seenPaths \subseteq Path /\ crashes \in Nat
  /\ NoOrphans

LEMMA MistakenNow ==
  /\ \A path : Mistaken(path) <=> MistakenBy(guard, path)
  /\ \A path : Mistaken(path)' <=> MistakenBy(guard', path)
BY DEF Mistaken, MistakenBy

LEMMA ObserveMerges ==
  ASSUME IInv, MergeInv, NEW x \in Exchange, Observe(x)
  PROVE  MergeInv'
<1>1. /\ mu = None /\ at["recorder"] = "idle" /\ total' = total + 1 /\ seenPaths' = seenPaths \cup {x.path}
      /\ snap' = snap /\ disk' = disk /\ crashes' = crashes
  BY DEF Observe
<1>2. PICK a, o, m, k, fam : Observed(x, a, o, m, k, fam)
  BY ObservedFacts
<1>3. /\ a = Apply(guard, x.path) /\ guard' = m.guard /\ k = KeyOf(a, x) /\ fam = FamilyAt(m.merged, k)
      /\ families' = Put(m.merged, k, Fold(Ready(fam, freezes + 1), x))
      /\ ~nested' => ~nested /\ ~m.nested
  BY <1>2 DEF Observed
<1>4. a.promoted => o \in SetToSeqs(DOMAIN families) /\ m = MergeFamilies(a.guard, o)
  BY <1>2 DEF Observed, MergedBy
<1>5. ~a.promoted => m.guard = a.guard /\ m.merged = families
  BY <1>2 DEF Observed, MergedBy
<1>6. x.path \in Path
  BY LearnerAssumption DEF Path, Word
<1>7. Merged(families) /\ Accounted(families) /\ GuardOK(guard) /\ IsFiniteSet(DOMAIN families)
  BY <1>1 DEF IInv, FamiliesInv, Merged, AllSettled, AllGood, MergeInv
<1> DEFINE p == x.path
<1>8. Applied(a, guard, p)
  BY <1>3, <1>6, <1>7, ApplyFacts
<1>9. /\ GuardOK(a.guard) /\ Grown(guard, a.guard) /\ a.template \in Path
      /\ IsTemplate(a.guard.pins, a.template, p) /\ (~a.promoted => a.guard.pins = guard.pins)
  BY <1>8 DEF Applied
<1>10. a.promoted => Remapped(m, a.guard, DOMAIN families)
  <2> SUFFICES ASSUME a.promoted  PROVE Remapped(m, a.guard, DOMAIN families)
    OBVIOUS
  <2> DEFINE g == a.guard
             S == DOMAIN families
  <2>1. \A j \in S : j[1] \in Path
    BY <1>7 DEF Accounted, PathKeys
  <2>2. o \in Seq(S) /\ GuardOK(g) /\ m = MergeFamilies(g, o)
    BY <1>4, <1>7, <1>9, OrderFacts
  <2> HIDE DEF g, S
  <2>. QED  BY <2>1, <2>2, MergeFamiliesRemaps DEF g, S
<1>11. /\ GuardOK(m.guard) /\ Grown(guard, m.guard) /\ PathKeys(m.merged)
       /\ ~m.nested => m.guard.pins = a.guard.pins
  <2>1. CASE a.promoted
    <3>1. Remapped(m, a.guard, DOMAIN families)
      BY <1>10, <2>1
    <3>2. /\ GuardOK(m.guard) /\ Grown(a.guard, m.guard) /\ PathKeys(m.merged)
          /\ ~m.nested => m.guard.pins = a.guard.pins
      BY <3>1 DEF Remapped, PathKeys
    <3>. QED  BY <1>7, <1>9, <3>2, GrownTransitive DEF GuardOK
  <2>2. CASE ~a.promoted
    BY <1>5, <1>7, <1>9, <2>2 DEF Accounted
  <2>. QED  BY <2>1, <2>2
<1>12. Merged(m.merged) /\ AllTallied(m.merged) /\ Total(m.merged) = Total(families)
  <2>1. CASE a.promoted
    <3>1. o \in Seq(DOMAIN families)
      BY <1>4, <1>7, <2>1, OrderFacts
    <3>2. Merged(m.merged)
      BY <1>4, <1>7, <2>1, <3>1, MergeFamiliesGood
    <3>3. AllTallied(m.merged) /\ Total(m.merged) = Total(families)
      BY <1>4, <1>7, <2>1, MergeFamiliesTotal DEF Accounted
    <3>. QED  BY <3>2, <3>3
  <2>2. CASE ~a.promoted
    BY <1>5, <1>7, <2>2 DEF Accounted
  <2>. QED  BY <2>1, <2>2
<1> DEFINE ready == Ready(fam, freezes + 1)
           new == Fold(ready, x)
           fams == m.merged
<1>13. Good(fam) /\ Settled(fam)
  BY <1>3, <1>12, FamilyAtGood
<1>14. Tallied(fam) /\ fam.samples = Had(fams, k)
  BY <1>3, <1>12, FamiliesTallied DEF FamilyAt, AllTallied, Had
<1>15. Good(ready) /\ Settled(ready) /\ Tallied(ready) /\ ready.samples = fam.samples
  <2> DEFINE ref == TakeReference(fam, freezes + 1)
  <2>1. Good(ref) /\ Tallied(ref)
    BY <1>13, <1>14, ReferenceGood, FamiliesTallied
  <2> HIDE DEF ref
  <2>2. Tallied(TakeSamples(ref))
    BY <2>1, FamiliesTallied
  <2>3. Tallied(ready)
    BY <1>14, <2>2 DEF Ready, ref
  <2>. QED  BY <1>13, <2>3, ReadyGood
<1> HIDE DEF ready
<1>16. Good(new) /\ Tallied(new) /\ new.samples = ready.samples + 1
  BY <1>15, FoldGood, FamiliesTallied
<1>17. families' = Put(fams, k, new) /\ AllGood(fams)
  BY <1>3, <1>12 DEF ready, Merged
<1> HIDE DEF new, fams
<1>18. total' = Total(families')
  <2>1. Total(Put(fams, k, new)) + Had(fams, k) = Total(fams) + new.samples /\ Had(fams, k) \in Nat
    BY <1>16, <1>17, PutTotal
  <2>2. AllGood(Put(fams, k, new))
    BY <1>16, <1>17, PutGood
  <2>3. Total(fams) \in Nat /\ Total(Put(fams, k, new)) \in Nat
    BY <1>17, <2>2, TotalFacts
  <2>4. total' = Total(fams) + 1
    BY <1>1, <1>12 DEF MergeInv, fams
  <2>5. new.samples = Had(fams, k) + 1
    BY <1>14, <1>15, <1>16
  <2>6. total' = Total(Put(fams, k, new))
    BY ONLY <2>1, <2>3, <2>4, <2>5
  <2>. QED  BY ONLY <1>17, <2>6
<1>19. k[1] = a.template
  BY <1>3 DEF KeyOf
<1>20. Accounted(families')
  <2>1. AllTallied(Put(fams, k, new))
    BY <1>12, <1>16 DEF AllTallied, Put, fams
  <2>2. PathKeys(Put(fams, k, new))
    BY <1>9, <1>11, <1>19 DEF PathKeys, Put, fams
  <2>. QED  BY <1>17, <2>1, <2>2 DEF Accounted
<1>21. NoOrphans'
  <2> SUFFICES ASSUME ~nested', crashes' = 0, \A path \in seenPaths' : ~Mistaken(path)',
                      NEW j \in DOMAIN families'
               PROVE  \E path \in seenPaths' : TemplateOf(guard', path) = j[1]
    BY DEF NoOrphans
  <2> DEFINE g == guard
             h == guard'
  <2>1. ~nested /\ ~m.nested /\ h.pins = a.guard.pins /\ GuardOK(g) /\ Grown(g, h)
    BY <1>3, <1>7, <1>11
  <2>2. \A path \in seenPaths : path \in Path /\ ~MistakenBy(h, path)
    BY <1>1, MistakenNow DEF MergeInv
  <2> HIDE DEF g, h
  <2>3. \A path \in seenPaths :
          /\ ~MistakenBy(g, path)
          /\ IsTemplate(h.pins, TemplateOf(h, path), TemplateOf(g, path)) /\ TemplateOf(g, path) \in Path
    BY <2>1, <2>2, StillHome
  <2>4. \A i \in DOMAIN families : \E path \in seenPaths : TemplateOf(g, path) = i[1]
    <3>1. \A path \in seenPaths : ~Mistaken(path)
      BY <2>3, MistakenNow DEF g
    <3>. QED  BY <1>1, <2>1, <3>1 DEF MergeInv, NoOrphans, g
  <2>5. CASE j = k
    <3>1. IsTemplate(h.pins, TemplateOf(h, p), p) /\ IsTemplate(h.pins, k[1], p)
      BY <1>6, <1>9, <1>19, <2>1, TemplateFacts
    <3>2. TemplateOf(h, p) = k[1]
      BY <1>6, <3>1, OneTemplate
    <3>. QED  BY <1>1, <2>5, <3>2 DEF h
  <2>6. CASE j \in DOMAIN fams /\ a.promoted
    <3>1. PICK i \in DOMAIN families : IsTemplate(h.pins, j[1], i[1])
      BY <1>10, <2>1, <2>6 DEF Remapped, fams
    <3>2. PICK path \in seenPaths : TemplateOf(g, path) = i[1]
      BY <2>4
    <3>3. IsTemplate(h.pins, TemplateOf(h, path), i[1]) /\ i[1] \in Path
      BY <2>3, <3>2
    <3>4. TemplateOf(h, path) = j[1]
      BY <3>1, <3>3, OneTemplate
    <3>. QED  BY <1>1, <3>4 DEF h
  <2>7. CASE j \in DOMAIN fams /\ ~a.promoted
    <3>1. j \in DOMAIN families /\ h.pins = g.pins
      BY <1>5, <1>9, <2>1, <2>7 DEF fams, g
    <3>2. PICK path \in seenPaths : TemplateOf(g, path) = j[1]
      BY <2>4, <3>1
    <3>3. path \in Path /\ IsTemplate(h.pins, TemplateOf(h, path), path) /\ IsTemplate(h.pins, j[1], path)
      BY <2>2, <3>1, <3>2, TemplateFacts
    <3>4. TemplateOf(h, path) = j[1]
      BY <3>3, OneTemplate
    <3>. QED  BY <1>1, <3>4 DEF h
  <2>8. j = k \/ j \in DOMAIN fams
    BY <1>17 DEF Put
  <2>. QED  BY <2>5, <2>6, <2>7, <2>8
<1>22. \A w \in Writer : at'[w] = at[w]
  BY <1>2, LearnerAssumption DEF Observed, IInv, ThreadsInv, Thread
<1>23. GuardOK(guard') /\ seenPaths' \subseteq Path
  BY <1>1, <1>3, <1>6, <1>11 DEF MergeInv
<1>. QED  BY <1>1, <1>18, <1>20, <1>21, <1>22, <1>23 DEF MergeInv

\* A step that leaves the guard and each family's samples alone.
LEMMA FreezingMerges ==
  ASSUME IInv, IInv', MergeInv, DOMAIN families' = DOMAIN families,
         \A k \in DOMAIN families : Tallied(families'[k]) /\ families'[k].samples = families[k].samples,
         guard' = guard, disk' = disk, total' = total, seenPaths' = seenPaths, nested' = nested,
         crashes' = crashes, snap' = snap, \A w \in Writer : at'[w] = "write" => at[w] = "write"
  PROVE  MergeInv'
<1>1. AllGood(families) /\ AllGood(families')
  BY DEF IInv, FamiliesInv
<1>2. SamplesOf(families') = SamplesOf(families)
  BY DEF SamplesOf
<1>3. total' = Total(families')
  BY <1>1, <1>2, TotalFacts DEF MergeInv
<1>4. Accounted(families')
  BY DEF Accounted, AllTallied, PathKeys, MergeInv
<1>5. \A path : Mistaken(path)' <=> Mistaken(path)
  BY MistakenNow
<1>6. NoOrphans'
  BY <1>5 DEF MergeInv, NoOrphans
<1>. QED  BY <1>3, <1>4, <1>6 DEF MergeInv

\* A step that leaves the guard and the families alone.
LEMMA OthersMerge ==
  ASSUME MergeInv, guard' = guard, families' = families, total' = total, seenPaths' = seenPaths,
         nested' = nested, crashes' = crashes, Accounted(disk'),
         \A w \in Writer : at'[w] = "write" => Accounted(snap'[w])
  PROVE  MergeInv'
<1>1. \A path : Mistaken(path)' <=> Mistaken(path)
  BY MistakenNow
<1>2. NoOrphans'
  BY <1>1 DEF MergeInv, NoOrphans
<1>3. total' = Total(families')
  BY DEF MergeInv
<1>. QED  BY <1>2, <1>3 DEF MergeInv

LEMMA RefreezeMerges ==
  ASSUME IInv, IInv', MergeInv, NEW w,
         (\E template : RefreezeReference(w, template)) \/ RefreezeSamples(w)
  PROVE  MergeInv'
<1>1. /\ guard' = guard /\ disk' = disk /\ total' = total /\ seenPaths' = seenPaths
      /\ nested' = nested /\ crashes' = crashes /\ snap' = snap
      /\ w \in Accepter /\ at' \in {[at EXCEPT ![w] = "samples"], [at EXCEPT ![w] = "persist"]}
  BY DEF RefreezeReference, RefreezeSamples, Goto, ghosts
<1>2. \A v \in Writer : at'[v] = "write" => at[v] = "write"
  BY <1>1, LearnerAssumption DEF IInv, ThreadsInv, Thread, Writer
<1>3. DOMAIN families' = DOMAIN families
  BY DEF RefreezeReference, RefreezeSamples
<1>4. ASSUME NEW k \in DOMAIN families
      PROVE  Tallied(families'[k]) /\ families'[k].samples = families[k].samples
  <2> DEFINE fam == families[k]
  <2>1. Good(fam) /\ Tallied(fam)
    BY DEF IInv, FamiliesInv, AllGood, MergeInv, Accounted, AllTallied
  <2>2. families'[k] \in {fam, TakeReference(fam, freezes + 1), TakeSamples(fam)}
    BY DEF RefreezeReference, RefreezeSamples
  <2> HIDE DEF fam
  <2>3. /\ Tallied(TakeReference(fam, freezes + 1)) /\ TakeReference(fam, freezes + 1).samples = fam.samples
        /\ Tallied(TakeSamples(fam)) /\ TakeSamples(fam).samples = fam.samples
    BY <2>1, FamiliesTallied
  <2>4. Tallied(families'[k]) /\ families'[k].samples = fam.samples
    BY ONLY <2>1, <2>2, <2>3
  <2>. QED  BY <2>4 DEF fam
<1>. QED  BY <1>1, <1>2, <1>3, <1>4, FreezingMerges

LEMMA NewGuardOK == GuardOK(NewGuard)
<1>1. NewGuard.seen = <<>> /\ NewGuard.pins = <<>> /\ DOMAIN NewGuard = {"seen", "pins"} /\ DOMAIN <<>> = {}
  BY DEF NewGuard
<1> HIDE DEF NewGuard
<1>2. IsGuard(NewGuard)
  BY <1>1 DEF IsGuard
<1>3. \A place, s : Count(NewGuard, place, s) = 0 /\ Worth(NewGuard, place) = 0
  BY <1>1 DEF Count, Worth, Many
<1>4. Backed(NewGuard)
  BY <1>3 DEF Backed
<1>. QED  BY <1>2, <1>4 DEF GuardOK

LEMMA InitMerges == Init => MergeInv
<1> SUFFICES ASSUME Init PROVE MergeInv
  OBVIOUS
<1>1. families = Empty /\ disk = Empty /\ DOMAIN Empty = {}
  BY DEF Init, Empty
<1>2. Accounted(Empty)
  BY <1>1 DEF Accounted, AllTallied, PathKeys
<1>3. Total(Empty) = 0
  <2>1. AllGood(Empty)
    BY <1>1, InitMakesInv DEF IInv, FamiliesInv
  <2>2. IsCounts(SamplesOf(Empty)) /\ Total(Empty) = SumFunction(SamplesOf(Empty)) /\ DOMAIN SamplesOf(Empty) = {}
    BY <1>1, <2>1, TotalFacts DEF SamplesOf
  <2>. QED  BY <2>2, SumFacts
<1>4. NoOrphans
  BY <1>1 DEF NoOrphans
<1>5. \A w \in Writer : at[w] # "write"
  BY DEF Init, Thread
<1>. QED  BY <1>1, <1>2, <1>3, <1>4, <1>5, NewGuardOK DEF Init, MergeInv

LEMMA NextMerges == IInv /\ IInv' /\ MergeInv /\ [Next]_vars => MergeInv'
<1> SUFFICES ASSUME IInv, IInv', MergeInv, [Next]_vars PROVE MergeInv'
  OBVIOUS
<1>0. "recorder" \notin Writer /\ at \in [Thread -> ThreadStates] /\ Writer \subseteq Thread /\ DOMAIN snap = Writer
  BY LearnerAssumption DEF IInv, ThreadsInv, Thread, ThreadStates
<1>1. ASSUME NEW x \in Exchange, Observe(x) PROVE MergeInv'
  BY <1>1, ObserveMerges
<1>2. CASE Compare \/ CompareRemoved
  <2>1. /\ guard' = guard /\ families' = families /\ total' = total /\ seenPaths' = seenPaths
        /\ nested' = nested /\ crashes' = crashes /\ disk' = disk /\ snap' = snap
        /\ at' \in {[at EXCEPT !["recorder"] = "removed"], [at EXCEPT !["recorder"] = "idle"]}
    BY <1>2 DEF Compare, CompareRemoved, Goto
  <2>2. \A w \in Writer : at'[w] = at[w]
    BY <1>0, <2>1
  <2>3. Accounted(disk') /\ \A w \in Writer : at'[w] = "write" => Accounted(snap'[w])
    BY <2>1, <2>2 DEF MergeInv
  <2>. QED  BY <2>1, <2>3, OthersMerge
<1>3. ASSUME NEW w \in Writer, NEW template \in reported, RefreezeReference(w, template) PROVE MergeInv'
  BY <1>3, RefreezeMerges
<1>4. ASSUME NEW w \in Writer, RefreezeSamples(w) PROVE MergeInv'
  BY <1>4, RefreezeMerges
<1>5. ASSUME NEW w \in Writer, Copy(w) PROVE MergeInv'
  <2>1. /\ guard' = guard /\ families' = families /\ total' = total /\ seenPaths' = seenPaths
        /\ nested' = nested /\ crashes' = crashes /\ disk' = disk
        /\ snap' = [snap EXCEPT ![w] = families] /\ at' = [at EXCEPT ![w] = "write"]
    BY <1>5 DEF Copy, Goto, ghosts
  <2>2. snap'[w] = families /\ \A v \in Writer \ {w} : snap'[v] = snap[v] /\ at'[v] = at[v]
    BY <1>0, <2>1
  <2>3. Accounted(disk') /\ \A v \in Writer : at'[v] = "write" => Accounted(snap'[v])
    BY <2>1, <2>2 DEF MergeInv
  <2>. QED  BY <2>1, <2>3, OthersMerge
<1>6. ASSUME NEW w \in Writer, Write(w) \/ WriteFails(w) PROVE MergeInv'
  <2>1. at[w] = "write" /\ (Answered(w, snap[w]) \/ Answered(w, disk))
    BY <1>6 DEF Write, WriteFails
  <2>2. /\ guard' = guard /\ families' = families /\ total' = total /\ seenPaths' = seenPaths
        /\ nested' = nested /\ crashes' = crashes /\ disk' \in {snap[w], disk}
        /\ snap' = [snap EXCEPT ![w] = None] /\ at' = [at EXCEPT ![w] = "idle"]
    BY <2>1 DEF Answered, Goto
  <2>3. at'[w] = "idle" /\ \A v \in Writer \ {w} : snap'[v] = snap[v] /\ at'[v] = at[v]
    BY <1>0, <2>2
  <2>4. Accounted(disk') /\ \A v \in Writer : at'[v] = "write" => Accounted(snap'[v])
    BY <2>1, <2>2, <2>3 DEF MergeInv
  <2>. QED  BY <2>2, <2>4, OthersMerge
<1>7. CASE Restart
  <2>1. /\ guard' = NewGuard /\ families' = disk /\ disk' = disk /\ seenPaths' = {} /\ crashes' = crashes + 1
        /\ at' = [t \in Thread |-> "idle"] /\ total' = Total(disk)
    BY <1>7 DEF Restart, Total
  <2>2. crashes \in Nat /\ Accounted(disk)
    BY DEF MergeInv
  <2>3. crashes' \in Nat /\ crashes' # 0
    BY <2>1, <2>2
  <2>4. NoOrphans'
    BY <2>3 DEF NoOrphans
  <2>5. \A w \in Writer : at'[w] # "write"
    BY <1>0, <2>1
  <2>. QED  BY <2>1, <2>2, <2>3, <2>4, <2>5, NewGuardOK DEF MergeInv
<1>8. CASE UNCHANGED vars
  BY <1>8, OthersMerge DEF vars, ghosts, MergeInv
<1>. QED  BY <1>1, <1>2, <1>3, <1>4, <1>5, <1>6, <1>7, <1>8 DEF Next

\* A finding is a difference to what was learned: the traffic a reference was
\* learned from gives none when it comes again, and a field is reported as
\* removed only if at most one in fifty of the samples lacked it.
THEOREM DriftIsReal == Spec => []FindingsAreDrift
<1>1. IInv => FindingsAreDrift
  BY DEF IInv, FindingsAreDrift
<1>. QED  BY <1>1, InitMakesInv, NextKeepsInv, PTL DEF Spec

\* Promotions and merges neither lose a sample nor double one: the families' samples
\* are the exchanges observed since the start and those loaded then, the status codes
\* add up to them, and no field is counted more often than its family.  Nor do they
\* put one out of reach: each family is the one some path observed goes to by now,
\* unless a merge promoted a place, the process restarted or an id was mistaken.
THEOREM MergesAreHarmless == Spec => []MergesLoseNothing
<1>1. IInv /\ MergeInv => MergesLoseNothing
  <2> SUFFICES ASSUME IInv, MergeInv PROVE SamplesAddUp
    BY DEF MergesLoseNothing, MergeInv
  <2>1. FoldFunction(LAMBDA fam, n : fam.samples + n, 0, families) = total
    BY DEF MergeInv, Total
  <2>2. ASSUME NEW k \in DOMAIN families
        PROVE  /\ SumFunction(families[k].codes) = families[k].samples
               /\ \A f \in DOMAIN families[k].fields : families[k].fields[f].count <= families[k].samples
    <3> DEFINE fam == families[k]
    <3>1. Good(fam) /\ Tallied(fam)
      BY DEF IInv, FamiliesInv, AllGood, MergeInv, Accounted, AllTallied
    <3> HIDE DEF fam
    <3>2. ASSUME NEW f \in DOMAIN fam.fields  PROVE fam.fields[f].count <= fam.samples
      <4>1. f \in Field /\ fam.fields[f].count \in Nat /\ fam.samples \in Nat /\ IsFiniteSet(fam.learned)
        BY <3>1 DEF Good, IsFamily, IsStatistics, IsStats
      <4>2. Times(fam.fields, f) + Cardinality(Lacking(fam.learned, f)) <= fam.samples
        BY <3>1, <4>1 DEF Good, Within
      <4>3. Cardinality(Lacking(fam.learned, f)) \in Nat
        BY <4>1, LackingFacts
      <4>4. Times(fam.fields, f) = fam.fields[f].count
        BY DEF Times
      <4>. QED  BY ONLY <4>1, <4>2, <4>3, <4>4
    <3>. QED  BY <3>1, <3>2 DEF Tallied, fam
  <2>. QED  BY <2>1, <2>2 DEF SamplesAddUp
<1>. QED  BY <1>1, InitMakesInv, NextKeepsInv, InitMerges, NextMerges, PTL DEF Spec
=============================================================================
