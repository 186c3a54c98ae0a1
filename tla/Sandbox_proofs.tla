--------------------------- MODULE Sandbox_proofs ---------------------------
(* Theorems about Sandbox, for any number of clients and control-plane calls. *)
EXTENDS Sandbox, FiniteSetTheorems, TLAPS

Creating == {"seq", "quota", "insert", "record"}
Step == Creating \cup {"idle", "totals", "update", "reread", "keep", "load", "take",
                       "reseed", "forget"}

\* A create with an Idempotency-Key holds idemMu until it answers, and while
\* it does nobody has recorded its key.
KeyIsGuarded ==
  \A c \in Client :
    pc[c] \in Creating /\ idemKey[c] # None => idemMu = c /\ idemKey[c] \notin idem

IdemInv ==
  /\ pc \in [Thread -> Step]
  /\ idemKey \in [Client -> IdemKey \cup {None}]
  /\ idem \subseteq IdemKey
  /\ KeyIsGuarded

LEMMA IdemInit == Init => IdemInv
BY DEF Init, IdemInv, KeyIsGuarded, Thread, Step, Creating

\* Only the client itself moves its pc within a create or changes its key.
LEMMA IdemStep ==
  ASSUME IdemInv, [Next]_vars PROVE IdemInv'
<1> USE SandboxAssumption DEF Thread
<1>1. ASSUME NEW c \in Client, NEW k \in IdemKey \cup {None}, BeginCreate(c, k)
      PROVE IdemInv'
  BY <1>1 DEF BeginCreate, Goto, IdemInv, KeyIsGuarded, Step, Creating
<1>2. ASSUME NEW c \in Client, AllocateSeq(c) PROVE IdemInv'
  BY <1>2 DEF AllocateSeq, Goto, IdemInv, KeyIsGuarded, Step, Creating
<1>3. ASSUME NEW c \in Client, CheckQuota(c) PROVE IdemInv'
  <2>1. CASE Answer(c)
    BY <1>3, <2>1 DEF CheckQuota, Answer, Goto, IdemInv, KeyIsGuarded, Step, Creating
  <2>2. CASE Goto(c, "insert") /\ UNCHANGED <<idemMu, key, idemKey>>
    BY <1>3, <2>2 DEF CheckQuota, Goto, IdemInv, KeyIsGuarded, Step, Creating
  <2> QED BY <1>3, <2>1, <2>2 DEF CheckQuota
<1>4. ASSUME NEW c \in Client, Insert(c) PROVE IdemInv'
  <2>1. CASE Answer(c)
    BY <1>4, <2>1 DEF Insert, Answer, Goto, IdemInv, KeyIsGuarded, Step, Creating
  <2>2. CASE Goto(c, "record") /\ UNCHANGED <<idemMu, key, idemKey>>
    BY <1>4, <2>2 DEF Insert, Goto, IdemInv, KeyIsGuarded, Step, Creating
  <2> QED BY <1>4, <2>1, <2>2 DEF Insert
<1>5. ASSUME NEW c \in Client, Record(c) PROVE IdemInv'
  <2>1. idem' \subseteq idem \cup {idemKey[c]} /\ (idemKey[c] = None => idem' = idem)
    BY <1>5 DEF Record
  <2>2. /\ pc[c] = "record"
        /\ pc' = [pc EXCEPT ![c] = "idle"]
        /\ idemMu' = IF idemMu = c THEN None ELSE idemMu
        /\ idemKey' = [idemKey EXCEPT ![c] = None]
    BY <1>5 DEF Record, Answer, Goto
  <2> QED BY <2>1, <2>2 DEF IdemInv, KeyIsGuarded, Step, Creating
<1>6. ASSUME NEW c \in Client, NEW k \in Key, BeginModify(c, k) \/ Remove(c, k)
      PROVE IdemInv'
  BY <1>6 DEF BeginModify, Remove, locals, Goto, IdemInv, KeyIsGuarded, Step, Creating
<1>7. ASSUME NEW c \in Client, CheckModifyQuota(c) \/ Update(c) \/ Conflict(c) \/ Reread(c)
      PROVE IdemInv'
  <2>1. pc[c] \in {"totals", "update", "reread"} /\ UNCHANGED <<idem, idemMu, idemKey>>
    BY <1>7 DEF CheckModifyQuota, Update, Conflict, Reread
  <2>2. PICK step \in {"idle", "totals", "update", "reread"} : pc' = [pc EXCEPT ![c] = step]
    BY <1>7 DEF CheckModifyQuota, Update, Conflict, Reread, EndModify, Goto
  <2> QED BY <2>1, <2>2 DEF IdemInv, KeyIsGuarded, Step, Creating
<1>8. ASSUME NEW a \in Admin, NEW k \in SeedKey, Seed(a, k) PROVE IdemInv'
  BY <1>8 DEF Seed, locals, IdemInv, KeyIsGuarded
<1>9. ASSUME NEW a \in Admin,
             SeedNumbered(a) \/ Serialize(a) \/ RestoreClear(a) \/ ResetClear(a) \/ Control(a)
      PROVE IdemInv'
  <2>1. idem' \subseteq idem /\ UNCHANGED <<idemMu, idemKey>>
    BY <1>9 DEF SeedNumbered, Serialize, RestoreClear, ResetClear, Control, KeepSnapshot,
                RestoreLoad, ResetTake, Reseed, ResetForget, locals
  <2>2. pc' = pc \/ \E step \in Step \ Creating : pc' = [pc EXCEPT ![a] = step]
    <3>1. CASE SeedNumbered(a)
      BY <3>1 DEF SeedNumbered
    <3>2. CASE Serialize(a) \/ RestoreClear(a) \/ ResetClear(a) \/ KeepSnapshot(a)
                 \/ RestoreLoad(a) \/ ResetForget(a)
      BY <3>2 DEF Serialize, RestoreClear, ResetClear, KeepSnapshot, RestoreLoad,
                  ResetForget, Goto, Step, Creating
    <3>3. CASE ResetTake(a)
      BY <3>3 DEF ResetTake, Goto, Step, Creating
    <3>4. CASE Reseed(a)
      BY <3>4 DEF Reseed, Goto, Step, Creating
    <3> QED BY <1>9, <3>1, <3>2, <3>3, <3>4 DEF Control
  <2> QED BY <2>1, <2>2 DEF IdemInv, KeyIsGuarded, Step, Creating
<1>10. CASE UNCHANGED vars
  BY <1>10 DEF vars, locals, IdemInv, KeyIsGuarded
<1> QED BY <1>1, <1>2, <1>3, <1>4, <1>5, <1>6, <1>7, <1>8, <1>9, <1>10
        DEF Next, Serve

\* No create inserts under an Idempotency-Key that another create has recorded
\* since it looked: doCreate holds idemMu from idempotentReplayLocked to
\* recordIdempotencyLocked.
THEOREM KeysCreateOnce == Spec => KeyCreatesOnce
<1>1. ASSUME IdemInv, [Next]_vars
      PROVE [\A c \in Client : pc[c] = "insert" /\ pc'[c] = "record" => idemKey[c] \notin idem]_vars
  <2> SUFFICES ASSUME NEW c \in Client, pc[c] = "insert" /\ pc'[c] = "record",
                      idemKey[c] \in idem
               PROVE FALSE
    OBVIOUS
  <2> QED BY <1>1, SandboxAssumption DEF IdemInv, KeyIsGuarded, Creating
<1> QED BY <1>1, IdemInit, IdemStep, PTL DEF Spec, KeyCreatesOnce

-----------------------------------------------------------------------------
(* Numbers *)

Numbered == {"quota", "insert"}

\* The sandbox still knows a resource by this key, or may bring it back.
Kept(k) ==
  \/ k \in Live \/ k \in seedItems
  \/ \E a \in Admin : k \in todo[a]
  \/ snapshot # None /\ k \in DOMAIN snapshot
  \/ \E a \in Admin : recs[a] # None /\ k \in DOMAIN recs[a]

Domains ==
  /\ DOMAIN rows = Key /\ rows = [k \in Key |-> rows[k]]
  /\ pc \in [Thread -> Step]
  /\ key = [c \in Client |-> key[c]]
  /\ todo = [a \in Admin |-> todo[a]] /\ recs = [a \in Admin |-> recs[a]]
  /\ \A a \in Admin : pc[a] = "load" => recs[a] # None

\* Whoever has a number has one below nextSeq, and a create that has not
\* inserted yet has it alone.  A seed item can choose a number ahead of its
\* turn: those are in SeedKey.
NumberInv ==
  /\ Domains
  /\ nextSeq \in Nat
  /\ \A k : Kept(k) => k \in SeedKey \/ (k \in Nat /\ k < nextSeq)
  /\ \A c \in Client : pc[c] \in Numbered =>
       key[c] \in SeedKey \/ (key[c] \in Nat /\ key[c] < nextSeq
                            /\ \A k : Kept(k) => k # key[c])
  /\ \A c, d \in Client :
       c # d /\ pc[c] \in Numbered /\ pc[d] \in Numbered /\ key[c] = key[d] =>
         key[c] \in SeedKey

LEMMA NumberInit == Init => NumberInv
<1> SUFFICES ASSUME Init PROVE NumberInv
  OBVIOUS
<1>1. Domains
  BY DEF Init, Domains, Thread, Step
<1>2. \A k : ~ Kept(k)
  BY DEF Init, Kept, Live
<1> QED BY <1>1, <1>2 DEF Init, NumberInv, Numbered, Thread

\* The steps that hand no number out and put none in.
LEMMA NumberQuiet ==
  ASSUME NumberInv, Domains', nextSeq' = nextSeq,
         \A k : Kept(k)' => Kept(k) \/ k \in SeedKey,
         \A c \in Client : pc'[c] \in Numbered => pc[c] \in Numbered /\ key'[c] = key[c]
  PROVE NumberInv'
BY DEF NumberInv

LEMMA NumberCreate ==
  ASSUME NumberInv, NEW c \in Client,
         (\E k \in IdemKey \cup {None} : BeginCreate(c, k)) \/ AllocateSeq(c)
           \/ CheckQuota(c) \/ Insert(c) \/ Record(c)
  PROVE NumberInv'
<1> USE DEF Thread
<1>1. ASSUME NEW k \in IdemKey \cup {None}, BeginCreate(c, k) PROVE NumberInv'
  <2>1. Domains' /\ \A x : Kept(x)' = Kept(x)
    BY <1>1 DEF BeginCreate, Goto, NumberInv, Domains, Kept, Live, Step, Creating,
                seeding, adminLocals
  <2>2. \A d \in Client : pc'[d] \in Numbered => pc[d] \in Numbered /\ key'[d] = key[d]
    BY <1>1 DEF BeginCreate, Goto, NumberInv, Domains, Numbered
  <2> QED BY <1>1, <2>1, <2>2, NumberQuiet DEF BeginCreate
<1>2. ASSUME AllocateSeq(c) PROVE NumberInv'
  <2>1. Domains' /\ \A x : Kept(x)' = Kept(x)
    BY <1>2 DEF AllocateSeq, Goto, NumberInv, Domains, Kept, Live, Step, Creating,
                seeding, adminLocals
  <2>2. /\ nextSeq' = nextSeq + 1 /\ key'[c] = nextSeq
        /\ \A d \in Client \ {c} : pc'[d] = pc[d] /\ key'[d] = key[d]
    BY <1>2 DEF AllocateSeq, Goto, NumberInv, Domains
  <2>3. \A x : Kept(x) => x \in SeedKey \/ (x \in Nat /\ x < nextSeq)
    BY DEF NumberInv
  <2>4. ~ Kept(nextSeq) \/ nextSeq \in SeedKey
    BY <2>3 DEF NumberInv
  <2>5. nextSeq' \in Nat /\ \A x : Kept(x)' => x \in SeedKey \/ (x \in Nat /\ x < nextSeq')
    BY <2>1, <2>2, <2>3 DEF NumberInv
  <2>6. \A d \in Client : pc'[d] \in Numbered =>
          key'[d] \in SeedKey \/ (key'[d] \in Nat /\ key'[d] < nextSeq'
                                /\ \A x : Kept(x) => x # key'[d])
    BY <2>2, <2>4 DEF NumberInv
  <2>7. \A d, e \in Client :
          d # e /\ pc'[d] \in Numbered /\ pc'[e] \in Numbered /\ key'[d] = key'[e] =>
            key'[d] \in SeedKey
    BY <2>2 DEF NumberInv
  <2> QED BY <2>1, <2>5, <2>6, <2>7 DEF NumberInv
<1>3. ASSUME CheckQuota(c) \/ Record(c) PROVE NumberInv'
  <2>1. UNCHANGED <<rows, nextSeq, seeding, adminLocals>>
    BY <1>3 DEF CheckQuota, Record
  <2>2. CASE Answer(c)
    <3>1. Domains' /\ \A x : Kept(x)' = Kept(x)
      BY <2>1, <2>2 DEF Answer, Goto, NumberInv, Domains, Kept, Live, Step, Creating,
                        seeding, adminLocals
    <3>2. \A d \in Client : pc'[d] \in Numbered => pc[d] \in Numbered /\ key'[d] = key[d]
      BY <2>2 DEF Answer, Goto, NumberInv, Domains, Numbered
    <3> QED BY <2>1, <3>1, <3>2, NumberQuiet
  <2>3. CASE pc[c] = "quota" /\ Goto(c, "insert") /\ UNCHANGED key
    <3>1. Domains' /\ \A x : Kept(x)' = Kept(x)
      BY <2>1, <2>3 DEF Goto, NumberInv, Domains, Kept, Live, Step, Creating,
                        seeding, adminLocals
    <3>2. \A d \in Client : pc'[d] \in Numbered => pc[d] \in Numbered /\ key'[d] = key[d]
      BY <2>3 DEF Goto, NumberInv, Domains, Numbered
    <3> QED BY <2>1, <3>1, <3>2, NumberQuiet
  <2> QED BY <1>3, <2>2, <2>3 DEF CheckQuota, Record
<1>4. ASSUME Insert(c) PROVE NumberInv'
  <2>1. CASE Answer(c) /\ UNCHANGED rows
    <3>1. Domains' /\ \A x : Kept(x)' = Kept(x)
      BY <1>4, <2>1 DEF Insert, Answer, Goto, NumberInv, Domains, Kept, Live, Step, Creating,
                        seeding, adminLocals
    <3>2. \A d \in Client : pc'[d] \in Numbered => pc[d] \in Numbered /\ key'[d] = key[d]
      BY <1>4, <2>1 DEF Insert, Answer, Goto, NumberInv, Domains, Numbered
    <3> QED BY <1>4, <3>1, <3>2, NumberQuiet DEF Insert
  <2>2. CASE /\ rows' = [rows EXCEPT ![key[c]] = Fresh]
             /\ Goto(c, "record") /\ UNCHANGED <<idemMu, key, idemKey>>
    <3>1. Domains'
      BY <1>4, <2>2 DEF Insert, Goto, NumberInv, Domains, Step, Creating, adminLocals
    <3>2. \A x : Kept(x)' => Kept(x) \/ x = key[c]
      BY <1>4, <2>2 DEF Insert, NumberInv, Domains, Kept, Live, seeding, adminLocals
    <3>3. /\ nextSeq' = nextSeq /\ key' = key /\ pc[c] \in Numbered /\ pc'[c] = "record"
          /\ \A d \in Client \ {c} : pc'[d] = pc[d]
      BY <1>4, <2>2 DEF Insert, Goto, NumberInv, Domains, Numbered
    <3>4. \A x : Kept(x)' => x \in SeedKey \/ (x \in Nat /\ x < nextSeq)
      BY <3>2, <3>3 DEF NumberInv
    <3>5. \A d \in Client : pc'[d] \in Numbered =>
            d # c /\ (key[d] \in SeedKey
                     \/ (key[d] \in Nat /\ key[d] < nextSeq /\ key[d] # key[c]
                         /\ \A x : Kept(x) => x # key[d]))
      BY <3>3 DEF NumberInv, Numbered
    <3>6. \A d \in Client : pc'[d] \in Numbered =>
            key[d] \in SeedKey \/ (key[d] \in Nat /\ key[d] < nextSeq
                                 /\ \A x : Kept(x)' => x # key[d])
      BY <3>2, <3>5
    <3>7. \A d, e \in Client :
            d # e /\ pc'[d] \in Numbered /\ pc'[e] \in Numbered /\ key[d] = key[e] =>
              key[d] \in SeedKey
      BY <3>3, <3>5 DEF NumberInv
    <3>8. \A d \in Client : key'[d] = key[d]
      BY <3>3
    <3> QED BY <3>1, <3>3, <3>4, <3>6, <3>7, <3>8 DEF NumberInv
  <2> QED BY <1>4, <2>1, <2>2 DEF Insert
<1> QED BY <1>1, <1>2, <1>3, <1>4

LEMMA NumberModify ==
  ASSUME NumberInv, NEW c \in Client,
         (\E k \in Key : BeginModify(c, k) \/ Remove(c, k))
           \/ CheckModifyQuota(c) \/ Update(c) \/ Conflict(c) \/ Reread(c)
  PROVE NumberInv'
<1> USE DEF Thread
<1>1. UNCHANGED <<nextSeq, seeding, adminLocals>>
  BY DEF BeginModify, Remove, CheckModifyQuota, Update, Conflict, Reread
<1>2. /\ DOMAIN rows' = Key /\ rows' = [k \in Key |-> rows'[k]]
      /\ \A k \in Key : rows[k] = None => rows'[k] = None
  BY DEF BeginModify, Remove, CheckModifyQuota, Update, Conflict, Reread, NumberInv, Domains, Live
<1>3. \A x : Kept(x)' => Kept(x)
  BY <1>1, <1>2 DEF Kept, Live, seeding, adminLocals
<1>4. CASE UNCHANGED <<pc, key>>
  BY <1>1, <1>2, <1>3, <1>4, NumberQuiet DEF NumberInv, Domains, adminLocals
<1>5. ASSUME NEW step \in {"idle", "totals", "update", "reread"}, NEW v,
             pc' = [pc EXCEPT ![c] = step], key' = key \/ key' = [key EXCEPT ![c] = v]
      PROVE NumberInv'
  <2>1. Domains'
    BY <1>1, <1>2, <1>5 DEF NumberInv, Domains, Step, Creating, adminLocals
  <2>2. \A d \in Client : pc'[d] \in Numbered => pc[d] \in Numbered /\ key'[d] = key[d]
    BY <1>5 DEF NumberInv, Domains, Numbered
  <2> QED BY <1>1, <1>3, <2>1, <2>2, NumberQuiet
<1>6. CASE \E k \in Key : BeginModify(c, k)
  BY <1>5, <1>6 DEF BeginModify, Goto
<1>7. CASE \E k \in Key : Remove(c, k)
  BY <1>4, <1>7 DEF Remove, locals
<1>8. CASE CheckModifyQuota(c) \/ Update(c) \/ Conflict(c) \/ Reread(c)
  BY <1>5, <1>8 DEF CheckModifyQuota, Update, Conflict, Reread, EndModify, Goto
<1> QED BY <1>6, <1>7, <1>8

LEMMA NumberControl ==
  ASSUME NumberInv, NEW a \in Admin,
         (\E k \in SeedKey : Seed(a, k)) \/ Serialize(a) \/ RestoreClear(a) \/ ResetClear(a)
           \/ Control(a)
  PROVE NumberInv'
<1> USE SandboxAssumption DEF Thread
<1>1. UNCHANGED <<nextSeq, key>>
  BY DEF Seed, Serialize, RestoreClear, ResetClear, Clear, Control, KeepSnapshot, RestoreLoad,
         ResetTake, Reseed, ResetForget, locals
<1>2. pc' = pc \/ \E step \in Step \ Creating : pc' = [pc EXCEPT ![a] = step]
  BY DEF Seed, Serialize, RestoreClear, ResetClear, Control, KeepSnapshot, RestoreLoad,
         ResetTake, Reseed, ResetForget, Goto, Step, Creating
<1>3. \A d \in Client : pc'[d] \in Numbered => pc[d] \in Numbered /\ key'[d] = key[d]
  BY <1>1, <1>2 DEF NumberInv, Domains, Step, Creating, Numbered
<1>load. RestoreLoad(a) =>
           /\ pc[a] = "load"
           /\ recs' = [recs EXCEPT ![a] = None]
           /\ pc' = [pc EXCEPT ![a] = "idle"]
           /\ UNCHANGED <<seedItems, snapshot, todo>>
           /\ \/ UNCHANGED rows
              \/ rows' = [k \in Key |-> IF k \in DOMAIN recs[a]
                                      THEN [val |-> recs[a][k], version |-> 0]
                                      ELSE rows[k]]
  BY DEF RestoreLoad, Goto, seeding
<1>some. RestoreLoad(a) => recs[a] # None
  BY <1>load DEF NumberInv, Domains
<1>known. recs[a] # None => \A x : x \in DOMAIN recs[a] => Kept(x)
  BY DEF Kept
<1>4. /\ DOMAIN rows' = Key /\ rows' = [k \in Key |-> rows'[k]]
      /\ todo' = [b \in Admin |-> todo'[b]] /\ recs' = [b \in Admin |-> recs'[b]]
      /\ \A b \in Admin : pc'[b] = "load" => recs'[b] # None
  <2> USE DEF NumberInv, Domains, Goto, adminLocals
  <2>1. CASE \E k \in SeedKey : Seed(a, k)
    BY <2>1 DEF Seed
  <2>2. CASE Serialize(a) \/ KeepSnapshot(a)
    BY <2>2 DEF Serialize, KeepSnapshot
  <2>3. CASE RestoreClear(a) \/ ResetClear(a)
    BY <2>3 DEF RestoreClear, ResetClear, Clear
  <2>4. CASE RestoreLoad(a)
    BY <2>4, <1>load
  <2>5. CASE ResetTake(a) \/ ResetForget(a)
    BY <2>5 DEF ResetTake, ResetForget
  <2>6. CASE Reseed(a)
    BY <2>6 DEF Reseed
  <2> QED BY <2>1, <2>2, <2>3, <2>4, <2>5, <2>6 DEF Control
<1>5. \A x : Kept(x)' => Kept(x) \/ x \in SeedKey
  <2> USE DEF NumberInv, Domains, Kept, Live, Goto, seeding, adminLocals, ghosts
  <2>1. CASE \E k \in SeedKey : Seed(a, k)
    BY <2>1 DEF Seed
  <2>2. CASE Serialize(a)
    <3>1. /\ recs' = [recs EXCEPT ![a] = [k \in Live |-> rows[k].val]]
          /\ pc' = [pc EXCEPT ![a] = "keep"]
          /\ UNCHANGED <<rows, seedItems, snapshot, todo>>
      BY <2>2 DEF Serialize
    <3>2. DOMAIN recs'[a] = Live /\ \A b \in Admin \ {a} : recs'[b] = recs[b]
      BY <3>1
    <3>3. \A x : Kept(x)' => Kept(x)
      BY <3>1, <3>2
    <3> QED BY <3>3
  <2>3. CASE RestoreClear(a)
    BY <2>3 DEF RestoreClear, Clear
  <2>4. CASE ResetClear(a)
    BY <2>4 DEF ResetClear, Clear
  <2>5. CASE KeepSnapshot(a)
    BY <2>5 DEF KeepSnapshot
  <2>6. CASE RestoreLoad(a)
    <3>0. pc[a] = "load" /\ recs[a] # None
      BY <2>6, <1>load, <1>some
    <3>1. /\ recs' = [recs EXCEPT ![a] = None]
          /\ pc' = [pc EXCEPT ![a] = "idle"]
          /\ UNCHANGED <<seedItems, snapshot, todo>>
          /\ \A x : x \in DOMAIN recs[a] => Kept(x)
      BY <2>6, <1>load, <1>known, <3>0
    <3>2. CASE UNCHANGED rows
      BY <3>1, <3>2
    <3>3. CASE rows' = [k \in Key |-> IF k \in DOMAIN recs[a]
                                     THEN [val |-> recs[a][k], version |-> 0]
                                     ELSE rows[k]]
      <4>1. \A x : x \in Live' => x \in Live \/ x \in DOMAIN recs[a]
        BY <3>3
      <4>2. \A x : Kept(x)' => Kept(x)
        BY <3>1, <4>1
      <4> QED BY <4>2
    <3>4. \/ UNCHANGED rows
          \/ rows' = [k \in Key |-> IF k \in DOMAIN recs[a]
                                  THEN [val |-> recs[a][k], version |-> 0]
                                  ELSE rows[k]]
      BY <2>6, <1>load
    <3> QED BY <3>2, <3>3, <3>4
  <2>7. CASE ResetTake(a)
    BY <2>7 DEF ResetTake
  <2>8. CASE Reseed(a)
    BY <2>8 DEF Reseed
  <2>9. CASE ResetForget(a)
    BY <2>9 DEF ResetForget
  <2> QED BY <2>1, <2>2, <2>3, <2>4, <2>5, <2>6, <2>7, <2>8, <2>9 DEF Control
<1>6. Domains'
  BY <1>1, <1>2, <1>4 DEF NumberInv, Domains
<1> QED BY <1>1, <1>3, <1>6, <1>5, NumberQuiet

\* An item without an id takes a number as AllocateSeq does.
LEMMA NumberSeed ==
  ASSUME NumberInv, NEW a \in Admin, SeedNumbered(a) PROVE NumberInv'
<1>1. /\ nextSeq' = nextSeq + 1 /\ UNCHANGED <<pc, key, todo, recs, snapshot>>
      /\ rows' = rows \/ rows' = [rows EXCEPT ![nextSeq] = Fresh]
      /\ seedItems' \subseteq seedItems \cup {nextSeq}
  BY DEF SeedNumbered, locals, adminLocals
<1>2. Domains'
  BY <1>1 DEF NumberInv, Domains
<1>3. \A x : Kept(x)' => Kept(x) \/ x = nextSeq
  BY <1>1 DEF NumberInv, Domains, Kept, Live
<1>4. nextSeq' \in Nat /\ \A x : Kept(x)' => x \in SeedKey \/ (x \in Nat /\ x < nextSeq')
  BY <1>1, <1>3 DEF NumberInv
<1>5. \A c \in Client : pc[c] \in Numbered =>
        key[c] \in SeedKey \/ (key[c] \in Nat /\ key[c] < nextSeq'
                             /\ \A x : Kept(x)' => x # key[c])
  BY <1>1, <1>3 DEF NumberInv
<1> QED BY <1>1, <1>2, <1>4, <1>5 DEF NumberInv

LEMMA NumberStep ==
  ASSUME NumberInv, [Next]_vars PROVE NumberInv'
<1>1. CASE UNCHANGED vars
  <2>1. UNCHANGED <<rows, nextSeq, seedItems, snapshot, pc, key, todo, recs>>
    BY <1>1 DEF vars, seeding, locals, adminLocals
  <2>2. Domains' /\ \A x : Kept(x)' = Kept(x)
    BY <2>1 DEF NumberInv, Domains, Kept, Live
  <2> QED BY <2>1, <2>2, NumberQuiet
<1>2. ASSUME NEW c \in Client,
             (\E k \in IdemKey \cup {None} : BeginCreate(c, k))
               \/ (\E k \in Key : BeginModify(c, k) \/ Remove(c, k)) \/ Serve(c)
      PROVE NumberInv'
  BY <1>2, NumberCreate, NumberModify DEF Serve
<1>3. ASSUME NEW a \in Admin,
             (\E k \in SeedKey : Seed(a, k)) \/ SeedNumbered(a) \/ Serialize(a)
               \/ RestoreClear(a) \/ ResetClear(a) \/ Control(a)
      PROVE NumberInv'
  BY <1>3, NumberSeed, NumberControl
<1> QED BY <1>1, <1>2, <1>3 DEF Next

\* A number that AllocateSeq has handed out belongs to one create only, over
\* any sequence of resets, restores and seeds: next_resource_seq outlives them.
THEOREM NumbersAreFresh == Spec => []FreshNumbers
<1>1. NumberInv => FreshNumbers
  BY DEF NumberInv, FreshNumbers, Numbered, Kept
<1> QED BY <1>1, NumberInit, NumberStep, PTL DEF Spec

-----------------------------------------------------------------------------
(* The quota *)

\* The creates that have looked at the quota and not inserted yet.
Inserting == {c \in Client : pc[c] = "insert"}
Counted == Live \ uncounted

\* Each create past the quota is one that has looked before the others inserted.
QuotaInv ==
  /\ pc \in [Thread -> Step] /\ DOMAIN rows = Key
  /\ Cardinality(Counted) + Cardinality(Inserting) <= MaxResources + Cardinality(Client) - 1

LEMMA CountsFinite ==
  ASSUME IsFiniteSet(Client)
  PROVE  /\ IsFiniteSet(Counted) /\ IsFiniteSet(Inserting) /\ IsFiniteSet(Live)
         /\ Cardinality(Counted) \in Nat /\ Cardinality(Inserting) \in Nat
         /\ Cardinality(Live) \in Nat /\ Cardinality(Client) \in Nat
         /\ Cardinality(Counted) <= Cardinality(Live)
         /\ Cardinality(Inserting) <= Cardinality(Client)
<1>1. IsFiniteSet(Key)
  <2>1. IsFiniteSet(1..MaxSeq)
    BY FS_Interval, SandboxAssumption
  <2> QED BY <2>1, FS_Union, SandboxAssumption DEF Key
<1>2. Live \subseteq Key /\ Counted \subseteq Live /\ Inserting \subseteq Client
  BY DEF Live, Counted, Inserting
<1>3. IsFiniteSet(Live)
  BY <1>1, <1>2, FS_Subset
<1> QED BY <1>2, <1>3, FS_Subset, FS_CardinalityType

\* Steps after which there is no more to count.
LEMMA QuotaKept ==
  ASSUME QuotaInv, IsFiniteSet(Client), pc' \in [Thread -> Step], DOMAIN rows' = Key,
         Counted' \subseteq Counted, Inserting' \subseteq Inserting
  PROVE  QuotaInv'
<1>1. /\ IsFiniteSet(Counted) /\ IsFiniteSet(Inserting) /\ Cardinality(Client) \in Nat
      /\ Cardinality(Counted) \in Nat /\ Cardinality(Inserting) \in Nat
  BY CountsFinite
<1>2. /\ Cardinality(Counted') <= Cardinality(Counted) /\ Cardinality(Counted') \in Nat
      /\ Cardinality(Inserting') <= Cardinality(Inserting) /\ Cardinality(Inserting') \in Nat
  BY <1>1, FS_Subset, FS_CardinalityType
<1>3. MaxResources \in Nat
  BY SandboxAssumption
<1>4. Cardinality(Counted) + Cardinality(Inserting) <= MaxResources + Cardinality(Client) - 1
  BY DEF QuotaInv
<1>5. Cardinality(Counted') + Cardinality(Inserting') <= MaxResources + Cardinality(Client) - 1
  BY ONLY <1>1, <1>2, <1>3, <1>4
<1> QED BY <1>5 DEF QuotaInv

\* A goroutine takes a step that is not the one before an insert.
LEMMA NotInserting ==
  ASSUME QuotaInv, NEW t \in Thread, NEW step \in Step \ {"insert"}, Goto(t, step)
  PROVE  pc' \in [Thread -> Step] /\ Inserting' \subseteq Inserting
BY SandboxAssumption DEF QuotaInv, Goto, Inserting, Thread

\* The table has room when the quota is checked, and each of the others that
\* have checked it has one insert left.
LEMMA CheckQuotaKeeps ==
  ASSUME QuotaInv, IsFiniteSet(Client), NEW c \in Client, CheckQuota(c)
  PROVE  QuotaInv'
<1>1. c \in Thread /\ UNCHANGED <<rows, uncounted>> /\ Counted' = Counted
  BY DEF CheckQuota, ghosts, Thread, Counted, Live
<1>2. CASE Answer(c)
  BY <1>1, <1>2, NotInserting, QuotaKept DEF Answer, Step, Creating, QuotaInv
<1>3. CASE ~ (Cardinality(Live) + 1 > MaxResources) /\ Goto(c, "insert")
  <2>1. pc' \in [Thread -> Step]
    BY <1>1, <1>3 DEF QuotaInv, Goto, Step, Creating
  <2>2. /\ Cardinality(Counted) <= Cardinality(Live) /\ Cardinality(Live) \in Nat
        /\ Cardinality(Counted) \in Nat /\ Cardinality(Client) \in Nat
    BY CountsFinite
  <2>3. Inserting' \subseteq Client
    BY DEF Inserting
  <2>4. Cardinality(Inserting') <= Cardinality(Client) /\ Cardinality(Inserting') \in Nat
    BY <2>3, FS_Subset, FS_CardinalityType
  <2>5. MaxResources \in Nat
    BY SandboxAssumption
  <2>6. Cardinality(Counted) + Cardinality(Inserting') <= MaxResources + Cardinality(Client) - 1
    BY ONLY <1>3, <2>2, <2>4, <2>5
  <2> QED BY <1>1, <2>1, <2>6 DEF QuotaInv
<1> QED BY <1>2, <1>3 DEF CheckQuota

\* The insert that was left.
LEMMA InsertKeeps ==
  ASSUME QuotaInv, IsFiniteSet(Client), NEW c \in Client, Insert(c)
  PROVE  QuotaInv'
<1>1. c \in Thread /\ pc[c] = "insert" /\ uncounted' = uncounted
  BY DEF Insert, ghosts, Thread
<1>2. CASE Answer(c) /\ UNCHANGED rows
  <2>1. Counted' = Counted
    BY <1>1, <1>2 DEF Counted, Live
  <2> QED BY <1>1, <1>2, <2>1, NotInserting, QuotaKept DEF Answer, Step, Creating, QuotaInv
<1>3. CASE rows' = [rows EXCEPT ![key[c]] = Fresh] /\ Goto(c, "record")
  <2>1. DOMAIN rows' = Key /\ pc' \in [Thread -> Step]
    BY <1>1, <1>3 DEF QuotaInv, Goto, Step, Creating
  <2>2. Counted' \subseteq Counted \cup {key[c]}
    BY <1>1, <1>3 DEF QuotaInv, Counted, Live
  <2>3. Inserting' = Inserting \ {c} /\ c \in Inserting
    BY <1>1, <1>3 DEF QuotaInv, Goto, Inserting, Thread
  <2>4. /\ IsFiniteSet(Counted) /\ IsFiniteSet(Inserting) /\ Cardinality(Client) \in Nat
        /\ Cardinality(Counted) \in Nat /\ Cardinality(Inserting) \in Nat
    BY CountsFinite
  <2>5. Cardinality(Inserting') = Cardinality(Inserting) - 1
    BY <2>3, <2>4, FS_RemoveElement
  <2>6. /\ IsFiniteSet(Counted \cup {key[c]})
        /\ Cardinality(Counted \cup {key[c]}) <= Cardinality(Counted) + 1
        /\ Cardinality(Counted \cup {key[c]}) \in Nat
    <3>1. /\ IsFiniteSet(Counted \cup {key[c]})
          /\ Cardinality(Counted \cup {key[c]}) \in {Cardinality(Counted), Cardinality(Counted) + 1}
      BY <2>4, FS_AddElement
    <3> QED BY <2>4, <3>1
  <2>7. Cardinality(Counted') <= Cardinality(Counted \cup {key[c]}) /\ Cardinality(Counted') \in Nat
    BY <2>2, <2>6, FS_Subset, FS_CardinalityType
  <2>8. MaxResources \in Nat
    BY SandboxAssumption
  <2>9. Cardinality(Counted) + Cardinality(Inserting) <= MaxResources + Cardinality(Client) - 1
    BY DEF QuotaInv
  <2>10. Cardinality(Counted') + Cardinality(Inserting') <= MaxResources + Cardinality(Client) - 1
    BY ONLY <2>4, <2>5, <2>6, <2>7, <2>8, <2>9
  <2> QED BY <2>1, <2>10 DEF QuotaInv
<1> QED BY <1>2, <1>3 DEF Insert

LEMMA QuotaStep ==
  ASSUME QuotaInv, IsFiniteSet(Client), [Next]_vars
  PROVE  QuotaInv'
<1> USE DEF Thread
<1>1. pc \in [Thread -> Step] /\ DOMAIN rows = Key /\ Client \cap Admin = {}
  BY SandboxAssumption DEF QuotaInv
<1>2. ASSUME Counted' \subseteq Counted, DOMAIN rows' = Key, NEW t \in Thread,
             pc' = pc \/ \E step \in Step \ {"insert"} : Goto(t, step)
      PROVE  QuotaInv'
  <2>1. pc' \in [Thread -> Step] /\ Inserting' \subseteq Inserting
    BY <1>1, <1>2, NotInserting DEF Inserting
  <2> QED BY <1>2, <2>1, QuotaKept
<1>3. ASSUME UNCHANGED <<rows, uncounted>>, NEW t \in Thread,
             pc' = pc \/ \E step \in Step \ {"insert"} : Goto(t, step)
      PROVE  QuotaInv'
  <2>1. Counted' = Counted
    BY <1>3 DEF Counted, Live
  <2> QED BY <1>1, <1>2, <1>3, <2>1
<1>4. ASSUME NEW c \in Client, NEW k \in IdemKey \cup {None}, BeginCreate(c, k) PROVE QuotaInv'
  BY <1>3, <1>4 DEF BeginCreate, ghosts, Step, Creating
<1>5. ASSUME NEW c \in Client, AllocateSeq(c) \/ Record(c) PROVE QuotaInv'
  BY <1>3, <1>5 DEF AllocateSeq, Record, Answer, ghosts, Step, Creating
<1>6. ASSUME NEW c \in Client, NEW k \in Key, BeginModify(c, k) PROVE QuotaInv'
  BY <1>3, <1>6 DEF BeginModify, ghosts, Step
<1>7. ASSUME NEW c \in Client, CheckModifyQuota(c) \/ Conflict(c) \/ Reread(c) PROVE QuotaInv'
  BY <1>3, <1>7 DEF CheckModifyQuota, Conflict, Reread, EndModify, ghosts, Step
<1>8. ASSUME NEW c \in Client, Update(c) PROVE QuotaInv'
  <2>1. Counted' \subseteq Counted /\ DOMAIN rows' = Key
    BY <1>1, <1>8 DEF Update, Counted, Live, ghosts
  <2> QED BY <1>2, <1>8, <2>1 DEF Update, EndModify, Step
<1>9. ASSUME NEW c \in Client, NEW k \in Key, Remove(c, k) PROVE QuotaInv'
  <2>1. Counted' \subseteq Counted /\ DOMAIN rows' = Key
    BY <1>1, <1>9 DEF Remove, Counted, Live, ghosts
  <2> QED BY <1>2, <1>9, <2>1 DEF Remove
<1>10. ASSUME NEW a \in Admin, NEW k \in SeedKey, Seed(a, k) PROVE QuotaInv'
  <2>1. Counted' \subseteq Counted /\ DOMAIN rows' = Key
    BY <1>1, <1>10 DEF Seed, Counted, Live
  <2> QED BY <1>2, <1>10, <2>1 DEF Seed
<1>11. ASSUME NEW a \in Admin, SeedNumbered(a) PROVE QuotaInv'
  <2>1. Counted' \subseteq Counted /\ DOMAIN rows' = Key
    BY <1>1, <1>11 DEF SeedNumbered, Counted, Live
  <2> QED BY <1>2, <1>11, <2>1 DEF SeedNumbered
<1>12. ASSUME NEW a \in Admin,
              Serialize(a) \/ KeepSnapshot(a) \/ ResetTake(a) \/ ResetForget(a)
       PROVE  QuotaInv'
  BY <1>3, <1>12 DEF Serialize, KeepSnapshot, ResetTake, ResetForget, ghosts, Step
<1>13. ASSUME NEW a \in Admin, RestoreClear(a) \/ ResetClear(a) PROVE QuotaInv'
  <2>1. rows' = [k \in Key |-> None]
    BY <1>13 DEF RestoreClear, ResetClear, Clear
  <2>2. Counted' \subseteq Counted /\ DOMAIN rows' = Key
    BY <2>1 DEF Counted, Live
  <2> QED BY <1>2, <1>13, <2>2 DEF RestoreClear, ResetClear, Step
<1>14. ASSUME NEW a \in Admin, RestoreLoad(a) PROVE QuotaInv'
  <2>1. \/ UNCHANGED <<rows, uncounted>>
        \/ /\ DOMAIN rows' = Key /\ uncounted' = uncounted \cup DOMAIN recs[a]
           /\ \A k \in Key : k \notin DOMAIN recs[a] => rows'[k] = rows[k]
    BY <1>14 DEF RestoreLoad
  <2>2. Counted' \subseteq Counted /\ DOMAIN rows' = Key
    BY <1>1, <2>1 DEF Counted, Live
  <2> QED BY <1>2, <1>14, <2>2 DEF RestoreLoad, Step
<1>15. ASSUME NEW a \in Admin, Reseed(a) PROVE QuotaInv'
  <2>1. PICK k \in todo[a] :
          \/ UNCHANGED <<rows, uncounted>> /\ Goto(a, "idle")
          \/ /\ rows' = [rows EXCEPT ![k] = Fresh] /\ uncounted' = uncounted \cup {k}
             /\ Goto(a, IF todo[a] = {k} THEN "forget" ELSE "reseed")
    BY <1>15 DEF Reseed
  <2>2. Counted' \subseteq Counted /\ DOMAIN rows' = Key
    BY <1>1, <2>1 DEF Counted, Live
  <2>3. \E step \in Step \ {"insert"} : Goto(a, step)
    BY <2>1 DEF Step
  <2> QED BY <1>2, <2>2, <2>3
<1>16. CASE UNCHANGED vars
  <2>1. UNCHANGED <<rows, uncounted, pc>>
    BY <1>16 DEF vars, ghosts
  <2>2. Counted' = Counted /\ Inserting' = Inserting
    BY <2>1 DEF Counted, Live, Inserting
  <2> QED BY <1>1, <2>1, <2>2, QuotaKept
<1> QED BY <1>4, <1>5, <1>6, <1>7, <1>8, <1>9, <1>10, <1>11, <1>12, <1>13, <1>14, <1>15, <1>16,
           CheckQuotaKeeps, InsertKeeps DEF Next, Serve, Control

\* The count and the insert are two statements, so creates can race past the
\* quota; each of the other clients does so once.
THEOREM OvershootIsBounded ==
  ASSUME Client # {}
  PROVE  Spec => []QuotaOvershoot
<1>1. IsFiniteSet(Client)
  BY FS_Subset, SandboxAssumption DEF Thread
<1>2. Init => QuotaInv
  <2> SUFFICES ASSUME Init PROVE QuotaInv
    OBVIOUS
  <2>1. Counted = {} /\ Inserting = {}
    BY DEF Init, Counted, Live, Inserting, Thread
  <2>2. Cardinality(Client) \in Nat /\ Cardinality(Client) # 0 /\ Cardinality({}) = 0
    BY <1>1, FS_CardinalityType, FS_EmptySet
  <2>3. MaxResources \in Nat
    BY SandboxAssumption
  <2>4. 0 + 0 <= MaxResources + Cardinality(Client) - 1
    BY <2>2, <2>3
  <2>5. pc \in [Thread -> Step] /\ DOMAIN rows = Key
    BY DEF Init, Step
  <2> QED BY <2>1, <2>2, <2>4, <2>5 DEF QuotaInv
<1>3. QuotaInv => QuotaOvershoot
  <2> SUFFICES ASSUME QuotaInv PROVE QuotaOvershoot
    OBVIOUS
  <2>1. Cardinality(Counted) \in Nat /\ Cardinality(Inserting) \in Nat /\ Cardinality(Client) \in Nat
    BY <1>1, CountsFinite
  <2>2. Cardinality(Counted) + Cardinality(Inserting) <= MaxResources + Cardinality(Client) - 1
    BY DEF QuotaInv
  <2>3. MaxResources \in Nat
    BY SandboxAssumption
  <2>4. Cardinality(Counted) <= MaxResources + Cardinality(Client) - 1
    BY ONLY <2>1, <2>2, <2>3
  <2> QED BY <2>4 DEF QuotaOvershoot, Counted
<1> QED BY <1>1, <1>2, <1>3, QuotaStep, PTL DEF Spec

-----------------------------------------------------------------------------
(* Updates *)

Value == [Field -> Client \cup {"made"}]
Saved(r) == r # None => \A k \in DOMAIN r : r[k] \in Value

RowTypes ==
  /\ rows \in [Key -> Row \cup {None}]
  /\ read \in [Client -> Row \cup {None}]
  /\ pc \in [Thread -> Step]
  /\ key = [c \in Client |-> key[c]] /\ recs = [a \in Admin |-> recs[a]]
  /\ Saved(snapshot) /\ \A a \in Admin : Saved(recs[a])
  /\ \A a \in Admin : pc[a] = "load" => recs[a] # None

\* A modify has read a row of this key.
Reading(c) == pc[c] \in {"totals", "update", "reread"}

\* A row that was not deleted since is still there; it has changed if and only
\* if its version has grown.
SeenInv ==
  \A c \in Client :
    /\ Reading(c) <=> read[c] # None
    /\ read[c] # None /\ ~crossed[c] =>
         /\ key[c] \in Live
         /\ rows[key[c]].version >= read[c].version
         /\ rows[key[c]].version = read[c].version => rows[key[c]] = read[c]

UpdateInv == RowTypes /\ crossed = [c \in Client |-> crossed[c]] /\ SeenInv

\* A row that a reader has seen stays as it is or gets a new version, unless the
\* reader learns that it is gone.
LEMMA SeenKept ==
  ASSUME UpdateInv, RowTypes', crossed' = [c \in Client |-> crossed'[c]], NEW t \in Thread,
         \A c \in Client : c # t => UNCHANGED <<pc[c], key[c], read[c]>>,
         t \in Client => (Reading(t)' <=> read'[t] # None),
         t \in Client => read'[t] = None \/ UNCHANGED <<key[t], read[t]>>,
         \A c \in Client : read'[c] # None /\ ~crossed'[c] =>
           /\ ~crossed[c]
           /\ \/ rows'[key[c]] = rows[key[c]]
              \/ /\ rows'[key[c]] \in Row
                 /\ rows'[key[c]].version = rows[key[c]].version + 1
  PROVE  UpdateInv'
<1>1. ASSUME NEW c \in Client, read'[c] # None, ~crossed'[c]
      PROVE  /\ key'[c] \in Live'
             /\ rows'[key'[c]].version >= read'[c].version
             /\ rows'[key'[c]].version = read'[c].version => rows'[key'[c]] = read'[c]
  <2>1. UNCHANGED <<key[c], read[c]>> /\ read[c] # None
    BY <1>1
  <2>2. /\ key[c] \in Live /\ rows[key[c]].version >= read[c].version
        /\ rows[key[c]].version = read[c].version => rows[key[c]] = read[c]
    BY <1>1, <2>1 DEF UpdateInv, SeenInv
  <2>3. key[c] \in Key /\ rows[key[c]] \in Row /\ read[c] \in Row
    BY <2>1, <2>2 DEF Live, UpdateInv, RowTypes
  <2>4. rows[key[c]].version \in Nat /\ read[c].version \in Nat
    BY <2>3 DEF Row
  <2>5. CASE rows'[key[c]] = rows[key[c]]
    BY <2>1, <2>2, <2>3, <2>5 DEF Live
  <2>6. CASE rows'[key[c]] \in Row /\ rows'[key[c]].version = rows[key[c]].version + 1
    <3>1. rows'[key[c]].version > read[c].version
      BY ONLY <2>2, <2>4, <2>6
    <3>2. key[c] \in Live'
      BY <2>3, <2>6, RowAssumption DEF Live
    <3> QED BY <2>1, <2>4, <2>6, <3>1, <3>2
  <2> QED BY <1>1, <2>5, <2>6
<1>2. \A c \in Client : Reading(c)' <=> read'[c] # None
  BY DEF UpdateInv, SeenInv, Reading
<1> QED BY <1>1, <1>2 DEF UpdateInv, SeenInv

\* Steps that touch no row and no reader.
LEMMA SeenQuiet ==
  ASSUME UpdateInv, RowTypes', UNCHANGED <<rows, crossed, read>>, NEW t \in Thread,
         \A c \in Client : c # t => UNCHANGED <<pc[c], key[c]>>,
         t \in Client => ~Reading(t) /\ ~Reading(t)'
  PROVE  UpdateInv'
<1>1. t \in Client => read[t] = None
  BY DEF UpdateInv, SeenInv
<1>2. crossed' = [c \in Client |-> crossed'[c]]
  BY DEF UpdateInv
<1>3. \A c \in Client : read'[c] # None /\ ~crossed'[c] => ~crossed[c] /\ rows'[key[c]] = rows[key[c]]
  OBVIOUS
<1>4. \A c \in Client : c # t => UNCHANGED <<pc[c], key[c], read[c]>>
  OBVIOUS
<1>5. t \in Client => (Reading(t)' <=> read'[t] # None)
  BY <1>1
<1>6. t \in Client => read'[t] = None \/ UNCHANGED <<key[t], read[t]>>
  BY <1>1
<1> QED BY <1>2, <1>3, <1>4, <1>5, <1>6, SeenKept

LEMMA FreshIsRow == Fresh \in Row /\ Fresh.version = 0
BY DEF Fresh, Row

\* Steps of a create; the one that inserts has found the key free.
LEMMA CreateKeepsSeen ==
  ASSUME UpdateInv, NEW c \in Client,
         (\E k \in IdemKey \cup {None} : BeginCreate(c, k)) \/ AllocateSeq(c)
           \/ CheckQuota(c) \/ Insert(c) \/ Record(c)
  PROVE  UpdateInv'
<1>1. c \in Thread /\ UNCHANGED <<read, crossed, snapshot, recs>> /\ c \notin Admin
  BY SandboxAssumption DEF BeginCreate, AllocateSeq, CheckQuota, Insert, Record, seeding, adminLocals,
     Thread
<1>2. /\ pc[c] \in Creating \cup {"idle"}
      /\ \E step \in Creating \cup {"idle"} : pc' = [pc EXCEPT ![c] = step]
      /\ key' = key \/ \E v : key' = [key EXCEPT ![c] = v]
  <2>1. CASE \E k \in IdemKey \cup {None} : BeginCreate(c, k)
    BY <2>1 DEF BeginCreate, Goto, Creating
  <2>2. CASE AllocateSeq(c)
    BY <2>2 DEF AllocateSeq, Goto, Creating
  <2>3. CASE CheckQuota(c) \/ Insert(c) \/ Record(c)
    BY <2>3 DEF CheckQuota, Insert, Record, Answer, Goto, Creating
  <2> QED BY <2>1, <2>2, <2>3
<1>3. rows' = rows \/ (key[c] \notin Live /\ rows' = [rows EXCEPT ![key[c]] = Fresh])
  BY DEF BeginCreate, AllocateSeq, CheckQuota, Insert, Record
<1>4. pc' \in [Thread -> Step] /\ pc'[c] \in Creating \cup {"idle"}
      /\ \A t \in Thread : t # c => pc'[t] = pc[t]
  BY <1>1, <1>2 DEF UpdateInv, RowTypes, Step
<1>5. key' = [d \in Client |-> key'[d]] /\ \A d \in Client : d # c => key'[d] = key[d]
  BY <1>2 DEF UpdateInv, RowTypes
<1>6. rows' \in [Key -> Row \cup {None}]
  BY <1>3, FreshIsRow DEF UpdateInv, RowTypes
<1>7. RowTypes'
  BY <1>1, <1>4, <1>5, <1>6 DEF UpdateInv, RowTypes, Thread
<1>8. ~Reading(c) /\ ~Reading(c)'
  BY <1>2, <1>4 DEF Reading, Creating
<1>9. \A d \in Client : read'[d] # None /\ ~crossed'[d] => ~crossed[d] /\ rows'[key[d]] = rows[key[d]]
  <2>1. ASSUME NEW d \in Client, read'[d] # None, ~crossed'[d]
        PROVE  ~crossed[d] /\ rows'[key[d]] = rows[key[d]]
    <3>1. ~crossed[d] /\ key[d] \in Live
      BY <1>1, <2>1 DEF UpdateInv, SeenInv
    <3> QED BY <1>3, <3>1 DEF Live, UpdateInv, RowTypes
  <2> QED BY <2>1
<1>10. read[c] = None /\ crossed' = [d \in Client |-> crossed'[d]]
  BY <1>1, <1>8 DEF UpdateInv, SeenInv
<1>11. \A d \in Client : d # c => UNCHANGED <<pc[d], key[d], read[d]>>
  BY <1>1, <1>4, <1>5 DEF Thread
<1>12. Reading(c)' <=> read'[c] # None
  BY <1>1, <1>8, <1>10
<1> QED BY <1>1, <1>7, <1>9, <1>10, <1>11, <1>12, SeenKept

\* Reading a row anew.
LEMMA ReadKeepsSeen ==
  ASSUME UpdateInv, NEW c \in Client, NEW k \in Live,
         pc' = [pc EXCEPT ![c] = "totals"], read' = [read EXCEPT ![c] = rows[k]],
         crossed' = [crossed EXCEPT ![c] = FALSE],
         key' = [key EXCEPT ![c] = k] \/ (key' = key /\ key[c] = k),
         UNCHANGED <<rows, snapshot, recs>>
  PROVE  UpdateInv'
<1>1. c \in Thread /\ c \notin Admin
  BY SandboxAssumption DEF Thread
<1>2. /\ pc'[c] = "totals" /\ read'[c] = rows[k] /\ crossed'[c] = FALSE /\ key'[c] = k
      /\ \A d \in Client : d # c => UNCHANGED <<pc[d], key[d], read[d], crossed[d]>>
      /\ \A a \in Admin : pc'[a] = pc[a]
  BY <1>1 DEF UpdateInv, RowTypes, Thread
<1>3. rows[k] \in Row /\ rows[k].version \in Nat /\ rows[k] # None /\ k \in Live'
  BY DEF Live, UpdateInv, RowTypes, Row
<1>4. RowTypes'
  <2>1. pc' \in [Thread -> Step] /\ read' \in [Client -> Row \cup {None}]
    BY <1>1, <1>3 DEF UpdateInv, RowTypes, Step
  <2>2. key' = [d \in Client |-> key'[d]]
    BY DEF UpdateInv, RowTypes
  <2> QED BY <1>2, <2>1, <2>2 DEF UpdateInv, RowTypes
<1>5. crossed' = [d \in Client |-> crossed'[d]]
  BY DEF UpdateInv
<1>6. SeenInv'
  <2>1. ASSUME NEW d \in Client
        PROVE  /\ pc'[d] \in {"totals", "update", "reread"} <=> read'[d] # None
               /\ read'[d] # None /\ ~crossed'[d] =>
                    /\ key'[d] \in Live'
                    /\ rows'[key'[d]].version >= read'[d].version
                    /\ rows'[key'[d]].version = read'[d].version => rows'[key'[d]] = read'[d]
    <3>1. CASE d = c
      BY <1>2, <1>3, <3>1
    <3>2. CASE d # c
      BY <1>2, <3>2 DEF UpdateInv, SeenInv, Reading, Live
    <3> QED BY <3>1, <3>2
  <2> QED BY <2>1 DEF SeenInv, Reading
<1> QED BY <1>4, <1>5, <1>6 DEF UpdateInv

\* The end of a modify; it may have stored a row with the next version.
LEMMA EndKeepsSeen ==
  ASSUME UpdateInv, NEW c \in Client, EndModify(c), UNCHANGED <<snapshot, recs>>,
         rows' \in [Key -> Row \cup {None}],
         \A d \in Client : read[d] # None /\ ~crossed[d] =>
           \/ rows'[key[d]] = rows[key[d]]
           \/ /\ rows'[key[d]] \in Row
              /\ rows'[key[d]].version = rows[key[d]].version + 1
  PROVE  UpdateInv'
<1>1. c \in Thread /\ c \notin Admin
  BY SandboxAssumption DEF Thread
<1>2. /\ pc' = [pc EXCEPT ![c] = "idle"] /\ key' = [key EXCEPT ![c] = None]
      /\ read' = [read EXCEPT ![c] = None] /\ crossed' = [crossed EXCEPT ![c] = FALSE]
  BY DEF EndModify, Goto
<1>3. /\ pc' \in [Thread -> Step] /\ read' \in [Client -> Row \cup {None}]
      /\ key' = [d \in Client |-> key'[d]] /\ crossed' = [d \in Client |-> crossed'[d]]
      /\ pc'[c] = "idle" /\ read'[c] = None
      /\ \A a \in Admin : pc'[a] = pc[a]
      /\ \A d \in Client : d # c => UNCHANGED <<pc[d], key[d], read[d], crossed[d]>>
  BY <1>1, <1>2 DEF UpdateInv, RowTypes, Step, Thread
<1>4. RowTypes'
  BY <1>3 DEF UpdateInv, RowTypes
<1>5. Reading(c)' <=> read'[c] # None
  BY <1>3 DEF Reading
<1>6. \A d \in Client : d # c => UNCHANGED <<pc[d], key[d], read[d]>>
  BY <1>3
<1>7. \A d \in Client : read'[d] # None /\ ~crossed'[d] =>
        /\ ~crossed[d]
        /\ \/ rows'[key[d]] = rows[key[d]]
           \/ /\ rows'[key[d]] \in Row
              /\ rows'[key[d]].version = rows[key[d]].version + 1
  BY <1>3
<1> QED BY <1>1, <1>3, <1>4, <1>5, <1>6, <1>7, SeenKept

\* Steps of a control-plane call that leave the rows of the readers alone.
LEMMA ControlKeepsSeen ==
  ASSUME UpdateInv, NEW a \in Admin, UNCHANGED <<key, read>>,
         rows' \in [Key -> Row \cup {None}],
         crossed' = [c \in Client |-> crossed'[c]],
         pc' \in [Thread -> Step], \A t \in Thread : t # a => pc'[t] = pc[t],
         recs' = [b \in Admin |-> recs'[b]], Saved(snapshot)', \A b \in Admin : Saved(recs'[b]),
         \A b \in Admin : pc'[b] = "load" => recs'[b] # None,
         \A c \in Client : read[c] # None /\ ~crossed'[c] => ~crossed[c] /\ rows'[key[c]] = rows[key[c]]
  PROVE  UpdateInv'
<1>1. a \in Thread /\ a \notin Client
  BY SandboxAssumption DEF Thread
<1>2. RowTypes'
  BY DEF UpdateInv, RowTypes, Saved
<1>3. \A c \in Client : c # a => UNCHANGED <<pc[c], key[c], read[c]>>
  BY DEF Thread
<1>4. \A c \in Client : read'[c] # None /\ ~crossed'[c] => ~crossed[c] /\ rows'[key[c]] = rows[key[c]]
  OBVIOUS
<1> QED BY <1>1, <1>2, <1>3, <1>4, SeenKept

LEMMA UpdateInit == Init => UpdateInv
BY DEF Init, UpdateInv, RowTypes, SeenInv, Reading, Saved, Thread, Step

LEMMA ModifyKeepsSeen ==
  ASSUME UpdateInv, NEW c \in Client,
         (\E k \in Key : BeginModify(c, k)) \/ CheckModifyQuota(c) \/ Update(c)
           \/ Conflict(c) \/ Reread(c)
  PROVE  UpdateInv'
<1>t. c \in Thread /\ c \notin Admin
  BY SandboxAssumption DEF Thread
<1>1. ASSUME NEW k \in Key, BeginModify(c, k) PROVE UpdateInv'
  <2>1. k \in Live /\ UNCHANGED <<rows, snapshot, recs>>
    BY <1>1 DEF BeginModify, seeding, adminLocals
  <2>2. /\ pc' = [pc EXCEPT ![c] = "totals"] /\ read' = [read EXCEPT ![c] = rows[k]]
        /\ crossed' = [crossed EXCEPT ![c] = FALSE] /\ key' = [key EXCEPT ![c] = k]
    BY <1>1 DEF BeginModify, Goto
  <2> QED BY <2>1, <2>2, ReadKeepsSeen
<1>2. ASSUME pc[c] \in {"totals", "update"}, pc' = [pc EXCEPT ![c] = "update"] \/ pc' = [pc EXCEPT ![c] = "reread"],
             UNCHANGED <<rows, key, read, crossed, snapshot, recs>>
      PROVE  UpdateInv'
  <2>1. /\ pc' \in [Thread -> Step] /\ pc'[c] \in {"update", "reread"}
        /\ \A t \in Thread : t # c => pc'[t] = pc[t]
    BY <1>t, <1>2 DEF UpdateInv, RowTypes, Step
  <2>2. RowTypes'
    BY <1>t, <1>2, <2>1 DEF UpdateInv, RowTypes, Thread
  <2>3. Reading(c)' <=> read'[c] # None
    BY <1>2, <2>1 DEF Reading, UpdateInv, SeenInv
  <2>4. \A d \in Client : d # c => UNCHANGED <<pc[d], key[d], read[d]>>
    BY <1>2, <2>1 DEF Thread
  <2>5. crossed' = [d \in Client |-> crossed'[d]]
    BY <1>2 DEF UpdateInv
  <2>6. \A d \in Client : read'[d] # None /\ ~crossed'[d] => ~crossed[d] /\ rows'[key[d]] = rows[key[d]]
    BY <1>2
  <2>7. c \in Client => read'[c] = None \/ UNCHANGED <<key[c], read[c]>>
    BY <1>2
  <2> QED BY <1>t, <2>2, <2>3, <2>4, <2>5, <2>6, <2>7, SeenKept
<1>3. ASSUME EndModify(c), UNCHANGED <<rows, snapshot, recs>> PROVE UpdateInv'
  <2>1. rows' \in [Key -> Row \cup {None}]
    BY <1>3 DEF UpdateInv, RowTypes
  <2>2. \A d \in Client : rows'[key[d]] = rows[key[d]]
    BY <1>3
  <2> QED BY <1>3, <2>1, <2>2, EndKeepsSeen
<1>4. CASE CheckModifyQuota(c)
  BY <1>2, <1>3, <1>4 DEF CheckModifyQuota, Goto, seeding, adminLocals
<1>5. CASE Conflict(c)
  BY <1>2, <1>3, <1>5 DEF Conflict, Goto, seeding, adminLocals
<1>6. CASE Reread(c)
  <2>1. CASE key[c] \in Live
    <3>1. /\ pc' = [pc EXCEPT ![c] = "totals"] /\ read' = [read EXCEPT ![c] = rows[key[c]]]
          /\ crossed' = [crossed EXCEPT ![c] = FALSE] /\ key' = key
          /\ UNCHANGED <<rows, snapshot, recs>>
      BY <1>6, <2>1 DEF Reread, Goto, seeding, adminLocals
    <3> QED BY <2>1, <3>1, ReadKeepsSeen
  <2>2. CASE key[c] \notin Live
    BY <1>3, <1>6, <2>2 DEF Reread, seeding, adminLocals
  <2> QED BY <2>1, <2>2
<1>7. CASE Update(c)
  <2>0. EndModify(c) /\ UNCHANGED <<snapshot, recs>>
    BY <1>7 DEF Update, seeding, adminLocals
  <2>1. CASE key[c] \notin Live
    BY <1>3, <1>7, <2>0, <2>1 DEF Update
  <2>2. CASE key[c] \in Live
    <3>1. rows' = [rows EXCEPT ![key[c]] = Modified(c)]
      BY <1>7, <2>2 DEF Update
    <3>2. read[c] \in Row /\ rows[key[c]] \in Row /\ key[c] \in Key
      BY <1>7, <2>2 DEF Update, UpdateInv, RowTypes, SeenInv, Reading, Live
    <3>3. Modified(c) \in Row /\ Modified(c).version = rows[key[c]].version + 1
      BY <3>2 DEF Modified, Row
    <3>4. rows' \in [Key -> Row \cup {None}]
      BY <3>1, <3>3 DEF UpdateInv, RowTypes
    <3>5. \A d \in Client : read[d] # None /\ ~crossed[d] =>
            \/ rows'[key[d]] = rows[key[d]]
            \/ /\ rows'[key[d]] \in Row
               /\ rows'[key[d]].version = rows[key[d]].version + 1
      <4>1. ASSUME NEW d \in Client, read[d] # None, ~crossed[d]
            PROVE  key[d] \in Key
        BY <4>1 DEF UpdateInv, SeenInv, Live
      <4>2. \A k \in Key : rows'[k] = IF k = key[c] THEN Modified(c) ELSE rows[k]
        BY <3>1 DEF UpdateInv, RowTypes
      <4> HIDE DEF Modified
      <4> QED BY <3>3, <4>1, <4>2
    <3> QED BY <2>0, <3>4, <3>5, EndKeepsSeen
  <2> QED BY <2>1, <2>2
<1> QED BY <1>1, <1>4, <1>5, <1>6, <1>7

\* A removed row is crossed for whoever has read it.
LEMMA RemoveKeepsSeen ==
  ASSUME UpdateInv, NEW c \in Client, NEW k \in Key, Remove(c, k) PROVE UpdateInv'
<1>1. c \in Thread /\ c \notin Admin
  BY SandboxAssumption DEF Thread
<1>2. /\ rows' = [rows EXCEPT ![k] = None] /\ pc[c] = "idle"
      /\ crossed' = [d \in Client |-> crossed[d] \/ (read[d] # None /\ key[d] = k)]
      /\ UNCHANGED <<pc, key, read, snapshot, recs>>
  BY DEF Remove, seeding, locals, adminLocals
<1>3. RowTypes' /\ crossed' = [d \in Client |-> crossed'[d]]
  BY <1>2 DEF UpdateInv, RowTypes, Saved
<1>4. ~Reading(c) /\ read[c] = None
  BY <1>2 DEF UpdateInv, SeenInv, Reading
<1>5. \A d \in Client : read'[d] # None /\ ~crossed'[d] => ~crossed[d] /\ rows'[key[d]] = rows[key[d]]
  <2>1. ASSUME NEW d \in Client, read'[d] # None, ~crossed'[d]
        PROVE  ~crossed[d] /\ key[d] # k
    BY <1>2, <2>1
  <2> QED BY <1>2, <2>1
<1>6. Reading(c)' <=> read'[c] # None
  BY <1>2, <1>4 DEF Reading
<1>7. \A d \in Client : d # c => UNCHANGED <<pc[d], key[d], read[d]>>
  BY <1>2
<1> QED BY <1>1, <1>2, <1>3, <1>4, <1>5, <1>6, <1>7, SeenKept

LEMMA AdminKeepsSeen ==
  ASSUME UpdateInv, NEW a \in Admin,
         (\E k \in SeedKey : Seed(a, k)) \/ SeedNumbered(a) \/ Serialize(a)
           \/ RestoreClear(a) \/ ResetClear(a) \/ Control(a)
  PROVE  UpdateInv'
<1>t. a \in Thread /\ a \notin Client
  BY SandboxAssumption DEF Thread
<1>g. rows \in [Key -> Row \cup {None}] /\ pc \in [Thread -> Step]
  BY DEF UpdateInv, RowTypes
<1>s. /\ recs = [b \in Admin |-> recs[b]] /\ Saved(snapshot) /\ \A b \in Admin : Saved(recs[b])
      /\ crossed = [c \in Client |-> crossed[c]]
      /\ \A b \in Admin : pc[b] = "load" => recs[b] # None
  BY DEF UpdateInv, RowTypes
\* A free key that gets a row is not the key of any reader.
<1>f. ASSUME NEW k \in Key, k \notin Live, rows' = [rows EXCEPT ![k] = Fresh]
      PROVE  /\ rows' \in [Key -> Row \cup {None}]
             /\ \A c \in Client : read[c] # None /\ ~crossed[c] => rows'[key[c]] = rows[key[c]]
  <2>1. \A c \in Client : read[c] # None /\ ~crossed[c] => key[c] \in Live
    BY DEF UpdateInv, SeenInv
  <2> QED BY <1>g, <1>f, <2>1, FreshIsRow DEF Live
<1>0. ASSUME UNCHANGED <<key, read, crossed, pc, recs, snapshot>>,
             NEW k \in Key, k \notin Live, rows' = [rows EXCEPT ![k] = Fresh]
      PROVE  UpdateInv'
  <2>1. pc' \in [Thread -> Step] /\ \A t \in Thread : t # a => pc'[t] = pc[t]
    BY <1>0, <1>g
  <2>2. recs' = [b \in Admin |-> recs'[b]] /\ Saved(snapshot)' /\ \A b \in Admin : Saved(recs'[b])
    BY <1>0, <1>s DEF Saved
  <2>3. \A b \in Admin : pc'[b] = "load" => recs'[b] # None
    BY <1>0, <1>s
  <2>4. crossed' = [c \in Client |-> crossed'[c]]
    BY <1>0, <1>s
  <2>5. \A c \in Client : read[c] # None /\ ~crossed'[c] => ~crossed[c] /\ rows'[key[c]] = rows[key[c]]
    BY <1>0, <1>f
  <2>6. rows' \in [Key -> Row \cup {None}]
    BY <1>0, <1>f
  <2> QED BY <1>0, <2>1, <2>2, <2>3, <2>4, <2>5, <2>6, ControlKeepsSeen
\* Steps that keep the table.
<1>q. ASSUME UNCHANGED <<rows, key, read, crossed>>,
             NEW step \in Step, pc' = [pc EXCEPT ![a] = step],
             recs' = [b \in Admin |-> recs'[b]], Saved(snapshot'), Saved(recs'[a]),
             step = "load" => recs'[a] # None,
             \A b \in Admin : b # a => recs'[b] = recs[b]
      PROVE  UpdateInv'
  <2>1. pc' \in [Thread -> Step] /\ pc'[a] = step /\ \A t \in Thread : t # a => pc'[t] = pc[t]
    BY <1>t, <1>g, <1>q
  <2>2. Saved(snapshot)' /\ \A b \in Admin : Saved(recs'[b])
    BY <1>q, <1>s DEF Saved
  <2>3. \A b \in Admin : pc'[b] = "load" => recs'[b] # None
    BY <1>q, <1>s, <2>1 DEF Thread
  <2>4. crossed' = [c \in Client |-> crossed'[c]]
    BY <1>q, <1>s
  <2>5. \A c \in Client : read[c] # None /\ ~crossed'[c] => ~crossed[c] /\ rows'[key[c]] = rows[key[c]]
    BY <1>q
  <2>6. rows' \in [Key -> Row \cup {None}]
    BY <1>q, <1>g
  <2> QED BY <1>q, <2>1, <2>2, <2>3, <2>4, <2>5, <2>6, ControlKeepsSeen
<1>1. ASSUME NEW k \in SeedKey, Seed(a, k) PROVE UpdateInv'
  <2>1. k \in Key /\ k \notin Live /\ rows' = [rows EXCEPT ![k] = Fresh]
    BY <1>1 DEF Seed, Key
  <2>2. UNCHANGED <<key, read, crossed, pc, recs, snapshot>>
    BY <1>1 DEF Seed, locals, adminLocals
  <2> QED BY <1>0, <2>1, <2>2
<1>n. ASSUME UNCHANGED <<rows, key, read, crossed, pc, recs, snapshot>> PROVE UpdateInv'
  BY <1>n DEF UpdateInv, RowTypes, SeenInv, Reading, Live, Saved
<1>2. CASE SeedNumbered(a)
  <2>1. UNCHANGED <<key, read, crossed, pc, recs, snapshot>>
    BY <1>2 DEF SeedNumbered, locals, adminLocals
  <2>2. rows' = rows \/ (nextSeq \notin Live /\ rows' = [rows EXCEPT ![nextSeq] = Fresh])
    BY <1>2 DEF SeedNumbered
  <2>3. nextSeq \notin Key => [rows EXCEPT ![nextSeq] = Fresh] = rows
    BY <1>g
  <2> QED BY <1>0, <1>n, <2>1, <2>2, <2>3
<1>3. CASE Serialize(a)
  <2>1. /\ UNCHANGED <<rows, key, read, crossed, snapshot>>
        /\ pc' = [pc EXCEPT ![a] = "keep"]
        /\ recs' = [recs EXCEPT ![a] = [k \in Live |-> rows[k].val]]
    BY <1>3 DEF Serialize, Goto, locals, seeding
  <2>2. Saved([k \in Live |-> rows[k].val])
    BY <1>g DEF Saved, Live, Row, Value
  <2>3. /\ recs' = [b \in Admin |-> recs'[b]] /\ Saved(recs'[a])
        /\ \A b \in Admin : b # a => recs'[b] = recs[b]
    BY <1>s, <2>1, <2>2
  <2>4. "keep" \in Step /\ Saved(snapshot')
    BY <1>s, <2>1 DEF Step
  <2> QED BY <1>q, <2>1, <2>3, <2>4
<1>4. CASE KeepSnapshot(a)
  <2>1. /\ UNCHANGED <<rows, key, read, crossed>>
        /\ pc' = [pc EXCEPT ![a] = "idle"]
        /\ recs' = [recs EXCEPT ![a] = None] /\ snapshot' = recs[a]
    BY <1>4 DEF KeepSnapshot, Goto, locals
  <2>2. /\ recs' = [b \in Admin |-> recs'[b]] /\ Saved(recs'[a]) /\ Saved(snapshot')
        /\ \A b \in Admin : b # a => recs'[b] = recs[b]
    BY <1>s, <2>1 DEF Saved
  <2>3. "idle" \in Step
    BY DEF Step
  <2> QED BY <1>q, <2>1, <2>2, <2>3
<1>5. ASSUME Clear, NEW step \in Step, pc' = [pc EXCEPT ![a] = step],
             UNCHANGED <<key, read, snapshot>>, recs' = [b \in Admin |-> recs'[b]],
             \A b \in Admin : Saved(recs'[b]), step = "load" => recs'[a] # None,
             \A b \in Admin : b # a => recs'[b] = recs[b]
      PROVE  UpdateInv'
  <2>1. pc' \in [Thread -> Step] /\ pc'[a] = step /\ \A t \in Thread : t # a => pc'[t] = pc[t]
    BY <1>t, <1>g, <1>5
  <2>2. Saved(snapshot)'
    BY <1>5, <1>s DEF Saved
  <2>3. \A b \in Admin : pc'[b] = "load" => recs'[b] # None
    BY <1>5, <1>s, <2>1 DEF Thread
  <2>4. /\ crossed' = [c \in Client |-> read[c] # None]
        /\ rows' = [k \in Key |-> None]
    BY <1>5 DEF Clear
  <2>5. crossed' = [c \in Client |-> crossed'[c]] /\ rows' \in [Key -> Row \cup {None}]
    BY <2>4
  <2>6. \A c \in Client : read[c] # None /\ ~crossed'[c] => ~crossed[c] /\ rows'[key[c]] = rows[key[c]]
    BY <2>4
  <2> QED BY <1>5, <2>1, <2>2, <2>3, <2>5, <2>6, ControlKeepsSeen
<1>6. CASE RestoreClear(a)
  <2>1. /\ Clear /\ UNCHANGED <<key, read, snapshot>> /\ snapshot # None
        /\ pc' = [pc EXCEPT ![a] = "load"] /\ recs' = [recs EXCEPT ![a] = snapshot]
    BY <1>6 DEF RestoreClear, Goto, locals, seeding
  <2>2. /\ recs' = [b \in Admin |-> recs'[b]] /\ \A b \in Admin : Saved(recs'[b])
        /\ recs'[a] = snapshot /\ \A b \in Admin : b # a => recs'[b] = recs[b]
    BY <1>s, <2>1
  <2>3. "load" \in Step
    BY DEF Step
  <2> QED BY <1>5, <2>1, <2>2, <2>3
<1>7. CASE ResetClear(a)
  <2>1. /\ Clear /\ UNCHANGED <<key, read, snapshot, recs>>
        /\ pc' = [pc EXCEPT ![a] = "take"]
    BY <1>7 DEF ResetClear, Goto, locals, seeding, adminLocals
  <2>2. recs' = [b \in Admin |-> recs'[b]] /\ \A b \in Admin : Saved(recs'[b])
    BY <1>s, <2>1
  <2>3. "take" \in Step /\ "take" # "load"
    BY DEF Step
  <2>4. \A b \in Admin : b # a => recs'[b] = recs[b]
    BY <2>1
  <2> QED BY <1>5, <2>1, <2>2, <2>3, <2>4
<1>8. CASE ResetTake(a) \/ ResetForget(a)
  <2>1. /\ UNCHANGED <<rows, key, read, crossed, snapshot, recs>>
        /\ \E step \in Step \ {"load"} : pc' = [pc EXCEPT ![a] = step]
    BY <1>8 DEF ResetTake, ResetForget, Goto, locals, seeding, adminLocals, Step
  <2>2. PICK step \in Step \ {"load"} : pc' = [pc EXCEPT ![a] = step]
    BY <2>1
  <2>3. /\ recs' = [b \in Admin |-> recs'[b]] /\ Saved(recs'[a]) /\ Saved(snapshot')
        /\ \A b \in Admin : b # a => recs'[b] = recs[b]
    BY <1>s, <2>1
  <2> QED BY <1>q, <2>1, <2>2, <2>3
<1>9. CASE RestoreLoad(a)
  <2>1. /\ pc[a] = "load" /\ UNCHANGED <<key, read, crossed, snapshot>>
        /\ pc' = [pc EXCEPT ![a] = "idle"] /\ recs' = [recs EXCEPT ![a] = None]
    BY <1>9 DEF RestoreLoad, Goto, locals, seeding
  <2>2. /\ pc' \in [Thread -> Step] /\ pc'[a] = "idle"
        /\ \A t \in Thread : t # a => pc'[t] = pc[t]
    BY <1>t, <1>g, <2>1 DEF Step
  <2>3. /\ recs' = [b \in Admin |-> recs'[b]] /\ recs'[a] = None
        /\ \A b \in Admin : b # a => recs'[b] = recs[b]
    BY <1>s, <2>1
  <2>4. Saved(snapshot)' /\ \A b \in Admin : Saved(recs'[b])
    BY <1>s, <2>1, <2>3 DEF Saved
  <2>5. \A b \in Admin : pc'[b] = "load" => recs'[b] # None
    BY <1>s, <2>2, <2>3 DEF Thread
  <2>6. crossed' = [c \in Client |-> crossed'[c]]
    BY <1>s, <2>1
  <2>7. \/ rows' = rows
        \/ /\ DOMAIN recs[a] \cap Live = {}
           /\ rows' = [k \in Key |-> IF k \in DOMAIN recs[a]
                                     THEN [val |-> recs[a][k], version |-> 0] ELSE rows[k]]
    BY <1>9 DEF RestoreLoad
  <2>8. \A k \in DOMAIN recs[a] : [val |-> recs[a][k], version |-> 0] \in Row
    BY <1>s, <2>1 DEF Saved, Row, Value
  <2>9. rows' \in [Key -> Row \cup {None}]
    BY <1>g, <2>7, <2>8
  <2>10. \A c \in Client : read[c] # None /\ ~crossed[c] => key[c] \in Live
    BY DEF UpdateInv, SeenInv
  <2>11. \A c \in Client : read[c] # None /\ ~crossed'[c] => ~crossed[c] /\ rows'[key[c]] = rows[key[c]]
    BY <2>1, <2>7, <2>10 DEF Live
  <2> QED BY <2>1, <2>2, <2>3, <2>4, <2>5, <2>6, <2>9, <2>11, ControlKeepsSeen
<1>10. CASE Reseed(a)
  <2>1. /\ UNCHANGED <<key, read, crossed, recs, snapshot>>
        /\ \E step \in Step \ {"load"} : pc' = [pc EXCEPT ![a] = step]
        /\ rows' = rows \/ \E k : k \notin Live /\ rows' = [rows EXCEPT ![k] = Fresh]
    BY <1>10 DEF Reseed, Goto, locals, Step
  <2>2. PICK step \in Step \ {"load"} : pc' = [pc EXCEPT ![a] = step]
    BY <2>1
  <2>3. /\ pc' \in [Thread -> Step] /\ pc'[a] # "load"
        /\ \A t \in Thread : t # a => pc'[t] = pc[t]
    BY <1>t, <1>g, <2>2
  <2>4. /\ rows' \in [Key -> Row \cup {None}]
        /\ \A c \in Client : read[c] # None /\ ~crossed[c] => rows'[key[c]] = rows[key[c]]
    <3>1. CASE rows' = rows
      BY <1>g, <3>1
    <3>2. ASSUME NEW k, k \notin Live, rows' = [rows EXCEPT ![k] = Fresh]
          PROVE  /\ rows' \in [Key -> Row \cup {None}]
                 /\ \A c \in Client : read[c] # None /\ ~crossed[c] => rows'[key[c]] = rows[key[c]]
      <4>1. CASE k \in Key
        BY <1>f, <3>2, <4>1
      <4>2. CASE k \notin Key
        <5>1. rows' = rows
          BY <1>g, <3>2, <4>2
        <5> QED BY <1>g, <5>1
      <4> QED BY <4>1, <4>2
    <3>3. CASE rows' # rows
      <4>1. \E k : k \notin Live /\ rows' = [rows EXCEPT ![k] = Fresh]
        BY <2>1, <3>3
      <4> QED BY <3>2, <4>1
    <3> QED BY <3>1, <3>3
  <2>5. recs' = [b \in Admin |-> recs'[b]] /\ Saved(snapshot)' /\ \A b \in Admin : Saved(recs'[b])
    BY <1>s, <2>1 DEF Saved
  <2>6. \A b \in Admin : pc'[b] = "load" => recs'[b] # None
    BY <1>s, <2>1, <2>3 DEF Thread
  <2>7. crossed' = [c \in Client |-> crossed'[c]]
    BY <1>s, <2>1
  <2>8. \A c \in Client : read[c] # None /\ ~crossed'[c] => ~crossed[c] /\ rows'[key[c]] = rows[key[c]]
    BY <2>1, <2>4
  <2> QED BY <2>1, <2>3, <2>4, <2>5, <2>6, <2>7, <2>8, ControlKeepsSeen
<1> QED BY <1>1, <1>2, <1>3, <1>4, <1>6, <1>7, <1>8, <1>9, <1>10 DEF Control

LEMMA UpdateStep ==
  ASSUME UpdateInv, [Next]_vars PROVE UpdateInv'
<1>1. CASE UNCHANGED vars
  BY <1>1 DEF vars, locals, adminLocals, seeding, UpdateInv, RowTypes, SeenInv, Reading, Live, Saved
<1>2. ASSUME NEW c \in Client, Serve(c) PROVE UpdateInv'
  BY <1>2, CreateKeepsSeen, ModifyKeepsSeen DEF Serve
<1>3. CASE Next
  BY <1>2, <1>3, CreateKeepsSeen, ModifyKeepsSeen, RemoveKeepsSeen, AdminKeepsSeen DEF Next
<1> QED BY <1>1, <1>3

\* The table changes while a modify ends only when that modify has stored its
\* row: it ends in a step of its own, and of those only Update writes.
LEMMA EndsWithUpdate ==
  ASSUME UpdateInv, Next, NEW c \in Client, pc[c] = "update", pc'[c] = "idle", rows' # rows
  PROVE  Update(c)
<1>t. c \in Thread /\ c \notin Admin
  BY SandboxAssumption DEF Thread
<1>g. pc \in [Thread -> Step]
  BY DEF UpdateInv, RowTypes
<1>1. ASSUME NEW t \in Thread, NEW step, Goto(t, step) PROVE t = c
  BY <1>t, <1>g, <1>1 DEF Goto
<1>2. ~ UNCHANGED pc
  OBVIOUS
<1>3. ASSUME NEW d \in Client, NEW k \in IdemKey \cup {None}, BeginCreate(d, k) PROVE FALSE
  BY <1>3 DEF BeginCreate
<1>4. ASSUME NEW d \in Client, NEW k \in Key, BeginModify(d, k) \/ Remove(d, k) PROVE FALSE
  BY <1>2, <1>4 DEF BeginModify, Remove
<1>5. ASSUME NEW d \in Client, Serve(d) PROVE Update(c)
  <2>1. d \in Thread
    BY DEF Thread
  <2>2. d = c
    <3>1. \E step : Goto(d, step)
      BY <1>5 DEF Serve, AllocateSeq, CheckQuota, Insert, Record, Answer,
                  CheckModifyQuota, Update, Conflict, Reread, EndModify
    <3> QED BY <1>1, <2>1, <3>1
  <2> QED BY <1>5, <2>2 DEF Serve, AllocateSeq, CheckQuota, Insert, Record, CheckModifyQuota,
                             Conflict, Reread
<1>6. ASSUME NEW a \in Admin, (\E k \in SeedKey : Seed(a, k)) \/ SeedNumbered(a) PROVE FALSE
  BY <1>2, <1>6 DEF Seed, SeedNumbered
<1>7. ASSUME NEW a \in Admin, Serialize(a) \/ RestoreClear(a) \/ ResetClear(a) \/ Control(a)
      PROVE FALSE
  <2>1. \E step : Goto(a, step)
    BY <1>7 DEF Serialize, RestoreClear, ResetClear, Control, KeepSnapshot, RestoreLoad, ResetTake,
                Reseed, ResetForget
  <2>2. a \in Thread
    BY DEF Thread
  <2> QED BY <1>1, <1>t, <2>1, <2>2
<1> QED BY <1>3, <1>4, <1>5, <1>6, <1>7 DEF Next

\* A modify that is answered 200 has overwritten exactly the row it read, as
\* long as that row was not deleted in between: between its read and its
\* compare-and-swap the version grows with every change of the row.
THEOREM NoUpdateLost == Spec => NoLostUpdate
<1>1. UpdateInv /\ [Next]_vars =>
        [\A c \in Client :
           pc[c] = "update" /\ rows' # rows /\ pc'[c] = "idle" =>
             crossed[c] \/ rows[key[c]] = read[c]]_vars
  <2> SUFFICES ASSUME UpdateInv, Next, NEW c \in Client,
                      pc[c] = "update", rows' # rows, pc'[c] = "idle", ~crossed[c]
               PROVE  rows[key[c]] = read[c]
    BY DEF vars
  <2>1. Update(c)
    BY EndsWithUpdate
  <2>2. read[c] # None
    BY DEF UpdateInv, SeenInv, Reading
  <2> QED BY <2>1, <2>2 DEF Update, UpdateInv, SeenInv
<1> QED BY <1>1, UpdateInit, UpdateStep, PTL DEF Spec, NoLostUpdate
=============================================================================
