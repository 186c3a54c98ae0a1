------------------------------ MODULE Sandbox ------------------------------
(***************************************************************************)
(* internal/sandbox: the stored resources of one sandbox under concurrent    *)
(* requests and control-plane calls.  SQLite has one connection, so one      *)
(* statement or transaction is one step; everything between two of them      *)
(* interleaves.  Creates with an Idempotency-Key hold idemMu from the check  *)
(* to the record; modifies read, compute and compare-and-swap the version;   *)
(* Reset and Restore clear the table in one step and fill it in later ones.  *)
(***************************************************************************)
EXTENDS Integers, FiniteSets

CONSTANTS
  Client,        \* goroutines that serve requests
  Admin,         \* goroutines that serve seed, snapshot, restore and reset
  Field,         \* the fields of a resource
  IdemKey,       \* Idempotency-Key values
  SeedKey,       \* the ids that seed items carry; some may be of the form
                 \* <type>_<n>, which creates use too: those are n here
  MaxResources,  \* quota.MaxResources
  MaxRetries,    \* maxModifyRetries
  MaxIdem,       \* maxIdemEntries
  MaxSeq,        \* model bound: resource numbers
  Target,        \* model bound: the resources that are modified
  MaxVersion,    \* model bound: the version a modify starts from
  MaxClears,     \* model bound: how often the table is cleared
  None

Thread == Client \cup Admin
Key == SeedKey \cup 1..MaxSeq

ASSUME SandboxAssumption ==
  /\ IsFiniteSet(Thread) /\ Client \cap Admin = {}
  /\  IsFiniteSet(SeedKey)
  /\ MaxResources \in Nat /\ MaxRetries \in Nat /\ MaxIdem \in Nat \ {0}
  /\ Target \subseteq Key /\ MaxSeq \in Nat /\ MaxVersion \in Nat /\ MaxClears \in Nat
  /\ None \notin Key \cup IdemKey \cup Thread

VARIABLES
  rows,        \* the table resources: each key's row, or None
  nextSeq,     \* sandboxes.next_resource_seq
  idem,        \* Engine.idem: the remembered Idempotency-Keys
  idemMu,      \* who holds Engine.idemMu
  seedItems,   \* seedState.items
  seedMu,      \* who holds seedState.mu across statements
  snapshot,    \* seedState.snapshots: the newest one, or None
  pc,          \* what each goroutine does next
  key,         \* the resource it works on
  idemKey,     \* a create's Idempotency-Key
  read,        \* the row a modify has read
  change,      \* the fields a modify sets, and whether it carries If-Match
  tries,       \* a modify's attempts so far
  crossed,     \* the row a modify has read was deleted since (model only)
  todo,        \* the seed items a reset still has to insert
  recs,        \* the records a restore will load
  epoch,       \* how often the table has been cleared (model only)
  uncounted    \* keys that a seed or a restore has put in (model only)

locals == <<key, idemKey, read, change, tries>>
seeding == <<seedItems, seedMu, snapshot>>
adminLocals == <<todo, recs>>
ghosts == <<epoch, uncounted>>
vars == <<rows, nextSeq, idem, idemMu, seeding, pc, locals, crossed, adminLocals, ghosts>>

\* A value is who wrote it: a seed or create ("made") or a client's modify.
Row == [val : [Field -> Client \cup {"made"}], version : Nat]

ASSUME RowAssumption == None \notin Row

Live == {k \in Key : rows[k] # None}
Fresh == [val |-> [f \in Field |-> "made"], version |-> 0]
Unchanging == [fields |-> {}, ifMatch |-> FALSE]

Init ==
  /\ rows = [k \in Key |-> None] /\ nextSeq = 1
  /\ idem = {} /\ idemMu = None
  /\ seedItems = {} /\ seedMu = None /\ snapshot = None
  /\ pc = [t \in Thread |-> "idle"]
  /\ key = [c \in Client |-> None] /\ idemKey = [c \in Client |-> None]
  /\ read = [c \in Client |-> None] /\ change = [c \in Client |-> Unchanging]
  /\ tries = [c \in Client |-> 0] /\ crossed = [c \in Client |-> FALSE]
  /\ todo = [a \in Admin |-> {}] /\ recs = [a \in Admin |-> None]
  /\ epoch = 0 /\ uncounted = {}

Goto(t, step) == pc' = [pc EXCEPT ![t] = step]

-----------------------------------------------------------------------------
(* doCreate *)

\* Model bound: there is a number left for another create or seed item.
NumberLeft == nextSeq + Cardinality({c \in Client : pc[c] = "seq"}) <= MaxSeq

\* Mutant of BeginCreate: the remembered keys are looked at without idemMu.
BeginCreateUnlocked(c, k) ==
  /\ pc[c] = "idle"
  /\ NumberLeft
  /\ k \notin idem
  /\ idemKey' = [idemKey EXCEPT ![c] = k]
  /\ Goto(c, "seq")
  /\ UNCHANGED <<rows, nextSeq, idem, idemMu, seeding, key, read, change, tries, crossed,
                 adminLocals, ghosts>>

\* A remembered key is answered from memory (idempotentReplayLocked) and
\* changes nothing; None is a request without the header.
BeginCreate(c, k) ==
  /\ pc[c] = "idle"
  /\ NumberLeft
  /\ k # None => idemMu = None /\ k \notin idem
  /\ idemMu' = IF k = None THEN idemMu ELSE c
  /\ idemKey' = [idemKey EXCEPT ![c] = k]
  /\ Goto(c, "seq")
  /\ UNCHANGED <<rows, nextSeq, idem, seeding, key, read, change, tries, crossed,
                 adminLocals, ghosts>>

AllocateSeq(c) ==
  /\ pc[c] = "seq"
  /\ key' = [key EXCEPT ![c] = nextSeq]
  /\ nextSeq' = nextSeq + 1
  /\ Goto(c, "quota")
  /\ UNCHANGED <<rows, idem, idemMu, seeding, idemKey, read, change, tries, crossed,
                 adminLocals, ghosts>>

\* The answer: the deferred Unlock.
Answer(c) ==
  /\ Goto(c, "idle")
  /\ idemMu' = IF idemMu = c THEN None ELSE idemMu
  /\ key' = [key EXCEPT ![c] = None]
  /\ idemKey' = [idemKey EXCEPT ![c] = None]

\* Mutant of CheckQuota: the count is compared before the new resource is in it.
CheckQuotaOffByOne(c) ==
  /\ pc[c] = "quota"
  /\ IF Cardinality(Live) > MaxResources
     THEN Answer(c)
     ELSE Goto(c, "insert") /\ UNCHANGED <<idemMu, key, idemKey>>
  /\ UNCHANGED <<rows, nextSeq, idem, seeding, read, change, tries, crossed, adminLocals, ghosts>>

\* Mutant of CheckQuota: a refused create keeps idemMu.
CheckQuotaKeepsLock(c) ==
  /\ pc[c] = "quota"
  /\ Goto(c, IF Cardinality(Live) + 1 > MaxResources THEN "idle" ELSE "insert")
  /\ UNCHANGED <<rows, nextSeq, idem, idemMu, seeding, locals, crossed, adminLocals, ghosts>>

\* Totals and quotaGuard: 507 when the table is full.
CheckQuota(c) ==
  /\ pc[c] = "quota"
  /\ IF Cardinality(Live) + 1 > MaxResources
     THEN Answer(c)
     ELSE Goto(c, "insert") /\ UNCHANGED <<idemMu, key, idemKey>>
  /\ UNCHANGED <<rows, nextSeq, idem, seeding, read, change, tries, crossed, adminLocals, ghosts>>

\* A key that is taken breaks the UNIQUE constraint: 500.
Insert(c) ==
  /\ pc[c] = "insert"
  /\ IF key[c] \in Live
     THEN Answer(c) /\ UNCHANGED rows
     ELSE /\ rows' = [rows EXCEPT ![key[c]] = Fresh]
          /\ Goto(c, "record")
          /\ UNCHANGED <<idemMu, key, idemKey>>
  /\ UNCHANGED <<nextSeq, idem, seeding, read, change, tries, crossed, adminLocals, ghosts>>

\* recordIdempotencyLocked: a full map forgets any one of its keys.
Record(c) ==
  /\ pc[c] = "record"
  /\ IF idemKey[c] = None
     THEN UNCHANGED idem
     ELSE \E victims \in IF Cardinality(idem) >= MaxIdem THEN {{v} : v \in idem} ELSE {{}} :
            idem' = (idem \ victims) \cup {idemKey[c]}
  /\ Answer(c)
  /\ UNCHANGED <<rows, nextSeq, seeding, read, change, tries, crossed, adminLocals, ghosts>>

-----------------------------------------------------------------------------
(* doModify, doRemove *)

\* PUT sets every field, PATCH some.  A request whose If-Match differs from
\* the version is answered 412 here and changes nothing.
BeginModify(c, k) ==
  /\ pc[c] = "idle"
  /\ k \in Live \cap Target
  /\ rows[k].version < MaxVersion
  /\ \E fields \in {{f} : f \in Field} \cup {Field}, ifMatch \in BOOLEAN :
       change' = [change EXCEPT ![c] = [fields |-> fields, ifMatch |-> ifMatch]]
  /\ key' = [key EXCEPT ![c] = k]
  /\ read' = [read EXCEPT ![c] = rows[k]]
  /\ crossed' = [crossed EXCEPT ![c] = FALSE]
  /\ Goto(c, "totals")
  /\ UNCHANGED <<rows, nextSeq, idem, idemMu, seeding, idemKey, tries, adminLocals, ghosts>>

Modified(c) ==
  [val |-> [f \in Field |-> IF f \in change[c].fields THEN c
                            ELSE read[c].val[f]],
   version |-> rows[key[c]].version + 1]

EndModify(c) ==
  /\ Goto(c, "idle")
  /\ key' = [key EXCEPT ![c] = None]
  /\ read' = [read EXCEPT ![c] = None]
  /\ change' = [change EXCEPT ![c] = Unchanging]
  /\ tries' = [tries EXCEPT ![c] = 0]
  /\ crossed' = [crossed EXCEPT ![c] = FALSE]

\* quotaGuard again: a table above its quota refuses modifies too.
CheckModifyQuota(c) ==
  /\ pc[c] = "totals"
  /\ IF Cardinality(Live) > MaxResources
     THEN EndModify(c)
     ELSE Goto(c, "update") /\ UNCHANGED <<key, read, change, tries, crossed>>
  /\ UNCHANGED <<rows, nextSeq, idem, idemMu, seeding, idemKey, adminLocals, ghosts>>

\* Mutant of Update: the version is not compared.
UpdateUnchecked(c) ==
  /\ pc[c] = "update"
  /\ key[c] \in Live
  /\ rows' = [rows EXCEPT ![key[c]] = Modified(c)]
  /\ EndModify(c)
  /\ UNCHANGED <<nextSeq, idem, idemMu, seeding, idemKey, adminLocals, ghosts>>

\* Store.Update with the version that was read: 404 when the row is gone.
Update(c) ==
  /\ pc[c] = "update"
  /\ key[c] \in Live => rows[key[c]].version = read[c].version
  /\ rows' = IF key[c] \in Live THEN [rows EXCEPT ![key[c]] = Modified(c)] ELSE rows
  /\ EndModify(c)
  /\ UNCHANGED <<nextSeq, idem, idemMu, seeding, idemKey, adminLocals, ghosts>>

\* ErrConflict: again from the read, unless the client named the version or
\* the attempts are used up; then 412.
Conflict(c) ==
  /\ pc[c] = "update"
  /\ key[c] \in Live /\ rows[key[c]].version # read[c].version
  /\ IF change[c].ifMatch \/ tries[c] >= MaxRetries
     THEN EndModify(c)
     ELSE Goto(c, "reread") /\ UNCHANGED <<key, read, change, tries, crossed>>
  /\ UNCHANGED <<rows, nextSeq, idem, idemMu, seeding, idemKey, adminLocals, ghosts>>

Reread(c) ==
  /\ pc[c] = "reread"
  /\ IF key[c] \in Live
     THEN /\ read' = [read EXCEPT ![c] = rows[key[c]]]
          /\ tries' = [tries EXCEPT ![c] = @ + 1]
          /\ crossed' = [crossed EXCEPT ![c] = FALSE]
          /\ Goto(c, "totals")
          /\ UNCHANGED <<key, change>>
     ELSE EndModify(c)
  /\ UNCHANGED <<rows, nextSeq, idem, idemMu, seeding, idemKey, adminLocals, ghosts>>

Remove(c, k) ==
  /\ pc[c] = "idle"
  /\ k \in Live
  /\ rows' = [rows EXCEPT ![k] = None]
  /\ crossed' = [d \in Client |-> crossed[d] \/ (read[d] # None /\ key[d] = k)]
  /\ UNCHANGED <<nextSeq, idem, idemMu, seeding, pc, locals, adminLocals, ghosts>>

-----------------------------------------------------------------------------
(* Seed, Snapshot, Restore, Reset *)

\* seedOne under seeding.mu, an item that carries its id; one that is taken
\* is refused.  A call with several items does this for each.
Seed(a, k) ==
  /\ pc[a] = "idle" /\ seedMu = None
  /\ k \notin Live
  /\ rows' = [rows EXCEPT ![k] = Fresh]
  /\ seedItems' = seedItems \cup {k}
  /\ uncounted' = uncounted \cup {k}
  /\ UNCHANGED <<nextSeq, idem, idemMu, seedMu, snapshot, pc, locals, crossed, adminLocals, epoch>>

\* An item without an id takes the next number and keeps it as its id.  (The
\* number is used up, too, when a seed item has chosen it before: refused.)
SeedNumbered(a) ==
  /\ pc[a] = "idle" /\ seedMu = None
  /\ NumberLeft
  /\ nextSeq' = nextSeq + 1
  /\ IF nextSeq \in Live
     THEN UNCHANGED <<rows, seedItems, uncounted>>
     ELSE /\ rows' = [rows EXCEPT ![nextSeq] = Fresh]
          /\ seedItems' = seedItems \cup {nextSeq}
          /\ uncounted' = uncounted \cup {nextSeq}
  /\ UNCHANGED <<idem, idemMu, seedMu, snapshot, pc, locals, crossed, adminLocals, epoch>>

\* Snapshot serializes the attributes, not the versions, before it takes the
\* lock to keep them.
Serialize(a) ==
  /\ pc[a] = "idle"
  /\ recs' = [recs EXCEPT ![a] = [k \in Live |-> rows[k].val]]
  /\ Goto(a, "keep")
  /\ UNCHANGED <<rows, nextSeq, idem, idemMu, seeding, locals, crossed, todo, ghosts>>

KeepSnapshot(a) ==
  /\ pc[a] = "keep" /\ seedMu = None
  /\ snapshot' = recs[a]
  /\ recs' = [recs EXCEPT ![a] = None]
  /\ Goto(a, "idle")
  /\ UNCHANGED <<rows, nextSeq, idem, idemMu, seedItems, seedMu, locals, crossed, todo, ghosts>>

\* Mutant of Clear: the numbers start again.
ClearNumbers ==
  /\ epoch < MaxClears
  /\ epoch' = epoch + 1
  /\ rows' = [k \in Key |-> None]
  /\ nextSeq' = 1
  /\ uncounted' = {}
  /\ crossed' = [c \in Client |-> read[c] # None]

\* Store.Clear deletes the rows; next_resource_seq goes on.
Clear ==
  /\ epoch < MaxClears
  /\ epoch' = epoch + 1
  /\ rows' = [k \in Key |-> None]
  /\ uncounted' = {}
  /\ crossed' = [c \in Client |-> read[c] # None]
  /\ UNCHANGED nextSeq

RestoreClear(a) ==
  /\ pc[a] = "idle" /\ seedMu = None
  /\ snapshot # None
  /\ Clear
  /\ recs' = [recs EXCEPT ![a] = snapshot]
  /\ Goto(a, "load")
  /\ UNCHANGED <<idem, idemMu, seeding, locals, todo>>

\* Store.Load: one transaction, which a key that is taken rolls back.
RestoreLoad(a) ==
  /\ pc[a] = "load"
  /\ IF DOMAIN recs[a] \cap Live # {}
     THEN UNCHANGED <<rows, uncounted>>
     ELSE /\ rows' = [k \in Key |-> IF k \in DOMAIN recs[a]
                                   THEN [val |-> recs[a][k], version |-> 0]
                                   ELSE rows[k]]
          /\ uncounted' = uncounted \cup DOMAIN recs[a]
  /\ recs' = [recs EXCEPT ![a] = None]
  /\ Goto(a, "idle")
  /\ UNCHANGED <<nextSeq, idem, idemMu, seeding, locals, crossed, todo, epoch>>

ResetClear(a) ==
  /\ pc[a] = "idle"
  /\ Clear
  /\ Goto(a, "take")
  /\ UNCHANGED <<idem, idemMu, seeding, locals, adminLocals>>

\* The items leave seedState before Seed puts them back, one by one.
ResetTake(a) ==
  /\ pc[a] = "take" /\ seedMu = None
  /\ todo' = [todo EXCEPT ![a] = seedItems]
  /\ seedItems' = {}
  /\ Goto(a, IF seedItems = {} THEN "forget" ELSE "reseed")
  /\ UNCHANGED <<rows, nextSeq, idem, idemMu, seedMu, snapshot, locals, crossed, recs, ghosts>>

Reseed(a) ==
  /\ pc[a] = "reseed" /\ seedMu \in {None, a}
  /\ \E k \in todo[a] :
       IF k \in Live
       THEN \* Seed fails, Reset returns its error, the other items are gone
            /\ todo' = [todo EXCEPT ![a] = {}]
            /\ seedMu' = None
            /\ Goto(a, "idle")
            /\ UNCHANGED <<rows, seedItems, uncounted>>
       ELSE /\ rows' = [rows EXCEPT ![k] = Fresh]
            /\ seedItems' = seedItems \cup {k}
            /\ uncounted' = uncounted \cup {k}
            /\ todo' = [todo EXCEPT ![a] = @ \ {k}]
            /\ seedMu' = IF todo[a] = {k} THEN None ELSE a
            /\ Goto(a, IF todo[a] = {k} THEN "forget" ELSE "reseed")
  /\ UNCHANGED <<nextSeq, idem, idemMu, snapshot, locals, crossed, recs, epoch>>

\* Reset's last section forgets the idempotency keys under idemMu.
ResetForget(a) ==
  /\ pc[a] = "forget" /\ idemMu = None
  /\ idem' = {}
  /\ Goto(a, "idle")
  /\ UNCHANGED <<rows, nextSeq, idemMu, seeding, locals, crossed, adminLocals, ghosts>>

-----------------------------------------------------------------------------
Serve(c) ==
  \/ AllocateSeq(c) \/ CheckQuota(c) \/ Insert(c) \/ Record(c)
  \/ CheckModifyQuota(c) \/ Update(c) \/ Conflict(c) \/ Reread(c)

Control(a) == KeepSnapshot(a) \/ RestoreLoad(a) \/ ResetTake(a) \/ Reseed(a) \/ ResetForget(a)

Next ==
  \/ \E c \in Client, k \in IdemKey \cup {None} : BeginCreate(c, k)
  \/ \E c \in Client, k \in Key : BeginModify(c, k) \/ Remove(c, k)
  \/ \E c \in Client : Serve(c)
  \/ \E a \in Admin, k \in SeedKey : Seed(a, k)
  \/ \E a \in Admin : SeedNumbered(a) \/ Serialize(a) \/ RestoreClear(a) \/ ResetClear(a) \/ Control(a)

Spec == Init /\ [][Next]_vars

\* A goroutine that can step does; a Go mutex hands itself to whoever has
\* waited for it too long.
FairSpec == Spec /\ (\A c \in Client : WF_vars(Serve(c))) /\ (\A a \in Admin : SF_vars(Control(a)))

-----------------------------------------------------------------------------
(* Properties *)

\* Two requests with one Idempotency-Key never create two resources: no
\* create inserts under a key that another one has recorded since it looked.
KeyCreatesOnce ==
  [][\A c \in Client : pc[c] = "insert" /\ pc'[c] = "record" => idemKey[c] \notin idem]_vars

\* A modify that is answered 200 overwrites exactly the row it has merged
\* into, as long as that row was not deleted in between (a new one under the
\* same key starts at version 0 again): no update is lost.
NoLostUpdate ==
  [][\A c \in Client :
       pc[c] = "update" /\ rows' # rows /\ pc'[c] = "idle" =>
         crossed[c] \/ rows[key[c]] = read[c]]_vars

\* The number a create has allocated is nobody else's: no stored or saved
\* resource and no other create has it, unless a seed item chose it.
FreshNumbers ==
  \A c \in Client : pc[c] \in {"quota", "insert"} /\ key[c] \notin SeedKey =>
    /\ key[c] \notin Live
    /\ snapshot # None => key[c] \notin DOMAIN snapshot
    /\ \A d \in Client \ {c} : pc[d] \in {"quota", "insert"} => key[d] # key[c]

\* Creates that race past the quota exceed it by at most one resource each;
\* seeds and restores do not look at it.
QuotaOvershoot ==
  Cardinality(Live \ uncounted) <= MaxResources + Cardinality(Client) - 1

\* Every request and every control-plane call is answered: idemMu and the
\* seed lock come back on every path, the refused ones too.
EverythingAnswers == \A t \in Thread : (pc[t] # "idle") ~> (pc[t] = "idle")
=============================================================================
