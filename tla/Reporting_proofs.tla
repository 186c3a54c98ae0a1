-------------------------- MODULE Reporting_proofs --------------------------
(***************************************************************************)
(* Proofs about what the agent reports and how.  First SpecWatch, which finds *)
(* the changes of the providers' documents: for any checkers, sources,        *)
(* documents, crashes, faults and resets, that a change is only forgotten     *)
(* about once it was reported, that recordChange finds its entry, and that no *)
(* check moves a pin.  Then Alerter, which every finding goes through: for    *)
(* any fingerprints, goroutines and capacities.                               *)
(***************************************************************************)
EXTENDS SpecWatch, Alerter, FiniteSetTheorems, TLAPS

Place == {"idle", "begin", "fetch", "remember", "pin", "save", "journal", "report", "record",
          "persist"}
KnownEntry == [etag : Doc \cup {None}, hash : Good \cup {None}, due : BOOLEAN]
Held == [etag : Doc \cup {None}, hash : Good \cup {None}, doc : Good \cup {None},
         pin : Good \cup {None}]

-----------------------------------------------------------------------------
(* SpecWatch: the inductive invariant *)

WorldInv ==
  /\ provider \in [Upstream -> Doc] /\ tagged \in BOOLEAN
  /\ configured \in [Upstream -> Good \cup {None}]
  /\ pinFile \in [Upstream -> Good \cup {None}]
  /\ resetting \in Upstream \cup {None} /\ damaged \subseteq Upstream
  /\ reported \cup unjournaled \subseteq Upstream \X Good \X Good
  /\ documented \in [Upstream -> Seq(Good \X Good)]

EntryInv ==
  /\ state \in [Upstream -> KnownEntry \cup {None}]
  /\ stateFile \in [Upstream -> KnownEntry \cup {None}]

CheckerInv ==
  /\ stage \in [Checker -> Place] /\ index \in [Checker -> Nat] /\ local \in [Checker -> Held]
  /\ \A k \in Checker :
       /\ stage[k] # "idle" => index[k] \in 1 .. Len(Sources) + 1
       /\ stage[k] \notin {"idle", "persist"} => index[k] \in 1 .. Len(Sources)

\* The flag lets one check in at a time.
OneInv ==
  /\ checking = (\E k \in Checker : stage[k] # "idle")
  /\ \A j, k \in Checker : stage[j] # "idle" /\ stage[k] # "idle" => j = k

\* What a checker holds fits the entry it is about to write or to report.
HandInv ==
  \A k \in Checker :
    /\ stage[k] \in {"fetch", "remember", "pin", "save", "journal", "report", "record"} =>
         state[Of(k)] # None
    /\ stage[k] \in {"remember", "pin", "save", "journal", "report"} => local[k].doc \in Good
    /\ stage[k] \in {"pin", "save", "journal", "report"} => state[Of(k)].hash = local[k].doc
    /\ stage[k] = "report" => Noted(Of(k), local[k].pin, local[k].doc)
    /\ stage[k] \in {"journal", "report"} =>
         /\ local[k].pin \in Good
         /\ \/ Of(k) \in damaged
            \/ PinFor(Of(k)) = None
            \/ local[k].pin = PinFor(Of(k))
    /\ stage[k] = "save" =>
         /\ configured[Of(k)] = None
         /\ Of(k) \in damaged \/ pinFile[Of(k)] = None

\* KnownIsReported for the entries in memory, but for the one a checker is at.
MemoryInv ==
  \A u \in Upstream \ damaged :
    (state[u] # None /\ state[u].hash # None /\ PinFor(u) # None) =>
      \/ state[u].hash = PinFor(u)
      \/ Told(u, PinFor(u), state[u].hash)
      \/ \E k \in Checker : stage[k] \in {"pin", "journal", "report"} /\ Of(k) = u

\* A pin that was taken away has taken its entry along.
ResetInv ==
  \A u \in Upstream \ damaged :
    (configured[u] = None /\ pinFile[u] = None) =>
      \/ stateFile[u] = None
      \/ stateFile[u].hash = None
      \/ resetting = u

WatchInv ==
  /\ WorldInv /\ EntryInv /\ CheckerInv /\ OneInv
  /\ HandInv /\ MemoryInv /\ KnownIsReported /\ ResetInv

-----------------------------------------------------------------------------
(* SpecWatch: lemmas *)

LEMMA SourceIsUpstream ==
  ASSUME NEW i \in 1 .. Len(Sources)
  PROVE  Sources[i] \in Upstream
BY SpecWatchAssumption DEF Upstream

LEMMA LenIsNat == Len(Sources) \in Nat /\ Len(Sources) >= 1
BY SpecWatchAssumption

\* What a checked, a remembered and an overdue entry are.
LEMMA EntryFacts ==
  ASSUME NEW r \in KnownEntry, NEW h \in Good \cup {None}, NEW e \in Doc \cup {None}, NEW b \in BOOLEAN
  PROVE  /\ [r EXCEPT !.due = b] \in KnownEntry /\ [r EXCEPT !.due = b].hash = r.hash
         /\ [r EXCEPT !.etag = e] \in KnownEntry /\ [r EXCEPT !.etag = e].hash = r.hash
         /\ [r EXCEPT !.hash = h, !.etag = e] \in KnownEntry
         /\ [r EXCEPT !.hash = h, !.etag = e].hash = h
BY DEF KnownEntry

\* The entry a checker works on: its own in the map, or a new one.
LEMMA EntryKnown ==
  ASSUME EntryInv, NEW u \in Upstream
  PROVE  Entry(u) \in KnownEntry /\ (state[u] # None => Entry(u) = state[u])
BY DEF EntryInv, Entry, FreshEntry, KnownEntry

\* Writing an entry changes that one only, and adds none.
LEMMA WriteFacts ==
  ASSUME EntryInv, NEW u \in Upstream, NEW st \in KnownEntry, Write(u, st)
  PROVE  /\ state' \in [Upstream -> KnownEntry \cup {None}]
         /\ \A v \in Upstream : v # u => state'[v] = state[v]
         /\ state[u] = None => state'[u] = None
         /\ state[u] # None => state'[u] = st
BY DEF EntryInv, Write

THEOREM InitInv == WatchInit => WatchInv
<1> SUFFICES ASSUME WatchInit PROVE WatchInv
  OBVIOUS
<1> USE SpecWatchAssumption
<1>1. WorldInv
  BY DEF WatchInit, WorldInv, Good
<1>2. EntryInv /\ OneInv /\ HandInv /\ MemoryInv /\ KnownIsReported /\ ResetInv
  BY DEF WatchInit, EntryInv, OneInv, HandInv, MemoryInv, KnownIsReported, ResetInv
<1>3. CheckerInv
  BY DEF WatchInit, CheckerInv, Place, Held, NoLocal
<1> QED BY <1>1, <1>2, <1>3 DEF WatchInv

-----------------------------------------------------------------------------
(* SpecWatch: every step keeps the types *)

\* One checker moves and stays at work.
LEMMA MoveKeepsOne ==
  ASSUME CheckerInv, OneInv, NEW k \in Checker, stage[k] # "idle", NEW p \in Place, p # "idle",
         stage' = [stage EXCEPT ![k] = p], checking' = checking
  PROVE  OneInv'
BY DEF CheckerInv, OneInv

\* ... within its source.
LEMMA MoveKeepsChecker ==
  ASSUME CheckerInv, NEW k \in Checker, stage[k] \notin {"idle", "persist"},
         NEW p \in Place, stage' = [stage EXCEPT ![k] = p], index' = index, local' \in [Checker -> Held]
  PROVE  CheckerInv'
BY DEF CheckerInv

\* ... or goes on to the next.
LEMMA NextSourceKeeps ==
  ASSUME CheckerInv, OneInv, NEW k \in Checker, stage[k] \notin {"idle", "persist"}, NextSource(k),
         checking' = checking
  PROVE  /\ CheckerInv' /\ OneInv'
         /\ \E p \in {"begin", "persist"} : stage' = [stage EXCEPT ![k] = p]
         /\ index' = [index EXCEPT ![k] = index[k] + 1]
         /\ local' = [local EXCEPT ![k] = NoLocal]
<1> DEFINE p == IF index[k] < Len(Sources) THEN "begin" ELSE "persist"
<1>1. /\ stage' = [stage EXCEPT ![k] = p] /\ index' = [index EXCEPT ![k] = index[k] + 1]
      /\ local' = [local EXCEPT ![k] = NoLocal]
  BY DEF NextSource, MoveTo
<1>2. OneInv'
  BY <1>1, MoveKeepsOne DEF Place
<1>3. NoLocal \in Held
  BY DEF NoLocal, Held
<1>4. index[k] \in 1 .. Len(Sources) /\ Len(Sources) \in Nat
  BY LenIsNat DEF CheckerInv
<1>5. CheckerInv'
  <2>1. /\ stage' \in [Checker -> Place] /\ index' \in [Checker -> Nat] /\ local' \in [Checker -> Held]
    BY <1>1, <1>3, <1>4 DEF CheckerInv, Place
  <2>2. /\ index[k] + 1 \in 1 .. Len(Sources) + 1
        /\ p = "begin" => index[k] + 1 \in 1 .. Len(Sources)
    BY <1>4
  <2> QED BY <1>1, <2>1, <2>2 DEF CheckerInv
<1> QED BY <1>1, <1>2, <1>5

Types == WorldInv /\ EntryInv /\ CheckerInv /\ OneInv

LEMMA OfIsUpstream ==
  ASSUME CheckerInv, NEW k \in Checker, stage[k] \notin {"idle", "persist"}
  PROVE  Of(k) \in Upstream
BY SourceIsUpstream DEF CheckerInv, Of

Entries(journal) == {journal[i] : i \in DOMAIN journal}

\* What a change adds to a journal, and what the cap takes from it.
LEMMA WithFacts ==
  ASSUME NEW S, NEW journal \in Seq(S), NEW c \in S
  PROVE  /\ With(journal, c) \in Seq(S) /\ With(journal, c) # <<>>
         /\ Entries(With(journal, c)) = Entries(journal) \cup {c}
<1> USE DEF Entries
<1>1. CASE \E i \in DOMAIN journal : journal[i] = c
  BY <1>1 DEF With
<1>2. CASE ~ \E i \in DOMAIN journal : journal[i] = c
  <2>1. With(journal, c) = Append(journal, c)
    BY <1>2 DEF With
  <2>2. /\ Append(journal, c) \in Seq(S) /\ Len(Append(journal, c)) = Len(journal) + 1
        /\ DOMAIN Append(journal, c) = 1 .. Len(journal) + 1 /\ DOMAIN journal = 1 .. Len(journal)
        /\ \A i \in 1 .. Len(journal) : Append(journal, c)[i] = journal[i]
        /\ Append(journal, c)[Len(journal) + 1] = c /\ Len(journal) \in Nat
    OBVIOUS
  <2> QED BY <2>1, <2>2
<1> QED BY <1>1, <1>2

LEMMA CappedFacts ==
  ASSUME NEW S, NEW journal \in Seq(S), journal # <<>>
  PROVE  /\ Capped(journal) \in Seq(S)
         /\ Len(journal) > JournalCap => journal[1] \in S
         /\ \A i \in DOMAIN journal :
              \/ journal[i] \in Entries(Capped(journal))
              \/ Len(journal) > JournalCap /\ journal[i] = journal[1]
<1> USE DEF Entries
<1>1. CASE Len(journal) > JournalCap
  <2>1. /\ Tail(journal) \in Seq(S) /\ Len(Tail(journal)) = Len(journal) - 1
        /\ DOMAIN Tail(journal) = 1 .. Len(journal) - 1 /\ DOMAIN journal = 1 .. Len(journal)
        /\ \A i \in 1 .. Len(journal) - 1 : Tail(journal)[i] = journal[i + 1]
        /\ Len(journal) \in Nat /\ Len(journal) >= 1 /\ journal[1] \in S
    OBVIOUS
  <2>2. \A i \in 2 .. Len(journal) :
          i - 1 \in DOMAIN Tail(journal) /\ Tail(journal)[i - 1] = journal[i]
    BY <2>1
  <2>3. \A i \in DOMAIN journal : i = 1 \/ i \in 2 .. Len(journal)
    BY <2>1
  <2> QED BY <1>1, <2>1, <2>2, <2>3 DEF Capped
<1>2. CASE ~(Len(journal) > JournalCap)
  BY <1>2 DEF Capped
<1> QED BY <1>1, <1>2

LostFrom(u, S) == unjournaled' = unjournaled \cup {<<u, c[1], c[2]>> : c \in S}

Replaced(u, change, new, S) ==
  /\ documented' = [documented EXCEPT ![u] = new] /\ LostFrom(u, S)
  /\ \A c \in Entries(documented[u]) \cup {change} : c \in Entries(new) \/ c \in S
NotesKept(u, change) ==
  /\ documented' \in [Upstream -> Seq(Good \X Good)]
  /\ unjournaled' \subseteq unjournaled \cup (Upstream \X Good \X Good)
  /\ \A v \in Upstream : \A p, d : Noted(v, p, d) => Noted(v, p, d)'
  /\ change \in Journaled(u)' \/ <<u, change[1], change[2]>> \in unjournaled'

\* A journal is replaced by another, and what that one lacks, if only the change
\* of the moment, is counted as unjournaled.
LEMMA NewJournalNotes ==
  ASSUME documented \in [Upstream -> Seq(Good \X Good)],
         NEW u \in Upstream, NEW change \in Good \X Good,
         NEW new \in Seq(Good \X Good), NEW S \in SUBSET (Good \X Good),
         Replaced(u, change, new, S)
  PROVE  NotesKept(u, change)
<1> USE DEF Replaced, NotesKept
<1>1. /\ documented' \in [Upstream -> Seq(Good \X Good)] /\ documented'[u] = new
      /\ \A v \in Upstream : v # u => documented'[v] = documented[v]
  OBVIOUS
<1>2. /\ unjournaled \subseteq unjournaled'
      /\ unjournaled' \subseteq unjournaled \cup (Upstream \X Good \X Good)
      /\ \A c \in S : <<u, c[1], c[2]>> \in unjournaled'
  BY DEF LostFrom
<1>3. \A p, d : <<p, d>> \in S => <<u, p, d>> \in unjournaled'
  BY <1>2
<1>4. Journaled(u) = Entries(documented[u]) /\ Journaled(u)' = Entries(new)
  BY <1>1 DEF Journaled, Entries
<1>5. ASSUME NEW v \in Upstream, NEW p, NEW d, Noted(v, p, d)
      PROVE  Noted(v, p, d)'
  <2>1. CASE v = u
    BY <1>2, <1>3, <1>4, <1>5, <2>1 DEF Noted
  <2>2. CASE v # u
    <3>1. Journaled(v)' = Journaled(v)
      BY <1>1, <2>2 DEF Journaled
    <3> QED BY <1>2, <1>5, <3>1 DEF Noted
  <2> QED BY <2>1, <2>2
<1> QED BY <1>1, <1>2, <1>4, <1>5

\* Whatever becomes of the journal's file, an entry that leaves it and a change
\* that does not get into it are among the unjournaled ones.
LEMMA JournalNotes ==
  ASSUME NEW k \in Checker, Journal(k), Of(k) \in Upstream, local[k].pin \in Good,
         local[k].doc \in Good, documented \in [Upstream -> Seq(Good \X Good)]
  PROVE  /\ documented' \in [Upstream -> Seq(Good \X Good)]
         /\ unjournaled' \subseteq unjournaled \cup (Upstream \X Good \X Good)
         /\ \A v \in Upstream : \A p, d : Noted(v, p, d) => Noted(v, p, d)'
         /\ <<local[k].pin, local[k].doc>> \in Additive =>
              \/ <<local[k].pin, local[k].doc>> \in Journaled(Of(k))'
              \/ <<Of(k), local[k].pin, local[k].doc>> \in unjournaled'
<1> DEFINE u == Of(k)
           change == <<local[k].pin, local[k].doc>>
           old == documented[u]
           longer == With(old, change)
           gone == IF Len(longer) > JournalCap THEN {longer[1]} ELSE {}
<1>1. /\ u \in Upstream /\ change \in Good \X Good /\ old \in Seq(Good \X Good)
      /\ change[1] = local[k].pin /\ change[2] = local[k].doc
  OBVIOUS
<1>2. \/ change \notin Additive /\ UNCHANGED <<documented, unjournaled>>
      \/ documented' = [documented EXCEPT ![u] = Capped(longer)] /\ LostFrom(u, gone)
      \/ documented' = [documented EXCEPT ![u] = <<change>>] /\ LostFrom(u, Entries(old) \ {change})
      \/ documented' = documented /\ LostFrom(u, {change})
  BY DEF Journal, Journaled, LostFrom, Entries
<1> HIDE DEF old, change
<1>3. longer \in Seq(Good \X Good) /\ longer # <<>> /\ Entries(longer) = Entries(old) \cup {change}
  BY <1>1, WithFacts
<1> HIDE DEF longer
<1>4. /\ Capped(longer) \in Seq(Good \X Good)
      /\ Len(longer) > JournalCap => longer[1] \in Good \X Good
      /\ \A i \in DOMAIN longer :
           \/ longer[i] \in Entries(Capped(longer))
           \/ Len(longer) > JournalCap /\ longer[i] = longer[1]
  BY <1>3, CappedFacts
<1>5. CASE change \notin Additive /\ UNCHANGED <<documented, unjournaled>>
  BY <1>5 DEF Noted, Journaled, change
<1>6. ASSUME NotesKept(u, change)
      PROVE  /\ documented' \in [Upstream -> Seq(Good \X Good)]
             /\ unjournaled' \subseteq unjournaled \cup (Upstream \X Good \X Good)
             /\ \A v \in Upstream : \A p, d : Noted(v, p, d) => Noted(v, p, d)'
             /\ \/ <<local[k].pin, local[k].doc>> \in Journaled(u)'
                \/ <<u, local[k].pin, local[k].doc>> \in unjournaled'
  BY <1>1, <1>6 DEF NotesKept, change
<1>7. CASE documented' = [documented EXCEPT ![u] = Capped(longer)] /\ LostFrom(u, gone)
  <2>1. gone \subseteq Good \X Good
    BY <1>4
  <2>2. \A c \in Entries(longer) : c \in Entries(Capped(longer)) \/ c \in gone
    BY <1>4 DEF Entries
  <2>3. Replaced(u, change, Capped(longer), gone)
    BY <1>3, <1>7, <2>2 DEF Replaced, old
  <2> HIDE DEF gone
  <2>4. NotesKept(u, change)
    BY <1>1, <1>4, <2>1, <2>3, NewJournalNotes
  <2> QED BY <1>6, <2>4
<1>8. CASE documented' = [documented EXCEPT ![u] = <<change>>] /\ LostFrom(u, Entries(old) \ {change})
  <2>1. <<change>> \in Seq(Good \X Good) /\ change \in Entries(<<change>>)
    BY <1>1 DEF Entries
  <2>2. Entries(old) \ {change} \subseteq Good \X Good
    BY <1>1 DEF Entries
  <2>3. Replaced(u, change, <<change>>, Entries(old) \ {change})
    BY <1>8, <2>1 DEF Replaced, old
  <2>4. NotesKept(u, change)
    BY <1>1, <2>1, <2>2, <2>3, NewJournalNotes
  <2> QED BY <1>6, <2>4
<1>9. CASE documented' = documented /\ LostFrom(u, {change})
  <2>1. documented' = [documented EXCEPT ![u] = old]
    BY <1>9 DEF old
  <2>2. Replaced(u, change, old, {change})
    BY <1>9, <2>1 DEF Replaced, old
  <2>3. NotesKept(u, change)
    BY <1>1, <2>2, NewJournalNotes
  <2> QED BY <1>6, <2>3
<1> QED BY <1>2, <1>5, <1>7, <1>8, <1>9

\* The steps of a checker within its loop keep the types.
LEMMA LoopKeepsTypes ==
  ASSUME Types, HandInv, NEW k \in Checker,
         \/ Begin(k) \/ FetchFails(k) \/ Fetch(k) \/ Remember(k) \/ LoadPin(k)
         \/ SavePin(k) \/ SavePinFails(k) \/ Journal(k) \/ ReportChange(k) \/ RecordChange(k)
  PROVE  Types'
<1> USE DEF Types
<1>0. stage[k] \notin {"idle", "persist"}
  BY DEF Begin, FetchFails, Fetch, Remember, LoadPin, SavePin, SavePinFails, Journal, ReportChange,
     RecordChange
<1> DEFINE u == Of(k)
<1>u. u \in Upstream
  BY <1>0, OfIsUpstream
<1>e. Entry(u) \in KnownEntry
  BY <1>u, EntryKnown
<1>l. local[k] \in Held
  BY DEF CheckerInv
<1> HIDE DEF u
<1>1. CASE Begin(k)
  <2> DEFINE st == IF state[u] = None THEN FreshEntry ELSE state[u]
  <2>1. st \in KnownEntry
    BY <1>e DEF Entry
  <2>2. state' = [state EXCEPT ![u] = st] /\ WorldInv' /\ UNCHANGED stateFile /\ checking' = checking
    BY <1>1 DEF Begin, u, WorldInv, files, world
  <2>3. EntryInv'
    BY <2>1, <2>2, <1>u DEF EntryInv
  <2>4. CASE ~st.due
    BY <1>0, <1>1, <2>2, <2>3, <2>4, NextSourceKeeps DEF Begin, u
  <2>5. CASE st.due
    <3>1. stage' = [stage EXCEPT ![k] = "fetch"] /\ index' = index
      BY <1>1, <2>5 DEF Begin, MoveTo, u
    <3>2. local' = [local EXCEPT ![k] = [NoLocal EXCEPT !.etag = st.etag, !.hash = st.hash]]
      BY <1>1, <2>5 DEF Begin, u
    <3>3. [NoLocal EXCEPT !.etag = st.etag, !.hash = st.hash] \in Held
      BY <2>1 DEF NoLocal, Held, KnownEntry
    <3>4. local' \in [Checker -> Held]
      BY <3>2, <3>3 DEF CheckerInv
    <3> QED BY <1>0, <2>2, <2>3, <3>1, <3>4, MoveKeepsOne, MoveKeepsChecker DEF Place
  <2> QED BY <2>4, <2>5
<1>2. CASE FetchFails(k)
  <2>1. /\ Write(u, [Entry(u) EXCEPT !.due = FALSE]) /\ NextSource(k)
        /\ WorldInv' /\ UNCHANGED stateFile /\ checking' = checking
    BY <1>2 DEF FetchFails, u, WorldInv, files, world
  <2>2. [Entry(u) EXCEPT !.due = FALSE] \in KnownEntry
    BY <1>e DEF KnownEntry
  <2>3. EntryInv'
    BY <1>u, <2>1, <2>2, WriteFacts DEF EntryInv
  <2> QED BY <1>0, <2>1, <2>3, NextSourceKeeps
<1>3. CASE Fetch(k)
  <2> DEFINE doc == provider[u]
             checked == [Entry(u) EXCEPT !.due = FALSE]
             tag == IF tagged THEN doc ELSE None
  <2>1. checked \in KnownEntry /\ [checked EXCEPT !.etag = tag] \in KnownEntry
    BY <1>e, <1>u DEF KnownEntry, WorldInv
  <2>2. WorldInv' /\ UNCHANGED stateFile /\ checking' = checking
    BY <1>3 DEF Fetch, WorldInv, files, world
  <2>3. CASE NextSource(k) /\ Write(u, IF doc = local[k].hash THEN [checked EXCEPT !.etag = tag] ELSE checked)
    <3>1. EntryInv'
      BY <1>u, <2>1, <2>2, <2>3, WriteFacts DEF EntryInv
    <3> QED BY <1>0, <2>2, <2>3, <3>1, NextSourceKeeps
  <2>4. CASE /\ Write(u, checked) /\ local' = [local EXCEPT ![k].doc = doc]
             /\ doc \notin Broken /\ MoveTo(k, "remember") /\ UNCHANGED index
    <3>1. EntryInv'
      BY <1>u, <2>1, <2>2, <2>4, WriteFacts DEF EntryInv
    <3>2. doc \in Good
      BY <1>u, <2>4 DEF WorldInv, Good
    <3>3. [local[k] EXCEPT !.doc = doc] \in Held
      BY <1>l, <3>2 DEF Held
    <3>4. local' \in [Checker -> Held]
      BY <2>4, <3>3 DEF CheckerInv
    <3> QED BY <1>0, <2>2, <2>4, <3>1, <3>4, MoveKeepsOne, MoveKeepsChecker DEF Place, MoveTo
  <2> QED BY <1>3, <2>3, <2>4 DEF Fetch, u
<1>4. CASE Remember(k)
  <2> DEFINE st == [Entry(u) EXCEPT !.hash = local[k].doc,
                                    !.etag = IF tagged THEN local[k].doc ELSE None]
  <2>1. local[k].doc \in Good
    BY <1>4 DEF Remember, HandInv
  <2>2. st \in KnownEntry
    BY <1>e, <2>1 DEF KnownEntry, Good
  <2>3. /\ Write(u, st) /\ WorldInv' /\ UNCHANGED <<stateFile, index, local, checking>>
        /\ stage' = [stage EXCEPT ![k] = "pin"]
    BY <1>4 DEF Remember, MoveTo, WorldInv, files, world, u
  <2>4. EntryInv'
    BY <1>u, <2>2, <2>3, WriteFacts DEF EntryInv
  <2> QED BY <1>0, <2>3, <2>4, MoveKeepsOne, MoveKeepsChecker DEF Place, CheckerInv
<1>5. CASE LoadPin(k)
  <2>1. PICK unreadable \in BOOLEAN, pin \in {None, PinOf(k)} :
          /\ IF unreadable THEN damaged' = damaged \cup {u} ELSE UNCHANGED damaged
          /\ local' = [local EXCEPT ![k].pin = pin]
          /\ stage' = [stage EXCEPT ![k] = IF pin = None THEN "save" ELSE "journal"]
    BY <1>5 DEF LoadPin, MoveTo, u
  <2>2. UNCHANGED <<state, checking, index, files, world, resetting>>
    BY <1>5 DEF LoadPin
  <2>3. WorldInv' /\ EntryInv'
    BY <1>u, <2>1, <2>2 DEF WorldInv, EntryInv, files, world
  <2>4. pin \in Good \cup {None}
    BY <1>u DEF PinOf, WorldInv, u
  <2>5. [local[k] EXCEPT !.pin = pin] \in Held
    BY <1>l, <2>4 DEF Held
  <2>6. local' \in [Checker -> Held]
    BY <2>1, <2>5 DEF CheckerInv
  <2>7. (IF pin = None THEN "save" ELSE "journal") \in Place \ {"idle"}
    BY DEF Place
  <2>8. CheckerInv'
    BY <1>0, <2>1, <2>2, <2>6, <2>7, MoveKeepsChecker
  <2>9. OneInv'
    BY <1>0, <2>1, <2>2, <2>7, MoveKeepsOne
  <2> QED BY <2>3, <2>8, <2>9
<1>6. CASE SavePin(k)
  <2>1. local[k].doc \in Good
    BY <1>6 DEF SavePin, HandInv
  <2>2. WorldInv' /\ EntryInv'
    BY <1>6, <2>1 DEF SavePin, WorldInv, EntryInv, world
  <2>3. stage' = [stage EXCEPT ![k] = "record"] /\ UNCHANGED <<index, local, checking>>
    BY <1>6 DEF SavePin, MoveTo
  <2> QED BY <1>0, <2>2, <2>3, MoveKeepsOne, MoveKeepsChecker DEF Place, CheckerInv
<1>7. CASE SavePinFails(k) \/ RecordChange(k)
  <2>1. NextSource(k) /\ UNCHANGED <<state, checking, files, world, resetting, damaged>>
    BY <1>7 DEF SavePinFails, RecordChange
  <2>2. WorldInv' /\ EntryInv'
    BY <2>1 DEF WorldInv, EntryInv, files, world
  <2> QED BY <1>0, <2>1, <2>2, NextSourceKeeps
<1>8. CASE ReportChange(k)
  <2>1. local[k].doc \in Good /\ local[k].pin \in Good
    BY <1>8 DEF ReportChange, HandInv
  <2>2. /\ reported' = reported \cup {<<u, local[k].pin, local[k].doc>>}
        /\ stage' = [stage EXCEPT ![k] = "record"]
        /\ UNCHANGED <<state, checking, index, local, pinFile, stateFile, documented, unjournaled,
                        world, resetting, damaged>>
    BY <1>8 DEF ReportChange, MoveTo, u
  <2>3. WorldInv' /\ EntryInv'
    BY <1>u, <2>1, <2>2 DEF WorldInv, EntryInv, world
  <2> QED BY <1>0, <2>2, <2>3, MoveKeepsOne, MoveKeepsChecker DEF Place, CheckerInv
<1>9. CASE Journal(k)
  <2>1. local[k].doc \in Good /\ local[k].pin \in Good
    BY <1>9 DEF Journal, HandInv
  <2>2. /\ stage' = [stage EXCEPT ![k] = "report"]
        /\ UNCHANGED <<state, checking, index, local, pinFile, stateFile, reported, world, resetting,
                        damaged>>
    BY <1>9 DEF Journal, MoveTo
  <2>3. /\ documented' \in [Upstream -> Seq(Good \X Good)]
        /\ unjournaled' \subseteq Upstream \X Good \X Good
    BY <1>9, <1>u, <2>1, JournalNotes DEF WorldInv, u
  <2>4. WorldInv' /\ EntryInv'
    BY <2>2, <2>3 DEF WorldInv, EntryInv, world
  <2> QED BY <1>0, <2>2, <2>4, MoveKeepsOne, MoveKeepsChecker DEF Place, CheckerInv
<1> QED BY <1>1, <1>2, <1>3, <1>4, <1>5, <1>6, <1>7, <1>8, <1>9

\* So do all the others.
LEMMA OthersKeepTypes ==
  ASSUME Types,
         \/ \E k \in Checker : Start(k) \/ Persist(k) \/ PersistFails(k)
         \/ Publish \/ Elapse \/ ResetPin \/ ResetState \/ ResetDies \/ Crash
  PROVE  Types'
<1> USE DEF Types
<1>1. ASSUME NEW k \in Checker, Start(k) PROVE Types'
  <2>1. WorldInv' /\ EntryInv'
    BY <1>1 DEF Start, WorldInv, EntryInv, files, world
  <2>2. CheckerInv'
    BY <1>1, LenIsNat DEF Start, MoveTo, CheckerInv, Place
  <2>3. OneInv'
    BY <1>1 DEF Start, MoveTo, Idle, OneInv, CheckerInv
  <2> QED BY <2>1, <2>2, <2>3
<1>2. ASSUME NEW k \in Checker, Persist(k) \/ PersistFails(k) PROVE Types'
  <2>1. WorldInv' /\ EntryInv'
    BY <1>2 DEF Persist, PersistFails, WorldInv, EntryInv, files, world
  <2>4. /\ stage[k] = "persist" /\ stage' = [stage EXCEPT ![k] = "idle"] /\ checking' = FALSE
        /\ index' = [index EXCEPT ![k] = 0] /\ local' = local
    BY <1>2 DEF Persist, PersistFails, MoveTo
  <2>2. CheckerInv'
    BY <2>4 DEF CheckerInv, Place
  <2>3. OneInv'
    BY <2>4 DEF OneInv, CheckerInv
  <2> QED BY <2>1, <2>2, <2>3
<1>3. CASE Publish
  BY <1>3 DEF Publish, WorldInv, EntryInv, CheckerInv, OneInv, files, agent
<1>4. CASE Elapse
  <2>1. WorldInv' /\ CheckerInv' /\ OneInv'
    BY <1>4 DEF Elapse, WorldInv, CheckerInv, OneInv, world
  <2>2. \A st \in KnownEntry \cup {None} : Overdue(st) \in KnownEntry \cup {None}
    BY DEF Overdue, KnownEntry
  <2>3. EntryInv'
    BY <1>4, <2>2 DEF Elapse, EntryInv
  <2> QED BY <2>1, <2>3
<1>5. CASE ResetPin
  BY <1>5 DEF ResetPin, WorldInv, EntryInv, CheckerInv, OneInv, world, agent
<1>6. CASE ResetState
  BY <1>6 DEF ResetState, WorldInv, EntryInv, CheckerInv, OneInv, world, agent
<1>7. CASE ResetDies
  BY <1>7 DEF ResetDies, WorldInv, EntryInv, CheckerInv, OneInv, files, world, agent
<1>8. CASE Crash
  <2>1. WorldInv' /\ EntryInv'
    BY <1>8 DEF Crash, WorldInv, EntryInv, files, world
  <2>2. NoLocal \in Held
    BY DEF NoLocal, Held
  <2>3. CheckerInv' /\ OneInv'
    BY <1>8, <2>2 DEF Crash, CheckerInv, OneInv, Place
  <2> QED BY <2>1, <2>3
<1> QED BY <1>1, <1>2, <1>3, <1>4, <1>5, <1>6, <1>7, <1>8

-----------------------------------------------------------------------------
(* SpecWatch: every step keeps what was found from being forgotten *)

Safety == HandInv /\ MemoryInv /\ KnownIsReported /\ ResetInv

LEMMA SameJournal ==
  ASSUME documented' = documented
  PROVE  \A v : Journaled(v)' = Journaled(v)
BY DEF Journaled

\* Steps that change neither the pins nor the files, but for the upstreams they
\* damage.
LEMMA FilesKept ==
  ASSUME Safety, stateFile' = stateFile, pinFile' = pinFile, configured' = configured,
         resetting' = resetting, damaged \subseteq damaged',
         reported' = reported, unjournaled' = unjournaled, documented' = documented
  PROVE  KnownIsReported' /\ ResetInv'
<1>1. \A v : PinFor(v)' = PinFor(v) /\ Journaled(v)' = Journaled(v)
  BY DEF PinFor, Journaled
<1> QED BY <1>1 DEF Safety, KnownIsReported, ResetInv, Told, Noted

\* The entries keep their hashes.
SameHashes ==
  \A v \in Upstream :
    /\ state[v] # None => state'[v] # None
    /\ state'[v] # None /\ state'[v].hash # None => state[v] # None /\ state'[v].hash = state[v].hash

\* A checker goes on to its next source, and no entry gets another hash.
LEMMA NextSourceIsSafe ==
  ASSUME Types, Safety, NEW k \in Checker, stage[k] \in {"begin", "fetch", "save", "record"},
         NextSource(k), SameHashes, UNCHANGED <<files, world, resetting, damaged, checking>>
  PROVE  Safety'
<1> USE DEF Types
<1>1. \E p \in {"begin", "persist"} : stage' = [stage EXCEPT ![k] = p]
  BY NextSourceKeeps
<1>2. \A j \in Checker : j # k => stage[j] = "idle"
  BY DEF OneInv
<1>3. \A j \in Checker : stage'[j] \in {"idle", "begin", "persist"}
  BY <1>1, <1>2 DEF CheckerInv
<1>4. KnownIsReported' /\ ResetInv'
  BY FilesKept DEF files, world
<1>5. HandInv'
  BY <1>3 DEF HandInv
<1>6. \A v : PinFor(v)' = PinFor(v) /\ Journaled(v)' = Journaled(v)
  BY DEF PinFor, Journaled, files, world
<1>7. ~ \E j \in Checker : stage[j] \in {"pin", "journal", "report"}
  BY <1>2
<1>8. MemoryInv'
  BY <1>6, <1>7 DEF Safety, MemoryInv, SameHashes, files, Told, Noted
<1> QED BY <1>4, <1>5, <1>8 DEF Safety

\* A checker moves on within its source.
LEMMA OnlyOneWorks ==
  ASSUME CheckerInv, OneInv, NEW k \in Checker, stage[k] # "idle", NEW p \in Place,
         stage' = [stage EXCEPT ![k] = p]
  PROVE  /\ \A j \in Checker : j # k => stage[j] = "idle" /\ stage'[j] = "idle"
         /\ stage'[k] = p
BY DEF CheckerInv, OneInv

LEMMA EntryIsNotNone == None \notin KnownEntry
BY SpecWatchAssumption DEF KnownEntry

\* A write through the entry's pointer that keeps the hash.
LEMMA WriteKeepsHashes ==
  ASSUME EntryInv, NEW u \in Upstream, NEW st \in KnownEntry, Write(u, st),
         state[u] # None, st.hash = state[u].hash
  PROVE  SameHashes
BY WriteFacts, EntryIsNotNone DEF SameHashes

LEMMA BeginIsSafe ==
  ASSUME Types, Safety, NEW k \in Checker, Begin(k)
  PROVE  Safety'
<1> USE DEF Types
<1> DEFINE u == Of(k)
           st == IF state[u] = None THEN FreshEntry ELSE state[u]
<1>1. stage[k] = "begin"
  BY DEF Begin
<1>2. u \in Upstream
  BY <1>1, OfIsUpstream
<1>3. st \in KnownEntry /\ st # None
  BY <1>2, EntryKnown, EntryIsNotNone DEF Entry
<1>4. state' = [state EXCEPT ![u] = st] /\ UNCHANGED <<checking, files, world, resetting, damaged>>
  BY DEF Begin
<1>5. state[u] = None => st.hash = None
  BY DEF FreshEntry
<1>6. SameHashes
  BY <1>2, <1>3, <1>4, <1>5 DEF SameHashes, EntryInv
<1>7. CASE ~st.due
  BY <1>1, <1>4, <1>6, <1>7, NextSourceIsSafe DEF Begin
<1>8. CASE st.due
  <2>1. stage' = [stage EXCEPT ![k] = "fetch"] /\ index' = index
    BY <1>8 DEF Begin, MoveTo
  <2>2. \A j \in Checker : (j # k => stage'[j] = "idle" /\ stage[j] = "idle") /\ stage'[k] = "fetch"
    BY <1>1, <2>1, OnlyOneWorks DEF Place
  <2>3. HandInv'
    BY <1>2, <1>3, <1>4, <2>1, <2>2 DEF HandInv, Of, EntryInv
  <2>4. KnownIsReported' /\ ResetInv'
    BY <1>4, FilesKept DEF files, world
  <2>5. \A v : PinFor(v)' = PinFor(v) /\ Journaled(v)' = Journaled(v)
    BY <1>4 DEF PinFor, Journaled, files, world
  <2>6. MemoryInv'
    BY <1>1, <1>4, <1>6, <2>2, <2>5 DEF Safety, MemoryInv, SameHashes, files, Told, Noted
  <2> QED BY <2>3, <2>4, <2>6 DEF Safety
<1> QED BY <1>7, <1>8

LEMMA FetchIsSafe ==
  ASSUME Types, Safety, NEW k \in Checker, Fetch(k) \/ FetchFails(k)
  PROVE  Safety'
<1> USE DEF Types
<1> DEFINE u == Of(k)
           doc == provider[u]
           checked == [Entry(u) EXCEPT !.due = FALSE]
           tag == IF tagged THEN doc ELSE None
<1>1. stage[k] = "fetch" /\ UNCHANGED <<checking, files, world, resetting, damaged>>
  BY DEF Fetch, FetchFails
<1>2. u \in Upstream
  BY <1>1, OfIsUpstream
<1>3. state[u] # None
  BY <1>1 DEF Safety, HandInv, Noted, Journaled
<1>4. Entry(u) \in KnownEntry /\ Entry(u) = state[u]
  BY <1>2, <1>3, EntryKnown
<1>5. doc \in Doc
  BY <1>2 DEF WorldInv
<1>6. /\ checked \in KnownEntry /\ checked.hash = state[u].hash
      /\ [checked EXCEPT !.etag = tag] \in KnownEntry
      /\ [checked EXCEPT !.etag = tag].hash = state[u].hash
  BY <1>4, <1>5 DEF KnownEntry
<1>7. CASE Write(u, checked) \/ Write(u, [checked EXCEPT !.etag = tag])
  <2>1. SameHashes
    BY <1>2, <1>3, <1>6, <1>7, WriteKeepsHashes
  <2>2. CASE NextSource(k)
    BY <1>1, <2>1, <2>2, NextSourceIsSafe
  <2>3. CASE /\ local' = [local EXCEPT ![k].doc = doc] /\ doc \notin Broken
             /\ MoveTo(k, "remember") /\ UNCHANGED index
    <3>1. \A j \in Checker : (j # k => stage'[j] = "idle" /\ stage[j] = "idle") /\ stage'[k] = "remember"
      BY <1>1, <2>3, OnlyOneWorks DEF Place, MoveTo
    <3>2. local'[k].doc = doc /\ doc \in Good
      BY <1>5, <2>3 DEF CheckerInv, Held, Good
    <3>3. state'[u] # None
      BY <1>2, <1>3, <2>1 DEF SameHashes
    <3>4. HandInv'
      BY <2>3, <3>1, <3>2, <3>3 DEF HandInv, Of
    <3>5. KnownIsReported' /\ ResetInv'
      BY <1>1, FilesKept DEF files, world
    <3>6. \A v : PinFor(v)' = PinFor(v) /\ Journaled(v)' = Journaled(v)
      BY <1>1 DEF PinFor, Journaled, files, world
    <3>7. MemoryInv'
      BY <1>1, <2>1, <3>1, <3>6 DEF Safety, MemoryInv, SameHashes, files, Told, Noted
    <3> QED BY <3>4, <3>5, <3>7 DEF Safety
  <2>4. NextSource(k) \/ /\ local' = [local EXCEPT ![k].doc = doc] /\ doc \notin Broken
                         /\ MoveTo(k, "remember") /\ UNCHANGED index
    BY DEF Fetch, FetchFails
  <2> QED BY <2>2, <2>3, <2>4
<1> QED BY <1>7 DEF Fetch, FetchFails

LEMMA RememberIsSafe ==
  ASSUME Types, Safety, NEW k \in Checker, Remember(k)
  PROVE  Safety'
<1> USE DEF Types
<1> DEFINE u == Of(k)
           st == [Entry(u) EXCEPT !.hash = local[k].doc,
                                  !.etag = IF tagged THEN local[k].doc ELSE None]
<1>1. stage[k] = "remember" /\ UNCHANGED <<checking, index, local, files, world, resetting, damaged>>
  BY DEF Remember
<1>2. u \in Upstream /\ state[u] # None /\ local[k].doc \in Good
  BY <1>1, OfIsUpstream DEF Safety, HandInv, Noted, Journaled
<1>3. st \in KnownEntry /\ st.hash = local[k].doc
  BY <1>2, EntryKnown DEF KnownEntry, Good
<1>4. Write(u, st) /\ stage' = [stage EXCEPT ![k] = "pin"]
  BY DEF Remember, MoveTo
<1>5. state'[u] = st /\ \A v \in Upstream : v # u => state'[v] = state[v]
  BY <1>2, <1>3, <1>4, WriteFacts
<1> HIDE DEF st
<1>6. \A j \in Checker : (j # k => stage'[j] = "idle" /\ stage[j] = "idle") /\ stage'[k] = "pin"
  BY <1>1, <1>4, OnlyOneWorks DEF Place
<1>7. HandInv'
  <2>1. state'[u] # None /\ state'[u].hash = local[k].doc
    BY <1>3, <1>5, EntryIsNotNone
  <2> QED BY <1>1, <1>2, <1>6, <2>1 DEF HandInv, Of
<1>8. KnownIsReported' /\ ResetInv'
  BY <1>1, FilesKept DEF files, world
<1>9. \A v : PinFor(v)' = PinFor(v) /\ Journaled(v)' = Journaled(v)
  BY <1>1 DEF PinFor, Journaled, files, world
<1>10. MemoryInv'
  <2> SUFFICES ASSUME NEW v \in Upstream \ damaged', state'[v] # None, state'[v].hash # None,
                      PinFor(v)' # None
               PROVE  \/ state'[v].hash = PinFor(v)'
                      \/ Told(v, PinFor(v), state[v].hash)'
                      \/ \E j \in Checker : stage'[j] \in {"pin", "journal", "report"} /\ Of(j)' = v
    BY DEF MemoryInv, Told, Noted
  <2>1. CASE v = u
    BY <1>1, <1>6, <2>1 DEF Of
  <2>2. CASE v # u
    <3>1. ~ \E j \in Checker : stage[j] \in {"pin", "journal", "report"}
      BY <1>1, <1>6
    <3> QED BY <1>1, <1>5, <1>9, <2>2, <3>1 DEF Safety, MemoryInv, files, Told, Noted
  <2> QED BY <2>1, <2>2
<1> QED BY <1>7, <1>8, <1>10 DEF Safety

LEMMA LoadPinIsSafe ==
  ASSUME Types, Safety, NEW k \in Checker, LoadPin(k)
  PROVE  Safety'
<1> USE DEF Types
<1> DEFINE u == Of(k)
<1>1. /\ stage[k] = "pin" /\ UNCHANGED <<state, checking, index, files, world, resetting>>
      /\ u \in Upstream /\ state[u] # None
      /\ local[k].doc \in Good /\ state[u].hash = local[k].doc
  BY OfIsUpstream DEF LoadPin, Safety, HandInv, Noted, Journaled
<1>2. PICK unreadable \in BOOLEAN, pin \in {None, PinOf(k)} :
        /\ unreadable => configured[u] = None /\ damaged' = damaged \cup {u} /\ pin = None
        /\ ~unreadable => damaged' = damaged /\ pin = PinOf(k)
        /\ local' = [local EXCEPT ![k].pin = pin]
        /\ stage' = [stage EXCEPT ![k] = IF pin = None THEN "save" ELSE "journal"]
  BY DEF LoadPin, MoveTo
<1>3. PinOf(k) = PinFor(u) /\ PinOf(k) \in Good \cup {None}
  BY <1>1 DEF PinOf, PinFor, WorldInv
<1>4. local'[k].pin = pin /\ local'[k].doc = local[k].doc
  BY <1>2 DEF CheckerInv, Held
<1>5. \A j \in Checker : j # k => stage'[j] = "idle" /\ stage[j] = "idle"
  BY <1>1, <1>2, OnlyOneWorks DEF Place
<1>6. stage'[k] = (IF pin = None THEN "save" ELSE "journal")
  BY <1>2 DEF CheckerInv
<1>7. \A v : PinFor(v)' = PinFor(v) /\ Journaled(v)' = Journaled(v)
  BY <1>1 DEF PinFor, Journaled, files, world
<1>8. damaged \subseteq damaged' /\ Of(k)' = u /\ configured' = configured /\ pinFile' = pinFile
  BY <1>1, <1>2 DEF Of, files, world
<1>9. pin = None => configured[u] = None /\ (u \in damaged' \/ pinFile[u] = None)
  BY <1>2, <1>3 DEF PinFor
<1>10. HandInv'
  <2>1. pin # None => pin \in Good /\ pin = PinFor(u)
    BY <1>2, <1>3
  <2> QED BY <1>1, <1>4, <1>5, <1>6, <1>7, <1>8, <1>9, <2>1 DEF HandInv
<1>11. KnownIsReported' /\ ResetInv'
  BY <1>1, <1>8, FilesKept DEF files, world
<1>12. MemoryInv'
  <2> SUFFICES ASSUME NEW v \in Upstream \ damaged', state'[v] # None, state'[v].hash # None,
                      PinFor(v)' # None
               PROVE  \/ state'[v].hash = PinFor(v)'
                      \/ Told(v, PinFor(v), state[v].hash)'
                      \/ \E j \in Checker : stage'[j] \in {"pin", "journal", "report"} /\ Of(j)' = v
    BY DEF MemoryInv, Told, Noted
  <2>1. CASE v = u
    <3>1. pin # None
      BY <1>2, <1>3, <1>7, <2>1
    <3> QED BY <1>6, <1>8, <2>1, <3>1
  <2>2. CASE v # u
    <3>1. \A j \in Checker : stage[j] \in {"pin", "journal", "report"} => Of(j) = u
      BY <1>5
    <3> QED BY <1>1, <1>7, <1>8, <2>2, <3>1 DEF Safety, MemoryInv, files, Told, Noted
  <2> QED BY <2>1, <2>2
<1> QED BY <1>10, <1>11, <1>12 DEF Safety

LEMMA SavePinIsSafe ==
  ASSUME Types, Safety, NEW k \in Checker, SavePin(k)
  PROVE  Safety'
<1> USE DEF Types
<1> DEFINE u == Of(k)
<1>1. /\ stage[k] = "save" /\ stage' = [stage EXCEPT ![k] = "record"]
      /\ pinFile' = [pinFile EXCEPT ![u] = local[k].doc]
      /\ UNCHANGED <<state, checking, index, local, stateFile, documented, unjournaled, reported, world,
                      resetting, damaged>>
  BY DEF SavePin, MoveTo
<1>2. /\ u \in Upstream /\ state[u] # None /\ local[k].doc \in Good
      /\ state[u].hash = local[k].doc /\ configured[u] = None
      /\ u \in damaged \/ pinFile[u] = None
  BY <1>1, OfIsUpstream DEF Safety, HandInv, Noted, Journaled
<1>3. \A j \in Checker : (j # k => stage'[j] = "idle" /\ stage[j] = "idle") /\ stage'[k] = "record"
  BY <1>1, OnlyOneWorks DEF Place
<1>4. HandInv'
  BY <1>1, <1>2, <1>3 DEF HandInv, Of
<1>5. local[k].doc # None /\ pinFile'[u] = local[k].doc /\ PinFor(u)' = local[k].doc
  <2>1. pinFile'[u] = local[k].doc /\ configured' = configured
    BY <1>1, <1>2 DEF WorldInv, world
  <2>2. local[k].doc # None
    BY <1>2, SpecWatchAssumption DEF Good
  <2>3. Of(k)' = Of(k)
    BY <1>1 DEF Of
  <2> QED BY <1>2, <2>1, <2>2, <2>3 DEF PinFor
<1>6. \A v \in Upstream : v # u => pinFile'[v] = pinFile[v] /\ PinFor(v)' = PinFor(v)
  <2>1. \A v \in Upstream : v # u => pinFile'[v] = pinFile[v]
    BY <1>1 DEF WorldInv
  <2>2. configured' = configured
    BY <1>1 DEF world
  <2> QED BY <2>1, <2>2 DEF PinFor
<1>j. \A v : Journaled(v)' = Journaled(v)
  BY <1>1 DEF Journaled
<1>7. MemoryInv'
  <2> SUFFICES ASSUME NEW v \in Upstream \ damaged', state'[v] # None, state'[v].hash # None,
                      PinFor(v)' # None
               PROVE  \/ state'[v].hash = PinFor(v)'
                      \/ Told(v, PinFor(v), state[v].hash)'
    BY DEF MemoryInv, Told, Noted
  <2>1. CASE v = u
    <3>1. PinFor(v)' = local[k].doc
      BY <1>1, <1>2, <1>5, <2>1 DEF PinFor, world
    <3> QED BY <1>1, <1>2, <2>1, <3>1
  <2>2. CASE v # u
    <3>1. ~ \E j \in Checker : stage[j] \in {"pin", "journal", "report"}
      BY <1>1, <1>3
    <3> QED BY <1>1, <1>6, <1>j, <2>2, <3>1 DEF Safety, MemoryInv, Told, Noted
  <2> QED BY <2>1, <2>2
<1>8. KnownIsReported'
  BY <1>1, <1>2, <1>5, <1>6, <1>j DEF Safety, KnownIsReported, ResetInv, Told, Noted
<1>9. ResetInv'
  BY <1>1, <1>5, <1>6 DEF Safety, ResetInv, world
<1> QED BY <1>4, <1>7, <1>8, <1>9 DEF Safety

LEMMA JournalIsSafe ==
  ASSUME Types, Safety, NEW k \in Checker, Journal(k)
  PROVE  Safety'
<1> USE DEF Types
<1> DEFINE u == Of(k)
<1>1. /\ stage[k] = "journal" /\ stage' = [stage EXCEPT ![k] = "report"]
      /\ UNCHANGED <<state, checking, index, local, pinFile, stateFile, reported, world, resetting,
                      damaged>>
  BY DEF Journal, MoveTo
<1>2. /\ u \in Upstream /\ state[u] # None /\ state[u].hash = local[k].doc
      /\ local[k].doc \in Good /\ local[k].pin \in Good
      /\ u \in damaged \/ PinFor(u) = None \/ local[k].pin = PinFor(u)
  BY <1>1, OfIsUpstream DEF Safety, HandInv
<1>3. /\ \A v \in Upstream : \A p, d : Noted(v, p, d) => Noted(v, p, d)'
      /\ <<local[k].pin, local[k].doc>> \in Additive =>
           \/ <<local[k].pin, local[k].doc>> \in Journaled(u)'
           \/ <<u, local[k].pin, local[k].doc>> \in unjournaled'
  BY <1>2, JournalNotes DEF WorldInv
<1>4. \A j \in Checker : (j # k => stage'[j] = "idle" /\ stage[j] = "idle") /\ stage'[k] = "report"
  BY <1>1, OnlyOneWorks DEF Place
<1>5. (\A v : PinFor(v)' = PinFor(v)) /\ u' = u
  BY <1>1 DEF PinFor, Of, world
<1>6. HandInv'
  BY <1>1, <1>2, <1>3, <1>4, <1>5 DEF HandInv, Noted
<1>7. \A v \in Upstream : \A p, d : Told(v, p, d) => Told(v, p, d)'
  BY <1>1, <1>3 DEF Told
<1>8. MemoryInv' /\ KnownIsReported' /\ ResetInv'
  BY <1>1, <1>4, <1>5, <1>7 DEF Safety, MemoryInv, KnownIsReported, ResetInv, world
<1> QED BY <1>6, <1>8 DEF Safety

LEMMA ReportIsSafe ==
  ASSUME Types, Safety, NEW k \in Checker, ReportChange(k)
  PROVE  Safety'
<1> USE DEF Types
<1> DEFINE u == Of(k)
<1>1. /\ stage[k] = "report" /\ stage' = [stage EXCEPT ![k] = "record"]
      /\ reported' = reported \cup {<<u, local[k].pin, local[k].doc>>}
      /\ UNCHANGED <<state, checking, index, local, pinFile, stateFile, documented, unjournaled,
                      world, resetting, damaged>>
  BY DEF ReportChange, MoveTo
<1>2. /\ u \in Upstream /\ state[u] # None /\ state[u].hash = local[k].doc
      /\ Noted(u, local[k].pin, local[k].doc)
      /\ u \in damaged \/ PinFor(u) = None \/ local[k].pin = PinFor(u)
  BY <1>1, OfIsUpstream DEF Safety, HandInv
<1>3. \A j \in Checker : (j # k => stage'[j] = "idle" /\ stage[j] = "idle") /\ stage'[k] = "record"
  BY <1>1, OnlyOneWorks DEF Place
<1>4. HandInv'
  BY <1>1, <1>2, <1>3 DEF HandInv, Of
<1>5. \A v : PinFor(v)' = PinFor(v) /\ Journaled(v)' = Journaled(v)
  BY <1>1 DEF PinFor, Journaled, world
<1>6. MemoryInv' /\ KnownIsReported'
  BY <1>1, <1>2, <1>3, <1>5 DEF Safety, MemoryInv, KnownIsReported, Told, Noted
<1>7. ResetInv'
  BY <1>1 DEF Safety, ResetInv, world
<1> QED BY <1>4, <1>6, <1>7 DEF Safety

LEMMA PersistIsSafe ==
  ASSUME Types, Safety, NEW k \in Checker, Persist(k) \/ PersistFails(k)
  PROVE  Safety'
<1> USE DEF Types
<1>1. /\ stage[k] = "persist" /\ stage' = [stage EXCEPT ![k] = "idle"]
      /\ UNCHANGED <<pinFile, documented, unjournaled, reported, world, resetting, damaged>>
  BY DEF Persist, PersistFails, MoveTo, files
<1>2. \A v \in Upstream : state'[v] = (IF Stale(v) THEN None ELSE state[v]) \/ state'[v] = state[v]
  BY DEF Persist, PersistFails
<1>3. \/ stateFile' = stateFile
      \/ /\ stateFile' = state'
         /\ \A v \in Upstream : state'[v] = (IF Stale(v) THEN None ELSE state[v])
  BY DEF Persist, PersistFails, files
<1>4. \A j \in Checker : stage[j] \notin {"pin", "journal", "report"} /\ stage'[j] = "idle"
  BY <1>1 DEF OneInv, CheckerInv
<1>5. \A v : PinFor(v)' = PinFor(v) /\ Journaled(v)' = Journaled(v)
  BY <1>1 DEF PinFor, Journaled, world
<1>6. HandInv'
  BY <1>4 DEF HandInv
<1>7. MemoryInv'
  BY <1>1, <1>2, <1>4, <1>5 DEF Safety, MemoryInv, Told, Noted
<1>8. KnownIsReported'
  BY <1>1, <1>3, <1>4, <1>5 DEF Safety, MemoryInv, KnownIsReported, Told, Noted
<1>9. ResetInv'
  BY <1>1, <1>3 DEF Safety, ResetInv, Stale, world
<1> QED BY <1>6, <1>7, <1>8, <1>9 DEF Safety

LEMMA OthersAreSafe ==
  ASSUME Types, Safety,
         \/ \E k \in Checker : Start(k) \/ SavePinFails(k) \/ RecordChange(k)
         \/ Publish \/ Elapse \/ ResetPin \/ ResetState \/ ResetDies \/ Crash
  PROVE  Safety'
<1> USE DEF Types
<1>1. ASSUME NEW k \in Checker, Start(k) PROVE Safety'
  <2>1. /\ stage[k] = "idle" /\ stage' = [stage EXCEPT ![k] = "begin"]
        /\ UNCHANGED <<state, local, files, world, resetting, damaged>>
    BY <1>1 DEF Start, MoveTo
  <2>2. \A j \in Checker : stage[j] = "idle" /\ stage'[j] \in {"idle", "begin"}
    BY <1>1, <2>1 DEF Start, Idle, OneInv, CheckerInv
  <2>3. HandInv'
    BY <2>2 DEF HandInv
  <2>4. \A v : PinFor(v)' = PinFor(v) /\ Journaled(v)' = Journaled(v)
    BY <2>1 DEF PinFor, Journaled, files, world
  <2>5. KnownIsReported' /\ ResetInv'
    BY <2>1, FilesKept DEF files, world
  <2>6. MemoryInv'
    BY <2>1, <2>2, <2>4 DEF Safety, MemoryInv, files, Told, Noted
  <2> QED BY <2>3, <2>5, <2>6 DEF Safety
<1>2. ASSUME NEW k \in Checker, SavePinFails(k) \/ RecordChange(k) PROVE Safety'
  <2>1. /\ stage[k] \in {"save", "record"} /\ NextSource(k)
        /\ UNCHANGED <<state, checking, files, world, resetting, damaged>>
    BY <1>2 DEF SavePinFails, RecordChange
  <2>2. SameHashes
    BY <2>1 DEF SameHashes
  <2> QED BY <2>1, <2>2, NextSourceIsSafe
<1>3. CASE Publish
  <2>1. UNCHANGED <<configured, files, agent, resetting, damaged>>
    BY <1>3 DEF Publish
  <2>2. (\A v : PinFor(v)' = PinFor(v) /\ Journaled(v)' = Journaled(v)) /\ (\A k \in Checker : Of(k)' = Of(k))
    BY <2>1 DEF PinFor, Journaled, Of, files, agent
  <2>3. HandInv'
    BY <2>1, <2>2 DEF Safety, HandInv, files, agent, Noted, Journaled
  <2>4. KnownIsReported' /\ ResetInv'
    BY <2>1, FilesKept DEF files
  <2>5. MemoryInv'
    BY <2>1, <2>2 DEF Safety, MemoryInv, files, agent, Told, Noted
  <2> QED BY <2>3, <2>4, <2>5 DEF Safety
<1>4. CASE Elapse
  <2>1. /\ state' = [u \in Upstream |-> Overdue(state[u])]
        /\ stateFile' = [u \in Upstream |-> Overdue(stateFile[u])]
        /\ UNCHANGED <<stage, index, local, pinFile, documented, unjournaled, reported, world, resetting, damaged>>
    BY <1>4 DEF Elapse
  <2>2. \A st \in KnownEntry : Overdue(st) # None /\ Overdue(st).hash = st.hash
    BY EntryIsNotNone DEF Overdue, KnownEntry
  <2>3. Overdue(None) = None
    BY DEF Overdue
  <2>4. \A v \in Upstream :
          /\ state'[v] = None <=> state[v] = None
          /\ state[v] # None => state'[v].hash = state[v].hash
          /\ stateFile'[v] = None <=> stateFile[v] = None
          /\ stateFile[v] # None => stateFile'[v].hash = stateFile[v].hash
    BY <2>1, <2>2, <2>3 DEF EntryInv
  <2>5. (\A v : PinFor(v)' = PinFor(v) /\ Journaled(v)' = Journaled(v)) /\ (\A k \in Checker : Of(k)' = Of(k))
    BY <2>1 DEF PinFor, Journaled, Of, world
  <2>6. HandInv'
    <3>1. \A k \in Checker : stage[k] \notin {"idle", "persist"} => Of(k) \in Upstream
      BY OfIsUpstream
    <3>2. \A k \in Checker :
            Noted(Of(k), local[k].pin, local[k].doc)' = Noted(Of(k), local[k].pin, local[k].doc)
      BY <2>1, <2>5 DEF Noted, Journaled
    <3> QED BY <2>1, <2>4, <2>5, <3>1, <3>2 DEF Safety, HandInv, world
  <2>7. MemoryInv'
    <3>1. \A v \in Upstream \ damaged :
            (state[v] # None /\ state[v].hash # None /\ PinFor(v) # None) =>
              \/ state[v].hash = PinFor(v)
              \/ Told(v, PinFor(v), state[v].hash)
              \/ \E k \in Checker : stage[k] \in {"pin", "journal", "report"} /\ Of(k) = v
      BY DEF Safety, MemoryInv
    <3>3. ASSUME NEW v \in Upstream \ damaged, state'[v] # None, state'[v].hash # None, PinFor(v)' # None
          PROVE  \/ state'[v].hash = PinFor(v)'
                 \/ Told(v, PinFor(v), state[v].hash)'
                 \/ \E k \in Checker : stage'[k] \in {"pin", "journal", "report"} /\ Of(k)' = v
      <4>1. state[v] # None /\ state'[v].hash = state[v].hash /\ PinFor(v)' = PinFor(v)
        BY <2>4, <2>5, <3>3
      <4>2. Told(v, PinFor(v), state[v].hash) => Told(v, PinFor(v), state[v].hash)'
        BY <2>1, <2>5, <4>1 DEF Told, Noted
      <4> QED BY <2>1, <2>5, <3>1, <3>3, <4>1, <4>2
    <3> QED BY <2>1, <3>3 DEF MemoryInv
  <2>9. KnownIsReported'
    BY <2>1, <2>4, <2>5 DEF Safety, KnownIsReported, Told, Noted
  <2>8. ResetInv'
    BY <2>1, <2>4 DEF Safety, ResetInv, world
  <2> QED BY <2>6, <2>7, <2>8, <2>9 DEF Safety
<1>5. CASE ResetPin
  <2>1. PICK u \in Upstream :
          /\ configured[u] = None /\ resetting = None /\ resetting' = u
          /\ pinFile' = [pinFile EXCEPT ![u] = None]
          /\ UNCHANGED <<stateFile, documented, unjournaled, reported, world, agent, damaged>>
    BY <1>5 DEF ResetPin
  <2>2. pinFile'[u] = None /\ (\A v \in Upstream : v # u => pinFile'[v] = pinFile[v])
    BY <2>1 DEF WorldInv
  <2>3. /\ PinFor(u)' = None /\ (\A v \in Upstream : v # u => PinFor(v)' = PinFor(v))
        /\ \A v : Journaled(v)' = Journaled(v)
    BY <2>1, <2>2 DEF PinFor, Journaled, world
  <2>4. \A k \in Checker : Of(k)' = Of(k) /\ (stage[k] \notin {"idle", "persist"} => Of(k) \in Upstream)
    BY <2>1, OfIsUpstream DEF Of, agent
  <2>5. HandInv'
    BY <2>1, <2>2, <2>3, <2>4 DEF Safety, HandInv, agent, world, Noted, Journaled
  <2>6. MemoryInv'
    BY <2>1, <2>3, <2>4 DEF Safety, MemoryInv, agent, Told, Noted
  <2>7. None \notin Upstream
    BY SpecWatchAssumption
  <2>8. KnownIsReported'
    BY <2>1, <2>3, <2>7 DEF Safety, KnownIsReported, Told, Noted
  <2>9. ResetInv'
    BY <2>1, <2>2, <2>7 DEF Safety, ResetInv, world
  <2> QED BY <2>5, <2>6, <2>8, <2>9 DEF Safety
<1>6. CASE ResetState
  <2>1. /\ stateFile' = [stateFile EXCEPT ![resetting] = None] /\ resetting # None
        /\ UNCHANGED <<pinFile, documented, unjournaled, reported, world, agent, damaged>>
    BY <1>6 DEF ResetState
  <2>2. (\A v : PinFor(v)' = PinFor(v) /\ Journaled(v)' = Journaled(v)) /\ (\A k \in Checker : Of(k)' = Of(k))
    BY <2>1 DEF PinFor, Journaled, Of, agent, world
  <2>3. \A v \in Upstream : IF v = resetting THEN stateFile'[v] = None ELSE stateFile'[v] = stateFile[v]
    BY <2>1 DEF EntryInv, WorldInv
  <2>4. HandInv' /\ MemoryInv'
    BY <2>1, <2>2 DEF Safety, HandInv, MemoryInv, agent, world, Told, Noted
  <2>5. KnownIsReported'
    BY <2>1, <2>2, <2>3 DEF Safety, KnownIsReported, Told, Noted
  <2>6. ResetInv'
    BY <2>1, <2>3 DEF Safety, ResetInv, world
  <2> QED BY <2>4, <2>5, <2>6 DEF Safety
<1>7. CASE ResetDies
  <2>1. /\ damaged' = damaged \cup {resetting} /\ UNCHANGED <<files, world, agent>>
    BY <1>7 DEF ResetDies
  <2>2. (\A v : PinFor(v)' = PinFor(v) /\ Journaled(v)' = Journaled(v)) /\ (\A k \in Checker : Of(k)' = Of(k))
    BY <2>1 DEF PinFor, Journaled, Of, files, agent, world
  <2>3. HandInv' /\ MemoryInv'
    BY <2>1, <2>2 DEF Safety, HandInv, MemoryInv, files, agent, world, Told, Noted
  <2>4. KnownIsReported'
    BY <2>1, <2>2 DEF Safety, KnownIsReported, files, Told, Noted
  <2>5. ResetInv'
    BY <2>1 DEF Safety, ResetInv, files, world
  <2> QED BY <2>3, <2>4, <2>5 DEF Safety
<1>8. CASE Crash
  <2>1. /\ state' = stateFile /\ stage' = [k \in Checker |-> "idle"]
        /\ damaged' = damaged \cup ({resetting} \ {None}) /\ UNCHANGED <<files, world, resetting>>
    BY <1>8 DEF Crash
  <2>2. \A v : PinFor(v)' = PinFor(v) /\ Journaled(v)' = Journaled(v)
    BY <2>1 DEF PinFor, Journaled, files, world
  <2>3. HandInv'
    BY <2>1 DEF HandInv
  <2>4. KnownIsReported' /\ ResetInv'
    BY <2>1, FilesKept DEF files, world
  <2>5. MemoryInv'
    <3>1. \A v \in Upstream \ damaged' : v # resetting /\ v \notin damaged
      BY <2>1, SpecWatchAssumption
    <3> QED BY <2>1, <2>2, <3>1 DEF Safety, KnownIsReported, MemoryInv, files, Told, Noted
  <2> QED BY <2>3, <2>4, <2>5 DEF Safety
<1> QED BY <1>1, <1>2, <1>3, <1>4, <1>5, <1>6, <1>7, <1>8

-----------------------------------------------------------------------------
(* SpecWatch: theorems *)

THEOREM StepInv == ASSUME WatchInv, [WatchNext]_watchVars PROVE WatchInv'
<1>1. Types /\ Safety
  BY DEF WatchInv, Types, Safety
<1>2. CASE UNCHANGED watchVars
  <2>1. UNCHANGED <<provider, tagged, configured, pinFile, stateFile, state, checking, stage, index,
                    local, resetting, documented, unjournaled, reported, damaged>>
    BY <1>2 DEF watchVars, files, world, agent
  <2>2. (\A v : PinFor(v)' = PinFor(v) /\ Journaled(v)' = Journaled(v)) /\ (\A k \in Checker : Of(k)' = Of(k))
    BY <2>1 DEF PinFor, Journaled, Of
  <2>3. WorldInv' /\ EntryInv' /\ CheckerInv' /\ OneInv' /\ ResetInv'
    BY <2>1 DEF WatchInv, WorldInv, EntryInv, CheckerInv, OneInv, ResetInv
  <2>4. HandInv' /\ MemoryInv' /\ KnownIsReported'
    BY <2>1, <2>2 DEF WatchInv, HandInv, MemoryInv, KnownIsReported, Told, Noted
  <2> QED BY <2>3, <2>4 DEF WatchInv
<1>3. CASE WatchNext
  <2>1. Types'
    BY <1>1, <1>3, LoopKeepsTypes, OthersKeepTypes DEF WatchNext, Step, Safety
  <2>2. Safety'
    BY <1>1, <1>3, BeginIsSafe, FetchIsSafe, RememberIsSafe, LoadPinIsSafe, SavePinIsSafe,
       JournalIsSafe, ReportIsSafe, PersistIsSafe, OthersAreSafe DEF WatchNext, Step
  <2> QED BY <2>1, <2>2 DEF WatchInv, Types, Safety
<1> QED BY <1>2, <1>3

THEOREM Invariance == WatchSpec => []WatchInv
<1> QED BY InitInv, StepInv, PTL DEF WatchSpec

\* The state of Watcher, its files and its checkers keep their types, and the
\* flag says whether a check is running.
THEOREM WatchTypeCorrect == WatchSpec => []SpecWatchTypeOK
<1>1. WatchInv => SpecWatchTypeOK
  BY DEF WatchInv, WorldInv, EntryInv, CheckerInv, OneInv, SpecWatchTypeOK, KnownEntry
<1> QED BY <1>1, Invariance, PTL

\* A change of a provider's document is forgotten about only once it has been
\* reported, and journaled unless the journal's own file failed or its cap has
\* pushed the change out, whoever died in between.
THEOREM ChangesAreNotForgotten == WatchSpec => []KnownIsReported
<1>1. WatchInv => KnownIsReported
  BY DEF WatchInv
<1> QED BY <1>1, Invariance, PTL

\* recordChange never dereferences an entry that is not there.
THEOREM EntriesAreThere == WatchSpec => []EntryIsThere
<1>1. WatchInv => EntryIsThere
  BY DEF WatchInv, HandInv, EntryIsThere
<1> QED BY <1>1, Invariance, PTL

\* Only ResetPin takes a pin away and only a missing one is set.
THEOREM PinsStay == WatchSpec => PinStays
<1>1. ASSUME WatchInv, [WatchNext]_watchVars, pinFile' # pinFile
      PROVE  \A u \in Upstream \ damaged' :
               (pinFile[u] # None /\ pinFile'[u] # pinFile[u]) => (pinFile'[u] = None /\ resetting' = u)
  <2>1. (\E k \in Checker : SavePin(k)) \/ ResetPin
    BY <1>1 DEF WatchNext, Step, watchVars, files, Start, Begin, FetchFails, Fetch, Remember, LoadPin,
       SavePinFails, Journal, ReportChange, RecordChange, Persist, PersistFails, Publish, Elapse, ResetState, ResetDies, Crash
  <2>2. ASSUME NEW k \in Checker, SavePin(k), NEW u \in Upstream \ damaged', pinFile[u] # None
        PROVE  pinFile'[u] = pinFile[u]
    BY <1>1, <2>2 DEF SavePin, WatchInv, HandInv, WorldInv
  <2>3. ASSUME ResetPin, NEW u \in Upstream, pinFile'[u] # pinFile[u]
        PROVE  pinFile'[u] = None /\ resetting' = u
    BY <1>1, <2>3 DEF ResetPin, WatchInv, WorldInv
  <2> QED BY <2>1, <2>2, <2>3
<1>2. WatchInv /\ [WatchNext]_watchVars =>
        [\A u \in Upstream \ damaged' :
           (pinFile[u] # None /\ pinFile'[u] # pinFile[u]) => (pinFile'[u] = None /\ resetting' = u)]_pinFile
  BY <1>1
<1> QED BY <1>2, Invariance, PTL DEF WatchSpec, PinStays

-----------------------------------------------------------------------------
(* Alerter: the map of fingerprint states                                    *)

\* A map that respects the cap, and in which only tracked ones are latched.
WellFormed(s) ==
  /\ s \in Memory
  /\ Cardinality(s.tracked) <= MaxTracked
  /\ s.alerted \cup s.acked \subseteq s.tracked

\* Admitting a fingerprint keeps the map well formed and loses nobody but an
\* acked or alerted victim.
LEMMA AdmitFacts ==
  ASSUME WellFormed(states), NEW f \in Fp, NEW s \in Admit(f)
  PROVE  /\ WellFormed(s)
         /\ f \in s.tracked
         /\ s.alerted \subseteq states.alerted
         /\ states.tracked \ (states.alerted \cup states.acked) \subseteq s.tracked
<1> USE AlerterAssumption DEF WellFormed, Memory
<1>0. IsFiniteSet(states.tracked)
  BY FS_Subset
<1>1. CASE f \in states.tracked
  BY <1>1 DEF Admit
<1>2. CASE f \notin states.tracked /\ Cardinality(states.tracked) < MaxTracked
  <2>1. s = [states EXCEPT !.tracked = @ \cup {f}]
    BY <1>2 DEF Admit
  <2>2. Cardinality(states.tracked \cup {f}) = Cardinality(states.tracked) + 1
    BY <1>0, <1>2, FS_AddElement
  <2>3. Cardinality(states.tracked) \in Nat
    BY <1>0, FS_CardinalityType
  <2>. QED  BY <1>2, <2>1, <2>2, <2>3
<1>3. CASE f \notin states.tracked /\ ~(Cardinality(states.tracked) < MaxTracked)
  <2>1. PICK v \in Victims(states) : s = [Forget(states, v) EXCEPT !.tracked = @ \cup {f}]
    BY <1>3 DEF Admit
  <2>2. v \in states.tracked /\ v \in states.alerted \cup states.acked
    BY DEF Victims
  <2>3. Cardinality(states.tracked \ {v}) = Cardinality(states.tracked) - 1
    BY <1>0, <2>2, FS_RemoveElement
  <2>4. IsFiniteSet(states.tracked \ {v})
    BY <1>0, FS_RemoveElement
  <2>5. Cardinality((states.tracked \ {v}) \cup {f}) = Cardinality(states.tracked \ {v}) + 1
    BY <1>3, <2>4, FS_AddElement
  <2>6. Cardinality(states.tracked) \in Nat
    BY <1>0, FS_CardinalityType
  <2>7. s = [tracked |-> (states.tracked \ {v}) \cup {f},
             alerted |-> states.alerted \ {v}, acked |-> states.acked \ {v},
             count |-> [states.count EXCEPT ![v] = 0]]
    BY <2>1 DEF Forget
  <2>. QED  BY <1>3, <2>2, <2>3, <2>5, <2>6, <2>7
<1>. QED  BY <1>1, <1>2, <1>3

\* What an occurrence does to the map.
LEMMA ReportFacts ==
  ASSUME WellFormed(states), NEW t \in Emitter, NEW f \in Fp, Report(t, f)
  PROVE  /\ WellFormed(states')
         /\ states.tracked \ (states.alerted \cup states.acked) \subseteq states'.tracked
<1>1. PICK s \in Admit(f), expired \in BOOLEAN :
        \/ states' = [s EXCEPT !.count[f] = Counted(s, f, expired)]
        \/ states' = [[s EXCEPT !.count[f] = Counted(s, f, expired)]
                        EXCEPT !.alerted = @ \cup {f}]
  BY DEF Report
<1>2. /\ WellFormed(s) /\ f \in s.tracked
      /\ states.tracked \ (states.alerted \cup states.acked) \subseteq s.tracked
  BY AdmitFacts
<1>3. Counted(s, f, expired) \in 0..MinOccurrences
  BY <1>2, AlerterAssumption DEF Counted, WellFormed, Memory
<1>4. ASSUME NEW n \in 0..MinOccurrences PROVE WellFormed([s EXCEPT !.count[f] = n])
  BY <1>2 DEF WellFormed, Memory
<1>5. ASSUME NEW c, WellFormed(c), c.tracked = s.tracked
      PROVE  WellFormed([c EXCEPT !.alerted = @ \cup {f}])
  BY <1>2, <1>5 DEF WellFormed, Memory
<1> DEFINE c == [s EXCEPT !.count[f] = Counted(s, f, expired)]
<1>6. WellFormed(c) /\ c.tracked = s.tracked
  BY <1>2, <1>3, <1>4 DEF WellFormed, Memory
<1>7. states' = c \/ states' = [c EXCEPT !.alerted = @ \cup {f}]
  BY <1>1
<1>8. states'.tracked = s.tracked
  BY <1>6, <1>7 DEF WellFormed, Memory
<1>. QED
  BY <1>2, <1>5, <1>6, <1>7, <1>8

-----------------------------------------------------------------------------
(* Alerter: the inductive invariant                                          *)

MapsInv ==
  /\ WellFormed(states) /\ WellFormed(disk)
  /\ \A t \in Thread : WellFormed(snap[t])

\* A goroutine on its way through emit or persist has a fingerprint, and one
\* that is about to deliver has a message.
JobInv ==
  \A t \in Thread :
    /\ at[t] \in {"log", "count", "snap", "write"} => fp[t] \in Fp
    /\ at[t] \in {"deliver", "send"} => msg[t] \in Message

IInv == TypeOK /\ MapsInv /\ JobInv /\ WaitGroupExact /\ CloseDeliversAll

LEMMA InitIInv == Init => IInv
<1> SUFFICES ASSUME Init PROVE IInv
  OBVIOUS
<1> USE AlerterAssumption DEF Init
<1>1. WellFormed(Empty)
  BY FS_EmptySet DEF Empty, WellFormed, Memory
<1>2. Cardinality({}) = 0 /\ Senders = {}
  BY FS_EmptySet DEF Senders
<1>3. MapsInv
  BY <1>1 DEF MapsInv
<1>4. TypeOK
  <2>1. states \in Memory /\ Cardinality(states.tracked) <= MaxTracked
        /\ states.alerted \cup states.acked \subseteq states.tracked
        /\ disk \in Memory /\ snap \in [Thread -> Memory]
    BY <1>1 DEF WellFormed
  <2>2. sinking = {}
    OBVIOUS
  <2>3. deliveries \in Seq(Message) /\ Len(deliveries) <= QueueCap
    OBVIOUS
  <2>4. hour \in 0..(MaxPerHour + 2) /\ starts \in 0..MaxStarts /\ wg \in Nat
        /\ notified \in [Fp -> 0..2]
    OBVIOUS
  <2>5. /\ at \in [Thread -> {"idle", "log", "count", "snap", "write", "deliver", "send"}]
        /\ fp \in [Thread -> Fp \cup {NoFp}]
        /\ msg \in [Thread -> Message \cup {NoFp}]
    OBVIOUS
  <2>6. /\ eventLog \subseteq Fp /\ logClosed \in BOOLEAN /\ digest \subseteq Fp
        /\ closing \in {"open", "flushing", "chanClosed", "done"}
        /\ saturationNotified \in BOOLEAN
    OBVIOUS
  <2>7. LostOK
    BY DEF LostOK
  <2>. QED  BY <2>1, <2>2, <2>3, <2>4, <2>5, <2>6, <2>7 DEF TypeOK
<1>. QED
  BY <1>2, <1>3, <1>4 DEF IInv, JobInv, WaitGroupExact, CloseDeliversAll

\* Moving one goroutine into, or out of, its send.
LEMMA SendersFacts ==
  ASSUME TypeOK, NEW t \in Thread, NEW step, at' = [at EXCEPT ![t] = step]
  PROVE  /\ IsFiniteSet(Senders) /\ Cardinality(Senders) \in Nat
         /\ at[t] # "send" /\ step # "send" => Senders' = Senders
         /\ at[t] # "send" /\ step = "send" =>
              Cardinality(Senders') = Cardinality(Senders) + 1
         /\ at[t] = "send" /\ step # "send" =>
              Cardinality(Senders') = Cardinality(Senders) - 1
<1> USE DEF TypeOK
<1>1. IsFiniteSet(Senders)
  BY AlerterAssumption, FS_Subset DEF Senders
<1>2. ASSUME at[t] # "send", step # "send" PROVE Senders' = Senders
  BY <1>2 DEF Senders
<1>3. ASSUME at[t] # "send", step = "send"
      PROVE  Cardinality(Senders') = Cardinality(Senders) + 1
  <2>1. Senders' = Senders \cup {t} /\ t \notin Senders
    BY <1>3 DEF Senders
  <2>. QED  BY <1>1, <2>1, FS_AddElement
<1>4. ASSUME at[t] = "send", step # "send"
      PROVE  Cardinality(Senders') = Cardinality(Senders) - 1
  <2>1. Senders' = Senders \ {t} /\ t \in Senders
    BY <1>4 DEF Senders
  <2>. QED  BY <1>1, <2>1, FS_RemoveElement
<1>. QED  BY <1>1, <1>2, <1>3, <1>4, FS_CardinalityType

\* The sinks hold at most one message at a time.
LEMMA SinkingFacts ==
  ASSUME TypeOK
  PROVE  /\ sinking = {} => Cardinality(sinking) = 0
         /\ sinking # {} => Cardinality(sinking) = 1
         /\ Cardinality(sinking) \in Nat
<1>1. CASE sinking = {}
  BY <1>1, FS_EmptySet
<1>2. CASE sinking # {}
  <2>1. PICK m \in Message : sinking = {m}
    BY <1>2 DEF TypeOK
  <2>. QED  BY <2>1, FS_Singleton
<1>. QED  BY <1>1, <1>2

LEMMA LeaveSend ==
  ASSUME TypeOK, NEW t \in Thread, at[t] = "send", at' = [at EXCEPT ![t] = "idle"]
  PROVE  /\ Cardinality(Senders') = Cardinality(Senders) - 1
         /\ Cardinality(Senders) \in Nat
<1>1. "idle" # "send"
  OBVIOUS
<1>. QED  BY <1>1, SendersFacts

LEMMA SendersFinite ==
  ASSUME TypeOK
  PROVE  /\ IsFiniteSet(Senders) /\ Cardinality(Senders) \in Nat
         /\ Cardinality(Senders) = 0 <=> Senders = {}
<1>1. IsFiniteSet(Senders)
  BY AlerterAssumption, FS_Subset DEF Senders
<1>. QED  BY <1>1, FS_CardinalityType, FS_EmptySet

\* Steps of one goroutine that touch neither the WaitGroup, nor the queue, nor
\* Close, and do not enter or leave a send.
LEMMA QuietStep ==
  ASSUME IInv, NEW t \in Thread, NEW step, at' = [at EXCEPT ![t] = step],
         at[t] # "send", step # "send",
         UNCHANGED <<wg, deliveries, sinking, closing>>
  PROVE  WaitGroupExact' /\ CloseDeliversAll'
<1>1. Senders' = Senders
  BY SendersFacts DEF IInv
<1>. QED  BY <1>1 DEF IInv, WaitGroupExact, CloseDeliversAll

\* What is lost are fingerprints.
LEMMA LostStep == IInv /\ [Next]_vars => LostOK'
<1> SUFFICES ASSUME IInv, [Next]_vars PROVE LostOK'
  OBVIOUS
<1>1. LostOK /\ WellFormed(states) /\ WellFormed(disk) /\ fp \in [Thread -> Fp \cup {NoFp}]
  BY DEF IInv, TypeOK, MapsInv
<1>2. states.alerted \subseteq Fp /\ disk.alerted \subseteq Fp
  BY <1>1 DEF WellFormed, Memory
<1>3. ASSUME NEW t \in Emitter, NEW f \in Fp, Report(t, f) PROVE LostOK'
  <2>1. forgotten' = forgotten \cup (states.alerted \ states'.alerted) /\ unlogged' = unlogged
    BY <1>3 DEF Report
  <2> QED BY <1>1, <1>2, <2>1 DEF LostOK
<1>4. ASSUME NEW t \in Thread, AppendLog(t) PROVE LostOK'
  <2>1. fp[t] \in Fp
    BY <1>4 DEF AppendLog, IInv, JobInv
  <2>2. forgotten' = forgotten /\ unlogged' \subseteq unlogged \cup {fp[t]}
    BY <1>4 DEF AppendLog
  <2> QED BY <1>1, <2>1, <2>2 DEF LostOK
<1>5. ASSUME NEW t \in Thread, WriteState(t) PROVE LostOK'
  <2>1. unlogged' = unlogged /\ forgotten' \subseteq forgotten \cup disk.alerted \cup Fp
    BY <1>5 DEF WriteState
  <2> QED BY <1>1, <1>2, <2>1 DEF LostOK
<1>6. CASE Restart
  <2>1. \A t \in Thread : at[t] = "log" => fp[t] \in Fp
    BY DEF IInv, JobInv
  <2>2. /\ forgotten' = forgotten
        /\ unlogged' = unlogged \cup {fp[t] : t \in {u \in Thread : at[u] = "log"}}
    BY <1>6 DEF Restart
  <2> QED BY <1>1, <2>1, <2>2 DEF LostOK
<1>7. CASE UNCHANGED lost
  BY <1>1, <1>7 DEF lost, LostOK
<1> QED
  BY <1>3, <1>4, <1>5, <1>6, <1>7 DEF Next, Emit, TurnAway, Ack, MaybeDigest, CountDelivery,
     Snapshot, EnterDeliver, Send, Overflow, DeliveryLoop, StartSink, FinishSink, Close,
     CloseFlag, CloseDeliveries, CloseLog, vars

\* A step of emit or of a handler: the job changes, the maps keep their form.
LEMMA StepIInv == IInv /\ [Next]_vars => IInv'
<1> SUFFICES ASSUME IInv, [Next]_vars PROVE IInv'
  OBVIOUS
<1> USE AlerterAssumption DEF IInv
<1>0. LostOK'
  BY LostStep
<1> USE <1>0
<1>1. ASSUME NEW t \in Emitter, NEW f \in Fp, Report(t, f) PROVE IInv'
  <2>1. t \in Thread /\ at[t] = "idle"
    BY <1>1 DEF Thread, Report
  <2>2. WellFormed(states')
    BY <1>1, ReportFacts DEF MapsInv
  <2>3. UNCHANGED <<disk, msg, snap, eventLog, logClosed, digest, hour, deliveries,
                    wg, sinking, closing, saturationNotified, notified, starts>>
    BY <1>1 DEF Report
  <2>4. \/ at' = [at EXCEPT ![t] = "log"] /\ fp' = [fp EXCEPT ![t] = f]
        \/ UNCHANGED <<at, fp>>
    BY <1>1 DEF Report, Goto
  <2>5. WaitGroupExact' /\ CloseDeliversAll'
    <3>1. CASE at' = [at EXCEPT ![t] = "log"]
      BY <2>1, <2>3, <3>1, QuietStep
    <3>2. CASE UNCHANGED at
      BY <2>3, <3>2 DEF WaitGroupExact, CloseDeliversAll, Senders
    <3>. QED  BY <2>4, <3>1, <3>2
  <2>6. TypeOK' /\ MapsInv' /\ JobInv'
    BY <2>1, <2>2, <2>3, <2>4 DEF TypeOK, MapsInv, JobInv, WellFormed
  <2>. QED  BY <2>5, <2>6
<1>2. ASSUME NEW t \in Emitter, NEW f \in Fp, TurnAway(t, f) PROVE IInv'
  <2>1. t \in Thread /\ at[t] = "idle"
    BY <1>2 DEF Thread, TurnAway
  <2>2. UNCHANGED <<states, disk, fp, snap, eventLog, logClosed, digest, hour,
                    deliveries, wg, sinking, closing, notified, starts>>
    BY <1>2 DEF TurnAway
  <2>3. \/ /\ at' = [at EXCEPT ![t] = "deliver"] /\ saturationNotified' = TRUE
           /\ msg' = [msg EXCEPT ![t] = "saturated"]
        \/ UNCHANGED <<at, msg, saturationNotified>>
    BY <1>2 DEF TurnAway, Goto
  <2>4. WaitGroupExact' /\ CloseDeliversAll'
    <3>1. CASE at' = [at EXCEPT ![t] = "deliver"]
      BY <2>1, <2>2, <3>1, QuietStep
    <3>2. CASE UNCHANGED at
      BY <2>2, <3>2 DEF WaitGroupExact, CloseDeliversAll, Senders
    <3>. QED  BY <2>3, <3>1, <3>2
  <2>5. TypeOK' /\ MapsInv' /\ JobInv'
    BY <2>1, <2>2, <2>3 DEF TypeOK, MapsInv, JobInv, WellFormed, Message, Notes
  <2>. QED  BY <2>4, <2>5
<1>3. ASSUME NEW t \in Acker, NEW f \in Fp, Ack(t, f) PROVE IInv'
  <2>1. t \in Thread /\ at[t] = "idle" /\ at' = [at EXCEPT ![t] = "snap"]
    BY <1>3 DEF Thread, Ack, Goto
  <2>2. WaitGroupExact' /\ CloseDeliversAll'
    BY <1>3, <2>1, QuietStep DEF Ack
  <2>3. WellFormed(states')
    BY <1>3 DEF Ack, MapsInv, WellFormed, Memory
  <2>4. TypeOK' /\ MapsInv' /\ JobInv'
    BY <1>3, <2>1, <2>3 DEF Ack, TypeOK, MapsInv, JobInv, WellFormed
  <2>. QED  BY <2>2, <2>4
<1>4. ASSUME NEW t \in Ticker, MaybeDigest(t) PROVE IInv'
  <2>1. t \in Thread /\ at[t] = "idle" /\ at' = [at EXCEPT ![t] = "deliver"]
    BY <1>4 DEF Thread, MaybeDigest, Goto
  <2>2. WaitGroupExact' /\ CloseDeliversAll'
    BY <1>4, <2>1, QuietStep DEF MaybeDigest
  <2>3. TypeOK' /\ MapsInv' /\ JobInv'
    BY <1>4, <2>1 DEF MaybeDigest, TypeOK, MapsInv, JobInv, WellFormed, Message, Notes
  <2>. QED  BY <2>2, <2>3
<1>5. ASSUME NEW t \in Thread, AppendLog(t) PROVE IInv'
  <2>1. WaitGroupExact' /\ CloseDeliversAll'
    BY <1>5, QuietStep DEF AppendLog, Goto
  <2>2. eventLog' \subseteq Fp
    BY <1>5 DEF AppendLog, TypeOK, JobInv
  <2>3. TypeOK' /\ MapsInv' /\ JobInv'
    BY <1>5, <2>2 DEF AppendLog, Goto, TypeOK, MapsInv, JobInv, WellFormed
  <2>. QED  BY <2>1, <2>3
<1>6. ASSUME NEW t \in Thread, CountDelivery(t) PROVE IInv'
  <2>1. WaitGroupExact' /\ CloseDeliversAll'
    BY <1>6, QuietStep DEF CountDelivery, Goto
  <2>2. fp[t] \in Fp
    BY <1>6 DEF CountDelivery, JobInv
  <2>3. hour' \in 0..(MaxPerHour + 2)
        /\ \E m \in Message \cup {NoFp} : msg' = [msg EXCEPT ![t] = m]
    <3>1. CASE fp[t] \in Muted
      BY <1>6, <2>2, <3>1 DEF CountDelivery, TypeOK
    <3>2. CASE fp[t] \notin Muted
      <4>1. PICK n \in 0..(MaxPerHour + 2) : hour' = n /\ msg' =
              [msg EXCEPT ![t] = IF n <= MaxPerHour THEN fp[t]
                                 ELSE IF n = MaxPerHour + 1 THEN "ceiling" ELSE NoFp]
        BY <1>6, <3>2 DEF CountDelivery, TypeOK
      <4>. QED  BY <2>2, <4>1 DEF Message, Notes
    <3>. QED  BY <3>1, <3>2
  <2>4. UNCHANGED <<states, disk, fp, snap, eventLog, logClosed, deliveries, wg,
                    sinking, closing, saturationNotified, notified, starts>>
        /\ at' = [at EXCEPT ![t] = "snap"] /\ digest' = digest \cup {fp[t]}
    BY <1>6 DEF CountDelivery, Goto
  <2>5. TypeOK' /\ MapsInv' /\ JobInv'
    BY <2>2, <2>3, <2>4 DEF TypeOK, MapsInv, JobInv, WellFormed
  <2>. QED  BY <2>1, <2>5
<1>7. ASSUME NEW t \in Thread, Snapshot(t) PROVE IInv'
  <2>1. WaitGroupExact' /\ CloseDeliversAll'
    BY <1>7, QuietStep DEF Snapshot, Goto
  <2>2. TypeOK' /\ MapsInv' /\ JobInv'
    BY <1>7 DEF Snapshot, Goto, TypeOK, MapsInv, JobInv, WellFormed
  <2>. QED  BY <2>1, <2>2
<1>8. ASSUME NEW t \in Thread, WriteState(t) PROVE IInv'
  <2>1. PICK step \in {"idle", "deliver"} :
          /\ at' = [at EXCEPT ![t] = step]
          /\ step = "deliver" => msg[t] # NoFp
    BY <1>8 DEF WriteState, Goto
  <2>a. at[t] = "write"
    BY <1>8 DEF WriteState
  <2>b. /\ UNCHANGED <<states, msg, eventLog, logClosed, digest, hour, deliveries,
                       wg, sinking, closing, saturationNotified, notified, starts>>
        /\ snap' = [snap EXCEPT ![t] = Empty] /\ fp' = [fp EXCEPT ![t] = NoFp]
    BY <1>8 DEF WriteState
  <2>2. WaitGroupExact' /\ CloseDeliversAll'
    BY <2>a, <2>1, <2>b, QuietStep
  <2>3. WellFormed(disk')
    BY <1>8 DEF WriteState, MapsInv, TypeOK, JobInv
  <2>4. WellFormed(Empty)
    BY FS_EmptySet DEF Empty, WellFormed, Memory
  <2>6. TypeOK' /\ MapsInv' /\ JobInv'
    BY <2>1, <2>3, <2>4, <2>b DEF TypeOK, MapsInv, JobInv, WellFormed
  <2>. QED  BY <2>2, <2>6
<1>9. ASSUME NEW t \in Thread, EnterDeliver(t) PROVE IInv'
  <2>0. at[t] = "deliver" /\ UNCHANGED <<states, disk, fp, snap, eventLog, logClosed,
          digest, hour, deliveries, sinking, closing, saturationNotified, notified,
          starts>>
    BY <1>9 DEF EnterDeliver
  <2>1. CASE closing # "open"
    <3>1. at' = [at EXCEPT ![t] = "idle"] /\ msg' = [msg EXCEPT ![t] = NoFp] /\ wg' = wg
      BY <1>9, <2>1 DEF EnterDeliver, Goto, closed
    <3>2. WaitGroupExact' /\ CloseDeliversAll'
      BY <2>0, <3>1, QuietStep
    <3>3. TypeOK' /\ MapsInv' /\ JobInv'
      BY <2>0, <3>1 DEF TypeOK, MapsInv, JobInv, WellFormed
    <3>. QED  BY <3>2, <3>3
  <2>2. CASE closing = "open"
    <3>1. at' = [at EXCEPT ![t] = "send"] /\ msg' = msg /\ wg' = wg + 1
      BY <1>9, <2>2 DEF EnterDeliver, Goto, closed
    <3>2. WaitGroupExact' /\ CloseDeliversAll'
      <4>1. /\ Cardinality(Senders') = Cardinality(Senders) + 1
            /\ Cardinality(Senders) \in Nat
        BY <2>0, <3>1, SendersFacts
      <4>2. Cardinality(sinking) \in Nat /\ Len(deliveries) \in Nat
        BY SinkingFacts DEF TypeOK
      <4>. QED
        BY <2>0, <2>2, <3>1, <4>1, <4>2 DEF WaitGroupExact, CloseDeliversAll
    <3>3. TypeOK' /\ MapsInv' /\ JobInv'
      BY <2>0, <3>1 DEF TypeOK, MapsInv, JobInv, WellFormed
    <3>. QED  BY <3>2, <3>3
  <2>. QED  BY <2>1, <2>2
<1>10. ASSUME NEW t \in Thread, Send(t) PROVE IInv'
  <2>1. /\ at[t] = "send" /\ at' = [at EXCEPT ![t] = "idle"]
        /\ deliveries' = Append(deliveries, msg[t]) /\ msg[t] \in Message
        /\ Len(deliveries) < QueueCap
        /\ msg' = [msg EXCEPT ![t] = NoFp]
        /\ UNCHANGED <<states, disk, fp, snap, eventLog, logClosed, digest, hour, wg,
                 sinking, closing, saturationNotified, notified, starts>>
    BY <1>10 DEF Send, Goto, JobInv
  <2>2. deliveries' \in Seq(Message) /\ Len(deliveries') = Len(deliveries) + 1
    BY <2>1 DEF TypeOK
  <2>3. t \in Senders
    BY <2>1 DEF Senders
  <2>4. WaitGroupExact'
    <3>1. Cardinality(Senders') = Cardinality(Senders) - 1 /\ Cardinality(Senders) \in Nat
      BY <2>1, LeaveSend
    <3>2. Cardinality(sinking) \in Nat
      BY SinkingFacts
    <3>. QED  BY <2>1, <2>2, <3>1 DEF WaitGroupExact, TypeOK
  <2>5. CloseDeliversAll'
    BY <2>1, <2>3 DEF CloseDeliversAll
  <2>6. TypeOK' /\ MapsInv' /\ JobInv'
    BY <2>1, <2>2 DEF TypeOK, MapsInv, JobInv, WellFormed
  <2>. QED  BY <2>4, <2>5, <2>6
<1>11. ASSUME NEW t \in Thread, Overflow(t) PROVE IInv'
  <2>1. /\ at[t] = "send" /\ at' = [at EXCEPT ![t] = "idle"] /\ wg' = wg - 1
        /\ msg' = [msg EXCEPT ![t] = NoFp]
        /\ UNCHANGED <<states, disk, fp, snap, eventLog, logClosed, digest, hour,
                 deliveries, sinking, closing, saturationNotified, notified,
                 starts>>
    BY <1>11 DEF Overflow, Goto
  <2>2. t \in Senders
    BY <2>1 DEF Senders
  <2>3. WaitGroupExact' /\ wg' \in Nat
    <3>1. Cardinality(Senders') = Cardinality(Senders) - 1
          /\ Cardinality(Senders) \in Nat
      BY <2>1, LeaveSend
    <3>2. Cardinality(Senders) # 0
      BY <2>2, SendersFinite
    <3>3. Cardinality(sinking) \in Nat /\ Len(deliveries) \in Nat
      BY SinkingFacts DEF TypeOK
    <3>. QED  BY <2>1, <3>1, <3>2, <3>3 DEF WaitGroupExact
  <2>4. CloseDeliversAll'
    BY <2>1, <2>2 DEF CloseDeliversAll
  <2>5. TypeOK' /\ MapsInv' /\ JobInv'
    BY <2>1, <2>3 DEF TypeOK, MapsInv, JobInv, WellFormed
  <2>. QED  BY <2>3, <2>4, <2>5
<1>12. CASE StartSink
  <2>1. /\ sinking = {} /\ deliveries # <<>> /\ sinking' = {Head(deliveries)}
        /\ deliveries' = Tail(deliveries) /\ notified' \in [Fp -> 0..2]
        /\ UNCHANGED <<states, disk, at, fp, msg, snap, eventLog, logClosed, digest,
                 hour, wg, closing, saturationNotified, starts>>
    BY <1>12 DEF StartSink, TypeOK
  <2>2. /\ Head(deliveries) \in Message
        /\ deliveries' \in Seq(Message) /\ Len(deliveries') = Len(deliveries) - 1
    BY <2>1 DEF TypeOK
  <2>3. Senders' = Senders
    BY <2>1 DEF Senders
  <2>4. WaitGroupExact'
    <3>1. Cardinality(sinking) = 0 /\ Cardinality(sinking') = 1
      BY <2>1, SinkingFacts, FS_Singleton
    <3>2. Cardinality(Senders) \in Nat /\ Len(deliveries) \in Nat /\ wg' = wg
      BY <2>1, SendersFinite DEF TypeOK
    <3>. QED  BY <2>2, <2>3, <3>1, <3>2 DEF WaitGroupExact
  <2>5. CloseDeliversAll'
    BY <2>1 DEF CloseDeliversAll
  <2>6. TypeOK' /\ MapsInv' /\ JobInv'
    BY <2>1, <2>2 DEF TypeOK, MapsInv, JobInv, WellFormed
  <2>. QED  BY <2>4, <2>5, <2>6
<1>13. CASE FinishSink
  <2>1. /\ sinking # {} /\ sinking' = {} /\ wg' = wg - 1
        /\ UNCHANGED <<states, disk, at, fp, msg, snap, eventLog, logClosed, digest,
                 hour, deliveries, closing, saturationNotified, notified,
                 starts>>
    BY <1>13 DEF FinishSink
  <2>2. Senders' = Senders
    BY <2>1 DEF Senders
  <2>3. WaitGroupExact' /\ wg' \in Nat
    <3>1. Cardinality(sinking) = 1 /\ Cardinality(sinking') = 0
      BY <2>1, SinkingFacts, FS_EmptySet
    <3>2. Cardinality(Senders) \in Nat /\ Len(deliveries) \in Nat
          /\ wg' = wg - 1 /\ deliveries' = deliveries
      BY <2>1, SendersFinite DEF TypeOK
    <3>. QED  BY <2>2, <3>1, <3>2 DEF WaitGroupExact
  <2>4. CloseDeliversAll'
    BY <2>1, <2>2 DEF CloseDeliversAll
  <2>5. TypeOK' /\ MapsInv' /\ JobInv'
    BY <2>1, <2>3 DEF TypeOK, MapsInv, JobInv, WellFormed
  <2>. QED  BY <2>3, <2>4, <2>5
<1>14. CASE CloseFlag
  BY <1>14 DEF CloseFlag, TypeOK, MapsInv, JobInv, WellFormed, WaitGroupExact,
     CloseDeliversAll, Senders
<1>15. CASE CloseDeliveries
  <2>1. wg = 0 /\ closing' = "chanClosed"
        /\ UNCHANGED <<states, disk, at, fp, msg, snap, eventLog, logClosed, digest,
                 hour, deliveries, wg, sinking, saturationNotified, notified,
                 starts>>
    BY <1>15 DEF CloseDeliveries
  <2>4. Senders = {} /\ deliveries = <<>> /\ sinking = {}
    <3>0. /\ Cardinality(Senders) \in Nat /\ Cardinality(sinking) \in Nat
          /\ Len(deliveries) \in Nat
      BY SendersFinite, SinkingFacts DEF TypeOK
    <3>1. Cardinality(Senders) = 0 /\ Len(deliveries) = 0 /\ Cardinality(sinking) = 0
      BY <2>1, <3>0 DEF WaitGroupExact
    <3>. QED  BY <3>1, SendersFinite, SinkingFacts DEF TypeOK
  <2>5. CloseDeliversAll' /\ WaitGroupExact'
    BY <2>1, <2>4 DEF CloseDeliversAll, WaitGroupExact, Senders
  <2>6. TypeOK' /\ MapsInv' /\ JobInv'
    BY <2>1 DEF TypeOK, MapsInv, JobInv, WellFormed
  <2>. QED  BY <2>5, <2>6
<1>16. CASE CloseLog
  BY <1>16 DEF CloseLog, TypeOK, MapsInv, JobInv, WellFormed, WaitGroupExact,
     CloseDeliversAll, Senders
<1>17. CASE Restart
  <2>1. WellFormed(Empty)
    BY FS_EmptySet DEF Empty, WellFormed, Memory
  <2>2. Senders' = {} /\ deliveries' = <<>> /\ sinking' = {} /\ wg' = 0
    BY <1>17 DEF Restart, Senders
  <2>3. WaitGroupExact' /\ CloseDeliversAll'
    BY <2>2, FS_EmptySet DEF WaitGroupExact, CloseDeliversAll
  <2>4. MapsInv' /\ JobInv'
    BY <1>17, <2>1 DEF Restart, MapsInv, JobInv
  <2>5. starts' \in 0..MaxStarts /\ hour' \in 0..(MaxPerHour + 2)
    BY <1>17 DEF Restart, TypeOK
  <2>6. TypeOK'
    <3>1. /\ states' \in Memory /\ Cardinality(states'.tracked) <= MaxTracked
          /\ states'.alerted \cup states'.acked \subseteq states'.tracked
          /\ disk' \in Memory /\ snap' \in [Thread -> Memory]
      BY <1>17, <2>1, <2>4 DEF Restart, MapsInv, WellFormed
    <3>2. /\ at' \in [Thread -> {"idle", "log", "count", "snap", "write", "deliver", "send"}]
          /\ fp' \in [Thread -> Fp \cup {NoFp}]
          /\ msg' \in [Thread -> Message \cup {NoFp}]
      BY <1>17 DEF Restart
    <3>3. /\ eventLog' \subseteq Fp /\ logClosed' \in BOOLEAN /\ digest' \subseteq Fp
          /\ closing' \in {"open", "flushing", "chanClosed", "done"}
          /\ saturationNotified' \in BOOLEAN /\ notified' \in [Fp -> 0..2]
      BY <1>17 DEF Restart, TypeOK
    <3>4. deliveries' \in Seq(Message) /\ Len(deliveries') <= QueueCap
      BY <2>2
    <3>. QED  BY <2>2, <2>5, <3>1, <3>2, <3>3, <3>4 DEF TypeOK
  <2>. QED  BY <2>3, <2>4, <2>6
<1>18. CASE UNCHANGED vars
  BY <1>18 DEF vars, TypeOK, MapsInv, JobInv, WellFormed, WaitGroupExact,
     CloseDeliversAll, Senders
<1>. QED
  BY <1>1, <1>2, <1>3, <1>4, <1>5, <1>6, <1>7, <1>8, <1>9, <1>10, <1>11, <1>12,
     <1>13, <1>14, <1>15, <1>16, <1>17, <1>18
     DEF Next, Emit, DeliveryLoop, Close

-----------------------------------------------------------------------------
(* Alerter: the theorems                                                     *)

\* Every variable keeps its type, the map of fingerprint states never exceeds
\* Options.MaxTracked, and what is alerted or acked is tracked.
THEOREM TypeCorrect == Spec => []TypeOK
<1>1. IInv => TypeOK
  BY DEF IInv
<1>. QED  BY InitIInv, StepIInv, <1>1, PTL DEF Spec

\* The delivery WaitGroup counts exactly the messages between Add and Done.
THEOREM WaitGroupCounts == Spec => []WaitGroupExact
<1>1. IInv => WaitGroupExact
  BY DEF IInv
<1>. QED  BY InitIInv, StepIInv, <1>1, PTL DEF Spec

\* Close never closes the channel under a sender, and leaves nothing queued.
THEOREM CloseIsClean == Spec => []CloseDeliversAll
<1>1. IInv => CloseDeliversAll
  BY DEF IInv
<1>. QED  BY InitIInv, StepIInv, <1>1, PTL DEF Spec

\* The step of LiveWindowKept: the only steps that stop tracking a fingerprint
\* are the eviction, whose victim is acked or alerted, and the restart.
LEMMA LiveStep == IInv /\ [Next]_vars =>
  [\A f \in states.tracked \ (states.alerted \cup states.acked) :
     f \in states'.tracked \/ starts' # starts]_vars
<1> SUFFICES ASSUME IInv, [Next]_vars,
                    NEW f \in states.tracked \ (states.alerted \cup states.acked),
                    starts' = starts
             PROVE  f \in states'.tracked
  OBVIOUS
<1>0. WellFormed(states) /\ starts \in Nat
  BY AlerterAssumption DEF IInv, MapsInv, TypeOK
<1>1. ASSUME NEW t \in Emitter, NEW g \in Fp, Report(t, g) PROVE f \in states'.tracked
  BY <1>0, <1>1, ReportFacts
<1>2. ASSUME NEW t \in Acker, NEW g \in Fp, Ack(t, g) PROVE f \in states'.tracked
  BY <1>0, <1>2 DEF Ack, WellFormed, Memory
<1>3. CASE Restart
  BY <1>0, <1>3 DEF Restart
<1>4. CASE UNCHANGED states
  BY <1>4
<1>. QED
  BY <1>1, <1>2, <1>3, <1>4 DEF Next, TurnAway, MaybeDigest, Emit, AppendLog,
     CountDelivery, Snapshot, WriteState, EnterDeliver, Send, Overflow, DeliveryLoop,
     StartSink, FinishSink, Close, CloseFlag, CloseDeliveries, CloseLog, vars

\* While a window still counts towards its first alert, no step but a restart
\* stops tracking it: evictOneLocked's victims are all acked or alerted.
THEOREM LiveWindowsAreKept == Spec => LiveWindowKept
  BY InitIInv, StepIInv, LiveStep, PTL DEF Spec, LiveWindowKept

\* Who is about to append, and what the log has or has missed.
Logging == {fp[t] : t \in {u \in Thread : at[u] = "log"}}
OnRecord == eventLog \cup unlogged \cup Logging

\* Every latch that there is a copy of is on record.
LogInv ==
  /\ states.alerted \subseteq OnRecord /\ disk.alerted \subseteq OnRecord
  /\ \A t \in Thread : snap[t].alerted \subseteq OnRecord

\* Nothing goes off the record.
LEMMA RecordGrows == IInv /\ [Next]_vars => OnRecord \subseteq OnRecord'
<1> SUFFICES ASSUME IInv, [Next]_vars PROVE OnRecord \subseteq OnRecord'
  OBVIOUS
<1>1. at \in [Thread -> {"idle", "log", "count", "snap", "write", "deliver", "send"}]
      /\ fp \in [Thread -> Fp \cup {NoFp}]
  BY DEF IInv, TypeOK
<1>2. Emitter \subseteq Thread /\ Acker \subseteq Thread /\ Ticker \subseteq Thread
  BY DEF Thread
<1>3. ASSUME NEW t \in Thread, NEW step, at[t] # "log", at' = [at EXCEPT ![t] = step],
             \A u \in Thread \ {t} : fp'[u] = fp[u], UNCHANGED <<eventLog, unlogged>>
      PROVE  OnRecord \subseteq OnRecord'
  <2>1. \A u \in Thread : at[u] = "log" => at'[u] = "log" /\ fp'[u] = fp[u]
    BY <1>1, <1>3
  <2> QED BY <1>3, <2>1 DEF OnRecord, Logging
<1>4. ASSUME UNCHANGED <<at, fp, eventLog, unlogged>> PROVE OnRecord \subseteq OnRecord'
  BY <1>4 DEF OnRecord, Logging
<1>5. ASSUME NEW t \in Thread, AppendLog(t) PROVE OnRecord \subseteq OnRecord'
  <2>1. /\ at[t] = "log" /\ at' = [at EXCEPT ![t] = "count"] /\ fp' = fp
        /\ eventLog \subseteq eventLog' /\ unlogged \subseteq unlogged'
        /\ fp[t] \in eventLog' \cup unlogged'
    BY <1>5 DEF AppendLog, Goto
  <2>2. \A u \in Thread : u # t /\ at[u] = "log" => at'[u] = "log"
    BY <1>1, <2>1
  <2> QED BY <2>1, <2>2 DEF OnRecord, Logging
<1>6. CASE Restart
  <2>1. eventLog' = eventLog /\ unlogged' = unlogged \cup Logging
    BY <1>6 DEF Restart, Logging
  <2> QED BY <2>1 DEF OnRecord
<1>7. ASSUME NEW t \in Emitter, NEW f \in Fp, Report(t, f) PROVE OnRecord \subseteq OnRecord'
  <2>1. /\ at[t] = "idle" /\ UNCHANGED <<eventLog, unlogged>>
        /\ \/ at' = [at EXCEPT ![t] = "log"] /\ fp' = [fp EXCEPT ![t] = f]
           \/ UNCHANGED <<at, fp>>
    BY <1>7 DEF Report, Goto
  <2>2. CASE at' = [at EXCEPT ![t] = "log"] /\ fp' = [fp EXCEPT ![t] = f]
    BY <1>1, <1>2, <1>3, <2>1, <2>2
  <2> QED BY <1>4, <2>1, <2>2
<1>8. ASSUME NEW t \in Emitter, NEW f \in Fp, TurnAway(t, f) PROVE OnRecord \subseteq OnRecord'
  <2>1. /\ at[t] = "idle" /\ UNCHANGED <<fp, eventLog, unlogged>>
        /\ at' = [at EXCEPT ![t] = "deliver"] \/ UNCHANGED at
    BY <1>8 DEF TurnAway, Goto, lost
  <2> QED BY <1>2, <1>3, <1>4, <2>1
<1>9. ASSUME NEW t \in Acker, NEW f \in Fp, Ack(t, f) PROVE OnRecord \subseteq OnRecord'
  <2>1. /\ at[t] = "idle" /\ at' = [at EXCEPT ![t] = "snap"] /\ fp' = [fp EXCEPT ![t] = f]
        /\ UNCHANGED <<eventLog, unlogged>>
    BY <1>9 DEF Ack, Goto, lost
  <2> QED BY <1>1, <1>2, <1>3, <2>1
<1>10. ASSUME NEW t \in Ticker, MaybeDigest(t) PROVE OnRecord \subseteq OnRecord'
  <2>1. /\ at[t] = "idle" /\ at' = [at EXCEPT ![t] = "deliver"]
        /\ UNCHANGED <<fp, eventLog, unlogged>>
    BY <1>10 DEF MaybeDigest, Goto, lost
  <2> QED BY <1>2, <1>3, <2>1
<1>11. ASSUME NEW t \in Thread,
              CountDelivery(t) \/ Snapshot(t) \/ WriteState(t) \/ EnterDeliver(t) \/ Send(t)
                \/ Overflow(t)
       PROVE  OnRecord \subseteq OnRecord'
  <2>1. /\ at[t] # "log" /\ UNCHANGED <<eventLog, unlogged>>
        /\ fp' = fp \/ fp' = [fp EXCEPT ![t] = NoFp]
    BY <1>11 DEF CountDelivery, Snapshot, WriteState, EnterDeliver, Send, Overflow, lost
  <2>2. \A u \in Thread \ {t} : fp'[u] = fp[u]
    BY <1>1, <2>1
  <2>3. PICK step : at' = [at EXCEPT ![t] = step]
    BY <1>11 DEF CountDelivery, Snapshot, WriteState, EnterDeliver, Send, Overflow, Goto
  <2> QED BY <1>3, <2>1, <2>2, <2>3
<1>12. CASE DeliveryLoop \/ Close \/ UNCHANGED vars
  BY <1>4, <1>12 DEF DeliveryLoop, StartSink, FinishSink, Close, CloseFlag, CloseDeliveries,
     CloseLog, vars, lost
<1> QED
  BY <1>5, <1>6, <1>7, <1>8, <1>9, <1>10, <1>11, <1>12 DEF Next, Emit

LEMMA LogStep == IInv /\ LogInv /\ [Next]_vars => LogInv'
<1> SUFFICES ASSUME IInv, LogInv, [Next]_vars PROVE LogInv'
  OBVIOUS
<1>1. OnRecord \subseteq OnRecord'
  BY RecordGrows
<1>2. /\ states.alerted \subseteq OnRecord' /\ disk.alerted \subseteq OnRecord'
      /\ \A t \in Thread : snap[t].alerted \subseteq OnRecord'
  BY <1>1 DEF LogInv
<1>3. /\ WellFormed(states) /\ states \in Memory /\ snap \in [Thread -> Memory]
      /\ at \in [Thread -> {"idle", "log", "count", "snap", "write", "deliver", "send"}]
      /\ fp \in [Thread -> Fp \cup {NoFp}]
  BY DEF IInv, MapsInv, TypeOK
<1>4. Empty.alerted = {}
  BY DEF Empty
<1> HIDE DEF OnRecord
<1>5. ASSUME NEW t \in Emitter, NEW g \in Fp, Report(t, g) PROVE LogInv'
  <2>1. PICK s \in Admit(g), expired \in BOOLEAN :
          LET c == [s EXCEPT !.count[g] = Counted(s, g, expired)] IN
            \/ /\ states' = [c EXCEPT !.alerted = @ \cup {g}]
               /\ at' = [at EXCEPT ![t] = "log"]
               /\ fp' = [fp EXCEPT ![t] = g]
            \/ states' = c /\ UNCHANGED <<at, fp>>
    BY <1>5 DEF Report, Goto
  <2>2. s.alerted \subseteq states.alerted /\ s \in Memory
    BY <1>3, AdmitFacts DEF WellFormed
  <2>3. t \in Thread /\ UNCHANGED <<disk, snap>>
    BY <1>5 DEF Report, Thread
  <2>4. \/ /\ states'.alerted = s.alerted \cup {g}
           /\ at' = [at EXCEPT ![t] = "log"] /\ fp' = [fp EXCEPT ![t] = g]
        \/ states'.alerted = s.alerted
    BY <2>1, <2>2 DEF Memory
  <2>5. at' = [at EXCEPT ![t] = "log"] /\ fp' = [fp EXCEPT ![t] = g] => g \in OnRecord'
    BY <1>3, <2>3 DEF OnRecord, Logging
  <2>6. states'.alerted \subseteq OnRecord'
    BY <1>2, <2>2, <2>4, <2>5
  <2> QED BY <1>2, <2>3, <2>6 DEF LogInv
<1>6. ASSUME NEW t \in Acker, NEW g \in Fp, Ack(t, g) PROVE LogInv'
  <2>1. states'.alerted = states.alerted /\ UNCHANGED <<disk, snap>>
    BY <1>3, <1>6 DEF Ack, Memory
  <2> QED BY <1>2, <2>1 DEF LogInv
<1>7. ASSUME NEW t \in Thread, Snapshot(t) PROVE LogInv'
  <2>1. snap' = [snap EXCEPT ![t] = states] /\ UNCHANGED <<states, disk>>
    BY <1>7 DEF Snapshot
  <2>2. \A u \in Thread : snap'[u] = snap[u] \/ snap'[u] = states
    BY <1>3, <2>1
  <2> QED BY <1>2, <2>1, <2>2 DEF LogInv
<1>8. ASSUME NEW t \in Thread, WriteState(t) PROVE LogInv'
  <2>1. snap' = [snap EXCEPT ![t] = Empty] /\ states' = states /\ disk' \in {disk, snap[t]}
    BY <1>8 DEF WriteState
  <2>2. \A u \in Thread : snap'[u] = snap[u] \/ snap'[u] = Empty
    BY <1>3, <2>1
  <2> QED BY <1>2, <1>4, <2>1, <2>2 DEF LogInv
<1>9. CASE Restart
  <2>1. states' = disk /\ disk' = disk /\ \A t \in Thread : snap'[t] = Empty
    BY <1>9 DEF Restart
  <2> QED BY <1>2, <1>4, <2>1 DEF LogInv
<1>10. CASE UNCHANGED <<states, disk, snap>>
  BY <1>2, <1>10 DEF LogInv
<1> QED
  BY <1>5, <1>6, <1>7, <1>8, <1>9, <1>10 DEF Next, Emit, TurnAway, MaybeDigest, AppendLog,
     CountDelivery, EnterDeliver, Send, Overflow, DeliveryLoop, StartSink, FinishSink, Close,
     CloseFlag, CloseDeliveries, CloseLog, vars

\* Every latched change is in the event log, or on its way there, or one of those
\* that a failed append or a crash kept out: muted, above the ceiling or dropped
\* by a full delivery queue, it is on the record.
THEOREM LatchedChangesAreLogged == Spec => []LatchedIsLogged
<1>1. Init => LogInv
  BY DEF Init, Empty, LogInv
<1>2. LogInv => LatchedIsLogged
  BY DEF LogInv, OnRecord, Logging, LatchedIsLogged
<1>. QED  BY InitIInv, StepIInv, LogStep, <1>1, <1>2, PTL DEF Spec

-----------------------------------------------------------------------------
(* Alerter: one alert for each finding                                       *)

\* Who will deliver f's alert, and where it waits.
Carries(t, f) == msg[t] = f \/ (at[t] \in {"log", "count"} /\ fp[t] = f)
QueuedAt(f) == {i \in 1..Len(deliveries) : deliveries[i] = f}

\* What has been told, or is about to be, is latched on disk; what is latched on
\* disk, in a snapshot or in somebody's hands is latched in memory.
Latched(f) ==
  /\ f \in disk.alerted => f \in states.alerted
  /\ f \in sinking \/ notified[f] # 0 \/ QueuedAt(f) # {} => f \in disk.alerted
  /\ \A t \in Thread :
       /\ at[t] = "write" /\ f \in snap[t].alerted => f \in states.alerted
       /\ Carries(t, f) => f \in states.alerted
       /\ at[t] = "write" /\ msg[t] = f => f \in snap[t].alerted
       /\ at[t] \in {"deliver", "send"} /\ msg[t] = f => f \in disk.alerted

\* The alert is carried by one goroutine, or waits in one place of the queue, or
\* was told.
OnePlace(f) ==
  /\ notified[f] \in {0, 1}
  /\ QueuedAt(f) # {} => notified[f] = 0
  /\ \A i, j \in QueuedAt(f) : i = j
  /\ \A t \in Thread : Carries(t, f) =>
       /\ notified[f] = 0 /\ QueuedAt(f) = {}
       /\ \A u \in Thread : Carries(u, f) => u = t

Once(f) == Latched(f) /\ OnePlace(f)

\* A goroutine has a message once it has counted its delivery.
EmptyHands == \A t \in Thread : at[t] \in {"idle", "log", "count"} => msg[t] = NoFp

AlertInv == EmptyHands /\ \A f \in Fp \ forgotten : Once(f)

\* A step that queues nothing and hands nothing to the sinks.
LEMMA OnceStays ==
  ASSUME NEW f \in Fp, Once(f), UNCHANGED <<deliveries, notified>>, sinking' \subseteq sinking,
         f \in disk.alerted => f \in disk'.alerted,
         f \in disk'.alerted => f \in states'.alerted,
         f \in states.alerted => f \in states'.alerted,
         \A t \in Thread :
           /\ Carries(t, f)' => Carries(t, f)
           /\ at'[t] = "write" /\ f \in snap'[t].alerted => f \in states'.alerted
           /\ at'[t] = "write" /\ msg'[t] = f => f \in snap'[t].alerted
           /\ at'[t] \in {"deliver", "send"} /\ msg'[t] = f => f \in disk'.alerted
  PROVE  Once(f)'
<1>1. QueuedAt(f)' = QueuedAt(f)
  BY DEF QueuedAt
<1> HIDE DEF QueuedAt, Carries
<1>2. Latched(f)'
  BY <1>1 DEF Once, Latched
<1>3. OnePlace(f)'
  BY <1>1 DEF Once, OnePlace
<1> QED BY <1>2, <1>3 DEF Once

\* The same when one goroutine goes on with what it has, or lets it go.
LEMMA OnceMoves ==
  ASSUME NEW f \in Fp, Once(f), NEW t \in Thread,
         UNCHANGED <<states, disk, deliveries, sinking, notified>>,
         \A u \in Thread \ {t} :
           at'[u] = at[u] /\ fp'[u] = fp[u] /\ msg'[u] = msg[u] /\ snap'[u] = snap[u],
         Carries(t, f)' => Carries(t, f),
         at'[t] = "write" => snap'[t].alerted = states.alerted,
         at'[t] \in {"deliver", "send"} /\ msg'[t] = f => f \in disk.alerted
  PROVE  Once(f)'
<1>1. \A u \in Thread \ {t} : Carries(u, f)' => Carries(u, f)
  BY DEF Carries
<1>2. \A u \in Thread : Carries(u, f)' => Carries(u, f)
  BY <1>1
<1>3. \A u \in Thread : at'[u] = "write" /\ msg'[u] = f => f \in snap'[u].alerted
  <2>1. at'[t] = "write" /\ msg'[t] = f => f \in snap'[t].alerted
    BY <1>2 DEF Carries, Once, Latched
  <2>2. \A u \in Thread \ {t} : at'[u] = "write" /\ msg'[u] = f => f \in snap'[u].alerted
    BY DEF Once, Latched
  <2> QED BY <2>1, <2>2
<1>4. \A u \in Thread : at'[u] = "write" /\ f \in snap'[u].alerted => f \in states.alerted
  BY DEF Once, Latched
<1>5. \A u \in Thread : at'[u] \in {"deliver", "send"} /\ msg'[u] = f => f \in disk.alerted
  BY DEF Once, Latched
<1>6. f \in disk.alerted => f \in states.alerted
  BY DEF Once, Latched
<1> QED BY <1>2, <1>3, <1>4, <1>5, <1>6, OnceStays

\* A fingerprint that is not latched after it was admitted was not latched before.
LEMMA AdmitKeepsLatch ==
  ASSUME WellFormed(states), NEW g \in Fp, NEW s \in Admit(g), g \notin s.alerted
  PROVE  g \notin states.alerted
<1>1. CASE g \in states.tracked
  BY <1>1 DEF Admit, WellFormed, Memory
<1>2. CASE g \notin states.tracked
  BY <1>2 DEF WellFormed
<1> QED BY <1>1, <1>2

\* An occurrence: a fingerprint it latches was latched nowhere, and a latch it
\* evicts is forgotten.
LEMMA OnceReported ==
  ASSUME IInv, AlertInv, NEW t \in Emitter, NEW g \in Fp, Report(t, g),
         NEW f \in Fp \ forgotten'
  PROVE  Once(f)'
<1>1. /\ at[t] = "idle" /\ t \in Thread
      /\ forgotten' = forgotten \cup (states.alerted \ states'.alerted)
      /\ UNCHANGED <<disk, msg, snap, deliveries, sinking, notified>>
  BY DEF Report, Thread
<1>2. PICK s \in Admit(g), expired \in BOOLEAN :
        LET c == [s EXCEPT !.count[g] = Counted(s, g, expired)] IN
          \/ /\ ShouldAlert(c, g)
             /\ states' = [c EXCEPT !.alerted = @ \cup {g}]
             /\ at' = [at EXCEPT ![t] = "log"] /\ fp' = [fp EXCEPT ![t] = g]
          \/ states' = c /\ UNCHANGED <<at, fp>>
  BY DEF Report, Goto
<1>3. WellFormed(states) /\ s \in Memory
  BY AdmitFacts DEF IInv, MapsInv, WellFormed
<1>4. \/ /\ g \notin s.alerted /\ states'.alerted = s.alerted \cup {g}
         /\ at' = [at EXCEPT ![t] = "log"] /\ fp' = [fp EXCEPT ![t] = g]
      \/ UNCHANGED <<at, fp>>
  BY <1>2, <1>3 DEF Memory, ShouldAlert
<1>5. /\ at \in [Thread -> {"idle", "log", "count", "snap", "write", "deliver", "send"}]
      /\ fp \in [Thread -> Fp \cup {NoFp}]
  BY DEF IInv, TypeOK
<1>6. Once(f) /\ f \in Fp /\ (f \in states.alerted => f \in states'.alerted)
  BY <1>1 DEF AlertInv
<1>7. \A u \in Thread :
        /\ at'[u] = "write" => at[u] = "write"
        /\ at'[u] \in {"deliver", "send"} => at[u] \in {"deliver", "send"}
  BY <1>1, <1>4, <1>5
<1>8. /\ f \in disk'.alerted => f \in states'.alerted
      /\ \A u \in Thread :
           /\ at'[u] = "write" /\ f \in snap'[u].alerted => f \in states'.alerted
           /\ at'[u] = "write" /\ msg'[u] = f => f \in snap'[u].alerted
           /\ at'[u] \in {"deliver", "send"} /\ msg'[u] = f => f \in disk'.alerted
  BY <1>1, <1>6, <1>7 DEF Once, Latched
<1>9. CASE \A u \in Thread : Carries(u, f)' => Carries(u, f)
  BY <1>1, <1>6, <1>8, <1>9, OnceStays
<1>10. CASE /\ f = g /\ g \notin s.alerted /\ states'.alerted = s.alerted \cup {g}
            /\ at' = [at EXCEPT ![t] = "log"] /\ fp' = [fp EXCEPT ![t] = g]
  <2>1. f \notin states.alerted
    BY <1>3, <1>10, AdmitKeepsLatch
  <2>2. /\ f \notin disk.alerted /\ f \notin sinking /\ notified[f] = 0 /\ QueuedAt(f) = {}
        /\ \A u \in Thread : ~Carries(u, f)
    BY <1>6, <2>1 DEF Once, Latched
  <2>3. QueuedAt(f)' = {}
    BY <1>1, <2>2 DEF QueuedAt
  <2>4. \A u \in Thread : Carries(u, f)' => u = t
    BY <1>1, <1>5, <1>10, <2>2 DEF Carries
  <2>5. f \in states'.alerted
    BY <1>10
  <2>6. Latched(f)'
    BY <1>1, <1>8, <2>2, <2>3, <2>5 DEF Latched
  <2>7. OnePlace(f)'
    <3>1. notified' = notified /\ notified[f] = 0
      BY <1>1, <2>2
    <3> HIDE DEF QueuedAt, Carries
    <3> QED BY <2>3, <2>4, <3>1 DEF OnePlace
  <2> QED BY <2>6, <2>7 DEF Once
<1>11. CASE f # g /\ at' = [at EXCEPT ![t] = "log"] /\ fp' = [fp EXCEPT ![t] = g]
  <2>1. \A u \in Thread : Carries(u, f)' => Carries(u, f)
    BY <1>1, <1>5, <1>11 DEF Carries
  <2> QED BY <1>9, <2>1
<1>12. CASE UNCHANGED <<at, fp>>
  <2>1. \A u \in Thread : Carries(u, f)' => Carries(u, f)
    BY <1>1, <1>12 DEF Carries
  <2> QED BY <1>9, <2>1
<1> QED BY <1>4, <1>10, <1>11, <1>12

\* persist has written its snapshot, or failed to: a latch that is not on disk
\* afterwards is forgotten.
LEMMA OnceWritten ==
  ASSUME IInv, AlertInv, NEW t \in Thread, WriteState(t), NEW f \in Fp \ forgotten'
  PROVE  Once(f)'
<1>1. /\ at[t] = "write" /\ at' = [at EXCEPT ![t] = IF msg[t] = NoFp THEN "idle" ELSE "deliver"]
      /\ snap' = [snap EXCEPT ![t] = Empty] /\ fp' = [fp EXCEPT ![t] = NoFp]
      /\ UNCHANGED <<states, msg, deliveries, sinking, notified>>
  BY DEF WriteState, Goto
<1>2. \/ disk' = snap[t] /\ f \notin forgotten \cup (disk.alerted \ snap[t].alerted)
      \/ disk' = disk /\ f \notin forgotten \cup {msg[t]}
  BY DEF WriteState
<1>3. /\ at \in [Thread -> {"idle", "log", "count", "snap", "write", "deliver", "send"}]
      /\ fp \in [Thread -> Fp \cup {NoFp}] /\ snap \in [Thread -> Memory]
  BY DEF IInv, TypeOK
<1>4. /\ at'[t] \in {"idle", "deliver"}
      /\ \A u \in Thread \ {t} : at'[u] = at[u] /\ fp'[u] = fp[u] /\ snap'[u] = snap[u]
  BY <1>1, <1>3
<1>5. Once(f)
  BY <1>2 DEF AlertInv
<1>6. /\ f \in disk.alerted => f \in disk'.alerted
      /\ f \in disk'.alerted => f \in states'.alerted
  BY <1>1, <1>2, <1>5 DEF Once, Latched
<1>7. \A u \in Thread : Carries(u, f)' => Carries(u, f)
  BY <1>1, <1>4 DEF Carries
<1>8. \A u \in Thread :
        /\ at'[u] = "write" /\ f \in snap'[u].alerted => f \in states'.alerted
        /\ at'[u] = "write" /\ msg'[u] = f => f \in snap'[u].alerted
  BY <1>1, <1>4, <1>5 DEF Once, Latched
<1>9. \A u \in Thread : at'[u] \in {"deliver", "send"} /\ msg'[u] = f => f \in disk'.alerted
  <2>1. msg[t] = f => f \in disk'.alerted
    BY <1>1, <1>2, <1>5 DEF Once, Latched
  <2>2. \A u \in Thread \ {t} :
          at'[u] \in {"deliver", "send"} /\ msg'[u] = f => f \in disk.alerted
    BY <1>1, <1>4, <1>5 DEF Once, Latched
  <2> QED BY <1>1, <1>6, <2>1, <2>2
<1> QED BY <1>1, <1>5, <1>6, <1>7, <1>8, <1>9, OnceStays

\* A message that is queued leaves its goroutine's hands.
LEMMA OnceQueued ==
  ASSUME IInv, NEW f \in Fp, Once(f), NEW t \in Thread, Send(t)
  PROVE  Once(f)'
<1>1. /\ at[t] = "send" /\ deliveries' = Append(deliveries, msg[t])
      /\ at' = [at EXCEPT ![t] = "idle"] /\ msg' = [msg EXCEPT ![t] = NoFp]
      /\ UNCHANGED <<states, disk, fp, snap, sinking, notified>>
  BY DEF Send, Goto
<1>2. deliveries \in Seq(Message) /\ Len(deliveries) \in Nat /\ msg[t] \in Message /\ NoFp \notin Fp
  BY <1>1, AlerterAssumption DEF IInv, TypeOK, JobInv, Message
<1>3. /\ Len(deliveries') = Len(deliveries) + 1 /\ deliveries'[Len(deliveries) + 1] = msg[t]
      /\ \A i \in 1..Len(deliveries) : deliveries'[i] = deliveries[i]
  BY <1>1, <1>2
<1>4. /\ \A u \in Thread \ {t} : at'[u] = at[u] /\ msg'[u] = msg[u]
      /\ at'[t] = "idle" /\ msg'[t] = NoFp
  BY <1>1 DEF IInv, TypeOK
<1>5. /\ ~Carries(t, f)'
      /\ \A u \in Thread \ {t} : Carries(u, f)' => Carries(u, f)
  BY <1>1, <1>2, <1>4 DEF Carries
<1>6. QueuedAt(f)' = QueuedAt(f) \cup {i \in {Len(deliveries) + 1} : msg[t] = f}
  BY <1>2, <1>3 DEF QueuedAt
<1>7. msg[t] = f => /\ f \in disk.alerted /\ notified[f] = 0 /\ QueuedAt(f) = {}
                    /\ \A u \in Thread : Carries(u, f) => u = t
  BY <1>1 DEF Once, Latched, OnePlace, Carries
<1>8. Latched(f)'
  <2>1. f \in sinking' \/ notified'[f] # 0 \/ QueuedAt(f)' # {} => f \in disk'.alerted
    <3> HIDE DEF QueuedAt
    <3> QED BY <1>1, <1>6, <1>7 DEF Once, Latched
  <2>2. \A u \in Thread :
          /\ at'[u] = "write" /\ f \in snap'[u].alerted => f \in states'.alerted
          /\ Carries(u, f)' => f \in states'.alerted
          /\ at'[u] = "write" /\ msg'[u] = f => f \in snap'[u].alerted
          /\ at'[u] \in {"deliver", "send"} /\ msg'[u] = f => f \in disk'.alerted
    <3> HIDE DEF Carries, QueuedAt
    <3> QED BY <1>1, <1>4, <1>5 DEF Once, Latched
  <2>3. f \in disk'.alerted => f \in states'.alerted
    BY <1>1 DEF Once, Latched
  <2> QED BY <2>1, <2>2, <2>3 DEF Latched
<1>9. OnePlace(f)'
  <2> HIDE DEF Carries, QueuedAt
  <2>1. CASE msg[t] = f
    BY <1>1, <1>5, <1>6, <1>7, <2>1 DEF OnePlace
  <2>2. CASE msg[t] # f
    <3>1. QueuedAt(f)' = QueuedAt(f)
      BY <1>6, <2>2
    <3> QED BY <1>1, <1>5, <3>1 DEF Once, OnePlace
  <2> QED BY <2>1, <2>2
<1> QED BY <1>8, <1>9 DEF Once

\* The sinks get the message at the head of the queue, which is nowhere else.
LEMMA OnceTold ==
  ASSUME IInv, NEW f \in Fp, Once(f), StartSink
  PROVE  Once(f)'
<1> DEFINE m == Head(deliveries)
<1>1. /\ deliveries # <<>> /\ sinking' = {m} /\ deliveries' = Tail(deliveries)
      /\ notified' = [g \in Fp |-> IF g = m /\ notified[g] < 2 THEN notified[g] + 1 ELSE notified[g]]
      /\ UNCHANGED <<states, disk, at, fp, msg, snap>>
  BY DEF StartSink
<1>2. deliveries \in Seq(Message)
  BY DEF IInv, TypeOK
<1>3. /\ Len(deliveries) \in Nat \ {0} /\ m = deliveries[1] /\ Len(deliveries') = Len(deliveries) - 1
      /\ \A i \in 1..Len(deliveries') : deliveries'[i] = deliveries[i + 1]
  BY <1>1, <1>2
<1> HIDE DEF m
<1>4. \A i \in 1..Len(deliveries') : i + 1 \in 1..Len(deliveries) /\ i + 1 # 1
  BY <1>3
<1>5. \A i \in QueuedAt(f)' : i + 1 \in QueuedAt(f) /\ i + 1 # 1 /\ i \in Nat
  BY <1>3, <1>4 DEF QueuedAt
<1>6. m = f => 1 \in QueuedAt(f)
  <2>1. 1 \in 1..Len(deliveries) /\ m = deliveries[1]
    BY <1>3
  <2> QED BY ONLY <2>1 DEF QueuedAt
<1>7. \A u \in Thread : Carries(u, f)' = Carries(u, f)
  BY <1>1 DEF Carries
<1> HIDE DEF QueuedAt, Carries
<1>8. m = f => notified[f] = 0 /\ f \in disk.alerted /\ QueuedAt(f)' = {}
  BY <1>5, <1>6 DEF Once, Latched, OnePlace
<1>9. notified'[f] = IF m = f THEN 1 ELSE notified[f]
  BY <1>1, <1>8
<1>10. QueuedAt(f)' # {} => QueuedAt(f) # {}
  BY <1>5
<1>11. Latched(f)'
  BY <1>1, <1>7, <1>8, <1>9, <1>10 DEF Once, Latched
<1>12. \A i, j \in QueuedAt(f)' : i = j
  <2>1. ASSUME NEW i \in QueuedAt(f)', NEW j \in QueuedAt(f)' PROVE i = j
    <3>1. i + 1 = j + 1 /\ i \in Nat /\ j \in Nat
      BY <1>5 DEF Once, OnePlace
    <3> QED BY <3>1
  <2> QED BY <2>1
<1>13. OnePlace(f)'
  <2>1. CASE m = f
    <3>1. \A u \in Thread : ~Carries(u, f)
      BY <1>6, <2>1 DEF Once, OnePlace
    <3> QED BY <1>7, <1>8, <1>9, <2>1, <3>1 DEF OnePlace
  <2>2. CASE m # f
    BY <1>7, <1>9, <1>10, <1>12, <2>2 DEF Once, OnePlace
  <2> QED BY <2>1, <2>2
<1> QED BY <1>11, <1>13 DEF Once

\* The process starts again with what state.json says, and empty hands.
LEMMA OnceRestarted ==
  ASSUME IInv, NEW f \in Fp, Once(f), Restart
  PROVE  Once(f)'
<1>1. /\ states' = disk /\ disk' = disk /\ notified' = notified
      /\ deliveries' = <<>> /\ sinking' = {}
      /\ \A t \in Thread : at'[t] = "idle" /\ msg'[t] = NoFp
  BY DEF Restart
<1>2. QueuedAt(f)' = {} /\ \A t \in Thread : ~Carries(t, f)'
  BY <1>1, AlerterAssumption DEF QueuedAt, Carries, Message
<1> HIDE DEF QueuedAt, Carries
<1>3. Latched(f)'
  BY <1>1, <1>2 DEF Once, Latched
<1>4. OnePlace(f)'
  BY <1>1, <1>2 DEF Once, OnePlace
<1> QED BY <1>3, <1>4 DEF Once

\* A step that leaves alone whatever an alert is made of, but for what the sinks hold.
LEMMA OnceElsewhere ==
  ASSUME NEW f \in Fp, Once(f), sinking' \subseteq sinking,
         UNCHANGED <<states, disk, at, fp, msg, snap, deliveries, notified>>
  PROVE  Once(f)'
<1>1. QueuedAt(f)' = QueuedAt(f) /\ \A t \in Thread : Carries(t, f)' = Carries(t, f)
  BY DEF QueuedAt, Carries
<1> HIDE DEF QueuedAt, Carries
<1> QED BY <1>1 DEF Once, Latched, OnePlace

\* What one goroutine does from emit to the queue.
LEMMA OnceEmitted ==
  ASSUME IInv, AlertInv, NEW t \in Thread, Emit(t), NEW f \in Fp \ forgotten'
  PROVE  Once(f)'
<1>1. /\ at \in [Thread -> {"idle", "log", "count", "snap", "write", "deliver", "send"}]
      /\ msg \in [Thread -> Message \cup {NoFp}] /\ snap \in [Thread -> Memory]
      /\ NoFp \notin Fp /\ Fp \cap Notes = {}
  BY AlerterAssumption, NoticesAssumption DEF IInv, TypeOK, Message
<1>2. CASE WriteState(t)
  BY <1>2, OnceWritten
<1>3. CASE ~WriteState(t)
  <2>1. forgotten' = forgotten
    BY <1>3 DEF Emit, AppendLog, CountDelivery, Snapshot, EnterDeliver, Send, Overflow, lost
  <2>2. Once(f) /\ f \in Fp
    BY <2>1 DEF AlertInv
  <2>3. at[t] \in {"deliver", "send"} /\ msg[t] = f => f \in disk.alerted
    BY <2>2 DEF Once, Latched
  <2>4. CASE AppendLog(t)
    <3>1. /\ at[t] = "log" /\ at' = [at EXCEPT ![t] = "count"]
          /\ UNCHANGED <<states, disk, fp, msg, snap, deliveries, sinking, notified>>
      BY <2>4 DEF AppendLog, Goto
    <3>2. Carries(t, f)' => Carries(t, f)
      BY <1>1, <3>1 DEF Carries
    <3>3. at'[t] = "count" /\ \A u \in Thread \ {t} : at'[u] = at[u]
      BY <1>1, <3>1
    <3> QED BY <2>2, <3>1, <3>2, <3>3, OnceMoves
  <2>5. CASE CountDelivery(t)
    <3>1. /\ at[t] = "count" /\ at' = [at EXCEPT ![t] = "snap"]
          /\ UNCHANGED <<states, disk, fp, snap, deliveries, sinking, notified>>
      BY <2>5 DEF CountDelivery, Goto
    <3>2. PICK m \in {fp[t], "ceiling", NoFp} : msg' = [msg EXCEPT ![t] = m]
      BY <2>5 DEF CountDelivery
    <3>3. /\ at'[t] = "snap" /\ msg'[t] = m
          /\ \A u \in Thread \ {t} : at'[u] = at[u] /\ msg'[u] = msg[u]
      BY <1>1, <3>1, <3>2
    <3>4. Carries(t, f)' => Carries(t, f)
      BY <1>1, <2>2, <3>1, <3>2, <3>3 DEF Carries, Notes
    <3> QED BY <2>2, <3>1, <3>3, <3>4, OnceMoves
  <2>6. CASE Snapshot(t)
    <3>1. /\ at[t] = "snap" /\ at' = [at EXCEPT ![t] = "write"]
          /\ snap' = [snap EXCEPT ![t] = states]
          /\ UNCHANGED <<states, disk, fp, msg, deliveries, sinking, notified>>
      BY <2>6 DEF Snapshot, Goto
    <3>2. /\ at'[t] = "write" /\ snap'[t] = states
          /\ \A u \in Thread \ {t} : at'[u] = at[u] /\ snap'[u] = snap[u]
      BY <1>1, <3>1
    <3>3. Carries(t, f)' => Carries(t, f)
      BY <3>1, <3>2 DEF Carries
    <3> QED BY <2>2, <3>1, <3>2, <3>3, OnceMoves
  <2>7. CASE EnterDeliver(t)
    <3>1. /\ at[t] = "deliver"
          /\ UNCHANGED <<states, disk, fp, snap, deliveries, sinking, notified>>
          /\ \/ at' = [at EXCEPT ![t] = "idle"] /\ msg' = [msg EXCEPT ![t] = NoFp]
             \/ at' = [at EXCEPT ![t] = "send"] /\ msg' = msg
      BY <2>7 DEF EnterDeliver, Goto
    <3>2. /\ at'[t] \in {"idle", "send"} /\ msg'[t] \in {NoFp, msg[t]}
          /\ \A u \in Thread \ {t} : at'[u] = at[u] /\ msg'[u] = msg[u]
      BY <1>1, <3>1
    <3>3. Carries(t, f)' => Carries(t, f)
      BY <1>1, <2>2, <3>2 DEF Carries
    <3>4. at'[t] \in {"deliver", "send"} /\ msg'[t] = f => f \in disk.alerted
      BY <1>1, <2>2, <2>3, <3>1, <3>2
    <3> QED BY <2>2, <3>1, <3>2, <3>3, <3>4, OnceMoves
  <2>8. CASE Send(t)
    BY <2>2, <2>8, OnceQueued
  <2>9. CASE Overflow(t)
    <3>1. /\ at' = [at EXCEPT ![t] = "idle"] /\ msg' = [msg EXCEPT ![t] = NoFp]
          /\ UNCHANGED <<states, disk, fp, snap, deliveries, sinking, notified>>
      BY <2>9 DEF Overflow, Goto
    <3>2. /\ at'[t] = "idle" /\ msg'[t] = NoFp
          /\ \A u \in Thread \ {t} : at'[u] = at[u] /\ msg'[u] = msg[u]
      BY <1>1, <3>1
    <3>3. Carries(t, f)' => Carries(t, f)
      BY <1>1, <2>2, <3>2 DEF Carries
    <3> QED BY <2>2, <3>1, <3>2, <3>3, OnceMoves
  <2> QED BY <1>3, <2>4, <2>5, <2>6, <2>7, <2>8, <2>9 DEF Emit
<1> QED BY <1>2, <1>3

\* Every step keeps one alert for each fingerprint that was not forgotten.
LEMMA OnceKept ==
  ASSUME IInv, AlertInv, [Next]_vars, NEW f \in Fp \ forgotten'
  PROVE  Once(f)'
<1>1. /\ Emitter \subseteq Thread /\ Acker \subseteq Thread /\ Ticker \subseteq Thread
      /\ at \in [Thread -> {"idle", "log", "count", "snap", "write", "deliver", "send"}]
      /\ msg \in [Thread -> Message \cup {NoFp}] /\ fp \in [Thread -> Fp \cup {NoFp}]
      /\ states \in Memory /\ NoFp \notin Fp /\ Fp \cap Notes = {}
  BY AlerterAssumption, NoticesAssumption DEF IInv, TypeOK, Message, Thread
<1>2. forgotten' = forgotten => Once(f) /\ f \in Fp
  BY DEF AlertInv
<1>3. ASSUME NEW t \in Thread, at[t] = "idle", NEW m \in Notes, forgotten' = forgotten,
             at' = [at EXCEPT ![t] = "deliver"], msg' = [msg EXCEPT ![t] = m],
             UNCHANGED <<states, disk, fp, snap, deliveries, sinking, notified>>
      PROVE  Once(f)'
  <2>1. /\ at'[t] = "deliver" /\ msg'[t] # f
        /\ \A u \in Thread \ {t} : at'[u] = at[u] /\ msg'[u] = msg[u]
    BY <1>1, <1>3
  <2>2. Carries(t, f)' => Carries(t, f)
    BY <2>1 DEF Carries
  <2> QED BY <1>2, <1>3, <2>1, <2>2, OnceMoves
<1>4. ASSUME NEW t \in Emitter, NEW g \in Fp, Report(t, g) PROVE Once(f)'
  BY <1>4, OnceReported
<1>5. ASSUME NEW t \in Emitter, NEW g \in Fp, TurnAway(t, g) PROVE Once(f)'
  <2>1. /\ at[t] = "idle" /\ forgotten' = forgotten
        /\ UNCHANGED <<states, disk, fp, snap, deliveries, sinking, notified>>
        /\ \/ at' = [at EXCEPT ![t] = "deliver"] /\ msg' = [msg EXCEPT ![t] = "saturated"]
           \/ UNCHANGED <<msg, at>>
    BY <1>5 DEF TurnAway, Goto, lost
  <2>2. CASE at' = [at EXCEPT ![t] = "deliver"] /\ msg' = [msg EXCEPT ![t] = "saturated"]
    BY <1>1, <1>3, <2>1, <2>2 DEF Notes
  <2> QED BY <1>2, <2>1, <2>2, OnceElsewhere
<1>6. ASSUME NEW t \in Acker, NEW g \in Fp, Ack(t, g) PROVE Once(f)'
  <2>1. /\ at[t] = "idle" /\ forgotten' = forgotten /\ at' = [at EXCEPT ![t] = "snap"]
        /\ fp' = [fp EXCEPT ![t] = g] /\ states' = [states EXCEPT !.acked = @ \cup {g}]
        /\ UNCHANGED <<disk, msg, snap, deliveries, sinking, notified>>
    BY <1>6 DEF Ack, Goto, lost
  <2>2. states'.alerted = states.alerted
    BY <1>1, <2>1 DEF Memory
  <2>3. at'[t] = "snap" /\ \A u \in Thread \ {t} : at'[u] = at[u] /\ fp'[u] = fp[u]
    BY <1>1, <2>1
  <2>4. \A u \in Thread : Carries(u, f)' => Carries(u, f)
    BY <2>1, <2>3 DEF Carries
  <2>5. Once(f) /\ f \in Fp
    BY <1>2, <2>1
  <2>6. /\ f \in disk'.alerted => f \in states'.alerted
        /\ \A u \in Thread :
             /\ at'[u] = "write" /\ f \in snap'[u].alerted => f \in states'.alerted
             /\ at'[u] = "write" /\ msg'[u] = f => f \in snap'[u].alerted
             /\ at'[u] \in {"deliver", "send"} /\ msg'[u] = f => f \in disk'.alerted
    BY <2>1, <2>2, <2>3, <2>5 DEF Once, Latched
  <2> QED BY <2>1, <2>2, <2>4, <2>5, <2>6, OnceStays
<1>7. ASSUME NEW t \in Ticker, MaybeDigest(t) PROVE Once(f)'
  <2>1. /\ at[t] = "idle" /\ forgotten' = forgotten /\ at' = [at EXCEPT ![t] = "deliver"]
        /\ msg' = [msg EXCEPT ![t] = "digest"]
        /\ UNCHANGED <<states, disk, fp, snap, deliveries, sinking, notified>>
    BY <1>7 DEF MaybeDigest, Goto, lost
  <2> QED BY <1>1, <1>3, <2>1 DEF Notes
<1>8. ASSUME NEW t \in Thread, Emit(t) PROVE Once(f)'
  BY <1>8, OnceEmitted
<1>9. CASE StartSink
  BY <1>2, <1>9, OnceTold DEF StartSink, lost
<1>10. CASE Restart
  BY <1>2, <1>10, OnceRestarted DEF Restart
<1>11. CASE FinishSink \/ Close \/ UNCHANGED vars
  BY <1>2, <1>11, OnceElsewhere DEF FinishSink, Close, CloseFlag, CloseDeliveries, CloseLog,
     vars, lost
<1> QED
  BY <1>4, <1>5, <1>6, <1>7, <1>8, <1>9, <1>10, <1>11 DEF Next, DeliveryLoop

\* Nobody has a message before it has counted its delivery.
LEMMA HandsStep == IInv /\ EmptyHands /\ [Next]_vars => EmptyHands'
<1> SUFFICES ASSUME IInv, EmptyHands, [Next]_vars PROVE EmptyHands'
  OBVIOUS
<1>1. /\ at \in [Thread -> {"idle", "log", "count", "snap", "write", "deliver", "send"}]
      /\ msg \in [Thread -> Message \cup {NoFp}]
      /\ Emitter \subseteq Thread /\ Acker \subseteq Thread /\ Ticker \subseteq Thread
  BY DEF IInv, TypeOK, Thread
<1>2. ASSUME NEW t \in Thread, NEW step, NEW m, at' = [at EXCEPT ![t] = step],
             msg' = [msg EXCEPT ![t] = m], step \in {"idle", "log", "count"} => m = NoFp
      PROVE  EmptyHands'
  BY <1>1, <1>2 DEF EmptyHands
<1>3. ASSUME NEW t \in Thread, NEW step, at' = [at EXCEPT ![t] = step], msg' = msg,
             step \in {"idle", "log", "count"} => msg[t] = NoFp
      PROVE  EmptyHands'
  BY <1>1, <1>3 DEF EmptyHands
<1>4. ASSUME UNCHANGED <<at, msg>> PROVE EmptyHands'
  BY <1>4 DEF EmptyHands
<1>5. ASSUME NEW t \in Emitter, NEW f \in Fp, Report(t, f) PROVE EmptyHands'
  <2>1. /\ at[t] = "idle" /\ msg' = msg
        /\ at' = [at EXCEPT ![t] = "log"] \/ at' = at
    BY <1>5 DEF Report, Goto
  <2>2. msg[t] = NoFp
    BY <1>1, <2>1 DEF EmptyHands
  <2> QED BY <1>1, <1>3, <1>4, <2>1, <2>2
<1>6. ASSUME NEW t \in Emitter, NEW f \in Fp, TurnAway(t, f) PROVE EmptyHands'
  BY <1>1, <1>2, <1>4, <1>6 DEF TurnAway, Goto
<1>7. ASSUME NEW t \in Acker, NEW f \in Fp, Ack(t, f) PROVE EmptyHands'
  BY <1>1, <1>3, <1>7 DEF Ack, Goto
<1>8. ASSUME NEW t \in Ticker, MaybeDigest(t) PROVE EmptyHands'
  BY <1>1, <1>2, <1>8 DEF MaybeDigest, Goto
<1>9. ASSUME NEW t \in Thread, AppendLog(t) PROVE EmptyHands'
  <2>1. at[t] = "log" /\ msg' = msg /\ at' = [at EXCEPT ![t] = "count"]
    BY <1>9 DEF AppendLog, Goto
  <2> QED BY <1>3, <2>1 DEF EmptyHands
<1>10. ASSUME NEW t \in Thread, CountDelivery(t) PROVE EmptyHands'
  <2>1. /\ at' = [at EXCEPT ![t] = "snap"] /\ \E m : msg' = [msg EXCEPT ![t] = m]
    BY <1>10 DEF CountDelivery, Goto
  <2> QED BY <1>2, <2>1
<1>11. ASSUME NEW t \in Thread, Snapshot(t) PROVE EmptyHands'
  BY <1>3, <1>11 DEF Snapshot, Goto
<1>12. ASSUME NEW t \in Thread, WriteState(t) PROVE EmptyHands'
  <2>1. msg' = msg /\ at' = [at EXCEPT ![t] = IF msg[t] = NoFp THEN "idle" ELSE "deliver"]
    BY <1>12 DEF WriteState, Goto
  <2> QED BY <1>3, <2>1
<1>13. ASSUME NEW t \in Thread, EnterDeliver(t) PROVE EmptyHands'
  <2>1. \/ at' = [at EXCEPT ![t] = "idle"] /\ msg' = [msg EXCEPT ![t] = NoFp]
        \/ at' = [at EXCEPT ![t] = "send"] /\ msg' = msg
    BY <1>13 DEF EnterDeliver, Goto
  <2> QED BY <1>2, <1>3, <2>1
<1>14. ASSUME NEW t \in Thread, Send(t) \/ Overflow(t) PROVE EmptyHands'
  <2>1. at' = [at EXCEPT ![t] = "idle"] /\ msg' = [msg EXCEPT ![t] = NoFp]
    BY <1>14 DEF Send, Overflow, Goto
  <2> QED BY <1>2, <2>1
<1>15. CASE Restart
  BY <1>15 DEF Restart, EmptyHands
<1>16. CASE DeliveryLoop \/ Close \/ UNCHANGED vars
  BY <1>4, <1>16 DEF DeliveryLoop, StartSink, FinishSink, Close, CloseFlag, CloseDeliveries,
     CloseLog, vars
<1> QED
  BY <1>5, <1>6, <1>7, <1>8, <1>9, <1>10, <1>11, <1>12, <1>13, <1>14, <1>15, <1>16
  DEF Next, Emit

LEMMA AlertStep == IInv /\ AlertInv /\ [Next]_vars => AlertInv'
<1> SUFFICES ASSUME IInv, AlertInv, [Next]_vars PROVE AlertInv'
  OBVIOUS
<1>1. EmptyHands'
  BY HandsStep DEF AlertInv
<1>2. \A f \in Fp \ forgotten' : Once(f)'
  BY OnceKept
<1> QED BY <1>1, <1>2 DEF AlertInv

\* A sink gets an alert after its latch is on disk, and gets it once, for any
\* number of goroutines, crashes and failures of the disk, unless the latch is
\* one of those that were forgotten: evicted from the map, overwritten by an older
\* snapshot, or not written by a persist that failed.
THEOREM EachAlertOnce == Spec => []OneAlertEach
<1>1. Init => AlertInv
  <2> SUFFICES ASSUME Init PROVE AlertInv
    OBVIOUS
  <2> USE AlerterAssumption DEF Init
  <2>1. EmptyHands
    BY DEF EmptyHands
  <2>2. ASSUME NEW f \in Fp PROVE Once(f)
    <3>1. QueuedAt(f) = {} /\ \A t \in Thread : ~Carries(t, f)
      BY DEF QueuedAt, Carries, Message
    <3>2. f \notin Empty.alerted
      BY DEF Empty
    <3> HIDE DEF QueuedAt, Carries
    <3> QED BY <3>1, <3>2 DEF Once, Latched, OnePlace
  <2> QED BY <2>1, <2>2 DEF AlertInv
<1>2. IInv /\ AlertInv => OneAlertEach
  <2> SUFFICES ASSUME IInv, AlertInv, NEW f \in Fp \ forgotten
               PROVE  /\ notified[f] <= 1
                      /\ (f \in sinking \/ \E i \in 1..Len(deliveries) : deliveries[i] = f)
                           => f \in disk.alerted
    BY DEF OneAlertEach, LatchedBeforeDelivery, NotifiesAtMostOnce
  <2>1. Once(f)
    BY DEF AlertInv
  <2>2. notified[f] <= 1
    BY <2>1 DEF Once, OnePlace
  <2> QED BY <2>1, <2>2 DEF Once, Latched, QueuedAt
<1> QED BY InitIInv, StepIInv, AlertStep, <1>1, <1>2, PTL DEF Spec
=============================================================================
