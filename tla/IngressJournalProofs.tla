------------------------ MODULE IngressJournalProofs ------------------------
(***************************************************************************)
(* Proofs about IngressJournal, for every set of keys and every limit.     *)
(*                                                                         *)
(* An operation writes from a ready memory, and a ready memory is what     *)
(* both files hold (ReadyIsDurable), so whatever part of the write takes   *)
(* effect leaves a chain that a load accepts (DiskIsLoadable).  OpStep     *)
(* says this once for every operation; the lemmas *IsOpStep show that each *)
(* operation is one.  The exception is a purge that is written but cannot  *)
(* be read back (PurgeUnread): memory keeps what the disk has lost.  That  *)
(* is fenced, so no later write can put it back (UpdateOfDisk).            *)
(* OneExecution follows from an invariant of its own, Remembered, as long  *)
(* as no claim has to evict.                                               *)
(***************************************************************************)
EXTENDS IngressJournal, FiniteSetTheorems, TLAPS

EntryMap == [Keys -> Entry]

\* e and f are the same key's entry before and after: knowledge is only gained.
Advances(e, f) ==
    e.phase # "none" /\ f.phase # "none" =>
        /\ Rank[f.phase] >= Rank[e.phase]
        /\ f.text = e.text /\ f.turn = e.turn
        /\ e.reply # None => f.reply = e.reply
        /\ e.cgen > 0 => f.cgen = e.cgen

\* What any operation may turn the entries into.
GoodUpdate(es) ==
    /\ es \in EntryMap
    /\ ValidPayload(es)
    /\ \A k \in Keys : Advances(mem.entries[k], es[k])
    /\ \A k \in Keys : es[k].phase = "none" => es[k] \in {mem.entries[k], NoEntry}
    /\ \A k \in Keys : es[k].phase = "delivery_inflight" =>
            mem.entries[k].phase = "delivery_inflight" \/ k \in ours'
    /\ (\E j \in Keys : mem.entries[j] = NoEntry /\ es[j] # NoEntry) =>
            \A k \in Keys : mem.entries[k].phase \notin {"none", "completed"} =>
                es[k] = mem.entries[k]

\* An execution grant goes to a key that was absent or reserved and that the
\* write made accepted.
GoodGrant(es) ==
    \A k \in Keys : started'[k] > started[k] =>
        /\ mem.entries[k].phase \in {"none", "reserved"}
        /\ es[k].phase = "accepted"
        /\ mem'.state = "ready"

\* The entries pass the fence, or they are a purge's, which only removes and
\* has checked memory against the disk.
Permitted(es) ==
    \/ Writable(es)
    \/ /\ mem.entries = file.entries
       /\ \A k \in Keys : es[k] \in {mem.entries[k], NoEntry}

\* The common shape of the operations.
OpStep ==
    /\ owner # "closed" /\ mem.state = "ready"
    /\ UNCHANGED <<now, owner, fenced>>
    /\ ours \subseteq ours' /\ ours' \in SUBSET Keys
    /\ started' \in [Keys -> Nat]
    /\ \E es \in EntryMap : /\ GoodUpdate(es) /\ GoodGrant(es) /\ Permitted(es)
                            /\ WriteScoped(mem, head, es, mem.entries)

\* While the owner works, the disk shows no delivery in flight but its own.
OwnerInflight ==
    owner # "closed" => \A k \in Keys :
        file.entries[k].phase = "delivery_inflight" => k \in ours

\* An owner that works has a journal on disk and has not shut down.
OwnerLoaded == owner # "closed" => mem.state # "down" /\ file.gen > 0

\* The entries in a ready memory would pass validation, even those that a
\* purge has removed from the disk only.
ReadyIsValid == mem.state = "ready" => ValidPayload(mem.entries)

\* A process that has not started fences nothing.
FenceIsLocal == mem.state = "down" => fenced = {}

IInv == /\ TypeOK /\ DiskIsLoadable /\ ReadyIsDurable /\ InflightIsOurs
        /\ OwnerInflight /\ OwnerLoaded /\ ReadyIsValid /\ FenceIsLocal

-----------------------------------------------------------------------------
(* Entries *)

\* The value of an absent key is an entry record.
LEMMA NoEntryType == NoEntry \in Entry
BY ConstantsAssumption DEF NoEntry, Entry

\* The empty journal is a valid payload.
LEMMA NoEntriesGood == NoEntries \in EntryMap /\ ValidPayload(NoEntries)
<1>1. NoEntries \in EntryMap
  BY NoEntryType DEF NoEntries, EntryMap
<1>2. Held(NoEntries) = {}
  BY DEF Held, NoEntries, NoEntry
<1>3. QED
  BY <1>1, <1>2, FS_EmptySet, ConstantsAssumption DEF ValidPayload

\* Every phase has a rank.
LEMMA RankNat == \A p \in Phases \cup {"none"} : Rank[p] \in Nat
BY DEF Phases, Rank

\* Keeping an entry as it is loses nothing.
LEMMA AdvancesRefl == \A e \in Entry : Advances(e, e)
BY RankNat DEF Advances, Entry

\* _logical_entry_updated_at stays inside the entry's lifetime.
LEMMA LogicalBounds ==
    ASSUME NEW e \in Entry, NEW t \in Nat, e.created < e.expires
    PROVE  /\ LogicalUpdatedAt(e, t) \in Nat
           /\ e.created <= LogicalUpdatedAt(e, t)
           /\ LogicalUpdatedAt(e, t) <= e.expires
BY DEF LogicalUpdatedAt, Lesser, Greater, Entry

\* Held sets are finite, and removing entries cannot overfill the journal.
LEMMA HeldFinite == \A es : IsFiniteSet(Held(es)) /\ Cardinality(Held(es)) \in Nat
BY ConstantsAssumption, FS_Subset, FS_CardinalityType DEF Held

\* Removing entries, as the deletions and the pruning do, keeps a payload valid.
LEMMA WithoutGood ==
    ASSUME NEW es \in EntryMap, ValidPayload(es), NEW dropped
    PROVE  /\ Without(es, dropped) \in EntryMap
           /\ ValidPayload(Without(es, dropped))
           /\ Held(Without(es, dropped)) = Held(es) \ dropped
<1> DEFINE ws == Without(es, dropped)
<1>1. ws \in EntryMap
  BY NoEntryType DEF Without, EntryMap
<1>2. Held(ws) = Held(es) \ dropped
  BY DEF Held, Without, NoEntry
<1>3. Cardinality(Held(ws)) <= Cardinality(Held(es))
  BY <1>2, HeldFinite, FS_Subset
<1>4. Cardinality(Held(ws)) <= MaxEntries
  BY <1>3, HeldFinite, ConstantsAssumption DEF ValidPayload
<1>5. \A k \in Held(ws) : ValidEntry(ws[k])
  BY <1>2 DEF ValidPayload, Without, Held
<1>6. QED
  BY <1>1, <1>2, <1>4, <1>5 DEF ValidPayload

\* Replacing a held entry keeps the count.
LEMMA ReplaceGood ==
    ASSUME NEW es \in EntryMap, ValidPayload(es), NEW k \in Held(es),
           NEW e \in Entry, e.phase # "none", ValidEntry(e)
    PROVE  /\ [es EXCEPT ![k] = e] \in EntryMap
           /\ ValidPayload([es EXCEPT ![k] = e])
<1> DEFINE rs == [es EXCEPT ![k] = e]
<1>1. rs \in EntryMap /\ Held(rs) = Held(es)
  BY DEF EntryMap, Held
<1>2. \A j \in Held(rs) : ValidEntry(rs[j])
  BY <1>1 DEF ValidPayload, EntryMap, Held
<1>3. QED
  BY <1>1, <1>2 DEF ValidPayload

\* Adding a key below the limit keeps the count within it.
LEMMA InsertGood ==
    ASSUME NEW es \in EntryMap, ValidPayload(es),
           Cardinality(Held(es)) < MaxEntries, NEW k \in Keys \ Held(es),
           NEW e \in Entry, e.phase # "none", ValidEntry(e)
    PROVE  /\ [es EXCEPT ![k] = e] \in EntryMap
           /\ ValidPayload([es EXCEPT ![k] = e])
<1> DEFINE rs == [es EXCEPT ![k] = e]
<1>1. rs \in EntryMap /\ Held(rs) = Held(es) \cup {k}
  BY DEF EntryMap, Held
<1>2. Cardinality(Held(rs)) = Cardinality(Held(es)) + 1
  BY <1>1, HeldFinite, FS_AddElement
<1>3. Cardinality(Held(rs)) <= MaxEntries
  BY <1>2, HeldFinite, ConstantsAssumption
<1>4. \A j \in Held(rs) : ValidEntry(rs[j])
  BY <1>1 DEF ValidPayload, EntryMap, Held
<1>5. QED
  BY <1>1, <1>3, <1>4 DEF ValidPayload

\* An eviction makes room and takes completed entries only.
LEMMA EvictionGood ==
    ASSUME NEW es \in EntryMap, ValidPayload(es), NEW victims \in Evictions(es)
    PROVE  /\ victims \subseteq {j \in Held(es) : es[j].phase = "completed"}
           /\ Cardinality(Held(Without(es, victims))) < MaxEntries
<1>1. CASE Cardinality(Held(es)) < MaxEntries
  <2>1. victims = {}
    BY <1>1 DEF Evictions
  <2>2. Held(Without(es, victims)) = Held(es)
    BY <2>1, WithoutGood
  <2>3. QED
    BY <1>1, <2>1, <2>2
<1>2. CASE ~(Cardinality(Held(es)) < MaxEntries)
  <2>1. PICK j \in Keys : es[j].phase = "completed" /\ victims = {j}
    BY <1>2 DEF Evictions
  <2>2. j \in Held(es)
    BY <2>1 DEF Held
  <2>3. Held(Without(es, victims)) = Held(es) \ {j}
    BY <2>1, WithoutGood
  <2>4. Cardinality(Held(es) \ {j}) = Cardinality(Held(es)) - 1
    BY <2>2, HeldFinite, FS_RemoveElement
  <2>5. Cardinality(Held(es)) <= MaxEntries
    BY DEF ValidPayload
  <2>6. Cardinality(Held(Without(es, victims))) < MaxEntries
    BY <2>3, <2>4, <2>5, HeldFinite, ConstantsAssumption
  <2>7. QED
    BY <2>1, <2>2, <2>6
<1>3. QED
  BY <1>1, <1>2

-----------------------------------------------------------------------------
(* Writes *)

MemType == [state : States, gen : Nat, hash : Nat, entries : EntryMap]
FileType == [gen : Nat, prev : Nat, hash : Nat, entries : EntryMap]
HeadType == [gen : Nat, hash : Nat]

\* A write from a memory that is at the head h, over a disk that h describes,
\* leaves a loadable disk whatever part of it takes effect, and a ready memory
\* only when all of it did.
LEMMA WriteSound ==
    ASSUME TypeOK,
           NEW m \in MemType, NEW h \in HeadType,
           NEW es \in EntryMap, NEW onFail \in EntryMap, ValidPayload(es),
           m.state = "ready", m.gen = h.gen,
           IF h.gen = 0 THEN m.hash = 0 ELSE m.hash = h.hash,
           \/ file.gen = 0 /\ h.gen = 0
           \/ file.gen > 0 /\ HeadOf(file) = h /\ ValidPayload(file.entries),
           WriteScoped(m, h, es, onFail)
    PROVE  /\ mem' \in MemType /\ file' \in FileType /\ head' \in HeadType
           /\ writes' \in Nat /\ faults' \in Nat
           /\ DiskIsLoadable' /\ ReadyIsDurable'
           /\ file' = file \/ (file'.entries = es /\ file'.gen > 0)
           /\ \/ /\ mem'.state = "ready" /\ mem'.entries = es
                 /\ file'.entries = es /\ file'.gen > 0
              \/ mem'.state = "error"
           /\ mem'.state = "ready" => head' = HeadOf(file')
<1> DEFINE f == NextFile(m, es)
<1>1. /\ f \in FileType /\ f.gen = m.gen + 1 /\ f.prev = m.hash /\ f.entries = es
      /\ HeadOf(f) \in HeadType /\ HeadOf(f).gen = f.gen /\ HeadOf(f).hash = f.hash
      /\ f.gen > 0 /\ f.gen \in Nat /\ f.hash \in Nat
  BY DEF NextFile, FileType, MemType, HeadType, HeadOf, TypeOK
<1>2. file \in FileType
  BY DEF TypeOK, FileType, EntryMap
<1>3. CASE /\ mem' = [m EXCEPT !.gen = f.gen, !.hash = f.hash, !.entries = es]
           /\ file' = f /\ head' = HeadOf(f)
           /\ writes' = writes + 1 /\ UNCHANGED faults
  <2>1. mem' \in MemType /\ writes' \in Nat /\ faults' \in Nat
    <3>1. mem' \in MemType
      BY <1>1, <1>3 DEF MemType
    <3>2. QED
      BY <1>3, <3>1 DEF TypeOK
  <2>2. mem'.state = "ready" /\ mem'.gen = f.gen /\ mem'.hash = f.hash /\ mem'.entries = es
    BY <1>1, <1>3 DEF MemType
  <2>3. ChainCurrent' /\ Loadable'
    BY <1>1, <1>3 DEF ChainCurrent, Loadable
  <2>4. mem'.gen = file'.gen /\ mem'.hash = file'.hash /\ mem'.entries = file'.entries
    BY <2>2, <1>1, <1>3
  <2>5. ReadyIsDurable'
    BY <1>1, <1>3, <2>3, <2>4 DEF ReadyIsDurable
  <2>6. QED
    BY <1>1, <1>3, <2>1, <2>2, <2>3, <2>5 DEF DiskIsLoadable
<1>4. CASE /\ faults' = faults + 1
           /\ mem' = [m EXCEPT !.state = "error", !.entries = onFail]
           /\ \/ file' = file /\ head' = h /\ writes' = writes
              \/ file' = f /\ head' = h /\ writes' = writes + 1
              \/ file' = f /\ head' = HeadOf(f) /\ writes' = writes + 1
  <2>1. mem' \in MemType /\ mem'.state = "error"
    BY <1>4 DEF MemType, States
  <2>2. /\ file' \in FileType /\ head' \in HeadType
        /\ writes' \in Nat /\ faults' \in Nat
    BY <1>1, <1>2, <1>4 DEF TypeOK
  <2>3. CASE file' = file /\ head' = h
    <3>1. DiskIsLoadable'
      BY <2>3 DEF DiskIsLoadable, Loadable, ChainCurrent, HeadOf, HeadType
    <3>2. QED
      BY <2>1, <2>2, <2>3, <3>1 DEF ReadyIsDurable
  <2>4. CASE file' = f /\ head' = h
    <3>1. ChainLags'
      BY <1>1, <2>4 DEF ChainLags, HeadType
    <3>2. QED
      BY <1>1, <2>1, <2>2, <2>4, <3>1 DEF DiskIsLoadable, Loadable, ReadyIsDurable
  <2>5. CASE file' = f /\ head' = HeadOf(f)
    <3>1. ChainCurrent'
      BY <1>1, <2>5 DEF ChainCurrent
    <3>2. QED
      BY <1>1, <2>1, <2>2, <2>5, <3>1 DEF DiskIsLoadable, Loadable, ReadyIsDurable
  <2>6. QED
    BY <1>4, <2>3, <2>4, <2>5
<1>5. QED
  BY <1>3, <1>4 DEF WriteScoped

-----------------------------------------------------------------------------
(* Each operation is an OpStep *)

\* Nothing but a claim changes the execution history upwards.
Quiet == started' \in [Keys -> Nat] /\ \A j \in Keys : started'[j] <= started[j]

\* The entries an operation starts from are well formed and valid.
LEMMA ReadyFacts ==
    ASSUME IInv, mem.state = "ready"
    PROVE  mem.entries \in EntryMap /\ ValidPayload(mem.entries)
BY DEF IInv, TypeOK, EntryMap, ReadyIsValid

\* A step that grants nothing grants nothing wrongly.
LEMMA QuietGrant ==
    ASSUME TypeOK, Quiet, NEW es
    PROVE  GoodGrant(es)
BY DEF Quiet, GoodGrant, TypeOK

\* Operations that are not claims leave the history alone.
LEMMA UnchangedIsQuiet ==
    ASSUME TypeOK, UNCHANGED started
    PROVE  Quiet
BY DEF Quiet, TypeOK

\* Only a key named in the grant, whose write succeeded, gains a grant.
LEMMA TrackType ==
    ASSUME TypeOK, NEW dropped, NEW granted, Track(dropped, granted)
    PROVE  /\ started' \in [Keys -> Nat]
           /\ \A k \in Keys : started'[k] > started[k] =>
                 k \in granted /\ mem'.state = "ready"
BY DEF TypeOK, Track

\* Deletions only forget grants.
LEMMA TrackNoneIsQuiet ==
    ASSUME TypeOK, NEW dropped, Track(dropped, {})
    PROVE  Quiet
BY DEF TypeOK, Track, Quiet

\* The stamp of _mutate_and_write keeps an otherwise valid entry valid.
LEMMA StampGood ==
    ASSUME NEW e \in Entry, NEW t \in Nat,
           ValidEntry([e EXCEPT !.updated = e.created])
    PROVE  LET s == [e EXCEPT !.updated = LogicalUpdatedAt(e, t)] IN
           /\ s \in Entry /\ ValidEntry(s)
           /\ s.phase = e.phase /\ s.text = e.text /\ s.turn = e.turn
           /\ s.reply = e.reply /\ s.cgen = e.cgen
<1> DEFINE c == [e EXCEPT !.updated = e.created]
           s == [e EXCEPT !.updated = LogicalUpdatedAt(e, t)]
<1>1. /\ e.phase = c.phase /\ e.text = c.text /\ e.turn = c.turn /\ e.reply = c.reply
      /\ e.cgen = c.cgen /\ e.created = c.created /\ e.expires = c.expires
      /\ e.recovered = c.recovered /\ e.ref = c.ref
  BY DEF Entry
<1>2. e.created < e.expires
  BY <1>1 DEF ValidEntry
<1>3. /\ LogicalUpdatedAt(e, t) \in Nat
      /\ e.created <= LogicalUpdatedAt(e, t) /\ LogicalUpdatedAt(e, t) <= e.expires
  BY <1>2, LogicalBounds
<1>4. /\ s \in Entry /\ s.updated = LogicalUpdatedAt(e, t)
      /\ s.phase = e.phase /\ s.text = e.text /\ s.turn = e.turn /\ s.reply = e.reply
      /\ s.cgen = e.cgen /\ s.created = e.created /\ s.expires = e.expires
      /\ s.recovered = e.recovered /\ s.ref = e.ref
  BY <1>3 DEF Entry
<1>5. ValidEntry(s)
  BY <1>1, <1>3, <1>4 DEF ValidEntry
<1>6. QED
  BY <1>4, <1>5

\* Any mutation of one held entry that gains knowledge.
LEMMA MutateIsOpStep ==
    ASSUME IInv, owner # "closed", mem.state = "ready",
           UNCHANGED <<now, owner, fenced>>,
           ours \subseteq ours', ours' \in SUBSET Keys,
           NEW k \in Held(mem.entries), NEW e \in Entry, e.phase # "none",
           Advances(mem.entries[k], e),
           ValidEntry([e EXCEPT !.updated = e.created]),
           e.phase = "delivery_inflight" =>
               mem.entries[k].phase = "delivery_inflight" \/ k \in ours',
           Mutate(k, e),
           started' \in [Keys -> Nat],
           \A j \in Keys : started'[j] > started[j] =>
               /\ j = k /\ mem.entries[k].phase = "reserved"
               /\ e.phase = "accepted" /\ mem'.state = "ready"
    PROVE  OpStep
<1> DEFINE t == Greater(now, mem.entries[k].updated)
           s == [e EXCEPT !.updated = LogicalUpdatedAt(e, t)]
           es == [mem.entries EXCEPT ![k] = s]
<1>1. mem.entries \in EntryMap /\ ValidPayload(mem.entries) /\ k \in Keys
  BY ReadyFacts DEF Held
<1>2. t \in Nat
  BY <1>1 DEF Greater, IInv, TypeOK, EntryMap, Entry
<1>3. /\ s \in Entry /\ ValidEntry(s) /\ s.phase = e.phase /\ s.text = e.text
      /\ s.turn = e.turn /\ s.reply = e.reply /\ s.cgen = e.cgen
  BY <1>2, StampGood
<1> HIDE DEF s
<1>4. es \in EntryMap /\ ValidPayload(es)
  BY <1>1, <1>3, ReplaceGood
<1>5. es[k] = s /\ \A j \in Keys : j # k => es[j] = mem.entries[j]
  BY <1>1 DEF EntryMap
<1>6. Advances(mem.entries[k], es[k])
  BY <1>3, <1>5 DEF Advances
<1>7. \A j \in Keys : Advances(mem.entries[j], es[j])
  BY <1>1, <1>5, <1>6, AdvancesRefl DEF EntryMap
<1>8. ~ \E j \in Keys : mem.entries[j] = NoEntry /\ es[j] # NoEntry
  BY <1>5 DEF Held, NoEntry
<1>9. GoodUpdate(es)
  BY <1>3, <1>4, <1>5, <1>7, <1>8 DEF GoodUpdate
<1>10. GoodGrant(es)
  BY <1>3, <1>5 DEF GoodGrant
<1>11. Permitted(es) /\ WriteScoped(mem, head, es, mem.entries)
  BY DEF Mutate, Persist, Permitted, s
<1>12. QED
  BY <1>4, <1>9, <1>10, <1>11 DEF OpStep

\* Removing entries in one write.
LEMMA RemoveIsOpStep ==
    ASSUME IInv, owner # "closed", mem.state = "ready",
           UNCHANGED <<now, owner, fenced, ours>>, Quiet,
           NEW dropped,
           Writable(Without(mem.entries, dropped)) \/ mem.entries = file.entries,
           WriteScoped(mem, head, Without(mem.entries, dropped), mem.entries)
    PROVE  OpStep
<1> DEFINE es == Without(mem.entries, dropped)
<1>1. mem.entries \in EntryMap /\ ValidPayload(mem.entries)
  BY ReadyFacts
<1>2. es \in EntryMap /\ ValidPayload(es)
  BY <1>1, WithoutGood
<1>3. \A j \in Keys : es[j] = mem.entries[j] \/ es[j] = NoEntry
  BY DEF Without
<1>4. \A j \in Keys : Advances(mem.entries[j], es[j])
  <2>1. \A j \in Keys : Advances(mem.entries[j], NoEntry)
    BY DEF Advances, NoEntry
  <2>2. QED
    BY <1>1, <1>3, <2>1, AdvancesRefl DEF EntryMap
<1>5. \A j \in Keys : es[j].phase = "delivery_inflight" =>
          mem.entries[j].phase = "delivery_inflight"
  BY <1>3 DEF NoEntry
<1>6. ~ \E j \in Keys : mem.entries[j] = NoEntry /\ es[j] # NoEntry
  BY <1>3
<1>7. GoodUpdate(es)
  BY <1>2, <1>3, <1>4, <1>5, <1>6 DEF GoodUpdate
<1>8. Permitted(es)
  BY <1>3 DEF Permitted
<1>9. QED
  BY <1>2, <1>7, <1>8, QuietGrant DEF OpStep, IInv, TypeOK, Quiet

\* Admitting a new key, with an eviction at the limit.
LEMMA AdmitIsOpStep ==
    ASSUME IInv, owner # "closed", mem.state = "ready",
           UNCHANGED <<now, owner, fenced, ours>>,
           NEW k \in Keys, mem.entries[k] = NoEntry,
           NEW e \in Entry, e.phase \in {"reserved", "accepted"}, ValidEntry(e),
           Admit(k, e),
           started' \in [Keys -> Nat],
           \A j \in Keys : started'[j] > started[j] =>
               j = k /\ e.phase = "accepted" /\ mem'.state = "ready"
    PROVE  OpStep
<1>1. mem.entries \in EntryMap /\ ValidPayload(mem.entries)
  BY ReadyFacts
<1>2. PICK victims \in Evictions(mem.entries) :
          Persist([Without(mem.entries, victims) EXCEPT ![k] = e])
  BY DEF Admit
<1> DEFINE ws == Without(mem.entries, victims)
           es == [ws EXCEPT ![k] = e]
<1>3. /\ victims \subseteq {j \in Held(mem.entries) : mem.entries[j].phase = "completed"}
      /\ Cardinality(Held(ws)) < MaxEntries
  BY <1>1, <1>2, EvictionGood
<1>4. /\ ws \in EntryMap /\ ValidPayload(ws) /\ Held(ws) = Held(mem.entries) \ victims
  BY <1>1, WithoutGood
<1>5. k \in Keys \ Held(ws)
  BY <1>4 DEF Held, NoEntry
<1>6. es \in EntryMap /\ ValidPayload(es)
  BY <1>3, <1>4, <1>5, InsertGood
<1>7. es[k] = e /\ \A j \in Keys : j # k => es[j] = mem.entries[j] \/ es[j] = NoEntry
  BY <1>4 DEF EntryMap, Without
<1>8. \A j \in Keys : mem.entries[j].phase \notin {"none", "completed"} =>
          es[j] = mem.entries[j]
  BY <1>3, <1>4 DEF EntryMap, Without, NoEntry
<1>9. \A j \in Keys : Advances(mem.entries[j], es[j])
  <2>1. \A j \in Keys : Advances(mem.entries[j], NoEntry)
    BY DEF Advances, NoEntry
  <2>2. Advances(mem.entries[k], es[k])
    BY DEF Advances, NoEntry
  <2>3. QED
    BY <1>1, <1>7, <2>1, <2>2, AdvancesRefl DEF EntryMap
<1>10. \A j \in Keys : es[j].phase = "delivery_inflight" =>
          mem.entries[j].phase = "delivery_inflight"
  BY <1>7 DEF NoEntry
<1>11. GoodUpdate(es)
  BY <1>6, <1>7, <1>8, <1>9, <1>10 DEF GoodUpdate
<1>12. GoodGrant(es)
  BY <1>7 DEF GoodGrant, NoEntry
<1>13. Permitted(es) /\ WriteScoped(mem, head, es, mem.entries)
  BY <1>2 DEF Persist, Permitted
<1>14. QED
  BY <1>6, <1>11, <1>12, <1>13 DEF OpStep, IInv, TypeOK

\* The entry a claim or a reservation creates is valid.
LEMMA FreshEntryGood ==
    ASSUME TypeOK, NEW phase \in {"reserved", "accepted"}, NEW turn \in Turns,
           NEW text \in Texts, NEW ref \in Refs \cup {None}, NEW ttl \in 1..MaxAge,
           phase = "reserved" => ref # None
    PROVE  LET e == FreshEntry(phase, turn, text, ref, ttl) IN
           /\ e \in Entry /\ ValidEntry(e)
           /\ e.phase = phase /\ e.turn = turn /\ e.text = text /\ e.ref = ref
           /\ e.reply = None /\ e.cgen = 0
<1> DEFINE e == FreshEntry(phase, turn, text, ref, ttl)
<1>1. e = [phase |-> phase, turn |-> turn, text |-> text, reply |-> None,
           ref |-> ref, cgen |-> 0, created |-> now, updated |-> now,
           expires |-> now + ttl, recovered |-> 0, err |-> "none"]
  BY DEF FreshEntry
<1>2. e \in Entry
  BY <1>1, ConstantsAssumption DEF Entry, Phases, TypeOK
<1>3. ValidEntry(e)
  BY <1>1, ConstantsAssumption DEF ValidEntry, TypeOK
<1>4. QED
  BY <1>1, <1>2, <1>3

\* reserve_ingress
LEMMA ReserveIngressIsOpStep ==
    ASSUME IInv, NEW k \in Keys, NEW text \in Texts, NEW turn \in Turns,
           NEW ref \in Refs, NEW ttl \in 1..MaxAge,
           ReserveIngress(k, text, turn, ref, ttl)
    PROVE  OpStep
<1> DEFINE e == FreshEntry("reserved", turn, text, ref, ttl)
<1>1. /\ owner # "closed" /\ mem.state = "ready" /\ Quiet /\ UNCHANGED <<now, owner, fenced, ours>>
  BY UnchangedIsQuiet DEF ReserveIngress, MayOperate, Prepared, IInv
<1>2. /\ e \in Entry /\ ValidEntry(e) /\ e.phase = "reserved" /\ e.turn = turn
      /\ e.text = text /\ e.ref = ref /\ e.reply = None /\ e.cgen = 0
  BY FreshEntryGood, ConstantsAssumption DEF IInv
<1> HIDE DEF e
<1>3. CASE mem.entries[k] = NoEntry /\ Admit(k, e)
  BY <1>1, <1>2, <1>3, AdmitIsOpStep DEF Quiet, IInv, TypeOK
<1>4. CASE /\ mem.entries[k].phase = "reserved"
           /\ mem.entries[k].text = text /\ mem.entries[k].turn = turn
           /\ Persist([mem.entries EXCEPT ![k] = e])
  <2> DEFINE es == [mem.entries EXCEPT ![k] = e]
  <2>1. mem.entries \in EntryMap /\ ValidPayload(mem.entries) /\ k \in Held(mem.entries)
    BY <1>1, <1>4, ReadyFacts DEF Held
  <2>2. es \in EntryMap /\ ValidPayload(es)
    BY <1>2, <2>1, ReplaceGood
  <2>3. es[k] = e /\ \A j \in Keys : j # k => es[j] = mem.entries[j]
    BY <2>1 DEF EntryMap
  <2>4. ValidEntry(mem.entries[k]) /\ mem.entries[k] \in Entry
    BY <2>1 DEF ValidPayload, EntryMap
  <2>5. Advances(mem.entries[k], es[k])
    <3>1. Rank[e.phase] = Rank[mem.entries[k].phase] /\ Rank[e.phase] \in Nat
      BY <1>2, <1>4, RankNat DEF Phases
    <3>2. mem.entries[k].reply = None /\ ~(mem.entries[k].cgen > 0)
      BY <1>4, <2>4 DEF ValidEntry
    <3>3. QED
      BY <1>2, <1>4, <2>3, <3>1, <3>2 DEF Advances
  <2>6. \A j \in Keys : Advances(mem.entries[j], es[j])
    BY <2>1, <2>3, <2>5, AdvancesRefl DEF EntryMap
  <2>7. ~ \E j \in Keys : mem.entries[j] = NoEntry /\ es[j] # NoEntry
    BY <1>4, <2>3 DEF NoEntry
  <2>8. GoodUpdate(es)
    BY <1>2, <2>2, <2>3, <2>6, <2>7 DEF GoodUpdate
  <2>9. QED
    BY <1>1, <1>4, <2>2, <2>8, QuietGrant DEF OpStep, Persist, Permitted, IInv, TypeOK, Quiet
<1>5. QED
  BY <1>3, <1>4 DEF ReserveIngress, e

\* An edit of a valid entry x that keeps its lifetime is valid up to its stamp.
LEMMA EditGood ==
    ASSUME NEW x \in Entry, ValidEntry(x), NEW e \in Entry,
           e.text = x.text, e.turn = x.turn, e.created = x.created,
           e.expires = x.expires, e.recovered = x.recovered,
           e.reply = None => e.phase \in {"reserved", "accepted",
                                          "delivery_inflight", "delivery_ambiguous"},
           e.phase \in {"reserved", "accepted"} => e.reply = None,
           (e.cgen > 0) <=> (e.phase \in {"terminal_committing", "completed"}),
           e.phase # "reserved"
    PROVE  ValidEntry([e EXCEPT !.updated = e.created])
<1> DEFINE c == [e EXCEPT !.updated = e.created]
<1>1. /\ c.phase = e.phase /\ c.text = e.text /\ c.turn = e.turn /\ c.reply = e.reply
      /\ c.cgen = e.cgen /\ c.created = e.created /\ c.expires = e.expires
      /\ c.recovered = e.recovered /\ c.ref = e.ref /\ c.updated = e.created
  BY DEF Entry
<1>2. e.created \in Nat /\ e.expires \in Nat /\ e.recovered \in Nat
  BY DEF Entry
<1>3. QED
  BY <1>1, <1>2 DEF ValidEntry

\* The entry of a key that some phase guard names is held and valid.
LEMMA HeldEntry ==
    ASSUME IInv, mem.state = "ready", NEW k \in Keys, mem.entries[k].phase # "none"
    PROVE  /\ k \in Held(mem.entries)
           /\ mem.entries[k] \in Entry /\ ValidEntry(mem.entries[k])
BY ReadyFacts DEF Held, EntryMap, ValidPayload

\* mark_response_ready binds a reply to an accepted entry that has none.
LEMMA MarkResponseReadyIsOpStep ==
    ASSUME IInv, NEW k \in Keys, NEW reply \in Replies, MarkResponseReady(k, reply)
    PROVE  OpStep
<1> DEFINE x == mem.entries[k]
           e == [x EXCEPT !.phase = "response_ready", !.reply = reply, !.err = "none"]
<1>1. /\ owner # "closed" /\ mem.state = "ready" /\ Quiet /\ UNCHANGED <<now, owner, fenced>>
      /\ ours \subseteq ours' /\ ours' \in SUBSET Keys
      /\ x.phase = "accepted"
      /\ Mutate(k, e)
  BY UnchangedIsQuiet DEF MarkResponseReady, MayOperate, Prepared, IInv, TypeOK
<1>2. x \in Entry /\ ValidEntry(x) /\ k \in Held(mem.entries)
  BY <1>1, HeldEntry
<1> HIDE DEF x
<1>3. /\ e \in Entry
      /\ e.phase = "response_ready" /\ e.reply = reply /\ e.cgen = x.cgen
      /\ e.text = x.text /\ e.turn = x.turn /\ e.created = x.created
      /\ e.expires = x.expires /\ e.recovered = x.recovered
  BY <1>1, <1>2, ConstantsAssumption DEF Entry, Phases, Codes
<1> HIDE DEF e
<1>4. ValidEntry([e EXCEPT !.updated = e.created])
  <2>1. (x.cgen > 0) <=> (x.phase \in {"terminal_committing", "completed"})
    BY <1>2 DEF ValidEntry
  <2>2. x.reply = None => x.phase \in {"reserved", "accepted",
                                       "delivery_inflight", "delivery_ambiguous"}
    BY <1>2 DEF ValidEntry
  <2>3. QED
    BY <1>1, <1>2, <1>3, <2>1, <2>2, EditGood, ConstantsAssumption
<1>5. Advances(x, e)
  <2>1. x.phase \in {"reserved", "accepted"} => x.reply = None
    BY <1>2 DEF ValidEntry
  <2>2. (x.cgen > 0) <=> (x.phase \in {"terminal_committing", "completed"})
    BY <1>2 DEF ValidEntry
  <2>3. Rank[e.phase] >= Rank[x.phase]
    BY <1>1, <1>3 DEF Rank
  <2>4. QED
    BY <1>1, <1>3, <2>1, <2>2, <2>3 DEF Advances
<1>6. QED
  BY <1>1, <1>2, <1>3, <1>4, <1>5, MutateIsOpStep DEF Quiet, IInv, TypeOK, x

\* bind_response binds a reply where there is none and keeps the phase or advances it.
LEMMA BindResponseIsOpStep ==
    ASSUME IInv, NEW k \in Keys, NEW reply \in Replies, BindResponse(k, reply)
    PROVE  OpStep
<1> DEFINE x == mem.entries[k]
           p == IF x.phase = "accepted" THEN "response_ready" ELSE x.phase
           e == [x EXCEPT !.phase = p, !.reply = reply]
<1>1. /\ owner # "closed" /\ mem.state = "ready" /\ Quiet /\ UNCHANGED <<now, owner, fenced>>
      /\ ours \subseteq ours' /\ ours' \in SUBSET Keys
      /\ x.reply = None /\ x.phase \in {"accepted", "delivery_inflight", "delivery_ambiguous"}
      /\ Mutate(k, e)
  BY UnchangedIsQuiet DEF BindResponse, MayOperate, Prepared, IInv, TypeOK
<1>2. x \in Entry /\ ValidEntry(x) /\ k \in Held(mem.entries)
  BY <1>1, HeldEntry
<1> HIDE DEF x
<1>p. /\ p \in {"response_ready", "delivery_inflight", "delivery_ambiguous"}
      /\ x.phase = "accepted" => p = "response_ready"
      /\ x.phase # "accepted" => p = x.phase
  BY <1>1
<1> HIDE DEF p
<1>3. /\ e \in Entry
      /\ e.phase = p
      /\ e.reply = reply /\ e.cgen = x.cgen
      /\ e.text = x.text /\ e.turn = x.turn /\ e.created = x.created
      /\ e.expires = x.expires /\ e.recovered = x.recovered
  BY <1>2, <1>p, ConstantsAssumption DEF Entry, Phases, Codes
<1> HIDE DEF e
<1>4. ValidEntry([e EXCEPT !.updated = e.created])
  <2>1. (x.cgen > 0) <=> (x.phase \in {"terminal_committing", "completed"})
    BY <1>2 DEF ValidEntry
  <2>2. x.reply = None => x.phase \in {"reserved", "accepted",
                                       "delivery_inflight", "delivery_ambiguous"}
    BY <1>2 DEF ValidEntry
  <2>3. QED
    BY <1>1, <1>2, <1>3, <1>p, <2>1, <2>2, EditGood, ConstantsAssumption
<1>5. Advances(x, e)
  <2>1. x.phase \in {"reserved", "accepted"} => x.reply = None
    BY <1>2 DEF ValidEntry
  <2>2. (x.cgen > 0) <=> (x.phase \in {"terminal_committing", "completed"})
    BY <1>2 DEF ValidEntry
  <2>3. Rank[e.phase] >= Rank[x.phase]
    BY <1>1, <1>3, <1>p DEF Rank
  <2>4. QED
    BY <1>1, <1>3, <1>p, <2>1, <2>2, <2>3 DEF Advances
<1>6. QED
  BY <1>1, <1>2, <1>3, <1>4, <1>5, <1>p, MutateIsOpStep DEF Quiet, IInv, TypeOK, x

\* mark_delivery_inflight makes the delivery this process's own.
LEMMA MarkDeliveryInflightIsOpStep ==
    ASSUME IInv, NEW k \in Keys, NEW ref \in Refs \cup {None}, MarkDeliveryInflight(k, ref)
    PROVE  OpStep
<1> DEFINE x == mem.entries[k]
           e == [x EXCEPT !.phase = "delivery_inflight", !.ref = ref, !.err = "none"]
<1>1. /\ owner # "closed" /\ mem.state = "ready" /\ Quiet /\ UNCHANGED <<now, owner, fenced>>
      /\ ours \subseteq ours' /\ ours' \in SUBSET Keys /\ k \in ours'
      /\ x.phase \in {"accepted", "response_ready"}
      /\ Mutate(k, e)
  BY UnchangedIsQuiet DEF MarkDeliveryInflight, MayOperate, Prepared, IInv, TypeOK
<1>2. x \in Entry /\ ValidEntry(x) /\ k \in Held(mem.entries)
  BY <1>1, HeldEntry
<1> HIDE DEF x
<1>3. /\ e \in Entry
      /\ e.phase = "delivery_inflight" /\ e.reply = x.reply /\ e.cgen = x.cgen
      /\ e.text = x.text /\ e.turn = x.turn /\ e.created = x.created
      /\ e.expires = x.expires /\ e.recovered = x.recovered
  BY <1>1, <1>2, ConstantsAssumption DEF Entry, Phases, Codes
<1> HIDE DEF e
<1>4. ValidEntry([e EXCEPT !.updated = e.created])
  <2>1. (x.cgen > 0) <=> (x.phase \in {"terminal_committing", "completed"})
    BY <1>2 DEF ValidEntry
  <2>2. x.reply = None => x.phase \in {"reserved", "accepted",
                                       "delivery_inflight", "delivery_ambiguous"}
    BY <1>2 DEF ValidEntry
  <2>3. QED
    BY <1>1, <1>2, <1>3, <2>1, <2>2, EditGood, ConstantsAssumption
<1>5. Advances(x, e)
  <2>1. x.phase \in {"reserved", "accepted"} => x.reply = None
    BY <1>2 DEF ValidEntry
  <2>2. (x.cgen > 0) <=> (x.phase \in {"terminal_committing", "completed"})
    BY <1>2 DEF ValidEntry
  <2>3. Rank[e.phase] >= Rank[x.phase]
    BY <1>1, <1>3 DEF Rank
  <2>4. QED
    BY <1>1, <1>3, <2>1, <2>2, <2>3 DEF Advances
<1>6. QED
  BY <1>1, <1>2, <1>3, <1>4, <1>5, MutateIsOpStep DEF Quiet, IInv, TypeOK, x

\* mark_delivery_succeeded asks for a bound reply.
LEMMA MarkDeliverySucceededIsOpStep ==
    ASSUME IInv, NEW k \in Keys, NEW ref \in Refs \cup {None}, MarkDeliverySucceeded(k, ref)
    PROVE  OpStep
<1> DEFINE x == mem.entries[k]
           e == [x EXCEPT !.phase = "delivery_succeeded",
                       !.ref = IF ref = None THEN x.ref ELSE ref, !.err = "none"]
<1>1. /\ owner # "closed" /\ mem.state = "ready" /\ Quiet /\ UNCHANGED <<now, owner, fenced>>
      /\ ours \subseteq ours' /\ ours' \in SUBSET Keys
      /\ x.phase \in {"delivery_inflight", "delivery_ambiguous"} /\ x.reply # None
      /\ Mutate(k, e)
  BY UnchangedIsQuiet DEF MarkDeliverySucceeded, MayOperate, Prepared, IInv, TypeOK
<1>2. x \in Entry /\ ValidEntry(x) /\ k \in Held(mem.entries)
  BY <1>1, HeldEntry
<1> HIDE DEF x
<1>3. /\ e \in Entry
      /\ e.phase = "delivery_succeeded" /\ e.reply = x.reply /\ e.cgen = x.cgen
      /\ e.text = x.text /\ e.turn = x.turn /\ e.created = x.created
      /\ e.expires = x.expires /\ e.recovered = x.recovered
  BY <1>1, <1>2, ConstantsAssumption DEF Entry, Phases, Codes
<1> HIDE DEF e
<1>4. ValidEntry([e EXCEPT !.updated = e.created])
  <2>1. (x.cgen > 0) <=> (x.phase \in {"terminal_committing", "completed"})
    BY <1>2 DEF ValidEntry
  <2>2. x.reply = None => x.phase \in {"reserved", "accepted",
                                       "delivery_inflight", "delivery_ambiguous"}
    BY <1>2 DEF ValidEntry
  <2>3. QED
    BY <1>1, <1>2, <1>3, <2>1, <2>2, EditGood, ConstantsAssumption
<1>5. Advances(x, e)
  <2>1. x.phase \in {"reserved", "accepted"} => x.reply = None
    BY <1>2 DEF ValidEntry
  <2>2. (x.cgen > 0) <=> (x.phase \in {"terminal_committing", "completed"})
    BY <1>2 DEF ValidEntry
  <2>3. Rank[e.phase] >= Rank[x.phase]
    BY <1>1, <1>3 DEF Rank
  <2>4. QED
    BY <1>1, <1>3, <2>1, <2>2, <2>3 DEF Advances
<1>6. QED
  BY <1>1, <1>2, <1>3, <1>4, <1>5, MutateIsOpStep DEF Quiet, IInv, TypeOK, x

\* mark_delivery_ambiguous keeps whatever reply is bound.
LEMMA MarkDeliveryAmbiguousIsOpStep ==
    ASSUME IInv, NEW k \in Keys, NEW code \in Codes, MarkDeliveryAmbiguous(k, code)
    PROVE  OpStep
<1> DEFINE x == mem.entries[k]
           e == [x EXCEPT !.phase = "delivery_ambiguous", !.err = code]
<1>1. /\ owner # "closed" /\ mem.state = "ready" /\ Quiet /\ UNCHANGED <<now, owner, fenced>>
      /\ ours \subseteq ours' /\ ours' \in SUBSET Keys
      /\ x.phase = "delivery_inflight"
      /\ Mutate(k, e)
  BY UnchangedIsQuiet DEF MarkDeliveryAmbiguous, MayOperate, Prepared, IInv, TypeOK
<1>2. x \in Entry /\ ValidEntry(x) /\ k \in Held(mem.entries)
  BY <1>1, HeldEntry
<1> HIDE DEF x
<1>3. /\ e \in Entry
      /\ e.phase = "delivery_ambiguous" /\ e.reply = x.reply /\ e.cgen = x.cgen
      /\ e.text = x.text /\ e.turn = x.turn /\ e.created = x.created
      /\ e.expires = x.expires /\ e.recovered = x.recovered
  BY <1>1, <1>2, ConstantsAssumption DEF Entry, Phases, Codes
<1> HIDE DEF e
<1>4. ValidEntry([e EXCEPT !.updated = e.created])
  <2>1. (x.cgen > 0) <=> (x.phase \in {"terminal_committing", "completed"})
    BY <1>2 DEF ValidEntry
  <2>2. x.reply = None => x.phase \in {"reserved", "accepted",
                                       "delivery_inflight", "delivery_ambiguous"}
    BY <1>2 DEF ValidEntry
  <2>3. QED
    BY <1>1, <1>2, <1>3, <2>1, <2>2, EditGood, ConstantsAssumption
<1>5. Advances(x, e)
  <2>1. x.phase \in {"reserved", "accepted"} => x.reply = None
    BY <1>2 DEF ValidEntry
  <2>2. (x.cgen > 0) <=> (x.phase \in {"terminal_committing", "completed"})
    BY <1>2 DEF ValidEntry
  <2>3. Rank[e.phase] >= Rank[x.phase]
    BY <1>1, <1>3 DEF Rank
  <2>4. QED
    BY <1>1, <1>3, <2>1, <2>2, <2>3 DEF Advances
<1>6. QED
  BY <1>1, <1>2, <1>3, <1>4, <1>5, MutateIsOpStep DEF Quiet, IInv, TypeOK, x

\* begin_terminal_commit sets the continuity generation, which was unset.
LEMMA BeginTerminalCommitIsOpStep ==
    ASSUME IInv, NEW k \in Keys, NEW gen \in 1..MaxCommit, BeginTerminalCommit(k, gen)
    PROVE  OpStep
<1> DEFINE x == mem.entries[k]
           e == [x EXCEPT !.phase = "terminal_committing", !.cgen = gen]
<1>1. /\ owner # "closed" /\ mem.state = "ready" /\ Quiet /\ UNCHANGED <<now, owner, fenced>>
      /\ ours \subseteq ours' /\ ours' \in SUBSET Keys
      /\ x.phase = "delivery_succeeded"
      /\ Mutate(k, e)
  BY UnchangedIsQuiet DEF BeginTerminalCommit, Prepared, IInv, TypeOK
<1>2. x \in Entry /\ ValidEntry(x) /\ k \in Held(mem.entries)
  BY <1>1, HeldEntry
<1> HIDE DEF x
<1>g. gen \in Nat /\ gen > 0
  BY ConstantsAssumption
<1>3. /\ e \in Entry
      /\ e.phase = "terminal_committing" /\ e.reply = x.reply /\ e.cgen = gen
      /\ e.text = x.text /\ e.turn = x.turn /\ e.created = x.created
      /\ e.expires = x.expires /\ e.recovered = x.recovered
  BY <1>1, <1>2, <1>g, ConstantsAssumption DEF Entry, Phases, Codes
<1> HIDE DEF e
<1>4. ValidEntry([e EXCEPT !.updated = e.created])
  <2>1. (x.cgen > 0) <=> (x.phase \in {"terminal_committing", "completed"})
    BY <1>2 DEF ValidEntry
  <2>2. x.reply = None => x.phase \in {"reserved", "accepted",
                                       "delivery_inflight", "delivery_ambiguous"}
    BY <1>2 DEF ValidEntry
  <2>3. QED
    BY <1>1, <1>2, <1>3, <1>g, <2>1, <2>2, EditGood, ConstantsAssumption
<1>5. Advances(x, e)
  <2>1. x.phase \in {"reserved", "accepted"} => x.reply = None
    BY <1>2 DEF ValidEntry
  <2>2. (x.cgen > 0) <=> (x.phase \in {"terminal_committing", "completed"})
    BY <1>2 DEF ValidEntry
  <2>3. Rank[e.phase] >= Rank[x.phase]
    BY <1>1, <1>3 DEF Rank
  <2>4. QED
    BY <1>1, <1>3, <2>1, <2>2, <2>3 DEF Advances
<1>6. QED
  BY <1>1, <1>2, <1>3, <1>4, <1>5, MutateIsOpStep DEF Quiet, IInv, TypeOK, x

\* complete keeps the continuity generation.
LEMMA CompleteIsOpStep ==
    ASSUME IInv, NEW k \in Keys, NEW gen \in 1..MaxCommit, Complete(k, gen)
    PROVE  OpStep
<1> DEFINE x == mem.entries[k]
           e == [x EXCEPT !.phase = "completed", !.err = "none"]
<1>1. /\ owner # "closed" /\ mem.state = "ready" /\ Quiet /\ UNCHANGED <<now, owner, fenced>>
      /\ ours \subseteq ours' /\ ours' \in SUBSET Keys
      /\ x.phase = "terminal_committing"
      /\ Mutate(k, e)
  BY UnchangedIsQuiet DEF Complete, Prepared, IInv, TypeOK
<1>2. x \in Entry /\ ValidEntry(x) /\ k \in Held(mem.entries)
  BY <1>1, HeldEntry
<1> HIDE DEF x
<1>3. /\ e \in Entry
      /\ e.phase = "completed" /\ e.reply = x.reply /\ e.cgen = x.cgen
      /\ e.text = x.text /\ e.turn = x.turn /\ e.created = x.created
      /\ e.expires = x.expires /\ e.recovered = x.recovered
  BY <1>1, <1>2, ConstantsAssumption DEF Entry, Phases, Codes
<1> HIDE DEF e
<1>4. ValidEntry([e EXCEPT !.updated = e.created])
  <2>1. (x.cgen > 0) <=> (x.phase \in {"terminal_committing", "completed"})
    BY <1>2 DEF ValidEntry
  <2>2. x.reply = None => x.phase \in {"reserved", "accepted",
                                       "delivery_inflight", "delivery_ambiguous"}
    BY <1>2 DEF ValidEntry
  <2>3. QED
    BY <1>1, <1>2, <1>3, <2>1, <2>2, EditGood, ConstantsAssumption
<1>5. Advances(x, e)
  <2>1. x.phase \in {"reserved", "accepted"} => x.reply = None
    BY <1>2 DEF ValidEntry
  <2>2. (x.cgen > 0) <=> (x.phase \in {"terminal_committing", "completed"})
    BY <1>2 DEF ValidEntry
  <2>3. Rank[e.phase] >= Rank[x.phase]
    BY <1>1, <1>3 DEF Rank
  <2>4. QED
    BY <1>1, <1>3, <2>1, <2>2, <2>3 DEF Advances
<1>6. QED
  BY <1>1, <1>2, <1>3, <1>4, <1>5, MutateIsOpStep DEF Quiet, IInv, TypeOK, x

\* claim_reserved_ingress restarts the lifetime of a reservation and grants it.
LEMMA ClaimReservedIngressIsOpStep ==
    ASSUME IInv, NEW k \in Keys, NEW text \in Texts, NEW turn \in Turns,
           NEW ref \in Refs, ClaimReservedIngress(k, text, turn, ref)
    PROVE  OpStep
<1> DEFINE x == mem.entries[k]
           e == [x EXCEPT !.phase = "accepted", !.created = now, !.updated = now,
                          !.expires = now + MaxAge, !.recovered = 0]
           c == [e EXCEPT !.updated = e.created]
<1>1. /\ owner # "closed" /\ mem.state = "ready" /\ UNCHANGED <<now, owner, fenced, ours>>
      /\ x.phase = "reserved" /\ Mutate(k, e) /\ Track({}, {k})
  BY DEF ClaimReservedIngress, MayOperate, Prepared
<1>2. x \in Entry /\ ValidEntry(x) /\ k \in Held(mem.entries)
  BY <1>1, HeldEntry
<1>3. /\ now \in Nat /\ now + MaxAge \in Nat /\ now < now + MaxAge
  BY ConstantsAssumption DEF IInv, TypeOK
<1> HIDE DEF x
<1>4. /\ e \in Entry /\ e.phase = "accepted" /\ e.text = x.text /\ e.turn = x.turn
      /\ e.reply = x.reply /\ e.cgen = x.cgen /\ e.created = now
      /\ e.expires = now + MaxAge /\ e.recovered = 0 /\ e.ref = x.ref
  BY <1>2, <1>3 DEF Entry, Phases
<1> HIDE DEF e
<1>5. /\ x.reply = None /\ ~(x.cgen > 0) /\ x.text # None /\ x.turn # None
  BY <1>1, <1>2 DEF ValidEntry
<1>6. /\ c.phase = e.phase /\ c.text = e.text /\ c.turn = e.turn /\ c.reply = e.reply
      /\ c.cgen = e.cgen /\ c.created = e.created /\ c.expires = e.expires
      /\ c.recovered = e.recovered /\ c.ref = e.ref /\ c.updated = e.created
  BY <1>4 DEF Entry
<1>7. ValidEntry(c)
  BY <1>3, <1>4, <1>5, <1>6 DEF ValidEntry
<1>8. Advances(x, e)
  <2>1. Rank[e.phase] >= Rank[x.phase]
    BY <1>1, <1>4 DEF Rank
  <2>2. QED
    BY <1>4, <1>5, <2>1 DEF Advances
<1>9. /\ started' \in [Keys -> Nat]
      /\ \A j \in Keys : started'[j] > started[j] => j = k /\ mem'.state = "ready"
  BY <1>1, TrackType DEF IInv
<1>10. QED
  BY <1>1, <1>2, <1>4, <1>7, <1>8, <1>9, MutateIsOpStep DEF IInv, TypeOK, x

\* claim grants an absent key.
LEMMA ClaimIsOpStep ==
    ASSUME IInv, NEW k \in Keys, NEW text \in Texts, NEW turn \in Turns,
           Claim(k, text, turn)
    PROVE  OpStep
<1> DEFINE e == FreshEntry("accepted", turn, text, None, MaxAge)
<1>1. /\ owner # "closed" /\ mem.state = "ready" /\ UNCHANGED <<now, owner, fenced, ours>>
      /\ mem.entries[k] = NoEntry /\ Admit(k, e) /\ Track({}, {k})
  BY DEF Claim, MayOperate, Prepared
<1>2. MaxAge \in 1..MaxAge
  BY ConstantsAssumption
<1>3. e \in Entry /\ ValidEntry(e) /\ e.phase = "accepted"
  BY <1>2, FreshEntryGood DEF IInv
<1> HIDE DEF e
<1>4. /\ started' \in [Keys -> Nat]
      /\ \A j \in Keys : started'[j] > started[j] => j = k /\ mem'.state = "ready"
  BY <1>1, TrackType DEF IInv
<1>5. QED
  BY <1>1, <1>3, <1>4, AdmitIsOpStep

\* _prune_expired removes expired entries.
LEMMA PruneExpiredIsOpStep ==
    ASSUME IInv, PruneExpired
    PROVE  OpStep
<1>1. Quiet
  BY TrackNoneIsQuiet DEF PruneExpired, IInv
<1>2. QED
  BY <1>1, RemoveIsOpStep DEF PruneExpired, Persist

\* The deliberate deletions remove entries.
LEMMA DeleteIsOpStep ==
    ASSUME IInv, owner # "closed", NEW dropped, Delete(dropped)
    PROVE  OpStep
<1>1. Quiet
  BY TrackNoneIsQuiet DEF Delete, IInv
<1>2. QED
  BY <1>1, RemoveIsOpStep DEF Delete, Prepared, Persist

\* A purge whose read-back fails: the disk has lost the entries of a fenced
\* lineage, memory has kept them.
PurgeUnread ==
    \E t \in fenced :
        LET es == Without(mem.entries, {k \in Keys : Matches(k, mem.entries[k], t)}) IN
        /\ owner = "open" /\ mem.state = "ready" /\ ChainCurrent
        /\ mem.gen = file.gen /\ mem.hash = file.hash /\ mem.entries = file.entries
        /\ faults' = faults + 1
        /\ mem' = [mem EXCEPT !.gen = NextFile(mem, es).gen, !.hash = NextFile(mem, es).hash]
        /\ file' = NextFile(mem, es) /\ head' = HeadOf(NextFile(mem, es))
        /\ writes' = writes + 1
        /\ Quiet /\ UNCHANGED <<now, owner, fenced, ours>>

\* purge_exact_lineage removes a lineage's entries, from the disk at least.
LEMMA PurgeCases ==
    ASSUME IInv, NEW t \in Lineages, PurgeExactLineage(t)
    PROVE  OpStep \/ PurgeUnread
<1> DEFINE dropped == {k \in Keys : Matches(k, mem.entries[k], t)}
           es == Without(mem.entries, dropped)
           f == NextFile(mem, es)
<1>1. Quiet
  BY TrackNoneIsQuiet DEF PurgeExactLineage, IInv
<1>2. /\ owner = "open" /\ mem.state = "ready" /\ t \in fenced
      /\ ChainCurrent /\ mem.gen = file.gen /\ mem.hash = file.hash
      /\ mem.entries = file.entries
      /\ UNCHANGED <<now, owner, fenced, ours>>
      /\ \/ WriteScoped(mem, head, es, mem.entries)
         \/ /\ faults' = faults + 1
            /\ mem' = [mem EXCEPT !.gen = f.gen, !.hash = f.hash]
            /\ file' = f /\ head' = HeadOf(f) /\ writes' = writes + 1
  BY DEF PurgeExactLineage
<1>3. CASE WriteScoped(mem, head, es, mem.entries)
  <2>1. owner # "closed"
    BY <1>2
  <2>2. QED
    BY <1>1, <1>2, <1>3, <2>1, RemoveIsOpStep
<1>4. CASE /\ faults' = faults + 1
           /\ mem' = [mem EXCEPT !.gen = f.gen, !.hash = f.hash]
           /\ file' = f /\ head' = HeadOf(f) /\ writes' = writes + 1
  BY <1>1, <1>2, <1>4 DEF PurgeUnread
<1>5. QED
  BY <1>2, <1>3, <1>4

\* Every ingress operation has the common shape.
LEMMA IngressIsOpStep ==
    ASSUME IInv, NEW k \in Keys, Ingress(k)
    PROVE  OpStep
BY ClaimIsOpStep, ReserveIngressIsOpStep, ClaimReservedIngressIsOpStep DEF Ingress

\* Every delivery operation has the common shape.
LEMMA DeliveryIsOpStep ==
    ASSUME IInv, NEW k \in Keys, Delivery(k)
    PROVE  OpStep
BY MarkResponseReadyIsOpStep, BindResponseIsOpStep, MarkDeliveryInflightIsOpStep,
   MarkDeliverySucceededIsOpStep, MarkDeliveryAmbiguousIsOpStep,
   BeginTerminalCommitIsOpStep, CompleteIsOpStep DEF Delivery

\* Every deletion has the common shape, but for a purge it cannot read back.
LEMMA DeletionCases ==
    ASSUME IInv, Deletion
    PROVE  OpStep \/ PurgeUnread
BY PruneExpiredIsOpStep, DeleteIsOpStep, PurgeCases
   DEF Deletion, DiscardAmbiguous, RevokeReservedBatch, RevokeReservedScope, ResetGuild,
       MayOperate

-----------------------------------------------------------------------------
(* Restart *)

\* The restart recovery keeps the payload valid, forgets nothing that has not
\* expired, and leaves no delivery in flight.
LEMMA RecoveredGood ==
    ASSUME TypeOK, NEW es \in EntryMap, ValidPayload(es)
    PROVE  /\ Recovered(es) \in EntryMap /\ ValidPayload(Recovered(es))
           /\ \A k \in Keys : /\ Recovered(es)[k].phase # "delivery_inflight"
                              /\ Advances(es[k], Recovered(es)[k])
                              /\ es[k] = NoEntry => Recovered(es)[k] = NoEntry
<1> DEFINE rs == Recovered(es)
<1>1. ASSUME NEW k \in Keys
      PROVE  /\ rs[k] \in Entry
             /\ rs[k].phase # "none" => es[k].phase # "none" /\ ValidEntry(rs[k])
             /\ rs[k].phase # "delivery_inflight"
             /\ Advances(es[k], rs[k])
             /\ es[k] = NoEntry => rs[k] = NoEntry
  <2> DEFINE e == es[k]
             t == LogicalUpdatedAt(e, now)
             p == IF e.phase = "delivery_inflight" THEN "delivery_ambiguous" ELSE e.phase
             c == IF e.phase = "delivery_inflight"
                  THEN "delivery_ambiguous_after_restart" ELSE e.err
             v == IF e.recovered = 0 THEN t ELSE e.recovered
             r == [e EXCEPT !.phase = p, !.err = c, !.recovered = v, !.updated = t]
  <2>1. e \in Entry /\ (e.phase # "none" => ValidEntry(e))
    BY <1>1 DEF EntryMap, ValidPayload, Held
  <2>2. rs[k] = IF k \in ExpiredKeys(es) THEN NoEntry
                ELSE IF e.phase \in {"none", "completed"} THEN e ELSE r
    BY <1>1 DEF Recovered
  <2>3. CASE k \in ExpiredKeys(es)
    BY <2>2, <2>3, NoEntryType DEF NoEntry, Advances
  <2>4. CASE k \notin ExpiredKeys(es) /\ e.phase \in {"none", "completed"}
    BY <2>1, <2>2, <2>4, AdvancesRefl
  <2>5. CASE k \notin ExpiredKeys(es) /\ e.phase \notin {"none", "completed"}
    <3>1. now \in Nat /\ e.created < e.expires /\ e.created \in Nat /\ e.recovered \in Nat
      BY <2>1, <2>5 DEF TypeOK, ValidEntry, Entry
    <3>2. t \in Nat /\ e.created <= t /\ t <= e.expires
      BY <2>1, <3>1, LogicalBounds
    <3> HIDE DEF t
    <3>3. v \in Nat /\ (v # 0 => e.created <= v)
      BY <2>1, <2>5, <3>1, <3>2 DEF ValidEntry
    <3>4. /\ p \in Phases /\ p # "delivery_inflight" /\ c \in Codes \cup {"none"}
          /\ e.phase = "delivery_inflight" => p = "delivery_ambiguous"
          /\ e.phase # "delivery_inflight" => p = e.phase
      BY <2>1, <2>5 DEF Entry, Phases, Codes
    <3> HIDE DEF p, c, v, e
    <3>5. /\ r \in Entry /\ r.phase = p /\ r.text = e.text /\ r.turn = e.turn
          /\ r.reply = e.reply /\ r.cgen = e.cgen /\ r.created = e.created
          /\ r.expires = e.expires /\ r.recovered = v /\ r.updated = t /\ r.ref = e.ref
      BY <2>1, <3>2, <3>3, <3>4 DEF Entry
    <3> HIDE DEF r
    <3>6. ValidEntry(e)
      BY <2>1, <2>5
    <3>7. ValidEntry(r)
      BY <3>1, <3>2, <3>3, <3>4, <3>5, <3>6 DEF ValidEntry
    <3>8. Rank[r.phase] >= Rank[e.phase]
      <4>1. CASE e.phase = "delivery_inflight"
        BY <3>4, <3>5, <4>1 DEF Rank
      <4>2. CASE e.phase # "delivery_inflight"
        BY <2>1, <3>4, <3>5, <4>2, RankNat DEF Entry
      <4>3. QED
        BY <4>1, <4>2
    <3>9. Advances(e, r)
      BY <3>5, <3>8 DEF Advances
    <3>10. e # NoEntry
      BY <2>5 DEF NoEntry
    <3>11. rs[k] = r
      BY <2>2, <2>5
    <3>12. QED
      BY <2>5, <3>4, <3>5, <3>7, <3>9, <3>10, <3>11 DEF e
  <2>6. QED
    BY <2>3, <2>4, <2>5
<1>2. rs \in EntryMap
  <2>1. DOMAIN rs = Keys /\ rs = [k \in Keys |-> rs[k]]
    BY DEF Recovered
  <2> HIDE DEF rs
  <2>2. QED
    BY <1>1, <2>1 DEF EntryMap
<1>3. Held(rs) \subseteq Held(es)
  BY <1>1 DEF Held
<1>4. Cardinality(Held(rs)) <= MaxEntries
  <2>1. Cardinality(Held(rs)) <= Cardinality(Held(es))
    BY <1>3, HeldFinite, FS_Subset
  <2>2. QED
    BY <2>1, HeldFinite, ConstantsAssumption DEF ValidPayload
<1>5. \A k \in Held(rs) : ValidEntry(rs[k])
  BY <1>1 DEF Held
<1>6. QED
  BY <1>1, <1>2, <1>4, <1>5 DEF ValidPayload

-----------------------------------------------------------------------------
(* Every step preserves IInv *)

\* What a step does to the disk, as the action properties see it.
GoodDisk ==
    /\ \A k \in Keys : Advances(file.entries[k], file'.entries[k])
    /\ (\E j \in Keys : file.entries[j] = NoEntry /\ file'.entries[j] # NoEntry) =>
          \A k \in Keys : file.entries[k].phase \notin {"none", "completed"} =>
              file'.entries[k] = file.entries[k]
    /\ \A k \in Keys : started'[k] > started[k] =>
          /\ file.entries[k].phase \in {"none", "reserved"}
          /\ file'.entries[k].phase = "accepted" /\ head' = HeadOf(file')
    /\ \A t \in fenced :
          (\A k \in Keys : ~Matches(k, file.entries[k], t)) =>
              (\A k \in Keys : ~Matches(k, file'.entries[k], t))

\* A step that leaves the journal file and the execution history alone, or
\* only forgets grants, does nothing to the disk.
LEMMA SameFileIsGoodDisk ==
    ASSUME TypeOK, file' = file, Quiet
    PROVE  GoodDisk
<1>1. \A k \in Keys : file.entries[k] \in Entry
  BY DEF TypeOK
<1>2. \A k \in Keys : ~(started'[k] > started[k])
  BY DEF TypeOK, Quiet
<1>3. QED
  BY <1>1, <1>2, AdvancesRefl DEF GoodDisk

\* What an operation makes of a memory it has not purged in full is as good an
\* update of the disk: an entry the disk has lost is fenced, so the write that
\* would keep it is refused.
LEMMA UpdateOfDisk ==
    ASSUME IInv, mem.state = "ready", NEW es \in EntryMap, GoodUpdate(es), Permitted(es)
    PROVE  /\ \A k \in Keys : Advances(file.entries[k], es[k])
           /\ \A k \in Keys : es[k].phase = "delivery_inflight" =>
                 file.entries[k].phase = "delivery_inflight" \/ k \in ours'
           /\ (\E j \in Keys : file.entries[j] = NoEntry /\ es[j] # NoEntry) =>
                 \A k \in Keys : file.entries[k].phase \notin {"none", "completed"} =>
                     es[k] = file.entries[k]
           /\ \A t \in fenced :
                 (\A k \in Keys : ~Matches(k, file.entries[k], t)) =>
                     (\A k \in Keys : ~Matches(k, es[k], t))
<1>1. ASSUME NEW k \in Keys, mem.entries[k] # file.entries[k]
      PROVE  file.entries[k] = NoEntry /\ es[k] = NoEntry
  <2>1. Fenced(k, mem.entries[k]) /\ file.entries[k] = NoEntry
    BY <1>1 DEF IInv, ReadyIsDurable
  <2>2. Writable(es)
    BY <1>1 DEF Permitted
  <2>3. PICK t \in fenced : Matches(k, mem.entries[k], t)
    BY <2>1 DEF Fenced
  <2>4. ~Matches(k, es[k], t)
    BY <2>2, <2>3 DEF Writable, Fenced
  <2>5. es[k].phase = "none"
    <3>1. es[k].phase # "none" => es[k].turn = mem.entries[k].turn
      BY <2>3 DEF GoodUpdate, Advances, Matches
    <3>2. QED
      BY <2>3, <2>4, <3>1 DEF Matches
  <2>6. mem.entries[k].phase # "none"
    BY <2>3 DEF Matches
  <2>7. QED
    BY <2>1, <2>5, <2>6 DEF GoodUpdate
<1>2. \A k \in Keys : Advances(file.entries[k], es[k])
  <2>1. Advances(NoEntry, NoEntry)
    BY DEF Advances, NoEntry
  <2>2. QED
    BY <1>1, <2>1 DEF GoodUpdate
<1>3. \A k \in Keys : es[k].phase = "delivery_inflight" =>
         file.entries[k].phase = "delivery_inflight" \/ k \in ours'
  <2>1. NoEntry.phase # "delivery_inflight"
    BY DEF NoEntry
  <2>2. QED
    BY <1>1, <2>1 DEF GoodUpdate
<1>4. ASSUME NEW j \in Keys, file.entries[j] = NoEntry, es[j] # NoEntry,
             NEW k \in Keys, file.entries[k].phase \notin {"none", "completed"}
      PROVE  es[k] = file.entries[k]
  <2>1. mem.entries[j] = NoEntry
    BY <1>1, <1>4
  <2>2. mem.entries[k] = file.entries[k]
    BY <1>1, <1>4 DEF NoEntry
  <2>3. QED
    BY <1>4, <2>1, <2>2 DEF GoodUpdate
<1>5. ASSUME NEW t \in fenced, \A k \in Keys : ~Matches(k, file.entries[k], t)
      PROVE  \A k \in Keys : ~Matches(k, es[k], t)
  <2>1. CASE Writable(es)
    BY <2>1 DEF Writable, Fenced
  <2>2. CASE ~Writable(es)
    <3>1. \A k \in Keys : es[k] \in {file.entries[k], NoEntry}
      BY <2>2 DEF Permitted
    <3>2. \A k \in Keys : ~Matches(k, NoEntry, t)
      BY DEF Matches, NoEntry
    <3>3. QED
      BY <1>5, <3>1, <3>2
  <2>3. QED
    BY <2>1, <2>2
<1>6. QED
  BY <1>2, <1>3, <1>4, <1>5

\* A ready memory is at the head of the chain on disk.
LEMMA ReadyChain ==
    ASSUME IInv, mem.state = "ready"
    PROVE  /\ mem \in MemType /\ head \in HeadType /\ file \in FileType
           /\ file.gen > 0 /\ head.gen = file.gen /\ head.hash = file.hash
           /\ mem.gen = file.gen /\ mem.hash = file.hash
           /\ HeadOf(file) = head
           /\ ValidPayload(file.entries)
<1>1. mem \in MemType /\ head \in HeadType /\ file \in FileType
  BY DEF IInv, TypeOK, MemType, HeadType, FileType, EntryMap
<1>2. /\ file.gen > 0 /\ head.gen = file.gen /\ head.hash = file.hash
      /\ mem.gen = file.gen /\ mem.hash = file.hash
  BY DEF IInv, ReadyIsDurable, ChainCurrent
<1>3. HeadOf(file) = head
  BY <1>1, <1>2 DEF HeadOf, HeadType
<1>4. ValidPayload(file.entries)
  BY <1>1, <1>2 DEF IInv, DiskIsLoadable, Loadable, FileType
<1>5. QED
  BY <1>1, <1>2, <1>3, <1>4

\* An operation preserves the invariant and only gains knowledge on disk.
LEMMA OpStepSound ==
    ASSUME IInv, OpStep
    PROVE  IInv' /\ GoodDisk
<1>1. PICK es \in EntryMap : /\ GoodUpdate(es) /\ GoodGrant(es) /\ Permitted(es)
                             /\ WriteScoped(mem, head, es, mem.entries)
  BY DEF OpStep
<1>2. /\ owner # "closed" /\ mem.state = "ready" /\ UNCHANGED <<now, owner, fenced>>
      /\ ours \subseteq ours' /\ ours' \in SUBSET Keys /\ started' \in [Keys -> Nat]
  BY DEF OpStep
<1>3. mem.entries \in EntryMap /\ TypeOK
  BY DEF IInv, TypeOK, EntryMap
<1>4. /\ mem \in MemType /\ head \in HeadType /\ file \in FileType
      /\ file.gen > 0 /\ head.gen = file.gen /\ head.hash = file.hash
      /\ mem.gen = file.gen /\ mem.hash = file.hash /\ HeadOf(file) = head
      /\ ValidPayload(file.entries)
  BY <1>2, ReadyChain
<1>5. ValidPayload(es)
  BY <1>1 DEF GoodUpdate
<1>6. /\ \A k \in Keys : Advances(file.entries[k], es[k])
      /\ \A k \in Keys : es[k].phase = "delivery_inflight" =>
            file.entries[k].phase = "delivery_inflight" \/ k \in ours'
      /\ (\E j \in Keys : file.entries[j] = NoEntry /\ es[j] # NoEntry) =>
            \A k \in Keys : file.entries[k].phase \notin {"none", "completed"} =>
                es[k] = file.entries[k]
      /\ \A t \in fenced :
            (\A k \in Keys : ~Matches(k, file.entries[k], t)) =>
                (\A k \in Keys : ~Matches(k, es[k], t))
  BY <1>1, <1>2, UpdateOfDisk
<1>7. /\ mem' \in MemType /\ file' \in FileType /\ head' \in HeadType
      /\ writes' \in Nat /\ faults' \in Nat /\ DiskIsLoadable' /\ ReadyIsDurable'
      /\ file' = file \/ (file'.entries = es /\ file'.gen > 0)
      /\ \/ /\ mem'.state = "ready" /\ mem'.entries = es
            /\ file'.entries = es /\ file'.gen > 0
         \/ mem'.state = "error"
      /\ mem'.state = "ready" => head' = HeadOf(file')
  <2>1. mem.gen = head.gen /\ mem.hash = head.hash /\ (head.gen = 0 => mem.hash = 0)
    BY <1>4 DEF FileType
  <2>2. QED
    BY <1>1, <1>2, <1>3, <1>4, <1>5, <2>1, WriteSound
<1>8. TypeOK'
  BY <1>2, <1>7 DEF IInv, TypeOK, MemType, FileType, HeadType, EntryMap
<1>9. OwnerInflight'
  BY <1>2, <1>6, <1>7 DEF IInv, OwnerInflight
<1>10. OwnerLoaded' /\ FenceIsLocal'
  BY <1>4, <1>7 DEF OwnerLoaded, FenceIsLocal
<1>11. InflightIsOurs' /\ ReadyIsValid'
  BY <1>5, <1>7, <1>9 DEF InflightIsOurs, OwnerInflight, ReadyIsValid
<1>12. GoodDisk
  <2>1. CASE file'.entries = es
    <3>1. \A k \in Keys : started'[k] > started[k] =>
             /\ file.entries[k].phase \in {"none", "reserved"}
             /\ es[k].phase = "accepted" /\ head' = HeadOf(file')
      <4>1. \A k \in Keys : mem.entries[k] = file.entries[k] \/ file.entries[k] = NoEntry
        BY <1>2 DEF IInv, ReadyIsDurable
      <4>2. NoEntry.phase = "none"
        BY DEF NoEntry
      <4>3. QED
        BY <1>1, <1>7, <4>1, <4>2 DEF GoodGrant
    <3>2. QED
      BY <1>6, <2>1, <3>1 DEF GoodDisk
  <2>2. CASE file' = file /\ mem'.state = "error"
    <3>1. Quiet
      BY <1>1, <1>2, <2>2 DEF GoodGrant, Quiet, IInv, TypeOK
    <3>2. QED
      BY <2>2, <3>1, SameFileIsGoodDisk DEF IInv
  <2>3. QED
    BY <1>7, <2>1, <2>2
<1>13. QED
  BY <1>7, <1>8, <1>9, <1>10, <1>11, <1>12 DEF IInv

\* A purge that cannot be read back keeps the invariant: what memory still has
\* and the disk has not is fenced.
LEMMA PurgeUnreadSound ==
    ASSUME IInv, PurgeUnread
    PROVE  IInv' /\ GoodDisk
<1>1. PICK t \in fenced :
        LET es == Without(mem.entries, {k \in Keys : Matches(k, mem.entries[k], t)}) IN
        /\ owner = "open" /\ mem.state = "ready" /\ ChainCurrent
        /\ mem.gen = file.gen /\ mem.hash = file.hash /\ mem.entries = file.entries
        /\ faults' = faults + 1
        /\ mem' = [mem EXCEPT !.gen = NextFile(mem, es).gen, !.hash = NextFile(mem, es).hash]
        /\ file' = NextFile(mem, es) /\ head' = HeadOf(NextFile(mem, es))
        /\ writes' = writes + 1
        /\ Quiet /\ UNCHANGED <<now, owner, fenced, ours>>
  BY DEF PurgeUnread
<1> DEFINE dropped == {k \in Keys : Matches(k, mem.entries[k], t)}
           es == Without(mem.entries, dropped)
           f == NextFile(mem, es)
<1>2. /\ mem \in MemType /\ mem.entries \in EntryMap /\ ValidPayload(mem.entries)
      /\ TypeOK /\ mem.gen > 0 /\ mem.entries = file.entries
  BY <1>1, ReadyFacts, ReadyChain DEF IInv
<1>3. es \in EntryMap /\ ValidPayload(es)
  BY <1>2, WithoutGood
<1>4. \A k \in Keys : \/ es[k] = mem.entries[k]
                      \/ es[k] = NoEntry /\ Matches(k, mem.entries[k], t)
  BY DEF Without
<1> HIDE DEF es
<1>5. /\ f \in FileType /\ f.gen = mem.gen + 1 /\ f.entries = es
      /\ HeadOf(f) \in HeadType /\ HeadOf(f).gen = f.gen /\ HeadOf(f).hash = f.hash
      /\ f.gen > 0 /\ f.gen \in Nat /\ f.hash \in Nat
  BY <1>2, <1>3 DEF NextFile, FileType, MemType, HeadType, HeadOf, TypeOK
<1>6. /\ mem' = [mem EXCEPT !.gen = f.gen, !.hash = f.hash]
      /\ file' = f /\ head' = HeadOf(f) /\ writes' = writes + 1
      /\ faults' = faults + 1
      /\ Quiet /\ UNCHANGED <<now, owner, fenced, ours>> /\ owner = "open"
      /\ mem.state = "ready"
  BY <1>1 DEF es
<1> HIDE DEF f
<1>7. /\ mem' \in MemType /\ mem'.state = "ready" /\ mem'.entries = mem.entries
      /\ mem'.gen = f.gen /\ mem'.hash = f.hash
  BY <1>2, <1>5, <1>6 DEF MemType
<1>8. TypeOK'
  BY <1>2, <1>5, <1>6, <1>7 DEF Quiet, TypeOK, MemType, FileType, HeadType, EntryMap
<1>9. ChainCurrent' /\ DiskIsLoadable'
  BY <1>3, <1>5, <1>6 DEF ChainCurrent, DiskIsLoadable, Loadable
<1>10. ReadyIsDurable'
  <2>1. \A k \in Keys : \/ mem'.entries[k] = file'.entries[k]
                        \/ Fenced(k, mem.entries[k]) /\ file'.entries[k] = NoEntry
    BY <1>4, <1>5, <1>6, <1>7 DEF Fenced
  <2>2. \A k \in Keys : Fenced(k, mem.entries[k]) => Fenced(k, mem.entries[k])'
    BY <1>6, <1>7 DEF Fenced, Matches
  <2>3. QED
    BY <1>5, <1>6, <1>7, <1>9, <2>1, <2>2 DEF ReadyIsDurable
<1>11. OwnerInflight' /\ InflightIsOurs'
  <2>1. \A k \in Keys : mem.entries[k].phase = "delivery_inflight" => k \in ours
    BY <1>6 DEF IInv, InflightIsOurs
  <2>2. NoEntry.phase # "delivery_inflight"
    BY DEF NoEntry
  <2>3. QED
    BY <1>4, <1>5, <1>6, <1>7, <2>1, <2>2 DEF OwnerInflight, InflightIsOurs
<1>12. OwnerLoaded' /\ FenceIsLocal' /\ ReadyIsValid'
  BY <1>2, <1>5, <1>6, <1>7 DEF OwnerLoaded, FenceIsLocal, ReadyIsValid
<1>13. GoodDisk
  <2>1. \A k \in Keys : es[k] = file.entries[k] \/ es[k] = NoEntry
    BY <1>2, <1>4
  <2>2. \A k \in Keys : Advances(file.entries[k], es[k])
    <3>1. \A k \in Keys : Advances(file.entries[k], NoEntry)
      BY DEF Advances, NoEntry
    <3>2. QED
      BY <1>2, <2>1, <3>1, AdvancesRefl DEF EntryMap
  <2>3. \A k \in Keys : ~(started'[k] > started[k])
    BY <1>2, <1>6 DEF TypeOK, Quiet
  <2>4. \A k \in Keys, u \in fenced : ~Matches(k, NoEntry, u)
    BY DEF Matches, NoEntry
  <2>5. QED
    BY <1>5, <1>6, <2>1, <2>2, <2>3, <2>4 DEF GoodDisk
<1>14. QED
  BY <1>8, <1>9, <1>10, <1>11, <1>12, <1>13 DEF IInv

\* A write made while loading, from entries the disk lets a fresh process
\* have: the bootstrap and the restart recovery.
LEMMA LoadWriteSound ==
    ASSUME IInv, Start, NEW m \in MemType, NEW h \in HeadType,
           NEW es \in EntryMap, ValidPayload(es),
           \A k \in Keys : /\ es[k].phase # "delivery_inflight"
                           /\ Advances(file.entries[k], es[k])
                           /\ file.entries[k] = NoEntry => es[k] = NoEntry,
           m.state = "ready", m.gen = h.gen,
           IF h.gen = 0 THEN m.hash = 0 ELSE m.hash = h.hash,
           \/ file.gen = 0 /\ h.gen = 0
           \/ file.gen > 0 /\ HeadOf(file) = h /\ ValidPayload(file.entries),
           WriteScoped(m, h, es, es)
    PROVE  IInv' /\ GoodDisk
<1>1. TypeOK /\ file \in FileType /\ Quiet
  BY TrackNoneIsQuiet DEF IInv, TypeOK, FileType, EntryMap, Start
<1>2. /\ mem' \in MemType /\ file' \in FileType /\ head' \in HeadType
      /\ writes' \in Nat /\ faults' \in Nat /\ DiskIsLoadable' /\ ReadyIsDurable'
      /\ file' = file \/ (file'.entries = es /\ file'.gen > 0)
      /\ \/ /\ mem'.state = "ready" /\ mem'.entries = es
            /\ file'.entries = es /\ file'.gen > 0
         \/ mem'.state = "error"
  BY <1>1, WriteSound
<1>3. /\ owner' \in OwnerStates /\ (owner' # "closed" => mem'.state = "ready")
      /\ UNCHANGED <<now, fenced, ours>>
  BY DEF Start, OwnerStates
<1>4. TypeOK'
  BY <1>1, <1>2, <1>3 DEF Quiet, TypeOK, MemType, FileType, HeadType, EntryMap
<1>5. /\ OwnerInflight' /\ OwnerLoaded' /\ InflightIsOurs'
      /\ ReadyIsValid' /\ FenceIsLocal'
  BY <1>2, <1>3 DEF OwnerInflight, OwnerLoaded, InflightIsOurs, ReadyIsValid, FenceIsLocal
<1>6. GoodDisk
  <2>1. CASE file' = file
    BY <1>1, <2>1, SameFileIsGoodDisk
  <2>2. CASE file'.entries = es
    <3>1. \A k \in Keys : ~(started'[k] > started[k])
      BY <1>1 DEF TypeOK, Quiet
    <3>2. ~ \E j \in Keys : file.entries[j] = NoEntry /\ file'.entries[j] # NoEntry
      BY <2>2
    <3>3. fenced = {}
      BY DEF IInv, FenceIsLocal, Start
    <3>4. QED
      BY <2>2, <3>1, <3>2, <3>3 DEF GoodDisk
  <2>3. QED
    BY <1>2, <2>1, <2>2
<1>7. QED
  BY <1>2, <1>4, <1>5, <1>6 DEF IInv

\* A load that writes no journal: it adopts a disk that needs no recovery,
\* refuses it, or fails to read it; the head may have been brought up to date.
LEMMA LoadOnlySound ==
    ASSUME IInv, Start, file' = file, UNCHANGED writes, faults' \in Nat,
           head' = head \/ (head' = HeadOf(file) /\ Loadable),
           \/ /\ mem' = Adopted /\ head' = HeadOf(file) /\ Loadable
              /\ Recovered(file.entries) = file.entries
           \/ mem' \in MemType /\ mem'.state \in {"error", "corrupt"}
    PROVE  IInv' /\ GoodDisk
<1>1. /\ TypeOK /\ file \in FileType /\ Quiet
      /\ head \in HeadType /\ HeadOf(file) \in HeadType
  BY TrackNoneIsQuiet
  DEF IInv, TypeOK, FileType, HeadType, HeadOf, EntryMap, Start
<1>2. /\ owner' \in OwnerStates /\ (owner' # "closed" => mem'.state = "ready")
      /\ UNCHANGED <<now, fenced, ours>>
  BY DEF Start, OwnerStates
<1>3. Adopted \in MemType
  BY <1>1 DEF Adopted, MemType, FileType, States
<1>4. mem' \in MemType /\ head' \in HeadType
  BY <1>1, <1>3
<1>5. TypeOK'
  BY <1>1, <1>2, <1>4 DEF Quiet, TypeOK, MemType, HeadType, EntryMap
<1>6. DiskIsLoadable'
  <2>1. CASE head' = head
    BY <2>1 DEF IInv, DiskIsLoadable, Loadable, ChainCurrent, ChainLags
  <2>2. CASE head' = HeadOf(file) /\ Loadable
    BY <2>2 DEF DiskIsLoadable, Loadable, ChainCurrent, HeadOf
  <2>3. QED
    BY <2>1, <2>2
<1>7. ReadyIsDurable'
  <2>1. CASE mem' = Adopted /\ head' = HeadOf(file) /\ Loadable
    BY <2>1 DEF ReadyIsDurable, Adopted, Loadable, ChainCurrent, HeadOf
  <2>2. QED
    BY <2>1 DEF ReadyIsDurable
<1>8. OwnerLoaded'
  BY <1>2 DEF OwnerLoaded, Adopted, Loadable
<1>9. OwnerInflight'
  <2>1. SUFFICES ASSUME owner' # "closed", NEW k \in Keys
                 PROVE  file.entries[k].phase # "delivery_inflight"
    BY DEF OwnerInflight
  <2>2. Loadable /\ Recovered(file.entries) = file.entries
    BY <1>2, <2>1
  <2>3. file.entries \in EntryMap /\ ValidPayload(file.entries)
    BY <1>1, <2>2 DEF FileType, Loadable
  <2>4. QED
    BY <1>1, <2>2, <2>3, RecoveredGood
<1>10. InflightIsOurs' /\ ReadyIsValid' /\ FenceIsLocal'
  <2>1. mem'.state = "ready" => mem'.entries = file'.entries /\ ValidPayload(file'.entries)
    BY DEF Adopted, Loadable
  <2>2. mem'.state # "down"
    BY DEF Adopted
  <2>3. QED
    BY <1>9, <2>1, <2>2 DEF InflightIsOurs, OwnerInflight, ReadyIsValid, FenceIsLocal
<1>11. GoodDisk
  BY <1>1, SameFileIsGoodDisk
<1>12. QED
  BY <1>5, <1>6, <1>7, <1>8, <1>9, <1>10, <1>11 DEF IInv

\* A restart preserves the invariant, whatever it finds and wherever it fails.
LEMMA StartSound ==
    ASSUME IInv, Start
    PROVE  IInv' /\ GoodDisk
<1>1. /\ TypeOK /\ file \in FileType /\ head \in HeadType
      /\ HeadOf(file) \in HeadType /\ file.entries \in EntryMap
      /\ HeadOf(file).gen = file.gen /\ HeadOf(file).hash = file.hash
  BY DEF IInv, TypeOK, FileType, HeadType, HeadOf, EntryMap
<1>2. Load
  BY DEF Start
<1>3. CASE /\ file.gen = 0 /\ head.gen = 0
           /\ WriteScoped([DownMem EXCEPT !.state = "ready"], head,
                          NoEntries, NoEntries)
  <2> DEFINE m == [DownMem EXCEPT !.state = "ready"]
  <2>1. m \in MemType /\ m.state = "ready" /\ m.gen = 0 /\ m.hash = 0
    BY NoEntriesGood DEF DownMem, MemType, States
  <2>2. \A k \in Keys : /\ NoEntries[k].phase # "delivery_inflight"
                        /\ Advances(file.entries[k], NoEntries[k])
                        /\ NoEntries[k] = NoEntry
    BY DEF NoEntries, NoEntry, Advances
  <2> HIDE DEF m
  <2>3. WriteScoped(m, head, NoEntries, NoEntries)
    BY <1>3 DEF m
  <2>4. QED
    BY <1>1, <1>3, <2>1, <2>2, <2>3, NoEntriesGood, LoadWriteSound
<1>4. CASE /\ Loadable /\ Writable(Recovered(file.entries))
           /\ WriteScoped(Adopted, HeadOf(file), Recovered(file.entries),
                          Recovered(file.entries))
  <2> DEFINE es == Recovered(file.entries)
  <2>1. ValidPayload(file.entries) /\ file.gen > 0
    BY <1>4 DEF Loadable
  <2>2. /\ es \in EntryMap /\ ValidPayload(es)
        /\ \A k \in Keys : /\ es[k].phase # "delivery_inflight"
                           /\ Advances(file.entries[k], es[k])
                           /\ file.entries[k] = NoEntry => es[k] = NoEntry
    BY <1>1, <2>1, RecoveredGood
  <2>3. /\ Adopted \in MemType /\ Adopted.state = "ready"
        /\ Adopted.gen = file.gen /\ Adopted.hash = file.hash
    BY <1>1 DEF Adopted, MemType, FileType, States
  <2>4. WriteScoped(Adopted, HeadOf(file), es, es)
    BY <1>4
  <2> HIDE DEF es
  <2>5. file.gen # 0
    BY <1>1, <2>1 DEF FileType
  <2>6. QED
    BY <1>1, <2>1, <2>2, <2>3, <2>4, <2>5, LoadWriteSound
<1>5. CASE /\ Loadable /\ Recovered(file.entries) = file.entries
           /\ mem' = Adopted /\ head' = HeadOf(file)
           /\ UNCHANGED <<file, writes, faults>>
  BY <1>1, <1>5, LoadOnlySound DEF TypeOK
<1>6. CASE /\ mem' = Corrupt /\ (head' = head \/ (head' = HeadOf(file) /\ Loadable))
           /\ UNCHANGED <<file, writes, faults>>
  <2>1. Corrupt \in MemType /\ Corrupt.state = "corrupt"
    BY <1>1, NoEntriesGood DEF Corrupt, MemType, HeadType, States
  <2>2. QED
    BY <1>1, <1>6, <2>1, LoadOnlySound DEF TypeOK
<1>7. CASE /\ faults' = faults + 1
           /\ mem' = [DownMem EXCEPT !.state = "error"]
           /\ head' \in {head} \cup {h \in {HeadOf(file)} : Loadable /\ ChainLags}
           /\ UNCHANGED <<file, writes>>
  <2>1. mem' \in MemType /\ mem'.state = "error"
    BY <1>7, NoEntriesGood DEF DownMem, MemType, States
  <2>2. faults' \in Nat /\ (head' = head \/ (head' = HeadOf(file) /\ Loadable))
    BY <1>1, <1>7 DEF TypeOK
  <2>3. QED
    BY <1>7, <2>1, <2>2, LoadOnlySound
<1>8. QED
  BY <1>2, <1>3, <1>4, <1>5, <1>6, <1>7 DEF Load

\* A crash loses the memory and nothing else.
LEMMA CrashSound ==
    ASSUME IInv, Crash
    PROVE  IInv' /\ GoodDisk
<1>1. /\ TypeOK /\ mem' = DownMem /\ owner' = "closed" /\ ours' = {} /\ fenced' = {}
      /\ UNCHANGED <<file, head, now, writes, faults, started>>
  BY DEF IInv, Crash
<1>2. mem' \in MemType /\ mem'.state = "down"
  BY <1>1, NoEntriesGood DEF DownMem, MemType, States
<1>3. owner' \in OwnerStates
  BY DEF Crash, OwnerStates
<1>4. TypeOK'
  BY <1>1, <1>2, <1>3 DEF TypeOK, MemType, EntryMap
<1>5. DiskIsLoadable'
  BY <1>1 DEF IInv, DiskIsLoadable, Loadable, ChainCurrent, ChainLags
<1>6. GoodDisk
  BY <1>1, UnchangedIsQuiet, SameFileIsGoodDisk
<1>7. QED
  BY <1>1, <1>2, <1>4, <1>5, <1>6
  DEF IInv, ReadyIsDurable, OwnerInflight, OwnerLoaded, InflightIsOurs,
      ReadyIsValid, FenceIsLocal

\* A reload finds a disk it can adopt, so it never ends corrupt.
LEMMA ReloadSound ==
    ASSUME IInv, Reload
    PROVE  IInv' /\ GoodDisk /\ mem'.state # "corrupt"
<1>1. /\ TypeOK /\ owner # "closed" /\ mem.state = "error" /\ Loadable
      /\ UNCHANGED <<file, now, writes, owner, fenced, started, ours>>
  BY DEF IInv, Reload, OwnerLoaded, DiskIsLoadable, TypeOK
<1>2. /\ file \in FileType /\ head \in HeadType /\ HeadOf(file) \in HeadType
      /\ HeadOf(file).gen = file.gen /\ HeadOf(file).hash = file.hash
      /\ mem \in MemType /\ Adopted \in MemType /\ Adopted.state = "ready"
  BY <1>1 DEF TypeOK, FileType, HeadType, MemType, EntryMap, HeadOf, Adopted, States
<1>3. /\ mem' = Adopted \/ mem' = mem
      /\ mem' = Adopted => head' = HeadOf(file)
      /\ head' \in {head, HeadOf(file)} /\ faults' \in Nat
  BY <1>1, <1>2 DEF Reload, TypeOK
<1>4. TypeOK'
  BY <1>1, <1>2, <1>3 DEF TypeOK, MemType, HeadType, EntryMap
<1>5. Loadable'
  BY <1>1, <1>2, <1>3 DEF Loadable, ChainCurrent, ChainLags
<1>6. ReadyIsDurable'
  <2>1. CASE mem' = Adopted
    BY <1>1, <1>2, <1>3, <2>1 DEF ReadyIsDurable, Adopted, Loadable, ChainCurrent
  <2>2. QED
    BY <1>1, <1>3, <2>1 DEF ReadyIsDurable
<1>7. OwnerInflight' /\ OwnerLoaded'
  BY <1>1, <1>2, <1>3 DEF IInv, OwnerInflight, OwnerLoaded, Loadable
<1>8. InflightIsOurs' /\ ReadyIsValid' /\ FenceIsLocal'
  <2>1. mem'.state = "ready" => mem'.entries = file'.entries /\ ValidPayload(file'.entries)
    BY <1>1, <1>3 DEF Adopted, Loadable
  <2>2. mem'.state # "down"
    BY <1>1, <1>2, <1>3
  <2>3. QED
    BY <1>7, <2>1, <2>2 DEF InflightIsOurs, OwnerInflight, ReadyIsValid, FenceIsLocal
<1>9. GoodDisk
  BY <1>1, UnchangedIsQuiet, SameFileIsGoodDisk
<1>10. QED
  BY <1>1, <1>2, <1>3, <1>4, <1>5, <1>6, <1>7, <1>8, <1>9 DEF IInv, DiskIsLoadable

\* A step of the clock, of the deletion fence, of the activation, or none.
Environment ==
    /\ UNCHANGED <<mem, file, head, writes, faults, started, ours>>
    /\ now' \in Nat \ {0}
    /\ fenced' \in SUBSET Lineages /\ fenced \subseteq fenced'
    /\ mem.state = "down" => fenced' = fenced
    /\ owner' \in OwnerStates /\ (owner' # "closed" => owner # "closed")

\* The environment leaves memory and disk alone, and a longer fence only blocks
\* more.
LEMMA EnvironmentSound ==
    ASSUME IInv, Environment
    PROVE  IInv' /\ GoodDisk
<1>1. TypeOK'
  BY DEF IInv, TypeOK, Environment
<1>2. DiskIsLoadable'
  BY DEF IInv, DiskIsLoadable, Loadable, ChainCurrent, ChainLags, Environment
<1>3. ReadyIsDurable'
  <2>1. \A k \in Keys : Fenced(k, mem.entries[k]) => Fenced(k, mem.entries[k])'
    BY DEF Fenced, Matches, Environment
  <2>2. QED
    BY <2>1 DEF IInv, ReadyIsDurable, ChainCurrent, Environment
<1>4. /\ OwnerInflight' /\ OwnerLoaded' /\ InflightIsOurs'
      /\ ReadyIsValid' /\ FenceIsLocal'
  BY DEF IInv, OwnerInflight, OwnerLoaded, InflightIsOurs, ReadyIsValid, FenceIsLocal,
         Environment
<1>5. GoodDisk
  BY UnchangedIsQuiet, SameFileIsGoodDisk DEF IInv, Environment
<1>6. QED
  BY <1>1, <1>2, <1>3, <1>4, <1>5 DEF IInv

\* The steps of Next other than Start and Reload are operations, a crash, or
\* steps of the environment.
LEMMA NextCases ==
    ASSUME IInv, [Next]_vars
    PROVE  Start \/ Reload \/ Crash \/ OpStep \/ PurgeUnread \/ Environment
<1>1. CASE Tick
  BY <1>1, ConstantsAssumption DEF Tick, IInv, TypeOK, Environment
<1>2. CASE \E t \in Lineages : Freeze(t)
  BY <1>2 DEF Freeze, IInv, TypeOK, Environment
<1>3. CASE UNCHANGED vars
  BY <1>3 DEF vars, IInv, TypeOK, Environment
<1>4. CASE Reconcile \/ Open
  BY <1>4 DEF Reconcile, Open, OwnerStates, IInv, TypeOK, Environment
<1>5. QED
  BY <1>1, <1>2, <1>3, <1>4, IngressIsOpStep, DeliveryIsOpStep, DeletionCases
  DEF Next, Lifecycle

\* IInv is inductive, and every step treats the disk well.
LEMMA Inductive ==
    ASSUME IInv, [Next]_vars
    PROVE  IInv' /\ GoodDisk
BY NextCases, StartSound, ReloadSound, CrashSound, OpStepSound, PurgeUnreadSound,
   EnvironmentSound

\* A process that has never run: no files, no memory.
LEMMA InitSound == Init => IInv
<1> SUFFICES ASSUME Init PROVE IInv
  OBVIOUS
<1>1. NoEntries \in [Keys -> Entry]
  BY NoEntriesGood DEF EntryMap
<1>2. TypeOK
  <2>1. owner \in OwnerStates
    BY DEF Init, OwnerStates
  <2>2. QED
    BY <1>1, <2>1 DEF Init, TypeOK, DownMem, NoFile, NoHead, States
<1>3. DiskIsLoadable
  BY DEF Init, DiskIsLoadable, NoFile, NoHead
<1>4. QED
  BY <1>2, <1>3 DEF IInv, Init, DownMem, ReadyIsDurable, OwnerInflight, OwnerLoaded,
                    InflightIsOurs, ReadyIsValid, FenceIsLocal

-----------------------------------------------------------------------------
(* The theorems *)

\* The inductive invariant holds in every reachable state.
THEOREM InductiveInvariant == Spec => []IInv
BY InitSound, Inductive, PTL DEF Spec

\* Every variable keeps its type, for any number of keys and any limits.
THEOREM TypeCorrect == Spec => []TypeOK
<1>1. IInv => TypeOK
  BY DEF IInv
<1>2. QED
  BY <1>1, InductiveInvariant, PTL

\* No sequence of operations, crashes, failed writes and clock jumps leaves
\* files on disk that _load would reject.
THEOREM DiskAlwaysLoadable == Spec => []DiskIsLoadable
<1>1. IInv => DiskIsLoadable
  BY DEF IInv
<1>2. QED
  BY <1>1, InductiveInvariant, PTL

\* A receipt is answered from a memory that both files hold, but for what a
\* deletion has fenced and removed.
THEOREM ReadyAlwaysDurable == Spec => []ReadyIsDurable
<1>1. IInv => ReadyIsDurable
  BY DEF IInv
<1>2. QED
  BY <1>1, InductiveInvariant, PTL

\* A working owner's delivery in flight is one it began itself.
THEOREM InflightAlwaysOurs == Spec => []InflightIsOurs
<1>1. IInv => InflightIsOurs
  BY DEF IInv
<1>2. QED
  BY <1>1, InductiveInvariant, PTL

\* shouldProcess is granted only with, and only for, a first durable claim.
THEOREM GrantOnlyFirstDurable == Spec => GrantIsFirstDurable
<1>1. GoodDisk => \A k \in Keys : started'[k] > started[k] =>
          /\ file.entries[k].phase \in {"none", "reserved"}
          /\ file'.entries[k].phase = "accepted" /\ head' = HeadOf(file')
  BY DEF GoodDisk
<1>2. QED
  BY <1>1, InductiveInvariant, Inductive, PTL DEF Spec, GrantIsFirstDurable

\* What the disk knows of a delivery is never lost or contradicted while its
\* entry is kept.
THEOREM DurableTruthAlwaysKept == Spec => DurableTruthIsKept
<1>1. GoodDisk => \A k \in Keys :
          LET e == file.entries[k]
              f == file'.entries[k] IN
          e.phase # "none" /\ f.phase # "none" =>
              /\ Rank[f.phase] >= Rank[e.phase]
              /\ f.text = e.text /\ f.turn = e.turn
              /\ e.reply # None => f.reply = e.reply
              /\ e.cgen > 0 => f.cgen = e.cgen
  BY DEF GoodDisk, Advances
<1>2. QED
  BY <1>1, InductiveInvariant, Inductive, PTL DEF Spec, DurableTruthIsKept

\* The journal's file implements the durable rows of DeliveryLedger.
THEOREM LedgerImplemented == Spec => ImplementsLedger
<1>1. Init => Ledger!Init
  BY DEF Init, NoFile, NoEntries, NoEntry, Ledger!Init
<1>2. GoodDisk => Ledger!Next
  BY DEF GoodDisk, Advances, Ledger!Next, Ledger!Advances, Rank, Ledger!Rank
<1>3. UNCHANGED file => UNCHANGED [k \in Keys |->
                                    [phase |-> file.entries[k].phase,
                                     reply |-> file.entries[k].reply,
                                     gen |-> file.entries[k].cgen]]
  OBVIOUS
<1>4. QED
  BY <1>1, <1>2, <1>3, InductiveInvariant, Inductive, PTL
  DEF Spec, ImplementsLedger, Ledger!Spec

\* Admission at capacity never costs a pending or reserved entry.
THEOREM AdmissionAlwaysKeepsPending == Spec => AdmissionKeepsPending
<1>1. GoodDisk =>
        ((\E j \in Keys : file.entries[j] = NoEntry /\ file'.entries[j] # NoEntry) =>
          \A k \in Keys : file.entries[k].phase \notin {"none", "completed"} =>
              file'.entries[k] = file.entries[k])
  BY DEF GoodDisk
<1>2. QED
  BY <1>1, InductiveInvariant, Inductive, PTL DEF Spec, AdmissionKeepsPending

\* What a deletion has fenced and the disk has lost never comes back.
THEOREM FencedNeverComesBack == Spec => FencedNeverReappears
<1>1. GoodDisk => \A t \in fenced :
          (\A k \in Keys : ~Matches(k, file.entries[k], t)) =>
              (\A k \in Keys : ~Matches(k, file'.entries[k], t))
  BY DEF GoodDisk
<1>2. QED
  BY <1>1, InductiveInvariant, Inductive, PTL DEF Spec, FencedNeverReappears

\* A journal is declared corrupt only by a restart recovery that outgrows it.
THEOREM CorruptOnlyBySize == Spec => CorruptOnlyIfTooLarge
<1>1. ASSUME IInv, [Next]_vars
      PROVE  mem'.state = "corrupt" /\ mem.state # "corrupt" =>
                ~(Bytes(Recovered(file.entries)) <= MaxBytes)
  <2> SUFFICES ASSUME mem'.state = "corrupt", mem.state # "corrupt"
               PROVE  ~(Bytes(Recovered(file.entries)) <= MaxBytes)
    OBVIOUS
  <2>1. mem \in MemType /\ file \in FileType
    BY <1>1 DEF IInv, TypeOK, MemType, FileType, EntryMap
  <2>2. ASSUME NEW m \in MemType, NEW h, NEW es, NEW onFail, m.state = "ready",
               WriteScoped(m, h, es, onFail)
        PROVE  FALSE
    BY <2>2 DEF WriteScoped, MemType
  <2>3. ~OpStep
    BY <2>1, <2>2 DEF OpStep
  <2>4. Start
    <3>1. ~Crash /\ mem' # mem
      BY DEF Crash, DownMem
    <3>2. ~Reload
      BY <1>1, ReloadSound
    <3>3. ~PurgeUnread
      BY <2>1 DEF PurgeUnread, MemType
    <3>4. QED
      BY <1>1, <2>3, <3>1, <3>2, <3>3, NextCases DEF Environment
  <2>5. [DownMem EXCEPT !.state = "ready"] \in MemType
    BY NoEntriesGood DEF DownMem, MemType, States
  <2>6. Adopted \in MemType
    BY <2>1 DEF Adopted, MemType, FileType, States
  <2>7. ~Writable(Recovered(file.entries))
    BY <1>1, <2>2, <2>4, <2>5, <2>6
    DEF Start, Load, IInv, DiskIsLoadable, DownMem, Adopted
  <2>8. fenced = {}
    BY <1>1, <2>4 DEF Start, IInv, FenceIsLocal
  <2>9. QED
    BY <2>7, <2>8 DEF Writable, Fenced
<1>2. QED
  BY <1>1, InductiveInvariant, PTL DEF Spec, CorruptOnlyIfTooLarge

-----------------------------------------------------------------------------
(* At most one execution *)

\* A claim finds room: nothing has to be evicted for it.
HasRoom == (\E k \in Keys : mem.entries[k] = NoEntry) => Cardinality(Held(mem.entries)) < MaxEntries

\* A key that was told to process has an accepted row, or one beyond it, on disk.
Remembered ==
    /\ file.gen = 0 => file.entries = NoEntries
    /\ \A k \in Keys : /\ started[k] <= 1
                       /\ file.entries[k].phase \in {"none", "reserved"} => started[k] = 0

\* Rows stay on disk.
KeepsRows == \A k \in Keys : file.entries[k].phase # "none" => file'.entries[k].phase # "none"

\* A row leaves the disk only together with the history of its key, and a step
\* grants a key once.
Forgets ==
    \A k \in Keys :
        /\ started'[k] <= started[k] + 1
        /\ file.entries[k].phase # "none" /\ file'.entries[k].phase = "none" => started'[k] = 0

\* A write puts its entries on disk or leaves the disk alone.
LEMMA WriteFile ==
    ASSUME NEW m, NEW h, NEW es, NEW onFail, WriteScoped(m, h, es, onFail)
    PROVE  file' = file \/ (file'.entries = es /\ file'.gen = m.gen + 1)
BY DEF WriteScoped, NextFile

\* A ready memory has every row of the disk.
LEMMA RowInMemory ==
    ASSUME IInv, mem.state = "ready", NEW k \in Keys, file.entries[k].phase # "none"
    PROVE  mem.entries[k] = file.entries[k]
BY DEF IInv, ReadyIsDurable, NoEntry

\* A mutation of one entry removes none.
LEMMA MutateKeeps ==
    ASSUME IInv, mem.state = "ready", NEW k \in Keys, NEW e \in Entry, e.phase # "none",
           Mutate(k, e)
    PROVE  KeepsRows
<1> DEFINE u == LogicalUpdatedAt(e, Greater(now, mem.entries[k].updated))
           s == [e EXCEPT !.updated = u]
           es == [mem.entries EXCEPT ![k] = s]
<1>1. s.phase # "none"
  BY DEF Entry
<1> HIDE DEF u, s
<1>2. mem.entries \in EntryMap
  BY ReadyFacts
<1>3. \A j \in Keys : mem.entries[j].phase # "none" => es[j].phase # "none"
  BY <1>1, <1>2 DEF EntryMap
<1>4. file' = file \/ file'.entries = es
  BY WriteFile DEF Mutate, Persist, s, u
<1> HIDE DEF es
<1> QED BY <1>3, <1>4, RowInMemory DEF KeepsRows

\* Every delivery operation mutates one entry.
LEMMA DeliveryKeeps ==
    ASSUME IInv, NEW k \in Keys, Delivery(k)
    PROVE  KeepsRows /\ started' = started
<1> DEFINE x == mem.entries[k]
<1>1. mem.state = "ready" /\ started' = started
  BY DEF Delivery, MarkResponseReady, BindResponse, MarkDeliveryInflight, Prepared,
         MarkDeliverySucceeded, MarkDeliveryAmbiguous, BeginTerminalCommit, Complete, MayOperate
<1>2. x \in Entry
  BY <1>1, ReadyFacts DEF EntryMap
<1>3. \E e \in Entry : e.phase # "none" /\ Mutate(k, e)
  <2> HIDE DEF x
  <2>1. ASSUME NEW reply \in Replies, MarkResponseReady(k, reply)
        PROVE  \E e \in Entry : e.phase # "none" /\ Mutate(k, e)
    <3> DEFINE e == [x EXCEPT !.phase = "response_ready", !.reply = reply, !.err = "none"]
    <3>1. e \in Entry /\ e.phase = "response_ready"
      BY <1>2 DEF Entry, Phases
    <3>2. Mutate(k, e)
      BY <2>1 DEF MarkResponseReady, x
    <3> HIDE DEF e
    <3> QED BY <3>1, <3>2
  <2>2. ASSUME NEW reply \in Replies, BindResponse(k, reply)
        PROVE  \E e \in Entry : e.phase # "none" /\ Mutate(k, e)
    <3> DEFINE p == IF x.phase = "accepted" THEN "response_ready" ELSE x.phase
               e == [x EXCEPT !.phase = p, !.reply = reply]
    <3>1. p \in Phases
      BY <2>2 DEF BindResponse, Phases, x
    <3>2. Mutate(k, e)
      BY <2>2 DEF BindResponse, x
    <3> HIDE DEF p
    <3>3. e \in Entry /\ e.phase = p
      BY <1>2, <3>1 DEF Entry
    <3> HIDE DEF e
    <3>4. p # "none"
      BY <3>1 DEF Phases
    <3> QED BY <3>2, <3>3, <3>4
  <2>3. ASSUME NEW ref \in Refs \cup {None}, MarkDeliveryInflight(k, ref)
        PROVE  \E e \in Entry : e.phase # "none" /\ Mutate(k, e)
    <3> DEFINE e == [x EXCEPT !.phase = "delivery_inflight", !.ref = ref, !.err = "none"]
    <3>1. e \in Entry /\ e.phase = "delivery_inflight"
      BY <1>2 DEF Entry, Phases
    <3>2. Mutate(k, e)
      BY <2>3 DEF MarkDeliveryInflight, x
    <3> HIDE DEF e
    <3> QED BY <3>1, <3>2
  <2>4. ASSUME NEW ref \in Refs \cup {None}, MarkDeliverySucceeded(k, ref)
        PROVE  \E e \in Entry : e.phase # "none" /\ Mutate(k, e)
    <3> DEFINE r == IF ref = None THEN x.ref ELSE ref
               e == [x EXCEPT !.phase = "delivery_succeeded", !.ref = r, !.err = "none"]
    <3>1. r \in Refs \cup {None}
      BY <1>2 DEF Entry
    <3>2. Mutate(k, e)
      BY <2>4 DEF MarkDeliverySucceeded, x
    <3> HIDE DEF r
    <3>3. e \in Entry /\ e.phase = "delivery_succeeded"
      BY <1>2, <3>1 DEF Entry, Phases
    <3> HIDE DEF e
    <3> QED BY <3>2, <3>3
  <2>5. ASSUME NEW code \in Codes, MarkDeliveryAmbiguous(k, code)
        PROVE  \E e \in Entry : e.phase # "none" /\ Mutate(k, e)
    <3> DEFINE e == [x EXCEPT !.phase = "delivery_ambiguous", !.err = code]
    <3>1. e \in Entry /\ e.phase = "delivery_ambiguous"
      BY <1>2 DEF Entry, Phases
    <3>2. Mutate(k, e)
      BY <2>5 DEF MarkDeliveryAmbiguous, x
    <3> HIDE DEF e
    <3> QED BY <3>1, <3>2
  <2>6. ASSUME NEW gen \in 1 .. MaxCommit, BeginTerminalCommit(k, gen)
        PROVE  \E e \in Entry : e.phase # "none" /\ Mutate(k, e)
    <3> DEFINE e == [x EXCEPT !.phase = "terminal_committing", !.cgen = gen]
    <3>0. gen \in Nat
      BY ConstantsAssumption
    <3>1. e \in Entry /\ e.phase = "terminal_committing"
      BY <1>2, <3>0 DEF Entry, Phases
    <3>2. Mutate(k, e)
      BY <2>6 DEF BeginTerminalCommit, x
    <3> HIDE DEF e
    <3> QED BY <3>1, <3>2
  <2>7. ASSUME NEW gen \in 1 .. MaxCommit, Complete(k, gen)
        PROVE  \E e \in Entry : e.phase # "none" /\ Mutate(k, e)
    <3> DEFINE e == [x EXCEPT !.phase = "completed", !.err = "none"]
    <3>1. e \in Entry /\ e.phase = "completed"
      BY <1>2 DEF Entry, Phases
    <3>2. Mutate(k, e)
      BY <2>7 DEF Complete, x
    <3> HIDE DEF e
    <3> QED BY <3>1, <3>2
  <2> QED BY <2>1, <2>2, <2>3, <2>4, <2>5, <2>6, <2>7 DEF Delivery
<1> QED BY <1>1, <1>3, MutateKeeps

\* With room, the admission of a new key removes none.
LEMMA AdmitKeeps ==
    ASSUME IInv, HasRoom, mem.state = "ready", NEW k \in Keys, mem.entries[k] = NoEntry,
           NEW e, Admit(k, e)
    PROVE  KeepsRows
<1>1. PICK victims \in Evictions(mem.entries) :
          Persist([Without(mem.entries, victims) EXCEPT ![k] = e])
  BY DEF Admit
<1>2. victims = {}
  BY <1>1 DEF HasRoom, Evictions
<1> DEFINE es == [Without(mem.entries, victims) EXCEPT ![k] = e]
<1>3. \A j \in Keys : j # k => es[j] = mem.entries[j]
  BY <1>2 DEF Without
<1>4. file' = file \/ file'.entries = es
  BY <1>1, WriteFile DEF Persist
<1>5. mem.entries[k].phase = "none"
  BY DEF NoEntry
<1> HIDE DEF es
<1> QED BY <1>3, <1>4, <1>5, RowInMemory DEF KeepsRows

\* With room, no claim and no reservation removes a row.
LEMMA IngressKeeps ==
    ASSUME IInv, HasRoom, NEW k \in Keys, Ingress(k)
    PROVE  KeepsRows /\ \A j \in Keys : started'[j] <= started[j] + 1
<1>1. started \in [Keys -> Nat]
  BY DEF IInv, TypeOK
<1>2. ASSUME NEW text \in Texts, NEW turn \in Turns, Claim(k, text, turn)
      PROVE  KeepsRows /\ \A j \in Keys : started'[j] <= started[j] + 1
  <2>1. mem.state = "ready" /\ mem.entries[k] = NoEntry /\ Track({}, {k})
        /\ Admit(k, FreshEntry("accepted", turn, text, None, MaxAge))
    BY <1>2 DEF Claim, MayOperate, Prepared
  <2> QED BY <1>1, <2>1, AdmitKeeps DEF Track
<1>3. ASSUME NEW text \in Texts, NEW turn \in Turns, NEW ref \in Refs, NEW ttl \in 1 .. MaxAge,
             ReserveIngress(k, text, turn, ref, ttl)
      PROVE  KeepsRows /\ \A j \in Keys : started'[j] <= started[j] + 1
  <2> DEFINE e == FreshEntry("reserved", turn, text, ref, ttl)
  <2>1. mem.state = "ready" /\ started' = started
        /\ \/ mem.entries[k] = NoEntry /\ Admit(k, e)
           \/ Persist([mem.entries EXCEPT ![k] = e])
    BY <1>3 DEF ReserveIngress, MayOperate, Prepared
  <2>2. CASE Persist([mem.entries EXCEPT ![k] = e])
    <3>1. mem.entries \in EntryMap /\ e.phase # "none"
      BY <2>1, ReadyFacts DEF FreshEntry
    <3> HIDE DEF e
    <3>2. file' = file \/ file'.entries = [mem.entries EXCEPT ![k] = e]
      BY <2>2, WriteFile DEF Persist
    <3>3. KeepsRows
      BY <2>1, <3>1, <3>2, RowInMemory DEF KeepsRows, EntryMap
    <3> QED BY <1>1, <2>1, <3>3
  <2> QED BY <1>1, <2>1, <2>2, AdmitKeeps
<1>4. ASSUME NEW text \in Texts, NEW turn \in Turns, NEW ref \in Refs,
             ClaimReservedIngress(k, text, turn, ref)
      PROVE  KeepsRows /\ \A j \in Keys : started'[j] <= started[j] + 1
  <2> DEFINE x == mem.entries[k]
             e == [x EXCEPT !.phase = "accepted", !.created = now, !.updated = now,
                            !.expires = now + MaxAge, !.recovered = 0]
  <2>1. mem.state = "ready" /\ Track({}, {k}) /\ Mutate(k, e)
    BY <1>4 DEF ClaimReservedIngress, MayOperate, Prepared
  <2>2. x \in Entry /\ now \in Nat /\ now + MaxAge \in Nat
    BY <2>1, ReadyFacts, ConstantsAssumption DEF EntryMap, IInv, TypeOK
  <2> HIDE DEF x
  <2>3. e \in Entry /\ e.phase = "accepted"
    BY <2>2 DEF Entry, Phases
  <2> HIDE DEF e
  <2>4. KeepsRows
    BY <2>1, <2>3, MutateKeeps
  <2> QED BY <1>1, <2>1, <2>4 DEF Track
<1> QED BY <1>2, <1>3, <1>4 DEF Ingress

\* A deletion forgets exactly what it removes.
LEMMA RemoveForgets ==
    ASSUME IInv, mem.state = "ready", NEW dropped, Track(dropped, {}),
           file' = file \/ file'.entries = Without(mem.entries, dropped)
    PROVE  Forgets
<1>1. started \in [Keys -> Nat]
  BY DEF IInv, TypeOK
<1>2. \A k \in Keys : started'[k] <= started[k] + 1
  BY <1>1 DEF Track
<1>3. ASSUME NEW k \in Keys, file.entries[k].phase # "none", file'.entries[k].phase = "none"
      PROVE  started'[k] = 0
  <2>1. mem.entries[k].phase # "none"
    BY <1>3, RowInMemory
  <2>2. k \in dropped /\ file'.entries[k] = NoEntry
    BY <1>3, <2>1 DEF Without
  <2> QED BY <2>2 DEF Track
<1> QED BY <1>2, <1>3 DEF Forgets

\* Every deletion does.
LEMMA DeletionForgets ==
    ASSUME IInv, Deletion
    PROVE  Forgets
<1>1. ASSUME NEW dropped, Delete(dropped)
      PROVE  Forgets
  BY <1>1, RemoveForgets, WriteFile DEF Delete, Prepared, Persist
<1>2. CASE PruneExpired
  BY <1>2, RemoveForgets, WriteFile DEF PruneExpired, Persist
<1>3. ASSUME NEW t \in Lineages, PurgeExactLineage(t)
      PROVE  Forgets
  <2> DEFINE dropped == {k \in Keys : Matches(k, mem.entries[k], t)}
             es == Without(mem.entries, dropped)
  <2>1. mem.state = "ready" /\ Track(dropped, {})
        /\ (WriteScoped(mem, head, es, mem.entries) \/ file' = NextFile(mem, es))
    BY <1>3 DEF PurgeExactLineage
  <2> HIDE DEF dropped
  <2>2. file' = file \/ file'.entries = es
    BY <2>1, WriteFile DEF NextFile
  <2> QED BY <2>1, <2>2, RemoveForgets
<1> QED BY <1>1, <1>2, <1>3
        DEF Deletion, DiscardAmbiguous, RevokeReservedBatch, RevokeReservedScope, ResetGuild

\* A restart forgets what has expired.
LEMMA StartForgets ==
    ASSUME IInv, Remembered, Start
    PROVE  Forgets
<1>1. started \in [Keys -> Nat] /\ Track(ExpiredKeys(file.entries), {})
  BY DEF IInv, TypeOK, Start
<1>2. \A k \in Keys : started'[k] <= started[k] + 1
  BY <1>1 DEF Track
<1>3. \/ file' = file
      \/ file.gen = 0
      \/ file'.entries = Recovered(file.entries)
  BY WriteFile DEF Start, Load
<1>4. ASSUME NEW k \in Keys, file.entries[k].phase # "none", file'.entries[k].phase = "none"
      PROVE  started'[k] = 0
  <2>1. file.gen # 0
    BY <1>4 DEF Remembered, NoEntries, NoEntry
  <2>2. Recovered(file.entries)[k].phase = "none"
    BY <1>3, <1>4, <2>1
  <2>3. k \in ExpiredKeys(file.entries)
    <3> DEFINE e == file.entries[k]
               t == LogicalUpdatedAt(e, now)
               p == IF e.phase = "delivery_inflight" THEN "delivery_ambiguous" ELSE e.phase
               c == IF e.phase = "delivery_inflight"
                    THEN "delivery_ambiguous_after_restart" ELSE e.err
               v == IF e.recovered = 0 THEN t ELSE e.recovered
               r == [e EXCEPT !.phase = p, !.err = c, !.recovered = v, !.updated = t]
    <3>1. Recovered(file.entries)[k] = IF k \in ExpiredKeys(file.entries) THEN NoEntry
             ELSE IF e.phase \in {"none", "completed"} THEN e ELSE r
      BY DEF Recovered
    <3>2. e \in Entry /\ p # "none"
      BY <1>4 DEF IInv, TypeOK
    <3> HIDE DEF e, t, p, c, v
    <3>3. r.phase = p
      BY <3>2 DEF Entry
    <3> QED BY <1>4, <2>2, <3>1, <3>2, <3>3 DEF e
  <2>4. file'.entries[k] = NoEntry
    BY <1>3, <1>4, <2>1, <2>3 DEF Recovered
  <2> QED BY <1>1, <2>3, <2>4 DEF Track
<1> QED BY <1>2, <1>4 DEF Forgets

\* So does every step, if no claim has to evict.
LEMMA NextForgets ==
    ASSUME IInv, Remembered, HasRoom, [Next]_vars
    PROVE  Forgets
<1>1. started \in [Keys -> Nat]
  BY DEF IInv, TypeOK
<1>2. CASE KeepsRows /\ \A j \in Keys : started'[j] <= started[j] + 1
  BY <1>2 DEF Forgets, KeepsRows
<1>3. CASE file' = file /\ started' = started
  BY <1>1, <1>3 DEF Forgets
<1>4. ASSUME NEW k \in Keys, Delivery(k)
      PROVE  Forgets
  BY <1>1, <1>2, <1>4, DeliveryKeeps
<1>5. ASSUME NEW k \in Keys, Ingress(k)
      PROVE  Forgets
  BY <1>2, <1>5, IngressKeeps
<1>6. ASSUME NEW t \in Lineages, Freeze(t)
      PROVE  file' = file /\ started' = started
  BY <1>6 DEF Freeze
<1>7. CASE Crash \/ Reconcile \/ Open \/ Reload \/ Tick \/ UNCHANGED vars
  BY <1>3, <1>7 DEF Crash, Reconcile, Open, Reload, Tick, vars
<1> QED BY <1>3, <1>4, <1>5, <1>6, <1>7, StartForgets, DeletionForgets DEF Next, Lifecycle

\* A journal that is written has a generation.
LEMMA FileGrows ==
    ASSUME IInv, [Next]_vars
    PROVE  file' = file \/ file'.gen > 0
<1>1. mem \in MemType /\ file \in FileType
  BY DEF IInv, TypeOK, MemType, FileType, EntryMap
<1>2. mem.gen \in Nat /\ file.gen \in Nat
  BY <1>1 DEF MemType, FileType
<1>3. CASE OpStep
  BY <1>2, <1>3, WriteFile DEF OpStep
<1>4. CASE PurgeUnread
  BY <1>2, <1>4 DEF PurgeUnread, NextFile
<1>5. CASE Start
  <2> DEFINE m == [DownMem EXCEPT !.state = "ready"]
             r == Recovered(file.entries)
  <2>1. m.gen \in Nat /\ Adopted.gen \in Nat
    BY <1>2 DEF DownMem, Adopted
  <2> HIDE DEF m, r
  <2>2. \/ WriteScoped(m, head, NoEntries, NoEntries)
        \/ WriteScoped(Adopted, HeadOf(file), r, r)
        \/ file' = file
    BY <1>5 DEF Start, Load, m, r
  <2>3. WriteScoped(m, head, NoEntries, NoEntries) => file' = file \/ file'.gen = m.gen + 1
    BY WriteFile
  <2>4. WriteScoped(Adopted, HeadOf(file), r, r) => file' = file \/ file'.gen = Adopted.gen + 1
    BY WriteFile
  <2> QED BY <2>1, <2>2, <2>3, <2>4
<1>6. CASE Reload \/ Crash \/ Environment
  BY <1>6 DEF Reload, Crash, Environment
<1> QED BY <1>3, <1>4, <1>5, <1>6, NextCases

\* Remembered is inductive as long as there is room: a grant goes to a key
\* whose row is absent or reserved, and a row that is accepted never goes back.
LEMMA RememberedKept ==
    ASSUME IInv, Remembered, HasRoom, [Next]_vars
    PROVE  Remembered'
<1>1. IInv' /\ GoodDisk /\ Forgets
  BY Inductive, NextForgets
<1>2. /\ started \in [Keys -> Nat] /\ started' \in [Keys -> Nat]
      /\ file.entries \in EntryMap /\ file'.entries \in EntryMap
  BY <1>1 DEF IInv, TypeOK, EntryMap
<1>3. file'.gen = 0 => file'.entries = NoEntries'
  BY <1>2, FileGrows DEF Remembered, NoEntries
<1>4. ASSUME NEW k \in Keys
      PROVE  /\ started'[k] <= 1
             /\ file'.entries[k].phase \in {"none", "reserved"} => started'[k] = 0
  <2> DEFINE p == file.entries[k].phase
             q == file'.entries[k].phase
  <2>1. /\ p \in Phases \cup {"none"} /\ q \in Phases \cup {"none"}
        /\ started[k] \in Nat /\ started'[k] \in Nat
    BY <1>2 DEF EntryMap, Entry
  <2>2. /\ started[k] <= 1 /\ (p \in {"none", "reserved"} => started[k] = 0)
        /\ started'[k] <= started[k] + 1
        /\ p # "none" /\ q = "none" => started'[k] = 0
        /\ started'[k] > started[k] => p \in {"none", "reserved"} /\ q = "accepted"
    BY <1>1 DEF Remembered, Forgets, GoodDisk
  <2>3. p # "none" /\ q # "none" => Rank[q] >= Rank[p]
    BY <1>1 DEF GoodDisk, Advances
  <2> HIDE DEF p, q
  <2>4. q = "reserved" => p \in {"none", "reserved"}
    BY <2>1, <2>3 DEF Rank, Phases
  <2>5. CASE p \in {"none", "reserved"}
    BY <2>1, <2>2, <2>5 DEF q
  <2>6. CASE p \notin {"none", "reserved"}
    BY <2>1, <2>2, <2>4, <2>6 DEF q
  <2> QED BY <2>5, <2>6 DEF p, q
<1> QED BY <1>3, <1>4 DEF Remembered

\* At most one execution: as long as the journal never has to evict an entry to
\* admit another, a delivery is told to process once until it expires or is
\* deleted, whatever crashes, failed writes and clock jumps there are.
THEOREM OneExecutionWithRoom == Spec /\ []HasRoom => []OneExecution
<1>1. Init => Remembered
  BY DEF Init, Remembered, NoFile
<1>2. IInv /\ Remembered /\ HasRoom /\ [Next]_vars => Remembered'
  BY RememberedKept
<1>3. Remembered => OneExecution
  BY DEF Remembered, OneExecution
<1> QED BY <1>1, <1>2, <1>3, InductiveInvariant, PTL DEF Spec

\* So it is where max_entries is enough for all deliveries there are.
THEOREM OneExecutionUnderCapacity ==
    ASSUME Cardinality(Keys) <= MaxEntries
    PROVE  Spec => []OneExecution
<1>1. HasRoom
  <2> SUFFICES ASSUME NEW k \in Keys, mem.entries[k] = NoEntry
               PROVE  Cardinality(Held(mem.entries)) < MaxEntries
    BY DEF HasRoom
  <2>1. Held(mem.entries) \subseteq Keys \ {k}
    BY DEF Held, NoEntry
  <2>2. IsFiniteSet(Keys) /\ IsFiniteSet(Keys \ {k}) /\ MaxEntries \in Nat
    BY ConstantsAssumption, FS_RemoveElement
  <2>3. Cardinality(Keys \ {k}) = Cardinality(Keys) - 1 /\ Cardinality(Keys) \in Nat
    BY <2>2, FS_RemoveElement, FS_CardinalityType
  <2>4. Cardinality(Held(mem.entries)) <= Cardinality(Keys \ {k})
        /\ Cardinality(Held(mem.entries)) \in Nat
    BY <2>1, <2>2, FS_Subset, FS_CardinalityType
  <2> QED BY <2>2, <2>3, <2>4
<1> QED BY <1>1, OneExecutionWithRoom, PTL
====
