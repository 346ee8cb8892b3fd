--------------------------- MODULE IngressJournal ---------------------------
(***************************************************************************)
(* The durable ingress journal of conversation_ingress_recovery.py: the    *)
(* at-most-once boundary an accepted user turn crosses before any LLM,     *)
(* tool or delivery work starts.                                           *)
(*                                                                         *)
(* One owner process keeps the entries in memory (mem) and in a pair of    *)
(* files: the hash-chained journal (file) and the content-free head        *)
(* (head).  Every operation runs under the journal's lock and is           *)
(*                                                                         *)
(*    _require_ready ; _prune_expired ; guard ; mutate ; _write            *)
(*                                                                         *)
(* Reload is the part of _require_ready that changes state and             *)
(* PruneExpired is _prune_expired; the other actions are enabled only      *)
(* where both would do nothing.  They are steps of their own because a     *)
(* crash or a failed write can fall between the two writes an operation    *)
(* may make; no operation can skip them.  An operation whose guard fails   *)
(* raises and changes nothing, so it is no action.                         *)
(*                                                                         *)
(* Text and replies are opaque values (the code compares their SHA-256),   *)
(* a journal hash is the number of the write that produced it, and the     *)
(* serialized size of an entry is a small weight.                          *)
(***************************************************************************)
EXTENDS Naturals, FiniteSets, FiniteSetsExt

CONSTANTS
    Keys,          \* entry ids: hashes of (surface, scope, source delivery id)
    Scopes,        \* owner scopes
    ScopeOf,       \* [Keys -> Scopes]
    Texts,         \* normalized accepted texts
    Turns,         \* turn ids
    Replies,       \* (assistant text, memory receipt reference) bindings
    Refs,          \* delivery and reservation references
    Lineages,      \* turns and scopes (sessions) that a deletion may name
    None,          \* the empty text, turn, reply or reference
    MaxEntries,    \* max_entries
    MaxAge,        \* max_age_sec
    MaxBytes,      \* max_bytes, in units of Weight
    MaxTime,       \* bound: last value of the wall clock
    MaxCommit,     \* bound: last continuity generation offered
    MaxWrites,     \* bound: journal writes after which operations stop
    MaxFaults      \* bound: failed reads and writes

ASSUME ConstantsAssumption ==
    /\ IsFiniteSet(Keys)
    /\ ScopeOf \in [Keys -> Scopes]
    /\ None \notin Texts \cup Turns \cup Replies \cup Refs
    /\ Lineages \subseteq Turns \cup Scopes
    /\ MaxEntries \in Nat \ {0} /\ MaxAge \in Nat \ {0} /\ MaxBytes \in Nat
    /\ MaxTime \in Nat \ {0} /\ MaxCommit \in Nat
    /\ MaxWrites \in Nat /\ MaxFaults \in Nat

VARIABLES
    mem,       \* the owner's memory: _state, _generation, _journal_hash, _entries
    file,      \* the journal file; gen = 0 when it is missing
    head,      \* the head file; gen = 0 when it is missing
    now,       \* the wall clock
    writes,    \* journal payloads serialized so far, the supply of hashes
    owner,     \* how far activate_after_continuity_restore opened the journal
    fenced,    \* lineages the process's purge fence blocks
    faults,    \* failed reads and writes so far
    started,   \* history: shouldProcess = TRUE answers per key since the key
               \* last expired or was deliberately deleted
    ours       \* history: keys whose delivery this process began

vars == <<mem, file, head, now, writes, owner, fenced, faults, started, ours>>

-----------------------------------------------------------------------------
(* Entries *)

Phases == {"reserved", "accepted", "response_ready", "delivery_inflight",
           "delivery_ambiguous", "delivery_succeeded", "terminal_committing",
           "completed"}

Codes == {"delivery_ambiguous", "delivery_ambiguous_after_restart"}

\* The value of a key that has no entry.
NoEntry == [phase |-> "none", turn |-> None, text |-> None, reply |-> None,
            ref |-> None, cgen |-> 0, created |-> 0, updated |-> 0,
            expires |-> 0, recovered |-> 0, err |-> "none"]

Entry == [phase : Phases \cup {"none"}, turn : Turns \cup {None},
          text : Texts \cup {None}, reply : Replies \cup {None},
          ref : Refs \cup {None}, cgen : Nat, created : Nat, updated : Nat,
          expires : Nat, recovered : Nat, err : Codes \cup {"none"}]

NoEntries == [k \in Keys |-> NoEntry]

Held(es) == {k \in Keys : es[k].phase # "none"}

\* _validated_entry: what a stored entry must satisfy to be loaded again.
\* An accepted text exists exactly when the reservation has been claimed; the
\* reservation itself carries only its hash, here the text field.
ValidEntry(e) ==
    /\ e.text # None /\ e.turn # None
    /\ e.reply = None => e.phase \in {"reserved", "accepted",
                                      "delivery_inflight", "delivery_ambiguous"}
    /\ e.phase \in {"reserved", "accepted"} => e.reply = None
    /\ (e.cgen > 0) <=> (e.phase \in {"terminal_committing", "completed"})
    /\ e.created <= e.updated /\ e.updated <= e.expires
    /\ e.created < e.expires /\ e.expires <= e.created + MaxAge
    /\ e.recovered # 0 => e.created <= e.recovered
    /\ e.phase = "reserved" => e.ref # None

\* _validated_payload
ValidPayload(es) ==
    /\ Cardinality(Held(es)) <= MaxEntries
    /\ \A k \in Held(es) : ValidEntry(es[k])

Lesser(a, b) == IF a <= b THEN a ELSE b
Greater(a, b) == IF a >= b THEN a ELSE b

\* Mutant: the stamp is the wall clock.
LogicalUpdatedAtWallClock(e, t) == t

\* _logical_entry_updated_at: monotone, and never past the entry's expiry,
\* whatever the wall clock has done.
LogicalUpdatedAt(e, t) ==
    Lesser(Greater(Greater(e.created, e.updated), t), e.expires)

\* Units of the serialized entry that grow during its life: the entry itself,
\* its bound reply, a recovery timestamp, an error code.
Weight(e) ==
    IF e.phase = "none" THEN 0
    ELSE 1 + (IF e.reply # None THEN 1 ELSE 0)
           + (IF e.recovered # 0 THEN 1 ELSE 0)
           + (IF e.err # "none" THEN 1 ELSE 0)

Bytes(es) == MapThenSumSet(LAMBDA k : Weight(es[k]), Keys)

\* Entry e of key k belongs to lineage t.
Matches(k, e, t) == e.phase # "none" /\ t \in {e.turn, ScopeOf[k]}

\* mutation_target_is_current answers False.
Fenced(k, e) == \E t \in fenced : Matches(k, e, t)

\* Mutant: only the size is checked.
WritableBySize(es) == Bytes(es) <= MaxBytes

\* _write refuses a payload with an entry of a fenced lineage
\* (_require_mutation_targets_current) or beyond max_bytes (_write_scoped),
\* before anything is written and without leaving the ready state.
Writable(es) ==
    /\ \A k \in Keys : ~Fenced(k, es[k])
    /\ Bytes(es) <= MaxBytes

-----------------------------------------------------------------------------
(* The two files *)

States == {"down", "ready", "error", "corrupt"}

DownMem == [state |-> "down", gen |-> 0, hash |-> 0, entries |-> NoEntries]

\* CONVERSATION_INGRESS_RECOVERY_CHAIN_GENESIS is hash 0.
NoFile == [gen |-> 0, prev |-> 0, hash |-> 0, entries |-> NoEntries]
NoHead == [gen |-> 0, hash |-> 0]

HeadOf(f) == [gen |-> f.gen, hash |-> f.hash]

\* _payload: the next link of the chain that memory m is at.
NextFile(m, es) ==
    [gen |-> m.gen + 1, prev |-> m.hash, hash |-> writes + 1, entries |-> es]

\* Mutant: the head is replaced before the journal.
WriteScopedHeadFirst(m, h, es, onFail) ==
    LET f == NextFile(m, es) IN
    /\ writes' = writes + 1
    /\ \/ /\ mem' = [m EXCEPT !.gen = f.gen, !.hash = f.hash, !.entries = es]
          /\ file' = f /\ head' = HeadOf(f)
          /\ UNCHANGED faults
       \/ /\ faults < MaxFaults /\ faults' = faults + 1
          /\ mem' = [m EXCEPT !.state = "error", !.entries = onFail]
          /\ file' = file /\ head' = HeadOf(f)

\* Mutant: a failed write restores the entries and leaves the journal ready.
WriteScopedStaysReady(m, h, es, onFail) ==
    LET f == NextFile(m, es) IN
    /\ writes' = writes + 1
    /\ \/ /\ mem' = [m EXCEPT !.gen = f.gen, !.hash = f.hash, !.entries = es]
          /\ file' = f /\ head' = HeadOf(f)
          /\ UNCHANGED faults
       \/ /\ faults < MaxFaults /\ faults' = faults + 1
          /\ mem' = [m EXCEPT !.entries = onFail]
          /\ file' = f /\ head' \in {h, HeadOf(f)}

\* _write_scoped from memory m and head h: the journal is replaced first, the
\* head second (tried twice), and memory advances only when both are done.  A write that
\* raises has had no effect, replaced the journal only, or replaced both files
\* (the worker timed out after the rename, or the directory sync failed); the
\* caller then restores its entries to onFail.
WriteScoped(m, h, es, onFail) ==
    LET f == NextFile(m, es) IN
    \/ /\ mem' = [m EXCEPT !.gen = f.gen, !.hash = f.hash, !.entries = es]
       /\ file' = f
       /\ head' = HeadOf(f)
       /\ writes' = writes + 1
       /\ UNCHANGED faults
    \/ /\ faults < MaxFaults
       /\ faults' = faults + 1
       /\ mem' = [m EXCEPT !.state = "error", !.entries = onFail]
       /\ \/ file' = file /\ head' = h /\ writes' = writes
          \/ file' = f /\ head' = h /\ writes' = writes + 1
          \/ file' = f /\ head' = HeadOf(f) /\ writes' = writes + 1

\* Mutant: the claim answers shouldProcess before its write is known.
TrackOptimistic(dropped, granted) ==
    started' = [k \in Keys |-> IF k \in dropped THEN 0
                               ELSE IF k \in granted THEN started[k] + 1
                               ELSE started[k]]

\* The history of execution grants: forgotten when the disk forgets a key on
\* purpose, counted when a claim returns shouldProcess = TRUE.
Track(dropped, granted) ==
    started' = [k \in Keys |->
        IF k \in dropped /\ file'.entries[k] = NoEntry THEN 0
        ELSE IF k \in granted /\ mem'.state = "ready" THEN started[k] + 1
        ELSE started[k]]

\* _load_scoped: the chain states a load accepts.
ChainCurrent == head.gen > 0 /\ file.gen = head.gen /\ file.hash = head.hash

\* Mutant: a journal without a head is never repaired.
ChainLagsAfterBootstrap ==
    head.gen > 0 /\ file.gen = head.gen + 1 /\ file.prev = head.hash

ChainLags ==
    \/ head.gen = 0 /\ file.gen = 1 /\ file.prev = 0
    \/ head.gen > 0 /\ file.gen = head.gen + 1 /\ file.prev = head.hash
Loadable == file.gen > 0 /\ ValidPayload(file.entries) /\ (ChainCurrent \/ ChainLags)

Adopted == [state |-> "ready", gen |-> file.gen, hash |-> file.hash,
            entries |-> file.entries]

Corrupt == [state |-> "corrupt", gen |-> head.gen, hash |-> head.hash,
            entries |-> NoEntries]

ExpiredKeys(es) == {k \in Held(es) : es[k].expires <= now}

\* Mutant: the recovery takes deliveries in flight for its own.
RecoveredKeepsInflight(es) ==
    [k \in Keys |->
        LET t == LogicalUpdatedAt(es[k], now) IN
        IF k \in ExpiredKeys(es) THEN NoEntry
        ELSE IF es[k].phase \in {"none", "completed"} THEN es[k]
        ELSE [es[k] EXCEPT !.recovered = t, !.updated = t]]

\* _recover_after_restart: what a fresh process makes of the entries it finds.
Recovered(es) ==
    [k \in Keys |->
        LET e == es[k]
            t == LogicalUpdatedAt(e, now) IN
        IF k \in ExpiredKeys(es) THEN NoEntry
        ELSE IF e.phase \in {"none", "completed"} THEN e
        ELSE [e EXCEPT
                !.phase = IF e.phase = "delivery_inflight"
                          THEN "delivery_ambiguous" ELSE e.phase,
                !.err = IF e.phase = "delivery_inflight"
                        THEN "delivery_ambiguous_after_restart" ELSE e.err,
                !.recovered = IF e.recovered = 0 THEN t ELSE e.recovered,
                !.updated = t]]

-----------------------------------------------------------------------------
(* Process life cycle *)

\* The process dies, and its purge fence with it.  A death in the middle of a
\* write is a failed write followed by this step.
Crash ==
    /\ mem.state # "down"
    /\ mem' = DownMem
    /\ owner' = "closed"
    /\ ours' = {}
    /\ fenced' = {}
    /\ UNCHANGED <<file, head, now, writes, faults, started>>

\* The constructor's _load: bootstrap two missing files; reject a broken
\* chain; otherwise bring the head up to the journal, adopt the entries and
\* run the restart recovery, whose write may fail or be refused.
Load ==
    \/ /\ file.gen = 0 /\ head.gen = 0
       /\ WriteScoped([DownMem EXCEPT !.state = "ready"], head, NoEntries, NoEntries)
    \/ /\ Loadable
       /\ IF Recovered(file.entries) = file.entries
          THEN /\ mem' = Adopted /\ head' = HeadOf(file)
               /\ UNCHANGED <<file, writes, faults>>
          ELSE IF Writable(Recovered(file.entries))
          THEN WriteScoped(Adopted, HeadOf(file), Recovered(file.entries),
                           Recovered(file.entries))
          ELSE /\ mem' = Corrupt /\ head' = HeadOf(file)
               /\ UNCHANGED <<file, writes, faults>>
    \/ /\ ~Loadable /\ ~(file.gen = 0 /\ head.gen = 0)
       /\ mem' = Corrupt
       /\ UNCHANGED <<file, head, writes, faults>>
    \/ /\ faults < MaxFaults      \* a read, or the write of a lagging head, raises
       /\ faults' = faults + 1
       /\ mem' = [DownMem EXCEPT !.state = "error"]
       /\ head' \in {head} \cup {h \in {HeadOf(file)} : Loadable /\ ChainLags}
       /\ UNCHANGED <<file, writes>>

\* activate_after_continuity_restore builds the journal and goes on only if
\* the load ended ready: it repeats the guild resets that were cut short
\* ("resetting", ResetGuild), then completes the turns that were delivered but
\* not committed ("reconciling", BeginTerminalCommit and Complete), then opens.
\* An exception out of it ends the process.
OwnerStates == {"closed", "resetting", "reconciling", "open"}

Start ==
    /\ mem.state = "down"
    /\ Load
    /\ owner' = IF mem'.state = "ready" THEN "resetting" ELSE "closed"
    /\ Track(ExpiredKeys(file.entries), {})
    /\ UNCHANGED <<now, fenced, ours>>

Reconcile ==
    /\ owner = "resetting" /\ mem.state = "ready"
    /\ owner' = "reconciling"
    /\ UNCHANGED <<mem, file, head, now, writes, fenced, faults, started, ours>>

\* The end of _reconcile_recovered_records: the journal stays closed when one
\* of the delivered turns was not completed, or its completion raised.
Open ==
    LET left == {k \in Keys : mem.entries[k].phase \in
                                {"delivery_succeeded", "terminal_committing"}} IN
    /\ owner = "reconciling"
    /\ \/ /\ mem.state = "ready" /\ left = {}
          /\ owner' = "open"
       \/ /\ left # {} \/ \E k \in Keys : mem.entries[k].phase = "completed"
          /\ owner' = "closed"
    /\ UNCHANGED <<mem, file, head, now, writes, fenced, faults, started, ours>>

\* _require_ready in the error state: load again, without the restart
\* recovery, because the deliveries in flight are this process's own.
Reload ==
    /\ owner \in {"reconciling", "open"} /\ mem.state = "error"
    /\ \/ /\ Loadable
          /\ mem' = Adopted /\ head' = HeadOf(file)
          /\ UNCHANGED faults
       \/ /\ ~Loadable
          /\ mem' = Corrupt
          /\ UNCHANGED <<head, faults>>
       \/ /\ Loadable /\ ChainLags
          /\ faults < MaxFaults /\ faults' = faults + 1
          /\ head' \in {head, HeadOf(file)}
          /\ UNCHANGED mem
    /\ UNCHANGED <<file, now, writes, owner, fenced, started, ours>>

\* The wall clock moves, forward or back.
Tick ==
    /\ now' \in (1..MaxTime) \ {now}
    /\ UNCHANGED <<mem, file, head, writes, owner, fenced, faults, started, ours>>

\* A deletion freezes a lineage before it purges it, and the lineage stays
\* blocked until the process exits.
Freeze(t) ==
    /\ mem.state # "down" /\ owner \in {"closed", "open"}
    /\ t \notin fenced
    /\ fenced' = fenced \cup {t}
    /\ UNCHANGED <<mem, file, head, now, writes, owner, faults, started, ours>>

-----------------------------------------------------------------------------
(* Operations.  All of them find the journal ready and nothing expired. *)

Prepared ==
    /\ mem.state = "ready"
    /\ ExpiredKeys(mem.entries) = {}
    /\ writes < MaxWrites

\* _ready_journal: callers get the journal once it is open.
MayOperate == owner = "open" /\ Prepared

\* _write after a mutation that the caller undoes in memory if it raises.
Persist(es) == Writable(es) /\ WriteScoped(mem, head, es, mem.entries)

\* _mutate_and_write of one entry.
Mutate(k, e) ==
    Persist([mem.entries EXCEPT ![k] =
        [e EXCEPT !.updated =
            LogicalUpdatedAt(e, Greater(now, mem.entries[k].updated))]])

Without(es, dropped) == [k \in Keys |-> IF k \in dropped THEN NoEntry ELSE es[k]]

\* _prune_expired, at the start of every operation; the reads (receipt_for,
\* record_for, recovery_records) do nothing else.
PruneExpired ==
    /\ owner # "closed" /\ mem.state = "ready"
    /\ ExpiredKeys(mem.entries) # {}
    /\ Persist(Without(mem.entries, ExpiredKeys(mem.entries)))
    /\ Track(ExpiredKeys(mem.entries), {})
    /\ UNCHANGED <<now, owner, fenced, ours>>

\* Mutant: the oldest entry goes, whatever its phase.
EvictionsOldest(es) ==
    IF Cardinality(Held(es)) < MaxEntries THEN {{}}
    ELSE {{j} : j \in {i \in Held(es) :
                         \A o \in Held(es) : es[i].updated <= es[o].updated}}

\* Admission of a new key: below max_entries nothing is evicted; at the limit
\* the completed entry updated longest ago goes (ties break by entry id, a
\* hash), and without a completed entry the admission fails.
Evictions(es) ==
    IF Cardinality(Held(es)) < MaxEntries THEN {{}}
    ELSE LET done == {j \in Keys : es[j].phase = "completed"} IN
         {{j} : j \in {i \in done : \A o \in done : es[i].updated <= es[o].updated}}

Admit(k, e) ==
    \E victims \in Evictions(mem.entries) :
        Persist([Without(mem.entries, victims) EXCEPT ![k] = e])

FreshEntry(phase, turn, text, ref, ttl) ==
    [phase |-> phase, turn |-> turn, text |-> text, reply |-> None, ref |-> ref,
     cgen |-> 0, created |-> now, updated |-> now, expires |-> now + ttl,
     recovered |-> 0, err |-> "none"]

\* reserve_ingress: a new key, or the same reservation renewed.
ReserveIngress(k, text, turn, ref, ttl) ==
    LET e == FreshEntry("reserved", turn, text, ref, ttl) IN
    /\ MayOperate
    /\ \/ mem.entries[k] = NoEntry /\ Admit(k, e)
       \/ /\ mem.entries[k].phase = "reserved"
          /\ mem.entries[k].text = text /\ mem.entries[k].turn = turn
          /\ Persist([mem.entries EXCEPT ![k] = e])
    /\ UNCHANGED <<now, owner, fenced, started, ours>>

\* claim_reserved_ingress: the exact reservation becomes accepted ingress.
ClaimReservedIngress(k, text, turn, ref) ==
    LET e == mem.entries[k] IN
    /\ MayOperate
    /\ e.phase = "reserved" /\ e.text = text /\ e.turn = turn /\ e.ref = ref
    /\ Mutate(k, [e EXCEPT !.phase = "accepted", !.created = now,
                           !.updated = now, !.expires = now + MaxAge,
                           !.recovered = 0])
    /\ Track({}, {k})
    /\ UNCHANGED <<now, owner, fenced, ours>>

\* Mutant: a completed entry is claimed like an absent one.
ClaimCompletedAgain(k, text, turn) ==
    /\ MayOperate
    /\ mem.entries[k].phase \in {"none", "completed"}
    /\ Persist([mem.entries EXCEPT ![k] =
                  FreshEntry("accepted", turn, text, None, MaxAge)])
    /\ Track({}, {k})
    /\ UNCHANGED <<now, owner, fenced, ours>>

\* claim: the first durable claim of a key is told to process; a key that has
\* an entry is answered from it.
Claim(k, text, turn) ==
    /\ MayOperate
    /\ mem.entries[k] = NoEntry
    /\ Admit(k, FreshEntry("accepted", turn, text, None, MaxAge))
    /\ Track({}, {k})
    /\ UNCHANGED <<now, owner, fenced, ours>>

\* mark_response_ready
MarkResponseReady(k, reply) ==
    /\ MayOperate
    /\ mem.entries[k].phase = "accepted"
    /\ Mutate(k, [mem.entries[k] EXCEPT !.phase = "response_ready",
                                        !.reply = reply, !.err = "none"])
    /\ UNCHANGED <<now, owner, fenced, started, ours>>

\* Mutant: a second reply replaces the bound one.
BindResponseAgain(k, reply) ==
    /\ MayOperate
    /\ mem.entries[k].phase \in {"accepted", "delivery_inflight", "delivery_ambiguous"}
    /\ Mutate(k, [mem.entries[k] EXCEPT !.reply = reply,
                    !.phase = IF mem.entries[k].phase = "accepted"
                              THEN "response_ready" ELSE mem.entries[k].phase])
    /\ UNCHANGED <<now, owner, fenced, started, ours>>

\* bind_response: the final text of a streamed answer; delivery state is kept.
BindResponse(k, reply) ==
    LET e == mem.entries[k] IN
    /\ MayOperate
    /\ e.reply = None
    /\ e.phase \in {"accepted", "delivery_inflight", "delivery_ambiguous"}
    /\ Mutate(k, [e EXCEPT !.phase = IF e.phase = "accepted"
                                     THEN "response_ready" ELSE e.phase,
                           !.reply = reply])
    /\ UNCHANGED <<now, owner, fenced, started, ours>>

\* mark_delivery_inflight, and mark_stream_delivery_inflight, which may also
\* run before the response is bound.
MarkDeliveryInflight(k, ref) ==
    /\ MayOperate
    /\ mem.entries[k].phase \in {"accepted", "response_ready"}
    /\ Mutate(k, [mem.entries[k] EXCEPT !.phase = "delivery_inflight",
                                        !.ref = ref, !.err = "none"])
    /\ ours' = ours \cup {k}
    /\ UNCHANGED <<now, owner, fenced, started>>

\* mark_delivery_succeeded: positive delivery evidence for a bound response.
MarkDeliverySucceeded(k, ref) ==
    LET e == mem.entries[k] IN
    /\ MayOperate
    /\ e.phase \in {"delivery_inflight", "delivery_ambiguous"}
    /\ e.reply # None
    /\ ref = None \/ e.ref = None \/ e.ref = ref
    /\ Mutate(k, [e EXCEPT !.phase = "delivery_succeeded",
                           !.ref = IF ref = None THEN e.ref ELSE ref,
                           !.err = "none"])
    /\ UNCHANGED <<now, owner, fenced, started, ours>>

\* Mutant: the caller's code is replaced by what the entry happens to hold.
MarkDeliveryAmbiguousRaw(k, code) ==
    /\ MayOperate
    /\ mem.entries[k].phase = "delivery_inflight"
    /\ Mutate(k, [mem.entries[k] EXCEPT !.phase = "delivery_ambiguous",
                                        !.err = mem.entries[k].phase])
    /\ UNCHANGED <<now, owner, fenced, started, ours>>

\* mark_delivery_ambiguous
MarkDeliveryAmbiguous(k, code) ==
    /\ MayOperate
    /\ mem.entries[k].phase = "delivery_inflight"
    /\ Mutate(k, [mem.entries[k] EXCEPT !.phase = "delivery_ambiguous",
                                        !.err = code])
    /\ UNCHANGED <<now, owner, fenced, started, ours>>

\* begin_terminal_commit: the continuity generation the checkpoint will have.
BeginTerminalCommit(k, gen) ==
    /\ owner \in {"reconciling", "open"} /\ Prepared
    /\ mem.entries[k].phase = "delivery_succeeded"
    /\ Mutate(k, [mem.entries[k] EXCEPT !.phase = "terminal_committing",
                                        !.cgen = gen])
    /\ UNCHANGED <<now, owner, fenced, started, ours>>

\* complete
Complete(k, gen) ==
    /\ owner \in {"reconciling", "open"} /\ Prepared
    /\ mem.entries[k].phase = "terminal_committing"
    /\ mem.entries[k].cgen = gen
    /\ Mutate(k, [mem.entries[k] EXCEPT !.phase = "completed", !.err = "none"])
    /\ UNCHANGED <<now, owner, fenced, started, ours>>

\* Deliberate deletion of a set of entries, in one write.
Delete(dropped) ==
    /\ Prepared
    /\ dropped # {}
    /\ Persist(Without(mem.entries, dropped))
    /\ Track(dropped, {})
    /\ UNCHANGED <<now, owner, fenced, ours>>

\* discard_ambiguous: one exact abandoned delivery.
DiscardAmbiguous(k, ref, code) ==
    /\ MayOperate
    /\ mem.entries[k].phase = "delivery_ambiguous"
    /\ mem.entries[k].ref = ref /\ mem.entries[k].err = code
    /\ Delete({k})

\* revoke_reserved_ingress_batch: all of the named reservations or none.
RevokeReservedBatch(batch) ==
    /\ MayOperate
    /\ \A k \in batch : mem.entries[k].phase = "reserved"
    /\ Delete(batch)

\* revoke_reserved_ingress_scope
RevokeReservedScope(scope) ==
    /\ MayOperate
    /\ Delete({k \in Keys : ScopeOf[k] = scope /\ mem.entries[k].phase = "reserved"})

\* reset_guild: every phase of the guild's entries, for a caller or to repeat
\* a reset before the journal opens.
ResetGuild(scope) ==
    /\ owner \in {"resetting", "open"}
    /\ Delete({k \in Held(mem.entries) : ScopeOf[k] = scope})

\* Mutant: the purge does not wait for the fence.
PurgeExactLineageUnfenced(t) ==
    LET dropped == {k \in Keys : Matches(k, mem.entries[k], t)}
        f == NextFile(mem, Without(mem.entries, dropped)) IN
    /\ owner = "open" /\ mem.state = "ready" /\ mem.entries = file.entries
    /\ dropped # {} /\ faults < MaxFaults /\ faults' = faults + 1
    /\ mem' = [mem EXCEPT !.gen = f.gen, !.hash = f.hash]
    /\ file' = f /\ head' = HeadOf(f) /\ writes' = writes + 1
    /\ Track(dropped, {})
    /\ UNCHANGED <<now, owner, fenced, ours>>

\* purge_exact_lineage: the deletion removes a fenced lineage, a turn's entries
\* or a whole session's.  It checks memory against both files first, prunes
\* nothing, and is the one write that does not ask for the fence.  Then it
\* reads the files back; when that read fails after the write has succeeded,
\* it puts the removed entries back into memory and the journal stays ready.
PurgeExactLineage(t) ==
    LET dropped == {k \in Keys : Matches(k, mem.entries[k], t)}
        es == Without(mem.entries, dropped)
        f == NextFile(mem, es) IN
    /\ owner = "open" /\ mem.state = "ready" /\ t \in fenced
    /\ ChainCurrent /\ mem.gen = file.gen /\ mem.hash = file.hash
    /\ mem.entries = file.entries
    /\ dropped # {}
    /\ Bytes(es) <= MaxBytes
    /\ \/ WriteScoped(mem, head, es, mem.entries)
       \/ /\ faults < MaxFaults
          /\ faults' = faults + 1
          /\ mem' = [mem EXCEPT !.gen = f.gen, !.hash = f.hash]
          /\ file' = f /\ head' = HeadOf(f) /\ writes' = writes + 1
    /\ Track(dropped, {})
    /\ UNCHANGED <<now, owner, fenced, ours>>

-----------------------------------------------------------------------------

Init ==
    /\ mem = DownMem /\ file = NoFile /\ head = NoHead
    /\ now = 1 /\ writes = 0 /\ owner = "closed" /\ fenced = {} /\ faults = 0
    /\ started = [k \in Keys |-> 0]
    /\ ours = {}

Lifecycle ==
    \/ Crash \/ Start \/ Reconcile \/ Open \/ Reload \/ Tick
    \/ \E t \in Lineages : Freeze(t)

Ingress(k) ==
    \/ \E text \in Texts, turn \in Turns : Claim(k, text, turn)
    \/ \E text \in Texts, turn \in Turns, ref \in Refs, ttl \in 1..MaxAge :
          ReserveIngress(k, text, turn, ref, ttl)
    \/ \E text \in Texts, turn \in Turns, ref \in Refs :
          ClaimReservedIngress(k, text, turn, ref)

Delivery(k) ==
    \/ \E reply \in Replies : MarkResponseReady(k, reply) \/ BindResponse(k, reply)
    \/ \E ref \in Refs \cup {None} :
          MarkDeliveryInflight(k, ref) \/ MarkDeliverySucceeded(k, ref)
    \/ \E code \in Codes : MarkDeliveryAmbiguous(k, code)
    \/ \E gen \in 1..MaxCommit : BeginTerminalCommit(k, gen) \/ Complete(k, gen)

Deletion ==
    \/ PruneExpired
    \/ \E k \in Keys, ref \in Refs, code \in Codes : DiscardAmbiguous(k, ref, code)
    \/ \E batch \in SUBSET Keys : RevokeReservedBatch(batch)
    \/ \E scope \in Scopes : RevokeReservedScope(scope) \/ ResetGuild(scope)
    \/ \E t \in Lineages : PurgeExactLineage(t)

Next == Lifecycle \/ (\E k \in Keys : Ingress(k) \/ Delivery(k)) \/ Deletion

Spec == Init /\ [][Next]_vars

-----------------------------------------------------------------------------
(* Properties *)

\* Type invariant.
TypeOK ==
    /\ mem \in [state : States, gen : Nat, hash : Nat, entries : [Keys -> Entry]]
    /\ file \in [gen : Nat, prev : Nat, hash : Nat, entries : [Keys -> Entry]]
    /\ head \in [gen : Nat, hash : Nat]
    /\ now \in Nat \ {0} /\ writes \in Nat /\ faults \in Nat
    /\ owner \in OwnerStates /\ fenced \in SUBSET Lineages /\ ours \in SUBSET Keys
    /\ started \in [Keys -> Nat]

\* What the journal's own crashes, failed writes, clock jumps and operations
\* leave on disk can always be loaded: two missing files, or a chain at or one
\* link ahead of its head whose payload passes validation.
DiskIsLoadable == (file.gen = 0 /\ head.gen = 0) \/ Loadable

\* A ready journal answers receipts with durable = TRUE from memory: its
\* memory is what both files hold, apart from entries of a fenced lineage that
\* the disk has already lost.
ReadyIsDurable ==
    mem.state = "ready" =>
        /\ file.gen > 0 /\ ChainCurrent
        /\ mem.gen = file.gen /\ mem.hash = file.hash
        /\ \A k \in Keys :
              \/ mem.entries[k] = file.entries[k]
              \/ Fenced(k, mem.entries[k]) /\ file.entries[k] = NoEntry

\* An owner never mistakes a delivery it inherited from a dead process for one
\* it is making: while it works, a delivery in flight is one it began.
InflightIsOurs ==
    owner # "closed" /\ mem.state = "ready" =>
        \A k \in Keys : mem.entries[k].phase = "delivery_inflight" => k \in ours

\* The class docstring's and the contract's at-most-once rule: until a source
\* delivery expires or is deliberately deleted, it is told to process once.
OneExecution == \A k \in Keys : started[k] <= 1

\* A claim never answers shouldProcess for a key whose ingress the disk already
\* holds beyond a reservation, and the answer is given only once the disk holds
\* it as accepted.
GrantIsFirstDurable ==
    [][\A k \in Keys : started'[k] > started[k] =>
          /\ file.entries[k].phase \in {"none", "reserved"}
          /\ file'.entries[k].phase = "accepted" /\ head' = HeadOf(file')]_vars

Rank == [none |-> 0, reserved |-> 1, accepted |-> 2, response_ready |-> 3,
         delivery_inflight |-> 4, delivery_ambiguous |-> 5,
         delivery_succeeded |-> 6, terminal_committing |-> 7, completed |-> 8]

\* What the disk says of a delivery only gains knowledge, through every crash,
\* repair and reload: an entry it keeps never moves back, and its accepted
\* text, bound reply and continuity generation never change.
DurableTruthIsKept ==
    [][\A k \in Keys :
          LET e == file.entries[k]
              f == file'.entries[k] IN
          e.phase # "none" /\ f.phase # "none" =>
              /\ Rank[f.phase] >= Rank[e.phase]
              /\ f.text = e.text /\ f.turn = e.turn
              /\ e.reply # None => f.reply = e.reply
              /\ e.cgen > 0 => f.cgen = e.cgen]_vars

\* The journal implements DeliveryLedger, the durable rows its owner relies on:
\* a row is what the journal file says of a delivery.
Ledger == INSTANCE DeliveryLedger
            WITH Deliveries <- Keys, Unbound <- None,
                 row <- [k \in Keys |-> [phase |-> file.entries[k].phase,
                                         reply |-> file.entries[k].reply,
                                         gen |-> file.entries[k].cgen]]
ImplementsLedger == Ledger!Spec

\* At capacity only completed entries make room: a step that puts a new key on
\* disk leaves every pending or reserved entry as it was.
AdmissionKeepsPending ==
    [][(\E j \in Keys : file.entries[j] = NoEntry /\ file'.entries[j] # NoEntry) =>
          \A k \in Keys : file.entries[k].phase \notin {"none", "completed"} =>
              file'.entries[k] = file.entries[k]]_vars

\* A load declares the journal corrupt only when the restart recovery has made
\* the entries too large to write; the journal's own faults never do it.
CorruptOnlyIfTooLarge ==
    [][mem'.state = "corrupt" /\ mem.state # "corrupt" =>
          ~(Bytes(Recovered(file.entries)) <= MaxBytes)]_vars

\* Once a deletion has fenced a lineage and the disk holds nothing of it, no
\* later claim, retry, reload or recovery of the journal puts it back.
FencedNeverReappears ==
    [][\A t \in fenced :
          (\A k \in Keys : ~Matches(k, file.entries[k], t)) =>
              (\A k \in Keys : ~Matches(k, file'.entries[k], t))]_vars

\* "Atomically remove only rows selected by exact raw lineage": a purge removes
\* its rows from the journal, or from neither memory nor disk.
PurgeIsAtomic == mem.state = "ready" => mem.entries = file.entries
====
