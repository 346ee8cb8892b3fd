# Formal verification of Evelyn

TLA+ models of the parts of Evelyn that must be right across crashes, failed
writes, timeouts and concurrent callers; TLC runs that check them on small
instances; and TLAPS proofs of the most important results for every instance.

Evelyn is a Windows-first local assistant runtime in Python. Its core is
`evelyn_core/runtime/evelyn_core/`; all file names below are in that directory
unless a path is given.

## 1. Inventory

| Component | State | Operations | Hard behaviour | What makes it correct |
|---|---|---|---|---|
| Conversation ingress journal (`conversation_ingress_recovery.py`) | entries by source delivery; a hash-chained journal file and a head file; generation, hash, state | load, restart recovery, reserve, claim, bind, delivery marks, terminal commit, complete, revoke, discard, reset, purge, prune | two-file writes, crash between them, writes that fail after taking effect, wall clock, capacity | at most one execution per delivery; disk always loadable; delivery evidence never lost |
| Ingress owner (`conversation_ingress_composition.py`) | owner ready, journal, guild epochs, blocked guilds | activate, claim per surface, reset guild, reconcile, purge lineage | order of activation; reset against turns in progress | nobody uses the journal before it is reconciled; a reset guild's turn writes nothing |
| Archive purge fence (`conversation_archive_process_purge.py`, `..._process_composition.py`) | frozen work orders, retired handles | freeze, purge sinks, retire | deletion against late producers; process-local state | what is deleted does not come back |
| Killable artifact process (`durable_artifact_process.py`, `durable_artifact_worker.py`) | child process, sequence, pending temporaries, blocked flag; the files | read, write, unlink, sync, target check, close | hung or unkillable child, late effect of an abandoned request, power loss | callers see atomic files; every call returns |
| Artifact I/O (`runtime_artifact_io.py`) | scoped process and deadline | read, write, unlink | fallback in process | same promise as the artifact process |
| Session continuity (`session_continuity.py`, `continuity_commit_contract.py`) | checkpoint, head, guild revocations and status files; generation, last signature | restore, flush, commit of a completed turn, guild reset, chain revocation | commit against reset and flush, crash between any two of its writes | a committed turn survives a restart; a reset or replaced turn never returns |
| Ingress restart runtime (`conversation_ingress_restart_runtime.py`) | none of its own | verify or recommit delivered turns, roll back | crash between checkpoint and journal | one history turn per delivery |
| Discord text turn (`discord_text_turn.py`, `discord_text_reply_runtime.py`) | the turn's phase | claim, generate, bind, deliver, confirm, commit, complete | cancellation while a worker thread runs, sends that raise after their effect | one reply at most, and the handler ends |
| Session store and guild reset (`session_memory_state.py`, `guild_runtime_reset.py`) | turn id and history of each session | begin and finish a turn, reset a guild | reset on the event loop while worker threads go on | nothing of a reset guild returns |
| Fast control (`fast_control_api.py`, `fast_control_continuity.py`) | request cache, continuity, bridge status and microphone command | HTTP handlers | repeated requests, reports out of date | as above, for HTTP |
| Local I/O bridge (`local_io_bridge.py`) | the capture, the last command, its own instance | apply a microphone command, report, watchdog | commands superseded while they are applied | stops when told or when consent is gone |
| Voice input lease (`voice_input_lease.py`, handlers in `fast_control_api.py`) | the durable lease (bootstrap, unowned, owned, blocked), retirement claims, the last bridge report and Discord heartbeat; the Discord client's lease and tokens | observe, acquire, release, retire; retry of failed releases | three processes that restart, late reports, requests given up and served all the same | whoever captures holds the lease; it comes back |
| Voice admission and consent (`local_voice_admission.py`, `voice_capture_consent.py`) | admissions, consent | admit, revoke | revocation against capture | no capture without consent |
| Minecraft world lease (`minecraft_world_lease*.py`) | lease, delegation, epoch, remote state | acquire, delegate, renew, fence | network between host and remote | one writer of a world |
| Memory deletion (`memory_deletion_journal.py`, `memory_provenance_correction.py`, `memory_vault.py`, `memory_writebehind.py`) | deletion journal, vault, queue | request, apply per sink, acknowledge | crash between sinks | a deletion finishes and stays |
| Conversation archive (`conversation_archive*.py`) | encrypted store, purge requests | append, purge, admin | retry of retired events | purged events are not archived again |
| Autonomy authorization (`autonomy_authorization.py`, `autonomy.py`) | grants | issue, consume, expire | reuse, expiry | a grant is used once |
| Action, search and task recovery (`fast_action_recovery.py`, `search_followup_*.py`, `task_loop_runtime.py`, `task_approval_runtime.py`) | journals | as the ingress journal | effects and crashes | no effect twice |
| LLM admission (`main_llm_admission_gateway.py`, `mindcraft_llm_broker.py`) | queue, running request | admit, cancel | priority, timeouts | one user of the model |
| Speech output (`tts_playback.py`, `tts_interrupt_runtime.py`, `voice_barge_in.py`, `voice_orchestration.py`) | playback queue | play, interrupt | barge-in against playback | an interrupted utterance stops |
| Supervision, UI actions, control page, voice client, `main.py` | | | | mostly I/O and wiring |

How they interact. A surface (Discord text, voice, HTTP) claims its source
delivery in the ingress journal before it runs the model or a tool, marks the
delivery's progress there, commits the turn to the session checkpoint and
completes the journal entry. The journal writes its two files through the
artifact process. A guild reset or an archive deletion removes entries; the
purge fence, asked before every journal write, keeps a deleted lineage out. At
start `main.py` restores continuity, then activates the ingress owner, which
loads the journal, repeats interrupted resets, reconciles delivered turns and
only then opens the journal to the surfaces.

## 2. Modules

### IngressJournal (`MCIngressJournal`, `IngressJournalProofs`)

| TLA+ | Code |
|---|---|
| `mem` | `_state`, `_generation`, `_journal_hash`, `_entries` |
| `file`, `head` | the journal and head files; `hash` is the number of the write that made it |
| `owner` | how far `activate_after_continuity_restore` has come |
| `fenced` | lineages (turns, sessions) the purge fence blocks |
| `now` | `wall_time()`, which may jump either way |
| `started`, `ours` | history: execution grants per delivery; deliveries this process began |
| `WriteScoped` | `_write_scoped`: journal, then head, then memory; a failure after any prefix |
| `Load`, `Recovered`, `Reload` | `_load_scoped`, `_recover_after_restart`, `_require_ready` in the error state |
| `Start`, `Reconcile`, `ResetGuild`, `Open` | the activation |
| one action per method | `claim`, `reserve_ingress`, `claim_reserved_ingress`, `mark_*`, `bind_response`, `begin_terminal_commit`, `complete`, `discard_ambiguous`, `revoke_*`, `reset_guild`, `purge_exact_lineage` |

Every operation begins with `_require_ready` and `_prune_expired`. These are the
actions `Reload` and `PruneExpired`; the other actions are enabled only where
both would do nothing, because a crash can fall between an operation's two
writes. A method that raises before it writes changes nothing and is no action.

Abstractions: texts and replies are model values (the code compares hashes); an
entry's size is a weight of the parts that grow; JSON and hash verification are
what they accept; `mark_stream_delivery_inflight` and `mark_delivery_inflight`
are one action. The guild epochs with which the owner rejects turns of a reset
guild are not modelled: the model allows more calls than the owner does.
An activation that raises ends the process in the code (`main.py` calls it at
module level); in the model it may also leave the owner closed.

### ArtifactProcess implements AtomicArtifact (`MCArtifactProcess`, `ArtifactProcessProofs`)

`ArtifactProcess` has the owner (one call at a time under its lock, as a
sequence of stages: cleanup, main, and after a failed write tidy, reread, sync)
and its children (one action per file-system effect). `kept[p]` is the set of
contents path `p` may have after a power loss; a sync makes it a singleton.
`AtomicArtifact` is the promise: a failed mutation may take effect late, but is
settled before anything else happens to a file and before any call succeeds, and
a durable write that succeeded survives a power loss. The refinement mapping
takes files to values and the one mutation a live child may still carry out to
`inflight`.

Assumptions: the child of a dead owner is dead before the next owner starts
(parent watcher, `PDEATHSIG`); a non-durable write is not torn by a power loss;
`rename` is atomic.

### SessionCheckpoint implements RestorableSessions (`MCSessionCheckpoint`, `SessionCheckpointProofs`)

`SessionCheckpoint` has the four files of `session_continuity.py` (`file`,
`head`, `revs`, `status`), the checkpoint object's fields (`mem`), and the
operation that holds the lock (`op`), which takes one action per disk access.
A write may fail before or after its effect. The event loop begins new turns
while a worker thread flushes. A session is the number of its current turn, and
a payload's hash is its `savedAt` stamp. `keyed` is `authenticity.configured`,
chosen in `Init`: it changes what a restart accepts and how a chain is revoked.
`RestorableSessions` is the promise, without files or generations: what a
restart would restore for a session stays, is lost, or moves to a later turn;
after a reset nothing older than the reset is restored again.

### IngressTurn composes journal, checkpoint, handlers, reset and restart (`MCIngressTurn`, `IngressTurnProofs`, `CompletedTurnProofs`)

| TLA+ | Code |
|---|---|
| `led` | the journal as its owner sees it, one row per source delivery; keeps the promise of `DeliveryLedger`, which `IngressJournal` is proved to implement |
| `ck`, `revoked`, `saved` | the checkpoint: generation, sessions and a revoked file that could not be removed (`left`); guild revocations; `_last_signature` |
| `store` | turn id and history of each session |
| `owner`, `epoch`, `blocked` | `ConversationIngressComposition`: readiness, `_guild_epochs`, `_blocked_guild_ids` |
| `turn` | how far the handler of each message is, and whether it is cancelled |
| `lock` | the holder of the checkpoint lock |
| `todo`, `fixing` | the restart reconciliation |
| `Deliver` ... `CompleteTurn`, `Abandon` | `handle_discord_text_message` from admission to completion |
| `StartReset`, `ResetRuntime`, `ResetFlush`, `FinishReset`, `RecoverReset` | `reset_guild_runtime_state` and the resets a restart repeats |
| `Start`, `Revive`, `StartReconciling`, `Reconcile*`, `Open` | `restore`, `activate_after_continuity_restore` and the restart runtime |

Journal operations run in worker threads, which a cancellation does not stop:
they stay enabled while a reset holds the event loop, the handler's own steps do
not. A journal operation or a send may raise before or after its effect.
`DeliveryLedger` says what a row may do: be forgotten as a whole, or gain
knowledge. Both `IngressTurn` and `IngressJournal` are proved to keep it.

Abstractions: generation, streaming, archive and read-out are one step that may
fail; the two rows of a text turn are one element of the history, since the text
path appends them together. The checkpoint's two-file protocol, which
`SessionCheckpoint` has in full, is reduced to how a flush can end (`FlushEnds`):
saved; nothing to save, but the old file stays (`spared`); raised with the file
written (`late`) or not (`kept`); raised with the chain revoked, and the file gone
(`dropped`) or still there (`left`). A start may revoke the chain in the same two
ways. `Revive` then lets the file that is left be taken for good again: in the
code that needs a revocation that loses its head, here one failure and a death are
enough. Every write of a guild's revocation may fail before or after its effect:
where a reset begins, where it ends, and where a start repeats it (that ends the
process). An empty head counts on from the generation before it, also where the
code has lost that head and counts from 0.

### VoiceInputLease (`MCVoiceInputLease`, `VoiceInputLeaseProofs`)

| TLA+ | Code |
|---|---|
| `file`, `mem`, `failed`, `claims` | `VoiceInputLeaseManager`: `owner.json`, the lease in memory, `_persistence_failed`, `_retirement_claims` |
| `bst`, `req`, `wait` | `LOCAL_BRIDGE_STATUS`, `LOCAL_BRIDGE_MIC_CONTROL_REQUEST`, the revision the microphone handler waits for |
| `wire`, `cl` | lease requests not yet served; `DiscordVoiceInputLeaseClient` with the call that holds its lock |
| `disc`, `lis`, `dst` | the Discord process, its listeners, its status file |
| `br` | the Local Bridge: microphone, last command applied, commands received |
| `Acquire`, `Release`, `ReleaseIfInactive`, `ObserveLocked` | the manager's methods, as the leases they commit one after the other and the answer |
| `Commit` | `_commit`: any of these writes may raise, before or after its effect, and then shuts the manager |
| `ServeNext` | `voice_input_lease_handler` under the FIFO transition lock |
| `AskAcquire`, `Acquired`, `ReleaseToken`, `Released`, `Retry`, `RetryAcquired`, `Cancel`, `TimeOut` | the client: its methods up to and after their request, the retry task, the shielded request |
| `LocalOn`, `LocalOff`, `FinishOff`, `FinishFailedOn`, `HandlerEnds`, `Report` | the microphone and bridge status handlers |
| `StartCapture`, `FinishCommand`, `WatchdogStops` | the bridge's commands and its consent watchdog; a stop that fails leaves the microphone on in a bridge that is about to exit (`br.st = "stuck"`) |
| `PrepareRetirement`, `AttestStopped`, `CompleteRetirement`, `ExpireClaim` | the control page retires the lease of a stopped Discord process |
| `DiscordStops`, `DiscordStarts`, `BridgeRestarts`, `BotRestarts` | the processes |

What the Bot API observes is a nondeterministic choice: the last report or
heartbeat, or `unknown`, since either may be too old. A heartbeat is written by a
thread, so it may show the listeners as they were (`MaxLate` bounds these).

Abstractions: a bridge report and its answer are one step, and commands reach
the bridge only in that answer; `LocalOn` is one step because the code acquires
and publishes under one lock behind the enable fence (so the path that gives the
lease back because the command could not be published is never taken); the control page sends one
command at a time (`VOICE_CAPTURE_CONSENT_LOCK`, and it waits longer than the
handler does), so one `wait` is enough; the first status write of `on_ready`
succeeds; an unreadable or invalid lease file is one case. Instances and lease
ids are numbers in the order in which they are made.

## 3. Runs

| Run | Checks | Instance |
|---|---|---|
| lifecycle | `TypeOK`, `DiskIsLoadable`, `ReadyIsDurable`, `InflightIsOurs`, `OneExecution`, `GrantIsFirstDurable`, `DurableTruthIsKept` | 2 deliveries, 2 replies, 8 writes, 2 faults; crashes at any point |
| deletion | `CorruptOnlyIfTooLarge`, `FencedNeverReappears`, `AdmissionKeepsPending`, `ReadyIsDurable`, `DiskIsLoadable` | 2 deliveries of 2 sessions for 1 entry, clock of 3 values that jumps both ways, 4 units of size, deletion of a turn and of a session, 1 fault |
| purge | `PurgeIsAtomic` is violated | 2 deliveries, 1 fault |
| calls | `TypeOK`, `OneLiveWorker`, `AnswerStands`, `TemporariesCleaned`, `AtomicFiles`, `EveryCallReturns` | 2 paths, 1 value, 2 process ids, 4 requests, 2 faults |
| checkpoint | `TypeOK`, `CrashKeepsCommits`, `ImplementsMemory` | 2 sessions of 2 guilds, 2 turns, 3 writes of file or head, 1 crash, 2 faults, keyed and unkeyed |
| revival | `ResetStays` is violated | as above, 1 turn |
| receipt | `ReceiptNamesItsCommit` is violated | 2 turns, 4 writes of file or head, no fault and no crash |
| turns | `TypeOK`, `OneReply`, `NoTurnTwice`, `ResetForgets`, `CompletedIsRemembered`, `KeepsLedger`, `HandlersEnd` | 3 messages in 2 sessions and 2 channels of 1 guild, 2 claims granted or pending, 1 reset, 1 crash, 1 fault |
| recovery | `CommittedCrashCompletes` is violated | 2 messages in 2 sessions, 1 crash, no fault |
| repeat | `RecoversItsOwnTurn` is violated | 2 messages with the same text in 1 session, 1 crash, no fault |
| lease | `TypeOK`, `CaptureIsLeased`, `LeaseReturned` | 2 listeners, 2 acquires, 2 microphone commands, 1 retirement claim, 1 trouble (a restart, a request given up or lost, a failed write, an unreadable file, a failed capture), no late heartbeat |
| exclusion | `NeverBoth` is violated | 1 listener, 3 acquires, 1 command, 1 trouble, 1 late heartbeat |

Bounds. `MaxWrites` must cover the longest life of one delivery: the bootstrap,
reserve, claim, bind, inflight, success, commit and complete are 8 writes. A
second delivery takes its writes from the same supply, so two deliveries meet in
every pair of phases whose writes add up to 8, not in two full lives; the proofs
have no such bound. A failed write without effect spends none. Two faults allow a failed write followed
by a failed repair. `deletion` puts expiry, capacity, size and fence in one small
instance: with one entry for two deliveries every admission evicts. In `calls`,
4 requests cover a write that fails and is reconciled (write, unlink of the
temporary, re-read, sync); the next call may then begin.

In `checkpoint` two faults are what a failed write and a failed revocation need;
three stamps cover a bootstrap, a commit and a replacement. The two session-guild
pairs are symmetric. `ImplementsMemory` makes no promise for a step after which a
head has been lost (`headLost`): `revival` shows, in the same instance, what such a
head costs.

In `turns` the texts of the messages differ, because `repeat` shows that equal
ones are confused; `m1` and `m2` share a session and a channel, `m3` has both for
itself. Two claims are enough for two handlers at a time, for one that follows
another in its session, and for a message that is delivered again after a reset.
`MaxGen` only stops flushes and resets from beginning, so a commit under way always
finishes. A second message in a busy channel is refused, which is why
the branch of `CommitFlush` for a session that has moved on is not taken.

In `lease` two acquires are what a retry needs to meet a new listener, and two
listeners what sharing one lease needs; two commands are ON and OFF. One trouble
at any point is enough for every recovery path of the client and the manager to
be entered. Heartbeats are never late there: `exclusion` shows what one late
heartbeat does, and `CaptureIsLeased` does not survive it.

Runs of `ArtifactProcess`, `SessionCheckpoint`, `IngressTurn` and
`VoiceInputLease` do not check deadlock: past the bounds nothing begins. Keys of one session, and replies, are symmetric.

Fairness. `EveryCallReturns` needs weak fairness of `Serve`, the owner's own
steps: each of its waits runs under a deadline (`_run_bounded`, `_remaining`), so
a step that stays possible is taken whatever the child does. `HandlersEnd` needs
weak fairness of each handler and of a reset under way: asyncio runs every ready
task, worker threads return (their file accesses have deadlines), and the resets
and commits that compete for the checkpoint lock are finitely many.
`LeaseReturned` needs weak fairness of the server's handler and of the client's
steps: the transition lock is FIFO, every request has a timeout, and the retry
task sleeps and tries again for ever. Children, callers, deliveries, flushes,
reports and restarts get no fairness.

### What the violated properties show

- **purge.** When a purge has been written and only its read-back fails, the
  purged rows return to memory in a ready journal. They are served to readers,
  a second purge finds memory and disk different and gives up, and the fence
  refuses every write until they expire or the process restarts.
- **revival.** A reset empties the head but cannot remove the checkpoint file, which
  is swallowed. At the next start file and head do not match, the chain is revoked,
  and this one read of the head fails: it is dropped, the new empty head is numbered
  from memory alone, and the file counts as one ahead of it. If the process dies
  before it has removed the file and written the status, the start after that
  restores the conversation that the reset had forgotten. The list of verified
  behaviour in `src/docs/CONVERSATION_CONTINUITY_CONTRACT.md:829` says that a file
  whose unlink failed is not restored: "unlink 실패 시 revocation marker로 이전 파일
  복구 거부".
- **receipt.** `commit_completed_turn` returns a status read after it released
  the lock. A flush or commit in between puts its generation into the receipt;
  `complete` refuses it and the delivered row stays `terminal_committing`.
- **recovery.** A flush for another session between a turn's commit and its
  `complete` moves the checkpoint's generation on. After a crash there the
  restart demands the exact generation, does not accept the turn although it is
  restored, and the owner stays shut at this and every later start.
- **repeat.** A flush may persist a new turn's id before its rows exist. If the
  turn repeats the exchange before it, the restart takes the earlier pair for
  it, completes the row, and the delivered turn is missing from history.
- **exclusion.** Discord stops and returns the lease; the microphone is switched
  on and owns it. A heartbeat that had seen Discord listen is written late, so a
  Discord acquire sees both active and blocks the lease; the ON command stands
  and the bridge captures. The Bot API restarts. Until the bridge reports, a
  missing report counts as an inactive microphone, the blocked lease becomes
  unowned, and Discord acquires it and listens too.

Two more behaviours belong to no run. A restart recovery that outgrows
`max_bytes` leaves the journal corrupt and without records although the files
are intact; `CorruptOnlyIfTooLarge` says that nothing else does. A recommit at
restart that fails after its file is written is rolled back in memory, and the
next flush takes the durable session back to the turn before.

At `max_entries` a completed entry is forgotten inside its retention window and
a repeat of its delivery is executed again. The contract
(`docs/CONVERSATION_INGRESS_RECOVERY_CONTRACT.md`, lines 174-175) admits this, so
`OneExecution` is checked where nothing is evicted.

## 4. Proofs

### IngressJournalProofs

`IngressJournalProofs` proves, for every set of keys, lineages and values and
all limits (assumption `ConstantsAssumption`: the set of keys is finite, the
limits are natural numbers, `None` is no value):
`TypeOK`, `DiskIsLoadable`, `ReadyIsDurable`, `InflightIsOurs`,
`GrantIsFirstDurable`, `DurableTruthIsKept`, `AdmissionKeepsPending`,
`FencedNeverReappears` and `CorruptOnlyIfTooLarge`; the refinement of
`DeliveryLedger`; and `OneExecution` where nothing is evicted.

The inductive invariant `IInv` adds to the properties themselves:

- `OwnerInflight`: while the owner works, the *disk* shows no delivery in flight
  but its own. `InflightIsOurs` speaks of memory; a failed write followed by a
  reload replaces memory by the disk.
- `OwnerLoaded`: an owner that works has a journal on disk, so its reload never
  meets two missing files.
- `ReadyIsValid`: a ready memory would pass validation, even where a purge has
  left it ahead of the disk.
- `FenceIsLocal`: a process that has not started fences nothing, so a load's
  write is refused for its size only.

Argument. `WriteSound`: a write from a memory that is at the head of the disk's
chain leaves a loadable disk whatever prefix of it takes effect, and a ready
memory only if all of it did. Each operation is shown to be an `OpStep`: it
writes entries that are valid, gain knowledge, keep pending entries when they
admit a new one, and pass the fence. `UpdateOfDisk` carries this from memory to
disk: where the two differ the entry is fenced and gone from disk, and a write
that passes the fence cannot contain it. Loads, crashes, reloads and the
environment have a lemma each, and so has the purge that cannot be read back.
`LedgerImplemented` is the step simulation of `DeliveryLedger` by the rows on
disk. It says no more of the journal than `DurableTruthIsKept` and the type
invariant, from which it follows, so no run checks it again; it is what connects
the journal to the rows of `IngressTurn`.

`OneExecution` has an invariant of its own, `Remembered`: a key that was told to
process has a row on disk that is accepted or beyond. `GrantIsFirstDurable` and
`DurableTruthIsKept` give all of it but one fact, `Forgets`: a row leaves the disk
only where the history of its key is forgotten too, by expiry or deletion. That
is false of an eviction, so the theorem assumes that no claim finds the journal
full (`HasRoom` always: `OneExecutionWithRoom`), or that there are no more keys
than `MaxEntries` (`OneExecutionUnderCapacity`, the instance of the run).

### ArtifactProcessProofs

For every set of paths, values and workers: `TypeOK`, `OneLiveWorker`,
`AnswerStands`, `TemporariesCleaned`, and the refinement of `AtomicArtifact`
(`AtomicFiles`: initial states, and every step a step or a stutter).

The inductive invariant `IInv` (theorem `Invariance`) adds to them:

- `StageOK`, `BlockedOK`, `SeqPositive`: what each stage says of the call and of
  the remembered temporaries; a request is under way only with a child that is
  not given up, and has spent a sequence number.
- `WorkOK(w)`: what a live child works on is well formed, and once it has renamed
  or unlinked, the file has the request's value.
- `Conversation`: a child that is neither asked nor given up is idle; one that is
  asked works on the *current* request, has answered it, or is dead; one that is
  given up with a write in hand has its temporary remembered. `OneLiveWorker`
  alone does not say this, and without it no step of a child keeps `AnswerStands`.
- `CommitOK`, `SyncOK`: what an answer the owner has yet to read says of the
  files, of what a power loss keeps, and of the temporaries.
- `TempsOK`, `QuietAfterSuccess`: every temporary on disk is remembered, belongs
  to the write under way, or was left behind by an owner that died; after a
  success the child has nothing left to do.

The refinement needs the whole of `IInv`: a child's rename is the mutation that
`AtomicArtifact` has in flight only because `Conversation` identifies it.

### SessionCheckpointProofs

For every set of sessions and guilds: `TypeOK`, `CrashKeepsCommits`, and, as long
as no head is lost, the refinement of `RestorableSessions` (`ImplementsMemory`) and
`ResetStays`. Three layers, each under
weaker failures and saying more:

- `JInv` (theorem `ShapesAlways`), whatever fails: which steps an operation of
  each kind can be at and what it carries (`OpOK`), which operations a phase of
  the process has (`PhaseOK`), no turn or stamp is from the future (`Bounds`).
- `KInv` (theorem `ChainAlways`), as long as no head is lost (`headLost`, a history
  variable): none is dropped, and no empty head is written below the one it
  replaces.
  `ChainOK`: a file and its head are in one of four relations: the first file
  without a head, current, one ahead, or left behind by an empty head. `StepOK`:
  what an operation has read still holds when it writes. `Ahead`: memory is
  ahead of the material an operation writes, and both are ahead of a file that
  counts, and none has anything from before a guild's reset, unless the guild is
  in the list of unfinished resets. `MemoryImplemented` is the step simulation:
  a new file only moves a session forward; a reset cuts off only what its entry
  in the list already keeps out. `ResetsStay` is the invariant behind it: what a
  restart would restore is from after its guild's latest reset.
- `Intact` (theorem `IntactAlways`), as long as no read or write fails
  (`faults = 0`): what is on the disk before the first flush (`NewDisk`); a
  file and its head are whole except inside the operation that replaces them,
  and no revocation stamp outlives them (`Whole`); resets are recorded only while
  they run (`RevsOK`); a committed turn is in the file, in the material of a flush
  and in memory (`DoneOK`). `CrashKeepsCommits` alone is not inductive: it says
  nothing about the file that the flush under way will write.

The condition is a result of the attempt to do without it: the code does lose
heads, and then a reset conversation can come back. `_revoke_checkpoint_chain`
(`session_continuity.py:1914`) does so in two places.

- It cannot *read* the head (line 1952): it drops it and numbers the new empty
  head from the generation in memory alone, which at a restart is 0. The run
  `revival` is an example, with two faults and one death, without keys.
- It cannot *write* the empty head (line 1980) and drops the old one. Without keys
  a generation-1 file without a head is accepted as one whose head was not yet
  written; this takes four faults. With keys it is refused, but after a death the
  next revocation numbers its empty head 1, and a generation-2 file counts as one
  ahead of it; this takes five faults and a death. TLC finds both when `MaxFaults`
  is raised to 4 and 5.

Every other failure the model has, in any number and order, is covered by the
theorems.

`AbsentAssumption` says that the markers of absent artifacts are no artifacts.

### IngressTurnProofs

For every set of messages, sessions, guilds and slots: `TypeOK`, `OneReply`,
`KeepsLedger`, `NoTurnTwice`, `ResetForgets`, however many writes fail. Two layers:

- `JInv` (theorem `RowsAndHandlers`), about rows and handlers. A handler is
  *live* while its guild has the epoch it was admitted in. Handlers of one reply
  slot exclude each other; a live handler agrees with its row on id, reply and
  phase (`PhaseAt`: which phases each point of the handler allows), and its
  session has no other delivered row (`Alone`); one that a reset has outrun may
  still have worker threads under way, but is not live again. A row before its
  delivery has shown the user nothing (`SentOK`). This gives `OneReply`, and
  `RowsMove`, from which `KeepsLedger` follows.
- `KInv` (theorem `SessionsAlways`), about sessions. Every state that can become
  a session's present one (`store`, the checkpoint, and the state a failed
  reconciliation rolls back to) is `Good`: its ids are distinct and granted, it
  does not have a turn whose row is not delivered, and has one that is delivered
  but not completed only at its end. `CutOK` says that such a state has nothing
  from before its guild's reset, except the checkpoint while the guild is in
  `revoked`, so that a restart leaves it out. `NoTurnTwice` and `ResetForgets`
  are not inductive alone, because a restart copies the checkpoint into memory
  and the reconciliation appends to it. A revoked file that is left (`ck.left`) is
  `Good` as well, so that `NoTurnTwice` survives its return; it may be from before
  its guild's reset, so `CutOK` says nothing of memory and checkpoint once one has
  been taken for good again (`revived`).

`ResetForgets` therefore has the same condition here as `ResetStays` has for the
checkpoint alone, and for the same reason: as long as no revoked file has returned.
What the theorem adds is everything above the checkpoint: handlers, worker threads of
cancelled turns, other guilds' resets, failed revocation writes, the journal's rows
and the restart.

Assumptions of `TurnAssumption` the proofs use: the constants are functions of
the right sets, the markers are no messages or replies, and messages of one
session have one reply slot. The last is what `discord_ingress.py:47-57` does:
a session key contains guild, channel and thread, which are the slot's key.

### CompletedTurnProofs

`CompletedIsRemembered`, for every set of messages, sessions and guilds and every
bound, if no two messages of a session have the same text (`DistinctTexts`). It is
the third layer, `RInv` (theorem `MemoryAlways`), on top of `KInv`. The property
alone is not inductive: it speaks of the checkpoint only, while the next flush
replaces the checkpoint by memory, a restart replaces memory by the checkpoint,
and a failed recommit puts an older session back.

- `CompletedHas`: the turn of a completed row is in the checkpoint, in memory, and
  in the session a rollback would put back. So a flush, a restart and a rollback
  each leave it where it was.
- `LiveHas`: how it gets there through a handler. One that is live and has appended
  its turn finds it in memory, and after its commit in the checkpoint; a handler
  that a reset has outrun is not live, and its `complete` is refused.
- `RestartHas`: how it gets there through a restart. Until the owner opens, every
  session in the checkpoint has what memory has, except the one being recommitted
  while its generation is not yet that of the marker. That one ends with the
  recovered turn, and the session kept for the rollback is a part of it.
- `TextsOK`: the restart compares texts, not ids. An entry with the text of a
  message belongs to the message's row, and the row exists. It holds of a
  checkpoint of a revoked guild only once the reset has flushed it.
- `PurgeOK`: a purged guild has no rows until its revocation is removed, so the
  removal brings no completed row back under the property.

`DistinctTexts` cannot go. With two equal texts the restart takes the turn before
for the one it has to recover (`RecoversItsOwnTurn` is violated by the run
`repeat`) and completes its row, so that a completed row without a turn remains:
in the constants of that run TLC finds `CompletedIsRemembered` violated as well.
`DistinctTextsRecover` says that equal texts are the only reason, but for a revoked
file that has returned (`revived`): such a file may end with the turn of a row that a
reset has purged. Flushes and starts that revoke the checkpoint stay outside by the
property's own condition (`lossy`), which `RInv` shows to hold wherever a file has
returned; those that fail with the file written, or not written at all, do not.

### VoiceInputLeaseProofs

For every set of listeners and every bound: `TypeOK`; and, for every `MaxLate`,
`CaptureIsLeased` and `NeverBoth` as long as no heartbeat has been late
(`counts.late = 0`). The bounds on listens, commands, claims and troubles play no
part, so any number of restarts, lost requests, failed writes and failed captures
is covered. Two layers:

- `SInv`, whatever happens. `ManagerOK`: memory and file agree until a write
  fails. `ClaimsOK`: a claim attested stopped is of an instance that no longer
  runs, so retiring its lease takes nothing from the present one. `ApiOK`,
  `DiscordOK`: reports, commands, requests and the status file are of no
  instance still to come. `ClientOK`: the request the client waits for is the
  last on the wire (the server is FIFO, so whatever it gave up is answered
  first), and everything but a listener's own acquisition is asked only while
  there is no token. `BridgeOK` and `Orderly`: commands are heard in order, and
  the last one is in one place at a time (unpublished to the bridge, last in its
  queue, or applied with nothing behind it); without it an `applied` report of
  OFF would not mean that no ON is still to be heard, and the handler that
  releases the lease on it would release it too early.
- `Kept` and `Seen`, while no heartbeat is late. `Kept`: an acquisition granted
  and every token has its lease in the file, and no release is on the wire while
  there is a token. `Seen`: a microphone that is on, is ordered on, or is
  reported on has its lease in the file, the lease is never blocked, and while
  the microphone has it the status file does not say that Discord listens. They
  go together: only with `Seen` does what the manager observes (`Calm`) never
  contradict the holder, and then every operation only takes away a lease that
  nothing needs (`Loose`). `CaptureIsLeased` alone is not inductive: it says
  nothing of orders under way, of grants not yet received, or of what an
  observation would make of the file.

The hypothesis cannot go: a heartbeat written late can show Discord as
listening when it no longer does. The lease of a microphone that is on is then
blocked, `Seen` is lost, and the run `exclusion` shows where that ends.

### Only model-checked

- Liveness (`EveryCallReturns`, `HandlersEnd`, `LeaseReturned`): out of the
  prover's reach.
- What a recursively defined sum such as `Bytes` evaluates to.

Some properties hold under a condition without which they are false (see
above): `ImplementsMemory`, `ResetStays` and `ResetForgets` that no revoked file
returns, `OneExecution` that nothing is evicted, `CaptureIsLeased` (and with it
`NeverBoth`) that no heartbeat has been late, `CompletedIsRemembered` that the
messages of a session differ in their texts.

## 5. Plan

1. *Done*: `IngressJournal` with its inductive invariant and its refinement of
   `DeliveryLedger`; `ArtifactProcess` and its refinement of `AtomicArtifact`;
   `IngressTurn`, the composition, and all of its safety; `SessionCheckpoint` and its
   refinement of `RestorableSessions`; `VoiceInputLease` and its exclusion while
   heartbeats are in time.
2. `WorldLease` with its remote and its delegations: at
   most one holder under expiry, late renewals and lost messages.
3. `MemoryDeletion`: the deletion journal and its sinks with the purge fence and
   the durable retry stores: a deletion interrupted anywhere finishes and stays.
4. `Authorization`, `ActionRecovery`, `TaskApproval`: single use against expiry
   and restart. `LLMAdmission` and `Playback`: priority and barge-in.

## 6. Not modelled

The repository has about 250,000 lines; the modules cover the protocol that
carries a conversation through failures, which is a small part of them. Of the
modelled components the following is left out: the checkpoint's external anchor,
legacy schemas, exact-lineage purge, writer fence and superseded attempt epochs;
the user-only tail and the awaiting-reply flag that the restart runtime handles
for autonomy pings; journal faults during the reconciliation and in a reset's purge;
voice segments, follow-up targets, trimming and expiry of sessions.

Outside the models: retrieval, prompting and text processing (no protocol to
check); the vendored Minecraft and Voyager code; HTTP parsing and rendering;
audio codecs and transport; host supervision through the operating system; the
tools and labs under `tools/`. `PROJECT.json` lists every component with its
status, and under `hazards` what is hard to test in this code, with the
properties that cover it.
