------------------------- MODULE SessionCheckpoint -------------------------
(***************************************************************************)
(* The session continuity checkpoint (session_continuity.py): the file     *)
(* that carries the conversation of every session over a restart, the head *)
(* file that fixes its generation and hash, the durable list of guilds     *)
(* whose reset is unfinished, and the operations on them -- restore,       *)
(* flush, commit of a completed turn, guild reset -- each of which takes   *)
(* several disk writes under one lock.  The process can die between any    *)
(* two of them, every write can fail with or without its effect, and the   *)
(* event loop goes on changing the sessions while a worker thread flushes. *)
(*                                                                         *)
(* A session is its current turn (0: no session); turns are numbered in    *)
(* the order they begin.  A payload's hash is its savedAt stamp, which no  *)
(* two payloads share; 0 is SESSION_CONTINUITY_CHAIN_GENESIS.              *)
(***************************************************************************)
EXTENDS Naturals, FiniteSets

CONSTANTS
    Sessions,      \* session keys
    Guilds,        \* Discord guilds
    GuildOf,       \* the guild in a session's key (_session_guild_id)
    KeyModes,      \* which settings of "authenticity.configured" to explore
    NoFile, NoHead, NoSig,   \* absent artifacts, and an empty _last_signature
    None,          \* no session, no guild
    MaxTurn,       \* bound on the turns begun
    MaxStamp,      \* bound on the checkpoints and empty heads written
    MaxCrashes,    \* bound on process deaths
    MaxFaults      \* bound on failed reads and writes

ASSUME CheckpointAssumption ==
    /\ GuildOf \in [Sessions -> Guilds]
    /\ KeyModes \subseteq BOOLEAN
    /\ MaxTurn \in Nat /\ MaxStamp \in Nat
    /\ MaxCrashes \in Nat /\ MaxFaults \in Nat

VARIABLES
    file,      \* the checkpoint file
    head,      \* the checkpoint head file
    revs,      \* the guild revocations file: guilds whose reset is unfinished
    status,    \* checkpointRevokedAt in the status file, 0 if null
    keyed,     \* authenticity.configured
    phase,     \* of the process: "down", "start", "ready"
    store,     \* the session store: the turn of each session
    mem,       \* the checkpoint object's own fields
    op,        \* the operation that holds the checkpoint lock
    call,      \* call[s]: the commit of s's turn, seen by its caller
    blocked,   \* guilds the ingress owner keeps shut for their reset
    turns, now, crashes, faults,
    cut,       \* history: the last turn begun before the latest reset of g
    done,      \* history: the last turn of s whose commit was verified
    headLost   \* history: a head was dropped, or an empty head written below
               \* the one it replaced

disk == <<file, head, revs, status>>
history == <<cut, done, headLost>>
vars == <<disk, keyed, phase, store, mem, op, call, blocked, turns, now,
          crashes, faults, history>>

Genesis == 0
NoSessions == [s \in Sessions |-> 0]
Contents == [Sessions -> Nat]

Files == [gen : Nat, prev : Nat, saved : Nat, sess : Contents]
Heads == [state : {"active", "empty"}, gen : Nat, hash : Nat]

ASSUME AbsentAssumption == NoFile \notin Files /\ NoHead \notin Heads

FreshMem == [gen |-> 0, sig |-> NoSessions, revokedAt |-> 0, sound |-> FALSE,
             lastOk |-> FALSE, pristine |-> FALSE]
Idle == [kind |-> "none", step |-> "none", then |-> "none", mat |-> NoSessions,
         session |-> None, guild |-> None, stale |-> FALSE]
NoCall == [st |-> "none", turn |-> 0, marker |-> 0, gen |-> 0]

Kinds == {"none", "restore", "boot", "flush", "commit", "reset", "recover"}
Steps == {"none", "snap", "anchor", "discard", "load", "prepare", "file",
          "head", "emptyhead", "emptyfile", "revoke", "unread", "rehead",
          "unhead", "unfile",
          "error", "revoke_guild", "runtime", "finish_guild", "verify", "done"}

----------------------------------------------------------------------------
(* Reading the disk. *)

Snapshot(class, gen, hash) == [class |-> class, gen |-> gen, hash |-> hash]

\* Mutant: a file one generation ahead of its head is not accepted.
CheckpointSnapshotStrict(f, h, k) ==
    IF f = NoFile
      THEN IF h = NoHead THEN Snapshot("empty", 0, Genesis)
           ELSE IF h.state = "active" THEN Snapshot("reject", 0, Genesis)
           ELSE Snapshot("empty", h.gen, h.hash)
    ELSE IF h # NoHead /\ h.state = "active" /\ f.gen = h.gen
            /\ f.saved = h.hash
      THEN Snapshot("current", f.gen, f.saved)
    ELSE Snapshot("reject", 0, Genesis)

(* _checkpoint_snapshot: what the file and the head say together. *)
CheckpointSnapshot(f, h, k) ==
    IF f = NoFile
      THEN IF h = NoHead THEN Snapshot("empty", 0, Genesis)
           ELSE IF h.state = "active" THEN Snapshot("reject", 0, Genesis)
           ELSE Snapshot("empty", h.gen, h.hash)
    ELSE IF h = NoHead
      THEN IF k THEN Snapshot("auth", 0, Genesis)
           ELSE IF f.gen = 1 /\ f.prev = Genesis
             THEN Snapshot("lagging", 1, f.saved)
             ELSE Snapshot("reject", 0, Genesis)
    ELSE IF h.state = "active" /\ f.gen = h.gen /\ f.saved = h.hash
      THEN Snapshot("current", f.gen, f.saved)
    ELSE IF f.gen = h.gen + 1
            /\ f.prev = IF h.state = "active" THEN h.hash ELSE Genesis
      THEN Snapshot("lagging", f.gen, f.saved)
    ELSE IF h.state = "empty" /\ h.gen = f.gen + 1 /\ k
      THEN Snapshot("discard", h.gen, Genesis)
    ELSE Snapshot("reject", 0, Genesis)

Snap == CheckpointSnapshot(file, head, keyed)

(* What _restore_attempt would put back for a session if the process died
   now: the payload's turn, unless the chain is not accepted, the status file
   says it was revoked after it was saved, or the guild's reset is pending. *)
Restorable ==
    [s \in Sessions |->
        IF /\ Snap.class \in {"current", "lagging"}
           /\ status < file.saved
           /\ GuildOf[s] \notin revs
        THEN file.sess[s] ELSE 0]

----------------------------------------------------------------------------
Init ==
    /\ file = NoFile /\ head = NoHead /\ revs = {} /\ status = 0
    /\ keyed \in KeyModes
    /\ phase = "down" /\ store = NoSessions /\ mem = FreshMem /\ op = Idle
    /\ call = [s \in Sessions |-> NoCall] /\ blocked = {}
    /\ turns = 0 /\ now = 0 /\ crashes = 0 /\ faults = 0
    /\ cut = [g \in Guilds |-> 0] /\ done = NoSessions /\ headLost = FALSE

(* A read or write of an artifact: it works, it raises without effect, or it
   raises after its effect (the artifact worker died before it answered). *)
Outcome(o) ==
    /\ o \in {"ok", "lost", "late"}
    /\ o # "ok" => faults < MaxFaults
    /\ faults' = IF o = "ok" THEN faults ELSE faults + 1

Written(o, new, old) == IF o = "lost" THEN old ELSE new

Goto(step) == op' = [op EXCEPT !.step = step]

(* Where an operation goes on once the snapshot it took is anchored; flush
   (2762-2770) stops when nothing changed since the last one. *)
AfterSnapshot ==
    IF op.then # "flush" THEN op.then
    ELSE IF op.kind = "flush" /\ op.mat = mem.sig THEN "done"
    ELSE IF op.mat = NoSessions THEN "emptyhead"
    ELSE "file"

(* _anchor_checkpoint_snapshot leaves the generation it found in memory; a
   flush that finds nothing to do also clears an earlier error. *)
Anchored ==
    mem' = [mem EXCEPT !.gen = Snap.gen,
                       !.pristine = head = NoHead /\ file = NoFile,
                       !.sound = IF AfterSnapshot = "done"
                                 THEN @ \/ file # NoFile ELSE @]

(* A rejected chain is revoked, except by the snapshot that commit takes
   before its marker (3076): its exception ends the commit. *)
Rejected == IF op.then = "prepare" THEN "error" ELSE "revoke"

ReadCheckpoint(o) ==
    /\ op.step = "snap" /\ o # "late" /\ Outcome(o)
    /\ LET class == IF o = "ok" THEN Snap.class ELSE "reject" IN
       \/ /\ class \in {"reject", "auth"}
          /\ Goto(IF class = "auth" THEN "error" ELSE Rejected)
          /\ UNCHANGED mem
       \/ class = "lagging" /\ Goto("anchor") /\ UNCHANGED mem
       \/ class = "discard" /\ Goto("discard") /\ UNCHANGED mem
       \/ class \in {"current", "empty"} /\ Goto(AfterSnapshot) /\ Anchored
    /\ UNCHANGED <<disk, keyed, phase, store, call, blocked, turns, now,
                   crashes, history>>

(* _anchor_checkpoint_snapshot: the file is one ahead of the head. *)
AnchorHead(o) ==
    /\ op.step = "anchor" /\ Outcome(o)
    /\ head' = Written(o, [state |-> "active", gen |-> Snap.gen,
                           hash |-> Snap.hash], head)
    /\ IF o = "ok" THEN Goto(AfterSnapshot) /\ Anchored
                   ELSE Goto("error") /\ UNCHANGED mem
    /\ UNCHANGED <<file, revs, status, keyed, phase, store, call, blocked,
                   turns, now, crashes, history>>

(* _discard_checkpoint: the unlink's own failure is swallowed. *)
DiscardEmptied(o) ==
    /\ op.step = "discard" /\ o # "late" /\ Outcome(o)
    /\ file' = Written(o, NoFile, file)
    /\ Goto(AfterSnapshot) /\ Anchored
    /\ UNCHANGED <<head, revs, status, keyed, phase, store, call, blocked,
                   turns, now, crashes, history>>

----------------------------------------------------------------------------
(* _flush_attempt, once its snapshot is anchored. *)

WriteFile(o) ==
    /\ op.step = "file" /\ Outcome(o)
    /\ now' = now + 1
    /\ file' = Written(o, [gen |-> Snap.gen + 1,
                           prev |-> IF Snap.class = "current"
                                    THEN Snap.hash ELSE Genesis,
                           saved |-> now + 1, sess |-> op.mat], file)
    /\ IF o = "ok"
         THEN /\ Goto("head")
              /\ mem' = [mem EXCEPT !.gen = Snap.gen + 1, !.sig = op.mat,
                                    !.revokedAt = 0, !.pristine = FALSE]
         ELSE Goto("revoke") /\ UNCHANGED mem
    /\ UNCHANGED <<head, revs, status, keyed, phase, store, call, blocked,
                   turns, crashes, history>>

(* What follows a flush in the operation that called it. *)
AfterFlush ==
    CASE op.kind = "commit" -> "verify"
      [] op.kind \in {"reset", "recover"} -> "finish_guild"
      [] OTHER -> "done"

WriteHead(o) ==
    /\ op.step = "head" /\ Outcome(o)
    /\ head' = Written(o, [state |-> "active", gen |-> file.gen,
                           hash |-> file.saved], head)
    /\ IF o = "ok"
         THEN Goto(AfterFlush) /\ mem' = [mem EXCEPT !.sound = TRUE]
         ELSE Goto("error") /\ UNCHANGED mem
    /\ UNCHANGED <<file, revs, status, keyed, phase, store, call, blocked,
                   turns, now, crashes, history>>

(* No session left: the empty head goes first, then the file. *)
WriteEmptyHead(o) ==
    /\ op.step = "emptyhead" /\ Outcome(o)
    /\ now' = now + 1
    /\ head' = Written(o, [state |-> "empty", gen |-> Snap.gen + 1,
                           hash |-> Genesis], head)
    /\ IF o = "ok"
         THEN /\ Goto("emptyfile")
              /\ mem' = [mem EXCEPT !.gen = Snap.gen + 1, !.sig = NoSessions,
                                    !.revokedAt = 0, !.sound = FALSE,
                                    !.pristine = FALSE]
         ELSE Goto("revoke") /\ UNCHANGED mem
    /\ UNCHANGED <<file, revs, status, keyed, phase, store, call, blocked,
                   turns, crashes, history>>

DropEmptiedFile(o) ==
    /\ op.step = "emptyfile" /\ o # "late" /\ Outcome(o)
    /\ file' = Written(o, NoFile, file)
    /\ Goto(AfterFlush)
    /\ UNCHANGED <<head, revs, status, keyed, phase, store, mem, call,
                   blocked, turns, now, crashes, history>>

----------------------------------------------------------------------------
(* _revoke_checkpoint_chain: empty head, then the file goes; when the head
   cannot be written it is dropped instead.  A head that cannot be read is
   dropped first, and the empty one then follows the generation in memory
   alone: it may be lower than the head's, which stays if the drop fails. *)

LosesHead ==
    head # NoHead /\ head' # head /\ (head' = NoHead \/ head'.gen <= head.gen)

RevokeUnread ==
    /\ op.step = "revoke" /\ Outcome("lost")
    /\ Goto("unread")
    /\ UNCHANGED <<disk, keyed, phase, store, mem, call, blocked, turns, now,
                   crashes, history>>

RevokeHead(o) ==
    LET top == IF op.step = "revoke" /\ head # NoHead /\ head.gen > mem.gen
               THEN head.gen ELSE mem.gen IN
    /\ op.step \in {"revoke", "rehead"} /\ Outcome(o)
    /\ head' = Written(o, [state |-> "empty", gen |-> top + 1,
                           hash |-> Genesis], head)
    /\ mem' = [mem EXCEPT !.revokedAt = now, !.sig = NoSig,
                          !.gen = IF o = "ok" THEN top + 1 ELSE @,
                          !.pristine = FALSE]
    /\ Goto(IF o = "ok" THEN "unfile" ELSE "unhead")
    /\ headLost' = (headLost \/ LosesHead)
    /\ UNCHANGED <<file, revs, status, keyed, phase, store, call, blocked,
                   turns, now, crashes, cut, done>>

RevokeDropHead(o) ==
    /\ op.step \in {"unread", "unhead"} /\ o # "late" /\ Outcome(o)
    /\ head' = Written(o, NoHead, head)
    /\ Goto(IF op.step = "unread" THEN "rehead" ELSE "unfile")
    /\ headLost' = (headLost \/ LosesHead)
    /\ UNCHANGED <<file, revs, status, keyed, phase, store, mem, call,
                   blocked, turns, now, crashes, cut, done>>

(* A stale checkpoint (2466) is revoked the same way but is no error: the
   status keeps no revocation stamp. *)
RevokeDropFile(o) ==
    /\ op.step = "unfile" /\ o # "late" /\ Outcome(o)
    /\ file' = Written(o, NoFile, file)
    /\ Goto(IF op.stale THEN "done" ELSE "error")
    /\ mem' = [mem EXCEPT !.revokedAt = IF op.stale THEN 0 ELSE @]
    /\ UNCHANGED <<head, revs, status, keyed, phase, store, call, blocked,
                   turns, now, crashes, history>>

----------------------------------------------------------------------------
(* The ends of an operation; _write_status swallows its own failure. *)

(* The revocations that activate_after_continuity_restore still has to carry
   out, then Main's bootstrap flush of a truly new checkpoint. *)
AfterStart ==
    /\ phase = "start" /\ op.kind = "none"
    /\ IF revs # {}
         THEN /\ \E g \in revs :
                   op' = [Idle EXCEPT !.kind = "recover", !.guild = g,
                                      !.step = "revoke_guild"]
              /\ UNCHANGED phase
         ELSE /\ phase' = "ready"
              /\ op' = IF mem.gen = 0 /\ mem.pristine
                       THEN [Idle EXCEPT !.kind = "boot", !.step = "snap",
                                         !.then = "flush", !.mat = store]
                       ELSE Idle
    /\ UNCHANGED <<disk, keyed, store, mem, call, blocked, turns, now,
                   crashes, faults, history>>

Crashed ==
    /\ phase' = "down" /\ store' = NoSessions /\ mem' = FreshMem /\ op' = Idle
    /\ call' = [s \in Sessions |-> NoCall] /\ blocked' = {}

(* _record_error; a failed recovery of a reset ends the process. *)
EndInError(o) ==
    /\ op.step = "error" /\ o # "late" /\ Outcome(o)
    /\ status' = Written(o, mem.revokedAt, status)
    /\ IF op.kind = "recover" THEN Crashed
       ELSE /\ op' = Idle
            /\ mem' = [mem EXCEPT !.sound = FALSE,
                          !.lastOk = IF op.kind = "commit" THEN FALSE ELSE @]
            /\ call' = IF op.kind = "commit"
                       THEN [call EXCEPT ![op.session] = NoCall] ELSE call
            /\ UNCHANGED <<phase, store, blocked>>
    /\ UNCHANGED <<file, head, revs, keyed, turns, now, crashes, history>>

EndWell(o) ==
    /\ op.step = "done" /\ o # "late" /\ Outcome(o)
    /\ status' = Written(o, mem.revokedAt, status)
    /\ op' = Idle
    /\ blocked' = IF op.kind = "reset" THEN blocked \ {op.guild} ELSE blocked
    /\ UNCHANGED <<file, head, revs, keyed, phase, store, mem, call, turns,
                   now, crashes, history>>

(* The heartbeat of _run. *)
WriteStatus ==
    /\ phase = "ready" /\ op.kind = "none" /\ status # mem.revokedAt
    /\ status' = mem.revokedAt
    /\ UNCHANGED <<file, head, revs, keyed, phase, store, mem, op, call,
                   blocked, turns, now, crashes, faults, history>>

----------------------------------------------------------------------------
(* restore *)

(* A status file that cannot be read counts as one without a stamp. *)
Start(o) ==
    /\ phase = "down" /\ o # "late" /\ Outcome(o)
    /\ phase' = "start"
    /\ mem' = [FreshMem EXCEPT !.revokedAt = IF o = "ok" THEN status ELSE 0]
    /\ op' = [Idle EXCEPT !.kind = "restore", !.step = "snap", !.then = "load"]
    /\ UNCHANGED <<disk, keyed, store, call, blocked, turns, now, crashes,
                   history>>

(* _restore_attempt after its snapshot is anchored. *)
LoadNothing ==
    /\ op.step = "load" /\ Snap.class = "empty"
    /\ mem' = [mem EXCEPT !.revokedAt = 0]
    /\ Goto("done")
    /\ UNCHANGED <<disk, keyed, phase, store, call, blocked, turns, now,
                   crashes, faults, history>>

(* The payload is refused: its stamp is revoked, or lies ahead of a wall clock
   that was set back, which it can be at any start; or, and this is no error,
   the payload as a whole has grown too old (stale). *)
LoadRevoked(stale) ==
    /\ op.step = "load" /\ Snap.class = "current"
    /\ stale => mem.revokedAt < file.saved
    /\ op' = [op EXCEPT !.step = "revoke", !.stale = stale]
    /\ done' = NoSessions
    /\ UNCHANGED <<disk, keyed, phase, store, mem, call, blocked, turns, now,
                   crashes, faults, cut, headLost>>

LoadRevocationsFail ==
    /\ op.step = "load" /\ Snap.class = "current"
    /\ Outcome("lost")
    /\ Goto("revoke")
    /\ UNCHANGED <<disk, keyed, phase, store, mem, call, blocked, turns, now,
                   crashes, history>>

\* Mutant: sessions of a guild whose reset is unfinished are restored.
LoadSessionsAll(aged) ==
    /\ op.step = "load" /\ Snap.class = "current"
    /\ mem.revokedAt < file.saved
    /\ store' = [s \in Sessions |-> IF s \in aged THEN 0 ELSE file.sess[s]]
    /\ mem' = [mem EXCEPT !.revokedAt = 0, !.sig = store']
    /\ done' = [s \in Sessions |-> IF s \in aged THEN 0 ELSE done[s]]
    /\ Goto("done")
    /\ UNCHANGED <<disk, keyed, phase, call, blocked, turns, now, crashes,
                   faults, cut, headLost>>

LoadSessions(aged) ==
    /\ op.step = "load" /\ Snap.class = "current"
    /\ mem.revokedAt < file.saved
    /\ store' = [s \in Sessions |->
                   IF s \in aged \/ GuildOf[s] \in revs THEN 0
                   ELSE file.sess[s]]
    /\ mem' = [mem EXCEPT !.revokedAt = 0, !.sig = store']
    /\ done' = [s \in Sessions |-> IF s \in aged THEN 0 ELSE done[s]]
    /\ Goto("done")
    /\ UNCHANGED <<disk, keyed, phase, call, blocked, turns, now, crashes,
                   faults, cut, headLost>>

----------------------------------------------------------------------------
(* The event loop; it runs while a worker thread flushes or commits, not
   while a restore or a guild reset holds it. *)

(* The checkpoint lock is free; MaxStamp bounds the operations to come. *)
LockFree == op.kind = "none" /\ now < MaxStamp

LoopRuns == phase = "ready" /\ op.kind \in {"none", "flush", "commit"}

(* A turn begins (or the reply is appended) in a session of an open guild. *)
BeginTurn(s) ==
    /\ LoopRuns /\ GuildOf[s] \notin blocked /\ turns < MaxTurn
    /\ call[s].st \in {"none", "receipt"}
    /\ turns' = turns + 1
    /\ store' = [store EXCEPT ![s] = turns + 1]
    /\ call' = [call EXCEPT ![s] = NoCall]
    /\ UNCHANGED <<disk, keyed, phase, mem, op, blocked, now, crashes,
                   faults, history>>

(* The turn's handler asks for its commit in a worker thread. *)
CallCommit(s) ==
    /\ LoopRuns /\ store[s] # 0 /\ call[s].st = "none" /\ done[s] # store[s]
    /\ call' = [call EXCEPT ![s] = [NoCall EXCEPT !.st = "waiting",
                                                  !.turn = store[s]]]
    /\ UNCHANGED <<disk, keyed, phase, store, mem, op, blocked, turns, now,
                   crashes, faults, history>>

StartFlush ==
    /\ phase = "ready" /\ LockFree
    /\ op' = [Idle EXCEPT !.kind = "flush", !.step = "snap", !.then = "flush",
                          !.mat = store]
    /\ UNCHANGED <<disk, keyed, phase, store, mem, call, blocked, turns, now,
                   crashes, faults, history>>

StartCommit(s) ==
    /\ phase = "ready" /\ LockFree /\ call[s].st = "waiting"
    /\ op' = [Idle EXCEPT !.kind = "commit", !.step = "snap",
                          !.then = "prepare", !.session = s]
    /\ call' = [call EXCEPT ![s].st = "running"]
    /\ UNCHANGED <<disk, keyed, phase, store, mem, blocked, turns, now,
                   crashes, faults, history>>

(* before_commit(generation + 1), which the ingress journal may refuse, then
   flush takes its material: the session must still be at its turn. *)
PrepareCommit(marked) ==
    LET s == op.session IN
    /\ op.step = "prepare"
    /\ call' = [call EXCEPT ![s].marker = IF marked THEN Snap.gen + 1 ELSE @]
    /\ op' = IF marked /\ store[s] = call[s].turn
             THEN [op EXCEPT !.step = "snap", !.then = "flush", !.mat = store]
             ELSE [op EXCEPT !.step = "error"]
    /\ UNCHANGED <<disk, keyed, phase, store, mem, blocked, turns, now,
                   crashes, faults, history>>

(* The re-read that proves the commit; then the lock is released. *)
VerifyCommit(o) ==
    LET s == op.session IN
    /\ op.step = "verify" /\ o # "late" /\ Outcome(o)
    /\ IF o = "ok" /\ Snap.class = "current" /\ file.sess[s] = call[s].turn
         THEN /\ op' = Idle
              /\ mem' = [mem EXCEPT !.lastOk = TRUE]
              /\ call' = [call EXCEPT ![s].st = "returning"]
              /\ done' = [done EXCEPT ![s] = call[s].turn]
         ELSE Goto("error") /\ UNCHANGED <<mem, call, done>>
    /\ UNCHANGED <<disk, keyed, phase, store, blocked, turns, now, crashes,
                   cut, headLost>>

(* _commit_completed_turn_attempt reads status() for its caller after the
   lock is released; require_durable_continuity_receipt takes the generation
   from it. *)
ReadReceipt(s) ==
    /\ call[s].st = "returning"
    /\ call' = [call EXCEPT ![s] =
          IF mem.sound /\ mem.lastOk /\ mem.gen >= 1
          THEN [@ EXCEPT !.st = "receipt", !.gen = mem.gen] ELSE NoCall]
    /\ UNCHANGED <<disk, keyed, phase, store, mem, op, blocked, turns, now,
                   crashes, faults, history>>

----------------------------------------------------------------------------
(* reset_guild, called on the event loop *)

StartReset(g) ==
    /\ phase = "ready" /\ LockFree
    /\ op' = [Idle EXCEPT !.kind = "reset", !.guild = g,
                          !.step = "revoke_guild"]
    /\ UNCHANGED <<disk, keyed, phase, store, mem, call, blocked, turns, now,
                   crashes, faults, history>>

\* Mutant: a session is recorded where the list holds guilds.
RevokeGuildOfSession(o) ==
    /\ op.step = "revoke_guild" /\ Outcome(o)
    /\ revs' = Written(o, revs \cup {op.session}, revs)
    /\ Goto(IF o = "ok" THEN "runtime" ELSE "error")
    /\ done' = [s \in Sessions |-> IF GuildOf[s] = op.guild THEN 0
                                   ELSE done[s]]
    /\ UNCHANGED <<file, head, status, keyed, phase, store, mem, call,
                   blocked, turns, now, crashes, cut,
                   headLost>>

RevokeGuild(o) ==
    /\ op.step = "revoke_guild" /\ Outcome(o)
    /\ revs' = Written(o, revs \cup {op.guild}, revs)
    /\ Goto(IF o = "ok" THEN "runtime" ELSE "error")
    /\ done' = [s \in Sessions |-> IF GuildOf[s] = op.guild THEN 0
                                   ELSE done[s]]
    /\ UNCHANGED <<file, head, status, keyed, phase, store, mem, call,
                   blocked, turns, now, crashes, cut,
                   headLost>>

(* reset_runtime_state: the ingress owner shuts the guild, clears its
   sessions and purges its journal; it can raise before or after the
   sessions are gone.  At startup only the journal is purged: _load left the
   guild's sessions out. *)
ClearRuntime(o) ==
    /\ op.step = "runtime" /\ Outcome(o)
    /\ blocked' = IF op.kind = "reset" THEN blocked \cup {op.guild}
                  ELSE blocked
    /\ store' = IF op.kind = "reset" /\ o # "lost"
                THEN [s \in Sessions |-> IF GuildOf[s] = op.guild THEN 0
                                         ELSE store[s]]
                ELSE store
    /\ cut' = IF o = "lost" THEN cut ELSE [cut EXCEPT ![op.guild] = turns]
    /\ op' = IF o = "ok" THEN [op EXCEPT !.step = "snap", !.then = "flush",
                                         !.mat = store']
             ELSE [op EXCEPT !.step = "error"]
    /\ UNCHANGED <<disk, keyed, phase, mem, call, turns, now, crashes, done,
                   headLost>>

FinishGuild(o) ==
    /\ op.step = "finish_guild" /\ Outcome(o)
    /\ revs' = Written(o, revs \ {op.guild}, revs)
    /\ Goto(IF o = "ok" THEN "done" ELSE "error")
    /\ UNCHANGED <<file, head, status, keyed, phase, store, mem, call,
                   blocked, turns, now, crashes, history>>

----------------------------------------------------------------------------
Crash ==
    /\ phase # "down" /\ crashes < MaxCrashes
    /\ crashes' = crashes + 1
    /\ Crashed
    /\ UNCHANGED <<disk, keyed, turns, now, faults, history>>

Next ==
    \/ AfterStart \/ WriteStatus \/ LoadNothing
    \/ LoadRevocationsFail \/ StartFlush \/ RevokeUnread \/ Crash
    \/ \E o \in {"ok", "lost", "late"} :
          \/ Start(o)
          \/ ReadCheckpoint(o) \/ AnchorHead(o) \/ DiscardEmptied(o)
          \/ WriteFile(o) \/ WriteHead(o)
          \/ WriteEmptyHead(o) \/ DropEmptiedFile(o)
          \/ RevokeHead(o) \/ RevokeDropHead(o) \/ RevokeDropFile(o)
          \/ EndInError(o) \/ EndWell(o) \/ VerifyCommit(o)
          \/ RevokeGuild(o) \/ ClearRuntime(o) \/ FinishGuild(o)
    \/ \E b \in BOOLEAN : LoadRevoked(b) \/ PrepareCommit(b)
    \/ \E aged \in SUBSET Sessions : LoadSessions(aged)
    \/ \E s \in Sessions :
          \/ BeginTurn(s) \/ CallCommit(s) \/ StartCommit(s)
          \/ ReadReceipt(s)
    \/ \E g \in Guilds : StartReset(g)

Spec == Init /\ [][Next]_vars

----------------------------------------------------------------------------
(* Properties *)

TypeOK ==
    /\ file \in Files \cup {NoFile} /\ head \in Heads \cup {NoHead}
    /\ revs \subseteq Guilds /\ blocked \subseteq Guilds
    /\ status \in Nat /\ keyed \in BOOLEAN
    /\ phase \in {"down", "start", "ready"}
    /\ store \in Contents /\ done \in Contents
    /\ op.kind \in Kinds /\ op.step \in Steps /\ op.mat \in Contents
    /\ call \in [Sessions ->
          [st : {"none", "waiting", "running", "returning", "receipt"},
           turn : Nat, marker : Nat, gen : Nat]]
    /\ cut \in [Guilds -> Nat]

(* A crash alone never costs a committed turn: as long as no read or write
   failed, a restart restores, for every session whose commit was verified
   and whose guild was not reset since, that turn or a later one. *)
CrashKeepsCommits ==
    faults = 0 => \A s \in Sessions : Restorable[s] >= done[s]

(* As long as no revocation has lost a head, the checkpoint implements the
   memory of RestorableSessions, through every failure and crash. *)
Memory == INSTANCE RestorableSessions WITH kept <- Restorable

ImplementsMemory ==
    Memory!Init /\ [][headLost' \/ Memory!Next]_<<Restorable, cut>>

(* The contract's list of verified behaviour: a file that could not be
   removed is kept from being restored.  So what a reset has cut off stays
   forgotten, whatever failed since. *)
ResetStays == \A s \in Sessions :
                 Restorable[s] # 0 => Restorable[s] > cut[GuildOf[s]]

(* The receipt a handler hands to the ingress journal names the generation
   that its own commit announced through before_commit. *)
ReceiptNamesItsCommit ==
    \A s \in Sessions : call[s].st = "receipt" => call[s].gen = call[s].marker

============================================================================
