---------------------------- MODULE IngressTurn ----------------------------
(***************************************************************************)
(* A Discord text turn from claim to completion, and its recovery: the     *)
(* message handler (discord_text_turn.py), the ingress owner               *)
(* (conversation_ingress_composition.py) with the journal behind it, the   *)
(* session store, the session checkpoint, the guild reset and the restart  *)
(* reconciliation (conversation_ingress_restart_runtime.py), composed.     *)
(*                                                                         *)
(* The journal and the checkpoint have modules of their own; here the      *)
(* journal is what it shows its owner, one row per source delivery, and    *)
(* the checkpoint a generation and the sessions it would restore.  A       *)
(* handler runs on the event loop; its journal operations run in worker    *)
(* threads, which a cancellation does not stop.  A history is a sequence   *)
(* of turns, since the text path appends a user and an assistant row       *)
(* together; trimming and expiry are left out.                             *)
(***************************************************************************)
EXTENDS Naturals, Sequences, FiniteSets, SequencesExt

CONSTANTS
    Msgs,          \* source deliveries (Discord messages)
    Sessions, Guilds, Slots,
    SessionOf,     \* session key of a message
    SlotOf,        \* reply slot (channel) of a message
    GuildOf,       \* guild of a session
    TextOf,        \* normalised text of a message
    Answer, Sorry, \* the generated reply and the fixed failure reply
    NoReply, NoMsg, NoGuild,
    MaxIds,        \* bound on the claims granted or pending
    MaxGen,        \* bound: generation at which no periodic flush begins, and
                   \* beyond which no reset does
    MaxResets,     \* bound on the guild resets begun
    MaxCrashes,    \* bound on process deaths
    MaxFaults      \* bound on failed generations, sends and writes

ASSUME TurnAssumption ==
    /\ SessionOf \in [Msgs -> Sessions] /\ GuildOf \in [Sessions -> Guilds]
    /\ SlotOf \in [Msgs -> Slots]
    \* a session key names its channel, and with it the reply slot
    /\ \A m, n \in Msgs : SessionOf[m] = SessionOf[n] => SlotOf[m] = SlotOf[n]
    /\ NoMsg \notin Msgs /\ NoReply \notin {Answer, Sorry}
    /\ MaxIds \in Nat /\ MaxGen \in Nat /\ MaxResets \in Nat
    /\ MaxCrashes \in Nat /\ MaxFaults \in Nat

VARIABLES
    led,       \* the ingress journal: the row of each delivery
    ck,        \* the checkpoint on disk: generation and sessions, and the
               \* revoked file that could not be removed (left)
    revoked,   \* the durable guild revocations
    store,     \* the session store
    saved,     \* the checkpoint's _last_signature
    owner,     \* the ingress owner: "down", "restored", "reconciling",
               \* "shut", "open"
    epoch,     \* _guild_epochs
    blocked,   \* _blocked_guild_ids
    turn,      \* the handler of each message
    lock,      \* who holds the checkpoint lock, and how far it is
    todo,      \* recovered rows still to be reconciled
    fixing,    \* the delivery whose recommit is under way, and the session
               \* as _capture_session_state found it
    ids, resets, crashes, faults,
    sent,      \* history: replies seen by the user for a row
    cut,       \* history: the last claim granted before g's latest reset
    lossy,     \* history: a revocation has cost the checkpoint its content
    revived    \* history: a revoked file has been taken for good again

durable == <<led, ck, revoked>>
counters == <<ids, resets, crashes, faults>>
history == <<sent, cut, lossy, revived>>
vars == <<durable, store, saved, owner, epoch, blocked, turn, lock, todo,
          fixing, counters, history>>

NoRow == [phase |-> "none", id |-> 0, reply |-> NoReply, gen |-> 0]
NoTurn == [pc |-> "idle", id |-> 0, epoch |-> 0, reply |-> NoReply, gen |-> 0,
           cancelled |-> FALSE]
NoSession == [turn |-> 0, hist |-> <<>>]
NoSessions == [s \in Sessions |-> NoSession]
NoFile == [gen |-> 0, sess |-> NoSessions]
NoFix == [msg |-> NoMsg, was |-> NoSession]
Free == [by |-> "none", msg |-> NoMsg, guild |-> NoGuild]

Guild(m) == GuildOf[SessionOf[m]]
Of(g) == {m \in Msgs : Guild(m) = g}
Up == owner # "down"

Pair(m, id, reply) == [id |-> id, text |-> TextOf[m], reply |-> reply]

Init ==
    /\ led = [m \in Msgs |-> NoRow]
    /\ ck = [gen |-> 0, sess |-> NoSessions, left |-> NoFile] /\ revoked = {}
    /\ store = NoSessions /\ saved = NoSessions
    /\ owner = "down" /\ epoch = [g \in Guilds |-> 0] /\ blocked = {}
    /\ turn = [m \in Msgs |-> NoTurn] /\ lock = Free
    /\ todo = {} /\ fixing = NoFix
    /\ ids = 0 /\ resets = 0 /\ crashes = 0 /\ faults = 0
    /\ sent = [m \in Msgs |-> 0] /\ cut = [g \in Guilds |-> 0]
    /\ lossy = FALSE /\ revived = FALSE

----------------------------------------------------------------------------
(* The checkpoint, as flush and commit leave it. *)

(* How a forced flush ends: "ok", saved; "spared", no session is left, but the
   old file could not be removed, which is no error.  The others raise: "late",
   the file is written (a lagging head, repaired by the next reader); "kept",
   nothing is (that repair failed); "dropped", the chain is revoked and the
   content gone; "left", revoked, but the file, old or new, is still there. *)
FlushEnds == {"ok", "spared", "late", "kept", "dropped", "left"}
Raised(end) == end \notin {"ok", "spared"}

(* The checkpoint file on disk. *)
File == IF ck.sess = NoSessions THEN ck.left
        ELSE [gen |-> ck.gen, sess |-> ck.sess]

Emptied(file) == [gen |-> ck.gen + 1, sess |-> NoSessions, left |-> file]

(* The next flush or start revokes the chain once more as long as a revoked
   file is left: that takes no further failure. *)
Strikes(end) == end # "ok" /\ ~(end = "dropped" /\ ck.left # NoFile)

WriteCheckpoint(end, content) ==
    /\ Strikes(end) => faults < MaxFaults
    /\ faults' = IF Strikes(end) THEN faults + 1 ELSE faults
    /\ \/ /\ end \in {"ok", "late"}
          /\ ck' = [gen |-> ck.gen + 1, sess |-> content, left |-> NoFile]
       \/ /\ end = "spared" /\ content = NoSessions /\ File # NoFile
          /\ ck' = Emptied(File)
       \/ end = "kept" /\ UNCHANGED ck
       \/ end = "dropped" /\ ck' = Emptied(NoFile)
       \/ /\ end = "left"
          /\ \/ File # NoFile /\ ck' = Emptied(File)
             \/ /\ content # NoSessions
                /\ ck' = Emptied([gen |-> ck.gen + 1, sess |-> content])
    /\ lossy' = (lossy \/ end \in {"dropped", "left"})

Flush(end, content) ==
    /\ WriteCheckpoint(end, content)
    /\ saved' = CASE end \in {"ok", "spared", "late"} -> content
                  [] end = "kept" -> saved
                  [] OTHER -> NoSessions

(* The periodic flush of _run: nothing to do while the sessions have not
   changed since the last one. *)
PeriodicFlush(end) ==
    /\ owner \in {"shut", "open"} /\ lock = Free /\ ck.gen < MaxGen
    /\ store # saved
    /\ Flush(end, store)
    /\ UNCHANGED <<led, revoked, store, owner, epoch, blocked, turn, lock,
                   todo, fixing, ids, resets, crashes, sent, cut, revived>>

----------------------------------------------------------------------------
(* The handler.  Steps of the event loop stop while a guild reset holds it. *)

LoopRuns == lock.by # "reset"

\* Mutant: the guild epoch is not compared.
AdmittedAnyEpoch(m) == owner = "open" /\ Guild(m) \notin blocked

(* Guards of _mutate_claimed_guild_entry. *)
Admitted(m) ==
    /\ owner = "open" /\ Guild(m) \notin blocked
    /\ epoch[Guild(m)] = turn[m].epoch

AtPc(m, pc) == turn[m].pc = pc

(* The next pc of a handler whose journal operation has answered; a cancelled
   handler ends there, whatever the answer. *)
Then(m, pc) ==
    turn' = [turn EXCEPT ![m] = IF turn[m].cancelled THEN NoTurn
                                ELSE [@ EXCEPT !.pc = pc]]

End(m) == turn' = [turn EXCEPT ![m] = NoTurn]

(* A journal operation of m's handler with the given precondition: it leaves
   row and answers, or raises -- refused, failed without effect ("lost") or
   after its effect ("late"). *)
Outcomes == {"ok", "lost", "late"}

Mark(m, allowed, row, o) ==
    /\ o # "ok" => faults < MaxFaults
    /\ faults' = IF o = "ok" THEN faults ELSE faults + 1
    /\ led' = IF allowed /\ o # "lost" THEN [led EXCEPT ![m] = row] ELSE led

(* A message arrives, for the first time or again.  It is dropped while its
   reply slot is busy or its guild is shut. *)
Deliver(m) ==
    /\ owner = "open" /\ LoopRuns
    /\ ids + Cardinality({n \in Msgs : AtPc(n, "claim")}) < MaxIds
    /\ \A n \in Msgs : SlotOf[n] = SlotOf[m] => AtPc(n, "idle")
    /\ Guild(m) \notin blocked
    /\ turn' = [turn EXCEPT ![m] = [NoTurn EXCEPT !.pc = "claim",
                                                  !.epoch = epoch[Guild(m)]]]
    /\ UNCHANGED <<durable, store, saved, owner, epoch, blocked, lock, todo,
                   fixing, counters, history>>

(* claim_discord_text: refused while a delivered turn of the session is not
   completed; a repeated delivery is answered from its row and not run. *)
Unsettled(s) ==
    \E n \in Msgs : /\ SessionOf[n] = s
                    /\ led[n].phase \in {"delivery_succeeded",
                                         "terminal_committing"}

\* Mutant: a repeated delivery is claimed again.
ClaimAgain(m, o) ==
    LET new == Admitted(m) /\ ~Unsettled(SessionOf[m]) IN
    /\ AtPc(m, "claim")
    /\ Mark(m, new, [NoRow EXCEPT !.phase = "accepted", !.id = ids + 1], o)
    /\ ids' = IF new THEN ids + 1 ELSE ids
    /\ IF new /\ o = "ok"
         THEN turn' = [turn EXCEPT ![m].pc = "claimed", ![m].id = ids + 1]
         ELSE End(m)
    /\ UNCHANGED <<ck, revoked, store, saved, owner, epoch, blocked, lock,
                   todo, fixing, resets, crashes, history>>

Claim(m, o) ==
    LET new == Admitted(m) /\ ~Unsettled(SessionOf[m]) /\ led[m] = NoRow IN
    /\ AtPc(m, "claim")
    /\ Mark(m, new, [NoRow EXCEPT !.phase = "accepted", !.id = ids + 1], o)
    /\ ids' = IF new THEN ids + 1 ELSE ids
    /\ IF new /\ o = "ok"
         THEN turn' = [turn EXCEPT ![m].pc = "claimed", ![m].id = ids + 1]
         ELSE End(m)
    /\ UNCHANGED <<ck, revoked, store, saved, owner, epoch, blocked, lock,
                   todo, fixing, resets, crashes, history>>

(* activate_guild_turn with begin_user_text_turn: the session's turn id is
   set, its rows are not yet touched. *)
Activate(m) ==
    /\ AtPc(m, "claimed") /\ LoopRuns
    /\ IF Admitted(m)
         THEN /\ store' = [store EXCEPT ![SessionOf[m]].turn = turn[m].id]
              /\ turn' = [turn EXCEPT ![m].pc = "running"]
         ELSE End(m) /\ UNCHANGED store
    /\ UNCHANGED <<durable, saved, owner, epoch, blocked, lock, todo, fixing,
                   counters, history>>

(* Generation, or anything before the reply is bound, fails: the handler
   turns to the fixed failure reply. *)
GenerationFails(m) ==
    /\ AtPc(m, "running") /\ LoopRuns /\ ~turn[m].cancelled
    /\ faults < MaxFaults /\ faults' = faults + 1
    /\ turn' = [turn EXCEPT ![m].pc = "failing"]
    /\ UNCHANGED <<durable, store, saved, owner, epoch, blocked, lock, todo,
                   fixing, ids, resets, crashes, history>>

(* prepare_ingress_delivery: mark_response_ready ... *)
\* Mutant: a reply that is bound already can be replaced.
BindReplyAgain(m, o) ==
    LET reply == IF AtPc(m, "running") THEN Answer ELSE Sorry
        allowed == Admitted(m) /\ led[m].phase \in {"accepted",
                                                     "response_ready"} IN
    /\ turn[m].pc \in {"running", "failing"}
    /\ Mark(m, allowed, [led[m] EXCEPT !.phase = "response_ready",
                                       !.reply = reply], o)
    /\ IF allowed /\ o = "ok"
         THEN turn' = [turn EXCEPT ![m] =
                         IF @.cancelled THEN NoTurn
                         ELSE [@ EXCEPT !.pc = "bound", !.reply = reply]]
         ELSE IF AtPc(m, "running") THEN Then(m, "failing") ELSE End(m)
    /\ UNCHANGED <<ck, revoked, store, saved, owner, epoch, blocked, lock,
                   todo, fixing, ids, resets, crashes, history>>

BindReply(m, o) ==
    LET reply == IF AtPc(m, "running") THEN Answer ELSE Sorry
        allowed == Admitted(m) /\ led[m].phase = "accepted" IN
    /\ turn[m].pc \in {"running", "failing"}
    /\ Mark(m, allowed, [led[m] EXCEPT !.phase = "response_ready",
                                       !.reply = reply], o)
    /\ IF allowed /\ o = "ok"
         THEN turn' = [turn EXCEPT ![m] =
                         IF @.cancelled THEN NoTurn
                         ELSE [@ EXCEPT !.pc = "bound", !.reply = reply]]
         ELSE IF AtPc(m, "running") THEN Then(m, "failing") ELSE End(m)
    /\ UNCHANGED <<ck, revoked, store, saved, owner, epoch, blocked, lock,
                   todo, fixing, ids, resets, crashes, history>>

(* ... then mark_delivery_inflight.  Past this point the reply is bound, so
   an exception sends nothing more. *)
GoInflight(m, o) ==
    LET allowed == Admitted(m) /\ led[m].phase = "response_ready" IN
    /\ AtPc(m, "bound")
    /\ Mark(m, allowed, [led[m] EXCEPT !.phase = "delivery_inflight"], o)
    /\ IF allowed /\ o = "ok" THEN Then(m, "inflight") ELSE End(m)
    /\ UNCHANGED <<ck, revoked, store, saved, owner, epoch, blocked, lock,
                   todo, fixing, ids, resets, crashes, history>>

(* The send returns, or raises before or after Discord took the message. *)
Send(m, seen, raised) ==
    /\ AtPc(m, "inflight") /\ LoopRuns /\ ~turn[m].cancelled
    /\ seen \/ raised
    /\ raised => faults < MaxFaults
    /\ faults' = IF raised THEN faults + 1 ELSE faults
    /\ sent' = [sent EXCEPT ![m] = IF seen THEN @ + 1 ELSE @]
    /\ turn' = [turn EXCEPT ![m].pc = IF raised THEN "unsure" ELSE "sent"]
    /\ UNCHANGED <<durable, store, saved, owner, epoch, blocked, lock, todo,
                   fixing, ids, resets, crashes, cut, lossy, revived>>

MarkAmbiguous(m, o) ==
    /\ AtPc(m, "unsure")
    /\ Mark(m, Admitted(m) /\ led[m].phase = "delivery_inflight",
            [led[m] EXCEPT !.phase = "delivery_ambiguous"], o)
    /\ End(m)
    /\ UNCHANGED <<ck, revoked, store, saved, owner, epoch, blocked, lock,
                   todo, fixing, ids, resets, crashes, history>>

(* confirm_ingress_delivery; when it raises, the handler marks the delivery
   ambiguous. *)
ConfirmDelivery(m, o) ==
    LET allowed == Admitted(m) /\ led[m].phase = "delivery_inflight" IN
    /\ AtPc(m, "sent")
    /\ Mark(m, allowed, [led[m] EXCEPT !.phase = "delivery_succeeded"], o)
    /\ IF allowed /\ o = "ok" THEN Then(m, "delivered") ELSE Then(m, "unsure")
    /\ UNCHANGED <<ck, revoked, store, saved, owner, epoch, blocked, lock,
                   todo, fixing, ids, resets, crashes, history>>

(* finish_assistant_text_turn *)
AppendTurn(m) ==
    /\ AtPc(m, "delivered") /\ LoopRuns /\ ~turn[m].cancelled
    /\ store' = [store EXCEPT ![SessionOf[m]].hist =
                    Append(@, Pair(m, turn[m].id, turn[m].reply))]
    /\ turn' = [turn EXCEPT ![m].pc = "commit"]
    /\ UNCHANGED <<durable, saved, owner, epoch, blocked, lock, todo, fixing,
                   counters, history>>

(* commit_completed_turn takes the lock and announces its generation to the
   journal (before_commit); the caller waits for it even when cancelled. *)
CommitMarker(m, o) ==
    LET allowed == Admitted(m) /\ led[m].phase = "delivery_succeeded" IN
    /\ AtPc(m, "commit") /\ lock = Free
    /\ Mark(m, allowed, [led[m] EXCEPT !.phase = "terminal_committing",
                                       !.gen = ck.gen + 1], o)
    /\ IF allowed /\ o = "ok"
         THEN lock' = [Free EXCEPT !.by = "commit", !.msg = m] /\ UNCHANGED turn
         ELSE End(m) /\ UNCHANGED lock
    /\ UNCHANGED <<ck, revoked, store, saved, owner, epoch, blocked, todo,
                   fixing, ids, resets, crashes, history>>

\* Mutant: a failed flush does not give the lock back.
CommitFlushKeepsLock(m, end) ==
    /\ lock.by = "commit" /\ lock.msg = m
    /\ lock' = IF Raised(end) THEN [lock EXCEPT !.msg = NoMsg] ELSE Free
    /\ Flush(end, store)
    /\ IF Raised(end) THEN End(m)
       ELSE turn' = [turn EXCEPT ![m].pc = "committed"]
    /\ UNCHANGED <<led, revoked, store, owner, epoch, blocked, todo, fixing,
                   ids, resets, crashes, sent, cut, revived>>

(* The flush of the commit, of a session that must still be at its turn. *)
CommitFlush(m, end) ==
    /\ lock.by = "commit" /\ lock.msg = m
    /\ lock' = Free
    /\ IF store[SessionOf[m]].turn = turn[m].id
         THEN /\ Flush(end, store)
              /\ IF Raised(end) THEN End(m)
                 ELSE turn' = [turn EXCEPT ![m].pc = "committed"]
         ELSE End(m) /\ UNCHANGED <<ck, saved, faults, lossy>>
    /\ UNCHANGED <<led, revoked, store, owner, epoch, blocked, todo, fixing,
                   ids, resets, crashes, sent, cut, revived>>

(* The status the commit returns is read after the lock is released. *)
TakeReceipt(m) ==
    /\ AtPc(m, "committed")
    /\ turn' = [turn EXCEPT ![m] = IF @.cancelled THEN NoTurn
                   ELSE [@ EXCEPT !.pc = "receipt", !.gen = ck.gen]]
    /\ UNCHANGED <<durable, store, saved, owner, epoch, blocked, lock, todo,
                   fixing, counters, history>>

(* complete: the receipt must name the generation of the marker. *)
CompleteTurn(m, o) ==
    /\ AtPc(m, "receipt")
    /\ Mark(m, /\ Admitted(m)
               /\ led[m].phase = "terminal_committing"
               /\ led[m].gen = turn[m].gen,
            [led[m] EXCEPT !.phase = "completed"], o)
    /\ End(m)
    /\ UNCHANGED <<ck, revoked, store, saved, owner, epoch, blocked, lock,
                   todo, fixing, ids, resets, crashes, history>>

(* A cancelled handler gives up where it waits; the commit is shielded. *)
Abandon(m) ==
    /\ turn[m].cancelled /\ turn[m].pc \notin {"idle", "commit"}
    /\ LoopRuns
    /\ End(m)
    /\ UNCHANGED <<durable, store, saved, owner, epoch, blocked, lock, todo,
                   fixing, counters, history>>

----------------------------------------------------------------------------
(* Guild reset: reset_guild_runtime_state on the event loop, and, at startup,
   the resets a crash or a failure left behind. *)

\* Mutant: the guild of the previous holder of the lock is recorded.
StartResetOfLast(g, o) ==
    /\ owner \in {"shut", "open"} /\ lock = Free
    /\ resets < MaxResets /\ ck.gen <= MaxGen
    /\ resets' = resets + 1
    /\ o = "ok"
    /\ revoked' = revoked \cup {lock.guild}
    /\ lock' = [Free EXCEPT !.by = "reset", !.guild = g]
    /\ UNCHANGED <<led, ck, store, saved, owner, epoch, blocked, turn, todo,
                   fixing, ids, crashes, faults, history>>

(* The revocation is written first; when that raises, before or after its
   effect, the reset ends there. *)
StartReset(g, o) ==
    /\ owner \in {"shut", "open"} /\ lock = Free
    /\ resets < MaxResets /\ ck.gen <= MaxGen
    /\ resets' = resets + 1
    /\ o # "ok" => faults < MaxFaults
    /\ faults' = IF o = "ok" THEN faults ELSE faults + 1
    /\ revoked' = IF o = "lost" THEN revoked ELSE revoked \cup {g}
    /\ lock' = IF o = "ok" THEN [Free EXCEPT !.by = "reset", !.guild = g]
               ELSE Free
    /\ UNCHANGED <<led, ck, store, saved, owner, epoch, blocked, turn, todo,
                   fixing, ids, crashes, history>>

(* _purge_guild_locked: the epoch moves before the journal's rows go. *)
PurgeGuild(g) ==
    /\ epoch' = [epoch EXCEPT ![g] = @ + 1]
    /\ led' = [m \in Msgs |-> IF m \in Of(g) THEN NoRow ELSE led[m]]
    /\ sent' = [m \in Msgs |-> IF m \in Of(g) THEN 0 ELSE sent[m]]
    /\ cut' = [cut EXCEPT ![g] = ids]

(* reset_guild of the owner: the guild is shut first; an owner that is not
   ready refuses, and the revocation stays.  The runtime reset clears the
   sessions and cancels the turns that were activated. *)
ResetRuntime ==
    LET g == lock.guild IN
    /\ lock.by = "reset"
    /\ blocked' = blocked \cup {g}
    /\ IF owner = "open"
         THEN /\ store' = [s \in Sessions |-> IF GuildOf[s] = g THEN NoSession
                                              ELSE store[s]]
              /\ turn' = [m \in Msgs |->
                    IF m \in Of(g) /\ turn[m].pc \notin {"idle", "claim",
                                                         "claimed"}
                    THEN [turn[m] EXCEPT !.cancelled = TRUE] ELSE turn[m]]
              /\ PurgeGuild(g)
              /\ lock' = [lock EXCEPT !.by = "purged"]
         ELSE lock' = Free /\ UNCHANGED <<store, turn, epoch, led, sent, cut>>
    /\ UNCHANGED <<ck, revoked, saved, owner, todo, fixing, counters, lossy,
                   revived>>

ProcessDies ==
    /\ owner' = "down" /\ store' = NoSessions /\ saved' = NoSessions
    /\ epoch' = [g \in Guilds |-> 0] /\ blocked' = {} /\ lock' = Free
    /\ turn' = [m \in Msgs |-> NoTurn] /\ todo' = {} /\ fixing' = NoFix

(* At startup an exception out of a reset leaves Main.  The revocation is
   written again first: when that raises it is still there. *)
RecoverReset(g, o) ==
    /\ owner = "restored" /\ lock = Free /\ g \in revoked
    /\ IF o = "ok"
         THEN /\ PurgeGuild(g)
              /\ lock' = [Free EXCEPT !.by = "purged", !.guild = g]
              /\ UNCHANGED <<store, saved, owner, blocked, turn, todo, fixing,
                             faults>>
         ELSE /\ faults < MaxFaults /\ faults' = faults + 1
              /\ ProcessDies
              /\ UNCHANGED <<led, sent, cut>>
    /\ UNCHANGED <<ck, revoked, ids, resets, crashes, lossy, revived>>

(* The checkpoint without the guild is written; a failure keeps the guild
   shut (or ends a starting process) and its revocation durable. *)
ResetFlush(end) ==
    /\ lock.by = "purged"
    /\ IF ~Raised(end) \/ owner = "open"
         THEN /\ Flush(end, store)
              /\ lock' = IF Raised(end) THEN Free
                         ELSE [lock EXCEPT !.by = "flushed"]
              /\ UNCHANGED <<store, owner, epoch, blocked, turn, todo, fixing>>
         ELSE WriteCheckpoint(end, store) /\ ProcessDies
    /\ UNCHANGED <<led, revoked, ids, resets, crashes, sent, cut, revived>>

(* The revocation goes; when that raises, before or after its effect, the
   guild stays shut until the next start. *)
FinishReset(o) ==
    /\ lock.by = "flushed"
    /\ o # "ok" => faults < MaxFaults
    /\ faults' = IF o = "ok" THEN faults ELSE faults + 1
    /\ revoked' = IF o = "lost" THEN revoked ELSE revoked \ {lock.guild}
    /\ IF o = "ok" \/ owner = "open"
         THEN /\ blocked' = IF o = "ok" THEN blocked \ {lock.guild}
                            ELSE blocked
              /\ lock' = Free
              /\ UNCHANGED <<store, saved, owner, epoch, turn, todo, fixing>>
         ELSE ProcessDies
    /\ UNCHANGED <<led, ck, ids, resets, crashes, history>>

----------------------------------------------------------------------------
(* Restart *)

Crash ==
    /\ Up /\ crashes < MaxCrashes /\ crashes' = crashes + 1
    /\ ProcessDies
    /\ UNCHANGED <<durable, ids, resets, faults, history>>

(* restore, and the journal's own recovery: what was in flight is ambiguous.
   A checkpoint that cannot be read, or is refused as too old or from after
   the wall clock, is revoked, and so is one whose revoked file is left. *)
Restored(s) == IF GuildOf[s] \in revoked THEN NoSession ELSE ck.sess[s]

Start(end) ==
    /\ owner = "down"
    /\ owner' = "restored"
    /\ IF end = "ok"
         THEN /\ store' = [s \in Sessions |-> Restored(s)]
              /\ UNCHANGED <<ck, faults, lossy>>
         ELSE store' = NoSessions /\ WriteCheckpoint(end, NoSessions)
    /\ saved' = store'
    /\ led' = [m \in Msgs |->
                 IF led[m].phase = "delivery_inflight"
                 THEN [led[m] EXCEPT !.phase = "delivery_ambiguous"]
                 ELSE led[m]]
    /\ UNCHANGED <<revoked, epoch, blocked, turn, lock, todo, fixing, ids,
                   resets, crashes, sent, cut, revived>>

(* A revocation that loses its head (SessionCheckpoint) leaves a revoked file
   that could not be removed as good as new for the start after it. *)
Revive ==
    /\ owner = "down" /\ ck.left # NoFile
    /\ ck' = [gen |-> ck.left.gen, sess |-> ck.left.sess, left |-> NoFile]
    /\ lossy' = TRUE /\ revived' = TRUE
    /\ UNCHANGED <<led, revoked, store, saved, owner, epoch, blocked, turn,
                   lock, todo, fixing, counters, sent, cut>>

StartReconciling ==
    /\ owner = "restored" /\ lock = Free /\ revoked = {}
    /\ owner' = "reconciling"
    /\ todo' = {m \in Msgs : led[m].phase \in {"delivery_succeeded",
                                               "terminal_committing"}}
    /\ UNCHANGED <<durable, store, saved, epoch, blocked, turn, lock, fixing,
                   counters, history>>

(* _exact_history_tail, on the session's current turn. *)
TailIs(m) ==
    LET cur == store[SessionOf[m]] IN
    /\ cur.turn = led[m].id
    /\ cur.hist # <<>>
    /\ Last(cur.hist).text = TextOf[m] /\ Last(cur.hist).reply = led[m].reply

\* Mutant: the delivered turn is appended without looking for it.
WithTurnAppended(m) ==
    [turn |-> led[m].id,
     hist |-> Append(store[SessionOf[m]].hist, Pair(m, led[m].id, led[m].reply))]

(* The session once the delivered turn is in it. *)
WithTurn(m) ==
    IF TailIs(m) THEN store[SessionOf[m]]
    ELSE [turn |-> led[m].id,
          hist |-> Append(store[SessionOf[m]].hist,
                          Pair(m, led[m].id, led[m].reply))]

(* The session is at this turn but does not end with it. *)
Contradicted(m) == store[SessionOf[m]].turn = led[m].id /\ ~TailIs(m)

\* Mutant: the generation alone is taken for the turn.
VerifiedTerminalByGeneration(m) ==
    led[m].phase = "terminal_committing" /\ ck.gen = led[m].gen

(* verify_recovered_terminal_commit *)
VerifiedTerminal(m) ==
    led[m].phase = "terminal_committing" /\ TailIs(m) /\ ck.gen = led[m].gen

(* What may be committed again: a delivered row, or a marker whose exact
   predecessor is the checkpoint (_verified_checkpoint_predecessor). *)
Recommits(m) ==
    /\ ~Contradicted(m)
    /\ \/ led[m].phase = "delivery_succeeded"
       \/ led[m].phase = "terminal_committing" /\ ~VerifiedTerminal(m)
          /\ ck.gen + 1 = led[m].gen

Reconciling(m) == owner = "reconciling" /\ fixing = NoFix /\ m \in todo

ReconcileVerified(m) ==
    /\ Reconciling(m) /\ VerifiedTerminal(m)
    /\ led' = [led EXCEPT ![m].phase = "completed"]
    /\ todo' = todo \ {m}
    /\ UNCHANGED <<ck, revoked, store, saved, owner, epoch, blocked, turn,
                   lock, fixing, counters, history>>

ReconcileMark(m) ==
    /\ Reconciling(m) /\ Recommits(m)
    /\ led' = [led EXCEPT ![m].phase = "terminal_committing",
                          ![m].gen = ck.gen + 1]
    /\ store' = [store EXCEPT ![SessionOf[m]] = WithTurn(m)]
    /\ fixing' = [msg |-> m, was |-> store[SessionOf[m]]]
    /\ UNCHANGED <<ck, revoked, saved, owner, epoch, blocked, turn, lock,
                   todo, counters, history>>

(* A failed recommit puts the session back and leaves the owner shut. *)
ReconcileCommit(end) ==
    LET m == fixing.msg IN
    /\ owner = "reconciling" /\ m # NoMsg /\ ck.gen < led[m].gen
    /\ Flush(end, store)
    /\ IF ~Raised(end) THEN UNCHANGED <<store, fixing, todo>>
       ELSE /\ store' = [store EXCEPT ![SessionOf[m]] = fixing.was]
            /\ fixing' = NoFix
            /\ todo' = todo \ {m}
    /\ UNCHANGED <<led, revoked, owner, epoch, blocked, turn, lock, ids,
                   resets, crashes, sent, cut, revived>>

ReconcileComplete ==
    LET m == fixing.msg IN
    /\ owner = "reconciling" /\ m # NoMsg /\ ck.gen = led[m].gen
    /\ led' = [led EXCEPT ![m].phase = "completed"]
    /\ fixing' = NoFix /\ todo' = todo \ {m}
    /\ UNCHANGED <<ck, revoked, store, saved, owner, epoch, blocked, turn,
                   lock, counters, history>>

(* Neither verified nor committable: the row stays, the owner stays shut. *)
ReconcileUnresolved(m) ==
    /\ Reconciling(m) /\ ~VerifiedTerminal(m) /\ ~Recommits(m)
    /\ todo' = todo \ {m}
    /\ UNCHANGED <<durable, store, saved, owner, epoch, blocked, turn, lock,
                   fixing, counters, history>>

(* The owner opens only if no delivered turn is left unsettled; Main then
   bootstraps a new checkpoint with an empty first generation. *)
Open ==
    /\ owner = "reconciling" /\ todo = {} /\ fixing = NoFix
    /\ owner' = IF \E s \in Sessions : Unsettled(s) THEN "shut" ELSE "open"
    /\ ck' = IF owner' = "open" /\ ck.gen = 0 THEN [ck EXCEPT !.gen = 1] ELSE ck
    /\ UNCHANGED <<led, revoked, store, saved, epoch, blocked, turn, lock,
                   todo, fixing, counters, history>>

----------------------------------------------------------------------------
Handler(m) ==
    \/ Activate(m) \/ AppendTurn(m) \/ TakeReceipt(m) \/ Abandon(m)
    \/ \E o \in Outcomes :
          \/ Claim(m, o) \/ BindReply(m, o) \/ GoInflight(m, o)
          \/ MarkAmbiguous(m, o) \/ ConfirmDelivery(m, o)
          \/ CommitMarker(m, o) \/ CompleteTurn(m, o)
    \/ \E seen, raised \in BOOLEAN : Send(m, seen, raised)
    \/ \E end \in FlushEnds : CommitFlush(m, end)

ResetSteps ==
    \/ ResetRuntime \/ (\E end \in FlushEnds : ResetFlush(end))
    \/ \E o \in Outcomes : FinishReset(o)

Restart ==
    \/ (\E end \in {"ok", "dropped", "left"} : Start(end)) \/ Revive
    \/ (\E g \in Guilds, o \in {"ok", "lost"} : RecoverReset(g, o))
    \/ StartReconciling
    \/ \E m \in Msgs : \/ ReconcileVerified(m) \/ ReconcileMark(m)
                       \/ ReconcileUnresolved(m)
    \/ (\E end \in FlushEnds : ReconcileCommit(end)) \/ ReconcileComplete
    \/ Open

Next ==
    \/ \E m \in Msgs : Deliver(m) \/ GenerationFails(m) \/ Handler(m)
    \/ \E end \in FlushEnds : PeriodicFlush(end)
    \/ \E g \in Guilds, o \in Outcomes : StartReset(g, o)
    \/ ResetSteps \/ Restart \/ Crash

(* asyncio runs every ready task, a worker thread returns, and a reset runs
   to its end on the event loop. *)
Fairness ==
    /\ WF_vars(ResetSteps)
    /\ \A m \in Msgs : WF_vars(~AtPc(m, "idle") /\ Handler(m))

Spec == Init /\ [][Next]_vars /\ Fairness

----------------------------------------------------------------------------
(* Properties *)

Phases == {"none", "accepted", "response_ready", "delivery_inflight",
           "delivery_ambiguous", "delivery_succeeded", "terminal_committing",
           "completed"}

TypeOK ==
    /\ led \in [Msgs -> [phase : Phases, id : Nat,
                         reply : {Answer, Sorry, NoReply}, gen : Nat]]
    /\ ck.gen \in Nat /\ revoked \subseteq Guilds /\ blocked \subseteq Guilds
    /\ owner \in {"down", "restored", "reconciling", "shut", "open"}
    /\ epoch \in [Guilds -> Nat] /\ todo \subseteq Msgs
    /\ fixing.msg \in Msgs \cup {NoMsg}
    /\ lock.by \in {"none", "commit", "reset", "purged", "flushed"}

(* A user sees at most one reply to a message, whatever is redelivered,
   fails or crashes, as long as its guild is not reset. *)
OneReply == \A m \in Msgs : sent[m] <= 1

(* A turn enters a session's history once, in memory and in the checkpoint,
   although the handler and the restart reconciliation both append it. *)
NoTurnTwice ==
    \A s \in Sessions : \A h \in {store[s].hist, ck.sess[s].hist} :
       \A i, j \in DOMAIN h : h[i].id = h[j].id => i = j

(* As long as no revoked file has been taken for good again, nothing of a turn
   claimed before a guild's reset is left or returns: not in the sessions, not
   in what a restart would restore, not in the journal, although worker
   threads of cancelled turns go on after the reset. *)
ResetForgets ==
    ~revived => \A m \in Msgs : LET s == SessionOf[m]  g == Guild(m) IN
       /\ led[m] # NoRow => led[m].id > cut[g]
       /\ \A ses \in {store[s], Restored(s)} :
             /\ ses.turn # 0 => ses.turn > cut[g]
             /\ \A i \in DOMAIN ses.hist : ses.hist[i].id > cut[g]

(* A completed row is remembered: as long as no failed write cost the
   checkpoint its content, a restart restores the turn. *)
CompletedIsRemembered ==
    \A m \in Msgs :
       led[m].phase = "completed" /\ Guild(m) \notin revoked /\ ~lossy =>
          \E i \in DOMAIN ck.sess[SessionOf[m]].hist :
             ck.sess[SessionOf[m]].hist[i].id = led[m].id

(* The contract of the restart: after a crash between the checkpoint and
   complete, the row is completed from the checkpoint, so an owner is not
   left shut over a turn that its session, as restored, ends with. *)
CommittedCrashCompletes ==
    owner = "shut" =>
       \A m \in Msgs : led[m].phase = "terminal_committing" => ~TailIs(m)

(* A recovered turn that is being committed is the one its session ends
   with: an equal exchange of another turn does not count as it. *)
RecoversItsOwnTurn ==
    LET m == fixing.msg IN
    m # NoMsg => Last(store[SessionOf[m]].hist).id = led[m].id

(* Every handler comes to its end, although it waits for a checkpoint lock
   that resets and the commits of other handlers take, and may be cancelled
   while a worker thread still runs for it. *)
HandlersEnd == \A m \in Msgs : []<>AtPc(m, "idle")

(* The journal that the owner sees keeps the promise of DeliveryLedger. *)
Ledger == INSTANCE DeliveryLedger
             WITH Deliveries <- Msgs, Unbound <- NoReply, row <- led
KeepsLedger == Ledger!Spec

============================================================================
