------------------------- MODULE IngressTurnProofs -------------------------
(***************************************************************************)
(* Proofs about IngressTurn, for every set of messages, sessions, guilds   *)
(* and slots and every bound.                                              *)
(*                                                                         *)
(* The argument has two layers.  JInv is about rows and handlers: a        *)
(* handler that is live (it works for the present epoch of its guild)      *)
(* agrees with its row on id, phase and reply, is the only handler of its  *)
(* slot, and its session has no other delivered row; a handler that a      *)
(* reset has outrun is never admitted again.  From it follow the types,    *)
(* that a user sees at most one reply, and that rows move as               *)
(* DeliveryLedger promises (RowsMove).  KInv is about sessions: whatever   *)
(* the owner may hold in memory, restore from the checkpoint or roll back  *)
(* to fits the rows (a turn that is not delivered is not in it, a          *)
(* delivered one is not in it or ends it) and has nothing from before the  *)
(* guild's reset, unless the revocation says that it will be dropped.      *)
(***************************************************************************)
EXTENDS IngressTurn, SequenceTheorems, TLAPS

Replies == {Answer, Sorry, NoReply}
Entries == [id : Nat, text : {TextOf[m] : m \in Msgs}, reply : Replies]
SessionStates == [turn : Nat, hist : Seq(Entries)]
CkFiles == [gen : Nat, sess : [Sessions -> SessionStates]]
Checkpoints == [gen : Nat, sess : [Sessions -> SessionStates], left : CkFiles]
Pcs == {"idle", "claim", "claimed", "running", "failing", "bound", "inflight", "sent",
        "unsure", "delivered", "commit", "committed", "receipt"}
Rows == [phase : Phases, id : Nat, reply : Replies, gen : Nat]
Turns == [pc : Pcs, id : Nat, epoch : Nat, reply : Replies, gen : Nat, cancelled : BOOLEAN]
Early == {"accepted", "response_ready", "delivery_inflight", "delivery_ambiguous"}
Delivered == {"delivery_succeeded", "terminal_committing"}
Locks == {"none", "commit", "reset", "purged", "flushed"}

\* The types TypeOK leaves out.
MoreTypes ==
    /\ turn \in [Msgs -> Turns] /\ store \in [Sessions -> SessionStates]
    /\ ck \in Checkpoints
    /\ fixing \in [msg : Msgs \cup {NoMsg}, was : SessionStates]
    /\ lock \in [by : Locks, msg : Msgs \cup {NoMsg}, guild : Guilds \cup {NoGuild}]
    /\ lock.by \in {"reset", "purged", "flushed"} => lock.guild \in Guilds
    /\ ids \in Nat /\ sent \in [Msgs -> Nat] /\ cut \in [Guilds -> Nat]

\* The handler of m works for the present epoch of its guild.
Live(m) == turn[m].pc \notin {"idle", "claim"} /\ turn[m].epoch = epoch[Guild(m)]

\* Handlers run only while the owner is open, one per reply slot; one that is
\* past its activation and not cancelled is live.
HandlersOK ==
    /\ \A m \in Msgs :
          /\ owner # "open" => turn[m] = NoTurn
          /\ turn[m].epoch <= epoch[Guild(m)]
          /\ turn[m].pc \notin {"idle", "claim", "claimed"} /\ ~turn[m].cancelled => Live(m)
          /\ turn[m].cancelled => turn[m].epoch # epoch[Guild(m)]
    /\ \A m, n \in Msgs :
          SlotOf[m] = SlotOf[n] /\ turn[m].pc # "idle" /\ turn[n].pc # "idle" => m = n

\* The phase of a row whose live handler is at pc, and holds the lock or not.
PhaseAt(pc, held, phase) ==
    /\ pc \in {"claimed", "running"} => phase = "accepted"
    /\ pc = "failing" => phase \in {"accepted", "response_ready"}
    /\ pc = "bound" => phase = "response_ready"
    /\ pc \in {"inflight", "sent"} => phase = "delivery_inflight"
    /\ pc = "unsure" => phase \in {"delivery_inflight", "delivery_succeeded"}
    /\ pc = "delivered" => phase = "delivery_succeeded"
    /\ pc = "commit" /\ ~held => phase = "delivery_succeeded"
    /\ pc = "commit" /\ held => phase = "terminal_committing"
    /\ pc \in {"committed", "receipt"} => phase = "terminal_committing"

Held(m) == lock.by = "commit" /\ lock.msg = m

\* No other turn of m's session is delivered and unsettled.
Alone(m) ==
    \A n \in Msgs : SessionOf[n] = SessionOf[m] /\ led[n].phase \in Delivered => n = m

\* A live handler and its row agree, and it is alone.
LiveOK ==
    \A m \in Msgs : Live(m) =>
        /\ led[m].id = turn[m].id /\ PhaseAt(turn[m].pc, Held(m), led[m].phase) /\ Alone(m)
        /\ turn[m].pc \notin {"claimed", "running", "failing"} =>
              led[m].reply = turn[m].reply

RowsOK ==
    /\ \A m \in Msgs :
          /\ led[m].phase = "none" => led[m] = NoRow
          /\ led[m].phase # "none" => led[m].id \in 1..ids
          /\ led[m].phase = "accepted" => led[m].reply = NoReply
          /\ led[m].phase \notin {"terminal_committing", "completed"} => led[m].gen = 0
    /\ \A m, n \in Msgs :
          led[m].phase # "none" /\ led[n].phase # "none" /\ led[m].id = led[n].id => m = n
    /\ \A m, n \in Msgs :
          /\ SessionOf[m] = SessionOf[n]
          /\ led[m].phase \in Delivered /\ led[n].phase \in Delivered
          => m = n

LockOK == lock.by = "commit" => /\ lock.msg \in Msgs /\ Live(lock.msg)
                                /\ turn[lock.msg].pc = "commit"
FixOK == fixing.msg # NoMsg => owner = "reconciling" /\ led[fixing.msg].phase = "terminal_committing"

SentOK ==
    \A m \in Msgs :
        /\ led[m].phase \in {"none", "accepted", "response_ready"} => sent[m] = 0
        /\ turn[m].pc = "inflight" => sent[m] = 0

JInv == /\ TypeOK /\ MoreTypes /\ HandlersOK /\ LiveOK /\ RowsOK /\ LockOK /\ FixOK
        /\ SentOK /\ OneReply

\* A session has a turn; it has every turn once; it ends with the turn of row r.
Has(ses, id) == \E i \in DOMAIN ses.hist : ses.hist[i].id = id
Distinct(ses) == \A i, j \in DOMAIN ses.hist : ses.hist[i].id = ses.hist[j].id => i = j
EndsWith(ses, m, r) ==
    /\ ses.turn = r.id /\ ses.hist # <<>>
    /\ Last(ses.hist).text = TextOf[m] /\ Last(ses.hist).reply = r.reply

\* A row that is not delivered is not in the session; one that is delivered is
\* not in it or ends it.
Fits(rows, s, ses) ==
    \A m \in Msgs : SessionOf[m] = s =>
        /\ rows[m].phase \in Early => ~Has(ses, rows[m].id)
        /\ rows[m].phase \in Delivered /\ Has(ses, rows[m].id) => EndsWith(ses, m, rows[m])

\* Session s may be in state ses when n claims are granted.
Good(rows, n, s, ses) ==
    /\ ses \in SessionStates /\ Distinct(ses) /\ ses.turn <= n
    /\ \A i \in DOMAIN ses.hist : ses.hist[i].id <= n
    /\ Fits(rows, s, ses)

\* Nothing in the session is from before claim c, or a revoked file has been
\* taken for good again.
After(c, ses) ==
    \/ revived
    \/ (ses.turn # 0 => ses.turn > c) /\ \A i \in DOMAIN ses.hist : ses.hist[i].id > c

\* The sessions in memory, on disk, in a revoked file that is still there and
\* kept for a rollback are good; a live handler's session is at its turn and does not have it before it is appended.
SessionsOK ==
    /\ \A s \in Sessions : /\ Good(led, ids, s, store[s]) /\ Good(led, ids, s, ck.sess[s])
                           /\ Good(led, ids, s, ck.left.sess[s])
    /\ fixing.msg # NoMsg => Good(led, ids, SessionOf[fixing.msg], fixing.was)
    /\ \A m \in Msgs : Live(m) =>
          /\ turn[m].pc # "claimed" => store[SessionOf[m]].turn = turn[m].id
          /\ turn[m].pc = "delivered" => ~Has(store[SessionOf[m]], turn[m].id)

\* Nothing from before a guild's reset is left; while the reset is under way
\* the revocation says so of the checkpoint.
CutOK ==
    /\ \A g \in Guilds : cut[g] <= ids
    /\ \A m \in Msgs : led[m] # NoRow => led[m].id > cut[Guild(m)]
    /\ \A s \in Sessions :
          /\ After(cut[GuildOf[s]], store[s])
          /\ GuildOf[s] \notin revoked => After(cut[GuildOf[s]], ck.sess[s])
          /\ GuildOf[s] \in revoked /\ owner = "restored" => store[s] = NoSession
    /\ fixing.msg # NoMsg => After(cut[Guild(fixing.msg)], fixing.was)
    /\ lock.by \in {"reset", "purged", "flushed"} => lock.guild \in revoked
    /\ lock.by = "flushed" =>
          \A s \in Sessions : GuildOf[s] = lock.guild => After(cut[lock.guild], ck.sess[s])

KInv == JInv /\ SessionsOK /\ CutOK

-----------------------------------------------------------------------------
(* Rows and handlers *)

\* The records the model starts from are well typed.
LEMMA ConstantTypes ==
    /\ NoRow \in Rows /\ NoTurn \in Turns /\ NoSession \in SessionStates
    /\ NoSessions \in [Sessions -> SessionStates]
    /\ NoFile \in CkFiles /\ NoFix \in [msg : Msgs \cup {NoMsg}, was : SessionStates]
    /\ Free \in [by : Locks, msg : Msgs \cup {NoMsg}, guild : Guilds \cup {NoGuild}]
<1>1. NoSession \in SessionStates
  BY DEF NoSession, SessionStates
<1>2. NoRow \in Rows /\ NoTurn \in Turns
  BY DEF NoRow, Rows, Replies, Phases, NoTurn, Turns, Pcs
<1>3. NoFile \in CkFiles
  BY <1>1 DEF NoFile, NoSessions, CkFiles
<1> QED BY <1>1, <1>2, <1>3 DEF NoSessions, NoFix, Free, Locks

\* Every message has a session, and with it a guild.
LEMMA GuildType == \A m \in Msgs : SessionOf[m] \in Sessions /\ Guild(m) \in Guilds
BY TurnAssumption DEF Guild

\* What a journal operation leaves.
LEMMA MarkEffect ==
    ASSUME JInv, NEW m \in Msgs, NEW allowed \in BOOLEAN, NEW row \in Rows,
           NEW o \in Outcomes, Mark(m, allowed, row, o)
    PROVE  \/ allowed /\ led' = [led EXCEPT ![m] = row]
           \/ ~(allowed /\ o = "ok") /\ led' = [led EXCEPT ![m] = led[m]]
<1>1. led \in [Msgs -> Rows]
  BY DEF JInv, TypeOK, Rows, Replies
<1>2. led = [led EXCEPT ![m] = led[m]]
  BY <1>1
<1> QED BY <1>2 DEF Mark, Outcomes

\* The other handlers of a reply slot are idle, so a live handler's session
\* has no other live handler.
LEMMA SlotAlone ==
    ASSUME JInv, NEW m \in Msgs, turn[m].pc # "idle"
    PROVE  /\ owner = "open"
           /\ \A n \in Msgs : SlotOf[n] = SlotOf[m] /\ n # m => turn[n].pc = "idle"
BY DEF JInv, HandlersOK, NoTurn

\* A step of m's handler, which leaves turn t and row r: what it does not touch,
Frame(m, t, r) ==
    /\ owner = "open"
    /\ \A n \in Msgs : SlotOf[n] = SlotOf[m] /\ n # m => turn[n].pc = "idle"
    /\ turn' = [turn EXCEPT ![m] = t] /\ led' = [led EXCEPT ![m] = r]
    /\ UNCHANGED <<revoked, owner, epoch, blocked, todo, fixing, cut>>
    /\ store' \in [Sessions -> SessionStates]
    /\ ck' \in Checkpoints
    /\ ids' \in {ids, ids + 1}

\* what becomes of the lock,
LockStep(m, t) ==
    \/ lock' = lock /\ (Held(m) => t = turn[m])
    \/ lock' = Free /\ Held(m)
    \/ /\ lock = Free /\ lock' = [Free EXCEPT !.by = "commit", !.msg = m]
       /\ t = turn[m] /\ t.pc = "commit" /\ Live(m)

\* of the replies the user has seen,
SentStep(m, t, r) ==
    /\ sent' \in [Msgs -> Nat] /\ (\A n \in Msgs : n # m => sent'[n] = sent[n])
    /\ sent'[m] <= 1
    /\ r.phase \in {"none", "accepted", "response_ready"} => sent'[m] = 0
    /\ t.pc = "inflight" => sent'[m] = 0

\* of the handler,
TurnStep(m, t) ==
    /\ t.epoch <= epoch[Guild(m)] /\ (t.cancelled => t.epoch # epoch[Guild(m)])
    /\ \/ t.pc \in {"idle", "claim", "claimed"}
       \/ t.cancelled
       \/ t.epoch = epoch[Guild(m)]

\* of the row,
RowStep(m, r) ==
    /\ \/ r = led[m]
       \/ r.phase # "none" /\ r.id = ids + 1 /\ ids' = ids + 1
       \/ r.phase # "none" /\ led[m].phase # "none" /\ r.id = led[m].id
    /\ r.phase = "accepted" => r.reply = NoReply
    /\ r.phase \notin {"terminal_committing", "completed"} => r.gen = 0
    /\ r.phase \in Delivered => Alone(m)

\* and that a handler which is still live agrees with its row.
Agrees(m, t, r) ==
    t.pc \notin {"idle", "claim"} /\ t.epoch = epoch[Guild(m)] =>
        /\ r.id = t.id /\ PhaseAt(t.pc, Held(m)', r.phase) /\ Alone(m)
        /\ t.pc \notin {"claimed", "running", "failing"} => r.reply = t.reply

\* Such a step keeps the invariant.
LEMMA HandlerKeeps ==
    ASSUME JInv, NEW m \in Msgs, NEW t \in Turns, NEW r \in Rows, Frame(m, t, r),
           LockStep(m, t), SentStep(m, t, r), TurnStep(m, t), RowStep(m, r), Agrees(m, t, r)
    PROVE  JInv'
<1> USE DEF Frame, LockStep, SentStep, TurnStep, RowStep, Agrees
<1>t. /\ turn \in [Msgs -> Turns] /\ led \in [Msgs -> Rows] /\ ids \in Nat
      /\ SessionOf \in [Msgs -> Sessions] /\ epoch \in [Guilds -> Nat]
  BY TurnAssumption DEF JInv, TypeOK, MoreTypes, Rows, Replies
<1>1. /\ turn' \in [Msgs -> Turns] /\ turn'[m] = t
      /\ \A n \in Msgs : n # m => turn'[n] = turn[n]
  BY <1>t
<1>2. /\ led' \in [Msgs -> Rows] /\ led'[m] = r
      /\ \A n \in Msgs : n # m => led'[n] = led[n]
  BY <1>t
<1>3. TypeOK' /\ MoreTypes'
  <2>1. lock' \in [by : Locks, msg : Msgs \cup {NoMsg}, guild : Guilds \cup {NoGuild}]
        /\ (lock'.by \in {"reset", "purged", "flushed"} => lock'.guild \in Guilds)
    <3>1. CASE lock' = [Free EXCEPT !.by = "commit", !.msg = m]
      <4>1. lock' = [by |-> "commit", msg |-> m, guild |-> NoGuild]
        BY <3>1 DEF Free
      <4> QED BY <4>1 DEF Locks
    <3>2. CASE lock' = Free
      <4>1. Free.by = "none"
        BY DEF Free
      <4> QED BY <3>2, <4>1, ConstantTypes
    <3>3. CASE lock' = lock
      BY <3>3 DEF JInv, MoreTypes
    <3> QED BY <3>1, <3>2, <3>3
  <2>2. ck'.gen \in Nat /\ lock'.by \in Locks
    BY <2>1 DEF Checkpoints
  <2> QED BY <1>1, <1>2, <1>t, <2>1, <2>2 DEF JInv, TypeOK, MoreTypes, Rows, Replies, Locks
<1>4. \A n \in Msgs : n # m => (Live(n)' <=> Live(n))
  BY <1>1 DEF Live, Guild
<1>5. Live(m)' <=> t.pc \notin {"idle", "claim"} /\ t.epoch = epoch[Guild(m)]
  BY <1>1 DEF Live, Guild
<1>6. \A n \in Msgs : n # m /\ SessionOf[n] = SessionOf[m] => ~Live(n)
  BY TurnAssumption DEF Live
<1>7. ASSUME NEW n \in Msgs, n # m PROVE Held(n)' <=> Held(n)
  <2>1. CASE lock' = lock
    BY <2>1 DEF Held
  <2>2. CASE lock' = Free /\ Held(m)
    BY <1>7, <2>2 DEF Held, Free
  <2>3. CASE lock = Free /\ lock' = [Free EXCEPT !.by = "commit", !.msg = m]
    <3>1. lock'.msg = m /\ lock.by = "none"
      BY <2>3 DEF Free
    <3> QED BY <1>7, <3>1 DEF Held
  <2> QED BY <2>1, <2>2, <2>3
<1>8. HandlersOK'
  <2>1. ASSUME NEW n \in Msgs
        PROVE  /\ owner' # "open" => turn'[n] = NoTurn
               /\ turn'[n].epoch <= epoch'[Guild(n)]
               /\ /\ turn'[n].pc \notin {"idle", "claim", "claimed"}
                  /\ ~turn'[n].cancelled
                  => Live(n)'
               /\ turn'[n].cancelled => turn'[n].epoch # epoch'[Guild(n)]
    <3>1. CASE n = m
      BY <1>1, <1>5, <3>1
    <3>2. CASE n # m
      BY <1>1, <1>4, <3>2 DEF JInv, HandlersOK
    <3> QED BY <3>1, <3>2
  <2>2. ASSUME NEW n1 \in Msgs, NEW n2 \in Msgs, SlotOf[n1] = SlotOf[n2],
               turn'[n1].pc # "idle", turn'[n2].pc # "idle"
        PROVE  n1 = n2
    BY <1>1, <2>2 DEF JInv, HandlersOK
  <2> QED BY <2>1, <2>2 DEF HandlersOK, Guild
<1>9. \A n \in Msgs : Live(n) => Alone(n)
  BY DEF JInv, LiveOK
<1>10. LiveOK'
  <2>1. Alone(m) => Alone(m)'
    BY <1>2 DEF Alone
  <2>2. ASSUME NEW n \in Msgs, n # m, Live(n) PROVE Alone(n)'
    <3>1. SessionOf[n] # SessionOf[m]
      BY <1>6, <2>2
    <3> QED BY <1>2, <1>9, <2>2, <3>1 DEF Alone
  <2>3. ASSUME NEW n \in Msgs, Live(n)'
        PROVE  /\ led'[n].id = turn'[n].id /\ PhaseAt(turn'[n].pc, Held(n)', led'[n].phase)
               /\ Alone(n)'
               /\ turn'[n].pc \notin {"claimed", "running", "failing"} =>
                     led'[n].reply = turn'[n].reply
    <3>1. CASE n = m
      BY <1>1, <1>2, <1>5, <2>1, <2>3, <3>1
    <3>2. CASE n # m
      <4>1. Live(n)
        BY <1>4, <2>3, <3>2
      <4>2. /\ led[n].id = turn[n].id /\ PhaseAt(turn[n].pc, Held(n), led[n].phase)
            /\ turn[n].pc \notin {"claimed", "running", "failing"} =>
                  led[n].reply = turn[n].reply
        BY <4>1 DEF JInv, LiveOK
      <4>3. PhaseAt(turn'[n].pc, Held(n)', led'[n].phase)
        BY <1>1, <1>2, <1>7, <3>2, <4>2 DEF PhaseAt
      <4> QED BY <1>1, <1>2, <2>2, <3>2, <4>1, <4>2, <4>3
    <3> QED BY <3>1, <3>2
  <2> QED BY <2>3 DEF LiveOK, PhaseAt
<1>11. RowsOK'
  <2>1. ASSUME NEW n \in Msgs
        PROVE  /\ led'[n].phase = "none" => led'[n] = NoRow
               /\ led'[n].phase # "none" => led'[n].id \in 1..ids'
               /\ led'[n].phase = "accepted" => led'[n].reply = NoReply
               /\ led'[n].phase \notin {"terminal_committing", "completed"} => led'[n].gen = 0
    BY <1>t, <1>2 DEF JInv, RowsOK
  <2>2. ASSUME NEW n1 \in Msgs, NEW n2 \in Msgs, led'[n1].phase # "none",
               led'[n2].phase # "none", led'[n1].id = led'[n2].id
        PROVE  n1 = n2
    <3>1. \A n \in Msgs : led[n].phase # "none" => led[n].id # ids + 1
      BY <1>t DEF JInv, RowsOK
    <3>2. r.phase # "none" /\ r.id # ids + 1 => r.id = led[m].id /\ led[m].phase # "none"
      OBVIOUS
    <3> QED BY <1>2, <2>2, <3>1, <3>2 DEF JInv, RowsOK
  <2>3. ASSUME NEW n1 \in Msgs, NEW n2 \in Msgs, SessionOf[n1] = SessionOf[n2],
               led'[n1].phase \in Delivered, led'[n2].phase \in Delivered
        PROVE  n1 = n2
    BY <1>2, <2>3 DEF JInv, RowsOK, Alone
  <2> QED BY <2>1, <2>2, <2>3 DEF RowsOK
<1>12. LockOK'
  <2>1. CASE lock' = lock /\ (Held(m) => t = turn[m])
    <3>1. CASE Held(m)
      BY <1>1, <1>5, <2>1, <3>1 DEF JInv, LockOK, Held, Live
    <3>2. CASE ~Held(m)
      BY <1>1, <1>4, <2>1, <3>2 DEF JInv, LockOK, Held, Live, Guild
    <3> QED BY <3>1, <3>2
  <2>2. CASE lock' = Free
    BY <2>2 DEF LockOK, Free
  <2>3. CASE /\ lock' = [Free EXCEPT !.by = "commit", !.msg = m]
             /\ t = turn[m] /\ t.pc = "commit" /\ Live(m)
    BY <1>1, <2>3 DEF LockOK, Free, Live, Guild
  <2> QED BY <2>1, <2>2, <2>3
<1>13. FixOK' /\ SentOK' /\ OneReply'
  <2>1. FixOK'
    BY DEF JInv, FixOK
  <2>2. SentOK' /\ OneReply'
    BY <1>1, <1>2 DEF JInv, SentOK, OneReply
  <2> QED BY <2>1, <2>2
<1> QED BY <1>3, <1>8, <1>10, <1>11, <1>12, <1>13 DEF JInv

\* The types of the state, as the lemmas below need them.
LEMMA StepTypes ==
    ASSUME JInv
    PROVE  /\ turn \in [Msgs -> Turns] /\ led \in [Msgs -> Rows] /\ ids \in Nat
           /\ store \in [Sessions -> SessionStates] /\ epoch \in [Guilds -> Nat]
           /\ ck \in Checkpoints /\ ck.gen \in Nat /\ ck.sess \in [Sessions -> SessionStates]
           /\ ck.left \in CkFiles /\ sent \in [Msgs -> Nat]
           /\ \A m \in Msgs : led = [led EXCEPT ![m] = led[m]]
           /\ \A m \in Msgs : turn = [turn EXCEPT ![m] = turn[m]]
<1>1. turn \in [Msgs -> Turns] /\ led \in [Msgs -> Rows]
  BY DEF JInv, TypeOK, MoreTypes, Rows, Replies
<1> QED BY <1>1 DEF JInv, TypeOK, MoreTypes, Checkpoints

\* A step that leaves the row alone.
LEMMA SameRow ==
    ASSUME JInv, NEW m \in Msgs, NEW t \in Turns, sent' = sent,
           t.pc = "inflight" => turn[m].pc = "inflight" \/ sent[m] = 0
    PROVE  led[m] \in Rows /\ RowStep(m, led[m]) /\ SentStep(m, t, led[m])
<1>1. led[m] \in Rows
  BY StepTypes
<1>2. RowStep(m, led[m])
  BY DEF JInv, RowsOK, RowStep, Alone
<1>3. SentStep(m, t, led[m])
  BY StepTypes DEF JInv, SentOK, OneReply, SentStep
<1> QED BY <1>1, <1>2, <1>3

\* A handler that ends agrees with whatever row it leaves.
LEMMA EndStep ==
    ASSUME JInv, NEW m \in Msgs, NEW r \in Rows
    PROVE  NoTurn \in Turns /\ TurnStep(m, NoTurn) /\ Agrees(m, NoTurn, r)
<1>1. epoch[Guild(m)] \in Nat
  BY StepTypes, GuildType
<1> QED BY <1>1, ConstantTypes DEF TurnStep, Agrees, NoTurn

\* Steps other than the commit's run while the handler does not hold the lock.
LEMMA NotHeld ==
    ASSUME JInv, NEW m \in Msgs, turn[m].pc # "commit", NEW t, lock' = lock
    PROVE  ~Held(m) /\ ~Held(m)' /\ LockStep(m, t)
BY DEF Held, JInv, LockOK, LockStep

\* The handler an operation is admitted for is live, so it agrees with its row.
LEMMA AdmittedLive ==
    ASSUME JInv, NEW m \in Msgs, Admitted(m), turn[m].pc \notin {"idle", "claim"}
    PROVE  /\ Live(m) /\ ~turn[m].cancelled /\ led[m].id = turn[m].id
           /\ PhaseAt(turn[m].pc, Held(m), led[m].phase) /\ Alone(m)
           /\ turn[m].pc \notin {"claimed", "running", "failing"} =>
                 led[m].reply = turn[m].reply
           /\ led[m].phase # "none" /\ led[m].id \in 1..ids
<1>1. Live(m) /\ ~turn[m].cancelled
  BY DEF Admitted, Live, JInv, HandlersOK
<1>2. /\ led[m].id = turn[m].id /\ PhaseAt(turn[m].pc, Held(m), led[m].phase) /\ Alone(m)
      /\ turn[m].pc \notin {"claimed", "running", "failing"} =>
                 led[m].reply = turn[m].reply
  BY <1>1 DEF JInv, LiveOK
<1>3. turn[m].pc \in Pcs
  BY StepTypes DEF Turns
<1>4. led[m].phase # "none"
  BY <1>2, <1>3 DEF PhaseAt, Pcs
<1> QED BY <1>1, <1>2, <1>4 DEF JInv, RowsOK

\* A step that ends the handler and leaves everything else alone.
LEMMA EndKeeps ==
    ASSUME JInv, NEW m \in Msgs, turn[m].pc \notin {"idle", "commit"}, End(m),
           UNCHANGED <<led, ck, revoked, store, owner, epoch, blocked, lock, todo, fixing, ids, sent, cut>>
    PROVE  JInv'
<1>1. Frame(m, NoTurn, led[m])
  BY SlotAlone, StepTypes DEF Frame, End
<1>2. SentStep(m, NoTurn, led[m]) /\ RowStep(m, led[m])
  BY SameRow, ConstantTypes DEF NoTurn
<1> QED BY <1>1, <1>2, NotHeld, EndStep, StepTypes, HandlerKeeps

\* Arrival of a message.
LEMMA DeliverKeeps ==
    ASSUME JInv, NEW m \in Msgs, Deliver(m)
    PROVE  JInv'
<1> DEFINE t == [NoTurn EXCEPT !.pc = "claim", !.epoch = epoch[Guild(m)]]
<1>1. /\ owner = "open" /\ turn' = [turn EXCEPT ![m] = t]
      /\ \A n \in Msgs : SlotOf[n] = SlotOf[m] /\ n # m => turn[n].pc = "idle"
      /\ turn[m].pc = "idle"
      /\ UNCHANGED <<led, ck, revoked, store, owner, epoch, blocked, lock, todo, fixing, ids, sent, cut>>
  BY DEF Deliver, AtPc, durable, counters, history
<1>2. epoch[Guild(m)] \in Nat
  BY StepTypes, GuildType
<1>3. t \in Turns /\ t.pc = "claim" /\ t.epoch = epoch[Guild(m)] /\ ~t.cancelled
  BY <1>2, ConstantTypes DEF NoTurn, Turns, Pcs
<1> HIDE DEF t
<1>4. LockStep(m, t)
  BY <1>1, NotHeld
<1>5. Frame(m, t, led[m])
  BY <1>1, StepTypes DEF Frame
<1>6. RowStep(m, led[m]) /\ SentStep(m, t, led[m])
  BY <1>1, <1>3, SameRow
<1>7. TurnStep(m, t) /\ Agrees(m, t, led[m])
  BY <1>2, <1>3 DEF TurnStep, Agrees
<1> QED BY <1>3, <1>4, <1>5, <1>6, <1>7, StepTypes, HandlerKeeps

\* Activation of the turn.
LEMMA ActivateKeeps ==
    ASSUME JInv, NEW m \in Msgs, Activate(m)
    PROVE  JInv'
<1>1. /\ turn[m].pc = "claimed"
      /\ UNCHANGED <<led, ck, revoked, owner, epoch, blocked, lock, todo, fixing, ids, sent, cut>>
  BY DEF Activate, AtPc, durable, counters, history
<1>2. CASE Admitted(m)
  <2> DEFINE t == [turn[m] EXCEPT !.pc = "running"]
  <2>1. turn[m] \in Turns
    BY StepTypes
  <2>2. /\ turn' = [turn EXCEPT ![m] = t]
        /\ store' = [store EXCEPT ![SessionOf[m]].turn = turn[m].id]
    BY <1>2 DEF Activate
  <2>3. /\ t \in Turns /\ t.pc = "running" /\ t.epoch = turn[m].epoch
        /\ t.cancelled = turn[m].cancelled /\ t.id = turn[m].id
    BY <2>1 DEF Turns, Pcs
  <2>4. store' \in [Sessions -> SessionStates]
    <3>1. store \in [Sessions -> SessionStates]
      BY StepTypes
    <3> QED BY <2>1, <2>2, <3>1 DEF Turns, SessionStates
  <2> HIDE DEF t
  <2>5. Frame(m, t, led[m])
    BY <1>1, <2>2, <2>4, SlotAlone, StepTypes DEF Frame
  <2>6. RowStep(m, led[m]) /\ SentStep(m, t, led[m])
    BY <1>1, <2>3, SameRow
  <2>7. /\ Live(m) /\ ~turn[m].cancelled /\ led[m].id = turn[m].id
        /\ PhaseAt(turn[m].pc, Held(m), led[m].phase) /\ Alone(m)
    BY <1>1, <1>2, AdmittedLive
  <2>8. turn[m].epoch = epoch[Guild(m)] /\ led[m].phase = "accepted" /\ epoch[Guild(m)] \in Nat
    BY <1>1, <2>7, StepTypes, GuildType DEF Live, PhaseAt
  <2>9. TurnStep(m, t)
    BY <2>3, <2>7, <2>8 DEF TurnStep
  <2>10. Agrees(m, t, led[m])
    BY <2>3, <2>7, <2>8 DEF Agrees, PhaseAt
  <2> QED BY <1>1, <2>3, <2>5, <2>6, <2>9, <2>10, NotHeld, StepTypes, HandlerKeeps
<1>3. CASE ~Admitted(m)
  BY <1>1, <1>3, EndKeeps DEF Activate
<1> QED BY <1>2, <1>3

\* A failed generation.
LEMMA GenerationFailsKeeps ==
    ASSUME JInv, NEW m \in Msgs, GenerationFails(m)
    PROVE  JInv'
<1> DEFINE t == [turn[m] EXCEPT !.pc = "failing"]
<1>1. /\ turn[m].pc = "running" /\ ~turn[m].cancelled /\ turn' = [turn EXCEPT ![m] = t]
      /\ UNCHANGED <<led, ck, revoked, store, owner, epoch, blocked, lock, todo, fixing, ids, sent, cut>>
  BY DEF GenerationFails, AtPc, durable, counters, history
<1>2. turn[m] \in Turns
  BY StepTypes
<1>3. /\ t \in Turns /\ t.pc = "failing" /\ t.epoch = turn[m].epoch
      /\ t.cancelled = turn[m].cancelled /\ t.id = turn[m].id
  BY <1>2 DEF Turns, Pcs
<1> HIDE DEF t
<1>4. Frame(m, t, led[m])
  BY <1>1, SlotAlone, StepTypes DEF Frame
<1>5. RowStep(m, led[m]) /\ SentStep(m, t, led[m])
  BY <1>1, <1>3, SameRow
<1>6. Live(m)
  BY <1>1 DEF JInv, HandlersOK
<1>7. /\ led[m].id = turn[m].id /\ led[m].phase = "accepted" /\ Alone(m)
      /\ turn[m].epoch = epoch[Guild(m)] /\ epoch[Guild(m)] \in Nat
  BY <1>1, <1>6, StepTypes, GuildType DEF JInv, LiveOK, PhaseAt, Live
<1>8. TurnStep(m, t)
  BY <1>1, <1>3, <1>7 DEF TurnStep
<1>9. Agrees(m, t, led[m])
  BY <1>3, <1>7 DEF Agrees, PhaseAt
<1> QED BY <1>1, <1>3, <1>4, <1>5, <1>8, <1>9, NotHeld, StepTypes, HandlerKeeps

\* The handler of a step that is not shielded and not cancelled is live.
LEMMA RunningLive ==
    ASSUME JInv, NEW m \in Msgs, ~turn[m].cancelled,
           turn[m].pc \notin {"idle", "claim", "claimed"}
    PROVE  /\ Live(m) /\ led[m].id = turn[m].id
           /\ PhaseAt(turn[m].pc, Held(m), led[m].phase) /\ Alone(m)
           /\ turn[m].pc \notin {"running", "failing"} => led[m].reply = turn[m].reply
           /\ turn[m].epoch = epoch[Guild(m)] /\ epoch[Guild(m)] \in Nat
<1>1. Live(m)
  BY DEF JInv, HandlersOK
<1> QED BY <1>1, StepTypes, GuildType DEF JInv, LiveOK, Live

\* A step in which the handler, outside of the commit, learns how an operation
\* on its row went: the row stays or takes what an admitted operation wrote, the
\* handler ends or goes on.
LEMMA MarkKeeps ==
    ASSUME JInv, NEW m \in Msgs, NEW t \in Turns, NEW r \in Rows,
           turn[m].pc \notin {"idle", "claim", "claimed", "commit"},
           turn' = [turn EXCEPT ![m] = t], led' = [led EXCEPT ![m] = r],
           UNCHANGED <<ck, revoked, store, owner, epoch, blocked, lock, todo, fixing, ids,
                       sent, cut>>,
           \/ r = led[m]
           \/ /\ Admitted(m) /\ r.id = led[m].id /\ r.phase \notin {"none", "accepted"}
              /\ r.phase \notin {"terminal_committing", "completed"} => r.gen = 0
              /\ r.phase = "response_ready" => sent[m] = 0,
           \/ t = NoTurn
           \/ /\ ~turn[m].cancelled /\ ~t.cancelled /\ t.epoch = turn[m].epoch /\ t.id = turn[m].id
              /\ t.pc \notin {"idle", "claim", "claimed", "commit"}
              /\ t.pc = "inflight" => sent[m] = 0
              /\ PhaseAt(t.pc, FALSE, r.phase)
              /\ t.pc \notin {"running", "failing"} => r.reply = t.reply
    PROVE  JInv'
<1>1. ~Held(m) /\ ~Held(m)' /\ LockStep(m, t)
  BY NotHeld
<1>2. Frame(m, t, r)
  BY SlotAlone, StepTypes DEF Frame
<1>3. RowStep(m, r)
  <2>1. CASE r = led[m]
    BY <2>1, StepTypes DEF JInv, RowsOK, RowStep, Alone
  <2>2. CASE /\ Admitted(m) /\ r.id = led[m].id /\ r.phase \notin {"none", "accepted"}
             /\ r.phase \notin {"terminal_committing", "completed"} => r.gen = 0
    BY <2>2, AdmittedLive DEF RowStep
  <2> QED BY <2>1, <2>2
<1>4. SentStep(m, t, r)
  <2>1. t.pc = "inflight" => sent[m] = 0
    <3>1. NoTurn.pc = "idle"
      BY DEF NoTurn
    <3> QED BY <3>1
  <2>2. r.phase \in {"none", "accepted", "response_ready"} => sent[m] = 0
    BY DEF JInv, SentOK
  <2> QED BY <2>1, <2>2, StepTypes DEF JInv, OneReply, SentStep
<1>5. TurnStep(m, t) /\ Agrees(m, t, r)
  <2>1. CASE t = NoTurn
    BY <2>1, EndStep
  <2>2. CASE /\ ~turn[m].cancelled /\ ~t.cancelled /\ t.epoch = turn[m].epoch /\ t.id = turn[m].id
             /\ t.pc \notin {"idle", "claim", "claimed", "commit"}
             /\ PhaseAt(t.pc, FALSE, r.phase)
             /\ t.pc \notin {"running", "failing"} => r.reply = t.reply
    <3>1. /\ led[m].id = turn[m].id /\ Alone(m)
          /\ turn[m].epoch = epoch[Guild(m)] /\ epoch[Guild(m)] \in Nat
      BY <2>2, RunningLive
    <3>2. TurnStep(m, t)
      BY <2>2, <3>1 DEF TurnStep
    <3>3. PhaseAt(t.pc, Held(m)', r.phase)
      BY <1>1, <2>2 DEF PhaseAt
    <3>4. Agrees(m, t, r)
      BY <2>2, <3>1, <3>3 DEF Agrees
    <3> QED BY <3>2, <3>4
  <2> QED BY <2>1, <2>2
<1> QED BY <1>1, <1>2, <1>3, <1>4, <1>5, HandlerKeeps

\* Binding the reply.
LEMMA BindReplyKeeps ==
    ASSUME JInv, NEW m \in Msgs, NEW o \in Outcomes, BindReply(m, o)
    PROVE  JInv'
<1> DEFINE reply == IF AtPc(m, "running") THEN Answer ELSE Sorry
           allowed == Admitted(m) /\ led[m].phase = "accepted"
           row == [led[m] EXCEPT !.phase = "response_ready", !.reply = reply]
           bound == [turn[m] EXCEPT !.pc = "bound", !.reply = reply]
           failing == [turn[m] EXCEPT !.pc = "failing"]
<1>0. turn[m] \in Turns /\ led[m] \in Rows
  BY StepTypes
<1>1. /\ turn[m].pc \in {"running", "failing"} /\ Mark(m, allowed, row, o)
      /\ UNCHANGED <<ck, revoked, store, owner, epoch, blocked, lock, todo, fixing, ids, sent, cut>>
  BY DEF BindReply, history
<1>2. reply \in Replies /\ allowed \in BOOLEAN
  BY DEF Replies
<1>3. row \in Rows /\ row.phase = "response_ready" /\ row.id = led[m].id /\ row.gen = led[m].gen
      /\ row.reply = reply
  <2> HIDE DEF reply
  <2> QED BY <1>0, <1>2 DEF Rows, Phases
<1>4. /\ bound \in Turns /\ bound.pc = "bound" /\ bound.epoch = turn[m].epoch
      /\ bound.id = turn[m].id /\ bound.cancelled = turn[m].cancelled /\ bound.reply = reply
  <2> HIDE DEF reply
  <2> QED BY <1>0, <1>2 DEF Turns, Pcs
<1>5. /\ failing \in Turns /\ failing.pc = "failing" /\ failing.epoch = turn[m].epoch
      /\ failing.id = turn[m].id /\ failing.cancelled = turn[m].cancelled
  BY <1>0 DEF Turns, Pcs
<1>6. \/ allowed /\ led' = [led EXCEPT ![m] = row]
      \/ ~(allowed /\ o = "ok") /\ led' = [led EXCEPT ![m] = led[m]]
  <2> HIDE DEF row, allowed
  <2> QED BY <1>1, <1>2, <1>3, MarkEffect
<1>7. PICK t \in Turns :
         /\ turn' = [turn EXCEPT ![m] = t]
         /\ \/ t = NoTurn
            \/ allowed /\ o = "ok" /\ ~turn[m].cancelled /\ t = bound
            \/ turn[m].pc = "running" /\ ~turn[m].cancelled /\ t = failing
  <2> HIDE DEF bound, allowed, failing
  <2>1. CASE allowed /\ o = "ok"
    <3>1. turn' = [turn EXCEPT ![m] = IF turn[m].cancelled THEN NoTurn ELSE bound]
      BY <2>1 DEF BindReply, bound, allowed
    <3> QED BY <1>4, <2>1, <3>1, ConstantTypes
  <2>2. CASE ~(allowed /\ o = "ok") /\ turn[m].pc = "running"
    <3>1. turn' = [turn EXCEPT ![m] = IF turn[m].cancelled THEN NoTurn ELSE failing]
      BY <2>2 DEF BindReply, AtPc, Then, failing, allowed
    <3> QED BY <1>5, <2>2, <3>1, ConstantTypes
  <2>3. CASE ~(allowed /\ o = "ok") /\ turn[m].pc # "running"
    <3>1. turn' = [turn EXCEPT ![m] = NoTurn]
      BY <2>3 DEF BindReply, AtPc, End, allowed
    <3> QED BY <3>1, ConstantTypes
  <2> QED BY <2>1, <2>2, <2>3
<1>8. led[m].phase = "accepted" => sent[m] = 0 /\ led[m].gen = 0
  BY DEF JInv, SentOK, RowsOK
<1>9. ~turn[m].cancelled /\ turn[m].pc = "running" => led[m].phase = "accepted"
  BY RunningLive DEF PhaseAt
<1> HIDE DEF row, bound, allowed, failing
<1>10. CASE allowed /\ led' = [led EXCEPT ![m] = row]
  <2>1. Admitted(m) /\ led[m].phase = "accepted"
    BY <1>10 DEF allowed
  <2>2. \/ t = NoTurn
        \/ /\ ~turn[m].cancelled /\ ~t.cancelled /\ t.epoch = turn[m].epoch /\ t.id = turn[m].id
           /\ t.pc \notin {"idle", "claim", "claimed", "commit"}
           /\ t.pc # "inflight"
           /\ PhaseAt(t.pc, FALSE, row.phase)
           /\ t.pc \notin {"running", "failing"} => row.reply = t.reply
    BY <1>3, <1>4, <1>5, <1>7 DEF PhaseAt
  <2> QED BY <1>1, <1>3, <1>7, <1>8, <1>10, <2>1, <2>2, MarkKeeps
<1>11. CASE ~(allowed /\ o = "ok") /\ led' = [led EXCEPT ![m] = led[m]]
  <2>1. \/ t = NoTurn
        \/ /\ ~turn[m].cancelled /\ ~t.cancelled /\ t.epoch = turn[m].epoch /\ t.id = turn[m].id
           /\ t.pc = "failing" /\ PhaseAt(t.pc, FALSE, led[m].phase)
    BY <1>5, <1>7, <1>9, <1>11 DEF PhaseAt
  <2> QED BY <1>1, <1>7, <1>11, <2>1, StepTypes, MarkKeeps
<1> QED BY <1>6, <1>10, <1>11

\* Marking the delivery in flight.
LEMMA GoInflightKeeps ==
    ASSUME JInv, NEW m \in Msgs, NEW o \in Outcomes, GoInflight(m, o)
    PROVE  JInv'
<1> DEFINE allowed == Admitted(m) /\ led[m].phase = "response_ready"
           row == [led[m] EXCEPT !.phase = "delivery_inflight"]
           next == [turn[m] EXCEPT !.pc = "inflight"]
<1>0. turn[m] \in Turns /\ led[m] \in Rows
  BY StepTypes
<1>1. /\ turn[m].pc = "bound" /\ Mark(m, allowed, row, o)
      /\ UNCHANGED <<ck, revoked, store, owner, epoch, blocked, lock, todo, fixing, ids, sent, cut>>
  BY DEF GoInflight, AtPc, history
<1>2. row \in Rows /\ row.phase = "delivery_inflight" /\ row.id = led[m].id /\ row.gen = led[m].gen
      /\ row.reply = led[m].reply
  BY <1>0 DEF Rows, Phases
<1>3. /\ next \in Turns /\ next.pc = "inflight" /\ next.epoch = turn[m].epoch
      /\ next.id = turn[m].id /\ next.cancelled = turn[m].cancelled /\ next.reply = turn[m].reply
  BY <1>0 DEF Turns, Pcs
<1>4. \/ allowed /\ led' = [led EXCEPT ![m] = row]
      \/ ~(allowed /\ o = "ok") /\ led' = [led EXCEPT ![m] = led[m]]
  <2>1. allowed \in BOOLEAN
    OBVIOUS
  <2> HIDE DEF row, allowed
  <2> QED BY <1>1, <1>2, <2>1, MarkEffect
<1>5. PICK t \in Turns :
         /\ turn' = [turn EXCEPT ![m] = t]
         /\ \/ t = NoTurn
            \/ allowed /\ o = "ok" /\ ~turn[m].cancelled /\ t = next
  <2> HIDE DEF next, allowed
  <2>1. CASE allowed /\ o = "ok"
    <3>1. turn' = [turn EXCEPT ![m] = IF turn[m].cancelled THEN NoTurn ELSE next]
      BY <2>1 DEF GoInflight, Then, next, allowed
    <3> QED BY <1>3, <2>1, <3>1, ConstantTypes
  <2>2. CASE ~(allowed /\ o = "ok")
    <3>1. turn' = [turn EXCEPT ![m] = NoTurn]
      BY <2>2 DEF GoInflight, End, allowed
    <3> QED BY <3>1, ConstantTypes
  <2> QED BY <2>1, <2>2
<1>6. led[m].phase = "response_ready" => sent[m] = 0 /\ led[m].gen = 0
  BY DEF JInv, SentOK, RowsOK
<1> HIDE DEF row, next, allowed
<1>7. CASE allowed /\ led' = [led EXCEPT ![m] = row]
  <2>1. Admitted(m) /\ led[m].phase = "response_ready"
    BY <1>7 DEF allowed
  <2>2. led[m].reply = turn[m].reply
    BY <1>1, <2>1, AdmittedLive
  <2>3. \/ t = NoTurn
        \/ /\ ~turn[m].cancelled /\ ~t.cancelled /\ t.epoch = turn[m].epoch /\ t.id = turn[m].id
           /\ t.pc = "inflight" /\ PhaseAt(t.pc, FALSE, row.phase) /\ row.reply = t.reply
    BY <1>2, <1>3, <1>5, <2>2 DEF PhaseAt
  <2> QED BY <1>1, <1>2, <1>5, <1>6, <1>7, <2>1, <2>3, MarkKeeps
<1>8. CASE ~(allowed /\ o = "ok") /\ led' = [led EXCEPT ![m] = led[m]]
  <2>1. t = NoTurn
    BY <1>5, <1>8
  <2> QED BY <1>1, <1>5, <1>8, <2>1, StepTypes, MarkKeeps
<1> QED BY <1>4, <1>7, <1>8

\* Confirming the delivery.
LEMMA ConfirmDeliveryKeeps ==
    ASSUME JInv, NEW m \in Msgs, NEW o \in Outcomes, ConfirmDelivery(m, o)
    PROVE  JInv'
<1> DEFINE allowed == Admitted(m) /\ led[m].phase = "delivery_inflight"
           row == [led[m] EXCEPT !.phase = "delivery_succeeded"]
           delivered == [turn[m] EXCEPT !.pc = "delivered"]
           unsure == [turn[m] EXCEPT !.pc = "unsure"]
<1>0. turn[m] \in Turns /\ led[m] \in Rows
  BY StepTypes
<1>1. /\ turn[m].pc = "sent" /\ Mark(m, allowed, row, o)
      /\ UNCHANGED <<ck, revoked, store, owner, epoch, blocked, lock, todo, fixing, ids, sent, cut>>
  BY DEF ConfirmDelivery, AtPc, history
<1>2. row \in Rows /\ row.phase = "delivery_succeeded" /\ row.id = led[m].id /\ row.gen = led[m].gen
      /\ row.reply = led[m].reply
  BY <1>0 DEF Rows, Phases
<1>3. \A t \in {delivered, unsure} :
         /\ t \in Turns /\ t.epoch = turn[m].epoch
         /\ t.id = turn[m].id /\ t.cancelled = turn[m].cancelled /\ t.reply = turn[m].reply
  BY <1>0 DEF Turns, Pcs
<1>4. delivered.pc = "delivered" /\ unsure.pc = "unsure"
  BY <1>0 DEF Turns, Pcs
<1>5. \/ allowed /\ led' = [led EXCEPT ![m] = row]
      \/ ~(allowed /\ o = "ok") /\ led' = [led EXCEPT ![m] = led[m]]
  <2>1. allowed \in BOOLEAN
    OBVIOUS
  <2> HIDE DEF row, allowed
  <2> QED BY <1>1, <1>2, <2>1, MarkEffect
<1>6. PICK t \in Turns :
         /\ turn' = [turn EXCEPT ![m] = t]
         /\ \/ t = NoTurn
            \/ allowed /\ o = "ok" /\ ~turn[m].cancelled /\ t = delivered
            \/ ~turn[m].cancelled /\ t = unsure
  <2> HIDE DEF delivered, unsure, allowed
  <2>1. CASE allowed /\ o = "ok"
    <3>1. turn' = [turn EXCEPT ![m] = IF turn[m].cancelled THEN NoTurn ELSE delivered]
      BY <2>1 DEF ConfirmDelivery, Then, delivered, allowed
    <3> QED BY <1>3, <2>1, <3>1, ConstantTypes
  <2>2. CASE ~(allowed /\ o = "ok")
    <3>1. turn' = [turn EXCEPT ![m] = IF turn[m].cancelled THEN NoTurn ELSE unsure]
      BY <2>2 DEF ConfirmDelivery, Then, unsure, allowed
    <3> QED BY <1>3, <3>1, ConstantTypes
  <2> QED BY <2>1, <2>2
<1>7. led[m].phase = "delivery_inflight" => led[m].gen = 0
  BY DEF JInv, RowsOK
<1>8. ~turn[m].cancelled => led[m].phase = "delivery_inflight" /\ led[m].reply = turn[m].reply
  BY <1>1, RunningLive DEF PhaseAt
<1> HIDE DEF row, delivered, unsure, allowed
<1>9. CASE allowed /\ led' = [led EXCEPT ![m] = row]
  <2>1. Admitted(m) /\ led[m].phase = "delivery_inflight"
    BY <1>9 DEF allowed
  <2>2. \/ t = NoTurn
        \/ /\ ~turn[m].cancelled /\ ~t.cancelled /\ t.epoch = turn[m].epoch /\ t.id = turn[m].id
           /\ t.pc \in {"delivered", "unsure"}
           /\ PhaseAt(t.pc, FALSE, row.phase) /\ row.reply = t.reply
    BY <1>2, <1>3, <1>4, <1>6, <1>8 DEF PhaseAt
  <2> QED BY <1>1, <1>2, <1>6, <1>7, <1>9, <2>1, <2>2, MarkKeeps
<1>10. CASE ~(allowed /\ o = "ok") /\ led' = [led EXCEPT ![m] = led[m]]
  <2>1. \/ t = NoTurn
        \/ /\ ~turn[m].cancelled /\ ~t.cancelled /\ t.epoch = turn[m].epoch /\ t.id = turn[m].id
           /\ t.pc = "unsure"
           /\ PhaseAt(t.pc, FALSE, led[m].phase) /\ led[m].reply = t.reply
    BY <1>3, <1>4, <1>6, <1>8, <1>10 DEF PhaseAt
  <2> QED BY <1>1, <1>6, <1>10, <2>1, StepTypes, MarkKeeps
<1> QED BY <1>5, <1>9, <1>10

\* Marking the delivery ambiguous.
LEMMA MarkAmbiguousKeeps ==
    ASSUME JInv, NEW m \in Msgs, NEW o \in Outcomes, MarkAmbiguous(m, o)
    PROVE  JInv'
<1> DEFINE allowed == Admitted(m) /\ led[m].phase = "delivery_inflight"
           row == [led[m] EXCEPT !.phase = "delivery_ambiguous"]
<1>0. turn[m] \in Turns /\ led[m] \in Rows
  BY StepTypes
<1>1. /\ turn[m].pc = "unsure" /\ Mark(m, allowed, row, o) /\ turn' = [turn EXCEPT ![m] = NoTurn]
      /\ UNCHANGED <<ck, revoked, store, owner, epoch, blocked, lock, todo, fixing, ids, sent, cut>>
  BY DEF MarkAmbiguous, AtPc, End, history
<1>2. row \in Rows /\ row.phase = "delivery_ambiguous" /\ row.id = led[m].id /\ row.gen = led[m].gen
  BY <1>0 DEF Rows, Phases
<1>3. allowed => Admitted(m) /\ led[m].gen = 0
  BY DEF JInv, RowsOK
<1>4. allowed \in BOOLEAN
  OBVIOUS
<1> HIDE DEF row, allowed
<1>5. \/ allowed /\ led' = [led EXCEPT ![m] = row]
      \/ led' = [led EXCEPT ![m] = led[m]]
  BY <1>1, <1>2, <1>4, MarkEffect
<1>6. CASE allowed /\ led' = [led EXCEPT ![m] = row]
  BY <1>1, <1>2, <1>3, <1>6, ConstantTypes, MarkKeeps
<1>7. CASE led' = [led EXCEPT ![m] = led[m]]
  BY <1>0, <1>1, <1>7, ConstantTypes, MarkKeeps
<1> QED BY <1>5, <1>6, <1>7

\* Completing the turn.
LEMMA CompleteTurnKeeps ==
    ASSUME JInv, NEW m \in Msgs, NEW o \in Outcomes, CompleteTurn(m, o)
    PROVE  JInv'
<1> DEFINE allowed == /\ Admitted(m)
                      /\ led[m].phase = "terminal_committing"
                      /\ led[m].gen = turn[m].gen
           row == [led[m] EXCEPT !.phase = "completed"]
<1>0. turn[m] \in Turns /\ led[m] \in Rows
  BY StepTypes
<1>1. /\ turn[m].pc = "receipt" /\ Mark(m, allowed, row, o) /\ turn' = [turn EXCEPT ![m] = NoTurn]
      /\ UNCHANGED <<ck, revoked, store, owner, epoch, blocked, lock, todo, fixing, ids, sent, cut>>
  BY DEF CompleteTurn, AtPc, End, history
<1>2. row \in Rows /\ row.phase = "completed" /\ row.id = led[m].id
  BY <1>0 DEF Rows, Phases
<1>3. allowed => Admitted(m)
  OBVIOUS
<1>4. allowed \in BOOLEAN
  OBVIOUS
<1> HIDE DEF row, allowed
<1>5. \/ allowed /\ led' = [led EXCEPT ![m] = row]
      \/ led' = [led EXCEPT ![m] = led[m]]
  BY <1>1, <1>2, <1>4, MarkEffect
<1>6. CASE allowed /\ led' = [led EXCEPT ![m] = row]
  BY <1>1, <1>2, <1>3, <1>6, ConstantTypes, MarkKeeps
<1>7. CASE led' = [led EXCEPT ![m] = led[m]]
  BY <1>0, <1>1, <1>7, ConstantTypes, MarkKeeps
<1> QED BY <1>5, <1>6, <1>7

\* Taking the receipt of the commit.
LEMMA TakeReceiptKeeps ==
    ASSUME JInv, NEW m \in Msgs, TakeReceipt(m)
    PROVE  JInv'
<1> DEFINE t == [turn[m] EXCEPT !.pc = "receipt", !.gen = ck.gen]
<1>0. turn[m] \in Turns /\ led[m] \in Rows /\ ck.gen \in Nat
  BY StepTypes
<1>1. /\ turn[m].pc = "committed"
      /\ turn' = [turn EXCEPT ![m] = IF turn[m].cancelled THEN NoTurn ELSE t]
      /\ UNCHANGED <<led, ck, revoked, store, owner, epoch, blocked, lock, todo, fixing, ids, sent, cut>>
  BY DEF TakeReceipt, AtPc, durable, counters, history
<1>2. led' = [led EXCEPT ![m] = led[m]]
  BY <1>1, StepTypes
<1>3. CASE turn[m].cancelled
  BY <1>0, <1>1, <1>2, <1>3, ConstantTypes, MarkKeeps
<1>4. CASE ~turn[m].cancelled
  <2>1. /\ t \in Turns /\ t.pc = "receipt" /\ t.epoch = turn[m].epoch
        /\ t.id = turn[m].id /\ t.cancelled = turn[m].cancelled /\ t.reply = turn[m].reply
    BY <1>0 DEF Turns, Pcs
  <2> HIDE DEF t
  <2>2. turn' = [turn EXCEPT ![m] = t]
    BY <1>1, <1>4
  <2>3. led[m].phase = "terminal_committing" /\ led[m].reply = turn[m].reply
    BY <1>1, <1>4, RunningLive DEF PhaseAt
  <2>4. PhaseAt(t.pc, FALSE, led[m].phase)
    BY <2>1, <2>3 DEF PhaseAt
  <2>5. /\ ~turn[m].cancelled /\ ~t.cancelled /\ t.epoch = turn[m].epoch /\ t.id = turn[m].id
        /\ t.pc = "receipt" /\ led[m].reply = t.reply
    BY <1>4, <2>1, <2>3
  <2> QED BY <1>0, <1>1, <1>2, <2>1, <2>2, <2>4, <2>5, MarkKeeps
<1> QED BY <1>3, <1>4

\* A cancelled handler that gives up.
LEMMA AbandonKeeps ==
    ASSUME JInv, NEW m \in Msgs, Abandon(m)
    PROVE  JInv'
BY EndKeeps DEF Abandon, durable, counters, history

\* Sending the reply.
LEMMA SendKeeps ==
    ASSUME JInv, NEW m \in Msgs, NEW seen \in BOOLEAN, NEW raised \in BOOLEAN,
           Send(m, seen, raised)
    PROVE  JInv'
<1> DEFINE t == [turn[m] EXCEPT !.pc = IF raised THEN "unsure" ELSE "sent"]
<1>0. turn[m] \in Turns /\ led[m] \in Rows /\ sent[m] \in Nat
  BY StepTypes
<1>1. /\ turn[m].pc = "inflight" /\ ~turn[m].cancelled /\ turn' = [turn EXCEPT ![m] = t]
      /\ sent' = [sent EXCEPT ![m] = IF seen THEN sent[m] + 1 ELSE sent[m]]
      /\ UNCHANGED <<led, ck, revoked, store, owner, epoch, blocked, lock, todo, fixing, ids, cut>>
  BY DEF Send, AtPc, durable
<1>2. /\ t \in Turns /\ t.pc \in {"unsure", "sent"} /\ t.epoch = turn[m].epoch
      /\ t.id = turn[m].id /\ t.cancelled = turn[m].cancelled /\ t.reply = turn[m].reply
  BY <1>0 DEF Turns, Pcs
<1> HIDE DEF t
<1>3. /\ led[m].id = turn[m].id /\ led[m].phase = "delivery_inflight" /\ Alone(m)
      /\ led[m].reply = turn[m].reply
      /\ turn[m].epoch = epoch[Guild(m)] /\ epoch[Guild(m)] \in Nat
  BY <1>1, RunningLive DEF PhaseAt
<1>4. sent[m] = 0
  BY <1>1 DEF JInv, SentOK
<1>5. SentStep(m, t, led[m])
  BY <1>1, <1>2, <1>3, <1>4, StepTypes DEF SentStep
<1>6. RowStep(m, led[m])
  BY <1>0 DEF JInv, RowsOK, RowStep, Alone
<1>7. Frame(m, t, led[m])
  BY <1>1, SlotAlone, StepTypes DEF Frame
<1>8. TurnStep(m, t)
  BY <1>1, <1>2, <1>3 DEF TurnStep
<1>9. Agrees(m, t, led[m])
  BY <1>2, <1>3 DEF Agrees, PhaseAt
<1> QED BY <1>0, <1>1, <1>2, <1>5, <1>6, <1>7, <1>8, <1>9, NotHeld, HandlerKeeps

\* A turn in a history is well typed.
LEMMA AppendType ==
    ASSUME NEW ses \in SessionStates, NEW m \in Msgs, NEW id \in Nat, NEW reply \in Replies
    PROVE  Append(ses.hist, Pair(m, id, reply)) \in Seq(Entries)
<1>1. Pair(m, id, reply) \in Entries
  BY DEF Pair, Entries
<1> QED BY <1>1 DEF SessionStates

\* Appending the finished turn to the history.
LEMMA AppendTurnKeeps ==
    ASSUME JInv, NEW m \in Msgs, AppendTurn(m)
    PROVE  JInv'
<1> DEFINE t == [turn[m] EXCEPT !.pc = "commit"]
           h == Append(store[SessionOf[m]].hist, Pair(m, turn[m].id, turn[m].reply))
<1>0. turn[m] \in Turns /\ led[m] \in Rows
  BY StepTypes
<1>1. /\ turn[m].pc = "delivered" /\ ~turn[m].cancelled /\ turn' = [turn EXCEPT ![m] = t]
      /\ store' = [store EXCEPT ![SessionOf[m]] = [store[SessionOf[m]] EXCEPT !.hist = h]]
      /\ UNCHANGED <<led, ck, revoked, owner, epoch, blocked, lock, todo, fixing, ids, sent, cut>>
  BY DEF AppendTurn, AtPc, durable, counters, history
<1>2. /\ t \in Turns /\ t.pc = "commit" /\ t.epoch = turn[m].epoch
      /\ t.id = turn[m].id /\ t.cancelled = turn[m].cancelled /\ t.reply = turn[m].reply
  BY <1>0 DEF Turns, Pcs
<1>3. store[SessionOf[m]] \in SessionStates
  BY StepTypes, GuildType
<1>4. h \in Seq(Entries)
  BY <1>0, <1>3, AppendType DEF Turns
<1> HIDE DEF t, h
<1>5. [store[SessionOf[m]] EXCEPT !.hist = h] \in SessionStates
  BY <1>3, <1>4 DEF SessionStates
<1>6. store' \in [Sessions -> SessionStates]
  BY <1>1, <1>5, StepTypes
<1>7. /\ led[m].id = turn[m].id /\ led[m].phase = "delivery_succeeded" /\ Alone(m)
      /\ led[m].reply = turn[m].reply
      /\ turn[m].epoch = epoch[Guild(m)] /\ epoch[Guild(m)] \in Nat
  BY <1>1, RunningLive DEF PhaseAt
<1>8. RowStep(m, led[m]) /\ SentStep(m, t, led[m])
  BY <1>1, <1>2, SameRow
<1>9. Frame(m, t, led[m])
  BY <1>1, <1>6, SlotAlone, StepTypes DEF Frame
<1>10. TurnStep(m, t)
  BY <1>1, <1>2, <1>7 DEF TurnStep
<1>11. ~Held(m) /\ ~Held(m)' /\ LockStep(m, t)
  BY <1>1, NotHeld
<1>12. Agrees(m, t, led[m])
  BY <1>2, <1>7, <1>11 DEF Agrees, PhaseAt
<1> QED BY <1>0, <1>2, <1>8, <1>9, <1>10, <1>11, <1>12, HandlerKeeps

\* Announcing the generation of the commit.
LEMMA CommitMarkerKeeps ==
    ASSUME JInv, NEW m \in Msgs, NEW o \in Outcomes, CommitMarker(m, o)
    PROVE  JInv'
<1> DEFINE allowed == Admitted(m) /\ led[m].phase = "delivery_succeeded"
           row == [led[m] EXCEPT !.phase = "terminal_committing", !.gen = ck.gen + 1]
<1>0. turn[m] \in Turns /\ led[m] \in Rows /\ ck.gen + 1 \in Nat
  BY StepTypes
<1>1. /\ turn[m].pc = "commit" /\ lock = Free /\ Mark(m, allowed, row, o)
      /\ UNCHANGED <<ck, revoked, store, owner, epoch, blocked, todo, fixing, ids, sent, cut>>
      /\ \/ /\ allowed /\ o = "ok" /\ turn' = turn
            /\ lock' = [Free EXCEPT !.by = "commit", !.msg = m]
         \/ ~(allowed /\ o = "ok") /\ turn' = [turn EXCEPT ![m] = NoTurn] /\ lock' = lock
  BY DEF CommitMarker, AtPc, End, history
<1>2. row \in Rows /\ row.phase = "terminal_committing" /\ row.id = led[m].id /\ row.reply = led[m].reply
  BY <1>0 DEF Rows, Phases
<1>3. allowed \in BOOLEAN
  OBVIOUS
<1>4. allowed => Admitted(m)
  OBVIOUS
<1> HIDE DEF row, allowed
<1>5. \/ allowed /\ led' = [led EXCEPT ![m] = row]
      \/ ~(allowed /\ o = "ok") /\ led' = [led EXCEPT ![m] = led[m]]
  BY <1>1, <1>2, <1>3, MarkEffect
<1>6. ~Held(m)
  BY <1>1 DEF Held, Free
<1>7. ASSUME allowed
      PROVE  /\ RowStep(m, row) /\ SentStep(m, NoTurn, row) /\ SentStep(m, turn[m], row)
             /\ Live(m) /\ Alone(m) /\ led[m].id = turn[m].id /\ led[m].reply = turn[m].reply
             /\ ~turn[m].cancelled
  <2>1. /\ Alone(m) /\ led[m].phase # "none" /\ Live(m)
        /\ led[m].id = turn[m].id /\ led[m].reply = turn[m].reply /\ ~turn[m].cancelled
    BY <1>1, <1>4, <1>7, AdmittedLive
  <2>2. RowStep(m, row)
    BY <1>2, <2>1 DEF RowStep
  <2>3. NoTurn.pc = "idle"
    BY DEF NoTurn
  <2>4. SentStep(m, NoTurn, row) /\ SentStep(m, turn[m], row)
    BY <1>1, <1>2, <2>3, StepTypes DEF JInv, SentOK, OneReply, SentStep
  <2> QED BY <2>1, <2>2, <2>4
<1>8. CASE turn' = [turn EXCEPT ![m] = NoTurn] /\ lock' = lock /\ led' = [led EXCEPT ![m] = led[m]]
  <2>1. Frame(m, NoTurn, led[m])
    BY <1>1, <1>8, SlotAlone, StepTypes DEF Frame
  <2>2. SentStep(m, NoTurn, led[m]) /\ RowStep(m, led[m])
    BY <1>1, SameRow, ConstantTypes DEF NoTurn
  <2>3. LockStep(m, NoTurn)
    BY <1>6, <1>8 DEF LockStep
  <2> QED BY <1>0, <2>1, <2>2, <2>3, EndStep, HandlerKeeps
<1>9. CASE /\ allowed /\ turn' = [turn EXCEPT ![m] = NoTurn] /\ lock' = lock
           /\ led' = [led EXCEPT ![m] = row]
  <2>1. Frame(m, NoTurn, row)
    BY <1>1, <1>9, SlotAlone, StepTypes DEF Frame
  <2>2. LockStep(m, NoTurn)
    BY <1>6, <1>9 DEF LockStep
  <2> QED BY <1>2, <1>7, <1>9, <2>1, <2>2, EndStep, HandlerKeeps
<1>10. CASE /\ allowed /\ o = "ok" /\ turn' = turn /\ led' = [led EXCEPT ![m] = row]
            /\ lock' = [Free EXCEPT !.by = "commit", !.msg = m]
  <2>1. Frame(m, turn[m], row)
    BY <1>1, <1>10, SlotAlone, StepTypes DEF Frame
  <2>2. LockStep(m, turn[m])
    BY <1>1, <1>7, <1>10 DEF LockStep
  <2>3. turn[m].epoch = epoch[Guild(m)] /\ epoch[Guild(m)] \in Nat
    BY <1>7, <1>10, StepTypes, GuildType DEF Live
  <2>4. TurnStep(m, turn[m])
    BY <1>7, <1>10, <2>3 DEF TurnStep
  <2>5. Held(m)'
    BY <1>10 DEF Held, Free
  <2>6. PhaseAt(turn[m].pc, Held(m)', row.phase)
    BY <1>1, <1>2, <2>5 DEF PhaseAt
  <2>7. Agrees(m, turn[m], row)
    BY <1>2, <1>7, <1>10, <2>6 DEF Agrees
  <2> QED BY <1>0, <1>2, <1>7, <1>10, <2>1, <2>2, <2>4, <2>7, HandlerKeeps
<1> QED BY <1>1, <1>5, <1>8, <1>9, <1>10

\* A flush leaves a well-typed checkpoint.
LEMMA FlushType ==
    ASSUME JInv, NEW end \in FlushEnds, NEW content \in [Sessions -> SessionStates],
           WriteCheckpoint(end, content)
    PROVE  ck' \in Checkpoints
<1>1. /\ ck \in Checkpoints /\ ck.gen + 1 \in Nat /\ File \in CkFiles /\ NoFile \in CkFiles
      /\ NoSessions \in [Sessions -> SessionStates]
  BY StepTypes, ConstantTypes DEF File, CkFiles
<1>2. [gen |-> ck.gen + 1, sess |-> content] \in CkFiles
  BY <1>1 DEF CkFiles
<1>3. \A file \in CkFiles : Emptied(file) \in Checkpoints
  BY <1>1 DEF Emptied, Checkpoints
<1>4. [gen |-> ck.gen + 1, sess |-> content, left |-> NoFile] \in Checkpoints
  BY <1>1 DEF Checkpoints
<1> QED BY <1>1, <1>2, <1>3, <1>4 DEF WriteCheckpoint

\* The flush of the commit.
LEMMA CommitFlushKeeps ==
    ASSUME JInv, NEW m \in Msgs, NEW end \in FlushEnds, CommitFlush(m, end)
    PROVE  JInv'
<1> DEFINE t == [turn[m] EXCEPT !.pc = "committed"]
<1>0. turn[m] \in Turns /\ led[m] \in Rows
  BY StepTypes
<1>1. /\ Held(m) /\ lock' = Free
      /\ UNCHANGED <<led, revoked, store, owner, epoch, blocked, todo, fixing, ids, sent, cut>>
  BY DEF CommitFlush, Held
<1>2. Live(m) /\ turn[m].pc = "commit"
  BY <1>1 DEF Held, JInv, LockOK
<1>3. /\ led[m].id = turn[m].id /\ led[m].phase = "terminal_committing" /\ Alone(m)
      /\ led[m].reply = turn[m].reply
      /\ turn[m].epoch = epoch[Guild(m)] /\ epoch[Guild(m)] \in Nat
  BY <1>1, <1>2, StepTypes, GuildType DEF JInv, LiveOK, PhaseAt, Live
<1>4. ~turn[m].cancelled
  BY <1>3 DEF JInv, HandlersOK
<1>5. /\ t \in Turns /\ t.pc = "committed" /\ t.epoch = turn[m].epoch
      /\ t.id = turn[m].id /\ t.cancelled = turn[m].cancelled /\ t.reply = turn[m].reply
  BY <1>0 DEF Turns, Pcs
<1>6. /\ turn' = [turn EXCEPT ![m] = t] \/ turn' = [turn EXCEPT ![m] = NoTurn]
      /\ ck' = ck \/ Flush(end, store)
  BY DEF CommitFlush, End
<1>7. ck' \in Checkpoints
  BY <1>6, FlushType, StepTypes DEF Flush
<1> HIDE DEF t
<1>8. CASE turn' = [turn EXCEPT ![m] = t]
  <2>1. Frame(m, t, led[m])
    BY <1>1, <1>2, <1>7, <1>8, SlotAlone, StepTypes DEF Frame
  <2>2. RowStep(m, led[m]) /\ SentStep(m, t, led[m])
    BY <1>1, <1>5, SameRow
  <2>3. LockStep(m, t) /\ TurnStep(m, t)
    BY <1>1, <1>3, <1>4, <1>5 DEF LockStep, TurnStep
  <2>4. Agrees(m, t, led[m])
    BY <1>3, <1>5 DEF Agrees, PhaseAt
  <2> QED BY <1>0, <1>5, <2>1, <2>2, <2>3, <2>4, HandlerKeeps
<1>9. CASE turn' = [turn EXCEPT ![m] = NoTurn]
  <2>1. Frame(m, NoTurn, led[m])
    BY <1>1, <1>2, <1>7, <1>9, SlotAlone, StepTypes DEF Frame
  <2>2. SentStep(m, NoTurn, led[m]) /\ RowStep(m, led[m])
    BY <1>1, SameRow, ConstantTypes DEF NoTurn
  <2>3. LockStep(m, NoTurn)
    BY <1>1 DEF LockStep
  <2> QED BY <1>0, <2>1, <2>2, <2>3, EndStep, HandlerKeeps
<1> QED BY <1>6, <1>8, <1>9

\* Claiming the delivery.
LEMMA ClaimKeeps ==
    ASSUME JInv, NEW m \in Msgs, NEW o \in Outcomes, Claim(m, o)
    PROVE  JInv'
<1> DEFINE new == Admitted(m) /\ ~Unsettled(SessionOf[m]) /\ led[m] = NoRow
           row == [NoRow EXCEPT !.phase = "accepted", !.id = ids + 1]
           t == [turn[m] EXCEPT !.pc = "claimed", !.id = ids + 1]
<1>0. turn[m] \in Turns /\ led[m] \in Rows /\ ids \in Nat /\ ids + 1 \in Nat
  BY StepTypes
<1>1. /\ turn[m].pc = "claim" /\ Mark(m, new, row, o)
      /\ ids' = IF new THEN ids + 1 ELSE ids
      /\ \/ new /\ o = "ok" /\ turn' = [turn EXCEPT ![m] = t]
         \/ ~(new /\ o = "ok") /\ turn' = [turn EXCEPT ![m] = NoTurn]
      /\ UNCHANGED <<ck, revoked, store, owner, epoch, blocked, lock, todo, fixing, sent, cut>>
  BY DEF Claim, AtPc, End, history
<1>2. row \in Rows /\ row.phase = "accepted" /\ row.id = ids + 1 /\ row.gen = 0 /\ row.reply = NoReply
  BY <1>0, ConstantTypes DEF NoRow, Rows, Phases
<1>3. /\ t \in Turns /\ t.pc = "claimed" /\ t.id = ids + 1 /\ t.epoch = turn[m].epoch
      /\ t.cancelled = turn[m].cancelled
  BY <1>0 DEF Turns, Pcs
<1>4. /\ new \in BOOLEAN
      /\ new => Admitted(m) /\ ~Unsettled(SessionOf[m]) /\ led[m].phase = "none"
  BY DEF NoRow
<1> HIDE DEF new, row, t
<1>5. \/ new /\ led' = [led EXCEPT ![m] = row]
      \/ ~(new /\ o = "ok") /\ led' = [led EXCEPT ![m] = led[m]]
  BY <1>1, <1>2, <1>4, MarkEffect
<1>6. ids' \in {ids, ids + 1} /\ (new => ids' = ids + 1)
  BY <1>1
<1>7. ASSUME new
      PROVE  /\ Alone(m) /\ sent[m] = 0 /\ turn[m].epoch = epoch[Guild(m)]
             /\ epoch[Guild(m)] \in Nat /\ ~turn[m].cancelled
  <2>1. Alone(m)
    BY <1>4, <1>7 DEF Unsettled, Alone, Delivered
  <2>2. turn[m].epoch = epoch[Guild(m)] /\ epoch[Guild(m)] \in Nat
    BY <1>4, <1>7, StepTypes, GuildType DEF Admitted
  <2>3. ~turn[m].cancelled
    BY <2>2 DEF JInv, HandlersOK
  <2> QED BY <1>4, <1>7, <2>1, <2>2, <2>3 DEF JInv, SentOK
<1>8. CASE turn' = [turn EXCEPT ![m] = NoTurn] /\ led' = [led EXCEPT ![m] = led[m]]
  <2>1. Frame(m, NoTurn, led[m])
    BY <1>1, <1>6, <1>8, SlotAlone, StepTypes DEF Frame
  <2>2. SentStep(m, NoTurn, led[m]) /\ RowStep(m, led[m])
    BY <1>1, SameRow, ConstantTypes DEF NoTurn
  <2> QED BY <1>0, <1>1, <2>1, <2>2, NotHeld, EndStep, HandlerKeeps
<1>9. CASE new /\ turn' = [turn EXCEPT ![m] = NoTurn] /\ led' = [led EXCEPT ![m] = row]
  <2>1. Frame(m, NoTurn, row)
    BY <1>1, <1>6, <1>9, SlotAlone, StepTypes DEF Frame
  <2>2. RowStep(m, row)
    BY <1>2, <1>6, <1>9 DEF RowStep, Delivered
  <2>3. SentStep(m, NoTurn, row)
    BY <1>1, <1>7, <1>9, StepTypes DEF SentStep
  <2> QED BY <1>1, <1>2, <2>1, <2>2, <2>3, NotHeld, EndStep, HandlerKeeps
<1>10. CASE new /\ turn' = [turn EXCEPT ![m] = t] /\ led' = [led EXCEPT ![m] = row]
  <2>1. Frame(m, t, row)
    BY <1>1, <1>6, <1>10, SlotAlone, StepTypes DEF Frame
  <2>2. RowStep(m, row)
    BY <1>2, <1>6, <1>10 DEF RowStep, Delivered
  <2>3. SentStep(m, t, row)
    BY <1>1, <1>7, <1>10, StepTypes DEF SentStep
  <2>4. TurnStep(m, t)
    BY <1>3, <1>7, <1>10 DEF TurnStep
  <2>5. Agrees(m, t, row)
    BY <1>2, <1>3, <1>7, <1>10 DEF Agrees, PhaseAt
  <2> QED BY <1>1, <1>2, <1>3, <2>1, <2>2, <2>3, <2>4, <2>5, NotHeld, HandlerKeeps
<1> QED BY <1>1, <1>5, <1>8, <1>9, <1>10

-----------------------------------------------------------------------------
(* Resets and restarts *)

\* A state without handlers is good when its rows are.
LEMMA AllIdle ==
    /\ TypeOK /\ MoreTypes /\ RowsOK /\ FixOK /\ SentOK /\ OneReply
    /\ \A m \in Msgs : turn[m] = NoTurn
    /\ lock.by # "commit"
    => JInv
<1> SUFFICES ASSUME TypeOK, MoreTypes, RowsOK, FixOK, SentOK, OneReply,
                    \A m \in Msgs : turn[m] = NoTurn, lock.by # "commit"
             PROVE  JInv
  OBVIOUS
<1>1. NoTurn.pc = "idle" /\ NoTurn.epoch = 0 /\ NoTurn.cancelled = FALSE
  BY DEF NoTurn
<1>2. \A m \in Msgs : epoch[Guild(m)] \in Nat
  BY GuildType DEF TypeOK
<1>3. HandlersOK
  BY <1>1, <1>2 DEF HandlersOK
<1>4. LiveOK /\ LockOK
  BY <1>1 DEF LiveOK, LockOK, Live
<1> QED BY <1>3, <1>4 DEF JInv

\* The initial state.
LEMMA InitKeeps == Init => JInv
<1> SUFFICES ASSUME Init PROVE JInv
  OBVIOUS
<1>1. NoRow.phase = "none" /\ NoRow.id = 0 /\ NoRow.gen = 0 /\ NoRow.reply = NoReply /\ NoFix.msg = NoMsg
      /\ Free.by = "none" /\ NoTurn.pc = "idle"
  BY DEF NoRow, NoFix, Free, NoTurn
<1>2. led \in [Msgs -> Rows] /\ (\A m \in Msgs : led[m] = NoRow)
  BY ConstantTypes DEF Init
<1>3. turn \in [Msgs -> Turns] /\ (\A m \in Msgs : turn[m] = NoTurn)
  BY ConstantTypes DEF Init
<1>4. TypeOK
  BY <1>1, <1>2 DEF Init, TypeOK, Rows, Replies
<1>5. MoreTypes
  BY <1>1, <1>3, ConstantTypes DEF Init, MoreTypes, Checkpoints
<1>6. RowsOK
  BY <1>1, <1>2 DEF RowsOK, Delivered
<1>7. FixOK /\ SentOK /\ OneReply
  BY <1>1 DEF Init, FixOK, SentOK, OneReply
<1> QED BY <1>1, <1>3, <1>4, <1>5, <1>6, <1>7, AllIdle DEF Init

\* While the owner is not open there are no handlers and no commit.
LEMMA NotOpenIdle ==
    ASSUME JInv, owner # "open"
    PROVE  (\A m \in Msgs : turn[m] = NoTurn) /\ lock.by # "commit"
<1>1. \A m \in Msgs : turn[m] = NoTurn
  BY DEF JInv, HandlersOK
<1>2. NoTurn.pc = "idle"
  BY DEF NoTurn
<1> QED BY <1>1, <1>2 DEF JInv, LockOK

\* Steps that touch neither rows nor handlers.
LEMMA QuietKeeps ==
    ASSUME JInv, UNCHANGED <<led, turn, owner, epoch, ids, sent, cut>>,
           store' \in [Sessions -> SessionStates],
           ck' \in Checkpoints,
           revoked' \subseteq Guilds, blocked' \subseteq Guilds, todo' \subseteq Msgs,
           fixing' \in [msg : Msgs \cup {NoMsg}, was : SessionStates],
           fixing'.msg \in {fixing.msg, NoMsg},
           \/ lock' = lock
           \/ /\ lock.by # "commit" /\ lock'.by # "commit"
              /\ lock' \in [by : Locks, msg : Msgs \cup {NoMsg}, guild : Guilds \cup {NoGuild}]
              /\ lock'.by \in {"reset", "purged", "flushed"} => lock'.guild \in Guilds
    PROVE  JInv'
<1>1. lock' \in [by : Locks, msg : Msgs \cup {NoMsg}, guild : Guilds \cup {NoGuild}]
      /\ (lock'.by \in {"reset", "purged", "flushed"} => lock'.guild \in Guilds)
  BY DEF JInv, MoreTypes
<1>2. MoreTypes'
  BY <1>1 DEF JInv, MoreTypes
<1>3. lock'.by \in Locks /\ ck'.gen \in Nat /\ fixing'.msg \in Msgs \cup {NoMsg}
  BY <1>1 DEF Checkpoints
<1>4. TypeOK'
  BY <1>3 DEF JInv, TypeOK, Locks
<1>5. \A m \in Msgs : Live(m)' <=> Live(m)
  BY DEF Live, Guild
<1>6. \A m \in Msgs : Held(m)' <=> Held(m)
  BY DEF Held
<1>7. HandlersOK'
  BY <1>5 DEF JInv, HandlersOK, Guild
<1>8. \A m \in Msgs : Alone(m)' <=> Alone(m)
  BY DEF Alone
<1>9. LiveOK'
  <2> SUFFICES ASSUME NEW m \in Msgs, Live(m)'
               PROVE  /\ led'[m].id = turn'[m].id /\ PhaseAt(turn'[m].pc, Held(m)', led'[m].phase)
                      /\ Alone(m)'
                      /\ turn'[m].pc \notin {"claimed", "running", "failing"} =>
                            led'[m].reply = turn'[m].reply
    BY DEF LiveOK, PhaseAt
  <2>1. Live(m)
    BY <1>5
  <2>2. /\ led[m].id = turn[m].id /\ PhaseAt(turn[m].pc, Held(m), led[m].phase) /\ Alone(m)
        /\ turn[m].pc \notin {"claimed", "running", "failing"} => led[m].reply = turn[m].reply
    BY <2>1 DEF JInv, LiveOK
  <2>3. PhaseAt(turn'[m].pc, Held(m)', led'[m].phase)
    BY <1>6, <2>2 DEF PhaseAt
  <2> QED BY <1>8, <2>2, <2>3
<1>10. LockOK' /\ FixOK'
  BY <1>5 DEF JInv, LockOK, FixOK
<1>11. RowsOK' /\ SentOK' /\ OneReply'
  BY DEF JInv, RowsOK, SentOK, OneReply
<1> QED BY <1>2, <1>4, <1>7, <1>9, <1>10, <1>11 DEF JInv

\* The death of the process leaves the rows as they are.
LEMMA DeathKeeps ==
    ASSUME JInv, ProcessDies, UNCHANGED <<led, ids, sent, cut>>,
           revoked' \subseteq Guilds, ck' \in Checkpoints
    PROVE  JInv'
<1>1. NoFix.msg = NoMsg /\ Free.by = "none" /\ NoTurn.pc = "idle"
  BY DEF NoFix, Free, NoTurn
<1>2. /\ turn' = [m \in Msgs |-> NoTurn] /\ lock' = Free /\ fixing' = NoFix /\ owner' = "down"
      /\ store' = NoSessions /\ blocked' = {} /\ todo' = {} /\ epoch' = [g \in Guilds |-> 0]
  BY DEF ProcessDies
<1>3. MoreTypes'
  BY <1>1, <1>2, ConstantTypes DEF JInv, MoreTypes
<1>4. TypeOK'
  BY <1>1, <1>2 DEF JInv, TypeOK, Checkpoints
<1>5. RowsOK' /\ FixOK' /\ OneReply'
  BY <1>1, <1>2 DEF JInv, RowsOK, FixOK, OneReply
<1>6. SentOK'
  BY <1>1, <1>2 DEF JInv, SentOK
<1>7. (\A m \in Msgs : turn'[m] = NoTurn) /\ lock'.by # "commit"
  BY <1>1, <1>2
<1>8. ( /\ TypeOK /\ MoreTypes /\ RowsOK /\ FixOK /\ SentOK /\ OneReply
        /\ \A m \in Msgs : turn[m] = NoTurn
        /\ lock.by # "commit"
        => JInv )'
  BY AllIdle, PTL
<1> QED BY <1>3, <1>4, <1>5, <1>6, <1>7, <1>8

\* The periodic flush, the begin and the end of a reset, and the flush in it.
LEMMA PeriodicFlushKeeps ==
    ASSUME JInv, NEW end \in FlushEnds, PeriodicFlush(end)
    PROVE  JInv'
<1>1. ck' \in Checkpoints
  BY FlushType, StepTypes DEF PeriodicFlush, Flush
<1> QED BY <1>1, QuietKeeps DEF PeriodicFlush, JInv, TypeOK, MoreTypes

\* A reset takes the lock, or its revocation cannot be written.
LEMMA StartResetKeeps ==
    ASSUME JInv, NEW g \in Guilds, NEW o \in Outcomes, StartReset(g, o)
    PROVE  JInv'
<1>1. /\ lock = Free
      /\ \/ lock' = [Free EXCEPT !.by = "reset", !.guild = g]
         \/ lock' = Free
      /\ revoked' \in {revoked, revoked \cup {g}}
      /\ UNCHANGED <<led, turn, owner, epoch, ids, sent, cut, store, ck, blocked, todo, fixing>>
  BY DEF StartReset, history
<1>2. lock.by # "commit" /\ revoked' \subseteq Guilds
  BY <1>1 DEF Free, JInv, TypeOK
<1>3. CASE lock' = [Free EXCEPT !.by = "reset", !.guild = g]
  <2>1. /\ lock'.by = "reset" /\ lock'.guild = g
        /\ lock' \in [by : Locks, msg : Msgs \cup {NoMsg}, guild : Guilds \cup {NoGuild}]
    BY <1>3 DEF Free, Locks
  <2> QED BY <1>1, <1>2, <2>1, QuietKeeps DEF JInv, TypeOK, MoreTypes
<1>4. CASE lock' = Free
  BY <1>1, <1>2, <1>4, QuietKeeps DEF JInv, TypeOK, MoreTypes
<1> QED BY <1>1, <1>3, <1>4

\* A reset releases the lock, and the guild unless its revocation could not be
\* removed; at startup that failure ends the process.
LEMMA FinishResetKeeps ==
    ASSUME JInv, NEW o \in Outcomes, FinishReset(o)
    PROVE  JInv'
<1>1. /\ lock.by = "flushed" /\ revoked' \subseteq Guilds
      /\ UNCHANGED <<led, ids, sent, cut, ck>>
  BY DEF FinishReset, history, JInv, TypeOK
<1>2. CASE o = "ok" \/ owner = "open"
  <2>1. /\ lock' = Free /\ blocked' \subseteq Guilds
        /\ UNCHANGED <<turn, owner, epoch, store, todo, fixing>>
    BY <1>2 DEF FinishReset, JInv, TypeOK
  <2>2. lock'.by = "none"
    BY <2>1 DEF Free
  <2> QED BY <1>1, <2>1, <2>2, ConstantTypes, QuietKeeps DEF JInv, TypeOK, MoreTypes
<1>3. CASE ~(o = "ok" \/ owner = "open")
  <2>1. ProcessDies
    BY <1>3 DEF FinishReset
  <2> QED BY <1>1, <2>1, StepTypes, DeathKeeps
<1> QED BY <1>2, <1>3

\* The flush of a reset; at startup its failure ends the process.
LEMMA ResetFlushKeeps ==
    ASSUME JInv, NEW end \in FlushEnds, ResetFlush(end)
    PROVE  JInv'
<1>1. CASE ~Raised(end) \/ owner = "open"
  <2>1. /\ lock.by = "purged" /\ WriteCheckpoint(end, store)
        /\ lock' = IF Raised(end) THEN Free ELSE [lock EXCEPT !.by = "flushed"]
        /\ UNCHANGED <<led, revoked, turn, owner, epoch, ids, sent, cut, store, blocked, todo, fixing>>
    BY <1>1 DEF ResetFlush, Flush
  <2>2. ck' \in Checkpoints
    BY <2>1, FlushType, StepTypes
  <2>3. lock \in [by : Locks, msg : Msgs \cup {NoMsg}, guild : Guilds \cup {NoGuild}]
        /\ lock.guild \in Guilds
    BY <2>1 DEF JInv, MoreTypes
  <2>4. /\ lock' \in [by : Locks, msg : Msgs \cup {NoMsg}, guild : Guilds \cup {NoGuild}]
        /\ lock'.by # "commit"
        /\ lock'.by \in {"reset", "purged", "flushed"} => lock'.guild \in Guilds
    <3>1. CASE ~Raised(end)
      BY <2>1, <2>3, <3>1 DEF Locks
    <3>2. CASE Raised(end)
      BY <2>1, <3>2, ConstantTypes DEF Free
    <3> QED BY <3>1, <3>2
  <2> QED BY <2>1, <2>2, <2>4, QuietKeeps DEF JInv, TypeOK, MoreTypes
<1>2. CASE ~(~Raised(end) \/ owner = "open")
  <2>1. /\ ProcessDies /\ UNCHANGED <<led, revoked, ids, sent, cut>>
        /\ WriteCheckpoint(end, store)
    BY <1>2 DEF ResetFlush
  <2>2. ck' \in Checkpoints
    BY <2>1, FlushType, StepTypes
  <2> QED BY <2>1, <2>2, DeathKeeps DEF JInv, TypeOK
<1> QED BY <1>1, <1>2

\* The process dies.
LEMMA CrashKeeps ==
    ASSUME JInv, Crash
    PROVE  JInv'
<1>1. /\ ck' \in Checkpoints /\ revoked' \subseteq Guilds /\ ProcessDies
      /\ UNCHANGED <<led, ids, sent, cut>>
  BY StepTypes DEF Crash, durable, history, JInv, TypeOK
<1> QED BY <1>1, DeathKeeps

\* A purged guild: its rows are gone and its handlers out of date.
LEMMA PurgeRows ==
    ASSUME JInv, NEW g \in Guilds, PurgeGuild(g), ids' = ids
    PROVE  /\ epoch' \in [Guilds -> Nat] /\ cut' \in [Guilds -> Nat]
           /\ led' \in [Msgs -> Rows] /\ sent' \in [Msgs -> Nat]
           /\ epoch'[g] = epoch[g] + 1 /\ (\A h \in Guilds : h # g => epoch'[h] = epoch[h])
           /\ \A m \in Msgs : Guild(m) = g => led'[m] = NoRow /\ sent'[m] = 0
           /\ \A m \in Msgs : Guild(m) # g => led'[m] = led[m] /\ sent'[m] = sent[m]
           /\ RowsOK' /\ OneReply'
           /\ \A m \in Msgs : led'[m].phase \in {"none", "accepted", "response_ready"} =>
                 sent'[m] = 0
<1>1. /\ epoch' = [epoch EXCEPT ![g] = @ + 1]
      /\ led' = [m \in Msgs |-> IF Guild(m) = g THEN NoRow ELSE led[m]]
      /\ sent' = [m \in Msgs |-> IF Guild(m) = g THEN 0 ELSE sent[m]]
      /\ cut' = [cut EXCEPT ![g] = ids]
  BY DEF PurgeGuild, Of
<1>2. /\ led \in [Msgs -> Rows] /\ sent \in [Msgs -> Nat] /\ epoch \in [Guilds -> Nat]
      /\ cut \in [Guilds -> Nat] /\ ids \in Nat
  BY StepTypes DEF JInv, MoreTypes
<1>3. NoRow \in Rows /\ NoRow.phase = "none" /\ NoRow.gen = 0
  BY ConstantTypes DEF NoRow
<1>4. /\ epoch' \in [Guilds -> Nat] /\ cut' \in [Guilds -> Nat]
      /\ epoch'[g] = epoch[g] + 1 /\ (\A h \in Guilds : h # g => epoch'[h] = epoch[h])
  BY <1>1, <1>2
<1>5. /\ led' \in [Msgs -> Rows] /\ sent' \in [Msgs -> Nat]
      /\ \A m \in Msgs : Guild(m) = g => led'[m] = NoRow /\ sent'[m] = 0
      /\ \A m \in Msgs : Guild(m) # g => led'[m] = led[m] /\ sent'[m] = sent[m]
  BY <1>1, <1>2, <1>3
<1>6. RowsOK'
  <2>1. ASSUME NEW n \in Msgs
        PROVE  /\ led'[n].phase = "none" => led'[n] = NoRow
               /\ led'[n].phase # "none" => led'[n].id \in 1..ids'
               /\ led'[n].phase = "accepted" => led'[n].reply = NoReply
               /\ led'[n].phase \notin {"terminal_committing", "completed"} => led'[n].gen = 0
    BY <1>3, <1>5 DEF JInv, RowsOK
  <2>2. ASSUME NEW n1 \in Msgs, NEW n2 \in Msgs, led'[n1].phase # "none",
               led'[n2].phase # "none", led'[n1].id = led'[n2].id
        PROVE  n1 = n2
    BY <1>3, <1>5, <2>2 DEF JInv, RowsOK
  <2>3. ASSUME NEW n1 \in Msgs, NEW n2 \in Msgs, SessionOf[n1] = SessionOf[n2],
               led'[n1].phase \in Delivered, led'[n2].phase \in Delivered
        PROVE  n1 = n2
    BY <1>3, <1>5, <2>3 DEF JInv, RowsOK, Delivered
  <2> QED BY <2>1, <2>2, <2>3 DEF RowsOK
<1>7. OneReply'
  BY <1>5 DEF JInv, OneReply
<1>8. \A m \in Msgs : led'[m].phase \in {"none", "accepted", "response_ready"} => sent'[m] = 0
  BY <1>5 DEF JInv, SentOK
<1> QED BY <1>4, <1>5, <1>6, <1>7, <1>8

\* The reset of a guild's runtime.
LEMMA ResetRuntimeKeeps ==
    ASSUME JInv, ResetRuntime
    PROVE  JInv'
<1> DEFINE g == lock.guild
<1>1. /\ lock.by = "reset" /\ g \in Guilds
      /\ lock \in [by : Locks, msg : Msgs \cup {NoMsg}, guild : Guilds \cup {NoGuild}]
  BY DEF ResetRuntime, JInv, MoreTypes
<1>2. /\ blocked' = blocked \cup {g}
      /\ UNCHANGED <<ck, revoked, owner, todo, fixing, ids>>
  BY DEF ResetRuntime, counters
<1>3. CASE owner # "open"
  <2>1. lock' = Free /\ UNCHANGED <<store, turn, epoch, led, sent, cut>>
    BY <1>3 DEF ResetRuntime
  <2>2. lock'.by = "none"
    BY <2>1 DEF Free
  <2> QED BY <1>1, <1>2, <2>1, <2>2, ConstantTypes, QuietKeeps DEF JInv, TypeOK, MoreTypes
<1>4. CASE owner = "open"
  <2>1. /\ store' = [s \in Sessions |-> IF GuildOf[s] = g THEN NoSession ELSE store[s]]
        /\ turn' = [m \in Msgs |->
                    IF m \in Of(g) /\ turn[m].pc \notin {"idle", "claim", "claimed"}
                    THEN [turn[m] EXCEPT !.cancelled = TRUE] ELSE turn[m]]
        /\ PurgeGuild(g) /\ lock' = [lock EXCEPT !.by = "purged"]
    BY <1>4 DEF ResetRuntime
  <2>2. /\ epoch' \in [Guilds -> Nat] /\ cut' \in [Guilds -> Nat]
        /\ led' \in [Msgs -> Rows] /\ sent' \in [Msgs -> Nat]
        /\ epoch'[g] = epoch[g] + 1 /\ (\A h \in Guilds : h # g => epoch'[h] = epoch[h])
        /\ \A m \in Msgs : Guild(m) = g => led'[m] = NoRow /\ sent'[m] = 0
        /\ \A m \in Msgs : Guild(m) # g => led'[m] = led[m] /\ sent'[m] = sent[m]
        /\ RowsOK' /\ OneReply'
        /\ \A m \in Msgs : led'[m].phase \in {"none", "accepted", "response_ready"} => sent'[m] = 0
    BY <1>1, <1>2, <2>1, PurgeRows
  <2>3. /\ lock'.by = "purged" /\ lock'.guild = g
        /\ lock' \in [by : Locks, msg : Msgs \cup {NoMsg}, guild : Guilds \cup {NoGuild}]
    BY <1>1, <2>1 DEF Locks
  <2>4. turn \in [Msgs -> Turns] /\ epoch \in [Guilds -> Nat] /\ store \in [Sessions -> SessionStates]
    BY StepTypes
  <2>5. ASSUME NEW m \in Msgs
        PROVE  /\ turn'[m] \in Turns /\ turn'[m].pc = turn[m].pc /\ turn'[m].id = turn[m].id
               /\ turn'[m].epoch = turn[m].epoch /\ turn'[m].reply = turn[m].reply
               /\ Guild(m) # g => turn'[m] = turn[m]
               /\ turn[m].pc \notin {"idle", "claim", "claimed"} /\ Guild(m) = g =>
                     turn'[m].cancelled
               /\ turn[m].pc \in {"idle", "claim", "claimed"} => turn'[m] = turn[m]
    <3>1. turn[m] \in Turns
      BY <2>4
    <3>2. [turn[m] EXCEPT !.cancelled = TRUE] \in Turns
      BY <3>1 DEF Turns
    <3>3. CASE m \in Of(g) /\ turn[m].pc \notin {"idle", "claim", "claimed"}
      <4>1. turn'[m] = [turn[m] EXCEPT !.cancelled = TRUE]
        BY <2>1, <3>3
      <4> QED BY <3>1, <3>2, <3>3, <4>1 DEF Of, Turns
    <3>4. CASE ~(m \in Of(g) /\ turn[m].pc \notin {"idle", "claim", "claimed"})
      BY <2>1, <3>1, <3>4 DEF Of
    <3> QED BY <3>3, <3>4
  <2>6. turn' \in [Msgs -> Turns]
    BY <2>1, <2>5
  <2>7. store' \in [Sessions -> SessionStates]
    BY <2>1, <2>4, ConstantTypes
  <2>8. MoreTypes'
    BY <1>1, <1>2, <2>2, <2>3, <2>6, <2>7 DEF JInv, MoreTypes
  <2>9. TypeOK'
    BY <1>1, <1>2, <2>2, <2>3 DEF JInv, TypeOK, Rows, Replies
  <2>10. ASSUME NEW m \in Msgs
         PROVE  /\ turn[m].epoch \in Nat /\ epoch[Guild(m)] \in Nat /\ turn[m].epoch <= epoch[Guild(m)]
                /\ turn[m].cancelled => turn[m].epoch # epoch[Guild(m)]
                /\ turn[m].pc \notin {"idle", "claim", "claimed"} /\ ~turn[m].cancelled => Live(m)
    BY <2>4, GuildType DEF JInv, HandlersOK, Turns
  <2>11. ASSUME NEW m \in Msgs, Guild(m) = g
         PROVE  turn'[m].epoch < epoch'[Guild(m)] /\ ~Live(m)'
    <3>1. turn'[m].epoch < epoch'[Guild(m)]
      BY <2>2, <2>5, <2>10, <2>11
    <3> QED BY <2>5, <2>10, <3>1 DEF Live, Guild
  <2>12. ASSUME NEW m \in Msgs, Guild(m) # g
         PROVE  epoch'[Guild(m)] = epoch[Guild(m)] /\ (Live(m)' <=> Live(m))
    BY <2>2, <2>5, <2>12, GuildType DEF Live, Guild
  <2>13. HandlersOK'
    <3>1. ASSUME NEW m \in Msgs
          PROVE  /\ owner' # "open" => turn'[m] = NoTurn
                 /\ turn'[m].epoch <= epoch'[Guild(m)]
                 /\ turn'[m].pc \notin {"idle", "claim", "claimed"} /\ ~turn'[m].cancelled => Live(m)'
                 /\ turn'[m].cancelled => turn'[m].epoch # epoch'[Guild(m)]
      <4>1. CASE Guild(m) = g
        <5>1. turn'[m].epoch < epoch'[Guild(m)] /\ turn'[m].epoch \in Nat /\ epoch'[Guild(m)] \in Nat
          BY <1>1, <2>2, <2>5, <2>10, <2>11, <4>1
        <5>2. turn'[m].pc \notin {"idle", "claim", "claimed"} => turn'[m].cancelled
          BY <2>5, <4>1
        <5> QED BY <1>2, <1>4, <5>1, <5>2
      <4>2. CASE Guild(m) # g
        <5>1. turn'[m] = turn[m]
          BY <2>5, <4>2
        <5> QED BY <1>2, <1>4, <2>10, <2>12, <4>2, <5>1
      <4> QED BY <4>1, <4>2
    <3>2. ASSUME NEW m \in Msgs, NEW n \in Msgs, SlotOf[m] = SlotOf[n],
                 turn'[m].pc # "idle", turn'[n].pc # "idle"
          PROVE  m = n
      BY <2>5, <3>2 DEF JInv, HandlersOK
    <3> QED BY <3>1, <3>2 DEF HandlersOK, Guild
  <2>14. LiveOK'
    <3> SUFFICES ASSUME NEW m \in Msgs, Live(m)'
                 PROVE  /\ led'[m].id = turn'[m].id /\ PhaseAt(turn'[m].pc, Held(m)', led'[m].phase)
                        /\ Alone(m)'
                        /\ turn'[m].pc \notin {"claimed", "running", "failing"} =>
                              led'[m].reply = turn'[m].reply
      BY DEF LiveOK, PhaseAt
    <3>1. Guild(m) # g /\ Live(m) /\ turn'[m] = turn[m] /\ led'[m] = led[m]
      BY <2>2, <2>5, <2>11, <2>12
    <3>2. /\ led[m].id = turn[m].id /\ PhaseAt(turn[m].pc, Held(m), led[m].phase) /\ Alone(m)
          /\ turn[m].pc \notin {"claimed", "running", "failing"} => led[m].reply = turn[m].reply
      BY <3>1 DEF JInv, LiveOK
    <3>3. ~Held(m) /\ ~Held(m)'
      BY <1>1, <2>3 DEF Held
    <3>4. PhaseAt(turn'[m].pc, Held(m)', led'[m].phase)
      BY <3>1, <3>2, <3>3 DEF PhaseAt
    <3>5. Alone(m)'
      <4>1. NoRow.phase = "none"
        BY DEF NoRow
      <4> QED BY <2>2, <3>2, <4>1 DEF Alone, Delivered
    <3> QED BY <3>1, <3>2, <3>4, <3>5
  <2>15. LockOK'
    BY <2>3 DEF LockOK
  <2>16. FixOK'
    BY <1>2, <1>4 DEF JInv, FixOK
  <2>17. SentOK'
    <3>1. ASSUME NEW m \in Msgs, turn'[m].pc = "inflight" PROVE sent'[m] = 0
      BY <2>2, <2>5, <3>1 DEF JInv, SentOK
    <3> QED BY <2>2, <3>1 DEF SentOK
  <2> QED BY <2>2, <2>8, <2>9, <2>13, <2>14, <2>15, <2>16, <2>17 DEF JInv
<1> QED BY <1>3, <1>4

\* Steps taken while the owner is not open: no handlers, only rows matter.
LEMMA ShutKeeps ==
    ASSUME JInv, owner # "open", turn' = turn, TypeOK', MoreTypes', RowsOK', FixOK',
           \A m \in Msgs : led'[m].phase \in {"none", "accepted", "response_ready"} => sent'[m] = 0,
           OneReply', lock'.by # "commit"
    PROVE  JInv'
<1>1. \A m \in Msgs : turn'[m] = NoTurn
  BY NotOpenIdle
<1>2. SentOK'
  BY <1>1 DEF SentOK, NoTurn
<1>3. ( /\ TypeOK /\ MoreTypes /\ RowsOK /\ FixOK /\ SentOK /\ OneReply
        /\ \A m \in Msgs : turn[m] = NoTurn
        /\ lock.by # "commit"
        => JInv )'
  BY AllIdle, PTL
<1> QED BY <1>1, <1>2, <1>3

\* The purge of a guild at startup.
LEMMA RecoverPurgeKeeps ==
    ASSUME JInv, NEW g \in Guilds, RecoverReset(g, "ok")
    PROVE  JInv'
<1>1. /\ owner = "restored" /\ PurgeGuild(g) /\ lock' = [Free EXCEPT !.by = "purged", !.guild = g]
      /\ UNCHANGED <<ck, revoked, store, owner, blocked, turn, todo, fixing, ids>>
  BY DEF RecoverReset, counters
<1>2. /\ epoch' \in [Guilds -> Nat] /\ cut' \in [Guilds -> Nat]
      /\ led' \in [Msgs -> Rows] /\ sent' \in [Msgs -> Nat]
      /\ RowsOK' /\ OneReply'
      /\ \A m \in Msgs : led'[m].phase \in {"none", "accepted", "response_ready"} => sent'[m] = 0
  BY <1>1, PurgeRows
<1>3. /\ lock' \in [by : Locks, msg : Msgs \cup {NoMsg}, guild : Guilds \cup {NoGuild}]
      /\ lock'.by = "purged" /\ lock'.guild \in Guilds
  BY <1>1 DEF Free, Locks
<1>4. MoreTypes'
  BY <1>1, <1>2, <1>3 DEF JInv, MoreTypes
<1>5. TypeOK'
  BY <1>1, <1>2, <1>3 DEF JInv, TypeOK, Rows, Replies
<1>6. FixOK'
  BY <1>1 DEF JInv, FixOK
<1> QED BY <1>1, <1>2, <1>3, <1>4, <1>5, <1>6, ShutKeeps

\* When the revocation cannot be written again, the starting process ends.
LEMMA RecoverResetKeeps ==
    ASSUME JInv, NEW g \in Guilds, NEW o \in Outcomes, RecoverReset(g, o)
    PROVE  JInv'
<1>1. CASE o = "ok"
  BY <1>1, RecoverPurgeKeeps
<1>2. CASE o # "ok"
  <2>1. ProcessDies /\ UNCHANGED <<led, sent, cut, ck, revoked, ids>>
    BY <1>2 DEF RecoverReset
  <2> QED BY <2>1, StepTypes, DeathKeeps DEF JInv, TypeOK
<1> QED BY <1>1, <1>2

\* A single row that moves on while the owner is not open.
LEMMA ShutRow ==
    ASSUME JInv, owner # "open", NEW m \in Msgs, NEW r \in Rows,
           led' = [led EXCEPT ![m] = r], led[m].phase \in Delivered,
           r.phase \in {"terminal_committing", "completed"}, r.id = led[m].id,
           UNCHANGED <<turn, lock, epoch, ids, sent, cut, revoked, blocked, owner>>,
           store' \in [Sessions -> SessionStates], todo' \subseteq Msgs,
           ck' \in Checkpoints,
           fixing' \in [msg : Msgs \cup {NoMsg}, was : SessionStates],
           fixing'.msg # NoMsg =>
               owner = "reconciling" /\ fixing'.msg = m /\ r.phase = "terminal_committing"
    PROVE  JInv'
<1>1. led' \in [Msgs -> Rows] /\ led'[m] = r /\ (\A n \in Msgs : n # m => led'[n] = led[n])
  BY StepTypes
<1>2. MoreTypes'
  BY DEF JInv, MoreTypes
<1>3. TypeOK'
  BY <1>1 DEF JInv, TypeOK, Rows, Replies, Checkpoints
<1>4. FixOK'
  BY <1>1 DEF FixOK
<1>5. led[m].phase \notin {"none", "accepted", "response_ready"}
  BY DEF Delivered
<1>6. /\ \A n \in Msgs : led'[n].phase \in {"none", "accepted", "response_ready"} => sent'[n] = 0
      /\ OneReply' /\ lock'.by # "commit"
  BY <1>1, NotOpenIdle DEF JInv, SentOK, OneReply
<1>7. RowsOK'
  <2>1. ASSUME NEW n \in Msgs
        PROVE  /\ led'[n].phase = "none" => led'[n] = NoRow
               /\ led'[n].phase # "none" => led'[n].id \in 1..ids'
               /\ led'[n].phase = "accepted" => led'[n].reply = NoReply
               /\ led'[n].phase \notin {"terminal_committing", "completed"} => led'[n].gen = 0
    BY <1>1, <1>5 DEF JInv, RowsOK
  <2>2. ASSUME NEW n1 \in Msgs, NEW n2 \in Msgs, led'[n1].phase # "none",
               led'[n2].phase # "none", led'[n1].id = led'[n2].id
        PROVE  n1 = n2
    BY <1>1, <1>5, <2>2 DEF JInv, RowsOK
  <2>3. ASSUME NEW n1 \in Msgs, NEW n2 \in Msgs, SessionOf[n1] = SessionOf[n2],
               led'[n1].phase \in Delivered, led'[n2].phase \in Delivered
        PROVE  n1 = n2
    BY <1>1, <2>3 DEF JInv, RowsOK
  <2> QED BY <2>1, <2>2, <2>3 DEF RowsOK
<1> QED BY <1>2, <1>3, <1>4, <1>6, <1>7, ShutKeeps

\* The start of a process, which makes ambiguous what was in flight.
LEMMA StartKeeps ==
    ASSUME JInv, NEW end \in FlushEnds, Start(end)
    PROVE  JInv'
<1> DEFINE row(m) == IF led[m].phase = "delivery_inflight"
                     THEN [led[m] EXCEPT !.phase = "delivery_ambiguous"] ELSE led[m]
<1>1. /\ owner = "down" /\ owner' = "restored" /\ led' = [m \in Msgs |-> row(m)]
      /\ \/ store' = [s \in Sessions |-> Restored(s)] /\ ck' = ck
         \/ store' = NoSessions /\ WriteCheckpoint(end, NoSessions)
      /\ UNCHANGED <<revoked, epoch, blocked, turn, lock, todo, fixing, ids, sent, cut>>
  BY DEF Start
<1>2. store' \in [Sessions -> SessionStates] /\ ck' \in Checkpoints
  BY <1>1, FlushType, StepTypes, ConstantTypes DEF Restored
<1>3. ASSUME NEW m \in Msgs
      PROVE  /\ row(m) \in Rows /\ row(m).id = led[m].id /\ row(m).gen = led[m].gen
             /\ row(m).reply = led[m].reply
             /\ row(m).phase # led[m].phase =>
                   led[m].phase = "delivery_inflight" /\ row(m).phase = "delivery_ambiguous"
             /\ row(m).phase = led[m].phase => row(m) = led[m]
  <2>1. led[m] \in Rows
    BY StepTypes
  <2>2. CASE led[m].phase = "delivery_inflight"
    BY <2>1, <2>2 DEF Rows, Phases
  <2>3. CASE led[m].phase # "delivery_inflight"
    BY <2>1, <2>3
  <2> QED BY <2>2, <2>3
<1> HIDE DEF row
<1>4. led' \in [Msgs -> Rows] /\ \A m \in Msgs : led'[m] = row(m)
  BY <1>1, <1>3
<1>5. MoreTypes'
  BY <1>1, <1>2 DEF JInv, MoreTypes
<1>6. TypeOK'
  BY <1>1, <1>2, <1>4 DEF JInv, TypeOK, Rows, Replies, Checkpoints
<1>7. FixOK'
  BY <1>1 DEF JInv, FixOK
<1>8. /\ \A n \in Msgs : led'[n].phase \in {"none", "accepted", "response_ready"} => sent'[n] = 0
      /\ OneReply' /\ lock'.by # "commit"
  BY <1>1, <1>3, <1>4, NotOpenIdle DEF JInv, SentOK, OneReply
<1>9. RowsOK'
  <2>1. ASSUME NEW n \in Msgs
        PROVE  /\ led'[n].phase = "none" => led'[n] = NoRow
               /\ led'[n].phase # "none" => led'[n].id \in 1..ids'
               /\ led'[n].phase = "accepted" => led'[n].reply = NoReply
               /\ led'[n].phase \notin {"terminal_committing", "completed"} => led'[n].gen = 0
               /\ led'[n].phase # "none" => led[n].phase # "none"
               /\ led'[n].phase \in Delivered => led[n].phase \in Delivered
               /\ led'[n].id = led[n].id
    BY <1>1, <1>3, <1>4 DEF JInv, RowsOK, Delivered
  <2> QED BY <2>1 DEF JInv, RowsOK
<1> QED BY <1>1, <1>5, <1>6, <1>7, <1>8, <1>9, ShutKeeps

\* A revoked file is taken for good again.
LEMMA ReviveKeeps ==
    ASSUME JInv, Revive
    PROVE  JInv'
<1>1. ck' \in Checkpoints
  BY StepTypes, ConstantTypes DEF Revive, CkFiles, Checkpoints
<1> QED BY <1>1, QuietKeeps DEF Revive, counters, JInv, TypeOK, MoreTypes

\* The beginning of the reconciliation, and its end.
LEMMA OwnerMoves ==
    ASSUME JInv, owner # "open", owner' \in {"reconciling", "shut", "open"},
           todo' \subseteq Msgs, fixing.msg = NoMsg,
           ck' \in Checkpoints,
           UNCHANGED <<led, revoked, store, epoch, blocked, turn, lock, fixing, ids, sent, cut>>
    PROVE  JInv'
<1>1. MoreTypes'
  BY DEF JInv, MoreTypes
<1>2. TypeOK'
  BY DEF JInv, TypeOK, Checkpoints
<1>3. FixOK' /\ RowsOK' /\ OneReply' /\ lock'.by # "commit"
  BY NotOpenIdle DEF JInv, FixOK, RowsOK, OneReply
<1>4. \A n \in Msgs : led'[n].phase \in {"none", "accepted", "response_ready"} => sent'[n] = 0
  BY DEF JInv, SentOK
<1> QED BY <1>1, <1>2, <1>3, <1>4, ShutKeeps

\* The recovered rows are read.
LEMMA StartReconcilingKeeps ==
    ASSUME JInv, StartReconciling
    PROVE  JInv'
<1>1. /\ owner = "restored" /\ owner' = "reconciling" /\ todo' \subseteq Msgs
      /\ UNCHANGED <<led, ck, revoked, store, epoch, blocked, turn, lock, fixing, ids, sent, cut>>
  BY DEF StartReconciling, durable, counters, history
<1>2. fixing.msg = NoMsg
  BY <1>1 DEF JInv, FixOK
<1> QED BY <1>1, <1>2, OwnerMoves, StepTypes

\* The owner opens, or stays shut.
LEMMA OpenKeeps ==
    ASSUME JInv, Open
    PROVE  JInv'
<1>1. /\ owner = "reconciling" /\ owner' \in {"shut", "open"} /\ fixing = NoFix
      /\ ck' = ck \/ ck' = [ck EXCEPT !.gen = 1]
      /\ UNCHANGED <<led, revoked, store, epoch, blocked, turn, lock, todo, fixing, ids, sent, cut>>
  BY DEF Open, counters, history
<1>2. fixing.msg = NoMsg /\ todo' \subseteq Msgs
  BY <1>1 DEF NoFix, JInv, TypeOK
<1>3. ck' \in Checkpoints
  BY <1>1, StepTypes DEF Checkpoints
<1> QED BY <1>1, <1>2, <1>3, OwnerMoves

\* The steps of the reconciliation.
LEMMA ReconcileVerifiedKeeps ==
    ASSUME JInv, NEW m \in Msgs, ReconcileVerified(m)
    PROVE  JInv'
<1> DEFINE r == [led[m] EXCEPT !.phase = "completed"]
<1>1. /\ owner = "reconciling" /\ fixing = NoFix /\ led[m].phase = "terminal_committing"
      /\ led' = [led EXCEPT ![m] = r] /\ todo' = todo \ {m}
      /\ UNCHANGED <<ck, revoked, store, owner, epoch, blocked, turn, lock, fixing, ids, sent, cut>>
  BY DEF ReconcileVerified, Reconciling, VerifiedTerminal, counters, history
<1>2. led[m] \in Rows
  BY StepTypes
<1>3. r \in Rows /\ r.phase = "completed" /\ r.id = led[m].id
  BY <1>2 DEF Rows, Phases
<1> HIDE DEF r
<1>4. /\ todo' \subseteq Msgs /\ fixing'.msg = NoMsg /\ led[m].phase \in Delivered
      /\ fixing' \in [msg : Msgs \cup {NoMsg}, was : SessionStates]
  BY <1>1 DEF JInv, TypeOK, MoreTypes, NoFix, Delivered
<1> QED BY <1>1, <1>3, <1>4, StepTypes, ShutRow

\* The session with its delivered turn is well typed.
LEMMA WithTurnType ==
    ASSUME JInv, NEW m \in Msgs
    PROVE  store[SessionOf[m]] \in SessionStates /\ WithTurn(m) \in SessionStates
<1>1. led[m] \in Rows /\ store[SessionOf[m]] \in SessionStates
  BY StepTypes, GuildType
<1>2. led[m].id \in Nat /\ led[m].reply \in Replies
  BY <1>1 DEF Rows
<1>3. Append(store[SessionOf[m]].hist, Pair(m, led[m].id, led[m].reply)) \in Seq(Entries)
  BY <1>1, <1>2, AppendType
<1>4. [turn |-> led[m].id,
       hist |-> Append(store[SessionOf[m]].hist, Pair(m, led[m].id, led[m].reply))] \in SessionStates
  BY <1>2, <1>3 DEF SessionStates
<1> QED BY <1>1, <1>4 DEF WithTurn

\* A delivered row is announced to be committed again.
LEMMA ReconcileMarkKeeps ==
    ASSUME JInv, NEW m \in Msgs, ReconcileMark(m)
    PROVE  JInv'
<1> DEFINE r == [led[m] EXCEPT !.phase = "terminal_committing", !.gen = ck.gen + 1]
<1>1. /\ owner = "reconciling" /\ led[m].phase \in Delivered
      /\ led' = [led EXCEPT ![m] = r]
      /\ store' = [store EXCEPT ![SessionOf[m]] = WithTurn(m)]
      /\ fixing' = [msg |-> m, was |-> store[SessionOf[m]]]
      /\ UNCHANGED <<ck, revoked, owner, epoch, blocked, turn, lock, todo, ids, sent, cut>>
  BY DEF ReconcileMark, Reconciling, Recommits, Delivered, counters, history
<1>2. led[m] \in Rows /\ ck.gen + 1 \in Nat
  BY StepTypes
<1>3. r \in Rows /\ r.phase = "terminal_committing" /\ r.id = led[m].id
  BY <1>2 DEF Rows, Phases
<1> HIDE DEF r
<1>4. /\ fixing'.msg = m
      /\ fixing' \in [msg : Msgs \cup {NoMsg}, was : SessionStates]
  BY <1>1, WithTurnType
<1>5. store' \in [Sessions -> SessionStates] /\ todo' \subseteq Msgs
  BY <1>1, WithTurnType, StepTypes DEF JInv, TypeOK
<1> QED BY <1>1, <1>3, <1>4, <1>5, StepTypes, ShutRow

\* The commit of the recovered turn, with its rollback.
LEMMA ReconcileCommitKeeps ==
    ASSUME JInv, NEW end \in FlushEnds, ReconcileCommit(end)
    PROVE  JInv'
<1>1. /\ fixing.msg # NoMsg /\ WriteCheckpoint(end, store)
      /\ UNCHANGED <<led, revoked, owner, epoch, blocked, turn, lock, ids, sent, cut>>
  BY DEF ReconcileCommit, Flush
<1>2. ck' \in Checkpoints
  BY <1>1, FlushType, StepTypes
<1>3. fixing.msg \in Msgs /\ fixing.was \in SessionStates
  BY <1>1 DEF JInv, MoreTypes
<1>4. CASE ~Raised(end)
  <2>1. UNCHANGED <<store, fixing, todo>>
    BY <1>4 DEF ReconcileCommit
  <2> QED BY <1>1, <1>2, <2>1, QuietKeeps DEF JInv, TypeOK, MoreTypes
<1>5. CASE Raised(end)
  <2>1. /\ store' = [store EXCEPT ![SessionOf[fixing.msg]] = fixing.was]
        /\ fixing' = NoFix /\ todo' = todo \ {fixing.msg}
    BY <1>5 DEF ReconcileCommit
  <2>2. store' \in [Sessions -> SessionStates]
    BY <1>3, <2>1, StepTypes
  <2>3. fixing'.msg = NoMsg /\ fixing' \in [msg : Msgs \cup {NoMsg}, was : SessionStates]
    BY <2>1, ConstantTypes DEF NoFix
  <2> QED BY <1>1, <1>2, <2>1, <2>2, <2>3, QuietKeeps DEF JInv, TypeOK, MoreTypes
<1> QED BY <1>4, <1>5

\* The recovered row is completed.
LEMMA ReconcileCompleteKeeps ==
    ASSUME JInv, ReconcileComplete
    PROVE  JInv'
<1> DEFINE m == fixing.msg
           r == [led[m] EXCEPT !.phase = "completed"]
<1>1. /\ owner = "reconciling" /\ m # NoMsg /\ led' = [led EXCEPT ![m] = r]
      /\ fixing' = NoFix /\ todo' = todo \ {m}
      /\ UNCHANGED <<ck, revoked, store, owner, epoch, blocked, turn, lock, ids, sent, cut>>
  BY DEF ReconcileComplete, counters, history
<1>2. m \in Msgs /\ led[m].phase \in Delivered
  BY <1>1 DEF JInv, MoreTypes, FixOK, Delivered
<1>3. led[m] \in Rows
  BY <1>2, StepTypes
<1>4. r \in Rows /\ r.phase = "completed" /\ r.id = led[m].id
  BY <1>3 DEF Rows, Phases
<1>5. /\ todo' \subseteq Msgs /\ fixing'.msg = NoMsg
      /\ fixing' \in [msg : Msgs \cup {NoMsg}, was : SessionStates]
  BY <1>1, ConstantTypes DEF JInv, TypeOK, NoFix
<1> HIDE DEF r, m
<1> QED BY <1>1, <1>2, <1>4, <1>5, StepTypes, ShutRow

\* The row is left as it is.
LEMMA ReconcileUnresolvedKeeps ==
    ASSUME JInv, NEW m \in Msgs, ReconcileUnresolved(m)
    PROVE  JInv'
BY QuietKeeps DEF ReconcileUnresolved, durable, counters, history, JInv, TypeOK, MoreTypes

\* A step that changes nothing.
LEMMA StutterKeeps ==
    ASSUME JInv, UNCHANGED vars
    PROVE  JInv'
BY QuietKeeps DEF vars, durable, counters, history, JInv, TypeOK, MoreTypes

\* Every step keeps the invariant.
LEMMA Inductive == JInv /\ [Next]_vars => JInv'
<1> SUFFICES ASSUME JInv, [Next]_vars PROVE JInv'
  OBVIOUS
<1>1. ASSUME NEW m \in Msgs, Deliver(m) \/ GenerationFails(m) PROVE JInv'
  BY <1>1, DeliverKeeps, GenerationFailsKeeps
<1>2. ASSUME NEW m \in Msgs, Handler(m) PROVE JInv'
  <2>1. CASE Activate(m) \/ AppendTurn(m) \/ TakeReceipt(m) \/ Abandon(m)
    BY <2>1, ActivateKeeps, AppendTurnKeeps, TakeReceiptKeeps, AbandonKeeps
  <2>2. ASSUME NEW o \in Outcomes,
               \/ Claim(m, o) \/ BindReply(m, o) \/ GoInflight(m, o)
               \/ MarkAmbiguous(m, o) \/ ConfirmDelivery(m, o)
               \/ CommitMarker(m, o) \/ CompleteTurn(m, o)
        PROVE  JInv'
    BY <2>2, ClaimKeeps, BindReplyKeeps, GoInflightKeeps, MarkAmbiguousKeeps,
       ConfirmDeliveryKeeps, CommitMarkerKeeps, CompleteTurnKeeps
  <2>3. ASSUME NEW seen \in BOOLEAN, NEW raised \in BOOLEAN, Send(m, seen, raised) PROVE JInv'
    BY <2>3, SendKeeps
  <2>4. ASSUME NEW end \in FlushEnds, CommitFlush(m, end) PROVE JInv'
    BY <2>4, CommitFlushKeeps
  <2> QED BY <1>2, <2>1, <2>2, <2>3, <2>4 DEF Handler
<1>3. CASE ResetSteps
  BY <1>3, ResetRuntimeKeeps, ResetFlushKeeps, FinishResetKeeps DEF ResetSteps
<1>4. CASE Restart
  <2>1. ASSUME NEW m \in Msgs, ReconcileVerified(m) \/ ReconcileMark(m) \/ ReconcileUnresolved(m)
        PROVE  JInv'
    BY <2>1, ReconcileVerifiedKeeps, ReconcileMarkKeeps, ReconcileUnresolvedKeeps
  <2>2. ASSUME NEW g \in Guilds, NEW o \in {"ok", "lost"}, RecoverReset(g, o) PROVE JInv'
    BY <2>2, RecoverResetKeeps DEF Outcomes
  <2>3. ASSUME NEW end \in FlushEnds, ReconcileCommit(end) PROVE JInv'
    BY <2>3, ReconcileCommitKeeps
  <2>4. ASSUME NEW end \in {"ok", "dropped", "left"}, Start(end) PROVE JInv'
    BY <2>4, StartKeeps DEF FlushEnds
  <2> QED BY <1>4, <2>1, <2>2, <2>3, <2>4, ReviveKeeps, StartReconcilingKeeps,
             ReconcileCompleteKeeps, OpenKeeps DEF Restart
<1>5. ASSUME NEW end \in FlushEnds, PeriodicFlush(end) PROVE JInv'
  BY <1>5, PeriodicFlushKeeps
<1>6. ASSUME NEW g \in Guilds, NEW o \in Outcomes, StartReset(g, o) PROVE JInv'
  BY <1>6, StartResetKeeps
<1>7. CASE Crash
  BY <1>7, CrashKeeps
<1>8. CASE UNCHANGED vars
  BY <1>8, StutterKeeps
<1> QED BY <1>1, <1>2, <1>3, <1>4, <1>5, <1>6, <1>7, <1>8 DEF Next

\* The invariant of rows, handlers, lock and reconciliation.
THEOREM RowsAndHandlers == Spec => []JInv
BY InitKeeps, Inductive, PTL DEF Spec

\* The composition is type-correct.
THEOREM TypeCorrect == Spec => []TypeOK
<1>1. JInv => TypeOK
  BY DEF JInv
<1> QED BY <1>1, RowsAndHandlers, PTL

\* At most one reply to a message is seen.
THEOREM OneReplyAlways == Spec => []OneReply
<1>1. JInv => OneReply
  BY DEF JInv
<1> QED BY <1>1, RowsAndHandlers, PTL
\* The phases a kept row moves through,
Moves == {<<"accepted", "response_ready">>, <<"response_ready", "delivery_inflight">>,
          <<"delivery_inflight", "delivery_ambiguous">>,
          <<"delivery_inflight", "delivery_succeeded">>,
          <<"delivery_succeeded", "terminal_committing">>,
          <<"terminal_committing", "terminal_committing">>,
          <<"terminal_committing", "completed">>}

\* what a step does to a row,
RowMove(r, q) ==
    \/ q = NoRow
    \/ q = r
    \/ r = NoRow /\ q.phase = "accepted" /\ q.id = ids + 1 /\ ids' = ids + 1
    \/ /\ <<r.phase, q.phase>> \in Moves /\ q.id = r.id
       /\ r.phase # "accepted" => q.reply = r.reply
       /\ r.gen > 0 => q.gen = r.gen

\* and to all of them.
RowsMove ==
    ids' \in {ids, ids + 1} /\ \A n \in Msgs : RowMove(led[n], led'[n])

\* One row that changes.
LEMMA OneRow ==
    ASSUME JInv, NEW m \in Msgs, NEW q \in Rows, RowMove(led[m], q),
           led' = [led EXCEPT ![m] = q], ids' \in {ids, ids + 1}
    PROVE  RowsMove
<1>1. led \in [Msgs -> Rows]
  BY StepTypes
<1>2. ASSUME NEW n \in Msgs PROVE RowMove(led[n], led'[n])
  <2>1. CASE n = m
    BY <1>1, <2>1
  <2>2. CASE n # m
    BY <1>1, <2>2 DEF RowMove
  <2> QED BY <2>1, <2>2
<1> QED BY <1>2 DEF RowsMove

\* A journal operation of a handler.
LEMMA MarkMoves ==
    ASSUME JInv, NEW m \in Msgs, NEW allowed \in BOOLEAN, NEW q \in Rows, NEW o \in Outcomes,
           Mark(m, allowed, q, o), allowed => RowMove(led[m], q), ids' \in {ids, ids + 1}
    PROVE  RowsMove
<1>1. CASE led' = led
  BY <1>1 DEF RowsMove, RowMove
<1>2. CASE allowed /\ led' = [led EXCEPT ![m] = q]
  BY <1>2, OneRow
<1> QED BY <1>1, <1>2 DEF Mark

\* The steps of m's handler.
LEMMA HandlerMoves ==
    ASSUME JInv, NEW m \in Msgs, Handler(m)
    PROVE  RowsMove
<1>0. led[m] \in Rows /\ ck.gen + 1 \in Nat /\ ids + 1 \in Nat
  BY StepTypes
<1>1. CASE Activate(m) \/ AppendTurn(m) \/ TakeReceipt(m) \/ Abandon(m)
  BY <1>1 DEF Activate, AppendTurn, TakeReceipt, Abandon, durable, counters, RowsMove, RowMove
<1>2. ASSUME NEW o \in Outcomes, Claim(m, o) PROVE RowsMove
  <2> DEFINE new == Admitted(m) /\ ~Unsettled(SessionOf[m]) /\ led[m] = NoRow
             q == [NoRow EXCEPT !.phase = "accepted", !.id = ids + 1]
  <2>1. Mark(m, new, q, o) /\ new \in BOOLEAN /\ ids' \in {ids, ids + 1}
    BY <1>2 DEF Claim
  <2>2. q \in Rows /\ q.phase = "accepted" /\ q.id = ids + 1
    BY <1>0, ConstantTypes DEF Rows, Phases, NoRow
  <2>3. new => led[m] = NoRow /\ ids' = ids + 1
    BY <1>2 DEF Claim
  <2> HIDE DEF new, q
  <2>4. new => RowMove(led[m], q)
    BY <2>2, <2>3 DEF RowMove
  <2> QED BY <2>1, <2>2, <2>4, MarkMoves
<1>3. ASSUME NEW o \in Outcomes, BindReply(m, o) PROVE RowsMove
  <2> DEFINE reply == IF AtPc(m, "running") THEN Answer ELSE Sorry
             allowed == Admitted(m) /\ led[m].phase = "accepted"
             q == [led[m] EXCEPT !.phase = "response_ready", !.reply = reply]
  <2>1. Mark(m, allowed, q, o) /\ allowed \in BOOLEAN /\ ids' \in {ids, ids + 1}
    BY <1>3 DEF BindReply
  <2>2. reply \in Replies
    BY DEF Replies
  <2>3. q \in Rows /\ q.phase = "response_ready" /\ q.id = led[m].id /\ q.gen = led[m].gen
    <3> HIDE DEF reply
    <3> QED BY <1>0, <2>2 DEF Rows, Phases
  <2>4. allowed => led[m].phase = "accepted" /\ led[m].reply = NoReply
    BY DEF JInv, RowsOK
  <2> HIDE DEF allowed, q
  <2>5. allowed => RowMove(led[m], q)
    BY <2>3, <2>4 DEF RowMove, Moves
  <2> QED BY <2>1, <2>3, <2>5, MarkMoves
<1>4. ASSUME NEW o \in Outcomes, GoInflight(m, o) PROVE RowsMove
  <2> DEFINE allowed == Admitted(m) /\ led[m].phase = "response_ready"
             q == [led[m] EXCEPT !.phase = "delivery_inflight"]
  <2>1. Mark(m, allowed, q, o) /\ allowed \in BOOLEAN /\ ids' \in {ids, ids + 1}
    BY <1>4 DEF GoInflight
  <2>2. q \in Rows /\ q.phase = "delivery_inflight" /\ q.id = led[m].id /\ q.reply = led[m].reply /\ q.gen = led[m].gen
    BY <1>0 DEF Rows, Phases
  <2>3. allowed => led[m].phase = "response_ready"
    OBVIOUS
  <2> HIDE DEF allowed, q
  <2>4. allowed => RowMove(led[m], q)
    BY <2>2, <2>3 DEF RowMove, Moves
  <2> QED BY <2>1, <2>2, <2>4, MarkMoves
<1>5. ASSUME NEW o \in Outcomes, MarkAmbiguous(m, o) PROVE RowsMove
  <2> DEFINE allowed == Admitted(m) /\ led[m].phase = "delivery_inflight"
             q == [led[m] EXCEPT !.phase = "delivery_ambiguous"]
  <2>1. Mark(m, allowed, q, o) /\ allowed \in BOOLEAN /\ ids' \in {ids, ids + 1}
    BY <1>5 DEF MarkAmbiguous
  <2>2. q \in Rows /\ q.phase = "delivery_ambiguous" /\ q.id = led[m].id /\ q.reply = led[m].reply /\ q.gen = led[m].gen
    BY <1>0 DEF Rows, Phases
  <2>3. allowed => led[m].phase = "delivery_inflight"
    OBVIOUS
  <2> HIDE DEF allowed, q
  <2>4. allowed => RowMove(led[m], q)
    BY <2>2, <2>3 DEF RowMove, Moves
  <2> QED BY <2>1, <2>2, <2>4, MarkMoves
<1>6. ASSUME NEW o \in Outcomes, ConfirmDelivery(m, o) PROVE RowsMove
  <2> DEFINE allowed == Admitted(m) /\ led[m].phase = "delivery_inflight"
             q == [led[m] EXCEPT !.phase = "delivery_succeeded"]
  <2>1. Mark(m, allowed, q, o) /\ allowed \in BOOLEAN /\ ids' \in {ids, ids + 1}
    BY <1>6 DEF ConfirmDelivery
  <2>2. q \in Rows /\ q.phase = "delivery_succeeded" /\ q.id = led[m].id /\ q.reply = led[m].reply /\ q.gen = led[m].gen
    BY <1>0 DEF Rows, Phases
  <2>3. allowed => led[m].phase = "delivery_inflight"
    OBVIOUS
  <2> HIDE DEF allowed, q
  <2>4. allowed => RowMove(led[m], q)
    BY <2>2, <2>3 DEF RowMove, Moves
  <2> QED BY <2>1, <2>2, <2>4, MarkMoves
<1>7. ASSUME NEW o \in Outcomes, CommitMarker(m, o) PROVE RowsMove
  <2> DEFINE allowed == Admitted(m) /\ led[m].phase = "delivery_succeeded"
             q == [led[m] EXCEPT !.phase = "terminal_committing", !.gen = ck.gen + 1]
  <2>1. Mark(m, allowed, q, o) /\ allowed \in BOOLEAN /\ ids' \in {ids, ids + 1}
    BY <1>7 DEF CommitMarker
  <2>2. q \in Rows /\ q.phase = "terminal_committing" /\ q.id = led[m].id /\ q.reply = led[m].reply
    BY <1>0 DEF Rows, Phases
  <2>3. allowed => led[m].phase = "delivery_succeeded" /\ led[m].gen = 0
    BY DEF JInv, RowsOK
  <2> HIDE DEF allowed, q
  <2>4. allowed => RowMove(led[m], q)
    BY <2>2, <2>3 DEF RowMove, Moves
  <2> QED BY <2>1, <2>2, <2>4, MarkMoves
<1>8. ASSUME NEW o \in Outcomes, CompleteTurn(m, o) PROVE RowsMove
  <2> DEFINE allowed == /\ Admitted(m) /\ led[m].phase = "terminal_committing"
                        /\ led[m].gen = turn[m].gen
             q == [led[m] EXCEPT !.phase = "completed"]
  <2>1. Mark(m, allowed, q, o) /\ allowed \in BOOLEAN /\ ids' \in {ids, ids + 1}
    BY <1>8 DEF CompleteTurn
  <2>2. q \in Rows /\ q.phase = "completed" /\ q.id = led[m].id /\ q.reply = led[m].reply /\ q.gen = led[m].gen
    BY <1>0 DEF Rows, Phases
  <2>3. allowed => led[m].phase = "terminal_committing"
    OBVIOUS
  <2> HIDE DEF allowed, q
  <2>4. allowed => RowMove(led[m], q)
    BY <2>2, <2>3 DEF RowMove, Moves
  <2> QED BY <2>1, <2>2, <2>4, MarkMoves
<1>9. ASSUME NEW seen \in BOOLEAN, NEW raised \in BOOLEAN, Send(m, seen, raised)
      PROVE  UNCHANGED <<led, ids>>
  BY <1>9 DEF Send, durable
<1>10. ASSUME NEW end \in FlushEnds, CommitFlush(m, end) PROVE UNCHANGED <<led, ids>>
  BY <1>10 DEF CommitFlush
<1> QED BY <1>1, <1>2, <1>3, <1>4, <1>5, <1>6, <1>7, <1>8, <1>9, <1>10 DEF Handler, RowsMove, RowMove

\* The steps of the reconciliation and of the start.
LEMMA RestartMoves ==
    ASSUME JInv, Restart
    PROVE  RowsMove
<1>0. led \in [Msgs -> Rows] /\ ck.gen + 1 \in Nat
  BY StepTypes
<1>1. ASSUME NEW end \in {"ok", "dropped", "left"}, Start(end) PROVE RowsMove
  <2>1. ASSUME NEW m \in Msgs PROVE RowMove(led[m], led'[m])
    <3>1. CASE led[m].phase = "delivery_inflight"
      <4> DEFINE q == [led[m] EXCEPT !.phase = "delivery_ambiguous"]
      <4>1. q \in Rows /\ q.phase = "delivery_ambiguous" /\ q.id = led[m].id /\ q.reply = led[m].reply /\ q.gen = led[m].gen
        BY <1>0 DEF Rows, Phases
      <4>2. led'[m] = q
        BY <1>1, <3>1 DEF Start
      <4> HIDE DEF q
      <4> QED BY <3>1, <4>1, <4>2 DEF RowMove, Moves
    <3>2. CASE led[m].phase # "delivery_inflight"
      <4>1. led'[m] = led[m]
        BY <1>1, <3>2 DEF Start
      <4> QED BY <4>1 DEF RowMove
    <3> QED BY <3>1, <3>2
  <2>2. ids' = ids
    BY <1>1 DEF Start
  <2> QED BY <2>1, <2>2 DEF RowsMove
<1>2. ASSUME NEW g \in Guilds, NEW o \in {"ok", "lost"}, RecoverReset(g, o) PROVE RowsMove
  <2>1. (PurgeGuild(g) \/ led' = led) /\ ids' = ids
    BY <1>2 DEF RecoverReset
  <2>2. PurgeGuild(g) => /\ \A m \in Msgs : Guild(m) = g => led'[m] = NoRow
                         /\ \A m \in Msgs : Guild(m) # g => led'[m] = led[m]
    BY <2>1, PurgeRows
  <2> QED BY <2>1, <2>2 DEF RowsMove, RowMove
<1>3. ASSUME NEW m \in Msgs, ReconcileVerified(m) PROVE RowsMove
  <2> DEFINE q == [led[m] EXCEPT !.phase = "completed"]
  <2>1. led' = [led EXCEPT ![m] = q] /\ ids' = ids /\ led[m].phase = "terminal_committing"
    BY <1>3 DEF ReconcileVerified, VerifiedTerminal, counters
  <2>2. led[m] \in Rows
    BY <1>0
  <2>3. q \in Rows /\ q.phase = "completed" /\ q.id = led[m].id /\ q.reply = led[m].reply /\ q.gen = led[m].gen
    BY <2>2 DEF Rows, Phases
  <2> HIDE DEF q
  <2>4. RowMove(led[m], q)
    BY <2>1, <2>2, <2>3 DEF RowMove, Moves
  <2> QED BY <2>1, <2>3, <2>4, OneRow
<1>4. ASSUME NEW m \in Msgs, ReconcileMark(m) PROVE RowsMove
  <2> DEFINE q == [led[m] EXCEPT !.phase = "terminal_committing", !.gen = ck.gen + 1]
  <2>1. /\ led' = [led EXCEPT ![m] = q] /\ ids' = ids
        /\ \/ led[m].phase = "delivery_succeeded"
           \/ led[m].phase = "terminal_committing" /\ led[m].gen = ck.gen + 1
    BY <1>4 DEF ReconcileMark, Recommits, counters
  <2>2. led[m] \in Rows /\ (led[m].phase = "delivery_succeeded" => led[m].gen = 0)
    BY <1>0 DEF JInv, RowsOK
  <2>3. q \in Rows /\ q.phase = "terminal_committing" /\ q.id = led[m].id /\ q.reply = led[m].reply /\ q.gen = ck.gen + 1
    BY <1>0, <2>2 DEF Rows, Phases
  <2> HIDE DEF q
  <2>4. RowMove(led[m], q)
    BY <2>1, <2>2, <2>3 DEF RowMove, Moves
  <2> QED BY <2>1, <2>3, <2>4, OneRow
<1>5. CASE ReconcileComplete
  <2> DEFINE m == fixing.msg
             q == [led[m] EXCEPT !.phase = "completed"]
  <2>1. led' = [led EXCEPT ![m] = q] /\ ids' = ids /\ m # NoMsg
    BY <1>5 DEF ReconcileComplete, counters
  <2>2. m \in Msgs /\ led[m].phase = "terminal_committing"
    BY <2>1 DEF JInv, MoreTypes, FixOK
  <2>3. led[m] \in Rows
    BY <1>0, <2>2
  <2>4. q \in Rows /\ q.phase = "completed" /\ q.id = led[m].id /\ q.reply = led[m].reply /\ q.gen = led[m].gen
    BY <2>3 DEF Rows, Phases
  <2> HIDE DEF q, m
  <2>5. RowMove(led[m], q)
    BY <2>2, <2>3, <2>4 DEF RowMove, Moves
  <2> QED BY <2>1, <2>2, <2>4, <2>5, OneRow
<1>6. CASE StartReconciling \/ Open \/ Revive \/ (\E m \in Msgs : ReconcileUnresolved(m))
           \/ (\E end \in FlushEnds : ReconcileCommit(end))
  BY <1>6 DEF StartReconciling, Open, Revive, ReconcileUnresolved, ReconcileCommit, durable, counters,
                 RowsMove, RowMove
<1> QED BY <1>1, <1>2, <1>3, <1>4, <1>5, <1>6 DEF Restart

\* Every step moves rows the way RowMove says.
LEMMA StepMoves == JInv /\ [Next]_vars => RowsMove
<1> SUFFICES ASSUME JInv, [Next]_vars PROVE RowsMove
  OBVIOUS
<1>1. CASE ResetRuntime
  <2>1. (led' = led /\ ids' = ids) \/ (PurgeGuild(lock.guild) /\ lock.guild \in Guilds /\ ids' = ids)
    BY <1>1 DEF ResetRuntime, counters, JInv, MoreTypes
  <2>2. CASE PurgeGuild(lock.guild) /\ lock.guild \in Guilds /\ ids' = ids
    <3>1. /\ \A m \in Msgs : Guild(m) = lock.guild => led'[m] = NoRow
          /\ \A m \in Msgs : Guild(m) # lock.guild => led'[m] = led[m]
      BY <2>2, PurgeRows
    <3> QED BY <2>2, <3>1 DEF RowsMove, RowMove
  <2> QED BY <2>1, <2>2 DEF RowsMove, RowMove
<1>2. ASSUME NEW end \in FlushEnds, ResetFlush(end) \/ PeriodicFlush(end) PROVE UNCHANGED <<led, ids>>
  BY <1>2 DEF ResetFlush, PeriodicFlush
<1>3. CASE (\E o \in Outcomes : FinishReset(o)) \/ Crash \/ UNCHANGED vars
  BY <1>3 DEF FinishReset, Crash, vars, durable, counters, RowsMove, RowMove
<1>4. ASSUME NEW m \in Msgs, Deliver(m) \/ GenerationFails(m) PROVE UNCHANGED <<led, ids>>
  BY <1>4 DEF Deliver, GenerationFails, durable, counters
<1>5. ASSUME NEW g \in Guilds, NEW o \in Outcomes, StartReset(g, o) PROVE UNCHANGED <<led, ids>>
  BY <1>5 DEF StartReset
<1> QED BY <1>1, <1>2, <1>3, <1>4, <1>5, HandlerMoves, RestartMoves
        DEF Next, ResetSteps, RowsMove, RowMove

\* Rows that move like that keep the promise of the ledger.
LEMMA MoveAdvances ==
    ASSUME JInv, NEW m \in Msgs, led'[m] \in Rows, RowMove(led[m], led'[m])
    PROVE  \/ led[m].phase = "none" \/ led'[m].phase = "none"
           \/ Ledger!Advances(led[m], led'[m])
<1>1. led[m] \in Rows /\ NoRow.phase = "none"
  BY StepTypes DEF NoRow
<1>2. led[m].phase \in Phases
  BY <1>1 DEF Rows
<1>3. CASE led'[m] = led[m]
  <2>1. \A p \in Phases : Ledger!Rank[p] >= Ledger!Rank[p]
    BY DEF Phases, Ledger!Rank
  <2> QED BY <1>2, <1>3, <2>1 DEF Ledger!Advances
<1>4. CASE /\ <<led[m].phase, led'[m].phase>> \in Moves
           /\ led[m].phase # "accepted" => led'[m].reply = led[m].reply
           /\ led[m].gen > 0 => led'[m].gen = led[m].gen
  <2>1. Ledger!Rank[led'[m].phase] >= Ledger!Rank[led[m].phase]
    BY <1>4 DEF Moves, Ledger!Rank
  <2>2. led[m].reply # NoReply => led'[m].reply = led[m].reply
    BY <1>4 DEF JInv, RowsOK
  <2> QED BY <1>4, <2>1, <2>2 DEF Ledger!Advances
<1> QED BY <1>1, <1>3, <1>4 DEF RowMove

\* The journal that the composition sees keeps the promise of DeliveryLedger.
THEOREM LedgerKept == Spec => KeepsLedger
<1>1. Init => Ledger!Init
  BY DEF Init, NoRow, Ledger!Init
<1>2. JInv /\ JInv' /\ [Next]_vars => [Ledger!Next]_led
  <2> SUFFICES ASSUME JInv, JInv', [Next]_vars PROVE Ledger!Next
    OBVIOUS
  <2>1. led' \in [Msgs -> Rows]
    BY DEF JInv, TypeOK, Rows, Replies, Phases
  <2> QED BY <2>1, StepMoves, MoveAdvances DEF RowsMove, Ledger!Next
<1> QED BY <1>1, <1>2, RowsAndHandlers, PTL DEF Spec, KeepsLedger, Ledger!Spec

-----------------------------------------------------------------------------
(* Sessions *)

\* An empty session is good, and after every reset.
LEMMA EmptySession ==
    ASSUME NEW rows, NEW n \in Nat, NEW s, NEW c \in Nat
    PROVE  Good(rows, n, s, NoSession) /\ After(c, NoSession)
<1>1. NoSession.turn = 0 /\ NoSession.hist = <<>> /\ DOMAIN NoSession.hist = {}
  BY DEF NoSession
<1>2. NoSession \in SessionStates
  BY ConstantTypes
<1> QED BY <1>1, <1>2 DEF Good, After, Distinct, Fits, Has

\* A session that stays as it is stays good when the rows move.
LEMMA GoodStable ==
    ASSUME JInv, RowsMove, NEW s \in Sessions, NEW ses, Good(led, ids, s, ses)
    PROVE  Good(led', ids', s, ses)
<1>1. ids \in Nat /\ ids' \in {ids, ids + 1}
  BY StepTypes DEF RowsMove
<1>2. /\ ses \in SessionStates /\ Distinct(ses) /\ ses.turn <= ids
      /\ \A i \in DOMAIN ses.hist : ses.hist[i].id <= ids
      /\ Fits(led, s, ses)
  BY DEF Good
<1>3. ses.turn \in Nat /\ ses.hist \in Seq(Entries)
  BY <1>2 DEF SessionStates
<1>4. \A i \in DOMAIN ses.hist : ses.hist[i].id \in Nat
  <2>1. \A i \in DOMAIN ses.hist : ses.hist[i] \in Entries
    BY <1>3
  <2> QED BY <2>1 DEF Entries
<1>5. ses.turn <= ids' /\ \A i \in DOMAIN ses.hist : ses.hist[i].id <= ids'
  BY <1>1, <1>2, <1>3, <1>4
<1>6. ~Has(ses, ids + 1)
  BY <1>1, <1>2, <1>4 DEF Has
<1>7. ASSUME NEW m \in Msgs, SessionOf[m] = s
      PROVE  /\ led'[m].phase \in Early => ~Has(ses, led'[m].id)
             /\ led'[m].phase \in Delivered /\ Has(ses, led'[m].id) => EndsWith(ses, m, led'[m])
  <2>1. /\ led[m].phase \in Early => ~Has(ses, led[m].id)
        /\ led[m].phase \in Delivered /\ Has(ses, led[m].id) => EndsWith(ses, m, led[m])
    BY <1>2, <1>7 DEF Fits
  <2>2. RowMove(led[m], led'[m])
    BY DEF RowsMove
  <2>3. CASE led'[m] = NoRow
    BY <2>3 DEF NoRow, Early, Delivered
  <2>4. CASE led'[m] = led[m]
    BY <2>1, <2>4
  <2>5. CASE led'[m].phase = "accepted" /\ led'[m].id = ids + 1
    BY <1>6, <2>5 DEF Delivered
  <2>6. CASE /\ <<led[m].phase, led'[m].phase>> \in Moves /\ led'[m].id = led[m].id
             /\ led[m].phase # "accepted" => led'[m].reply = led[m].reply
    <3>1. \/ led[m].phase \in Early
          \/ led[m].phase \in Delivered /\ led'[m].phase \notin Early /\ led'[m].reply = led[m].reply
      BY <2>6 DEF Moves, Early, Delivered
    <3> QED BY <2>1, <2>6, <3>1 DEF EndsWith
  <2> QED BY <2>2, <2>3, <2>4, <2>5, <2>6 DEF RowMove
<1>8. Fits(led', s, ses)
  BY <1>7 DEF Fits
<1> QED BY <1>2, <1>5, <1>8 DEF Good

\* What an appended turn changes.
LEMMA Appended ==
    ASSUME NEW h \in Seq(Entries), NEW e \in Entries
    PROVE  /\ Append(h, e) \in Seq(Entries) /\ Append(h, e) # <<>> /\ Last(Append(h, e)) = e
           /\ DOMAIN Append(h, e) = 1..(Len(h) + 1) /\ DOMAIN h = 1..Len(h) /\ Len(h) \in Nat
           /\ \A i \in DOMAIN h : Append(h, e)[i] = h[i]
           /\ Append(h, e)[Len(h) + 1] = e
<1>1. /\ Append(h, e) \in Seq(Entries) /\ Len(Append(h, e)) = Len(h) + 1 /\ Len(h) \in Nat
      /\ DOMAIN h = 1..Len(h) /\ DOMAIN Append(h, e) = 1..(Len(h) + 1)
      /\ Append(h, e)[Len(h) + 1] = e
  OBVIOUS
<1>2. \A i \in DOMAIN h : Append(h, e)[i] = h[i]
  OBVIOUS
<1>3. Last(Append(h, e)) = e
  BY <1>1 DEF Last
<1>4. Append(h, e) # <<>>
  BY <1>1
<1> QED BY <1>1, <1>2, <1>3, <1>4

\* Appending the turn of a delivered row, the only one of its session, gives a
\* good session.
LEMMA GoodAppend ==
    ASSUME JInv, NEW m \in Msgs, NEW ses, Good(led, ids, SessionOf[m], ses),
           led[m].phase \in Delivered, Alone(m), ~Has(ses, led[m].id),
           NEW new \in SessionStates, new.turn = led[m].id,
           new.hist = Append(ses.hist, Pair(m, led[m].id, led[m].reply))
    PROVE  Good(led, ids, SessionOf[m], new)
<1> DEFINE e == Pair(m, led[m].id, led[m].reply)
<1>1. /\ led[m] \in Rows /\ ids \in Nat /\ led[m].id \in 1..ids
      /\ \A n \in Msgs : n # m /\ led[n].phase # "none" => led[n].id # led[m].id
  BY StepTypes DEF JInv, RowsOK, Delivered
<1>2. ses.hist \in Seq(Entries) /\ Distinct(ses) /\ Fits(led, SessionOf[m], ses)
      /\ \A i \in DOMAIN ses.hist : ses.hist[i].id <= ids
  BY DEF Good, SessionStates
<1>3. e \in Entries /\ e.id = led[m].id /\ e.text = TextOf[m] /\ e.reply = led[m].reply
  BY <1>1 DEF Rows, Entries, Pair
<1> HIDE DEF e
<1>4. /\ new.hist # <<>> /\ Last(new.hist) = e
      /\ DOMAIN new.hist = 1..(Len(ses.hist) + 1) /\ DOMAIN ses.hist = 1..Len(ses.hist)
      /\ Len(ses.hist) \in Nat
      /\ \A i \in DOMAIN ses.hist : new.hist[i] = ses.hist[i]
      /\ new.hist[Len(ses.hist) + 1] = e
  BY <1>2, <1>3, Appended DEF e
<1>5. \A i \in DOMAIN new.hist : i \in DOMAIN ses.hist \/ i = Len(ses.hist) + 1
  BY <1>4
<1>6. \A i \in DOMAIN ses.hist : ses.hist[i].id # led[m].id
  BY DEF Has
<1>7. Distinct(new)
  BY <1>2, <1>3, <1>4, <1>5, <1>6 DEF Distinct
<1>8. \A i \in DOMAIN new.hist : new.hist[i].id <= ids
  BY <1>1, <1>2, <1>3, <1>4, <1>5
<1>9. EndsWith(new, m, led[m])
  BY <1>3, <1>4 DEF EndsWith
<1>10. Fits(led, SessionOf[m], new)
  <2> SUFFICES ASSUME NEW n \in Msgs, SessionOf[n] = SessionOf[m]
               PROVE  /\ led[n].phase \in Early => ~Has(new, led[n].id)
                      /\ led[n].phase \in Delivered /\ Has(new, led[n].id) => EndsWith(new, n, led[n])
    BY DEF Fits
  <2>1. CASE n = m
    BY <1>9, <2>1 DEF Early, Delivered
  <2>2. CASE n # m
    <3>1. led[n].phase \notin Delivered
      BY <2>2 DEF Alone
    <3>2. ASSUME led[n].phase \in Early PROVE ~Has(new, led[n].id)
      <4>1. ~Has(ses, led[n].id)
        BY <1>2, <3>2 DEF Fits
      <4>2. led[n].id # led[m].id
        BY <1>1, <2>2, <3>2 DEF Early
      <4> QED BY <1>3, <1>4, <1>5, <4>1, <4>2 DEF Has
    <3> QED BY <3>1, <3>2
  <2> QED BY <2>1, <2>2
<1> QED BY <1>1, <1>7, <1>8, <1>10 DEF Good

\* The same, as to a reset.
LEMMA AfterAppend ==
    ASSUME NEW c \in Nat, NEW ses \in SessionStates, NEW new \in SessionStates, After(c, ses),
           NEW m \in Msgs, NEW id \in Nat, NEW reply \in Replies, id > c,
           new.turn \in {ses.turn, id}, new.hist = Append(ses.hist, Pair(m, id, reply))
    PROVE  After(c, new)
<1>1. Pair(m, id, reply) \in Entries /\ Pair(m, id, reply).id = id
  BY DEF Pair, Entries
<1>2. ses.hist \in Seq(Entries)
  BY DEF SessionStates
<1>3. /\ DOMAIN new.hist = 1..(Len(ses.hist) + 1) /\ DOMAIN ses.hist = 1..Len(ses.hist)
      /\ Len(ses.hist) \in Nat
      /\ \A i \in DOMAIN ses.hist : new.hist[i] = ses.hist[i]
      /\ new.hist[Len(ses.hist) + 1] = Pair(m, id, reply)
  BY <1>1, <1>2, Appended
<1>4. \A i \in DOMAIN new.hist : i \in DOMAIN ses.hist \/ i = Len(ses.hist) + 1
  BY <1>3
<1> QED BY <1>1, <1>3, <1>4 DEF After

\* A step after which every session is one that was good before it, or is
\* good for a reason of its own, keeps the sessions good.
LEMMA SessionsKept ==
    ASSUME KInv, RowsMove,
           \A s \in Sessions : \/ store'[s] \in {store[s], ck.sess[s], NoSession}
                               \/ Good(led', ids', s, store'[s]),
           \A s \in Sessions : ck'.sess[s] \in {ck.sess[s], store[s], NoSession, ck.left.sess[s]},
           \A s \in Sessions : ck'.left.sess[s] \in {ck.left.sess[s], ck.sess[s], store[s], NoSession},
           \/ fixing'.msg = NoMsg
           \/ fixing' = fixing
           \/ fixing'.msg \in Msgs /\ fixing'.was = store[SessionOf[fixing'.msg]],
           \A m \in Msgs : Live(m)' =>
              /\ turn'[m].pc # "claimed" => store'[SessionOf[m]].turn = turn'[m].id
              /\ turn'[m].pc = "delivered" => ~Has(store'[SessionOf[m]], turn'[m].id)
    PROVE  SessionsOK'
<1>0. JInv /\ SessionsOK /\ ids' \in Nat
  BY StepTypes DEF KInv, RowsMove
<1>1. ASSUME NEW s \in Sessions
      PROVE  /\ Good(led', ids', s, store[s]) /\ Good(led', ids', s, ck.sess[s])
             /\ Good(led', ids', s, ck.left.sess[s]) /\ Good(led', ids', s, NoSession)
  <2>1. /\ Good(led, ids, s, store[s]) /\ Good(led, ids, s, ck.sess[s])
        /\ Good(led, ids, s, ck.left.sess[s])
    BY <1>0 DEF SessionsOK
  <2>2. 0 \in Nat
    OBVIOUS
  <2> QED BY <1>0, <2>1, <2>2, GoodStable, EmptySession
<1>2. \A s \in Sessions : Good(led', ids', s, store'[s])
  BY <1>1
<1>3. \A s \in Sessions : Good(led', ids', s, ck'.sess[s]) /\ Good(led', ids', s, ck'.left.sess[s])
  BY <1>1
<1>4. fixing'.msg # NoMsg => Good(led', ids', SessionOf[fixing'.msg], fixing'.was)
  <2>1. CASE fixing' = fixing /\ fixing.msg # NoMsg
    <3>1. fixing.msg \in Msgs
      BY <1>0, <2>1 DEF JInv, MoreTypes
    <3>2. SessionOf[fixing.msg] \in Sessions /\ Good(led, ids, SessionOf[fixing.msg], fixing.was)
      BY <1>0, <2>1, <3>1, GuildType DEF SessionsOK
    <3> QED BY <1>0, <2>1, <3>2, GoodStable
  <2>2. CASE fixing'.msg \in Msgs /\ fixing'.was = store[SessionOf[fixing'.msg]]
    BY <1>1, <2>2, GuildType
  <2> QED BY <2>1, <2>2
<1> QED BY <1>2, <1>3, <1>4 DEF SessionsOK

\* The same for what is left from before a reset.
LEMMA CutKept ==
    ASSUME KInv, RowsMove, cut' = cut, revived' = revived,
           \A s \in Sessions : \/ store'[s] \in {store[s], NoSession}
                               \/ After(cut[GuildOf[s]], store'[s]),
           \A s \in Sessions :
              \/ ck'.sess[s] = ck.sess[s] /\ (GuildOf[s] \in revoked => GuildOf[s] \in revoked')
              \/ After(cut[GuildOf[s]], ck'.sess[s]),
           \A s \in Sessions : GuildOf[s] \in revoked' /\ owner' = "restored" =>
              store'[s] = NoSession,
           \/ fixing'.msg = NoMsg
           \/ fixing' = fixing
           \/ fixing'.msg \in Msgs /\ fixing'.was = store[SessionOf[fixing'.msg]],
           lock'.by \in {"reset", "purged", "flushed"} => lock'.guild \in revoked',
           lock'.by = "flushed" =>
              \A s \in Sessions : GuildOf[s] = lock'.guild => After(cut[GuildOf[s]], ck'.sess[s])
    PROVE  CutOK'
<1>0. JInv /\ CutOK /\ ids \in Nat /\ ids' \in {ids, ids + 1} /\ cut \in [Guilds -> Nat]
      /\ GuildOf \in [Sessions -> Guilds] /\ led \in [Msgs -> Rows]
  BY StepTypes, TurnAssumption DEF KInv, RowsMove, JInv, MoreTypes
<1>1. \A g \in Guilds : cut'[g] <= ids'
  BY <1>0 DEF CutOK
<1>2. ASSUME NEW m \in Msgs, led'[m] # NoRow PROVE led'[m].id > cut'[Guild(m)]
  <2>1. RowMove(led[m], led'[m]) /\ cut[Guild(m)] \in Nat /\ cut[Guild(m)] <= ids
    BY <1>0, GuildType DEF RowsMove, CutOK
  <2>2. CASE led'[m].id = ids + 1
    BY <1>0, <2>1, <2>2
  <2>3. CASE <<led[m].phase, led'[m].phase>> \in Moves /\ led'[m].id = led[m].id
    BY <1>0, <2>3 DEF Moves, NoRow, CutOK
  <2>4. CASE led'[m] = led[m]
    BY <1>0, <1>2, <2>4 DEF CutOK
  <2> QED BY <1>2, <2>1, <2>2, <2>3, <2>4 DEF RowMove
<1>3. ASSUME NEW s \in Sessions
      PROVE  /\ After(cut'[GuildOf[s]], store'[s])
             /\ GuildOf[s] \notin revoked' => After(cut'[GuildOf[s]], ck'.sess[s])
  <2>1. cut[GuildOf[s]] \in Nat
    BY <1>0
  <2>2. After(cut[GuildOf[s]], NoSession)
    BY <1>0, <2>1, EmptySession
  <2> QED BY <1>0, <2>2 DEF CutOK
<1>4. fixing'.msg # NoMsg => After(cut'[Guild(fixing'.msg)], fixing'.was)
  BY <1>0, GuildType DEF CutOK, Guild
<1> QED BY <1>1, <1>2, <1>3, <1>4 DEF CutOK, Guild, After

\* The sessions in memory are from after the reset, and so is an empty one.
LEMMA AfterSessions ==
    ASSUME KInv, NEW s \in Sessions
    PROVE  After(cut[GuildOf[s]], store[s]) /\ After(cut[GuildOf[s]], NoSession)
<1>1. cut[GuildOf[s]] \in Nat /\ 0 \in Nat
  BY TurnAssumption DEF KInv, JInv, MoreTypes
<1> QED BY <1>1, EmptySession DEF KInv, CutOK

\* A step of m's handler that leaves the sessions alone, and how far it may go.
LEMMA HandlerSessions ==
    ASSUME KInv, RowsMove, NEW m \in Msgs, NEW t \in Turns, turn' = [turn EXCEPT ![m] = t],
           UNCHANGED <<store, epoch, fixing, revoked, cut, owner, revived>>,
           \A s \in Sessions : ck'.sess[s] \in {ck.sess[s], store[s], NoSession},
           \A s \in Sessions : ck'.left.sess[s] \in {ck.left.sess[s], ck.sess[s], store[s], NoSession},
           lock'.by \in {"none", "commit"} \/ lock' = lock,
           \/ t.pc \in {"idle", "claim", "claimed"}
           \/ /\ turn[m].pc \notin {"idle", "claim", "claimed"} /\ t.pc # "delivered"
              /\ t.id = turn[m].id /\ t.epoch = turn[m].epoch
           \/ /\ turn[m].pc = "sent" /\ ~turn[m].cancelled
              /\ t.id = turn[m].id /\ t.epoch = turn[m].epoch
    PROVE  SessionsOK' /\ CutOK'
<1>0. JInv /\ SessionsOK /\ CutOK /\ turn \in [Msgs -> Turns]
  BY StepTypes DEF KInv
<1>1. turn'[m] = t /\ \A n \in Msgs : n # m => turn'[n] = turn[n]
  BY <1>0
<1>2. ASSUME NEW n \in Msgs, Live(n)'
      PROVE  /\ turn'[n].pc # "claimed" => store'[SessionOf[n]].turn = turn'[n].id
             /\ turn'[n].pc = "delivered" => ~Has(store'[SessionOf[n]], turn'[n].id)
  <2>1. CASE n # m
    <3>1. Live(n)
      BY <1>1, <1>2, <2>1 DEF Live, Guild
    <3> QED BY <1>0, <1>1, <2>1, <3>1 DEF SessionsOK
  <2>2. CASE n = m /\ t.pc = "claimed"
    BY <1>1, <2>2
  <2>3. CASE n = m /\ t.pc # "claimed"
    <3>1. t.pc \notin {"idle", "claim"} /\ t.epoch = epoch[Guild(m)]
      BY <1>1, <1>2, <2>3 DEF Live, Guild
    <3>2. t.epoch = turn[m].epoch /\ t.id = turn[m].id /\ turn[m].pc \notin {"idle", "claim", "claimed"}
      BY <2>3, <3>1
    <3>3. Live(m)
      BY <3>1, <3>2 DEF Live
    <3>4. store[SessionOf[m]].turn = turn[m].id
      BY <1>0, <3>2, <3>3 DEF SessionsOK
    <3>5. ASSUME t.pc = "delivered" PROVE ~Has(store[SessionOf[m]], turn[m].id)
      <4>1. turn[m].pc = "sent" /\ ~turn[m].cancelled
        BY <3>5
      <4>2. led[m].phase = "delivery_inflight" /\ led[m].id = turn[m].id
        BY <1>0, <4>1, RunningLive DEF PhaseAt
      <4>3. Fits(led, SessionOf[m], store[SessionOf[m]])
        BY <1>0, GuildType DEF SessionsOK, Good
      <4> QED BY <4>2, <4>3 DEF Fits, Early
    <3> QED BY <1>1, <2>3, <3>2, <3>4, <3>5
  <2> QED BY <2>1, <2>2, <2>3
<1>3. SessionsOK'
  BY <1>2, SessionsKept
<1>8. \A s \in Sessions : ck'.sess[s] = ck.sess[s] \/ After(cut[GuildOf[s]], ck'.sess[s])
  BY <1>0, AfterSessions
<1>4. lock'.by \in {"reset", "purged", "flushed"} => lock'.guild \in revoked'
  BY <1>0 DEF CutOK
<1>5. lock'.by = "flushed" =>
         \A s \in Sessions : GuildOf[s] = lock'.guild => After(cut[GuildOf[s]], ck'.sess[s])
  BY <1>0, <1>8 DEF CutOK
<1>6. \A s \in Sessions : GuildOf[s] \in revoked' /\ owner' = "restored" => store'[s] = NoSession
  BY <1>0 DEF CutOK
<1>7. CutOK'
  BY <1>4, <1>5, <1>6, <1>8, CutKept
<1> QED BY <1>3, <1>7

\* The steps of a handler that leave its session alone.
LEMMA PlainHandlerSessions ==
    ASSUME KInv, RowsMove, NEW m \in Msgs,
           \/ Deliver(m) \/ GenerationFails(m) \/ TakeReceipt(m) \/ Abandon(m)
           \/ \E o \in Outcomes :
                 \/ Claim(m, o) \/ BindReply(m, o) \/ GoInflight(m, o) \/ MarkAmbiguous(m, o)
                 \/ ConfirmDelivery(m, o) \/ CommitMarker(m, o) \/ CompleteTurn(m, o)
           \/ \E seen, raised \in BOOLEAN : Send(m, seen, raised)
    PROVE  SessionsOK' /\ CutOK'
<1>0. /\ JInv /\ turn[m] \in Turns /\ NoTurn \in Turns /\ NoTurn.pc = "idle" /\ epoch[Guild(m)] \in Nat
      /\ ids + 1 \in Nat /\ ck.gen \in Nat /\ turn = [turn EXCEPT ![m] = turn[m]]
  BY StepTypes, ConstantTypes, GuildType DEF KInv, NoTurn
<1>1. /\ UNCHANGED <<store, ck, epoch, fixing, revoked, cut, owner, revived>>
      /\ lock' = lock \/ lock' = [Free EXCEPT !.by = "commit", !.msg = m]
  BY DEF Deliver, GenerationFails, TakeReceipt, Abandon, Claim, BindReply, GoInflight,
     MarkAmbiguous, ConfirmDelivery, CommitMarker, CompleteTurn, Send, durable, counters, history
<1>2. lock'.by \in {"none", "commit"} \/ lock' = lock
  BY <1>1 DEF Free
<1>3. SUFFICES \E t \in Turns :
         /\ turn' = [turn EXCEPT ![m] = t]
         /\ \/ t.pc \in {"idle", "claim", "claimed"}
            \/ /\ turn[m].pc \notin {"idle", "claim", "claimed"} /\ t.pc # "delivered"
               /\ t.id = turn[m].id /\ t.epoch = turn[m].epoch
            \/ /\ turn[m].pc = "sent" /\ ~turn[m].cancelled
               /\ t.id = turn[m].id /\ t.epoch = turn[m].epoch
  BY <1>1, <1>2, HandlerSessions
<1>4. CASE End(m)
  BY <1>0, <1>4 DEF End
<1>5. ASSUME NEW pc \in Pcs \ {"idle", "claim", "claimed"}, Then(m, pc),
             turn[m].pc \notin {"idle", "claim", "claimed"},
             pc = "delivered" => turn[m].pc = "sent"
      PROVE  \E t \in Turns :
         /\ turn' = [turn EXCEPT ![m] = t]
         /\ \/ t.pc \in {"idle", "claim", "claimed"}
            \/ /\ turn[m].pc \notin {"idle", "claim", "claimed"} /\ t.pc # "delivered"
               /\ t.id = turn[m].id /\ t.epoch = turn[m].epoch
            \/ /\ turn[m].pc = "sent" /\ ~turn[m].cancelled
               /\ t.id = turn[m].id /\ t.epoch = turn[m].epoch
  <2>1. CASE turn[m].cancelled
    BY <1>0, <1>5, <2>1 DEF Then
  <2>2. CASE ~turn[m].cancelled
    <3> DEFINE t == [turn[m] EXCEPT !.pc = pc]
    <3>1. t \in Turns /\ t.pc = pc /\ t.id = turn[m].id /\ t.epoch = turn[m].epoch
      BY <1>0 DEF Turns
    <3>2. turn' = [turn EXCEPT ![m] = t]
      BY <1>5, <2>2 DEF Then
    <3> HIDE DEF t
    <3> QED BY <1>5, <2>2, <3>1, <3>2
  <2> QED BY <2>1, <2>2
<1>6. CASE Deliver(m)
  <2> DEFINE t == [NoTurn EXCEPT !.pc = "claim", !.epoch = epoch[Guild(m)]]
  <2>1. t \in Turns /\ t.pc = "claim" /\ turn' = [turn EXCEPT ![m] = t]
    BY <1>0, <1>6 DEF Deliver, Turns, Pcs, NoTurn
  <2> QED BY <2>1
<1>7. CASE GenerationFails(m)
  <2> DEFINE t == [turn[m] EXCEPT !.pc = "failing"]
  <2>1. /\ t \in Turns /\ t.pc = "failing" /\ t.id = turn[m].id /\ t.epoch = turn[m].epoch
        /\ turn' = [turn EXCEPT ![m] = t] /\ turn[m].pc = "running"
    BY <1>0, <1>7 DEF GenerationFails, AtPc, Turns, Pcs
  <2> QED BY <2>1
<1>8. CASE TakeReceipt(m)
  <2> DEFINE t == [turn[m] EXCEPT !.pc = "receipt", !.gen = ck.gen]
  <2>1. /\ t \in Turns /\ t.pc = "receipt" /\ t.id = turn[m].id /\ t.epoch = turn[m].epoch
    BY <1>0 DEF Turns, Pcs
  <2>2. /\ turn[m].pc = "committed"
        /\ turn' = [turn EXCEPT ![m] = t] \/ turn' = [turn EXCEPT ![m] = NoTurn]
    BY <1>8 DEF TakeReceipt, AtPc
  <2> HIDE DEF t
  <2> QED BY <1>0, <2>1, <2>2
<1>9. ASSUME NEW o \in Outcomes, Claim(m, o), ~End(m) PROVE \E t \in Turns :
         turn' = [turn EXCEPT ![m] = t] /\ t.pc = "claimed"
  <2> DEFINE t == [turn[m] EXCEPT !.pc = "claimed", !.id = ids + 1]
  <2>1. t \in Turns /\ t.pc = "claimed" /\ turn' = [turn EXCEPT ![m] = t]
    BY <1>0, <1>9 DEF Claim, Turns, Pcs
  <2> QED BY <2>1
<1>10. ASSUME NEW o \in Outcomes, BindReply(m, o)
       PROVE  \E t \in Turns :
         /\ turn' = [turn EXCEPT ![m] = t]
         /\ \/ t.pc \in {"idle", "claim", "claimed"}
            \/ /\ turn[m].pc \notin {"idle", "claim", "claimed"} /\ t.pc # "delivered"
               /\ t.id = turn[m].id /\ t.epoch = turn[m].epoch
            \/ /\ turn[m].pc = "sent" /\ ~turn[m].cancelled
               /\ t.id = turn[m].id /\ t.epoch = turn[m].epoch
  <2> DEFINE reply == IF AtPc(m, "running") THEN Answer ELSE Sorry
             t == [turn[m] EXCEPT !.pc = "bound", !.reply = reply]
  <2>1. reply \in Replies
    BY DEF Replies
  <2>2. t \in Turns /\ t.pc = "bound" /\ t.id = turn[m].id /\ t.epoch = turn[m].epoch
    <3> HIDE DEF reply
    <3> QED BY <1>0, <2>1 DEF Turns, Pcs
  <2>3. /\ turn[m].pc \in {"running", "failing"}
        /\ \/ turn' = [turn EXCEPT ![m] = t]
           \/ turn' = [turn EXCEPT ![m] = NoTurn]
           \/ Then(m, "failing")
    BY <1>10 DEF BindReply, End
  <2> HIDE DEF t
  <2> QED BY <1>0, <1>5, <2>2, <2>3 DEF Pcs
<1>11. ASSUME NEW o \in Outcomes, GoInflight(m, o) \/ ConfirmDelivery(m, o), ~End(m)
       PROVE  \E pc \in Pcs \ {"idle", "claim", "claimed"} :
                 /\ Then(m, pc) /\ turn[m].pc \notin {"idle", "claim", "claimed"}
                 /\ pc = "delivered" => turn[m].pc = "sent"
  BY <1>11 DEF GoInflight, ConfirmDelivery, AtPc, Pcs
<1>12. ASSUME NEW o \in Outcomes, CommitMarker(m, o), ~End(m)
       PROVE  turn' = turn /\ turn[m].pc = "commit"
  BY <1>12 DEF CommitMarker, AtPc
<1>13. ASSUME NEW seen \in BOOLEAN, NEW raised \in BOOLEAN, Send(m, seen, raised)
       PROVE  \E t \in Turns :
         /\ turn' = [turn EXCEPT ![m] = t] /\ turn[m].pc = "inflight"
         /\ t.pc \in {"unsure", "sent"} /\ t.id = turn[m].id /\ t.epoch = turn[m].epoch
  <2> DEFINE t == [turn[m] EXCEPT !.pc = IF raised THEN "unsure" ELSE "sent"]
  <2>1. /\ t \in Turns /\ t.pc \in {"unsure", "sent"} /\ t.id = turn[m].id /\ t.epoch = turn[m].epoch
        /\ turn' = [turn EXCEPT ![m] = t] /\ turn[m].pc = "inflight"
    BY <1>0, <1>13 DEF Send, AtPc, Turns, Pcs
  <2> QED BY <2>1
<1>14. CASE \E o \in Outcomes : MarkAmbiguous(m, o) \/ CompleteTurn(m, o)
  BY <1>4, <1>14 DEF MarkAmbiguous, CompleteTurn
<1>15. CASE Abandon(m)
  BY <1>4, <1>15 DEF Abandon
<1>16. CASE \E o \in Outcomes : Claim(m, o)
  BY <1>4, <1>9, <1>16
<1>17. CASE \E o \in Outcomes : GoInflight(m, o) \/ ConfirmDelivery(m, o)
  BY <1>4, <1>5, <1>11, <1>17
<1>18. CASE \E o \in Outcomes : CommitMarker(m, o)
  <2>1. CASE ~End(m)
    <3>1. turn' = turn /\ turn[m].pc = "commit"
      BY <1>12, <1>18, <2>1
    <3> QED BY <1>0, <3>1
  <2> QED BY <1>4, <2>1
<1>19. CASE \E seen, raised \in BOOLEAN : Send(m, seen, raised)
  BY <1>13, <1>19
<1> QED BY <1>6, <1>7, <1>8, <1>10, <1>14, <1>15, <1>16, <1>17, <1>18, <1>19

\* A flush writes the sessions, or none, or fails; a revoked file is one that
\* was there or was written.
LEMMA FlushSessions ==
    ASSUME NEW end \in FlushEnds, NEW content \in {store, NoSessions},
           WriteCheckpoint(end, content), NEW s \in Sessions
    PROVE  /\ ck'.sess[s] \in {ck.sess[s], store[s], NoSession}
           /\ ck'.left.sess[s] \in {ck.left.sess[s], ck.sess[s], store[s], NoSession}
           /\ ~Raised(end) => ck'.sess[s] \in {store[s], NoSession}
<1>1. content[s] \in {store[s], NoSession} /\ NoSessions[s] = NoSession
  BY DEF NoSessions
<1>2. NoFile.sess = NoSessions /\ File.sess[s] \in {ck.left.sess[s], ck.sess[s]}
  BY DEF NoFile, File
<1>3. \A file : Emptied(file).sess = NoSessions /\ Emptied(file).left = file
  BY DEF Emptied
<1>4. CASE /\ end \in {"ok", "late"}
           /\ ck' = [gen |-> ck.gen + 1, sess |-> content, left |-> NoFile]
  BY <1>1, <1>2, <1>4
<1>5. CASE end = "kept" /\ ck' = ck
  BY <1>5 DEF Raised
<1>6. ASSUME NEW file, ck' = Emptied(file), file.sess[s] \in {ck.left.sess[s], ck.sess[s], store[s], NoSession}
      PROVE  /\ ck'.sess[s] = NoSession
             /\ ck'.left.sess[s] \in {ck.left.sess[s], ck.sess[s], store[s], NoSession}
  BY <1>1, <1>3, <1>6
<1>7. [gen |-> ck.gen + 1, sess |-> content].sess = content
  OBVIOUS
<1> QED BY <1>1, <1>2, <1>4, <1>5, <1>6, <1>7 DEF WriteCheckpoint

\* The flush of the commit.
LEMMA CommitFlushSessions ==
    ASSUME KInv, RowsMove, NEW m \in Msgs, NEW end \in FlushEnds, CommitFlush(m, end)
    PROVE  SessionsOK' /\ CutOK'
<1> DEFINE t == [turn[m] EXCEPT !.pc = "committed"]
<1>0. JInv /\ turn[m] \in Turns /\ NoTurn \in Turns /\ NoTurn.pc = "idle"
  BY StepTypes, ConstantTypes DEF KInv, NoTurn
<1>1. /\ Held(m) /\ lock' = Free /\ UNCHANGED <<store, epoch, fixing, revoked, cut, owner, revived>>
      /\ turn' = [turn EXCEPT ![m] = t] \/ turn' = [turn EXCEPT ![m] = NoTurn]
      /\ ck' = ck \/ WriteCheckpoint(end, store)
  BY DEF CommitFlush, Held, End, Flush
<1>2. turn[m].pc = "commit" /\ lock'.by = "none"
  BY <1>0, <1>1 DEF Held, JInv, LockOK, Free
<1>3. t \in Turns /\ t.pc = "committed" /\ t.id = turn[m].id /\ t.epoch = turn[m].epoch
  BY <1>0 DEF Turns, Pcs
<1>4. \A s \in Sessions :
         /\ ck'.sess[s] \in {ck.sess[s], store[s], NoSession}
         /\ ck'.left.sess[s] \in {ck.left.sess[s], ck.sess[s], store[s], NoSession}
  BY <1>1, FlushSessions
<1> HIDE DEF t
<1>5. CASE turn' = [turn EXCEPT ![m] = t]
  BY <1>1, <1>2, <1>3, <1>4, <1>5, HandlerSessions
<1>6. CASE turn' = [turn EXCEPT ![m] = NoTurn]
  BY <1>0, <1>1, <1>2, <1>4, <1>6, HandlerSessions
<1> QED BY <1>1, <1>5, <1>6

\* Activation: the session is at the turn, its history as before.
LEMMA ActivateSessions ==
    ASSUME KInv, RowsMove, NEW m \in Msgs, Activate(m)
    PROVE  SessionsOK' /\ CutOK'
<1> DEFINE s == SessionOf[m]
           t == [turn[m] EXCEPT !.pc = "running"]
           new == [store[s] EXCEPT !.turn = turn[m].id]
<1>0. /\ JInv /\ SessionsOK /\ CutOK /\ turn \in [Msgs -> Turns] /\ NoTurn \in Turns
      /\ turn[m] \in Turns /\ NoTurn.pc = "idle"
      /\ s \in Sessions /\ store \in [Sessions -> SessionStates] /\ cut[Guild(m)] \in Nat
  BY StepTypes, ConstantTypes, GuildType DEF KInv, NoTurn, JInv, MoreTypes
<1>1. /\ turn[m].pc = "claimed" /\ UNCHANGED <<led, ids, ck, epoch, fixing, revoked, cut, owner, lock, revived>>
  BY DEF Activate, AtPc, durable, counters, history
<1>2. CASE ~Admitted(m)
  <2>1. turn' = [turn EXCEPT ![m] = NoTurn] /\ store' = store
    BY <1>2 DEF Activate, End
  <2> QED BY <1>0, <1>1, <2>1, HandlerSessions
<1>3. CASE Admitted(m)
  <2>1. turn' = [turn EXCEPT ![m] = t] /\ store' = [store EXCEPT ![s] = new]
    BY <1>3 DEF Activate
  <2>2. t.id = turn[m].id /\ t.pc = "running" /\ turn[m].id \in Nat
    BY <1>0 DEF Turns
  <2>3. /\ turn[m].id = led[m].id /\ led[m].id \in 1..ids /\ Alone(m) /\ led[m].phase = "accepted"
        /\ led[m].id > cut[Guild(m)] /\ turn'[m] = t
        /\ \A n \in Msgs : n # m => turn'[n] = turn[n]
    <3>1. /\ turn[m].id = led[m].id /\ led[m].id \in 1..ids /\ Alone(m)
          /\ PhaseAt(turn[m].pc, Held(m), led[m].phase)
      BY <1>0, <1>1, <1>3, AdmittedLive
    <3>2. led[m].phase = "accepted"
      BY <1>1, <3>1 DEF PhaseAt
    <3>3. led[m].id > cut[Guild(m)]
      BY <1>0, <3>2 DEF CutOK, NoRow
    <3> QED BY <1>0, <2>1, <3>1, <3>2, <3>3
  <2>4. store[s] \in SessionStates /\ Good(led, ids, s, store[s]) /\ After(cut[Guild(m)], store[s])
    BY <1>0 DEF SessionsOK, CutOK, Guild
  <2>5. new \in SessionStates /\ new.turn = turn[m].id /\ new.hist = store[s].hist
    BY <2>2, <2>4 DEF SessionStates
  <2>6. /\ store'[s] = new
        /\ \A q \in Sessions : q # s => store'[q] = store[q]
    BY <1>0, <2>1
  <2> HIDE DEF new, t
  <2>7. Good(led, ids, s, new)
    <3>1. Distinct(new) /\ (\A i \in DOMAIN new.hist : new.hist[i].id <= ids) /\ new.turn <= ids
      BY <2>3, <2>4, <2>5 DEF Good, Distinct
    <3>2. \A id : Has(new, id) <=> Has(store[s], id)
      BY <2>5 DEF Has
    <3>3. ASSUME NEW n \in Msgs, SessionOf[n] = s PROVE led[n].phase \notin Delivered
      BY <2>3, <3>3 DEF Alone, Delivered
    <3>4. Fits(led, s, new)
      BY <2>4, <3>2, <3>3 DEF Good, Fits
    <3> QED BY <2>5, <3>1, <3>4 DEF Good
  <2>8. After(cut[Guild(m)], new)
    BY <2>3, <2>4, <2>5 DEF After
  <2>9. ASSUME NEW n \in Msgs, Live(n)'
        PROVE  /\ turn'[n].pc # "claimed" => store'[SessionOf[n]].turn = turn'[n].id
               /\ turn'[n].pc = "delivered" => ~Has(store'[SessionOf[n]], turn'[n].id)
    <3>1. CASE n = m
      BY <2>2, <2>3, <2>5, <2>6, <3>1
    <3>2. CASE n # m
      <4>1. Live(n) /\ turn[n].pc # "idle"
        BY <1>1, <2>3, <2>9, <3>2 DEF Live, Guild
      <4>2. SlotOf[n] # SlotOf[m]
        BY <1>0, <1>1, <3>2, <4>1, SlotAlone
      <4>3. SessionOf[n] # s /\ SessionOf[n] \in Sessions
        BY <4>2, TurnAssumption, GuildType
      <4> QED BY <1>0, <2>3, <2>6, <3>2, <4>1, <4>3 DEF SessionsOK
    <3> QED BY <3>1, <3>2
  <2>10. Good(led', ids', s, new)
    BY <1>1, <2>7
  <2>11. SessionsOK'
    BY <1>1, <2>6, <2>9, <2>10, SessionsKept
  <2>12. CutOK'
    <3>1. owner = "open"
      BY <1>3 DEF Admitted
    <3>2. \A q \in Sessions : store'[q] = store[q] \/ After(cut[GuildOf[q]], store'[q])
      BY <2>6, <2>8 DEF Guild
    <3>3. /\ lock'.by \in {"reset", "purged", "flushed"} => lock'.guild \in revoked'
          /\ lock'.by = "flushed" =>
               \A q \in Sessions : GuildOf[q] = lock'.guild => After(cut[GuildOf[q]], ck'.sess[q])
      BY <1>0, <1>1 DEF CutOK
    <3> QED BY <1>1, <3>1, <3>2, <3>3, CutKept
  <2> QED BY <2>11, <2>12
<1> QED BY <1>2, <1>3

\* The handler appends its turn.
LEMMA AppendTurnSessions ==
    ASSUME KInv, RowsMove, NEW m \in Msgs, AppendTurn(m)
    PROVE  SessionsOK' /\ CutOK'
<1> DEFINE s == SessionOf[m]
           t == [turn[m] EXCEPT !.pc = "commit"]
           new == [store[s] EXCEPT !.hist = Append(@, Pair(m, turn[m].id, turn[m].reply))]
<1>0. /\ JInv /\ SessionsOK /\ CutOK /\ turn \in [Msgs -> Turns]
      /\ turn[m] \in Turns /\ led[m] \in Rows
      /\ s \in Sessions /\ store \in [Sessions -> SessionStates] /\ cut[Guild(m)] \in Nat
  BY StepTypes, GuildType DEF KInv, JInv, MoreTypes
<1>1. /\ turn[m].pc = "delivered" /\ ~turn[m].cancelled
      /\ turn' = [turn EXCEPT ![m] = t] /\ store' = [store EXCEPT ![s] = new]
      /\ UNCHANGED <<led, ids, ck, epoch, fixing, revoked, cut, owner, lock, revived>>
  BY DEF AppendTurn, AtPc, durable, counters, history
<1>2. t.id = turn[m].id /\ t.pc = "commit" /\ turn[m].id \in Nat /\ turn[m].reply \in Replies
  BY <1>0 DEF Turns
<1>3. /\ turn[m].id = led[m].id /\ turn[m].reply = led[m].reply /\ Alone(m) /\ Live(m)
      /\ led[m].phase \in Delivered /\ led[m] # NoRow
  BY <1>0, <1>1, RunningLive DEF PhaseAt, Delivered, NoRow
<1>4. /\ store[s] \in SessionStates /\ Good(led, ids, s, store[s]) /\ After(cut[Guild(m)], store[s])
      /\ led[m].id > cut[Guild(m)] /\ owner = "open"
      /\ store[s].turn = turn[m].id /\ ~Has(store[s], turn[m].id)
  BY <1>0, <1>1, <1>3, SlotAlone DEF SessionsOK, CutOK, Guild
<1>5. Append(store[s].hist, Pair(m, turn[m].id, turn[m].reply)) \in Seq(Entries)
  BY <1>2, <1>4, AppendType
<1>6. /\ new \in SessionStates /\ new.turn = store[s].turn
      /\ new.hist = Append(store[s].hist, Pair(m, turn[m].id, turn[m].reply))
  BY <1>4, <1>5 DEF SessionStates
<1>7. /\ store'[s] = new /\ (\A q \in Sessions : q # s => store'[q] = store[q])
      /\ turn'[m] = t /\ \A n \in Msgs : n # m => turn'[n] = turn[n]
  BY <1>0, <1>1
<1> HIDE DEF new, t
<1>8. Good(led, ids, s, new)
  BY <1>0, <1>3, <1>4, <1>6, GoodAppend
<1>9. After(cut[Guild(m)], new)
  BY <1>0, <1>2, <1>3, <1>4, <1>6, AfterAppend
<1>10. ASSUME NEW n \in Msgs, Live(n)'
       PROVE  /\ turn'[n].pc # "claimed" => store'[SessionOf[n]].turn = turn'[n].id
              /\ turn'[n].pc = "delivered" => ~Has(store'[SessionOf[n]], turn'[n].id)
  <2>1. CASE n = m
    BY <1>2, <1>4, <1>6, <1>7, <2>1
  <2>2. CASE n # m
    <3>1. Live(n) /\ turn[n].pc # "idle"
      BY <1>1, <1>7, <1>10, <2>2 DEF Live, Guild
    <3>2. SlotOf[n] # SlotOf[m]
      BY <1>0, <1>1, <2>2, <3>1, SlotAlone
    <3>3. SessionOf[n] # s /\ SessionOf[n] \in Sessions
      BY <3>2, TurnAssumption, GuildType
    <3> QED BY <1>0, <1>7, <2>2, <3>1, <3>3 DEF SessionsOK
  <2> QED BY <2>1, <2>2
<1>11. Good(led', ids', s, new)
  BY <1>1, <1>8
<1>12. SessionsOK'
  BY <1>1, <1>7, <1>10, <1>11, SessionsKept
<1>13. CutOK'
  <2>1. \A q \in Sessions : store'[q] = store[q] \/ After(cut[GuildOf[q]], store'[q])
    BY <1>7, <1>9 DEF Guild
  <2>2. /\ lock'.by \in {"reset", "purged", "flushed"} => lock'.guild \in revoked'
        /\ lock'.by = "flushed" =>
             \A q \in Sessions : GuildOf[q] = lock'.guild => After(cut[GuildOf[q]], ck'.sess[q])
    BY <1>0, <1>1 DEF CutOK
  <2> QED BY <1>1, <1>4, <2>1, <2>2, CutKept
<1> QED BY <1>12, <1>13

\* Steps that leave the handlers and the sessions in memory alone.
LEMMA QuietSessions ==
    ASSUME KInv, RowsMove, UNCHANGED <<turn, epoch, store>>,
           \A s \in Sessions : ck'.sess[s] \in {ck.sess[s], store[s], NoSession, ck.left.sess[s]},
           \A s \in Sessions : ck'.left.sess[s] \in {ck.left.sess[s], ck.sess[s], store[s], NoSession},
           fixing'.msg = NoMsg \/ fixing' = fixing
    PROVE  SessionsOK'
<1>1. \A m \in Msgs : Live(m)' => Live(m)
  BY DEF Live, Guild
<1>2. \A m \in Msgs : Live(m)' =>
              /\ turn'[m].pc # "claimed" => store'[SessionOf[m]].turn = turn'[m].id
              /\ turn'[m].pc = "delivered" => ~Has(store'[SessionOf[m]], turn'[m].id)
  BY <1>1 DEF KInv, SessionsOK
<1> QED BY <1>2, SessionsKept

\* The periodic flush.
LEMMA PeriodicFlushSessions ==
    ASSUME KInv, RowsMove, NEW end \in FlushEnds, PeriodicFlush(end)
    PROVE  SessionsOK' /\ CutOK'
<1>1. /\ owner \in {"shut", "open"} /\ lock = Free /\ WriteCheckpoint(end, store)
      /\ UNCHANGED <<turn, epoch, store, fixing, revoked, owner, lock, cut, revived>>
  BY DEF PeriodicFlush, Flush
<1>2. \A s \in Sessions :
         /\ ck'.sess[s] \in {ck.sess[s], store[s], NoSession}
         /\ ck'.left.sess[s] \in {ck.left.sess[s], ck.sess[s], store[s], NoSession}
  BY <1>1, FlushSessions
<1>3. \A s \in Sessions : ck'.sess[s] = ck.sess[s] \/ After(cut[GuildOf[s]], ck'.sess[s])
  BY <1>2, AfterSessions
<1>4. SessionsOK'
  BY <1>1, <1>2, QuietSessions
<1>5. lock'.by = "none"
  BY <1>1 DEF Free
<1>6. CutOK'
  BY <1>1, <1>3, <1>5, CutKept
<1> QED BY <1>4, <1>6

\* A reset takes the lock, or ends there.
LEMMA StartResetSessions ==
    ASSUME KInv, RowsMove, NEW g \in Guilds, NEW o \in Outcomes, StartReset(g, o)
    PROVE  SessionsOK' /\ CutOK'
<1>1. /\ owner \in {"shut", "open"}
      /\ \/ lock' = [Free EXCEPT !.by = "reset", !.guild = g] /\ g \in revoked'
         \/ lock' = Free
      /\ revoked \subseteq revoked'
      /\ UNCHANGED <<turn, epoch, store, fixing, owner, cut, ck, revived>>
  BY DEF StartReset, history, Outcomes
<1>2. lock'.by \in {"none", "reset"} /\ (lock'.by = "reset" => lock'.guild \in revoked')
  <2>1. CASE lock' = [Free EXCEPT !.by = "reset", !.guild = g] /\ g \in revoked'
    <3>1. lock' = [by |-> "reset", msg |-> NoMsg, guild |-> g]
      BY <2>1 DEF Free
    <3> QED BY <2>1, <3>1
  <2>2. CASE lock' = Free
    BY <2>2 DEF Free
  <2> QED BY <1>1, <2>1, <2>2
<1>3. SessionsOK'
  BY <1>1, QuietSessions
<1>4. CutOK'
  BY <1>1, <1>2, CutKept
<1> QED BY <1>3, <1>4

\* The death of the process, with what is on disk then.
LEMMA DeathSessions ==
    ASSUME KInv, RowsMove, ProcessDies, UNCHANGED <<cut, revived>>,
           \A s \in Sessions :
              /\ ck'.sess[s] \in {ck.sess[s], store[s], NoSession}
              /\ ck'.left.sess[s] \in {ck.left.sess[s], ck.sess[s], store[s], NoSession},
           \A s \in Sessions : GuildOf[s] \in revoked \ revoked' =>
              After(cut[GuildOf[s]], ck.sess[s])
    PROVE  SessionsOK' /\ CutOK'
<1>1. /\ \A s \in Sessions : store'[s] = NoSession
      /\ \A m \in Msgs : ~Live(m)'
      /\ fixing'.msg = NoMsg /\ lock'.by = "none" /\ owner' = "down"
  BY DEF ProcessDies, NoSessions, NoTurn, Live, NoFix, Free
<1>2. SessionsOK'
  BY <1>1, SessionsKept
<1>3. ASSUME NEW s \in Sessions
      PROVE  \/ ck'.sess[s] = ck.sess[s] /\ (GuildOf[s] \in revoked => GuildOf[s] \in revoked')
             \/ After(cut[GuildOf[s]], ck'.sess[s])
  BY AfterSessions
<1>4. CutOK'
  BY <1>1, <1>3, CutKept
<1> QED BY <1>2, <1>4

\* The flush of a reset writes what is left in memory.
LEMMA ResetFlushSessions ==
    ASSUME KInv, RowsMove, NEW end \in FlushEnds, ResetFlush(end)
    PROVE  SessionsOK' /\ CutOK'
<1>0. JInv /\ CutOK
  BY DEF KInv
<1>1. lock.by = "purged" /\ WriteCheckpoint(end, store) /\ UNCHANGED <<revoked, cut, revived>>
  BY DEF ResetFlush, Flush
<1>2. \A s \in Sessions :
         /\ ck'.sess[s] \in {ck.sess[s], store[s], NoSession}
         /\ ck'.left.sess[s] \in {ck.left.sess[s], ck.sess[s], store[s], NoSession}
         /\ ~Raised(end) => ck'.sess[s] \in {store[s], NoSession}
  BY <1>1, FlushSessions
<1>3. CASE ~Raised(end) \/ owner = "open"
  <2>1. /\ UNCHANGED <<turn, epoch, store, fixing, owner>>
        /\ lock' = IF Raised(end) THEN Free ELSE [lock EXCEPT !.by = "flushed"]
    BY <1>3 DEF ResetFlush
  <2>2. SessionsOK'
    BY <1>2, <2>1, QuietSessions
  <2>3. /\ \A s \in Sessions : ck'.sess[s] = ck.sess[s] \/ After(cut[GuildOf[s]], ck'.sess[s])
        /\ ~Raised(end) => \A s \in Sessions : After(cut[GuildOf[s]], ck'.sess[s])
    BY <1>2, AfterSessions
  <2>4. /\ lock'.by \in {"flushed", "none"}
        /\ lock'.by = "flushed" => lock'.guild \in revoked' /\ ~Raised(end)
    <3>1. lock \in [by : Locks, msg : Msgs \cup {NoMsg}, guild : Guilds \cup {NoGuild}]
          /\ lock.guild \in revoked
      BY <1>0, <1>1 DEF JInv, MoreTypes, CutOK
    <3>2. CASE ~Raised(end)
      BY <1>1, <2>1, <3>1, <3>2
    <3>3. CASE Raised(end)
      BY <2>1, <3>3 DEF Free
    <3> QED BY <3>2, <3>3
  <2>5. \A s \in Sessions : GuildOf[s] \in revoked' /\ owner' = "restored" => store'[s] = NoSession
    BY <1>0, <1>1, <2>1 DEF CutOK
  <2>6. CutOK'
    BY <1>1, <2>1, <2>3, <2>4, <2>5, CutKept
  <2> QED BY <2>2, <2>6
<1>4. CASE ~(~Raised(end) \/ owner = "open")
  <2>1. ProcessDies
    BY <1>4 DEF ResetFlush
  <2> QED BY <1>1, <1>2, <2>1, DeathSessions
<1> QED BY <1>3, <1>4

\* The revocation goes when the checkpoint has nothing of the guild.
LEMMA FinishResetSessions ==
    ASSUME KInv, RowsMove, NEW o \in Outcomes, FinishReset(o)
    PROVE  SessionsOK' /\ CutOK'
<1>0. JInv /\ CutOK
  BY DEF KInv
<1>1. /\ lock.by = "flushed" /\ revoked' \in {revoked, revoked \ {lock.guild}}
      /\ UNCHANGED <<cut, ck, revived>>
  BY DEF FinishReset, history
<1>2. \A s \in Sessions : GuildOf[s] \in revoked \ revoked' => After(cut[GuildOf[s]], ck.sess[s])
  BY <1>0, <1>1 DEF CutOK
<1>3. CASE ProcessDies
  BY <1>1, <1>2, <1>3, DeathSessions
<1>4. CASE ~ProcessDies
  <2>1. lock' = Free /\ UNCHANGED <<turn, epoch, store, fixing, owner>>
    BY <1>4 DEF FinishReset
  <2>2. lock'.by = "none"
    BY <2>1 DEF Free
  <2>3. SessionsOK'
    BY <1>1, <2>1, QuietSessions
  <2>4. ASSUME NEW s \in Sessions
        PROVE  \/ ck'.sess[s] = ck.sess[s] /\ (GuildOf[s] \in revoked => GuildOf[s] \in revoked')
               \/ After(cut[GuildOf[s]], ck'.sess[s])
    BY <1>1, <1>2
  <2>5. \A s \in Sessions : GuildOf[s] \in revoked' /\ owner' = "restored" => store'[s] = NoSession
    BY <1>0, <1>1, <2>1 DEF CutOK
  <2>6. CutOK'
    BY <1>1, <2>1, <2>2, <2>4, <2>5, CutKept
  <2> QED BY <2>3, <2>6
<1> QED BY <1>3, <1>4

\* A guild is purged: its latest reset is now, and nothing of it is in memory.
LEMMA PurgeCut ==
    ASSUME KInv, NEW g \in revoked, PurgeGuild(g), ids' = ids,
           \A s \in Sessions : store'[s] = IF GuildOf[s] = g THEN NoSession ELSE store[s],
           UNCHANGED <<ck, revoked, owner, fixing, revived>>, fixing.msg = NoMsg,
           lock'.by = "purged", lock'.guild = g
    PROVE  CutOK'
<1>0. /\ JInv /\ CutOK /\ ids \in Nat /\ cut \in [Guilds -> Nat] /\ g \in Guilds
      /\ GuildOf \in [Sessions -> Guilds]
  BY StepTypes, TurnAssumption DEF KInv, JInv, TypeOK, MoreTypes
<1>1. cut' = [cut EXCEPT ![g] = ids]
  BY DEF PurgeGuild
<1>2. cut'[g] = ids /\ \A h \in Guilds : h # g => cut'[h] = cut[h]
  BY <1>0, <1>1
<1>3. \A h \in Guilds : cut'[h] <= ids'
  BY <1>0, <1>2 DEF CutOK
<1>4. /\ \A m \in Msgs : Guild(m) = g => led'[m] = NoRow
      /\ \A m \in Msgs : Guild(m) # g => led'[m] = led[m]
  BY <1>0, PurgeRows
<1>5. \A m \in Msgs : led'[m] # NoRow => led'[m].id > cut'[Guild(m)]
  BY <1>0, <1>2, <1>4, GuildType DEF CutOK
<1>6. ASSUME NEW s \in Sessions
      PROVE  /\ After(cut'[GuildOf[s]], store'[s])
             /\ GuildOf[s] \notin revoked' => After(cut'[GuildOf[s]], ck'.sess[s])
             /\ GuildOf[s] \in revoked' /\ owner' = "restored" => store'[s] = NoSession
  <2>1. CASE GuildOf[s] = g
    BY <1>0, <1>2, <2>1, EmptySession
  <2>2. CASE GuildOf[s] # g
    BY <1>0, <1>2, <2>2 DEF CutOK
  <2> QED BY <2>1, <2>2
<1> QED BY <1>3, <1>5, <1>6 DEF CutOK, Guild, After

\* The guild's sessions are cleared and its handlers are outrun.
LEMMA ResetRuntimeSessions ==
    ASSUME KInv, RowsMove, ResetRuntime
    PROVE  SessionsOK' /\ CutOK'
<1> DEFINE g == lock.guild
<1>0. JInv /\ SessionsOK /\ CutOK
  BY DEF KInv
<1>1. /\ lock.by = "reset" /\ g \in Guilds /\ g \in revoked
      /\ lock \in [by : Locks, msg : Msgs \cup {NoMsg}, guild : Guilds \cup {NoGuild}]
      /\ UNCHANGED <<ck, revoked, owner, fixing, ids, revived>>
  BY <1>0 DEF ResetRuntime, JInv, MoreTypes, CutOK, counters
<1>2. CASE owner # "open"
  <2>1. lock' = Free /\ UNCHANGED <<store, turn, epoch, cut>>
    BY <1>2 DEF ResetRuntime
  <2>2. lock'.by = "none"
    BY <2>1 DEF Free
  <2>3. \A s \in Sessions : GuildOf[s] \in revoked' /\ owner' = "restored" => store'[s] = NoSession
    BY <1>0, <1>1, <2>1 DEF CutOK
  <2> QED BY <1>1, <2>1, <2>2, <2>3, QuietSessions, CutKept
<1>3. CASE owner = "open"
  <2>1. /\ store' = [s \in Sessions |-> IF GuildOf[s] = g THEN NoSession ELSE store[s]]
        /\ turn' = [m \in Msgs |->
                    IF m \in Of(g) /\ turn[m].pc \notin {"idle", "claim", "claimed"}
                    THEN [turn[m] EXCEPT !.cancelled = TRUE] ELSE turn[m]]
        /\ PurgeGuild(g) /\ lock' = [lock EXCEPT !.by = "purged"]
    BY <1>3 DEF ResetRuntime
  <2>2. lock'.by = "purged" /\ lock'.guild = g /\ fixing.msg = NoMsg
    BY <1>0, <1>1, <1>3, <2>1 DEF JInv, FixOK
  <2>3. CutOK'
    BY <1>1, <2>1, <2>2, PurgeCut
  <2>4. /\ epoch'[g] = epoch[g] + 1 /\ (\A h \in Guilds : h # g => epoch'[h] = epoch[h])
        /\ turn \in [Msgs -> Turns] /\ epoch \in [Guilds -> Nat]
    BY <1>0, <1>1, <2>1, PurgeRows, StepTypes
  <2>5. ASSUME NEW m \in Msgs, Live(m)'
        PROVE  Live(m) /\ Guild(m) # g /\ turn'[m] = turn[m]
    <3>1. turn[m] \in Turns /\ turn[m].epoch <= epoch[Guild(m)] /\ Guild(m) \in Guilds
          /\ turn[m].epoch \in Nat /\ epoch[Guild(m)] \in Nat
      BY <1>0, <2>4, GuildType DEF JInv, HandlersOK, Turns
    <3>2. turn'[m].epoch = turn[m].epoch
      <4>1. turn'[m] \in {turn[m], [turn[m] EXCEPT !.cancelled = TRUE]}
        BY <2>1
      <4> QED BY <3>1, <4>1 DEF Turns
    <3>3. turn'[m].epoch = epoch'[Guild(m)]
      BY <2>5 DEF Live, Guild
    <3>4. Guild(m) # g
      BY <2>4, <3>1, <3>2, <3>3
    <3>5. turn'[m] = turn[m] /\ epoch'[Guild(m)] = epoch[Guild(m)]
      BY <2>1, <2>4, <3>1, <3>4 DEF Of
    <3> QED BY <2>5, <3>4, <3>5 DEF Live, Guild
  <2>6. ASSUME NEW m \in Msgs, Live(m)'
        PROVE  /\ turn'[m].pc # "claimed" => store'[SessionOf[m]].turn = turn'[m].id
               /\ turn'[m].pc = "delivered" => ~Has(store'[SessionOf[m]], turn'[m].id)
    <3>1. Live(m) /\ Guild(m) # g /\ turn'[m] = turn[m] /\ SessionOf[m] \in Sessions
      BY <2>5, <2>6, GuildType
    <3>2. store'[SessionOf[m]] = store[SessionOf[m]]
      BY <2>1, <3>1 DEF Guild
    <3> QED BY <1>0, <3>1, <3>2 DEF SessionsOK
  <2>7. SessionsOK'
    BY <1>1, <2>1, <2>2, <2>6, SessionsKept
  <2> QED BY <2>3, <2>7
<1> QED BY <1>2, <1>3

\* Without handlers only sessions matter.
LEMMA ShutLive ==
    ASSUME KInv, owner # "open", turn' = turn, NEW m \in Msgs
    PROVE  ~Live(m)'
<1>1. turn'[m] = NoTurn
  BY NotOpenIdle DEF KInv
<1> QED BY <1>1 DEF Live, NoTurn

\* The purge at startup finds nothing of the guild in memory.
LEMMA RecoverResetSessions ==
    ASSUME KInv, RowsMove, NEW g \in Guilds, NEW o \in {"ok", "lost"}, RecoverReset(g, o)
    PROVE  SessionsOK' /\ CutOK'
<1>1. CASE o = "ok"
  <2>1. /\ owner = "restored" /\ g \in revoked /\ PurgeGuild(g)
        /\ lock' = [Free EXCEPT !.by = "purged", !.guild = g]
        /\ UNCHANGED <<ck, revoked, store, owner, turn, fixing, ids, revived>>
    BY <1>1 DEF RecoverReset
  <2>2. lock'.by = "purged" /\ lock'.guild = g /\ fixing.msg = NoMsg
    BY <2>1 DEF Free, KInv, JInv, FixOK
  <2>3. \A s \in Sessions : store'[s] = IF GuildOf[s] = g THEN NoSession ELSE store[s]
    BY <2>1 DEF KInv, CutOK
  <2>4. CutOK'
    BY <2>1, <2>2, <2>3, PurgeCut
  <2>5. SessionsOK'
    BY <2>1, <2>2, ShutLive, SessionsKept
  <2> QED BY <2>4, <2>5
<1>2. CASE o # "ok"
  <2>1. ProcessDies /\ UNCHANGED <<ck, revoked, cut, revived>>
    BY <1>2 DEF RecoverReset
  <2> QED BY <2>1, DeathSessions
<1> QED BY <1>1, <1>2

\* Memory is lost, the checkpoint stays.
LEMMA CrashSessions ==
    ASSUME KInv, RowsMove, Crash
    PROVE  SessionsOK' /\ CutOK'
BY DeathSessions DEF Crash, durable, history

\* The sessions are restored, those of a revoked guild are not; or the
\* checkpoint is revoked, and none is.
LEMMA StartSessions ==
    ASSUME KInv, RowsMove, NEW end \in FlushEnds, Start(end)
    PROVE  SessionsOK' /\ CutOK'
<1>1. /\ owner = "down" /\ UNCHANGED <<revoked, turn, lock, fixing, cut, revived>>
      /\ \/ store' = [s \in Sessions |-> Restored(s)] /\ ck' = ck
         \/ store' = NoSessions /\ WriteCheckpoint(end, NoSessions)
  BY DEF Start
<1>2. /\ \A s \in Sessions : store'[s] \in {ck.sess[s], NoSession}
      /\ \A s \in Sessions : GuildOf[s] \in revoked => store'[s] = NoSession
      /\ \A s \in Sessions : store'[s] = NoSession \/ store'[s] = ck.sess[s]
  BY <1>1 DEF Restored, NoSessions
<1>3. \A s \in Sessions :
         /\ ck'.sess[s] \in {ck.sess[s], store[s], NoSession}
         /\ ck'.left.sess[s] \in {ck.left.sess[s], ck.sess[s], store[s], NoSession}
  BY <1>1, FlushSessions
<1>4. SessionsOK'
  BY <1>1, <1>2, <1>3, ShutLive, SessionsKept
<1>5. \A s \in Sessions : ck'.sess[s] = ck.sess[s] \/ After(cut[GuildOf[s]], ck'.sess[s])
  BY <1>3, AfterSessions
<1>6. /\ lock'.by \in {"reset", "purged", "flushed"} => lock'.guild \in revoked'
      /\ lock'.by = "flushed" =>
           \A q \in Sessions : GuildOf[q] = lock'.guild => After(cut[GuildOf[q]], ck'.sess[q])
  BY <1>1, <1>5 DEF KInv, CutOK
<1>7. \A s \in Sessions : store'[s] = NoSession \/ After(cut[GuildOf[s]], store'[s])
  BY <1>2 DEF KInv, CutOK
<1>8. CutOK'
  BY <1>1, <1>2, <1>5, <1>6, <1>7, CutKept
<1> QED BY <1>4, <1>8

\* A revoked file is taken for good again: its sessions are good, and nothing
\* is said of the resets any more.
LEMMA ReviveSessions ==
    ASSUME KInv, RowsMove, Revive
    PROVE  SessionsOK' /\ CutOK'
<1>1. /\ ck' = [gen |-> ck.left.gen, sess |-> ck.left.sess, left |-> NoFile]
      /\ UNCHANGED <<led, ids, turn, epoch, store, fixing, lock, owner, revoked, cut>> /\ revived'
  BY DEF Revive, counters
<1>2. ck'.sess = ck.left.sess /\ \A s \in Sessions : ck'.left.sess[s] = NoSession
  BY <1>1 DEF NoFile, NoSessions
<1>3. SessionsOK'
  BY <1>1, <1>2, QuietSessions
<1>4. CutOK'
  BY <1>1 DEF KInv, CutOK, After
<1> QED BY <1>3, <1>4

\* Steps of the restart that leave the sessions alone.
LEMMA PlainRestartSessions ==
    ASSUME KInv, RowsMove,
           \/ StartReconciling \/ Open \/ ReconcileComplete
           \/ \E m \in Msgs : ReconcileVerified(m) \/ ReconcileUnresolved(m)
    PROVE  SessionsOK' /\ CutOK'
<1>1. /\ owner \in {"restored", "reconciling"} /\ owner' \in {"reconciling", "shut", "open"}
      /\ UNCHANGED <<store, revoked, turn, lock, epoch, cut, revived>>
      /\ fixing' = fixing \/ fixing' = NoFix
      /\ ck' = ck \/ ck' = [ck EXCEPT !.gen = 1]
  BY DEF StartReconciling, Open, ReconcileComplete, ReconcileVerified, ReconcileUnresolved,
     Reconciling, durable, counters, history
<1>2. ck'.sess = ck.sess /\ ck'.left = ck.left
  BY <1>1, StepTypes DEF KInv, Checkpoints
<1>3. fixing'.msg = NoMsg \/ fixing' = fixing
  BY <1>1 DEF NoFix
<1>4. SessionsOK'
  BY <1>1, <1>2, <1>3, QuietSessions
<1>5. /\ lock'.by \in {"reset", "purged", "flushed"} => lock'.guild \in revoked'
      /\ lock'.by = "flushed" =>
           \A q \in Sessions : GuildOf[q] = lock'.guild => After(cut[GuildOf[q]], ck'.sess[q])
  BY <1>1, <1>2 DEF KInv, CutOK
<1>6. CutOK'
  BY <1>1, <1>2, <1>3, <1>5, CutKept
<1> QED BY <1>4, <1>6

\* The recovered turn is appended unless the session ends with it.
LEMMA ReconcileMarkSessions ==
    ASSUME KInv, RowsMove, NEW m \in Msgs, ReconcileMark(m)
    PROVE  SessionsOK' /\ CutOK'
<1> DEFINE s == SessionOf[m]
           new == WithTurn(m)
<1>0. /\ JInv /\ SessionsOK /\ CutOK /\ led[m] \in Rows /\ s \in Sessions
      /\ store \in [Sessions -> SessionStates] /\ cut[Guild(m)] \in Nat
  BY StepTypes, GuildType DEF KInv, JInv, MoreTypes
<1>1. /\ owner = "reconciling" /\ led[m].phase \in Delivered
      /\ store' = [store EXCEPT ![s] = new]
      /\ fixing' = [msg |-> m, was |-> store[s]]
      /\ UNCHANGED <<ck, revoked, owner, turn, lock, cut, revived>>
  BY DEF ReconcileMark, Reconciling, Recommits, Delivered, counters, history
<1>2. /\ new \in SessionStates /\ Good(led, ids, s, store[s]) /\ store[s] \in SessionStates
      /\ led[m].id > cut[Guild(m)] /\ After(cut[Guild(m)], store[s])
      /\ led[m].id \in Nat /\ led[m].reply \in Replies
  BY <1>0, <1>1, WithTurnType DEF SessionsOK, CutOK, Guild, NoRow, Delivered, Rows
<1>3. Alone(m)
  BY <1>0, <1>1 DEF JInv, RowsOK, Alone
<1>4. Good(led', ids', s, new) /\ After(cut[Guild(m)], new)
  <2>1. CASE TailIs(m)
    <3>1. new = store[s]
      BY <2>1 DEF WithTurn
    <3> QED BY <1>0, <1>2, <3>1, GoodStable
  <2>2. CASE ~TailIs(m)
    <3>1. ~Has(store[s], led[m].id)
      BY <1>1, <1>2, <2>2 DEF Good, Fits, EndsWith, TailIs
    <3>2. new = [turn |-> led[m].id,
                 hist |-> Append(store[s].hist, Pair(m, led[m].id, led[m].reply))]
      BY <2>2 DEF WithTurn
    <3>3. new.turn = led[m].id /\ new.hist = Append(store[s].hist, Pair(m, led[m].id, led[m].reply))
      BY <3>2
    <3> HIDE DEF new
    <3>4. Good(led, ids, s, new)
      BY <1>0, <1>1, <1>2, <1>3, <3>1, <3>3, GoodAppend
    <3>5. Good(led', ids', s, new)
      BY <1>0, <3>4, GoodStable
    <3>6. After(cut[Guild(m)], new)
      BY <1>0, <1>2, <3>3, AfterAppend
    <3> QED BY <3>5, <3>6
  <2> QED BY <2>1, <2>2
<1> HIDE DEF new
<1>5. store'[s] = new /\ \A q \in Sessions : q # s => store'[q] = store[q]
  BY <1>0, <1>1
<1>6. fixing'.msg = m /\ fixing'.was = store[s]
  BY <1>1
<1>7. SessionsOK'
  BY <1>1, <1>4, <1>5, <1>6, ShutLive, SessionsKept
<1>8. /\ lock'.by \in {"reset", "purged", "flushed"} => lock'.guild \in revoked'
      /\ lock'.by = "flushed" =>
           \A q \in Sessions : GuildOf[q] = lock'.guild => After(cut[GuildOf[q]], ck'.sess[q])
  BY <1>0, <1>1 DEF CutOK
<1>9. \A q \in Sessions : store'[q] = store[q] \/ After(cut[GuildOf[q]], store'[q])
  BY <1>4, <1>5 DEF Guild
<1>10. CutOK'
  BY <1>1, <1>6, <1>8, <1>9, CutKept
<1> QED BY <1>7, <1>10

\* The commit of the recovered turn, with its rollback.
LEMMA ReconcileCommitSessions ==
    ASSUME KInv, RowsMove, NEW end \in FlushEnds, ReconcileCommit(end)
    PROVE  SessionsOK' /\ CutOK'
<1> DEFINE m == fixing.msg
           s == SessionOf[m]
<1>0. JInv /\ SessionsOK /\ CutOK /\ store \in [Sessions -> SessionStates]
  BY StepTypes DEF KInv
<1>1. /\ owner = "reconciling" /\ m # NoMsg /\ WriteCheckpoint(end, store)
      /\ UNCHANGED <<revoked, owner, turn, lock, cut, revived>>
      /\ \/ UNCHANGED <<store, fixing>>
         \/ store' = [store EXCEPT ![s] = fixing.was] /\ fixing' = NoFix
  BY DEF ReconcileCommit, Flush
<1>2. m \in Msgs /\ s \in Sessions /\ Guild(m) = GuildOf[s]
  BY <1>0, <1>1, GuildType DEF JInv, MoreTypes, Guild
<1>3. Good(led', ids', s, fixing.was) /\ After(cut[GuildOf[s]], fixing.was)
  <2>1. Good(led, ids, s, fixing.was)
    BY <1>0, <1>1 DEF SessionsOK
  <2> QED BY <1>0, <1>1, <1>2, <2>1, GoodStable DEF CutOK
<1>4. \A q \in Sessions :
         /\ ck'.sess[q] \in {ck.sess[q], store[q], NoSession}
         /\ ck'.left.sess[q] \in {ck.left.sess[q], ck.sess[q], store[q], NoSession}
  BY <1>1, FlushSessions
<1>5. \A q \in Sessions : ck'.sess[q] = ck.sess[q] \/ After(cut[GuildOf[q]], ck'.sess[q])
  BY <1>4, AfterSessions
<1>6. \A q \in Sessions : store'[q] = store[q] \/ (q = s /\ store'[q] = fixing.was)
  BY <1>0, <1>1, <1>2
<1>7. fixing'.msg = NoMsg \/ fixing' = fixing
  BY <1>1 DEF NoFix
<1>8. SessionsOK'
  <2>1. \A q \in Sessions : store'[q] = store[q] \/ Good(led', ids', q, store'[q])
    BY <1>3, <1>6
  <2>2. \A n \in Msgs : ~Live(n)'
    BY <1>1, ShutLive
  <2> QED BY <1>4, <1>7, <2>1, <2>2, SessionsKept
<1>9. /\ lock'.by \in {"reset", "purged", "flushed"} => lock'.guild \in revoked'
      /\ lock'.by = "flushed" =>
           \A q \in Sessions : GuildOf[q] = lock'.guild => After(cut[GuildOf[q]], ck'.sess[q])
  BY <1>0, <1>1, <1>5 DEF CutOK
<1>10. \A q \in Sessions : store'[q] = store[q] \/ After(cut[GuildOf[q]], store'[q])
  BY <1>3, <1>6
<1>11. CutOK'
  BY <1>1, <1>5, <1>7, <1>9, <1>10, CutKept
<1> QED BY <1>8, <1>11

\* Every step keeps the sessions and the traces of a reset in order.
LEMMA SessionsInductive == KInv /\ [Next]_vars => KInv'
<1> SUFFICES ASSUME KInv, [Next]_vars PROVE KInv'
  OBVIOUS
<1>0. JInv' /\ RowsMove
  BY Inductive, StepMoves DEF KInv
<1> SUFFICES SessionsOK' /\ CutOK'
  BY <1>0 DEF KInv
<1>1. ASSUME NEW m \in Msgs, Deliver(m) \/ GenerationFails(m) PROVE SessionsOK' /\ CutOK'
  BY <1>0, <1>1, PlainHandlerSessions
<1>2. ASSUME NEW m \in Msgs, Handler(m) PROVE SessionsOK' /\ CutOK'
  <2>1. CASE Activate(m)
    BY <1>0, <2>1, ActivateSessions
  <2>2. CASE AppendTurn(m)
    BY <1>0, <2>2, AppendTurnSessions
  <2>3. CASE \E end \in FlushEnds : CommitFlush(m, end)
    BY <1>0, <2>3, CommitFlushSessions
  <2>4. CASE \/ TakeReceipt(m) \/ Abandon(m)
             \/ \E o \in Outcomes :
                   \/ Claim(m, o) \/ BindReply(m, o) \/ GoInflight(m, o) \/ MarkAmbiguous(m, o)
                   \/ ConfirmDelivery(m, o) \/ CommitMarker(m, o) \/ CompleteTurn(m, o)
             \/ \E seen, raised \in BOOLEAN : Send(m, seen, raised)
    BY <1>0, <2>4, PlainHandlerSessions
  <2> QED BY <1>2, <2>1, <2>2, <2>3, <2>4 DEF Handler
<1>3. CASE ResetSteps
  BY <1>0, <1>3, ResetRuntimeSessions, ResetFlushSessions, FinishResetSessions DEF ResetSteps
<1>4. CASE Restart
  <2>1. CASE \/ StartReconciling \/ Open \/ ReconcileComplete
             \/ \E m \in Msgs : ReconcileVerified(m) \/ ReconcileUnresolved(m)
    BY <1>0, <2>1, PlainRestartSessions
  <2>2. ASSUME NEW m \in Msgs, ReconcileMark(m) PROVE SessionsOK' /\ CutOK'
    BY <1>0, <2>2, ReconcileMarkSessions
  <2>3. ASSUME NEW g \in Guilds, NEW o \in {"ok", "lost"}, RecoverReset(g, o)
        PROVE  SessionsOK' /\ CutOK'
    BY <1>0, <2>3, RecoverResetSessions
  <2>4. ASSUME NEW end \in FlushEnds, ReconcileCommit(end) PROVE SessionsOK' /\ CutOK'
    BY <1>0, <2>4, ReconcileCommitSessions
  <2>5. ASSUME NEW end \in {"ok", "dropped", "left"}, Start(end) PROVE SessionsOK' /\ CutOK'
    BY <1>0, <2>5, StartSessions DEF FlushEnds
  <2> QED BY <1>0, <1>4, <2>1, <2>2, <2>3, <2>4, <2>5, ReviveSessions DEF Restart
<1>5. ASSUME NEW end \in FlushEnds, PeriodicFlush(end) PROVE SessionsOK' /\ CutOK'
  BY <1>0, <1>5, PeriodicFlushSessions
<1>6. ASSUME NEW g \in Guilds, NEW o \in Outcomes, StartReset(g, o) PROVE SessionsOK' /\ CutOK'
  BY <1>0, <1>6, StartResetSessions
<1>7. CASE Crash
  BY <1>0, <1>7, CrashSessions
<1>8. CASE UNCHANGED vars
  <2>1. UNCHANGED <<turn, epoch, store, ck, fixing, lock, revoked, owner, cut, revived>>
    BY <1>8 DEF vars, durable, history
  <2>2. SessionsOK'
    BY <1>0, <2>1, QuietSessions
  <2>3. /\ lock'.by \in {"reset", "purged", "flushed"} => lock'.guild \in revoked'
        /\ lock'.by = "flushed" =>
             \A q \in Sessions : GuildOf[q] = lock'.guild => After(cut[GuildOf[q]], ck'.sess[q])
        /\ \A s \in Sessions : GuildOf[s] \in revoked' /\ owner' = "restored" => store'[s] = NoSession
    BY <2>1 DEF KInv, CutOK
  <2> QED BY <1>0, <2>1, <2>2, <2>3, CutKept
<1> QED BY <1>1, <1>2, <1>3, <1>4, <1>5, <1>6, <1>7, <1>8 DEF Next

\* The initial state.
LEMMA InitSessions == Init => KInv
<1> SUFFICES ASSUME Init PROVE KInv
  OBVIOUS
<1>1. /\ JInv /\ ids = 0 /\ fixing.msg = NoMsg /\ lock.by = "none"
      /\ \A g \in Guilds : cut[g] = 0
      /\ \A s \in Sessions : /\ store[s] = NoSession /\ ck.sess[s] = NoSession
                             /\ ck.left.sess[s] = NoSession
      /\ \A m \in Msgs : led[m] = NoRow /\ turn[m] = NoTurn
  BY InitKeeps DEF Init, NoFix, Free, NoFile, NoSessions
<1>2. 0 \in Nat
  OBVIOUS
<1>3. \A s \in Sessions : Good(led, ids, s, NoSession) /\ After(0, NoSession)
  BY <1>1, <1>2, EmptySession
<1>4. \A m \in Msgs : ~Live(m)
  BY <1>1 DEF Live, NoTurn
<1>5. SessionsOK
  BY <1>1, <1>3, <1>4 DEF SessionsOK
<1>6. CutOK
  BY <1>1, <1>3, TurnAssumption DEF CutOK
<1> QED BY <1>1, <1>5, <1>6 DEF KInv

\* The invariant of the sessions.
THEOREM SessionsAlways == Spec => []KInv
BY InitSessions, SessionsInductive, PTL DEF Spec

\* No turn enters a history twice.
THEOREM NoTurnTwiceAlways == Spec => []NoTurnTwice
<1>1. KInv => NoTurnTwice
  BY DEF KInv, SessionsOK, Good, Distinct, NoTurnTwice
<1> QED BY <1>1, SessionsAlways, PTL

\* As long as no revoked file has been taken for good again, nothing from
\* before a guild's reset is left or returns.
THEOREM ResetAlwaysForgets == Spec => []ResetForgets
<1>1. ASSUME KInv PROVE ResetForgets
  <2> SUFFICES ASSUME ~revived, NEW m \in Msgs
               PROVE  /\ led[m] # NoRow => led[m].id > cut[Guild(m)]
                      /\ \A ses \in {store[SessionOf[m]], Restored(SessionOf[m])} :
                            /\ ses.turn # 0 => ses.turn > cut[Guild(m)]
                            /\ \A i \in DOMAIN ses.hist : ses.hist[i].id > cut[Guild(m)]
    BY DEF ResetForgets
  <2>1. SessionOf[m] \in Sessions /\ Guild(m) = GuildOf[SessionOf[m]]
    BY GuildType DEF Guild
  <2>2. /\ After(cut[Guild(m)], store[SessionOf[m]]) /\ After(cut[Guild(m)], NoSession)
    BY <1>1, <2>1, AfterSessions
  <2>3. After(cut[Guild(m)], Restored(SessionOf[m]))
    BY <1>1, <2>1, <2>2 DEF KInv, CutOK, Restored
  <2> QED BY <1>1, <2>2, <2>3 DEF KInv, CutOK, After
<1> QED BY <1>1, SessionsAlways, PTL

=============================================================================
