------------------------ MODULE CompletedTurnProofs ------------------------
(***************************************************************************)
(* The third layer of the proofs about IngressTurn: a completed row is     *)
(* remembered (CompletedIsRemembered), for every set of messages, sessions *)
(* and guilds and every bound.                                             *)
(*                                                                         *)
(* It holds if the messages of one session differ in their text: the       *)
(* restart knows a turn by the text and the reply that its session ends    *)
(* with, so an equal exchange of another turn is taken for it (the run     *)
(* `repeat` of MCIngressTurn).  Then the text of a history entry names the *)
(* row it belongs to (TextsOK).  The turn of a completed row is followed   *)
(* through memory, checkpoint and the session a failed recommit is rolled  *)
(* back to (CompletedHas), from the append of a live handler (LiveHas) or  *)
(* from the recommit of the restart, during which the checkpoint has       *)
(* everything that memory has but the turn being committed (RestartHas).   *)
(* A guild that leaves the revocations has no rows (PurgeOK).  A revoked   *)
(* file that is taken for good again may hold any turn, also of a row that *)
(* was purged: from then on nothing of this is left, but neither is the    *)
(* promise, since the revocation had cost the content (RInv).              *)
(***************************************************************************)
EXTENDS IngressTurnProofs

\* No two messages of a session say the same.
DistinctTexts ==
    \A m, n \in Msgs : SessionOf[m] = SessionOf[n] /\ TextOf[m] = TextOf[n] => m = n

\* Every turn of a is in b.
Sub(a, b) == \A i \in DOMAIN a.hist : Has(b, a.hist[i].id)

\* What the history of session s says of a message is of the message's row.
Owned(rows, s, ses) ==
    \A m \in Msgs : SessionOf[m] = s =>
       \A i \in DOMAIN ses.hist : ses.hist[i].text = TextOf[m] =>
          rows[m].phase # "none" /\ ses.hist[i].id = rows[m].id

\* So it is in memory, in the checkpoint unless a reset will drop the session,
\* and in the session kept for a rollback.
TextsOK ==
    /\ \A s \in Sessions :
          /\ Owned(led, s, store[s])
          /\ GuildOf[s] \notin revoked => Owned(led, s, ck.sess[s])
          /\ lock.by = "flushed" /\ GuildOf[s] = lock.guild => Owned(led, s, ck.sess[s])
    /\ fixing.msg # NoMsg => Owned(led, SessionOf[fixing.msg], fixing.was)

\* Where the lock is in each state of the owner; a guild that is purged has no
\* rows and gets none before its revocation is gone.
PurgeOK ==
    /\ owner \in {"down", "reconciling"} => lock.by = "none"
    /\ owner = "restored" => lock.by \in {"none", "purged", "flushed"}
    /\ lock.by \in {"purged", "flushed"} =>
          /\ \A m \in Msgs : Guild(m) = lock.guild => led[m].phase = "none"
          /\ owner = "open" => lock.guild \in blocked

Written == {"commit", "committed", "receipt"}

\* A live handler that has appended its turn finds it in memory, and after its
\* commit in the checkpoint.
LiveHas ==
    \A m \in Msgs : Live(m) =>
       /\ turn[m].pc \in Written => Has(store[SessionOf[m]], turn[m].id)
       /\ turn[m].pc \in {"committed", "receipt"} /\ ~lossy =>
             Has(ck.sess[SessionOf[m]], turn[m].id)

\* A completed turn is in the checkpoint, in memory, and in the session that a
\* failed recommit would put back.
CompletedHas ==
    \A m \in Msgs : led[m].phase = "completed" /\ Guild(m) \notin revoked /\ ~lossy =>
       /\ Has(ck.sess[SessionOf[m]], led[m].id)
       /\ Up => Has(store[SessionOf[m]], led[m].id)
       /\ fixing.msg # NoMsg /\ SessionOf[fixing.msg] = SessionOf[m] =>
             Has(fixing.was, led[m].id)

\* Until the owner opens, the checkpoint has what memory has, but for the turn
\* that is being committed; that one ends its session.
RestartHas ==
    /\ owner \in {"restored", "reconciling"} /\ ~lossy =>
          \A s \in Sessions :
             \/ Sub(store[s], ck.sess[s])
             \/ /\ fixing.msg # NoMsg /\ s = SessionOf[fixing.msg]
                /\ ck.gen # led[fixing.msg].gen
    /\ fixing.msg # NoMsg =>
          /\ store[SessionOf[fixing.msg]].hist # <<>>
          /\ Last(store[SessionOf[fixing.msg]].hist).id = led[fixing.msg].id
          /\ Sub(fixing.was, store[SessionOf[fixing.msg]])
          /\ ~lossy => Sub(fixing.was, ck.sess[SessionOf[fixing.msg]])

Memory == TextsOK /\ PurgeOK /\ LiveHas /\ CompletedHas /\ RestartHas
MInv == KInv /\ Memory

\* Memory, as long as no revoked file has been taken for good again.
RInv == KInv /\ (revived => lossy) /\ (revived \/ Memory)

-----------------------------------------------------------------------------
(* Histories *)

\* What is in a part is in the whole; a session is a part of itself and the
\* empty one of every session.
LEMMA SubHas ==
    /\ \A a, b, id : Sub(a, b) /\ Has(a, id) => Has(b, id)
    /\ \A a : Sub(a, a)
    /\ \A a, b, c : Sub(a, b) /\ Sub(b, c) => Sub(a, c)
    /\ \A b : Sub(NoSession, b)
<1>1. DOMAIN NoSession.hist = {}
  BY DEF NoSession
<1> QED BY <1>1 DEF Sub, Has

\* An empty session says nothing.
LEMMA EmptyOwned == ASSUME NEW rows, NEW s PROVE Owned(rows, s, NoSession)
<1>1. DOMAIN NoSession.hist = {}
  BY DEF NoSession
<1> QED BY <1>1 DEF Owned

\* The last entry of a history is in it.
LEMMA LastHas ==
    ASSUME NEW ses \in SessionStates, ses.hist # <<>>
    PROVE  /\ Len(ses.hist) \in DOMAIN ses.hist /\ Last(ses.hist) = ses.hist[Len(ses.hist)]
           /\ Has(ses, Last(ses.hist).id)
<1>1. ses.hist \in Seq(Entries)
  BY DEF SessionStates
<1>2. Len(ses.hist) \in DOMAIN ses.hist
  BY <1>1
<1>3. Last(ses.hist) = ses.hist[Len(ses.hist)]
  BY DEF Last
<1> QED BY <1>2, <1>3 DEF Has

\* The rows of session s are not forgotten.
RowsStay(s) ==
    \A m \in Msgs : SessionOf[m] = s /\ led'[m].phase = "none" => led[m].phase = "none"

\* A session that stays as it is stays owned by the rows when none is forgotten.
LEMMA OwnedStable ==
    ASSUME JInv, RowsMove, NEW s, NEW ses, Owned(led, s, ses), RowsStay(s)
    PROVE  Owned(led', s, ses)
<1> SUFFICES ASSUME NEW m \in Msgs, SessionOf[m] = s, NEW i \in DOMAIN ses.hist,
                    ses.hist[i].text = TextOf[m]
             PROVE  led'[m].phase # "none" /\ ses.hist[i].id = led'[m].id
  BY DEF Owned
<1>1. led[m].phase # "none" /\ ses.hist[i].id = led[m].id
  BY DEF Owned
<1>2. led'[m].phase # "none"
  BY <1>1 DEF RowsStay
<1>3. NoRow.phase = "none"
  BY DEF NoRow
<1> QED BY <1>1, <1>2, <1>3 DEF RowsMove, RowMove

\* An appended turn is owned by its row; nothing is lost.
LEMMA OwnedAppend ==
    ASSUME DistinctTexts, NEW rows, NEW m \in Msgs, NEW ses \in SessionStates,
           Owned(rows, SessionOf[m], ses), rows[m].phase # "none",
           NEW reply \in Replies, rows[m].id \in Nat,
           NEW new, new.hist = Append(ses.hist, Pair(m, rows[m].id, reply))
    PROVE  /\ Owned(rows, SessionOf[m], new) /\ Sub(ses, new)
           /\ Has(new, rows[m].id) /\ new.hist # <<>> /\ Last(new.hist).id = rows[m].id
<1> DEFINE e == Pair(m, rows[m].id, reply)
<1>1. e \in Entries /\ e.id = rows[m].id /\ e.text = TextOf[m]
  BY DEF Pair, Entries
<1>2. ses.hist \in Seq(Entries)
  BY DEF SessionStates
<1> HIDE DEF e
<1>3. /\ DOMAIN new.hist = 1..(Len(ses.hist) + 1) /\ DOMAIN ses.hist = 1..Len(ses.hist)
      /\ Len(ses.hist) \in Nat /\ new.hist # <<>> /\ Last(new.hist) = e
      /\ \A i \in DOMAIN ses.hist : new.hist[i] = ses.hist[i]
      /\ new.hist[Len(ses.hist) + 1] = e
  BY <1>1, <1>2, Appended DEF e
<1>4. \A i \in DOMAIN new.hist : i \in DOMAIN ses.hist \/ i = Len(ses.hist) + 1
  BY <1>3
<1>5. Len(ses.hist) + 1 \in DOMAIN new.hist /\ \A i \in DOMAIN ses.hist : i \in DOMAIN new.hist
  BY <1>3
<1>6. Sub(ses, new)
  BY <1>3, <1>5 DEF Sub, Has
<1>7. Has(new, rows[m].id)
  BY <1>1, <1>3, <1>5 DEF Has
<1>8. Owned(rows, SessionOf[m], new)
  <2> SUFFICES ASSUME NEW n \in Msgs, SessionOf[n] = SessionOf[m], NEW i \in DOMAIN new.hist,
                      new.hist[i].text = TextOf[n]
               PROVE  rows[n].phase # "none" /\ new.hist[i].id = rows[n].id
    BY DEF Owned
  <2>1. CASE i \in DOMAIN ses.hist
    BY <1>3, <2>1 DEF Owned
  <2>2. CASE i = Len(ses.hist) + 1
    <3>1. n = m
      BY <1>1, <1>3, <2>2 DEF DistinctTexts
    <3> QED BY <1>1, <1>3, <2>2, <3>1
  <2> QED BY <1>4, <2>1, <2>2
<1> QED BY <1>1, <1>3, <1>6, <1>7, <1>8

-----------------------------------------------------------------------------
(* What keeps each part of the invariant *)

\* A step after which every session is as before, without a row of it being
\* forgotten, or is owned for a reason of its own.
LEMMA TextsKept ==
    ASSUME MInv, RowsMove,
           \A s \in Sessions : \/ store'[s] = store[s] /\ RowsStay(s)
                               \/ Owned(led', s, store'[s]),
           \A s \in Sessions :
              \/ ck'.sess[s] = ck.sess[s] /\ RowsStay(s)
                 /\ (GuildOf[s] \in revoked => GuildOf[s] \in revoked' \/ (lock.by = "flushed" /\ GuildOf[s] = lock.guild))
                 /\ (lock'.by = "flushed" /\ GuildOf[s] = lock'.guild => lock.by = "flushed" /\ GuildOf[s] = lock.guild)
              \/ GuildOf[s] \in revoked' /\ ~(lock'.by = "flushed" /\ GuildOf[s] = lock'.guild)
              \/ Owned(led', s, ck'.sess[s]),
           \/ fixing'.msg = NoMsg
           \/ fixing' = fixing /\ RowsStay(SessionOf[fixing.msg])
           \/ Owned(led', SessionOf[fixing'.msg], fixing'.was)
    PROVE  TextsOK'
<1>0. JInv /\ TextsOK
  BY DEF MInv, Memory, KInv
<1>1. \A s \in Sessions : Owned(led', s, store'[s])
  BY <1>0, OwnedStable DEF TextsOK
<1>2. ASSUME NEW s \in Sessions
      PROVE  /\ GuildOf[s] \notin revoked' => Owned(led', s, ck'.sess[s])
             /\ lock'.by = "flushed" /\ GuildOf[s] = lock'.guild => Owned(led', s, ck'.sess[s])
  BY <1>0, OwnedStable DEF TextsOK
<1>3. fixing'.msg # NoMsg => Owned(led', SessionOf[fixing'.msg], fixing'.was)
  BY <1>0, OwnedStable DEF TextsOK
<1> QED BY <1>1, <1>2, <1>3 DEF TextsOK

\* The sessions as a flush may leave them, seen from memory.
FlushLeaves(s) ==
    \/ ck'.sess[s] = ck.sess[s] /\ (lossy => lossy')
    \/ ck'.sess[s] = store[s] /\ (lossy => lossy') /\ Up
    \/ lossy'

\* Handlers: one that is still live after the step and has appended its turn had
\* appended it before, or finds it for a reason of its own; memory only grows.
LEMMA LiveHasKept ==
    ASSUME MInv,
           \A m \in Msgs : Live(m)' /\ turn'[m].pc \in Written =>
              /\ \/ /\ Live(m) /\ turn'[m].id = turn[m].id
                    /\ turn[m].pc \in Written
                    /\ Sub(store[SessionOf[m]], store'[SessionOf[m]])
                 \/ Has(store'[SessionOf[m]], turn'[m].id)
              /\ turn'[m].pc # "commit" /\ ~lossy' =>
                 \/ /\ Live(m) /\ turn'[m].id = turn[m].id
                    /\ turn[m].pc \in {"committed", "receipt"}
                    /\ FlushLeaves(SessionOf[m])
                 \/ Has(ck'.sess[SessionOf[m]], turn'[m].id)
    PROVE  LiveHas'
<1> SUFFICES ASSUME NEW m \in Msgs, Live(m)'
             PROVE  /\ turn'[m].pc \in Written => Has(store'[SessionOf[m]], turn'[m].id)
                    /\ turn'[m].pc \in {"committed", "receipt"} /\ ~lossy' =>
                          Has(ck'.sess[SessionOf[m]], turn'[m].id)
  BY DEF LiveHas
<1>1. LiveHas
  BY DEF MInv, Memory
<1>2. ASSUME turn'[m].pc \in Written PROVE Has(store'[SessionOf[m]], turn'[m].id)
  BY <1>1, <1>2, SubHas DEF LiveHas
<1>3. ASSUME turn'[m].pc \in {"committed", "receipt"}, ~lossy'
      PROVE  Has(ck'.sess[SessionOf[m]], turn'[m].id)
  <2>1. turn'[m].pc \in Written /\ turn'[m].pc # "commit"
    BY <1>3 DEF Written
  <2>2. CASE /\ Live(m) /\ turn'[m].id = turn[m].id
             /\ turn[m].pc \in {"committed", "receipt"} /\ FlushLeaves(SessionOf[m])
    <3>1. Has(store[SessionOf[m]], turn[m].id)
      BY <1>1, <2>2 DEF LiveHas, Written
    <3> QED BY <1>1, <1>3, <2>2, <3>1 DEF LiveHas, FlushLeaves
  <2> QED BY <1>3, <2>1, <2>2
<1> QED BY <1>2, <1>3

\* Completed rows: one that is completed after the step was completed before, or
\* its turn is where it must be for a reason of its own; the checkpoint is left,
\* written from memory or lost; memory grows, is restored or is rolled back.
LEMMA CompletedHasKept ==
    ASSUME MInv,
           \A m \in Msgs : led'[m].phase = "completed" /\ Guild(m) \notin revoked' /\ ~lossy' =>
              \/ /\ led[m].phase = "completed" /\ led'[m].id = led[m].id
                 /\ Guild(m) \notin revoked
              \/ /\ Has(ck'.sess[SessionOf[m]], led'[m].id)
                 /\ Has(store'[SessionOf[m]], led'[m].id)
                 /\ fixing'.msg = NoMsg,
           lossy => lossy',
           \A s \in Sessions : FlushLeaves(s),
           \A s \in Sessions :
              \/ GuildOf[s] \in revoked' \/ owner' = "down"
              \/ Up /\ Sub(store[s], store'[s])
              \/ store'[s] = ck.sess[s]
              \/ store'[s] = fixing.was /\ fixing.msg # NoMsg /\ s = SessionOf[fixing.msg],
           \/ fixing'.msg = NoMsg
           \/ fixing' = fixing
           \/ Up /\ fixing'.was = store[SessionOf[fixing'.msg]]
    PROVE  CompletedHas'
<1> SUFFICES ASSUME NEW m \in Msgs, led'[m].phase = "completed",
                    Guild(m) \notin revoked', ~lossy'
             PROVE  /\ Has(ck'.sess[SessionOf[m]], led'[m].id)
                    /\ Up' => Has(store'[SessionOf[m]], led'[m].id)
                    /\ fixing'.msg # NoMsg /\ SessionOf[fixing'.msg] = SessionOf[m] =>
                          Has(fixing'.was, led'[m].id)
  BY DEF CompletedHas, Guild
<1> DEFINE s == SessionOf[m]
<1>1. s \in Sessions /\ Guild(m) = GuildOf[s]
  BY GuildType DEF Guild
<1>2. CASE led[m].phase = "completed" /\ led'[m].id = led[m].id /\ Guild(m) \notin revoked
  <2>1. /\ Has(ck.sess[s], led[m].id) /\ (Up => Has(store[s], led[m].id))
        /\ fixing.msg # NoMsg /\ SessionOf[fixing.msg] = s => Has(fixing.was, led[m].id)
    BY <1>2 DEF MInv, Memory, CompletedHas
  <2>2. Has(ck'.sess[s], led'[m].id)
    BY <1>1, <1>2, <2>1 DEF FlushLeaves
  <2>3. ASSUME Up' PROVE Has(store'[s], led'[m].id)
    BY <1>1, <1>2, <2>1, <2>3, SubHas DEF Up
  <2>4. ASSUME fixing'.msg # NoMsg, SessionOf[fixing'.msg] = s
        PROVE  Has(fixing'.was, led'[m].id)
    BY <1>2, <2>1, <2>4
  <2> QED BY <2>2, <2>3, <2>4
<1> QED BY <1>2

\* A step after which the owner is down, shut or open.
LEMMA OpenRestart ==
    ASSUME JInv', owner' \notin {"restored", "reconciling"}
    PROVE  RestartHas'
BY DEF JInv, FixOK, RestartHas

\* A purged guild stays without rows: a row is only granted by an open owner,
\* for a guild that is not shut.
LEMMA PurgeKept ==
    ASSUME MInv, UNCHANGED <<owner, blocked>>,
           \A m \in Msgs : Guild(m) \in blocked \/ owner # "open" => 
                              (led[m].phase = "none" => led'[m].phase = "none"),
           \/ lock' = lock
           \/ lock'.by = "none"
           \/ lock.by \in {"purged", "flushed"} /\ lock'.by = "flushed" /\ lock'.guild = lock.guild
           \/ lock'.by \in {"commit", "reset"} /\ owner \in {"shut", "open"}
    PROVE  PurgeOK'
BY DEF MInv, Memory, PurgeOK, Guild

-----------------------------------------------------------------------------
(* The steps of a handler *)

\* A step of m's handler, by what it leaves of the handler, its row, the sessions,
\* the checkpoint and the lock.
LEMMA HandlerMemory ==
    ASSUME MInv, JInv', RowsMove, NEW m \in Msgs, NEW t \in Turns,
           turn' = [turn EXCEPT ![m] = t], owner = "open",
           UNCHANGED <<epoch, fixing, revoked, owner, blocked>>,
           \A n \in Msgs : n # m => led'[n] = led[n],
           led'[m] = led[m] \/ (Admitted(m) /\ led'[m].phase # "none"),
           led'[m].phase = "completed" =>
              led'[m] = led[m] \/ (Admitted(m) /\ turn[m].pc = "receipt" /\ led'[m].id = led[m].id),
           \A s \in Sessions : \/ store'[s] = store[s]
                               \/ Owned(led', s, store'[s]) /\ Sub(store[s], store'[s]),
           \A s \in Sessions : /\ FlushLeaves(s)
                               /\ ck'.sess[s] \in {ck.sess[s], store[s], NoSession},
           lossy => lossy',
           lock' = lock \/ lock'.by \in {"none", "commit"},
           t.pc \in Written =>
              \/ turn[m].pc \in Written /\ t.id = turn[m].id /\ t.epoch = turn[m].epoch
              \/ Has(store'[SessionOf[m]], t.id),
           t.pc \in {"committed", "receipt"} =>
              \/ /\ turn[m].pc \in {"committed", "receipt"}
                 /\ t.id = turn[m].id /\ t.epoch = turn[m].epoch
              \/ lossy' \/ Has(ck'.sess[SessionOf[m]], t.id)
    PROVE  Memory'
<1>0. /\ JInv /\ TextsOK /\ LiveHas /\ turn \in [Msgs -> Turns] /\ fixing.msg = NoMsg
      /\ SessionOf[m] \in Sessions
  BY StepTypes, GuildType DEF MInv, Memory, KInv, JInv, FixOK
<1>1. turn'[m] = t /\ \A n \in Msgs : n # m => turn'[n] = turn[n]
  BY <1>0
<1>2. \A s \in Sessions : RowsStay(s) /\ Sub(store[s], store'[s])
  BY SubHas DEF RowsStay
<1>3. \A s \in Sessions : Owned(led', s, store[s]) /\ Owned(led', s, NoSession)
  BY <1>0, <1>2, OwnedStable, EmptyOwned DEF TextsOK
<1>4. TextsOK'
  <2>1. \A s \in Sessions : \/ store'[s] = store[s] /\ RowsStay(s)
                            \/ Owned(led', s, store'[s])
    BY <1>2
  <2>2. ASSUME NEW s \in Sessions
        PROVE  \/ ck'.sess[s] = ck.sess[s] /\ RowsStay(s)
                  /\ (GuildOf[s] \in revoked => GuildOf[s] \in revoked')
                  /\ (lock'.by = "flushed" /\ GuildOf[s] = lock'.guild => lock.by = "flushed" /\ GuildOf[s] = lock.guild)
               \/ Owned(led', s, ck'.sess[s])
    BY <1>2, <1>3
  <2> QED BY <1>0, <2>1, <2>2, TextsKept
<1>5. PurgeOK'
  <2>1. ASSUME NEW n \in Msgs, Guild(n) \in blocked \/ owner # "open", led[n].phase = "none"
        PROVE  led'[n].phase = "none"
    BY <2>1 DEF Admitted
  <2>2. lock' = lock \/ lock'.by = "none" \/ (lock'.by \in {"commit", "reset"} /\ owner \in {"shut", "open"})
    OBVIOUS
  <2> QED BY <2>1, <2>2, PurgeKept
<1>6. LiveHas'
  <2>1. ASSUME NEW n \in Msgs, Live(n)', turn'[n].pc \in Written
        PROVE  /\ \/ /\ Live(n) /\ turn'[n].id = turn[n].id
                     /\ turn[n].pc \in Written
                     /\ Sub(store[SessionOf[n]], store'[SessionOf[n]])
                  \/ Has(store'[SessionOf[n]], turn'[n].id)
               /\ turn'[n].pc # "commit" /\ ~lossy' =>
                  \/ /\ Live(n) /\ turn'[n].id = turn[n].id
                     /\ turn[n].pc \in {"committed", "receipt"}
                     /\ FlushLeaves(SessionOf[n])
                  \/ Has(ck'.sess[SessionOf[n]], turn'[n].id)
    <3>1. SessionOf[n] \in Sessions
      BY GuildType
    <3>2. CASE n # m
      <4>1. Live(n)
        BY <1>1, <2>1, <3>2 DEF Live, Guild
      <4> QED BY <1>1, <1>2, <2>1, <3>1, <3>2, <4>1 DEF Written
    <3>3. CASE n = m
      <4>1. turn'[m].epoch = epoch[Guild(m)]
        BY <2>1, <3>3 DEF Live, Guild
      <4>2. turn[m].pc \in Written /\ t.epoch = turn[m].epoch => Live(m)
        BY <1>1, <4>1 DEF Live, Written
      <4> QED BY <1>1, <1>2, <2>1, <3>1, <3>3, <4>2 DEF Written
    <3> QED BY <3>2, <3>3
  <2> QED BY <2>1, LiveHasKept
<1>7. CompletedHas'
  <2>1. ASSUME NEW n \in Msgs, led'[n].phase = "completed", Guild(n) \notin revoked', ~lossy'
        PROVE  \/ /\ led[n].phase = "completed" /\ led'[n].id = led[n].id
                  /\ Guild(n) \notin revoked
               \/ /\ Has(ck'.sess[SessionOf[n]], led'[n].id)
                  /\ Has(store'[SessionOf[n]], led'[n].id)
                  /\ fixing'.msg = NoMsg
    <3>1. CASE led'[n] = led[n]
      BY <2>1, <3>1
    <3>2. CASE n = m /\ Admitted(m) /\ turn[m].pc = "receipt" /\ led'[m].id = led[m].id
      <4>1. Live(m) /\ led[m].id = turn[m].id
        BY <1>0, <3>2, AdmittedLive
      <4>2. Has(store[SessionOf[m]], turn[m].id)
        BY <1>0, <3>2, <4>1 DEF LiveHas, Written
      <4>3. ~lossy => Has(ck.sess[SessionOf[m]], turn[m].id)
        BY <1>0, <3>2, <4>1 DEF LiveHas
      <4>4. Has(ck'.sess[SessionOf[m]], turn[m].id)
        BY <1>0, <2>1, <4>2, <4>3 DEF FlushLeaves
      <4> QED BY <1>0, <1>2, <3>2, <4>1, <4>2, <4>4, SubHas
    <3> QED BY <2>1, <3>1, <3>2
  <2>2. Up
    BY DEF Up
  <2> QED BY <1>0, <1>2, <2>1, <2>2, CompletedHasKept
<1>8. RestartHas'
  BY OpenRestart
<1> QED BY <1>4, <1>5, <1>6, <1>7, <1>8 DEF Memory

\* What a step leaves of m's row: it is left alone, or written by an operation that
\* is admitted; only the end of the handler completes it.
RowLeft(m) ==
    /\ \A n \in Msgs : n # m => led'[n] = led[n]
    /\ led'[m] = led[m] \/ (Admitted(m) /\ led'[m].phase # "none")
    /\ led'[m].phase = "completed" =>
          led'[m] = led[m] \/ (Admitted(m) /\ turn[m].pc = "receipt" /\ led'[m].id = led[m].id)

\* A step that writes nothing of a session leaves the handler before the append, or
\* as far as it was.
TurnLeft(m, t) ==
    /\ turn' = [turn EXCEPT ![m] = t]
    /\ t.pc \in Written =>
          turn[m].pc \in Written /\ t.id = turn[m].id /\ t.epoch = turn[m].epoch
    /\ t.pc \in {"committed", "receipt"} => turn[m].pc \in {"committed", "receipt"}

\* A journal operation.
LEMMA MarkLeaves ==
    ASSUME JInv, NEW m \in Msgs, NEW allowed \in BOOLEAN, NEW row \in Rows, NEW o \in Outcomes,
           Mark(m, allowed, row, o), allowed => Admitted(m), row.phase # "none",
           row.phase = "completed" => turn[m].pc = "receipt" /\ row.id = led[m].id
    PROVE  RowLeft(m)
<1>1. led \in [Msgs -> Rows]
  BY StepTypes
<1>2. led' = led \/ (allowed /\ led' = [led EXCEPT ![m] = row])
  BY DEF Mark
<1> QED BY <1>1, <1>2 DEF RowLeft

\* A handler that ends, goes on or stays where it is.
LEMMA TurnLeaves ==
    ASSUME JInv, NEW m \in Msgs
    PROVE  /\ End(m) => TurnLeft(m, NoTurn) /\ NoTurn \in Turns
           /\ turn' = turn => TurnLeft(m, turn[m]) /\ turn[m] \in Turns
           /\ \A pc \in Pcs \ Written : Then(m, pc) =>
                 \E t \in Turns : TurnLeft(m, t)
<1>0. turn[m] \in Turns /\ NoTurn \in Turns /\ NoTurn.pc = "idle"
      /\ turn = [turn EXCEPT ![m] = turn[m]]
  BY StepTypes, ConstantTypes DEF NoTurn
<1>1. /\ End(m) => TurnLeft(m, NoTurn) /\ NoTurn \in Turns
      /\ turn' = turn => TurnLeft(m, turn[m]) /\ turn[m] \in Turns
  BY <1>0 DEF End, TurnLeft, Written
<1>2. ASSUME NEW pc \in Pcs \ Written, Then(m, pc) PROVE \E t \in Turns : TurnLeft(m, t)
  <2> DEFINE t == [turn[m] EXCEPT !.pc = pc]
  <2>1. t \in Turns /\ t.pc = pc
    BY <1>0 DEF Turns
  <2>2. turn' = [turn EXCEPT ![m] = t] \/ End(m)
    BY <1>2 DEF Then, End
  <2> HIDE DEF t
  <2>3. turn' = [turn EXCEPT ![m] = t] => TurnLeft(m, t)
    BY <2>1 DEF TurnLeft, Written
  <2> QED BY <1>1, <2>1, <2>2, <2>3
<1> QED BY <1>1, <1>2

\* A step of a handler that leaves memory and checkpoint alone.
LEMMA PlainMemory ==
    ASSUME MInv, JInv', RowsMove, NEW m \in Msgs, owner = "open", RowLeft(m),
           \E t \in Turns : TurnLeft(m, t),
           UNCHANGED <<store, ck, epoch, fixing, revoked, owner, blocked, lossy>>,
           lock' = lock \/ lock'.by \in {"none", "commit"}
    PROVE  Memory'
<1>1. PICK t \in Turns : TurnLeft(m, t)
  OBVIOUS
<1>2. \A s \in Sessions : FlushLeaves(s)
  BY DEF FlushLeaves
<1>3. /\ turn' = [turn EXCEPT ![m] = t]
      /\ t.pc \in Written =>
              turn[m].pc \in Written /\ t.id = turn[m].id /\ t.epoch = turn[m].epoch
      /\ t.pc \in {"committed", "receipt"} =>
              turn[m].pc \in {"committed", "receipt"} /\ t.id = turn[m].id /\ t.epoch = turn[m].epoch
  BY <1>1 DEF TurnLeft, Written
<1> QED BY <1>2, <1>3, HandlerMemory DEF RowLeft

\* Arrival, generation and the send.
LEMMA LoopMemory ==
    ASSUME MInv, JInv', RowsMove, NEW m \in Msgs,
           \/ Deliver(m) \/ GenerationFails(m) \/ TakeReceipt(m) \/ Abandon(m)
           \/ \E seen, raised \in BOOLEAN : Send(m, seen, raised)
    PROVE  Memory'
<1>0. /\ JInv /\ turn[m] \in Turns /\ epoch[Guild(m)] \in Nat /\ ck.gen \in Nat
      /\ NoTurn \in Turns
  BY StepTypes, GuildType, ConstantTypes DEF MInv, KInv
<1>1. UNCHANGED <<led, store, ck, epoch, fixing, revoked, owner, blocked, lossy, lock>>
  BY DEF Deliver, GenerationFails, TakeReceipt, Abandon, Send, durable, counters, history
<1>2. RowLeft(m)
  BY <1>1 DEF RowLeft
<1>3. owner = "open"
  <2>1. turn[m].pc # "idle" \/ owner = "open"
    BY DEF Deliver, GenerationFails, TakeReceipt, Abandon, Send, AtPc
  <2> QED BY <1>0, <2>1, SlotAlone
<1>4. \E t \in Turns : TurnLeft(m, t)
  <2>1. CASE Deliver(m)
    <3> DEFINE t == [NoTurn EXCEPT !.pc = "claim", !.epoch = epoch[Guild(m)]]
    <3>1. t \in Turns /\ t.pc = "claim" /\ turn' = [turn EXCEPT ![m] = t]
      BY <1>0, <2>1 DEF Deliver, Turns, Pcs, NoTurn
    <3> HIDE DEF t
    <3> QED BY <3>1 DEF TurnLeft, Written
  <2>2. CASE GenerationFails(m)
    <3> DEFINE t == [turn[m] EXCEPT !.pc = "failing"]
    <3>1. t \in Turns /\ t.pc = "failing" /\ turn' = [turn EXCEPT ![m] = t]
      BY <1>0, <2>2 DEF GenerationFails, Turns, Pcs
    <3> HIDE DEF t
    <3> QED BY <3>1 DEF TurnLeft, Written
  <2>3. CASE TakeReceipt(m)
    <3> DEFINE t == [turn[m] EXCEPT !.pc = "receipt", !.gen = ck.gen]
    <3>1. t \in Turns /\ t.pc = "receipt" /\ t.id = turn[m].id /\ t.epoch = turn[m].epoch
      BY <1>0 DEF Turns, Pcs
    <3>2. turn[m].pc = "committed" /\ (turn' = [turn EXCEPT ![m] = t] \/ End(m))
      BY <2>3 DEF TakeReceipt, AtPc, End
    <3> HIDE DEF t
    <3>3. turn' = [turn EXCEPT ![m] = t] => TurnLeft(m, t)
      BY <3>1, <3>2 DEF TurnLeft, Written
    <3> QED BY <1>0, <3>1, <3>2, <3>3, TurnLeaves
  <2>4. CASE Abandon(m)
    BY <1>0, <2>4, TurnLeaves DEF Abandon
  <2>5. ASSUME NEW seen \in BOOLEAN, NEW raised \in BOOLEAN, Send(m, seen, raised)
        PROVE  \E t \in Turns : TurnLeft(m, t)
    <3> DEFINE t == [turn[m] EXCEPT !.pc = IF raised THEN "unsure" ELSE "sent"]
    <3>1. t \in Turns /\ t.pc \in {"unsure", "sent"} /\ turn' = [turn EXCEPT ![m] = t]
      BY <1>0, <2>5 DEF Send, Turns, Pcs
    <3> HIDE DEF t
    <3> QED BY <3>1 DEF TurnLeft, Written
  <2> QED BY <2>1, <2>2, <2>3, <2>4, <2>5
<1> QED BY <1>1, <1>2, <1>3, <1>4, PlainMemory

\* A journal operation of a handler, up to the marker of its commit.
LEMMA MarkMemory ==
    ASSUME MInv, JInv', RowsMove, NEW m \in Msgs, NEW o \in Outcomes,
           \/ Claim(m, o) \/ BindReply(m, o) \/ GoInflight(m, o) \/ MarkAmbiguous(m, o)
           \/ ConfirmDelivery(m, o) \/ CommitMarker(m, o) \/ CompleteTurn(m, o)
    PROVE  Memory'
<1>0. /\ JInv /\ led[m] \in Rows /\ turn[m] \in Turns /\ NoTurn \in Turns
      /\ ids + 1 \in Nat /\ ck.gen + 1 \in Nat
  BY StepTypes, ConstantTypes DEF MInv, KInv
<1>1. UNCHANGED <<store, ck, epoch, fixing, revoked, owner, blocked, lossy>>
  BY DEF Claim, BindReply, GoInflight, MarkAmbiguous, ConfirmDelivery, CommitMarker,
     CompleteTurn, counters, history
<1>2. lock' = lock \/ lock'.by \in {"none", "commit"}
  BY DEF Claim, BindReply, GoInflight, MarkAmbiguous, ConfirmDelivery, CommitMarker,
     CompleteTurn, Free
<1>3. owner = "open"
  <2>1. turn[m].pc # "idle"
    BY DEF Claim, BindReply, GoInflight, MarkAmbiguous, ConfirmDelivery, CommitMarker,
       CompleteTurn, AtPc
  <2> QED BY <1>0, <2>1, SlotAlone
<1>4. CASE Claim(m, o)
  <2> DEFINE new == Admitted(m) /\ ~Unsettled(SessionOf[m]) /\ led[m] = NoRow
             q == [NoRow EXCEPT !.phase = "accepted", !.id = ids + 1]
             t == [turn[m] EXCEPT !.pc = "claimed", !.id = ids + 1]
  <2>1. Mark(m, new, q, o) /\ new \in BOOLEAN /\ (new => Admitted(m))
    BY <1>4 DEF Claim
  <2>2. q \in Rows /\ q.phase = "accepted"
    BY <1>0, ConstantTypes DEF Rows, Phases, NoRow
  <2>3. t \in Turns /\ t.pc = "claimed"
    BY <1>0 DEF Turns, Pcs
  <2>4. turn' = [turn EXCEPT ![m] = t] \/ End(m)
    BY <1>4 DEF Claim
  <2> HIDE DEF new, q, t
  <2>5. RowLeft(m)
    BY <1>0, <2>1, <2>2, MarkLeaves
  <2>6. turn' = [turn EXCEPT ![m] = t] => TurnLeft(m, t)
    BY <2>3 DEF TurnLeft, Written
  <2>7. \E u \in Turns : TurnLeft(m, u)
    BY <1>0, <2>3, <2>4, <2>6, TurnLeaves
  <2> QED BY <1>1, <1>2, <1>3, <2>5, <2>7, PlainMemory
<1>5. CASE BindReply(m, o)
  <2> DEFINE reply == IF AtPc(m, "running") THEN Answer ELSE Sorry
             allowed == Admitted(m) /\ led[m].phase = "accepted"
             q == [led[m] EXCEPT !.phase = "response_ready", !.reply = reply]
             t == [turn[m] EXCEPT !.pc = "bound", !.reply = reply]
  <2>1. Mark(m, allowed, q, o) /\ allowed \in BOOLEAN /\ (allowed => Admitted(m))
    BY <1>5 DEF BindReply
  <2>2. reply \in Replies
    BY DEF Replies
  <2>3. q \in Rows /\ q.phase = "response_ready" /\ t \in Turns /\ t.pc = "bound"
    <3> HIDE DEF reply
    <3> QED BY <1>0, <2>2 DEF Rows, Phases, Turns, Pcs
  <2>4. turn' = [turn EXCEPT ![m] = t] \/ End(m) \/ Then(m, "failing")
    BY <1>5 DEF BindReply, End
  <2> HIDE DEF allowed, q, t
  <2>5. RowLeft(m)
    BY <1>0, <2>1, <2>3, MarkLeaves
  <2>6. turn' = [turn EXCEPT ![m] = t] => TurnLeft(m, t)
    BY <2>3 DEF TurnLeft, Written
  <2>7. "failing" \in Pcs \ Written
    BY DEF Pcs, Written
  <2>8. \E u \in Turns : TurnLeft(m, u)
    BY <1>0, <2>3, <2>4, <2>6, <2>7, TurnLeaves
  <2> QED BY <1>1, <1>2, <1>3, <2>5, <2>8, PlainMemory
<1>6. CASE GoInflight(m, o) \/ MarkAmbiguous(m, o) \/ ConfirmDelivery(m, o)
  <2>1. ASSUME NEW phase \in {"delivery_inflight", "delivery_ambiguous", "delivery_succeeded"},
               NEW allowed \in BOOLEAN, allowed => Admitted(m),
               Mark(m, allowed, [led[m] EXCEPT !.phase = phase], o)
        PROVE  RowLeft(m)
    <3> DEFINE q == [led[m] EXCEPT !.phase = phase]
    <3>1. q \in Rows /\ q.phase = phase
      BY <1>0 DEF Rows, Phases
    <3>2. Mark(m, allowed, q, o)
      BY <2>1
    <3> HIDE DEF q
    <3> QED BY <1>0, <2>1, <3>1, <3>2, MarkLeaves
  <2>2. RowLeft(m)
    <3>1. CASE GoInflight(m, o)
      <4> DEFINE allowed == Admitted(m) /\ led[m].phase = "response_ready"
      <4>1. Mark(m, allowed, [led[m] EXCEPT !.phase = "delivery_inflight"], o)
            /\ allowed \in BOOLEAN /\ (allowed => Admitted(m))
        BY <3>1 DEF GoInflight
      <4> HIDE DEF allowed
      <4> QED BY <2>1, <4>1
    <3>2. CASE MarkAmbiguous(m, o)
      <4> DEFINE allowed == Admitted(m) /\ led[m].phase = "delivery_inflight"
      <4>1. Mark(m, allowed, [led[m] EXCEPT !.phase = "delivery_ambiguous"], o)
            /\ allowed \in BOOLEAN /\ (allowed => Admitted(m))
        BY <3>2 DEF MarkAmbiguous
      <4> HIDE DEF allowed
      <4> QED BY <2>1, <4>1
    <3>3. CASE ConfirmDelivery(m, o)
      <4> DEFINE allowed == Admitted(m) /\ led[m].phase = "delivery_inflight"
      <4>1. Mark(m, allowed, [led[m] EXCEPT !.phase = "delivery_succeeded"], o)
            /\ allowed \in BOOLEAN /\ (allowed => Admitted(m))
        BY <3>3 DEF ConfirmDelivery
      <4> HIDE DEF allowed
      <4> QED BY <2>1, <4>1
    <3> QED BY <1>6, <3>1, <3>2, <3>3
  <2>3. End(m) \/ \E pc \in {"inflight", "delivered", "unsure"} : Then(m, pc)
    BY <1>6 DEF GoInflight, MarkAmbiguous, ConfirmDelivery
  <2>4. {"inflight", "delivered", "unsure"} \subseteq Pcs \ Written
    BY DEF Pcs, Written
  <2>5. \E u \in Turns : TurnLeft(m, u)
    BY <1>0, <2>3, <2>4, TurnLeaves
  <2> QED BY <1>1, <1>2, <1>3, <2>2, <2>5, PlainMemory
<1>7. CASE CommitMarker(m, o)
  <2> DEFINE allowed == Admitted(m) /\ led[m].phase = "delivery_succeeded"
             q == [led[m] EXCEPT !.phase = "terminal_committing", !.gen = ck.gen + 1]
  <2>1. Mark(m, allowed, q, o) /\ allowed \in BOOLEAN /\ (allowed => Admitted(m))
    BY <1>7 DEF CommitMarker
  <2>2. q \in Rows /\ q.phase = "terminal_committing"
    BY <1>0 DEF Rows, Phases
  <2>3. turn' = turn \/ End(m)
    BY <1>7 DEF CommitMarker
  <2> HIDE DEF allowed, q
  <2>4. RowLeft(m)
    BY <1>0, <2>1, <2>2, MarkLeaves
  <2>5. \E u \in Turns : TurnLeft(m, u)
    BY <1>0, <2>3, TurnLeaves
  <2> QED BY <1>1, <1>2, <1>3, <2>4, <2>5, PlainMemory
<1>8. CASE CompleteTurn(m, o)
  <2> DEFINE allowed == /\ Admitted(m) /\ led[m].phase = "terminal_committing"
                        /\ led[m].gen = turn[m].gen
             q == [led[m] EXCEPT !.phase = "completed"]
  <2>1. /\ Mark(m, allowed, q, o) /\ allowed \in BOOLEAN /\ (allowed => Admitted(m))
        /\ turn[m].pc = "receipt" /\ End(m)
    BY <1>8 DEF CompleteTurn, AtPc
  <2>2. q \in Rows /\ q.phase = "completed" /\ q.id = led[m].id
    BY <1>0 DEF Rows, Phases
  <2> HIDE DEF allowed, q
  <2>3. RowLeft(m)
    BY <1>0, <2>1, <2>2, MarkLeaves
  <2>4. \E u \in Turns : TurnLeft(m, u)
    BY <1>0, <2>1, TurnLeaves
  <2> QED BY <1>1, <1>2, <1>3, <2>3, <2>4, PlainMemory
<1> QED BY <1>4, <1>5, <1>6, <1>7, <1>8

\* What a flush leaves.
LEMMA FlushFacts ==
    ASSUME NEW end \in FlushEnds, WriteCheckpoint(end, store), Up
    PROVE  /\ \A s \in Sessions :
                FlushLeaves(s) /\ ck'.sess[s] \in {ck.sess[s], store[s], NoSession}
           /\ lossy => lossy'
           /\ ~lossy' => ck'.sess = store \/ ck' = ck
           /\ ~Raised(end) => ck'.sess = store
<1>1. \A s \in Sessions : NoSessions[s] = NoSession
  BY DEF NoSessions
<1>2. lossy' = (lossy \/ end \in {"dropped", "left"})
  BY DEF WriteCheckpoint
<1>3. \/ end \in {"ok", "late", "spared"} /\ ck'.sess = store
      \/ end = "kept" /\ ck' = ck
      \/ end \in {"dropped", "left"} /\ ck'.sess = NoSessions
  BY DEF WriteCheckpoint, Emptied
<1> QED BY <1>1, <1>2, <1>3 DEF FlushLeaves, Raised

\* The flush of the commit: the turn that was appended is in the checkpoint.
LEMMA CommitFlushMemory ==
    ASSUME MInv, JInv', RowsMove, NEW m \in Msgs, NEW end \in FlushEnds, CommitFlush(m, end)
    PROVE  Memory'
<1> DEFINE t == [turn[m] EXCEPT !.pc = "committed"]
<1>0. /\ JInv /\ LiveHas /\ turn[m] \in Turns /\ NoTurn \in Turns /\ NoTurn.pc = "idle"
      /\ SessionOf[m] \in Sessions
  BY StepTypes, ConstantTypes, GuildType DEF MInv, KInv, Memory, NoTurn
<1>1. /\ Held(m) /\ lock' = Free
      /\ UNCHANGED <<led, store, epoch, fixing, revoked, owner, blocked>>
      /\ \/ ck' = ck /\ lossy' = lossy /\ End(m)
         \/ /\ WriteCheckpoint(end, store)
            /\ \/ End(m)
               \/ ~Raised(end) /\ turn' = [turn EXCEPT ![m] = t]
  BY DEF CommitFlush, Held, Flush
<1>2. Live(m) /\ turn[m].pc = "commit" /\ owner = "open" /\ lock'.by = "none" /\ Up
  BY <1>0, <1>1, SlotAlone DEF Held, JInv, LockOK, Free, Up
<1>3. t \in Turns /\ t.pc = "committed" /\ t.id = turn[m].id /\ t.epoch = turn[m].epoch
  BY <1>0 DEF Turns, Pcs
<1> HIDE DEF t
<1>4. /\ \A s \in Sessions : /\ FlushLeaves(s)
                             /\ ck'.sess[s] \in {ck.sess[s], store[s], NoSession}
      /\ lossy => lossy'
  BY <1>1, <1>2, FlushFacts DEF FlushLeaves
<1>5. CASE End(m)
  <2>1. turn' = [turn EXCEPT ![m] = NoTurn] /\ NoTurn.pc \notin Written
    BY <1>0, <1>5 DEF End, Written
  <2>2. NoTurn.pc \notin {"committed", "receipt"}
    BY <1>0
  <2>3. /\ \A n \in Msgs : n # m => led'[n] = led[n]
        /\ led'[m] = led[m]
        /\ \A s \in Sessions : store'[s] = store[s]
    BY <1>1
  <2> QED BY <1>0, <1>1, <1>2, <1>4, <2>1, <2>2, <2>3, HandlerMemory
<1>6. CASE WriteCheckpoint(end, store) /\ ~Raised(end) /\ turn' = [turn EXCEPT ![m] = t]
  <2>1. Has(store[SessionOf[m]], turn[m].id)
    BY <1>0, <1>2 DEF LiveHas, Written
  <2>2. ck'.sess = store
    BY <1>2, <1>6, FlushFacts
  <2>3. Has(store'[SessionOf[m]], t.id) /\ Has(ck'.sess[SessionOf[m]], t.id)
    BY <1>1, <1>3, <2>1, <2>2
  <2>4. /\ \A n \in Msgs : n # m => led'[n] = led[n]
        /\ led'[m] = led[m]
        /\ \A s \in Sessions : store'[s] = store[s]
    BY <1>1
  <2> QED BY <1>1, <1>2, <1>3, <1>4, <1>6, <2>3, <2>4, HandlerMemory
<1> QED BY <1>1, <1>5, <1>6

\* Activation leaves the history as it is.
LEMMA ActivateMemory ==
    ASSUME MInv, JInv', RowsMove, NEW m \in Msgs, Activate(m)
    PROVE  Memory'
<1> DEFINE s == SessionOf[m]
           t == [turn[m] EXCEPT !.pc = "running"]
           new == [store[s] EXCEPT !.turn = turn[m].id]
<1>0. /\ JInv /\ TextsOK /\ turn[m] \in Turns /\ s \in Sessions
      /\ store \in [Sessions -> SessionStates]
  BY StepTypes, GuildType DEF MInv, KInv, Memory
<1>1. /\ turn[m].pc = "claimed"
      /\ UNCHANGED <<led, ck, epoch, fixing, revoked, owner, blocked, lossy, lock>>
  BY DEF Activate, AtPc, durable, counters, history
<1>2. owner = "open"
  BY <1>0, <1>1, SlotAlone
<1>3. CASE ~Admitted(m)
  <2>1. End(m) /\ store' = store
    BY <1>3 DEF Activate
  <2>2. RowLeft(m)
    BY <1>1 DEF RowLeft
  <2> QED BY <1>0, <1>1, <1>2, <2>1, <2>2, TurnLeaves, PlainMemory
<1>4. CASE Admitted(m)
  <2>1. turn' = [turn EXCEPT ![m] = t] /\ store' = [store EXCEPT ![s] = new]
    BY <1>4 DEF Activate
  <2>2. t \in Turns /\ t.pc = "running"
    BY <1>0 DEF Turns, Pcs
  <2>3. new.hist = store[s].hist
    BY <1>0 DEF SessionStates
  <2>4. store'[s] = new /\ \A q \in Sessions : q # s => store'[q] = store[q]
    BY <1>0, <2>1
  <2> HIDE DEF t, new
  <2>5. Owned(led, s, store[s])
    BY <1>0 DEF TextsOK
  <2>6. Owned(led', s, new)
    BY <1>1, <2>3, <2>5 DEF Owned
  <2>7. Sub(store[s], new)
    BY <2>3 DEF Sub, Has
  <2>8. \A q \in Sessions : \/ store'[q] = store[q]
                            \/ Owned(led', q, store'[q]) /\ Sub(store[q], store'[q])
    BY <2>4, <2>6, <2>7
  <2>9. \A q \in Sessions : FlushLeaves(q) /\ ck'.sess[q] \in {ck.sess[q], store[q], NoSession}
    BY <1>1 DEF FlushLeaves
  <2>10. t.pc \notin Written /\ t.pc \notin {"committed", "receipt"}
    BY <2>2 DEF Written
  <2>11. (\A n \in Msgs : n # m => led'[n] = led[n]) /\ led'[m] = led[m]
    BY <1>1
  <2> QED BY <1>1, <1>2, <2>1, <2>2, <2>8, <2>9, <2>10, <2>11, HandlerMemory
<1> QED BY <1>3, <1>4

\* The handler appends its turn, which is now in memory.
LEMMA AppendTurnMemory ==
    ASSUME DistinctTexts, MInv, JInv', RowsMove, NEW m \in Msgs, AppendTurn(m)
    PROVE  Memory'
<1> DEFINE s == SessionOf[m]
           t == [turn[m] EXCEPT !.pc = "commit"]
           new == [store[s] EXCEPT !.hist = Append(@, Pair(m, turn[m].id, turn[m].reply))]
<1>0. /\ JInv /\ TextsOK /\ turn[m] \in Turns /\ led[m] \in Rows /\ s \in Sessions
      /\ store \in [Sessions -> SessionStates] /\ store[s] \in SessionStates
  BY StepTypes, GuildType DEF MInv, KInv, Memory
<1>1. /\ turn[m].pc = "delivered" /\ ~turn[m].cancelled
      /\ turn' = [turn EXCEPT ![m] = t] /\ store' = [store EXCEPT ![s] = new]
      /\ UNCHANGED <<led, ck, epoch, fixing, revoked, owner, blocked, lossy, lock>>
  BY DEF AppendTurn, AtPc, durable, counters, history
<1>2. /\ t \in Turns /\ t.id = turn[m].id /\ t.pc = "commit"
      /\ turn[m].id \in Nat /\ turn[m].reply \in Replies
  BY <1>0 DEF Turns, Pcs
<1>3. /\ turn[m].id = led[m].id /\ turn[m].reply = led[m].reply /\ led[m].phase # "none"
      /\ owner = "open"
  BY <1>0, <1>1, RunningLive, SlotAlone DEF PhaseAt
<1>4. new.hist = Append(store[s].hist, Pair(m, led[m].id, turn[m].reply))
  BY <1>0, <1>3 DEF SessionStates
<1>5. store'[s] = new /\ \A q \in Sessions : q # s => store'[q] = store[q]
  BY <1>0, <1>1
<1> HIDE DEF new, t
<1>6. Owned(led, s, store[s]) /\ led[m].id \in Nat
  BY <1>0 DEF TextsOK, Rows
<1>7. Owned(led, s, new) /\ Sub(store[s], new) /\ Has(new, led[m].id)
  BY <1>0, <1>2, <1>3, <1>4, <1>6, OwnedAppend
<1>8. \A q \in Sessions : \/ store'[q] = store[q]
                          \/ Owned(led', q, store'[q]) /\ Sub(store[q], store'[q])
  BY <1>1, <1>5, <1>7
<1>9. \A q \in Sessions : FlushLeaves(q) /\ ck'.sess[q] \in {ck.sess[q], store[q], NoSession}
  BY <1>1 DEF FlushLeaves
<1>10. Has(store'[s], t.id) /\ t.pc \notin {"committed", "receipt"}
  BY <1>2, <1>3, <1>5, <1>7
<1>11. (\A n \in Msgs : n # m => led'[n] = led[n]) /\ led'[m] = led[m]
  BY <1>1
<1> QED BY <1>1, <1>2, <1>3, <1>8, <1>9, <1>10, <1>11, HandlerMemory

-----------------------------------------------------------------------------
(* Flushes, resets and the end of the process *)

\* Steps that leave rows, handlers, memory and rollback alone.
LEMMA QuietMemory ==
    ASSUME MInv, RowsMove, UNCHANGED <<led, turn, epoch, store, fixing>>, Up, lossy => lossy',
           \A s \in Sessions : FlushLeaves(s),
           \A m \in Msgs : led[m].phase = "completed" /\ Guild(m) \notin revoked' =>
              Guild(m) \notin revoked,
           \A s \in Sessions :
              \/ ck'.sess[s] = ck.sess[s]
                 /\ (GuildOf[s] \in revoked => GuildOf[s] \in revoked' \/ (lock.by = "flushed" /\ GuildOf[s] = lock.guild))
                 /\ (lock'.by = "flushed" /\ GuildOf[s] = lock'.guild => lock.by = "flushed" /\ GuildOf[s] = lock.guild)
              \/ ck'.sess[s] \in {store[s], NoSession}
    PROVE  TextsOK' /\ LiveHas' /\ CompletedHas'
<1>1. \A s \in Sessions : RowsStay(s) /\ Sub(store[s], store[s])
  BY SubHas DEF RowsStay
<1>2. \A s \in Sessions : Owned(led', s, store[s]) /\ Owned(led', s, NoSession)
  BY EmptyOwned DEF MInv, Memory, TextsOK
<1>3. TextsOK'
  <2>1. \/ fixing'.msg = NoMsg
        \/ fixing' = fixing /\ RowsStay(SessionOf[fixing.msg])
    BY DEF RowsStay
  <2>2. ASSUME NEW s \in Sessions
        PROVE  \/ ck'.sess[s] = ck.sess[s] /\ RowsStay(s)
                  /\ (GuildOf[s] \in revoked => GuildOf[s] \in revoked' \/ (lock.by = "flushed" /\ GuildOf[s] = lock.guild))
                  /\ (lock'.by = "flushed" /\ GuildOf[s] = lock'.guild => lock.by = "flushed" /\ GuildOf[s] = lock.guild)
               \/ Owned(led', s, ck'.sess[s])
    BY <1>1, <1>2
  <2>3. \A s \in Sessions : store'[s] = store[s] /\ RowsStay(s)
    BY <1>1
  <2> QED BY <2>1, <2>2, <2>3, TextsKept
<1>4. LiveHas'
  <2>1. ASSUME NEW m \in Msgs, Live(m)', turn'[m].pc \in Written
        PROVE  /\ Live(m) /\ turn'[m] = turn[m] /\ turn[m].pc \in Written
               /\ turn'[m].pc # "commit" => turn[m].pc \in {"committed", "receipt"}
               /\ Sub(store[SessionOf[m]], store'[SessionOf[m]]) /\ FlushLeaves(SessionOf[m])
    BY <1>1, <2>1, GuildType DEF Live, Guild, Written
  <2> QED BY <2>1, LiveHasKept
<1>5. CompletedHas'
  BY <1>1, CompletedHasKept
<1> QED BY <1>3, <1>4, <1>5

\* The periodic flush.
LEMMA PeriodicFlushMemory ==
    ASSUME MInv, JInv', RowsMove, NEW end \in FlushEnds, PeriodicFlush(end)
    PROVE  Memory'
<1>1. /\ owner \in {"shut", "open"} /\ lock = Free /\ WriteCheckpoint(end, store) /\ Up
      /\ UNCHANGED <<led, turn, epoch, store, fixing, revoked, owner, lock, blocked>>
  BY DEF PeriodicFlush, Flush, Up
<1>2. /\ \A s \in Sessions : FlushLeaves(s) /\ ck'.sess[s] \in {ck.sess[s], store[s], NoSession}
      /\ lossy => lossy'
  BY <1>1, FlushFacts
<1>3. TextsOK' /\ LiveHas' /\ CompletedHas'
  BY <1>1, <1>2, QuietMemory
<1>4. PurgeOK'
  BY <1>1, PurgeKept
<1>5. RestartHas'
  BY <1>1, OpenRestart
<1> QED BY <1>3, <1>4, <1>5 DEF Memory

\* A reset takes the lock and revokes the guild.
LEMMA StartResetMemory ==
    ASSUME MInv, JInv', RowsMove, NEW g \in Guilds, NEW o \in Outcomes, StartReset(g, o)
    PROVE  Memory'
<1>1. /\ owner \in {"shut", "open"} /\ Up /\ revoked \subseteq revoked'
      /\ lock' = [Free EXCEPT !.by = "reset", !.guild = g] \/ lock' = Free
      /\ UNCHANGED <<led, turn, epoch, store, fixing, owner, blocked, ck, lossy>>
  BY DEF StartReset, history, Up
<1>2. lock'.by \in {"none", "reset"}
  <2>1. CASE lock' = [Free EXCEPT !.by = "reset", !.guild = g]
    <3>1. lock' = [by |-> "reset", msg |-> NoMsg, guild |-> g]
      BY <2>1 DEF Free
    <3> QED BY <3>1
  <2>2. CASE lock' = Free
    BY <2>2 DEF Free
  <2> QED BY <1>1, <2>1, <2>2
<1>3. \A s \in Sessions : FlushLeaves(s)
  BY <1>1 DEF FlushLeaves
<1>4. TextsOK' /\ LiveHas' /\ CompletedHas'
  BY <1>1, <1>2, <1>3, QuietMemory
<1>5. PurgeOK'
  BY <1>1, <1>2, PurgeKept
<1>6. RestartHas'
  BY <1>1, OpenRestart
<1> QED BY <1>4, <1>5, <1>6 DEF Memory

\* The process ends, with or without having written the checkpoint.
LEMMA DeathMemory ==
    ASSUME MInv, JInv', RowsMove, ProcessDies, led' = led, lossy => lossy',
           \A s \in Sessions : FlushLeaves(s),
           \A m \in Msgs : led[m].phase = "completed" /\ Guild(m) \notin revoked' =>
              Guild(m) \notin revoked,
           \A s \in Sessions :
              \/ ck'.sess[s] = ck.sess[s]
                 /\ (GuildOf[s] \in revoked => GuildOf[s] \in revoked' \/ (lock.by = "flushed" /\ GuildOf[s] = lock.guild))
              \/ ck'.sess[s] \in {store[s], NoSession}
    PROVE  Memory'
<1>1. /\ \A s \in Sessions : store'[s] = NoSession
      /\ \A m \in Msgs : ~Live(m)'
      /\ fixing'.msg = NoMsg /\ lock'.by = "none" /\ owner' = "down"
  BY DEF ProcessDies, NoSessions, NoTurn, Live, NoFix, Free
<1>2. \A s \in Sessions : /\ RowsStay(s) /\ Owned(led', s, store[s])
                          /\ Owned(led', s, NoSession)
  BY EmptyOwned DEF MInv, Memory, TextsOK, RowsStay
<1>3. TextsOK'
  <2>1. \A s \in Sessions : \/ store'[s] = store[s] /\ RowsStay(s)
                            \/ Owned(led', s, store'[s])
    BY <1>1, <1>2
  <2>2. ASSUME NEW s \in Sessions
        PROVE  \/ ck'.sess[s] = ck.sess[s] /\ RowsStay(s)
                  /\ (GuildOf[s] \in revoked => GuildOf[s] \in revoked' \/ (lock.by = "flushed" /\ GuildOf[s] = lock.guild))
                  /\ (lock'.by = "flushed" /\ GuildOf[s] = lock'.guild => lock.by = "flushed" /\ GuildOf[s] = lock.guild)
               \/ Owned(led', s, ck'.sess[s])
    BY <1>1, <1>2
  <2> QED BY <1>1, <2>1, <2>2, TextsKept
<1>4. LiveHas'
  BY <1>1 DEF LiveHas
<1>5. CompletedHas'
  BY <1>1, CompletedHasKept
<1>6. PurgeOK' /\ RestartHas'
  BY <1>1 DEF PurgeOK, RestartHas
<1> QED BY <1>3, <1>4, <1>5, <1>6 DEF Memory

\* A crash.
LEMMA CrashMemory ==
    ASSUME MInv, JInv', RowsMove, Crash
    PROVE  Memory'
<1>1. ProcessDies /\ UNCHANGED <<led, revoked, ck, lossy>>
  BY DEF Crash, durable, history
<1>2. \A s \in Sessions : FlushLeaves(s)
  BY <1>1 DEF FlushLeaves
<1> QED BY <1>1, <1>2, DeathMemory

\* The flush of a reset.
LEMMA ResetFlushMemory ==
    ASSUME MInv, JInv', RowsMove, NEW end \in FlushEnds, ResetFlush(end)
    PROVE  Memory'
<1>0. JInv /\ PurgeOK /\ TextsOK /\ RestartHas
  BY DEF MInv, KInv, Memory
<1>1. lock.by = "purged" /\ Up /\ UNCHANGED <<revoked, led, ids>>
  BY <1>0 DEF ResetFlush, PurgeOK, Up
<1>2. CASE ~Raised(end) \/ owner = "open"
  <2>1. /\ WriteCheckpoint(end, store) /\ UNCHANGED <<turn, epoch, store, fixing, owner, blocked>>
        /\ lock' = IF Raised(end) THEN Free ELSE [lock EXCEPT !.by = "flushed"]
    BY <1>2 DEF ResetFlush, Flush
  <2>2. /\ \A s \in Sessions : FlushLeaves(s) /\ ck'.sess[s] \in {ck.sess[s], store[s], NoSession}
        /\ lossy => lossy'
        /\ ~Raised(end) => ck'.sess = store
    BY <1>1, <2>1, FlushFacts
  <2>3. TextsOK' /\ LiveHas' /\ CompletedHas'
    <3>1. Raised(end) => lock'.by = "none"
      BY <2>1 DEF Free
    <3>2. ASSUME NEW s \in Sessions
          PROVE  \/ ck'.sess[s] = ck.sess[s]
                    /\ (lock'.by = "flushed" /\ GuildOf[s] = lock'.guild =>
                           lock.by = "flushed" /\ GuildOf[s] = lock.guild)
                 \/ ck'.sess[s] \in {store[s], NoSession}
      BY <2>2, <3>1
    <3> QED BY <1>1, <2>1, <2>2, <3>2, QuietMemory
  <2>4. lock'.by = "none" \/ (lock'.by = "flushed" /\ lock'.guild = lock.guild)
    <3>1. lock \in [by : Locks, msg : Msgs \cup {NoMsg}, guild : Guilds \cup {NoGuild}]
      BY <1>0 DEF JInv, MoreTypes
    <3>2. CASE ~Raised(end)
      BY <2>1, <3>1, <3>2
    <3>3. CASE Raised(end)
      BY <2>1, <3>3 DEF Free
    <3> QED BY <3>2, <3>3
  <2>5. PurgeOK'
    BY <1>1, <2>1, <2>4, PurgeKept
  <2>6. RestartHas'
    <3>1. CASE ~Raised(end)
      <4>1. \A s \in Sessions : Sub(store'[s], ck'.sess[s])
        BY <2>1, <2>2, <3>1, SubHas
      <4>2. fixing.msg = NoMsg
        BY <1>0, <1>1 DEF JInv, FixOK, PurgeOK
      <4> QED BY <2>1, <4>1, <4>2 DEF RestartHas
    <3>2. CASE owner = "open"
      BY <2>1, <3>2, OpenRestart
    <3> QED BY <1>2, <3>1, <3>2
  <2> QED BY <2>3, <2>5, <2>6 DEF Memory
<1>3. CASE ~(~Raised(end) \/ owner = "open")
  <2>1. ProcessDies /\ WriteCheckpoint(end, store)
    BY <1>3 DEF ResetFlush
  <2>2. /\ \A s \in Sessions :
              FlushLeaves(s) /\ ck'.sess[s] \in {ck.sess[s], store[s], NoSession}
        /\ lossy => lossy'
    BY <1>1, <2>1, FlushFacts
  <2> QED BY <1>1, <2>1, <2>2, DeathMemory
<1> QED BY <1>2, <1>3

\* The guild that leaves the revocations has no rows.
LEMMA FinishResetMemory ==
    ASSUME MInv, JInv', RowsMove, NEW o \in Outcomes, FinishReset(o)
    PROVE  Memory'
<1>0. JInv /\ PurgeOK /\ TextsOK /\ RestartHas
  BY DEF MInv, KInv, Memory
<1>1. /\ lock.by = "flushed" /\ Up
      /\ revoked' = revoked \/ revoked' = revoked \ {lock.guild}
      /\ UNCHANGED <<led, ck, lossy>>
      /\ \/ lock' = Free /\ UNCHANGED <<store, owner, epoch, turn, fixing>>
         \/ ProcessDies
  BY <1>0 DEF FinishReset, history, PurgeOK, Up
<1>2. \A s \in Sessions : FlushLeaves(s)
  BY <1>1 DEF FlushLeaves
<1>3. \A m \in Msgs : led[m].phase = "completed" /\ Guild(m) \notin revoked' => Guild(m) \notin revoked
  BY <1>0, <1>1 DEF PurgeOK
<1>4. CASE lock' = Free /\ UNCHANGED <<store, owner, epoch, turn, fixing>>
  <2>1. lock'.by = "none"
    BY <1>4 DEF Free
  <2>2. TextsOK' /\ LiveHas' /\ CompletedHas'
    BY <1>1, <1>2, <1>3, <1>4, <2>1, QuietMemory
  <2>3. PurgeOK'
    BY <2>1 DEF PurgeOK
  <2>4. RestartHas'
    BY <1>0, <1>1, <1>4 DEF RestartHas
  <2> QED BY <2>2, <2>3, <2>4 DEF Memory
<1>5. CASE ProcessDies
  BY <1>1, <1>2, <1>3, <1>5, DeathMemory
<1> QED BY <1>1, <1>4, <1>5

\* A guild is purged: no row, no live handler and nothing in memory is left of it.
LEMMA PurgeMemory ==
    ASSUME MInv, JInv', RowsMove, NEW g \in revoked, PurgeGuild(g), ids' = ids,
           \A s \in Sessions : store'[s] = IF GuildOf[s] = g THEN NoSession ELSE store[s],
           UNCHANGED <<ck, revoked, owner, fixing, lossy>>, fixing.msg = NoMsg, Up,
           lock'.by = "purged", lock'.guild = g,
           \A m \in Msgs : Live(m)' => Live(m) /\ Guild(m) # g /\ turn'[m] = turn[m],
           owner \in {"open", "restored"}, owner = "open" => g \in blocked'
    PROVE  Memory'
<1>0. JInv /\ TextsOK /\ RestartHas /\ g \in Guilds
  BY DEF MInv, KInv, Memory, JInv, TypeOK
<1>1. /\ \A m \in Msgs : Guild(m) = g => led'[m].phase = "none"
      /\ \A m \in Msgs : Guild(m) # g => led'[m] = led[m]
  BY <1>0, PurgeRows DEF NoRow
<1>2. \A s \in Sessions : GuildOf[s] # g => RowsStay(s)
  BY <1>1 DEF RowsStay, Guild
<1>3. TextsOK'
  <2>1. \A s \in Sessions : \/ store'[s] = store[s] /\ RowsStay(s)
                            \/ Owned(led', s, store'[s])
    BY <1>2, EmptyOwned
  <2>2. ASSUME NEW s \in Sessions
        PROVE  \/ ck'.sess[s] = ck.sess[s] /\ RowsStay(s)
                  /\ (GuildOf[s] \in revoked => GuildOf[s] \in revoked' \/ (lock.by = "flushed" /\ GuildOf[s] = lock.guild))
                  /\ (lock'.by = "flushed" /\ GuildOf[s] = lock'.guild => lock.by = "flushed" /\ GuildOf[s] = lock.guild)
               \/ GuildOf[s] \in revoked' /\ ~(lock'.by = "flushed" /\ GuildOf[s] = lock'.guild)
    BY <1>2
  <2> QED BY <2>1, <2>2, TextsKept
<1>4. \A s \in Sessions : FlushLeaves(s)
  BY DEF FlushLeaves
<1>5. LiveHas'
  <2>1. ASSUME NEW m \in Msgs, Live(m)', turn'[m].pc \in Written
        PROVE  /\ Live(m) /\ turn'[m] = turn[m] /\ turn[m].pc \in Written
               /\ turn'[m].pc # "commit" => turn[m].pc \in {"committed", "receipt"}
               /\ Sub(store[SessionOf[m]], store'[SessionOf[m]]) /\ FlushLeaves(SessionOf[m])
    BY <1>4, <2>1, GuildType, SubHas DEF Guild, Written
  <2> QED BY <2>1, LiveHasKept
<1>6. CompletedHas'
  <2>1. \A m \in Msgs : led'[m].phase = "completed" => led'[m] = led[m]
    BY <1>1
  <2>2. \A s \in Sessions : GuildOf[s] \in revoked' \/ (Up /\ Sub(store[s], store'[s]))
    BY SubHas
  <2> QED BY <1>4, <2>1, <2>2, CompletedHasKept
<1>7. PurgeOK'
  BY <1>1 DEF PurgeOK, Guild
<1>8. RestartHas'
  <2>1. \A s \in Sessions : Sub(store[s], ck.sess[s]) => Sub(store'[s], ck'.sess[s])
    BY SubHas
  <2> QED BY <1>0, <2>1 DEF RestartHas
<1> QED BY <1>3, <1>5, <1>6, <1>7, <1>8 DEF Memory

\* The reset of a guild's runtime.
LEMMA ResetRuntimeMemory ==
    ASSUME MInv, JInv', RowsMove, ResetRuntime
    PROVE  Memory'
<1> DEFINE g == lock.guild
<1>0. JInv /\ PurgeOK /\ TextsOK /\ RestartHas
  BY DEF MInv, KInv, Memory
<1>1. /\ lock.by = "reset" /\ g \in Guilds /\ g \in revoked /\ Up
      /\ owner \notin {"restored", "reconciling"}
      /\ lock \in [by : Locks, msg : Msgs \cup {NoMsg}, guild : Guilds \cup {NoGuild}]
      /\ UNCHANGED <<ck, revoked, owner, fixing, ids, lossy>> /\ blocked' = blocked \cup {g}
  BY <1>0 DEF ResetRuntime, MInv, KInv, JInv, MoreTypes, CutOK, PurgeOK, Up, counters
<1>2. CASE owner # "open"
  <2>1. lock' = Free /\ UNCHANGED <<led, store, turn, epoch>>
    BY <1>2 DEF ResetRuntime
  <2>2. lock'.by = "none"
    BY <2>1 DEF Free
  <2>3. \A s \in Sessions : FlushLeaves(s)
    BY <1>1 DEF FlushLeaves
  <2>4. TextsOK' /\ LiveHas' /\ CompletedHas'
    BY <1>1, <2>1, <2>2, <2>3, QuietMemory
  <2>5. PurgeOK' /\ RestartHas'
    BY <1>1, <2>2, OpenRestart DEF PurgeOK
  <2> QED BY <2>4, <2>5 DEF Memory
<1>3. CASE owner = "open"
  <2>1. /\ store' = [s \in Sessions |-> IF GuildOf[s] = g THEN NoSession ELSE store[s]]
        /\ turn' = [m \in Msgs |->
                    IF m \in Of(g) /\ turn[m].pc \notin {"idle", "claim", "claimed"}
                    THEN [turn[m] EXCEPT !.cancelled = TRUE] ELSE turn[m]]
        /\ PurgeGuild(g) /\ lock' = [lock EXCEPT !.by = "purged"]
    BY <1>3 DEF ResetRuntime
  <2>2. lock'.by = "purged" /\ lock'.guild = g /\ fixing.msg = NoMsg
    BY <1>0, <1>1, <1>3, <2>1 DEF JInv, FixOK
  <2>3. /\ epoch'[g] = epoch[g] + 1 /\ (\A h \in Guilds : h # g => epoch'[h] = epoch[h])
        /\ turn \in [Msgs -> Turns] /\ epoch \in [Guilds -> Nat]
    BY <1>0, <1>1, <2>1, PurgeRows, StepTypes
  <2>4. ASSUME NEW m \in Msgs, Live(m)'
        PROVE  Live(m) /\ Guild(m) # g /\ turn'[m] = turn[m]
    <3>1. turn[m] \in Turns /\ turn[m].epoch <= epoch[Guild(m)] /\ Guild(m) \in Guilds
          /\ turn[m].epoch \in Nat /\ epoch[Guild(m)] \in Nat
      BY <1>0, <2>3, GuildType DEF JInv, HandlersOK, Turns
    <3>2. turn'[m].epoch = turn[m].epoch
      <4>1. turn'[m] \in {turn[m], [turn[m] EXCEPT !.cancelled = TRUE]}
        BY <2>1
      <4> QED BY <3>1, <4>1 DEF Turns
    <3>3. turn'[m].epoch = epoch'[Guild(m)]
      BY <2>4 DEF Live, Guild
    <3>4. Guild(m) # g
      BY <2>3, <3>1, <3>2, <3>3
    <3>5. turn'[m] = turn[m] /\ epoch'[Guild(m)] = epoch[Guild(m)]
      BY <2>1, <2>3, <3>1, <3>4 DEF Of
    <3> QED BY <2>4, <3>4, <3>5 DEF Live, Guild
  <2>5. \A s \in Sessions : store'[s] = IF GuildOf[s] = g THEN NoSession ELSE store[s]
    BY <2>1
  <2> HIDE DEF g
  <2> QED BY <1>1, <1>3, <2>1, <2>2, <2>4, <2>5, PurgeMemory
<1> QED BY <1>2, <1>3

-----------------------------------------------------------------------------
(* Restart *)

\* The purge at startup.
LEMMA RecoverResetMemory ==
    ASSUME MInv, JInv', RowsMove, NEW g \in Guilds, NEW o \in Outcomes, RecoverReset(g, o)
    PROVE  Memory'
<1>0. KInv /\ JInv
  BY DEF MInv, KInv
<1>1. /\ owner = "restored" /\ g \in revoked /\ Up
      /\ UNCHANGED <<ck, revoked, ids, lossy>>
  BY DEF RecoverReset, Up
<1>2. CASE o = "ok"
  <2>1. /\ PurgeGuild(g) /\ lock' = [Free EXCEPT !.by = "purged", !.guild = g]
        /\ UNCHANGED <<store, owner, turn, fixing>>
    BY <1>2 DEF RecoverReset
  <2>2. lock'.by = "purged" /\ lock'.guild = g /\ fixing.msg = NoMsg
    BY <1>0, <1>1, <2>1 DEF Free, JInv, FixOK
  <2>3. \A s \in Sessions : store'[s] = IF GuildOf[s] = g THEN NoSession ELSE store[s]
    BY <1>0, <1>1, <2>1 DEF KInv, CutOK
  <2>4. \A m \in Msgs : ~Live(m)'
    BY <1>0, <1>1, <2>1, ShutLive
  <2> QED BY <1>1, <2>1, <2>2, <2>3, <2>4, PurgeMemory
<1>3. CASE o # "ok"
  <2>1. ProcessDies /\ led' = led
    BY <1>3 DEF RecoverReset
  <2>2. \A s \in Sessions : FlushLeaves(s)
    BY <1>1 DEF FlushLeaves
  <2> QED BY <1>1, <2>1, <2>2, DeathMemory
<1> QED BY <1>2, <1>3

\* The start restores what the checkpoint has, but for revoked guilds, or it
\* revokes the checkpoint.
LEMMA StartMemory ==
    ASSUME MInv, JInv', RowsMove, NEW end \in {"ok", "dropped", "left"}, Start(end)
    PROVE  Memory'
<1>0. KInv /\ JInv /\ TextsOK /\ PurgeOK
  BY DEF MInv, KInv, Memory
<1>1. /\ owner = "down" /\ owner' = "restored"
      /\ UNCHANGED <<revoked, turn, lock, fixing>>
      /\ \/ store' = [s \in Sessions |-> Restored(s)] /\ UNCHANGED <<ck, lossy>>
         \/ store' = NoSessions /\ ck'.sess = NoSessions /\ lossy'
  <2>1. CASE end = "ok"
    BY <2>1 DEF Start
  <2>2. CASE end # "ok"
    <3>1. store' = NoSessions /\ WriteCheckpoint(end, NoSessions)
      BY <2>2 DEF Start
    <3>2. ck'.sess = NoSessions
      BY <2>2, <3>1 DEF WriteCheckpoint, Emptied
    <3>3. lossy'
      BY <2>2, <3>1 DEF WriteCheckpoint
    <3> QED BY <3>1, <3>2, <3>3 DEF Start
  <2> QED BY <2>1, <2>2
<1>2. \/ /\ \A s \in Sessions : GuildOf[s] \in revoked => store'[s] = NoSession
         /\ \A s \in Sessions : GuildOf[s] \notin revoked => store'[s] = ck.sess[s]
         /\ UNCHANGED <<ck, lossy>>
      \/ (\A s \in Sessions : store'[s] = NoSession /\ ck'.sess[s] = NoSession) /\ lossy'
  BY <1>1 DEF Restored, NoSessions
<1>3. fixing.msg = NoMsg /\ lock.by = "none"
  BY <1>0, <1>1 DEF JInv, FixOK, PurgeOK
<1>4. ASSUME NEW m \in Msgs
      PROVE  /\ led'[m].phase = "none" => led[m].phase = "none"
             /\ led'[m].phase = "completed" => led'[m] = led[m]
  <2>1. led[m] \in Rows
    BY <1>0, StepTypes
  <2>2. CASE led[m].phase = "delivery_inflight"
    <3>1. led'[m] = [led[m] EXCEPT !.phase = "delivery_ambiguous"]
      BY <2>2 DEF Start
    <3>2. led'[m].phase = "delivery_ambiguous"
      BY <2>1, <3>1 DEF Rows
    <3> QED BY <3>2
  <2>3. CASE led[m].phase # "delivery_inflight"
    <3>1. led'[m] = led[m]
      BY <2>3 DEF Start
    <3> QED BY <3>1
  <2> QED BY <2>2, <2>3
<1>5. \A s \in Sessions : RowsStay(s)
  BY <1>4 DEF RowsStay
<1>6. TextsOK'
  <2>1. \A s \in Sessions : GuildOf[s] \notin revoked => Owned(led', s, ck.sess[s])
    BY <1>0, <1>5, OwnedStable DEF TextsOK
  <2>2. \A s \in Sessions : Owned(led', s, store'[s])
    BY <1>2, <2>1, EmptyOwned
  <2>3. ASSUME NEW s \in Sessions
        PROVE  ck'.sess[s] = ck.sess[s] \/ Owned(led', s, ck'.sess[s])
    BY <1>2, EmptyOwned
  <2> QED BY <1>1, <1>3, <1>5, <2>2, <2>3, TextsKept
<1>7. \A m \in Msgs : ~Live(m)'
  BY <1>0, <1>1, ShutLive
<1>8. LiveHas'
  BY <1>7 DEF LiveHas
<1>9. CompletedHas'
  <2>1. CASE lossy'
    BY <2>1 DEF CompletedHas
  <2>2. CASE ~lossy'
    <3>1. \A s \in Sessions : FlushLeaves(s)
      BY <1>2, <2>2 DEF FlushLeaves
    <3>2. \A s \in Sessions : GuildOf[s] \in revoked' \/ store'[s] = ck.sess[s]
      BY <1>1, <1>2, <2>2
    <3> QED BY <1>1, <1>2, <1>3, <1>4, <2>2, <3>1, <3>2, CompletedHasKept
  <2> QED BY <2>1, <2>2
<1>10. PurgeOK'
  BY <1>1, <1>3 DEF PurgeOK
<1>11. RestartHas'
  <2>1. \A s \in Sessions : Sub(store'[s], ck'.sess[s])
    BY <1>2, SubHas
  <2> QED BY <1>1, <1>3, <2>1 DEF RestartHas
<1> QED BY <1>6, <1>8, <1>9, <1>10, <1>11 DEF Memory

\* Steps of the reconciliation that change no row: it begins, gives a row up, ends.
LEMMA PlainRestartMemory ==
    ASSUME MInv, JInv', RowsMove,
           StartReconciling \/ Open \/ \E m \in Msgs : ReconcileUnresolved(m)
    PROVE  Memory'
<1>0. JInv /\ PurgeOK /\ RestartHas
  BY DEF MInv, KInv, Memory
<1>1. /\ owner \in {"restored", "reconciling"} /\ owner' \in {"reconciling", "shut", "open"}
      /\ UNCHANGED <<led, store, revoked, turn, lock, epoch, fixing, lossy>> /\ Up
      /\ ck' = ck \/ ((owner' \in {"shut", "open"}) /\ ck' = [ck EXCEPT !.gen = 1])
  BY DEF StartReconciling, Open, ReconcileUnresolved, Reconciling, durable, counters, history, Up
<1>2. ck'.sess = ck.sess
  <2>1. ck \in Checkpoints
    BY <1>0, StepTypes
  <2> QED BY <1>1, <2>1 DEF Checkpoints
<1>3. lock.by = "none"
  BY <1>0 DEF StartReconciling, Open, ReconcileUnresolved, Reconciling, PurgeOK, Free
<1>4. \A s \in Sessions : FlushLeaves(s)
  BY <1>1, <1>2 DEF FlushLeaves
<1>5. TextsOK' /\ LiveHas' /\ CompletedHas'
  BY <1>1, <1>2, <1>4, QuietMemory
<1>6. PurgeOK'
  BY <1>1, <1>3 DEF PurgeOK
<1>7. RestartHas'
  <2>1. CASE owner' = "reconciling"
    BY <1>0, <1>1, <2>1 DEF RestartHas
  <2>2. CASE owner' # "reconciling"
    BY <1>1, <2>2, OpenRestart
  <2> QED BY <2>1, <2>2
<1> QED BY <1>5, <1>6, <1>7 DEF Memory

\* A step of the reconciliation: what it says of the one session s that it may
\* change, of the row m and of the session kept for a rollback is enough.
LEMMA ReconcileMemory ==
    ASSUME MInv, JInv', RowsMove, owner = "reconciling",
           UNCHANGED <<revoked, owner, turn, lock, epoch>>,
           \A n \in Msgs : led'[n].phase = "none" => led[n].phase = "none",
           \A s \in Sessions : store'[s] = store[s] \/ Owned(led', s, store'[s]),
           \A s \in Sessions : ck'.sess[s] \in {ck.sess[s], store[s], NoSession},
           \/ fixing'.msg = NoMsg
           \/ fixing' = fixing
           \/ fixing'.msg \in Msgs /\ fixing'.was = store[SessionOf[fixing'.msg]]
    PROVE  TextsOK' /\ LiveHas' /\ PurgeOK'
<1>0. /\ KInv /\ JInv /\ TextsOK /\ lock.by = "none"
  BY DEF MInv, KInv, Memory, PurgeOK
<1>1. \A s \in Sessions : RowsStay(s)
  BY DEF RowsStay
<1>2. \A s \in Sessions : Owned(led', s, store[s]) /\ Owned(led', s, NoSession)
  BY <1>0, <1>1, OwnedStable, EmptyOwned DEF TextsOK
<1>3. fixing'.msg \in Msgs => SessionOf[fixing'.msg] \in Sessions
  BY GuildType
<1>4. \/ fixing'.msg = NoMsg
      \/ fixing' = fixing /\ RowsStay(SessionOf[fixing.msg])
      \/ Owned(led', SessionOf[fixing'.msg], fixing'.was)
  <2>1. fixing.msg # NoMsg => SessionOf[fixing.msg] \in Sessions
    BY <1>0, GuildType DEF JInv, MoreTypes
  <2> QED BY <1>1, <1>2, <1>3, <2>1
<1>5. TextsOK'
  <2>1. \A s \in Sessions : \/ store'[s] = store[s] /\ RowsStay(s)
                            \/ Owned(led', s, store'[s])
    BY <1>1
  <2>2. \A s \in Sessions :
              \/ ck'.sess[s] = ck.sess[s] /\ RowsStay(s)
                 /\ (GuildOf[s] \in revoked => GuildOf[s] \in revoked' \/ (lock.by = "flushed" /\ GuildOf[s] = lock.guild))
                 /\ (lock'.by = "flushed" /\ GuildOf[s] = lock'.guild => lock.by = "flushed" /\ GuildOf[s] = lock.guild)
              \/ Owned(led', s, ck'.sess[s])
    BY <1>1, <1>2
  <2> QED BY <1>4, <2>1, <2>2, TextsKept
<1>6. LiveHas'
  BY <1>0, ShutLive DEF LiveHas
<1>7. PurgeOK'
  BY <1>0 DEF PurgeOK
<1> QED BY <1>5, <1>6, <1>7

\* A session that ends with the text of m has the turn of its row.
LEMMA TailHas ==
    ASSUME JInv, TextsOK, NEW m \in Msgs, TailIs(m)
    PROVE  /\ led[m].phase # "none" /\ store[SessionOf[m]].hist # <<>>
           /\ Last(store[SessionOf[m]].hist).id = led[m].id
           /\ Has(store[SessionOf[m]], led[m].id)
<1> DEFINE ses == store[SessionOf[m]]
<1>1. ses \in SessionStates /\ Owned(led, SessionOf[m], ses)
  BY StepTypes, GuildType DEF TextsOK
<1>2. ses.hist # <<>> /\ Last(ses.hist).text = TextOf[m]
  BY DEF TailIs
<1> HIDE DEF ses
<1>3. /\ Len(ses.hist) \in DOMAIN ses.hist /\ Last(ses.hist) = ses.hist[Len(ses.hist)]
      /\ Has(ses, Last(ses.hist).id)
  BY <1>1, <1>2, LastHas
<1>4. led[m].phase # "none" /\ Last(ses.hist).id = led[m].id
  BY <1>1, <1>2, <1>3 DEF Owned
<1> QED BY <1>2, <1>3, <1>4 DEF ses

\* The row is completed from a checkpoint that has its turn.
LEMMA ReconcileVerifiedMemory ==
    ASSUME MInv, JInv', RowsMove, NEW m \in Msgs, ReconcileVerified(m)
    PROVE  Memory'
<1> DEFINE s == SessionOf[m]
           q == [led[m] EXCEPT !.phase = "completed"]
<1>0. /\ JInv /\ TextsOK /\ RestartHas /\ led[m] \in Rows /\ led \in [Msgs -> Rows]
      /\ s \in Sessions
  BY StepTypes, GuildType DEF MInv, KInv, Memory
<1>1. /\ owner = "reconciling" /\ fixing.msg = NoMsg /\ TailIs(m) /\ Up
      /\ led' = [led EXCEPT ![m] = q]
      /\ UNCHANGED <<ck, revoked, store, owner, turn, lock, epoch, fixing, lossy>>
  BY DEF ReconcileVerified, Reconciling, VerifiedTerminal, NoFix, counters, history, Up
<1>2. q.phase = "completed" /\ q.id = led[m].id
  BY <1>0 DEF Rows
<1> HIDE DEF q
<1>3. led'[m] = q /\ \A n \in Msgs : n # m => led'[n] = led[n]
  BY <1>0, <1>1
<1>4. Has(store[s], led[m].id)
  BY <1>0, <1>1, TailHas
<1>5. ~lossy => Has(ck.sess[s], led[m].id)
  BY <1>0, <1>1, <1>4, SubHas DEF RestartHas
<1>6. \A n \in Msgs : led'[n].phase = "none" => led[n].phase = "none"
  BY <1>2, <1>3
<1>7. TextsOK' /\ LiveHas' /\ PurgeOK'
  BY <1>1, <1>6, ReconcileMemory
<1>8. CompletedHas'
  <2>1. ASSUME NEW n \in Msgs, led'[n].phase = "completed", Guild(n) \notin revoked', ~lossy'
        PROVE  \/ /\ led[n].phase = "completed" /\ led'[n].id = led[n].id
                  /\ Guild(n) \notin revoked
               \/ /\ Has(ck'.sess[SessionOf[n]], led'[n].id)
                  /\ Has(store'[SessionOf[n]], led'[n].id)
                  /\ fixing'.msg = NoMsg
    <3>1. CASE n = m
      BY <1>1, <1>2, <1>3, <1>4, <1>5, <2>1, <3>1
    <3>2. CASE n # m
      BY <1>1, <1>3, <2>1, <3>2
    <3> QED BY <3>1, <3>2
  <2>2. \A z \in Sessions : FlushLeaves(z)
    BY <1>1 DEF FlushLeaves
  <2>3. \A z \in Sessions : Up /\ Sub(store[z], store'[z])
    BY <1>1, SubHas
  <2> QED BY <1>1, <2>1, <2>2, <2>3, CompletedHasKept
<1>9. RestartHas'
  BY <1>0, <1>1 DEF RestartHas
<1> QED BY <1>7, <1>8, <1>9 DEF Memory

\* The turn to be committed again ends its session.
LEMMA ReconcileMarkMemory ==
    ASSUME DistinctTexts, MInv, JInv', RowsMove, NEW m \in Msgs, ReconcileMark(m)
    PROVE  Memory'
<1> DEFINE s == SessionOf[m]
           q == [led[m] EXCEPT !.phase = "terminal_committing", !.gen = ck.gen + 1]
           new == WithTurn(m)
<1>0. /\ JInv /\ TextsOK /\ RestartHas /\ led[m] \in Rows /\ led \in [Msgs -> Rows]
      /\ s \in Sessions /\ store \in [Sessions -> SessionStates] /\ ck.gen \in Nat
  BY StepTypes, GuildType DEF MInv, KInv, Memory
<1>1. /\ owner = "reconciling" /\ fixing.msg = NoMsg /\ led[m].phase \in Delivered /\ Up
      /\ led' = [led EXCEPT ![m] = q] /\ store' = [store EXCEPT ![s] = new]
      /\ fixing' = [msg |-> m, was |-> store[s]]
      /\ UNCHANGED <<ck, revoked, owner, turn, lock, epoch, lossy>>
  BY DEF ReconcileMark, Reconciling, Recommits, Delivered, NoFix, counters, history, Up
<1>2. q.phase = "terminal_committing" /\ q.id = led[m].id /\ q.gen = ck.gen + 1
  BY <1>0 DEF Rows
<1> HIDE DEF q
<1>3. led'[m] = q /\ \A n \in Msgs : n # m => led'[n] = led[n]
  BY <1>0, <1>1
<1>4. \A n \in Msgs : led'[n].phase = "none" => led[n].phase = "none"
  BY <1>2, <1>3
<1>5. /\ Owned(led', s, new) /\ Sub(store[s], new) /\ new.hist # <<>>
      /\ Last(new.hist).id = led[m].id
  <2>0. RowsStay(s) /\ Owned(led, s, store[s]) /\ store[s] \in SessionStates
    BY <1>0, <1>4 DEF RowsStay, TextsOK
  <2>1. CASE TailIs(m)
    <3>1. new = store[s]
      BY <2>1 DEF WithTurn
    <3>2. Owned(led', s, store[s])
      BY <1>0, <2>0, OwnedStable
    <3> HIDE DEF new
    <3> QED BY <1>0, <2>1, <3>1, <3>2, TailHas, SubHas
  <2>2. CASE ~TailIs(m)
    <3>1. new = [turn |-> led[m].id,
                 hist |-> Append(store[s].hist, Pair(m, led[m].id, led[m].reply))]
      BY <2>2 DEF WithTurn
    <3>2. new.hist = Append(store[s].hist, Pair(m, led[m].id, led[m].reply))
      BY <3>1
    <3>3. led[m].phase # "none" /\ led[m].id \in Nat /\ led[m].reply \in Replies
      BY <1>0, <1>1 DEF Delivered, Rows
    <3> HIDE DEF new
    <3>4. /\ Owned(led, s, new) /\ Sub(store[s], new) /\ new.hist # <<>>
          /\ Last(new.hist).id = led[m].id
      BY <2>0, <3>2, <3>3, OwnedAppend
    <3>5. Owned(led', s, new)
      BY <1>0, <2>0, <3>4, OwnedStable
    <3> QED BY <3>4, <3>5
  <2> QED BY <2>1, <2>2
<1> HIDE DEF new
<1>6. store'[s] = new /\ \A z \in Sessions : z # s => store'[z] = store[z]
  BY <1>0, <1>1
<1>7. fixing'.msg = m /\ fixing'.was = store[s] /\ m # NoMsg
  BY <1>1, TurnAssumption
<1>8. TextsOK' /\ LiveHas' /\ PurgeOK'
  BY <1>1, <1>4, <1>5, <1>6, <1>7, ReconcileMemory
<1>9. \A z \in Sessions : Sub(store[z], store'[z])
  BY <1>5, <1>6, SubHas
<1>10. CompletedHas'
  <2>1. \A n \in Msgs : led'[n].phase = "completed" => led'[n] = led[n]
    BY <1>2, <1>3
  <2>2. \A z \in Sessions : FlushLeaves(z)
    BY <1>1 DEF FlushLeaves
  <2> QED BY <1>1, <1>7, <1>9, <2>1, <2>2, CompletedHasKept
<1>11. RestartHas'
  <2>1. ck'.gen # led'[m].gen
    <3>1. ck.gen # ck.gen + 1
      BY <1>0
    <3> QED BY <1>1, <1>2, <1>3, <3>1
  <2>2. /\ store'[s].hist # <<>> /\ Last(store'[s].hist).id = led'[m].id
        /\ Sub(fixing'.was, store'[s])
    BY <1>2, <1>3, <1>5, <1>6, <1>7
  <2>3. ~lossy' => Sub(fixing'.was, ck'.sess[s])
    BY <1>0, <1>1, <1>7 DEF RestartHas
  <2>4. \A z \in Sessions : ~lossy /\ z # s => Sub(store'[z], ck'.sess[z])
    BY <1>0, <1>1, <1>6 DEF RestartHas
  <2> QED BY <1>1, <1>7, <2>1, <2>2, <2>3, <2>4 DEF RestartHas
<1> QED BY <1>8, <1>10, <1>11 DEF Memory

\* The checkpoint takes memory over, or a failed commit puts the session back,
\* which is a part of what the checkpoint has then.
LEMMA ReconcileCommitMemory ==
    ASSUME MInv, JInv', RowsMove, NEW end \in FlushEnds, ReconcileCommit(end)
    PROVE  Memory'
<1> DEFINE m == fixing.msg
           s == SessionOf[m]
<1>0. /\ JInv /\ TextsOK /\ RestartHas /\ store \in [Sessions -> SessionStates]
  BY StepTypes DEF MInv, KInv, Memory
<1>1. /\ owner = "reconciling" /\ m # NoMsg /\ WriteCheckpoint(end, store) /\ Up
      /\ UNCHANGED <<led, revoked, owner, turn, lock, epoch>>
      /\ \/ ~Raised(end) /\ UNCHANGED <<store, fixing>>
         \/ store' = [store EXCEPT ![s] = fixing.was] /\ fixing' = NoFix
  BY DEF ReconcileCommit, Flush, Up
<1>2. m \in Msgs /\ s \in Sessions
  BY <1>0, <1>1, GuildType DEF JInv, MoreTypes
<1>3. /\ \A z \in Sessions : FlushLeaves(z) /\ ck'.sess[z] \in {ck.sess[z], store[z], NoSession}
      /\ (lossy => lossy') /\ (~lossy' => ck'.sess = store \/ ck' = ck)
      /\ ~Raised(end) => ck'.sess = store
  BY <1>1, FlushFacts
<1>4. \A z \in Sessions : store'[z] = store[z] \/ (z = s /\ store'[z] = fixing.was)
  BY <1>0, <1>1, <1>2
<1>5. /\ Owned(led, s, fixing.was) /\ Sub(fixing.was, store[s])
      /\ store[s].hist # <<>> /\ Last(store[s].hist).id = led[m].id
  BY <1>0, <1>1 DEF TextsOK, RestartHas
<1>6. (fixing' = fixing /\ store' = store) \/ fixing'.msg = NoMsg
  BY <1>1 DEF NoFix
<1>7. TextsOK' /\ LiveHas' /\ PurgeOK'
  <2>1. Owned(led', s, fixing.was)
    BY <1>1, <1>5
  <2>2. \A z \in Sessions : store'[z] = store[z] \/ Owned(led', z, store'[z])
    BY <1>4, <2>1
  <2>3. \A n \in Msgs : led'[n].phase = "none" => led[n].phase = "none"
    BY <1>1
  <2> QED BY <1>1, <1>3, <1>6, <2>2, <2>3, ReconcileMemory
<1>8. CompletedHas'
  <2>1. \A n \in Msgs : led'[n] = led[n]
    BY <1>1
  <2>2. \A z \in Sessions : \/ Up /\ Sub(store[z], store'[z])
                            \/ store'[z] = fixing.was /\ fixing.msg # NoMsg /\ z = SessionOf[fixing.msg]
    BY <1>1, <1>4, SubHas
  <2> QED BY <1>1, <1>3, <1>6, <2>1, <2>2, CompletedHasKept
<1>9. RestartHas'
  <2>1. \A z \in Sessions : Sub(store'[z], store[z])
    BY <1>4, <1>5, SubHas
  <2>2. ASSUME ~lossy', NEW z \in Sessions PROVE Sub(store'[z], ck'.sess[z])
    <3>1. CASE ck'.sess = store
      BY <2>1, <3>1
    <3>2. CASE ck'.sess # store
      <4>1. ck' = ck /\ store' = [store EXCEPT ![s] = fixing.was]
        BY <1>1, <1>3, <2>2, <3>2
      <4>2. z = s => Sub(fixing.was, ck.sess[z])
        BY <1>0, <1>1, <1>3, <2>2 DEF RestartHas
      <4>3. z # s => Sub(store[z], ck.sess[z])
        BY <1>0, <1>1, <1>3, <2>2 DEF RestartHas
      <4> QED BY <1>0, <1>2, <4>1, <4>2, <4>3
    <3> QED BY <3>1, <3>2
  <2>3. ASSUME fixing'.msg # NoMsg
        PROVE  /\ store'[SessionOf[fixing'.msg]].hist # <<>>
               /\ Last(store'[SessionOf[fixing'.msg]].hist).id = led'[fixing'.msg].id
               /\ Sub(fixing'.was, store'[SessionOf[fixing'.msg]])
               /\ ~lossy' => Sub(fixing'.was, ck'.sess[SessionOf[fixing'.msg]])
    <3>1. fixing' = fixing /\ store' = store /\ ck'.sess = store
      BY <1>1, <1>3, <2>3 DEF NoFix
    <3> QED BY <1>1, <1>5, <3>1
  <2> QED BY <2>2, <2>3 DEF RestartHas
<1> QED BY <1>7, <1>8, <1>9 DEF Memory

\* The recommitted row is completed: at its generation the checkpoint has all
\* that memory has, and with it the turn.
LEMMA ReconcileCompleteMemory ==
    ASSUME MInv, JInv', RowsMove, ReconcileComplete
    PROVE  Memory'
<1> DEFINE m == fixing.msg
           s == SessionOf[m]
           q == [led[m] EXCEPT !.phase = "completed"]
<1>0. /\ JInv /\ TextsOK /\ RestartHas /\ led \in [Msgs -> Rows]
      /\ store \in [Sessions -> SessionStates]
  BY StepTypes DEF MInv, KInv, Memory
<1>1. /\ owner = "reconciling" /\ m # NoMsg /\ ck.gen = led[m].gen /\ Up
      /\ led' = [led EXCEPT ![m] = q] /\ fixing'.msg = NoMsg
      /\ UNCHANGED <<ck, revoked, store, owner, turn, lock, epoch, lossy>>
  BY DEF ReconcileComplete, NoFix, counters, history, Up
<1>2. m \in Msgs /\ s \in Sessions /\ led[m] \in Rows
  BY <1>0, <1>1, GuildType DEF JInv, MoreTypes
<1>3. q.phase = "completed" /\ q.id = led[m].id
  BY <1>2 DEF Rows
<1> HIDE DEF q
<1>4. led'[m] = q /\ \A n \in Msgs : n # m => led'[n] = led[n]
  BY <1>0, <1>1, <1>2
<1>5. ~lossy => \A z \in Sessions : Sub(store[z], ck.sess[z])
  BY <1>0, <1>1 DEF RestartHas
<1>6. Has(store[s], led[m].id)
  <2>1. /\ store[s] \in SessionStates /\ store[s].hist # <<>>
        /\ Last(store[s].hist).id = led[m].id
    BY <1>0, <1>1, <1>2 DEF RestartHas
  <2>2. Has(store[s], Last(store[s].hist).id)
    BY <2>1, LastHas
  <2> QED BY <2>1, <2>2
<1>7. ~lossy => Has(ck.sess[s], led[m].id)
  BY <1>2, <1>5, <1>6, SubHas
<1>8. \A n \in Msgs : led'[n].phase = "none" => led[n].phase = "none"
  BY <1>3, <1>4
<1>9. TextsOK' /\ LiveHas' /\ PurgeOK'
  BY <1>1, <1>8, ReconcileMemory
<1>10. CompletedHas'
  <2>1. ASSUME NEW n \in Msgs, led'[n].phase = "completed", Guild(n) \notin revoked', ~lossy'
        PROVE  \/ /\ led[n].phase = "completed" /\ led'[n].id = led[n].id
                  /\ Guild(n) \notin revoked
               \/ /\ Has(ck'.sess[SessionOf[n]], led'[n].id)
                  /\ Has(store'[SessionOf[n]], led'[n].id)
                  /\ fixing'.msg = NoMsg
    <3>1. CASE n = m
      BY <1>1, <1>3, <1>4, <1>6, <1>7, <2>1, <3>1
    <3>2. CASE n # m
      BY <1>1, <1>4, <2>1, <3>2
    <3> QED BY <3>1, <3>2
  <2>2. \A z \in Sessions : FlushLeaves(z) /\ Sub(store[z], store'[z])
    BY <1>1, SubHas DEF FlushLeaves
  <2> QED BY <1>1, <2>1, <2>2, CompletedHasKept
<1>11. RestartHas'
  BY <1>1, <1>5 DEF RestartHas
<1> QED BY <1>9, <1>10, <1>11 DEF Memory

-----------------------------------------------------------------------------
(* The theorems *)

\* A stuttering step.
LEMMA StutterMemory ==
    ASSUME MInv, JInv', RowsMove, UNCHANGED vars
    PROVE  Memory'
<1>1. UNCHANGED <<led, turn, epoch, store, fixing, ck, revoked, lock, owner, blocked, lossy>>
  BY DEF vars, durable, history
<1> QED BY <1>1
        DEF MInv, Memory, TextsOK, PurgeOK, LiveHas, CompletedHas, RestartHas, Owned, Live, Guild, Up

\* Every step after which no revoked file has been taken for good again keeps
\* what is remembered.
LEMMA MemoryInductive ==
    ASSUME DistinctTexts
    PROVE  MInv /\ [Next]_vars => revived' \/ MInv'
<1> SUFFICES ASSUME MInv, [Next]_vars, ~revived' PROVE MInv'
  OBVIOUS
<1>0. KInv' /\ JInv' /\ RowsMove
  BY SessionsInductive, Inductive, StepMoves DEF MInv, KInv
<1> SUFFICES Memory'
  BY <1>0 DEF MInv
<1>1. ASSUME NEW m \in Msgs, Deliver(m) \/ GenerationFails(m) PROVE Memory'
  BY <1>0, <1>1, LoopMemory
<1>2. ASSUME NEW m \in Msgs, Handler(m) PROVE Memory'
  <2>1. CASE Activate(m)
    BY <1>0, <2>1, ActivateMemory
  <2>2. CASE AppendTurn(m)
    BY <1>0, <2>2, AppendTurnMemory
  <2>3. CASE \E end \in FlushEnds : CommitFlush(m, end)
    BY <1>0, <2>3, CommitFlushMemory
  <2>4. CASE \/ TakeReceipt(m) \/ Abandon(m)
             \/ \E seen, raised \in BOOLEAN : Send(m, seen, raised)
    BY <1>0, <2>4, LoopMemory
  <2>5. CASE \E o \in Outcomes :
                \/ Claim(m, o) \/ BindReply(m, o) \/ GoInflight(m, o) \/ MarkAmbiguous(m, o)
                \/ ConfirmDelivery(m, o) \/ CommitMarker(m, o) \/ CompleteTurn(m, o)
    BY <1>0, <2>5, MarkMemory
  <2> QED BY <1>2, <2>1, <2>2, <2>3, <2>4, <2>5 DEF Handler
<1>3. CASE ResetSteps
  BY <1>0, <1>3, ResetRuntimeMemory, ResetFlushMemory, FinishResetMemory DEF ResetSteps
<1>4. CASE Restart
  <2>1. CASE StartReconciling \/ Open \/ \E m \in Msgs : ReconcileUnresolved(m)
    BY <1>0, <2>1, PlainRestartMemory
  <2>2. ASSUME NEW m \in Msgs, ReconcileVerified(m) PROVE Memory'
    BY <1>0, <2>2, ReconcileVerifiedMemory
  <2>3. ASSUME NEW m \in Msgs, ReconcileMark(m) PROVE Memory'
    BY <1>0, <2>3, ReconcileMarkMemory
  <2>4. ASSUME NEW g \in Guilds, NEW o \in {"ok", "lost"}, RecoverReset(g, o) PROVE Memory'
    BY <1>0, <2>4, RecoverResetMemory DEF Outcomes
  <2>5. ASSUME NEW end \in FlushEnds, ReconcileCommit(end) PROVE Memory'
    BY <1>0, <2>5, ReconcileCommitMemory
  <2>6. CASE ReconcileComplete
    BY <1>0, <2>6, ReconcileCompleteMemory
  <2>7. ASSUME NEW end \in {"ok", "dropped", "left"}, Start(end) PROVE Memory'
    BY <1>0, <2>7, StartMemory
  <2>8. ~Revive
    BY DEF Revive
  <2> QED BY <1>4, <2>1, <2>2, <2>3, <2>4, <2>5, <2>6, <2>7, <2>8 DEF Restart
<1>5. ASSUME NEW end \in FlushEnds, PeriodicFlush(end) PROVE Memory'
  BY <1>0, <1>5, PeriodicFlushMemory
<1>6. ASSUME NEW g \in Guilds, NEW o \in Outcomes, StartReset(g, o) PROVE Memory'
  BY <1>0, <1>6, StartResetMemory
<1>7. CASE Crash
  BY <1>0, <1>7, CrashMemory
<1>8. CASE UNCHANGED vars
  BY <1>0, <1>8, StutterMemory
<1> QED BY <1>1, <1>2, <1>3, <1>4, <1>5, <1>6, <1>7, <1>8 DEF Next

\* Only a revocation costs the checkpoint its content, for good, and the return
\* of a revoked file is the end of one.
LEMMA LossStays == [Next]_vars => (lossy => lossy') /\ (revived => revived')
                                  /\ (revived' => revived \/ lossy')
<1> SUFFICES ASSUME [Next]_vars
             PROVE  (lossy => lossy') /\ (revived' = revived \/ (revived' /\ lossy'))
  OBVIOUS
<1>0. \A end, content : /\ Flush(end, content) => WriteCheckpoint(end, content)
                        /\ WriteCheckpoint(end, content) => (lossy => lossy')
  BY DEF Flush, WriteCheckpoint
<1>1. ASSUME NEW m \in Msgs, Deliver(m) \/ GenerationFails(m) \/ Handler(m)
      PROVE  revived' = revived /\ (lossy => lossy')
  <2>1. CASE \/ Deliver(m) \/ GenerationFails(m) \/ Activate(m) \/ AppendTurn(m)
             \/ TakeReceipt(m) \/ Abandon(m)
             \/ \E seen, raised \in BOOLEAN : Send(m, seen, raised)
    BY <2>1 DEF Deliver, GenerationFails, Activate, AppendTurn, TakeReceipt, Abandon, Send,
       history
  <2>2. CASE \E o \in Outcomes :
                \/ Claim(m, o) \/ BindReply(m, o) \/ GoInflight(m, o) \/ MarkAmbiguous(m, o)
                \/ ConfirmDelivery(m, o) \/ CommitMarker(m, o) \/ CompleteTurn(m, o)
    <3>1. UNCHANGED <<lossy, revived>>
      BY <2>2 DEF Claim, BindReply, GoInflight, MarkAmbiguous, ConfirmDelivery,
         CommitMarker, CompleteTurn, history
    <3> QED BY <3>1
  <2>3. CASE \E end \in FlushEnds : CommitFlush(m, end)
    BY <1>0, <2>3 DEF CommitFlush
  <2> QED BY <1>1, <2>1, <2>2, <2>3 DEF Handler
<1>2. CASE ResetSteps
  <2>1. CASE ResetRuntime \/ \E o \in Outcomes : FinishReset(o)
    BY <2>1 DEF ResetRuntime, FinishReset, history
  <2>2. CASE \E end \in FlushEnds : ResetFlush(end)
    BY <1>0, <2>2 DEF ResetFlush
  <2> QED BY <1>2, <2>1, <2>2 DEF ResetSteps
<1>3. CASE Restart
  <2>1. CASE Revive
    BY <2>1 DEF Revive
  <2>2. CASE \E end \in {"ok", "dropped", "left"} : Start(end)
    BY <1>0, <2>2 DEF Start
  <2>3. CASE \E end \in FlushEnds : ReconcileCommit(end)
    BY <1>0, <2>3 DEF ReconcileCommit
  <2>4. CASE \E g \in Guilds, o \in {"ok", "lost"} : RecoverReset(g, o)
    BY <2>4 DEF RecoverReset
  <2>5. CASE \/ StartReconciling \/ ReconcileComplete \/ Open
             \/ \E m \in Msgs : \/ ReconcileVerified(m) \/ ReconcileMark(m)
                                \/ ReconcileUnresolved(m)
    <3>1. UNCHANGED <<lossy, revived>>
      BY <2>5 DEF StartReconciling, ReconcileVerified, ReconcileMark, ReconcileUnresolved,
         ReconcileComplete, Open, history
    <3> QED BY <3>1
  <2> QED BY <1>3, <2>1, <2>2, <2>3, <2>4, <2>5 DEF Restart
<1>4. CASE Crash \/ UNCHANGED vars \/ \E g \in Guilds, o \in Outcomes : StartReset(g, o)
  <2>1. UNCHANGED <<lossy, revived>>
    BY <1>4 DEF Crash, StartReset, vars, history
  <2> QED BY <2>1
<1>5. CASE \E end \in FlushEnds : PeriodicFlush(end)
  BY <1>0, <1>5 DEF PeriodicFlush
<1> QED BY <1>1, <1>2, <1>3, <1>4, <1>5 DEF Next

\* At first there is nothing to remember.
LEMMA InitMemory == Init => RInv
<1> SUFFICES ASSUME Init PROVE RInv
  OBVIOUS
<1>1. /\ KInv /\ owner = "down" /\ fixing.msg = NoMsg /\ lock.by = "none" /\ ~revived
      /\ \A s \in Sessions : store[s] = NoSession /\ ck.sess[s] = NoSession
      /\ \A m \in Msgs : led[m].phase = "none" /\ ~Live(m)
  BY InitSessions DEF Init, NoFix, Free, NoSessions, NoRow, NoTurn, Live
<1>2. TextsOK
  BY <1>1, EmptyOwned DEF TextsOK
<1>3. PurgeOK /\ LiveHas /\ CompletedHas /\ RestartHas
  BY <1>1 DEF PurgeOK, LiveHas, CompletedHas, RestartHas
<1> QED BY <1>1, <1>2, <1>3 DEF RInv, Memory

\* The invariant of the third layer.
THEOREM MemoryAlways ==
    ASSUME DistinctTexts
    PROVE  Spec => []RInv
<1>1. ASSUME RInv, [Next]_vars PROVE RInv'
  <2>1. KInv' /\ (revived' => lossy')
    BY <1>1, SessionsInductive, LossStays DEF RInv
  <2>2. revived' \/ Memory'
    BY <1>1, MemoryInductive, LossStays DEF RInv, MInv
  <2> QED BY <2>1, <2>2 DEF RInv
<1> QED BY <1>1, InitMemory, PTL DEF Spec

\* As long as no revocation cost the checkpoint its content, the turn of a
\* completed row is in what a restart would restore, whichever of the handler
\* and the restart reconciliation committed it, and whatever handlers, periodic
\* flushes, resets of other guilds, failed writes and crashes do after it.
THEOREM CompletedAlwaysRemembered ==
    ASSUME DistinctTexts
    PROVE  Spec => []CompletedIsRemembered
<1>1. RInv => CompletedIsRemembered
  BY DEF RInv, Memory, CompletedHas, CompletedIsRemembered, Has
<1> QED BY <1>1, MemoryAlways, PTL

\* A recovered turn that is being committed is the one its session ends with, if
\* no two messages of a session say the same and as long as no revoked file has
\* been taken for good again: such a file may end with the turn of a row that a
\* reset has purged, and the message be delivered once more.
THEOREM DistinctTextsRecover ==
    ASSUME DistinctTexts
    PROVE  Spec => [](revived \/ RecoversItsOwnTurn)
<1>1. RInv => revived \/ RecoversItsOwnTurn
  BY DEF RInv, Memory, RestartHas, RecoversItsOwnTurn
<1> QED BY <1>1, MemoryAlways, PTL

=============================================================================
