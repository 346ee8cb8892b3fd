----------------------- MODULE SessionCheckpointProofs -----------------------
(***************************************************************************)
(* Proofs about SessionCheckpoint, for every set of sessions and guilds    *)
(* and every bound.  Three layers:                                         *)
(*                                                                         *)
(* JInv, whatever fails: types, which steps an operation of each kind can  *)
(* be at, and what is later than what.                                     *)
(*                                                                         *)
(* KInv, until a head is lost: file and head are always in one of four     *)
(* relations (ChainOK); what an operation has read is still so when it     *)
(* writes (StepOK); memory, the material an operation writes, and a file   *)
(* that counts are in this order, and none of them has anything from       *)
(* before a guild's reset (Ahead).  From it follows the refinement.  When  *)
(* a revocation that cannot read the head, or write its empty head, drops  *)
(* the old one, or writes an empty head below it (headLost), a file that   *)
(* could not be removed before can count again, and KInv is lost: the run  *)
(* "revival" shows how.                                                    *)
(*                                                                         *)
(* Intact, as long as no read or write fails: the process may die between  *)
(* any two steps and still a committed turn is in the file.                *)
(***************************************************************************)
EXTENDS SessionCheckpoint, TLAPS

Thens == {"none", "flush", "load", "prepare"}
Ops == [kind : Kinds, step : Steps, then : Thens, mat : Contents,
        session : Sessions \cup {None}, guild : Guilds \cup {None}, stale : BOOLEAN]
Mems == [gen : Nat, sig : Contents \cup {NoSig}, revokedAt : Nat, sound : BOOLEAN,
         lastOk : BOOLEAN, pristine : BOOLEAN]
Oks == {"ok", "lost", "late"}

\* The types TypeOK leaves out.
MoreTypes ==
    /\ op \in Ops /\ mem \in Mems
    /\ turns \in Nat /\ now \in Nat /\ crashes \in Nat /\ faults \in Nat

\* Which steps an operation of each kind can be at, and what it carries.  The
\* material of a reset has nothing of its guild.
OpOK ==
    /\ op.kind = "none" <=> op.step = "none"
    /\ op.step \in {"snap", "anchor", "discard"} => op.then # "none"
    /\ op.step \in {"file", "head", "emptyhead", "emptyfile"} => op.then = "flush"
    /\ op.kind = "restore" <=> op.then = "load"
    /\ op.kind = "restore" => op.mat = NoSessions
    /\ op.step = "load" => op.then = "load"
    /\ op.then = "prepare" \/ op.step \in {"prepare", "verify"} => op.kind = "commit"
    /\ op.kind = "commit" => op.session \in Sessions
    /\ op.step \in {"revoke_guild", "runtime", "finish_guild"} =>
          op.kind \in {"reset", "recover"}
    /\ op.kind \in {"reset", "recover"} =>
          /\ op.guild \in Guilds
          /\ \A s \in Sessions : GuildOf[s] = op.guild => op.mat[s] = 0
    /\ op.step = "runtime" => op.guild \in revs
    /\ op.step = "head" => file # NoFile

\* Which operations each phase of the process has; until it is ready, no
\* session of a guild with an unfinished reset is in memory.
PhaseOK ==
    /\ phase = "down" => op = Idle /\ store = NoSessions
    /\ op.kind \in {"restore", "recover"} => phase = "start"
    /\ op.kind \in {"boot", "flush", "commit", "reset"} => phase = "ready"
    /\ op.kind = "recover" => \A s \in Sessions : GuildOf[s] = op.guild => store[s] = 0
    /\ phase = "start" => \A s \in Sessions : GuildOf[s] \in revs => store[s] = 0

\* No turn is later than the last one begun, no stamp later than now.
Bounds ==
    /\ \A g \in Guilds : cut[g] <= turns
    /\ \A s \in Sessions : store[s] <= turns /\ op.mat[s] <= turns
    /\ file # NoFile => file.saved <= now /\ \A s \in Sessions : file.sess[s] <= turns
    /\ status <= now /\ mem.revokedAt <= now

JInv == TypeOK /\ MoreTypes /\ OpOK /\ PhaseOK /\ Bounds

-----------------------------------------------------------------------------
(* File and head *)

\* The head names the file; the file is one ahead of the head; the head has
\* left the file behind, so that nothing but a new write makes one again.
Current == /\ head # NoHead /\ head.state = "active"
           /\ file.gen = head.gen /\ file.saved = head.hash
Lags == /\ head # NoHead /\ file.gen = head.gen + 1
        /\ file.prev = IF head.state = "active" THEN head.hash ELSE Genesis
Dead == head # NoHead /\ head.state = "empty" /\ file.gen <= head.gen
First == head = NoHead /\ file.gen = 1 /\ file.prev = Genesis
Alive == file # NoFile /\ ~Dead

\* There is no other relation between the two, unless a head is lost.
ChainOK == file # NoFile => First \/ Current \/ Lags \/ Dead

\* What an operation at each step may rely on: nothing has changed the files
\* since it read them.
StepOK ==
    /\ op.step \in {"file", "emptyhead"} => Snap.class \in {"current", "empty", "discard"}
    /\ op.step = "anchor" => Snap.class = "lagging"
    /\ op.step = "discard" => Snap.class = "discard"
    /\ op.step = "head" => Alive /\ file.sess = op.mat
    /\ op.step = "emptyfile" => ~Alive
    /\ op.step = "finish_guild" /\ Alive =>
          \A s \in Sessions : GuildOf[s] = op.guild => file.sess[s] = 0

\* Each session of c is at a turn that its guild's reset has not cut off; at
\* least as far as in d.
Fresh(c) == \A s \in Sessions : c[s] = 0 \/ c[s] > cut[GuildOf[s]]
Later(c, d) == \A s \in Sessions : c[s] = 0 \/ c[s] >= d[s]

\* Memory is ahead of the material being written, and both are ahead of the
\* file, as long as the file counts.
Ahead ==
    /\ Fresh(store) /\ Fresh(op.mat) /\ Later(store, op.mat)
    /\ Alive => Later(store, file.sess) /\ Later(op.mat, file.sess)
    /\ Alive => \A s \in Sessions :
          GuildOf[s] \in revs \/ file.sess[s] = 0 \/ file.sess[s] > cut[GuildOf[s]]

KInv == JInv /\ ChainOK /\ StepOK /\ Ahead

HInv == headLost \/ KInv

\* A step drops no head, and writes no empty one below the head it replaces.
HeadKept ==
    head # NoHead /\ head' # head =>
        /\ head' # NoHead
        /\ head'.state = "active" \/ head'.gen > head.gen
RevokesKeep == (\E o \in Oks : RevokeHead(o) \/ RevokeDropHead(o)) => HeadKept

-----------------------------------------------------------------------------
(* Without faults: what is on the disk before the first flush; a file and its
   head are whole except inside the operation that replaces them, and no
   revocation stamp outlives them; a reset is recorded only while it runs; a
   committed turn is in the file, in the material and in memory. *)
NewDisk ==
    head = NoHead =>
       /\ file = NoFile /\ revs = {} /\ store = NoSessions /\ op.mat = NoSessions
       /\ op.kind \in {"none", "restore", "boot"}
       /\ op.kind = "none" => phase # "ready"
       /\ op.kind = "boot" => op.step \in {"snap", "emptyhead"}
       /\ op.kind = "restore" => op.step \in {"snap", "load", "done"}
       /\ phase = "start" /\ op.step # "snap" => mem.pristine /\ mem.gen = 0

Whole ==
    /\ op.step \notin {"unread", "rehead", "unhead"}
    /\ file = NoFile => head = NoHead \/ head.state = "empty"
    /\ op.step = "unfile" => ~Alive
    /\ op.step \in {"unfile", "emptyfile"} => head # NoHead /\ head.state = "empty"
    /\ op.step \in {"revoke", "unfile", "discard"} => op.kind = "restore"
    /\ op.kind = "reset" => op.step # "error"
    /\ phase # "down" /\ op.step # "emptyfile"
         /\ (op.kind = "restore" => op.step \in {"load", "done", "error"})
       => file = NoFile \/ Alive
    /\ Alive => status < file.saved /\ mem.revokedAt < file.saved

RevsOK ==
    /\ phase = "ready" /\ op.kind # "reset" => revs = {}
    /\ op.kind = "reset" => revs \subseteq {op.guild}
    /\ op.kind = "reset" /\ op.step = "done" => revs = {}
    /\ \A s \in Sessions : GuildOf[s] \in revs => done[s] = 0

DoneOK ==
    /\ \A s \in Sessions : done[s] # 0 => Alive /\ done[s] <= file.sess[s]
    /\ op.step \in {"revoke", "unfile"} => done = NoSessions
    /\ op.kind = "restore" /\ op.step = "error" => done = NoSessions
    /\ op.then = "flush" /\ op.step \in {"snap", "anchor", "discard", "file", "emptyhead"} =>
          \A s \in Sessions : done[s] <= op.mat[s]
    /\ phase # "down" /\ (op.kind = "restore" => op.step = "done") =>
          \A s \in Sessions : done[s] <= store[s]
    /\ \A s \in Sessions : op.mat[s] <= store[s]
    /\ op.step = "emptyhead" => op.mat = NoSessions
    /\ op.step = "verify" /\ Alive => file.sess = op.mat

Intact == NewDisk /\ Whole /\ RevsOK /\ DoneOK
CInv == faults = 0 => KInv /\ Intact

-----------------------------------------------------------------------------
(* Reading the disk *)

\* A snapshot has numbers and one of the classes.
LEMMA SnapType ==
    ASSUME TypeOK
    PROVE  /\ Snap.gen \in Nat /\ Snap.hash \in Nat
           /\ Snap.class \in {"current", "lagging", "empty", "discard", "auth", "reject"}
BY DEF TypeOK, Snap, CheckpointSnapshot, Snapshot, Files, Heads, Genesis

\* What each class of a snapshot says of file and head.
LEMMA SnapMeaning ==
    ASSUME TypeOK
    PROVE  /\ Snap.class = "current" <=> file # NoFile /\ Current
           /\ Snap.class = "current" => Snap.gen = file.gen /\ Snap.hash = file.saved
           /\ Snap.class = "lagging" =>
                 /\ file # NoFile /\ Snap.gen = file.gen /\ Snap.hash = file.saved
                 /\ Lags \/ First
           /\ Snap.class = "empty" =>
                 /\ file = NoFile
                 /\ \/ head = NoHead /\ Snap.gen = 0
                    \/ head # NoHead /\ head.state = "empty" /\ Snap.gen = head.gen
           /\ Snap.class = "discard" =>
                 /\ file # NoFile /\ head # NoHead /\ head.state = "empty"
                 /\ head.gen = file.gen + 1 /\ Snap.gen = head.gen
           /\ Snap.class = "auth" => file # NoFile /\ head = NoHead
BY DEF TypeOK, Snap, CheckpointSnapshot, Snapshot, Files, Heads, Genesis, Current, Lags, First

\* What is restored is what an accepted file says.
LEMMA RestorableValue ==
    ASSUME JInv, NEW s \in Sessions
    PROVE  /\ Restorable[s] \in Nat
           /\ Restorable[s] # 0 => Alive /\ GuildOf[s] \notin revs /\ Restorable[s] = file.sess[s]
<1>1. file # NoFile => file.sess[s] \in Nat
  BY DEF JInv, TypeOK, Files, Contents
<1>2. Snap.class \in {"current", "lagging"} => Alive
  BY SnapMeaning DEF JInv, Alive, Dead, Current, Lags, First, TypeOK, Files, Heads
<1>3. Alive => file # NoFile
  BY DEF Alive
<1> QED BY <1>1, <1>2, <1>3 DEF Restorable

-----------------------------------------------------------------------------
(* Types and shapes *)

\* A process that dies keeps the disk only.
LEMMA CrashedJ ==
    ASSUME JInv, Crashed, crashes' \in Nat, faults' \in Nat, status' \in {mem.revokedAt, status},
           UNCHANGED <<file, head, revs, keyed, turns, now, cut, done>>
    PROVE  JInv'
<1> USE DEF Crashed, JInv
<1>1. Idle \in Ops /\ FreshMem \in Mems /\ NoSessions \in Contents
  BY DEF Idle, Ops, Kinds, Steps, Thens, Contents, NoSessions, FreshMem, Mems
<1>2. \A s \in Sessions : NoSessions[s] = 0 /\ Idle.mat[s] = 0
  BY DEF Idle, NoSessions
<1>3. TypeOK'
  BY <1>1 DEF TypeOK, MoreTypes, Ops, NoCall, Mems
<1>4. MoreTypes'
  BY <1>1 DEF MoreTypes
<1>5. OpOK' /\ PhaseOK'
  BY <1>2 DEF OpOK, PhaseOK, Idle
<1>6. Bounds'
  BY <1>1, <1>2 DEF Bounds, FreshMem, TypeOK, MoreTypes
<1> QED BY <1>3, <1>4, <1>5, <1>6

\* restore begins in a new process.
LEMMA StartJ == ASSUME JInv, NEW o \in Oks, Start(o) PROVE JInv'
<1> USE CheckpointAssumption, AbsentAssumption, SnapType DEF Start, Outcome, FreshMem, disk,
         history
<1>1. TypeOK'
  BY DEF JInv, TypeOK, MoreTypes, Ops, Contents, Kinds, Steps, Idle, NoSessions
<1>2. MoreTypes'
  <2>1. op' \in Ops
    BY DEF Ops, Contents, Kinds, Steps, Idle, Thens, NoSessions
  <2>2. mem' \in Mems
    BY DEF JInv, TypeOK, Mems, Contents, NoSessions
  <2>3. turns' \in Nat /\ now' \in Nat /\ crashes' \in Nat /\ faults' \in Nat
    BY DEF JInv, MoreTypes
  <2> QED BY <2>1, <2>2, <2>3 DEF MoreTypes
<1>3. OpOK'
  BY DEF JInv, TypeOK, MoreTypes, OpOK, Ops, Idle
<1>4. PhaseOK'
  BY DEF JInv, TypeOK, MoreTypes, Ops, PhaseOK, NoSessions
<1>5. Bounds'
  BY DEF JInv, TypeOK, MoreTypes, Ops, Bounds, Idle, NoSessions
<1> QED BY <1>1, <1>2, <1>3, <1>4, <1>5 DEF JInv

\* After a restore an interrupted reset is taken up again, or the process is ready.
LEMMA AfterStartJ == ASSUME JInv, AfterStart PROVE JInv'
<1> USE CheckpointAssumption
<1>0. /\ UNCHANGED <<file, head, revs, status, keyed, store, mem, call, blocked, turns, now,
                     crashes, faults, cut, done>>
      /\ phase = "start" /\ op.kind = "none" /\ NoSessions \in Contents /\ store \in Contents
  BY DEF AfterStart, disk, history, NoSessions, Contents, JInv, TypeOK
<1>1. CASE revs # {}
  <2>1. PICK g \in revs : op' = [Idle EXCEPT !.kind = "recover", !.guild = g,
                                             !.step = "revoke_guild"]
    BY <1>1 DEF AfterStart
  <2>2. g \in Guilds /\ phase' = phase
    BY <1>1, <2>1 DEF JInv, TypeOK, AfterStart
  <2>3. op' = [kind |-> "recover", step |-> "revoke_guild", then |-> "none",
               mat |-> NoSessions, session |-> None, guild |-> g, stale |-> FALSE]
    BY <2>1 DEF Idle
  <2>4. op' \in Ops /\ (\A s \in Sessions : op'.mat[s] = 0)
    BY <1>0, <2>2, <2>3 DEF Ops, Kinds, Steps, Thens, NoSessions
  <2>5. TypeOK' /\ MoreTypes'
    BY <1>0, <2>2, <2>4 DEF JInv, TypeOK, MoreTypes, Ops
  <2>6. OpOK' /\ PhaseOK'
    BY <1>0, <2>2, <2>3, <2>4 DEF JInv, TypeOK, OpOK, PhaseOK
  <2>7. Bounds'
    BY <1>0, <2>4 DEF JInv, TypeOK, MoreTypes, Bounds
  <2> QED BY <2>5, <2>6, <2>7 DEF JInv
<1>2. CASE revs = {}
  <2>1. phase' = "ready"
    BY <1>2 DEF AfterStart
  <2>2. \/ op' = Idle
        \/ op' = [kind |-> "boot", step |-> "snap", then |-> "flush", mat |-> store,
                  session |-> None, guild |-> None, stale |-> FALSE]
    BY <1>2 DEF AfterStart, Idle
  <2>3. op' \in Ops /\ op'.mat \in {NoSessions, store}
    <3>1. CASE op' = Idle
      BY <1>0, <3>1 DEF Ops, Kinds, Steps, Thens, Idle
    <3>2. CASE op' # Idle
      <4>1. op' = [kind |-> "boot", step |-> "snap", then |-> "flush", mat |-> store,
                   session |-> None, guild |-> None, stale |-> FALSE]
        BY <2>2, <3>2
      <4> QED BY <1>0, <4>1 DEF Ops, Kinds, Steps, Thens
    <3> QED BY <3>1, <3>2
  <2>4. TypeOK' /\ MoreTypes'
    BY <1>0, <2>1, <2>3 DEF JInv, TypeOK, MoreTypes, Ops
  <2>5. OpOK' /\ PhaseOK'
    BY <1>0, <2>1, <2>2 DEF JInv, OpOK, PhaseOK, Idle
  <2>6. Bounds'
    BY <1>0, <2>3 DEF JInv, TypeOK, MoreTypes, Bounds, NoSessions
  <2> QED BY <2>4, <2>5, <2>6 DEF JInv
<1> QED BY <1>1, <1>2

\* The heartbeat writes the status file.
LEMMA WriteStatusJ == ASSUME JInv, WriteStatus PROVE JInv'
<1> USE CheckpointAssumption, AbsentAssumption, SnapType DEF WriteStatus, disk, history
<1>1. TypeOK'
  BY DEF JInv, TypeOK, MoreTypes, Ops, Mems
<1>2. MoreTypes'
  BY DEF JInv, TypeOK, MoreTypes, Ops
<1>3. OpOK'
  BY DEF JInv, TypeOK, MoreTypes, OpOK, Ops
<1>4. PhaseOK'
  BY DEF JInv, TypeOK, MoreTypes, Ops, PhaseOK
<1>5. Bounds'
  BY DEF JInv, TypeOK, MoreTypes, Ops, Bounds
<1> QED BY <1>1, <1>2, <1>3, <1>4, <1>5 DEF JInv

\* A restore finds nothing.
LEMMA LoadNothingJ == ASSUME JInv, LoadNothing PROVE JInv'
<1> USE CheckpointAssumption, AbsentAssumption, SnapType DEF LoadNothing, Goto, disk, history
<1>1. TypeOK'
  BY DEF JInv, TypeOK, MoreTypes, Ops, Steps
<1>2. MoreTypes'
  BY DEF JInv, TypeOK, MoreTypes, Ops, Mems, Steps
<1>3. OpOK'
  BY DEF JInv, TypeOK, MoreTypes, OpOK, Ops
<1>4. PhaseOK'
  BY DEF JInv, TypeOK, MoreTypes, OpOK, Ops, PhaseOK
<1>5. Bounds'
  BY DEF JInv, TypeOK, MoreTypes, Ops, Bounds
<1> QED BY <1>1, <1>2, <1>3, <1>4, <1>5 DEF JInv

\* The revocations cannot be read.
LEMMA LoadRevocationsFailJ == ASSUME JInv, LoadRevocationsFail PROVE JInv'
<1> USE CheckpointAssumption, AbsentAssumption, SnapType DEF LoadRevocationsFail, Outcome,
         Goto, disk, history
<1>1. TypeOK'
  BY DEF JInv, TypeOK, MoreTypes, Ops, Steps
<1>2. MoreTypes'
  <2>1. op' \in Ops
    BY DEF JInv, TypeOK, MoreTypes, Ops, Steps
  <2>2. mem' \in Mems
    BY DEF JInv, TypeOK, MoreTypes, Ops
  <2>3. turns' \in Nat /\ now' \in Nat /\ crashes' \in Nat /\ faults' \in Nat
    BY DEF JInv, TypeOK, MoreTypes, Ops
  <2> QED BY <2>1, <2>2, <2>3 DEF MoreTypes
<1>3. OpOK'
  BY DEF JInv, TypeOK, MoreTypes, OpOK, Ops
<1>4. PhaseOK'
  BY DEF JInv, TypeOK, MoreTypes, OpOK, Ops, PhaseOK
<1>5. Bounds'
  BY DEF JInv, TypeOK, MoreTypes, Ops, Bounds
<1> QED BY <1>1, <1>2, <1>3, <1>4, <1>5 DEF JInv

\* A flush begins.
LEMMA StartFlushJ == ASSUME JInv, StartFlush PROVE JInv'
<1> USE CheckpointAssumption, AbsentAssumption, SnapType DEF StartFlush, LockFree, disk, history
<1>1. TypeOK'
  BY DEF JInv, TypeOK, MoreTypes, Ops, Kinds, Steps
<1>2. MoreTypes'
  BY DEF JInv, TypeOK, MoreTypes, Ops, Kinds, Steps, Idle, Thens
<1>3. OpOK'
  BY DEF JInv, TypeOK, MoreTypes, OpOK, Ops
<1>4. PhaseOK'
  BY DEF JInv, TypeOK, MoreTypes, Ops, PhaseOK
<1>5. Bounds'
  BY DEF JInv, TypeOK, MoreTypes, Ops, Bounds
<1> QED BY <1>1, <1>2, <1>3, <1>4, <1>5 DEF JInv

\* The process dies.
LEMMA CrashJ == ASSUME JInv, Crash PROVE JInv'
<1>1. Crashed /\ UNCHANGED <<disk, keyed, turns, now, faults, history>> /\ crashes' = crashes + 1
  BY DEF Crash
<1>2. crashes' \in Nat /\ faults' \in Nat /\ status' = status
  BY <1>1 DEF JInv, MoreTypes, disk
<1> QED BY <1>1, <1>2, CrashedJ DEF disk, history

\* An operation reads file and head.
LEMMA ReadCheckpointJ == ASSUME JInv, NEW o \in Oks, ReadCheckpoint(o) PROVE JInv'
<1> USE CheckpointAssumption DEF disk, history
<1>0. /\ op.step = "snap" /\ Outcome(o) /\ op \in Ops /\ mem \in Mems
      /\ UNCHANGED <<file, head, revs, status, keyed, phase, store, call, blocked, turns, now,
                     crashes, history>>
  BY DEF ReadCheckpoint, JInv, MoreTypes
<1>1. /\ AfterSnapshot \in {"load", "prepare", "done", "emptyhead", "file"}
      /\ AfterSnapshot = "load" => op.then = "load"
      /\ AfterSnapshot = "prepare" => op.then = "prepare"
      /\ AfterSnapshot \in {"emptyhead", "file"} => op.then = "flush"
  BY <1>0 DEF AfterSnapshot, JInv, OpOK, Ops, Thens
<1>2. PICK x \in {"error", "revoke", "anchor", "discard", AfterSnapshot} :
         op' = [op EXCEPT !.step = x]
  BY DEF ReadCheckpoint, Goto, Rejected
<1>3. op' \in Ops /\ op'.mat = op.mat
  BY <1>0, <1>1, <1>2 DEF Ops, Steps
<1>4. mem' \in Mems /\ mem'.revokedAt = mem.revokedAt
  <2>1. Snap.gen \in Nat
    BY SnapType DEF JInv
  <2>2. CASE mem' = mem
    BY <1>0, <2>2
  <2>3. CASE mem' # mem
    <3>1. PICK p \in BOOLEAN, d \in BOOLEAN :
             mem' = [mem EXCEPT !.gen = Snap.gen, !.pristine = p, !.sound = d]
      BY <1>0, <2>3 DEF ReadCheckpoint, Anchored, Mems
    <3> QED BY <1>0, <2>1, <3>1 DEF Mems
  <2> QED BY <2>2, <2>3
<1>5. TypeOK' /\ MoreTypes'
  BY <1>0, <1>3, <1>4 DEF JInv, TypeOK, MoreTypes, Ops, Outcome
<1>6. OpOK' /\ PhaseOK'
  BY <1>0, <1>1, <1>2 DEF JInv, OpOK, MoreTypes, Ops, PhaseOK, Idle
<1>7. Bounds'
  BY <1>0, <1>3, <1>4 DEF JInv, TypeOK, MoreTypes, Bounds
<1> QED BY <1>5, <1>6, <1>7 DEF JInv

\* A head that lags is written.
LEMMA AnchorHeadJ == ASSUME JInv, NEW o \in Oks, AnchorHead(o) PROVE JInv'
<1> USE CheckpointAssumption, AbsentAssumption, SnapType DEF AnchorHead, Outcome, Goto,
         Written, Anchored, AfterSnapshot, disk, history
<1>1. TypeOK'
  BY DEF JInv, TypeOK, MoreTypes, Ops, Heads, Steps, Thens
<1>2. MoreTypes'
  <2>1. op' \in Ops
    BY DEF JInv, TypeOK, MoreTypes, Ops, Steps, Thens
  <2>2. mem' \in Mems
    <3>1. Snap.gen \in Nat /\ (head = NoHead /\ file = NoFile) \in BOOLEAN
      BY DEF JInv
    <3>2. CASE o = "ok"
      <4>1. PICK p \in BOOLEAN, d \in BOOLEAN :
               mem' = [mem EXCEPT !.gen = Snap.gen, !.pristine = p, !.sound = d]
        BY <3>2 DEF JInv, MoreTypes, Mems
      <4> QED BY <3>1, <4>1 DEF JInv, MoreTypes, Mems
    <3> QED BY <3>2 DEF JInv, MoreTypes
  <2>3. turns' \in Nat /\ now' \in Nat /\ crashes' \in Nat /\ faults' \in Nat
    BY DEF JInv, MoreTypes
  <2> QED BY <2>1, <2>2, <2>3 DEF MoreTypes
<1>3. OpOK'
  BY DEF JInv, TypeOK, MoreTypes, OpOK, Ops, Thens
<1>4. PhaseOK'
  BY DEF JInv, TypeOK, MoreTypes, Ops, PhaseOK, Idle
<1>5. Bounds'
  BY DEF JInv, TypeOK, MoreTypes, OpOK, Ops, Mems, Bounds
<1> QED BY <1>1, <1>2, <1>3, <1>4, <1>5 DEF JInv

\* A file that the head has emptied is dropped.
LEMMA DiscardEmptiedJ == ASSUME JInv, NEW o \in Oks, DiscardEmptied(o) PROVE JInv'
<1> USE CheckpointAssumption, AbsentAssumption, SnapType DEF DiscardEmptied, Outcome, Goto,
         Written, Anchored, AfterSnapshot, disk, history
<1>1. TypeOK'
  BY DEF JInv, TypeOK, MoreTypes, Ops, Steps, Thens
<1>2. MoreTypes'
  <2>1. op' \in Ops
    BY DEF JInv, TypeOK, MoreTypes, Ops, Steps, Thens
  <2>2. mem' \in Mems
    BY DEF JInv, TypeOK, MoreTypes, Ops, Mems
  <2>3. turns' \in Nat /\ now' \in Nat /\ crashes' \in Nat /\ faults' \in Nat
    BY DEF JInv, TypeOK, MoreTypes, Ops
  <2> QED BY <2>1, <2>2, <2>3 DEF MoreTypes
<1>3. OpOK'
  BY DEF JInv, TypeOK, MoreTypes, OpOK, Ops, Thens
<1>4. PhaseOK'
  BY DEF JInv, TypeOK, MoreTypes, Ops, PhaseOK, Idle
<1>5. Bounds'
  BY DEF JInv, TypeOK, MoreTypes, Ops, Bounds
<1> QED BY <1>1, <1>2, <1>3, <1>4, <1>5 DEF JInv

\* flush writes the checkpoint file.
LEMMA WriteFileJ == ASSUME JInv, NEW o \in Oks, WriteFile(o) PROVE JInv'
<1> USE CheckpointAssumption DEF disk, history
<1>0. /\ op.step = "file" /\ Outcome(o) /\ now' = now + 1
      /\ Snap.gen \in Nat /\ Snap.hash \in Nat /\ op \in Ops /\ mem \in Mems /\ op.mat \in Contents
      /\ UNCHANGED <<head, revs, status, keyed, phase, store, call, blocked, turns, crashes, history>>
  BY SnapType DEF WriteFile, JInv, MoreTypes, Ops
<1>1. \E f \in Files : /\ f.saved = now + 1 /\ f.sess = op.mat
                       /\ file' = f \/ file' = file
  <2> DEFINE f == [gen |-> Snap.gen + 1,
                   prev |-> IF Snap.class = "current" THEN Snap.hash ELSE Genesis,
                   saved |-> now + 1, sess |-> op.mat]
  <2>1. f \in Files
    BY <1>0 DEF Files, Genesis, JInv, MoreTypes
  <2>2. file' = f \/ file' = file
    BY DEF WriteFile, Written
  <2>3. f.saved = now + 1 /\ f.sess = op.mat
    OBVIOUS
  <2> QED BY <2>1, <2>2, <2>3
<1>2. \/ /\ op' = [op EXCEPT !.step = "head"]
         /\ mem' = [mem EXCEPT !.gen = Snap.gen + 1, !.sig = op.mat, !.revokedAt = 0,
                               !.pristine = FALSE]
      \/ op' = [op EXCEPT !.step = "revoke"] /\ mem' = mem
  BY DEF WriteFile, Goto
<1>3. op' \in Ops /\ op'.mat = op.mat
  BY <1>0, <1>2 DEF Ops, Steps
<1>4. mem' \in Mems /\ mem'.revokedAt \in {0, mem.revokedAt}
  <2>1. Snap.gen + 1 \in Nat
    BY <1>0
  <2>2. CASE mem' = mem
    BY <1>0, <2>2 DEF Mems
  <2>3. CASE mem' = [mem EXCEPT !.gen = Snap.gen + 1, !.sig = op.mat, !.revokedAt = 0,
                                !.pristine = FALSE]
    <3> DEFINE n == Snap.gen + 1
    <3>1. n \in Nat /\ op.mat \in Contents
      BY <1>0, <2>1
    <3>2. mem' = [mem EXCEPT !.gen = n, !.sig = op.mat, !.revokedAt = 0, !.pristine = FALSE]
      BY <2>3
    <3> HIDE DEF n
    <3> QED BY <1>0, <3>1, <3>2 DEF Mems
  <2> QED BY <1>2, <2>2, <2>3
<1>5. TypeOK' /\ MoreTypes'
  BY <1>0, <1>1, <1>3, <1>4 DEF JInv, TypeOK, MoreTypes, Ops, Outcome
<1>6. OpOK'
  <2>1. op'.step = "head" => file' # NoFile
    BY <1>0, <1>2, AbsentAssumption DEF WriteFile, Goto, Written, Files, Ops, Genesis, JInv,
             MoreTypes
  <2> QED BY <1>0, <1>2, <2>1 DEF JInv, OpOK, MoreTypes, Ops
<1>7. PhaseOK'
  BY <1>0, <1>2 DEF JInv, MoreTypes, Ops, PhaseOK, Idle
<1>8. Bounds'
  <2>1. PICK f \in Files : f.saved = now + 1 /\ f.sess = op.mat /\ (file' = f \/ file' = file)
    BY <1>1
  <2>2. \A s \in Sessions : f.sess[s] <= turns /\ op.mat[s] <= turns
    BY <2>1 DEF JInv, Bounds
  <2>3. file' # NoFile => /\ file'.saved <= now + 1
                          /\ \A s \in Sessions : file'.sess[s] <= turns
    BY <2>1, <2>2 DEF JInv, Bounds, TypeOK, MoreTypes, Files
  <2>4. now \in Nat /\ status \in Nat /\ mem.revokedAt \in Nat
    BY DEF JInv, TypeOK, MoreTypes, Mems
  <2> QED BY <1>0, <1>3, <1>4, <2>3, <2>4 DEF JInv, Bounds
<1> QED BY <1>5, <1>6, <1>7, <1>8 DEF JInv

\* flush writes the head.
LEMMA WriteHeadJ == ASSUME JInv, NEW o \in Oks, WriteHead(o) PROVE JInv'
<1> USE CheckpointAssumption DEF disk, history
<1>0. /\ op.step = "head" /\ Outcome(o) /\ op \in Ops /\ mem \in Mems
      /\ UNCHANGED <<file, revs, status, keyed, phase, store, call, blocked, turns, now,
                     crashes, history>>
  BY DEF WriteHead, JInv, MoreTypes
<1>1. \/ op' = [op EXCEPT !.step = AfterFlush] /\ mem' = [mem EXCEPT !.sound = TRUE]
      \/ op' = [op EXCEPT !.step = "error"] /\ mem' = mem
  BY DEF WriteHead, Goto
<1>2. /\ AfterFlush \in {"verify", "finish_guild", "done"}
      /\ AfterFlush = "verify" => op.kind = "commit"
      /\ AfterFlush = "finish_guild" => op.kind \in {"reset", "recover"}
  BY DEF AfterFlush
<1>3. op' \in Ops /\ op'.mat = op.mat /\ op'.step \in {"verify", "finish_guild", "done", "error"}
  BY <1>0, <1>1, <1>2 DEF Ops, Steps
<1>4. mem' \in Mems /\ mem'.revokedAt = mem.revokedAt
  BY <1>0, <1>1 DEF Mems
<1>5. head' \in Heads \cup {NoHead}
  <2>1. file \in Files
    BY <1>0 DEF JInv, OpOK, TypeOK
  <2> QED BY <2>1 DEF WriteHead, Written, JInv, Heads, TypeOK, Files
<1>6. TypeOK' /\ MoreTypes'
  BY <1>0, <1>3, <1>4, <1>5 DEF JInv, TypeOK, MoreTypes, Ops, Outcome
<1>7. OpOK' /\ PhaseOK'
  BY <1>0, <1>1, <1>2 DEF JInv, OpOK, MoreTypes, Ops, PhaseOK, Idle
<1>8. Bounds'
  BY <1>0, <1>3, <1>4 DEF JInv, TypeOK, MoreTypes, Bounds
<1> QED BY <1>6, <1>7, <1>8 DEF JInv

\* flush writes an empty head.
LEMMA WriteEmptyHeadJ == ASSUME JInv, NEW o \in Oks, WriteEmptyHead(o) PROVE JInv'
<1> USE CheckpointAssumption DEF disk, history
<1>0. /\ op.step = "emptyhead" /\ Outcome(o) /\ now' = now + 1
      /\ Snap.gen \in Nat /\ op \in Ops /\ mem \in Mems
      /\ UNCHANGED <<file, revs, status, keyed, phase, store, call, blocked, turns, crashes, history>>
  BY SnapType DEF WriteEmptyHead, JInv, MoreTypes
<1>1. head' \in Heads \cup {NoHead}
  BY <1>0 DEF WriteEmptyHead, Written, JInv, TypeOK, Heads, Genesis
<1>2. \/ /\ op' = [op EXCEPT !.step = "emptyfile"]
         /\ mem' = [mem EXCEPT !.gen = Snap.gen + 1, !.sig = NoSessions, !.revokedAt = 0,
                               !.sound = FALSE, !.pristine = FALSE]
      \/ op' = [op EXCEPT !.step = "revoke"] /\ mem' = mem
  BY DEF WriteEmptyHead, Goto
<1>3. op' \in Ops /\ op'.mat = op.mat
  BY <1>0, <1>2 DEF Ops, Steps
<1>4. mem' \in Mems /\ mem'.revokedAt \in {0, mem.revokedAt}
  <2>1. Snap.gen + 1 \in Nat /\ NoSessions \in Contents
    BY <1>0 DEF NoSessions, Contents
  <2>2. CASE mem' = mem
    BY <1>0, <2>2 DEF Mems
  <2>3. CASE mem' = [mem EXCEPT !.gen = Snap.gen + 1, !.sig = NoSessions, !.revokedAt = 0,
                                !.sound = FALSE, !.pristine = FALSE]
    <3> DEFINE n == Snap.gen + 1
    <3>1. n \in Nat
      BY <2>1
    <3>2. mem' = [mem EXCEPT !.gen = n, !.sig = NoSessions, !.revokedAt = 0,
                             !.sound = FALSE, !.pristine = FALSE]
      BY <2>3
    <3> HIDE DEF n
    <3> QED BY <1>0, <2>1, <3>1, <3>2 DEF Mems
  <2> QED BY <1>2, <2>2, <2>3
<1>5. TypeOK' /\ MoreTypes'
  BY <1>0, <1>1, <1>3, <1>4 DEF JInv, TypeOK, MoreTypes, Ops, Outcome
<1>6. OpOK' /\ PhaseOK'
  BY <1>0, <1>2 DEF JInv, OpOK, MoreTypes, Ops, PhaseOK, Idle
<1>7. Bounds'
  BY <1>0, <1>3, <1>4 DEF JInv, TypeOK, MoreTypes, Bounds, Mems, Files
<1> QED BY <1>5, <1>6, <1>7 DEF JInv

\* flush drops the file of an empty checkpoint.
LEMMA DropEmptiedFileJ == ASSUME JInv, NEW o \in Oks, DropEmptiedFile(o) PROVE JInv'
<1> USE CheckpointAssumption, AbsentAssumption, SnapType DEF DropEmptiedFile, Outcome, Goto,
         Written, AfterFlush, disk, history
<1>1. TypeOK'
  BY DEF JInv, TypeOK, MoreTypes, Ops, Steps
<1>2. MoreTypes'
  BY DEF JInv, TypeOK, MoreTypes, Ops, Steps
<1>3. OpOK'
  BY DEF JInv, TypeOK, MoreTypes, OpOK, Ops
<1>4. PhaseOK'
  BY DEF JInv, TypeOK, MoreTypes, Ops, PhaseOK, Idle
<1>5. Bounds'
  BY DEF JInv, TypeOK, MoreTypes, Ops, Bounds
<1> QED BY <1>1, <1>2, <1>3, <1>4, <1>5 DEF JInv

\* A revocation fails to read the head.
LEMMA RevokeUnreadJ == ASSUME JInv, RevokeUnread PROVE JInv'
<1> USE CheckpointAssumption, AbsentAssumption DEF RevokeUnread, Outcome, Goto, disk, history
<1>1. TypeOK'
  BY DEF JInv, TypeOK, MoreTypes, Ops, Steps
<1>2. MoreTypes'
  <2>1. op' \in Ops
    BY DEF JInv, TypeOK, MoreTypes, Ops, Steps
  <2>2. mem' \in Mems /\ turns' \in Nat /\ now' \in Nat /\ crashes' \in Nat /\ faults' \in Nat
    BY DEF JInv, TypeOK, MoreTypes, Ops
  <2> QED BY <2>1, <2>2 DEF MoreTypes
<1>3. OpOK'
  BY DEF JInv, TypeOK, MoreTypes, OpOK, Ops
<1>4. PhaseOK'
  BY DEF JInv, TypeOK, MoreTypes, Ops, PhaseOK, Idle
<1>5. Bounds'
  BY DEF JInv, TypeOK, MoreTypes, Ops, Bounds
<1> QED BY <1>1, <1>2, <1>3, <1>4, <1>5 DEF JInv

\* A revocation empties the head.
LEMMA RevokeHeadJ == ASSUME JInv, NEW o \in Oks, RevokeHead(o) PROVE JInv'
<1> USE CheckpointAssumption, AbsentAssumption, SnapType DEF RevokeHead, Outcome, Goto,
         Written, Genesis, disk, history
<1>1. TypeOK'
  BY DEF JInv, TypeOK, MoreTypes, Ops, Mems, Heads, Steps
<1>2. MoreTypes'
  <2>1. op' \in Ops
    BY DEF JInv, MoreTypes, Ops, Steps
  <2>2. mem' \in Mems
    <3>1. now \in Nat /\ mem.gen + 1 \in Nat /\ (head # NoHead => head.gen + 1 \in Nat)
      BY DEF JInv, TypeOK, MoreTypes, Mems, Heads
    <3>2. PICK n \in Nat : mem' = [mem EXCEPT !.revokedAt = now, !.sig = NoSig, !.gen = n,
                                              !.pristine = FALSE]
      BY <3>1 DEF JInv, MoreTypes, Mems
    <3> QED BY <3>1, <3>2 DEF JInv, MoreTypes, Mems
  <2>3. turns' \in Nat /\ now' \in Nat /\ crashes' \in Nat /\ faults' \in Nat
    BY DEF JInv, MoreTypes
  <2> QED BY <2>1, <2>2, <2>3 DEF MoreTypes
<1>3. OpOK'
  BY DEF JInv, TypeOK, MoreTypes, OpOK, Ops
<1>4. PhaseOK'
  BY DEF JInv, TypeOK, MoreTypes, Ops, PhaseOK, Idle
<1>5. Bounds'
  BY DEF JInv, TypeOK, MoreTypes, Ops, Bounds
<1> QED BY <1>1, <1>2, <1>3, <1>4, <1>5 DEF JInv

\* A revocation drops the head it could not write.
LEMMA RevokeDropHeadJ == ASSUME JInv, NEW o \in Oks, RevokeDropHead(o) PROVE JInv'
<1> USE CheckpointAssumption, AbsentAssumption, SnapType DEF RevokeDropHead, Outcome, Goto,
         Written, disk, history
<1>1. TypeOK'
  BY DEF JInv, TypeOK, MoreTypes, Ops, Steps
<1>2. MoreTypes'
  <2>1. op' \in Ops
    BY DEF JInv, MoreTypes, Ops, Steps
  <2>2. mem' \in Mems /\ turns' \in Nat /\ now' \in Nat /\ crashes' \in Nat /\ faults' \in Nat
    BY DEF JInv, MoreTypes
  <2> QED BY <2>1, <2>2 DEF MoreTypes
<1>3. OpOK'
  BY DEF JInv, TypeOK, MoreTypes, OpOK, Ops
<1>4. PhaseOK'
  BY DEF JInv, TypeOK, MoreTypes, Ops, PhaseOK, Idle
<1>5. Bounds'
  BY DEF JInv, TypeOK, MoreTypes, Ops, Bounds
<1> QED BY <1>1, <1>2, <1>3, <1>4, <1>5 DEF JInv

\* A revocation drops the file.
LEMMA RevokeDropFileJ == ASSUME JInv, NEW o \in Oks, RevokeDropFile(o) PROVE JInv'
<1> USE CheckpointAssumption, AbsentAssumption, SnapType DEF RevokeDropFile, Outcome, Goto,
         Written, disk, history
<1>1. TypeOK'
  BY DEF JInv, TypeOK, MoreTypes, Ops, Steps
<1>2. MoreTypes'
  <2>1. op' \in Ops
    BY DEF JInv, TypeOK, MoreTypes, Ops, Steps
  <2>2. mem' \in Mems
    BY DEF JInv, TypeOK, MoreTypes, Ops, Mems
  <2>3. turns' \in Nat /\ now' \in Nat /\ crashes' \in Nat /\ faults' \in Nat
    BY DEF JInv, TypeOK, MoreTypes, Ops
  <2> QED BY <2>1, <2>2, <2>3 DEF MoreTypes
<1>3. OpOK'
  BY DEF JInv, TypeOK, MoreTypes, OpOK, Ops
<1>4. PhaseOK'
  BY DEF JInv, TypeOK, MoreTypes, Ops, PhaseOK, Idle
<1>5. Bounds'
  BY DEF JInv, TypeOK, MoreTypes, Ops, Bounds
<1> QED BY <1>1, <1>2, <1>3, <1>4, <1>5 DEF JInv

\* An operation ends in an error.
LEMMA EndInErrorJ == ASSUME JInv, NEW o \in Oks, EndInError(o) PROVE JInv'
<1> USE CheckpointAssumption DEF disk, history
<1>0. /\ op.step = "error" /\ Outcome(o) /\ op \in Ops /\ mem \in Mems
      /\ status' \in {mem.revokedAt, status}
      /\ UNCHANGED <<file, head, revs, keyed, turns, now, crashes, history>>
  BY DEF EndInError, Written, JInv, MoreTypes
<1>1. CASE op.kind = "recover"
  <2>1. Crashed
    BY <1>1 DEF EndInError
  <2>2. crashes' \in Nat /\ faults' \in Nat
    BY <1>0 DEF JInv, MoreTypes, Outcome
  <2> QED BY <1>0, <2>1, <2>2, CrashedJ
<1>2. CASE op.kind # "recover"
  <2>1. /\ op' = Idle /\ UNCHANGED <<phase, store, blocked>>
        /\ mem' = [mem EXCEPT !.sound = FALSE,
                              !.lastOk = IF op.kind = "commit" THEN FALSE ELSE @]
        /\ call' \in {call, [call EXCEPT ![op.session] = NoCall]}
    BY <1>2 DEF EndInError
  <2>2. Idle \in Ops /\ (\A s \in Sessions : Idle.mat[s] = 0)
    BY DEF Idle, Ops, Kinds, Steps, Thens, Contents, NoSessions
  <2>3. mem' \in Mems /\ mem'.revokedAt = mem.revokedAt
    BY <1>0, <2>1 DEF Mems
  <2>4. TypeOK' /\ MoreTypes'
    BY <1>0, <2>1, <2>2, <2>3 DEF JInv, TypeOK, MoreTypes, Ops, Outcome, NoCall, Mems
  <2>5. OpOK' /\ PhaseOK'
    BY <1>0, <2>1 DEF JInv, OpOK, PhaseOK, Idle
  <2>6. Bounds'
    BY <1>0, <2>1, <2>2, <2>3 DEF JInv, TypeOK, MoreTypes, Bounds
  <2> QED BY <2>4, <2>5, <2>6 DEF JInv
<1> QED BY <1>1, <1>2

\* An operation ends well.
LEMMA EndWellJ == ASSUME JInv, NEW o \in Oks, EndWell(o) PROVE JInv'
<1> USE CheckpointAssumption, AbsentAssumption, SnapType DEF EndWell, Outcome, Written, disk,
         history
<1>1. TypeOK'
  BY DEF JInv, TypeOK, MoreTypes, Ops, Mems, Contents, Kinds, Steps, Idle, NoSessions
<1>2. MoreTypes'
  BY DEF JInv, TypeOK, MoreTypes, Ops, Contents, Kinds, Steps, Idle, Thens, NoSessions
<1>3. OpOK'
  BY DEF JInv, TypeOK, MoreTypes, OpOK, Ops, Idle
<1>4. PhaseOK'
  BY DEF JInv, TypeOK, MoreTypes, Ops, PhaseOK, Idle
<1>5. Bounds'
  BY DEF JInv, TypeOK, MoreTypes, Ops, Bounds, Idle, NoSessions
<1> QED BY <1>1, <1>2, <1>3, <1>4, <1>5 DEF JInv

\* A commit reads back what it wrote.
LEMMA VerifyCommitJ == ASSUME JInv, NEW o \in Oks, VerifyCommit(o) PROVE JInv'
<1> USE CheckpointAssumption DEF disk, history
<1>0. /\ op.step = "verify" /\ Outcome(o) /\ op \in Ops /\ mem \in Mems
      /\ op.kind = "commit" /\ op.session \in Sessions
      /\ UNCHANGED <<file, head, revs, status, keyed, phase, store, blocked, turns, now,
                     crashes, cut>>
  BY DEF VerifyCommit, JInv, MoreTypes, OpOK
<1>1. \/ /\ op' = Idle /\ mem' = [mem EXCEPT !.lastOk = TRUE]
         /\ call' = [call EXCEPT ![op.session].st = "returning"]
         /\ done' = [done EXCEPT ![op.session] = call[op.session].turn]
      \/ op' = [op EXCEPT !.step = "error"] /\ UNCHANGED <<mem, call, done>>
  BY DEF VerifyCommit, Goto
<1>2. Idle \in Ops /\ (\A s \in Sessions : Idle.mat[s] = 0)
  BY DEF Idle, Ops, Kinds, Steps, Thens, Contents, NoSessions
<1>3. op' \in Ops /\ (op'.mat = op.mat \/ \A s \in Sessions : op'.mat[s] = 0)
  BY <1>0, <1>1, <1>2 DEF Ops, Steps
<1>4. mem' \in Mems /\ mem'.revokedAt = mem.revokedAt
  BY <1>0, <1>1 DEF Mems
<1>5. TypeOK'
  <2>1. done' \in Contents
    BY <1>0, <1>1 DEF JInv, TypeOK, Contents
  <2>2. call' \in [Sessions -> [st : {"none", "waiting", "running", "returning", "receipt"},
                                turn : Nat, marker : Nat, gen : Nat]]
    BY <1>0, <1>1 DEF JInv, TypeOK
  <2> QED BY <1>0, <1>3, <2>1, <2>2 DEF JInv, TypeOK, Ops
<1>6. MoreTypes'
  BY <1>0, <1>3, <1>4 DEF JInv, MoreTypes, Outcome
<1>7. OpOK' /\ PhaseOK'
  BY <1>0, <1>1 DEF JInv, OpOK, MoreTypes, Ops, PhaseOK, Idle
<1>8. Bounds'
  BY <1>0, <1>3, <1>4 DEF JInv, TypeOK, MoreTypes, Bounds
<1> QED BY <1>5, <1>6, <1>7, <1>8 DEF JInv

\* A reset is recorded.
LEMMA RevokeGuildJ == ASSUME JInv, NEW o \in Oks, RevokeGuild(o) PROVE JInv'
<1> USE CheckpointAssumption, AbsentAssumption, SnapType DEF RevokeGuild, Outcome, Written,
         Goto, disk, history
<1>1. TypeOK'
  BY DEF JInv, TypeOK, MoreTypes, OpOK, Ops, Contents, Steps
<1>2. MoreTypes'
  <2>1. op' \in Ops
    BY DEF JInv, TypeOK, MoreTypes, Ops, Steps
  <2>2. mem' \in Mems
    BY DEF JInv, TypeOK, MoreTypes, Ops
  <2>3. turns' \in Nat /\ now' \in Nat /\ crashes' \in Nat /\ faults' \in Nat
    BY DEF JInv, TypeOK, MoreTypes, Ops
  <2> QED BY <2>1, <2>2, <2>3 DEF MoreTypes
<1>3. OpOK'
  BY DEF JInv, TypeOK, MoreTypes, OpOK, Ops
<1>4. PhaseOK'
  BY DEF JInv, TypeOK, MoreTypes, OpOK, Ops, PhaseOK
<1>5. Bounds'
  BY DEF JInv, TypeOK, MoreTypes, Ops, Bounds
<1> QED BY <1>1, <1>2, <1>3, <1>4, <1>5 DEF JInv

\* A reset clears the guild's sessions.
LEMMA ClearRuntimeJ == ASSUME JInv, NEW o \in Oks, ClearRuntime(o) PROVE JInv'
<1> USE CheckpointAssumption, AbsentAssumption, SnapType DEF ClearRuntime, Outcome, disk, history
<1>1. TypeOK'
  BY DEF JInv, TypeOK, MoreTypes, OpOK, Ops, Contents, Steps
<1>2. MoreTypes'
  <2>1. op' \in Ops
    BY DEF JInv, TypeOK, MoreTypes, Ops, Contents, Steps, Thens
  <2>2. mem' \in Mems
    BY DEF JInv, TypeOK, MoreTypes, Ops
  <2>3. turns' \in Nat /\ now' \in Nat /\ crashes' \in Nat /\ faults' \in Nat
    BY DEF JInv, TypeOK, MoreTypes, Ops
  <2> QED BY <2>1, <2>2, <2>3 DEF MoreTypes
<1>3. OpOK'
  BY DEF JInv, TypeOK, MoreTypes, OpOK, Ops, PhaseOK
<1>4. PhaseOK'
  BY DEF JInv, TypeOK, MoreTypes, OpOK, Ops, PhaseOK
<1>5. Bounds'
  BY DEF JInv, TypeOK, MoreTypes, Ops, Bounds
<1> QED BY <1>1, <1>2, <1>3, <1>4, <1>5 DEF JInv

\* A reset is struck off.
LEMMA FinishGuildJ == ASSUME JInv, NEW o \in Oks, FinishGuild(o) PROVE JInv'
<1> USE CheckpointAssumption, AbsentAssumption, SnapType DEF FinishGuild, Outcome, Written,
         Goto, disk, history
<1>1. TypeOK'
  BY DEF JInv, TypeOK, MoreTypes, Ops, Steps
<1>2. MoreTypes'
  BY DEF JInv, TypeOK, MoreTypes, Ops, Steps
<1>3. OpOK'
  BY DEF JInv, TypeOK, MoreTypes, OpOK, Ops
<1>4. PhaseOK'
  BY DEF JInv, TypeOK, MoreTypes, OpOK, Ops, PhaseOK
<1>5. Bounds'
  BY DEF JInv, TypeOK, MoreTypes, Ops, Bounds
<1> QED BY <1>1, <1>2, <1>3, <1>4, <1>5 DEF JInv

\* A restore finds a checkpoint that is revoked or too old.
LEMMA LoadRevokedJ == ASSUME JInv, NEW b \in BOOLEAN, LoadRevoked(b) PROVE JInv'
<1> USE CheckpointAssumption, AbsentAssumption, SnapType DEF LoadRevoked, disk, history
<1>1. TypeOK'
  BY DEF JInv, TypeOK, MoreTypes, Ops, Contents, Steps, NoSessions
<1>2. MoreTypes'
  BY DEF JInv, TypeOK, MoreTypes, Ops, Steps
<1>3. OpOK'
  BY DEF JInv, TypeOK, MoreTypes, OpOK, Ops
<1>4. PhaseOK'
  BY DEF JInv, TypeOK, MoreTypes, OpOK, Ops, PhaseOK
<1>5. Bounds'
  BY DEF JInv, TypeOK, MoreTypes, Ops, Bounds
<1> QED BY <1>1, <1>2, <1>3, <1>4, <1>5 DEF JInv

\* A commit announces its generation and takes its material.
LEMMA PrepareCommitJ == ASSUME JInv, NEW b \in BOOLEAN, PrepareCommit(b) PROVE JInv'
<1> USE CheckpointAssumption, AbsentAssumption, SnapType DEF PrepareCommit, disk, history
<1>1. TypeOK'
  BY DEF JInv, TypeOK, MoreTypes, OpOK, Ops, Steps
<1>2. MoreTypes'
  BY DEF JInv, TypeOK, MoreTypes, Ops, Steps, Thens
<1>3. OpOK'
  BY DEF JInv, TypeOK, MoreTypes, OpOK, Ops
<1>4. PhaseOK'
  BY DEF JInv, TypeOK, MoreTypes, OpOK, Ops, PhaseOK
<1>5. Bounds'
  BY DEF JInv, TypeOK, MoreTypes, Ops, Bounds
<1> QED BY <1>1, <1>2, <1>3, <1>4, <1>5 DEF JInv

\* A restore loads the sessions.
LEMMA LoadSessionsJ == ASSUME JInv, NEW aged \in SUBSET Sessions, LoadSessions(aged) PROVE JInv'
<1> USE CheckpointAssumption DEF disk, history
<1>0. /\ op.step = "load" /\ Snap.class = "current" /\ mem.revokedAt < file.saved
      /\ op \in Ops /\ mem \in Mems /\ file \in Files
      /\ op' = [op EXCEPT !.step = "done"]
      /\ mem' = [mem EXCEPT !.revokedAt = 0, !.sig = store']
      /\ UNCHANGED <<file, head, revs, status, keyed, phase, call, blocked, turns, now,
                     crashes, faults, cut>>
  BY SnapMeaning DEF LoadSessions, Goto, JInv, TypeOK, MoreTypes
<1>1. store' = [s \in Sessions |-> IF s \in aged \/ GuildOf[s] \in revs THEN 0
                                   ELSE file.sess[s]]
  BY DEF LoadSessions
<1>2. store' \in Contents /\ done' \in Contents
  BY <1>0, <1>1 DEF LoadSessions, JInv, TypeOK, Contents, Files
<1>3. op' \in Ops /\ mem' \in Mems
  BY <1>0, <1>2 DEF Ops, Steps, Mems
<1>4. TypeOK' /\ MoreTypes'
  BY <1>0, <1>2, <1>3 DEF JInv, TypeOK, MoreTypes, Ops
<1>5. OpOK'
  BY <1>0 DEF JInv, OpOK, Ops
<1>6. PhaseOK'
  BY <1>0, <1>1 DEF JInv, OpOK, PhaseOK, Ops
<1>7. Bounds'
  <2>1. file # NoFile
    BY <1>0, AbsentAssumption
  <2>2. op'.mat = op.mat /\ mem'.revokedAt = 0
    BY <1>0 DEF Ops
  <2>3. \A s \in Sessions : store'[s] = 0 \/ store'[s] = file.sess[s]
    BY <1>1
  <2> QED BY <1>0, <2>1, <2>2, <2>3 DEF JInv, TypeOK, MoreTypes, Bounds
<1> QED BY <1>4, <1>5, <1>6, <1>7 DEF JInv

\* A turn begins.
LEMMA BeginTurnJ == ASSUME JInv, NEW s \in Sessions, BeginTurn(s) PROVE JInv'
<1> USE CheckpointAssumption, AbsentAssumption, SnapType DEF BeginTurn, LoopRuns, NoCall, disk,
         history
<1>1. TypeOK'
  BY DEF JInv, TypeOK, MoreTypes, Ops, Contents
<1>2. MoreTypes'
  BY DEF JInv, TypeOK, MoreTypes, Ops
<1>3. OpOK'
  BY DEF JInv, TypeOK, MoreTypes, OpOK, Ops
<1>4. PhaseOK'
  BY DEF JInv, TypeOK, MoreTypes, Ops, PhaseOK
<1>5. Bounds'
  BY DEF JInv, TypeOK, MoreTypes, Ops, Contents, Files, Bounds
<1> QED BY <1>1, <1>2, <1>3, <1>4, <1>5 DEF JInv

\* A handler asks for a commit.
LEMMA CallCommitJ == ASSUME JInv, NEW s \in Sessions, CallCommit(s) PROVE JInv'
<1> USE CheckpointAssumption, AbsentAssumption, SnapType DEF CallCommit, LoopRuns, NoCall,
         disk, history
<1>1. TypeOK'
  BY DEF JInv, TypeOK, MoreTypes, Ops, Contents
<1>2. MoreTypes'
  BY DEF JInv, TypeOK, MoreTypes, Ops
<1>3. OpOK'
  BY DEF JInv, TypeOK, MoreTypes, OpOK, Ops
<1>4. PhaseOK'
  BY DEF JInv, TypeOK, MoreTypes, Ops, PhaseOK
<1>5. Bounds'
  BY DEF JInv, TypeOK, MoreTypes, Ops, Bounds
<1> QED BY <1>1, <1>2, <1>3, <1>4, <1>5 DEF JInv

\* A commit begins.
LEMMA StartCommitJ == ASSUME JInv, NEW s \in Sessions, StartCommit(s) PROVE JInv'
<1> USE CheckpointAssumption, AbsentAssumption, SnapType DEF StartCommit, LockFree, disk, history
<1>1. TypeOK'
  BY DEF JInv, TypeOK, MoreTypes, Ops, Contents, Kinds, Steps, Idle, NoSessions
<1>2. MoreTypes'
  BY DEF JInv, TypeOK, MoreTypes, Ops, Contents, Kinds, Steps, Idle, Thens, NoSessions
<1>3. OpOK'
  BY DEF JInv, TypeOK, MoreTypes, OpOK, Ops
<1>4. PhaseOK'
  BY DEF JInv, TypeOK, MoreTypes, Ops, PhaseOK
<1>5. Bounds'
  BY DEF JInv, TypeOK, MoreTypes, Ops, Bounds, Idle, NoSessions
<1> QED BY <1>1, <1>2, <1>3, <1>4, <1>5 DEF JInv

\* A handler reads its receipt.
LEMMA ReadReceiptJ == ASSUME JInv, NEW s \in Sessions, ReadReceipt(s) PROVE JInv'
<1> USE CheckpointAssumption, AbsentAssumption, SnapType DEF ReadReceipt, NoCall, disk, history
<1>1. TypeOK'
  <2>1. call' \in [Sessions -> [st : {"none", "waiting", "running", "returning", "receipt"},
                                turn : Nat, marker : Nat, gen : Nat]]
    <3>1. mem.gen \in Nat
      BY DEF JInv, MoreTypes, Mems
    <3> QED BY <3>1 DEF JInv, TypeOK
  <2> QED BY <2>1 DEF JInv, TypeOK
<1>2. MoreTypes'
  BY DEF JInv, TypeOK, MoreTypes, Ops
<1>3. OpOK'
  BY DEF JInv, TypeOK, MoreTypes, OpOK, Ops
<1>4. PhaseOK'
  BY DEF JInv, TypeOK, MoreTypes, Ops, PhaseOK
<1>5. Bounds'
  BY DEF JInv, TypeOK, MoreTypes, Ops, Bounds
<1> QED BY <1>1, <1>2, <1>3, <1>4, <1>5 DEF JInv

\* A reset begins.
LEMMA StartResetJ == ASSUME JInv, NEW g \in Guilds, StartReset(g) PROVE JInv'
<1> USE CheckpointAssumption, AbsentAssumption, SnapType DEF StartReset, LockFree, disk, history
<1>1. TypeOK'
  BY DEF JInv, TypeOK, MoreTypes, Ops, Contents, Kinds, Steps, Idle, NoSessions
<1>2. MoreTypes'
  BY DEF JInv, TypeOK, MoreTypes, Ops, Contents, Kinds, Steps, Idle, Thens, NoSessions
<1>3. OpOK'
  BY DEF JInv, TypeOK, MoreTypes, OpOK, Ops, Idle, NoSessions
<1>4. PhaseOK'
  BY DEF JInv, TypeOK, MoreTypes, Ops, PhaseOK
<1>5. Bounds'
  BY DEF JInv, TypeOK, MoreTypes, Ops, Bounds, Idle, NoSessions
<1> QED BY <1>1, <1>2, <1>3, <1>4, <1>5 DEF JInv

-----------------------------------------------------------------------------
(* The chain *)

\* As long as no other file comes to count, memory stays ahead of it.
LEMMA AheadKept ==
    ASSUME KInv, JInv', Alive' => Alive /\ file' = file, revs \subseteq revs', cut' = cut,
           store' \in {store, NoSessions}, op'.mat \in {op.mat, store', NoSessions}
    PROVE  Ahead'
<1>1. /\ store \in Contents /\ op.mat \in Contents /\ NoSessions \in Contents
      /\ \A s \in Sessions : NoSessions[s] = 0
      /\ Alive => file.sess \in Contents
  BY DEF KInv, JInv, TypeOK, MoreTypes, Ops, Contents, NoSessions, Files, Alive
<1>2. \A s \in Sessions : /\ store[s] \in Nat /\ op.mat[s] \in Nat
                          /\ Alive => file.sess[s] \in Nat
  BY <1>1 DEF Contents
<1>3. Fresh(store)' /\ Fresh(op.mat)'
  BY <1>1 DEF KInv, Ahead, Fresh
<1>4. Later(store, op.mat)'
  BY <1>1, <1>2 DEF KInv, Ahead, Later
<1>5. Alive' => Later(store, file.sess)' /\ Later(op.mat, file.sess)'
  BY <1>1, <1>2 DEF KInv, Ahead, Later
<1>6. Alive' => \A s \in Sessions :
          GuildOf[s] \in revs' \/ file'.sess[s] = 0 \/ file'.sess[s] > cut'[GuildOf[s]]
  BY DEF KInv, Ahead
<1> QED BY <1>3, <1>4, <1>5, <1>6 DEF Ahead

\* These steps rely on nothing.
LEMMA Harmless ==
    ASSUME op'.step \notin {"file", "emptyhead", "anchor", "discard", "head", "emptyfile",
                            "finish_guild"}
    PROVE  StepOK'
BY DEF StepOK

\* A step that leaves the files and the sessions alone keeps the invariant.
LEMMA Quiet ==
    ASSUME KInv, JInv', UNCHANGED <<file, head, keyed, cut>>, revs \subseteq revs',
           store' \in {store, NoSessions}, op'.mat \in {op.mat, store', NoSessions},
           op' = op \/ op'.step \notin {"file", "emptyhead", "anchor", "discard", "head",
                                        "emptyfile", "finish_guild"}
    PROVE  KInv'
<1>1. Alive' => Alive /\ file' = file
  BY DEF Alive, Dead
<1>2. Ahead'
  BY <1>1, AheadKept
<1>3. ChainOK'
  BY DEF KInv, ChainOK, First, Current, Lags, Dead
<1>4. StepOK'
  <2>1. CASE op' = op
    BY <2>1 DEF KInv, StepOK, Alive, Dead, Snap
  <2> QED BY <2>1, Harmless
<1> QED BY <1>2, <1>3, <1>4 DEF KInv

\* Alive in terms of what a snapshot says.
LEMMA SnapAlive ==
    ASSUME KInv
    PROVE  /\ Snap.class \in {"current", "lagging", "auth"} => Alive
           /\ Snap.class \in {"empty", "discard"} => ~Alive
           /\ Alive => Snap.class \in {"current", "lagging", "auth"}
<1>1. TypeOK /\ (file # NoFile => file.gen \in Nat) /\ (head # NoHead => head.gen \in Nat)
  BY DEF KInv, JInv, TypeOK, Files, Heads
<1>2. /\ Snap.class \in {"current", "lagging", "auth"} => Alive
      /\ Snap.class \in {"empty", "discard"} => ~Alive
  BY <1>1, SnapMeaning DEF Alive, Dead, Current, Lags, First
<1>3. Alive => Snap.class \in {"current", "lagging", "auth"}
  BY <1>1 DEF Alive, KInv, ChainOK, First, Current, Lags, Dead, Snap, CheckpointSnapshot,
           Snapshot, Genesis
<1> QED BY <1>2, <1>3

\* Operations begin and end, and handlers call them, without touching the files.
LEMMA QuietActions ==
    ASSUME KInv, JInv',
           \/ AfterStart \/ WriteStatus \/ LoadNothing \/ LoadRevocationsFail
           \/ StartFlush \/ RevokeUnread
           \/ \E o \in Oks : \/ Start(o) \/ EndInError(o) \/ EndWell(o)
                            \/ VerifyCommit(o) \/ RevokeGuild(o)
           \/ \E b \in BOOLEAN : LoadRevoked(b) \/ PrepareCommit(b)
           \/ \E s \in Sessions : CallCommit(s) \/ StartCommit(s) \/ ReadReceipt(s)
           \/ \E g \in Guilds : StartReset(g)
           \/ Crash
    PROVE  KInv'
<1> USE DEF disk, history
<1>0. op \in Ops /\ phase \in {"down", "start", "ready"} /\ PhaseOK
  BY DEF KInv, JInv, MoreTypes, TypeOK
<1> DEFINE G == /\ UNCHANGED <<file, head, keyed, cut>> /\ revs \subseteq revs'
                /\ store' \in {store, NoSessions} /\ op'.mat \in {op.mat, store', NoSessions}
                /\ op' = op \/ op'.step \notin {"file", "emptyhead", "anchor", "discard", "head",
                                                "emptyfile", "finish_guild"}
<1>1. ASSUME NEW o \in Oks, Start(o) PROVE G
  BY <1>1 DEF Start, Idle
<1>2. ASSUME AfterStart PROVE G
  <2>1. op' \in {Idle, [Idle EXCEPT !.kind = "boot", !.step = "snap", !.then = "flush",
                                    !.mat = store]}
        \/ \E g \in revs : op' = [Idle EXCEPT !.kind = "recover", !.guild = g,
                                              !.step = "revoke_guild"]
    BY <1>2 DEF AfterStart
  <2>2. UNCHANGED <<file, head, keyed, cut, revs, store>>
    BY <1>2 DEF AfterStart
  <2>3. op'.mat \in {NoSessions, store} /\ op'.step \in {"none", "snap", "revoke_guild"}
    <3>1. CASE op' = Idle
      BY <3>1 DEF Idle
    <3>2. CASE op' = [Idle EXCEPT !.kind = "boot", !.step = "snap", !.then = "flush",
                                  !.mat = store]
      BY <3>2 DEF Idle
    <3>3. CASE \E g \in revs : op' = [Idle EXCEPT !.kind = "recover", !.guild = g,
                                                  !.step = "revoke_guild"]
      BY <3>3 DEF Idle
    <3> QED BY <2>1, <3>1, <3>2, <3>3
  <2> QED BY <2>2, <2>3
<1>3. ASSUME WriteStatus PROVE G
  BY <1>3 DEF WriteStatus
<1>4. ASSUME LoadNothing PROVE G
  BY <1>0, <1>4 DEF LoadNothing, Goto, Ops
<1>5. ASSUME LoadRevocationsFail PROVE G
  BY <1>0, <1>5 DEF LoadRevocationsFail, Goto, Ops
<1>6. ASSUME StartFlush PROVE G
  BY <1>6 DEF StartFlush, Idle
<1>7. ASSUME NEW o \in Oks, EndInError(o) PROVE G
  BY <1>7 DEF EndInError, Crashed, Idle
<1>8. ASSUME NEW o \in Oks, EndWell(o) PROVE G
  BY <1>8 DEF EndWell, Idle
<1>9. ASSUME NEW o \in Oks, VerifyCommit(o) PROVE G
  BY <1>0, <1>9 DEF VerifyCommit, Idle, Goto, Ops
<1>10. ASSUME NEW o \in Oks, RevokeGuild(o) PROVE G
  BY <1>0, <1>10 DEF RevokeGuild, Goto, Written, Ops
<1>11. ASSUME NEW b \in BOOLEAN, LoadRevoked(b) PROVE G
  BY <1>0, <1>11 DEF LoadRevoked, Ops
<1>12. ASSUME NEW b \in BOOLEAN, PrepareCommit(b) PROVE G
  BY <1>0, <1>12 DEF PrepareCommit, Ops
<1>13. ASSUME NEW s \in Sessions, CallCommit(s) PROVE G
  BY <1>13 DEF CallCommit
<1>14. ASSUME NEW s \in Sessions, StartCommit(s) PROVE G
  BY <1>14 DEF StartCommit, Idle
<1>15. ASSUME NEW s \in Sessions, ReadReceipt(s) PROVE G
  BY <1>15 DEF ReadReceipt
<1>16. ASSUME NEW g \in Guilds, StartReset(g) PROVE G
  BY <1>16 DEF StartReset, Idle
<1>17. ASSUME Crash PROVE G
  BY <1>17 DEF Crash, Crashed, Idle
<1>18. ASSUME RevokeUnread PROVE G
  BY <1>0, <1>18 DEF RevokeUnread, Goto, Ops
<1>19. G
  BY <1>1, <1>2, <1>3, <1>4, <1>5, <1>6, <1>7, <1>8, <1>9, <1>10, <1>11, <1>12, <1>13, <1>14,
     <1>15, <1>16, <1>17, <1>18
<1> QED BY <1>19, Quiet

\* A read decides where the operation goes on; it relies on what it read.
LEMMA ReadCheckpointK ==
    ASSUME KInv, JInv', NEW o \in Oks, ReadCheckpoint(o)
    PROVE  KInv'
<1>1. /\ UNCHANGED <<file, head, keyed, cut, revs, store>> /\ Snap' = Snap /\ op \in Ops
      /\ op.step = "snap"
  BY DEF ReadCheckpoint, disk, history, Snap, KInv, JInv, MoreTypes
<1>2. PICK x \in Steps : /\ op' = [op EXCEPT !.step = x]
                         /\ x \in {"file", "emptyhead"} => Snap.class \in {"current", "empty"}
                         /\ x = "anchor" => Snap.class = "lagging"
                         /\ x = "discard" => Snap.class = "discard"
                         /\ x \notin {"head", "emptyfile", "finish_guild"}
  <2>1. AfterSnapshot \in {"load", "prepare", "done", "emptyhead", "file"}
    BY <1>1 DEF AfterSnapshot, KInv, JInv, OpOK, Ops, Thens
  <2>2. Rejected \in {"error", "revoke"}
    BY DEF Rejected
  <2> QED BY <2>1, <2>2 DEF ReadCheckpoint, Goto, Steps
<1>3. op'.step = x /\ op'.mat = op.mat
  BY <1>1, <1>2 DEF Ops
<1>4. Alive' => Alive /\ file' = file
  BY <1>1 DEF Alive, Dead
<1>5. Ahead'
  BY <1>1, <1>3, <1>4, AheadKept
<1>6. ChainOK'
  BY <1>1 DEF KInv, ChainOK, First, Current, Lags, Dead
<1>7. StepOK'
  BY <1>1, <1>2, <1>3 DEF StepOK
<1> QED BY <1>5, <1>6, <1>7 DEF KInv

\* Once the head is written the file is the current one.
LEMMA AnchorHeadK ==
    ASSUME KInv, JInv', NEW o \in Oks, AnchorHead(o)
    PROVE  KInv'
<1>1. /\ UNCHANGED <<file, keyed, cut, revs, store>> /\ op \in Ops /\ op.step = "anchor"
      /\ Snap.class = "lagging" /\ Alive /\ file # NoFile /\ file \in Files
      /\ Snap.gen = file.gen /\ Snap.hash = file.saved
  BY SnapMeaning, SnapAlive DEF AnchorHead, disk, history, KInv, JInv, MoreTypes, StepOK, TypeOK
<1>2. /\ head' = head \/ head' = [state |-> "active", gen |-> file.gen, hash |-> file.saved]
      /\ o = "ok" => head' = [state |-> "active", gen |-> file.gen, hash |-> file.saved]
  BY <1>1 DEF AnchorHead, Written
<1>3. head' # head => head' # NoHead
  <2>1. [state |-> "active", gen |-> file.gen, hash |-> file.saved] \in Heads
    BY <1>1 DEF Heads, Files
  <2> QED BY <1>2, <2>1, AbsentAssumption
<1>4. head' = [state |-> "active", gen |-> file.gen, hash |-> file.saved] => Current' /\ head' # NoHead
  <2>1. [state |-> "active", gen |-> file.gen, hash |-> file.saved] \in Heads
    BY <1>1 DEF Heads, Files
  <2> QED BY <1>1, <2>1, AbsentAssumption DEF Current
<1>5. /\ op'.mat = op.mat
      /\ \/ op'.step \in {"load", "prepare", "done", "error"}
         \/ o = "ok" /\ op'.step \in {"emptyhead", "file"}
  <2>1. AfterSnapshot \in {"load", "prepare", "done", "emptyhead", "file"}
    BY <1>1 DEF AfterSnapshot, KInv, JInv, OpOK, Ops, Thens
  <2>2. \/ o = "ok" /\ op' = [op EXCEPT !.step = AfterSnapshot]
        \/ op' = [op EXCEPT !.step = "error"]
    BY DEF AnchorHead, Goto
  <2> QED BY <1>1, <2>1, <2>2 DEF Ops
<1>6. ChainOK'
  BY <1>1, <1>2, <1>4 DEF KInv, ChainOK, First, Current, Lags, Dead
<1>7. Ahead'
  BY <1>1, <1>5, AheadKept
<1>8. StepOK'
  <2>1. CASE op'.step \in {"load", "prepare", "done", "error"}
    BY <2>1, Harmless
  <2>2. CASE o = "ok" /\ op'.step \in {"emptyhead", "file"}
    <3>1. Current' /\ file' # NoFile /\ TypeOK'
      BY <1>1, <1>2, <1>4, <2>2 DEF JInv
    <3>3. (TypeOK /\ file # NoFile /\ Current => Snap.class = "current")'
      BY SnapMeaning, PTL
    <3>4. Snap'.class = "current"
      BY <3>1, <3>3
    <3> QED BY <2>2, <3>4 DEF StepOK
  <2> QED BY <1>5, <2>1, <2>2
<1> QED BY <1>6, <1>7, <1>8 DEF KInv

\* The file that is dropped did not count.
LEMMA DiscardEmptiedK ==
    ASSUME KInv, JInv', NEW o \in Oks, DiscardEmptied(o)
    PROVE  KInv'
<1>1. /\ UNCHANGED <<head, keyed, cut, revs, store>> /\ op \in Ops /\ op.step = "discard"
      /\ Snap.class = "discard" /\ ~Alive /\ file' \in {file, NoFile} /\ head # NoHead
      /\ head.state = "empty"
  BY SnapMeaning, SnapAlive DEF DiscardEmptied, Written, disk, history, KInv, JInv, MoreTypes,
           StepOK
<1>2. ~Alive'
  BY <1>1 DEF Alive, Dead
<1>3. op'.mat = op.mat /\ op'.step \in {"load", "prepare", "done", "emptyhead", "file"}
  <2>1. AfterSnapshot \in {"load", "prepare", "done", "emptyhead", "file"}
    BY <1>1 DEF AfterSnapshot, KInv, JInv, OpOK, Ops, Thens
  <2> QED BY <1>1, <2>1 DEF DiscardEmptied, Goto, Ops
<1>4. Snap'.class \in {"discard", "empty"}
  <2>1. CASE file' = file
    BY <1>1, <2>1 DEF Snap
  <2>2. CASE file' = NoFile
    BY <1>1, <2>2 DEF Snap, CheckpointSnapshot, Snapshot
  <2> QED BY <1>1, <2>1, <2>2
<1>5. ChainOK'
  BY <1>1 DEF KInv, ChainOK, First, Current, Lags, Dead
<1>6. Ahead'
  BY <1>1, <1>2, <1>3, AheadKept
<1>7. StepOK'
  BY <1>3, <1>4 DEF StepOK
<1> QED BY <1>5, <1>6, <1>7 DEF KInv

\* A new file is one ahead of the head and says what memory said.
LEMMA WriteFileK ==
    ASSUME KInv, JInv', NEW o \in Oks, WriteFile(o)
    PROVE  KInv'
<1>1. /\ UNCHANGED <<head, keyed, cut, revs, store>> /\ op \in Ops /\ op.step = "file"
      /\ Snap.class \in {"current", "empty", "discard"} /\ TypeOK
      /\ Snap.gen \in Nat /\ Snap.hash \in Nat /\ op.mat \in Contents /\ now + 1 \in Nat
  BY SnapType DEF WriteFile, disk, history, KInv, JInv, MoreTypes, StepOK, Ops
<1>2. op'.mat = op.mat /\ (op'.step = "revoke" \/ (o = "ok" /\ op'.step = "head"))
  <2>1. \/ o = "ok" /\ op' = [op EXCEPT !.step = "head"]
        \/ op' = [op EXCEPT !.step = "revoke"]
    BY DEF WriteFile, Goto
  <2> QED BY <1>1, <2>1 DEF Ops
<1> DEFINE f == [gen |-> Snap.gen + 1,
                 prev |-> IF Snap.class = "current" THEN Snap.hash ELSE Genesis,
                 saved |-> now + 1, sess |-> op.mat]
<1>3. f \in Files /\ f # NoFile
  BY <1>1, AbsentAssumption DEF Files, Genesis
<1>4. (file' = f \/ file' = file) /\ (o = "ok" => file' = f)
  BY DEF WriteFile, Written
<1>5. CASE file' = file
  <2>1. Alive' => Alive /\ file' = file
    BY <1>1, <1>5 DEF Alive, Dead
  <2>2. Ahead'
    BY <1>1, <1>2, <2>1, AheadKept
  <2>3. ChainOK'
    BY <1>1, <1>5 DEF KInv, ChainOK, First, Current, Lags, Dead
  <2>4. StepOK'
    <3>1. CASE o = "ok"
      <4>1. file = f
        BY <1>4, <1>5, <3>1
      <4>2. Snap.gen = file.gen \/ Snap.class # "current"
        BY <1>1, SnapMeaning
      <4>3. file.gen = Snap.gen + 1
        BY <4>1
      <4>4. Snap.class = "discard"
        BY <1>1, <1>3, <4>1, <4>2, <4>3, SnapMeaning
      <4>5. FALSE
        BY <1>1, <1>3, <4>1, <4>3, <4>4, SnapMeaning DEF Files
      <4> QED BY <4>5
    <3> QED BY <1>2, <3>1, Harmless
  <2> QED BY <2>2, <2>3, <2>4 DEF KInv
<1>6. CASE file' = f
  <2>1. /\ file'.gen = Snap.gen + 1 /\ file'.sess = op.mat /\ file' # NoFile
        /\ file'.prev = IF Snap.class = "current" THEN Snap.hash ELSE Genesis
    BY <1>3, <1>6
  <2>2. First' \/ Lags'
    <3>1. CASE Snap.class = "current"
      <4>1. Current /\ Snap.gen = file.gen /\ Snap.hash = file.saved
        BY <1>1, <3>1, SnapMeaning
      <4> QED BY <1>1, <2>1, <3>1, <4>1 DEF Current, Lags
    <3>2. CASE Snap.class = "empty"
      <4>1. \/ head = NoHead /\ Snap.gen = 0
            \/ head # NoHead /\ head.state = "empty" /\ Snap.gen = head.gen
        BY <1>1, <3>2, SnapMeaning
      <4> QED BY <1>1, <2>1, <3>2, <4>1 DEF First, Lags
    <3>3. CASE Snap.class = "discard"
      <4>1. head # NoHead /\ head.state = "empty" /\ Snap.gen = head.gen
        BY <1>1, <3>3, SnapMeaning
      <4> QED BY <1>1, <2>1, <3>3, <4>1 DEF Lags
    <3> QED BY <1>1, <3>1, <3>2, <3>3
  <2>3. Alive'
    <3>1. head # NoHead => head.gen \in Nat
      BY <1>1 DEF TypeOK, Heads
    <3> QED BY <1>1, <2>1, <2>2, <3>1 DEF Alive, Dead, First, Lags
  <2>4. ChainOK'
    BY <2>2 DEF ChainOK
  <2>5. StepOK'
    BY <1>2, <2>1, <2>3 DEF StepOK
  <2>6. Ahead'
    <3>1. Fresh(store)' /\ Fresh(op.mat)' /\ Later(store, op.mat)'
      BY <1>1, <1>2 DEF KInv, Ahead, Fresh, Later
    <3>2. \A s \in Sessions : op.mat[s] \in Nat
      BY <1>1 DEF Contents
    <3>3. Later(store, file.sess)' /\ Later(op.mat, file.sess)'
      BY <1>1, <1>2, <2>1, <3>2 DEF KInv, Ahead, Later
    <3>4. \A s \in Sessions : file'.sess[s] = 0 \/ file'.sess[s] > cut'[GuildOf[s]]
      BY <1>1, <2>1 DEF KInv, Ahead, Fresh
    <3> QED BY <3>1, <3>3, <3>4 DEF Ahead
  <2> QED BY <2>4, <2>5, <2>6 DEF KInv
<1> QED BY <1>4, <1>5, <1>6

\* The head now names the file that was just written.
LEMMA WriteHeadK ==
    ASSUME KInv, JInv', NEW o \in Oks, WriteHead(o)
    PROVE  KInv'
<1>1. /\ UNCHANGED <<file, keyed, cut, revs, store>> /\ op \in Ops /\ op.step = "head"
      /\ Alive /\ file.sess = op.mat /\ file # NoFile /\ file \in Files
  BY DEF WriteHead, disk, history, KInv, JInv, MoreTypes, StepOK, TypeOK, OpOK
<1>2. /\ op'.mat = op.mat /\ op'.guild = op.guild /\ op'.kind = op.kind
      /\ op'.step \in {"verify", "finish_guild", "done", "error"}
      /\ op'.step = "finish_guild" => op.kind \in {"reset", "recover"}
  <2>1. /\ AfterFlush \in {"verify", "finish_guild", "done"}
        /\ AfterFlush = "finish_guild" => op.kind \in {"reset", "recover"}
    BY DEF AfterFlush
  <2>2. op' = [op EXCEPT !.step = AfterFlush] \/ op' = [op EXCEPT !.step = "error"]
    BY DEF WriteHead, Goto
  <2> QED BY <1>1, <2>1, <2>2 DEF Ops
<1>3. head' = head \/ (Current' /\ head' # NoHead)
  <2>1. [state |-> "active", gen |-> file.gen, hash |-> file.saved] \in Heads
    BY <1>1 DEF Heads, Files
  <2>2. head' = head \/ head' = [state |-> "active", gen |-> file.gen, hash |-> file.saved]
    BY DEF WriteHead, Written
  <2> QED BY <1>1, <2>1, <2>2, AbsentAssumption DEF Current
<1>4. ChainOK'
  BY <1>1, <1>3 DEF KInv, ChainOK, First, Current, Lags, Dead
<1>5. Ahead'
  BY <1>1, <1>2, AheadKept
<1>6. StepOK'
  <2>1. op'.step = "finish_guild" => \A s \in Sessions : GuildOf[s] = op'.guild => file'.sess[s] = 0
    BY <1>1, <1>2 DEF KInv, JInv, OpOK
  <2> QED BY <1>2, <2>1 DEF StepOK
<1> QED BY <1>4, <1>5, <1>6 DEF KInv

\* An empty head above the file leaves it behind.
LEMMA EmptyHeadKills ==
    ASSUME KInv, JInv', UNCHANGED <<file, keyed, cut, revs, store>>, op'.mat = op.mat,
           NEW n \in Nat, file # NoFile => file.gen <= n,
           head' = head \/ head' = [state |-> "empty", gen |-> n, hash |-> Genesis],
           op'.step \notin {"file", "emptyhead", "anchor", "discard", "head", "finish_guild"},
           op'.step = "emptyfile" => head' = [state |-> "empty", gen |-> n, hash |-> Genesis]
    PROVE  KInv'
<1>1. [state |-> "empty", gen |-> n, hash |-> Genesis] # NoHead
  BY AbsentAssumption DEF Heads, Genesis
<1>2. head' = [state |-> "empty", gen |-> n, hash |-> Genesis] => ~Alive' /\ (file # NoFile => Dead')
  BY <1>1 DEF Alive, Dead
<1>3. ChainOK'
  BY <1>2 DEF KInv, ChainOK, First, Current, Lags, Dead
<1>4. Alive' => Alive /\ file' = file
  BY <1>2 DEF Alive, Dead
<1>5. Ahead'
  BY <1>4, AheadKept
<1>6. StepOK'
  BY <1>2 DEF StepOK
<1> QED BY <1>3, <1>5, <1>6 DEF KInv

\* The empty head leaves the file behind.
LEMMA WriteEmptyHeadK ==
    ASSUME KInv, JInv', NEW o \in Oks, WriteEmptyHead(o)
    PROVE  KInv'
<1>1. /\ UNCHANGED <<file, keyed, cut, revs, store>> /\ op \in Ops /\ op.step = "emptyhead"
      /\ Snap.class \in {"current", "empty", "discard"} /\ Snap.gen \in Nat /\ TypeOK
  BY SnapType DEF WriteEmptyHead, disk, history, KInv, JInv, MoreTypes, StepOK
<1>2. file # NoFile => file.gen <= Snap.gen + 1
  BY <1>1, SnapMeaning DEF TypeOK, Files
<1>3. /\ head' = head \/ head' = [state |-> "empty", gen |-> Snap.gen + 1, hash |-> Genesis]
      /\ o = "ok" => head' = [state |-> "empty", gen |-> Snap.gen + 1, hash |-> Genesis]
  BY DEF WriteEmptyHead, Written
<1>4. op'.mat = op.mat /\ (op'.step = "revoke" \/ (o = "ok" /\ op'.step = "emptyfile"))
  <2>1. \/ o = "ok" /\ op' = [op EXCEPT !.step = "emptyfile"]
        \/ op' = [op EXCEPT !.step = "revoke"]
    BY DEF WriteEmptyHead, Goto
  <2> QED BY <1>1, <2>1 DEF Ops
<1>5. Snap.gen + 1 \in Nat
  BY <1>1
<1> QED BY <1>1, <1>2, <1>3, <1>4, <1>5, EmptyHeadKills

\* A revocation's head is not below the file, if it is above the old head.
LEMMA RevokeTop ==
    ASSUME KInv, NEW top,
           top = IF op.step = "revoke" /\ head # NoHead /\ head.gen > mem.gen
                 THEN head.gen ELSE mem.gen
    PROVE  /\ top + 1 \in Nat
           /\ head # NoHead /\ op.step = "revoke" => top + 1 > head.gen
           /\ (head # NoHead => top + 1 > head.gen) => (file # NoFile => file.gen <= top + 1)
<1>1. mem.gen \in Nat /\ TypeOK
  BY DEF KInv, JInv, MoreTypes, Mems
<1>2. top \in Nat /\ (head # NoHead /\ op.step = "revoke" => head.gen <= top)
  BY <1>1 DEF TypeOK, Heads
<1>3. file # NoFile => file.gen \in Nat
  BY <1>1 DEF TypeOK, Files
<1>4. head # NoHead => head.gen \in Nat
  BY <1>1 DEF TypeOK, Heads
<1>5. file # NoFile /\ head = NoHead => file.gen = 1
  BY DEF KInv, ChainOK, First, Current, Lags, Dead
<1>6. file # NoFile /\ head # NoHead => file.gen <= head.gen + 1
  BY <1>3, <1>4 DEF KInv, ChainOK, First, Current, Lags, Dead
<1> QED BY <1>2, <1>3, <1>4, <1>5, <1>6

\* So a revocation leaves every file behind.
LEMMA RevokeHeadK ==
    ASSUME KInv, JInv', NEW o \in Oks, RevokeHead(o), HeadKept
    PROVE  KInv'
<1> DEFINE top == IF op.step = "revoke" /\ head # NoHead /\ head.gen > mem.gen
                  THEN head.gen ELSE mem.gen
<1>1. UNCHANGED <<file, keyed, cut, revs, store>> /\ op \in Ops
  BY DEF RevokeHead, disk, history, KInv, JInv, MoreTypes
<1>2. /\ top + 1 \in Nat
      /\ (head # NoHead => top + 1 > head.gen) => (file # NoFile => file.gen <= top + 1)
  BY RevokeTop
<1>3. head' = head \/ head' = [state |-> "empty", gen |-> top + 1, hash |-> Genesis]
  BY DEF RevokeHead, Written
<1>4. op'.mat = op.mat /\ op'.step \in {"unfile", "unhead"}
  BY <1>1 DEF RevokeHead, Goto, Ops
<1> HIDE DEF top
<1>5. CASE head' = head
  BY <1>1, <1>4, <1>5, Quiet
<1>6. CASE head' # head
  <2>1. head # NoHead => top + 1 > head.gen
    BY <1>3, <1>6 DEF HeadKept
  <2> QED BY <1>1, <1>2, <1>3, <1>4, <2>1, EmptyHeadKills
<1> QED BY <1>5, <1>6

\* A file goes away while the head stays.
LEMMA DropFileK ==
    ASSUME KInv, JInv', NEW o \in Oks, DropEmptiedFile(o) \/ RevokeDropFile(o)
    PROVE  KInv'
<1>1. /\ UNCHANGED <<head, keyed, cut, revs, store>> /\ op \in Ops /\ file' \in {file, NoFile}
  BY DEF DropEmptiedFile, RevokeDropFile, Written, disk, history, KInv, JInv, MoreTypes
<1>2. /\ op'.mat = op.mat
      /\ op'.step \in {"verify", "finish_guild", "done", "error"}
      /\ op'.step = "finish_guild" => op.step = "emptyfile"
  <2>1. AfterFlush \in {"verify", "finish_guild", "done"}
    BY DEF AfterFlush
  <2>2. \/ op.step = "emptyfile" /\ op' = [op EXCEPT !.step = AfterFlush]
        \/ op' = [op EXCEPT !.step = IF op.stale THEN "done" ELSE "error"]
    BY DEF DropEmptiedFile, RevokeDropFile, Goto
  <2> QED BY <1>1, <2>1, <2>2 DEF Ops
<1>3. Alive' => Alive /\ file' = file
  BY <1>1 DEF Alive, Dead
<1>4. ChainOK'
  BY <1>1 DEF KInv, ChainOK, First, Current, Lags, Dead
<1>5. Ahead'
  BY <1>1, <1>2, <1>3, AheadKept
<1>6. StepOK'
  BY <1>2, <1>3 DEF StepOK, KInv
<1> QED BY <1>4, <1>5, <1>6 DEF KInv

\* A revocation that does not drop a head changes no file here.
LEMMA RevokeDropHeadK ==
    ASSUME KInv, JInv', NEW o \in Oks, RevokeDropHead(o), HeadKept
    PROVE  KInv'
<1>1. head' = head
  BY DEF RevokeDropHead, Written, HeadKept
<1>2. /\ UNCHANGED <<file, keyed, cut, revs, store>> /\ op \in Ops
  BY DEF RevokeDropHead, disk, history, KInv, JInv, MoreTypes
<1>3. op'.mat = op.mat /\ op'.step \in {"rehead", "unfile"}
  BY <1>2 DEF RevokeDropHead, Goto, Ops
<1> QED BY <1>1, <1>2, <1>3, Quiet

\* The guild's revocation keeps the file's sessions out while they are cut off.
LEMMA ClearRuntimeK ==
    ASSUME KInv, JInv', NEW o \in Oks, ClearRuntime(o)
    PROVE  KInv'
<1>0. /\ UNCHANGED <<file, head, keyed, revs>> /\ op \in Ops /\ op.step = "runtime"
      /\ op.guild \in revs /\ op.guild \in Guilds /\ op.kind \in {"reset", "recover"}
      /\ TypeOK /\ turns \in Nat
  BY DEF ClearRuntime, disk, KInv, JInv, MoreTypes, OpOK
<1>1. /\ op'.step \in {"snap", "error"}
      /\ op'.mat \in {op.mat, store'}
  BY <1>0 DEF ClearRuntime, Ops
<1>2. /\ cut' = cut \/ cut' = [cut EXCEPT ![op.guild] = turns]
      /\ \A s \in Sessions : store'[s] \in {0, store[s]}
      /\ cut' # cut => \A s \in Sessions : GuildOf[s] = op.guild => store'[s] = 0
  <2>1. op.kind = "recover" => \A s \in Sessions : GuildOf[s] = op.guild => store[s] = 0
    BY DEF KInv, JInv, PhaseOK
  <2> QED BY <1>0, <2>1 DEF ClearRuntime
<1>3. \A g \in Guilds : cut'[g] = cut[g] \/ g = op.guild
  BY <1>0, <1>2 DEF TypeOK
<1>4. \A s \in Sessions : GuildOf[s] = op.guild => op.mat[s] = 0
  BY <1>0 DEF KInv, JInv, OpOK
<1>5. \A s \in Sessions : /\ GuildOf[s] \in Guilds /\ store[s] \in Nat /\ op.mat[s] \in Nat
                          /\ file # NoFile => file.sess[s] \in Nat
  BY <1>0, CheckpointAssumption DEF TypeOK, Contents, Files
<1>6. cut' = cut \/ \A s \in Sessions : GuildOf[s] = op.guild => store'[s] = 0 /\ op'.mat[s] = 0
  BY <1>1, <1>2, <1>4
<1>7. Fresh(store)' /\ Fresh(op.mat)'
  BY <1>1, <1>2, <1>3, <1>5, <1>6 DEF KInv, Ahead, Fresh
<1>8. Later(store, op.mat)'
  BY <1>1, <1>2, <1>5 DEF KInv, Ahead, Later
<1>9. Alive' = Alive
  BY <1>0 DEF Alive, Dead
<1>10. Alive => Later(store, file.sess)' /\ Later(op.mat, file.sess)'
  <2>1. Alive => file # NoFile
    BY DEF Alive
  <2> QED BY <1>0, <1>1, <1>2, <1>5, <2>1 DEF KInv, Ahead, Later
<1>11. Alive => \A s \in Sessions :
          GuildOf[s] \in revs' \/ file'.sess[s] = 0 \/ file'.sess[s] > cut'[GuildOf[s]]
  BY <1>0, <1>3, <1>5 DEF KInv, Ahead
<1>12. Ahead'
  BY <1>7, <1>8, <1>9, <1>10, <1>11 DEF Ahead
<1>13. ChainOK'
  BY <1>0 DEF KInv, ChainOK, First, Current, Lags, Dead
<1>14. StepOK'
  BY <1>1, Harmless
<1> QED BY <1>12, <1>13, <1>14 DEF KInv

\* A reset is struck off once the file has nothing of the guild.
LEMMA FinishGuildK ==
    ASSUME KInv, JInv', NEW o \in Oks, FinishGuild(o)
    PROVE  KInv'
<1>1. /\ UNCHANGED <<file, head, keyed, cut, store>> /\ op \in Ops /\ op.step = "finish_guild"
      /\ revs' \in {revs, revs \ {op.guild}}
  BY DEF FinishGuild, Written, history, KInv, JInv, MoreTypes
<1>2. op'.mat = op.mat /\ op'.step \in {"done", "error"}
  BY <1>1 DEF FinishGuild, Goto, Ops
<1>3. Alive' = Alive
  BY <1>1 DEF Alive, Dead
<1>4. Ahead'
  <2>1. Fresh(store)' /\ Fresh(op.mat)' /\ Later(store, op.mat)'
    BY <1>1, <1>2 DEF KInv, Ahead, Fresh, Later
  <2>2. Alive => Later(store, file.sess)' /\ Later(op.mat, file.sess)'
    BY <1>1, <1>2 DEF KInv, Ahead, Later
  <2>3. Alive => \A s \in Sessions :
          GuildOf[s] \in revs' \/ file'.sess[s] = 0 \/ file'.sess[s] > cut'[GuildOf[s]]
    BY <1>1 DEF KInv, Ahead, StepOK
  <2> QED BY <1>3, <2>1, <2>2, <2>3 DEF Ahead
<1>5. ChainOK'
  BY <1>1 DEF KInv, ChainOK, First, Current, Lags, Dead
<1>6. StepOK'
  BY <1>2, Harmless
<1> QED BY <1>4, <1>5, <1>6 DEF KInv

\* A restore loads from a current file what no reset has cut off.
LEMMA LoadSessionsK ==
    ASSUME KInv, JInv', NEW aged \in SUBSET Sessions, LoadSessions(aged)
    PROVE  KInv'
<1>1. /\ UNCHANGED <<file, head, keyed, cut, revs>> /\ op \in Ops /\ op.step = "load"
      /\ Alive /\ file \in Files /\ op.kind = "restore" /\ TypeOK
  <2>1. /\ UNCHANGED <<file, head, keyed, cut, revs>> /\ op.step = "load" /\ Snap.class = "current"
    BY DEF LoadSessions, disk
  <2>2. op \in Ops /\ TypeOK /\ op.kind = "restore"
    BY <2>1 DEF KInv, JInv, MoreTypes, OpOK
  <2>3. Alive
    BY <2>1, SnapAlive
  <2> QED BY <2>1, <2>2, <2>3 DEF Alive, TypeOK
<1>2. op'.mat = op.mat /\ op'.step = "done"
  BY <1>1 DEF LoadSessions, Goto, Ops
<1>3. \A s \in Sessions : store'[s] = 0 \/ (GuildOf[s] \notin revs /\ store'[s] = file.sess[s])
  BY DEF LoadSessions
<1>4. Alive'
  BY <1>1 DEF Alive, Dead
<1>5. \A s \in Sessions : op.mat[s] \in Nat /\ file.sess[s] \in Nat
  BY <1>1 DEF TypeOK, Contents, Files
<1>6. Fresh(store)' /\ Fresh(op.mat)'
  BY <1>1, <1>2, <1>3 DEF KInv, Ahead, Fresh
<1>7. Later(store, op.mat)'
  <2>1. \A s \in Sessions : op.mat[s] = 0
    BY <1>1 DEF KInv, JInv, OpOK, NoSessions
  <2> QED BY <1>2, <1>3, <1>5, <2>1 DEF Later
<1>8. Later(store, file.sess)' /\ Later(op.mat, file.sess)'
  BY <1>1, <1>2, <1>3, <1>5 DEF KInv, Ahead, Later
<1>9. Ahead'
  BY <1>1, <1>4, <1>6, <1>7, <1>8 DEF KInv, Ahead
<1>10. ChainOK'
  BY <1>1 DEF KInv, ChainOK, First, Current, Lags, Dead
<1>11. StepOK'
  BY <1>2, Harmless
<1> QED BY <1>9, <1>10, <1>11 DEF KInv

\* A new turn is later than every other.
LEMMA BeginTurnK ==
    ASSUME KInv, JInv', NEW s \in Sessions, BeginTurn(s)
    PROVE  KInv'
<1>1. /\ UNCHANGED <<file, head, keyed, cut, revs, op>> /\ store' = [store EXCEPT ![s] = turns + 1]
      /\ TypeOK /\ turns \in Nat
  BY DEF BeginTurn, disk, history, KInv, JInv, MoreTypes
<1>2. /\ \A x \in Sessions : store'[x] = store[x] \/ store'[x] = turns + 1
      /\ \A x \in Sessions : /\ op.mat[x] \in Nat /\ op.mat[x] <= turns
                             /\ GuildOf[x] \in Guilds
                             /\ file # NoFile => file.sess[x] \in Nat /\ file.sess[x] <= turns
      /\ \A g \in Guilds : cut[g] \in Nat /\ cut[g] <= turns
  BY <1>1, CheckpointAssumption DEF TypeOK, Contents, Files, KInv, JInv, Bounds
<1>3. Fresh(store)' /\ Fresh(op.mat)'
  BY <1>1, <1>2 DEF KInv, Ahead, Fresh
<1>4. Later(store, op.mat)'
  BY <1>1, <1>2 DEF KInv, Ahead, Later
<1>5. (Alive' <=> Alive) /\ (Alive => file # NoFile)
  BY <1>1 DEF Alive, Dead
<1>6. Alive => Later(store, file.sess)' /\ Later(op.mat, file.sess)'
  BY <1>1, <1>2, <1>5 DEF KInv, Ahead, Later
<1>7. Ahead'
  BY <1>1, <1>3, <1>4, <1>5, <1>6 DEF KInv, Ahead
<1>8. ChainOK'
  BY <1>1 DEF KInv, ChainOK, First, Current, Lags, Dead
<1>9. StepOK'
  BY <1>1 DEF KInv, StepOK, Alive, Dead, Snap
<1> QED BY <1>7, <1>8, <1>9 DEF KInv

-----------------------------------------------------------------------------
(* Invariance *)

\* The initial state is well typed and empty.
LEMMA InitK == ASSUME Init PROVE KInv
<1> USE DEF Init
<1>1. Idle \in Ops /\ FreshMem \in Mems /\ NoSessions \in Contents
  BY DEF Idle, Ops, Kinds, Steps, Thens, Contents, NoSessions, FreshMem, Mems
<1>2. \A s \in Sessions : NoSessions[s] = 0 /\ Idle.mat[s] = 0
  BY DEF Idle, NoSessions
<1>3. TypeOK
  BY <1>1, CheckpointAssumption DEF TypeOK, Ops, NoCall
<1>4. MoreTypes
  BY <1>1 DEF MoreTypes
<1>5. OpOK /\ PhaseOK
  BY <1>2 DEF OpOK, PhaseOK, Idle
<1>6. Bounds
  BY <1>1, <1>2 DEF Bounds, FreshMem
<1>7. ChainOK /\ StepOK
  BY DEF ChainOK, StepOK, Idle
<1>8. Ahead
  BY <1>2 DEF Ahead, Fresh, Later, Alive
<1> QED BY <1>3, <1>4, <1>5, <1>6, <1>7, <1>8 DEF KInv, JInv

\* Every step keeps types and shapes, whatever fails.
LEMMA NextJ == ASSUME JInv, Next PROVE JInv'
<1>1. \/ AfterStart \/ WriteStatus \/ LoadNothing
      \/ LoadRevocationsFail \/ StartFlush \/ RevokeUnread \/ Crash
      \/ \E o \in Oks :
          \/ Start(o) \/ ReadCheckpoint(o) \/ AnchorHead(o) \/ DiscardEmptied(o)
          \/ WriteFile(o) \/ WriteHead(o)
          \/ WriteEmptyHead(o) \/ DropEmptiedFile(o)
          \/ RevokeHead(o) \/ RevokeDropHead(o) \/ RevokeDropFile(o)
          \/ EndInError(o) \/ EndWell(o) \/ VerifyCommit(o)
          \/ RevokeGuild(o) \/ ClearRuntime(o) \/ FinishGuild(o)
      \/ \E b \in BOOLEAN : LoadRevoked(b) \/ PrepareCommit(b)
      \/ \E aged \in SUBSET Sessions : LoadSessions(aged)
      \/ \E s \in Sessions :
          \/ BeginTurn(s) \/ CallCommit(s) \/ StartCommit(s)
          \/ ReadReceipt(s)
      \/ \E g \in Guilds : StartReset(g)
  BY DEF Next, Oks
<1>2. CASE \/ AfterStart \/ WriteStatus \/ LoadNothing
           \/ LoadRevocationsFail \/ StartFlush \/ RevokeUnread \/ Crash
  BY <1>2, AfterStartJ, WriteStatusJ, LoadNothingJ, LoadRevocationsFailJ, StartFlushJ,
     RevokeUnreadJ, CrashJ
<1>3. ASSUME NEW o \in Oks,
          \/ Start(o) \/ ReadCheckpoint(o) \/ AnchorHead(o) \/ DiscardEmptied(o)
          \/ WriteFile(o) \/ WriteHead(o)
          \/ WriteEmptyHead(o) \/ DropEmptiedFile(o)
          \/ RevokeHead(o) \/ RevokeDropHead(o) \/ RevokeDropFile(o)
          \/ EndInError(o) \/ EndWell(o) \/ VerifyCommit(o)
          \/ RevokeGuild(o) \/ ClearRuntime(o) \/ FinishGuild(o)
      PROVE JInv'
  BY <1>3, StartJ, ReadCheckpointJ, AnchorHeadJ, DiscardEmptiedJ, WriteFileJ, WriteHeadJ,
     WriteEmptyHeadJ, DropEmptiedFileJ, RevokeHeadJ, RevokeDropHeadJ, RevokeDropFileJ,
     EndInErrorJ, EndWellJ, VerifyCommitJ, RevokeGuildJ, ClearRuntimeJ, FinishGuildJ
<1>4. ASSUME NEW b \in BOOLEAN, LoadRevoked(b) \/ PrepareCommit(b) PROVE JInv'
  BY <1>4, LoadRevokedJ, PrepareCommitJ
<1>5. ASSUME NEW aged \in SUBSET Sessions, LoadSessions(aged) PROVE JInv'
  BY <1>5, LoadSessionsJ
<1>6. ASSUME NEW s \in Sessions,
             BeginTurn(s) \/ CallCommit(s) \/ StartCommit(s) \/ ReadReceipt(s)
      PROVE JInv'
  BY <1>6, BeginTurnJ, CallCommitJ, StartCommitJ, ReadReceiptJ
<1>7. ASSUME NEW g \in Guilds, StartReset(g) PROVE JInv'
  BY <1>7, StartResetJ
<1> QED BY <1>1, <1>2, <1>3, <1>4, <1>5, <1>6, <1>7

\* Every step whose revocation, if it is one, loses no head keeps the chain.
LEMMA NextK == ASSUME KInv, Next, RevokesKeep PROVE KInv'
<1>1. JInv'
  BY NextJ DEF KInv
<1>2. \/ AfterStart \/ WriteStatus \/ LoadNothing \/ LoadRevocationsFail
      \/ StartFlush \/ RevokeUnread
      \/ \E o \in Oks : \/ Start(o) \/ EndInError(o) \/ EndWell(o)
                       \/ VerifyCommit(o) \/ RevokeGuild(o)
      \/ \E b \in BOOLEAN : LoadRevoked(b) \/ PrepareCommit(b)
      \/ \E s \in Sessions : CallCommit(s) \/ StartCommit(s) \/ ReadReceipt(s)
      \/ \E g \in Guilds : StartReset(g)
      \/ Crash
      \/ \E o \in Oks :
          \/ ReadCheckpoint(o) \/ AnchorHead(o) \/ DiscardEmptied(o)
          \/ WriteFile(o) \/ WriteHead(o) \/ WriteEmptyHead(o)
          \/ DropEmptiedFile(o) \/ RevokeDropFile(o)
          \/ RevokeHead(o) \/ RevokeDropHead(o) \/ ClearRuntime(o) \/ FinishGuild(o)
      \/ \E aged \in SUBSET Sessions : LoadSessions(aged)
      \/ \E s \in Sessions : BeginTurn(s)
  BY DEF Next, Oks
<1>3. ASSUME NEW o \in Oks,
          \/ ReadCheckpoint(o) \/ AnchorHead(o) \/ DiscardEmptied(o)
          \/ WriteFile(o) \/ WriteHead(o) \/ WriteEmptyHead(o)
          \/ DropEmptiedFile(o) \/ RevokeDropFile(o)
          \/ RevokeHead(o) \/ RevokeDropHead(o) \/ ClearRuntime(o) \/ FinishGuild(o)
      PROVE KInv'
  <2>1. RevokeHead(o) \/ RevokeDropHead(o) => HeadKept
    BY DEF RevokesKeep
  <2> QED BY <1>1, <1>3, <2>1, ReadCheckpointK, AnchorHeadK, DiscardEmptiedK, WriteFileK,
     WriteHeadK, WriteEmptyHeadK, DropFileK, RevokeHeadK, RevokeDropHeadK, ClearRuntimeK,
     FinishGuildK
<1>4. ASSUME NEW aged \in SUBSET Sessions, LoadSessions(aged) PROVE KInv'
  BY <1>1, <1>4, LoadSessionsK
<1>5. ASSUME NEW s \in Sessions, BeginTurn(s) PROVE KInv'
  BY <1>1, <1>5, BeginTurnK
<1> QED BY <1>1, <1>2, <1>3, <1>4, <1>5, QuietActions

\* A stutter changes nothing.
LEMMA StutterK == ASSUME UNCHANGED vars PROVE (JInv => JInv') /\ (KInv => KInv')
<1>1. UNCHANGED <<file, head, revs, status, keyed, phase, store, mem, op, call, blocked,
                  turns, now, crashes, faults, cut, done>>
  BY DEF vars, disk, history
<1>2. JInv => JInv'
  BY <1>1 DEF JInv, TypeOK, MoreTypes, OpOK, PhaseOK, Bounds
<1>3. (ChainOK => ChainOK') /\ (StepOK => StepOK') /\ (Ahead => Ahead')
  BY <1>1 DEF ChainOK, StepOK, Ahead, First, Current, Lags, Dead, Alive, Snap, Fresh, Later
<1> QED BY <1>2, <1>3 DEF KInv

\* The types, and which steps an operation can be at, hold whatever fails.
THEOREM ShapesAlways == Spec => []JInv
<1>1. Init => JInv
  BY InitK DEF KInv
<1>2. JInv /\ [Next]_vars => JInv'
  BY NextJ, StutterK
<1> QED BY <1>1, <1>2, PTL DEF Spec

\* Every variable keeps its type.
THEOREM TypeCorrect == Spec => []TypeOK
<1>1. JInv => TypeOK
  BY DEF JInv
<1> QED BY <1>1, ShapesAlways, PTL

\* A lost head is never forgotten, and only a revocation can lose one.
LEMMA LossRecorded ==
    ASSUME Next
    PROVE  /\ headLost => headLost'
           /\ ~headLost' /\ JInv /\ JInv' => RevokesKeep
<1>1. \/ headLost' = headLost
      \/ \E o \in Oks : RevokeHead(o) \/ RevokeDropHead(o)
  BY DEF Next, Start, AfterStart, WriteStatus, LoadNothing, LoadRevocationsFail, StartFlush, Crash,
       RevokeUnread, ReadCheckpoint, AnchorHead, DiscardEmptied, WriteFile, WriteHead,
       WriteEmptyHead, DropEmptiedFile, RevokeDropFile, EndInError, EndWell, VerifyCommit,
       RevokeGuild, ClearRuntime, FinishGuild, LoadRevoked, PrepareCommit, LoadSessions,
       BeginTurn, CallCommit, StartCommit, ReadReceipt, StartReset, history, Oks
<1>2. ASSUME NEW o \in Oks, RevokeHead(o) \/ RevokeDropHead(o)
      PROVE  headLost' = (headLost \/ LosesHead)
  BY <1>2 DEF RevokeHead, RevokeDropHead
<1>3. headLost => headLost'
  BY <1>1, <1>2
<1>4. ASSUME ~headLost', JInv, JInv', NEW o \in Oks, RevokeHead(o) \/ RevokeDropHead(o)
      PROVE  HeadKept
  <2>1. ~LosesHead
    BY <1>2, <1>4
  <2>2. (head # NoHead => head.gen \in Nat) /\ (head' # NoHead => head'.gen \in Nat)
    BY <1>4 DEF JInv, TypeOK, Heads
  <2> QED BY <2>1, <2>2 DEF LosesHead, HeadKept
<1> QED BY <1>3, <1>4 DEF RevokesKeep

\* Every step keeps the chain until a head is lost.
LEMMA NextH == ASSUME HInv, [Next]_vars PROVE HInv' /\ (headLost => headLost')
<1>1. CASE Next
  <2>1. headLost => headLost'
    BY <1>1, LossRecorded
  <2>2. ASSUME ~headLost' PROVE KInv'
    <3>1. KInv /\ JInv /\ JInv'
      BY <1>1, <2>1, <2>2, NextJ DEF HInv, KInv
    <3> QED BY <1>1, <2>2, <3>1, LossRecorded, NextK
  <2> QED BY <2>1, <2>2 DEF HInv
<1>2. CASE UNCHANGED vars
  <2>1. headLost' = headLost
    BY <1>2 DEF vars, history
  <2> QED BY <1>2, <2>1, StutterK DEF HInv
<1> QED BY <1>1, <1>2

\* Until a head is lost, file and head stay in step and memory ahead of both.
THEOREM ChainAlways == Spec => [](headLost \/ KInv)
<1>1. Init => HInv
  BY InitK DEF HInv
<1>2. HInv /\ [Next]_vars => HInv'
  BY NextH
<1>3. HInv => headLost \/ KInv
  BY DEF HInv
<1> QED BY <1>1, <1>2, <1>3, PTL DEF Spec

\* Until a head is lost, what a guild's reset has cut off never comes back,
\* whatever else has failed.
THEOREM ResetsStay == Spec => [](headLost \/ ResetStays)
<1>1. ASSUME KInv, NEW s \in Sessions, Restorable[s] # 0
      PROVE  Restorable[s] > cut[GuildOf[s]]
  <2>1. Alive /\ GuildOf[s] \notin revs /\ Restorable[s] = file.sess[s]
    BY <1>1, RestorableValue DEF KInv
  <2> QED BY <1>1, <2>1 DEF KInv, Ahead
<1>2. headLost \/ KInv => headLost \/ ResetStays
  BY <1>1 DEF ResetStays
<1> QED BY <1>2, ChainAlways, PTL

-----------------------------------------------------------------------------
(* Refinement *)

\* A file is replaced by nothing or by what the operation carries.
LEMMA FileMoves ==
    ASSUME KInv, Next
    PROVE  \/ file' \in {file, NoFile}
           \/ (file'.sess = op.mat /\ op.step = "file")
<1>1. \/ file' = file
      \/ \E o \in Oks : DiscardEmptied(o) \/ DropEmptiedFile(o) \/ RevokeDropFile(o)
      \/ \E o \in Oks : WriteFile(o)
  BY DEF Next, Start, AfterStart, WriteStatus, LoadNothing, LoadRevocationsFail, StartFlush,
         RevokeUnread, Crash, ReadCheckpoint, AnchorHead, WriteHead, WriteEmptyHead, RevokeHead,
         RevokeDropHead, EndInError, EndWell, VerifyCommit, RevokeGuild, ClearRuntime,
         FinishGuild, LoadRevoked, PrepareCommit, LoadSessions, BeginTurn, CallCommit,
         StartCommit, ReadReceipt, StartReset, disk, Oks
<1>2. ASSUME NEW o \in Oks, DiscardEmptied(o) \/ DropEmptiedFile(o) \/ RevokeDropFile(o)
      PROVE  file' \in {file, NoFile}
  BY <1>2 DEF DiscardEmptied, DropEmptiedFile, RevokeDropFile, Written
<1>3. ASSUME NEW o \in Oks, WriteFile(o)
      PROVE  file' = file \/ (file'.sess = op.mat /\ op.step = "file")
  <2>1. /\ op.step = "file"
        /\ file' = Written(o, [gen |-> Snap.gen + 1,
                               prev |-> IF Snap.class = "current" THEN Snap.hash ELSE Genesis,
                               saved |-> now + 1, sess |-> op.mat], file)
    BY <1>3 DEF WriteFile
  <2> QED BY <2>1 DEF Written
<1> QED BY <1>1, <1>2, <1>3

\* Only the clearing of a guild's sessions cuts turns off.
LEMMA CutMoves ==
    ASSUME Next
    PROVE  cut' = cut \/ \E o \in Oks : ClearRuntime(o)
BY DEF Next, Start, AfterStart, WriteStatus, LoadNothing, LoadRevocationsFail, StartFlush, Crash,
       RevokeUnread, ReadCheckpoint, AnchorHead, DiscardEmptied, WriteFile, WriteHead, WriteEmptyHead,
       DropEmptiedFile, RevokeHead, RevokeDropHead, RevokeDropFile, EndInError, EndWell,
       VerifyCommit, RevokeGuild, FinishGuild, LoadRevoked, PrepareCommit,
       LoadSessions, BeginTurn, CallCommit, StartCommit, ReadReceipt, StartReset,
       history, Oks

\* What a restart would restore is a turn of a file that counts.
LEMMA RestorableType ==
    JInv => /\ Restorable \in [Sessions -> Nat]
            /\ \A s \in Sessions : Restorable[s] # 0 =>
                  Alive /\ GuildOf[s] \notin revs /\ Restorable[s] = file.sess[s]
<1>1. JInv => \A s \in Sessions : Restorable[s] \in Nat
  BY RestorableValue
<1>2. \E f : Restorable = [s \in Sessions |-> f[s]]
  <2>1. Restorable = [s \in Sessions |-> Restorable[s]]
    BY DEF Restorable
  <2> QED BY <2>1
<1> QED BY <1>1, <1>2, RestorableValue

\* One step of the checkpoint saves, resets, or changes nothing that a restart shows.
LEMMA MemoryStep ==
    ASSUME KInv, KInv', Next
    PROVE  Memory!Next
<1>0. (JInv => /\ Restorable \in [Sessions -> Nat]
               /\ \A s \in Sessions : Restorable[s] # 0 =>
                     Alive /\ GuildOf[s] \notin revs /\ Restorable[s] = file.sess[s])'
  BY RestorableType, PTL
<1>1. /\ Restorable' \in [Sessions -> Nat]
      /\ \A s \in Sessions : Restorable'[s] # 0 =>
            Alive' /\ GuildOf[s] \notin revs' /\ Restorable'[s] = file'.sess[s]
  BY <1>0 DEF KInv
<1>2. /\ Restorable \in [Sessions -> Nat]
      /\ \A s \in Sessions : Restorable[s] # 0 =>
            Alive /\ GuildOf[s] \notin revs /\ Restorable[s] = file.sess[s]
  BY RestorableType DEF KInv
<1>3. CASE cut' = cut
  <2>1. ASSUME NEW s \in Sessions
        PROVE  \/ Restorable'[s] \in {0, Restorable[s]}
               \/ Restorable'[s] > Restorable[s] /\ Restorable'[s] > cut[GuildOf[s]]
    <3>1. SUFFICES ASSUME Restorable'[s] # 0, Restorable'[s] # Restorable[s]
                   PROVE  Restorable'[s] > Restorable[s] /\ Restorable'[s] > cut[GuildOf[s]]
      OBVIOUS
    <3>2. /\ Alive' /\ file' # NoFile /\ GuildOf[s] \notin revs'
          /\ Restorable'[s] = file'.sess[s] /\ Restorable'[s] \in Nat /\ Restorable[s] \in Nat
      BY <1>1, <1>2, <3>1 DEF Alive
    <3>3. Restorable'[s] > cut[GuildOf[s]]
      BY <1>3, <3>1, <3>2 DEF KInv, Ahead
    <3>4. Restorable[s] # 0 => Restorable'[s] >= Restorable[s]
      <4>1. CASE file' = file
        BY <1>2, <3>2, <4>1
      <4>2. CASE file'.sess = op.mat /\ op.step = "file"
        BY <1>2, <3>1, <3>2, <4>2 DEF KInv, Ahead, Later
      <4> QED BY <3>2, <4>1, <4>2, FileMoves
    <3> QED BY <3>1, <3>2, <3>3, <3>4
  <2>2. Memory!Save
    BY <1>1, <1>3, <2>1 DEF Memory!Save
  <2> QED BY <2>2 DEF Memory!Next
<1>4. CASE cut' # cut
  <2>1. PICK o \in Oks : ClearRuntime(o)
    BY <1>4, CutMoves
  <2>2. /\ op.step = "runtime" /\ op.guild \in revs /\ op.guild \in Guilds
        /\ cut' = [cut EXCEPT ![op.guild] = turns] /\ cut \in [Guilds -> Nat] /\ turns \in Nat
        /\ UNCHANGED <<file, head, revs, status, keyed>>
    BY <1>4, <2>1 DEF ClearRuntime, KInv, JInv, OpOK, TypeOK, MoreTypes, disk
  <2>3. Restorable' = Restorable
    BY <2>2 DEF Restorable, Snap
  <2>4. \A s \in Sessions : GuildOf[s] = op.guild => Restorable[s] = 0
    BY <1>2, <2>2
  <2>5. /\ cut' \in [Guilds -> Nat] /\ cut'[op.guild] >= cut[op.guild]
        /\ \A h \in Guilds \ {op.guild} : cut'[h] = cut[h]
    BY <2>2 DEF KInv, JInv, Bounds
  <2>6. Memory!Reset(op.guild)
    BY <2>3, <2>4, <2>5 DEF Memory!Reset
  <2> QED BY <2>2, <2>6 DEF Memory!Next
<1> QED BY <1>3, <1>4

\* The checkpoint implements RestorableSessions until a revocation loses a
\* head: what a restart would restore stays, is lost, or moves to a later
\* turn, and nothing that a reset has cut off comes back.
THEOREM MemoryImplemented == Spec => ImplementsMemory
<1>1. Init => Memory!Init
  <2>1. ASSUME Init PROVE Restorable = [s \in Sessions |-> 0] /\ cut = [g \in Guilds |-> 0]
    <3>1. KInv /\ ~Alive
      BY <2>1, InitK DEF Init, Alive
    <3>2. /\ Restorable \in [Sessions -> Nat]
          /\ \A s \in Sessions : Restorable[s] # 0 => Alive
      BY <3>1, RestorableType DEF KInv
    <3> QED BY <2>1, <3>1, <3>2 DEF Init
  <2> QED BY <2>1 DEF Memory!Init
<1>2. HInv /\ [Next]_vars => [headLost' \/ Memory!Next]_<<Restorable, cut>>
  <2>1. ASSUME UNCHANGED vars PROVE UNCHANGED <<Restorable, cut>>
    BY <2>1 DEF vars, disk, history, Restorable, Snap
  <2>2. ASSUME HInv, Next, ~headLost' PROVE Memory!Next
    <3>1. KInv /\ KInv'
      BY <2>2, NextH DEF HInv
    <3> QED BY <2>2, <3>1, MemoryStep
  <2> QED BY <2>1, <2>2
<1>3. headLost \/ KInv => HInv
  BY DEF HInv
<1> QED BY <1>1, <1>2, <1>3, ChainAlways, PTL DEF Spec, ImplementsMemory

-----------------------------------------------------------------------------
(* Without faults *)

\* What KInv says of values and operations, unfolded.
LEMMA Grounds ==
    ASSUME KInv
    PROVE  /\ op \in Ops /\ mem \in Mems /\ done \in Contents /\ store \in Contents
           /\ status \in Nat /\ now \in Nat /\ turns \in Nat /\ mem.revokedAt \in Nat
           /\ op.kind \in Kinds /\ op.mat \in Contents
           /\ \A s \in Sessions : store[s] \in Nat /\ done[s] \in Nat /\ op.mat[s] \in Nat
           /\ \A s \in Sessions : NoSessions[s] = 0
           /\ file # NoFile =>
                 file.saved \in Nat /\ \A s \in Sessions : file.sess[s] \in Nat
           /\ (\A s \in Sessions : done[s] = 0) => done = NoSessions
           /\ (op.step = "none" <=> op.kind = "none")
           /\ phase \in {"down", "start", "ready"}
<1>1. (\A s \in Sessions : done[s] = 0) => done = NoSessions
  BY DEF KInv, JInv, TypeOK, Contents, NoSessions
<1>2. mem.revokedAt \in Nat /\ \A s \in Sessions : NoSessions[s] = 0
  BY DEF KInv, JInv, MoreTypes, Mems, NoSessions
<1>3. /\ op \in Ops /\ mem \in Mems /\ done \in Contents /\ store \in Contents
      /\ status \in Nat /\ now \in Nat /\ turns \in Nat /\ op.kind \in Kinds
      /\ op.mat \in Contents /\ phase \in {"down", "start", "ready"}
      /\ op.step = "none" <=> op.kind = "none"
  BY DEF KInv, JInv, TypeOK, MoreTypes, OpOK
<1>4. \A s \in Sessions : store[s] \in Nat /\ done[s] \in Nat /\ op.mat[s] \in Nat
  BY <1>3 DEF Contents
<1>5. file # NoFile => file.saved \in Nat /\ \A s \in Sessions : file.sess[s] \in Nat
  BY DEF KInv, JInv, TypeOK, Files, Contents
<1> QED BY <1>1, <1>2, <1>3, <1>4, <1>5

\* An operation that is not a restore finds the files in step.
LEMMA OnlyRestoreRejects ==
    ASSUME KInv, Intact, Snap.class \in {"reject", "auth", "discard"}, op.step = "snap"
    PROVE  op.kind = "restore" /\ ~Alive /\ head # NoHead /\ Snap.class # "auth"
<1>1. Snap.class # "auth"
  BY SnapMeaning DEF KInv, JInv, Intact, NewDisk
<1>2. ~Alive
  BY <1>1, SnapAlive
<1>3. file # NoFile
  <2>1. file = NoFile => head = NoHead \/ head.state = "empty"
    BY DEF Intact, Whole
  <2> QED BY <2>1 DEF Snap, CheckpointSnapshot, Snapshot
<1>4. head # NoHead
  BY <1>3 DEF Intact, NewDisk
<1>5. op.kind # "none"
  BY Grounds
<1>6. phase # "down"
  BY <1>5 DEF KInv, JInv, PhaseOK, Idle
<1>7. op.kind = "restore"
  BY <1>2, <1>3, <1>6 DEF Intact, Whole
<1> QED BY <1>1, <1>2, <1>4, <1>7

\* A restore begins with the revocation stamp of the status file.
LEMMA StartI == ASSUME KInv, Intact, KInv', Start("ok") PROVE Intact'
<1>1. /\ UNCHANGED <<file, head, revs, status, store, done>> /\ phase' = "start"
      /\ op'.kind = "restore" /\ op'.step = "snap" /\ op'.then = "load" /\ op'.mat = NoSessions
      /\ mem'.revokedAt = status
  BY DEF Start, disk, history, Idle, FreshMem
<1>2. store = NoSessions
  BY DEF Start, KInv, JInv, PhaseOK
<1>3. Alive' <=> Alive
  BY <1>1 DEF Alive, Dead
<1>4. NewDisk'
  BY <1>1, <1>2, <1>3, Grounds DEF Intact, NewDisk
<1>5. Whole'
  BY <1>1, <1>2, <1>3, Grounds DEF Intact, Whole, NewDisk
<1>6. RevsOK'
  BY <1>1, <1>2, <1>3, Grounds DEF Intact, RevsOK
<1>7. DoneOK'
  BY <1>1, <1>2, <1>3, Grounds DEF Intact, DoneOK
<1> QED BY <1>4, <1>5, <1>6, <1>7 DEF Intact

\* After the restore come the unfinished resets, then the first flush of a new disk.
LEMMA AfterStartI == ASSUME KInv, Intact, KInv', AfterStart PROVE Intact'
<1>1. /\ UNCHANGED <<file, head, revs, status, store, done, mem>>
      /\ phase = "start" /\ op.kind = "none" /\ op.step = "none"
  BY Grounds DEF AfterStart, disk, history
<1>2. \/ /\ op'.kind = "recover" /\ op'.step = "revoke_guild" /\ op'.then = "none"
         /\ op'.mat = NoSessions /\ revs # {} /\ phase' = phase
      \/ /\ op'.kind = "boot" /\ op'.step = "snap" /\ op'.then = "flush"
         /\ op'.mat = store /\ revs = {} /\ phase' = "ready"
      \/ /\ op'.kind = "none" /\ op'.step = "none" /\ op'.then = "none"
         /\ op'.mat = NoSessions /\ revs = {} /\ phase' = "ready"
         /\ ~(mem.gen = 0 /\ mem.pristine)
  <2>1. CASE revs # {}
    BY <2>1 DEF AfterStart, Idle
  <2>2. CASE revs = {} /\ mem.gen = 0 /\ mem.pristine
    BY <2>2 DEF AfterStart, Idle
  <2>3. CASE revs = {} /\ ~(mem.gen = 0 /\ mem.pristine)
    BY <2>3 DEF AfterStart, Idle
  <2> QED BY <2>1, <2>2, <2>3
<1>3. Alive' <=> Alive
  BY <1>1 DEF Alive, Dead
<1>4. NewDisk'
  BY <1>1, <1>2, <1>3, Grounds DEF Intact, NewDisk
<1>5. Whole'
  BY <1>1, <1>2, <1>3, Grounds DEF Intact, Whole, NewDisk
<1>6. RevsOK'
  BY <1>1, <1>2, <1>3, Grounds DEF Intact, RevsOK
<1>7. DoneOK'
  BY <1>1, <1>2, <1>3, Grounds DEF Intact, DoneOK
<1> QED BY <1>4, <1>5, <1>6, <1>7 DEF Intact

\* The heartbeat writes the stamp that memory holds.
LEMMA WriteStatusI == ASSUME KInv, Intact, KInv', WriteStatus PROVE Intact'
<1>1. /\ UNCHANGED <<file, head, revs, store, done, mem, op, phase>>
      /\ status' = mem.revokedAt
  BY DEF WriteStatus, history
<1>2. Alive' <=> Alive
  BY <1>1 DEF Alive, Dead
<1>3. NewDisk'
  BY <1>1, <1>2, Grounds DEF Intact, NewDisk
<1>4. Whole'
  BY <1>1, <1>2, Grounds DEF Intact, Whole, NewDisk
<1>5. RevsOK'
  BY <1>1, <1>2, Grounds DEF Intact, RevsOK
<1>6. DoneOK'
  BY <1>1, <1>2, Grounds DEF Intact, DoneOK
<1> QED BY <1>3, <1>4, <1>5, <1>6 DEF Intact

\* A restore finds no checkpoint.
LEMMA LoadNothingI == ASSUME KInv, Intact, KInv', LoadNothing PROVE Intact'
<1>1. /\ UNCHANGED <<file, head, revs, status, store, done, phase>> /\ op.step = "load"
      /\ op'.step = "done" /\ op'.kind = op.kind /\ op'.then = op.then /\ op'.mat = op.mat
      /\ op'.guild = op.guild
      /\ mem'.revokedAt = 0 /\ mem'.pristine = mem.pristine /\ mem'.gen = mem.gen
  BY Grounds DEF LoadNothing, disk, history, Goto, Ops, Mems
<1>2. ~Alive /\ ~Alive' /\ op.kind = "restore" /\ file = NoFile
  BY <1>1, SnapAlive, SnapMeaning DEF LoadNothing, Alive, Dead, KInv, JInv, OpOK
<1>3. NewDisk'
  BY <1>1, <1>2, Grounds DEF Intact, NewDisk
<1>4. Whole'
  BY <1>1, <1>2, Grounds DEF Intact, Whole, NewDisk
<1>5. RevsOK'
  BY <1>1, <1>2, Grounds DEF Intact, RevsOK
<1>6. DoneOK'
  BY <1>1, <1>2, Grounds DEF Intact, DoneOK
<1> QED BY <1>3, <1>4, <1>5, <1>6 DEF Intact

\* A flush takes memory as its material.
LEMMA StartFlushI == ASSUME KInv, Intact, KInv', StartFlush PROVE Intact'
<1>1. /\ UNCHANGED <<file, head, revs, status, store, done, phase, mem>>
      /\ op.kind = "none" /\ op.step = "none" /\ phase = "ready"
      /\ op'.kind = "flush" /\ op'.step = "snap" /\ op'.then = "flush" /\ op'.mat = store
  BY Grounds DEF StartFlush, LockFree, disk, history, Idle
<1>2. Alive' <=> Alive
  BY <1>1 DEF Alive, Dead
<1>3. NewDisk'
  BY <1>1, <1>2, Grounds DEF Intact, NewDisk
<1>4. Whole'
  BY <1>1, <1>2, Grounds DEF Intact, Whole, NewDisk
<1>5. RevsOK'
  BY <1>1, <1>2, Grounds DEF Intact, RevsOK
<1>6. DoneOK'
  BY <1>1, <1>2, Grounds DEF Intact, DoneOK
<1> QED BY <1>3, <1>4, <1>5, <1>6 DEF Intact

\* A death of the process leaves the disk as it is.
LEMMA DeathI ==
    ASSUME KInv, Intact, KInv', Crashed, UNCHANGED <<file, head, revs, done>>,
           status' = status \/ status' = mem.revokedAt, head # NoHead \/ status' = status
    PROVE  Intact'
<1>1. /\ phase' = "down" /\ store' = NoSessions /\ mem'.revokedAt = 0
      /\ op'.kind = "none" /\ op'.step = "none" /\ op'.then = "none" /\ op'.mat = NoSessions
  BY DEF Crashed, Idle, FreshMem
<1>2. (Alive' <=> Alive) /\ (Alive => file # NoFile)
  BY DEF Alive, Dead
<1>3. NewDisk'
  BY <1>1, <1>2, Grounds DEF Intact, NewDisk
<1>4. Whole'
  BY <1>1, <1>2, Grounds DEF Intact, Whole, NewDisk
<1>5. RevsOK'
  BY <1>1, <1>2, Grounds DEF Intact, RevsOK
<1>6. DoneOK'
  BY <1>1, <1>2, Grounds DEF Intact, DoneOK
<1> QED BY <1>3, <1>4, <1>5, <1>6 DEF Intact

\* A handler asks for its commit, or reads its receipt.
LEMMA CallI ==
    ASSUME KInv, Intact, KInv', NEW s \in Sessions, CallCommit(s) \/ ReadReceipt(s)
    PROVE  Intact'
<1>1. UNCHANGED <<file, head, revs, status, store, done, mem, op, phase>>
  BY DEF CallCommit, ReadReceipt, disk, history
<1>2. Alive' <=> Alive
  BY <1>1 DEF Alive, Dead
<1>3. NewDisk'
  BY <1>1, <1>2, Grounds DEF Intact, NewDisk
<1>4. Whole'
  BY <1>1, <1>2, Grounds DEF Intact, Whole, NewDisk
<1>5. RevsOK'
  BY <1>1, <1>2, Grounds DEF Intact, RevsOK
<1>6. DoneOK'
  BY <1>1, <1>2, Grounds DEF Intact, DoneOK
<1> QED BY <1>3, <1>4, <1>5, <1>6 DEF Intact

\* A commit starts.
LEMMA StartCommitI ==
    ASSUME KInv, Intact, KInv', NEW s \in Sessions, StartCommit(s)
    PROVE  Intact'
<1>1. /\ UNCHANGED <<file, head, revs, status, store, done, phase, mem>>
      /\ op.kind = "none" /\ op.step = "none" /\ phase = "ready"
      /\ op'.kind = "commit" /\ op'.step = "snap" /\ op'.then = "prepare" /\ op'.mat = NoSessions
  BY Grounds DEF StartCommit, LockFree, disk, history, Idle
<1>2. Alive' <=> Alive
  BY <1>1 DEF Alive, Dead
<1>3. NewDisk'
  BY <1>1, <1>2, Grounds DEF Intact, NewDisk
<1>4. Whole'
  BY <1>1, <1>2, Grounds DEF Intact, Whole, NewDisk
<1>5. RevsOK'
  BY <1>1, <1>2, Grounds DEF Intact, RevsOK
<1>6. DoneOK'
  BY <1>1, <1>2, Grounds DEF Intact, DoneOK
<1> QED BY <1>3, <1>4, <1>5, <1>6 DEF Intact

\* A reset starts.
LEMMA StartResetI ==
    ASSUME KInv, Intact, KInv', NEW g \in Guilds, StartReset(g)
    PROVE  Intact'
<1>1. /\ UNCHANGED <<file, head, revs, status, store, done, phase, mem>>
      /\ op.kind = "none" /\ op.step = "none" /\ phase = "ready"
      /\ op'.kind = "reset" /\ op'.step = "revoke_guild" /\ op'.then = "none"
      /\ op'.mat = NoSessions
  BY Grounds DEF StartReset, LockFree, disk, history, Idle
<1>2. Alive' <=> Alive
  BY <1>1 DEF Alive, Dead
<1>3. NewDisk'
  BY <1>1, <1>2, Grounds DEF Intact, NewDisk
<1>4. Whole'
  BY <1>1, <1>2, Grounds DEF Intact, Whole, NewDisk
<1>5. RevsOK'
  BY <1>1, <1>2, Grounds DEF Intact, RevsOK
<1>6. DoneOK'
  BY <1>1, <1>2, Grounds DEF Intact, DoneOK
<1> QED BY <1>3, <1>4, <1>5, <1>6 DEF Intact

\* A turn begins.
LEMMA BeginTurnI ==
    ASSUME KInv, Intact, KInv', NEW s \in Sessions, BeginTurn(s)
    PROVE  Intact'
<1>1. /\ UNCHANGED <<file, head, revs, status, done, phase, mem, op>>
      /\ phase = "ready" /\ op.kind \in {"none", "flush", "commit"}
      /\ \A x \in Sessions : store'[x] = store[x] \/ store'[x] = turns + 1
  BY Grounds DEF BeginTurn, LoopRuns, disk, history, Contents
<1>2. \A x \in Sessions : store[x] <= turns
  BY DEF KInv, JInv, Bounds
<1>3. \A x \in Sessions : store[x] <= store'[x]
  BY <1>1, <1>2, Grounds
<1>4. Alive' <=> Alive
  BY <1>1 DEF Alive, Dead
<1>5. head # NoHead
  BY <1>1 DEF Intact, NewDisk
<1>6. \A x \in Sessions : store'[x] \in Nat
  BY <1>1, Grounds
<1>7. NewDisk'
  BY <1>1, <1>3, <1>4, <1>5, <1>6, Grounds DEF Intact, NewDisk
<1>8. Whole'
  BY <1>1, <1>3, <1>4, <1>5, <1>6, Grounds DEF Intact, Whole, NewDisk
<1>9. RevsOK'
  BY <1>1, <1>3, <1>4, <1>5, <1>6, Grounds DEF Intact, RevsOK
<1>10. DoneOK'
  BY <1>1, <1>3, <1>4, <1>5, <1>6, Grounds DEF Intact, DoneOK
<1> QED BY <1>7, <1>8, <1>9, <1>10 DEF Intact

\* A read finds the files in step, or it is a restore's.
LEMMA ReadCheckpointI ==
    ASSUME KInv, Intact, KInv', ReadCheckpoint("ok")
    PROVE  Intact'
<1>1. /\ UNCHANGED <<file, head, revs, status, store, done, phase>> /\ op.step = "snap"
      /\ mem'.revokedAt = mem.revokedAt
  BY Grounds DEF ReadCheckpoint, disk, history, Anchored, Mems
<1>2. /\ AfterSnapshot \in {"load", "prepare", "done", "emptyhead", "file"}
      /\ AfterSnapshot = "emptyhead" => op.mat = NoSessions
      /\ op.kind = "restore" <=> AfterSnapshot = "load"
      /\ op.kind = "boot" /\ op.mat = NoSessions => AfterSnapshot = "emptyhead"
      /\ AfterSnapshot = "done" => op.kind = "flush"
  BY <1>1, Grounds DEF AfterSnapshot, KInv, JInv, OpOK, Ops, Thens
<1>3. \/ op' = [op EXCEPT !.step = "revoke"] /\ op.kind = "restore" /\ ~Alive /\ head # NoHead
      \/ op' = [op EXCEPT !.step = "anchor"] /\ Snap.class = "lagging"
      \/ op' = [op EXCEPT !.step = "discard"] /\ op.kind = "restore" /\ ~Alive /\ head # NoHead
      \/ /\ op' = [op EXCEPT !.step = AfterSnapshot] /\ Snap.class \in {"current", "empty"}
         /\ mem'.gen = Snap.gen /\ mem'.pristine = (head = NoHead /\ file = NoFile)
  <2>1. CASE Snap.class \in {"reject", "auth"}
    <3>1. op.kind = "restore" /\ ~Alive /\ head # NoHead /\ Snap.class # "auth"
      BY <1>1, <2>1, OnlyRestoreRejects
    <3>2. Rejected = "revoke"
      BY <3>1 DEF Rejected, KInv, JInv, OpOK
    <3>3. op' = [op EXCEPT !.step = "revoke"]
      BY <2>1, <3>1, <3>2 DEF ReadCheckpoint, Goto
    <3> QED BY <3>1, <3>3
  <2>2. CASE Snap.class = "lagging"
    BY <2>2 DEF ReadCheckpoint, Goto
  <2>3. CASE Snap.class = "discard"
    BY <1>1, <2>3, OnlyRestoreRejects DEF ReadCheckpoint, Goto
  <2>4. CASE Snap.class \in {"current", "empty"}
    BY <2>4, Grounds DEF ReadCheckpoint, Goto, Anchored, Mems
  <2> QED BY <2>1, <2>2, <2>3, <2>4, SnapType DEF KInv, JInv
<1>4. /\ op'.kind = op.kind /\ op'.then = op.then /\ op'.mat = op.mat /\ op'.guild = op.guild
      /\ \/ op'.step = "revoke" /\ op.kind = "restore" /\ ~Alive /\ head # NoHead
         \/ op'.step = "anchor" /\ Snap.class = "lagging"
         \/ op'.step = "discard" /\ op.kind = "restore" /\ ~Alive /\ head # NoHead
         \/ /\ op'.step = AfterSnapshot /\ Snap.class \in {"current", "empty"}
            /\ mem'.gen = Snap.gen /\ mem'.pristine = (head = NoHead /\ file = NoFile)
  BY <1>3, Grounds DEF Ops
<1>5. Alive' <=> Alive
  BY <1>1 DEF Alive, Dead
<1>6. /\ Snap.class = "current" => Alive
      /\ Snap.class = "empty" => file = NoFile
      /\ head = NoHead => Snap.class = "empty" /\ Snap.gen = 0 /\ file = NoFile
  <2>1. head = NoHead => file = NoFile
    BY DEF Intact, NewDisk
  <2>2. head = NoHead => Snap.class = "empty" /\ Snap.gen = 0
    BY <2>1 DEF Snap, CheckpointSnapshot, Snapshot
  <2> QED BY <2>1, <2>2, SnapAlive, SnapMeaning DEF KInv, JInv
<1>7. op.kind # "none" /\ phase # "down"
  BY <1>1, Grounds DEF KInv, JInv, PhaseOK, Idle
<1>8. NewDisk'
  BY <1>1, <1>2, <1>4, <1>5, <1>6, <1>7, Grounds DEF Intact, NewDisk
<1>9. Whole'
  BY <1>1, <1>2, <1>4, <1>5, <1>6, <1>7, Grounds DEF Intact, Whole, NewDisk
<1>10. RevsOK'
  BY <1>1, <1>2, <1>4, <1>5, <1>6, <1>7, Grounds DEF Intact, RevsOK
<1>11. DoneOK'
  BY <1>1, <1>2, <1>4, <1>5, <1>6, <1>7, Grounds DEF Intact, DoneOK
<1> QED BY <1>8, <1>9, <1>10, <1>11 DEF Intact

\* The head is moved up to the file.
LEMMA HeadMovesI ==
    ASSUME KInv, Intact, KInv', AnchorHead("ok") \/ WriteHead("ok")
    PROVE  Intact'
<1>1. /\ UNCHANGED <<file, revs, status, store, done, phase>>
      /\ mem'.revokedAt = mem.revokedAt /\ op.step \in {"anchor", "head"}
  BY Grounds DEF AnchorHead, WriteHead, history, Anchored, Mems
<1>2. Alive /\ file # NoFile /\ file \in Files /\ (op.step = "head" => file.sess = op.mat)
  BY <1>1, SnapAlive DEF KInv, StepOK, Alive, JInv, TypeOK
<1>3. head' # NoHead /\ head'.state = "active"
  <2>1. op.step = "anchor" => Snap.gen \in Nat /\ Snap.hash \in Nat
    BY SnapType DEF KInv, JInv
  <2>2. \E n, h \in Nat : head' = [state |-> "active", gen |-> n, hash |-> h]
    BY <1>2, <2>1 DEF AnchorHead, WriteHead, Written, Files
  <2> QED BY <2>2, AbsentAssumption DEF Heads
<1>4. Alive'
  BY <1>1, <1>2, <1>3 DEF Alive, Dead
<1>5. /\ op'.kind = op.kind /\ op'.then = op.then /\ op'.mat = op.mat /\ op'.guild = op.guild
      /\ \/ op.step = "anchor" /\ op'.step \in {"load", "prepare", "done", "emptyhead", "file"}
         \/ op.step = "head" /\ op'.step \in {"verify", "finish_guild", "done"}
      /\ op'.step = "done" => op.kind # "reset" /\ (op.kind = "restore" => op.step # "anchor")
      /\ op'.step = "emptyhead" => op.mat = NoSessions
  <2>1. op.step = "anchor" =>
          /\ AfterSnapshot \in {"load", "prepare", "done", "emptyhead", "file"}
          /\ AfterSnapshot = "emptyhead" => op.mat = NoSessions
          /\ AfterSnapshot = "done" => op.kind = "flush"
    BY Grounds DEF AfterSnapshot, KInv, JInv, OpOK, Ops, Thens
  <2>2. /\ AfterFlush \in {"verify", "finish_guild", "done"}
        /\ AfterFlush = "done" => op.kind # "reset"
    BY DEF AfterFlush
  <2>3. \/ op.step = "anchor" /\ op' = [op EXCEPT !.step = AfterSnapshot]
        \/ op.step = "head" /\ op' = [op EXCEPT !.step = AfterFlush]
    BY DEF AnchorHead, WriteHead, Goto
  <2>4. /\ op'.kind = op.kind /\ op'.then = op.then /\ op'.mat = op.mat /\ op'.guild = op.guild
        /\ \/ op.step = "anchor" /\ op'.step = AfterSnapshot
           \/ op.step = "head" /\ op'.step = AfterFlush
    BY <2>3, Grounds DEF Ops
  <2> QED BY <2>1, <2>2, <2>4
<1>6. op.step = "head" => op.kind # "restore"
  BY DEF KInv, JInv, OpOK
<1>7. NewDisk'
  BY <1>1, <1>2, <1>3, <1>4, <1>5, <1>6, Grounds DEF Intact, NewDisk
<1>8. Whole'
  BY <1>1, <1>2, <1>3, <1>4, <1>5, <1>6, Grounds DEF Intact, Whole, NewDisk
<1>9. RevsOK'
  BY <1>1, <1>2, <1>3, <1>4, <1>5, <1>6, Grounds DEF Intact, RevsOK
<1>10. DoneOK'
  BY <1>1, <1>2, <1>3, <1>4, <1>5, <1>6, Grounds DEF Intact, DoneOK
<1> QED BY <1>7, <1>8, <1>9, <1>10 DEF Intact

\* A restore drops the file that an empty head has left behind.
LEMMA DiscardEmptiedI ==
    ASSUME KInv, Intact, KInv', DiscardEmptied("ok")
    PROVE  Intact'
<1>1. /\ UNCHANGED <<head, revs, status, store, done, phase>> /\ file' = NoFile
      /\ mem'.revokedAt = mem.revokedAt /\ op.step = "discard"
  BY Grounds DEF DiscardEmptied, history, Anchored, Mems, Written
<1>2. ~Alive /\ ~Alive' /\ head # NoHead /\ head.state = "empty" /\ op.kind = "restore"
  BY <1>1, SnapAlive, SnapMeaning DEF KInv, JInv, StepOK, Alive, Intact, Whole
<1>3. /\ op'.kind = op.kind /\ op'.then = "load" /\ op'.mat = op.mat /\ op'.step = "load"
  <2>1. AfterSnapshot = "load" /\ op.then = "load"
    BY <1>2 DEF AfterSnapshot, KInv, JInv, OpOK
  <2>2. op' = [op EXCEPT !.step = "load"]
    BY <2>1 DEF DiscardEmptied, Goto
  <2> QED BY <2>1, <2>2, Grounds DEF Ops
<1>4. NewDisk'
  BY <1>1, <1>2, <1>3, Grounds DEF Intact, NewDisk
<1>5. Whole'
  BY <1>1, <1>2, <1>3, Grounds DEF Intact, Whole, NewDisk
<1>6. RevsOK'
  BY <1>1, <1>2, <1>3, Grounds DEF Intact, RevsOK
<1>7. DoneOK'
  BY <1>1, <1>2, <1>3, Grounds DEF Intact, DoneOK
<1> QED BY <1>4, <1>5, <1>6, <1>7 DEF Intact

\* The new file carries every committed turn and is later than every stamp.
LEMMA WriteFileI ==
    ASSUME KInv, Intact, KInv', WriteFile("ok")
    PROVE  Intact'
<1>1. /\ UNCHANGED <<head, revs, status, store, done, phase>> /\ op.step = "file"
      /\ op' = [op EXCEPT !.step = "head"] /\ now' = now + 1
      /\ mem' = [mem EXCEPT !.gen = Snap.gen + 1, !.sig = op.mat,
                            !.revokedAt = 0, !.pristine = FALSE]
      /\ file' = [gen |-> Snap.gen + 1,
                  prev |-> IF Snap.class = "current" THEN Snap.hash ELSE Genesis,
                  saved |-> now + 1, sess |-> op.mat]
  BY DEF WriteFile, history, Goto, Written
<1>2. /\ op'.step = "head" /\ op'.kind = op.kind /\ op'.then = op.then /\ op'.mat = op.mat
      /\ op'.guild = op.guild /\ mem'.revokedAt = 0
      /\ file'.saved = now + 1 /\ file'.sess = op.mat
  BY <1>1, Grounds DEF Ops, Mems
<1>3. Alive'
  BY <1>2 DEF KInv, StepOK
<1>4. file' # NoFile
  BY <1>3 DEF Alive
<1>5. status <= now /\ op.then = "flush" /\ op.kind # "restore"
  BY <1>1 DEF KInv, JInv, Bounds, OpOK
<1>6. head # NoHead
  BY <1>1, <1>5, Grounds DEF Intact, NewDisk
<1>7. UNCHANGED <<head, revs, status, store, done, phase>> /\ op.step = "file"
  BY <1>1
<1>8. NewDisk'
  BY <1>2, <1>3, <1>4, <1>5, <1>6, <1>7, Grounds DEF Intact, NewDisk
<1>9. Whole'
  BY <1>2, <1>3, <1>4, <1>5, <1>6, <1>7, Grounds DEF Intact, Whole, NewDisk
<1>10. RevsOK'
  BY <1>2, <1>3, <1>4, <1>5, <1>6, <1>7, Grounds DEF Intact, RevsOK
<1>11. DoneOK'
  BY <1>2, <1>3, <1>4, <1>5, <1>6, <1>7, Grounds DEF Intact, DoneOK
<1> QED BY <1>8, <1>9, <1>10, <1>11 DEF Intact

\* An empty head is written only when nothing is committed.
LEMMA WriteEmptyHeadI ==
    ASSUME KInv, Intact, KInv', WriteEmptyHead("ok")
    PROVE  Intact'
<1>1. /\ UNCHANGED <<file, revs, status, store, done, phase>> /\ op.step = "emptyhead"
      /\ op' = [op EXCEPT !.step = "emptyfile"]
      /\ head' = [state |-> "empty", gen |-> Snap.gen + 1, hash |-> Genesis]
      /\ op.then = "flush"
  BY DEF WriteEmptyHead, history, Goto, Written, KInv, JInv, OpOK
<1>2. /\ op'.step = "emptyfile" /\ op'.kind = op.kind /\ op'.then = op.then
      /\ op'.mat = op.mat /\ op'.guild = op.guild
  BY <1>1, Grounds DEF Ops
<1>3. head' # NoHead /\ head'.state = "empty"
  <2>1. Snap.gen \in Nat
    BY SnapType DEF KInv, JInv
  <2>2. Snap.gen + 1 \in Nat
    BY <2>1
  <2>3. [state |-> "empty", gen |-> Snap.gen + 1, hash |-> Genesis] \in Heads
    BY <2>2 DEF Heads, Genesis
  <2> QED BY <1>1, <2>3, AbsentAssumption
<1>4. ~Alive' /\ op.kind # "restore"
  BY <1>1, <1>2 DEF KInv, StepOK, JInv, OpOK
<1>5. done = NoSessions
  <2>1. \A s \in Sessions : done[s] <= 0
    BY <1>1, Grounds DEF Intact, DoneOK
  <2> QED BY <2>1, Grounds
<1>6. UNCHANGED <<file, revs, status, store, done, phase>> /\ op.step = "emptyhead"
  BY <1>1
<1>7. NewDisk'
  BY <1>2, <1>3, <1>4, <1>5, <1>6, Grounds DEF Intact, NewDisk
<1>8. Whole'
  BY <1>2, <1>3, <1>4, <1>5, <1>6, Grounds DEF Intact, Whole, NewDisk
<1>9. RevsOK'
  BY <1>2, <1>3, <1>4, <1>5, <1>6, Grounds DEF Intact, RevsOK
<1>10. DoneOK'
  BY <1>2, <1>3, <1>4, <1>5, <1>6, Grounds DEF Intact, DoneOK
<1> QED BY <1>7, <1>8, <1>9, <1>10 DEF Intact

\* The file goes after the empty head.
LEMMA DropEmptiedFileI ==
    ASSUME KInv, Intact, KInv', DropEmptiedFile("ok")
    PROVE  Intact'
<1>1. /\ UNCHANGED <<head, revs, status, store, done, phase, mem>> /\ op.step = "emptyfile"
      /\ op' = [op EXCEPT !.step = AfterFlush] /\ file' = NoFile
  BY DEF DropEmptiedFile, history, Goto, Written
<1>2. /\ AfterFlush \in {"verify", "finish_guild", "done"}
      /\ AfterFlush = "done" => op.kind # "reset"
  BY DEF AfterFlush
<1>3. /\ op'.step = AfterFlush /\ op'.kind = op.kind /\ op'.then = op.then
      /\ op'.mat = op.mat /\ op'.guild = op.guild
  BY <1>1, Grounds DEF Ops
<1>4. ~Alive /\ ~Alive' /\ head # NoHead /\ head.state = "empty" /\ op.kind # "restore"
  BY <1>1 DEF KInv, StepOK, JInv, OpOK, Alive, Intact, Whole
<1>5. NewDisk'
  BY <1>1, <1>2, <1>3, <1>4, Grounds DEF Intact, NewDisk
<1>6. Whole'
  BY <1>1, <1>2, <1>3, <1>4, Grounds DEF Intact, Whole, NewDisk
<1>7. RevsOK'
  BY <1>1, <1>2, <1>3, <1>4, Grounds DEF Intact, RevsOK
<1>8. DoneOK'
  BY <1>1, <1>2, <1>3, <1>4, Grounds DEF Intact, DoneOK
<1> QED BY <1>5, <1>6, <1>7, <1>8 DEF Intact

\* A restore revokes a chain only when nothing is committed.
LEMMA RevokeHeadI ==
    ASSUME KInv, Intact, KInv', RevokeHead("ok")
    PROVE  Intact'
<1> DEFINE top == IF op.step = "revoke" /\ head # NoHead /\ head.gen > mem.gen
                  THEN head.gen ELSE mem.gen
<1>1. /\ UNCHANGED <<file, revs, status, store, done, phase>> /\ op.step = "revoke"
      /\ op' = [op EXCEPT !.step = "unfile"]
      /\ head' = [state |-> "empty", gen |-> top + 1, hash |-> Genesis]
  BY DEF RevokeHead, history, Goto, Written, Intact, Whole
<1>2. top + 1 \in Nat /\ (file # NoFile => file.gen <= top + 1)
  BY <1>1, RevokeTop
<1> HIDE DEF top
<1>3. head' # NoHead /\ head'.state = "empty" /\ head'.gen = top + 1
  <2>1. [state |-> "empty", gen |-> top + 1, hash |-> Genesis] \in Heads
    BY <1>2 DEF Heads, Genesis
  <2> QED BY <1>1, <2>1, AbsentAssumption
<1>4. ~Alive'
  BY <1>1, <1>2, <1>3 DEF Alive, Dead
<1>5. /\ op'.step = "unfile" /\ op'.kind = op.kind /\ op'.then = op.then
      /\ op'.mat = op.mat /\ op'.guild = op.guild
  BY <1>1, Grounds DEF Ops
<1>6. op.kind = "restore" /\ phase = "start" /\ op.then = "load" /\ done = NoSessions
  BY <1>1 DEF Intact, Whole, DoneOK, KInv, JInv, PhaseOK, OpOK
<1>7. UNCHANGED <<file, revs, status, store, done, phase>> /\ op.step = "revoke"
  BY <1>1
<1>8. NewDisk'
  BY <1>3, <1>4, <1>5, <1>6, <1>7, Grounds DEF Intact, NewDisk
<1>9. Whole'
  BY <1>3, <1>4, <1>5, <1>6, <1>7, Grounds DEF Intact, Whole, NewDisk
<1>10. RevsOK'
  BY <1>3, <1>4, <1>5, <1>6, <1>7, Grounds DEF Intact, RevsOK
<1>11. DoneOK'
  BY <1>3, <1>4, <1>5, <1>6, <1>7, Grounds DEF Intact, DoneOK
<1> QED BY <1>8, <1>9, <1>10, <1>11 DEF Intact

\* The revoked file goes.
LEMMA RevokeDropFileI ==
    ASSUME KInv, Intact, KInv', RevokeDropFile("ok")
    PROVE  Intact'
<1>1. /\ UNCHANGED <<head, revs, status, store, done, phase>> /\ op.step = "unfile"
      /\ op' = [op EXCEPT !.step = IF op.stale THEN "done" ELSE "error"] /\ file' = NoFile
  BY DEF RevokeDropFile, history, Goto, Written
<1>2. /\ op'.step \in {"done", "error"} /\ op'.kind = op.kind /\ op'.then = op.then
      /\ op'.mat = op.mat /\ op'.guild = op.guild
  BY <1>1, Grounds DEF Ops
<1>3. /\ op.kind = "restore" /\ phase = "start" /\ op.then = "load" /\ done = NoSessions
      /\ ~Alive' /\ head # NoHead /\ head.state = "empty"
  BY <1>1 DEF Intact, Whole, DoneOK, KInv, JInv, PhaseOK, OpOK, Alive
<1>4. NewDisk'
  BY <1>1, <1>2, <1>3, Grounds DEF Intact, NewDisk
<1>5. Whole'
  BY <1>1, <1>2, <1>3, Grounds DEF Intact, Whole, NewDisk
<1>6. RevsOK'
  BY <1>1, <1>2, <1>3, Grounds DEF Intact, RevsOK
<1>7. DoneOK'
  BY <1>1, <1>2, <1>3, Grounds DEF Intact, DoneOK
<1> QED BY <1>4, <1>5, <1>6, <1>7 DEF Intact

\* An operation ends in error without a fault only in a restore, a commit or a recovery.
LEMMA EndInErrorI ==
    ASSUME KInv, Intact, KInv', EndInError("ok")
    PROVE  Intact'
<1>1. /\ UNCHANGED <<file, head, revs, done>> /\ op.step = "error" /\ status' = mem.revokedAt
  BY DEF EndInError, history, Written
<1>2. head # NoHead /\ op.kind # "reset"
  BY <1>1, Grounds DEF Intact, NewDisk, Whole
<1>3. CASE op.kind = "recover"
  BY <1>1, <1>2, <1>3, DeathI DEF EndInError
<1>4. CASE op.kind # "recover"
  <2>1. /\ op' = Idle /\ UNCHANGED <<phase, store>> /\ mem'.revokedAt = mem.revokedAt
    BY <1>4, Grounds DEF EndInError, Mems
  <2>2. /\ op'.kind = "none" /\ op'.step = "none" /\ op'.then = "none" /\ op'.mat = NoSessions
    BY <2>1 DEF Idle
  <2>3. Alive' <=> Alive
    BY <1>1 DEF Alive, Dead
  <2>4. NewDisk'
    BY <1>1, <1>2 DEF NewDisk
  <2>5. Whole'
    BY <1>1, <2>1, <2>2, <2>3, Grounds DEF Intact, Whole
  <2>6. RevsOK'
    BY <1>1, <1>2, <2>1, <2>2, Grounds DEF Intact, RevsOK
  <2>7. DoneOK'
    BY <1>1, <2>1, <2>2, <2>3, Grounds DEF Intact, DoneOK
  <2> QED BY <2>4, <2>5, <2>6, <2>7 DEF Intact
<1> QED BY <1>3, <1>4

\* An operation ends well.
LEMMA EndWellI ==
    ASSUME KInv, Intact, KInv', EndWell("ok")
    PROVE  Intact'
<1>1. /\ UNCHANGED <<file, head, revs, store, done, phase, mem>> /\ op.step = "done"
      /\ status' = mem.revokedAt
      /\ op'.kind = "none" /\ op'.step = "none" /\ op'.then = "none" /\ op'.mat = NoSessions
  BY DEF EndWell, history, Written, Idle
<1>2. Alive' <=> Alive
  BY <1>1 DEF Alive, Dead
<1>3. op.kind = "restore" => phase = "start"
  BY DEF KInv, JInv, PhaseOK
<1>4. op.kind # "none" /\ phase # "down"
  BY <1>1, Grounds DEF KInv, JInv, PhaseOK, Idle
<1>5. NewDisk'
  BY <1>1, <1>2, <1>3, <1>4, Grounds DEF Intact, NewDisk
<1>6. Whole'
  BY <1>1, <1>2, <1>3, <1>4, Grounds DEF Intact, Whole, NewDisk
<1>7. RevsOK'
  BY <1>1, <1>2, <1>3, <1>4, Grounds DEF Intact, RevsOK
<1>8. DoneOK'
  BY <1>1, <1>2, <1>3, <1>4, Grounds DEF Intact, DoneOK
<1> QED BY <1>5, <1>6, <1>7, <1>8 DEF Intact

\* A verified commit is in the current file, and memory is not behind it.
LEMMA VerifyCommitI ==
    ASSUME KInv, Intact, KInv', VerifyCommit("ok")
    PROVE  Intact'
<1>1. /\ UNCHANGED <<file, head, revs, status, store, phase>> /\ op.step = "verify"
      /\ op.kind = "commit" /\ op.session \in Sessions /\ phase = "ready"
      /\ mem'.revokedAt = mem.revokedAt
  BY Grounds DEF VerifyCommit, disk, KInv, JInv, OpOK, PhaseOK, Mems
<1>2. Alive' <=> Alive
  BY <1>1 DEF Alive, Dead
<1>3. head # NoHead /\ revs = {}
  BY <1>1 DEF Intact, NewDisk, RevsOK
<1>4. CASE Snap.class = "current" /\ file.sess[op.session] = call[op.session].turn
  <2>1. /\ op'.kind = "none" /\ op'.step = "none" /\ op'.then = "none" /\ op'.mat = NoSessions
        /\ done' = [done EXCEPT ![op.session] = file.sess[op.session]]
    BY <1>4 DEF VerifyCommit, Idle
  <2>2. Alive /\ file.sess = op.mat
    BY <1>1, <1>4, SnapAlive DEF Intact, DoneOK
  <2>3. \A s \in Sessions : done'[s] = done[s] \/ done'[s] = file.sess[s]
    BY <2>1, Grounds DEF Contents
  <2>4. \A s \in Sessions : /\ done'[s] <= file.sess[s] \/ done'[s] = 0
                            /\ done'[s] <= store[s]
    BY <1>1, <2>2, <2>3, Grounds DEF Intact, DoneOK
  <2>5. NewDisk'
    BY <1>1, <1>3 DEF NewDisk
  <2>6. Whole'
    BY <1>1, <1>2, <2>1, Grounds DEF Intact, Whole
  <2>7. RevsOK'
    BY <1>1, <1>3, <2>1 DEF RevsOK
  <2>8. DoneOK'
    BY <1>1, <1>2, <2>1, <2>2, <2>4, Grounds DEF DoneOK
  <2> QED BY <2>5, <2>6, <2>7, <2>8 DEF Intact
<1>5. CASE ~(Snap.class = "current" /\ file.sess[op.session] = call[op.session].turn)
  <2>1. /\ op'.kind = op.kind /\ op'.step = "error" /\ op'.then = op.then /\ op'.mat = op.mat
        /\ done' = done
    BY <1>5, Grounds DEF VerifyCommit, Goto, Ops
  <2>2. NewDisk'
    BY <1>1, <1>3 DEF NewDisk
  <2>3. Whole'
    BY <1>1, <1>2, <2>1, Grounds DEF Intact, Whole
  <2>4. RevsOK'
    BY <1>1, <1>3, <2>1 DEF RevsOK
  <2>5. DoneOK'
    BY <1>1, <1>2, <2>1, Grounds DEF Intact, DoneOK
  <2> QED BY <2>2, <2>3, <2>4, <2>5 DEF Intact
<1> QED BY <1>4, <1>5

\* A reset is recorded; its guild's commits no longer count.
LEMMA RevokeGuildI ==
    ASSUME KInv, Intact, KInv', RevokeGuild("ok")
    PROVE  Intact'
<1>1. /\ UNCHANGED <<file, head, status, store, phase, mem>> /\ op.step = "revoke_guild"
      /\ revs' = revs \cup {op.guild}
      /\ \A s \in Sessions : done'[s] = IF GuildOf[s] = op.guild THEN 0 ELSE done[s]
  BY DEF RevokeGuild, Written
<1>2. /\ op.kind \in {"reset", "recover"} /\ (op.kind = "recover" => phase = "start")
      /\ (op.kind = "reset" => phase = "ready")
  BY <1>1 DEF KInv, JInv, OpOK, PhaseOK
<1>3. /\ op'.step = "runtime" /\ op'.kind = op.kind /\ op'.then = op.then
      /\ op'.mat = op.mat /\ op'.guild = op.guild
  BY Grounds DEF RevokeGuild, Goto, Ops
<1>4. Alive' <=> Alive
  BY <1>1 DEF Alive, Dead
<1>5. NewDisk'
  BY <1>1, <1>2, <1>3, <1>4, Grounds DEF Intact, NewDisk
<1>6. Whole'
  BY <1>1, <1>2, <1>3, <1>4, Grounds DEF Intact, Whole, NewDisk
<1>7. RevsOK'
  BY <1>1, <1>2, <1>3, <1>4, Grounds DEF Intact, RevsOK
<1>8. DoneOK'
  BY <1>1, <1>2, <1>3, <1>4, Grounds DEF Intact, DoneOK
<1> QED BY <1>5, <1>6, <1>7, <1>8 DEF Intact

\* The guild's sessions are cleared; memory becomes the material.
LEMMA ClearRuntimeI ==
    ASSUME KInv, Intact, KInv', ClearRuntime("ok")
    PROVE  Intact'
<1>1. /\ UNCHANGED <<file, head, revs, status, done, phase, mem>> /\ op.step = "runtime"
      /\ \A s \in Sessions : store'[s] = store[s] \/ (store'[s] = 0 /\ GuildOf[s] = op.guild)
  BY DEF ClearRuntime, disk
<1>2. op.kind \in {"reset", "recover"} /\ op.guild \in revs /\ phase # "down"
  BY <1>1 DEF KInv, JInv, OpOK, PhaseOK
<1>3. /\ op'.step = "snap" /\ op'.kind = op.kind /\ op'.then = "flush"
      /\ op'.mat = store' /\ op'.guild = op.guild
  BY Grounds DEF ClearRuntime, Ops
<1>4. Alive' <=> Alive
  BY <1>1 DEF Alive, Dead
<1>5. \A s \in Sessions : done[s] <= store'[s] /\ store'[s] \in Nat
  <2>1. \A s \in Sessions : done[s] <= store[s] /\ (GuildOf[s] = op.guild => done[s] = 0)
    BY <1>2 DEF Intact, DoneOK, RevsOK
  <2> QED BY <1>1, <2>1, Grounds
<1>6. NewDisk'
  BY <1>1, <1>2, <1>3, <1>4, <1>5, Grounds DEF Intact, NewDisk
<1>7. Whole'
  BY <1>1, <1>2, <1>3, <1>4, <1>5, Grounds DEF Intact, Whole, NewDisk
<1>8. RevsOK'
  BY <1>1, <1>2, <1>3, <1>4, <1>5, Grounds DEF Intact, RevsOK
<1>9. DoneOK'
  BY <1>1, <1>2, <1>3, <1>4, <1>5, Grounds DEF Intact, DoneOK
<1> QED BY <1>6, <1>7, <1>8, <1>9 DEF Intact

\* The finished reset is struck off.
LEMMA FinishGuildI ==
    ASSUME KInv, Intact, KInv', FinishGuild("ok")
    PROVE  Intact'
<1>1. /\ UNCHANGED <<file, head, status, store, done, phase, mem>> /\ op.step = "finish_guild"
      /\ revs' = revs \ {op.guild}
  BY DEF FinishGuild, Written, history
<1>2. op.kind \in {"reset", "recover"} /\ (op.kind = "recover" => phase = "start")
  BY <1>1 DEF KInv, JInv, OpOK, PhaseOK
<1>3. /\ op'.step = "done" /\ op'.kind = op.kind /\ op'.then = op.then
      /\ op'.mat = op.mat /\ op'.guild = op.guild
  BY Grounds DEF FinishGuild, Goto, Ops
<1>4. Alive' <=> Alive
  BY <1>1 DEF Alive, Dead
<1>5. phase # "down"
  BY <1>2 DEF KInv, JInv, PhaseOK
<1>6. NewDisk'
  BY <1>1, <1>2, <1>3, <1>4, <1>5, Grounds DEF Intact, NewDisk
<1>7. Whole'
  BY <1>1, <1>2, <1>3, <1>4, <1>5, Grounds DEF Intact, Whole, NewDisk
<1>8. RevsOK'
  BY <1>1, <1>2, <1>3, <1>4, <1>5, Grounds DEF Intact, RevsOK
<1>9. DoneOK'
  BY <1>1, <1>2, <1>3, <1>4, <1>5, Grounds DEF Intact, DoneOK
<1> QED BY <1>6, <1>7, <1>8, <1>9 DEF Intact

\* A checkpoint too old to restore gives up what was committed.
LEMMA LoadRevokedI ==
    ASSUME KInv, Intact, KInv', NEW b \in BOOLEAN, LoadRevoked(b)
    PROVE  Intact'
<1>1. /\ UNCHANGED <<file, head, revs, status, store, phase, mem>> /\ op.step = "load"
      /\ done' = NoSessions /\ Snap.class = "current"
  BY DEF LoadRevoked, disk
<1>2. /\ op'.step = "revoke" /\ op'.kind = op.kind /\ op'.then = op.then
      /\ op'.mat = op.mat /\ op'.guild = op.guild
  BY Grounds DEF LoadRevoked, Ops
<1>3. op.kind = "restore" /\ phase = "start" /\ op.then = "load"
  BY <1>1 DEF KInv, JInv, OpOK, PhaseOK
<1>4. (Alive' <=> Alive) /\ head # NoHead
  BY <1>1, SnapMeaning DEF Alive, Dead, Current, KInv, JInv
<1>5. NewDisk'
  BY <1>1, <1>2, <1>3, <1>4, Grounds DEF Intact, NewDisk
<1>6. Whole'
  BY <1>1, <1>2, <1>3, <1>4, Grounds DEF Intact, Whole, NewDisk
<1>7. RevsOK'
  BY <1>1, <1>2, <1>3, <1>4, Grounds DEF Intact, RevsOK
<1>8. DoneOK'
  BY <1>1, <1>2, <1>3, <1>4, Grounds DEF Intact, DoneOK
<1> QED BY <1>5, <1>6, <1>7, <1>8 DEF Intact

\* A commit takes memory as its material, or gives up.
LEMMA PrepareCommitI ==
    ASSUME KInv, Intact, KInv', NEW b \in BOOLEAN, PrepareCommit(b)
    PROVE  Intact'
<1>1. /\ UNCHANGED <<file, head, revs, status, store, done, phase, mem>> /\ op.step = "prepare"
      /\ op.kind = "commit" /\ phase = "ready"
  BY DEF PrepareCommit, disk, history, KInv, JInv, OpOK, PhaseOK
<1>2. /\ op'.kind = op.kind /\ op'.guild = op.guild
      /\ \/ op'.step = "snap" /\ op'.then = "flush" /\ op'.mat = store
         \/ op'.step = "error" /\ op'.then = op.then /\ op'.mat = op.mat
  <2>1. \/ op' = [op EXCEPT !.step = "snap", !.then = "flush", !.mat = store]
        \/ op' = [op EXCEPT !.step = "error"]
    BY DEF PrepareCommit
  <2> QED BY <2>1, Grounds DEF Ops
<1>3. Alive' <=> Alive
  BY <1>1 DEF Alive, Dead
<1>4. NewDisk'
  BY <1>1, <1>2, <1>3, Grounds DEF Intact, NewDisk
<1>5. Whole'
  BY <1>1, <1>2, <1>3, Grounds DEF Intact, Whole, NewDisk
<1>6. RevsOK'
  BY <1>1, <1>2, <1>3, Grounds DEF Intact, RevsOK
<1>7. DoneOK'
  BY <1>1, <1>2, <1>3, Grounds DEF Intact, DoneOK
<1> QED BY <1>4, <1>5, <1>6, <1>7 DEF Intact

\* A restore brings every committed turn back that is not too old.
LEMMA LoadSessionsI ==
    ASSUME KInv, Intact, KInv', NEW aged \in SUBSET Sessions, LoadSessions(aged)
    PROVE  Intact'
<1>1. /\ UNCHANGED <<file, head, revs, status, phase>> /\ op.step = "load"
      /\ Snap.class = "current"
      /\ \A s \in Sessions : done'[s] = IF s \in aged THEN 0 ELSE done[s]
      /\ \A s \in Sessions : store'[s] = IF s \in aged \/ GuildOf[s] \in revs THEN 0
                                         ELSE file.sess[s]
  BY DEF LoadSessions, disk
<1>2. mem'.revokedAt = 0
  BY Grounds DEF LoadSessions, Mems
<1>3. /\ op'.step = "done" /\ op'.kind = op.kind /\ op'.then = op.then
      /\ op'.mat = op.mat /\ op'.guild = op.guild
  BY Grounds DEF LoadSessions, Goto, Ops
<1>4. op.kind = "restore" /\ phase = "start" /\ op.then = "load" /\ op.mat = NoSessions
  BY <1>1 DEF KInv, JInv, OpOK, PhaseOK
<1>5. (Alive' <=> Alive) /\ Alive /\ head # NoHead /\ file # NoFile
  BY <1>1, SnapMeaning, SnapAlive DEF Alive, Dead, Current, KInv, JInv
<1>6. \A s \in Sessions : done'[s] <= store'[s] /\ store'[s] \in Nat
  <2>1. \A s \in Sessions : /\ done[s] = 0 \/ done[s] <= file.sess[s]
                            /\ GuildOf[s] \in revs => done[s] = 0
    BY DEF Intact, DoneOK, RevsOK
  <2> QED BY <1>1, <1>5, <2>1, Grounds
<1>7. NewDisk'
  BY <1>1, <1>2, <1>3, <1>4, <1>5, <1>6, Grounds DEF Intact, NewDisk
<1>8. Whole'
  BY <1>1, <1>2, <1>3, <1>4, <1>5, <1>6, Grounds DEF Intact, Whole, NewDisk
<1>9. RevsOK'
  BY <1>1, <1>2, <1>3, <1>4, <1>5, <1>6, Grounds DEF Intact, RevsOK
<1>10. DoneOK'
  BY <1>1, <1>2, <1>3, <1>4, <1>5, <1>6, Grounds DEF Intact, DoneOK
<1> QED BY <1>7, <1>8, <1>9, <1>10 DEF Intact

\* The initial state is a new disk.
LEMMA InitI == ASSUME Init PROVE Intact
<1>1. KInv
  BY InitK
<1>2. /\ op.kind = "none" /\ op.step = "none" /\ op.then = "none" /\ op.mat = NoSessions
      /\ file = NoFile /\ head = NoHead /\ revs = {} /\ phase = "down" /\ store = NoSessions
      /\ done = NoSessions
  BY DEF Init, Idle
<1>3. ~Alive
  BY <1>2 DEF Alive
<1>4. NewDisk /\ Whole
  BY <1>2, <1>3 DEF NewDisk, Whole
<1>5. RevsOK /\ DoneOK
  BY <1>1, <1>2, <1>3, Grounds DEF RevsOK, DoneOK
<1> QED BY <1>4, <1>5 DEF Intact

\* A head that is written is there, and an empty one is above the old one.
LEMMA HeadWritten ==
    ASSUME KInv, Intact,
           AnchorHead("ok") \/ WriteHead("ok") \/ WriteEmptyHead("ok") \/ RevokeHead("ok")
    PROVE  HeadKept
<1> DEFINE top == IF op.step = "revoke" /\ head # NoHead /\ head.gen > mem.gen
                  THEN head.gen ELSE mem.gen
<1>1. Snap.gen \in Nat /\ Snap.hash \in Nat /\ (head # NoHead => head.gen \in Nat)
  BY SnapType DEF KInv, JInv, TypeOK, Heads
<1>2. /\ top + 1 \in Nat /\ Snap.gen + 1 \in Nat
      /\ head # NoHead /\ op.step = "revoke" => top + 1 > head.gen
  BY <1>1, RevokeTop
<1>3. AnchorHead("ok") => head' = [state |-> "active", gen |-> Snap.gen, hash |-> Snap.hash]
  BY DEF AnchorHead, Written
<1>4. WriteHead("ok") => /\ head' = [state |-> "active", gen |-> file.gen, hash |-> file.saved]
                         /\ file \in Files
  BY DEF WriteHead, Written, KInv, JInv, OpOK, TypeOK
<1>5. WriteEmptyHead("ok") =>
          /\ head' = [state |-> "empty", gen |-> Snap.gen + 1, hash |-> Genesis]
          /\ head # NoHead => Snap.gen = head.gen
  <2>1. Snap.class \in {"current", "empty", "discard"} /\ head # NoHead => Snap.gen = head.gen
    BY DEF Snap, CheckpointSnapshot, Snapshot
  <2> QED BY <2>1 DEF WriteEmptyHead, Written, KInv, StepOK
<1>6. RevokeHead("ok") => /\ head' = [state |-> "empty", gen |-> top + 1, hash |-> Genesis]
                          /\ op.step = "revoke"
  BY DEF RevokeHead, Written, Intact, Whole
<1> HIDE DEF top
<1>7. head' \in Heads /\ (head # NoHead => head'.state = "active" \/ head'.gen > head.gen)
  <2>1. CASE AnchorHead("ok") \/ WriteHead("ok")
    BY <1>1, <1>3, <1>4, <2>1 DEF Heads, Files
  <2>2. CASE WriteEmptyHead("ok")
    BY <1>1, <1>2, <1>5, <2>2 DEF Heads, Genesis
  <2>3. CASE RevokeHead("ok")
    BY <1>1, <1>2, <1>6, <2>3 DEF Heads, Genesis
  <2> QED BY <2>1, <2>2, <2>3
<1> QED BY <1>7, AbsentAssumption DEF HeadKept

\* The steps that need no fault.
Works ==
    \/ AfterStart \/ WriteStatus \/ LoadNothing \/ StartFlush \/ Crash
    \/ Start("ok") \/ ReadCheckpoint("ok") \/ AnchorHead("ok") \/ DiscardEmptied("ok")
    \/ WriteFile("ok") \/ WriteHead("ok") \/ WriteEmptyHead("ok")
    \/ DropEmptiedFile("ok") \/ RevokeHead("ok") \/ RevokeDropHead("ok")
    \/ RevokeDropFile("ok") \/ EndInError("ok") \/ EndWell("ok") \/ VerifyCommit("ok")
    \/ RevokeGuild("ok") \/ ClearRuntime("ok") \/ FinishGuild("ok")
    \/ \E b \in BOOLEAN : LoadRevoked(b) \/ PrepareCommit(b)
    \/ \E aged \in SUBSET Sessions : LoadSessions(aged)
    \/ \E s \in Sessions : BeginTurn(s) \/ CallCommit(s) \/ StartCommit(s) \/ ReadReceipt(s)
    \/ \E g \in Guilds : StartReset(g)

\* Without a fault every read and write works.
LEMMA NoFault ==
    ASSUME JInv, Next, faults' = 0
    PROVE  faults = 0 /\ Works
<1>1. faults \in Nat
  BY DEF JInv, MoreTypes
<1>2. ASSUME NEW o, Outcome(o) PROVE o = "ok" /\ faults = 0
  BY <1>1, <1>2 DEF Outcome
<1>3. ~LoadRevocationsFail /\ ~RevokeUnread
  <2>1. LoadRevocationsFail \/ RevokeUnread => Outcome("lost")
    BY DEF LoadRevocationsFail, RevokeUnread
  <2> QED BY <1>2, <2>1
<1>4. ASSUME NEW o \in Oks,
          \/ Start(o) \/ ReadCheckpoint(o) \/ AnchorHead(o) \/ DiscardEmptied(o)
          \/ WriteFile(o) \/ WriteHead(o)
          \/ WriteEmptyHead(o) \/ DropEmptiedFile(o)
          \/ RevokeHead(o) \/ RevokeDropHead(o) \/ RevokeDropFile(o)
          \/ EndInError(o) \/ EndWell(o) \/ VerifyCommit(o)
          \/ RevokeGuild(o) \/ ClearRuntime(o) \/ FinishGuild(o)
      PROVE  o = "ok" /\ faults = 0
  <2>1. Outcome(o)
    BY <1>4 DEF Start, ReadCheckpoint, AnchorHead, DiscardEmptied, WriteFile, WriteHead,
                WriteEmptyHead, DropEmptiedFile, RevokeHead, RevokeDropHead, RevokeDropFile, EndInError, EndWell,
                VerifyCommit, RevokeGuild, ClearRuntime, FinishGuild
  <2> QED BY <1>2, <2>1
<1>5. \/ \E o \in Oks :
          \/ Start(o) \/ ReadCheckpoint(o) \/ AnchorHead(o) \/ DiscardEmptied(o)
          \/ WriteFile(o) \/ WriteHead(o)
          \/ WriteEmptyHead(o) \/ DropEmptiedFile(o)
          \/ RevokeHead(o) \/ RevokeDropHead(o) \/ RevokeDropFile(o)
          \/ EndInError(o) \/ EndWell(o) \/ VerifyCommit(o)
          \/ RevokeGuild(o) \/ ClearRuntime(o) \/ FinishGuild(o)
      \/ \/ AfterStart \/ WriteStatus \/ LoadNothing \/ StartFlush \/ Crash
         \/ \E b \in BOOLEAN : LoadRevoked(b) \/ PrepareCommit(b)
         \/ \E aged \in SUBSET Sessions : LoadSessions(aged)
         \/ \E s \in Sessions :
               BeginTurn(s) \/ CallCommit(s) \/ StartCommit(s) \/ ReadReceipt(s)
         \/ \E g \in Guilds : StartReset(g)
  BY <1>3 DEF Next, Oks
<1>6. Works
  BY <1>4, <1>5 DEF Works
<1>7. faults = 0
  BY <1>4, <1>5 DEF AfterStart, WriteStatus, LoadNothing, StartFlush, Crash,
          LoadRevoked, PrepareCommit, LoadSessions, BeginTurn, CallCommit, StartCommit,
         ReadReceipt, StartReset
<1> QED BY <1>6, <1>7

\* Without a fault no head is lost.
LEMMA WorksKeepsHead ==
    ASSUME KInv, Intact, Works
    PROVE  HeadKept /\ ~RevokeDropHead("ok")
<1>1. ~RevokeDropHead("ok")
  BY DEF RevokeDropHead, Intact, Whole
<1>2. CASE AnchorHead("ok") \/ WriteHead("ok") \/ WriteEmptyHead("ok") \/ RevokeHead("ok")
  BY <1>1, <1>2, HeadWritten DEF HeadKept
<1>3. CASE ~(AnchorHead("ok") \/ WriteHead("ok") \/ WriteEmptyHead("ok") \/ RevokeHead("ok"))
  <2>1. head' = head
    BY <1>1, <1>3 DEF Works, Start, AfterStart, WriteStatus, LoadNothing, StartFlush, Crash,
         ReadCheckpoint, DiscardEmptied, WriteFile, DropEmptiedFile, RevokeDropFile,
         EndInError, EndWell, VerifyCommit, RevokeGuild, ClearRuntime, FinishGuild,
         LoadRevoked, PrepareCommit, LoadSessions, BeginTurn, CallCommit, StartCommit,
         ReadReceipt, StartReset, disk
  <2> QED BY <1>1, <2>1 DEF HeadKept
<1> QED BY <1>2, <1>3

\* Every step without a fault keeps the chain and the commits.
LEMMA NextI == ASSUME KInv, Intact, Next, faults' = 0 PROVE KInv' /\ Intact'
<1>0. Works /\ HeadKept /\ ~RevokeDropHead("ok")
  BY NoFault, WorksKeepsHead DEF KInv
<1>1. KInv'
  BY <1>0, NextK DEF RevokesKeep
<1>2. CASE \/ AfterStart \/ WriteStatus \/ LoadNothing \/ StartFlush
           \/ Start("ok") \/ ReadCheckpoint("ok") \/ AnchorHead("ok") \/ DiscardEmptied("ok")
           \/ WriteFile("ok") \/ WriteHead("ok") \/ WriteEmptyHead("ok")
           \/ DropEmptiedFile("ok") \/ RevokeHead("ok") \/ RevokeDropFile("ok")
  BY <1>1, <1>2, StartI, AfterStartI, WriteStatusI, LoadNothingI, StartFlushI, ReadCheckpointI,
     HeadMovesI, DiscardEmptiedI, WriteFileI, WriteEmptyHeadI, DropEmptiedFileI, RevokeHeadI,
     RevokeDropFileI
<1>3. CASE \/ EndInError("ok") \/ EndWell("ok") \/ VerifyCommit("ok")
           \/ RevokeGuild("ok") \/ ClearRuntime("ok") \/ FinishGuild("ok")
  BY <1>1, <1>3, EndInErrorI, EndWellI, VerifyCommitI, RevokeGuildI, ClearRuntimeI, FinishGuildI
<1>4. CASE Crash
  <2>1. Crashed /\ UNCHANGED <<file, head, revs, status, done>>
    BY <1>4 DEF Crash, disk, history
  <2> QED BY <1>1, <2>1, DeathI
<1>5. ASSUME NEW b \in BOOLEAN, LoadRevoked(b) \/ PrepareCommit(b) PROVE Intact'
  BY <1>1, <1>5, LoadRevokedI, PrepareCommitI
<1>6. ASSUME NEW aged \in SUBSET Sessions, LoadSessions(aged) PROVE Intact'
  BY <1>1, <1>6, LoadSessionsI
<1>7. ASSUME NEW s \in Sessions,
             BeginTurn(s) \/ CallCommit(s) \/ StartCommit(s) \/ ReadReceipt(s)
      PROVE  Intact'
  BY <1>1, <1>7, BeginTurnI, CallI, StartCommitI
<1>8. ASSUME NEW g \in Guilds, StartReset(g) PROVE Intact'
  BY <1>1, <1>8, StartResetI
<1> QED BY <1>0, <1>1, <1>2, <1>3, <1>4, <1>5, <1>6, <1>7, <1>8 DEF Works

\* A stutter changes nothing here either.
LEMMA StutterI == ASSUME UNCHANGED vars PROVE CInv => CInv'
<1>1. UNCHANGED <<file, head, revs, status, keyed, phase, store, mem, op, call, blocked,
                  turns, now, crashes, faults, cut, done>>
  BY DEF vars, disk, history
<1>2. Intact => Intact'
  BY <1>1 DEF Intact, NewDisk, Whole, RevsOK, DoneOK, Alive, Dead
<1> QED BY <1>1, <1>2, StutterK DEF CInv

\* A restart restores what is intact.
LEMMA IntactRestores ==
    ASSUME KInv, Intact, NEW s \in Sessions
    PROVE  Restorable[s] >= done[s]
<1>1. Restorable[s] \in Nat
  BY RestorableValue DEF KInv
<1>2. CASE done[s] = 0
  BY <1>1, <1>2
<1>3. CASE done[s] # 0
  <2>1. Alive /\ done[s] <= file.sess[s] /\ GuildOf[s] \notin revs /\ status < file.saved
    BY <1>3 DEF Intact, DoneOK, RevsOK, Whole
  <2>2. Snap.class # "auth"
    BY <2>1, SnapMeaning DEF KInv, JInv, Intact, NewDisk
  <2>3. Snap.class \in {"current", "lagging"}
    BY <2>1, <2>2, SnapAlive
  <2>4. Restorable[s] = file.sess[s]
    BY <2>1, <2>3 DEF Restorable
  <2>5. file.sess[s] \in Nat /\ done[s] \in Nat
    BY <2>1, Grounds DEF Alive
  <2> QED BY <2>1, <2>4, <2>5
<1> QED BY <1>2, <1>3

\* As long as no read or write has failed, file, head, list and memory agree
\* on every committed turn, whatever the process dies in.
THEOREM IntactAlways == Spec => []CInv
<1>1. Init => CInv
  BY InitK, InitI DEF CInv
<1>2. JInv /\ CInv /\ [Next]_vars => CInv'
  <2>1. ASSUME JInv, CInv, Next, faults' = 0 PROVE KInv' /\ Intact'
    BY <2>1, NoFault, NextI DEF CInv
  <2>2. ASSUME CInv, UNCHANGED vars PROVE CInv'
    BY <2>2, StutterI
  <2> QED BY <2>1, <2>2 DEF CInv
<1> QED BY <1>1, <1>2, ShapesAlways, PTL DEF Spec

\* A crash alone never costs a committed turn.
THEOREM CommitsSurvive == Spec => []CrashKeepsCommits
<1>1. CInv => CrashKeepsCommits
  BY IntactRestores DEF CInv, CrashKeepsCommits
<1> QED BY <1>1, IntactAlways, PTL

=============================================================================
