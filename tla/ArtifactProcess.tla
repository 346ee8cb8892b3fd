-------------------------- MODULE ArtifactProcess --------------------------
(***************************************************************************)
(* The killable artifact process: durable_artifact_process.py, the owner   *)
(* that serves one call at a time under its lock, and                      *)
(* durable_artifact_worker.py, the child that touches the files.           *)
(*                                                                         *)
(* A call is a few requests, one stage each:                               *)
(*                                                                         *)
(*    cleanup   _cleanup_pending: UNLINK_EXACT of a remembered temporary   *)
(*    main      the call's own request                                     *)
(*    tidy      a failed write: _cleanup_pending of its own temporary      *)
(*    reread    a failed write: READ_BOUNDED of the target                 *)
(*    sync      a failed write found on disk: SYNC_EXISTING                *)
(*                                                                         *)
(* and every request is _ensure_process (step "ensure"), _next_request and *)
(* the sending half of _exchange ("send"), and the wait for its answer     *)
(* ("wait").  Every wait has a deadline, so a timeout may come at any      *)
(* point.  A caller that times out on the lock changes nothing and is not  *)
(* modelled.  Request ids, the worker nonce and the PREPARED frame only    *)
(* confirm what a fresh pair of pipes guarantees; the sequence number can  *)
(* fail and is modelled.                                                   *)
(***************************************************************************)
EXTENDS Naturals, Sequences, FiniteSets

CONSTANTS
    Paths,        \* artifact paths
    Values,       \* file contents
    Missing,      \* no file, no value
    Workers,      \* process ids, reused once reaped
    None,         \* no worker
    MaxSequence,  \* bound: sequence number after which no call begins
    MaxFaults     \* bound: aborts, failed spawns, failed kills, deaths

ASSUME ArtifactAssumption ==
    /\ IsFiniteSet(Workers) /\ None \notin Workers /\ Missing \notin Values
    /\ MaxSequence \in Nat /\ MaxFaults \in Nat

VARIABLES
    call,       \* the call being served
    stage,      \* its stage
    step,       \* where its current request is
    retried,    \* _request_read_only is in its second attempt
    process,    \* _process
    blocked,    \* _replacement_blocked
    closed,     \* _closed
    sequence,   \* _sequence
    pending,    \* _pending_cleanup: temporaries, named by their request
    workers,    \* the children
    file,       \* the target files
    kept,       \* what each target may be after a power loss
    temps,      \* temporaries on disk
    leaked,     \* history: temporaries left behind by a dead owner
    faults,     \* faults so far
    answer      \* the answer of the last call

owned == <<call, stage, step, retried, process, blocked, closed, sequence, pending>>
disk == <<file, kept, temps>>
vars == <<owned, workers, disk, leaked, faults, answer>>

-----------------------------------------------------------------------------
(* Calls, requests and workers *)

NoCall == [op |-> "none", path |-> Missing, value |-> Missing, durable |-> FALSE]

NoAnswer == [ok |-> FALSE, op |-> "none", path |-> Missing, value |-> Missing,
             durable |-> FALSE]

\* write_json and write_text, unlink_regular, read_text and target_allowed,
\* ensure_started.
Calls ==
    [op : {"write"}, path : Paths, value : Values, durable : BOOLEAN]
    \cup [op : {"unlink", "read"}, path : Paths, value : {Missing}, durable : {FALSE}]
    \cup [op : {"start"}, path : {Missing}, value : {Missing}, durable : {FALSE}]

NoRequest == [op |-> "none", id |-> 0, path |-> Missing, value |-> Missing,
              durable |-> FALSE]

\* _next_request of the current stage, with sequence number id.
NextRequest(id) ==
    CASE stage \in {"cleanup", "tidy"} ->
            [NoRequest EXCEPT !.op = "unlink_exact", !.id = id, !.value = Head(pending)]
      [] stage = "main" ->
            [op |-> call.op, id |-> id, path |-> call.path, value |-> call.value,
             durable |-> call.durable]
      [] stage = "reread" -> [NoRequest EXCEPT !.op = "read", !.id = id, !.path = call.path]
      [] stage = "sync" -> [NoRequest EXCEPT !.op = "sync", !.id = id, !.path = call.path]

\* A child: its previous sequence number, the request it works on, how far it
\* is, and the answer it has written to its pipe.
Dead == [alive |-> FALSE, prev |-> 0, at |-> "exited", req |-> NoRequest,
         out |-> "none", got |-> Missing]
Fresh == [Dead EXCEPT !.alive = TRUE, !.at = "idle"]

-----------------------------------------------------------------------------
(* How a call moves on *)

\* The call returns to its caller.
Return(a) ==
    /\ answer' = a
    /\ call' = NoCall /\ stage' = "idle" /\ step' = "ensure" /\ retried' = FALSE

Succeed(v) == Return([ok |-> TRUE, op |-> call.op, path |-> call.path, value |-> v,
                      durable |-> call.durable])
Fail == Return(NoAnswer)

Goto(s) ==
    /\ stage' = s /\ step' = "ensure" /\ retried' = FALSE
    /\ UNCHANGED <<call, answer>>

ReadOnly == stage = "reread" \/ (stage = "main" /\ call.op = "read")

\* Mutant: a failed write forgets its temporary.
RaiseForgets(unknown, left) ==
    IF stage = "main" /\ call.op = "write" /\ left # {}
    THEN Goto("reread") /\ UNCHANGED pending
    ELSE Fail /\ UNCHANGED pending

\* Mutant: a failed write remembers its target instead of its temporary.
RaiseRemembersTarget(unknown, left) ==
    IF stage = "main" /\ call.op = "write" /\ left # {}
    THEN Goto("tidy") /\ pending' = Append(pending, call.path)
    ELSE Fail /\ UNCHANGED pending

\* An error leaves the current request.  unknown is the class
\* DurableArtifactProcessOutcomeUnknown: _request_read_only tries once more if
\* time is left.  left names the temporary the request may have left on disk:
\* from _write's try block on it is remembered, and the write reconciles.
Raise(unknown, left) ==
    LET reconciles == stage = "main" /\ call.op = "write" /\ left # {} IN
    \/ /\ ReadOnly /\ unknown /\ ~retried
       /\ retried' = TRUE /\ step' = "ensure"
       /\ UNCHANGED <<call, stage, answer, pending>>
    \/ /\ reconciles
       /\ \E t \in left : pending' = Append(pending, t)
       /\ Goto("tidy")
    \/ /\ ~reconciles
       /\ Fail
       /\ UNCHANGED pending

\* Mutant: a write found on disk is reported done without a sync.
CommitUnsynced(v) ==
    /\ pending' = IF stage \in {"cleanup", "tidy"} THEN Tail(pending) ELSE pending
    /\ CASE stage = "cleanup" /\ call.op = "start" -> Succeed(Missing)
         [] stage = "cleanup" /\ call.op # "start" -> Goto("main")
         [] stage = "tidy" -> Goto("reread")
         [] stage = "reread" -> IF v = call.value THEN Succeed(v) ELSE Fail
         [] stage \in {"main", "sync"} ->
               Succeed(IF call.op = "read" THEN v ELSE call.value)

\* What follows a request that was answered COMMIT with v.
Commit(v) ==
    \/ /\ stage = "cleanup"
       /\ pending' = Tail(pending)
       /\ IF Tail(pending) # <<>> THEN Goto("cleanup")
          ELSE IF call.op = "start" THEN Succeed(Missing)
          ELSE Goto("main")
    \/ /\ stage = "tidy"
       /\ pending' = Tail(pending)
       /\ Goto(IF Tail(pending) = <<>> THEN "reread" ELSE "tidy")
    \/ /\ stage = "reread"
       /\ IF v = call.value THEN Goto("sync") ELSE Fail
       /\ UNCHANGED pending
    \/ /\ stage = "main"
       /\ Succeed(IF call.op = "read" THEN v ELSE call.value)
       /\ UNCHANGED pending
    \/ /\ stage = "sync"
       /\ Succeed(call.value)
       /\ UNCHANGED pending

Fault == faults < MaxFaults /\ faults' = faults + 1

-----------------------------------------------------------------------------
(* The owner *)

\* A caller has the lock.
Begin(c) ==
    /\ stage = "idle"
    /\ sequence < MaxSequence
    /\ call' = c
    /\ stage' = IF pending # <<>> /\ c.op # "start" THEN "cleanup" ELSE "main"
    /\ answer' = NoAnswer
    /\ UNCHANGED <<step, retried, process, blocked, closed, sequence, pending,
                   workers, disk, leaked, faults>>

\* _terminate of the child w: it is reaped, or it survives terminate and kill.
Reaped(w) == workers' = [workers EXCEPT ![w] = Dead]

\* The child _ensure_process keeps.
Usable == ~blocked /\ process # None /\ workers[process].alive

\* _ensure_process returns a child.  ensure_started goes on to the cleanup.
Ensured ==
    IF stage = "main" /\ call.op = "start"
    THEN IF pending = <<>> THEN Succeed(Missing) ELSE Goto("cleanup")
    ELSE step' = "send" /\ UNCHANGED <<call, stage, retried, answer>>

\* _ensure_process, the child is alive.
EnsureLive ==
    /\ stage # "idle" /\ step = "ensure"
    /\ Usable
    /\ Ensured
    /\ UNCHANGED <<process, blocked, closed, sequence, pending, workers, disk,
                   leaked, faults>>

\* _ensure_process, a blocked child still cannot be reaped.
EnsureBlocked ==
    /\ stage # "idle" /\ step = "ensure"
    /\ blocked /\ workers[process].alive /\ Fault
    /\ Raise(FALSE, {})
    /\ UNCHANGED <<process, blocked, closed, sequence, workers, disk, leaked>>

\* Mutant: a replacement is started beside a child that was not reaped.
EnsureSpawnBeside ==
    /\ stage # "idle" /\ step = "ensure" /\ ~closed
    /\ ~Usable
    /\ \E w \in Workers : /\ ~workers[w].alive
                          /\ workers' = [workers EXCEPT ![w] = Fresh]
                          /\ process' = w
    /\ blocked' = FALSE
    /\ Ensured
    /\ UNCHANGED <<closed, sequence, pending, disk, leaked, faults>>

\* _ensure_process reaps what is left of the old child; then _spawn.  The new
\* child is ready; or it is not, in time or at all, and is abandoned; or even
\* abandoning it fails.
EnsureSpawn ==
    LET reaped == IF process = None THEN workers ELSE [workers EXCEPT ![process] = Dead] IN
    /\ stage # "idle" /\ step = "ensure"
    /\ ~Usable
    /\ \/ /\ ~closed
          /\ \E w \in Workers :
                /\ ~reaped[w].alive
                /\ workers' = [reaped EXCEPT ![w] = Fresh]
                /\ process' = w
          /\ blocked' = FALSE
          /\ Ensured
          /\ UNCHANGED <<pending, faults>>
       \/ /\ ~closed /\ Fault
          /\ workers' = reaped /\ process' = None /\ blocked' = FALSE
          /\ \E unknown \in BOOLEAN : Raise(unknown, {})
       \/ /\ ~closed /\ Fault
          /\ \E w \in Workers :
                /\ ~reaped[w].alive
                /\ workers' = [reaped EXCEPT ![w] = Fresh]
                /\ process' = w
          /\ blocked' = TRUE
          /\ Raise(FALSE, {})
       \/ /\ closed
          /\ workers' = reaped /\ process' = None /\ blocked' = FALSE
          /\ Raise(FALSE, {})
          /\ UNCHANGED faults
    /\ UNCHANGED <<closed, sequence, disk, leaked>>

\* _next_request, and _exchange up to the written frame.  A child that has
\* died meanwhile reads nothing.
Send ==
    /\ step = "send"
    /\ sequence' = sequence + 1
    /\ step' = "wait"
    /\ workers' = IF workers[process].alive
                  THEN [workers EXCEPT ![process].req = NextRequest(sequence'),
                                       ![process].at = "received"]
                  ELSE workers
    /\ UNCHANGED <<call, stage, retried, process, blocked, closed, pending, disk,
                   leaked, faults, answer>>

\* The deadline has passed when _exchange (or, for a write, _write itself)
\* asks for the remaining time: the sequence number is spent, nothing is sent
\* and the child stays.
ExpireBeforeSend ==
    /\ step = "send"
    /\ sequence' = sequence + 1
    /\ Raise(TRUE, {sequence + 1})
    /\ UNCHANGED <<process, blocked, closed, workers, disk, leaked, faults>>

\* _exchange ends with COMMIT or ABORT in time.
Complete ==
    /\ step = "wait"
    /\ workers[process].out # "none"
    /\ workers' = [workers EXCEPT ![process].out = "none", ![process].got = Missing]
    /\ IF workers[process].out = "COMMIT" THEN Commit(workers[process].got)
       ELSE Raise(FALSE, {sequence})
    /\ UNCHANGED <<process, blocked, closed, sequence, disk, leaked, faults>>

\* Mutant: the owner lets go of a child it has not reaped.
AbandonRunning ==
    /\ step = "wait"
    /\ process' = None /\ blocked' = FALSE
    /\ Raise(TRUE, {sequence})
    /\ UNCHANGED <<closed, sequence, workers, disk, leaked, faults>>

\* Mutant: only a closed pipe ends the wait.
AbandonClosed ==
    /\ step = "wait" /\ ~workers[process].alive
    /\ process' = None /\ blocked' = FALSE
    /\ Raise(TRUE, {sequence})
    /\ UNCHANGED <<closed, sequence, workers, disk, leaked, faults>>

\* _exchange times out or finds the pipe closed: _abandon reaps the child, or
\* blocks its replacement.
Abandon ==
    /\ step = "wait"
    /\ \/ /\ Reaped(process) /\ process' = None /\ blocked' = FALSE
          /\ Raise(TRUE, {sequence})
          /\ UNCHANGED faults
       \/ /\ workers[process].alive /\ Fault
          /\ blocked' = TRUE
          /\ Raise(FALSE, {sequence})
          /\ UNCHANGED <<process, workers>>
    /\ UNCHANGED <<closed, sequence, disk, leaked>>

\* close
Close ==
    /\ stage = "idle"
    /\ ~closed \/ process # None
    /\ closed' = TRUE
    /\ \/ /\ process = None /\ UNCHANGED <<process, blocked, workers, faults>>
       \/ /\ process # None /\ Reaped(process)
          /\ process' = None /\ blocked' = FALSE /\ UNCHANGED faults
       \/ /\ process # None /\ workers[process].alive /\ Fault
          /\ blocked' = TRUE /\ UNCHANGED <<process, workers>>
    /\ UNCHANGED <<call, stage, step, retried, sequence, pending, disk, leaked, answer>>

-----------------------------------------------------------------------------
(* The worker.  Each action is one file-system effect of _execute. *)

At(w, a) == workers[w].alive /\ workers[w].at = a
Now(w, r) == workers' = [workers EXCEPT ![w] = r]
Answered(w, out, v) == [workers[w] EXCEPT !.at = "idle", !.req = NoRequest,
                                          !.out = out, !.got = v]

\* run_worker, _validate_envelope: the first sequence number is taken as it
\* is, every later one must be the next; otherwise the child exits.
Receive(w) ==
    /\ At(w, "received")
    /\ LET id == workers[w].req.id IN
       IF workers[w].prev = 0 \/ id = workers[w].prev + 1
       THEN Now(w, [workers[w] EXCEPT !.at = "prepared", !.prev = id])
       ELSE Now(w, [Dead EXCEPT !.at = "refused"])
    /\ UNCHANGED <<owned, disk, leaked, faults, answer>>

\* _read_bounded and _target_allowed; _sync_existing.
Read(w) ==
    /\ At(w, "prepared") /\ workers[w].req.op = "read"
    /\ Now(w, Answered(w, "COMMIT", file[workers[w].req.path]))
    /\ UNCHANGED <<owned, disk, leaked, faults, answer>>

SyncExisting(w) ==
    LET p == workers[w].req.path IN
    /\ At(w, "prepared") /\ workers[w].req.op = "sync"
    /\ file[p] # Missing
    /\ kept' = [kept EXCEPT ![p] = {file[p]}]
    /\ Now(w, Answered(w, "COMMIT", Missing))
    /\ UNCHANGED <<owned, file, temps, leaked, faults, answer>>

\* _unlink of an exact temporary; a missing one is no error.
UnlinkExact(w) ==
    /\ At(w, "prepared") /\ workers[w].req.op = "unlink_exact"
    /\ temps' = temps \ {workers[w].req.value}
    /\ Now(w, Answered(w, "COMMIT", Missing))
    /\ UNCHANGED <<owned, file, kept, leaked, faults, answer>>

\* _unlink of a target: a missing one is answered at once, without a sync.
UnlinkRegular(w) ==
    LET p == workers[w].req.path IN
    /\ At(w, "prepared") /\ workers[w].req.op = "unlink"
    /\ IF file[p] = Missing
       THEN Now(w, Answered(w, "COMMIT", Missing)) /\ UNCHANGED <<file, kept>>
       ELSE /\ Now(w, [workers[w] EXCEPT !.at = "replaced"])
            /\ file' = [file EXCEPT ![p] = Missing]
            /\ kept' = [kept EXCEPT ![p] = @ \cup {Missing}]
    /\ UNCHANGED <<owned, temps, leaked, faults, answer>>

\* _atomic_write: the temporary, then _replace_with_retry.
OpenTemporary(w) ==
    /\ At(w, "prepared") /\ workers[w].req.op = "write"
    /\ temps' = temps \cup {workers[w].req.id}
    /\ Now(w, [workers[w] EXCEPT !.at = "written"])
    /\ UNCHANGED <<owned, file, kept, leaked, faults, answer>>

Replace(w) ==
    LET p == workers[w].req.path IN
    /\ At(w, "written")
    /\ temps' = temps \ {workers[w].req.id}
    /\ file' = [file EXCEPT ![p] = workers[w].req.value]
    /\ kept' = [kept EXCEPT ![p] = @ \cup {workers[w].req.value}]
    /\ Now(w, [workers[w] EXCEPT !.at = "replaced"])
    /\ UNCHANGED <<owned, leaked, faults, answer>>

\* _sync_parent after a durable replacement or a removal, and the answer.
SyncParent(w) ==
    LET p == workers[w].req.path IN
    /\ At(w, "replaced")
    /\ kept' = IF workers[w].req.durable \/ workers[w].req.op = "unlink"
               THEN [kept EXCEPT ![p] = {file[p]}] ELSE kept
    /\ Now(w, Answered(w, "COMMIT", Missing))
    /\ UNCHANGED <<owned, file, temps, leaked, faults, answer>>

\* An OSError or a refused target: ABORT.  The finally of _atomic_write
\* removes the temporary, unless that fails too; an _unlink may fail after
\* the removal.
Abort(w) ==
    /\ workers[w].alive /\ workers[w].at \in {"prepared", "written", "replaced"}
    /\ Fault
    /\ temps' \in {temps, temps \ {workers[w].req.id, workers[w].req.value}}
    /\ Now(w, Answered(w, "ABORT", Missing))
    /\ UNCHANGED <<owned, file, kept, leaked, answer>>

\* The child dies by itself.
Exit(w) ==
    /\ workers[w].alive /\ Fault
    /\ Now(w, [Dead EXCEPT !.out = workers[w].out, !.got = workers[w].got])
    /\ UNCHANGED <<owned, disk, leaked, answer>>

-----------------------------------------------------------------------------
(* The owner dies, alone or with the machine.  Its child is assumed dead     *)
(* (parent watcher, PDEATHSIG) before the next owner starts.                 *)

Die ==
    /\ Fault
    /\ call' = NoCall /\ stage' = "idle" /\ step' = "ensure" /\ retried' = FALSE
    /\ process' = None /\ blocked' = FALSE /\ closed' = FALSE
    /\ sequence' = sequence   \* starts again at 0; ids stay distinct
    /\ pending' = <<>>
    /\ workers' = [w \in Workers |-> Dead]
    /\ leaked' = temps
    /\ answer' = NoAnswer
    /\ \/ UNCHANGED disk
       \/ /\ file' \in [Paths -> Values \cup {Missing}]
          /\ \A p \in Paths : file'[p] \in kept[p]
          /\ kept' = [p \in Paths |-> {file'[p]}]
          /\ UNCHANGED temps

Init ==
    /\ call = NoCall /\ stage = "idle" /\ step = "ensure" /\ retried = FALSE
    /\ process = None /\ blocked = FALSE /\ closed = FALSE
    /\ sequence = 0 /\ pending = <<>>
    /\ workers = [w \in Workers |-> Dead]
    /\ file = [p \in Paths |-> Missing]
    /\ kept = [p \in Paths |-> {Missing}]
    /\ temps = {} /\ leaked = {} /\ faults = 0 /\ answer = NoAnswer

Serve == EnsureLive \/ EnsureBlocked \/ EnsureSpawn \/ Send \/ ExpireBeforeSend
         \/ Complete \/ Abandon

Work(w) == Receive(w) \/ Read(w) \/ SyncExisting(w) \/ UnlinkExact(w)
           \/ UnlinkRegular(w) \/ OpenTemporary(w) \/ Replace(w) \/ SyncParent(w)
           \/ Abort(w) \/ Exit(w)

Next == (\E c \in Calls : Begin(c)) \/ Serve \/ Close \/ (\E w \in Workers : Work(w)) \/ Die

\* Every wait of the owner has a deadline, so a call that can go on does.
Spec == Init /\ [][Next]_vars /\ WF_vars(Serve)

-----------------------------------------------------------------------------
(* Properties *)

Stages == {"idle", "cleanup", "main", "tidy", "reread", "sync"}

\* Type invariant.
TypeOK ==
    /\ call \in Calls \cup {NoCall} /\ stage \in Stages
    /\ step \in {"ensure", "send", "wait"} /\ retried \in BOOLEAN
    /\ process \in Workers \cup {None} /\ blocked \in BOOLEAN /\ closed \in BOOLEAN
    /\ sequence \in Nat /\ faults \in Nat
    /\ pending \in Seq(1..sequence) /\ temps \subseteq 1..sequence
    /\ leaked \subseteq 1..sequence
    /\ \A p \in Paths : file[p] \in kept[p] /\ kept[p] \subseteq Values \cup {Missing}

\* "A replacement is not started before the child is reaped": at most one
\* child lives, and it is the one the owner holds.
OneLiveWorker == \A w \in Workers : workers[w].alive => w = process

\* An answer stands until the next call begins: no abandoned request changes a
\* file after a later call was told what the file holds, and a durable write
\* that was reported done survives a power loss.
AnswerStands ==
    stage = "idle" /\ answer.ok /\ answer.op # "start" =>
        /\ file[answer.path] = answer.value
        /\ answer.durable => kept[answer.path] = {answer.value}

\* No call succeeds while a temporary of this owner's earlier failures is left
\* on disk.
TemporariesCleaned == stage = "idle" /\ answer.ok => temps \subseteq leaked

\* Every call returns, whatever the child does.
EveryCallReturns == (stage # "idle") ~> (stage = "idle")

\* A mutation that some child may still carry out.
Unsettled ==
    {[op |-> workers[w].req.op, path |-> workers[w].req.path,
      value |-> workers[w].req.value] :
        w \in {v \in Workers : /\ workers[v].alive
                               /\ workers[v].at \in {"received", "prepared", "written"}
                               /\ workers[v].req.op \in {"write", "unlink"}}}

Atomic == INSTANCE AtomicArtifact WITH
    Mutations <- [op : {"write", "unlink"}, path : Paths, value : Values \cup {Missing}],
    value <- file, inflight <- Unsettled

\* The owner and its children implement atomic files.
AtomicFiles == Atomic!ASpec
====
