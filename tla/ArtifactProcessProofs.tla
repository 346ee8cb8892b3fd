----------------------- MODULE ArtifactProcessProofs -----------------------
(***************************************************************************)
(* Proofs about ArtifactProcess, for every set of paths, values and        *)
(* process ids and every number of calls and faults: one child at most,    *)
(* answers that stand, temporaries that are cleaned up, and the refinement *)
(* of AtomicArtifact.                                                      *)
(*                                                                         *)
(* The argument.  A child the owner has not given up works on nothing but  *)
(* the request the owner waits for (Conversation), and its answer says     *)
(* what is on disk (CommitOK).  A child that could not be reaped blocks its            *)
(* replacement, so whatever it may still do to a file or a temporary it    *)
(* does before the next request of anybody is sent.                        *)
(***************************************************************************)
EXTENDS ArtifactProcess, SequenceTheorems, TLAPS

Contents == Values \cup {Missing}
Busy == {"received", "prepared", "written", "replaced"}
Mutating == {"write", "unlink"}

Requests ==
    [op : {"none", "read", "write", "unlink", "sync", "unlink_exact", "start"}, id : Nat,
     path : Paths \cup {Missing}, value : Contents \cup Nat, durable : BOOLEAN]

Children ==
    [alive : BOOLEAN, prev : Nat, at : Busy \cup {"idle", "exited", "refused"},
     req : Requests, out : {"none", "COMMIT", "ABORT"}, got : Contents]

Answers ==
    [ok : BOOLEAN, op : {"none", "read", "write", "unlink", "start"},
     path : Paths \cup {Missing}, value : Contents, durable : BOOLEAN]

\* The types TypeOK leaves out.
MoreTypes ==
    /\ workers \in [Workers -> Children]
    /\ file \in [Paths -> Contents] /\ kept \in [Paths -> SUBSET Contents]
    /\ answer \in Answers

InPending(t) == \E i \in 1..Len(pending) : pending[i] = t

\* What the stage says of the call and of the remembered temporaries.
StageOK ==
    /\ stage = "idle" => call = NoCall /\ step = "ensure"
    /\ stage # "idle" => call \in Calls
    /\ stage \in {"tidy", "reread", "sync"} => call.op = "write"
    /\ stage \in {"cleanup", "tidy"} => pending # <<>>
    /\ stage \in {"reread", "sync"} => pending = <<>>
    /\ stage = "main" /\ call.op # "start" => pending = <<>>
    /\ stage = "main" /\ call.op = "start" => step = "ensure"

\* A request is under way only with a child that is not given up.
BlockedOK ==
    /\ blocked => process # None
    /\ step # "ensure" => process # None /\ ~blocked
    /\ stage \in {"reread", "sync"} => ~blocked

\* A request under way has spent a sequence number.
SeqPositive == step = "wait" => sequence > 0

\* What a child works on is well formed.
WorkOK(w) ==
    workers[w].alive =>
        /\ workers[w].at \in Busy \cup {"idle"}
        /\ workers[w].at \in Busy => workers[w].req.op \notin {"none", "start"}
        /\ workers[w].at \in Busy /\ workers[w].req.op # "unlink_exact" =>
               workers[w].req.path \in Paths
        /\ workers[w].at \in Busy /\ workers[w].req.op \in Mutating =>
               workers[w].req.value \in Contents
        /\ workers[w].at \in Busy /\ workers[w].req.op = "unlink" =>
               workers[w].req.value = Missing
        /\ workers[w].at = "written" => workers[w].req.op = "write"
        /\ workers[w].at = "replaced" =>
               /\ workers[w].req.op \in Mutating
               /\ file[workers[w].req.path] = workers[w].req.value
               /\ workers[w].req.op = "write" => workers[w].req.id \notin temps
        /\ workers[w].at \in Busy => workers[w].out = "none"

\* A child that is neither asked nor given up is idle; one that is asked
\* works on that request, has answered it, or is dead.
Conversation ==
    process # None =>
        /\ step # "wait" /\ ~blocked =>
               /\ workers[process].out = "none"
               /\ workers[process].alive => workers[process].at = "idle"
        /\ step = "wait" /\ workers[process].alive
             /\ workers[process].at \in Busy =>
               workers[process].req = NextRequest(sequence)
        /\ step = "wait" /\ workers[process].alive
             /\ workers[process].out = "none" => workers[process].at \in Busy
        /\ blocked /\ workers[process].alive /\ workers[process].at \in Busy
             /\ workers[process].req.op = "write" =>
               InPending(workers[process].req.id)

\* What a COMMIT that the owner has yet to read says.
CommitOK ==
    step = "wait" /\ workers[process].out = "COMMIT" =>
        /\ stage \in {"cleanup", "tidy"} => Head(pending) \notin temps
        /\ stage = "main" /\ call.op = "write" =>
              /\ sequence \notin temps
              /\ call.durable => kept[call.path] = {call.value}
        /\ stage = "main" /\ call.op \in Mutating => file[call.path] = call.value
        /\ stage = "reread" \/ (stage = "main" /\ call.op = "read") =>
              workers[process].got = file[call.path]
        /\ stage = "sync" => kept[call.path] = {file[call.path]}

\* The write found on disk by the re-read stays there.
SyncOK == stage = "sync" => file[call.path] = call.value

\* Every temporary of this owner is remembered, or of the write under way.
TempsOK ==
    \A t \in temps \ leaked :
        \/ InPending(t)
        \/ step = "wait" /\ stage = "main" /\ call.op = "write" /\ t = sequence

\* After a success the child, if there is one, has nothing left to do.
QuietAfterSuccess ==
    stage = "idle" /\ answer.ok =>
        /\ \A w \in Workers : workers[w].alive => workers[w].at = "idle"
        /\ answer.op # "start" => answer.path \in Paths

\* The part of the invariant that is about the call being served.
CallInv ==
    /\ call \in Calls \cup {NoCall} /\ stage \in Stages
    /\ step \in {"ensure", "send", "wait"} /\ retried \in BOOLEAN
    /\ pending \in Seq(1..sequence) /\ answer \in Answers
    /\ StageOK /\ SeqPositive /\ CommitOK /\ SyncOK /\ TempsOK
    /\ QuietAfterSuccess /\ AnswerStands /\ TemporariesCleaned

IInv ==
    /\ TypeOK /\ MoreTypes /\ StageOK /\ BlockedOK /\ SeqPositive
    /\ OneLiveWorker /\ (\A w \in Workers : WorkOK(w))
    /\ Conversation /\ CommitOK /\ SyncOK /\ TempsOK
    /\ QuietAfterSuccess /\ AnswerStands /\ TemporariesCleaned
-----------------------------------------------------------------------------
(* Types *)

\* The records the model starts from are well typed.
LEMMA ConstantTypes ==
    /\ NoRequest \in Requests /\ NoAnswer \in Answers
    /\ Dead \in Children /\ Fresh \in Children
BY DEF NoRequest, Requests, Contents, NoAnswer, Answers, Dead, Fresh, Children, Busy

\* A child that has answered is idle.
LEMMA AnsweredType ==
    ASSUME NEW w \in Workers, workers[w] \in Children, workers[w].alive,
           NEW out \in {"COMMIT", "ABORT"}, NEW v \in Contents
    PROVE  /\ Answered(w, out, v) \in Children
           /\ Answered(w, out, v).alive
           /\ Answered(w, out, v).at = "idle"
           /\ Answered(w, out, v).out = out /\ Answered(w, out, v).got = v
BY ConstantTypes DEF Answered, Children

\* A child that has died.
LEMMA DeadType ==
    ASSUME NEW c \in Children
    PROVE  /\ [Dead EXCEPT !.at = "refused"] \in Children
           /\ ~[Dead EXCEPT !.at = "refused"].alive
           /\ [Dead EXCEPT !.at = "refused"].out = "none"
           /\ [Dead EXCEPT !.out = c.out, !.got = c.got] \in Children
           /\ ~[Dead EXCEPT !.out = c.out, !.got = c.got].alive
           /\ [Dead EXCEPT !.out = c.out, !.got = c.got].out = c.out
           /\ [Dead EXCEPT !.out = c.out, !.got = c.got].got = c.got
<1>1. Dead \in Children /\ ~Dead.alive /\ Dead.out = "none"
  BY ConstantTypes DEF Dead
<1> QED BY <1>1 DEF Children

\* A busy child is the owner's, and the owner waits for it or has given it up.
LEMMA BusyChild ==
    ASSUME IInv, NEW w \in Workers, workers[w].alive, workers[w].at \in Busy
    PROVE  /\ w = process /\ process # None /\ workers[w] \in Children
           /\ \/ /\ step = "wait" /\ ~blocked /\ stage # "idle"
                 /\ call \in Calls
                 /\ workers[w].req = NextRequest(sequence)
              \/ step = "ensure" /\ blocked /\ stage \notin {"reread", "sync"}
<1>1. w = process /\ process # None
  BY ArtifactAssumption DEF IInv, OneLiveWorker
<1>2. workers[w] \in Children
  BY DEF IInv, MoreTypes
<1>3. step = "wait" \/ (step = "ensure" /\ blocked)
  <2>1. workers[process].at # "idle"
    BY <1>1 DEF Busy
  <2>2. step \in {"ensure", "send", "wait"} /\ (step # "ensure" => ~blocked)
    BY DEF IInv, TypeOK, BlockedOK
  <2>3. step # "wait" => blocked
    BY <1>1, <2>1 DEF IInv, Conversation
  <2>4. CASE step = "wait"
    BY <2>4
  <2>5. CASE step # "wait"
    <3>1. blocked
      BY <2>3, <2>5
    <3>2. step = "ensure"
      BY <2>2, <3>1
    <3> QED BY <3>1, <3>2
  <2> QED BY <2>4, <2>5
<1>4. CASE step = "wait"
  BY <1>1, <1>2, <1>4 DEF IInv, Conversation, BlockedOK, StageOK
<1>5. CASE step = "ensure" /\ blocked
  BY <1>1, <1>2, <1>5 DEF IInv, BlockedOK
<1> QED BY <1>3, <1>4, <1>5

\* The id of a write, and so the name of its temporary, is one the owner made.
LEMMA WriteId ==
    ASSUME IInv, NEW w \in Workers, workers[w].alive, workers[w].at \in Busy,
           workers[w].req.op = "write"
    PROVE  workers[w].req.id \in 1..sequence
<1>1. CASE step = "wait" /\ workers[w].req = NextRequest(sequence)
  BY <1>1, BusyChild DEF IInv, SeqPositive, TypeOK, StageOK, NextRequest, NoRequest, Stages, Calls
<1>2. CASE step = "ensure" /\ blocked
  BY <1>2, BusyChild DEF IInv, Conversation, InPending, TypeOK
<1> QED BY <1>1, <1>2, BusyChild

\* The request a stage makes, told from its operation.
LEMMA RequestOf ==
    ASSUME IInv, stage # "idle", step = "wait", NEW r, r = NextRequest(sequence)
    PROVE  /\ r.op = "write" => /\ stage = "main" /\ call.op = "write" /\ r.id = sequence
                                /\ r.path = call.path /\ r.value = call.value
                                /\ r.durable = call.durable
           /\ r.op = "unlink" => /\ stage = "main" /\ call.op = "unlink"
                                 /\ r.path = call.path /\ r.value = call.value
                                 /\ r.value = Missing
           /\ r.op = "read" => /\ r.path = call.path
                               /\ \/ stage = "reread"
                                  \/ stage = "main" /\ call.op = "read"
           /\ r.op = "sync" => stage = "sync" /\ r.path = call.path
           /\ r.op = "unlink_exact" => /\ stage \in {"cleanup", "tidy"}
                                       /\ r.value = Head(pending)
           /\ r.id = sequence
BY DEF IInv, StageOK, TypeOK, Calls, Stages, NextRequest, NoRequest

-----------------------------------------------------------------------------
(* The steps of a child *)

\* What every step of a child has in common.
LEMMA WorkFrame ==
    ASSUME IInv, NEW w \in Workers, Work(w)
    PROVE  /\ workers \in [Workers -> Children] /\ workers[w] \in Children
           /\ w = process /\ process # None /\ workers[w].alive /\ WorkOK(w)
           /\ UNCHANGED <<call, stage, step, retried, process, blocked, closed, sequence,
                          pending, leaked, answer>>
           /\ faults' \in {faults, faults + 1}
           /\ NextRequest(sequence)' = NextRequest(sequence)
           /\ \A u : InPending(u)' <=> InPending(u)
<1>1. /\ workers[w].alive /\ faults' \in {faults, faults + 1}
      /\ UNCHANGED <<call, stage, step, retried, process, blocked, closed, sequence,
                     pending, leaked, answer>>
  BY DEF Work, Receive, Read, SyncExisting, UnlinkExact, UnlinkRegular, OpenTemporary,
         Replace, SyncParent, Abort, Exit, At, Fault, owned
<1>2. workers \in [Workers -> Children] /\ w = process /\ process # None /\ WorkOK(w)
  BY <1>1, ArtifactAssumption DEF IInv, MoreTypes, OneLiveWorker
<1>3. NextRequest(sequence)' = NextRequest(sequence)
  BY <1>1 DEF NextRequest
<1>4. \A u : InPending(u)' <=> InPending(u)
  BY <1>1 DEF InPending
<1> QED BY <1>1, <1>2, <1>3, <1>4

\* The request of a busy child names a path of the model, unless it removes
\* an exact temporary.
LEMMA BusyPath ==
    ASSUME IInv, NEW w \in Workers, workers[w].alive, workers[w].at \in Busy
    PROVE  /\ workers[w].req.op # "unlink_exact" =>
                 workers[w].req.path \in Paths /\ file[workers[w].req.path] \in Contents
           /\ workers[w].req.id \in Nat /\ workers[w].out = "none"
<1>1. WorkOK(w) /\ workers[w] \in Children /\ file \in [Paths -> Contents]
  BY DEF IInv, MoreTypes
<1> QED BY <1>1 DEF WorkOK, Children, Requests

\* A step of a child keeps the invariant when the child w, now r, works on,
\* has answered or is dead, and what it did to the disk agrees with what the
\* owner is waiting for.
LEMMA WorkKeeps ==
    ASSUME IInv, NEW w \in Workers, Work(w), NEW r \in Children, Now(w, r),
           \/ /\ workers[w].at \in Busy
              /\ \/ r.alive /\ r.at \in Busy /\ r.req = workers[w].req /\ r.out = "none"
                 \/ r.alive /\ r.at = "idle" /\ r.out # "none"
                 \/ ~r.alive /\ r.out = "none"
           \/ ~r.alive /\ r.out = workers[w].out /\ UNCHANGED <<file, kept, temps>>,
           file' \in [Paths -> Contents], kept' \in [Paths -> SUBSET Contents],
           \A p \in Paths : file'[p] \in kept'[p], temps' \subseteq 1..sequence,
           WorkOK(w)', r.out = "COMMIT" => CommitOK', file' = file \/ SyncOK',
           temps' \subseteq temps \/ TempsOK'
    PROVE  IInv'
<1>0. /\ workers \in [Workers -> Children] /\ workers[w] \in Children
      /\ w = process /\ process # None /\ workers[w].alive /\ WorkOK(w)
      /\ UNCHANGED <<call, stage, step, retried, process, blocked, closed, sequence,
                     pending, leaked, answer>>
      /\ faults' \in {faults, faults + 1}
      /\ NextRequest(sequence)' = NextRequest(sequence)
      /\ \A u : InPending(u)' <=> InPending(u)
  BY WorkFrame
<1>1. /\ workers' \in [Workers -> Children] /\ workers'[w] = r
      /\ \A v \in Workers : v # w => workers'[v] = workers[v]
  BY <1>0 DEF Now
<1>2. \A v \in Workers : v # w => ~workers'[v].alive
  BY <1>0, <1>1 DEF IInv, OneLiveWorker
<1>3. TypeOK' /\ MoreTypes'
  <2>1. \A p \in Paths : kept'[p] \subseteq Values \cup {Missing}
    BY DEF Contents
  <2> QED BY <1>0, <1>1, <2>1 DEF IInv, TypeOK, MoreTypes
<1>4. StageOK' /\ BlockedOK' /\ SeqPositive'
  BY <1>0 DEF IInv, StageOK, BlockedOK, SeqPositive
<1>5. OneLiveWorker' /\ (\A v \in Workers : WorkOK(v))'
  BY <1>0, <1>2 DEF OneLiveWorker, WorkOK
<1>6. Conversation'
  BY <1>0, <1>1 DEF IInv, Conversation, Busy
<1>7. CommitOK'
  BY <1>0, <1>1 DEF CommitOK
<1>8. SyncOK' /\ TempsOK'
  BY <1>0 DEF IInv, SyncOK, TempsOK
<1>9. (QuietAfterSuccess /\ AnswerStands /\ TemporariesCleaned)'
  <2>1. stage = "idle" /\ answer.ok => workers[w].at \notin Busy
    BY <1>0 DEF IInv, QuietAfterSuccess, Busy
  <2>2. stage = "idle" /\ answer.ok => ~r.alive /\ UNCHANGED <<file, kept, temps>>
    BY <2>1
  <2> QED BY <1>0, <1>1, <1>2, <2>2
          DEF IInv, QuietAfterSuccess, AnswerStands, TemporariesCleaned
<1> QED BY <1>3, <1>4, <1>5, <1>6, <1>7, <1>8, <1>9 DEF IInv

\* A step that only moves the child on, dead or to its next effect.
LEMMA MoveKeeps ==
    ASSUME IInv, NEW w \in Workers, Work(w), NEW r \in Children, Now(w, r),
           workers[w].at \in Busy, UNCHANGED <<file, kept>>,
           \/ /\ r.alive /\ r.at \in {"prepared", "written"} /\ r.req = workers[w].req
              /\ r.out = "none"
              /\ r.at = "written" => workers[w].req.op = "write"
           \/ ~r.alive /\ r.out = "none",
           temps' \subseteq 1..sequence, temps' \subseteq temps \/ TempsOK'
    PROVE  IInv'
<1>0. /\ workers \in [Workers -> Children] /\ workers[w].alive /\ WorkOK(w)
  BY WorkFrame
<1>1. workers'[w] = r
  BY <1>0 DEF Now
<1>2. WorkOK(w)'
  BY <1>0, <1>1 DEF WorkOK, Busy
<1>3. /\ file' \in [Paths -> Contents] /\ kept' \in [Paths -> SUBSET Contents]
      /\ \A p \in Paths : file'[p] \in kept'[p]
  BY DEF IInv, MoreTypes, TypeOK
<1> QED BY <1>2, <1>3, WorkKeeps DEF Busy

\* A step that answers the owner.
LEMMA AnswerKeeps ==
    ASSUME IInv, NEW w \in Workers, Work(w), NEW out \in {"COMMIT", "ABORT"},
           NEW v \in Contents, Now(w, Answered(w, out, v)), workers[w].at \in Busy,
           file' = file, kept' \in [Paths -> SUBSET Contents],
           \A p \in Paths : file[p] \in kept'[p], temps' \subseteq temps,
           out = "COMMIT" => CommitOK'
    PROVE  IInv'
<1>0. /\ workers \in [Workers -> Children] /\ workers[w].alive /\ WorkOK(w)
  BY WorkFrame
<1> DEFINE r == Answered(w, out, v)
<1>1. /\ r \in Children /\ r.alive /\ r.at = "idle" /\ r.out = out /\ r.got = v
  BY <1>0, AnsweredType
<1> HIDE DEF r
<1>2. WorkOK(w)'
  BY <1>0, <1>1 DEF WorkOK, Busy, Now, r
<1>3. file' \in [Paths -> Contents] /\ temps' \subseteq 1..sequence
  BY DEF IInv, MoreTypes, TypeOK
<1>4. Now(w, r)
  BY DEF r
<1> QED BY <1>1, <1>2, <1>3, <1>4, WorkKeeps

\* The child accepts the request, or refuses its sequence number and exits.
LEMMA ReceiveInv == ASSUME IInv, NEW w \in Workers, Receive(w) PROVE IInv'
<1>0. Work(w)
  BY DEF Work
<1>1. /\ workers[w] \in Children /\ workers[w].alive /\ workers[w].at \in Busy
      /\ UNCHANGED <<file, kept, temps>> /\ temps \subseteq 1..sequence
  BY <1>0, WorkFrame DEF Receive, At, Busy, disk, IInv, TypeOK
<1>2. workers[w].out = "none" /\ workers[w].req.id \in Nat
  BY <1>1, BusyPath
<1>3. CASE Now(w, [Dead EXCEPT !.at = "refused"])
  BY <1>0, <1>1, <1>3, DeadType, MoveKeeps
<1>4. CASE Now(w, [workers[w] EXCEPT !.at = "prepared", !.prev = workers[w].req.id])
  <2> DEFINE r == [workers[w] EXCEPT !.at = "prepared", !.prev = workers[w].req.id]
  <2>1. /\ r \in Children /\ r.alive /\ r.at = "prepared"
        /\ r.req = workers[w].req /\ r.out = "none"
    BY <1>1, <1>2 DEF Children, Busy
  <2> HIDE DEF r
  <2>2. Now(w, r)
    BY <1>4 DEF r
  <2> QED BY <1>0, <1>1, <2>1, <2>2, MoveKeeps
<1> QED BY <1>3, <1>4 DEF Receive

\* A read answers with what the file holds.
LEMMA ReadInv == ASSUME IInv, NEW w \in Workers, Read(w) PROVE IInv'
<1> DEFINE q == workers[w].req
<1>0. Work(w)
  BY DEF Work
<1>1. /\ workers \in [Workers -> Children] /\ w = process /\ workers[w].alive
      /\ workers[w].at \in Busy /\ q.op = "read" /\ UNCHANGED <<file, kept, temps>>
      /\ UNCHANGED <<call, stage, step, process>>
      /\ Now(w, Answered(w, "COMMIT", file[q.path]))
  BY <1>0, WorkFrame DEF Read, At, Busy, disk
<1>2. file[q.path] \in Contents
  BY <1>1, BusyPath
<1>3. workers'[w].got = file[q.path]
  BY <1>1 DEF Now, Answered, Children
<1>4. CommitOK'
  <2>1. step = "wait" => /\ q.path = call.path
                         /\ stage = "reread" \/ (stage = "main" /\ call.op = "read")
    BY <1>1, BusyChild, RequestOf
  <2> QED BY <1>1, <1>3, <2>1 DEF CommitOK, Mutating
<1> QED BY <1>0, <1>1, <1>2, <1>4, AnswerKeeps DEF IInv, MoreTypes, TypeOK

\* A file found on disk is synced.
LEMMA SyncExistingInv == ASSUME IInv, NEW w \in Workers, SyncExisting(w) PROVE IInv'
<1> DEFINE p == workers[w].req.path
<1>0. Work(w)
  BY DEF Work
<1>1. /\ w = process /\ workers[w].alive
      /\ workers[w].at \in Busy /\ workers[w].req.op = "sync"
      /\ UNCHANGED <<file, temps, call, stage, step, process>>
      /\ kept' = [kept EXCEPT ![p] = {file[p]}]
      /\ Now(w, Answered(w, "COMMIT", Missing))
  BY <1>0, WorkFrame DEF SyncExisting, At, Busy
<1>2. p \in Paths /\ file[p] \in Contents
  BY <1>1, BusyPath
<1> HIDE DEF p
<1>3. kept' \in [Paths -> SUBSET Contents] /\ (\A q \in Paths : file[q] \in kept'[q])
      /\ kept'[p] = {file[p]}
  BY <1>1, <1>2 DEF IInv, MoreTypes, TypeOK
<1>4. CommitOK'
  <2>1. step = "wait" => p = call.path /\ stage = "sync"
    BY <1>1, BusyChild, RequestOf DEF p
  <2> QED BY <1>1, <1>3, <2>1 DEF CommitOK
<1> QED BY <1>0, <1>1, <1>3, <1>4, AnswerKeeps DEF Contents

\* A remembered temporary is removed.
LEMMA UnlinkExactInv == ASSUME IInv, NEW w \in Workers, UnlinkExact(w) PROVE IInv'
<1>0. Work(w)
  BY DEF Work
<1>1. /\ w = process /\ workers[w].alive
      /\ workers[w].at \in Busy /\ workers[w].req.op = "unlink_exact"
      /\ UNCHANGED <<file, kept, call, stage, step, pending, process>>
      /\ temps' = temps \ {workers[w].req.value}
      /\ Now(w, Answered(w, "COMMIT", Missing))
  BY <1>0, WorkFrame DEF UnlinkExact, At, Busy
<1>2. CommitOK'
  <2>1. step = "wait" => stage \in {"cleanup", "tidy"} /\ workers[w].req.value = Head(pending)
    BY <1>1, BusyChild, RequestOf
  <2> QED BY <1>1, <2>1 DEF CommitOK
<1> QED BY <1>0, <1>1, <1>2, AnswerKeeps DEF Contents, IInv, MoreTypes, TypeOK

\* A target is removed, or was not there.
LEMMA UnlinkRegularInv == ASSUME IInv, NEW w \in Workers, UnlinkRegular(w) PROVE IInv'
<1> DEFINE p == workers[w].req.path
<1>0. Work(w)
  BY DEF Work
<1>1. /\ workers \in [Workers -> Children] /\ WorkOK(w)
      /\ w = process /\ workers[w].alive
      /\ workers[w].at \in Busy /\ workers[w].req.op = "unlink"
      /\ UNCHANGED <<temps, call, stage, step, process, sequence>>
  BY <1>0, WorkFrame DEF UnlinkRegular, At, Busy
<1>2. /\ p \in Paths /\ workers[w].out = "none" /\ workers[w].req.value = Missing
      /\ Missing \in Contents
  BY <1>1, BusyPath DEF WorkOK, Contents
<1>3. step = "wait" => /\ stage = "main" /\ call.op = "unlink" /\ call.path = p
                       /\ call.value = Missing
  BY <1>1, BusyChild, RequestOf
<1>s. stage # "sync"
  BY <1>1, <1>3, BusyChild
<1>4. CASE file[p] = Missing
  <2>1. Now(w, Answered(w, "COMMIT", Missing)) /\ UNCHANGED <<file, kept>>
    BY <1>4 DEF UnlinkRegular
  <2>2. CommitOK'
    BY <1>1, <1>3, <1>4, <2>1 DEF CommitOK
  <2> QED BY <1>0, <1>1, <1>2, <2>1, <2>2, AnswerKeeps DEF IInv, MoreTypes, TypeOK
<1>5. CASE file[p] # Missing
  <2> DEFINE r == [workers[w] EXCEPT !.at = "replaced"]
  <2>1. /\ Now(w, r) /\ file' = [file EXCEPT ![p] = Missing]
        /\ kept' = [kept EXCEPT ![p] = @ \cup {Missing}]
    BY <1>5 DEF UnlinkRegular
  <2>2. /\ r \in Children /\ r.alive /\ r.at = "replaced"
        /\ r.req = workers[w].req /\ r.out = "none" /\ workers'[w] = r
    BY <1>1, <1>2, <2>1 DEF Children, Busy, Now
  <2> HIDE DEF r, p
  <2>3. /\ file' \in [Paths -> Contents] /\ kept' \in [Paths -> SUBSET Contents]
        /\ (\A q \in Paths : file'[q] \in kept'[q]) /\ file'[p] = Missing
    BY <1>2, <2>1 DEF IInv, MoreTypes, TypeOK
  <2>4. WorkOK(w)'
    BY <1>1, <1>2, <2>2, <2>3 DEF WorkOK, Busy, Mutating, p
  <2>5. SyncOK'
    BY <1>1, <1>s DEF SyncOK
  <2>6. temps' \subseteq 1..sequence
    BY <1>1 DEF IInv, TypeOK
  <2> QED BY <1>0, <1>1, <2>1, <2>2, <2>3, <2>4, <2>5, <2>6, WorkKeeps DEF Busy
<1> QED BY <1>4, <1>5

\* A write creates its temporary.
LEMMA OpenTemporaryInv == ASSUME IInv, NEW w \in Workers, OpenTemporary(w) PROVE IInv'
<1> DEFINE r == [workers[w] EXCEPT !.at = "written"]
<1>0. Work(w)
  BY DEF Work
<1>1. /\ workers[w] \in Children /\ w = process /\ process # None /\ workers[w].alive
      /\ workers[w].at \in Busy /\ workers[w].req.op = "write"
      /\ UNCHANGED <<file, kept, call, stage, step, sequence, leaked>>
      /\ \A u : InPending(u)' <=> InPending(u)
      /\ temps' = temps \cup {workers[w].req.id} /\ Now(w, r)
  BY <1>0, WorkFrame DEF OpenTemporary, At, Busy
<1>2. workers[w].out = "none" /\ workers[w].req.id \in 1..sequence
  BY <1>1, BusyPath, WriteId
<1>3. /\ r \in Children /\ r.alive /\ r.at = "written"
      /\ r.req = workers[w].req /\ r.out = "none"
  BY <1>1, <1>2 DEF Children, Busy
<1> HIDE DEF r
<1>4. \/ step = "wait" /\ stage = "main" /\ call.op = "write" /\ workers[w].req.id = sequence
      \/ InPending(workers[w].req.id)
  <2>1. CASE step = "wait"
    BY <1>1, <2>1, BusyChild, RequestOf
  <2>2. CASE step # "wait"
    <3>1. blocked
      BY <1>1, <2>2, BusyChild
    <3> QED BY <1>1, <3>1 DEF IInv, Conversation
  <2> QED BY <2>1, <2>2
<1>5. TempsOK'
  BY <1>1, <1>4 DEF IInv, TempsOK
<1>6. temps' \subseteq 1..sequence
  BY <1>1, <1>2 DEF IInv, TypeOK
<1> QED BY <1>0, <1>1, <1>3, <1>5, <1>6, MoveKeeps

\* A write replaces its target.
LEMMA ReplaceInv == ASSUME IInv, NEW w \in Workers, Replace(w) PROVE IInv'
<1> DEFINE q == workers[w].req
           r == [workers[w] EXCEPT !.at = "replaced"]
<1>0. Work(w)
  BY DEF Work
<1>1. /\ workers \in [Workers -> Children] /\ workers[w] \in Children
      /\ w = process /\ workers[w].alive
      /\ workers[w].at \in Busy /\ q.op = "write" /\ q.value \in Contents
      /\ UNCHANGED <<call, stage, step, sequence>>
      /\ Now(w, r) /\ temps' = temps \ {q.id}
      /\ file' = [file EXCEPT ![q.path] = q.value]
      /\ kept' = [kept EXCEPT ![q.path] = @ \cup {q.value}]
  BY <1>0, WorkFrame DEF Replace, At, Busy, WorkOK, Mutating
<1>2. q.path \in Paths /\ workers[w].out = "none"
  BY <1>1, BusyPath
<1>3. /\ r \in Children /\ r.alive /\ r.at = "replaced"
      /\ r.req = q /\ r.out = "none" /\ workers'[w] = r
  BY <1>1, <1>2 DEF Children, Busy, Now
<1>s. stage # "sync"
  BY <1>1, BusyChild, RequestOf
<1> HIDE DEF r, q
<1>4. /\ file' \in [Paths -> Contents] /\ kept' \in [Paths -> SUBSET Contents]
      /\ (\A p \in Paths : file'[p] \in kept'[p]) /\ file'[q.path] = q.value
  BY <1>1, <1>2 DEF IInv, MoreTypes, TypeOK
<1>5. WorkOK(w)'
  BY <1>1, <1>2, <1>3, <1>4 DEF WorkOK, Busy, Mutating
<1>6. SyncOK' /\ temps' \subseteq temps /\ temps' \subseteq 1..sequence
  BY <1>1, <1>s DEF SyncOK, IInv, TypeOK
<1>7. r.req = workers[w].req
  BY <1>3 DEF q
<1> QED BY <1>0, <1>1, <1>3, <1>4, <1>5, <1>6, <1>7, WorkKeeps DEF Busy

\* A replacement or a removal is synced, if it has to be, and answered.
LEMMA SyncParentInv == ASSUME IInv, NEW w \in Workers, SyncParent(w) PROVE IInv'
<1> DEFINE q == workers[w].req
<1>0. Work(w)
  BY DEF Work
<1>1. /\ w = process /\ workers[w].alive /\ workers[w].at \in Busy
      /\ q.op \in Mutating /\ file[q.path] = q.value
      /\ q.op = "write" => q.id \notin temps
      /\ UNCHANGED <<file, temps, call, stage, step, sequence, process>>
      /\ kept' = IF q.durable \/ q.op = "unlink"
                 THEN [kept EXCEPT ![q.path] = {file[q.path]}] ELSE kept
      /\ Now(w, Answered(w, "COMMIT", Missing))
  BY <1>0, WorkFrame DEF SyncParent, At, Busy, WorkOK
<1>2. q.path \in Paths /\ file[q.path] \in Contents
  BY <1>1, BusyPath DEF Mutating
<1>3. step = "wait" => /\ stage = "main" /\ call.op = q.op /\ call.path = q.path
                       /\ call.value = q.value
                       /\ q.op = "write" => q.id = sequence /\ q.durable = call.durable
  BY <1>1, BusyChild, RequestOf DEF Mutating
<1> HIDE DEF q
<1>4. kept' \in [Paths -> SUBSET Contents] /\ (\A p \in Paths : file[p] \in kept'[p])
      /\ (q.durable => kept'[q.path] = {file[q.path]})
  BY <1>1, <1>2 DEF IInv, MoreTypes, TypeOK
<1>5. CommitOK'
  BY <1>1, <1>3, <1>4 DEF CommitOK, Mutating
<1> QED BY <1>0, <1>1, <1>4, <1>5, AnswerKeeps DEF Contents

\* An effect fails, with or without the temporary.
LEMMA AbortInv == ASSUME IInv, NEW w \in Workers, Abort(w) PROVE IInv'
<1>0. Work(w)
  BY DEF Work
<1>1. /\ workers[w].at \in Busy /\ UNCHANGED <<file, kept>> /\ temps' \subseteq temps
      /\ Now(w, Answered(w, "ABORT", Missing))
  BY DEF Abort, Busy
<1> QED BY <1>0, <1>1, AnswerKeeps DEF Contents, IInv, MoreTypes, TypeOK

\* The child dies; what it has written to its pipe stays there.
LEMMA ExitInv == ASSUME IInv, NEW w \in Workers, Exit(w) PROVE IInv'
<1> DEFINE r == [Dead EXCEPT !.out = workers[w].out, !.got = workers[w].got]
<1>0. Work(w)
  BY DEF Work
<1>1. /\ workers \in [Workers -> Children] /\ w = process
      /\ UNCHANGED <<file, kept, temps, call, stage, step, sequence, pending, process>>
      /\ Now(w, r)
  BY <1>0, WorkFrame DEF Exit, disk
<1>2. /\ r \in Children /\ ~r.alive /\ r.out = workers[w].out /\ r.got = workers[w].got
  BY <1>1, DeadType
<1> HIDE DEF r
<1>3. workers'[w] = r
  BY <1>1 DEF Now
<1>4. WorkOK(w)' /\ CommitOK'
  BY <1>1, <1>2, <1>3 DEF WorkOK, CommitOK, IInv
<1>5. /\ file' \in [Paths -> Contents] /\ kept' \in [Paths -> SUBSET Contents]
      /\ (\A p \in Paths : file'[p] \in kept'[p]) /\ temps' \subseteq 1..sequence
  BY <1>1 DEF IInv, MoreTypes, TypeOK
<1> QED BY <1>0, <1>1, <1>2, <1>4, <1>5, WorkKeeps

-----------------------------------------------------------------------------
(* How a call moves on *)

\* A number that was remembered stays remembered when another is added, and
\* every one but the head when the head is taken.
LEMMA PendingAppend ==
    ASSUME NEW n \in Nat, NEW m \in Nat, n <= m, pending \in Seq(1..n), NEW t \in 1..m,
           pending' = Append(pending, t)
    PROVE  /\ pending' \in Seq(1..m) /\ pending' # <<>>
           /\ InPending(t)' /\ \A u : InPending(u) => InPending(u)'
<1>1. pending \in Seq(1..m)
  BY SMT
<1>2. Len(pending') = Len(pending) + 1 /\ Len(pending) \in Nat
  BY <1>1
<1>3. pending' \in Seq(1..m) /\ pending'[Len(pending')] = t
      /\ \A i \in 1..Len(pending) : pending'[i] = pending[i]
  BY <1>1
<1>4. InPending(t)'
  BY <1>2, <1>3 DEF InPending
<1>5. ASSUME NEW u, InPending(u) PROVE InPending(u)'
  <2>1. PICK i \in 1..Len(pending) : pending[i] = u
    BY <1>5 DEF InPending
  <2> QED BY <2>1, <1>2, <1>3 DEF InPending
<1> QED BY <1>2, <1>3, <1>4, <1>5

LEMMA PendingTail ==
    ASSUME NEW n \in Nat, pending \in Seq(1..n), pending # <<>>, pending' = Tail(pending)
    PROVE  /\ pending' \in Seq(1..n)
           /\ \A u : InPending(u) /\ u # Head(pending) => InPending(u)'
<1>1. pending' \in Seq(1..n) /\ Len(pending') = Len(pending) - 1 /\ Len(pending) \in Nat
  BY HeadTailProperties
<1>2. \A i \in 1..Len(pending') : pending'[i] = pending[i + 1]
  BY HeadTailProperties
<1>3. ASSUME NEW u, InPending(u), u # Head(pending) PROVE InPending(u)'
  <2>1. PICK i \in 1..Len(pending) : pending[i] = u
    BY <1>3 DEF InPending
  <2>2. i # 1
    BY <2>1, <1>3
  <2>3. i - 1 \in 1..Len(pending') /\ pending'[i - 1] = pending[i]
    BY <2>1, <2>2, <1>1, <1>2
  <2> QED BY <2>1, <2>3 DEF InPending
<1> QED BY <1>1, <1>3

\* What an error does to the call.
LEMMA RaiseEffect ==
    ASSUME IInv, stage # "idle", NEW unknown, NEW left, Raise(unknown, left)
    PROVE  \/ /\ unknown /\ stage' = stage /\ call' = call /\ pending' = pending
              /\ answer' = answer /\ step' = "ensure" /\ retried' = TRUE
              /\ \/ stage = "reread"
                 \/ stage = "main" /\ call.op = "read"
           \/ /\ stage = "main" /\ call.op = "write" /\ pending = <<>>
              /\ \E t \in left : pending' = Append(pending, t)
              /\ stage' = "tidy" /\ call' = call /\ answer' = answer
              /\ step' = "ensure" /\ retried' = FALSE
           \/ /\ stage = "main" /\ call.op = "write" => left = {}
              /\ stage' = "idle" /\ call' = NoCall /\ pending' = pending
              /\ answer' = NoAnswer /\ step' = "ensure" /\ retried' = FALSE
BY DEF Raise, ReadOnly, Goto, Fail, Return, IInv, StageOK

\* The call's part of the invariant after an error.
LEMMA RaiseKeeps ==
    ASSUME IInv, stage # "idle", NEW unknown, NEW left, Raise(unknown, left),
           UNCHANGED <<file, kept, temps, leaked>>,
           sequence' \in {sequence, sequence + 1}, left \subseteq 1..sequence',
           step = "wait" => left = {sequence}
    PROVE  /\ CallInv' /\ step' = "ensure"
           /\ stage' \in {"reread", "sync"} => unknown
           /\ \A u : InPending(u) => InPending(u)'
           /\ stage = "main" /\ call.op = "write" =>
                 \A t : left = {t} => InPending(t)'
<1>t. /\ call \in Calls /\ stage \in Stages /\ retried \in BOOLEAN /\ sequence \in Nat
      /\ pending \in Seq(1..sequence) /\ answer \in Answers /\ StageOK /\ TempsOK
  BY DEF IInv, TypeOK, StageOK, MoreTypes
<1>p. pending \in Seq(1..sequence')
  BY <1>t
<1>1. CASE /\ unknown /\ stage' = stage /\ call' = call /\ pending' = pending
           /\ answer' = answer /\ step' = "ensure" /\ retried' = TRUE
           /\ \/ stage = "reread"
              \/ stage = "main" /\ call.op = "read"
  <2>1. StageOK' /\ SeqPositive' /\ CommitOK' /\ SyncOK'
    BY <1>1, <1>t DEF StageOK, SeqPositive, CommitOK, SyncOK
  <2>2. QuietAfterSuccess' /\ AnswerStands' /\ TemporariesCleaned'
    BY <1>1 DEF QuietAfterSuccess, AnswerStands, TemporariesCleaned
  <2>3. TempsOK' /\ \A u : InPending(u) => InPending(u)'
    BY <1>1, <1>t DEF TempsOK, InPending
  <2> QED BY <1>1, <1>t, <1>p, <2>1, <2>2, <2>3 DEF CallInv
<1>2. CASE /\ stage = "main" /\ call.op = "write" /\ pending = <<>>
           /\ \E t \in left : pending' = Append(pending, t)
           /\ stage' = "tidy" /\ call' = call /\ answer' = answer
           /\ step' = "ensure" /\ retried' = FALSE
  <2>1. PICK t \in left : pending' = Append(pending, t)
    BY <1>2
  <2>2. /\ pending' \in Seq(1..sequence') /\ pending' # <<>>
        /\ InPending(t)' /\ \A u : InPending(u) => InPending(u)'
    <3>1. sequence' \in Nat /\ sequence <= sequence' /\ t \in 1..sequence'
      BY <1>t, <2>1
    <3> QED BY <1>t, <2>1, <3>1, PendingAppend
  <2>3. StageOK' /\ SeqPositive' /\ CommitOK' /\ SyncOK'
    BY <1>2, <1>t, <2>2 DEF StageOK, SeqPositive, CommitOK, SyncOK
  <2>4. QuietAfterSuccess' /\ AnswerStands' /\ TemporariesCleaned'
    BY <1>2 DEF QuietAfterSuccess, AnswerStands, TemporariesCleaned
  <2>5. TempsOK'
    <3>1. ASSUME NEW u \in temps \ leaked PROVE InPending(u)'
      <4>1. InPending(u) \/ (step = "wait" /\ u = sequence)
        BY <1>t, <3>1 DEF TempsOK
      <4>2. step = "wait" => t = sequence
        BY <2>1
      <4> QED BY <4>1, <4>2, <2>2
    <3> QED BY <3>1 DEF TempsOK
  <2> QED BY <1>2, <1>t, <2>1, <2>2, <2>3, <2>4, <2>5 DEF Stages, CallInv
<1>3. CASE /\ stage = "main" /\ call.op = "write" => left = {}
           /\ stage' = "idle" /\ call' = NoCall /\ pending' = pending
           /\ answer' = NoAnswer /\ step' = "ensure" /\ retried' = FALSE
  <2>1. StageOK' /\ SeqPositive' /\ CommitOK' /\ SyncOK'
    BY <1>3 DEF StageOK, SeqPositive, CommitOK, SyncOK
  <2>2. QuietAfterSuccess' /\ AnswerStands' /\ TemporariesCleaned'
    BY <1>3 DEF QuietAfterSuccess, AnswerStands, TemporariesCleaned, NoAnswer
  <2>3. \A u : InPending(u) => InPending(u)'
    BY <1>3 DEF InPending
  <2>4. TempsOK'
    BY <1>3, <1>t, <2>3 DEF TempsOK
  <2> QED BY <1>3, <1>t, <1>p, <2>1, <2>2, <2>3, <2>4, ConstantTypes DEF Stages, CallInv
<1> QED BY <1>1, <1>2, <1>3, RaiseEffect

\* The call's part of the invariant once there is a child to ask.
LEMMA EnsuredKeeps ==
    ASSUME IInv, stage # "idle", step = "ensure", Ensured,
           UNCHANGED <<file, kept, temps, leaked, sequence, pending>>,
           \A w \in Workers : workers'[w].alive => workers'[w].at = "idle"
    PROVE  CallInv' /\ step' # "wait"
<1>t. /\ call \in Calls /\ stage \in Stages /\ retried \in BOOLEAN
      /\ answer \in Answers /\ StageOK /\ TempsOK /\ SyncOK
      /\ pending \in Seq(1..sequence)
  BY DEF IInv, TypeOK, StageOK, MoreTypes
<1>n. Missing \in Contents
  BY DEF Contents
<1>0. (\A t \in temps \ leaked : InPending(t)') => TempsOK'
  BY DEF TempsOK
<1>e. \A t \in temps \ leaked : InPending(t) /\ InPending(t)'
  BY <1>t DEF TempsOK, InPending
<1>1. CASE stage = "main" /\ call.op = "start" /\ pending = <<>>
  <2>1. /\ call' = NoCall /\ stage' = "idle" /\ step' = "ensure" /\ retried' = FALSE
        /\ answer' = [ok |-> TRUE, op |-> call.op, path |-> call.path, value |-> Missing,
                      durable |-> call.durable]
    BY <1>1 DEF Ensured, Succeed, Return
  <2>2. answer' \in Answers /\ answer'.op = "start"
    BY <2>1, <1>1, <1>t, <1>n DEF Answers, Calls
  <2>3. temps \subseteq leaked
    BY <1>e, <1>1 DEF InPending
  <2>4. StageOK' /\ SeqPositive' /\ CommitOK' /\ SyncOK' /\ TempsOK'
    BY <2>1, <2>3, <1>0 DEF StageOK, SeqPositive, CommitOK, SyncOK
  <2>5. QuietAfterSuccess' /\ AnswerStands' /\ TemporariesCleaned'
    BY <2>1, <2>2, <2>3 DEF QuietAfterSuccess, AnswerStands, TemporariesCleaned
  <2> QED BY <2>1, <2>2, <2>4, <2>5, <1>t DEF Stages, CallInv
<1>2. CASE stage = "main" /\ call.op = "start" /\ pending # <<>>
  <2>1. /\ call' = call /\ stage' = "cleanup" /\ step' = "ensure" /\ retried' = FALSE
        /\ answer' = answer
    BY <1>2 DEF Ensured, Goto
  <2>2. StageOK' /\ SeqPositive' /\ CommitOK' /\ SyncOK' /\ TempsOK'
    BY <2>1, <1>2, <1>t, <1>0, <1>e DEF StageOK, SeqPositive, CommitOK, SyncOK
  <2>3. QuietAfterSuccess' /\ AnswerStands' /\ TemporariesCleaned'
    BY <2>1 DEF QuietAfterSuccess, AnswerStands, TemporariesCleaned
  <2> QED BY <2>1, <1>t, <2>2, <2>3 DEF Stages, CallInv
<1>3. CASE ~(stage = "main" /\ call.op = "start")
  <2>1. /\ call' = call /\ stage' = stage /\ step' = "send" /\ retried' = retried
        /\ answer' = answer
    BY <1>3 DEF Ensured
  <2>2. StageOK' /\ SeqPositive' /\ CommitOK' /\ SyncOK' /\ TempsOK'
    BY <2>1, <1>3, <1>t, <1>0, <1>e DEF StageOK, SeqPositive, CommitOK, SyncOK
  <2>3. QuietAfterSuccess' /\ AnswerStands' /\ TemporariesCleaned'
    BY <2>1 DEF QuietAfterSuccess, AnswerStands, TemporariesCleaned
  <2> QED BY <2>1, <1>t, <2>2, <2>3 DEF Stages, CallInv
<1> QED BY <1>1, <1>2, <1>3

\* The call's part of the invariant after a COMMIT.
LEMMA CommitKeeps ==
    ASSUME IInv, step = "wait", workers[process].out = "COMMIT",
           Commit(workers[process].got), workers[process].got \in Contents,
           UNCHANGED <<file, kept, temps, leaked, sequence>>,
           \A w \in Workers : workers'[w].alive => workers'[w].at = "idle"
    PROVE  CallInv' /\ step' = "ensure"
<1>t. /\ call \in Calls /\ stage \in Stages /\ stage # "idle" /\ retried \in BOOLEAN
      /\ answer \in Answers /\ pending \in Seq(1..sequence) /\ sequence \in Nat
      /\ StageOK /\ TempsOK /\ SyncOK /\ CommitOK
  BY DEF IInv, TypeOK, StageOK, MoreTypes
<1>c. /\ call.op \in {"write", "unlink", "read", "start"} /\ call.durable \in BOOLEAN
      /\ call.op # "start" => call.path \in Paths
      /\ call.path \in Paths \cup {Missing} /\ call.value \in Contents
      /\ call.op # "write" => call.durable = FALSE
  BY <1>t DEF Calls, Contents
<1>n. Missing \in Contents
  BY DEF Contents
<1> DEFINE Done(v) ==
             /\ call' = NoCall /\ stage' = "idle" /\ step' = "ensure" /\ retried' = FALSE
             /\ answer' = [ok |-> TRUE, op |-> call.op, path |-> call.path, value |-> v,
                           durable |-> call.durable]
           On(s) == /\ call' = call /\ stage' = s /\ step' = "ensure" /\ retried' = FALSE
                    /\ answer' = answer
           Kept == \A t \in temps \ leaked : InPending(t)'
\* Wherever it goes on to, the temporaries left are remembered.
<1>g. ASSUME NEW s \in {"cleanup", "main", "tidy", "reread", "sync"}, On(s), Kept,
             pending' \in Seq(1..sequence),
             s \in {"tidy", "reread", "sync"} => call.op = "write",
             s \in {"cleanup", "tidy"} <=> pending' # <<>>,
             s = "main" => call.op # "start",
             s = "sync" => file[call.path] = call.value
      PROVE  CallInv' /\ step' = "ensure"
  <2>1. StageOK'
    BY <1>g, <1>t DEF StageOK
  <2>2. SeqPositive' /\ CommitOK' /\ SyncOK'
    BY <1>g, <1>t DEF SeqPositive, CommitOK, SyncOK
  <2>3. TempsOK'
    BY <1>g DEF TempsOK
  <2>4. QuietAfterSuccess' /\ AnswerStands' /\ TemporariesCleaned'
    BY <1>g DEF QuietAfterSuccess, AnswerStands, TemporariesCleaned
  <2> QED BY <1>g, <1>t, <2>1, <2>2, <2>3, <2>4 DEF Stages, CallInv
<1>d. ASSUME NEW v \in Contents, Done(v), temps \subseteq leaked,
             pending' \in Seq(1..sequence),
             call.op # "start" => /\ file[call.path] = v
                                  /\ call.durable => kept[call.path] = {v}
      PROVE  CallInv' /\ step' = "ensure"
  <2>1. answer' \in Answers
    BY <1>d, <1>c DEF Answers
  <2>2. StageOK' /\ SeqPositive' /\ CommitOK' /\ SyncOK' /\ TempsOK'
    BY <1>d DEF StageOK, SeqPositive, CommitOK, SyncOK, TempsOK
  <2>3. QuietAfterSuccess' /\ TemporariesCleaned'
    BY <1>d, <1>c DEF QuietAfterSuccess, TemporariesCleaned
  <2>4. AnswerStands'
    BY <1>d, <1>c DEF AnswerStands
  <2> QED BY <1>d, <2>1, <2>2, <2>3, <2>4 DEF Stages, CallInv
<1>f. ASSUME call' = NoCall, stage' = "idle", step' = "ensure", retried' = FALSE,
             answer' = NoAnswer, pending' = pending, Kept
      PROVE  CallInv' /\ step' = "ensure"
  <2>1. StageOK' /\ SeqPositive' /\ CommitOK' /\ SyncOK' /\ TempsOK'
    BY <1>f DEF StageOK, SeqPositive, CommitOK, SyncOK, TempsOK
  <2>2. QuietAfterSuccess' /\ AnswerStands' /\ TemporariesCleaned'
    BY <1>f DEF QuietAfterSuccess, AnswerStands, TemporariesCleaned, NoAnswer
  <2> QED BY <1>f, <1>t, <2>1, <2>2, ConstantTypes DEF Stages, CallInv
<1> HIDE DEF Kept
<1>1. CASE stage \in {"cleanup", "tidy"}
  <2>1. pending' = Tail(pending) /\ pending # <<>>
    BY <1>1, <1>t DEF Commit, StageOK
  <2>2. pending' \in Seq(1..sequence) /\ \A u : InPending(u) /\ u # Head(pending) => InPending(u)'
    BY <2>1, <1>t, PendingTail
  <2>3. Kept
    <3>1. Head(pending) \notin temps
      BY <1>1, <1>t DEF CommitOK
    <3> QED BY <2>2, <3>1, <1>1, <1>t DEF TempsOK, Kept
  <2>4. CASE stage = "cleanup" /\ pending' # <<>>
    <3>1. On("cleanup")
      BY <2>1, <2>4 DEF Commit, Goto
    <3> HIDE DEF On
    <3> QED BY <1>g, <2>2, <2>3, <2>4, <3>1
  <2>5. CASE stage = "cleanup" /\ pending' = <<>> /\ call.op # "start"
    <3>1. On("main")
      BY <2>1, <2>5 DEF Commit, Goto
    <3> HIDE DEF On
    <3> QED BY <1>g, <2>2, <2>3, <2>5, <3>1
  <2>6. CASE stage = "cleanup" /\ pending' = <<>> /\ call.op = "start"
    <3>1. Done(Missing)
      BY <2>1, <2>6 DEF Commit, Succeed, Return
    <3>2. temps \subseteq leaked
      BY <2>3, <2>6 DEF Kept, InPending
    <3> HIDE DEF Done
    <3> QED BY <1>d, <1>n, <2>2, <2>6, <3>1, <3>2
  <2>7. CASE stage = "tidy" /\ pending' # <<>>
    <3>1. On("tidy") /\ call.op = "write"
      BY <2>1, <2>7, <1>t DEF Commit, Goto, StageOK
    <3> HIDE DEF On
    <3> QED BY <1>g, <2>2, <2>3, <2>7, <3>1
  <2>8. CASE stage = "tidy" /\ pending' = <<>>
    <3>1. On("reread") /\ call.op = "write"
      BY <2>1, <2>8, <1>t DEF Commit, Goto, StageOK
    <3> HIDE DEF On
    <3> QED BY <1>g, <2>2, <2>3, <2>8, <3>1
  <2> QED BY <1>1, <2>4, <2>5, <2>6, <2>7, <2>8
<1>2. CASE stage = "reread"
  <2>1. pending' = pending /\ pending = <<>> /\ call.op = "write"
        /\ workers[process].got = file[call.path]
    BY <1>2, <1>t DEF Commit, StageOK, CommitOK
  <2>2. Kept
    BY <2>1, <1>2, <1>t DEF Kept, TempsOK, InPending
  <2>3. CASE workers[process].got = call.value
    <3>1. On("sync")
      BY <1>2, <2>3 DEF Commit, Goto
    <3> HIDE DEF On
    <3> QED BY <1>g, <1>t, <2>1, <2>2, <2>3, <3>1
  <2>4. CASE workers[process].got # call.value
    BY <1>f, <1>2, <2>1, <2>2, <2>4 DEF Commit, Fail, Return
  <2> QED BY <2>3, <2>4
<1>3. CASE stage = "main"
  <2>1. pending' = pending /\ pending = <<>> /\ call.op # "start"
    BY <1>3, <1>t DEF Commit, StageOK
  <2>2. temps \subseteq leaked
    BY <1>3, <2>1, <1>t DEF TempsOK, CommitOK, InPending
  <2>3. CASE call.op = "read"
    <3>1. Done(workers[process].got)
      BY <1>3, <2>3 DEF Commit, Succeed, Return
    <3>2. workers[process].got = file[call.path]
      BY <1>3, <2>3, <1>t DEF CommitOK
    <3> HIDE DEF Done
    <3> QED BY <1>d, <1>c, <1>t, <2>1, <2>2, <2>3, <3>1, <3>2
  <2>4. CASE call.op # "read"
    <3>1. Done(call.value)
      BY <1>3, <2>4 DEF Commit, Succeed, Return
    <3>2. call.op \in Mutating
      BY <1>c, <2>1, <2>4 DEF Mutating
    <3>3. /\ file[call.path] = call.value
          /\ call.op = "write" /\ call.durable => kept[call.path] = {call.value}
      BY <1>3, <3>2, <1>t DEF CommitOK
    <3> HIDE DEF Done
    <3> QED BY <1>d, <1>c, <1>t, <2>1, <2>2, <3>1, <3>3
  <2> QED BY <2>3, <2>4
<1>4. CASE stage = "sync"
  <2>1. pending' = pending /\ pending = <<>> /\ call.op = "write"
    BY <1>4, <1>t DEF Commit, StageOK
  <2>2. temps \subseteq leaked
    BY <1>4, <2>1, <1>t DEF TempsOK, InPending
  <2>3. Done(call.value)
    BY <1>4 DEF Commit, Succeed, Return
  <2>4. file[call.path] = call.value /\ kept[call.path] = {call.value}
    BY <1>4, <1>t DEF SyncOK, CommitOK
  <2> HIDE DEF Done
  <2> QED BY <1>d, <1>c, <1>t, <2>1, <2>2, <2>3, <2>4
<1> QED BY <1>1, <1>2, <1>3, <1>4 DEF Commit

-----------------------------------------------------------------------------
(* The owner's children *)

\* What the children are once _ensure_process or _abandon has reaped the one
\* the owner held.
LEMMA ReapedChildren ==
    ASSUME IInv, NEW r, r = IF process = None THEN workers
                            ELSE [workers EXCEPT ![process] = Dead]
    PROVE  r \in [Workers -> Children] /\ \A w \in Workers : ~r[w].alive
<1>1. workers \in [Workers -> Children] /\ process \in Workers \cup {None}
  BY DEF IInv, MoreTypes, TypeOK
<1>2. \A w \in Workers : w # process => ~workers[w].alive
  BY DEF IInv, OneLiveWorker
<1>3. Dead \in Children /\ ~Dead.alive
  BY ConstantTypes DEF Dead
<1>4. CASE process = None
  BY <1>1, <1>2, <1>4, ArtifactAssumption
<1>5. CASE process # None
  BY <1>1, <1>2, <1>3, <1>5
<1> QED BY <1>4, <1>5

\* The child's part of the invariant.
ChildInv ==
    /\ process \in Workers \cup {None} /\ workers \in [Workers -> Children]
    /\ OneLiveWorker /\ (\A w \in Workers : WorkOK(w)) /\ BlockedOK /\ Conversation

\* With all its children reaped, the owner can do anything.
LEMMA NoChild ==
    ASSUME workers' \in [Workers -> Children], \A w \in Workers : ~workers'[w].alive,
           process' = None, blocked' = FALSE, step' = "ensure"
    PROVE  ChildInv'
BY DEF ChildInv, OneLiveWorker, WorkOK, BlockedOK, Conversation

\* A fresh child has nothing to do, asked or given up.
LEMMA FreshChild ==
    ASSUME NEW r \in [Workers -> Children], \A w \in Workers : ~r[w].alive,
           NEW w \in Workers, workers' = [r EXCEPT ![w] = Fresh], process' = w,
           step' # "wait", blocked' => step' = "ensure" /\ stage' \notin {"reread", "sync"}
    PROVE  /\ ChildInv'
           /\ \A v \in Workers : workers'[v].alive => workers'[v].at = "idle"
<1>1. /\ Fresh \in Children /\ Fresh.at = "idle" /\ Fresh.out = "none"
  BY ConstantTypes DEF Fresh, Dead
<1>2. /\ workers' \in [Workers -> Children] /\ workers'[w] = Fresh
      /\ \A v \in Workers : v # w => workers'[v] = r[v]
  BY <1>1
<1>3. \A v \in Workers : workers'[v].alive => v = w /\ workers'[v].at = "idle"
  BY <1>1, <1>2
<1>4. OneLiveWorker' /\ (\A v \in Workers : WorkOK(v))'
  BY <1>1, <1>2, <1>3 DEF OneLiveWorker, WorkOK, Busy
<1>5. process' # None
  BY ArtifactAssumption
<1>6. BlockedOK' /\ Conversation'
  BY <1>1, <1>2, <1>5 DEF BlockedOK, Conversation, Busy
<1> QED BY <1>2, <1>3, <1>4, <1>6 DEF ChildInv

\* The two parts, and what a step does to the rest.
LEMMA PartsInv ==
    ASSUME IInv, CallInv', ChildInv', UNCHANGED <<file, kept, temps, leaked>>,
           sequence' \in {sequence, sequence + 1}, blocked' \in BOOLEAN,
           closed' \in BOOLEAN, faults' \in {faults, faults + 1}
    PROVE  IInv'
<1>1. /\ sequence \in Nat /\ faults \in Nat
      /\ temps \subseteq 1..sequence /\ leaked \subseteq 1..sequence
  BY DEF IInv, TypeOK
<1>2. /\ sequence' \in Nat /\ faults' \in Nat
      /\ temps' \subseteq 1..sequence' /\ leaked' \subseteq 1..sequence'
  BY <1>1
<1>3. TypeOK'
  BY <1>2 DEF IInv, TypeOK, CallInv, ChildInv
<1>4. MoreTypes'
  BY DEF IInv, MoreTypes, CallInv, ChildInv
<1> QED BY <1>3, <1>4 DEF IInv, CallInv, ChildInv

-----------------------------------------------------------------------------
(* The steps of the owner *)

\* The invariant holds at the start.
LEMMA InitInv == Init => IInv
<1> SUFFICES ASSUME Init PROVE IInv
  OBVIOUS
<1>1. /\ TypeOK /\ MoreTypes
  <2>1. pending \in Seq(1..sequence)
    BY DEF Init
  <2> QED BY <2>1, ConstantTypes DEF Init, TypeOK, MoreTypes, Contents, Stages
<1>2. \A w \in Workers : workers[w] = Dead /\ ~workers[w].alive
  BY DEF Init, Dead
<1>3. StageOK /\ BlockedOK /\ SeqPositive /\ OneLiveWorker /\ \A w \in Workers : WorkOK(w)
  BY <1>2 DEF Init, StageOK, BlockedOK, SeqPositive, OneLiveWorker, WorkOK
<1>4. Conversation /\ CommitOK /\ SyncOK /\ TempsOK
  BY DEF Init, Conversation, CommitOK, SyncOK, TempsOK
<1>5. QuietAfterSuccess /\ AnswerStands /\ TemporariesCleaned
  BY DEF Init, QuietAfterSuccess, AnswerStands, TemporariesCleaned, NoAnswer
<1> QED BY <1>1, <1>3, <1>4, <1>5 DEF IInv

\* A call begins.
LEMMA BeginInv == ASSUME IInv, NEW c \in Calls, Begin(c) PROVE IInv'
<1>1. /\ stage' \in {"cleanup", "main"} /\ step = "ensure" /\ call' = c
      /\ stage' = "cleanup" => pending # <<>>
      /\ stage' = "main" /\ c.op # "start" => pending = <<>>
      /\ answer' = NoAnswer
      /\ UNCHANGED <<step, retried, process, blocked, closed, sequence, pending,
                     workers, file, kept, temps, leaked, faults>>
  BY DEF Begin, disk, IInv, StageOK
<1>2. CallInv'
  <2>1. StageOK' /\ SeqPositive' /\ CommitOK' /\ SyncOK'
    BY <1>1 DEF StageOK, SeqPositive, CommitOK, SyncOK
  <2>2. TempsOK'
    BY <1>1 DEF IInv, TempsOK, InPending
  <2>3. QuietAfterSuccess' /\ AnswerStands' /\ TemporariesCleaned'
    BY <1>1 DEF QuietAfterSuccess, AnswerStands, TemporariesCleaned
  <2> QED BY <1>1, <2>1, <2>2, <2>3, ConstantTypes DEF CallInv, IInv, TypeOK, Stages
<1>3. ChildInv'
  <2>1. (\A w \in Workers : WorkOK(w))' /\ OneLiveWorker'
    BY <1>1 DEF IInv, WorkOK, OneLiveWorker
  <2>2. BlockedOK' /\ Conversation'
    BY <1>1 DEF IInv, BlockedOK, Conversation, InPending
  <2> QED BY <1>1, <2>1, <2>2 DEF ChildInv, IInv, TypeOK, MoreTypes
<1> QED BY <1>1, <1>2, <1>3, PartsInv DEF IInv, TypeOK

\* _ensure_process keeps a live child.
LEMMA EnsureLiveInv == ASSUME IInv, EnsureLive PROVE IInv'
<1>1. /\ stage # "idle" /\ step = "ensure" /\ Ensured /\ Usable
      /\ UNCHANGED <<process, blocked, closed, sequence, pending, workers, file, kept,
                     temps, leaked, faults>>
  BY DEF EnsureLive, disk
<1>2. /\ \A w \in Workers : workers'[w].alive => workers'[w].at = "idle"
      /\ process # None /\ ~blocked
  BY <1>1 DEF IInv, OneLiveWorker, Conversation, Usable
<1>3. CallInv' /\ step' # "wait"
  BY <1>1, <1>2, EnsuredKeeps
<1>4. ChildInv'
  <2>1. (\A w \in Workers : WorkOK(w))' /\ OneLiveWorker'
    BY <1>1 DEF IInv, WorkOK, OneLiveWorker
  <2>2. BlockedOK' /\ Conversation'
    BY <1>1, <1>2, <1>3 DEF IInv, BlockedOK, Conversation
  <2> QED BY <1>1, <2>1, <2>2 DEF ChildInv, IInv, TypeOK, MoreTypes
<1> QED BY <1>1, <1>3, <1>4, PartsInv DEF IInv, TypeOK

\* A child that still cannot be reaped.
LEMMA EnsureBlockedInv == ASSUME IInv, EnsureBlocked PROVE IInv'
<1>1. /\ stage # "idle" /\ step = "ensure" /\ Raise(FALSE, {}) /\ blocked
      /\ UNCHANGED <<process, blocked, closed, sequence, workers, file, kept, temps, leaked>>
      /\ faults' = faults + 1
  BY DEF EnsureBlocked, disk, Fault
<1>2. /\ CallInv' /\ step' = "ensure" /\ stage' \notin {"reread", "sync"}
      /\ \A u : InPending(u) => InPending(u)'
  BY <1>1, RaiseKeeps
<1>3. ChildInv'
  <2>1. (\A w \in Workers : WorkOK(w))' /\ OneLiveWorker'
    BY <1>1 DEF IInv, WorkOK, OneLiveWorker
  <2>2. BlockedOK' /\ Conversation'
    BY <1>1, <1>2 DEF IInv, BlockedOK, Conversation
  <2> QED BY <1>1, <2>1, <2>2 DEF ChildInv, IInv, TypeOK, MoreTypes
<1> QED BY <1>1, <1>2, <1>3, PartsInv DEF IInv, TypeOK

\* _ensure_process starts a child, or fails to.
LEMMA EnsureSpawnInv == ASSUME IInv, EnsureSpawn PROVE IInv'
<1> DEFINE reaped == IF process = None THEN workers ELSE [workers EXCEPT ![process] = Dead]
<1>0. /\ stage # "idle" /\ step = "ensure"
      /\ UNCHANGED <<closed, sequence, file, kept, temps, leaked>>
  BY DEF EnsureSpawn, disk
<1>1. reaped \in [Workers -> Children] /\ \A w \in Workers : ~reaped[w].alive
  BY ReapedChildren
<1>2. CASE /\ \E w \in Workers : workers' = [reaped EXCEPT ![w] = Fresh] /\ process' = w
           /\ blocked' = FALSE /\ Ensured /\ UNCHANGED <<pending, faults>>
  <2>1. PICK w \in Workers : workers' = [reaped EXCEPT ![w] = Fresh] /\ process' = w
    BY <1>2
  <2> HIDE DEF reaped
  <2>2. \A v \in Workers : workers'[v].alive => workers'[v].at = "idle"
    BY <1>1, <2>1 DEF Fresh, Dead
  <2>3. CallInv' /\ step' # "wait"
    BY <1>0, <1>2, <2>2, EnsuredKeeps
  <2>4. ChildInv'
    BY <1>1, <1>2, <2>1, <2>3, FreshChild
  <2> QED BY <1>0, <1>2, <2>3, <2>4, PartsInv DEF IInv, TypeOK
<1>3. CASE /\ workers' = reaped /\ process' = None /\ blocked' = FALSE
           /\ \E unknown \in BOOLEAN : Raise(unknown, {})
           /\ faults' \in {faults, faults + 1}
  <2> HIDE DEF reaped
  <2>1. CallInv' /\ step' = "ensure"
    BY <1>0, <1>3, RaiseKeeps
  <2>2. ChildInv'
    BY <1>1, <1>3, <2>1, NoChild
  <2> QED BY <1>0, <1>3, <2>1, <2>2, PartsInv DEF IInv, TypeOK
<1>4. CASE /\ \E w \in Workers : workers' = [reaped EXCEPT ![w] = Fresh] /\ process' = w
           /\ blocked' = TRUE /\ Raise(FALSE, {}) /\ faults' = faults + 1
  <2>1. PICK w \in Workers : workers' = [reaped EXCEPT ![w] = Fresh] /\ process' = w
    BY <1>4
  <2> HIDE DEF reaped
  <2>2. CallInv' /\ step' = "ensure" /\ stage' \notin {"reread", "sync"}
    BY <1>0, <1>4, RaiseKeeps
  <2>3. ChildInv'
    BY <1>1, <2>1, <2>2, FreshChild
  <2> QED BY <1>0, <1>4, <2>2, <2>3, PartsInv DEF IInv, TypeOK
<1> QED BY <1>2, <1>3, <1>4 DEF EnsureSpawn, Fault

\* What a stage asks is well formed.
LEMMA NextRequestType ==
    ASSUME IInv, step = "send", NEW id \in Nat, NEW q, q = NextRequest(id)
    PROVE  /\ q \in Requests /\ q.op \notin {"none", "start"}
           /\ q.op # "unlink_exact" => q.path \in Paths
           /\ q.op \in Mutating => q.value \in Contents
           /\ q.op = "unlink" => q.value = Missing
<1>t. /\ call \in Calls /\ stage \in Stages /\ stage # "idle" /\ StageOK
      /\ pending \in Seq(1..sequence) /\ sequence \in Nat
  BY DEF IInv, TypeOK, StageOK
<1>1. CASE stage \in {"cleanup", "tidy"}
  <2>1. Head(pending) \in Nat
    BY <1>t, <1>1, HeadTailProperties DEF StageOK
  <2>2. q = [op |-> "unlink_exact", id |-> id, path |-> Missing, value |-> Head(pending),
             durable |-> FALSE]
    BY <1>1 DEF NextRequest, NoRequest
  <2> QED BY <2>1, <2>2 DEF Requests, Mutating
<1>2. CASE stage = "main"
  <2>1. q = [op |-> call.op, id |-> id, path |-> call.path, value |-> call.value,
             durable |-> call.durable]
    BY <1>2 DEF NextRequest
  <2>2. /\ call.op \in {"write", "unlink", "read"} /\ call.path \in Paths
        /\ call.value \in Contents /\ call.durable \in BOOLEAN
        /\ call.op = "unlink" => call.value = Missing
    BY <1>t, <1>2 DEF StageOK, Calls, Contents
  <2> QED BY <2>1, <2>2 DEF Requests, Mutating
<1>3. CASE stage \in {"reread", "sync"}
  <2>1. \E op \in {"read", "sync"} : q = [op |-> op, id |-> id, path |-> call.path,
                                         value |-> Missing, durable |-> FALSE]
    BY <1>3 DEF NextRequest, NoRequest
  <2>2. call.path \in Paths
    BY <1>t, <1>3 DEF StageOK, Calls
  <2> QED BY <2>1, <2>2 DEF Requests, Mutating, Contents
<1> QED BY <1>t, <1>1, <1>2, <1>3 DEF Stages

\* The owner sends a request.
LEMMA SendInv == ASSUME IInv, Send PROVE IInv'
<1>1. /\ step = "send" /\ sequence' = sequence + 1 /\ step' = "wait"
      /\ UNCHANGED <<call, stage, retried, process, blocked, closed, pending, file, kept,
                     temps, leaked, faults, answer>>
  BY DEF Send, disk
<1>2. /\ process \in Workers /\ process # None /\ ~blocked /\ sequence \in Nat
      /\ workers \in [Workers -> Children] /\ stage # "idle"
      /\ pending \in Seq(1..sequence)
  BY <1>1 DEF IInv, TypeOK, BlockedOK, MoreTypes, StageOK
<1>3. /\ workers[process].out = "none"
      /\ workers[process].alive => workers[process].at = "idle"
  BY <1>1, <1>2 DEF IInv, Conversation
<1> DEFINE q == NextRequest(sequence')
<1>4. /\ q \in Requests /\ q.op \notin {"none", "start"}
      /\ q.op # "unlink_exact" => q.path \in Paths
      /\ q.op \in Mutating => q.value \in Contents
      /\ q.op = "unlink" => q.value = Missing
  BY <1>1, <1>2, NextRequestType
<1>5. NextRequest(sequence)' = q
  BY <1>1 DEF NextRequest
<1>6. workers' = IF workers[process].alive
                 THEN [workers EXCEPT ![process] = [@ EXCEPT !.req = q, !.at = "received"]]
                 ELSE workers
  BY <1>2 DEF Send, Children
<1> HIDE DEF q
<1>7. /\ workers' \in [Workers -> Children]
      /\ \A v \in Workers : v # process => workers'[v] = workers[v]
      /\ workers'[process].alive = workers[process].alive
      /\ workers'[process].out = "none"
      /\ workers'[process].alive => workers'[process].at = "received" /\ workers'[process].req = q
  <2>1. CASE workers[process].alive
    <3> DEFINE r == [workers[process] EXCEPT !.req = q, !.at = "received"]
    <3>1. workers[process] \in Children
      BY <1>2
    <3>2. r \in Children /\ r.at = "received" /\ r.req = q
      BY <3>1, <1>4 DEF Children, Busy
    <3>3. r.out = "none"
      BY <3>1, <1>3 DEF Children
    <3>4. r.alive = workers[process].alive
      BY <3>1 DEF Children
    <3>5. workers' = [workers EXCEPT ![process] = r]
      BY <1>6, <2>1
    <3> HIDE DEF r
    <3> QED BY <1>2, <3>2, <3>3, <3>4, <3>5
  <2>2. CASE ~workers[process].alive
    BY <1>2, <1>3, <1>6, <2>2
  <2> QED BY <2>1, <2>2
<1>8. CallInv'
  <2>1. StageOK' /\ SeqPositive' /\ SyncOK' /\ CommitOK'
    <3>1. call.op = "start" => stage # "main"
      BY <1>1 DEF IInv, StageOK
    <3> QED BY <1>1, <1>2, <1>7, <3>1 DEF IInv, StageOK, SeqPositive, SyncOK, CommitOK
  <2>2. TempsOK'
    BY <1>1 DEF IInv, TempsOK, InPending
  <2>3. QuietAfterSuccess' /\ AnswerStands' /\ TemporariesCleaned'
    BY <1>1, <1>2 DEF QuietAfterSuccess, AnswerStands, TemporariesCleaned
  <2>4. pending' \in Seq(1..sequence')
    BY <1>1, <1>2
  <2> QED BY <1>1, <2>1, <2>2, <2>3, <2>4 DEF CallInv, IInv, TypeOK, MoreTypes
<1>9. ChildInv'
  <2>1. OneLiveWorker'
    BY <1>1, <1>7 DEF IInv, OneLiveWorker
  <2>2. (\A w \in Workers : WorkOK(w))'
    <3>1. WorkOK(process)'
      BY <1>1, <1>4, <1>7 DEF WorkOK, Busy
    <3>2. ASSUME NEW w \in Workers, w # process PROVE WorkOK(w)'
      BY <1>7, <3>2 DEF IInv, OneLiveWorker, WorkOK
    <3> QED BY <1>1, <3>1, <3>2
  <2>3. BlockedOK'
    BY <1>1, <1>2 DEF BlockedOK, IInv
  <2>4. Conversation'
    BY <1>1, <1>2, <1>5, <1>7 DEF Conversation, Busy
  <2> QED BY <1>1, <1>2, <1>7, <2>1, <2>2, <2>3, <2>4 DEF ChildInv
<1> QED BY <1>1, <1>2, <1>8, <1>9, PartsInv DEF IInv, TypeOK

\* The time is over before the request is sent.
LEMMA ExpireBeforeSendInv == ASSUME IInv, ExpireBeforeSend PROVE IInv'
<1>1. /\ step = "send" /\ sequence' = sequence + 1 /\ Raise(TRUE, {sequence + 1})
      /\ UNCHANGED <<process, blocked, closed, workers, file, kept, temps, leaked, faults>>
  BY DEF ExpireBeforeSend, disk
<1>2. process # None /\ ~blocked /\ stage # "idle" /\ sequence \in Nat
  BY <1>1 DEF IInv, BlockedOK, StageOK, TypeOK
<1>3. CallInv' /\ step' = "ensure"
  <2>1. {sequence + 1} \subseteq 1..sequence'
    BY <1>1, <1>2
  <2> QED BY <1>1, <1>2, <2>1, RaiseKeeps
<1>4. ChildInv'
  <2>1. (\A w \in Workers : WorkOK(w))' /\ OneLiveWorker'
    BY <1>1 DEF IInv, WorkOK, OneLiveWorker
  <2>2. BlockedOK' /\ Conversation'
    BY <1>1, <1>2, <1>3 DEF IInv, BlockedOK, Conversation
  <2> QED BY <1>1, <2>1, <2>2 DEF ChildInv, IInv, TypeOK, MoreTypes
<1> QED BY <1>1, <1>3, <1>4, PartsInv DEF IInv, TypeOK

\* An answer arrives in time.
LEMMA CompleteInv == ASSUME IInv, Complete PROVE IInv'
<1>1. /\ step = "wait" /\ workers[process].out # "none"
      /\ UNCHANGED <<process, blocked, closed, sequence, file, kept, temps, leaked, faults>>
  BY DEF Complete, disk
<1>2. /\ process \in Workers /\ process # None /\ ~blocked /\ sequence \in Nat /\ sequence > 0
      /\ workers \in [Workers -> Children] /\ stage # "idle"
  BY <1>1 DEF IInv, TypeOK, BlockedOK, MoreTypes, StageOK, SeqPositive
<1>3. /\ workers[process].alive => workers[process].at = "idle"
      /\ workers[process].got \in Contents
  BY <1>1, <1>2 DEF IInv, WorkOK, Children
<1> DEFINE r == [workers[process] EXCEPT !.out = "none", !.got = Missing]
<1>4. workers' = [workers EXCEPT ![process] = r]
  BY <1>2 DEF Complete, Children
<1>5. /\ r \in Children /\ r.at = workers[process].at /\ r.out = "none"
      /\ r.alive = workers[process].alive
  BY <1>2 DEF Children, Contents
<1> HIDE DEF r
<1>6. /\ workers' \in [Workers -> Children] /\ workers'[process] = r
      /\ \A v \in Workers : v # process => workers'[v] = workers[v]
  BY <1>2, <1>4, <1>5
<1>7. \A w \in Workers : workers'[w].alive => w = process /\ workers'[w].at = "idle"
  BY <1>3, <1>5, <1>6 DEF IInv, OneLiveWorker
<1>8. CallInv' /\ step' = "ensure"
  <2>1. CASE workers[process].out = "COMMIT"
    BY <1>1, <1>3, <1>7, <2>1, CommitKeeps DEF Complete
  <2>2. CASE workers[process].out # "COMMIT"
    <3>1. Raise(FALSE, {sequence})
      BY <2>2 DEF Complete
    <3>2. {sequence} \subseteq 1..sequence'
      BY <1>1, <1>2
    <3> QED BY <1>1, <1>2, <3>1, <3>2, RaiseKeeps
  <2> QED BY <2>1, <2>2
<1>9. ChildInv'
  <2>1. OneLiveWorker' /\ (\A w \in Workers : WorkOK(w))'
    BY <1>1, <1>7 DEF OneLiveWorker, WorkOK, Busy
  <2>2. BlockedOK' /\ Conversation'
    BY <1>1, <1>2, <1>5, <1>6, <1>7, <1>8 DEF BlockedOK, Conversation
  <2> QED BY <1>1, <1>2, <1>6, <2>1, <2>2 DEF ChildInv
<1> QED BY <1>1, <1>8, <1>9, PartsInv DEF IInv, TypeOK

\* No answer arrives in time.
LEMMA AbandonInv == ASSUME IInv, Abandon PROVE IInv'
<1>1. step = "wait" /\ UNCHANGED <<closed, sequence, file, kept, temps, leaked>>
  BY DEF Abandon, disk
<1>2. /\ process \in Workers /\ process # None /\ ~blocked /\ sequence \in Nat /\ sequence > 0
      /\ stage # "idle"
  BY <1>1 DEF IInv, TypeOK, BlockedOK, StageOK, SeqPositive
<1>s. {sequence} \subseteq 1..sequence'
  BY <1>1, <1>2
<1>3. CASE /\ Reaped(process) /\ process' = None /\ blocked' = FALSE
           /\ Raise(TRUE, {sequence}) /\ UNCHANGED faults
  <2>1. CallInv' /\ step' = "ensure"
    BY <1>1, <1>2, <1>3, <1>s, RaiseKeeps
  <2>2. workers' \in [Workers -> Children] /\ \A w \in Workers : ~workers'[w].alive
    BY <1>2, <1>3, ReapedChildren DEF Reaped
  <2>3. ChildInv'
    BY <1>3, <2>1, <2>2, NoChild
  <2> QED BY <1>1, <1>3, <2>1, <2>3, PartsInv DEF IInv, TypeOK
<1>4. CASE /\ workers[process].alive /\ blocked' = TRUE /\ Raise(FALSE, {sequence})
           /\ faults' = faults + 1 /\ UNCHANGED <<process, workers>>
  <2>1. /\ CallInv' /\ step' = "ensure" /\ stage' \notin {"reread", "sync"}
        /\ stage = "main" /\ call.op = "write" => InPending(sequence)'
    BY <1>1, <1>2, <1>4, <1>s, RaiseKeeps
  <2>2. OneLiveWorker' /\ (\A w \in Workers : WorkOK(w))'
    BY <1>1, <1>4 DEF IInv, OneLiveWorker, WorkOK
  <2>3. Conversation'
    <3>1. ASSUME workers[process].at \in Busy, workers[process].req.op = "write"
          PROVE  InPending(workers[process].req.id)'
      <4>1. workers[process].req = NextRequest(sequence)
        BY <1>1, <1>2, <1>4, <3>1 DEF IInv, Conversation
      <4>2. stage = "main" /\ call.op = "write" /\ workers[process].req.id = sequence
        BY <1>1, <1>2, <3>1, <4>1, RequestOf
      <4> QED BY <1>1, <1>4, <2>1, <4>2 DEF InPending
    <3> QED BY <1>2, <1>4, <2>1, <3>1 DEF Conversation
  <2>4. BlockedOK'
    BY <1>2, <1>4, <2>1 DEF BlockedOK
  <2>5. ChildInv'
    BY <1>2, <1>4, <2>2, <2>3, <2>4 DEF ChildInv, IInv, MoreTypes
  <2> QED BY <1>1, <1>4, <2>1, <2>5, PartsInv DEF IInv, TypeOK
<1> QED BY <1>3, <1>4 DEF Abandon, Fault

\* close
LEMMA CloseInv == ASSUME IInv, Close PROVE IInv'
<1>1. /\ stage = "idle" /\ step = "ensure" /\ closed' = TRUE
      /\ UNCHANGED <<call, stage, step, retried, sequence, pending, file, kept, temps,
                     leaked, answer>>
  BY DEF Close, disk, IInv, StageOK
<1>2. (\A w \in Workers : workers'[w].alive => workers[w].alive /\ workers'[w] = workers[w])
      => CallInv'
  <2>1. StageOK' /\ SeqPositive' /\ SyncOK' /\ CommitOK'
    BY <1>1 DEF IInv, StageOK, SeqPositive, SyncOK, CommitOK
  <2>2. TempsOK' /\ AnswerStands' /\ TemporariesCleaned'
    BY <1>1 DEF IInv, TempsOK, InPending, AnswerStands, TemporariesCleaned
  <2>3. (\A w \in Workers : workers'[w].alive => workers[w].alive /\ workers'[w] = workers[w])
        => QuietAfterSuccess'
    BY <1>1 DEF IInv, QuietAfterSuccess
  <2> QED BY <1>1, <2>1, <2>2, <2>3 DEF CallInv, IInv, TypeOK, MoreTypes
<1>3. CASE UNCHANGED <<process, blocked, workers, faults>>
  <2>1. OneLiveWorker' /\ (\A w \in Workers : WorkOK(w))'
    BY <1>1, <1>3 DEF IInv, OneLiveWorker, WorkOK
  <2>2. BlockedOK' /\ Conversation'
    BY <1>1, <1>3 DEF IInv, BlockedOK, Conversation, InPending
  <2>3. ChildInv'
    BY <1>1, <1>3, <2>1, <2>2 DEF ChildInv, IInv, MoreTypes, TypeOK
  <2> QED BY <1>1, <1>2, <1>3, <2>3, PartsInv DEF IInv, TypeOK
<1>4. CASE /\ process # None /\ Reaped(process)
           /\ process' = None /\ blocked' = FALSE /\ UNCHANGED faults
  <2>1. workers' \in [Workers -> Children] /\ \A w \in Workers : ~workers'[w].alive
    BY <1>4, ReapedChildren DEF Reaped
  <2>2. ChildInv'
    BY <1>1, <1>4, <2>1, NoChild
  <2> QED BY <1>1, <1>2, <1>4, <2>1, <2>2, PartsInv DEF IInv, TypeOK
<1>5. CASE /\ process # None /\ workers[process].alive /\ faults' = faults + 1
           /\ blocked' = TRUE /\ UNCHANGED <<process, workers>>
  <2>1. OneLiveWorker' /\ (\A w \in Workers : WorkOK(w))'
    BY <1>1, <1>5 DEF IInv, OneLiveWorker, WorkOK
  <2>2. BlockedOK'
    BY <1>1, <1>5 DEF BlockedOK
  <2>3. Conversation'
    <3>1. CASE blocked
      BY <1>1, <1>5, <3>1 DEF IInv, Conversation, InPending
    <3>2. CASE ~blocked
      <4>1. workers[process].at = "idle"
        BY <1>1, <1>5, <3>2 DEF IInv, Conversation
      <4> QED BY <1>1, <1>5, <4>1 DEF Conversation, Busy
    <3> QED BY <3>1, <3>2
  <2>4. ChildInv'
    BY <1>1, <1>5, <2>1, <2>2, <2>3 DEF ChildInv, IInv, MoreTypes, TypeOK
  <2> QED BY <1>1, <1>2, <1>5, <2>4, PartsInv DEF IInv, TypeOK
<1> QED BY <1>3, <1>4, <1>5 DEF Close, Fault

\* The owner dies.
LEMMA DieInv == ASSUME IInv, Die PROVE IInv'
<1>1. /\ call' = NoCall /\ stage' = "idle" /\ step' = "ensure" /\ retried' = FALSE
      /\ process' = None /\ blocked' = FALSE /\ closed' = FALSE /\ sequence' = sequence
      /\ pending' = <<>> /\ workers' = [w \in Workers |-> Dead] /\ leaked' = temps
      /\ temps' = temps /\ answer' = NoAnswer /\ faults' = faults + 1
  BY DEF Die, Fault, disk
<1>2. /\ file' \in [Paths -> Contents] /\ kept' \in [Paths -> SUBSET Contents]
      /\ \A p \in Paths : file'[p] \in kept'[p]
  BY DEF Die, disk, IInv, MoreTypes, TypeOK, Contents
<1>3. workers' \in [Workers -> Children] /\ \A w \in Workers : ~workers'[w].alive
  BY <1>1, ConstantTypes DEF Dead
<1>4. TypeOK' /\ MoreTypes'
  <2>1. pending' \in Seq(1..sequence')
    BY <1>1
  <2>2. \A p \in Paths : kept'[p] \subseteq Values \cup {Missing}
    BY <1>2 DEF Contents
  <2>3. MoreTypes'
    BY <1>1, <1>2, <1>3, ConstantTypes DEF MoreTypes
  <2>4. /\ sequence' \in Nat /\ faults' \in Nat /\ temps' \subseteq 1..sequence'
        /\ leaked' \subseteq 1..sequence'
    BY <1>1 DEF IInv, TypeOK
  <2> QED BY <1>1, <1>2, <2>1, <2>2, <2>3, <2>4 DEF TypeOK, Stages
<1>5. ChildInv'
  BY <1>1, <1>3, NoChild
<1>6. StageOK' /\ SeqPositive' /\ CommitOK' /\ SyncOK' /\ TempsOK'
  BY <1>1 DEF StageOK, SeqPositive, CommitOK, SyncOK, TempsOK
<1>7. QuietAfterSuccess' /\ AnswerStands' /\ TemporariesCleaned'
  BY <1>1 DEF QuietAfterSuccess, AnswerStands, TemporariesCleaned, NoAnswer
<1> QED BY <1>4, <1>5, <1>6, <1>7 DEF IInv, ChildInv

\* Every step keeps the invariant.
LEMMA NextInv == IInv /\ [Next]_vars => IInv'
<1> SUFFICES ASSUME IInv, [Next]_vars PROVE IInv'
  OBVIOUS
<1>1. CASE UNCHANGED vars
  <2>1. UNCHANGED <<call, stage, step, retried, process, blocked, closed, sequence, pending,
                    workers, file, kept, temps, leaked, faults, answer>>
    BY <1>1 DEF vars, owned, disk
  <2>2. (TypeOK /\ MoreTypes /\ StageOK /\ BlockedOK /\ SeqPositive /\ OneLiveWorker)'
    BY <2>1 DEF IInv, TypeOK, MoreTypes, StageOK, BlockedOK, SeqPositive, OneLiveWorker
  <2>3. (\A w \in Workers : WorkOK(w))'
    BY <2>1 DEF IInv, WorkOK
  <2>4. (CommitOK /\ SyncOK /\ TempsOK)'
    BY <2>1 DEF IInv, CommitOK, SyncOK, TempsOK, InPending
  <2>5. Conversation'
    <3>1. NextRequest(sequence)' = NextRequest(sequence)
      BY <2>1 DEF NextRequest
    <3> QED BY <2>1, <3>1 DEF IInv, Conversation, InPending
  <2>6. (QuietAfterSuccess /\ AnswerStands /\ TemporariesCleaned)'
    BY <2>1 DEF IInv, QuietAfterSuccess, AnswerStands, TemporariesCleaned
  <2> QED BY <2>2, <2>3, <2>4, <2>5, <2>6 DEF IInv
<1>2. CASE Next
  <2>1. ASSUME NEW c \in Calls, Begin(c) PROVE IInv'
    BY <2>1, BeginInv
  <2>2. CASE Serve
    BY <2>2, EnsureLiveInv, EnsureBlockedInv, EnsureSpawnInv, SendInv, ExpireBeforeSendInv,
       CompleteInv, AbandonInv DEF Serve
  <2>3. CASE Close
    BY <2>3, CloseInv
  <2>4. ASSUME NEW w \in Workers, Work(w) PROVE IInv'
    BY <2>4, ReceiveInv, ReadInv, SyncExistingInv, UnlinkExactInv, UnlinkRegularInv,
       OpenTemporaryInv, ReplaceInv, SyncParentInv, AbortInv, ExitInv DEF Work
  <2>5. CASE Die
    BY <2>5, DieInv
  <2> QED BY <1>2, <2>1, <2>2, <2>3, <2>4, <2>5 DEF Next
<1> QED BY <1>1, <1>2

-----------------------------------------------------------------------------
(* The theorems *)

\* The inductive invariant holds always.
THEOREM Invariance == Spec => []IInv
<1> QED BY InitInv, NextInv, PTL DEF Spec

\* The variables of the owner, its children and the disk keep their types.
THEOREM TypeCorrect == Spec => []TypeOK
<1>1. IInv => TypeOK
  BY DEF IInv
<1> QED BY Invariance, <1>1, PTL

\* At most one child lives, and it is the one the owner holds: _ensure_process
\* starts no replacement before _terminate has reaped the old child.
THEOREM OneLiveWorkerAlways == Spec => []OneLiveWorker
<1>1. IInv => OneLiveWorker
  BY DEF IInv
<1> QED BY Invariance, <1>1, PTL

\* What a call was told about a file stays true until the next call begins, and
\* a durable write that was reported done survives a power loss.
THEOREM AnswersStand == Spec => []AnswerStands
<1>1. IInv => AnswerStands
  BY DEF IInv
<1> QED BY Invariance, <1>1, PTL

\* A call that succeeds leaves no temporary of this owner on disk.
THEOREM TemporariesAreCleaned == Spec => []TemporariesCleaned
<1>1. IInv => TemporariesCleaned
  BY DEF IInv
<1> QED BY Invariance, <1>1, PTL

-----------------------------------------------------------------------------
(* The refinement of AtomicArtifact *)

\* The child c may still carry out a mutation, which is Mutation(c).
Open(c) ==
    /\ c.alive /\ c.at \in {"received", "prepared", "written"}
    /\ c.req.op \in Mutating
Mutation(c) == [op |-> c.req.op, path |-> c.req.path, value |-> c.req.value]

\* What the child the owner holds may still carry out.
Carried(ws, p) == {m \in {Mutation(ws[p])} : p # None /\ Open(ws[p])}

\* Only the child the owner holds can leave a mutation unsettled.
LEMMA UnsettledIs ==
    IInv => /\ Unsettled = Carried(workers, process)
            /\ Open(workers[process]) /\ process # None =>
                  Unsettled = {Mutation(workers[process])}
            /\ ~Open(workers[process]) \/ process = None => Unsettled = {}
<1> SUFFICES ASSUME IInv
             PROVE  /\ Unsettled = Carried(workers, process)
                    /\ Open(workers[process]) /\ process # None =>
                          Unsettled = {Mutation(workers[process])}
                    /\ ~Open(workers[process]) \/ process = None => Unsettled = {}
  OBVIOUS
<1>1. process \in Workers \cup {None} /\ \A w \in Workers : workers[w].alive => w = process
  BY DEF IInv, TypeOK, OneLiveWorker
<1>2. Unsettled = {Mutation(workers[w]) : w \in {v \in Workers : Open(workers[v])}}
  BY DEF Unsettled, Mutation, Open, Mutating
<1>3. \A w \in Workers : Open(workers[w]) => w = process
  BY <1>1 DEF Open
<1> HIDE DEF Unsettled
<1>4. CASE process # None /\ Open(workers[process])
  <2>1. {v \in Workers : Open(workers[v])} = {process}
    BY <1>1, <1>3, <1>4
  <2>2. Unsettled = {Mutation(workers[process])}
    BY <1>2, <2>1
  <2> QED BY <1>4, <2>2 DEF Carried
<1>5. CASE ~(process # None /\ Open(workers[process]))
  <2>1. {v \in Workers : Open(workers[v])} = {}
    BY <1>1, <1>3, <1>5, ArtifactAssumption
  <2>2. Unsettled = {}
    BY <1>2, <2>1
  <2> QED BY <1>5, <2>2 DEF Carried
<1> QED BY <1>4, <1>5

\* The same in the next state.
LEMMA UnsettledNext ==
    IInv' => /\ Unsettled' = Carried(workers', process')
             /\ Open(workers'[process']) /\ process' # None =>
                   Unsettled' = {Mutation(workers'[process'])}
             /\ ~Open(workers'[process']) \/ process' = None => Unsettled' = {}
<1>1. (IInv => /\ Unsettled = Carried(workers, process)
               /\ Open(workers[process]) /\ process # None =>
                     Unsettled = {Mutation(workers[process])}
               /\ ~Open(workers[process]) \/ process = None => Unsettled = {})'
  BY UnsettledIs, PTL
<1> QED BY <1>1 DEF Carried, Open, Mutation

Simulates == [Atomic!ANext]_(Atomic!avars)

\* A step that leaves files, call and answer alone, and settles nothing or
\* drops what was unsettled.
LEMMA QuietSim ==
    ASSUME UNCHANGED <<file, kept, call, answer>>, Unsettled' \in {Unsettled, {}}
    PROVE  Simulates
BY DEF Simulates, Atomic!ANext, Atomic!avars, Atomic!ADrop

\* A call that fails or goes on after an error.
LEMMA RaiseSim ==
    ASSUME IInv, stage # "idle", NEW unknown, NEW left, Raise(unknown, left),
           UNCHANGED <<file, kept>>, Unsettled' \in {Unsettled, {}}
    PROVE  Simulates
<1>1. CASE UNCHANGED <<call, answer>>
  BY <1>1, QuietSim
<1>2. CASE call' = NoCall /\ answer' = NoAnswer
  <2>1. call.op # "none"
    BY DEF IInv, StageOK, Calls
  <2>2. Atomic!AFail
    BY <1>2, <2>1 DEF Atomic!AFail, Atomic!Idle, NoCall, NoAnswer, Atomic!NoAnswer
  <2> QED BY <2>2 DEF Simulates, Atomic!ANext
<1> QED BY <1>1, <1>2, RaiseEffect

\* ensure_started succeeds, or the call goes on, with a child that is idle.
LEMMA EnsuredSim ==
    ASSUME IInv, stage # "idle", Ensured, UNCHANGED <<file, kept>>, Unsettled' = {}
    PROVE  Simulates
<1>1. CASE UNCHANGED <<call, answer>>
  BY <1>1, QuietSim
<1>2. CASE /\ call.op = "start" /\ call' = NoCall
           /\ answer' = [ok |-> TRUE, op |-> call.op, path |-> call.path, value |-> Missing,
                         durable |-> call.durable]
  <2>1. Atomic!ASucceed
    BY <1>2 DEF Atomic!ASucceed, Atomic!Idle, NoCall
  <2> QED BY <2>1 DEF Simulates, Atomic!ANext
<1> QED BY <1>1, <1>2 DEF Ensured, Succeed, Return, Goto

\* A COMMIT: the call goes on, fails, or succeeds as AnswerStands says.
LEMMA CommitSim ==
    ASSUME IInv, IInv', stage # "idle", NEW v, Commit(v), UNCHANGED <<file, kept>>,
           Unsettled' = {}
    PROVE  Simulates
<1>t. call \in Calls /\ call.op # "none"
  BY DEF IInv, StageOK, Calls
<1>1. CASE UNCHANGED <<call, answer>>
  BY <1>1, QuietSim
<1>2. CASE call' = NoCall /\ answer' = NoAnswer
  <2>1. Atomic!AFail
    BY <1>2, <1>t DEF Atomic!AFail, Atomic!Idle, NoCall, NoAnswer, Atomic!NoAnswer
  <2> QED BY <2>1 DEF Simulates, Atomic!ANext
<1>3. CASE /\ call' = NoCall /\ stage' = "idle"
           /\ \E u : /\ answer' = [ok |-> TRUE, op |-> call.op, path |-> call.path,
                                   value |-> u, durable |-> call.durable]
                     /\ call.op \in Mutating => u = call.value
  <2>1. PICK u : /\ answer' = [ok |-> TRUE, op |-> call.op, path |-> call.path,
                               value |-> u, durable |-> call.durable]
                 /\ call.op \in Mutating => u = call.value
    BY <1>3
  <2>2. call.op # "start" => /\ file[call.path] = u
                             /\ call.durable => kept[call.path] = {u}
    BY <1>3, <2>1 DEF IInv, AnswerStands
  <2>3. Atomic!ASucceed
    BY <1>3, <1>t, <2>1, <2>2 DEF Atomic!ASucceed, Atomic!Idle, NoCall, Mutating
  <2> QED BY <2>3 DEF Simulates, Atomic!ANext
<1>4. \/ UNCHANGED <<call, answer>>
      \/ call' = NoCall /\ answer' = NoAnswer
      \/ /\ call' = NoCall /\ stage' = "idle"
         /\ \E u : /\ answer' = [ok |-> TRUE, op |-> call.op, path |-> call.path,
                                 value |-> u, durable |-> call.durable]
                   /\ call.op \in Mutating => u = call.value
  BY DEF Commit, Goto, Succeed, Fail, Return, Mutating
<1> QED BY <1>1, <1>2, <1>3, <1>4

\* The steps of the owner.
LEMMA OwnerSim == ASSUME IInv, IInv', Serve \/ Close PROVE Simulates
<1> USE DEF disk
<1>0. step # "wait" /\ ~blocked /\ process # None => ~Open(workers[process])
  BY DEF IInv, Conversation, Open
<1>i. UNCHANGED <<workers, process>> => Unsettled' = Unsettled
  BY UnsettledIs, UnsettledNext DEF Carried
<1>n. process' = None => Unsettled' = {}
  BY UnsettledNext
<1>f. ASSUME NEW r, \A w \in Workers : ~r[w].alive, r \in [Workers -> Children],
             NEW w \in Workers, workers' = [r EXCEPT ![w] = Fresh], process' = w
      PROVE  Unsettled' = {}
  <2>1. workers'[w] = Fresh
    BY <1>f
  <2>2. ~Open(workers'[process'])
    BY <1>f, <2>1 DEF Open, Fresh, Dead
  <2> QED BY <2>2, UnsettledNext
<1>1. CASE EnsureLive
  <2>1. Unsettled = {}
    BY <1>1, <1>0, UnsettledIs DEF EnsureLive, Usable
  <2> QED BY <1>1, <1>i, <2>1, EnsuredSim DEF EnsureLive
<1>2. CASE EnsureBlocked
  BY <1>2, <1>i, RaiseSim DEF EnsureBlocked
<1>3. CASE EnsureSpawn
  <2> DEFINE reaped == IF process = None THEN workers ELSE [workers EXCEPT ![process] = Dead]
  <2>1. reaped \in [Workers -> Children] /\ \A w \in Workers : ~reaped[w].alive
    BY ReapedChildren
  <2>2. /\ stage # "idle" /\ UNCHANGED <<file, kept>>
        /\ \/ process' = None
           \/ \E w \in Workers : workers' = [reaped EXCEPT ![w] = Fresh] /\ process' = w
        /\ Ensured \/ \E unknown \in BOOLEAN : Raise(unknown, {})
    BY <1>3 DEF EnsureSpawn
  <2> HIDE DEF reaped
  <2>3. Unsettled' = {}
    BY <1>n, <1>f, <2>1, <2>2
  <2> QED BY <2>2, <2>3, EnsuredSim, RaiseSim
<1>4. CASE Send
  <2>1. /\ step = "send" /\ sequence' = sequence + 1
        /\ UNCHANGED <<file, kept, call, answer, process>>
    BY <1>4 DEF Send
  <2>2. /\ process \in Workers /\ process # None /\ ~blocked /\ sequence \in Nat
        /\ workers \in [Workers -> Children] /\ stage # "idle" /\ call \in Calls
    BY <2>1 DEF IInv, TypeOK, BlockedOK, MoreTypes, StageOK
  <2>3. Unsettled = {}
    BY <2>1, <2>2, <1>0, UnsettledIs
  <2>4. CASE workers[process].alive /\ Open(workers'[process])
    <3>1. workers'[process].req = NextRequest(sequence')
      BY <2>2, <2>4, <1>4 DEF Send, Children
    <3>2. /\ stage = "main" /\ call.op \in Mutating
          /\ Mutation(workers'[process]) = [op |-> call.op, path |-> call.path,
                                            value |-> call.value]
      <4>1. workers'[process].req.op \in Mutating
        BY <2>4 DEF Open
      <4>2. stage = "main"
        BY <2>2, <3>1, <4>1 DEF NextRequest, NoRequest, Mutating, IInv, TypeOK, Stages
      <4> QED BY <3>1, <4>1, <4>2 DEF NextRequest, Mutation
    <3>3. Unsettled' = {Mutation(workers'[process])}
      BY <2>1, <2>2, <2>4, UnsettledNext
    <3>4. [op |-> call.op, path |-> call.path, value |-> call.value]
             \in [op : {"write", "unlink"}, path : Paths, value : Values \cup {Missing}]
      BY <2>2, <3>2 DEF Calls, Mutating
    <3>5. Atomic!ASubmit
      BY <2>1, <2>3, <3>2, <3>3, <3>4 DEF Atomic!ASubmit
    <3> QED BY <3>5 DEF Simulates, Atomic!ANext
  <2>5. CASE ~Open(workers'[process])
    BY <2>1, <2>5, UnsettledNext, QuietSim
  <2>6. Open(workers'[process]) => workers[process].alive
    BY <1>4, <2>2 DEF Open, Send, Children
  <2> QED BY <2>4, <2>5, <2>6
<1>5. CASE ExpireBeforeSend
  <2>1. stage # "idle"
    BY <1>5 DEF IInv, StageOK, ExpireBeforeSend
  <2> QED BY <1>5, <1>i, <2>1, RaiseSim DEF ExpireBeforeSend
<1>6. CASE Complete
  <2>1. /\ stage # "idle" /\ process \in Workers /\ workers[process] \in Children
        /\ UNCHANGED <<file, kept, process>>
    BY <1>6 DEF IInv, StageOK, Complete, BlockedOK, MoreTypes, TypeOK
  <2>2. workers[process].alive => workers[process].at \notin Busy
    BY <1>6, <2>1 DEF IInv, WorkOK, Complete
  <2>3. ~Open(workers'[process'])
    BY <1>6, <2>1, <2>2 DEF Open, Complete, Children, Busy, IInv, MoreTypes
  <2>4. Unsettled' = {}
    BY <2>3, UnsettledNext
  <2> QED BY <1>6, <2>1, <2>4, CommitSim, RaiseSim DEF Complete
<1>7. CASE Abandon
  <2>1. stage # "idle"
    BY <1>7 DEF IInv, StageOK, Abandon
  <2> QED BY <1>7, <1>i, <1>n, <2>1, RaiseSim DEF Abandon
<1>8. CASE Close
  BY <1>8, <1>i, <1>n, QuietSim DEF Close
<1> QED BY <1>1, <1>2, <1>3, <1>4, <1>5, <1>6, <1>7, <1>8 DEF Serve

\* The steps of a child.
LEMMA WorkSim == ASSUME IInv, IInv', NEW w \in Workers, Work(w) PROVE Simulates
<1> USE DEF owned, disk, At, Now
<1>0. /\ workers \in [Workers -> Children] /\ workers[w] \in Children
      /\ w = process /\ process' = process /\ process # None
      /\ WorkOK(w) /\ UNCHANGED <<call, answer>>
  BY WorkFrame
<1>o. /\ Open(workers[w]) => Unsettled = {Mutation(workers[w])}
      /\ ~Open(workers[w]) => Unsettled = {}
      /\ Open(workers'[w]) => Unsettled' = {Mutation(workers'[w])}
      /\ ~Open(workers'[w]) => Unsettled' = {}
  BY <1>0, UnsettledIs, UnsettledNext
<1>a. ASSUME NEW out, NEW v, Now(w, Answered(w, out, v)) PROVE ~Open(workers'[w])
  BY <1>a, <1>0 DEF Answered, Children, Open
<1>d. ASSUME NEW r, Now(w, r), ~r.alive PROVE ~Open(workers'[w])
  BY <1>d, <1>0 DEF Open
<1>m. ASSUME NEW a, NEW n, \/ Now(w, [workers[w] EXCEPT !.at = a])
                           \/ Now(w, [workers[w] EXCEPT !.at = a, !.prev = n])
      PROVE  /\ workers'[w].req = workers[w].req /\ workers'[w].at = a
             /\ Mutation(workers'[w]) = Mutation(workers[w])
             /\ workers[w].alive => (Open(workers'[w]) <=>
                    /\ a \in {"received", "prepared", "written"}
                    /\ workers[w].req.op \in Mutating)
  <2>1. /\ workers'[w].req = workers[w].req /\ workers'[w].at = a
        /\ workers'[w].alive = workers[w].alive
    <3>1. CASE Now(w, [workers[w] EXCEPT !.at = a])
      BY <3>1, <1>0 DEF Children
    <3>2. CASE Now(w, [workers[w] EXCEPT !.at = a, !.prev = n])
      BY <3>2, <1>0 DEF Children
    <3> QED BY <1>m, <3>1, <3>2
  <2> QED BY <2>1 DEF Open, Mutation
<1>1. CASE Receive(w)
  <2>1. CASE Now(w, [Dead EXCEPT !.at = "refused"])
    <3>1. ~[Dead EXCEPT !.at = "refused"].alive
      BY DEF Dead
    <3>2. ~Open(workers'[w])
      BY <1>d, <2>1, <3>1
    <3> QED BY <1>0, <1>1, <1>o, <3>2, QuietSim DEF Receive
  <2>2. CASE Now(w, [workers[w] EXCEPT !.at = "prepared", !.prev = workers[w].req.id])
    <3>1. /\ Mutation(workers'[w]) = Mutation(workers[w])
          /\ Open(workers'[w]) <=> workers[w].req.op \in Mutating
      BY <1>1, <1>m, <2>2 DEF Receive
    <3>2. Open(workers[w]) <=> workers[w].req.op \in Mutating
      BY <1>1 DEF Receive, Open
    <3> QED BY <1>0, <1>1, <1>o, <3>1, <3>2, QuietSim DEF Receive
  <2> QED BY <1>1, <2>1, <2>2 DEF Receive
<1>2. CASE Read(w) \/ UnlinkExact(w) \/ Abort(w)
  BY <1>0, <1>2, <1>a, <1>o, QuietSim DEF Read, UnlinkExact, Abort
<1>3. CASE Exit(w)
  <2>1. ~[Dead EXCEPT !.out = workers[w].out, !.got = workers[w].got].alive
    BY DEF Dead
  <2>2. ~Open(workers'[w])
    BY <1>3, <1>d, <2>1 DEF Exit
  <2> QED BY <1>0, <1>3, <1>o, <2>2, QuietSim DEF Exit
<1>4. CASE OpenTemporary(w)
  <2>1. /\ Mutation(workers'[w]) = Mutation(workers[w])
        /\ Open(workers'[w]) /\ Open(workers[w])
    BY <1>4, <1>m DEF OpenTemporary, Mutating, Open
  <2> QED BY <1>0, <1>4, <1>o, <2>1, QuietSim DEF OpenTemporary
<1>5. CASE SyncExisting(w)
  <2>1. Unsettled = {} /\ Unsettled' = {}
    BY <1>5, <1>a, <1>o DEF SyncExisting, Open, Mutating
  <2>2. workers[w].req.path \in Paths
    BY <1>0, <1>5 DEF SyncExisting, WorkOK, Busy
  <2>3. Atomic!ASync
    BY <1>0, <1>5, <2>1, <2>2 DEF SyncExisting, Atomic!ASync
  <2> QED BY <2>3 DEF Simulates, Atomic!ANext
<1>6. CASE SyncParent(w)
  <2>1. Unsettled = {} /\ Unsettled' = {}
    BY <1>6, <1>a, <1>o DEF SyncParent, Open
  <2>2. workers[w].req.path \in Paths
    BY <1>0, <1>6 DEF SyncParent, WorkOK, Busy, Mutating
  <2>3. CASE kept' = kept
    BY <1>0, <1>6, <2>1, <2>3, QuietSim DEF SyncParent
  <2>4. CASE kept' = [kept EXCEPT ![workers[w].req.path] = {file[workers[w].req.path]}]
    <3>1. Atomic!ASync
      BY <1>0, <1>6, <2>1, <2>2, <2>4 DEF SyncParent, Atomic!ASync
    <3> QED BY <3>1 DEF Simulates, Atomic!ANext
  <2> QED BY <1>6, <2>3, <2>4 DEF SyncParent
<1>7. ASSUME Open(workers[w]), ~Open(workers'[w]),
             file' = [file EXCEPT ![workers[w].req.path] = workers[w].req.value],
             kept' = [kept EXCEPT ![workers[w].req.path] = @ \cup {workers[w].req.value}]
      PROVE  Simulates
  <2>1. Unsettled = {Mutation(workers[w])} /\ Unsettled' = {}
    BY <1>o, <1>7
  <2>2. Atomic!ATake
    BY <1>0, <1>7, <2>1 DEF Atomic!ATake, Mutation
  <2> QED BY <2>2 DEF Simulates, Atomic!ANext
<1>8. CASE Replace(w)
  <2>1. Open(workers[w])
    BY <1>0, <1>8 DEF Replace, Open, WorkOK, Mutating
  <2>2. ~Open(workers'[w])
    BY <1>8, <1>m DEF Replace
  <2> QED BY <1>7, <1>8, <2>1, <2>2 DEF Replace
<1>9. CASE UnlinkRegular(w)
  <2>1. Open(workers[w]) /\ workers[w].req.value = Missing
    BY <1>0, <1>9 DEF UnlinkRegular, Open, WorkOK, Mutating, Busy
  <2>2. CASE file[workers[w].req.path] = Missing
    BY <1>0, <1>9, <1>a, <1>o, <2>2, QuietSim DEF UnlinkRegular
  <2>3. CASE file[workers[w].req.path] # Missing
    <3>1. ~Open(workers'[w])
      <4>1. Now(w, [workers[w] EXCEPT !.at = "replaced"])
        BY <1>9, <2>3 DEF UnlinkRegular
      <4>2. workers'[w].at = "replaced"
        BY <1>m, <4>1
      <4> QED BY <4>2 DEF Open
    <3> QED BY <1>7, <1>9, <2>1, <2>3, <3>1 DEF UnlinkRegular
  <2> QED BY <2>2, <2>3
<1> QED BY <1>1, <1>2, <1>3, <1>4, <1>5, <1>6, <1>8, <1>9 DEF Work

\* Every step is a step of AtomicArtifact or leaves its variables alone.
LEMMA NextSim == IInv /\ IInv' /\ [Next]_vars => Simulates
<1> SUFFICES ASSUME IInv, IInv', [Next]_vars PROVE Simulates
  OBVIOUS
<1>1. CASE UNCHANGED vars
  <2>1. Unsettled' = Unsettled
    BY <1>1, UnsettledIs, UnsettledNext DEF vars, owned, Carried
  <2> QED BY <1>1, <2>1, QuietSim DEF vars, owned, disk
<1>2. ASSUME NEW c \in Calls, Begin(c) PROVE Simulates
  <2>1. Unsettled' = Unsettled
    BY <1>2, UnsettledIs, UnsettledNext DEF Begin, Carried
  <2>2. call.op = "none" /\ c.op # "none"
    <3>1. call = NoCall
      BY <1>2 DEF Begin, IInv, StageOK
    <3>2. c.op # "none"
      BY <1>2 DEF Calls
    <3> QED BY <3>1, <3>2 DEF NoCall
  <2>3. Atomic!ABegin
    BY <1>2, <2>1, <2>2 DEF Begin, disk, Atomic!ABegin, Atomic!Idle, NoAnswer, Atomic!NoAnswer
  <2> QED BY <2>3 DEF Simulates, Atomic!ANext
<1>3. CASE Die
  <2>1. Unsettled' = {}
    BY <1>3, UnsettledNext DEF Die
  <2>2. Atomic!ADie
    BY <1>3, <2>1 DEF Die, disk, Atomic!ADie, NoCall, NoAnswer, Atomic!NoAnswer
  <2> QED BY <2>2 DEF Simulates, Atomic!ANext
<1> QED BY <1>1, <1>2, <1>3, OwnerSim, WorkSim DEF Next

\* The owner and its children implement atomic files: a failed mutation is
\* settled, one way or the other, before anything else is done to a file and
\* before any call succeeds.
THEOREM AtomicFilesImplemented == Spec => AtomicFiles
<1>1. Init => Atomic!AInit
  <2> SUFFICES ASSUME Init PROVE Atomic!AInit
    OBVIOUS
  <2>1. Unsettled = {}
    BY InitInv, UnsettledIs DEF Init
  <2> QED BY <2>1 DEF Init, Atomic!AInit, NoCall, NoAnswer, Atomic!NoAnswer
<1>2. IInv /\ IInv' /\ [Next]_vars => [Atomic!ANext]_(Atomic!avars)
  BY NextSim DEF Simulates
<1> QED BY <1>1, <1>2, Invariance, PTL DEF Spec, AtomicFiles, Atomic!ASpec
====
