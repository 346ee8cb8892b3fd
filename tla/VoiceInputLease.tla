-------------------------- MODULE VoiceInputLease --------------------------
(***************************************************************************)
(* The voice input lease (voice_input_lease.py): one owner of the user's   *)
(* voice at a time, the local microphone or the Discord listeners.  The    *)
(* Bot API keeps the lease in memory and in a file                         *)
(* (VoiceInputLeaseManager, with the handlers of fast_control_api.py); the *)
(* Discord process asks for it over HTTP, once for all its listeners       *)
(* (DiscordVoiceInputLeaseClient); the Local Bridge captures on request    *)
(* and reports what it does; the control page retires the lease of a       *)
(* Discord process that was stopped.                                       *)
(*                                                                         *)
(* All three processes can die.  A request may be given up by its client   *)
(* and served later, but in order: the server takes requests under one     *)
(* FIFO lock.  What the Bot API sees of the others is the last report of   *)
(* the bridge and the last heartbeat file of Discord, each possibly late   *)
(* or too old to count.                                                    *)
(***************************************************************************)
EXTENDS Naturals, Sequences, FiniteSets, SequencesExt

CONSTANTS
    Listeners,     \* voice clients of the Discord process, one per guild
    None,
    MaxListens,    \* bound on the leases listeners ask for
    MaxCommands,   \* bound on the microphone commands
    MaxClaims,     \* VOICE_INPUT_RETIREMENT_MAX_CLAIMS
    MaxLate,       \* bound on heartbeats that are written late
    MaxTroubles    \* bound on restarts, given-up requests, failed reads,
                   \* writes and captures

ASSUME LeaseAssumption ==
    /\ None \notin Listeners
    /\ {MaxListens, MaxCommands, MaxClaims, MaxLate, MaxTroubles} \subseteq Nat

VARIABLES
    file,      \* owner.json: the durable lease
    mem,       \* the manager's lease
    failed,    \* _persistence_failed
    claims,    \* _retirement_claims
    bst,       \* LOCAL_BRIDGE_STATUS
    req,       \* LOCAL_BRIDGE_MIC_CONTROL_REQUEST
    wait,      \* the revision the control page's handler waits for, or 0
    wire,      \* lease requests not yet served
    disc,      \* the Discord process: running, its instance, has it listened
    lis,       \* lis[l]: what listener l does
    cl,        \* the lease client of the Discord process
    dst,       \* the Discord status file
    br,        \* the Local Bridge
    issued, counts

bot == <<mem, failed, claims, bst, req, wait>>
discord == <<disc, lis, cl>>
vars == <<file, bot, wire, discord, dst, br, issued, counts>>

Sources == {"local_mic", "discord_voice"}
Local == "local_mic"
Discord == "discord_voice"

NoHolder == [src |-> "none", inst |-> 0, lease |-> 0]
Holder(s, i, n) == [src |-> s, inst |-> i, lease |-> n]
Lease(phase, by, last) == [phase |-> phase, by |-> by, last |-> last]
Bootstrap == Lease("bootstrap", NoHolder, NoHolder)

NoAct == <<>>
NoReport == [inst |-> 0, mic |-> "off", rev |-> 0, act |-> NoAct, st |-> "idle",
             want |-> FALSE]
NoReq == [rev |-> 0, act |-> NoAct, enabled |-> "unset", inst |-> 0]
NewBridge(i) == [inst |-> i, mic |-> "off", rev |-> 0, act |-> NoAct,
                 st |-> "idle", want |-> FALSE, queue |-> <<>>]
NoCall == [by |-> None, act |-> "none", ans |-> "none", lease |-> 0,
           cancelled |-> FALSE]
NoClient == [lease |-> 0, amb |-> FALSE, retry |-> FALSE, call |-> NoCall]
AllIdle == [l \in Listeners |-> "idle"]

Init ==
    /\ file = Bootstrap /\ mem = Bootstrap /\ failed = FALSE /\ claims = {}
    /\ bst = NoReport /\ req = NoReq /\ wait = 0 /\ wire = <<>>
    /\ disc = [up |-> TRUE, inst |-> 1, listened |-> FALSE]
    /\ lis = AllIdle /\ cl = NoClient
    /\ dst = [inst |-> 1, listening |-> FALSE]
    /\ br = NewBridge(1)
    /\ issued = 0
    /\ counts = [listens |-> 0, commands |-> 0, late |-> 0, troubles |-> 0]

Count(c) == counts' = [counts EXCEPT ![c] = @ + 1]
Trouble == counts.troubles < MaxTroubles /\ Count("troubles")

----------------------------------------------------------------------------
(* What the Bot API can observe, [Sources -> state and instance]. *)

Obs(st, i) == [st |-> st, inst |-> i]

(* _local_mic_physical_observation: a report may be too old to count. *)
LocalFresh(b) == Obs(IF b.mic = "on" THEN "active" ELSE "inactive", b.inst)
LocalPhysical(b) ==
    {LocalFresh(b)} \cup IF b = NoReport THEN {} ELSE {Obs("unknown", b.inst)}

(* _local_mic_input_observation: an ON that was published counts. *)
LocalInput ==
    IF bst # NoReport /\ req.enabled = "on" /\ req.inst = bst.inst
    THEN {Obs("active", bst.inst)} ELSE LocalPhysical(bst)

(* _discord_voice_input_observation *)
DiscordSeen ==
    {Obs("unknown", 0),
     Obs(IF dst.listening THEN "active" ELSE "inactive", dst.inst)}

Both(l, d) == [s \in Sources |-> IF s = Local THEN l ELSE d]
InputObservations == {Both(l, d) : l \in LocalInput, d \in DiscordSeen}
PhysicalObservations == {Both(l, d) : l \in LocalPhysical(bst), d \in DiscordSeen}

Active(o) == {s \in Sources : o[s].st = "active"}
Quiet(o, S) == \A s \in S : o[s].st = "inactive"
Peers(s) == Sources \ {s}

----------------------------------------------------------------------------
(* The manager.  An operation is the sequence of leases it commits, one
   after the other, and its answer: the lease number, or 0 for an error. *)

\* Mutant: the holder is not cleared.
SetUnownedKeepsHolder(p) ==
    Lease("unowned", p.by, IF p.phase = "owned" THEN p.by ELSE p.last)

(* _set_unowned, _set_owned, _set_blocked *)
SetUnowned(p) ==
    Lease("unowned", NoHolder, IF p.phase = "owned" THEN p.by ELSE p.last)

SetOwned(p, s, i, n) == Lease("owned", Holder(s, i, n), p.last)
SetBlocked(p) == Lease("blocked", NoHolder, p.last)

After(p, commits) == IF commits = <<>> THEN p ELSE Last(commits)
Answer(commits, n) == [commits |-> commits, lease |-> n]

(* The owner is gone: its source reports another, inactive instance. *)
Replaced(p, o) ==
    /\ p.phase = "owned"
    /\ o[p.by.src].st = "inactive" /\ o[p.by.src].inst \notin {0, p.by.inst}

(* _observe_locked; n is the number a new lease gets. *)
ObserveLocked(p, o, n) ==
    LET act == Active(o)  s == CHOOSE x \in act : TRUE IN
    IF Cardinality(act) > 1 THEN <<SetBlocked(p)>>
    ELSE IF p.phase = "blocked"
      THEN IF Quiet(o, Sources) THEN <<SetUnowned(p)>> ELSE <<>>
    ELSE IF p.phase = "owned"
      THEN IF act \cap Peers(p.by.src) # {} THEN <<SetBlocked(p)>>
           ELSE IF Replaced(p, o) /\ Quiet(o, Peers(p.by.src))
                THEN <<SetUnowned(p)>> ELSE <<>>
    ELSE IF \E x \in Sources : o[x].st = "unknown" THEN <<>>
    ELSE IF act # {}
      THEN IF o[s].inst # 0 THEN <<SetOwned(p, s, o[s].inst, n)>>
           ELSE <<SetBlocked(p)>>
    ELSE IF p.phase = "bootstrap" THEN <<SetUnowned(p)>> ELSE <<>>

Acquire(p, s, i, o, n) ==
    LET gone == Replaced(p, o)
        peers == Peers(p.by.src)
        pre == IF gone /\ Quiet(o, peers) THEN <<SetUnowned(p)>> ELSE <<>>
        q == After(p, pre)
        seen == ObserveLocked(q, o, n)
        r == After(q, seen) IN
    IF gone /\ \E x \in peers : o[x].st = "unknown" THEN Answer(<<>>, 0)
    ELSE IF q.phase = "owned"
      THEN IF Active(o) \ {q.by.src} # {} THEN Answer(<<SetBlocked(q)>>, 0)
           ELSE IF q.by.src = s /\ q.by.inst = i /\ Quiet(o, Peers(s))
                THEN Answer(<<>>, q.by.lease) ELSE Answer(<<>>, 0)
    ELSE IF r.phase = "owned"
      THEN Answer(pre \o seen, IF r.by.src = s /\ r.by.inst = i
                               THEN r.by.lease ELSE 0)
    ELSE IF r.phase = "unowned" /\ Quiet(o, Sources)
      THEN Answer(pre \o seen \o <<SetOwned(r, s, i, n)>>, n)
    ELSE Answer(pre \o seen, 0)

(* release and _retire_exact_locked: exactly this holder; a second release
   of the last one is answered as done. *)
Release(p, h) ==
    IF p.phase = "owned" /\ p.by = h THEN Answer(<<SetUnowned(p)>>, h.lease)
    ELSE Answer(<<>>, IF p.phase = "unowned" /\ p.last = h THEN h.lease ELSE 0)

ReleaseIfInactive(p, s, i, o) ==
    IF p.phase # "owned" \/ p.by.src # s THEN Answer(<<>>, 0)
    ELSE IF Active(o) \cap Peers(s) # {} THEN Answer(<<SetBlocked(p)>>, 0)
    ELSE IF o[s].inst = i /\ Quiet(o, Sources)
      THEN Answer(<<SetUnowned(p)>>, p.by.lease)
    ELSE Answer(<<>>, 0)

(* _commit, for each lease of an operation in turn: k of them are written;
   the next one, if any, fails, before or after its effect, and shuts the
   manager until the process restarts. *)
Outcomes(a) == {<<Len(a.commits), FALSE>>} \cup
               ((0 .. Len(a.commits) - 1) \X BOOLEAN)

Done(a, out) == out[1] = Len(a.commits)

Commit(a, out) ==
    LET k == out[1]  written == IF out[2] THEN k + 1 ELSE k IN
    /\ Done(a, out) \/ counts.troubles < MaxTroubles
    /\ mem' = After(mem, SubSeq(a.commits, 1, k))
    /\ file' = After(file, SubSeq(a.commits, 1, written))
    /\ failed' = (failed \/ ~Done(a, out))
    /\ issued' = IF \E j \in DOMAIN a.commits :
                       a.commits[j].by.lease = issued + 1
                 THEN issued + 1 ELSE issued

Faulted(a, out) == IF Done(a, out) THEN 0 ELSE 1

(* Nothing is done while _persistence_failed. *)
Refused == Answer(<<>>, 0)
Guarded(a) == IF failed THEN Refused ELSE a

(* The answer the caller gets: a failed write is an error like a refusal. *)
Result(a, out) == IF Done(a, out) THEN a.lease ELSE 0

----------------------------------------------------------------------------
(* Lease requests of the Discord process, served under the transition lock. *)

Waiting == cl.call.ans = "wait"
Live == Waiting /\ Len(wire) = 1

(* voice_input_lease_handler.  The client hears of it unless it gave up. *)
Serve(o) ==
    LET r == Head(wire)
        a == Guarded(IF r.act = "acquire"
                     THEN Acquire(mem, Discord, r.inst, o, issued + 1)
                     ELSE Release(mem, Holder(Discord, r.inst, r.lease))) IN
    \E out \in Outcomes(a) :
       /\ Commit(a, out)
       /\ counts' = [counts EXCEPT !.troubles = @ + Faulted(a, out)]
       /\ cl' = IF ~Live THEN cl
                ELSE [cl EXCEPT !.call.ans = IF Result(a, out) # 0 THEN "ok"
                                             ELSE "refused",
                                !.call.lease = Result(a, out)]
       /\ wire' = Tail(wire)
       /\ UNCHANGED <<claims, bst, req, wait, disc, lis, dst, br>>

ServeNext == wire # <<>> /\ \E o \in InputObservations : Serve(o)

----------------------------------------------------------------------------
(* The client: one request at a time, under its lock. *)

Tokens == {l \in Listeners : lis[l] \in {"leased", "on", "draining", "stopped"}}
Unlocked == disc.up /\ cl.call = NoCall

Send(by, act, n, c) ==
    /\ cl' = [c EXCEPT !.call = [NoCall EXCEPT !.by = by, !.act = act,
                                               !.ans = "wait"]]
    /\ wire' = Append(wire, [act |-> act, inst |-> disc.inst, lease |-> n])

AskAcquire(l) ==
    /\ Unlocked /\ lis[l] = "idle" /\ counts.listens < MaxListens
    /\ Count("listens")
    /\ Send(l, "acquire", 0, cl)
    /\ lis' = [lis EXCEPT ![l] = "asking"]
    /\ UNCHANGED <<file, bot, disc, dst, br, issued>>

(* The client stops waiting, or cannot reach the server (lost). *)
TimeOut(lost) ==
    /\ Waiting /\ Trouble
    /\ cl' = [cl EXCEPT !.call.ans = "error"]
    /\ wire' = IF lost THEN Front(wire) ELSE wire
    /\ UNCHANGED <<file, bot, disc, lis, dst, br, issued>>

(* Whoever asked is cancelled; the request is awaited all the same. *)
Cancel ==
    /\ Waiting /\ cl.call.act = "acquire" /\ cl.call.by # None
    /\ ~cl.call.cancelled
    /\ cl' = [cl EXCEPT !.call.cancelled = TRUE]
    /\ UNCHANGED <<file, bot, wire, disc, lis, dst, br, issued, counts>>

(* acquire, once its request has ended. *)
Acquired(l) ==
    LET c == [cl EXCEPT !.call = NoCall]
        held == [c EXCEPT !.lease = cl.call.lease, !.amb = FALSE] IN
    /\ cl.call.by = l /\ cl.call.act = "acquire"
    /\ \/ /\ cl.call.ans = "ok" /\ ~cl.call.cancelled
          /\ cl' = held /\ lis' = [lis EXCEPT ![l] = "leased"]
          /\ UNCHANGED wire
       \/ /\ cl.call.ans = "ok" /\ cl.call.cancelled
          /\ IF Tokens = {} THEN Send(l, "release", held.lease, held)
             ELSE cl' = held /\ UNCHANGED wire
          /\ lis' = [lis EXCEPT ![l] = "idle"]
       \/ /\ cl.call.ans = "error"
          /\ cl' = IF Tokens # {} THEN c
                   ELSE [c EXCEPT !.lease = 0, !.amb = TRUE, !.retry = TRUE]
          /\ lis' = [lis EXCEPT ![l] = "idle"] /\ UNCHANGED wire
       \/ /\ cl.call.ans = "refused"
          /\ cl' = c /\ lis' = [lis EXCEPT ![l] = "idle"] /\ UNCHANGED wire
    /\ UNCHANGED <<file, bot, disc, dst, br, issued, counts>>

(* release: the last token gives the lease back. *)
ReleaseToken(l) ==
    /\ Unlocked /\ lis[l] = "stopped"
    /\ lis' = [lis EXCEPT ![l] = "idle"]
    /\ IF Tokens # {l} \/ cl.lease = 0 THEN UNCHANGED <<cl, wire>>
       ELSE Send(l, "release", cl.lease, cl)
    /\ UNCHANGED <<file, bot, disc, dst, br, issued, counts>>

\* Mutant: a release that failed is forgotten.
ReleasedOrForgotten ==
    /\ cl.call.act = "release" /\ ~Waiting
    /\ cl' = IF cl.call.ans = "ok"
             THEN [NoClient EXCEPT !.retry = cl.retry /\ cl.call.by # None]
             ELSE [cl EXCEPT !.call = NoCall]
    /\ UNCHANGED <<file, bot, wire, disc, lis, dst, br, issued, counts>>

(* A release has ended; what failed is left to the retry task. *)
Released ==
    /\ cl.call.act = "release" /\ ~Waiting
    /\ cl' = IF cl.call.ans = "ok"
             THEN [NoClient EXCEPT !.retry = cl.retry /\ cl.call.by # None]
             ELSE [cl EXCEPT !.call = NoCall, !.retry = TRUE]
    /\ UNCHANGED <<file, bot, wire, disc, lis, dst, br, issued, counts>>

\* Mutant: the retry does not look whether a listener has come since.
RetryBlindly ==
    /\ Unlocked /\ cl.retry
    /\ IF ~cl.amb /\ cl.lease = 0
         THEN cl' = [cl EXCEPT !.retry = FALSE] /\ UNCHANGED wire
         ELSE Send(None, IF cl.amb THEN "acquire" ELSE "release", cl.lease, cl)
    /\ UNCHANGED <<file, bot, disc, lis, dst, br, issued, counts>>

(* _retry_pending_release: one turn of its loop.  An acquire of unknown
   outcome is repeated, to learn the lease, and released. *)
Retry ==
    /\ Unlocked /\ cl.retry
    /\ IF Tokens # {} \/ (~cl.amb /\ cl.lease = 0)
         THEN cl' = [cl EXCEPT !.retry = FALSE] /\ UNCHANGED wire
         ELSE Send(None, IF cl.amb THEN "acquire" ELSE "release", cl.lease, cl)
    /\ UNCHANGED <<file, bot, disc, lis, dst, br, issued, counts>>

RetryAcquired ==
    LET held == [cl EXCEPT !.lease = cl.call.lease, !.amb = FALSE] IN
    /\ cl.call.by = None /\ cl.call.act = "acquire" /\ ~Waiting
    /\ IF cl.call.ans = "ok" THEN Send(None, "release", held.lease, held)
       ELSE cl' = [cl EXCEPT !.call = NoCall] /\ UNCHANGED wire
    /\ UNCHANGED <<file, bot, disc, lis, dst, br, issued, counts>>

Client == \/ \E l \in Listeners : Acquired(l) \/ ReleaseToken(l)
          \/ Released \/ Retry \/ RetryAcquired

----------------------------------------------------------------------------
(* Listeners (voice_support_composition_runtime.py, evelyn_voice/client.py),
   heartbeat and life of the Discord process. *)

Move(l, from, to) ==
    /\ lis[l] = from
    /\ lis' = [lis EXCEPT ![l] = to]
    /\ UNCHANGED <<file, bot, wire, disc, cl, dst, br, issued, counts>>

(* listen; a listener that is not bound gives its token back.  That someone
   has listened is remembered only for heartbeats that may still be late. *)
Listen(l) ==
    /\ lis[l] = "leased"
    /\ lis' = [lis EXCEPT ![l] = "on"]
    /\ disc' = [disc EXCEPT !.listened = counts.late < MaxLate]
    /\ UNCHANGED <<file, bot, wire, cl, dst, br, issued, counts>>
NotBound(l) == Move(l, "leased", "stopped")

(* stop_listening: is_listening ends at once, the capture tasks later. *)
StopListening(l) == Move(l, "on", "draining")
CaptureStopped(l) == Move(l, "draining", "stopped")

(* write_once, in the event loop or in the thread of the heartbeat, which
   may be slow between its look at the listeners and its write. *)
Status(b) == [inst |-> disc.inst, listening |-> b]
Now == Status(\E l \in Listeners : lis[l] = "on")
Earlier == {Status(FALSE), Status(disc.listened)}

Heartbeat ==
    /\ disc.up
    /\ \/ dst' = Now /\ UNCHANGED counts
       \/ dst' \in Earlier \ {Now} /\ counts.late < MaxLate /\ Count("late")
    /\ dst' # dst
    /\ UNCHANGED <<file, bot, wire, discord, br, issued>>

DiscordStops ==
    /\ disc.up /\ Trouble
    /\ disc' = [disc EXCEPT !.up = FALSE, !.listened = FALSE]
    /\ lis' = AllIdle /\ cl' = NoClient
    /\ UNCHANGED <<file, bot, wire, dst, br, issued>>

(* on_ready writes the status before any listener asks for the lease. *)
DiscordStarts ==
    /\ ~disc.up
    /\ disc' = [up |-> TRUE, inst |-> disc.inst + 1, listened |-> FALSE]
    /\ dst' = [inst |-> disc'.inst, listening |-> FALSE]
    /\ UNCHANGED <<file, bot, wire, lis, cl, br, issued, counts>>

----------------------------------------------------------------------------
(* The microphone: commands of the control page, one at a time, and of the
   chat; reports of the bridge. *)

Publish(b, on, act) ==
    req' = [rev |-> 1 + IF b.rev > req.rev THEN b.rev ELSE req.rev,
            act |-> act,
            enabled |-> IF on THEN "on" ELSE "off", inst |-> b.inst]

Command == <<"command", counts.commands>>

(* acquire_and_publish *)
LocalOn(o) ==
    LET a == Acquire(mem, Local, o[Local].inst, o, issued + 1) IN
    /\ ~failed /\ wait = 0 /\ counts.commands < MaxCommands
    /\ o[Local].inst # 0 /\ o[Local].st # "unknown"
    /\ a # Refused
    /\ \E out \in Outcomes(a) :
          /\ Commit(a, out)
          /\ counts' = [counts EXCEPT !.commands = @ + 1,
                                      !.troubles = @ + Faulted(a, out)]
          /\ IF Result(a, out) # 0
               THEN Publish(bst, TRUE, Command) /\ wait' = req'.rev
             ELSE UNCHANGED <<req, wait>>
    /\ UNCHANGED <<claims, bst, wire, discord, dst, br>>

(* OFF of the control page, whose handler waits for the bridge, or of the
   chat, which does not. *)
LocalOff(waits) ==
    /\ wait = 0 \/ ~waits
    /\ counts.commands < MaxCommands /\ Count("commands")
    /\ Publish(bst, FALSE, Command)
    /\ wait' = IF waits THEN req'.rev ELSE wait
    /\ UNCHANGED <<file, mem, failed, claims, bst, wire, discord, dst, br,
                   issued>>

(* release_if_inactive for the local lease, by whoever saw the stop. *)
ReleaseLocal(o) ==
    LET a == Guarded(ReleaseIfInactive(mem, Local, o[Local].inst, o)) IN
    \E out \in Outcomes(a) :
       /\ Commit(a, out)
       /\ counts' = [counts EXCEPT !.troubles = @ + Faulted(a, out)]

(* _local_bridge_mic_control_observation: the bridge has applied this OFF;
   _failed_local_mic_enable_is_physically_stopped: it failed this ON. *)
OffApplied(b, r) ==
    /\ r.enabled = "off" /\ b.act = r.act /\ b.inst = r.inst
    /\ b.st = "applied" /\ ~b.want /\ b.mic = "off"
EnableFailed(b, r) ==
    /\ b.act = r.act /\ b.inst = r.inst
    /\ b.st = "failed" /\ b.want /\ b.mic = "off"

(* The OFF handler sees the acknowledgement and gives the lease back. *)
FinishOff(o) ==
    /\ wait # 0 /\ wait = req.rev /\ OffApplied(bst, req)
    /\ wait' = 0
    /\ ReleaseLocal(o)
    /\ UNCHANGED <<claims, bst, req, wire, discord, dst, br>>

(* The wait ends: acknowledged, superseded, or after its timeout. *)
HandlerEnds ==
    /\ wait # 0 /\ wait' = 0
    /\ UNCHANGED <<file, mem, failed, claims, bst, req, wire, discord, dst, br,
                   issued, counts>>

(* The ON handler sees that its command failed (_terminalize_failed_...). *)
FinishFailedOn(o) ==
    /\ wait # 0 /\ wait = req.rev /\ req.enabled = "on" /\ EnableFailed(bst, req)
    /\ o[Local].st = "inactive"
    /\ req' = [req EXCEPT !.enabled = "off"] /\ wait' = 0
    /\ ReleaseLocal(o)
    /\ UNCHANGED <<claims, bst, wire, discord, dst, br>>

(* _accept_local_bridge_status, and the command in its response, which the
   bridge may not hear. *)
Hear ==
    LET known == IF br.queue = <<>> THEN br.rev ELSE Last(br.queue).rev IN
    \/ br' = br
    \/ /\ req'.enabled # "unset" /\ req'.inst = br.inst /\ req'.rev > known
       /\ br' = [br EXCEPT !.queue =
                    Append(@, [rev |-> req'.rev, act |-> req'.act,
                               on |-> req'.enabled = "on"])]

Report ==
    LET b == [f \in DOMAIN NoReport |-> br[f]]
        stopped == /\ req.enabled = "off" /\ mem.by.src = Local
                   /\ OffApplied(b, req) \/ EnableFailed(b, req) IN
    /\ bst' = b
    /\ IF stopped THEN \E d \in DiscordSeen : ReleaseLocal(Both(LocalFresh(b), d))
       ELSE UNCHANGED <<mem, file, failed, issued, counts>>
    /\ IF failed' /\ ~failed
         THEN Publish(b, FALSE, <<"persist", counts.troubles>>)
         ELSE UNCHANGED req
    /\ Hear
    /\ UNCHANGED <<claims, wait, wire, discord, dst>>

----------------------------------------------------------------------------
(* The bridge (local_io_bridge.py). *)

BridgeStep == UNCHANGED <<file, bot, wire, discord, dst, issued>>

(* _apply_mic_control_request: capture starts before the command counts as
   applied; a failure stops it again.  When that stop fails as well the bridge
   is stuck: still capturing, it does nothing more but exit. *)
StartCapture ==
    /\ br.queue # <<>> /\ Head(br.queue).on
    /\ br.st \notin {"applying", "stuck"}
    /\ br' = [br EXCEPT !.mic = "on", !.st = "applying", !.want = TRUE]
    /\ UNCHANGED counts /\ BridgeStep

Applied(st) ==
    LET on == Head(br.queue).on IN
    br' = [br EXCEPT !.st = st, !.rev = Head(br.queue).rev,
                     !.act = Head(br.queue).act, !.queue = Tail(@),
                     !.want = on,
                     !.mic = IF st = "stuck" \/ (st = "failed" /\ ~on) THEN @
                             ELSE IF on /\ st = "applied" THEN "on"
                             ELSE "off"]

FinishCommand(st) ==
    /\ br.queue # <<>> /\ br.st # "stuck"
    /\ Head(br.queue).on => br.st = "applying"
    /\ st = "stuck" => Head(br.queue).on
    /\ IF st = "applied" THEN UNCHANGED counts ELSE Trouble
    /\ Applied(st)
    /\ BridgeStep

(* _enforce_voice_capture_watchdog: consent is gone. *)
WatchdogStops(st) ==
    /\ br.mic = "on" /\ br.st \notin {"applying", "stuck"} /\ Trouble
    /\ br' = [br EXCEPT !.mic = IF st = "stuck" THEN "on" ELSE "off",
                        !.st = st, !.want = FALSE]
    /\ BridgeStep

(* It dies, or takes its scheduled exit, and is started again. *)
BridgeRestarts ==
    /\ IF br.st = "stuck" THEN UNCHANGED counts ELSE Trouble
    /\ br' = NewBridge(br.inst + 1)
    /\ BridgeStep

----------------------------------------------------------------------------
(* Retirement of a stopped Discord process's lease (control_page_server.py),
   and restart of the Bot API. *)

PrepareRetirement ==
    /\ ~failed /\ mem.phase = "owned" /\ mem.by.src = Discord
    /\ Cardinality(claims) < MaxClaims
    /\ claims' = claims \cup {[by |-> mem.by, stopped |-> FALSE]}
    /\ UNCHANGED <<file, mem, failed, bst, req, wait, wire, discord, dst, br,
                   issued, counts>>

(* The host attests that Discord does not run. *)
AttestStopped(c) ==
    /\ ~disc.up /\ ~c.stopped
    /\ claims' = (claims \ {c}) \cup {[c EXCEPT !.stopped = TRUE]}
    /\ UNCHANGED <<file, mem, failed, bst, req, wait, wire, discord, dst, br,
                   issued, counts>>

CompleteRetirement(c) ==
    LET a == Guarded(Release(mem, c.by)) IN
    /\ c.stopped
    /\ claims' = claims \ {c}
    /\ \E out \in Outcomes(a) :
          /\ Commit(a, out)
          /\ counts' = [counts EXCEPT !.troubles = @ + Faulted(a, out)]
    /\ UNCHANGED <<bst, req, wait, wire, discord, dst, br>>

ExpireClaim(c) ==
    /\ claims' = claims \ {c}
    /\ UNCHANGED <<file, mem, failed, bst, req, wait, wire, discord, dst, br,
                   issued, counts>>

(* _load, in a new process: reports, commands, claims and requests are gone. *)
BotRestarts(readable) ==
    /\ Trouble
    /\ mem' = IF readable THEN file ELSE SetBlocked(Bootstrap)
    /\ failed' = ~readable
    /\ claims' = {} /\ bst' = NoReport /\ req' = NoReq /\ wait' = 0
    /\ wire' = <<>>
    /\ cl' = IF Waiting THEN [cl EXCEPT !.call.ans = "error"] ELSE cl
    /\ UNCHANGED <<file, disc, lis, dst, br, issued>>

----------------------------------------------------------------------------
Next ==
    \/ ServeNext \/ Client \/ Cancel \/ (\E lost \in BOOLEAN : TimeOut(lost))
    \/ \E l \in Listeners : \/ AskAcquire(l) \/ Listen(l) \/ NotBound(l)
                            \/ StopListening(l) \/ CaptureStopped(l)
    \/ Heartbeat \/ DiscordStops \/ DiscordStarts
    \/ \E o \in InputObservations : LocalOn(o)
    \/ \E o \in PhysicalObservations : FinishOff(o) \/ FinishFailedOn(o)
    \/ (\E waits \in BOOLEAN : LocalOff(waits)) \/ HandlerEnds
    \/ Report \/ StartCapture \/ BridgeRestarts
    \/ \E st \in {"applied", "failed", "stuck"} : FinishCommand(st)
    \/ \E st \in {"failed", "stuck"} : WatchdogStops(st)
    \/ PrepareRetirement
    \/ \E c \in claims : \/ AttestStopped(c) \/ CompleteRetirement(c)
                         \/ ExpireClaim(c)
    \/ \E readable \in BOOLEAN : BotRestarts(readable)

Fairness == WF_vars(ServeNext) /\ WF_vars(Client)
Spec == Init /\ [][Next]_vars /\ Fairness

----------------------------------------------------------------------------
(* Each variable has values of its type; a lease has a holder exactly when
   it is owned. *)
Holders == [src : Sources, inst : Nat \ {0}, lease : 1 .. issued]
Leases ==
    [phase : {"owned"}, by : Holders, last : Holders \cup {NoHolder}] \cup
    [phase : {"bootstrap", "unowned", "blocked"}, by : {NoHolder},
     last : Holders \cup {NoHolder}]

TypeOK ==
    /\ file \in Leases /\ mem \in Leases /\ failed \in BOOLEAN
    /\ \A c \in claims : c.by \in Holders /\ c.by.src = Discord
    /\ Cardinality(claims) =< MaxClaims
    /\ wait \in Nat /\ wait =< req.rev
    /\ \A i \in DOMAIN wire : wire[i].act \in {"acquire", "release"}
    /\ lis \in [Listeners -> {"idle", "asking", "leased", "on", "draining",
                              "stopped"}]
    /\ cl.lease \in 0 .. issued
    /\ cl.call.ans \in {"none", "wait", "ok", "refused", "error"}
    /\ dst.inst \in 1 .. disc.inst /\ bst.inst \in 0 .. br.inst
    /\ \A i, j \in DOMAIN br.queue : i < j => br.queue[i].rev < br.queue[j].rev

DiscordCaptures == \E l \in Listeners : lis[l] \in {"on", "draining"}
LocalCaptures == br.mic = "on"

(* Whoever captures the user's voice holds the lease, in the file too, so
   that a restart of the Bot API cannot give it to the other: Discord under
   the number its client will give back, the bridge under its instance.
   Every retry, late answer, retirement and release must leave a running
   capture its lease.  Holds while no heartbeat is late. *)
CaptureIsLeased ==
    /\ DiscordCaptures => file.by = Holder(Discord, disc.inst, cl.lease)
    /\ LocalCaptures => file.by.src = Local /\ file.by.inst = br.inst

(* A lease the client holds for no listener is given back, although requests
   are lost, given up or answered late: the retry task does not stop before. *)
LeaseReturned ==
    (disc.up /\ cl.lease # 0 /\ Tokens = {})
    ~> (mem.by.lease # cl.lease \/ Tokens # {} \/ failed \/ ~disc.up)

(* docs/KOREAN_ASR_TARGET_ARCHITECTURE.md:29: "permits either local_mic or
   discord_voice, never both". *)
NeverBoth == ~(DiscordCaptures /\ LocalCaptures)

============================================================================
