----------------------- MODULE VoiceInputLeaseProofs -----------------------
(***************************************************************************)
(* Proofs about VoiceInputLease, for every set of listeners and every      *)
(* bound.  Two layers:                                                     *)
(*                                                                         *)
(* SInv, whatever happens: types; no report, command or status file is of  *)
(* an instance that is still to come; a request that is waited for is the  *)
(* last one on the wire; and a command is in one place at a time, so that  *)
(* a bridge that reports the last command has nothing left in its queue.   *)
(*                                                                         *)
(* Kept and Seen, as long as no heartbeat of Discord is late: a token, an  *)
(* acquisition granted, a microphone that is on or is going to be, has its *)
(* lease in the file, and what the Bot API can observe agrees with it.     *)
(* Then no operation takes a lease away that something needs (Loose).      *)
(* A late heartbeat may show Discord as listening when it no longer does;  *)
(* the lease of a microphone that is on is then blocked, and Seen is lost. *)
(***************************************************************************)
EXTENDS VoiceInputLease, FiniteSetTheorems, TLAPS

\* Leases and holders up to number n, and what can be observed.
HoldersTo(n) == [src : Sources, inst : Nat \ {0}, lease : 1 .. n]
LeasesTo(n) ==
    [phase : {"owned"}, by : HoldersTo(n), last : HoldersTo(n) \cup {NoHolder}] \cup
    [phase : {"bootstrap", "unowned", "blocked"}, by : {NoHolder},
     last : HoldersTo(n) \cup {NoHolder}]
Observations == [Sources -> [st : {"active", "inactive", "unknown"}, inst : Nat]]

\* The types TypeOK leaves out.
Acts == {NoAct} \cup ({"command", "persist"} \X Nat)
Reports == [inst : Nat, mic : {"on", "off"}, rev : Nat, act : Acts,
            st : {"idle", "applying", "applied", "failed", "stuck"}, want : BOOLEAN]
Commands == [rev : Nat, act : Acts, enabled : {"unset", "on", "off"}, inst : Nat]
Requests == [act : {"acquire", "release"}, inst : Nat \ {0}, lease : Nat]
Orders == [rev : Nat, act : Acts, on : BOOLEAN]
Bridges == [inst : Nat \ {0}, mic : {"on", "off"}, rev : Nat, act : Acts,
            st : {"idle", "applying", "applied", "failed", "stuck"}, want : BOOLEAN,
            queue : Seq(Orders)]
Claims == [by : Holders, stopped : BOOLEAN]
Calls == [by : Listeners \cup {None}, act : {"none", "acquire", "release"},
          ans : {"none", "wait", "ok", "refused", "error"}, lease : 0 .. issued,
          cancelled : BOOLEAN]
Clients == [lease : 0 .. issued, amb : BOOLEAN, retry : BOOLEAN, call : Calls]

\* Memory and file agree until a write fails; no lease is of a later Discord.
ManagerOK ==
    /\ file \in Leases /\ mem \in Leases /\ failed \in BOOLEAN /\ issued \in Nat
    /\ ~failed => mem = file
    /\ \A p \in {file, mem} : p.by.src = Discord => p.by.inst <= disc.inst

\* A claim that was attested is of an instance that does not run any more.
ClaimsOK ==
    /\ claims \subseteq Claims
    /\ IsFiniteSet(claims) /\ Cardinality(claims) <= MaxClaims
    /\ \A c \in claims : /\ c.by.src = Discord /\ c.by.inst <= disc.inst
                         /\ c.stopped /\ disc.up => c.by.inst < disc.inst

\* Reports and commands are of instances of the bridge that have been.
ApiOK ==
    /\ bst \in Reports /\ (bst.inst = 0 => bst = NoReport)
    /\ req \in Commands /\ (req.enabled # "unset" => req.act # NoAct)
    /\ wait \in Nat /\ wait <= req.rev
    /\ req.inst <= bst.inst /\ bst.inst <= br.inst

\* The status file is of the instance that runs; requests are of no later one.
DiscordOK ==
    /\ disc \in [up : BOOLEAN, inst : Nat \ {0}, listened : BOOLEAN]
    /\ dst \in [inst : Nat \ {0}, listening : BOOLEAN]
    /\ dst.inst <= disc.inst /\ (disc.up => dst.inst = disc.inst)
    /\ wire \in Seq(Requests) /\ \A i \in DOMAIN wire : wire[i].inst <= disc.inst

\* One request at a time: a listener waits for its own acquisition, everything
\* else is asked only while there is no token; the request waited for is the last.
ClientOK ==
    /\ lis \in [Listeners -> {"idle", "asking", "leased", "on", "draining", "stopped"}]
    /\ cl \in Clients
    /\ ~disc.up => lis = AllIdle /\ cl = NoClient
    /\ cl.call.act = "none" <=> cl.call = NoCall
    /\ cl.call = NoCall \/ cl.call.ans # "none"
    /\ \A l \in Listeners : lis[l] = "asking" <=> cl.call.act = "acquire" /\ cl.call.by = l
    /\ cl.call # NoCall /\ ~(cl.call.act = "acquire" /\ cl.call.by # None) => Tokens = {}
    /\ Waiting => wire # <<>> /\ Last(wire).act = cl.call.act /\ Last(wire).inst = disc.inst

\* The bridge hears commands in the order they were published.
BridgeOK ==
    /\ br \in Bridges
    /\ \A i, j \in DOMAIN br.queue : i < j => br.queue[i].rev < br.queue[j].rev

CountsOK == counts \in [listens : Nat, commands : Nat, late : Nat, troubles : Nat]

\* An act that some command has had.
UsedBy(a, c) == \/ a = NoAct
                \/ a[1] = "command" /\ a[2] < c.commands
                \/ a[1] = "persist" /\ a[2] < c.troubles
Used(a) == UsedBy(a, counts)

\* The last command is nowhere, or last in the queue of the bridge, or applied
\* with nothing behind it; a report of it by the bridge that runs is still true.
Orderly ==
    /\ Used(bst.act) /\ Used(br.act) /\ Used(req.act)
    /\ \A i \in DOMAIN br.queue : Used(br.queue[i].act) /\ br.queue[i].act # NoAct
    /\ req.act # NoAct =>
         /\ br.act = req.act => br.queue = <<>> /\ br.rev >= req.rev
         /\ \A i \in DOMAIN br.queue :
               br.queue[i].act = req.act => i = Len(br.queue) /\ br.queue[i].rev >= req.rev
         /\ bst.inst = br.inst /\ bst.act = req.act =>
               br.queue = <<>> /\ br.act = bst.act /\ (br.mic = "on" => bst.mic = "on")

SInv == /\ ManagerOK /\ ClaimsOK /\ ApiOK /\ DiscordOK /\ ClientOK /\ BridgeOK /\ CountsOK
        /\ Orderly

\* What Discord holds is in the file: an acquisition that was granted, and the
\* tokens; no release is on the wire while there is one.
Granted == cl.call.act = "acquire" /\ cl.call.ans = "ok"
Kept ==
    /\ Granted => wire = <<>> /\ file.by = Holder(Discord, disc.inst, cl.call.lease)
    /\ Tokens # {} => /\ file.by = Holder(Discord, disc.inst, cl.lease)
                      /\ \A i \in DOMAIN wire : wire[i].act = "acquire" /\ wire[i].inst = disc.inst

\* What the bridge captures, is told to capture, or reports, is leased to it, and
\* while it is Discord does not show that it listens.
LocalHas(i) == file.by.src = Local /\ file.by.inst = i
BridgeOn == br.mic = "on" \/ \E i \in DOMAIN br.queue : br.queue[i].on
Seen ==
    /\ file.phase # "blocked"
    /\ file.by.src = Local =>
          ~dst.listening /\ file.by.inst <= br.inst /\ (bst.inst = 0 \/ file.by.inst <= bst.inst)
    /\ bst.mic = "on" => LocalHas(bst.inst)
    /\ req.enabled = "on" => LocalHas(req.inst) \/ bst.inst > req.inst
    /\ BridgeOn => LocalHas(br.inst)

VInv == SInv /\ (counts.late = 0 => Kept /\ Seen)

-----------------------------------------------------------------------------
(* The manager's operations *)

\* The sets of leases and holders, with the number issued as a parameter.
LEMMA LeasesAre == Leases = LeasesTo(issued) /\ Holders = HoldersTo(issued)
BY DEF Leases, LeasesTo, Holders, HoldersTo

\* Sets of leases grow with the numbers issued.
LEMMA LeasesGrow ==
    ASSUME NEW m \in Nat, NEW n \in Nat, m <= n
    PROVE  HoldersTo(m) \subseteq HoldersTo(n) /\ LeasesTo(m) \subseteq LeasesTo(n)
<1>1. 1 .. m \subseteq 1 .. n
  OBVIOUS
<1>2. HoldersTo(m) \subseteq HoldersTo(n)
  BY <1>1 DEF HoldersTo
<1> QED BY <1>2 DEF LeasesTo

\* A lease is owned exactly when it has a holder.
LEMMA LeaseShape ==
    ASSUME NEW m \in Nat, NEW p \in LeasesTo(m)
    PROVE  /\ p.phase \in {"owned", "bootstrap", "unowned", "blocked"}
           /\ p.phase = "owned" => p.by \in HoldersTo(m) /\ p.by.src \in Sources
                                   /\ p.by.inst \in Nat \ {0} /\ p.by.lease \in 1 .. m
           /\ p.phase # "owned" => p.by = NoHolder
           /\ p.by.src \in Sources <=> p.phase = "owned"
           /\ p.last \in HoldersTo(m) \cup {NoHolder}
BY DEF LeasesTo, HoldersTo, NoHolder, Sources

\* What the three ways to set a lease give.
LEMMA UnownedTypes ==
    ASSUME NEW m \in Nat, NEW p \in LeasesTo(m)
    PROVE  /\ SetUnowned(p) \in LeasesTo(m) /\ SetUnowned(p).phase = "unowned"
           /\ SetBlocked(p) \in LeasesTo(m) /\ SetBlocked(p).phase = "blocked"
           /\ SetUnowned(p).by = NoHolder /\ SetBlocked(p).by = NoHolder
<1>1. p.last \in HoldersTo(m) \cup {NoHolder} /\ (p.phase = "owned" => p.by \in HoldersTo(m))
  BY LeaseShape
<1> QED BY <1>1 DEF SetUnowned, SetBlocked, Lease, LeasesTo

\* A lease that is set to be owned has the number given to it.
LEMMA OwnedTypes ==
    ASSUME NEW m \in Nat, NEW p \in LeasesTo(m), NEW s \in Sources, NEW i \in Nat \ {0}
    PROVE  /\ SetOwned(p, s, i, m + 1) \in LeasesTo(m + 1)
           /\ SetOwned(p, s, i, m + 1).phase = "owned"
           /\ SetOwned(p, s, i, m + 1).by = Holder(s, i, m + 1)
           /\ SetOwned(p, s, i, m + 1).by.lease = m + 1
           /\ SetOwned(p, s, i, m + 1).by.src = s /\ SetOwned(p, s, i, m + 1).by.inst = i
<1>1. p.last \in HoldersTo(m) \cup {NoHolder}
  BY LeaseShape
<1>2. HoldersTo(m) \subseteq HoldersTo(m + 1) /\ m + 1 \in Nat
  BY LeasesGrow
<1>3. Holder(s, i, m + 1) \in HoldersTo(m + 1)
  BY <1>2 DEF Holder, HoldersTo
<1>4. SetOwned(p, s, i, m + 1) \in LeasesTo(m + 1)
  BY <1>1, <1>2, <1>3 DEF SetOwned, Lease, LeasesTo
<1> QED BY <1>4 DEF SetOwned, Lease, Holder

\* After a prefix of an operation's commits, the lease is one of them.
LEMMA AfterPrefix ==
    ASSUME NEW p, NEW T, NEW c \in Seq(T), NEW k \in 0 .. Len(c)
    PROVE  /\ k = 0 => After(p, SubSeq(c, 1, k)) = p
           /\ k # 0 => After(p, SubSeq(c, 1, k)) = c[k] /\ k \in DOMAIN c
<1>1. k = 0 => SubSeq(c, 1, k) = <<>>
  OBVIOUS
<1>2. k # 0 => /\ SubSeq(c, 1, k) # <<>> /\ Len(SubSeq(c, 1, k)) = k
               /\ SubSeq(c, 1, k)[k] = c[k]
  OBVIOUS
<1> QED BY <1>1, <1>2 DEF After, Last

\* One commit after another.
LEMMA AfterAppend ==
    ASSUME NEW p, NEW T, NEW c \in Seq(T), NEW d \in Seq(T)
    PROVE  After(p, c \o d) = After(After(p, c), d)
<1>1. CASE d = <<>>
  BY <1>1 DEF After
<1>2. CASE d # <<>>
  <2>1. c \o d # <<>> /\ Len(c \o d) = Len(c) + Len(d) /\ Len(d) > 0
    BY <1>2
  <2>2. (c \o d)[Len(c) + Len(d)] = d[Len(d)]
    BY <2>1
  <2> QED BY <1>2, <2>1, <2>2 DEF After, Last
<1> QED BY <1>1, <1>2

\* What an observation makes of the lease.
LEMMA ObserveShape ==
    ASSUME NEW m \in Nat, NEW p \in LeasesTo(m), NEW o \in Observations
    PROVE  \/ ObserveLocked(p, o, m + 1) = <<>>
           \/ /\ ObserveLocked(p, o, m + 1) = <<SetBlocked(p)>>
              /\ \/ Cardinality(Active(o)) > 1
                 \/ p.phase = "owned" /\ Active(o) \cap Peers(p.by.src) # {}
                 \/ \E s \in Sources : o[s].st = "active" /\ o[s].inst = 0
           \/ /\ ObserveLocked(p, o, m + 1) = <<SetUnowned(p)>>
              /\ p.phase = "owned" => Replaced(p, o) /\ Quiet(o, Peers(p.by.src))
           \/ \E s \in Sources :
                 /\ ObserveLocked(p, o, m + 1) = <<SetOwned(p, s, o[s].inst, m + 1)>>
                 /\ o[s].st = "active" /\ o[s].inst # 0
                 /\ p.phase \in {"bootstrap", "unowned"}
<1> DEFINE s == CHOOSE x \in Active(o) : TRUE
<1>1. Active(o) # {} => s \in Sources /\ o[s].st = "active"
  BY DEF Active
<1>2. p.phase \in {"owned", "bootstrap", "unowned", "blocked"}
  BY LeaseShape
<1>3. CASE Cardinality(Active(o)) > 1
  BY <1>3 DEF ObserveLocked
<1>4. CASE ~(Cardinality(Active(o)) > 1) /\ p.phase = "blocked"
  BY <1>4 DEF ObserveLocked
<1>5. CASE ~(Cardinality(Active(o)) > 1) /\ p.phase = "owned"
  BY <1>5 DEF ObserveLocked
<1>6. CASE ~(Cardinality(Active(o)) > 1) /\ p.phase \in {"bootstrap", "unowned"}
  <2>1. CASE Active(o) # {} /\ ~\E x \in Sources : o[x].st = "unknown"
    <3>1. ObserveLocked(p, o, m + 1) = IF o[s].inst # 0 THEN <<SetOwned(p, s, o[s].inst, m + 1)>>
                                       ELSE <<SetBlocked(p)>>
      BY <1>6, <2>1 DEF ObserveLocked
    <3> HIDE DEF s
    <3> QED BY <1>1, <1>6, <2>1, <3>1
  <2>2. CASE Active(o) = {} \/ \E x \in Sources : o[x].st = "unknown"
    BY <1>6, <2>2 DEF ObserveLocked
  <2> QED BY <2>1, <2>2
<1> QED BY <1>2, <1>3, <1>4, <1>5, <1>6

\* So it makes at most one lease.
LEMMA ObserveTypes ==
    ASSUME NEW m \in Nat, NEW p \in LeasesTo(m), NEW o \in Observations
    PROVE  \/ ObserveLocked(p, o, m + 1) = <<>>
           \/ \E x \in LeasesTo(m + 1) :
                 /\ ObserveLocked(p, o, m + 1) = <<x>>
                 /\ x \in LeasesTo(m) \/ x.by.lease = m + 1
                 /\ x.by.src = Discord => x.by.inst = o[Discord].inst
<1>1. LeasesTo(m) \subseteq LeasesTo(m + 1) /\ Discord # "none"
  BY LeasesGrow DEF Discord
<1>2. CASE ObserveLocked(p, o, m + 1) \in {<<SetBlocked(p)>>, <<SetUnowned(p)>>}
  <2>1. /\ SetUnowned(p) \in LeasesTo(m) /\ SetBlocked(p) \in LeasesTo(m)
        /\ SetUnowned(p).by.src # Discord /\ SetBlocked(p).by.src # Discord
    BY <1>1, UnownedTypes DEF NoHolder
  <2> QED BY <1>1, <1>2, <2>1
<1>3. ASSUME NEW s \in Sources, o[s].inst # 0,
             ObserveLocked(p, o, m + 1) = <<SetOwned(p, s, o[s].inst, m + 1)>>
      PROVE  \E x \in LeasesTo(m + 1) :
                 /\ ObserveLocked(p, o, m + 1) = <<x>>
                 /\ x \in LeasesTo(m) \/ x.by.lease = m + 1
                 /\ x.by.src = Discord => x.by.inst = o[Discord].inst
  <2>1. o[s].inst \in Nat \ {0}
    BY <1>3 DEF Observations
  <2>2. /\ SetOwned(p, s, o[s].inst, m + 1) \in LeasesTo(m + 1)
        /\ SetOwned(p, s, o[s].inst, m + 1).by.lease = m + 1
        /\ SetOwned(p, s, o[s].inst, m + 1).by.src = s
        /\ SetOwned(p, s, o[s].inst, m + 1).by.inst = o[s].inst
    BY <2>1, OwnedTypes
  <2> QED BY <1>3, <2>2
<1> QED BY <1>2, <1>3, ObserveShape

\* The leases an acquisition commits, and what its answer says of the last.
LEMMA AcquireTypes ==
    ASSUME NEW m \in Nat, NEW p \in LeasesTo(m), NEW s \in Sources, NEW i \in Nat \ {0},
           NEW o \in Observations
    PROVE  /\ Acquire(p, s, i, o, m + 1).commits \in Seq(LeasesTo(m + 1))
           /\ \A j \in DOMAIN Acquire(p, s, i, o, m + 1).commits :
                 LET x == Acquire(p, s, i, o, m + 1).commits[j] IN
                 /\ x \in LeasesTo(m) \/ x.by.lease = m + 1
                 /\ x.by.src = Discord => \/ s = Discord /\ x.by.inst = i
                                          \/ x.by.inst = o[Discord].inst
           /\ Acquire(p, s, i, o, m + 1).lease \in Nat
           /\ Acquire(p, s, i, o, m + 1).lease # 0 =>
                 LET q == After(p, Acquire(p, s, i, o, m + 1).commits) IN
                 /\ q.phase = "owned"
                 /\ q.by = Holder(s, i, Acquire(p, s, i, o, m + 1).lease)
<1> DEFINE peers == Peers(p.by.src)
           pre == IF Replaced(p, o) /\ Quiet(o, peers) THEN <<SetUnowned(p)>> ELSE <<>>
           q == After(p, pre)
           seen == ObserveLocked(q, o, m + 1)
           r == After(q, seen)
           T == LeasesTo(m + 1)
           Good(x) == /\ x \in T
                      /\ x \in LeasesTo(m) \/ x.by.lease = m + 1
                      /\ x.by.src = Discord => \/ s = Discord /\ x.by.inst = i
                                               \/ x.by.inst = o[Discord].inst
           own == SetOwned(r, s, i, m + 1)
<1>1. /\ SetUnowned(p) \in LeasesTo(m) /\ SetUnowned(p).by = NoHolder
      /\ LeasesTo(m) \subseteq T /\ NoHolder.src # Discord
  BY UnownedTypes, LeasesGrow DEF NoHolder, Discord
<1>2. \/ pre = <<>> /\ q = p
      \/ pre = <<SetUnowned(p)>> /\ q = SetUnowned(p)
  BY DEF After, Last
<1>3. q \in LeasesTo(m) /\ pre \in Seq(T) /\ \A j \in DOMAIN pre : Good(pre[j])
  <2> HIDE DEF q, pre
  <2>1. CASE pre = <<>> /\ q = p
    BY <2>1
  <2>2. CASE pre = <<SetUnowned(p)>> /\ q = SetUnowned(p)
    <3>1. Good(SetUnowned(p))
      BY <1>1
    <3> HIDE DEF Good
    <3> QED BY <1>1, <2>2, <3>1
  <2> QED BY <1>2, <2>1, <2>2
<1>4. \/ seen = <<>> /\ r = q
      \/ \E x : seen = <<x>> /\ r = x /\ Good(x)
  <2> HIDE DEF q
  <2>1. \/ seen = <<>>
        \/ \E x \in T : seen = <<x>> /\ (x \in LeasesTo(m) \/ x.by.lease = m + 1)
                        /\ (x.by.src = Discord => x.by.inst = o[Discord].inst)
    BY <1>3, ObserveTypes
  <2> HIDE DEF seen
  <2> QED BY <2>1 DEF After, Last
<1> HIDE DEF pre, q, seen, r
<1>5. r \in T /\ seen \in Seq(T) /\ \A j \in DOMAIN seen : Good(seen[j])
  <2>1. CASE seen = <<>> /\ r = q
    BY <1>1, <1>3, <2>1
  <2>2. ASSUME NEW x, seen = <<x>>, r = x, Good(x)
        PROVE  r \in T /\ seen \in Seq(T) /\ \A j \in DOMAIN seen : Good(seen[j])
    <3>1. x \in T
      BY <2>2
    <3> HIDE DEF Good
    <3> QED BY <2>2, <3>1
  <2> QED BY <1>4, <2>1, <2>2
<1>6. r.phase # "owned" => r \in LeasesTo(m)
  <2>1. ASSUME r \in T, r.phase # "owned" PROVE r \in LeasesTo(m) \/ r.by.lease # m + 1
    BY <2>1, LeaseShape DEF NoHolder
  <2> QED BY <1>3, <1>4, <1>5, <2>1
<1> USE DEF Answer
<1>7. r.phase = "unowned" => own \in T /\ own.phase = "owned" /\ own.by = Holder(s, i, m + 1) /\ Good(own)
  BY <1>6, OwnedTypes
<1>8. pre \o seen \in Seq(T) /\ \A j \in DOMAIN (pre \o seen) : Good((pre \o seen)[j])
  <2>1. ASSUME NEW j \in DOMAIN (pre \o seen) PROVE Good((pre \o seen)[j])
    <3>1. pre \in Seq(T) /\ seen \in Seq(T)
      BY <1>3, <1>5
    <3>2. \/ j \in DOMAIN pre /\ (pre \o seen)[j] = pre[j]
          \/ j - Len(pre) \in DOMAIN seen /\ (pre \o seen)[j] = seen[j - Len(pre)]
      BY <3>1
    <3> QED BY <1>3, <1>5, <3>2
  <2> QED BY <1>3, <1>5, <2>1
<1>9. After(p, pre \o seen) = r
  BY <1>3, <1>5, AfterAppend DEF q, r
<1>10. r.phase = "unowned" =>
          /\ (pre \o seen) \o <<own>> \in Seq(T)
          /\ \A j \in DOMAIN ((pre \o seen) \o <<own>>) : Good(((pre \o seen) \o <<own>>)[j])
          /\ After(p, (pre \o seen) \o <<own>>) = own
  <2> DEFINE c == pre \o seen
  <2> HIDE DEF c, own, Good
  <2>1. SUFFICES ASSUME r.phase = "unowned"
                 PROVE  /\ c \o <<own>> \in Seq(T)
                        /\ \A j \in DOMAIN (c \o <<own>>) : Good((c \o <<own>>)[j])
                        /\ After(p, c \o <<own>>) = own
    BY DEF c
  <2>2. c \in Seq(T) /\ own \in T /\ <<own>> \in Seq(T) /\ Good(own)
    BY <1>7, <1>8, <2>1 DEF c
  <2>3. \A j \in DOMAIN c : Good(c[j])
    BY <1>8 DEF c
  <2>4. ASSUME NEW j \in DOMAIN (c \o <<own>>) PROVE Good((c \o <<own>>)[j])
    <3>1. \/ j \in DOMAIN c /\ (c \o <<own>>)[j] = c[j]
          \/ (c \o <<own>>)[j] = own
      BY <2>2
    <3> QED BY <2>2, <2>3, <3>1
  <2>5. After(p, c \o <<own>>) = own
    BY <2>2 DEF After, Last
  <2> QED BY <2>2, <2>4, <2>5
<1> DEFINE a == Acquire(p, s, i, o, m + 1)
<1> HIDE DEF own, Good
<1>11. \/ a = Answer(<<>>, 0)
       \/ a = Answer(<<SetBlocked(q)>>, 0)
       \/ q.phase = "owned" /\ q.by.src = s /\ q.by.inst = i /\ a = Answer(<<>>, q.by.lease)
       \/ a = Answer(pre \o seen, 0)
       \/ /\ r.phase = "owned" /\ r.by.src = s /\ r.by.inst = i
          /\ a = Answer(pre \o seen, r.by.lease)
       \/ r.phase = "unowned" /\ a = Answer((pre \o seen) \o <<own>>, m + 1)
  BY DEF Acquire, pre, q, seen, r, own
<1>12. /\ a.commits \in Seq(T) /\ \A j \in DOMAIN a.commits : Good(a.commits[j])
       /\ a.lease \in Nat
       /\ a.lease # 0 => /\ After(p, a.commits).phase = "owned"
                         /\ After(p, a.commits).by = Holder(s, i, a.lease)
  <2> HIDE DEF a
  <2>1. CASE a = Answer(<<>>, 0)
    BY <2>1
  <2>2. CASE a = Answer(<<SetBlocked(q)>>, 0)
    <3>1. SetBlocked(q) \in LeasesTo(m) /\ SetBlocked(q).by.src # Discord
      BY <1>1, <1>3, UnownedTypes
    <3>2. Good(SetBlocked(q)) /\ SetBlocked(q) \in T
      BY <1>1, <3>1 DEF Good
    <3> QED BY <2>2, <3>2
  <2>3. CASE q.phase = "owned" /\ q.by.src = s /\ q.by.inst = i /\ a = Answer(<<>>, q.by.lease)
    <3>1. q = p
      BY <1>2, <2>3, UnownedTypes
    <3>2. p.by \in HoldersTo(m)
      BY <2>3, <3>1, LeaseShape
    <3>3. p.by = Holder(s, i, p.by.lease) /\ p.by.lease \in Nat
      BY <2>3, <3>1, <3>2 DEF HoldersTo, Holder
    <3> QED BY <2>3, <3>1, <3>3 DEF After
  <2>4. CASE a = Answer(pre \o seen, 0)
    BY <1>8, <2>4
  <2>5. CASE r.phase = "owned" /\ r.by.src = s /\ r.by.inst = i /\ a = Answer(pre \o seen, r.by.lease)
    <3>1. r.by \in HoldersTo(m + 1) /\ m + 1 \in Nat
      BY <1>5, <2>5, LeaseShape
    <3>2. r.by = Holder(s, i, r.by.lease) /\ r.by.lease \in Nat
      BY <2>5, <3>1 DEF HoldersTo, Holder
    <3> QED BY <1>8, <1>9, <2>5, <3>2
  <2>6. CASE r.phase = "unowned" /\ a = Answer((pre \o seen) \o <<own>>, m + 1)
    <3> DEFINE e == (pre \o seen) \o <<own>>
    <3>1. /\ e \in Seq(T) /\ \A j \in DOMAIN e : Good(e[j])
          /\ After(p, e) = own
      BY <1>10, <2>6
    <3>2. a.commits = e /\ a.lease = m + 1
      BY <2>6
    <3>3. own.phase = "owned" /\ own.by = Holder(s, i, m + 1) /\ m + 1 \in Nat
      BY <1>7, <2>6
    <3> HIDE DEF e
    <3> QED BY <3>1, <3>2, <3>3
  <2> QED BY <1>11, <2>1, <2>2, <2>3, <2>4, <2>5, <2>6
<1> QED BY <1>12 DEF Good

\* A release commits at most the end of exactly this holder's lease.
LEMMA ReleaseTypes ==
    ASSUME NEW m \in Nat, NEW p \in LeasesTo(m), NEW h
    PROVE  /\ \/ Release(p, h).commits = <<>>
              \/ /\ Release(p, h).commits = <<SetUnowned(p)>>
                 /\ p.phase = "owned" /\ p.by = h
           /\ Release(p, h).lease \in 0 .. m
           /\ Release(p, h).lease # 0 => Release(p, h).lease = h.lease
<1>1. p.phase = "owned" => p.by \in HoldersTo(m) /\ p.by.lease \in 1 .. m
  BY LeaseShape
<1>2. p.last = NoHolder \/ p.last.lease \in 1 .. m
  BY LeaseShape DEF HoldersTo
<1>3. NoHolder.lease = 0
  BY DEF NoHolder
<1> QED BY <1>1, <1>2, <1>3 DEF Release, Answer

\* The end of an inactive source's lease; a peer that is active blocks it.
LEMMA InactiveTypes ==
    ASSUME NEW m \in Nat, NEW p \in LeasesTo(m), NEW s \in Sources, NEW i, NEW o
    PROVE  /\ \/ ReleaseIfInactive(p, s, i, o).commits = <<>>
              \/ /\ p.phase = "owned" /\ p.by.src = s
                 /\ \/ /\ ReleaseIfInactive(p, s, i, o).commits = <<SetBlocked(p)>>
                       /\ Active(o) \cap Peers(s) # {}
                    \/ /\ ReleaseIfInactive(p, s, i, o).commits = <<SetUnowned(p)>>
                       /\ o[s].inst = i /\ Quiet(o, Sources)
           /\ ReleaseIfInactive(p, s, i, o).lease \in 0 .. m
<1>1. p.phase = "owned" => p.by.lease \in 1 .. m
  BY LeaseShape
<1> QED BY <1>1 DEF ReleaseIfInactive, Answer

\* The operation a only commits leases of its type, none for a Discord process
\* that is still to come, and nothing once a write has failed.
Sound(a) ==
    /\ a.commits \in Seq(LeasesTo(issued + 1))
    /\ \A j \in DOMAIN a.commits :
          /\ a.commits[j] \in LeasesTo(issued) \/ a.commits[j].by.lease = issued + 1
          /\ a.commits[j].by.src = Discord => a.commits[j].by.inst <= disc.inst
    /\ failed => a.commits = <<>>

\* An operation whose commits are all right leaves the manager all right:
\* memory and file are moved to the same commits, unless a write fails.
LEMMA CommitTypes ==
    ASSUME ManagerOK, CountsOK, disc'.inst = disc.inst,
           NEW a, Sound(a), NEW out \in Outcomes(a), Commit(a, out)
    PROVE  /\ ManagerOK'
           /\ issued <= issued' /\ issued' \in Nat
           /\ file' = file \/ \E j \in DOMAIN a.commits : file' = a.commits[j]
           /\ Done(a, out) => failed' = failed /\ file' = After(file, a.commits)
           /\ ~Done(a, out) => failed' = TRUE /\ a.commits # <<>> /\ counts.troubles < MaxTroubles
           /\ a.commits = <<>> => UNCHANGED <<file, mem, failed, issued>> /\ Done(a, out)
           /\ Faulted(a, out) \in Nat
           /\ Faulted(a, out) = IF failed' /\ ~failed THEN 1 ELSE 0
<1> DEFINE c == a.commits  k == out[1]  w == IF out[2] THEN k + 1 ELSE k
<1>1. /\ file \in LeasesTo(issued) /\ mem \in LeasesTo(issued) /\ issued \in Nat
      /\ failed \in BOOLEAN
  BY LeasesAre DEF ManagerOK
<1>2. k \in 0 .. Len(c) /\ out[2] \in BOOLEAN /\ w \in 0 .. Len(c) /\ (k = Len(c) => w = k)
  <2>1. CASE out = <<Len(c), FALSE>>
    BY <2>1
  <2>2. CASE out \in (0 .. Len(c) - 1) \X BOOLEAN
    BY <2>2
  <2> QED BY <2>1, <2>2 DEF Outcomes
<1>3. /\ mem' = After(mem, SubSeq(c, 1, k)) /\ file' = After(file, SubSeq(c, 1, w))
      /\ failed' = (failed \/ k # Len(c))
      /\ issued' = IF \E j \in DOMAIN c : c[j].by.lease = issued + 1 THEN issued + 1 ELSE issued
  BY DEF Commit, Done
<1>4. Done(a, out) <=> k = Len(c)
  BY DEF Done
<1>5. c \in Seq(LeasesTo(issued + 1))
  BY DEF Sound
<1>6. \A j \in DOMAIN c : /\ c[j] \in LeasesTo(issued) \/ c[j].by.lease = issued + 1
                          /\ c[j].by.src = Discord => c[j].by.inst <= disc.inst
                          /\ c[j] \in LeasesTo(issued + 1)
  BY <1>5 DEF Sound
<1>7. failed => c = <<>>
  BY DEF Sound
<1>8. ~(k = Len(c)) => counts.troubles < MaxTroubles
  BY <1>4 DEF Commit
<1>9. Faulted(a, out) = IF k = Len(c) THEN 0 ELSE 1
  BY <1>4 DEF Faulted
<1> HIDE DEF c, k, w
<1>10. /\ mem' = mem \/ \E j \in DOMAIN c : mem' = c[j]
       /\ file' = file \/ \E j \in DOMAIN c : file' = c[j]
  BY <1>2, <1>3, <1>5, AfterPrefix
<1>11. issued' \in Nat /\ issued <= issued' /\ LeasesTo(issued) \subseteq LeasesTo(issued')
  <2>1. issued' \in Nat /\ issued <= issued'
    BY <1>1, <1>3
  <2> QED BY <1>1, <2>1, LeasesGrow
<1>12. \A j \in DOMAIN c : c[j] \in LeasesTo(issued')
  BY <1>3, <1>6, <1>11
<1>13. k = Len(c) => SubSeq(c, 1, k) = c /\ SubSeq(c, 1, w) = c
  BY <1>2, <1>5
<1>14. ~failed' => mem' = file'
  BY <1>3, <1>13 DEF ManagerOK
<1>15. \A p \in {file', mem'} : p.by.src = Discord => p.by.inst <= disc'.inst
  BY <1>6, <1>10 DEF ManagerOK
<1>16. ManagerOK'
  <2>1. file' \in LeasesTo(issued') /\ mem' \in LeasesTo(issued')
    BY <1>1, <1>10, <1>11, <1>12
  <2>2. Leases' = LeasesTo(issued')
    BY DEF Leases, LeasesTo, Holders, HoldersTo
  <2> QED BY <1>1, <1>3, <1>11, <1>14, <1>15, <2>1, <2>2 DEF ManagerOK
<1>17. c = <<>> => UNCHANGED <<file, mem, failed, issued>> /\ k = Len(c)
  <2>1. c = <<>> => Len(c) = 0 /\ k = 0 /\ w = 0 /\ DOMAIN c = {}
    BY <1>2
  <2> QED BY <1>1, <1>2, <1>3, <1>5, <2>1, AfterPrefix
<1>18. k = Len(c) => failed' = failed /\ file' = After(file, c)
  BY <1>1, <1>3, <1>13
<1>19. Faulted(a, out) = IF failed' /\ ~failed THEN 1 ELSE 0
  BY <1>1, <1>3, <1>7, <1>9, <1>17
<1> QED BY <1>3, <1>4, <1>8, <1>9, <1>10, <1>11, <1>16, <1>17, <1>18, <1>19 DEF c, k

-----------------------------------------------------------------------------
(* What the Bot API observes *)

\* An observation o, with the bridge as in b and Discord as in its status file.
SeenOK(o, b) ==
    /\ o \in Observations
    /\ o[Local].inst = b.inst
    /\ o[Discord].inst \in {0, dst.inst}
    /\ o[Discord].st = "active" => dst.listening /\ o[Discord].inst = dst.inst
    /\ o[Discord].st = "inactive" => ~dst.listening

\* What is observed for a lease: the microphone counts as active when its
\* bridge reports so, or an ON was published for it.
LEMMA InputSeen ==
    ASSUME ApiOK, DiscordOK, NEW o \in InputObservations
    PROVE  /\ SeenOK(o, bst)
           /\ o[Local].st = "active" => bst.mic = "on" \/ (req.enabled = "on" /\ req.inst = bst.inst)
<1>1. PICK l \in LocalInput, d \in DiscordSeen : o = Both(l, d)
  BY DEF InputObservations
<1>2. /\ l = [st |-> l.st, inst |-> bst.inst] /\ l.st \in {"active", "inactive", "unknown"}
      /\ l.st = "active" => bst.mic = "on" \/ (req.enabled = "on" /\ req.inst = bst.inst)
  BY <1>1 DEF LocalInput, LocalPhysical, LocalFresh, Obs
<1>3. \/ d = [st |-> "unknown", inst |-> 0]
      \/ d = [st |-> IF dst.listening THEN "active" ELSE "inactive", inst |-> dst.inst]
  BY <1>1 DEF DiscordSeen, Obs
<1>4. bst.inst \in Nat /\ dst.inst \in Nat /\ dst.listening \in BOOLEAN
  BY DEF ApiOK, Reports, DiscordOK
<1>5. o = [s \in Sources |-> IF s = Local THEN l ELSE d]
  BY <1>1 DEF Both
<1>6. o[Local] = l /\ o[Discord] = d
  BY <1>5 DEF Sources, Local, Discord
<1>7. o \in Observations
  BY <1>2, <1>3, <1>4, <1>5 DEF Observations
<1> QED BY <1>2, <1>3, <1>4, <1>6, <1>7 DEF SeenOK

\* What is observed to end a lease: only reports count.
LEMMA PhysicalSeen ==
    ASSUME ApiOK, DiscordOK, NEW o \in PhysicalObservations
    PROVE  SeenOK(o, bst) /\ (o[Local].st = "active" => bst.mic = "on")
<1>1. PICK l \in LocalPhysical(bst), d \in DiscordSeen : o = Both(l, d)
  BY DEF PhysicalObservations
<1>2. /\ l = [st |-> l.st, inst |-> bst.inst] /\ l.st \in {"active", "inactive", "unknown"}
      /\ l.st = "active" => bst.mic = "on"
  BY <1>1 DEF LocalPhysical, LocalFresh, Obs
<1>3. \/ d = [st |-> "unknown", inst |-> 0]
      \/ d = [st |-> IF dst.listening THEN "active" ELSE "inactive", inst |-> dst.inst]
  BY <1>1 DEF DiscordSeen, Obs
<1>4. bst.inst \in Nat /\ dst.inst \in Nat /\ dst.listening \in BOOLEAN
  BY DEF ApiOK, Reports, DiscordOK
<1>5. o = [s \in Sources |-> IF s = Local THEN l ELSE d]
  BY <1>1 DEF Both
<1>6. o[Local] = l /\ o[Discord] = d
  BY <1>5 DEF Sources, Local, Discord
<1>7. o \in Observations
  BY <1>2, <1>3, <1>4, <1>5 DEF Observations
<1> QED BY <1>2, <1>3, <1>4, <1>6, <1>7 DEF SeenOK

\* A report carries the bridge's fields.
ReportOf(b) == [f \in DOMAIN NoReport |-> b[f]]

\* A report has the fields of the bridge.
LEMMA ReportFields ==
    ASSUME NEW b \in Bridges
    PROVE  /\ ReportOf(b) \in Reports
           /\ ReportOf(b).inst = b.inst /\ ReportOf(b).mic = b.mic /\ ReportOf(b).rev = b.rev
           /\ ReportOf(b).act = b.act /\ ReportOf(b).st = b.st /\ ReportOf(b).want = b.want
<1>1. DOMAIN NoReport = {"inst", "mic", "rev", "act", "st", "want"}
  BY DEF NoReport
<1>2. ReportOf(b) = [inst |-> b.inst, mic |-> b.mic, rev |-> b.rev, act |-> b.act,
                     st |-> b.st, want |-> b.want]
  BY <1>1 DEF ReportOf
<1>3. /\ b.inst \in Nat /\ b.mic \in {"on", "off"} /\ b.rev \in Nat /\ b.act \in Acts
      /\ b.st \in {"idle", "applying", "applied", "failed", "stuck"} /\ b.want \in BOOLEAN
  BY DEF Bridges
<1> QED BY <1>2, <1>3 DEF Reports

\* What is observed when a report has just come.
LEMMA FreshSeen ==
    ASSUME DiscordOK, NEW b \in Reports, NEW d \in DiscordSeen
    PROVE  /\ SeenOK(Both(LocalFresh(b), d), b)
           /\ Both(LocalFresh(b), d)[Local].st = IF b.mic = "on" THEN "active" ELSE "inactive"
<1> DEFINE l == LocalFresh(b)  o == Both(l, d)
<1>1. l = [st |-> IF b.mic = "on" THEN "active" ELSE "inactive", inst |-> b.inst]
  BY DEF LocalFresh, Obs
<1>2. \/ d = [st |-> "unknown", inst |-> 0]
      \/ d = [st |-> IF dst.listening THEN "active" ELSE "inactive", inst |-> dst.inst]
  BY DEF DiscordSeen, Obs
<1>3. b.inst \in Nat /\ dst.inst \in Nat /\ dst.listening \in BOOLEAN
  BY DEF Reports, DiscordOK
<1>4. o = [s \in Sources |-> IF s = Local THEN l ELSE d]
  BY DEF Both
<1> HIDE DEF o, l
<1>5. o[Local] = l /\ o[Discord] = d
  BY <1>4 DEF Sources, Local, Discord
<1>6. o \in Observations
  BY <1>1, <1>2, <1>3, <1>4 DEF Observations
<1> QED BY <1>1, <1>2, <1>3, <1>5, <1>6 DEF SeenOK, o, l

-----------------------------------------------------------------------------
(* What a step that leaves a component alone keeps *)

\* The manager stays in order while its lease, file and numbers stay.
LEMMA ManagerStays ==
    ASSUME ManagerOK, DiscordOK, disc'.inst \in Nat, disc.inst <= disc'.inst,
           UNCHANGED <<file, mem, failed, issued>>
    PROVE  ManagerOK'
<1>1. Leases' = Leases
  BY DEF Leases, Holders
<1>2. \A p \in {file, mem} : p.by.src = Discord => p.by.inst <= disc'.inst
  <2>1. ASSUME NEW p \in {file, mem}, p.by.src = Discord PROVE p.by.inst <= disc'.inst
    <3>1. p \in LeasesTo(issued) /\ issued \in Nat /\ p.by.inst <= disc.inst
      BY <2>1, LeasesAre DEF ManagerOK
    <3>2. p.by.inst \in Nat
      BY <2>1, <3>1, LeaseShape DEF NoHolder
    <3> QED BY <3>1, <3>2 DEF DiscordOK
  <2> QED BY <2>1
<1> QED BY <1>1, <1>2 DEF ManagerOK

\* The claims stay in order while the numbers issued grow.
LEMMA ClaimsStay ==
    ASSUME ClaimsOK, issued \in Nat, issued' \in Nat, issued <= issued',
           UNCHANGED <<claims, disc>>
    PROVE  ClaimsOK'
<1>1. Holders \subseteq Holders'
  <2>1. HoldersTo(issued) \subseteq HoldersTo(issued')
    BY LeasesGrow
  <2>2. Holders = HoldersTo(issued) /\ Holders' = HoldersTo(issued')
    BY DEF Holders, HoldersTo
  <2> QED BY <2>1, <2>2
<1>2. Claims \subseteq Claims'
  BY <1>1 DEF Claims
<1> QED BY <1>2 DEF ClaimsOK

\* Reports and commands stay in order while the bridge only gets newer.
LEMMA ApiStays ==
    ASSUME ApiOK, BridgeOK, br'.inst \in Nat, br.inst <= br'.inst, UNCHANGED <<bst, req, wait>>
    PROVE  ApiOK'
<1>1. bst.inst \in Nat /\ br.inst \in Nat
  BY DEF ApiOK, Reports, BridgeOK, Bridges
<1> QED BY <1>1 DEF ApiOK

\* The Discord process and its requests stay in order.
LEMMA DiscordStays ==
    ASSUME DiscordOK, UNCHANGED <<disc, dst, wire>>
    PROVE  DiscordOK'
BY DEF DiscordOK

\* The client stays in order while the numbers issued grow.
LEMMA ClientStays ==
    ASSUME ClientOK, issued \in Nat, issued' \in Nat, issued <= issued',
           UNCHANGED <<lis, cl, disc, wire>>
    PROVE  ClientOK'
<1>1. 0 .. issued \subseteq 0 .. issued'
  OBVIOUS
<1>2. Calls \subseteq Calls'
  BY <1>1 DEF Calls
<1>3. cl' \in Clients'
  BY <1>1, <1>2 DEF ClientOK, Clients
<1> QED BY <1>3 DEF ClientOK, Waiting, Tokens

\* The orders of the bridge stay in sequence.
LEMMA BridgeStays ==
    ASSUME BridgeOK, UNCHANGED br
    PROVE  BridgeOK'
BY DEF BridgeOK

\* Acts once used stay used.
LEMMA UsedGrows ==
    ASSUME CountsOK, CountsOK', counts.commands <= counts'.commands,
           counts.troubles <= counts'.troubles
    PROVE  \A a \in Acts : Used(a) => UsedBy(a, counts')
<1>1. \A a \in Acts : a = NoAct \/ a[2] \in Nat
  BY DEF Acts
<1> QED BY <1>1 DEF Used, UsedBy, CountsOK

\* Commands stay where they are while acts are only added.
LEMMA OrderlyStays ==
    ASSUME Orderly, CountsOK, CountsOK', ApiOK, BridgeOK,
           counts.commands <= counts'.commands, counts.troubles <= counts'.troubles,
           UNCHANGED <<bst, br, req>>
    PROVE  Orderly'
<1>1. bst.act \in Acts /\ br.act \in Acts /\ req.act \in Acts
  BY DEF ApiOK, Reports, Commands, BridgeOK, Bridges
<1>2. \A i \in DOMAIN br.queue : br.queue[i].act \in Acts
  <2>1. br.queue \in Seq(Orders)
    BY DEF BridgeOK, Bridges
  <2>2. \A i \in DOMAIN br.queue : br.queue[i] \in Orders
    BY <2>1
  <2> QED BY <2>2 DEF Orders
<1>3. \A a \in Acts : Used(a) => UsedBy(a, counts')
  BY UsedGrows
<1> QED BY <1>1, <1>2, <1>3 DEF Orderly, Used

-----------------------------------------------------------------------------
(* The steps of the Discord process keep SInv *)

\* It is enough to look at the client, its wire and the heartbeat.
LEMMA DiscordStep ==
    ASSUME SInv, UNCHANGED <<file, bot, disc, br, issued>>, CountsOK',
           counts.commands <= counts'.commands, counts.troubles <= counts'.troubles,
           ClientOK', DiscordOK'
    PROVE  SInv'
<1> USE DEF SInv, bot
<1>1. br'.inst \in Nat /\ br.inst <= br'.inst /\ disc'.inst \in Nat /\ disc.inst <= disc'.inst
  BY DEF BridgeOK, Bridges, DiscordOK
<1>2. issued \in Nat /\ issued' = issued /\ issued <= issued'
  BY DEF ManagerOK
<1>3. ManagerOK' /\ ClaimsOK' /\ ApiOK' /\ BridgeOK' /\ Orderly'
  BY <1>1, <1>2, ManagerStays, ClaimsStay, ApiStays, BridgeStays, OrderlyStays
<1> QED BY <1>3

\* A request is put at the end of the wire.
LEMMA SendTypes ==
    ASSUME SInv, disc.up, disc' = disc, dst' = dst, issued' = issued,
           NEW by \in Listeners \cup {None}, NEW act \in {"acquire", "release"},
           NEW n \in 0 .. issued,
           NEW c \in Clients,
           Send(by, act, n, c)
    PROVE  /\ DiscordOK'
           /\ cl' \in Clients
           /\ cl'.lease = c.lease
           /\ cl'.call = [by |-> by, act |-> act, ans |-> "wait", lease |-> 0, cancelled |-> FALSE]
           /\ cl'.call # NoCall /\ Waiting'
           /\ wire' # <<>> /\ Last(wire').act = act /\ Last(wire').inst = disc.inst
<1> DEFINE r == [act |-> act, inst |-> disc.inst, lease |-> n]
           call == [by |-> by, act |-> act, ans |-> "wait", lease |-> 0, cancelled |-> FALSE]
<1>0. [NoCall EXCEPT !.by = by, !.act = act, !.ans = "wait"] = call
  <2>1. NoCall \in [by : {None}, act : {"none"}, ans : {"none"}, lease : {0}, cancelled : {FALSE}]
    BY DEF NoCall
  <2> HIDE DEF NoCall
  <2> DEFINE x == [NoCall EXCEPT !.by = by, !.act = act, !.ans = "wait"]
  <2>2. x \in [by : {by}, act : {act}, ans : {"wait"}, lease : {0}, cancelled : {FALSE}]
    BY <2>1
  <2> HIDE DEF x
  <2>3. x = call
    BY <2>2
  <2> QED BY <2>3 DEF x
<1>1. cl' = [c EXCEPT !.call = call] /\ wire' = Append(wire, r)
  BY <1>0 DEF Send
<1>2. issued \in Nat /\ disc.inst \in Nat \ {0} /\ wire \in Seq(Requests)
  BY DEF SInv, ManagerOK, DiscordOK
<1>3. r \in Requests /\ call \in Calls /\ call # NoCall
  BY <1>2 DEF Requests, Calls, NoCall
<1> HIDE DEF r
<1>4. wire' \in Seq(Requests) /\ wire' # <<>> /\ Last(wire') = r
  BY <1>1, <1>2, <1>3 DEF Last
<1>5. \A i \in DOMAIN wire' : wire'[i] = r \/ (i \in DOMAIN wire /\ wire'[i] = wire[i])
  BY <1>1, <1>2, <1>3
<1>6. r.act = act /\ r.inst = disc.inst
  BY DEF r
<1>7. DiscordOK'
  BY <1>2, <1>4, <1>5, <1>6 DEF SInv, DiscordOK
<1> HIDE DEF call
<1>8. /\ cl' \in Clients
      /\ cl'.call = call /\ cl'.lease = c.lease
  BY <1>1, <1>3 DEF Clients
<1>9. call.ans = "wait"
  BY DEF call
<1> QED BY <1>3, <1>4, <1>6, <1>7, <1>8, <1>9 DEF Waiting, call

\* The client after a request: nothing else may be under way.
LEMMA SentClient ==
    ASSUME SInv, disc.up, disc' = disc, dst' = dst, issued' = issued,
           NEW by \in Listeners \cup {None}, NEW act \in {"acquire", "release"},
           NEW n \in 0 .. issued,
           NEW c \in Clients,
           Send(by, act, n, c),
           lis' \in [Listeners -> {"idle", "asking", "leased", "on", "draining", "stopped"}],
           \A l \in Listeners : lis'[l] = "asking" <=> act = "acquire" /\ by = l,
           ~(act = "acquire" /\ by # None) => Tokens' = {}
    PROVE  ClientOK' /\ DiscordOK'
<1>1. /\ DiscordOK'
      /\ cl' \in Clients
      /\ cl'.call = [by |-> by, act |-> act, ans |-> "wait", lease |-> 0, cancelled |-> FALSE]
      /\ cl'.call # NoCall
      /\ wire' # <<>> /\ Last(wire').act = act /\ Last(wire').inst = disc.inst
  BY SendTypes
<1>2. Clients' = Clients
  BY DEF Calls, Clients
<1>3. cl'.call.by = by /\ cl'.call.act = act /\ cl'.call.ans = "wait" /\ act # "none"
  BY <1>1
<1> QED BY <1>1, <1>2, <1>3 DEF ClientOK, Waiting

\* The facts every step of the client starts from.
LEMMA ClientFacts ==
    ASSUME SInv
    PROVE  /\ issued \in Nat /\ None \notin Listeners
           /\ cl \in Clients
           /\ cl.lease \in 0 .. issued /\ cl.call.lease \in 0 .. issued /\ cl.call \in Calls
           /\ NoCall \in Calls /\ 0 \in 0 .. issued
           /\ cl.call # NoCall => disc.up
           /\ CountsOK /\ disc.inst \in Nat \ {0}
<1>1. issued \in Nat /\ cl \in Clients
  BY DEF SInv, ManagerOK, ClientOK
<1>2. cl.lease \in 0 .. issued /\ cl.call.lease \in 0 .. issued /\ cl.call \in Calls
  BY <1>1 DEF Calls, Clients
<1>3. NoCall \in Calls /\ 0 \in 0 .. issued
  BY <1>1 DEF Calls, NoCall
<1>4. cl.call # NoCall => disc.up
  BY DEF SInv, ClientOK, NoClient
<1> QED BY <1>1, <1>2, <1>3, <1>4, LeaseAssumption DEF SInv, DiscordOK

\* What a step of the client leaves alone.
ClientSteps == UNCHANGED <<file, bot, disc, dst, br, issued, counts>>

\* A call that ends without another leaves the client in order.
LEMMA CallEnds ==
    ASSUME SInv, ClientSteps, UNCHANGED wire,
           cl' \in Clients,
           cl'.call = NoCall, disc.up,
           lis' \in [Listeners -> {"idle", "asking", "leased", "on", "draining", "stopped"}],
           \A l \in Listeners : lis'[l] # "asking"
    PROVE  SInv'
<1> USE DEF ClientSteps
<1>1. Clients' = Clients
  BY DEF Calls, Clients
<1>2. ClientOK'
  BY <1>1 DEF ClientOK, Waiting, NoCall
<1>3. counts.commands \in Nat /\ counts.troubles \in Nat /\ CountsOK' /\ DiscordOK'
  BY DiscordStays DEF SInv, CountsOK
<1>4. UNCHANGED <<file, bot, disc, br, issued>> /\ counts.commands <= counts'.commands
      /\ counts.troubles <= counts'.troubles
  BY <1>3
<1> QED BY <1>2, <1>3, <1>4, DiscordStep

\* One that ends with another does too.
LEMMA CallFollows ==
    ASSUME SInv, ClientSteps, disc.up,
           NEW by \in Listeners \cup {None}, NEW act \in {"acquire", "release"},
           NEW n \in 0 .. issued,
           NEW c \in Clients,
           Send(by, act, n, c),
           lis' \in [Listeners -> {"idle", "asking", "leased", "on", "draining", "stopped"}],
           \A l \in Listeners : lis'[l] = "asking" <=> act = "acquire" /\ by = l,
           ~(act = "acquire" /\ by # None) => Tokens' = {}
    PROVE  SInv'
<1> USE DEF ClientSteps
<1>1. ClientOK' /\ DiscordOK'
  BY SentClient
<1>2. counts.commands \in Nat /\ counts.troubles \in Nat /\ CountsOK'
  BY DEF SInv, CountsOK
<1>3. UNCHANGED <<file, bot, disc, br, issued>> /\ counts.commands <= counts'.commands
      /\ counts.troubles <= counts'.troubles
  BY <1>2
<1> QED BY <1>1, <1>2, <1>3, DiscordStep

\* An acquisition ends: its listener has the token or is idle again.
LEMMA AcquiredTypes ==
    ASSUME SInv, NEW l \in Listeners, Acquired(l)
    PROVE  SInv'
<1> DEFINE c == [cl EXCEPT !.call = NoCall]
           held == [c EXCEPT !.lease = cl.call.lease, !.amb = FALSE]
           lost == [c EXCEPT !.lease = 0, !.amb = TRUE, !.retry = TRUE]
<1>1. ClientSteps /\ cl.call.by = l /\ cl.call.act = "acquire"
  BY DEF Acquired, ClientSteps
<1>2. cl.call # NoCall /\ disc.up
  <2>1. cl.call # NoCall
    BY <1>1 DEF NoCall
  <2> QED BY <2>1, ClientFacts
<1>3. /\ c \in Clients /\ held \in Clients /\ lost \in Clients
      /\ c.call = NoCall /\ held.call = NoCall /\ lost.call = NoCall /\ held.lease \in 0 .. issued
  BY ClientFacts DEF Clients
<1>4. /\ lis \in [Listeners -> {"idle", "asking", "leased", "on", "draining", "stopped"}]
      /\ lis[l] = "asking" /\ \A k \in Listeners : lis[k] = "asking" => k = l
  BY <1>1 DEF SInv, ClientOK
<1>5. CASE /\ cl' \in {c, held, lost} /\ UNCHANGED wire
           /\ \E x \in {"idle", "leased"} : lis' = [lis EXCEPT ![l] = x]
  <2> HIDE DEF c, held, lost
  <2>1. cl' \in Clients /\ cl'.call = NoCall
    BY <1>3, <1>5
  <2>2. lis' \in [Listeners -> {"idle", "asking", "leased", "on", "draining", "stopped"}]
        /\ \A k \in Listeners : lis'[k] # "asking"
    BY <1>4, <1>5
  <2> QED BY <1>1, <1>2, <1>5, <2>1, <2>2, CallEnds
<1>6. CASE Tokens = {} /\ Send(l, "release", held.lease, held) /\ lis' = [lis EXCEPT ![l] = "idle"]
  <2> HIDE DEF c, held, lost
  <2>1. /\ lis' \in [Listeners -> {"idle", "asking", "leased", "on", "draining", "stopped"}]
        /\ \A k \in Listeners : lis'[k] = "asking" <=> "release" = "acquire" /\ l = k
    BY <1>4, <1>6
  <2>2. Tokens' = {}
    BY <1>4, <1>6 DEF Tokens
  <2> QED BY <1>1, <1>2, <1>3, <1>6, <2>1, <2>2, CallFollows
<1>7. \/ /\ cl' \in {c, held, lost} /\ UNCHANGED wire
         /\ \E x \in {"idle", "leased"} : lis' = [lis EXCEPT ![l] = x]
      \/ Tokens = {} /\ Send(l, "release", held.lease, held) /\ lis' = [lis EXCEPT ![l] = "idle"]
  <2> HIDE DEF ClientSteps
  <2> QED BY DEF Acquired
<1> QED BY <1>5, <1>6, <1>7

\* A listener gives its token back; the last one sends a release.
LEMMA ReleaseTokenTypes ==
    ASSUME SInv, NEW l \in Listeners, ReleaseToken(l)
    PROVE  SInv'
<1>1. ClientSteps /\ disc.up /\ cl.call = NoCall /\ cl \in Clients /\ cl.lease \in 0 .. issued
  BY ClientFacts DEF ReleaseToken, ClientSteps, Unlocked
<1>2. /\ lis \in [Listeners -> {"idle", "asking", "leased", "on", "draining", "stopped"}]
      /\ \A k \in Listeners : lis[k] # "asking"
  BY <1>1 DEF SInv, ClientOK, NoCall
<1>3. /\ lis' \in [Listeners -> {"idle", "asking", "leased", "on", "draining", "stopped"}]
      /\ \A k \in Listeners : lis'[k] # "asking"
      /\ Tokens = {l} => Tokens' = {}
  BY <1>2 DEF ReleaseToken, Tokens
<1>4. CASE UNCHANGED <<cl, wire>>
  BY <1>1, <1>3, <1>4, CallEnds
<1>5. CASE Tokens = {l} /\ Send(l, "release", cl.lease, cl)
  BY <1>1, <1>3, <1>5, CallFollows
<1> QED BY <1>4, <1>5 DEF ReleaseToken

\* A release ends, done or left to the retry task.
LEMMA ReleasedTypes ==
    ASSUME SInv, Released
    PROVE  SInv'
<1>1. ClientSteps /\ UNCHANGED <<wire, lis>> /\ cl.call.act = "release" /\ cl.call # NoCall
  BY DEF Released, ClientSteps, discord, NoCall
<1>2. disc.up /\ cl \in Clients /\ NoCall \in Calls /\ 0 \in 0 .. issued
  BY <1>1, ClientFacts
<1>3. cl' \in Clients /\ cl'.call = NoCall
  <2>1. NoClient \in Clients /\ NoClient.call = NoCall
    BY <1>2 DEF NoClient, Clients
  <2>2. CASE cl' = [NoClient EXCEPT !.retry = cl.retry /\ cl.call.by # None]
    <3>1. (cl.retry /\ cl.call.by # None) \in BOOLEAN
      OBVIOUS
    <3> HIDE DEF NoClient
    <3> QED BY <2>1, <2>2, <3>1 DEF Clients
  <2>3. CASE cl' = [cl EXCEPT !.call = NoCall, !.retry = TRUE]
    BY <1>2, <2>3 DEF Clients
  <2> QED BY <2>2, <2>3 DEF Released
<1>4. /\ lis' \in [Listeners -> {"idle", "asking", "leased", "on", "draining", "stopped"}]
      /\ \A k \in Listeners : lis'[k] # "asking"
  BY <1>1 DEF SInv, ClientOK
<1> QED BY <1>1, <1>2, <1>3, <1>4, CallEnds

\* One turn of the retry task.
LEMMA RetryTypes ==
    ASSUME SInv, Retry
    PROVE  SInv'
<1>1. ClientSteps /\ lis' = lis /\ disc.up /\ cl.call = NoCall /\ cl \in Clients
      /\ cl.lease \in 0 .. issued
  BY ClientFacts DEF Retry, ClientSteps, Unlocked
<1>2. /\ lis \in [Listeners -> {"idle", "asking", "leased", "on", "draining", "stopped"}]
      /\ \A k \in Listeners : lis[k] # "asking"
  BY <1>1 DEF SInv, ClientOK, NoCall
<1>3. CASE cl' = [cl EXCEPT !.retry = FALSE] /\ UNCHANGED wire
  <2>1. cl' \in Clients /\ cl'.call = NoCall
    BY <1>1, <1>3 DEF Clients
  <2> QED BY <1>1, <1>2, <1>3, <2>1, CallEnds
<1>4. CASE Tokens = {} /\ Send(None, IF cl.amb THEN "acquire" ELSE "release", cl.lease, cl)
  <2>1. PICK act \in {"acquire", "release"} : Send(None, act, cl.lease, cl)
    BY <1>4
  <2>2. Tokens' = {}
    BY <1>1, <1>4 DEF Tokens
  <2>3. \A k \in Listeners : lis'[k] = "asking" <=> act = "acquire" /\ None = k
    BY <1>1, <1>2, ClientFacts
  <2> QED BY <1>1, <1>2, <2>1, <2>2, <2>3, CallFollows
<1> QED BY <1>3, <1>4 DEF Retry

\* The retry task learns the lease of an acquisition it repeated.
LEMMA RetryAcquiredTypes ==
    ASSUME SInv, RetryAcquired
    PROVE  SInv'
<1> DEFINE held == [cl EXCEPT !.lease = cl.call.lease, !.amb = FALSE]
<1>1. ClientSteps /\ lis' = lis /\ cl.call.by = None /\ cl.call.act = "acquire" /\ cl.call # NoCall
  BY DEF RetryAcquired, ClientSteps, NoCall
<1>2. /\ disc.up /\ cl \in Clients /\ held \in Clients /\ held.lease \in 0 .. issued
      /\ NoCall \in Calls /\ None \notin Listeners
  BY <1>1, ClientFacts DEF Clients
<1>3. /\ lis \in [Listeners -> {"idle", "asking", "leased", "on", "draining", "stopped"}]
      /\ \A k \in Listeners : lis[k] # "asking"
      /\ Tokens' = {}
  BY <1>1, <1>2 DEF SInv, ClientOK, Tokens
<1>4. CASE cl' = [cl EXCEPT !.call = NoCall] /\ UNCHANGED wire
  <2>1. cl' \in Clients /\ cl'.call = NoCall
    BY <1>2, <1>4 DEF Clients
  <2> QED BY <1>1, <1>2, <1>3, <1>4, <2>1, CallEnds
<1>5. CASE Send(None, "release", held.lease, held)
  <2> HIDE DEF held
  <2> QED BY <1>1, <1>2, <1>3, <1>5, CallFollows
<1> QED BY <1>4, <1>5 DEF RetryAcquired

\* Counting changes one count, by one.
LEMMA CountTypes ==
    ASSUME CountsOK, NEW c \in {"listens", "commands", "late", "troubles"}, Count(c)
    PROVE  /\ CountsOK'
           /\ counts'[c] = counts[c] + 1
           /\ \A d \in {"listens", "commands", "late", "troubles"} : d # c => counts'[d] = counts[d]
           /\ counts.commands <= counts'.commands /\ counts.troubles <= counts'.troubles
           /\ counts.late <= counts'.late
<1>1. /\ counts.listens \in Nat /\ counts.commands \in Nat /\ counts.late \in Nat
      /\ counts.troubles \in Nat
      /\ counts = [d \in {"listens", "commands", "late", "troubles"} |-> counts[d]]
  BY DEF CountsOK
<1>2. counts' = [counts EXCEPT ![c] = counts[c] + 1] /\ counts[c] + 1 \in Nat
  BY <1>1 DEF Count
<1>3. /\ CountsOK' /\ counts'[c] = counts[c] + 1
      /\ \A d \in {"listens", "commands", "late", "troubles"} : d # c => counts'[d] = counts[d]
  BY <1>2 DEF CountsOK
<1>4. \A d \in {"listens", "commands", "late", "troubles"} : counts[d] <= counts'[d]
  BY <1>1, <1>2, <1>3
<1> QED BY <1>3, <1>4

\* A cancelled acquisition is awaited all the same.
LEMMA CancelTypes ==
    ASSUME SInv, Cancel
    PROVE  SInv'
<1>1. /\ ClientSteps /\ wire' = wire /\ lis' = lis /\ Waiting /\ cl.call.act = "acquire"
      /\ cl' = [cl EXCEPT !.call.cancelled = TRUE] /\ cl.call # NoCall
  BY DEF Cancel, ClientSteps, NoCall
<1>2. disc.up /\ cl \in Clients /\ cl.call \in Calls
  BY <1>1, ClientFacts
<1>3. /\ cl' \in Clients /\ cl'.call.by = cl.call.by /\ cl'.call.act = cl.call.act
      /\ cl'.call.ans = cl.call.ans
  BY <1>1, <1>2 DEF Clients, Calls
<1>4. cl'.call # NoCall /\ cl.call.act # "none"
  BY <1>1, <1>3 DEF NoCall
<1>5. Clients' = Clients
  BY <1>1 DEF Clients, Calls, ClientSteps
<1>6. ClientOK'
  BY <1>1, <1>2, <1>3, <1>4, <1>5 DEF SInv, ClientOK, Waiting, Tokens, ClientSteps
<1>7. counts' = counts /\ CountsOK' /\ UNCHANGED <<file, bot, disc, br, issued>> /\ DiscordOK'
      /\ counts.commands <= counts'.commands /\ counts.troubles <= counts'.troubles
  BY <1>1, DiscordStays DEF SInv, ClientSteps, CountsOK
<1> QED BY <1>6, <1>7, DiscordStep

\* A wire that loses its last request, or not.
LEMMA WireShorter ==
    ASSUME DiscordOK, wire # <<>>, wire' \in {wire, Front(wire), Tail(wire)}, UNCHANGED <<disc, dst>>
    PROVE  /\ DiscordOK'
           /\ \A i \in DOMAIN wire' : \E j \in DOMAIN wire : wire'[i] = wire[j]
<1>1. wire \in Seq(Requests) /\ Len(wire) \in Nat \ {0}
  BY DEF DiscordOK
<1>2. Front(wire) \in Seq(Requests) /\ \A i \in DOMAIN Front(wire) : i \in DOMAIN wire /\ Front(wire)[i] = wire[i]
  BY <1>1 DEF Front
<1>3. Tail(wire) \in Seq(Requests)
      /\ \A i \in DOMAIN Tail(wire) : i + 1 \in DOMAIN wire /\ Tail(wire)[i] = wire[i + 1]
  BY <1>1
<1>4. wire' \in Seq(Requests) /\ \A i \in DOMAIN wire' : \E j \in DOMAIN wire : wire'[i] = wire[j]
  BY <1>1, <1>2, <1>3
<1> QED BY <1>4 DEF DiscordOK

\* The client gives a request up; it may be served later or be lost.
LEMMA TimeOutTypes ==
    ASSUME SInv, NEW lost \in BOOLEAN, TimeOut(lost)
    PROVE  SInv'
<1>1. /\ UNCHANGED <<file, bot, disc, dst, br, issued, lis>> /\ Waiting
      /\ cl' = [cl EXCEPT !.call.ans = "error"] /\ cl.call # NoCall /\ Count("troubles")
      /\ wire' \in {wire, Front(wire)}
  BY DEF TimeOut, Waiting, NoCall, Trouble
<1>2. disc.up /\ cl \in Clients /\ cl.call \in Calls /\ cl.call.act # "none"
  BY <1>1, ClientFacts DEF SInv, ClientOK
<1>3. /\ cl' \in Clients /\ cl'.call.by = cl.call.by /\ cl'.call.act = cl.call.act
      /\ cl'.call.ans = "error"
  BY <1>1, <1>2 DEF Clients, Calls
<1>4. cl'.call # NoCall
  BY <1>2, <1>3 DEF NoCall
<1>5. Clients' = Clients
  BY <1>1 DEF Clients, Calls
<1>6. ClientOK'
  BY <1>1, <1>2, <1>3, <1>4, <1>5 DEF SInv, ClientOK, Waiting, Tokens
<1>7. CountsOK' /\ counts.commands <= counts'.commands /\ counts.troubles <= counts'.troubles
  BY <1>1, CountTypes DEF SInv
<1>8. wire # <<>> /\ DiscordOK
  BY <1>1 DEF SInv, ClientOK
<1>9. DiscordOK'
  BY <1>1, <1>8, WireShorter
<1> QED BY <1>1, <1>6, <1>7, <1>9, DiscordStep

\* A listener asks for the lease.
LEMMA AskAcquireTypes ==
    ASSUME SInv, NEW l \in Listeners, AskAcquire(l)
    PROVE  SInv'
<1>1. /\ UNCHANGED <<file, bot, disc, dst, br, issued>> /\ disc.up /\ cl.call = NoCall
      /\ Count("listens") /\ Send(l, "acquire", 0, cl) /\ lis' = [lis EXCEPT ![l] = "asking"]
  BY DEF AskAcquire, Unlocked
<1>2. /\ lis \in [Listeners -> {"idle", "asking", "leased", "on", "draining", "stopped"}]
      /\ \A k \in Listeners : lis[k] # "asking"
  BY <1>1 DEF SInv, ClientOK, NoCall
<1>3. /\ lis' \in [Listeners -> {"idle", "asking", "leased", "on", "draining", "stopped"}]
      /\ \A k \in Listeners : lis'[k] = "asking" <=> "acquire" = "acquire" /\ l = k
  BY <1>1, <1>2
<1>4. cl \in Clients /\ 0 \in 0 .. issued /\ l # None
  BY ClientFacts
<1>5. ClientOK' /\ DiscordOK'
  BY <1>1, <1>3, <1>4, SentClient
<1>6. CountsOK' /\ counts.commands <= counts'.commands /\ counts.troubles <= counts'.troubles
  BY <1>1, CountTypes DEF SInv
<1> QED BY <1>1, <1>5, <1>6, DiscordStep

\* A listener moves on: while a request is under way there is no token to lose.
LEMMA ListenTypes ==
    ASSUME SInv, NEW l \in Listeners, lis[l] \in {"leased", "on", "draining"},
           NEW to \in {"on", "draining", "stopped"}, lis' = [lis EXCEPT ![l] = to],
           UNCHANGED <<file, bot, wire, cl, dst, br, issued, counts>>,
           disc' = disc \/ \E b \in BOOLEAN : disc' = [disc EXCEPT !.listened = b]
    PROVE  SInv' /\ disc.up /\ Tokens' = Tokens
<1>1. lis \in [Listeners -> {"idle", "asking", "leased", "on", "draining", "stopped"}]
  BY DEF SInv, ClientOK
<1>2. disc.up /\ Tokens' = Tokens
  BY <1>1 DEF SInv, ClientOK, AllIdle, Tokens
<1>3. disc' \in [up : BOOLEAN, inst : Nat \ {0}, listened : BOOLEAN] /\ disc'.inst = disc.inst
      /\ disc'.up = disc.up
  BY DEF SInv, DiscordOK
<1>4. DiscordOK'
  BY <1>3 DEF SInv, DiscordOK
<1>5. Clients' = Clients
  BY DEF Clients, Calls
<1>6. ClientOK'
  BY <1>1, <1>2, <1>3, <1>5 DEF SInv, ClientOK, Waiting
<1>7. /\ ManagerOK' /\ ApiOK' /\ BridgeOK' /\ CountsOK'
  BY <1>3, ManagerStays, ApiStays, BridgeStays DEF SInv, bot, ManagerOK, ApiOK, BridgeOK, Bridges, Leases, Holders, CountsOK
<1>8. ClaimsOK'
  BY <1>3 DEF SInv, ClaimsOK, Claims, Holders, bot
<1>9. Orderly'
  BY DEF SInv, Orderly, Used, bot
<1> QED BY <1>2, <1>4, <1>6, <1>7, <1>8, <1>9 DEF SInv

\* A heartbeat shows this instance; a late one is counted.
LEMMA HeartbeatTypes ==
    ASSUME SInv, Heartbeat
    PROVE  SInv' /\ counts.late <= counts'.late
<1>1. /\ disc.up /\ UNCHANGED <<file, bot, wire, disc, lis, cl, br, issued>>
      /\ dst' = Now \/ dst' \in Earlier
      /\ UNCHANGED counts \/ Count("late")
  BY DEF Heartbeat, discord
<1>2. dst' \in [inst : Nat \ {0}, listening : BOOLEAN] /\ dst'.inst = disc.inst
  <2>1. disc.listened \in BOOLEAN /\ disc.inst \in Nat \ {0}
    BY DEF SInv, DiscordOK
  <2>2. (\E l \in Listeners : lis[l] = "on") \in BOOLEAN
    OBVIOUS
  <2>3. \E b \in BOOLEAN : dst' = Status(b)
    BY <1>1, <2>1, <2>2 DEF Now, Earlier
  <2> QED BY <2>1, <2>3 DEF Status
<1>3. DiscordOK'
  BY <1>1, <1>2 DEF SInv, DiscordOK
<1>4. counts.commands \in Nat /\ counts.troubles \in Nat /\ counts.late \in Nat /\ issued \in Nat
  BY DEF SInv, CountsOK, ManagerOK
<1>5. CountsOK' /\ counts.commands <= counts'.commands /\ counts.troubles <= counts'.troubles
      /\ counts.late <= counts'.late
  BY <1>1, <1>4, CountTypes DEF SInv, CountsOK
<1>6. ClientOK'
  BY <1>1, <1>4, ClientStays DEF SInv
<1> QED BY <1>1, <1>3, <1>5, <1>6, DiscordStep

\* The Discord process dies, and starts again as another instance.
LEMMA DiscordLifeTypes ==
    ASSUME SInv, DiscordStops \/ DiscordStarts
    PROVE  SInv' /\ counts'.late = counts.late
<1>1. UNCHANGED <<file, mem, failed, claims, bst, req, wait, wire, br, issued>>
  BY DEF DiscordStops, DiscordStarts, bot
<1>2. disc \in [up : BOOLEAN, inst : Nat \ {0}, listened : BOOLEAN] /\ issued \in Nat
  BY DEF SInv, DiscordOK, ManagerOK
<1>3. /\ disc' \in [up : BOOLEAN, inst : Nat \ {0}, listened : BOOLEAN]
      /\ disc'.up => ~disc.up /\ disc'.inst = disc.inst + 1
      /\ ~disc'.up => disc.up /\ disc'.inst = disc.inst
      /\ disc.inst <= disc'.inst /\ disc'.inst \in Nat
  <2>1. CASE DiscordStops
    <3>1. disc' = [disc EXCEPT !.up = FALSE, !.listened = FALSE] /\ disc.up
      BY <2>1 DEF DiscordStops
    <3>2. /\ disc' \in [up : BOOLEAN, inst : Nat \ {0}, listened : BOOLEAN]
          /\ disc'.up = FALSE /\ disc'.inst = disc.inst
      BY <1>2, <3>1
    <3> QED BY <1>2, <3>1, <3>2
  <2>2. CASE DiscordStarts
    <3>1. disc' = [up |-> TRUE, inst |-> disc.inst + 1, listened |-> FALSE] /\ ~disc.up
      BY <2>2 DEF DiscordStarts
    <3>2. disc.inst + 1 \in Nat \ {0} /\ disc.inst <= disc.inst + 1
      BY <1>2
    <3> QED BY <3>1, <3>2
  <2> QED BY <2>1, <2>2
<1>4. DiscordOK'
  <2>1. dst' \in [inst : Nat \ {0}, listening : BOOLEAN] /\ dst'.inst <= disc'.inst
        /\ (disc'.up => dst'.inst = disc'.inst)
    <3>1. CASE DiscordStops
      <4>1. dst' = dst /\ disc'.up = FALSE /\ disc'.inst = disc.inst
        BY <1>2, <3>1 DEF DiscordStops
      <4> QED BY <4>1 DEF SInv, DiscordOK
    <3>2. CASE DiscordStarts
      <4>1. dst' = [inst |-> disc'.inst, listening |-> FALSE] /\ disc'.up
        BY <3>2 DEF DiscordStarts
      <4>2. disc'.inst \in Nat \ {0}
        BY <1>3
      <4> QED BY <4>1, <4>2
    <3> QED BY <3>1, <3>2
  <2>2. wire \in Seq(Requests) /\ \A i \in DOMAIN wire : wire[i].inst <= disc'.inst
    <3>1. \A i \in DOMAIN wire : wire[i] \in Requests /\ wire[i].inst <= disc.inst
      BY DEF SInv, DiscordOK
    <3>2. \A i \in DOMAIN wire : wire[i].inst \in Nat
      BY <3>1 DEF Requests
    <3> QED BY <1>2, <1>3, <3>1, <3>2 DEF SInv, DiscordOK
  <2> QED BY <1>1, <1>3, <2>1, <2>2 DEF DiscordOK
<1>5. ClientOK'
  <2>1. lis' = AllIdle /\ cl' = NoClient
    BY DEF DiscordStops, DiscordStarts, SInv, ClientOK
  <2>2. NoClient.call = NoCall /\ NoCall.act = "none" /\ NoCall.ans = "none"
    BY DEF NoClient, NoCall
  <2>3. NoClient \in Clients'
    BY <1>1, <1>2 DEF NoClient, NoCall, Clients, Calls
  <2>4. AllIdle \in [Listeners -> {"idle", "asking", "leased", "on", "draining", "stopped"}]
        /\ \A l \in Listeners : AllIdle[l] = "idle"
    BY DEF AllIdle
  <2> QED BY <2>1, <2>2, <2>3, <2>4 DEF ClientOK, Waiting
<1>6. CountsOK' /\ counts.commands <= counts'.commands /\ counts.troubles <= counts'.troubles
      /\ counts.late = counts'.late
  <2>1. UNCHANGED counts \/ Count("troubles")
    BY DEF DiscordStops, DiscordStarts, Trouble
  <2> QED BY <2>1, CountTypes DEF SInv, CountsOK
<1>7. ManagerOK'
  BY <1>1, <1>3, ManagerStays DEF SInv
<1>8. ClaimsOK'
  <2>1. \A c \in claims : c.by.src = Discord => c.by.inst \in Nat
    <3>1. \A c \in claims : c.by \in HoldersTo(issued)
      BY LeasesAre DEF SInv, ClaimsOK, Claims
    <3> QED BY <3>1 DEF HoldersTo
  <2>2. Holders' = Holders /\ Claims' = Claims
    BY <1>1 DEF Holders, Claims
  <2> QED BY <1>1, <1>2, <1>3, <2>1, <2>2 DEF SInv, ClaimsOK
<1>9. ApiOK' /\ BridgeOK' /\ Orderly'
  <2>1. br'.inst \in Nat /\ br.inst <= br'.inst
    BY <1>1 DEF SInv, BridgeOK, Bridges
  <2> QED BY <1>1, <1>6, <2>1, ApiStays, BridgeStays, OrderlyStays DEF SInv
<1> QED BY <1>4, <1>5, <1>6, <1>7, <1>8, <1>9 DEF SInv

-----------------------------------------------------------------------------
(* The steps of the Bot API keep SInv *)

\* The facts every step of the manager starts from.
LEMMA ManagerFacts ==
    ASSUME SInv
    PROVE  /\ issued \in Nat /\ file \in LeasesTo(issued) /\ mem \in LeasesTo(issued)
           /\ failed \in BOOLEAN /\ (~failed => mem = file)
           /\ Discord \in Sources /\ Local \in Sources /\ Discord # Local
           /\ \A s \in Sources : s = Local \/ s = Discord
           /\ NoHolder.src # Local /\ NoHolder.src # Discord
BY LeasesAre DEF SInv, ManagerOK, Sources, Local, Discord, NoHolder

\* An operation that at most ends the lease, or blocks it.
LEMMA EndSound ==
    ASSUME SInv, NEW a, a.commits = <<>> \/ (~failed /\ a.commits \in {<<SetUnowned(mem)>>, <<SetBlocked(mem)>>})
    PROVE  Sound(a)
<1>1. issued \in Nat /\ mem \in LeasesTo(issued) /\ NoHolder.src # Discord
  BY ManagerFacts
<1>2. LeasesTo(issued) \subseteq LeasesTo(issued + 1)
  BY <1>1, LeasesGrow
<1>3. CASE a.commits = <<>>
  BY <1>3 DEF Sound
<1>4. ASSUME NEW x \in {SetUnowned(mem), SetBlocked(mem)}, a.commits = <<x>>, ~failed PROVE Sound(a)
  <2>1. x \in LeasesTo(issued) /\ x.by.src # Discord
    BY <1>1, UnownedTypes
  <2> QED BY <1>2, <1>4, <2>1 DEF Sound
<1> QED BY <1>3, <1>4

\* An acquisition is a sound operation, and its answer is the lease it leaves.
LEMMA AcquireSound ==
    ASSUME SInv, NEW s \in Sources, NEW i \in Nat \ {0}, s = Discord => i <= disc.inst,
           NEW o, NEW b, SeenOK(o, b)
    PROVE  /\ Sound(Guarded(Acquire(mem, s, i, o, issued + 1)))
           /\ Guarded(Acquire(mem, s, i, o, issued + 1)).lease \in Nat
           /\ Guarded(Acquire(mem, s, i, o, issued + 1)).lease # 0 =>
                ~failed /\ After(mem, Guarded(Acquire(mem, s, i, o, issued + 1)).commits).by =
                             Holder(s, i, Guarded(Acquire(mem, s, i, o, issued + 1)).lease)
<1>1. /\ issued \in Nat /\ mem \in LeasesTo(issued) /\ o \in Observations /\ failed \in BOOLEAN
      /\ o[Discord].inst \in {0, dst.inst} /\ dst.inst <= disc.inst /\ 0 <= disc.inst
  BY ManagerFacts DEF SeenOK, SInv, DiscordOK
<1> DEFINE a == Acquire(mem, s, i, o, issued + 1)
<1>2. /\ a.commits \in Seq(LeasesTo(issued + 1))
      /\ \A j \in DOMAIN a.commits :
            /\ a.commits[j] \in LeasesTo(issued) \/ a.commits[j].by.lease = issued + 1
            /\ a.commits[j].by.src = Discord => \/ s = Discord /\ a.commits[j].by.inst = i
                                                \/ a.commits[j].by.inst = o[Discord].inst
      /\ a.lease \in Nat
      /\ a.lease # 0 => After(mem, a.commits).by = Holder(s, i, a.lease)
  BY <1>1, AcquireTypes
<1> HIDE DEF a
<1>3. Guarded(a) = IF failed THEN [commits |-> <<>>, lease |-> 0] ELSE a
  BY DEF Guarded, Refused, Answer
<1>4. Sound(Guarded(a))
  <2>1. CASE failed
    <3>1. Guarded(a).commits = <<>>
      BY <1>3, <2>1
    <3> QED BY <3>1, EndSound
  <2>2. CASE ~failed
    <3>1. /\ \A j \in DOMAIN a.commits : a.commits[j].by.src = Discord => a.commits[j].by.inst <= disc.inst
      BY <1>1, <1>2
    <3>2. Guarded(a) = a
      BY <1>3, <2>2
    <3> QED BY <1>2, <2>2, <3>1, <3>2 DEF Sound
  <2> QED BY <1>1, <2>1, <2>2
<1>5. Guarded(a).lease \in Nat
      /\ (Guarded(a).lease # 0 => ~failed /\ After(mem, Guarded(a).commits).by = Holder(s, i, Guarded(a).lease))
  BY <1>1, <1>2, <1>3
<1> QED BY <1>4, <1>5 DEF a

\* The release of a holder is a sound operation, and ends only its lease.
LEMMA ReleaseSound ==
    ASSUME SInv, NEW h
    PROVE  /\ Sound(Guarded(Release(mem, h)))
           /\ \/ Guarded(Release(mem, h)).commits = <<>>
              \/ /\ Guarded(Release(mem, h)).commits = <<SetUnowned(mem)>>
                 /\ ~failed /\ mem.phase = "owned" /\ mem.by = h
           /\ Guarded(Release(mem, h)).lease \in 0 .. issued
           /\ Guarded(Release(mem, h)).lease # 0 => Guarded(Release(mem, h)).lease = h.lease
<1>1. issued \in Nat /\ mem \in LeasesTo(issued) /\ failed \in BOOLEAN
  BY ManagerFacts
<1> DEFINE a == Release(mem, h)
<1>2. /\ a.commits = <<>> \/ (a.commits = <<SetUnowned(mem)>> /\ mem.phase = "owned" /\ mem.by = h)
      /\ a.lease \in 0 .. issued /\ (a.lease # 0 => a.lease = h.lease)
  BY <1>1, ReleaseTypes
<1> HIDE DEF a
<1>3. Guarded(a) = IF failed THEN [commits |-> <<>>, lease |-> 0] ELSE a
  BY DEF Guarded, Refused, Answer
<1>4. /\ Guarded(a).commits = <<>> \/ (Guarded(a).commits = <<SetUnowned(mem)>> /\ ~failed
                                       /\ mem.phase = "owned" /\ mem.by = h)
      /\ Guarded(a).lease \in 0 .. issued /\ (Guarded(a).lease # 0 => Guarded(a).lease = h.lease)
  BY <1>1, <1>2, <1>3
<1>5. Sound(Guarded(a))
  BY <1>4, EndSound
<1> QED BY <1>4, <1>5 DEF a

\* So is the release of an inactive local microphone.
LEMMA InactiveSound ==
    ASSUME SInv, NEW i, NEW o
    PROVE  /\ Sound(Guarded(ReleaseIfInactive(mem, Local, i, o)))
           /\ \/ Guarded(ReleaseIfInactive(mem, Local, i, o)).commits = <<>>
              \/ /\ ~failed /\ mem.phase = "owned" /\ mem.by.src = Local
                 /\ \/ /\ Guarded(ReleaseIfInactive(mem, Local, i, o)).commits = <<SetBlocked(mem)>>
                       /\ Active(o) \cap Peers(Local) # {}
                    \/ /\ Guarded(ReleaseIfInactive(mem, Local, i, o)).commits = <<SetUnowned(mem)>>
                       /\ o[Local].inst = i /\ Quiet(o, Sources)
<1>1. issued \in Nat /\ mem \in LeasesTo(issued) /\ failed \in BOOLEAN /\ Local \in Sources
  BY ManagerFacts
<1> DEFINE a == ReleaseIfInactive(mem, Local, i, o)
<1>2. \/ a.commits = <<>>
      \/ /\ mem.phase = "owned" /\ mem.by.src = Local
         /\ \/ a.commits = <<SetBlocked(mem)>> /\ Active(o) \cap Peers(Local) # {}
            \/ a.commits = <<SetUnowned(mem)>> /\ o[Local].inst = i /\ Quiet(o, Sources)
  BY <1>1, InactiveTypes
<1> HIDE DEF a
<1>3. Guarded(a) = IF failed THEN [commits |-> <<>>, lease |-> 0] ELSE a
  BY DEF Guarded, Refused, Answer
<1>4. \/ Guarded(a).commits = <<>>
      \/ /\ ~failed /\ mem.phase = "owned" /\ mem.by.src = Local
         /\ \/ Guarded(a).commits = <<SetBlocked(mem)>> /\ Active(o) \cap Peers(Local) # {}
            \/ Guarded(a).commits = <<SetUnowned(mem)>> /\ o[Local].inst = i /\ Quiet(o, Sources)
  BY <1>1, <1>2, <1>3
<1>5. Sound(Guarded(a))
  BY <1>4, EndSound
<1> QED BY <1>4, <1>5 DEF a

\* A commit counts its fault.
LEMMA Committed ==
    ASSUME SInv, disc'.inst = disc.inst, NEW a, Sound(a), NEW out \in Outcomes(a), Commit(a, out),
           counts' = [counts EXCEPT !.troubles = @ + Faulted(a, out)]
    PROVE  /\ ManagerOK' /\ issued' \in Nat /\ issued <= issued' /\ CountsOK'
           /\ counts.commands <= counts'.commands /\ counts.troubles <= counts'.troubles
           /\ counts'.late = counts.late
           /\ Done(a, out) => failed' = failed /\ file' = After(file, a.commits)
           /\ ~Done(a, out) => failed'
           /\ failed' /\ ~failed => counts'.troubles = counts.troubles + 1
           /\ file' = file \/ \E j \in DOMAIN a.commits : file' = a.commits[j]
<1>1. counts.commands \in Nat /\ counts.troubles \in Nat /\ counts.late \in Nat
  BY DEF SInv, CountsOK
<1> DEFINE f == Faulted(a, out)
<1>2. /\ ManagerOK' /\ issued' \in Nat /\ issued <= issued'
      /\ Done(a, out) => failed' = failed /\ file' = After(file, a.commits)
      /\ ~Done(a, out) => failed' = TRUE
      /\ f \in Nat /\ f = (IF failed' /\ ~failed THEN 1 ELSE 0)
      /\ file' = file \/ \E j \in DOMAIN a.commits : file' = a.commits[j]
  BY CommitTypes DEF SInv
<1> HIDE DEF f
<1>3. counts' = [counts EXCEPT !.troubles = @ + f]
  BY DEF f
<1>4. counts.troubles + f \in Nat /\ counts.troubles <= counts.troubles + f
  BY <1>1, <1>2
<1>5. CountsOK' /\ counts'.troubles = counts.troubles + f /\ counts'.commands = counts.commands
      /\ counts'.late = counts.late
  BY <1>3, <1>4 DEF SInv, CountsOK
<1> QED BY <1>1, <1>2, <1>4, <1>5

\* What the manager makes of a request.
Served(r, o) == Guarded(IF r.act = "acquire"
                        THEN Acquire(mem, Discord, r.inst, o, issued + 1)
                        ELSE Release(mem, Holder(Discord, r.inst, r.lease)))

\* What is made of a request is a sound operation.
LEMMA ServedSound ==
    ASSUME SInv, wire # <<>>, NEW o, NEW b, SeenOK(o, b)
    PROVE  LET r == Head(wire)  a == Served(r, o) IN
           /\ Sound(a) /\ a.lease \in Nat
           /\ r \in Requests /\ r.inst <= disc.inst
           /\ r.act = "acquire" => /\ a = Guarded(Acquire(mem, Discord, r.inst, o, issued + 1))
                                   /\ a.lease # 0 => ~failed /\ After(mem, a.commits).by = Holder(Discord, r.inst, a.lease)
           /\ r.act # "acquire" =>
                 /\ a.commits = <<>> \/ (a.commits = <<SetUnowned(mem)>> /\ ~failed
                                         /\ mem.by = Holder(Discord, r.inst, r.lease))
                 /\ a.lease \in 0 .. issued
<1> DEFINE r == Head(wire)  a == Served(r, o)
<1>1. r \in Requests /\ r.inst <= disc.inst
  <2>1. 1 \in DOMAIN wire /\ r = wire[1] /\ wire \in Seq(Requests)
    BY DEF SInv, DiscordOK
  <2> QED BY <2>1 DEF SInv, DiscordOK
<1>2. r.inst \in Nat \ {0} /\ issued \in Nat /\ Discord \in Sources
  BY <1>1, ManagerFacts DEF Requests
<1> HIDE DEF r
<1>3. CASE r.act = "acquire"
  <2>1. a = Guarded(Acquire(mem, Discord, r.inst, o, issued + 1))
    BY <1>3 DEF Served
  <2> HIDE DEF a
  <2>2. Sound(a) /\ a.lease \in Nat
        /\ (a.lease # 0 => ~failed /\ After(mem, a.commits).by = Holder(Discord, r.inst, a.lease))
    BY <1>1, <1>2, <2>1, AcquireSound
  <2> QED BY <1>1, <1>3, <2>1, <2>2 DEF r, a
<1>4. CASE r.act # "acquire"
  <2> DEFINE h == Holder(Discord, r.inst, r.lease)
  <2>1. a = Guarded(Release(mem, h))
    BY <1>4 DEF Served
  <2> HIDE DEF a, h
  <2>2. /\ Sound(a) /\ a.lease \in 0 .. issued
        /\ a.commits = <<>> \/ (a.commits = <<SetUnowned(mem)>> /\ ~failed /\ mem.by = h)
    BY <2>1, ReleaseSound
  <2>3. a.lease \in Nat
    BY <1>2, <2>2
  <2> QED BY <1>1, <1>4, <2>1, <2>2, <2>3 DEF r, a, h
<1> QED BY <1>3, <1>4

\* A request is served: the client hears a lease of its type, or a refusal.
LEMMA ServeTypes ==
    ASSUME SInv, wire # <<>>, NEW o, NEW b, SeenOK(o, b), Serve(o)
    PROVE  SInv' /\ counts'.late = counts.late
<1> DEFINE r == Head(wire)  a == Served(r, o)
<1>1. /\ Sound(a) /\ a.lease \in Nat
      /\ r.act = "acquire" /\ a.lease # 0 =>
            ~failed /\ After(mem, a.commits).by = Holder(Discord, r.inst, a.lease)
      /\ r.act # "acquire" => a.lease \in 0 .. issued
  BY ServedSound
<1>2. PICK out \in Outcomes(a) :
         /\ Commit(a, out)
         /\ counts' = [counts EXCEPT !.troubles = @ + Faulted(a, out)]
         /\ cl' = IF ~Live THEN cl
                  ELSE [cl EXCEPT !.call.ans = IF Result(a, out) # 0 THEN "ok" ELSE "refused",
                                  !.call.lease = Result(a, out)]
  BY DEF Serve, Served
<1>3. wire' = Tail(wire) /\ UNCHANGED <<claims, bst, req, wait, disc, lis, dst, br>>
  BY DEF Serve
<1> HIDE DEF r, a
<1>4. /\ ManagerOK' /\ issued' \in Nat /\ issued <= issued' /\ CountsOK'
      /\ counts.commands <= counts'.commands /\ counts.troubles <= counts'.troubles
      /\ counts'.late = counts.late
      /\ Done(a, out) => file' = After(file, a.commits)
  BY <1>1, <1>2, <1>3, Committed
<1>5. issued \in Nat /\ (~failed => mem = file) /\ Discord \in Sources
  BY ManagerFacts
<1>6. Result(a, out) \in 0 .. issued'
  <2>1. CASE Result(a, out) = 0
    BY <1>4, <2>1
  <2>2. CASE Result(a, out) # 0 /\ r.act # "acquire"
    <3>1. Result(a, out) = a.lease /\ a.lease \in 0 .. issued
      BY <1>1, <2>2 DEF Result
    <3> QED BY <1>4, <1>5, <3>1
  <2>3. CASE Result(a, out) # 0 /\ r.act = "acquire"
    <3>1. Done(a, out) /\ Result(a, out) = a.lease /\ a.lease # 0
      BY <2>3 DEF Result
    <3>2. file'.by = Holder(Discord, r.inst, a.lease)
      BY <1>1, <1>4, <1>5, <2>3, <3>1
    <3>3. file'.by.src = Discord /\ file'.by.lease = a.lease
      BY <3>2 DEF Holder
    <3>4. file' \in LeasesTo(issued')
      BY <1>4 DEF ManagerOK, Leases, LeasesTo, Holders, HoldersTo
    <3>5. file'.by.lease \in 1 .. issued'
      BY <1>4, <1>5, <3>3, <3>4, LeaseShape
    <3> QED BY <1>4, <3>1, <3>3, <3>5
  <2> QED BY <2>1, <2>2, <2>3
<1>7. wire \in Seq(Requests) /\ cl \in Clients
  BY DEF SInv, DiscordOK, ClientOK
<1>8. DiscordOK'
  BY <1>3, WireShorter DEF SInv
<1>9. ClientOK'
  <2>1. Clients \subseteq Clients'
    <3>1. 0 .. issued \subseteq 0 .. issued'
      BY <1>4, <1>5
    <3>2. Calls \subseteq Calls'
      BY <3>1 DEF Calls
    <3> QED BY <3>1, <3>2 DEF Clients
  <2>2. CASE ~Live
    <3>1. cl' = cl
      BY <1>2, <2>2
    <3>2. Waiting => Len(wire) > 1
      BY <1>7, <2>2 DEF Live
    <3>3. Len(wire) > 1 => Tail(wire) # <<>> /\ Last(Tail(wire)) = Last(wire)
      BY <1>7 DEF Last
    <3> QED BY <1>3, <1>7, <2>1, <3>1, <3>2, <3>3 DEF SInv, ClientOK, Waiting, Tokens
  <2>3. CASE Live
    <3> DEFINE ans == IF Result(a, out) # 0 THEN "ok" ELSE "refused"
               n == Result(a, out)
    <3>1. cl' = [cl EXCEPT !.call.ans = ans, !.call.lease = n]
      BY <1>2, <2>3
    <3>2. ans \in {"ok", "refused"} /\ n \in 0 .. issued'
      BY <1>6
    <3> HIDE DEF ans, n
    <3>3. cl \in Clients'
      BY <1>7, <2>1
    <3>4. /\ cl' \in Clients' /\ cl'.call.ans = ans /\ cl'.call.act = cl.call.act
          /\ cl'.call.by = cl.call.by
      BY <3>1, <3>2, <3>3 DEF Clients, Calls
    <3>5. cl.call # NoCall /\ cl.call.act # "none"
      BY <2>3 DEF Live, Waiting, NoCall, SInv, ClientOK
    <3>6. cl'.call # NoCall
      BY <3>4, <3>5 DEF NoCall
    <3>7. disc.up
      BY <3>5, ClientFacts
    <3>8. ~Waiting' /\ cl'.call.ans # "none"
      BY <3>2, <3>4 DEF Waiting
    <3> QED BY <1>3, <3>4, <3>5, <3>6, <3>7, <3>8 DEF SInv, ClientOK, Tokens
  <2> QED BY <2>2, <2>3
<1>10. ClaimsOK' /\ BridgeOK' /\ Orderly' /\ ApiOK'
  <2>1. br'.inst \in Nat /\ br.inst <= br'.inst
    BY <1>3 DEF SInv, BridgeOK, Bridges
  <2> QED BY <1>3, <1>4, <1>5, <2>1, ClaimsStay, BridgeStays, OrderlyStays, ApiStays DEF SInv
<1> QED BY <1>4, <1>8, <1>9, <1>10 DEF SInv

\* A command is newer than the last one and than what the bridge has applied.
LEMMA PublishTypes ==
    ASSUME req \in Commands, NEW b \in Reports, NEW on \in BOOLEAN, NEW act \in Acts, Publish(b, on, act)
    PROVE  /\ req' \in Commands /\ req'.rev > req.rev /\ req'.rev > b.rev
           /\ req'.act = act /\ req'.inst = b.inst
           /\ req'.enabled = IF on THEN "on" ELSE "off"
<1>1. b.rev \in Nat /\ req.rev \in Nat /\ b.inst \in Nat
  BY DEF Reports, Commands
<1> DEFINE rev == 1 + IF b.rev > req.rev THEN b.rev ELSE req.rev
<1>2. rev \in Nat /\ rev > req.rev /\ rev > b.rev
  BY <1>1
<1>3. req' = [rev |-> rev, act |-> act, enabled |-> IF on THEN "on" ELSE "off", inst |-> b.inst]
  BY DEF Publish
<1> HIDE DEF rev
<1> QED BY <1>1, <1>2, <1>3 DEF Commands

\* A command whose act was never used is in nobody's hands yet.
LEMMA PublishOrderly ==
    ASSUME SInv, CountsOK', counts.commands <= counts'.commands,
           counts.troubles <= counts'.troubles, UNCHANGED <<bst, br>>,
           NEW act \in Acts, act # NoAct, ~Used(act), UsedBy(act, counts'),
           NEW on \in BOOLEAN, Publish(bst, on, act), wait' \in {wait, 0, req'.rev}
    PROVE  ApiOK' /\ Orderly'
<1>1. bst \in Reports /\ req \in Commands /\ wait \in Nat /\ wait <= req.rev /\ bst.inst <= br.inst
  BY DEF SInv, ApiOK
<1>2. /\ req' \in Commands /\ req'.rev > req.rev /\ req'.act = act /\ req'.inst = bst.inst
  BY <1>1, PublishTypes
<1>3. req'.rev \in Nat /\ req.rev \in Nat /\ bst.inst \in Nat
  BY <1>1, <1>2 DEF Commands, Reports
<1>4. ApiOK'
  BY <1>1, <1>2, <1>3 DEF SInv, ApiOK
<1>5. bst.act \in Acts /\ br.act \in Acts
  BY DEF SInv, ApiOK, Reports, BridgeOK, Bridges
<1>6. \A i \in DOMAIN br.queue : br.queue[i].act \in Acts
  <2>1. br.queue \in Seq(Orders)
    BY DEF SInv, BridgeOK, Bridges
  <2>2. \A i \in DOMAIN br.queue : br.queue[i] \in Orders
    BY <2>1
  <2> QED BY <2>2 DEF Orders
<1>7. \A x \in Acts : Used(x) => UsedBy(x, counts')
  BY UsedGrows DEF SInv
<1>8. act # bst.act /\ act # br.act /\ \A i \in DOMAIN br.queue : br.queue[i].act # act
  BY DEF SInv, Orderly
<1>9. Orderly'
  BY <1>2, <1>5, <1>6, <1>7, <1>8 DEF SInv, Orderly, Used
<1> QED BY <1>4, <1>9

\* The act of a new command is new.
LEMMA CommandFresh ==
    ASSUME CountsOK
    PROVE  /\ Command \in Acts /\ Command # NoAct /\ ~Used(Command)
           /\ \A c : c.commands = counts.commands + 1 => UsedBy(Command, c)
<1>1. counts.commands \in Nat
  BY DEF CountsOK
<1> QED BY <1>1 DEF Command, NoAct, Used, UsedBy, Acts

\* Steps that leave the Discord process and the bridge alone.
LEMMA BotStep ==
    ASSUME SInv, UNCHANGED <<discord, dst, wire, br>>, ManagerOK', issued' \in Nat, issued <= issued',
           CountsOK', ApiOK', ClaimsOK', Orderly'
    PROVE  SInv'
<1>1. issued \in Nat /\ UNCHANGED <<disc, lis, cl>>
  BY ManagerFacts DEF discord
<1>2. DiscordOK' /\ ClientOK' /\ BridgeOK'
  BY <1>1, DiscordStays, ClientStays, BridgeStays DEF SInv
<1> QED BY <1>2 DEF SInv

\* The microphone is turned on.
LEMMA LocalOnTypes ==
    ASSUME SInv, NEW o, SeenOK(o, bst), LocalOn(o)
    PROVE  SInv' /\ counts'.late = counts.late
<1> DEFINE a == Acquire(mem, Local, o[Local].inst, o, issued + 1)
<1>1. PICK out \in Outcomes(a) :
          /\ Commit(a, out)
          /\ counts' = [counts EXCEPT !.commands = @ + 1, !.troubles = @ + Faulted(a, out)]
          /\ IF Result(a, out) # 0 THEN Publish(bst, TRUE, Command) /\ wait' = req'.rev
             ELSE UNCHANGED <<req, wait>>
  BY DEF LocalOn
<1>2. ~failed /\ UNCHANGED <<claims, bst, wire, discord, dst, br, disc>> /\ o[Local].inst # 0
  BY DEF LocalOn, discord
<1>3. o[Local].inst \in Nat \ {0}
  BY <1>2 DEF SeenOK, SInv, ApiOK, Reports
<1>4. Sound(a)
  <2>1. Sound(Guarded(a))
    BY <1>3, ManagerFacts, AcquireSound
  <2> HIDE DEF a
  <2> QED BY <1>2, <2>1 DEF Guarded
<1> HIDE DEF a
<1>5. /\ ManagerOK' /\ issued' \in Nat /\ issued <= issued' /\ Faulted(a, out) \in Nat
  BY <1>1, <1>2, <1>4, CommitTypes DEF SInv
<1>6. /\ counts.commands \in Nat /\ counts.troubles \in Nat /\ counts.late \in Nat
      /\ issued \in Nat /\ CountsOK
  BY ManagerFacts DEF SInv, CountsOK
<1>7. /\ CountsOK' /\ counts'.commands = counts.commands + 1 /\ counts'.late = counts.late
      /\ counts'.troubles = counts.troubles + Faulted(a, out)
  <2>1. counts.commands + 1 \in Nat /\ counts.troubles + Faulted(a, out) \in Nat
    BY <1>5, <1>6
  <2> QED BY <1>1, <1>6, <2>1 DEF CountsOK
<1>8. counts.commands <= counts'.commands /\ counts.troubles <= counts'.troubles
  BY <1>5, <1>6, <1>7
<1>9. ApiOK' /\ Orderly'
  <2>1. CASE Publish(bst, TRUE, Command) /\ wait' = req'.rev
    BY <1>2, <1>6, <1>7, <1>8, <2>1, CommandFresh, PublishOrderly
  <2>2. CASE UNCHANGED <<req, wait>>
    <3>1. br'.inst \in Nat /\ br.inst <= br'.inst
      BY <1>2 DEF SInv, BridgeOK, Bridges
    <3> QED BY <1>2, <1>7, <1>8, <2>2, <3>1, ApiStays, OrderlyStays DEF SInv
  <2> QED BY <1>1, <2>1, <2>2
<1>10. ClaimsOK'
  BY <1>2, <1>5, <1>6, ClaimsStay DEF SInv
<1> QED BY <1>2, <1>5, <1>7, <1>9, <1>10, BotStep

\* The microphone is turned off.
LEMMA LocalOffTypes ==
    ASSUME SInv, NEW waits \in BOOLEAN, LocalOff(waits)
    PROVE  SInv' /\ counts'.late = counts.late
<1>1. /\ UNCHANGED <<file, mem, failed, claims, bst, wire, discord, dst, br, issued, disc>>
      /\ Count("commands") /\ Publish(bst, FALSE, Command) /\ wait' \in {wait, 0, req'.rev}
  BY DEF LocalOff, discord
<1>2. /\ CountsOK' /\ counts'.commands = counts.commands + 1 /\ counts'.late = counts.late
      /\ counts.commands <= counts'.commands /\ counts.troubles <= counts'.troubles
  BY <1>1, CountTypes DEF SInv
<1>3. ApiOK' /\ Orderly'
  BY <1>1, <1>2, CommandFresh, PublishOrderly DEF SInv
<1>4. issued \in Nat /\ issued <= issued' /\ disc'.inst \in Nat /\ disc.inst <= disc'.inst
  BY <1>1, ManagerFacts DEF SInv, DiscordOK
<1>5. ManagerOK' /\ ClaimsOK'
  BY <1>1, <1>4, ManagerStays, ClaimsStay DEF SInv
<1> QED BY <1>1, <1>2, <1>3, <1>4, <1>5, BotStep

\* A handler stops waiting.
LEMMA HandlerEndsTypes ==
    ASSUME SInv, HandlerEnds
    PROVE  SInv' /\ counts'.late = counts.late
<1>1. /\ UNCHANGED <<file, mem, failed, claims, bst, req, wire, discord, dst, br, issued, disc, counts>>
      /\ wait' = 0
  BY DEF HandlerEnds, discord
<1>2. issued \in Nat /\ issued <= issued' /\ disc'.inst \in Nat /\ disc.inst <= disc'.inst
  BY <1>1, ManagerFacts DEF SInv, DiscordOK
<1>3. ManagerOK' /\ ClaimsOK'
  BY <1>1, <1>2, ManagerStays, ClaimsStay DEF SInv
<1>4. req.rev \in Nat
  BY DEF SInv, ApiOK, Commands
<1>5. CountsOK' /\ ApiOK' /\ Orderly'
  BY <1>1, <1>4 DEF SInv, CountsOK, ApiOK, Orderly, Used
<1> QED BY <1>1, <1>2, <1>3, <1>5, BotStep

\* A handler ends, and the local lease with it if nothing captures.
LEMMA FinishTypes ==
    ASSUME SInv, NEW o, FinishOff(o) \/ FinishFailedOn(o)
    PROVE  SInv' /\ counts'.late = counts.late
<1> DEFINE a == Guarded(ReleaseIfInactive(mem, Local, o[Local].inst, o))
<1>1. /\ UNCHANGED <<claims, bst, wire, discord, dst, br, disc>> /\ wait' = 0
      /\ req' = req \/ req' = [req EXCEPT !.enabled = "off"]
      /\ ReleaseLocal(o)
  BY DEF FinishOff, FinishFailedOn, discord
<1>2. PICK out \in Outcomes(a) : Commit(a, out)
                                 /\ counts' = [counts EXCEPT !.troubles = @ + Faulted(a, out)]
  BY <1>1 DEF ReleaseLocal
<1>3. Sound(a)
  BY InactiveSound
<1> HIDE DEF a
<1>4. /\ ManagerOK' /\ issued' \in Nat /\ issued <= issued' /\ CountsOK'
      /\ counts.commands <= counts'.commands /\ counts.troubles <= counts'.troubles
      /\ counts'.late = counts.late
  BY <1>1, <1>2, <1>3, Committed
<1>5. ClaimsOK'
  BY <1>1, <1>4, ManagerFacts, ClaimsStay DEF SInv
<1>6. /\ req \in Commands /\ req' \in Commands /\ req'.rev = req.rev /\ req'.act = req.act
      /\ req'.inst = req.inst
      /\ req'.enabled # "unset" => req.enabled # "unset" \/ req.act # NoAct
  <2>1. req \in Commands
    BY DEF SInv, ApiOK
  <2>2. FinishFailedOn(o) => req.enabled = "on"
    BY DEF FinishFailedOn
  <2>3. FinishOff(o) => req' = req
    BY DEF FinishOff
  <2> QED BY <1>1, <2>1, <2>2, <2>3 DEF Commands
<1>7. ApiOK'
  <2>1. req.rev \in Nat /\ (req'.enabled # "unset" => req.act # NoAct)
    BY <1>6 DEF Commands, SInv, ApiOK
  <2> QED BY <1>1, <1>6, <2>1 DEF SInv, ApiOK
<1>8. Orderly'
  <2>1. bst.act \in Acts /\ br.act \in Acts /\ req.act \in Acts
    BY DEF SInv, ApiOK, Reports, Commands, BridgeOK, Bridges
  <2>2. \A i \in DOMAIN br.queue : br.queue[i].act \in Acts
    <3>1. br.queue \in Seq(Orders)
      BY DEF SInv, BridgeOK, Bridges
    <3>2. \A i \in DOMAIN br.queue : br.queue[i] \in Orders
      BY <3>1
    <3> QED BY <3>2 DEF Orders
  <2>3. \A x \in Acts : Used(x) => UsedBy(x, counts')
    BY <1>4, UsedGrows DEF SInv
  <2> QED BY <1>1, <1>6, <2>1, <2>2, <2>3 DEF SInv, Orderly, Used
<1> QED BY <1>1, <1>4, <1>5, <1>7, <1>8, BotStep

\* Claims are added, attested and removed.
LEMMA ClaimsTypes ==
    ASSUME SInv, PrepareRetirement \/ \E c \in claims : AttestStopped(c) \/ ExpireClaim(c)
    PROVE  SInv' /\ counts'.late = counts.late
<1>1. /\ UNCHANGED <<file, mem, failed, bst, req, wait, wire, discord, dst, br, issued, counts, disc>>
  BY DEF PrepareRetirement, AttestStopped, ExpireClaim, discord
<1>2. /\ claims \subseteq Claims /\ IsFiniteSet(claims) /\ Cardinality(claims) <= MaxClaims
      /\ Cardinality(claims) \in Nat /\ MaxClaims \in Nat
  BY FS_CardinalityType, LeaseAssumption DEF SInv, ClaimsOK
<1>3. Claims' = Claims
  BY <1>1 DEF Claims, Holders
<1>4. ClaimsOK'
  <2>1. CASE PrepareRetirement
    <3> DEFINE x == [by |-> mem.by, stopped |-> FALSE]
    <3>1. claims' = claims \cup {x} /\ mem.phase = "owned" /\ mem.by.src = Discord
          /\ Cardinality(claims) < MaxClaims
      BY <2>1 DEF PrepareRetirement
    <3>2. mem.by \in Holders /\ mem.by.inst <= disc.inst
      BY <3>1, LeasesAre, LeaseShape DEF SInv, ManagerOK
    <3>3. x \in Claims /\ x.by.src = Discord /\ x.by.inst <= disc.inst /\ ~x.stopped
      BY <3>1, <3>2 DEF Claims
    <3> HIDE DEF x
    <3>4. /\ IsFiniteSet(claims \cup {x})
          /\ Cardinality(claims \cup {x}) = IF x \in claims THEN Cardinality(claims) ELSE Cardinality(claims) + 1
      BY <1>2, FS_AddElement
    <3>5. Cardinality(claims') <= MaxClaims
      BY <1>2, <3>1, <3>4
    <3> QED BY <1>1, <1>2, <1>3, <3>1, <3>3, <3>4, <3>5 DEF SInv, ClaimsOK
  <2>2. ASSUME NEW c \in claims, ExpireClaim(c) PROVE ClaimsOK'
    <3>1. claims' = claims \ {c}
      BY <2>2 DEF ExpireClaim
    <3>2. IsFiniteSet(claims \ {c}) /\ Cardinality(claims \ {c}) = Cardinality(claims) - 1
      BY <1>2, FS_RemoveElement
    <3>3. Cardinality(claims') <= MaxClaims
      BY <1>2, <3>1, <3>2
    <3> QED BY <1>1, <1>2, <1>3, <3>1, <3>2, <3>3 DEF SInv, ClaimsOK
  <2>3. ASSUME NEW c \in claims, AttestStopped(c) PROVE ClaimsOK'
    <3> DEFINE x == [c EXCEPT !.stopped = TRUE]  d == claims \ {c}
    <3>1. claims' = d \cup {x} /\ ~disc.up
      BY <2>3 DEF AttestStopped
    <3>2. c \in Claims /\ c.by.src = Discord /\ c.by.inst <= disc.inst
      BY <1>2 DEF SInv, ClaimsOK
    <3>3. x \in Claims /\ x.by = c.by
      BY <3>2 DEF Claims
    <3>4. d \subseteq claims /\ IsFiniteSet(d) /\ Cardinality(d) = Cardinality(claims) - 1
      BY <1>2, FS_RemoveElement
    <3> HIDE DEF x, d
    <3>5. /\ IsFiniteSet(d \cup {x})
          /\ Cardinality(d \cup {x}) = IF x \in d THEN Cardinality(d) ELSE Cardinality(d) + 1
      BY <3>4, FS_AddElement
    <3>6. Cardinality(claims') <= MaxClaims
      BY <1>2, <3>1, <3>4, <3>5
    <3> QED BY <1>1, <1>2, <1>3, <3>1, <3>2, <3>3, <3>4, <3>5, <3>6 DEF SInv, ClaimsOK
  <2> QED BY <2>1, <2>2, <2>3
<1>5. issued \in Nat /\ issued <= issued' /\ disc'.inst \in Nat /\ disc.inst <= disc'.inst
  BY <1>1, ManagerFacts DEF SInv, DiscordOK
<1>6. CountsOK' /\ ApiOK' /\ Orderly' /\ ManagerOK'
  BY <1>1, <1>5, ManagerStays DEF SInv, CountsOK, ApiOK, Orderly, Used
<1> QED BY <1>1, <1>4, <1>5, <1>6, BotStep

\* A claim that was attested is used up.
LEMMA CompleteRetirementTypes ==
    ASSUME SInv, NEW c \in claims, CompleteRetirement(c)
    PROVE  SInv' /\ counts'.late = counts.late
<1> DEFINE a == Guarded(Release(mem, c.by))
<1>1. UNCHANGED <<bst, req, wait, wire, discord, dst, br, disc>> /\ claims' = claims \ {c}
  BY DEF CompleteRetirement, discord
<1>2. PICK out \in Outcomes(a) : Commit(a, out)
                                 /\ counts' = [counts EXCEPT !.troubles = @ + Faulted(a, out)]
  BY DEF CompleteRetirement
<1>3. Sound(a)
  BY ReleaseSound
<1> HIDE DEF a
<1>4. /\ ManagerOK' /\ issued' \in Nat /\ issued <= issued' /\ CountsOK'
      /\ counts.commands <= counts'.commands /\ counts.troubles <= counts'.troubles
      /\ counts'.late = counts.late
  BY <1>1, <1>2, <1>3, Committed
<1>5. ClaimsOK'
  <2>1. /\ claims \subseteq Claims /\ IsFiniteSet(claims) /\ Cardinality(claims) <= MaxClaims
        /\ Cardinality(claims) \in Nat /\ MaxClaims \in Nat
    BY FS_CardinalityType, LeaseAssumption DEF SInv, ClaimsOK
  <2>2. IsFiniteSet(claims \ {c}) /\ Cardinality(claims \ {c}) = Cardinality(claims) - 1
    BY <2>1, FS_RemoveElement
  <2>3. Cardinality(claims') <= MaxClaims
    BY <1>1, <2>1, <2>2
  <2>4. HoldersTo(issued) \subseteq HoldersTo(issued')
    BY <1>4, ManagerFacts, LeasesGrow
  <2>5. Holders = HoldersTo(issued) /\ Holders' = HoldersTo(issued')
    BY DEF Holders, HoldersTo
  <2>6. Claims \subseteq Claims'
    BY <2>4, <2>5 DEF Claims
  <2> QED BY <1>1, <2>1, <2>2, <2>3, <2>6 DEF SInv, ClaimsOK
<1>6. ApiOK' /\ Orderly'
  <2>1. br'.inst \in Nat /\ br.inst <= br'.inst
    BY <1>1 DEF SInv, BridgeOK, Bridges
  <2> QED BY <1>1, <1>4, <2>1, ApiStays, OrderlyStays DEF SInv
<1> QED BY <1>1, <1>4, <1>5, <1>6, BotStep

\* The Bot API starts again from its file, or blocked if it cannot read it.
LEMMA BotRestartsTypes ==
    ASSUME SInv, NEW readable \in BOOLEAN, BotRestarts(readable)
    PROVE  SInv' /\ counts'.late = counts.late
<1>1. /\ UNCHANGED <<file, disc, lis, dst, br, issued>> /\ Count("troubles")
      /\ mem' = IF readable THEN file ELSE SetBlocked(Bootstrap)
      /\ failed' = ~readable /\ claims' = {} /\ bst' = NoReport /\ req' = NoReq /\ wait' = 0
      /\ wire' = <<>> /\ cl' = IF Waiting THEN [cl EXCEPT !.call.ans = "error"] ELSE cl
  BY DEF BotRestarts, Trouble
<1>2. issued \in Nat /\ file \in LeasesTo(issued) /\ NoHolder.src # Discord
  BY ManagerFacts
<1>3. ManagerOK'
  <2>1. Bootstrap \in LeasesTo(issued)
    BY DEF Bootstrap, Lease, LeasesTo
  <2>2. SetBlocked(Bootstrap) \in LeasesTo(issued) /\ SetBlocked(Bootstrap).by.src # Discord
    BY <1>2, <2>1, UnownedTypes
  <2>3. Leases' = LeasesTo(issued) /\ Leases = LeasesTo(issued)
    BY <1>1, LeasesAre DEF Leases, LeasesTo, Holders, HoldersTo
  <2> QED BY <1>1, <1>2, <2>2, <2>3 DEF SInv, ManagerOK
<1>4. CountsOK' /\ counts.commands <= counts'.commands /\ counts.troubles <= counts'.troubles
      /\ counts'.late = counts.late
  BY <1>1, CountTypes DEF SInv
<1>5. DiscordOK'
  <2>1. wire' \in Seq(Requests) /\ DOMAIN wire' = {}
    BY <1>1
  <2> QED BY <1>1, <2>1 DEF SInv, DiscordOK
<1>6. ClientOK'
  <2>1. cl \in Clients /\ Clients' = Clients
    BY <1>1 DEF SInv, ClientOK, Clients, Calls
  <2>2. CASE ~Waiting
    <3>1. cl' = cl
      BY <1>1, <2>2
    <3> QED BY <1>1, <2>1, <2>2, <3>1 DEF SInv, ClientOK, Waiting, Tokens
  <2>3. CASE Waiting
    <3>1. cl' = [cl EXCEPT !.call.ans = "error"] /\ cl.call # NoCall
      BY <1>1, <2>3 DEF Waiting, NoCall
    <3>2. /\ cl' \in Clients /\ cl'.call.ans = "error" /\ cl'.call.by = cl.call.by
          /\ cl'.call.act = cl.call.act
      BY <2>1, <3>1 DEF Clients, Calls
    <3>3. cl'.call # NoCall
      BY <3>2 DEF NoCall
    <3>4. cl.call.act # "none" /\ disc.up
      BY <3>1, ClientFacts DEF SInv, ClientOK
    <3> QED BY <1>1, <2>1, <3>1, <3>2, <3>3, <3>4 DEF SInv, ClientOK, Waiting, Tokens
  <2> QED BY <2>2, <2>3
<1>7. ClaimsOK'
  <2>1. IsFiniteSet({}) /\ Cardinality({}) = 0
    BY FS_EmptySet
  <2>2. 0 <= MaxClaims
    BY LeaseAssumption
  <2> QED BY <1>1, <2>1, <2>2 DEF ClaimsOK
<1>8. ApiOK'
  <2>1. NoReport \in Reports /\ NoReq \in Commands /\ NoReport.inst = 0 /\ NoReq.inst = 0
        /\ NoReq.rev = 0 /\ NoReq.enabled = "unset"
    BY DEF NoReport, NoReq, Reports, Commands, Acts
  <2>2. br.inst \in Nat
    BY DEF SInv, BridgeOK, Bridges
  <2> QED BY <1>1, <2>1, <2>2 DEF ApiOK
<1>9. Orderly'
  <2>1. br.act \in Acts /\ br.queue \in Seq(Orders)
    BY DEF SInv, BridgeOK, Bridges
  <2>2. \A i \in DOMAIN br.queue : br.queue[i] \in Orders
    BY <2>1
  <2>3. \A x \in Acts : Used(x) => UsedBy(x, counts')
    BY <1>4, UsedGrows DEF SInv
  <2>4. NoReport.act = NoAct /\ NoReq.act = NoAct /\ UsedBy(NoAct, counts')
    BY DEF NoReport, NoReq, UsedBy
  <2> QED BY <1>1, <2>1, <2>2, <2>3, <2>4 DEF SInv, Orderly, Used, Orders
<1>10. BridgeOK'
  BY <1>1, BridgeStays DEF SInv
<1> QED BY <1>3, <1>4, <1>5, <1>6, <1>7, <1>8, <1>9, <1>10 DEF SInv

-----------------------------------------------------------------------------
(* The steps of the Local Bridge keep SInv *)

\* The facts every step of the bridge starts from.
LEMMA BridgeFacts ==
    ASSUME SInv
    PROVE  /\ br \in Bridges /\ br.queue \in Seq(Orders) /\ br.act \in Acts /\ br.rev \in Nat
           /\ br.inst \in Nat \ {0} /\ bst \in Reports /\ bst.act \in Acts /\ bst.inst \in Nat
           /\ req \in Commands /\ req.act \in Acts /\ req.rev \in Nat /\ req.inst \in Nat
           /\ bst.inst <= br.inst /\ req.inst <= bst.inst /\ req.inst <= br.inst
           /\ \A i \in DOMAIN br.queue : /\ br.queue[i] \in Orders /\ br.queue[i].act \in Acts
                                         /\ br.queue[i].rev \in Nat
<1>1. /\ br \in Bridges /\ bst \in Reports /\ req \in Commands
      /\ bst.inst <= br.inst /\ req.inst <= bst.inst
  BY DEF SInv, BridgeOK, ApiOK
<1>2. /\ br.queue \in Seq(Orders) /\ br.act \in Acts /\ br.rev \in Nat /\ br.inst \in Nat \ {0}
      /\ bst.act \in Acts /\ bst.inst \in Nat /\ req.act \in Acts /\ req.rev \in Nat /\ req.inst \in Nat
  BY <1>1 DEF Bridges, Reports, Commands
<1>3. \A i \in DOMAIN br.queue : br.queue[i] \in Orders
  BY <1>2
<1>4. \A i \in DOMAIN br.queue : br.queue[i].act \in Acts /\ br.queue[i].rev \in Nat
  BY <1>3 DEF Orders
<1> QED BY <1>1, <1>2, <1>3, <1>4

\* Only the bridge and the counts change.
LEMMA BridgeStepKeeps ==
    ASSUME SInv, BridgeStep, UNCHANGED counts \/ Count("troubles"),
           BridgeOK', br.inst <= br'.inst, Orderly'
    PROVE  SInv' /\ counts'.late = counts.late
<1>1. UNCHANGED <<file, mem, failed, claims, bst, req, wait, wire, disc, lis, cl, dst, issued>>
  BY DEF BridgeStep, bot, discord
<1>2. CountsOK' /\ counts'.late = counts.late
  BY CountTypes DEF SInv, CountsOK
<1>3. issued \in Nat /\ issued <= issued' /\ disc'.inst \in Nat /\ disc.inst <= disc'.inst
      /\ br'.inst \in Nat
  BY <1>1, ManagerFacts DEF SInv, DiscordOK, BridgeOK, Bridges
<1>4. ManagerOK' /\ ClaimsOK' /\ ApiOK' /\ DiscordOK' /\ ClientOK'
  BY <1>1, <1>3, ManagerStays, ClaimsStay, ApiStays, DiscordStays, ClientStays DEF SInv
<1> QED BY <1>2, <1>4 DEF SInv

\* While an order is under way, no report tells of the last command.
LEMMA StartCaptureTypes ==
    ASSUME SInv, StartCapture
    PROVE  SInv' /\ counts'.late = counts.late
<1>1. /\ br' = [br EXCEPT !.mic = "on", !.st = "applying", !.want = TRUE]
      /\ br.queue # <<>> /\ UNCHANGED counts /\ BridgeStep /\ UNCHANGED <<bst, req>>
  BY DEF StartCapture, BridgeStep, bot
<1>2. /\ br' \in Bridges /\ br'.queue = br.queue /\ br'.act = br.act /\ br'.rev = br.rev
      /\ br'.inst = br.inst
  BY <1>1, BridgeFacts DEF Bridges
<1>3. BridgeOK' /\ br.inst <= br'.inst
  BY <1>2, BridgeFacts DEF SInv, BridgeOK
<1>4. Orderly'
  BY <1>1, <1>2 DEF SInv, Orderly, Used
<1> QED BY <1>1, <1>3, <1>4, BridgeStepKeeps

\* What the end of an order leaves of the bridge.
LEMMA AppliedFields ==
    ASSUME SInv, br.queue # <<>>, NEW st \in {"applied", "failed", "stuck"}, Applied(st)
    PROVE  /\ br' \in Bridges /\ br'.inst = br.inst /\ br'.queue = Tail(br.queue)
           /\ br'.act = br.queue[1].act /\ br'.rev = br.queue[1].rev
           /\ br'.st = st /\ br'.want = br.queue[1].on
           /\ br'.mic = IF st = "stuck" \/ (st = "failed" /\ ~br.queue[1].on) THEN br.mic
                        ELSE IF br.queue[1].on /\ st = "applied" THEN "on" ELSE "off"
<1> DEFINE h == br.queue[1]
           mic == IF st = "stuck" \/ (st = "failed" /\ ~h.on) THEN br.mic
                  ELSE IF h.on /\ st = "applied" THEN "on" ELSE "off"
           q == Tail(br.queue)
<1>1. 1 \in DOMAIN br.queue /\ h \in Orders /\ Head(br.queue) = h /\ q \in Seq(Orders)
  BY BridgeFacts
<1>2. h.rev \in Nat /\ h.act \in Acts /\ h.on \in BOOLEAN /\ br.mic \in {"on", "off"} /\ br \in Bridges
  BY <1>1, BridgeFacts DEF Orders, Bridges
<1>3. br' = [br EXCEPT !.st = st, !.rev = h.rev, !.act = h.act, !.queue = q, !.want = h.on,
                       !.mic = mic]
  BY <1>1 DEF Applied
<1>4. mic \in {"on", "off"}
  BY <1>2
<1> HIDE DEF h, mic, q
<1>5. /\ br' \in Bridges /\ br'.inst = br.inst /\ br'.queue = q /\ br'.act = h.act
      /\ br'.rev = h.rev /\ br'.st = st /\ br'.want = h.on /\ br'.mic = mic
  BY <1>1, <1>2, <1>3, <1>4 DEF Bridges
<1> QED BY <1>5 DEF h, mic, q

\* An order ends; if it was the last command, nothing is left in the queue.
LEMMA FinishCommandTypes ==
    ASSUME SInv, NEW st \in {"applied", "failed", "stuck"}, FinishCommand(st)
    PROVE  SInv' /\ counts'.late = counts.late
<1>1. /\ br.queue # <<>> /\ BridgeStep /\ Applied(st) /\ UNCHANGED <<bst, req>>
      /\ UNCHANGED counts \/ Count("troubles")
  BY DEF FinishCommand, BridgeStep, bot, Trouble
<1>2. /\ br' \in Bridges /\ br'.inst = br.inst /\ br'.queue = Tail(br.queue)
      /\ br'.act = br.queue[1].act /\ br'.rev = br.queue[1].rev
  BY <1>1, AppliedFields
<1>3. /\ Len(br.queue) \in Nat \ {0} /\ 1 \in DOMAIN br.queue
      /\ Len(Tail(br.queue)) = Len(br.queue) - 1
      /\ \A i \in DOMAIN Tail(br.queue) : i + 1 \in DOMAIN br.queue /\ Tail(br.queue)[i] = br.queue[i + 1]
      /\ Len(br.queue) = 1 => Tail(br.queue) = <<>>
  BY <1>1, BridgeFacts
<1>4. BridgeOK' /\ br.inst <= br'.inst
  <2>1. ASSUME NEW i \in DOMAIN br'.queue, NEW j \in DOMAIN br'.queue, i < j
        PROVE  br'.queue[i].rev < br'.queue[j].rev
    <3>1. i + 1 \in DOMAIN br.queue /\ j + 1 \in DOMAIN br.queue /\ i + 1 < j + 1
          /\ br'.queue[i] = br.queue[i + 1] /\ br'.queue[j] = br.queue[j + 1]
      BY <1>2, <1>3, <2>1, BridgeFacts
    <3> QED BY <3>1 DEF SInv, BridgeOK
  <2> QED BY <1>2, <2>1, BridgeFacts DEF BridgeOK
<1>5. CountsOK' /\ counts.commands <= counts'.commands /\ counts.troubles <= counts'.troubles
  BY <1>1, CountTypes DEF SInv, CountsOK
<1>6. \A x \in Acts : Used(x) => UsedBy(x, counts')
  BY <1>5, UsedGrows DEF SInv
<1>7. /\ Used(bst.act)' /\ Used(br.act)' /\ Used(req.act)'
      /\ \A i \in DOMAIN br'.queue : UsedBy(br'.queue[i].act, counts') /\ br'.queue[i].act # NoAct
  BY <1>1, <1>2, <1>3, <1>6, BridgeFacts DEF SInv, Orderly, Used
<1>8. ASSUME req.act # NoAct
      PROVE  /\ br'.act = req.act => br'.queue = <<>> /\ br'.rev >= req.rev
             /\ \A i \in DOMAIN br'.queue : br'.queue[i].act = req.act =>
                   i = Len(br'.queue) /\ br'.queue[i].rev >= req.rev
             /\ ~(bst.inst = br'.inst /\ bst.act = req.act)
  <2>1. /\ \A i \in DOMAIN br.queue : br.queue[i].act = req.act =>
               i = Len(br.queue) /\ br.queue[i].rev >= req.rev
        /\ ~(bst.inst = br.inst /\ bst.act = req.act)
    BY <1>1, <1>8 DEF SInv, Orderly
  <2>2. br'.act = req.act => br'.queue = <<>> /\ br'.rev >= req.rev
    BY <1>2, <1>3, <2>1
  <2>3. ASSUME NEW i \in DOMAIN br'.queue, br'.queue[i].act = req.act
        PROVE  i = Len(br'.queue) /\ br'.queue[i].rev >= req.rev
    <3>1. i + 1 \in DOMAIN br.queue /\ br'.queue[i] = br.queue[i + 1]
          /\ Len(br'.queue) = Len(br.queue) - 1
      BY <1>2, <1>3
    <3>2. i + 1 = Len(br.queue) /\ br.queue[i + 1].rev >= req.rev
      BY <2>1, <2>3, <3>1
    <3>3. i \in Nat
      BY <1>2, BridgeFacts
    <3> QED BY <1>3, <3>1, <3>2, <3>3
  <2> QED BY <1>2, <2>1, <2>2, <2>3
<1>9. Orderly'
  BY <1>1, <1>7, <1>8 DEF Orderly, Used
<1> QED BY <1>1, <1>4, <1>9, BridgeStepKeeps

\* The watchdog only turns the microphone off, or fails to.
LEMMA WatchdogTypes ==
    ASSUME SInv, NEW st \in {"failed", "stuck"}, WatchdogStops(st)
    PROVE  SInv' /\ counts'.late = counts.late
<1>1. /\ br' = [br EXCEPT !.mic = IF st = "stuck" THEN "on" ELSE "off", !.st = st, !.want = FALSE]
      /\ br.mic = "on" /\ Count("troubles") /\ BridgeStep /\ UNCHANGED <<bst, req>>
  BY DEF WatchdogStops, BridgeStep, bot, Trouble
<1>2. /\ br' \in Bridges /\ br'.queue = br.queue /\ br'.act = br.act /\ br'.rev = br.rev
      /\ br'.inst = br.inst
  BY <1>1, BridgeFacts DEF Bridges
<1>3. BridgeOK' /\ br.inst <= br'.inst
  BY <1>2, BridgeFacts DEF SInv, BridgeOK
<1>4. CountsOK' /\ counts.commands <= counts'.commands /\ counts.troubles <= counts'.troubles
  BY <1>1, CountTypes DEF SInv
<1>5. \A x \in Acts : Used(x) => UsedBy(x, counts')
  BY <1>4, UsedGrows DEF SInv
<1>6. Orderly'
  BY <1>1, <1>2, <1>5, BridgeFacts DEF SInv, Orderly, Used
<1> QED BY <1>1, <1>3, <1>6, BridgeStepKeeps

\* A new bridge has heard nothing, and no report is of its instance.
LEMMA BridgeRestartsTypes ==
    ASSUME SInv, BridgeRestarts
    PROVE  SInv' /\ counts'.late = counts.late
<1>1. /\ br' = NewBridge(br.inst + 1) /\ BridgeStep /\ UNCHANGED <<bst, req>>
      /\ UNCHANGED counts \/ Count("troubles")
  BY DEF BridgeRestarts, BridgeStep, bot, Trouble
<1>2. br.inst + 1 \in Nat \ {0} /\ bst.inst < br.inst + 1 /\ br.inst <= br.inst + 1
  BY BridgeFacts
<1>3. /\ br' \in Bridges /\ br'.queue = <<>> /\ br'.act = NoAct /\ br'.inst = br.inst + 1
  BY <1>1, <1>2 DEF NewBridge, Bridges, Acts
<1>4. BridgeOK' /\ br.inst <= br'.inst
  BY <1>2, <1>3 DEF BridgeOK
<1>5. CountsOK' /\ counts.commands <= counts'.commands /\ counts.troubles <= counts'.troubles
  BY <1>1, CountTypes DEF SInv, CountsOK
<1>6. \A x \in Acts : Used(x) => UsedBy(x, counts')
  BY <1>5, UsedGrows DEF SInv
<1>7. Orderly'
  BY <1>1, <1>2, <1>3, <1>6, BridgeFacts DEF SInv, Orderly, Used, UsedBy
<1> QED BY <1>1, <1>4, <1>7, BridgeStepKeeps

\* When a report shows that the last command has stopped the microphone.
ReportStops == /\ req.enabled = "off" /\ mem.by.src = Local
               /\ OffApplied(ReportOf(br), req) \/ EnableFailed(ReportOf(br), req)

\* The parts of a report: what it shows, what it ends, the command it may publish.
LEMMA ReportParts ==
    ASSUME SInv, Report
    PROVE  /\ bst' = ReportOf(br) /\ bst' \in Reports
           /\ bst'.inst = br.inst /\ bst'.mic = br.mic /\ bst'.rev = br.rev /\ bst'.act = br.act
           /\ bst'.st = br.st /\ bst'.want = br.want
           /\ UNCHANGED <<claims, wait, wire, discord, disc, lis, cl, dst>>
           /\ \/ ReportStops /\ \E d \in DiscordSeen : ReleaseLocal(Both(LocalFresh(bst'), d))
              \/ UNCHANGED <<mem, file, failed, issued, counts>>
           /\ \/ UNCHANGED req /\ (failed' => failed)
              \/ Publish(bst', FALSE, <<"persist", counts.troubles>>) /\ failed' /\ ~failed
           /\ Hear
<1>1. bst' = ReportOf(br)
  BY DEF Report, ReportOf
<1>2. br \in Bridges
  BY BridgeFacts
<1>3. /\ bst' \in Reports
      /\ bst'.inst = br.inst /\ bst'.mic = br.mic /\ bst'.rev = br.rev /\ bst'.act = br.act
      /\ bst'.st = br.st /\ bst'.want = br.want
  BY <1>1, <1>2, ReportFields
<1>4. \/ ReportStops /\ \E d \in DiscordSeen : ReleaseLocal(Both(LocalFresh(ReportOf(br)), d))
      \/ UNCHANGED <<mem, file, failed, issued, counts>>
  BY DEF Report, ReportOf, ReportStops
<1>5. \/ UNCHANGED req /\ (failed' => failed)
      \/ Publish(ReportOf(br), FALSE, <<"persist", counts.troubles>>) /\ failed' /\ ~failed
  <2>1. failed \in BOOLEAN
    BY ManagerFacts
  <2> QED BY <2>1 DEF Report, ReportOf
<1>6. Hear /\ UNCHANGED <<claims, wait, wire, discord, disc, lis, cl, dst>>
  BY DEF Report, discord
<1> QED BY <1>1, <1>3, <1>4, <1>5, <1>6

\* What a report does to the manager.
LEMMA ReportManager ==
    ASSUME SInv, Report
    PROVE  /\ ManagerOK' /\ issued' \in Nat /\ issued <= issued' /\ CountsOK'
           /\ counts.commands <= counts'.commands /\ counts.troubles <= counts'.troubles
           /\ counts'.late = counts.late
           /\ failed' /\ ~failed => counts'.troubles = counts.troubles + 1
<1>1. disc' = disc /\ bst' \in Reports
  BY ReportParts
<1>2. CASE UNCHANGED <<mem, file, failed, issued, counts>>
  <2>1. disc'.inst \in Nat /\ disc.inst <= disc'.inst /\ issued \in Nat
    BY <1>1, ManagerFacts DEF SInv, DiscordOK
  <2>2. ManagerOK'
    BY <1>2, <2>1, ManagerStays DEF SInv
  <2> QED BY <1>2, <2>1, <2>2 DEF SInv, CountsOK
<1>3. ASSUME NEW d \in DiscordSeen, ReleaseLocal(Both(LocalFresh(bst'), d))
      PROVE  /\ ManagerOK' /\ issued' \in Nat /\ issued <= issued' /\ CountsOK'
             /\ counts.commands <= counts'.commands /\ counts.troubles <= counts'.troubles
             /\ counts'.late = counts.late
             /\ failed' /\ ~failed => counts'.troubles = counts.troubles + 1
  <2> DEFINE o == Both(LocalFresh(bst'), d)
             a == Guarded(ReleaseIfInactive(mem, Local, o[Local].inst, o))
  <2>1. PICK out \in Outcomes(a) : Commit(a, out)
                                   /\ counts' = [counts EXCEPT !.troubles = @ + Faulted(a, out)]
    BY <1>3 DEF ReleaseLocal
  <2>2. Sound(a)
    BY InactiveSound
  <2> HIDE DEF a, o
  <2> QED BY <1>1, <2>1, <2>2, Committed
<1> QED BY <1>2, <1>3, ReportParts

\* What the bridge hears, if it hears anything.
LEMMA HearTypes ==
    ASSUME SInv, req' \in Commands, Hear
    PROVE  \/ br' = br
           \/ LET x == [rev |-> req'.rev, act |-> req'.act, on |-> req'.enabled = "on"]
                  n == Len(br.queue) IN
              /\ req'.enabled # "unset" /\ req'.inst = br.inst
              /\ x \in Orders /\ x.rev = req'.rev /\ x.act = req'.act /\ (x.on <=> req'.enabled = "on")
              /\ br' \in Bridges /\ br'.queue = Append(br.queue, x) /\ Len(br'.queue) = n + 1
              /\ br'.queue[n + 1] = x
              /\ \A i \in DOMAIN br'.queue : \/ i = n + 1
                                             \/ i \in DOMAIN br.queue /\ br'.queue[i] = br.queue[i]
              /\ \A i \in DOMAIN br.queue : br.queue[i].rev < req'.rev
              /\ br.queue = <<>> => br.rev < req'.rev
              /\ br'.inst = br.inst /\ br'.mic = br.mic /\ br'.act = br.act /\ br'.rev = br.rev
              /\ br'.st = br.st /\ br'.want = br.want
<1> DEFINE known == IF br.queue = <<>> THEN br.rev ELSE Last(br.queue).rev
           x == [rev |-> req'.rev, act |-> req'.act, on |-> req'.enabled = "on"]
           n == Len(br.queue)
           q == Append(br.queue, x)
<1>1. SUFFICES ASSUME br' # br
      PROVE  /\ req'.enabled # "unset" /\ req'.inst = br.inst
             /\ x \in Orders /\ x.rev = req'.rev /\ x.act = req'.act /\ (x.on <=> req'.enabled = "on")
             /\ br' \in Bridges /\ br'.queue = q /\ Len(br'.queue) = n + 1
             /\ br'.queue[n + 1] = x
             /\ \A i \in DOMAIN br'.queue : \/ i = n + 1
                                            \/ i \in DOMAIN br.queue /\ br'.queue[i] = br.queue[i]
             /\ \A i \in DOMAIN br.queue : br.queue[i].rev < req'.rev
             /\ br.queue = <<>> => br.rev < req'.rev
             /\ br'.inst = br.inst /\ br'.mic = br.mic /\ br'.act = br.act /\ br'.rev = br.rev
             /\ br'.st = br.st /\ br'.want = br.want
  OBVIOUS
<1>2. /\ req'.enabled # "unset" /\ req'.inst = br.inst /\ req'.rev > known
      /\ br' = [br EXCEPT !.queue = q]
  BY <1>1 DEF Hear
<1>3. req'.rev \in Nat /\ x \in Orders
  BY DEF Commands, Orders
<1>4. br \in Bridges /\ br.queue \in Seq(Orders) /\ n \in Nat
  BY BridgeFacts
<1>5. x.rev = req'.rev /\ x.act = req'.act /\ (x.on <=> req'.enabled = "on")
  OBVIOUS
<1> HIDE DEF x
<1>6. /\ q \in Seq(Orders) /\ Len(q) = n + 1 /\ q[n + 1] = x
      /\ \A i \in DOMAIN q : i = n + 1 \/ (i \in DOMAIN br.queue /\ q[i] = br.queue[i])
  BY <1>3, <1>4
<1>7. \A i \in DOMAIN br.queue : br.queue[i].rev < req'.rev
  <2>1. ASSUME NEW i \in DOMAIN br.queue PROVE br.queue[i].rev < req'.rev
    <3>1. n \in DOMAIN br.queue /\ br.queue # <<>> /\ i <= n /\ known = br.queue[n].rev
      BY <1>4 DEF Last
    <3>2. i < n => br.queue[i].rev < br.queue[n].rev
      BY <3>1 DEF SInv, BridgeOK
    <3>3. br.queue[i].rev \in Nat /\ br.queue[n].rev \in Nat
      BY <3>1, BridgeFacts
    <3> QED BY <1>2, <1>3, <1>4, <3>1, <3>2, <3>3
  <2> QED BY <2>1
<1>8. br.queue = <<>> => br.rev < req'.rev
  BY <1>2, <1>3, BridgeFacts
<1> HIDE DEF q, n, known
<1>9. /\ br' \in Bridges /\ br'.queue = q
      /\ br'.inst = br.inst /\ br'.mic = br.mic /\ br'.act = br.act /\ br'.rev = br.rev
      /\ br'.st = br.st /\ br'.want = br.want
  BY <1>2, <1>4, <1>6 DEF Bridges
<1> QED BY <1>2, <1>3, <1>5, <1>6, <1>7, <1>8, <1>9

\* A report keeps commands in their places: the bridge never hears of one twice.
LEMMA ReportTypes ==
    ASSUME SInv, Report
    PROVE  SInv' /\ counts'.late = counts.late
<1>1. /\ bst' \in Reports
      /\ bst'.inst = br.inst /\ bst'.mic = br.mic /\ bst'.rev = br.rev /\ bst'.act = br.act
      /\ UNCHANGED <<claims, wait, wire, disc, lis, cl, dst>>
      /\ \/ UNCHANGED req /\ (failed' => failed)
         \/ Publish(bst', FALSE, <<"persist", counts.troubles>>) /\ failed' /\ ~failed
      /\ Hear
  BY ReportParts
<1>2. /\ ManagerOK' /\ issued' \in Nat /\ issued <= issued' /\ CountsOK'
      /\ counts.commands <= counts'.commands /\ counts.troubles <= counts'.troubles
      /\ counts'.late = counts.late
      /\ failed' /\ ~failed => counts'.troubles = counts.troubles + 1
  BY ReportManager
<1> DEFINE act == <<"persist", counts.troubles>>
<1>3. counts.troubles \in Nat /\ act \in Acts /\ act # NoAct /\ ~Used(act)
  BY DEF SInv, CountsOK, Acts, NoAct, Used, UsedBy
<1>4. failed' /\ ~failed => UsedBy(act, counts')
  BY <1>2, <1>3 DEF UsedBy
<1>5. issued \in Nat
  BY ManagerFacts
<1> HIDE DEF act
<1>6. \/ req' = req
      \/ /\ req' \in Commands /\ req'.rev > req.rev /\ req'.act = act /\ req'.inst = bst'.inst
         /\ req'.enabled = "off" /\ UsedBy(act, counts')
  <2>1. CASE Publish(bst', FALSE, act) /\ failed' /\ ~failed
    BY <1>1, <1>3, <1>4, <2>1, BridgeFacts, PublishTypes
  <2> QED BY <1>1, <2>1 DEF act
<1>7. req' \in Commands /\ req'.rev \in Nat /\ req.rev <= req'.rev /\ req'.inst <= br.inst
      /\ (req'.enabled # "unset" => req'.act # NoAct)
  <2>1. req' \in Commands /\ (req'.enabled # "unset" => req'.act # NoAct)
    BY <1>3, <1>6, BridgeFacts DEF SInv, ApiOK
  <2>2. req'.rev \in Nat
    BY <2>1 DEF Commands
  <2> QED BY <1>1, <1>6, <2>1, <2>2, BridgeFacts
<1>8. br'.inst = br.inst /\ br'.act = br.act /\ br'.mic = br.mic /\ br'.rev = br.rev
  BY <1>1, <1>7, HearTypes
<1>9. ApiOK'
  <2>1. wait \in Nat /\ wait <= req.rev /\ br.inst \in Nat \ {0} /\ req.rev \in Nat
    BY BridgeFacts DEF SInv, ApiOK
  <2> QED BY <1>1, <1>7, <1>8, <2>1 DEF ApiOK
<1>10. BridgeOK'
  <2>1. CASE br' = br
    BY <2>1, BridgeStays DEF SInv
  <2>2. CASE br' # br
    <3> DEFINE n == Len(br.queue)
    <3>1. /\ br' \in Bridges /\ br'.queue[n + 1].rev = req'.rev /\ Len(br'.queue) = n + 1
          /\ \A i \in DOMAIN br'.queue : i = n + 1 \/ (i \in DOMAIN br.queue /\ br'.queue[i] = br.queue[i])
          /\ \A i \in DOMAIN br.queue : br.queue[i].rev < req'.rev
      BY <1>1, <1>7, <2>2, HearTypes
    <3>2. \A i \in DOMAIN br.queue : i <= n /\ n \in Nat /\ i \in Nat
      BY BridgeFacts
    <3>3. br'.queue \in Seq(Orders) /\ n \in Nat
      BY <3>1, BridgeFacts DEF Bridges
    <3> HIDE DEF n
    <3>4. ASSUME NEW i \in DOMAIN br'.queue, NEW j \in DOMAIN br'.queue, i < j
          PROVE  br'.queue[i].rev < br'.queue[j].rev
      <4>1. i \in Nat /\ j \in Nat /\ j <= n + 1
        BY <3>1, <3>3
      <4>2. i # n + 1
        BY <3>3, <3>4, <4>1
      <4>3. i \in DOMAIN br.queue /\ br'.queue[i] = br.queue[i]
        BY <3>1, <4>2
      <4>4. CASE j = n + 1
        BY <3>1, <4>3, <4>4
      <4>5. CASE j # n + 1
        <5>1. j \in DOMAIN br.queue /\ br'.queue[j] = br.queue[j]
          BY <3>1, <4>5
        <5> QED BY <3>4, <4>3, <5>1 DEF SInv, BridgeOK
      <4> QED BY <4>4, <4>5
    <3> QED BY <3>1, <3>4 DEF BridgeOK
  <2> QED BY <2>1, <2>2
<1>11. \A x \in Acts : Used(x) => UsedBy(x, counts')
  BY <1>2, UsedGrows DEF SInv
<1>12. UsedBy(bst'.act, counts') /\ UsedBy(br'.act, counts') /\ UsedBy(req'.act, counts')
  BY <1>1, <1>6, <1>8, <1>11, BridgeFacts DEF SInv, Orderly
<1>13. \A i \in DOMAIN br.queue : UsedBy(br.queue[i].act, counts') /\ br.queue[i].act # NoAct
  BY <1>11, BridgeFacts DEF SInv, Orderly
<1>14. \A i \in DOMAIN br'.queue : UsedBy(br'.queue[i].act, counts') /\ br'.queue[i].act # NoAct
  <2>1. CASE br' = br
    BY <1>13, <2>1
  <2>2. CASE br' # br
    <3>1. /\ br'.queue[Len(br.queue) + 1].act = req'.act /\ req'.enabled # "unset"
          /\ \A i \in DOMAIN br'.queue : \/ i = Len(br.queue) + 1
                                         \/ i \in DOMAIN br.queue /\ br'.queue[i] = br.queue[i]
      BY <1>1, <1>7, <2>2, HearTypes
    <3> QED BY <1>7, <1>12, <1>13, <3>1
  <2> QED BY <2>1, <2>2
<1>15. ASSUME req'.act # NoAct
       PROVE  /\ br.act = req'.act => br.queue = <<>> /\ br.rev >= req'.rev
              /\ \A i \in DOMAIN br.queue : br.queue[i].act = req'.act =>
                    i = Len(br.queue) /\ br.queue[i].rev >= req'.rev
  <2>1. CASE req' = req
    BY <1>15, <2>1 DEF SInv, Orderly
  <2>2. CASE req'.act = act
    BY <1>3, <2>2 DEF SInv, Orderly
  <2> QED BY <1>6, <2>1, <2>2
<1>16. ASSUME req'.act # NoAct
       PROVE  /\ br'.act = req'.act => br'.queue = <<>> /\ br'.rev >= req'.rev
              /\ \A i \in DOMAIN br'.queue : br'.queue[i].act = req'.act =>
                    i = Len(br'.queue) /\ br'.queue[i].rev >= req'.rev
  <2>1. CASE br' = br
    BY <1>15, <1>16, <2>1
  <2>2. CASE br' # br
    <3> DEFINE n == Len(br.queue)
    <3>1. /\ br'.queue[n + 1].rev = req'.rev /\ Len(br'.queue) = n + 1
          /\ \A i \in DOMAIN br'.queue : i = n + 1 \/ (i \in DOMAIN br.queue /\ br'.queue[i] = br.queue[i])
          /\ \A i \in DOMAIN br.queue : br.queue[i].rev < req'.rev
          /\ br.queue = <<>> => br.rev < req'.rev
      BY <1>1, <1>7, <2>2, HearTypes
    <3>2. br.rev \in Nat /\ \A i \in DOMAIN br.queue : br.queue[i].rev \in Nat
      BY BridgeFacts
    <3>3. br'.act # req'.act
      BY <1>7, <1>8, <1>15, <1>16, <3>1, <3>2
    <3>4. \A i \in DOMAIN br.queue : br.queue[i].act # req'.act
      BY <1>7, <1>15, <1>16, <3>1, <3>2
    <3> HIDE DEF n
    <3> QED BY <1>7, <3>1, <3>3, <3>4
  <2> QED BY <2>1, <2>2
<1>17. Orderly'
  <2>1. ASSUME req'.act # NoAct, bst'.inst = br'.inst, bst'.act = req'.act
        PROVE  br'.queue = <<>> /\ br'.act = bst'.act /\ (br'.mic = "on" => bst'.mic = "on")
    BY <1>1, <1>8, <1>16, <2>1
  <2> QED BY <1>12, <1>14, <1>16, <2>1 DEF Orderly, Used
<1>18. ClaimsOK' /\ DiscordOK' /\ ClientOK'
  BY <1>1, <1>2, <1>5, ClaimsStay, DiscordStays, ClientStays DEF SInv
<1> QED BY <1>2, <1>9, <1>10, <1>17, <1>18 DEF SInv

-----------------------------------------------------------------------------
(* Type correctness *)

\* SInv holds at the start.
LEMMA InitTypes == Init => SInv
<1> SUFFICES ASSUME Init PROVE SInv
  OBVIOUS
<1> USE DEF Init
<1>1. ManagerOK
  <2>1. Bootstrap \in Leases
    BY DEF Bootstrap, Lease, Leases
  <2>2. Bootstrap.by = NoHolder /\ NoHolder.src # Discord
    BY DEF Bootstrap, Lease, NoHolder, Discord
  <2> QED BY <2>1, <2>2 DEF ManagerOK
<1>2. ClaimsOK
  <2>1. IsFiniteSet({}) /\ Cardinality({}) = 0 /\ 0 <= MaxClaims
    BY FS_EmptySet, LeaseAssumption
  <2> QED BY <2>1 DEF ClaimsOK
<1>3. /\ NoReport \in Reports /\ NoReq \in Commands /\ NoReport.inst = 0 /\ NoReq.inst = 0
      /\ NoReq.rev = 0 /\ NoReq.enabled = "unset" /\ NoReport.act = NoAct /\ NoReq.act = NoAct
  BY DEF NoReport, NoReq, Reports, Commands, Acts
<1>4. /\ br \in Bridges /\ br.queue = <<>> /\ br.act = NoAct /\ br.inst = 1
  <2>1. NoAct \in Acts /\ 1 \in Nat \ {0}
    BY DEF Acts
  <2> QED BY <2>1 DEF NewBridge, Bridges
<1>5. ApiOK /\ BridgeOK /\ Orderly
  BY <1>3, <1>4 DEF ApiOK, BridgeOK, Orderly, Used, UsedBy
<1>6. DiscordOK
  BY DEF DiscordOK
<1>7. ClientOK
  <2>1. NoClient.call = NoCall /\ NoCall.act = "none" /\ NoCall.ans = "none"
    BY DEF NoClient, NoCall
  <2>2. NoClient \in Clients
    BY DEF NoClient, NoCall, Clients, Calls
  <2>3. AllIdle \in [Listeners -> {"idle", "asking", "leased", "on", "draining", "stopped"}]
        /\ \A l \in Listeners : AllIdle[l] = "idle"
    BY DEF AllIdle
  <2> QED BY <2>1, <2>2, <2>3 DEF ClientOK, Waiting
<1>8. CountsOK
  BY DEF CountsOK
<1> QED BY <1>1, <1>2, <1>5, <1>6, <1>7, <1>8 DEF SInv

\* The steps of Next, one after the other; what is done to a listener that moves.
LEMMA Steps ==
    ASSUME SInv, Next
    PROVE  \/ \E o \in InputObservations : wire # <<>> /\ Serve(o)
           \/ \E l \in Listeners : Acquired(l)
           \/ \E l \in Listeners : ReleaseToken(l)
           \/ Released \/ Retry \/ RetryAcquired \/ Cancel
           \/ \E lost \in BOOLEAN : TimeOut(lost)
           \/ \E l \in Listeners : AskAcquire(l)
           \/ \E l \in Listeners : Listen(l) \/ NotBound(l) \/ StopListening(l) \/ CaptureStopped(l)
           \/ Heartbeat \/ DiscordStops \/ DiscordStarts
           \/ \E o \in InputObservations : LocalOn(o)
           \/ \E o \in PhysicalObservations : FinishOff(o) \/ FinishFailedOn(o)
           \/ \E waits \in BOOLEAN : LocalOff(waits)
           \/ HandlerEnds \/ Report \/ StartCapture
           \/ \E st \in {"applied", "failed", "stuck"} : FinishCommand(st)
           \/ \E st \in {"failed", "stuck"} : WatchdogStops(st)
           \/ BridgeRestarts
           \/ PrepareRetirement \/ \E c \in claims : AttestStopped(c) \/ ExpireClaim(c)
           \/ \E c \in claims : CompleteRetirement(c)
           \/ \E readable \in BOOLEAN : BotRestarts(readable)
BY DEF Next, ServeNext, Client

\* How a listener moves.
LEMMA ListenerMoves ==
    ASSUME SInv, NEW l \in Listeners, Listen(l) \/ NotBound(l) \/ StopListening(l) \/ CaptureStopped(l)
    PROVE  /\ lis[l] \in {"leased", "on", "draining"}
           /\ \E to \in {"on", "draining", "stopped"} : lis' = [lis EXCEPT ![l] = to]
           /\ UNCHANGED <<file, bot, wire, cl, dst, br, issued, counts>>
           /\ disc' = disc \/ \E b \in BOOLEAN : disc' = [disc EXCEPT !.listened = b]
<1>1. CASE Listen(l)
  <2>1. (counts.late < MaxLate) \in BOOLEAN
    OBVIOUS
  <2> QED BY <1>1, <2>1 DEF Listen
<1>2. CASE NotBound(l) \/ StopListening(l) \/ CaptureStopped(l)
  BY <1>2 DEF NotBound, StopListening, CaptureStopped, Move
<1> QED BY <1>1, <1>2

\* Every step keeps it, and late heartbeats are only added.
LEMMA NextTypes ==
    ASSUME SInv, Next
    PROVE  SInv' /\ counts.late \in Nat /\ counts.late <= counts'.late
<1>1. counts.late \in Nat /\ CountsOK /\ ApiOK /\ DiscordOK
  BY DEF SInv, CountsOK
<1>2. ASSUME UNCHANGED counts PROVE counts.late <= counts'.late
  BY <1>1, <1>2
<1>3. ASSUME NEW o \in InputObservations, wire # <<>>, Serve(o) PROVE SInv' /\ counts'.late = counts.late
  BY <1>1, <1>3, InputSeen, ServeTypes
<1>4. ASSUME NEW l \in Listeners, Acquired(l) \/ ReleaseToken(l) PROVE SInv' /\ UNCHANGED counts
  BY <1>4, AcquiredTypes, ReleaseTokenTypes DEF Acquired, ReleaseToken
<1>5. ASSUME Released \/ Retry \/ RetryAcquired \/ Cancel PROVE SInv' /\ UNCHANGED counts
  BY <1>5, ReleasedTypes, RetryTypes, RetryAcquiredTypes, CancelTypes
  DEF Released, Retry, RetryAcquired, Cancel
<1>6. ASSUME NEW lost \in BOOLEAN, TimeOut(lost) PROVE SInv' /\ counts'.late = counts.late
  BY <1>1, <1>6, TimeOutTypes, CountTypes DEF TimeOut, Trouble
<1>7. ASSUME NEW l \in Listeners, AskAcquire(l) PROVE SInv' /\ counts'.late = counts.late
  BY <1>1, <1>7, AskAcquireTypes, CountTypes DEF AskAcquire
<1>8. ASSUME NEW l \in Listeners, Listen(l) \/ NotBound(l) \/ StopListening(l) \/ CaptureStopped(l)
      PROVE  SInv' /\ UNCHANGED counts
  BY <1>8, ListenerMoves, ListenTypes
<1>9. ASSUME DiscordStops \/ DiscordStarts PROVE SInv' /\ counts'.late = counts.late
  BY <1>9, DiscordLifeTypes
<1>10. ASSUME NEW o \in InputObservations, LocalOn(o) PROVE SInv' /\ counts'.late = counts.late
  BY <1>1, <1>10, InputSeen, LocalOnTypes
<1>11. ASSUME NEW o \in PhysicalObservations, FinishOff(o) \/ FinishFailedOn(o)
       PROVE  SInv' /\ counts'.late = counts.late
  BY <1>11, FinishTypes
<1>12. ASSUME NEW waits \in BOOLEAN, LocalOff(waits) PROVE SInv' /\ counts'.late = counts.late
  BY <1>12, LocalOffTypes
<1>13. ASSUME \/ HandlerEnds \/ Report \/ StartCapture \/ BridgeRestarts
              \/ \E st \in {"failed", "stuck"} : WatchdogStops(st)
       PROVE  SInv' /\ counts'.late = counts.late
  BY <1>13, HandlerEndsTypes, ReportTypes, StartCaptureTypes, WatchdogTypes, BridgeRestartsTypes
<1>14. ASSUME NEW st \in {"applied", "failed", "stuck"}, FinishCommand(st)
       PROVE  SInv' /\ counts'.late = counts.late
  BY <1>14, FinishCommandTypes
<1>15. ASSUME PrepareRetirement \/ \E c \in claims : AttestStopped(c) \/ ExpireClaim(c)
       PROVE  SInv' /\ counts'.late = counts.late
  BY <1>15, ClaimsTypes
<1>16. ASSUME NEW c \in claims, CompleteRetirement(c) PROVE SInv' /\ counts'.late = counts.late
  BY <1>16, CompleteRetirementTypes
<1>17. ASSUME NEW readable \in BOOLEAN, BotRestarts(readable) PROVE SInv' /\ counts'.late = counts.late
  BY <1>17, BotRestartsTypes
<1>18. counts'.late = counts.late => counts.late <= counts'.late
  BY <1>1
<1> QED BY <1>1, <1>2, <1>3, <1>4, <1>5, <1>6, <1>7, <1>8, <1>9, <1>10, <1>11, <1>12, <1>13, <1>14,
            <1>15, <1>16, <1>17, <1>18, HeartbeatTypes, Steps

\* So does a step of nobody.
LEMMA SInvStuttering ==
    ASSUME SInv, UNCHANGED vars
    PROVE  SInv'
BY DEF vars, bot, discord, SInv, ManagerOK, ClaimsOK, ApiOK, DiscordOK, ClientOK, BridgeOK,
       CountsOK, Orderly, Used, Leases, Holders, Claims, Clients, Calls, Waiting, Tokens

\* SInv has the types TypeOK states.
LEMMA SInvGivesTypes == SInv => TypeOK
<1> SUFFICES ASSUME SInv PROVE TypeOK
  OBVIOUS
<1>1. file \in Leases /\ mem \in Leases /\ failed \in BOOLEAN
  BY DEF SInv, ManagerOK
<1>2. /\ \A c \in claims : c.by \in Holders /\ c.by.src = Discord
      /\ Cardinality(claims) <= MaxClaims
  BY DEF SInv, ClaimsOK, Claims
<1>3. wait \in Nat /\ wait <= req.rev /\ bst.inst \in 0 .. br.inst
  BY BridgeFacts DEF SInv, ApiOK
<1>4. \A i \in DOMAIN wire : wire[i].act \in {"acquire", "release"}
  <2>1. \A i \in DOMAIN wire : wire[i] \in Requests
    BY DEF SInv, DiscordOK
  <2> QED BY <2>1 DEF Requests
<1>5. /\ lis \in [Listeners -> {"idle", "asking", "leased", "on", "draining", "stopped"}]
      /\ cl.lease \in 0 .. issued
      /\ cl.call.ans \in {"none", "wait", "ok", "refused", "error"}
  BY ClientFacts DEF SInv, ClientOK, Calls
<1>6. dst.inst \in 1 .. disc.inst
  BY DEF SInv, DiscordOK
<1>7. \A i, j \in DOMAIN br.queue : i < j => br.queue[i].rev < br.queue[j].rev
  BY DEF SInv, BridgeOK
<1> QED BY <1>1, <1>2, <1>3, <1>4, <1>5, <1>6, <1>7 DEF TypeOK

\* Every variable keeps its type: a lease is owned exactly when it has a holder,
\* no claim is of another source than Discord, reports and status files are never
\* of an instance that is still to come, and the bridge's orders are in sequence.
THEOREM TypeCorrect == Spec => []TypeOK
<1>1. SInv /\ [Next]_vars => SInv'
  BY NextTypes, SInvStuttering
<1> QED BY InitTypes, <1>1, SInvGivesTypes, PTL DEF Spec

-----------------------------------------------------------------------------
(* Capture is leased: the Discord process *)

\* Seen is about the Bot API, the bridge and the two status files only.
LEMMA SeenStays ==
    ASSUME Seen, UNCHANGED <<file, dst, bst, req, br>>
    PROVE  Seen'
BY DEF Seen, LocalHas, BridgeOn

\* Kept, once the client holds nothing, or what it held.
LEMMA KeptStays ==
    ASSUME Kept, file' = file, disc'.inst = disc.inst,
           cl'.call.act # "acquire" \/ cl'.call.ans # "ok",
           Tokens' # {} => Tokens # {} /\ cl'.lease = cl.lease,
           Tokens' # {} => \A i \in DOMAIN wire' :
              \/ \E j \in DOMAIN wire : wire'[i] = wire[j]
              \/ wire'[i].act = "acquire" /\ wire'[i].inst = disc.inst
    PROVE  Kept'
<1>1. ~Granted'
  BY DEF Granted
<1> QED BY <1>1 DEF Kept

\* A client with no token and nothing granted needs no lease.
LEMMA NoTokensKept ==
    ASSUME Tokens' = {}, cl'.call.act # "acquire" \/ cl'.call.ans # "ok"
    PROVE  Kept'
BY DEF Kept, Granted

\* A request that is sent is waited for.
LEMMA SendFields ==
    ASSUME SInv, NEW by, NEW act, NEW n, NEW c \in Clients, Send(by, act, n, c)
    PROVE  /\ cl'.call.ans = "wait" /\ cl'.lease = c.lease
           /\ \A i \in DOMAIN wire' : \/ i \in DOMAIN wire /\ wire'[i] = wire[i]
                                      \/ wire'[i].act = act /\ wire'[i].inst = disc.inst
<1> DEFINE call == [NoCall EXCEPT !.by = by, !.act = act, !.ans = "wait"]
           r == [act |-> act, inst |-> disc.inst, lease |-> n]
<1>1. cl' = [c EXCEPT !.call = call] /\ wire' = Append(wire, r)
  BY DEF Send
<1>2. call.ans = "wait"
  <2>1. NoCall \in [by : {None}, act : {"none"}, ans : {"none"}, lease : {0}, cancelled : {FALSE}]
    BY DEF NoCall
  <2> HIDE DEF NoCall
  <2> QED BY <2>1
<1> HIDE DEF call
<1>3. cl'.call = call /\ cl'.lease = c.lease
  BY <1>1 DEF Clients
<1>4. wire \in Seq(Requests) /\ r.act = act /\ r.inst = disc.inst
  BY DEF SInv, DiscordOK
<1> HIDE DEF r
<1>5. \A i \in DOMAIN wire' : (i \in DOMAIN wire /\ wire'[i] = wire[i]) \/ wire'[i] = r
  <2>1. DOMAIN wire' = 1 .. (Len(wire) + 1) /\ DOMAIN wire = 1 .. Len(wire) /\ Len(wire) \in Nat
        /\ \A i \in 1 .. (Len(wire) + 1) : wire'[i] = IF i = Len(wire) + 1 THEN r ELSE wire[i]
    BY <1>1, <1>4
  <2> QED BY <2>1
<1> QED BY <1>2, <1>3, <1>4, <1>5

\* The lease an acquisition was granted is still in the file when its listener
\* gets the token.
LEMMA AcquiredKept ==
    ASSUME SInv, Kept, Seen, NEW l \in Listeners, Acquired(l)
    PROVE  Kept' /\ Seen'
<1> DEFINE c == [cl EXCEPT !.call = NoCall]
           held == [c EXCEPT !.lease = cl.call.lease, !.amb = FALSE]
           lost == [c EXCEPT !.lease = 0, !.amb = TRUE, !.retry = TRUE]
<1>1. /\ UNCHANGED <<file, dst, bst, req, br>> /\ disc' = disc /\ cl.call.act = "acquire"
      /\ cl.call.by = l
  BY DEF Acquired, bot
<1>2. Seen'
  BY <1>1, SeenStays
<1>3. NoCall.act = "none" /\ cl \in Clients
  BY ClientFacts DEF NoCall
<1>4. /\ c \in Clients /\ held \in Clients /\ lost \in Clients
      /\ c.call = NoCall /\ held.call = NoCall /\ lost.call = NoCall
      /\ c.lease = cl.lease /\ held.lease = cl.call.lease
  BY ClientFacts DEF Clients
<1>5. lis \in [Listeners -> {"idle", "asking", "leased", "on", "draining", "stopped"}] /\ lis[l] = "asking"
  BY <1>1 DEF SInv, ClientOK
<1>6. lis' = [lis EXCEPT ![l] = "idle"] => Tokens' = Tokens
  BY <1>5 DEF Tokens
<1>7. \/ cl' = held /\ wire' = wire /\ cl.call.ans = "ok"
      \/ Tokens = {} /\ Send(l, "release", held.lease, held) /\ lis' = [lis EXCEPT ![l] = "idle"]
      \/ (cl' = c \/ (cl' = lost /\ Tokens = {})) /\ wire' = wire
         /\ lis' = [lis EXCEPT ![l] = "idle"]
  <2>1. CASE cl.call.ans = "ok" /\ ~cl.call.cancelled
    BY <2>1 DEF Acquired
  <2>2. CASE cl.call.ans = "ok" /\ cl.call.cancelled
    BY <2>2 DEF Acquired
  <2>3. CASE cl.call.ans = "error"
    <3>1. cl' = (IF Tokens # {} THEN c ELSE lost) /\ wire' = wire /\ lis' = [lis EXCEPT ![l] = "idle"]
      BY <2>3 DEF Acquired
    <3> HIDE DEF c, lost
    <3> QED BY <3>1
  <2>4. CASE cl.call.ans = "refused"
    <3>1. cl' = c /\ wire' = wire /\ lis' = [lis EXCEPT ![l] = "idle"]
      BY <2>4 DEF Acquired
    <3> QED BY <3>1
  <2>5. cl.call.ans \in {"ok", "error", "refused"}
    BY DEF Acquired
  <2> QED BY <2>1, <2>2, <2>3, <2>4, <2>5
<1> HIDE DEF c, held, lost
<1>8. CASE cl' = held /\ wire' = wire /\ cl.call.ans = "ok"
  <2>1. wire' = <<>> /\ file.by = Holder(Discord, disc.inst, cl.call.lease)
    BY <1>1, <1>8 DEF Kept, Granted
  <2>2. DOMAIN wire' = {} /\ ~Granted'
    BY <1>3, <1>4, <1>8, <2>1 DEF Granted
  <2> QED BY <1>1, <1>2, <1>4, <1>8, <2>1, <2>2 DEF Kept
<1>9. CASE Tokens = {} /\ Send(l, "release", held.lease, held) /\ lis' = [lis EXCEPT ![l] = "idle"]
  BY <1>2, <1>4, <1>6, <1>9, SendFields, NoTokensKept
<1>10. CASE (cl' = c \/ (cl' = lost /\ Tokens = {})) /\ wire' = wire
            /\ lis' = [lis EXCEPT ![l] = "idle"]
  <2>1. cl'.call.act # "acquire"
    BY <1>3, <1>4, <1>10
  <2>2. Tokens' # {} => Tokens # {} /\ cl'.lease = cl.lease
    BY <1>4, <1>6, <1>10
  <2> QED BY <1>1, <1>2, <1>10, <2>1, <2>2, KeptStays
<1> QED BY <1>7, <1>8, <1>9, <1>10

\* The lease is given back with the last token only.
LEMMA ReleaseTokenKept ==
    ASSUME SInv, Kept, Seen, NEW l \in Listeners, ReleaseToken(l)
    PROVE  Kept' /\ Seen'
<1>1. /\ UNCHANGED <<file, dst, bst, req, br>> /\ disc' = disc /\ cl.call = NoCall
      /\ lis' = [lis EXCEPT ![l] = "idle"]
  BY DEF ReleaseToken, bot, Unlocked
<1>2. Seen'
  BY <1>1, SeenStays
<1>3. NoCall.act = "none" /\ cl \in Clients
  BY ClientFacts DEF NoCall
<1>4. lis \in [Listeners -> {"idle", "asking", "leased", "on", "draining", "stopped"}]
  BY DEF SInv, ClientOK
<1>5. Tokens' = Tokens \ {l}
  BY <1>1, <1>4 DEF Tokens
<1>6. CASE UNCHANGED <<cl, wire>>
  BY <1>1, <1>2, <1>3, <1>5, <1>6, KeptStays
<1>7. CASE Tokens = {l} /\ Send(l, "release", cl.lease, cl)
  BY <1>2, <1>3, <1>5, <1>7, SendFields, NoTokensKept
<1> QED BY <1>6, <1>7 DEF ReleaseToken

\* The retry task works only while there is no token.
LEMMA RetriesKept ==
    ASSUME SInv, Kept, Seen, Released \/ Retry \/ RetryAcquired
    PROVE  Kept' /\ Seen'
<1>1. UNCHANGED <<file, dst, bst, req, br, lis>> /\ disc' = disc
  BY DEF Released, Retry, RetryAcquired, bot, discord
<1>2. Seen'
  BY <1>1, SeenStays
<1>3. NoCall.act = "none" /\ cl \in Clients /\ Tokens' = Tokens
  BY <1>1, ClientFacts DEF NoCall, Tokens
<1>4. CASE Released
  <2>1. cl.call.act = "release" /\ cl.call # NoCall
    BY <1>4 DEF Released, NoCall
  <2>2. Tokens = {}
    BY <2>1 DEF SInv, ClientOK
  <2>3. cl'.call = NoCall
    <3>1. NoClient \in [lease : {0}, amb : {FALSE}, retry : {FALSE}, call : {NoCall}]
      BY DEF NoClient
    <3> HIDE DEF NoClient
    <3> QED BY <1>3, <1>4, <3>1 DEF Released, Clients
  <2> QED BY <1>2, <1>3, <2>2, <2>3, NoTokensKept
<1>5. CASE Retry
  <2>1. CASE cl' = [cl EXCEPT !.retry = FALSE] /\ UNCHANGED wire
    <3>1. cl'.lease = cl.lease /\ cl'.call = NoCall
      BY <1>3, <1>5, <2>1 DEF Clients, Retry, Unlocked
    <3> QED BY <1>1, <1>2, <1>3, <2>1, <3>1, KeptStays
  <2>2. CASE Tokens = {} /\ Send(None, IF cl.amb THEN "acquire" ELSE "release", cl.lease, cl)
    BY <1>2, <1>3, <2>2, SendFields, NoTokensKept
  <2> QED BY <1>5, <2>1, <2>2 DEF Retry
<1>6. CASE RetryAcquired
  <2> DEFINE held == [cl EXCEPT !.lease = cl.call.lease, !.amb = FALSE]
  <2>1. cl.call.by = None /\ cl.call.act = "acquire" /\ cl.call # NoCall
    BY <1>6 DEF RetryAcquired, NoCall
  <2>2. Tokens = {}
    BY <2>1 DEF SInv, ClientOK
  <2>3. held \in Clients
    BY ClientFacts DEF Clients
  <2>4. CASE Send(None, "release", held.lease, held)
    <3> HIDE DEF held
    <3> QED BY <1>2, <1>3, <2>2, <2>3, <2>4, SendFields, NoTokensKept
  <2>5. CASE cl' = [cl EXCEPT !.call = NoCall]
    <3>1. cl'.call = NoCall
      BY <1>3, <2>5 DEF Clients
    <3> QED BY <1>2, <1>3, <2>2, <3>1, NoTokensKept
  <2> QED BY <1>6, <2>4, <2>5 DEF RetryAcquired
<1> QED BY <1>4, <1>5, <1>6

\* Asking, giving up and cancelling leave what the client holds.
LEMMA RequestsKept ==
    ASSUME SInv, Kept, Seen,
           Cancel \/ (\E lost \in BOOLEAN : TimeOut(lost)) \/ (\E l \in Listeners : AskAcquire(l))
    PROVE  Kept' /\ Seen'
<1>1. UNCHANGED <<file, dst, bst, req, br>> /\ disc' = disc
  BY DEF Cancel, TimeOut, AskAcquire, bot
<1>2. Seen'
  BY <1>1, SeenStays
<1>3. cl \in Clients /\ cl.call \in Calls
  BY ClientFacts
<1>4. CASE Cancel
  <2>1. wire' = wire /\ lis' = lis /\ Waiting /\ cl' = [cl EXCEPT !.call.cancelled = TRUE]
    BY <1>4 DEF Cancel
  <2>2. cl'.lease = cl.lease /\ cl'.call.ans = "wait"
    BY <1>3, <2>1 DEF Waiting, Clients, Calls
  <2> QED BY <1>1, <1>2, <2>1, <2>2, KeptStays DEF Tokens
<1>5. ASSUME NEW lost \in BOOLEAN, TimeOut(lost) PROVE Kept' /\ Seen'
  <2>1. /\ wire' \in {wire, Front(wire)} /\ lis' = lis /\ Waiting
        /\ cl' = [cl EXCEPT !.call.ans = "error"] /\ dst' = dst
    BY <1>5 DEF TimeOut
  <2>2. cl'.lease = cl.lease /\ cl'.call.ans = "error"
    BY <1>3, <2>1 DEF Clients, Calls
  <2>3. wire # <<>> /\ DiscordOK
    BY <2>1 DEF SInv, ClientOK
  <2>4. \A i \in DOMAIN wire' : \E j \in DOMAIN wire : wire'[i] = wire[j]
    BY <1>1, <2>1, <2>3, WireShorter
  <2> QED BY <1>1, <1>2, <2>1, <2>2, <2>4, KeptStays DEF Tokens
<1>6. ASSUME NEW l \in Listeners, AskAcquire(l) PROVE Kept' /\ Seen'
  <2>1. /\ Send(l, "acquire", 0, cl) /\ lis' = [lis EXCEPT ![l] = "asking"] /\ lis[l] = "idle"
    BY <1>6 DEF AskAcquire
  <2>2. lis \in [Listeners -> {"idle", "asking", "leased", "on", "draining", "stopped"}]
    BY DEF SInv, ClientOK
  <2>3. Tokens' = Tokens
    BY <2>1, <2>2 DEF Tokens
  <2>4. /\ cl'.call.ans = "wait" /\ cl'.lease = cl.lease
        /\ \A i \in DOMAIN wire' : \/ i \in DOMAIN wire /\ wire'[i] = wire[i]
                                   \/ wire'[i].act = "acquire" /\ wire'[i].inst = disc.inst
    BY <1>3, <2>1, SendFields
  <2> QED BY <1>1, <1>2, <2>3, <2>4, KeptStays
<1> QED BY <1>4, <1>5, <1>6

\* A listener that moves keeps its token; a heartbeat that is not late shows
\* Discord listening only while a listener has one.
LEMMA ListenersKept ==
    ASSUME SInv, Kept, Seen, NEW l \in Listeners,
           Listen(l) \/ NotBound(l) \/ StopListening(l) \/ CaptureStopped(l)
    PROVE  Kept' /\ Seen'
<1>1. /\ lis[l] \in {"leased", "on", "draining"}
      /\ \E to \in {"on", "draining", "stopped"} : lis' = [lis EXCEPT ![l] = to]
      /\ UNCHANGED <<file, bot, wire, cl, dst, br, issued, counts>>
      /\ disc' = disc \/ \E b \in BOOLEAN : disc' = [disc EXCEPT !.listened = b]
  BY ListenerMoves
<1>2. Tokens' = Tokens
  BY <1>1, ListenTypes
<1>3. disc'.inst = disc.inst
  BY <1>1 DEF SInv, DiscordOK
<1>4. UNCHANGED <<file, wire, cl, dst, bst, req, br>>
  BY <1>1 DEF bot
<1> QED BY <1>2, <1>3, <1>4, SeenStays DEF Kept, Granted

\* A heartbeat that is not late never shows Discord listening under a local lease.
LEMMA HeartbeatKept ==
    ASSUME SInv, Kept, Seen, Heartbeat, counts.late = 0, counts'.late = 0
    PROVE  Kept' /\ Seen'
<1>1. UNCHANGED <<file, wire, disc, cl, lis, bst, req, br>>
  BY DEF Heartbeat, bot, discord
<1>2. dst' = Now
  <2>1. ~Count("late")
    BY CountTypes DEF SInv
  <2> QED BY <2>1 DEF Heartbeat
<1>3. dst'.listening => Tokens # {}
  BY <1>2 DEF Now, Status, Tokens
<1>4. file.by.src = Local => ~dst'.listening
  BY <1>3, ManagerFacts DEF Kept, Holder
<1> QED BY <1>1, <1>4 DEF Kept, Granted, Seen, LocalHas, BridgeOn, Tokens

\* A Discord process that dies or starts has no token.
LEMMA DiscordLifeKept ==
    ASSUME SInv, Kept, Seen, DiscordStops \/ DiscordStarts
    PROVE  Kept' /\ Seen'
<1>1. UNCHANGED <<file, bst, req, br>> /\ (dst' = dst \/ dst' = [inst |-> disc'.inst, listening |-> FALSE])
  BY DEF DiscordStops, DiscordStarts, bot
<1>2. lis' = AllIdle /\ cl' = NoClient
  BY DEF DiscordStops, DiscordStarts, SInv, ClientOK
<1>3. Tokens' = {} /\ cl'.call.act # "acquire"
  BY <1>2 DEF Tokens, AllIdle, NoClient, NoCall
<1>4. Kept'
  BY <1>3, NoTokensKept
<1> QED BY <1>1, <1>4 DEF Seen, LocalHas, BridgeOn

-----------------------------------------------------------------------------
(* Capture is leased: the manager *)

\* What the manager sees agrees with the lease: only its owner is active.
Calm(o, p) ==
    /\ o \in Observations
    /\ o[Local].st = "active" => p.by.src = Local /\ p.by.inst = o[Local].inst
    /\ o[Discord].st = "active" => p.by.src # Local /\ o[Discord].inst # 0

\* Then at most one source is active, and it is the owner.
LEMMA CalmObserve ==
    ASSUME NEW m \in Nat, NEW p \in LeasesTo(m), NEW o, Calm(o, p)
    PROVE  /\ o[Local].st = "active" => o[Local].inst # 0 /\ p.phase = "owned" /\ ~Replaced(p, o)
           /\ ~(o[Local].st = "active" /\ o[Discord].st = "active")
           /\ Cardinality(Active(o)) \in {0, 1}
           /\ p.phase = "owned" => Active(o) \ {p.by.src} = {}
<1>1. /\ Sources = {Local, Discord} /\ Local # Discord
  BY DEF Sources, Local, Discord
<1>2. /\ p.by.src \in Sources <=> p.phase = "owned"
      /\ p.phase = "owned" => p.by.inst \in Nat \ {0}
  BY LeaseShape
<1>3. o[Local].st = "active" => o[Local].inst # 0 /\ p.phase = "owned" /\ ~Replaced(p, o)
  BY <1>1, <1>2 DEF Calm, Replaced
<1>4. ~(o[Local].st = "active" /\ o[Discord].st = "active")
  BY DEF Calm
<1>5. Cardinality(Active(o)) \in {0, 1}
  <2>1. Active(o) = {} \/ \E x : Active(o) = {x}
    BY <1>1, <1>4 DEF Active
  <2>2. CASE Active(o) = {}
    BY <2>2, FS_EmptySet
  <2>3. ASSUME NEW x, Active(o) = {x} PROVE Cardinality(Active(o)) = 1
    <3>1. Cardinality({x}) = 1
      BY FS_Singleton
    <3> QED BY <2>3, <3>1
  <2> QED BY <2>1, <2>2, <2>3
<1>6. p.phase = "owned" => Active(o) \ {p.by.src} = {}
  BY <1>1, <1>2 DEF Calm, Active
<1> QED BY <1>3, <1>4, <1>5, <1>6

\* Then an acquisition commits only when the lease has no owner or its owner was
\* replaced, and only: nothing, Discord as it listens, or, when all are quiet,
\* the one who asks.
Settled(x, s, i, o) ==
    \/ x.phase # "blocked" /\ x.by = NoHolder
    \/ x.phase = "owned" /\ x.by.src = Discord
    \/ x.phase = "owned" /\ x.by.src = s /\ x.by.inst = i /\ Quiet(o, Sources)

\* An acquisition settles the lease in this way only.
LEMMA AcquireSettles ==
    ASSUME NEW m \in Nat, NEW p \in LeasesTo(m), p.phase # "blocked", NEW s \in Sources,
           NEW i \in Nat \ {0}, NEW o, Calm(o, p)
    PROVE  LET a == Acquire(p, s, i, o, m + 1) IN
           /\ a.commits = <<>> \/ p.phase # "owned" \/ Replaced(p, o)
           /\ \A j \in DOMAIN a.commits : Settled(a.commits[j], s, i, o)
<1> DEFINE peers == Peers(p.by.src)
           gone == Replaced(p, o)
           pre == IF gone /\ Quiet(o, peers) THEN <<SetUnowned(p)>> ELSE <<>>
           q == After(p, pre)
           seen == ObserveLocked(q, o, m + 1)
           r == After(q, seen)
           own == SetOwned(r, s, i, m + 1)
           a == Acquire(p, s, i, o, m + 1)
           Good(x) == Settled(x, s, i, o)
<1> SUFFICES /\ a.commits = <<>> \/ p.phase # "owned" \/ gone
             /\ \A j \in DOMAIN a.commits : Good(a.commits[j])
  OBVIOUS
<1>1. /\ SetUnowned(p) \in LeasesTo(m) /\ SetUnowned(p).by = NoHolder /\ SetUnowned(p).phase = "unowned"
      /\ Discord \in Sources /\ Local \in Sources /\ \A x \in Sources : x = Local \/ x = Discord
      /\ o \in Observations
  BY UnownedTypes DEF Sources, Local, Discord, Calm
<1>2. /\ o[Local].st = "active" => o[Local].inst # 0 /\ p.phase = "owned" /\ ~gone
      /\ ~(o[Local].st = "active" /\ o[Discord].st = "active")
      /\ Cardinality(Active(o)) \in {0, 1}
      /\ p.phase = "owned" => Active(o) \ {p.by.src} = {}
      /\ o[Discord].st = "active" => o[Discord].inst # 0
  BY CalmObserve DEF Calm
<1>3. /\ \/ pre = <<>> /\ q = p
         \/ pre = <<SetUnowned(p)>> /\ q = SetUnowned(p) /\ gone
      /\ q \in LeasesTo(m) /\ q.phase # "blocked"
      /\ q.phase = "owned" => q = p /\ pre = <<>>
      /\ q.phase # "owned" => p.phase # "owned" \/ gone
      /\ \A j \in DOMAIN pre : Good(pre[j])
      /\ pre \in Seq(LeasesTo(m))
  <2>1. CASE pre = <<>>
    <3>1. q = p
      BY <2>1 DEF After
    <3> QED BY <2>1, <3>1
  <2>2. CASE pre # <<>>
    <3>1. pre = <<SetUnowned(p)>> /\ q = SetUnowned(p) /\ gone
      BY <2>2 DEF After, Last
    <3>2. Good(SetUnowned(p))
      BY <1>1 DEF Settled
    <3> HIDE DEF Good, pre, q, gone
    <3> QED BY <1>1, <3>1, <3>2
  <2> QED BY <2>1, <2>2
<1> HIDE DEF q, pre, gone
<1>4. CASE q.phase = "owned"
  <2>2. Active(o) \ {q.by.src} = {}
    BY <1>2, <1>3, <1>4
  <2>3. a.commits = <<>>
    BY <1>4, <2>2 DEF Acquire, Answer, q, pre, gone
  <2> HIDE DEF a
  <2> QED BY <2>3
<1>5. CASE q.phase # "owned"
  <2>1. \/ seen = <<>> /\ r = q
        \/ \E x : seen = <<x>> /\ r = x /\ Good(x) /\ x \in LeasesTo(m + 1)
                  /\ (x.phase # "owned" => x \in LeasesTo(m))
    <3>1. CASE seen = <<>>
      BY <3>1 DEF After
    <3>2. CASE seen = <<SetUnowned(q)>>
      <4>1. r = SetUnowned(q)
        BY <3>2 DEF After, Last
      <4>2. Good(SetUnowned(q)) /\ SetUnowned(q) \in LeasesTo(m) /\ LeasesTo(m) \subseteq LeasesTo(m + 1)
        BY <1>3, UnownedTypes, LeasesGrow DEF Settled
      <4> HIDE DEF seen, r, Good
      <4> QED BY <3>2, <4>1, <4>2
    <3>3. ASSUME NEW t \in Sources, seen = <<SetOwned(q, t, o[t].inst, m + 1)>>,
                 o[t].st = "active", o[t].inst # 0
          PROVE  \E x : seen = <<x>> /\ r = x /\ Good(x) /\ x \in LeasesTo(m + 1)
                        /\ (x.phase # "owned" => x \in LeasesTo(m))
      <4> DEFINE x == SetOwned(q, t, o[t].inst, m + 1)
      <4>1. t = Discord
        BY <1>1, <1>2, <1>3, <1>5, <3>3
      <4>2. o[t].inst \in Nat \ {0}
        BY <1>1, <3>3 DEF Observations
      <4>3. x.phase = "owned" /\ x.by.src = Discord /\ x \in LeasesTo(m + 1)
        BY <1>3, <4>1, <4>2, OwnedTypes
      <4>5. Good(x)
        BY <4>3 DEF Settled
      <4>6. seen = <<x>>
        BY <3>3
      <4> HIDE DEF x, seen
      <4>4. r = x
        BY <4>6 DEF After, Last
      <4> HIDE DEF r, Good
      <4> QED BY <4>3, <4>4, <4>5, <4>6
    <3>4. ~(seen = <<SetBlocked(q)>>
            /\ \/ Cardinality(Active(o)) > 1
               \/ q.phase = "owned" /\ Active(o) \cap Peers(q.by.src) # {}
               \/ \E t \in Sources : o[t].st = "active" /\ o[t].inst = 0)
      <4>1. ~(Cardinality(Active(o)) > 1)
        BY <1>2
      <4> QED BY <1>1, <1>2, <1>5, <4>1
    <3> QED BY <1>1, <1>3, <3>1, <3>2, <3>3, <3>4, ObserveShape
  <2> HIDE DEF seen, r
  <2>2. /\ seen \in Seq(LeasesTo(m + 1)) /\ \A j \in DOMAIN seen : Good(seen[j])
        /\ r.phase # "owned" => r \in LeasesTo(m)
    <3>1. CASE seen = <<>> /\ r = q
      BY <1>3, <3>1
    <3>2. ASSUME NEW x, seen = <<x>>, r = x, Good(x), x \in LeasesTo(m + 1),
                 x.phase # "owned" => x \in LeasesTo(m)
          PROVE  /\ seen \in Seq(LeasesTo(m + 1)) /\ \A j \in DOMAIN seen : Good(seen[j])
                 /\ r.phase # "owned" => r \in LeasesTo(m)
      <4> HIDE DEF Good
      <4> QED BY <3>2
    <3> QED BY <2>1, <3>1, <3>2
  <2>3. LeasesTo(m) \subseteq LeasesTo(m + 1)
    BY LeasesGrow
  <2>4. pre \in Seq(LeasesTo(m + 1))
    BY <1>3, <2>3
  <2>5. \A j \in DOMAIN (pre \o seen) : Good((pre \o seen)[j])
    <3>1. ASSUME NEW j \in DOMAIN (pre \o seen) PROVE Good((pre \o seen)[j])
      <4>1. \/ j \in DOMAIN pre /\ (pre \o seen)[j] = pre[j]
            \/ j - Len(pre) \in DOMAIN seen /\ (pre \o seen)[j] = seen[j - Len(pre)]
        BY <2>2, <2>4
      <4> QED BY <1>3, <2>2, <4>1
    <3> QED BY <3>1
  <2>6. a.commits \in {<<>>, pre \o seen}
        \/ (r.phase = "unowned" /\ Quiet(o, Sources) /\ a.commits = (pre \o seen) \o <<own>>)
    <3>1. \/ a = Answer(<<>>, 0)
          \/ \E n : a = Answer(pre \o seen, n)
          \/ r.phase = "unowned" /\ Quiet(o, Sources) /\ a = Answer((pre \o seen) \o <<own>>, m + 1)
      BY <1>5 DEF Acquire, gone, pre, q, seen, r
    <3> HIDE DEF a, own
    <3> QED BY <3>1 DEF Answer
  <2>7. r.phase = "unowned" /\ Quiet(o, Sources) => Good(own) /\ own \in LeasesTo(m + 1)
    BY <2>2, OwnedTypes DEF Settled
  <2>8. ASSUME r.phase = "unowned", Quiet(o, Sources)
        PROVE  \A j \in DOMAIN ((pre \o seen) \o <<own>>) : Good(((pre \o seen) \o <<own>>)[j])
    <3> DEFINE c == pre \o seen
    <3>1. c \in Seq(LeasesTo(m + 1)) /\ own \in LeasesTo(m + 1) /\ Good(own)
      BY <2>2, <2>4, <2>7, <2>8
    <3>2. \A j \in DOMAIN c : Good(c[j])
      BY <2>5
    <3> HIDE DEF c, own, Good
    <3>3. ASSUME NEW j \in DOMAIN (c \o <<own>>) PROVE Good((c \o <<own>>)[j])
      <4>1. \/ j \in DOMAIN c /\ (c \o <<own>>)[j] = c[j]
            \/ (c \o <<own>>)[j] = own
        BY <3>1
      <4> QED BY <3>1, <3>2, <4>1
    <3> QED BY <3>3 DEF c
  <2>9. \A j \in DOMAIN a.commits : Good(a.commits[j])
    <3> HIDE DEF a, own, Good
    <3>1. CASE a.commits = <<>>
      BY <3>1
    <3>2. CASE a.commits = pre \o seen
      BY <2>5, <3>2
    <3>3. CASE r.phase = "unowned" /\ Quiet(o, Sources) /\ a.commits = (pre \o seen) \o <<own>>
      BY <2>8, <3>3
    <3> QED BY <2>6, <3>1, <3>2, <3>3
  <2> HIDE DEF a, Good
  <2> QED BY <1>3, <1>5, <2>9
<1> QED BY <1>4, <1>5

\* Nothing that needs the lease is under way.
Loose ==
    /\ Tokens = {} /\ ~Granted /\ bst.mic # "on" /\ ~BridgeOn
    /\ req.enabled = "on" => bst.inst > req.inst

\* A listener with a token, or an acquisition granted, has Discord running.
LEMMA DiscordHolds ==
    ASSUME SInv, Kept, Tokens # {} \/ Granted
    PROVE  file.by.src = Discord /\ file.by.inst = disc.inst /\ disc.up /\ dst.inst = disc.inst
<1>1. file.by.src = Discord /\ file.by.inst = disc.inst
  BY DEF Kept, Holder
<1>2. disc.up
  <2>1. CASE Granted
    BY <2>1, ClientFacts DEF Granted, NoCall
  <2>2. CASE Tokens # {}
    BY <2>2 DEF SInv, ClientOK, AllIdle, Tokens
  <2> QED BY <2>1, <2>2
<1> QED BY <1>1, <1>2 DEF SInv, DiscordOK

\* Without a local lease only the tokens of Discord can need one.
LEMMA NotLocalLoose ==
    ASSUME SInv, Seen, file.by.src # Local, Tokens = {}, ~Granted
    PROVE  Loose
BY DEF Loose, Seen, LocalHas

\* Nothing needs a lease that nobody owns.
LEMMA UnownedLoose ==
    ASSUME SInv, Kept, Seen, file.phase # "owned"
    PROVE  Loose
<1>1. file.by = NoHolder /\ NoHolder.src # Local /\ NoHolder.src # Discord
  BY ManagerFacts, LeaseShape
<1> QED BY <1>1, DiscordHolds, NotLocalLoose

\* Nothing needs the lease of an instance that another has replaced.
LEMMA ReplacedLoose ==
    ASSUME SInv, Kept, Seen, NEW o, SeenOK(o, bst), Replaced(file, o)
    PROVE  Loose
<1>1. /\ file.phase = "owned" /\ file.by.src \in Sources /\ file.by.inst \in Nat \ {0}
      /\ o[file.by.src].inst # 0 /\ o[file.by.src].inst # file.by.inst
  BY ManagerFacts, LeaseShape DEF Replaced
<1>2. CASE file.by.src = Discord
  <2>1. o[Discord].inst = dst.inst /\ dst.inst # file.by.inst
    BY <1>1, <1>2 DEF SeenOK
  <2>2. Tokens = {} /\ ~Granted
    BY <2>1, DiscordHolds
  <2> QED BY <1>2, <2>2, NotLocalLoose, ManagerFacts
<1>3. CASE file.by.src = Local
  <2>1. bst.inst # 0 /\ bst.inst # file.by.inst
    BY <1>1, <1>3 DEF SeenOK
  <2>2. Tokens = {} /\ ~Granted
    BY <1>3, DiscordHolds, ManagerFacts
  <2>3. file.by.inst <= bst.inst /\ file.by.inst < bst.inst
    BY <1>1, <1>3, <2>1, BridgeFacts DEF Seen
  <2> QED BY <1>1, <1>3, <2>1, <2>2, <2>3, BridgeFacts DEF Loose, Seen, LocalHas
<1> QED BY <1>1, <1>2, <1>3, ManagerFacts

\* The lease may stay; or, when nothing needs it, go to nobody, to Discord, or
\* to the local microphone while Discord does not listen.
LEMMA Resettled ==
    ASSUME SInv, Seen, UNCHANGED <<bst, br, dst>>,
           \/ file' = file
           \/ /\ Loose /\ file'.phase # "blocked"
              /\ file'.by.src = Local => ~dst.listening /\ file'.by.inst = bst.inst,
           req' = req \/ req'.enabled # "on" \/ (file'.by.src = Local /\ file'.by.inst = req'.inst)
    PROVE  Seen'
<1>1. CASE file' = file
  BY <1>1 DEF Seen, LocalHas, BridgeOn
<1>2. CASE /\ Loose /\ file'.phase # "blocked"
           /\ file'.by.src = Local => ~dst.listening /\ file'.by.inst = bst.inst
  <2>1. bst.inst \in Nat /\ br.inst \in Nat /\ bst.inst <= br.inst
    BY BridgeFacts
  <2>2. ~BridgeOn'
    BY <1>2 DEF Loose, BridgeOn
  <2> QED BY <1>2, <2>1, <2>2 DEF Loose, Seen, LocalHas
<1> QED BY <1>1, <1>2

\* The client keeps what it has when the lease stays or nothing needs it.
LEMMA ClientKept ==
    ASSUME SInv, Kept, UNCHANGED <<disc, lis, cl, wire>>, file' = file \/ Loose
    PROVE  Kept'
BY DEF Kept, Granted, Tokens, Loose

\* What the manager observes agrees with the file.
LEMMA InputCalm ==
    ASSUME SInv, Seen, NEW o \in InputObservations
    PROVE  SeenOK(o, bst) /\ Calm(o, file)
<1>1. /\ SeenOK(o, bst)
      /\ o[Local].st = "active" => bst.mic = "on" \/ (req.enabled = "on" /\ req.inst = bst.inst)
  BY InputSeen DEF SInv
<1>2. o[Local].st = "active" => LocalHas(bst.inst)
  BY <1>1, BridgeFacts DEF Seen
<1>3. dst.inst # 0
  BY DEF SInv, DiscordOK
<1> QED BY <1>1, <1>2, <1>3 DEF SeenOK, Calm, Seen, LocalHas

\* What an acquisition makes of the file, when it makes anything.
LEMMA AcquireMoves ==
    ASSUME SInv, Kept, Seen, ~failed, NEW o \in InputObservations, NEW s \in Sources,
           NEW i \in Nat \ {0},
           NEW j \in DOMAIN Acquire(mem, s, i, o, issued + 1).commits
    PROVE  Loose /\ Settled(Acquire(mem, s, i, o, issued + 1).commits[j], s, i, o)
<1>1. mem = file /\ issued \in Nat /\ file \in LeasesTo(issued) /\ file.phase # "blocked"
  BY ManagerFacts DEF Seen
<1>2. SeenOK(o, bst) /\ Calm(o, file)
  BY InputCalm
<1> DEFINE a == Acquire(file, s, i, o, issued + 1)
<1>3. /\ a.commits = <<>> \/ file.phase # "owned" \/ Replaced(file, o)
      /\ \A k \in DOMAIN a.commits : Settled(a.commits[k], s, i, o)
  BY <1>1, <1>2, AcquireSettles
<1>4. Acquire(mem, s, i, o, issued + 1) = a
  BY <1>1
<1> HIDE DEF a
<1>5. a.commits # <<>> /\ Settled(a.commits[j], s, i, o)
  BY <1>3, <1>4
<1> QED BY <1>2, <1>3, <1>4, <1>5, UnownedLoose, ReplacedLoose

\* What a request makes of the file, when it makes anything.
LEMMA ServedMoves ==
    ASSUME SInv, Kept, Seen, wire # <<>>, NEW o \in InputObservations,
           NEW j \in DOMAIN Served(Head(wire), o).commits
    PROVE  Loose /\ Settled(Served(Head(wire), o).commits[j], Discord, Head(wire).inst, o)
<1> DEFINE r == Head(wire)  a == Served(r, o)
<1>1. SeenOK(o, bst)
  BY InputCalm
<1>2. /\ Sound(a) /\ r \in Requests
      /\ r.act = "acquire" => a = Guarded(Acquire(mem, Discord, r.inst, o, issued + 1))
      /\ r.act # "acquire" => a.commits = <<>> \/ (a.commits = <<SetUnowned(mem)>> /\ ~failed
                                                   /\ mem.by = Holder(Discord, r.inst, r.lease))
  BY <1>1, ServedSound
<1>3. r.inst \in Nat \ {0} /\ r = wire[1] /\ 1 \in DOMAIN wire
  <2>1. wire \in Seq(Requests)
    BY DEF SInv, DiscordOK
  <2> QED BY <1>2, <2>1 DEF Requests
<1> HIDE DEF a, r
<1>4. j \in DOMAIN a.commits
  BY DEF a, r
<1>5. a.commits # <<>> /\ ~failed
  BY <1>2, <1>4 DEF Sound
<1>6. CASE r.act = "acquire"
  <2>1. a = Acquire(mem, Discord, r.inst, o, issued + 1)
    BY <1>2, <1>5, <1>6 DEF Guarded
  <2> QED BY <1>3, <1>4, <1>5, <2>1, AcquireMoves, ManagerFacts DEF a, r
<1>7. CASE r.act # "acquire"
  <2>1. a.commits = <<SetUnowned(mem)>> /\ mem.by = Holder(Discord, r.inst, r.lease) /\ mem = file
    BY <1>2, <1>5, <1>7, ManagerFacts
  <2>2. a.commits[j] = SetUnowned(mem)
    BY <1>4, <2>1
  <2>3. Settled(SetUnowned(mem), Discord, r.inst, o)
    BY UnownedTypes, ManagerFacts DEF Settled
  <2>4. Tokens = {}
    BY <1>3, <1>7 DEF Kept
  <2>5. ~Granted
    BY DEF Kept
  <2>6. file.by.src # Local
    BY <2>1, ManagerFacts DEF Holder
  <2>7. Loose
    BY <2>4, <2>5, <2>6, NotLocalLoose
  <2> QED BY <2>2, <2>3, <2>7 DEF a, r
<1> QED BY <1>6, <1>7

\* A request served leaves every token its lease, and grants one only for the
\* lease that is in the file.
LEMMA ServeKept ==
    ASSUME SInv, Kept, Seen, wire # <<>>, NEW o \in InputObservations, Serve(o)
    PROVE  Kept' /\ Seen'
<1> DEFINE r == Head(wire)  a == Served(r, o)
<1>1. SeenOK(o, bst)
  BY InputCalm
<1>2. /\ Sound(a)
      /\ r.act = "acquire" /\ a.lease # 0 =>
            ~failed /\ After(mem, a.commits).by = Holder(Discord, r.inst, a.lease)
  BY <1>1, ServedSound
<1>3. PICK out \in Outcomes(a) :
         /\ Commit(a, out)
         /\ counts' = [counts EXCEPT !.troubles = @ + Faulted(a, out)]
         /\ cl' = IF ~Live THEN cl
                  ELSE [cl EXCEPT !.call.ans = IF Result(a, out) # 0 THEN "ok" ELSE "refused",
                                  !.call.lease = Result(a, out)]
  BY DEF Serve, Served
<1>4. wire' = Tail(wire) /\ UNCHANGED <<claims, bst, req, wait, disc, lis, dst, br>>
  BY DEF Serve
<1>5. \A j \in DOMAIN a.commits : Loose /\ Settled(a.commits[j], Discord, r.inst, o)
  BY ServedMoves
<1> HIDE DEF r, a
<1>6. /\ Done(a, out) => file' = After(file, a.commits)
      /\ file' = file \/ \E j \in DOMAIN a.commits : file' = a.commits[j]
  BY <1>2, <1>3, <1>4, Committed
<1>7. file' = file \/ (Loose /\ Settled(file', Discord, r.inst, o))
  BY <1>5, <1>6
<1>8. Seen'
  BY <1>4, <1>7, ManagerFacts, Resettled DEF Settled
<1>9. wire \in Seq(Requests) /\ cl \in Clients /\ ~Granted
  BY DEF SInv, DiscordOK, ClientOK, Kept
<1>10. /\ cl'.lease = cl.lease
       /\ ~Live => cl' = cl
       /\ Live => /\ cl'.call.act = cl.call.act /\ cl'.call.lease = Result(a, out)
                  /\ cl'.call.ans = IF Result(a, out) # 0 THEN "ok" ELSE "refused"
  <2> DEFINE ans == IF Result(a, out) # 0 THEN "ok" ELSE "refused"  n == Result(a, out)
  <2>1. cl' = IF ~Live THEN cl ELSE [cl EXCEPT !.call.ans = ans, !.call.lease = n]
    BY <1>3
  <2> HIDE DEF ans, n
  <2>2. Live => cl'.call.act = cl.call.act /\ cl'.call.lease = n /\ cl'.call.ans = ans /\ cl'.lease = cl.lease
    BY <1>9, <2>1 DEF Clients, Calls
  <2> QED BY <2>1, <2>2 DEF ans, n
<1>11. ASSUME Granted' PROVE wire' = <<>> /\ file'.by = Holder(Discord, disc.inst, cl'.call.lease)
  <2>1. Live /\ Result(a, out) # 0 /\ cl.call.act = "acquire"
    BY <1>9, <1>10, <1>11 DEF Granted
  <2>2. Waiting /\ Len(wire) = 1
    BY <2>1 DEF Live
  <2>3. wire' = <<>> /\ Last(wire) = r
    BY <1>4, <1>9, <2>2 DEF Last, r
  <2>4. r.act = "acquire" /\ r.inst = disc.inst
    BY <2>1, <2>2, <2>3 DEF SInv, ClientOK
  <2>5. Done(a, out) /\ Result(a, out) = a.lease /\ a.lease # 0
    BY <2>1 DEF Result
  <2>6. file'.by = Holder(Discord, disc.inst, a.lease)
    BY <1>2, <1>6, <2>4, <2>5, ManagerFacts
  <2> QED BY <1>10, <2>1, <2>3, <2>5, <2>6
<1>12. ASSUME Tokens' # {}
       PROVE  /\ file'.by = Holder(Discord, disc.inst, cl'.lease)
              /\ \A i \in DOMAIN wire' : wire'[i].act = "acquire" /\ wire'[i].inst = disc.inst
  <2>1. Tokens # {} /\ file' = file
    BY <1>4, <1>7, <1>12 DEF Tokens, Loose
  <2>2. \A i \in DOMAIN wire' : i + 1 \in DOMAIN wire /\ wire'[i] = wire[i + 1]
    BY <1>4, <1>9
  <2> QED BY <1>10, <2>1, <2>2 DEF Kept
<1> QED BY <1>4, <1>8, <1>11, <1>12 DEF Kept

\* The microphone is turned on under a lease of its own.
LEMMA LocalOnKept ==
    ASSUME SInv, Kept, Seen, NEW o \in InputObservations, LocalOn(o)
    PROVE  Kept' /\ Seen'
<1> DEFINE i == o[Local].inst
           a == Acquire(mem, Local, i, o, issued + 1)
<1>1. PICK out \in Outcomes(a) :
          /\ Commit(a, out)
          /\ IF Result(a, out) # 0 THEN Publish(bst, TRUE, Command) /\ wait' = req'.rev
             ELSE UNCHANGED <<req, wait>>
  BY DEF LocalOn
<1>2. ~failed /\ UNCHANGED <<claims, bst, wire, disc, lis, cl, dst, br>> /\ i # 0
  BY DEF LocalOn, discord
<1>3. SeenOK(o, bst) /\ Calm(o, file) /\ i = bst.inst /\ i \in Nat \ {0} /\ bst.inst <= br.inst
  BY <1>2, InputCalm, BridgeFacts DEF SeenOK
<1>4. Sound(a) /\ (a.lease # 0 => After(mem, a.commits).by = Holder(Local, i, a.lease))
  <2>1. /\ Sound(Guarded(a))
        /\ Guarded(a).lease # 0 => After(mem, Guarded(a).commits).by = Holder(Local, i, Guarded(a).lease)
    BY <1>3, ManagerFacts, AcquireSound
  <2> HIDE DEF a
  <2> QED BY <1>2, <2>1 DEF Guarded
<1>5. \A j \in DOMAIN a.commits : Loose /\ Settled(a.commits[j], Local, i, o)
  BY <1>2, <1>3, AcquireMoves, ManagerFacts
<1> HIDE DEF a, i
<1>6. /\ Done(a, out) => file' = After(file, a.commits)
      /\ file' = file \/ \E j \in DOMAIN a.commits : file' = a.commits[j]
  BY <1>1, <1>2, <1>4, CommitTypes DEF SInv
<1>7. file' = file \/ (Loose /\ Settled(file', Local, i, o))
  BY <1>5, <1>6
<1>8. Quiet(o, Sources) => ~dst.listening
  BY <1>3, ManagerFacts DEF Quiet, SeenOK
<1>9. \/ file' = file
      \/ /\ Loose /\ file'.phase # "blocked"
         /\ file'.by.src = Local => ~dst.listening /\ file'.by.inst = bst.inst
  BY <1>3, <1>7, <1>8, ManagerFacts DEF Settled
<1>10. req' = req \/ (file'.by.src = Local /\ file'.by.inst = req'.inst)
  <2>1. CASE Result(a, out) # 0
    <3>1. Done(a, out) /\ a.lease # 0
      BY <2>1 DEF Result
    <3>2. file'.by = Holder(Local, i, a.lease)
      BY <1>2, <1>4, <1>6, <3>1, ManagerFacts
    <3>3. req'.inst = bst.inst
      BY <1>1, <2>1, BridgeFacts, CommandFresh, PublishTypes DEF SInv
    <3> QED BY <1>3, <3>2, <3>3 DEF Holder
  <2>2. CASE ~(Result(a, out) # 0)
    BY <1>1, <2>2
  <2> QED BY <2>1, <2>2
<1>11. Seen'
  BY <1>2, <1>9, <1>10, Resettled
<1>12. Kept'
  BY <1>2, <1>9, ClientKept
<1> QED BY <1>11, <1>12

\* Once the bridge has shown that the last command stopped it, nothing is left that
\* could turn its microphone on.
LEMMA StoppedLoose ==
    ASSUME SInv, Kept, Seen, file.by.src = Local, bst.mic # "on",
           bst.act = req.act, req.act # NoAct, bst.inst # 0
    PROVE  Tokens = {} /\ ~Granted /\ ~BridgeOn
<1>1. Tokens = {} /\ ~Granted
  BY DiscordHolds, ManagerFacts
<1>2. CASE bst.inst = br.inst
  <2>1. br.queue = <<>> /\ br.mic # "on"
    BY <1>2 DEF SInv, Orderly
  <2> QED BY <1>1, <2>1 DEF BridgeOn
<1>3. CASE bst.inst # br.inst
  <2>1. file.by.inst <= bst.inst /\ bst.inst < br.inst
    BY <1>3, BridgeFacts DEF Seen
  <2>2. file.by.inst \in Nat
    BY ManagerFacts, LeaseShape
  <2>3. file.by.inst # br.inst
    BY <2>1, <2>2, BridgeFacts
  <2> QED BY <1>1, <2>3 DEF Seen, LocalHas
<1> QED BY <1>2, <1>3

\* What ends the local lease is not an active Discord: it unowns the lease.
LEMMA InactiveMoves ==
    ASSUME SInv, Seen, NEW o, o[Discord].st = "active" => dst.listening,
           NEW i, NEW j \in DOMAIN Guarded(ReleaseIfInactive(mem, Local, i, o)).commits
    PROVE  LET a == Guarded(ReleaseIfInactive(mem, Local, i, o)) IN
           /\ file.by.src = Local /\ a.commits[j] = SetUnowned(mem)
           /\ SetUnowned(mem).phase = "unowned" /\ SetUnowned(mem).by = NoHolder
           /\ Quiet(o, Sources)
<1> DEFINE a == Guarded(ReleaseIfInactive(mem, Local, i, o))
<1>1. \/ a.commits = <<>>
      \/ /\ ~failed /\ mem.phase = "owned" /\ mem.by.src = Local
         /\ \/ a.commits = <<SetBlocked(mem)>> /\ Active(o) \cap Peers(Local) # {}
            \/ a.commits = <<SetUnowned(mem)>> /\ o[Local].inst = i /\ Quiet(o, Sources)
  BY InactiveSound
<1> HIDE DEF a
<1>2. j \in DOMAIN a.commits
  BY DEF a
<1>3. ~failed /\ mem = file /\ file.by.src = Local
  BY <1>1, <1>2, ManagerFacts
<1>4. o[Discord].st # "active"
  BY <1>3 DEF Seen
<1>5. Active(o) \cap Peers(Local) = {}
  BY <1>4, ManagerFacts DEF Active, Peers
<1>6. a.commits = <<SetUnowned(mem)>> /\ Quiet(o, Sources)
  BY <1>1, <1>2, <1>5
<1>7. a.commits[j] = SetUnowned(mem)
  BY <1>2, <1>6
<1> QED BY <1>3, <1>6, <1>7, UnownedTypes, ManagerFacts DEF a

\* A handler ends the local lease only after the bridge has stopped for it.
LEMMA FinishKept ==
    ASSUME SInv, Kept, Seen, NEW o \in PhysicalObservations, FinishOff(o) \/ FinishFailedOn(o)
    PROVE  Kept' /\ Seen'
<1> DEFINE a == Guarded(ReleaseIfInactive(mem, Local, o[Local].inst, o))
<1>1. /\ UNCHANGED <<claims, bst, wire, disc, lis, cl, dst, br>>
      /\ ReleaseLocal(o)
      /\ bst.act = req.act /\ bst.mic = "off" /\ bst.st # "idle" /\ req.enabled # "unset"
      /\ req' = req \/ req' = [req EXCEPT !.enabled = "off"]
      /\ req.enabled = "on" => req' = [req EXCEPT !.enabled = "off"]
  BY DEF FinishOff, FinishFailedOn, discord, OffApplied, EnableFailed
<1>2. PICK out \in Outcomes(a) : Commit(a, out)
  BY <1>1 DEF ReleaseLocal
<1>3. Sound(a) /\ SeenOK(o, bst)
  BY InactiveSound, PhysicalSeen DEF SInv
<1>4. \A j \in DOMAIN a.commits :
         file.by.src = Local /\ a.commits[j].phase = "unowned" /\ a.commits[j].by = NoHolder
  BY <1>3, InactiveMoves DEF SeenOK
<1> HIDE DEF a
<1>5. file' = file \/ \E j \in DOMAIN a.commits : file' = a.commits[j]
  BY <1>1, <1>2, <1>3, CommitTypes DEF SInv
<1>6. req'.enabled # "on"
  BY <1>1, BridgeFacts DEF Commands
<1>7. bst.inst # 0 /\ req.act # NoAct
  BY <1>1 DEF SInv, ApiOK, NoReport
<1>8. file' = file \/ (/\ Tokens = {} /\ ~Granted /\ ~BridgeOn
                       /\ file'.phase = "unowned" /\ file'.by = NoHolder)
  BY <1>1, <1>4, <1>5, <1>7, StoppedLoose
<1>9. Kept'
  BY <1>1, <1>8 DEF Kept, Granted, Tokens
<1>10. Seen'
  <2>1. CASE file' = file
    BY <1>1, <1>6, <2>1, Resettled
  <2>2. CASE ~BridgeOn /\ file'.phase = "unowned" /\ file'.by = NoHolder
    BY <1>1, <1>6, <2>2, ManagerFacts DEF Seen, BridgeOn
  <2> QED BY <1>8, <2>1, <2>2
<1> QED BY <1>9, <1>10

\* An OFF leaves the lease.
LEMMA LocalOffKept ==
    ASSUME SInv, Kept, Seen, NEW waits \in BOOLEAN, LocalOff(waits)
    PROVE  Kept' /\ Seen'
<1>1. UNCHANGED <<file, bst, wire, disc, lis, cl, dst, br>> /\ Publish(bst, FALSE, Command)
  BY DEF LocalOff, discord
<1>2. req'.enabled # "on"
  BY <1>1, BridgeFacts, CommandFresh, PublishTypes DEF SInv
<1> QED BY <1>1, <1>2, Resettled, ClientKept

\* So do claims, until they are completed.
LEMMA ClaimsKept ==
    ASSUME SInv, Kept, Seen,
           HandlerEnds \/ PrepareRetirement \/ \E c \in claims : AttestStopped(c) \/ ExpireClaim(c)
    PROVE  Kept' /\ Seen'
<1>1. UNCHANGED <<file, bst, req, wire, disc, lis, cl, dst, br>>
  BY DEF HandlerEnds, PrepareRetirement, AttestStopped, ExpireClaim, discord
<1> QED BY <1>1, Resettled, ClientKept

\* A claim that was attested is of an instance that does not run any more.
LEMMA CompleteRetirementKept ==
    ASSUME SInv, Kept, Seen, NEW c \in claims, CompleteRetirement(c)
    PROVE  Kept' /\ Seen'
<1> DEFINE a == Guarded(Release(mem, c.by))
<1>1. UNCHANGED <<bst, req, wire, disc, lis, cl, dst, br>> /\ c.stopped
  BY DEF CompleteRetirement, discord
<1>2. PICK out \in Outcomes(a) : Commit(a, out)
  BY DEF CompleteRetirement
<1>3. /\ Sound(a)
      /\ a.commits = <<>> \/ (a.commits = <<SetUnowned(mem)>> /\ ~failed /\ mem.by = c.by)
  BY ReleaseSound
<1> HIDE DEF a
<1>4. file' = file \/ \E j \in DOMAIN a.commits : file' = a.commits[j]
  BY <1>1, <1>2, <1>3, CommitTypes DEF SInv
<1>5. file' = file \/ (file' = SetUnowned(mem) /\ mem = file /\ file.by = c.by)
  BY <1>3, <1>4, ManagerFacts
<1>6. CASE file' = SetUnowned(mem) /\ mem = file /\ file.by = c.by
  <2>1. /\ file.by.src = Discord /\ file.by.inst <= disc.inst
        /\ disc.up => file.by.inst < disc.inst
    BY <1>1, <1>6 DEF SInv, ClaimsOK
  <2>2. Tokens = {} /\ ~Granted
    <3>1. file.by.inst \in Nat /\ disc.inst \in Nat
      BY <2>1, ManagerFacts, LeaseShape DEF SInv, DiscordOK
    <3> QED BY <2>1, <3>1, DiscordHolds
  <2>3. Loose
    BY <2>1, <2>2, NotLocalLoose, ManagerFacts
  <2>4. file'.phase # "blocked" /\ file'.by.src # Local
    BY <1>6, UnownedTypes, ManagerFacts
  <2> QED BY <1>1, <2>3, <2>4, Resettled, ClientKept
<1> QED BY <1>1, <1>5, <1>6, Resettled, ClientKept

\* A new Bot API finds the lease in the file, and no report.
LEMMA BotRestartsKept ==
    ASSUME SInv, Kept, Seen, NEW readable \in BOOLEAN, BotRestarts(readable)
    PROVE  Kept' /\ Seen'
<1>1. /\ UNCHANGED <<file, disc, lis, dst, br>> /\ bst' = NoReport /\ req' = NoReq /\ wire' = <<>>
      /\ cl' = IF Waiting THEN [cl EXCEPT !.call.ans = "error"] ELSE cl
  BY DEF BotRestarts
<1>2. cl \in Clients
  BY ClientFacts
<1>3. cl'.lease = cl.lease /\ (Granted' => Granted /\ cl' = cl) /\ DOMAIN wire' = {}
  BY <1>1, <1>2 DEF Granted, Clients, Calls
<1>4. Kept'
  BY <1>1, <1>3 DEF Kept, Tokens
<1>5. Seen'
  BY <1>1 DEF Seen, LocalHas, BridgeOn, NoReport, NoReq
<1> QED BY <1>4, <1>5

-----------------------------------------------------------------------------
(* Capture is leased: the bridge *)

\* A report that ends the lease shows a bridge with nothing left to do.
LEMMA ReportKept ==
    ASSUME SInv, Kept, Seen, Report
    PROVE  Kept' /\ Seen'
<1>1. /\ bst' = ReportOf(br) /\ bst' \in Reports
      /\ bst'.inst = br.inst /\ bst'.mic = br.mic /\ bst'.act = br.act
      /\ UNCHANGED <<claims, wait, wire, disc, lis, cl, dst>>
      /\ \/ ReportStops /\ \E d \in DiscordSeen : ReleaseLocal(Both(LocalFresh(bst'), d))
         \/ UNCHANGED <<mem, file, failed, issued, counts>>
      /\ \/ UNCHANGED req /\ (failed' => failed)
         \/ Publish(bst', FALSE, <<"persist", counts.troubles>>) /\ failed' /\ ~failed
      /\ Hear
  BY ReportParts
<1>2. req' = req \/ req'.enabled = "off"
  <2>1. <<"persist", counts.troubles>> \in Acts
    BY DEF SInv, CountsOK, Acts
  <2> QED BY <1>1, <2>1, BridgeFacts, PublishTypes
<1>3. file' = file \/ (/\ ReportStops /\ file.by.src = Local
                       /\ file'.phase = "unowned" /\ file'.by = NoHolder)
  <2>1. CASE UNCHANGED <<mem, file, failed, issued, counts>>
    BY <2>1
  <2>2. ASSUME NEW d \in DiscordSeen, ReleaseLocal(Both(LocalFresh(bst'), d)), ReportStops
        PROVE  file' = file \/ (file.by.src = Local /\ file'.phase = "unowned" /\ file'.by = NoHolder)
    <3> DEFINE o == Both(LocalFresh(bst'), d)
               a == Guarded(ReleaseIfInactive(mem, Local, o[Local].inst, o))
    <3>1. PICK out \in Outcomes(a) : Commit(a, out)
      BY <2>2 DEF ReleaseLocal
    <3>2. o[Discord].st = "active" => dst.listening
      <4>1. SeenOK(o, bst')
        BY <1>1, FreshSeen DEF SInv
      <4> QED BY <4>1 DEF SeenOK
    <3>3. Sound(a)
      BY InactiveSound
    <3> HIDE DEF o
    <3>4. \A j \in DOMAIN a.commits :
             file.by.src = Local /\ a.commits[j].phase = "unowned" /\ a.commits[j].by = NoHolder
      BY <3>2, InactiveMoves
    <3> HIDE DEF a
    <3>5. file' = file \/ \E j \in DOMAIN a.commits : file' = a.commits[j]
      BY <1>1, <3>1, <3>3, CommitTypes DEF SInv
    <3> QED BY <3>4, <3>5
  <2> QED BY <1>1, <2>1, <2>2
<1>5. ReportStops => br.queue = <<>> /\ br.mic = "off" /\ req.enabled = "off"
  <2>1. ASSUME ReportStops PROVE br.queue = <<>> /\ br.mic = "off" /\ req.enabled = "off"
    <3>1. /\ req.enabled = "off" /\ bst'.act = req.act /\ bst'.mic = "off"
      BY <1>1, <2>1 DEF ReportStops, OffApplied, EnableFailed
    <3>2. req.act # NoAct
      BY <3>1 DEF SInv, ApiOK
    <3> QED BY <1>1, <3>1, <3>2 DEF SInv, Orderly
  <2> QED BY <2>1
<1>6. file' # file => Tokens = {} /\ ~Granted /\ ~BridgeOn /\ req'.enabled # "on"
  <2>1. ASSUME file' # file PROVE Tokens = {} /\ ~Granted /\ ~BridgeOn /\ req'.enabled # "on"
    <3>1. ReportStops /\ file.by.src = Local
      BY <1>3, <2>1
    <3>2. br.queue = <<>> /\ br.mic = "off" /\ req.enabled = "off"
      BY <1>5, <3>1
    <3>3. ~BridgeOn
      BY <3>2 DEF BridgeOn
    <3> QED BY <1>2, <3>1, <3>2, <3>3, DiscordHolds, ManagerFacts
  <2> QED BY <2>1
<1>7. Kept'
  BY <1>1, <1>6 DEF Kept, Granted, Tokens
<1>8. req' \in Commands
  BY ReportTypes DEF SInv, ApiOK
<1>9. br'.inst = br.inst /\ (BridgeOn' => BridgeOn \/ (req'.enabled = "on" /\ req'.inst = br.inst))
  <2>1. CASE br' = br
    BY <2>1 DEF BridgeOn
  <2>2. CASE br' # br
    <3> DEFINE x == [rev |-> req'.rev, act |-> req'.act, on |-> req'.enabled = "on"]
               n == Len(br.queue)
    <3>1. /\ req'.inst = br.inst /\ (x.on <=> req'.enabled = "on")
          /\ br'.queue[n + 1] = x
          /\ \A i \in DOMAIN br'.queue : i = n + 1 \/ (i \in DOMAIN br.queue /\ br'.queue[i] = br.queue[i])
          /\ br'.inst = br.inst /\ br'.mic = br.mic
      BY <1>1, <1>8, <2>2, HearTypes
    <3> HIDE DEF x, n
    <3> QED BY <3>1 DEF BridgeOn
  <2> QED BY <2>1, <2>2
<1>10. Seen'
  <2>1. /\ bst.inst \in Nat /\ br.inst \in Nat \ {0} /\ req.inst \in Nat
        /\ bst.inst <= br.inst /\ req.inst <= bst.inst
    BY BridgeFacts
  <2>2. CASE file' = file
    <3>1. bst'.mic = "on" => LocalHas(br.inst)
      BY <1>1 DEF Seen, BridgeOn
    <3>2. req'.enabled = "on" => LocalHas(req'.inst) \/ br.inst > req'.inst
      BY <1>2, <2>1 DEF Seen
    <3>3. BridgeOn' => LocalHas(br.inst)
      BY <1>2, <1>9, <2>1, <3>2 DEF Seen
    <3> QED BY <1>1, <1>9, <2>1, <2>2, <3>1, <3>2, <3>3 DEF Seen, LocalHas
  <2>3. CASE file' # file
    <3>1. ~BridgeOn' /\ bst'.mic # "on"
      BY <1>1, <1>6, <1>9, <2>3 DEF BridgeOn
    <3>2. file'.phase = "unowned" /\ file'.by.src # Local
      BY <1>3, <2>3, ManagerFacts
    <3> QED BY <1>6, <2>3, <3>1, <3>2 DEF Seen
  <2> QED BY <2>2, <2>3
<1> QED BY <1>7, <1>10

\* The bridge starts nothing it was not told to.
LEMMA BridgeKept ==
    ASSUME SInv, Kept, Seen, BridgeStep, br'.inst \in Nat, br.inst <= br'.inst,
           BridgeOn' => BridgeOn /\ br'.inst = br.inst
    PROVE  Kept' /\ Seen'
<1>1. UNCHANGED <<file, bst, req, wire, disc, lis, cl, dst>>
  BY DEF BridgeStep, bot, discord
<1>2. Kept'
  BY <1>1, ClientKept
<1>3. file.by.src = Local => file.by.inst \in Nat /\ br.inst \in Nat
  BY ManagerFacts, LeaseShape, BridgeFacts
<1> QED BY <1>1, <1>2, <1>3 DEF Seen, LocalHas

\* The steps of the bridge.
LEMMA BridgeStepsKept ==
    ASSUME SInv, Kept, Seen,
           StartCapture \/ (\E st \in {"applied", "failed", "stuck"} : FinishCommand(st))
           \/ (\E st \in {"failed", "stuck"} : WatchdogStops(st)) \/ BridgeRestarts
    PROVE  Kept' /\ Seen'
<1>1. br \in Bridges /\ br.queue \in Seq(Orders) /\ br.inst \in Nat \ {0} /\ br.inst <= br.inst
  BY BridgeFacts
<1>2. CASE StartCapture
  <2>1. /\ br' = [br EXCEPT !.mic = "on", !.st = "applying", !.want = TRUE] /\ BridgeStep
        /\ br.queue # <<>> /\ Head(br.queue).on
    BY <1>2 DEF StartCapture
  <2>2. br'.inst = br.inst
    BY <1>1, <2>1 DEF Bridges
  <2>3. 1 \in DOMAIN br.queue /\ br.queue[1].on
    BY <1>1, <2>1
  <2>4. BridgeOn
    BY <2>3 DEF BridgeOn
  <2> QED BY <1>1, <2>1, <2>2, <2>4, BridgeKept
<1>3. ASSUME NEW st \in {"applied", "failed", "stuck"}, FinishCommand(st) PROVE Kept' /\ Seen'
  <2>1. br.queue # <<>> /\ BridgeStep /\ Applied(st) /\ (st = "stuck" => Head(br.queue).on)
    BY <1>3 DEF FinishCommand
  <2>2. /\ br'.inst = br.inst /\ br'.queue = Tail(br.queue)
        /\ br'.mic = IF st = "stuck" \/ (st = "failed" /\ ~br.queue[1].on) THEN br.mic
                     ELSE IF br.queue[1].on /\ st = "applied" THEN "on" ELSE "off"
    BY <2>1, AppliedFields
  <2>3. 1 \in DOMAIN br.queue
        /\ \A i \in DOMAIN Tail(br.queue) : i + 1 \in DOMAIN br.queue /\ Tail(br.queue)[i] = br.queue[i + 1]
    BY <1>1, <2>1
  <2>4. BridgeOn' => BridgeOn
    BY <2>2, <2>3 DEF BridgeOn
  <2> QED BY <1>1, <2>1, <2>2, <2>4, BridgeKept
<1>4. ASSUME NEW st \in {"failed", "stuck"}, WatchdogStops(st) PROVE Kept' /\ Seen'
  <2>1. /\ br' = [br EXCEPT !.mic = IF st = "stuck" THEN "on" ELSE "off", !.st = st, !.want = FALSE]
        /\ br.mic = "on" /\ BridgeStep
    BY <1>4 DEF WatchdogStops
  <2>2. br'.inst = br.inst /\ br'.queue = br.queue
    BY <1>1, <2>1 DEF Bridges
  <2>3. BridgeOn' => BridgeOn
    BY <2>1, <2>2 DEF BridgeOn
  <2> QED BY <1>1, <2>1, <2>2, <2>3, BridgeKept
<1>5. CASE BridgeRestarts
  <2>1. br' = NewBridge(br.inst + 1) /\ BridgeStep
    BY <1>5 DEF BridgeRestarts
  <2>2. ~BridgeOn' /\ br'.inst = br.inst + 1
    BY <2>1 DEF BridgeOn, NewBridge
  <2> QED BY <1>1, <2>1, <2>2, BridgeKept
<1> QED BY <1>2, <1>3, <1>4, <1>5

-----------------------------------------------------------------------------
\* Every step that is no late heartbeat keeps the lease of a running capture.
LEMMA NextKept ==
    ASSUME SInv, Kept, Seen, Next, counts.late = 0, counts'.late = 0
    PROVE  Kept' /\ Seen'
BY Steps, ServeKept, AcquiredKept, ReleaseTokenKept, RetriesKept, RequestsKept, ListenersKept,
   HeartbeatKept, DiscordLifeKept, LocalOnKept, FinishKept, LocalOffKept, ClaimsKept,
   CompleteRetirementKept, BotRestartsKept, ReportKept, BridgeStepsKept

\* At the start nobody captures.
LEMMA InitKept == Init => Kept /\ Seen
<1> SUFFICES ASSUME Init PROVE Kept /\ Seen
  OBVIOUS
<1> USE DEF Init
<1>1. Tokens = {} /\ ~Granted
  BY DEF Tokens, Granted, AllIdle, NoClient, NoCall
<1>2. /\ file.phase = "bootstrap" /\ file.by.src = "none" /\ bst.mic = "off" /\ req.enabled = "unset"
  BY DEF Bootstrap, Lease, NoHolder, NoReport, NoReq
<1>3. ~BridgeOn
  BY DEF BridgeOn, NewBridge
<1> QED BY <1>1, <1>2, <1>3 DEF Kept, Seen, Local

\* The inductive invariant.
LEMMA VInvHolds == Spec => []VInv
<1>1. Init => VInv
  BY InitTypes, InitKept DEF VInv
<1>2. VInv /\ [Next]_vars => VInv'
  <2>1. ASSUME VInv, Next PROVE VInv'
    <3>1. SInv' /\ counts.late \in Nat /\ counts.late <= counts'.late
      BY <2>1, NextTypes DEF VInv
    <3>2. counts'.late \in Nat
      BY <3>1 DEF SInv, CountsOK
    <3>3. counts'.late = 0 => Kept' /\ Seen'
      BY <2>1, <3>1, <3>2, NextKept DEF VInv
    <3> QED BY <3>1, <3>3 DEF VInv
  <2>2. ASSUME VInv, UNCHANGED vars PROVE VInv'
    <3>1. SInv'
      BY <2>2, SInvStuttering DEF VInv
    <3>2. UNCHANGED <<file, bst, req, wire, disc, lis, cl, dst, br, counts>>
      BY <2>2 DEF vars, bot, discord
    <3> QED BY <2>2, <3>1, <3>2, SeenStays DEF VInv, Kept, Granted, Tokens
  <2> QED BY <2>1, <2>2
<1> QED BY <1>1, <1>2, PTL DEF Spec

\* It says that captures are leased, and so exclusive.
LEMMA VInvGivesLeased == VInv /\ counts.late = 0 => CaptureIsLeased /\ NeverBoth
<1> SUFFICES ASSUME SInv, Kept, Seen PROVE CaptureIsLeased /\ NeverBoth
  BY DEF VInv
<1>1. DiscordCaptures => file.by = Holder(Discord, disc.inst, cl.lease)
  BY DEF DiscordCaptures, Kept, Tokens
<1>2. LocalCaptures => file.by.src = Local /\ file.by.inst = br.inst
  BY DEF LocalCaptures, Seen, BridgeOn, LocalHas
<1>3. CaptureIsLeased
  BY <1>1, <1>2 DEF CaptureIsLeased
<1> QED BY <1>1, <1>2, <1>3, ManagerFacts DEF NeverBoth, Holder

\* As long as no heartbeat of Discord is written late, whoever captures the user's
\* voice holds the lease, in the file too: no retry, late answer, retirement,
\* failed write or restart takes it away from a running capture.
THEOREM CaptureLeased == Spec => [](counts.late = 0 => CaptureIsLeased)
BY VInvHolds, VInvGivesLeased, PTL

\* So the two never capture together before a heartbeat is late: the run
\* "exclusion" needs one to find them so.
THEOREM NeverBothInTime == Spec => [](counts.late = 0 => NeverBoth)
BY VInvHolds, VInvGivesLeased, PTL
=============================================================================
