--------------------------- MODULE AtomicArtifact ---------------------------
(***************************************************************************)
(* What the users of durable_artifact_process.py rely on: files that one   *)
(* caller at a time reads, replaces and removes.                           *)
(*                                                                         *)
(* A call may fail, and a failed mutation may still take effect, at once   *)
(* or later; but it is settled, one way or the other, before anything else *)
(* is done to a file and before any call succeeds.  A mutation that        *)
(* succeeded has taken effect and survives a power loss.                   *)
(***************************************************************************)
CONSTANTS Paths, Values, Missing, Mutations

VARIABLES
    value,      \* what each path holds
    kept,       \* what each path may hold after a power loss
    inflight,   \* mutations that may still take effect: at most one
    call,       \* the call being served
    answer      \* the last answer

avars == <<value, kept, inflight, call, answer>>

Idle == call.op = "none"
NoAnswer == [ok |-> FALSE, op |-> "none", path |-> Missing, value |-> Missing,
             durable |-> FALSE]

AInit ==
    /\ value = [p \in Paths |-> Missing]
    /\ kept = [p \in Paths |-> {Missing}]
    /\ inflight = {}
    /\ call.op = "none"
    /\ answer = NoAnswer

\* A call begins.
ABegin ==
    /\ Idle
    /\ call'.op # "none"
    /\ answer' = NoAnswer
    /\ UNCHANGED <<value, kept, inflight>>

\* The call's mutation is handed over, nothing else being unsettled.
ASubmit ==
    /\ inflight = {}
    /\ \E m \in Mutations :
          /\ m.op = call.op /\ m.path = call.path /\ m.value = call.value
          /\ inflight' = {m}
    /\ UNCHANGED <<value, kept, call, answer>>

\* An unsettled mutation takes effect, or never will.
ATake ==
    \E m \in inflight :
        /\ inflight' = {}
        /\ value' = [value EXCEPT ![m.path] = m.value]
        /\ kept' = [kept EXCEPT ![m.path] = @ \cup {m.value}]
        /\ UNCHANGED <<call, answer>>

ADrop ==
    /\ inflight # {} /\ inflight' = {}
    /\ UNCHANGED <<value, kept, call, answer>>

\* A path is synced.
ASync ==
    /\ \E p \in Paths : kept' = [kept EXCEPT ![p] = {value[p]}]
    /\ UNCHANGED <<value, inflight, call, answer>>

\* A call succeeds: a read with what the path holds, a mutation with its
\* effect, durable if it asked for that.
ASucceed ==
    /\ ~Idle
    /\ inflight' = {}
    /\ call'.op = "none"
    /\ answer'.ok /\ answer'.op = call.op /\ answer'.path = call.path
    /\ call.op \in {"read", "write", "unlink"} => answer'.value = value[call.path]
    /\ call.op \in {"write", "unlink"} => answer'.value = call.value
    /\ call.op = "write" /\ call.durable => kept[call.path] = {call.value}
    /\ UNCHANGED <<value, kept>>

\* A call fails, and may leave its mutation unsettled.
AFail ==
    /\ ~Idle
    /\ call'.op = "none"
    /\ answer' = NoAnswer
    /\ inflight' \in {inflight, {}}
    /\ UNCHANGED <<value, kept>>

\* The owner process dies, alone or with the machine.
ADie ==
    /\ inflight' = {} /\ call'.op = "none" /\ answer' = NoAnswer
    /\ \/ UNCHANGED <<value, kept>>
       \/ /\ value' \in [Paths -> Values \cup {Missing}]
          /\ \A p \in Paths : value'[p] \in kept[p]
          /\ kept' = [p \in Paths |-> {value'[p]}]

ANext == ABegin \/ ASubmit \/ ATake \/ ADrop \/ ASync \/ ASucceed \/ AFail \/ ADie

ASpec == AInit /\ [][ANext]_avars
====
