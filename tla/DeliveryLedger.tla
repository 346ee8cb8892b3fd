--------------------------- MODULE DeliveryLedger ---------------------------
(***************************************************************************)
(* What the ingress journal promises to its owner, without files, heads,   *)
(* clocks or capacities: a durable row per source delivery that is written *)
(* once per fact.  A row may be forgotten as a whole (expiry, eviction,    *)
(* reset, purge); a row that is kept never moves back, never changes the   *)
(* reply it is bound to, and never renames its checkpoint generation.      *)
(***************************************************************************)
EXTENDS Naturals

CONSTANTS
    Deliveries,   \* source deliveries
    Unbound       \* the reply of a row that has none yet

VARIABLE row      \* row[d]: phase, reply and continuity generation

Rank == [none |-> 0, reserved |-> 1, accepted |-> 2, response_ready |-> 3,
         delivery_inflight |-> 4, delivery_ambiguous |-> 5,
         delivery_succeeded |-> 6, terminal_committing |-> 7, completed |-> 8]

Init == \A d \in Deliveries : row[d].phase = "none"

(* A kept row only gains knowledge. *)
Advances(r, q) ==
    /\ Rank[q.phase] >= Rank[r.phase]
    /\ r.reply # Unbound => q.reply = r.reply
    /\ r.gen > 0 => q.gen = r.gen

Next ==
    \A d \in Deliveries :
       \/ row[d].phase = "none"
       \/ row'[d].phase = "none"
       \/ Advances(row[d], row'[d])

Spec == Init /\ [][Next]_row

=============================================================================
