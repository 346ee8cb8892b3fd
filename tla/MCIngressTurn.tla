--------------------------- MODULE MCIngressTurn ---------------------------
(* Small instances of IngressTurn for TLC. *)
EXTENDS IngressTurn

CONSTANTS m1, m2, m3, s1, s2, g1, c1, c2, x1

\* m1 and m2 are sent by one user in one channel, m3 in another channel.
MCSessionOf == [m \in Msgs |-> IF m = m3 THEN s2 ELSE s1]
MCSlotOf == [m \in Msgs |-> IF m = m3 THEN c2 ELSE c1]
MCGuildOf == [s \in Sessions |-> g1]
\* Every message says something else ...
MCTextOf == [m \in Msgs |-> m]
\* ... or all say the same: only turn ids tell the turns apart.
SameText == [m \in Msgs |-> x1]
============================================================================
