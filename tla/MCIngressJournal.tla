-------------------------- MODULE MCIngressJournal --------------------------
(* Small instances of IngressJournal for TLC. *)
EXTENDS IngressJournal, TLC

CONSTANTS k1, k2, k3, s1, s2

\* Every key in one scope.
OneScope == [k \in Keys |-> s1]

\* k1 alone in its scope.
TwoScopes == [k \in Keys |-> IF k = k1 THEN s1 ELSE s2]

\* Keys of one scope, and the replies, are interchangeable: the only order the
\* code has on entry ids breaks ties among equally old completed entries.
Symmetry == Permutations(Keys) \cup Permutations(Replies)
====
