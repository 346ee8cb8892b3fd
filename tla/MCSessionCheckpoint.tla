------------------------ MODULE MCSessionCheckpoint ------------------------
(* Small instances of SessionCheckpoint for TLC: two guilds, a session each. *)
EXTENDS SessionCheckpoint, TLC

CONSTANTS s1, s2, g1, g2
MCGuildOf == s1 :> g1 @@ s2 :> g2

\* The two sessions change places together with their guilds.
Symmetry == {p \in Permutations(Sessions \cup Guilds) :
               \A s \in Sessions : p[s] \in Sessions
                                   /\ p[GuildOf[s]] = GuildOf[p[s]]}
============================================================================
