------------------------ MODULE RestorableSessions ------------------------
(***************************************************************************)
(* What the session checkpoint promises to the rest of Main, without       *)
(* files, heads, generations or locks: a memory of one completed turn per  *)
(* session that survives a restart, may be lost, and forgets a guild when  *)
(* told to.  turns are numbered in the order they begin, in all sessions.  *)
(***************************************************************************)
EXTENDS Naturals

CONSTANTS
    Sessions,   \* session keys
    Guilds,     \* Discord guilds
    GuildOf     \* the guild in a session's key

VARIABLES
    kept,       \* kept[s]: the turn a restart would restore for s, 0 if none
    cut         \* cut[g]: the last turn begun before the latest reset of g

vars == <<kept, cut>>

Init ==
    /\ kept = [s \in Sessions |-> 0]
    /\ cut = [g \in Guilds |-> 0]

(* A checkpoint replaces what is kept.  A session keeps its turn, loses it,
   or moves on to a later one; a turn that a reset has cut off never comes
   back, and neither does one that a later turn of its session replaced. *)
Save ==
    /\ kept' \in [Sessions -> Nat]
    /\ \A s \in Sessions :
          \/ kept'[s] \in {0, kept[s]}
          \/ kept'[s] > kept[s] /\ kept'[s] > cut[GuildOf[s]]
    /\ UNCHANGED cut

(* A reset cuts off every turn the guild has begun; nothing of the guild is
   kept at that moment. *)
Reset(g) ==
    /\ \A s \in Sessions : GuildOf[s] = g => kept[s] = 0
    /\ cut' \in [Guilds -> Nat]
    /\ cut'[g] >= cut[g]
    /\ \A h \in Guilds \ {g} : cut'[h] = cut[h]
    /\ UNCHANGED kept

Next == Save \/ \E g \in Guilds : Reset(g)

Spec == Init /\ [][Next]_vars

===========================================================================
