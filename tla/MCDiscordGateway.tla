-------------------------- MODULE MCDiscordGateway --------------------------
(* Symmetry and bounds for checking the safety of DiscordGateway with TLC. *)
EXTENDS DiscordGateway, TLC

(* Nothing tells one guild from another. *)
Interchangeable == Permutations(Guilds)

(* Calm takes steps away and adds none, so nothing is unsafe only there.   *)
Troubled == ~calm

(* bound: where voice states are asked for, a session has READY and one    *)
(* more event; where none is, it has two.                                  *)
EventsOrCommands == served <= 2 \/ \A g \in Guilds : issued[g] = 0
=============================================================================
