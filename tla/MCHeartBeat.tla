---------------------------- MODULE MCHeartBeat ----------------------------
(* Two tasks, so that kicks, the reactor and the signal overlap.            *)
EXTENDS HeartBeat, TLC

(* Tasks are interchangeable. *)
Symmetry == Permutations(Task)

=============================================================================
