----------------------------- MODULE MCImServer -----------------------------
(* Small instances: logins and messages, to oneself and to another user.    *)
EXTENDS ImServer, TLC

(* Connections, users and tasks are interchangeable. *)
Symmetry == Permutations(Conn) \cup Permutations(User) \cup Permutations(Task)

=============================================================================
