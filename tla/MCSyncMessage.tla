--------------------------- MODULE MCSyncMessage ---------------------------
(* Two calls and two incoming packets over two ids, so that ids coincide or *)
(* differ, replies cross timeouts and each other; a channel of capacity one *)
(* and a plain packet, so that one call can be in the channel and the other *)
(* in Context::send behind a write.                                         *)
EXTENDS SyncMessage

=============================================================================
