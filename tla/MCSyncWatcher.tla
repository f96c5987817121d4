--------------------------- MODULE MCSyncWatcher ---------------------------
(* Small instances of SyncWatcher.                                          *)
EXTENDS SyncWatcher
=============================================================================
