----------------------------- MODULE MCWatcher -----------------------------
(* Watcher on one torrent of interest. *)
EXTENDS Watcher, TLC

CONSTANTS t1
=============================================================================
