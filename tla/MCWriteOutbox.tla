--------------------------- MODULE MCWriteOutbox ---------------------------
(* WriteOutbox on two writes, the second made while the first is anywhere. *)
EXTENDS WriteOutbox, TLC
=============================================================================
