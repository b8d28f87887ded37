---------------------------- MODULE MCSupervisor ----------------------------
(* Supervisor on one or two requests, one or two supervisors and two workers. *)
EXTENDS Supervisor, TLC

CONSTANTS s1, s2, w1, w2

Symmetry == Permutations(Supervisors) \union Permutations(Workers)

\* What decides how a state goes on.  Nothing the runs with this view check reads the
\* history "failed"; the row of a settled request is read for a verdict only, which
\* Saves then refuses.
LiveRows == [r \in Requests |-> IF state[r] = "settled" THEN "norow" ELSE row[r]]
Ahead ==
  <<db, lease, LiveRows, lock, paused, pc, memory, processes, began, finished, trouble>>

\* Racing is read of an attempt that goes on, and robbed of a worker that has its lock;
\* StealLock is in Next only, and so is what reads them.
AheadOfTheft ==
  <<Ahead, racing \intersect Attempting, robbed \intersect {w \in Workers : Beating(w)}>>
=============================================================================
