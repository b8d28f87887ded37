------------------------------ MODULE RunQueue ------------------------------
(***************************************************************************)
(* What the run queue promises to those who ask for a run, with no         *)
(* supervisor, lease, worker or lock in sight: a request is queued, runs   *)
(* its body at most once, and is settled once; at most one request is      *)
(* running and at most one body executes; a request goes back to the queue *)
(* only if its body never began; success is said only of a body that       *)
(* reached its end.                                                        *)
(***************************************************************************)

CONSTANT Requests

VARIABLES
  state,      \* state[r]: "unasked", then RequestState of app/supervisor/model.py
  settlement, \* settlement[r]: "none" until r is settled
  began,      \* requests whose body has begun
  executing,  \* requests whose body is executing
  finished    \* requests whose body reached its end

vars == <<state, settlement, began, executing, finished>>

States == {"unasked", "queued", "running", "settled"}
Settlements == {"success", "error", "killed", "interrupted", "abandoned"}

Init ==
  /\ state = [r \in Requests |-> "unasked"]
  /\ settlement = [r \in Requests |-> "none"]
  /\ began = {}
  /\ executing = {}
  /\ finished = {}

Ask(r) ==
  /\ state[r] = "unasked"
  /\ state' = [state EXCEPT ![r] = "queued"]
  /\ UNCHANGED <<settlement, began, executing, finished>>

Admit(r) ==
  /\ state[r] = "queued"
  /\ \A q \in Requests : state[q] # "running"
  /\ state' = [state EXCEPT ![r] = "running"]
  /\ UNCHANGED <<settlement, began, executing, finished>>

BackToQueue(r) ==
  /\ state[r] = "running"
  /\ r \notin began
  /\ state' = [state EXCEPT ![r] = "queued"]
  /\ UNCHANGED <<settlement, began, executing, finished>>

\* A worker judged silent may still begin: its request is then settled already.  One
\* abandoned had no worker, and never gets one.
Begin(r) ==
  /\ state[r] \in {"running", "settled"}
  /\ settlement[r] # "abandoned"
  /\ r \notin began
  /\ executing = {}
  /\ began' = began \union {r}
  /\ executing' = {r}
  /\ UNCHANGED <<state, settlement, finished>>

End(r) ==
  /\ r \in executing
  /\ executing' = executing \ {r}
  /\ finished' \in {finished, finished \union {r}}
  /\ UNCHANGED <<state, settlement, began>>

Settle(r, how) ==
  /\ state[r] = "running"
  /\ how = "success" => r \in finished
  /\ how = "abandoned" => r \notin began
  /\ state' = [state EXCEPT ![r] = "settled"]
  /\ settlement' = [settlement EXCEPT ![r] = how]
  /\ UNCHANGED <<began, executing, finished>>

Next ==
  \E r \in Requests :
    \/ Ask(r) \/ Admit(r) \/ BackToQueue(r) \/ Begin(r) \/ End(r)
    \/ \E how \in Settlements : Settle(r, how)

Spec == Init /\ [][Next]_vars

-----------------------------------------------------------------------------
\* What anyone may conclude from the table: at most one request is running and one body
\* executes; a request that waits has not run; "success" is said of a body that
\* reached its end, "abandoned" of one that never began; a settled request has a word.
Conclusions ==
  /\ \A r, q \in Requests : state[r] = "running" /\ state[q] = "running" => r = q
  /\ \A r, q \in executing : r = q
  /\ \A r \in Requests :
       /\ state[r] \in {"unasked", "queued"} => r \notin began
       /\ settlement[r] = "success" => r \in finished
       /\ settlement[r] = "abandoned" => r \notin began
       /\ state[r] = "settled" <=> settlement[r] # "none"
  /\ finished \subseteq began /\ executing \subseteq began /\ executing \cap finished = {}
=============================================================================
