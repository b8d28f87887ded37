---------------------------- MODULE WriteOutbox ----------------------------
(***************************************************************************)
(* The client's half: every mutation leaves through send() with a key of   *)
(* its own; one the network did not take is held on disk (app/outbox.ts,   *)
(* outbox-store.ts) and departs again with the same key, oldest first, on  *)
(* an online edge, on the relay's return and when the application starts.  *)
(* One document of one operator, over the server of Idempotency.           *)
(***************************************************************************)
EXTENDS Idempotency, Sequences, SequencesExt

ASSUME WriteOutboxAssumption ==
  Writes \subseteq Nat  \* the operator makes them in the order of their numbers

VARIABLES
  told,       \* what the operator was told of each write
  held,       \* the envelopes on disk, in the order they were accepted
  awaited,    \* the requests whose answer the document still awaits
  departing,  \* departAll is running
  walk,       \* what is left of the envelopes it read, the one in flight first
  wanted      \* departureWanted

client == <<told, held, awaited, departing, walk, wanted>>
vars == <<record, slot, applied, lapsed, disowned, faults,
          told, held, awaited, departing, walk, wanted>>

\* "held" is an optimistic write that stands; "failed" one that was rolled back.
Tellings == {"unmade", "sending", "held", "applied", "refused", "failed"}

TypeOK ==
  /\ ServerTypeOK
  /\ told \in [Writes -> Tellings]
  /\ held \in Seq(Writes) /\ IsInjective(held)
  /\ walk \in Seq(Writes)
  /\ awaited \subseteq {s \in Slots : slot[s].at # "free"}
  /\ departing \in BOOLEAN /\ wanted \in BOOLEAN

Init ==
  /\ ServerInit
  /\ told = [w \in Writes |-> "unmade"]
  /\ held = <<>> /\ awaited = {} /\ departing = FALSE /\ walk = <<>> /\ wanted = FALSE

Live(s) == told[slot[s].write] = "sending"
InFlight == \E s \in awaited : ~Live(s)

-----------------------------------------------------------------------------
(* send(): a first sending, whatever waits. *)

Make(w) ==
  /\ told[w] = "unmade" /\ \A v \in Writes : v < w => told[v] # "unmade"
  /\ told' = [told EXCEPT ![w] = "sending"]
  /\ \E s \in Slots : Send(s, w) /\ awaited' = awaited \union {s}
  /\ UNCHANGED <<faults, held, departing, walk, wanted>>

\* The layer answered: a success, or a failure thrown to the surface.
LiveAnswered(s) ==
  /\ s \in awaited /\ Live(s) /\ Deliver(s)
  /\ told' = [told EXCEPT ![slot[s].write] =
                CASE slot[s].status = "ok"    -> "applied"
                  [] slot[s].status = "final" -> "refused"
                  [] OTHER                    -> "failed"]
  /\ awaited' = awaited \ {s}
  /\ UNCHANGED <<faults, held, departing, walk, wanted>>

\* Mutant of LiveUnanswered: what keep() answers is not looked at.
LiveUnansweredTrusting(s) ==
  /\ s \in awaited /\ Live(s)
  /\ told' = [told EXCEPT ![slot[s].write] = "held"]
  /\ held' \in {Append(held, slot[s].write), held}
  /\ awaited' = awaited \ {s}
  /\ UNCHANGED <<departing, walk, wanted>>

\* The network did not: the write is held, and its place in the queue is taken now, unless
\* there is no storage.
LiveUnanswered(s) ==
  /\ s \in awaited /\ Live(s)
  /\ LET w == slot[s].write IN
     \/ told' = [told EXCEPT ![w] = "held"] /\ held' = Append(held, w)
     \/ told' = [told EXCEPT ![w] = "failed"] /\ UNCHANGED held
  /\ awaited' = awaited \ {s}
  /\ UNCHANGED <<departing, walk, wanted>>

-----------------------------------------------------------------------------
(* departAll. *)

\* An online edge, the relay's return, the start of the application: a run already going
\* on remembers that it was asked for.
DepartAsked ==
  /\ \/ departing /\ wanted' = TRUE /\ UNCHANGED <<departing, walk>>
     \/ ~departing /\ departing' = TRUE /\ walk' = held /\ wanted' = FALSE
  /\ UNCHANGED <<server, told, held, awaited>>

DepartNext ==
  /\ departing /\ walk # <<>> /\ ~InFlight
  /\ \E s \in Slots, w \in Writes :
       w = Head(walk) /\ Send(s, w) /\ awaited' = awaited \union {s}
  /\ UNCHANGED <<faults, told, held, departing, walk, wanted>>

\* Mutant of Final: a 409 is a decision, whatever its code.
FinalStatus(status) == status \in {"final", "in_progress"}

\* Mutant of Final: an answer is final only when it is a success.
NeverFinal(status) == FALSE

\* isFinalAnswer: a final status that is not request.in_progress.
Final(status) == status = "final"

\* A success, or a final refusal: the envelope is forgotten, if the disk takes it.
DepartAnswered(s) ==
  /\ s \in awaited /\ ~Live(s) /\ Deliver(s)
  /\ \/ slot[s].status = "ok" /\ told' = [told EXCEPT ![slot[s].write] = "applied"]
     \/ Final(slot[s].status) /\ told' = [told EXCEPT ![slot[s].write] = "refused"]
  /\ walk' = Tail(walk)
  /\ \/ held' = RemoveFirst(held, slot[s].write) /\ UNCHANGED faults
     \/ Fault /\ UNCHANGED held
  /\ awaited' = awaited \ {s}
  /\ UNCHANGED <<departing, wanted>>

\* Any other answer, or none: the run stops and the envelope stays.
Stop(s) ==
  /\ awaited' = awaited \ {s}
  /\ departing' = FALSE /\ walk' = <<>> /\ wanted' = FALSE
  /\ UNCHANGED <<told, held>>

DepartPutOff(s) ==
  /\ s \in awaited /\ ~Live(s) /\ Deliver(s)
  /\ slot[s].status # "ok" /\ ~Final(slot[s].status)
  /\ Stop(s) /\ UNCHANGED faults

DepartUnanswered(s) == s \in awaited /\ ~Live(s) /\ Stop(s)

DepartEnds ==
  /\ departing /\ walk = <<>>
  /\ \/ wanted /\ walk' = held /\ UNCHANGED departing
     \/ ~wanted /\ departing' = FALSE /\ UNCHANGED walk
  /\ wanted' = FALSE
  /\ UNCHANGED <<server, told, held, awaited>>

\* The document goes: what it had in flight and not on disk is forgotten.
Reload ==
  /\ Fault
  /\ awaited' = {} /\ departing' = FALSE /\ walk' = <<>> /\ wanted' = FALSE
  /\ told' = [w \in Writes |-> IF told[w] = "sending" THEN "failed" ELSE told[w]]
  /\ UNCHANGED <<record, slot, applied, lapsed, disowned, held>>

-----------------------------------------------------------------------------
(* The two together. *)

Unanswered(s) == LiveUnanswered(s) \/ DepartUnanswered(s)

\* The document gives up on a request that goes on without it.
NetworkFails(s) ==
  /\ Fault /\ Unanswered(s)
  /\ UNCHANGED <<record, slot, applied, lapsed, disowned>>

RequestDies(s) == Die(s) /\ (Unanswered(s) \/ (s \notin awaited /\ UNCHANGED client))

\* The answer to a request nobody awaits.
Unread(s) == s \notin awaited /\ Deliver(s) /\ UNCHANGED <<faults, client>>

ServerStep(s) ==
  \/ Handle(s) /\ UNCHANGED client
  \/ LiveAnswered(s) \/ DepartAnswered(s) \/ DepartPutOff(s) \/ Unread(s)

Next ==
  \/ \E s \in Slots : \/ ServerStep(s)
                      \/ TurnedAway(s) /\ UNCHANGED client
                      \/ NetworkFails(s) \/ RequestDies(s)
  \/ \E w \in Writes : Make(w)
  \/ DepartAsked \/ DepartNext \/ DepartEnds \/ Reload
  \/ TimePasses /\ UNCHANGED client

Spec == Init /\ [][Next]_vars

\* The server answers what reached it, time passes, a departure goes on, and the edges
\* that start one come back: the operator opens the application again.
FairSpec ==
  /\ Spec
  /\ WF_vars(\E s \in Slots : ServerStep(s))
  /\ WF_vars(TimePasses /\ UNCHANGED client)
  /\ WF_vars(DepartAsked) /\ WF_vars(DepartNext \/ DepartEnds)

-----------------------------------------------------------------------------
(* What the operator is promised. *)

\* The operator is told the truth: a write said applied was, and one said refused was not,
\* but for the server's residuals (outbox.ts, "exactly once in the data").
ToldTruly ==
  \A w \in Writes : /\ told[w] = "applied" => applied[w] > 0
                    /\ told[w] = "refused" /\ applied[w] > 0 => w \in lapsed \union disowned

\* A write the operator was told is held is on disk until its request has answered.
HeldIsKept == \A w \in Writes : told[w] = "held" => Contains(held, w)

\* Every held write leaves in the end, and the queue is empty again: a run that died with
\* its claim, an answer that may change, a reload and a failed run only put it off.
QueueDrains == []<>(held = <<>>)
=============================================================================
