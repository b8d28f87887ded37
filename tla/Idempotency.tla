---------------------------- MODULE Idempotency ----------------------------
(***************************************************************************)
(* The server's half of a write sent at least once: the Idempotency-Key    *)
(* records of app.db (app/idempotency), claimed by the guard of each       *)
(* request and settled by the recorder around it (http_v1/idempotency.py). *)
(*                                                                         *)
(* A write is one key with one request (one account, operation and         *)
(* fingerprint): the client makes a fresh key for each.  Its requests are  *)
(* handled in slots, several at a time.  Ages are counted in units of the  *)
(* two limits the service tells apart.                                     *)
(***************************************************************************)
EXTENDS Naturals

CONSTANTS
  Writes,     \* the writes, each with its key
  NoWrite,    \* what a free slot holds
  Slots,      \* the requests that may be in flight or in hand at once
  Pending,    \* pending_s: how long a claim runs before it is taken over
  Retention,  \* retention_s: how long a record is kept
  MaxFaults   \* bound: failures of requests, of the network and of the stores

ASSUME IdempotencyAssumption ==
  /\ Slots \subseteq Nat /\ NoWrite \notin Writes
  /\ Pending \in Nat /\ Retention \in Nat /\ Pending <= Retention /\ MaxFaults \in Nat

VARIABLES
  record,    \* idempotency_record: the row of each write
  slot,      \* the requests
  applied,   \* history: how often each write was committed
  lapsed,    \* history: writes whose refusal could not be stored, and writes that lost a
             \*          row past its limit while a run of theirs had committed or still ran
  disowned,  \* history: writes answered 5xx after they were committed
  faults

server == <<record, slot, applied, lapsed, disowned, faults>>

Answers == {"ok", "final"}                    \* is_kept: a success, a final refusal
Statuses == Answers \union {"open", "error"}  \* and those that may change: 401.., 5xx

\* No row, a row whose status is NULL, or the row of an answer.
Row == [answer : {"absent", "running"} \union Answers, age : 0..(Retention + 1)]
Absent == [answer |-> "absent", age |-> 0]

Stages == {"free", "sent", "claimed", "committed", "answered", "leaving"}
Free == [write |-> NoWrite, at |-> "free", status |-> "none", holds |-> FALSE]

\* holds: the row of the request's write still bears the request's claim_id.
Request == [write : Writes \union {NoWrite}, at : Stages, holds : BOOLEAN,
            status : Statuses \union {"none", "in_progress"}]

ServerTypeOK ==
  /\ record \in [Writes -> Row]
  /\ slot \in [Slots -> Request]
  /\ \A s \in Slots : slot[s].at # "free" => slot[s].write \in Writes
  /\ applied \in [Writes -> Nat]
  /\ lapsed \subseteq Writes /\ disowned \subseteq Writes
  /\ faults \in 0..MaxFaults

ServerInit ==
  /\ record = [w \in Writes |-> Absent]
  /\ slot = [s \in Slots |-> Free]
  /\ applied = [w \in Writes |-> 0]
  /\ lapsed = {} /\ disowned = {} /\ faults = 0

Fault == faults < MaxFaults /\ faults' = faults + 1

Leave(s, status) ==
  [slot EXCEPT ![s] = [write |-> @.write, at |-> "leaving", status |-> status, holds |-> FALSE]]

-----------------------------------------------------------------------------
(* The guard: claim, in one immediate transaction. *)

Expired == {w \in Writes : record[w].answer # "absent" /\ record[w].age > Retention}
Swept == [w \in Writes |-> IF w \in Expired THEN Absent ELSE record[w]]

\* The writes whose row goes, past its limit, with something it alone remembered: an
\* answer, or a run that committed or may still.
Forgotten(gone) ==
  {w \in gone :
     \/ record[w].age > Retention
     \/ /\ record[w].age > Pending
        /\ applied[w] > 0 \/ \E s \in Slots : slot[s].write = w /\ slot[s].holds}

\* The slots once the rows of gone are: their claim_ids match no row any more.
Dispossessed(gone) ==
  [s \in Slots |-> IF slot[s].write \in gone THEN [slot[s] EXCEPT !.holds = FALSE] ELSE slot[s]]

\* A request of the client takes the first free slot.
Send(s, w) ==
  /\ slot[s].at = "free" /\ \A t \in Slots : t < s => slot[t].at # "free"
  /\ slot' = [slot EXCEPT ![s] = [Free EXCEPT !.write = w, !.at = "sent"]]
  /\ UNCHANGED <<record, applied, lapsed, disowned>>

\* Answered already: the stored answer again, and nothing applied.
Replay(s) ==
  LET w == slot[s].write IN
  /\ slot[s].at = "sent" /\ Swept[w].answer \in Answers
  /\ record' = Swept
  /\ slot' = [Dispossessed(Expired) EXCEPT
                ![s] = [write |-> w, at |-> "leaving", status |-> record[w].answer, holds |-> FALSE]]
  /\ lapsed' = lapsed \union Forgotten(Expired)
  /\ UNCHANGED <<applied, disowned, faults>>

StillRunning(w) == Swept[w].answer = "running" /\ Swept[w].age <= Pending

\* The same request is running: request.in_progress, raised out of the transaction, which
\* rolls the sweep back.
RefuseRunning(s) ==
  /\ slot[s].at = "sent" /\ StillRunning(slot[s].write)
  /\ slot' = Leave(s, "in_progress")
  /\ UNCHANGED <<record, applied, lapsed, disowned, faults>>

\* No row, or an abandoned one, which is replaced.
Claim(s) ==
  LET w == slot[s].write IN
  /\ slot[s].at = "sent" /\ Swept[w].answer \notin Answers /\ ~StillRunning(w)
  /\ record' = [Swept EXCEPT ![w] = [answer |-> "running", age |-> 0]]
  /\ slot' = [Dispossessed(Expired \union {w}) EXCEPT
                ![s] = [write |-> w, at |-> "claimed", status |-> "none", holds |-> TRUE]]
  /\ lapsed' = lapsed \union Forgotten(Expired \union {w})
  /\ UNCHANGED <<applied, disowned, faults>>

\* The perimeter refuses before the guard, or the claim raises: there is no claim.
TurnedAway(s) ==
  /\ slot[s].at = "sent" /\ Fault
  /\ \E status \in Statuses \ Answers : slot' = Leave(s, status)
  /\ UNCHANGED <<record, applied, lapsed, disowned>>

-----------------------------------------------------------------------------
(* The route, and the recorder around it. *)

Commit(s) ==
  /\ slot[s].at = "claimed"
  /\ slot' = [slot EXCEPT ![s].at = "committed"]
  /\ applied' = [applied EXCEPT ![slot[s].write] = @ + 1]
  /\ UNCHANGED <<record, lapsed, disowned, faults>>

Answering(s, status) == slot' = [slot EXCEPT ![s].at = "answered", ![s].status = status]

\* The answer of a write that was committed: a success, or a failure after the commit.
AnswerCommitted(s) ==
  /\ slot[s].at = "committed"
  /\ \/ Answering(s, "ok") /\ UNCHANGED <<disowned, faults>>
     \/ /\ Answering(s, "error") /\ Fault
        /\ disowned' = disowned \union {slot[s].write}
  /\ UNCHANGED <<record, applied, lapsed>>

\* The route commits nothing: it refuses, or fails.
Refuse(s) ==
  /\ slot[s].at = "claimed"
  /\ \/ Answering(s, "final") /\ UNCHANGED faults
     \/ \E status \in Statuses \ Answers : Answering(s, status) /\ Fault
  /\ UNCHANGED <<record, applied, lapsed, disowned>>

\* Mutant of Settled: every status is kept.
SettledAnything(w, status) == [record EXCEPT ![w].answer = status]

Settled(w, status) ==
  [record EXCEPT ![w] = IF status \in Answers THEN [@ EXCEPT !.answer = status] ELSE Absent]

\* The write of a refusal that is answered and not kept.
Unsaid(s) == IF slot[s].status = "final" THEN {slot[s].write} ELSE {}

\* Mutant of Settle: complete and release name the write instead of the run's claim.
SettleAnyRun(s) ==
  /\ slot[s].at = "answered"
  /\ slot' = Leave(s, slot[s].status)
  /\ record' = Settled(slot[s].write, slot[s].status)
  /\ UNCHANGED <<applied, lapsed, disowned, faults>>

\* Mutant of Settle: a store that fails releases the claim.
SettleReleases(s) ==
  /\ slot[s].at = "answered"
  /\ slot' = Leave(s, slot[s].status)
  /\ \/ /\ record' = IF slot[s].holds THEN Settled(slot[s].write, slot[s].status) ELSE record
        /\ UNCHANGED <<lapsed, faults>>
     \/ /\ Fault /\ record' = IF slot[s].holds THEN Settled(slot[s].write, "open") ELSE record
        /\ lapsed' = lapsed \union Unsaid(s)
  /\ UNCHANGED <<applied, disowned>>

\* The complete answer settles the claim before it leaves, if the run still has it; a
\* store that fails leaves the claim running.
Settle(s) ==
  /\ slot[s].at = "answered"
  /\ slot' = Leave(s, slot[s].status)
  /\ \/ /\ record' = IF slot[s].holds THEN Settled(slot[s].write, slot[s].status) ELSE record
        /\ UNCHANGED <<lapsed, faults>>
     \/ /\ Fault /\ UNCHANGED record
        /\ lapsed' = lapsed \union Unsaid(s)
  /\ UNCHANGED <<applied, disowned>>

\* The answer is delivered, or nobody is there to read it.
Deliver(s) ==
  /\ slot[s].at = "leaving"
  /\ slot' = [slot EXCEPT ![s] = Free]
  /\ UNCHANGED <<record, applied, lapsed, disowned>>

\* The request is lost on its way, or dies with its process, a cancel at shutdown or an
\* answer that never completes: nothing is settled.
Die(s) ==
  /\ slot[s].at # "free" /\ Fault
  /\ slot' = [slot EXCEPT ![s] = Free]
  /\ UNCHANGED <<record, applied, lapsed, disowned>>

TimePasses ==
  /\ \E w \in Writes : record[w].answer # "absent" /\ record[w].age <= Retention
  /\ record' = [w \in Writes |-> IF record[w].answer # "absent" /\ record[w].age <= Retention
                                 THEN [record[w] EXCEPT !.age = @ + 1] ELSE record[w]]
  /\ UNCHANGED <<slot, applied, lapsed, disowned, faults>>

Handle(s) ==
  \/ Replay(s) \/ RefuseRunning(s) \/ Claim(s)
  \/ Commit(s) \/ AnswerCommitted(s) \/ Refuse(s) \/ Settle(s)

\* Any client: one that sends what it likes, as often as it likes.
ServerNext ==
  \/ \E s \in Slots : \/ Handle(s) \/ TurnedAway(s) \/ Die(s)
                      \/ Deliver(s) /\ (UNCHANGED faults \/ Fault)
                      \/ \E w \in Writes : Send(s, w) /\ UNCHANGED faults
  \/ TimePasses
  \/ Fault /\ UNCHANGED <<record, slot, applied, lapsed, disowned>>

ServerSpec == ServerInit /\ [][ServerNext]_server

-----------------------------------------------------------------------------
(* What the keys promise. *)

\* A write is applied at most once, however often it is sent, but for the residuals: a
\* 5xx after the commit, a run that outlived its claim or died with its answer, and an
\* answer whose retention ended (service.py).
AppliedOnce == \A w \in Writes : applied[w] > 1 => w \in lapsed \union disowned

\* The first answer kept for a write is the one every replay reads until it is swept: a
\* run that lost its claim neither replaces it nor drops it.
FirstAnswerStands ==
  [][\A w \in Writes :
       record[w].answer \in Answers /\ record'[w].answer # record[w].answer
         => record[w].age > Retention]_server
=============================================================================
