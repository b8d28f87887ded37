------------------------- MODULE IdempotencyProofs -------------------------
(***************************************************************************)
(* A write is applied at most once but for its residuals, for every set of *)
(* writes and slots, every limit and any number of failures.               *)
(***************************************************************************)
EXTENDS Idempotency, TLAPS

Running == {"claimed", "committed", "answered"}

\* A claim_id is the row's for one running request at most, and that row is running.
Holding ==
  \A s \in Slots : slot[s].holds =>
    /\ slot[s].at \in Running
    /\ record[slot[s].write].answer = "running"
    /\ \A t \in Slots : slot[t].holds /\ slot[t].write = slot[s].write => t = s

\* Of a write with no residual: a run that may still commit or settle holds the claim, and
\* until it commits nothing was applied; a write without a row was not applied.
OneRun(w) ==
  /\ \A s \in Slots : slot[s].write = w /\ slot[s].at \in Running =>
       /\ slot[s].holds
       /\ slot[s].at = "claimed" => applied[w] = 0
       /\ slot[s].at = "answered" /\ slot[s].status # "ok" => applied[w] = 0
  /\ record[w].answer = "absent" => applied[w] = 0
  /\ applied[w] <= 1

Once == \A w \in Writes : w \notin lapsed \union disowned => OneRun(w)

IInv == ServerTypeOK /\ Holding /\ Once

LEMMA InitIInv == ServerInit => IInv
<1> SUFFICES ASSUME ServerInit PROVE IInv
  OBVIOUS
<1> USE DEF ServerInit
<1>1. ServerTypeOK
  BY IdempotencyAssumption
     DEF ServerTypeOK, Row, Absent, Request, Free, Stages, Answers, Statuses
<1>2. Holding
  BY DEF Holding, Free
<1>3. Once
  BY IdempotencyAssumption DEF Once, OneRun, Running, Free, Absent
<1> QED
  BY <1>1, <1>2, <1>3 DEF IInv

LEMMA IInvAppliedOnce == IInv => AppliedOnce
BY DEF IInv, ServerTypeOK, Once, OneRun, AppliedOnce

-----------------------------------------------------------------------------
(* Every step preserves the type. *)

\* To take the key's row from a request leaves it a request.
LEMMA LetGo ==
  ASSUME NEW q \in Request
  PROVE  [q EXCEPT !.holds = FALSE] \in Request
BY DEF Request

LEMMA TypeStep == ServerTypeOK /\ [ServerNext]_server => ServerTypeOK'
<1> SUFFICES ASSUME ServerTypeOK, [ServerNext]_server PROVE ServerTypeOK'
  OBVIOUS
<1> USE IdempotencyAssumption
        DEF ServerTypeOK, Row, Absent, Request, Free, Stages, Answers, Statuses
<1>1. Swept \in [Writes -> Row] /\ Expired \subseteq Writes
  BY DEF Swept, Expired
<1>2. ASSUME NEW gone PROVE Forgotten(gone) \subseteq gone
  BY DEF Forgotten
<1>3. ASSUME NEW gone PROVE /\ Dispossessed(gone) \in [Slots -> Request]
                            /\ \A s \in Slots : /\ Dispossessed(gone)[s].at = slot[s].at
                                                /\ Dispossessed(gone)[s].write = slot[s].write
  <2>1. ASSUME NEW s \in Slots PROVE [slot[s] EXCEPT !.holds = FALSE] \in Request
    <3>1. slot[s] \in Request
      OBVIOUS
    <3> QED
      BY ONLY <3>1, LetGo
  <2>2. ASSUME NEW s \in Slots PROVE /\ [slot[s] EXCEPT !.holds = FALSE].at = slot[s].at
                                     /\ [slot[s] EXCEPT !.holds = FALSE].write = slot[s].write
    OBVIOUS
  <2> HIDE DEF Request
  <2> QED
    BY <2>1, <2>2 DEF Dispossessed
<1>4. ASSUME NEW s \in Slots, NEW w \in Writes, Send(s, w), UNCHANGED faults PROVE ServerTypeOK'
  BY <1>4 DEF Send
<1>5. ASSUME NEW s \in Slots, Replay(s) PROVE ServerTypeOK'
  BY <1>1, <1>2, <1>3, <1>5 DEF Replay, Swept
<1>6. ASSUME NEW s \in Slots, RefuseRunning(s) PROVE ServerTypeOK'
  BY <1>6 DEF RefuseRunning, Leave
<1>7. ASSUME NEW s \in Slots, Claim(s) PROVE ServerTypeOK'
  <2>1. slot[s].write \in Writes
    BY <1>7 DEF Claim
  <2>2. record' \in [Writes -> Row]
    BY <1>1, <1>7, <2>1 DEF Claim
  <2>3. slot' \in [Slots -> Request] /\ \A t \in Slots : slot'[t].at # "free" => slot'[t].write \in Writes
    BY <1>3, <1>7 DEF Claim
  <2>4. lapsed' \subseteq Writes
    BY <1>1, <1>2, <1>7, <2>1 DEF Claim
  <2> QED
    BY <1>7, <2>2, <2>3, <2>4 DEF Claim
<1>8. ASSUME NEW s \in Slots, TurnedAway(s) PROVE ServerTypeOK'
  BY <1>8 DEF TurnedAway, Leave, Fault
<1>9. ASSUME NEW s \in Slots, Commit(s) PROVE ServerTypeOK'
  BY <1>9 DEF Commit
<1>10. ASSUME NEW s \in Slots, AnswerCommitted(s) PROVE ServerTypeOK'
  BY <1>10 DEF AnswerCommitted, Answering, Fault
<1>11. ASSUME NEW s \in Slots, Refuse(s) PROVE ServerTypeOK'
  BY <1>11 DEF Refuse, Answering, Fault
<1>12. ASSUME NEW s \in Slots, Settle(s) PROVE ServerTypeOK'
  <2>1. slot[s].write \in Writes
    BY <1>12 DEF Settle
  <2>2. record' \in [Writes -> Row]
    BY <1>12, <2>1 DEF Settle, Settled
  <2>3. slot' \in [Slots -> Request] /\ \A t \in Slots : slot'[t].at # "free" => slot'[t].write \in Writes
    BY <1>12 DEF Settle, Leave
  <2> QED
    BY <1>12, <2>1, <2>2, <2>3 DEF Settle, Fault, Unsaid
<1>13. ASSUME NEW s \in Slots, Deliver(s), UNCHANGED faults \/ Fault PROVE ServerTypeOK'
  BY <1>13 DEF Deliver, Fault
<1>14. ASSUME NEW s \in Slots, Die(s) PROVE ServerTypeOK'
  BY <1>14 DEF Die, Fault
<1>15. CASE TimePasses
  BY <1>15 DEF TimePasses
<1>16. CASE Fault /\ UNCHANGED <<record, slot, applied, lapsed, disowned>>
  BY <1>16 DEF Fault
<1>17. CASE UNCHANGED server
  BY <1>17 DEF server
<1> QED
  BY <1>4, <1>5, <1>6, <1>7, <1>8, <1>9, <1>10, <1>11, <1>12, <1>13, <1>14, <1>15, <1>16, <1>17
     DEF ServerNext, Handle

-----------------------------------------------------------------------------
(* What a claim and a sweep do to the slots and the rows. *)

LEMMA Rows ==
  ASSUME ServerTypeOK
  PROVE  /\ Expired \subseteq Writes
         /\ \A w \in Writes : w \notin Expired => Swept[w] = record[w]
         /\ \A w \in Expired : Swept[w] = Absent /\ record[w].age > Retention
         /\ Swept \in [Writes -> Row]
BY IdempotencyAssumption DEF ServerTypeOK, Expired, Swept, Row, Absent

LEMMA Slotted ==
  ASSUME ServerTypeOK, NEW gone, NEW s \in Slots
  PROVE  /\ Dispossessed(gone)[s].at = slot[s].at
         /\ Dispossessed(gone)[s].write = slot[s].write
         /\ Dispossessed(gone)[s].status = slot[s].status
         /\ Dispossessed(gone)[s].holds <=> slot[s].holds /\ slot[s].write \notin gone
BY DEF ServerTypeOK, Dispossessed, Request

-----------------------------------------------------------------------------
(* Every step preserves who holds what. *)

LEMMA HoldingStep ==
  ServerTypeOK /\ ServerTypeOK' /\ Holding /\ [ServerNext]_server => Holding'
<1> SUFFICES ASSUME ServerTypeOK, ServerTypeOK', Holding, [ServerNext]_server PROVE Holding'
  OBVIOUS
<1>0. /\ slot \in [Slots -> Request] /\ record \in [Writes -> Row]
      /\ \A s \in Slots : slot[s].at # "free" => slot[s].write \in Writes
      /\ \A s \in Slots : slot[s].holds => slot[s].write \in Writes
  BY DEF ServerTypeOK, Holding, Running
\* A slot that comes to hold nothing, the rows of the others left as they are.
<1>1. ASSUME NEW s \in Slots, ~slot'[s].holds, \A t \in Slots : t # s => slot'[t] = slot[t],
             \A t \in Slots : t # s /\ slot[t].holds
                              => record'[slot[t].write].answer = record[slot[t].write].answer
      PROVE Holding'
  BY <1>0, <1>1 DEF Holding
<1>2. ASSUME NEW s \in Slots, NEW w \in Writes, Send(s, w) PROVE Holding'
  BY <1>0, <1>1, <1>2 DEF Send, Free
<1>3. ASSUME NEW s \in Slots, Replay(s) PROVE Holding'
  BY <1>0, <1>3, Rows, Slotted DEF Replay, Holding
<1>4. ASSUME NEW s \in Slots, RefuseRunning(s) PROVE Holding'
  BY <1>0, <1>1, <1>4 DEF RefuseRunning, Leave
<1>5. ASSUME NEW s \in Slots, Claim(s) PROVE Holding'
  <2> DEFINE w == slot[s].write
             gone == Expired \union {w}
  <2>1. /\ w \in Writes
        /\ record' = [Swept EXCEPT ![w] = [answer |-> "running", age |-> 0]]
        /\ slot' = [Dispossessed(gone) EXCEPT
                      ![s] = [write |-> w, at |-> "claimed", status |-> "none", holds |-> TRUE]]
    BY <1>0, <1>5 DEF Claim
  <2>2. slot'[s].holds /\ slot'[s].at = "claimed" /\ slot'[s].write = w /\ record'[w].answer = "running"
    BY <2>1, Rows DEF Dispossessed
  <2>3. ASSUME NEW t \in Slots, t # s
        PROVE /\ slot'[t].at = slot[t].at /\ slot'[t].write = slot[t].write
              /\ slot'[t].holds => /\ slot[t].holds /\ slot[t].write # w
                                   /\ record'[slot[t].write] = record[slot[t].write]
    BY <1>0, <2>1, <2>3, Rows, Slotted DEF Dispossessed
  <2> QED
    BY <1>0, <2>2, <2>3 DEF Holding, Running
<1>6. ASSUME NEW s \in Slots, TurnedAway(s) PROVE Holding'
  BY <1>0, <1>1, <1>6 DEF TurnedAway, Leave
<1>7. ASSUME NEW s \in Slots, Commit(s) PROVE Holding'
  BY <1>0, <1>7 DEF Commit, Holding, Running, Request
<1>8. ASSUME NEW s \in Slots, AnswerCommitted(s) PROVE Holding'
  BY <1>0, <1>8 DEF AnswerCommitted, Answering, Holding, Running, Request
<1>9. ASSUME NEW s \in Slots, Refuse(s) PROVE Holding'
  BY <1>0, <1>9 DEF Refuse, Answering, Holding, Running, Request
<1>10. ASSUME NEW s \in Slots, Settle(s) PROVE Holding'
  <2>1. ASSUME NEW t \in Slots, t # s, slot[t].holds
        PROVE record'[slot[t].write].answer = record[slot[t].write].answer
    <3>1. slot[s].holds => slot[t].write # slot[s].write
      BY <2>1 DEF Holding
    <3> QED
      BY <1>0, <1>10, <2>1, <3>1 DEF Settle, Settled
  <2> QED
    BY <1>0, <1>1, <1>10, <2>1 DEF Settle, Leave
<1>11. ASSUME NEW s \in Slots, Deliver(s) \/ Die(s) PROVE Holding'
  BY <1>0, <1>1, <1>11 DEF Deliver, Die, Free
<1>12. CASE TimePasses
  BY <1>0, <1>12 DEF TimePasses, Holding, Row
<1>13. CASE UNCHANGED <<record, slot>>
  BY <1>13 DEF Holding
<1> QED
  BY <1>2, <1>3, <1>4, <1>5, <1>6, <1>7, <1>8, <1>9, <1>10, <1>11, <1>12, <1>13
     DEF ServerNext, Handle, server

-----------------------------------------------------------------------------
(* Every step preserves the one run of a write that has no residual. *)

LEMMA OnceStep == IInv /\ ServerTypeOK' /\ [ServerNext]_server => Once'
<1> SUFFICES ASSUME IInv, ServerTypeOK', [ServerNext]_server,
                    NEW w \in Writes, w \notin lapsed' \union disowned'
             PROVE  OneRun(w)'
  BY DEF Once
<1>0. /\ slot \in [Slots -> Request] /\ record \in [Writes -> Row] /\ applied \in [Writes -> Nat]
      /\ \A s \in Slots : slot[s].at # "free" => slot[s].write \in Writes
  BY DEF IInv, ServerTypeOK
<1>1. w \notin lapsed \union disowned => OneRun(w)
  BY DEF IInv, Once
\* The slots of w run no further, and its row and count are left alone.
<1>2. ASSUME w \notin lapsed \union disowned,
             \A t \in Slots : slot'[t].write = w /\ slot'[t].at \in Running => slot'[t] = slot[t],
             record'[w].answer = record[w].answer, applied' = applied
      PROVE  OneRun(w)'
  BY <1>1, <1>2 DEF OneRun
<1>3. ASSUME NEW s \in Slots, NEW v \in Writes, Send(s, v) PROVE OneRun(w)'
  <2>1. slot'[s].at = "sent" /\ \A t \in Slots : t # s => slot'[t] = slot[t]
    BY <1>0, <1>3 DEF Send, Free
  <2> QED
    BY <1>2, <1>3, <2>1 DEF Send, Running
\* A sweep takes the row of no write without a residual.
<1>4. ASSUME NEW gone, Expired \subseteq gone, lapsed' = lapsed \union Forgotten(gone) PROVE w \notin Expired
  BY <1>4, Rows DEF Forgotten, IInv
<1>5. ASSUME NEW s \in Slots, Replay(s) PROVE OneRun(w)'
  <2>1. w \notin lapsed \union disowned /\ w \notin Expired
    BY <1>4, <1>5 DEF Replay
  <2>2. record'[w] = record[w]
    BY <1>5, <2>1, Rows DEF Replay, IInv
  <2>3. slot'[s].at = "leaving"
    BY <1>5 DEF Replay, Dispossessed
  <2>4. ASSUME NEW t \in Slots, slot'[t].write = w, t # s PROVE slot'[t] = slot[t]
    BY <1>0, <1>5, <2>1, <2>4, Slotted DEF Replay, Dispossessed, IInv
  <2> QED
    BY <1>2, <1>5, <2>1, <2>2, <2>3, <2>4 DEF Replay, Running
<1>6. ASSUME NEW s \in Slots, RefuseRunning(s) \/ TurnedAway(s) PROVE OneRun(w)'
  <2>1. slot'[s].at = "leaving" /\ \A t \in Slots : t # s => slot'[t] = slot[t]
    BY <1>0, <1>6 DEF RefuseRunning, TurnedAway, Leave
  <2> QED
    BY <1>2, <1>6, <2>1 DEF RefuseRunning, TurnedAway, Running
<1>7. ASSUME NEW s \in Slots, Claim(s) PROVE OneRun(w)'
  <2> DEFINE gone == Expired \union {slot[s].write}
  <2>1. /\ slot[s].at = "sent" /\ slot[s].write \in Writes
        /\ record' = [Swept EXCEPT ![slot[s].write] = [answer |-> "running", age |-> 0]]
        /\ slot' = [Dispossessed(gone) EXCEPT
                      ![s] = [write |-> slot[s].write, at |-> "claimed", status |-> "none", holds |-> TRUE]]
        /\ lapsed' = lapsed \union Forgotten(gone)
        /\ UNCHANGED <<applied, disowned>>
    BY <1>0, <1>7 DEF Claim
  <2>2. w \notin lapsed \union disowned /\ w \notin Expired /\ w \notin Forgotten(gone)
    BY <1>4, <2>1
  <2>3. OneRun(w) /\ Swept[w] = record[w]
    BY <1>1, <2>2, Rows DEF IInv
  <2>4. slot'[s].at = "claimed" /\ slot'[s].holds /\ slot'[s].write = slot[s].write
    BY <2>1 DEF Dispossessed
  <2>5. CASE slot[s].write # w
    <3>1. record'[w] = record[w]
      BY <1>0, <2>1, <2>2, <2>3, <2>5, Rows DEF IInv
    <3>2. ASSUME NEW t \in Slots, slot'[t].write = w PROVE slot'[t] = slot[t]
      <4>1. t # s /\ slot'[t] = Dispossessed(gone)[t]
        BY <2>1, <2>4, <2>5, <3>2 DEF Dispossessed
      <4>2. slot[t].write \notin gone
        BY <2>2, <2>5, <3>2, <4>1, Slotted DEF IInv
      <4> QED
        BY <4>1, <4>2 DEF Dispossessed
    <3> QED
      BY <1>2, <2>1, <2>2, <3>1, <3>2
  <2>6. CASE slot[s].write = w
    <3>1. applied[w] = 0 /\ \A t \in Slots : slot[t].write = w => ~slot[t].holds
      <4>1. CASE record[w].answer = "absent"
        BY <2>3, <4>1 DEF OneRun, IInv, Holding
      <4>2. CASE record[w].answer # "absent"
        <5>1. record[w].age > Pending
          BY <1>0, <1>7, <2>3, <2>6, <4>2, IdempotencyAssumption DEF Claim, StillRunning, Row
        <5> QED
          BY <1>0, <2>2, <2>6, <5>1 DEF Forgotten
      <4> QED
        BY <4>1, <4>2
    <3>2. \A t \in Slots : slot[t].write = w => slot[t].at \notin Running
      BY <2>3, <3>1 DEF OneRun
    <3>3. \A t \in Slots : t # s => slot'[t].at = slot[t].at /\ slot'[t].write = slot[t].write
      BY <1>0, <2>1, Slotted DEF Dispossessed, IInv
    <3>4. record'[w].answer = "running"
      BY <2>1, <2>6, Rows DEF IInv
    <3>5. \A t \in Slots : slot'[t].write = w /\ slot'[t].at \in Running => t = s
      BY <3>2, <3>3
    <3>6. applied'[w] = 0
      BY <2>1, <3>1
    <3> QED
      BY <2>4, <3>4, <3>5, <3>6 DEF OneRun
  <2> QED
    BY <2>5, <2>6
<1>8. ASSUME NEW s \in Slots, Commit(s) PROVE OneRun(w)'
  <2>1. /\ slot[s].at = "claimed" /\ slot[s].write \in Writes
        /\ slot'[s].at = "committed" /\ slot'[s].write = slot[s].write /\ (slot'[s].holds <=> slot[s].holds)
        /\ \A t \in Slots : t # s => slot'[t] = slot[t]
        /\ applied' = [applied EXCEPT ![slot[s].write] = @ + 1]
        /\ UNCHANGED <<record, lapsed, disowned>>
    BY <1>0, <1>8 DEF Commit, Request
  <2>2. OneRun(w)
    BY <1>1, <2>1
  <2>3. CASE slot[s].write # w
    BY <1>0, <2>1, <2>2, <2>3 DEF OneRun
  <2>4. CASE slot[s].write = w
    <3>1. slot[s].holds /\ applied[w] = 0 /\ record[w].answer = "running"
      BY <2>1, <2>2, <2>4 DEF OneRun, Running, IInv, Holding
    <3>2. \A t \in Slots : t # s /\ slot[t].write = w => slot[t].at \notin Running
      BY <2>2, <2>4, <3>1 DEF OneRun, IInv, Holding
    <3>3. applied'[w] = 1
      BY <1>0, <2>1, <2>4, <3>1
    <3>4. \A t \in Slots : slot'[t].write = w /\ slot'[t].at \in Running => t = s
      BY <2>1, <3>2
    <3>5. slot'[s].holds /\ slot'[s].at = "committed" /\ record'[w].answer = "running"
      BY <2>1, <3>1
    <3> QED
      BY <3>3, <3>4, <3>5 DEF OneRun
  <2> QED
    BY <2>3, <2>4
<1>9. ASSUME NEW s \in Slots, NEW status, Answering(s, status), UNCHANGED <<record, applied>>,
             w \notin lapsed \union disowned,
             slot[s].at = "claimed" \/ (slot[s].at = "committed" /\ (slot[s].write = w => status = "ok"))
      PROVE  OneRun(w)'
  <2>1. /\ slot'[s].at = "answered" /\ slot'[s].write = slot[s].write
        /\ slot'[s].holds = slot[s].holds /\ slot'[s].status = status
        /\ \A t \in Slots : t # s => slot'[t] = slot[t]
    BY <1>0, <1>9 DEF Answering, Request
  <2> QED
    BY <1>1, <1>9, <2>1 DEF OneRun, Running
<1>10. ASSUME NEW s \in Slots, AnswerCommitted(s) PROVE OneRun(w)'
  <2>1. CASE Answering(s, "ok") /\ UNCHANGED <<disowned, faults>>
    BY <1>9, <1>10, <2>1 DEF AnswerCommitted
  <2>2. CASE Answering(s, "error") /\ Fault /\ disowned' = disowned \union {slot[s].write}
    <3>1. w # slot[s].write /\ w \notin lapsed \union disowned
      BY <1>10, <2>2 DEF AnswerCommitted
    <3> QED
      BY <1>9, <1>10, <2>2, <3>1 DEF AnswerCommitted
  <2> QED
    BY <1>10, <2>1, <2>2 DEF AnswerCommitted
<1>11. ASSUME NEW s \in Slots, Refuse(s) PROVE OneRun(w)'
  <2>1. /\ slot[s].at = "claimed" /\ UNCHANGED <<record, applied, lapsed, disowned>>
        /\ \E status \in Statuses : Answering(s, status)
    BY <1>11 DEF Refuse, Statuses, Answers
  <2> QED
    BY <1>9, <2>1
<1>12. ASSUME NEW s \in Slots, Settle(s) PROVE OneRun(w)'
  <2>1. /\ slot[s].at = "answered" /\ slot[s].write \in Writes
        /\ slot'[s].at = "leaving" /\ \A t \in Slots : t # s => slot'[t] = slot[t]
        /\ w \notin lapsed \union disowned /\ applied' = applied
    BY <1>0, <1>12 DEF Settle, Leave
  <2>2. OneRun(w)
    BY <1>1, <2>1
  <2>3. CASE record'[w].answer = record[w].answer
    BY <1>2, <2>1, <2>3 DEF Running
  <2>4. CASE record'[w].answer # record[w].answer
    <3>1. /\ slot[s].write = w /\ slot[s].holds
          /\ record'[w].answer = "absent" => slot[s].status # "ok"
      BY <1>0, <1>12, <2>1, <2>4 DEF Settle, Settled, Absent, Answers, Row
    <3>2. record'[w].answer = "absent" => applied[w] = 0
      BY <2>1, <2>2, <3>1 DEF OneRun, Running
    <3> QED
      BY <2>1, <2>2, <3>2 DEF OneRun, Running
  <2> QED
    BY <2>3, <2>4
<1>13. ASSUME NEW s \in Slots, Deliver(s) \/ Die(s) PROVE OneRun(w)'
  <2>1. slot'[s].at = "free" /\ \A t \in Slots : t # s => slot'[t] = slot[t]
    BY <1>0, <1>13 DEF Deliver, Die, Free
  <2> QED
    BY <1>2, <1>13, <2>1 DEF Deliver, Die, Running
<1>14. CASE TimePasses
  <2>1. record'[w].answer = record[w].answer
    BY <1>0, <1>14 DEF TimePasses, Row
  <2> QED
    BY <1>2, <1>14, <2>1 DEF TimePasses
<1>15. CASE UNCHANGED <<record, slot, applied, lapsed, disowned>>
  BY <1>2, <1>15
<1> QED
  BY <1>3, <1>5, <1>6, <1>7, <1>8, <1>10, <1>11, <1>12, <1>13, <1>14, <1>15
     DEF ServerNext, Handle, server

-----------------------------------------------------------------------------

LEMMA IInvStep == IInv /\ [ServerNext]_server => IInv'
BY TypeStep, HoldingStep, OnceStep DEF IInv

\* The inductive invariant holds of every behaviour of the server with any client.
THEOREM ServerInductive == ServerSpec => []IInv
<1>1. ServerInit => IInv
  BY InitIInv
<1>2. IInv /\ [ServerNext]_server => IInv'
  BY IInvStep
<1> QED
  BY <1>1, <1>2, PTL DEF ServerSpec

\* A write sent any number of times, by any client, is applied at most once, but for the
\* residuals of service.py: a 5xx after the commit, a claim that lapsed and an answer whose
\* retention ended.
THEOREM OnceTheorem == ServerSpec => []AppliedOnce
BY ServerInductive, IInvAppliedOnce, PTL

-----------------------------------------------------------------------------
(* What an answer is worth. *)

\* An answer a record holds stays there, until it is swept past its limit, which is told.
LEMMA AnswerStays ==
  ASSUME IInv, [ServerNext]_server, NEW w \in Writes, record[w].answer \in Answers
  PROVE  \/ record'[w].answer = record[w].answer
         \/ record[w].age > Retention /\ w \in lapsed'
<1>0. /\ slot \in [Slots -> Request] /\ record \in [Writes -> Row]
      /\ \A s \in Slots : slot[s].at # "free" => slot[s].write \in Writes
      /\ ServerTypeOK /\ Holding
  BY DEF IInv, ServerTypeOK
<1> DEFINE Goal == \/ record'[w].answer = record[w].answer
                   \/ record[w].age > Retention /\ w \in lapsed'
\* What a sweep leaves of it.
<1>1. \/ w \notin Expired /\ Swept[w] = record[w]
      \/ w \in Expired /\ record[w].age > Retention /\ Swept[w].answer = "absent"
  BY <1>0, Rows DEF Absent
<1>2. ASSUME NEW gone, Expired \subseteq gone, lapsed' = lapsed \union Forgotten(gone), w \in Expired
      PROVE  Goal
  BY <1>1, <1>2, <1>0, Rows DEF Forgotten
<1>3. ASSUME NEW s \in Slots, Replay(s) PROVE Goal
  BY <1>1, <1>2, <1>3 DEF Replay
<1>4. ASSUME NEW s \in Slots, Claim(s) PROVE Goal
  <2>1. slot[s].write = w => w \in Expired
    BY <1>1, <1>4 DEF Claim
  <2>2. CASE w \in Expired
    <3>1. lapsed' = lapsed \union Forgotten(Expired \union {slot[s].write})
      BY <1>4 DEF Claim
    <3> QED
      BY <1>2, <2>2, <3>1
  <2>3. CASE w \notin Expired
    BY <1>0, <1>1, <1>4, <2>1, <2>3, Rows DEF Claim
  <2> QED
    BY <2>2, <2>3
<1>5. ASSUME NEW s \in Slots, Settle(s) PROVE Goal
  <2>1. slot[s].holds => slot[s].write # w
    BY <1>0 DEF Holding, Answers
  <2> QED
    BY <1>0, <1>5, <2>1 DEF Settle, Settled
<1>6. CASE TimePasses
  BY <1>0, <1>6 DEF TimePasses, Row
<1>7. CASE UNCHANGED record
  BY <1>7
<1> QED
  BY <1>3, <1>4, <1>5, <1>6, <1>7
     DEF ServerNext, Handle, Send, RefuseRunning, TurnedAway, Commit, AnswerCommitted, Refuse,
         Deliver, Die, server

\* The first answer kept for a write is the one every replay reads until it is swept.
THEOREM FirstAnswerKept == ServerSpec => FirstAnswerStands
<1>1. IInv /\ [ServerNext]_server =>
        [\A w \in Writes :
           record[w].answer \in Answers /\ record'[w].answer # record[w].answer
             => record[w].age > Retention]_server
  BY AnswerStays
<1> QED
  BY <1>1, ServerInductive, PTL DEF ServerSpec, FirstAnswerStands

\* What was committed and what is a residual stay so.
LEMMA Residue ==
  ASSUME IInv, [ServerNext]_server
  PROVE  /\ lapsed \union disowned \subseteq lapsed' \union disowned'
         /\ \A w \in Writes : applied[w] > 0 => applied'[w] > 0
<1>1. applied \in [Writes -> Nat] /\ \A s \in Slots : slot[s].at # "free" => slot[s].write \in Writes
  BY DEF IInv, ServerTypeOK
<1>2. ASSUME NEW s \in Slots, Commit(s) PROVE \A w \in Writes : applied[w] > 0 => applied'[w] > 0
  BY <1>1, <1>2 DEF Commit
<1>3. ASSUME NEW s \in Slots, Handle(s) PROVE lapsed \union disowned \subseteq lapsed' \union disowned'
  BY <1>3 DEF Handle, Replay, RefuseRunning, Claim, Commit, AnswerCommitted, Refuse, Settle
<1>4. CASE UNCHANGED <<lapsed, disowned, applied>>
  BY <1>4
<1> QED
  BY <1>2, <1>3, <1>4
     DEF ServerNext, Handle, Replay, RefuseRunning, Claim, AnswerCommitted, Refuse, Settle, Send,
         TurnedAway, Deliver, Die, TimePasses, server

\* A slot that speaks of a commit speaks of one; a refusal on its way out is on record,
\* but for the residuals.
Honest(s) ==
  /\ slot[s].at = "committed" \/ slot[s].status = "ok" =>
       slot[s].write \in Writes /\ applied[slot[s].write] > 0
  /\ slot[s].at = "leaving" /\ slot[s].status = "final" /\ slot[s].write \notin lapsed \union disowned
       => record[slot[s].write].answer = "final"

\* Of a write with no residual, a refusal kept or on its way out is the last word.
Truthful ==
  /\ \A w \in Writes :
       /\ record[w].answer = "ok" => applied[w] > 0
       /\ record[w].answer = "final" /\ w \notin lapsed \union disowned => applied[w] = 0
  /\ \A s \in Slots : Honest(s)

\* The refused write of no residual is never committed afterwards: its runs lost their claim.
LEMMA RefusalIsLast ==
  ASSUME IInv, ServerTypeOK', Truthful, [ServerNext]_server, NEW w \in Writes,
         record[w].answer = "final", w \notin lapsed' \union disowned'
  PROVE  record'[w].answer = "final" /\ applied[w] = 0 /\ applied'[w] = 0
<1>1. record'[w].answer = "final"
  BY AnswerStays DEF Answers
<1>2. w \notin lapsed \union disowned /\ applied[w] = 0
  BY Residue DEF Truthful
<1>3. OneRun(w)
  BY <1>2 DEF IInv, Once
<1>4. ASSUME NEW s \in Slots, Commit(s) PROVE slot[s].write # w
  BY <1>3, <1>4 DEF Commit, OneRun, Running, IInv, Holding
<1>5. applied'[w] = applied[w]
  <2>1. ASSUME NEW s \in Slots, Commit(s) PROVE applied'[w] = applied[w]
    BY <1>4, <2>1 DEF Commit, IInv, ServerTypeOK
  <2> QED
    BY <2>1 DEF ServerNext, Handle, Replay, RefuseRunning, Claim, AnswerCommitted, Refuse, Settle, Send,
         TurnedAway, Deliver, Die, TimePasses, server
<1> QED
  BY <1>1, <1>2, <1>5

LEMMA InitTruthful == ServerInit => Truthful
BY DEF ServerInit, Truthful, Honest, Absent, Free

\* The same request, whether or not the row still bears its claim.
Same(s) ==
  slot'[s].at = slot[s].at /\ slot'[s].write = slot[s].write /\ slot'[s].status = slot[s].status

\* A step leaves a slot as it was, but for its claim, or honest.
LEMMA EverySlotFine ==
  ASSUME IInv, Truthful, [ServerNext]_server
  PROVE  \A s \in Slots : Same(s) \/ Honest(s)'
<1>0. /\ slot \in [Slots -> Request] /\ record \in [Writes -> Row] /\ applied \in [Writes -> Nat]
      /\ \A s \in Slots : slot[s].at # "free" => slot[s].write \in Writes
      /\ ServerTypeOK
  BY DEF IInv, ServerTypeOK
<1>1. ASSUME NEW s \in Slots, slot'[s] = slot[s] PROVE Same(s)
  BY <1>1 DEF Same
<1>2. ASSUME NEW s \in Slots, NEW gone, slot'[s] = Dispossessed(gone)[s] PROVE Same(s)
  BY <1>0, <1>2, Slotted DEF Same
<1>3. ASSUME NEW s \in Slots, Replay(s) PROVE \A t \in Slots : Same(t) \/ Honest(t)'
  <2>1. /\ slot[s].write \in Writes /\ record'[slot[s].write] = record[slot[s].write]
        /\ slot[s].write \notin Expired
    BY <1>0, <1>3, Rows DEF Replay, Absent, Answers
  <2>2. /\ slot'[s].write = slot[s].write /\ slot'[s].status = record[slot[s].write].answer
        /\ slot'[s].at = "leaving"
        /\ applied' = applied
        /\ \A t \in Slots : t # s => slot'[t] = Dispossessed(Expired)[t]
    BY <1>3 DEF Replay, Dispossessed
  <2>3. Honest(s)'
    BY <2>1, <2>2 DEF Truthful, Honest
  <2> QED
    BY <1>2, <2>2, <2>3
<1>4. ASSUME NEW s \in Slots, Claim(s) PROVE \A t \in Slots : Same(t) \/ Honest(t)'
  <2>1. /\ slot'[s].status = "none" /\ slot'[s].at = "claimed"
        /\ \A t \in Slots : t # s => slot'[t] = Dispossessed(Expired \union {slot[s].write})[t]
    BY <1>4 DEF Claim, Dispossessed
  <2>2. Honest(s)'
    BY <2>1 DEF Honest, Answers
  <2> QED
    BY <1>2, <2>1, <2>2
<1>5. ASSUME NEW s \in Slots, Settle(s) PROVE \A t \in Slots : Same(t) \/ Honest(t)'
  <2>1. /\ slot[s].at = "answered" /\ slot[s].write \in Writes /\ applied' = applied
        /\ slot'[s].write = slot[s].write /\ slot'[s].status = slot[s].status
        /\ slot'[s].at = "leaving" /\ \A t \in Slots : t # s => slot'[t] = slot[t]
    BY <1>0, <1>5 DEF Settle, Leave
  <2>2. ASSUME slot[s].status = "final", slot[s].write \notin lapsed' \union disowned'
        PROVE  record'[slot[s].write].answer = "final"
    <3>1. slot[s].write \notin lapsed \union disowned
      BY <2>2, Residue
    <3>2. slot[s].holds
      BY <2>1, <3>1 DEF IInv, Once, OneRun, Running
    <3>3. record' = Settled(slot[s].write, slot[s].status)
      BY <1>5, <2>2, <3>2 DEF Settle, Unsaid
    <3> QED
      BY <1>0, <2>1, <2>2, <3>3 DEF Settled, Answers
  <2>3. Honest(s)'
    BY <2>1, <2>2 DEF Truthful, Honest
  <2> QED
    BY <1>1, <2>1, <2>3
<1>6. ASSUME NEW s \in Slots, Commit(s) PROVE \A t \in Slots : Same(t) \/ Honest(t)'
  <2>1. /\ slot[s].write \in Writes /\ applied'[slot[s].write] > 0
        /\ slot'[s].write = slot[s].write /\ slot'[s].at = "committed"
        /\ \A t \in Slots : t # s => slot'[t] = slot[t]
    BY <1>0, <1>6 DEF Commit
  <2>2. Honest(s)'
    BY <2>1 DEF Honest
  <2> QED
    BY <1>1, <2>1, <2>2
<1>7. ASSUME NEW s \in Slots, AnswerCommitted(s) \/ Refuse(s) PROVE \A t \in Slots : Same(t) \/ Honest(t)'
  <2>1. /\ slot[s].write \in Writes /\ applied' = applied
        /\ slot'[s].write = slot[s].write /\ slot'[s].at = "answered"
        /\ \A t \in Slots : t # s => slot'[t] = slot[t]
    BY <1>0, <1>7 DEF AnswerCommitted, Refuse, Answering, Request
  <2>2. slot'[s].status = "ok" => slot[s].at = "committed"
    BY <1>0, <1>7 DEF AnswerCommitted, Refuse, Answering, Request, Statuses, Answers
  <2>3. Honest(s)'
    BY <2>1, <2>2 DEF Truthful, Honest
  <2> QED
    BY <1>1, <2>1, <2>3
<1>8. ASSUME NEW s \in Slots, RefuseRunning(s) \/ TurnedAway(s) PROVE \A t \in Slots : Same(t) \/ Honest(t)'
  <2>1. /\ slot'[s].status \notin Answers /\ slot'[s].at = "leaving"
        /\ \A t \in Slots : t # s => slot'[t] = slot[t]
    BY <1>0, <1>8 DEF RefuseRunning, TurnedAway, Leave, Statuses, Answers
  <2>2. Honest(s)'
    BY <2>1 DEF Honest, Answers
  <2> QED
    BY <1>1, <2>1, <2>2
<1>9. ASSUME NEW s \in Slots, Deliver(s) \/ Die(s) \/ \E w \in Writes : Send(s, w)
      PROVE  \A t \in Slots : Same(t) \/ Honest(t)'
  <2> DEFINE Emptied == /\ slot'[s].status = "none" /\ slot'[s].at \in {"free", "sent"}
                        /\ \A t \in Slots : t # s => slot'[t] = slot[t]
  <2>1. Emptied
    <3>1. ASSUME NEW w \in Writes, Send(s, w) PROVE Emptied
      BY <1>0, <3>1 DEF Send, Free
    <3>2. CASE Deliver(s) \/ Die(s)
      BY <1>0, <3>2 DEF Deliver, Die, Free
    <3> QED
      BY <1>9, <3>1, <3>2
  <2>2. Honest(s)'
    BY <2>1 DEF Honest
  <2> QED
    BY <1>1, <2>1, <2>2
<1>10. CASE UNCHANGED slot
  BY <1>1, <1>10
<1> QED
  BY <1>3, <1>4, <1>5, <1>6, <1>7, <1>8, <1>9, <1>10 DEF ServerNext, Handle, TimePasses, server

LEMMA TruthfulStep ==
  ASSUME IInv, ServerTypeOK', Truthful, [ServerNext]_server
  PROVE  Truthful'
<1>0. /\ slot \in [Slots -> Request] /\ record \in [Writes -> Row] /\ applied \in [Writes -> Nat]
      /\ \A s \in Slots : slot[s].at # "free" => slot[s].write \in Writes
      /\ ServerTypeOK /\ Holding
  BY DEF IInv, ServerTypeOK
\* An answer that appears on record is that of a run which held the claim.
<1>1. ASSUME NEW w \in Writes
      PROVE  /\ record'[w].answer = "ok" => applied'[w] > 0
             /\ record'[w].answer = "final" /\ w \notin lapsed' \union disowned' => applied'[w] = 0
  <2>1. CASE record'[w].answer = record[w].answer
    BY <2>1, RefusalIsLast, Residue DEF Truthful
  <2>2. CASE record'[w].answer # record[w].answer /\ record'[w].answer \in Answers
    <3> DEFINE SettledBy(s) == /\ slot[s].at = "answered" /\ slot[s].write = w /\ slot[s].holds
                               /\ slot[s].status = record'[w].answer /\ applied' = applied
    <3>1. \E s \in Slots : SettledBy(s)
      <4>1. ASSUME NEW s \in Slots, Replay(s) PROVE FALSE
        BY <1>0, <2>2, <4>1, Rows DEF Replay, Absent, Answers
      <4>2. ASSUME NEW s \in Slots, Claim(s) PROVE FALSE
        <5>1. slot[s].write \in Writes
          BY <1>0, <4>2 DEF Claim
        <5> QED
          BY <1>0, <2>2, <4>2, <5>1, Rows DEF Claim, Absent, Answers
      <4>3. ASSUME NEW s \in Slots, Settle(s) PROVE SettledBy(s)
        <5>1. slot[s].at = "answered" /\ slot[s].write \in Writes /\ applied' = applied
          BY <1>0, <4>3 DEF Settle
        <5>2. slot[s].holds /\ record' = Settled(slot[s].write, slot[s].status)
          BY <2>2, <4>3 DEF Settle
        <5>3. slot[s].write = w
          BY <1>0, <2>2, <5>1, <5>2 DEF Settled
        <5>4. slot[s].status = record'[w].answer
          BY <1>0, <2>2, <5>2, <5>3 DEF Settled, Absent, Answers
        <5> QED
          BY <5>1, <5>2, <5>3, <5>4
      <4>4. CASE TimePasses
        BY <1>0, <2>2, <4>4 DEF TimePasses, Row
      <4> HIDE DEF SettledBy
      <4> QED
        BY <2>2, <4>1, <4>2, <4>3, <4>4
           DEF ServerNext, Handle, Send, RefuseRunning, TurnedAway, Commit, AnswerCommitted, Refuse,
               Deliver, Die, server
    <3>2. record'[w].answer = "ok" => applied'[w] > 0
      BY <3>1 DEF Truthful, Honest
    <3>3. record'[w].answer = "final" /\ w \notin lapsed' \union disowned' => applied'[w] = 0
      BY <3>1, Residue DEF IInv, Once, OneRun, Running
    <3> QED
      BY <3>2, <3>3
  <2> QED
    BY <2>1, <2>2 DEF Answers
<1>2. ASSUME NEW s \in Slots PROVE Honest(s)'
  <2>1. Honest(s) /\ (Same(s) \/ Honest(s)')
    BY EverySlotFine DEF Truthful
  <2>2. slot[s].write \in Writes \/ slot[s].at = "free"
    BY <1>0
  <2>3. ASSUME slot[s].at = "leaving", slot[s].status = "final",
               slot[s].write \notin lapsed' \union disowned'
        PROVE  record'[slot[s].write].answer = "final"
    BY <2>1, <2>2, <2>3, RefusalIsLast, Residue DEF Honest
  <2> QED
    BY <2>1, <2>3, Residue DEF Honest, Same
<1> QED
  BY <1>1, <1>2 DEF Truthful
=============================================================================
