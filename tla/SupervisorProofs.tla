-------------------------- MODULE SupervisorProofs --------------------------
(***************************************************************************)
(* Theorems about the supervisors and workers, for every number of them    *)
(* and of requests, and whatever the bounds on troubles and attempts are.  *)
(***************************************************************************)
EXTENDS Supervisor, TLAPS

\* A process that is there has a request, and a supervisor past a read holds a copy.
JobsKnown == \A w \in Workers : phase[w] \notin {"zombie", "gone"} => job[w] \in Requests

CopyInHand ==
  \A s \in Supervisors :
    pc[s] \in {"row", "save", "block", "admit", "start", "undo", "record"} => cur[s] \in Copy

VerdictReached ==
  \A s \in Supervisors :
    pc[s] \in {"save", "undo"} => verdict[s] \in Settlements \union {"queued"}

SupType == TypeOK /\ JobsKnown /\ CopyInHand /\ VerdictReached

-----------------------------------------------------------------------------

\* What a copy is made of, and that a worker's pid can be put in one.
LEMMA CopyFields ==
  /\ \A c \in Copy : c.req \in Requests /\ c.pid \in Pids
  /\ \A c \in Copy, w \in Workers : [c EXCEPT !.pid = w] \in Copy
  /\ NoCopy.req = 0
  BY DEF Copy, NoCopy, Pids

\* A request read from a well-typed table makes a copy.
LEMMA CopyOfType == TypeOK => \A r \in Requests : CopyOf(r) \in Copy
  BY DEF TypeOK, CopyOf, Copy

\* Troubles are counted.
LEMMA TroubleType == trouble \in Nat /\ (Trouble \/ NoTrouble) => trouble' \in Nat
  BY DEF Trouble, NoTrouble

\* How a body ends is an outcome of its row and an exit code.
LEMMA EndingsType == \A end \in Endings : end.row \in Outcomes /\ end.code \in Nat
  BY DEF Endings, Outcomes

\* Exit codes are numbers, and settlements are settlements.
LEMMA CodeType ==
  /\ LostLockExit \in Nat /\ KilledExit \in Nat
  /\ \A c \in Nat : SettlementOf(c) \in Settlements
  /\ \A o \in Outcomes : RowSettlement(o) \in Settlements
  BY DEF LostLockExit, KilledExit, SettlementOf, RowSettlement, Settlements, Outcomes

\* A counter of a supervisor for a request stays a number.
LEMMA CounterSet ==
  ASSUME NEW f \in [Supervisors -> [Requests -> Nat]], NEW s \in Supervisors,
         NEW r \in Requests, NEW n \in Nat
  PROVE  [f EXCEPT ![s][r] = n] \in [Supervisors -> [Requests -> Nat]]
  OBVIOUS

\* The places of a supervisor, and the phases of a worker.
LEMMA PlaceNames ==
  /\ {"down", "idle", "scan", "judge", "row", "save", "head", "block"} \subseteq SupervisorPCs
  /\ {"admit", "start", "undo", "record", "gate", "watch"} \subseteq SupervisorPCs
  /\ {"starting", "locking", "claiming", "locked", "body"} \subseteq Phases
  /\ {"ending", "zombie", "gone"} \subseteq Phases
  BY DEF SupervisorPCs, Phases

\* The initial state has its type.
LEMMA SupTypeInit == Init => SupType
  <1> USE SupervisorAssumption DEF Init
  <1>1. Init => TypeOK
    <2>1. pc = [s \in Supervisors |-> "down"] /\ phase = [w \in Workers |-> "gone"] =>
            pc \in [Supervisors -> SupervisorPCs] /\ phase \in [Workers -> Phases]
      BY PlaceNames
    <2>2. Init => /\ state \in [Requests -> {"unasked", "queued", "running", "settled"}]
                  /\ settlement \in [Requests -> Settlements \union {"none"}]
                  /\ row \in [Requests -> Outcomes]
                  /\ pidOf \in [Requests -> Pids]
                  /\ beaten \in [Requests -> BOOLEAN] /\ stale \in [Requests -> BOOLEAN]
      BY DEF Pids, Settlements, Outcomes
    <2>3. Init => /\ fails \in [Supervisors -> [Requests -> Nat]]
                  /\ unread \in [Supervisors -> [Requests -> Nat]]
                  /\ job \in [Workers -> Requests \union {0}]
                  /\ code \in [Workers -> Nat]
      OBVIOUS
    <2>4. Init => /\ cur \in [Supervisors -> Copy \union {NoCopy}]
                  /\ todo \in [Supervisors -> SUBSET Copy]
      OBVIOUS
    <2>5. Init => /\ holder \in Supervisors \union {Nobody}
                  /\ lock \in Workers \union {Nobody, Foreign}
                  /\ racing \subseteq Workers /\ robbed \subseteq Workers
                  /\ verdict \in [Supervisors ->
                                  Settlements \union {"none", "gone", "silent", "queued"}]
                  /\ parent \in [Workers -> Supervisors \union {Nobody}]
      OBVIOUS
    <2>6. Init => /\ began \subseteq Requests /\ finished \subseteq Requests
                  /\ failed \subseteq Requests /\ trouble \in Nat
      OBVIOUS
    <2>7. Init => leaseLive \in BOOLEAN /\ paused \in BOOLEAN
      BY Zenon
    <2>8. Init => holding \in [Supervisors -> BOOLEAN]
      OBVIOUS
    <2>9. Init => pc = [s \in Supervisors |-> "down"] /\ phase = [w \in Workers |-> "gone"]
      OBVIOUS
    <2> HIDE DEF Init
    <2>10. QED
      BY <2>1, <2>2, <2>3, <2>4, <2>5, <2>6, <2>7, <2>8, <2>9 DEF TypeOK
  <1>2. Init => JobsKnown /\ CopyInHand /\ VerdictReached
    BY DEF JobsKnown, CopyInHand, VerdictReached
  <1>3. QED
    BY <1>1, <1>2 DEF SupType

\* Every step of the supervisors, the workers and what is around them keeps the types.
LEMMA SupTypeStep == SupType /\ [Next]_vars => SupType'
  <1> SUFFICES ASSUME SupType, [Next]_vars PROVE SupType'
    OBVIOUS
  <1> USE TroubleType, PlaceNames DEF SupType, TypeOK, JobsKnown, CopyInHand, VerdictReached, Pids,
        Settlements, Outcomes, Goto, At, db, lease, files, theft, memory, processes, history
  <1>1. CASE UNCHANGED vars
    BY <1>1 DEF vars, db, lease, files, theft, memory, processes, history
  <1>2. ASSUME NEW s \in Supervisors, SupervisorStep(s) PROVE SupType'
    <2>1. CASE HoldLease(s)
      <3>1. CASE HoldsNow(s)
        BY <2>1, <3>1, ZenonT(60) DEF HoldLease
      <3>2. CASE ~HoldsNow(s)
        BY <2>1, <3>2, ZenonT(60) DEF HoldLease
      <3>3. QED
        BY <3>1, <3>2
    <2>2. CASE ReadRunning(s)
      BY <2>2, CopyOfType DEF ReadRunning, Running
    <2>3. CASE JudgeExit(s)
      <3>1. PICK c \in todo[s] :
              /\ HasExited(s, c.pid)
              /\ Take(s, c, IF code[c.pid] = LostLockExit THEN "queued"
                                                     ELSE SettlementOf(code[c.pid]))
              /\ todo' = [todo EXCEPT ![s] = @ \ {c}]
              /\ phase' = [phase EXCEPT ![c.pid] = "gone"]
        BY <2>3 DEF JudgeExit
      <3>2. c \in Copy /\ c.pid \in Workers
        BY <3>1, CopyFields DEF HasExited
      <3>3. SettlementOf(code[c.pid]) \in Settlements
        BY <3>2, CodeType
      <3>4. QED
        BY <2>3, <3>1, <3>2, <3>3 DEF JudgeExit, Take
    <2>4. CASE JudgeSilent(s)
      <3>1. PICK c \in todo[s] :
              /\ todo' = [todo EXCEPT ![s] = @ \ {c}]
              /\ IF Gone(c.pid) \/ c.stale
                   THEN Take(s, c, IF Gone(c.pid) THEN "gone" ELSE "silent") /\ Goto(s, "row")
                   ELSE UNCHANGED <<cur, verdict, pc>>
        BY <2>4 DEF JudgeSilent
      <3>2. c \in Copy
        OBVIOUS
      <3>3. CASE UNCHANGED <<cur, verdict, pc>>
        BY <2>4, <3>1, <3>3 DEF JudgeSilent
      <3>4. CASE /\ Take(s, c, IF Gone(c.pid) THEN "gone" ELSE "silent")
                 /\ Goto(s, "row")
        BY <2>4, <3>1, <3>2, <3>4 DEF JudgeSilent, Take
      <3>5. QED
        BY <3>1, <3>3, <3>4
    <2>5. CASE ReadRow(s)
      <3>1. cur[s].req \in Requests
        BY <2>5, CopyFields DEF ReadRow
      <3>2. RowSettlement(row[cur[s].req]) \in Settlements
        BY <3>1, CodeType
      <3>3. unread' \in [Supervisors -> [Requests -> Nat]]
        BY <2>5, <3>1 DEF ReadRow
      <3>4. \/ verdict' = [verdict EXCEPT ![s] = "queued"]
            \/ verdict' = [verdict EXCEPT ![s] = RowSettlement(row[cur[s].req])]
        BY <2>5 DEF ReadRow
      <3>5. /\ Goto(s, "save") /\ NoTrouble
            /\ UNCHANGED <<db, lease, files, holding, todo, cur, fails, processes, history>>
        BY <2>5 DEF ReadRow
      <3>6. verdict' \in [Supervisors -> Settlements \union {"none", "gone", "silent", "queued"}]
        <4>1. verdict \in [Supervisors -> Settlements \union {"none", "gone", "silent", "queued"}]
          OBVIOUS
        <4> HIDE DEF SupType
        <4>2. QED
          BY <3>2, <3>4, <4>1
      <3>7. verdict'[s] \in Settlements \union {"queued"}
        BY <3>2, <3>4
      <3>8. \A t \in Supervisors : t # s => verdict'[t] = verdict[t]
        BY <3>4
      <3>9. TypeOK'
        BY <3>3, <3>5, <3>6
      <3>10. JobsKnown' /\ CopyInHand'
        BY <2>5, <3>5 DEF ReadRow
      <3>11. VerdictReached'
        BY <3>5, <3>7, <3>8
      <3>12. QED
        BY <3>9, <3>10, <3>11
    <2>6. CASE SaveVerdict(s)
      <3>1. CASE Saves(s, "running")
        BY <2>6, <3>1, ZenonT(60) DEF SaveVerdict, WriteBack, PutDown, Take
      <3>2. CASE ~Saves(s, "running")
        BY <2>6, <3>2 DEF SaveVerdict, PutDown, Take
      <3>3. QED
        BY <3>1, <3>2
    <2>7. CASE Reap(s)
      BY <2>7 DEF Reap, Disown
    <2>8. CASE ReadHead(s)
      <3>1. CASE Queued = {}
        BY <2>8, <3>1, ZenonT(60) DEF ReadHead, Take
      <3>2. CASE Queued # {}
        <4>1. PICK r \in Requests : Take(s, CopyOf(r), "none") /\ Goto(s, "block")
          BY <2>8, <3>2 DEF ReadHead, Queued
        <4>2. QED
          BY <2>8, <4>1, CopyOfType DEF ReadHead, Take
      <3>3. QED
        BY <3>1, <3>2
    <2>9. CASE CheckBlocker(s)
      <3>1. /\ \/ Goto(s, "gate") /\ Take(s, NoCopy, "none")
               \/ Goto(s, "admit") /\ UNCHANGED <<cur, verdict>>
            /\ NoTrouble
            /\ UNCHANGED <<db, lease, files, holding, todo, fails, unread, processes, history>>
        BY <2>9 DEF CheckBlocker, PutDown
      <3>2. CASE Goto(s, "gate") /\ Take(s, NoCopy, "none")
        BY <3>1, <3>2 DEF Take
      <3>3. CASE Goto(s, "admit") /\ UNCHANGED <<cur, verdict>>
        BY <2>9, <3>1, <3>3 DEF CheckBlocker
      <3>4. QED
        BY <3>1, <3>2, <3>3
    <2>10. CASE SaveAdmission(s)
      <3>1. CASE Saves(s, "queued")
        <4>1. /\ state' = [state EXCEPT ![cur[s].req] = "running"]
              /\ pidOf' = [pidOf EXCEPT ![cur[s].req] = Nobody]
              /\ beaten' = [beaten EXCEPT ![cur[s].req] = FALSE]
              /\ stale' = [stale EXCEPT ![cur[s].req] = FALSE]
              /\ Goto(s, "start") /\ NoTrouble
              /\ UNCHANGED <<settlement, cur, verdict, lease, files, holding, todo, fails,
                             unread, processes, history>>
          BY <2>10, <3>1 DEF SaveAdmission
        <4>2. cur[s] \in Copy
          BY <2>10 DEF SaveAdmission
        <4>3. TypeOK'
          BY <4>1
        <4>4. JobsKnown' /\ VerdictReached'
          BY <4>1
        <4>5. CopyInHand'
          BY <4>1, <4>2
        <4>6. QED
          BY <4>3, <4>4, <4>5
      <3>2. CASE ~Saves(s, "queued")
        <4>1. /\ Take(s, NoCopy, "none") /\ Goto(s, "gate") /\ NoTrouble
              /\ UNCHANGED <<db, lease, files, holding, todo, fails, unread, processes, history>>
          BY <2>10, <3>2 DEF SaveAdmission, PutDown
        <4>2. TypeOK'
          BY <4>1 DEF Take
        <4>3. JobsKnown' /\ CopyInHand' /\ VerdictReached'
          BY <4>1 DEF Take
        <4>4. QED
          BY <4>2, <4>3
      <3>3. QED
        BY <3>1, <3>2
    <2>11. CASE StartWorker(s)
      BY <2>11, CopyFields DEF StartWorker, Take
    <2>12. CASE RecordWorker(s)
      BY <2>12, CopyFields DEF RecordWorker, PutDown, Take
    <2>13. CASE UndoAdmission(s)
      <3>1. CASE Saves(s, "running")
        BY <2>13, <3>1, ZenonT(60) DEF UndoAdmission, WriteBack, PutDown, Take
      <3>2. CASE ~Saves(s, "running")
        BY <2>13, <3>2 DEF UndoAdmission, PutDown, Take
      <3>3. QED
        BY <3>1, <3>2
    <2>14. CASE EndWatch(s)
      BY <2>14 DEF EndWatch, Insert
    <2>15. CASE Boot(s)
      BY <2>15 DEF Boot
    <2>16. CASE RowUnreadable(s)
      <3>1. cur[s] \in Copy /\ cur[s].req \in Requests
        BY <2>16, CopyFields DEF RowUnreadable
      <3>2. /\ \/ /\ unread' = [unread EXCEPT ![s][cur[s].req] = 0]
                  /\ Take(s, cur[s], "interrupted")
                  /\ Goto(s, "save")
               \/ /\ unread' = [unread EXCEPT ![s][cur[s].req] = unread[s][cur[s].req] + 1]
                  /\ Take(s, NoCopy, "none")
                  /\ Goto(s, "judge")
            /\ Trouble
            /\ UNCHANGED <<db, lease, files, holding, todo, fails, processes, history>>
        BY <2>16 DEF RowUnreadable, PutDown
      <3>3. unread' \in [Supervisors -> [Requests -> Nat]]
        <4>1. /\ unread[s][cur[s].req] + 1 \in Nat
              /\ unread \in [Supervisors -> [Requests -> Nat]]
          BY <3>1
        <4>2. PICK n \in Nat : unread' = [unread EXCEPT ![s][cur[s].req] = n]
          BY <3>2, <4>1
        <4> HIDE DEF SupType
        <4>3. QED
          BY <3>1, <4>1, <4>2, CounterSet
      <3>4. CASE Take(s, cur[s], "interrupted") /\ Goto(s, "save")
        BY <3>1, <3>2, <3>3, <3>4 DEF Take
      <3>5. CASE Take(s, NoCopy, "none") /\ Goto(s, "judge")
        BY <3>2, <3>3, <3>5 DEF Take
      <3>6. QED
        BY <3>2, <3>4, <3>5
    <2>17. CASE StartRaises(s)
      <3>1. cur[s] \in Copy /\ cur[s].req \in Requests
        BY <2>17, CopyFields DEF StartRaises
      <3>2. /\ \/ /\ fails' = [fails EXCEPT ![s][cur[s].req] = fails[s][cur[s].req] + 1]
                  /\ Take(s, cur[s], "queued")
               \/ /\ fails' = [fails EXCEPT ![s][cur[s].req] = 0]
                  /\ Take(s, cur[s], "abandoned")
            /\ Goto(s, "undo") /\ Trouble
            /\ UNCHANGED <<db, lease, files, holding, todo, unread, processes, history>>
        BY <2>17 DEF StartRaises
      <3>3. fails' \in [Supervisors -> [Requests -> Nat]]
        <4>1. /\ fails[s][cur[s].req] + 1 \in Nat
              /\ fails \in [Supervisors -> [Requests -> Nat]]
          BY <3>1
        <4>2. PICK n \in Nat : fails' = [fails EXCEPT ![s][cur[s].req] = n]
          BY <3>2, <4>1
        <4> HIDE DEF SupType
        <4>3. QED
          BY <3>1, <4>1, <4>2, CounterSet
      <3>4. QED
        BY <3>1, <3>2, <3>3, ZenonT(60) DEF Take
    <2>18. CASE TickRaises(s)
      BY <2>18 DEF TickRaises, PutDown, Take
    <2>19. CASE StartWatch(s)
      BY <2>19 DEF StartWatch
    <2>20. CASE KeepLease(s)
      BY <2>20 DEF KeepLease
    <2>21. CASE Stop(s)
      BY <2>21 DEF Stop, LeaveLease, Forget, Orphan, Disown, PutDown, Take
    <2>22. CASE Crash(s)
      BY <2>22 DEF Crash, LeaveLease, Forget, Orphan, Disown, PutDown, Take
    <2>23. QED
      BY <1>2, <2>1, <2>2, <2>3, <2>4, <2>5, <2>6, <2>7, <2>8, <2>9, <2>10, <2>11,
          <2>12, <2>13, <2>14, <2>15, <2>16, <2>17, <2>18, <2>19, <2>20, <2>21, <2>22
         DEF SupervisorStep, Tick
  <1>3. ASSUME NEW w \in Workers,
               WorkerStep(w) \/ BeginUnrecorded(w) \/ StealLock(w) \/ ForeignRobs(w)
        PROVE  SupType'
    <2>1. CASE CheckRequest(w)
      <3>1. CASE state[job[w]] = "running"
        BY <2>1, <3>1, ZenonT(60) DEF CheckRequest, Enter
      <3>2. CASE state[job[w]] # "running"
        <4>1. /\ Ends(w, 1) /\ NoTrouble /\ racing' = racing \ {w}
              /\ UNCHANGED <<db, lease, row, lock, paused, robbed, pc, memory, parent, history>>
          BY <2>1, <3>2 DEF CheckRequest
        <4>2. QED
          BY <4>1 DEF Ends
      <3>3. QED
        BY <3>1, <3>2
    <2>2. CASE TakeLock(w)
      <3>1. CASE ~Refused(w)
        BY <2>2, <3>1 DEF TakeLock, Enter, MakesFile, Attempting
      <3>2. CASE Refused(w)
        <4>1. /\ Ends(w, LostLockExit) /\ NoTrouble
              /\ UNCHANGED <<db, lease, files, pc, memory, parent, history>>
          BY <2>2, <3>2 DEF TakeLock
        <4>2. QED
          BY <4>1, CodeType DEF Ends
      <3>3. QED
        BY <3>1, <3>2
    <2>3. CASE BeginBody(w)
      BY <2>3 DEF BeginBody, Enter
    <2>4. CASE EndBody(w)
      BY <2>4, EndingsType, ZenonT(60) DEF EndBody, Enter
    <2>5. CASE ReleaseAndExit(w)
      BY <2>5 DEF ReleaseAndExit, Ends, Robbed
    <2>6. CASE WorkerFails(w)
      BY <2>6 DEF WorkerFails, Ends, MakesFile, Attempting
    <2>7. CASE Beat(w)
      BY <2>7 DEF Beat
    <2>8. CASE BodyRefused(w)
      BY <2>8 DEF BodyRefused, Enter
    <2>9. CASE EndUnrecorded(w)
      BY <2>9, EndingsType DEF EndUnrecorded, Enter
    <2>10. CASE WorkerKilled(w)
      BY <2>10, CodeType DEF WorkerKilled, Ends
    <2>11. CASE BeginUnrecorded(w)
      BY <2>11 DEF BeginUnrecorded, Enter
    <2>12. CASE StealLock(w)
      BY <2>12 DEF StealLock, Enter
    <2>13. CASE ForeignRobs(w)
      BY <2>13 DEF ForeignRobs, Attempting
    <2>14. QED
      BY <1>3, <2>1, <2>2, <2>3, <2>4, <2>5, <2>6, <2>7, <2>8, <2>9, <2>10, <2>11,
          <2>12, <2>13 DEF WorkerStep, WorkerRuns
  <1>4. ASSUME NEW r \in Requests, Ask(r) \/ GoesSilent(r) \/ MissesBeats(r) PROVE SupType'
    <2>1. CASE Ask(r)
      BY <2>1 DEF Ask, Insert
    <2>2. CASE GoesSilent(r)
      BY <2>2 DEF GoesSilent, GoesStale
    <2>3. CASE MissesBeats(r)
      BY <2>3 DEF MissesBeats, GoesStale
    <2>4. QED
      BY <1>4, <2>1, <2>2, <2>3
  <1>5. CASE Around \/ LapseInTick
    <2>1. CASE ForeignTakes
      BY <2>1 DEF ForeignTakes, Attempting
    <2>2. CASE ForeignReleases
      BY <2>2 DEF ForeignReleases
    <2>3. CASE Pause
      BY <2>3 DEF Pause
    <2>4. CASE Resume
      BY <2>4 DEF Resume
    <2>5. CASE Lapse
      BY <2>5 DEF Lapse
    <2>6. CASE LapseInTick
      BY <2>6 DEF LapseInTick
    <2>7. QED
      BY <1>5, <2>1, <2>2, <2>3, <2>4, <2>5, <2>6 DEF Around
  <1>6. QED
    BY <1>1, <1>2, <1>3, <1>4, <1>5 DEF Next, PunctualNext

\* Every state reached is of its type.
THEOREM SupTypeCorrect == Spec => []TypeOK
  <1>1. Init => SupType
    BY SupTypeInit
  <1>2. SupType /\ [Next]_vars => SupType'
    BY SupTypeStep
  <1>3. SupType => TypeOK
    BY DEF SupType
  <1>4. QED
    BY <1>1, <1>2, <1>3, PTL DEF Spec

\* The same of the specification without stalls, whose steps are among Next's.
LEMMA PunctualType == PunctualSpec => []SupType
  <1>1. Init => SupType
    BY SupTypeInit
  <1>2. SupType /\ [PunctualNext]_vars => SupType'
    BY SupTypeStep DEF Next
  <1>3. QED
    BY <1>1, <1>2, PTL DEF PunctualSpec

-----------------------------------------------------------------------------

\* A supervisor inside an admission tick holds a lease that has not expired.
TickerHolds == \A s \in Supervisors : InTick(s) => holder = s /\ leaseLive = TRUE

\* While no tick outlasts its lease, a tick is entered and left under the lease.
LEMMA TickerHoldsStep ==
  ASSUME pc \in [Supervisors -> SupervisorPCs], TickerHolds, [PunctualNext]_vars
  PROVE  TickerHolds'
  <1> USE SupervisorAssumption DEF TickerHolds, InTick, Goto, At, lease
  <1>1. CASE UNCHANGED vars
    BY <1>1 DEF vars, db, lease, files, theft, memory, processes, history
  <1>2. ASSUME NEW s \in Supervisors, SupervisorStep(s) PROVE TickerHolds'
    <2>1. CASE HoldLease(s)
      <3>1. CASE HoldsNow(s)
        BY <2>1, <3>1 DEF HoldLease, HoldsNow, Claimable
      <3>2. CASE ~HoldsNow(s)
        BY <2>1, <3>2 DEF HoldLease
      <3>3. QED
        BY <3>1, <3>2
    <2>2. CASE ReadRunning(s)
      BY <2>2 DEF ReadRunning
    <2>3. CASE JudgeExit(s)
      BY <2>3 DEF JudgeExit
    <2>4. CASE JudgeSilent(s)
      BY <2>4 DEF JudgeSilent
    <2>5. CASE ReadRow(s)
      BY <2>5 DEF ReadRow
    <2>6. CASE SaveVerdict(s)
      BY <2>6 DEF SaveVerdict
    <2>7. CASE Reap(s)
      BY <2>7 DEF Reap
    <2>8. CASE ReadHead(s)
      BY <2>8 DEF ReadHead
    <2>9. CASE CheckBlocker(s)
      BY <2>9 DEF CheckBlocker
    <2>10. CASE SaveAdmission(s)
      BY <2>10 DEF SaveAdmission
    <2>11. CASE StartWorker(s)
      BY <2>11 DEF StartWorker
    <2>12. CASE RecordWorker(s)
      BY <2>12 DEF RecordWorker
    <2>13. CASE UndoAdmission(s)
      BY <2>13 DEF UndoAdmission
    <2>14. CASE EndWatch(s)
      BY <2>14 DEF EndWatch
    <2>15. CASE Boot(s)
      BY <2>15 DEF Boot
    <2>16. CASE RowUnreadable(s)
      BY <2>16 DEF RowUnreadable
    <2>17. CASE StartRaises(s)
      BY <2>17 DEF StartRaises
    <2>18. CASE TickRaises(s)
      BY <2>18 DEF TickRaises
    <2>19. CASE StartWatch(s)
      BY <2>19 DEF StartWatch
    <2>20. CASE KeepLease(s)
      BY <2>20 DEF KeepLease
    <2>21. CASE Stop(s)
      BY <2>21 DEF Stop, BetweenTicks, LeaveLease
    <2>22. CASE Crash(s)
      BY <2>22 DEF Crash, LeaveLease
    <2>23. QED
      BY <1>2, <2>1, <2>2, <2>3, <2>4, <2>5, <2>6, <2>7, <2>8, <2>9, <2>10, <2>11,
          <2>12, <2>13, <2>14, <2>15, <2>16, <2>17, <2>18, <2>19, <2>20, <2>21, <2>22
         DEF SupervisorStep, Tick
  <1>3. ASSUME NEW w \in Workers, WorkerStep(w) PROVE TickerHolds'
    <2>1. CASE CheckRequest(w)
      BY <2>1 DEF CheckRequest
    <2>2. CASE TakeLock(w)
      BY <2>2 DEF TakeLock
    <2>3. CASE BeginBody(w)
      BY <2>3 DEF BeginBody
    <2>4. CASE EndBody(w)
      BY <2>4 DEF EndBody
    <2>5. CASE ReleaseAndExit(w)
      BY <2>5 DEF ReleaseAndExit
    <2>6. CASE WorkerFails(w)
      BY <2>6 DEF WorkerFails
    <2>7. CASE Beat(w)
      BY <2>7 DEF Beat
    <2>8. CASE BodyRefused(w)
      BY <2>8 DEF BodyRefused
    <2>9. CASE EndUnrecorded(w)
      BY <2>9 DEF EndUnrecorded
    <2>10. CASE WorkerKilled(w)
      BY <2>10 DEF WorkerKilled
    <2>11. QED
      BY <1>3, <2>1, <2>2, <2>3, <2>4, <2>5, <2>6, <2>7, <2>8, <2>9, <2>10
         DEF WorkerStep, WorkerRuns
  <1>4. ASSUME NEW r \in Requests, Ask(r) \/ GoesSilent(r) \/ MissesBeats(r) PROVE TickerHolds'
    <2>1. CASE Ask(r)
      BY <2>1 DEF Ask
    <2>2. CASE GoesSilent(r)
      BY <2>2 DEF GoesSilent, GoesStale
    <2>3. CASE MissesBeats(r)
      BY <2>3 DEF MissesBeats, GoesStale
    <2>4. QED
      BY <1>4, <2>1, <2>2, <2>3
  <1>5. CASE Around
    <2>1. CASE ForeignTakes
      BY <2>1 DEF ForeignTakes
    <2>2. CASE ForeignReleases
      BY <2>2 DEF ForeignReleases
    <2>3. CASE Pause
      BY <2>3 DEF Pause
    <2>4. CASE Resume
      BY <2>4 DEF Resume
    <2>5. CASE Lapse
      BY <2>5 DEF Lapse
    <2>6. QED
      BY <1>5, <2>1, <2>2, <2>3, <2>4, <2>5 DEF Around
  <1>6. QED
    BY <1>1, <1>2, <1>3, <1>4, <1>5 DEF PunctualNext

\* At most one supervisor is inside an admission tick, as long as each fits in its lease.
THEOREM OneTickerAlways == PunctualSpec => []OneTicker
  <1>1. Init => TickerHolds
    BY DEF Init, TickerHolds, InTick
  <1>2. SupType => pc \in [Supervisors -> SupervisorPCs]
    BY DEF SupType, TypeOK
  <1>3. SupType /\ TickerHolds /\ [PunctualNext]_vars => TickerHolds'
    BY <1>2, TickerHoldsStep
  <1>4. TickerHolds => OneTicker
    BY DEF TickerHolds, OneTicker
  <1>5. QED
    BY <1>1, <1>3, <1>4, PunctualType, PTL DEF PunctualSpec

-----------------------------------------------------------------------------

\* A worker past the lock, up to its release, is the one pipeline.lock names, unless the
\* file it made was unlinked under it.
LockOfBody == \A w \in Workers : Beating(w) /\ w \notin robbed => lock = w

\* The file is made where no living process holds one, and who unlinks one of a living
\* worker robs it.
LEMMA LockOfBodyStep ==
  ASSUME phase \in [Workers -> Phases], LockOfBody, [Next]_vars
  PROVE  LockOfBody'
  <1> USE SupervisorAssumption DEF SupervisorAssumption, LockOfBody, Beating, files, theft,
                                 processes
  <1>1. CASE UNCHANGED vars
    BY <1>1 DEF vars, db, lease, files, theft, memory, processes, history
  <1>2. ASSUME NEW s \in Supervisors, SupervisorStep(s) PROVE LockOfBody'
    <2>1. CASE HoldLease(s)
      BY <2>1 DEF HoldLease
    <2>2. CASE ReadRunning(s)
      BY <2>2 DEF ReadRunning
    <2>3. CASE JudgeExit(s)
      BY <2>3 DEF JudgeExit, HasExited
    <2>4. CASE JudgeSilent(s)
      BY <2>4 DEF JudgeSilent
    <2>5. CASE ReadRow(s)
      BY <2>5 DEF ReadRow
    <2>6. CASE SaveVerdict(s)
      BY <2>6 DEF SaveVerdict
    <2>7. CASE Reap(s)
      BY <2>7 DEF Reap, Disown
    <2>8. CASE ReadHead(s)
      BY <2>8 DEF ReadHead
    <2>9. CASE CheckBlocker(s)
      BY <2>9 DEF CheckBlocker
    <2>10. CASE SaveAdmission(s)
      BY <2>10 DEF SaveAdmission
    <2>11. CASE StartWorker(s)
      BY <2>11 DEF StartWorker, Spare, Alive
    <2>12. CASE RecordWorker(s)
      BY <2>12 DEF RecordWorker
    <2>13. CASE UndoAdmission(s)
      BY <2>13 DEF UndoAdmission
    <2>14. CASE EndWatch(s)
      BY <2>14 DEF EndWatch
    <2>15. CASE Boot(s)
      BY <2>15 DEF Boot
    <2>16. CASE RowUnreadable(s)
      BY <2>16 DEF RowUnreadable
    <2>17. CASE StartRaises(s)
      BY <2>17 DEF StartRaises
    <2>18. CASE TickRaises(s)
      BY <2>18 DEF TickRaises
    <2>19. CASE StartWatch(s)
      BY <2>19 DEF StartWatch
    <2>20. CASE KeepLease(s)
      BY <2>20 DEF KeepLease
    <2>21. CASE Stop(s)
      BY <2>21 DEF Stop, Orphan, Disown
    <2>22. CASE Crash(s)
      BY <2>22 DEF Crash, Orphan, Disown
    <2>23. QED
      BY <1>2, <2>1, <2>2, <2>3, <2>4, <2>5, <2>6, <2>7, <2>8, <2>9, <2>10, <2>11,
          <2>12, <2>13, <2>14, <2>15, <2>16, <2>17, <2>18, <2>19, <2>20, <2>21, <2>22
         DEF SupervisorStep, Tick
  <1>3. ASSUME NEW w \in Workers,
               WorkerStep(w) \/ BeginUnrecorded(w) \/ StealLock(w) \/ ForeignRobs(w)
        PROVE  LockOfBody'
    <2>1. CASE CheckRequest(w)
      BY <2>1 DEF CheckRequest, Enter, Ends
    <2>2. CASE TakeLock(w)
      <3>1. CASE ~Refused(w)
        <4>1. \A v \in Workers \ {w} : ~Beating(v) \/ v \in robbed
          BY <3>1 DEF Refused, LockHeld, Alive
        <4>2. QED
          BY <2>2, <3>1, <4>1 DEF TakeLock, Enter, MakesFile
      <3>2. CASE Refused(w)
        BY <2>2, <3>2 DEF TakeLock, Ends
      <3>3. QED
        BY <3>1, <3>2
    <2>3. CASE BeginBody(w)
      BY <2>3 DEF BeginBody, Enter
    <2>4. CASE EndBody(w)
      BY <2>4 DEF EndBody, Enter
    <2>5. CASE ReleaseAndExit(w)
      <3>1. \A v \in Workers \ {w} : Beating(v) /\ v \notin robbed => v \in Robbed(w)
        BY DEF Robbed, Alive
      <3>2. QED
        BY <2>5, <3>1 DEF ReleaseAndExit, Ends
    <2>6. CASE WorkerFails(w)
      <3>1. CASE UNCHANGED <<lock, theft>>
        BY <2>6, <3>1 DEF WorkerFails, Ends
      <3>2. CASE ~Refused(w) /\ MakesFile(w)
        <4>1. \A v \in Workers \ {w} : ~Beating(v) \/ v \in robbed
          BY <3>2 DEF Refused, LockHeld, Alive
        <4>2. QED
          BY <2>6, <3>2, <4>1 DEF WorkerFails, Ends, MakesFile
      <3>3. QED
        BY <2>6, <3>1, <3>2 DEF WorkerFails
    <2>7. CASE Beat(w)
      BY <2>7 DEF Beat
    <2>8. CASE BodyRefused(w)
      BY <2>8 DEF BodyRefused, Enter
    <2>9. CASE EndUnrecorded(w)
      BY <2>9 DEF EndUnrecorded, Enter
    <2>10. CASE WorkerKilled(w)
      BY <2>10 DEF WorkerKilled, Ends
    <2>11. CASE BeginUnrecorded(w)
      BY <2>11 DEF BeginUnrecorded, Enter
    <2>12. CASE StealLock(w)
      BY <2>12 DEF StealLock, Enter
    <2>13. CASE ForeignRobs(w)
      BY <2>13 DEF ForeignRobs
    <2>14. QED
      BY <1>3, <2>1, <2>2, <2>3, <2>4, <2>5, <2>6, <2>7, <2>8, <2>9, <2>10, <2>11,
          <2>12, <2>13 DEF WorkerStep, WorkerRuns
  <1>4. ASSUME NEW r \in Requests, Ask(r) \/ GoesSilent(r) \/ MissesBeats(r) PROVE LockOfBody'
    <2>1. CASE Ask(r)
      BY <2>1 DEF Ask
    <2>2. CASE GoesSilent(r)
      BY <2>2 DEF GoesSilent, GoesStale
    <2>3. CASE MissesBeats(r)
      BY <2>3 DEF MissesBeats, GoesStale
    <2>4. QED
      BY <1>4, <2>1, <2>2, <2>3
  <1>5. CASE Around \/ LapseInTick
    <2>1. CASE ForeignTakes
      <3>1. \A v \in Workers : ~Beating(v) \/ v \in robbed
        BY <2>1 DEF ForeignTakes, LockHeld, Alive
      <3>2. QED
        BY <2>1, <3>1 DEF ForeignTakes
    <2>2. CASE ForeignReleases
      BY <2>2 DEF ForeignReleases
    <2>3. CASE Pause
      BY <2>3 DEF Pause
    <2>4. CASE Resume
      BY <2>4 DEF Resume
    <2>5. CASE Lapse
      BY <2>5 DEF Lapse
    <2>6. CASE LapseInTick
      BY <2>6 DEF LapseInTick
    <2>7. QED
      BY <1>5, <2>1, <2>2, <2>3, <2>4, <2>5, <2>6 DEF Around
  <1>6. QED
    BY <1>1, <1>2, <1>3, <1>4, <1>5 DEF Next, PunctualNext

\* Whatever stalls, crashes, is restarted or is lost, and however attempts at the lock
\* overlap: two bodies meet only when the lock file of one was unlinked under it.
THEOREM BodiesApart == Spec => []BodiesMeetOnlyByTheft
  <1>1. Init => LockOfBody
    BY DEF Init, LockOfBody, Beating
  <1>2. TypeOK => phase \in [Workers -> Phases]
    BY DEF TypeOK
  <1>3. TypeOK /\ LockOfBody /\ [Next]_vars => LockOfBody'
    BY <1>2, LockOfBodyStep
  <1>4. LockOfBody => BodiesMeetOnlyByTheft
    BY DEF LockOfBody, BodiesMeetOnlyByTheft, Beating
  <1>5. QED
    BY <1>1, <1>3, <1>4, SupTypeCorrect, PTL DEF Spec

-----------------------------------------------------------------------------

\* A settled request of the table is left as it is.
SettledKept ==
  \A r \in Requests :
    state[r] = "settled" => state'[r] = "settled" /\ settlement'[r] = settlement[r]

\* Every writer of the table writes over the state it read, and none reads "settled".
LEMMA SettledKeptStep ==
  ASSUME state \in [Requests -> {"unasked", "queued", "running", "settled"}],
         settlement \in [Requests -> Settlements \union {"none"}],
         [Next]_vars
  PROVE  SettledKept
  <1> USE DEF SettledKept, db
  <1>1. CASE UNCHANGED vars
    BY <1>1 DEF vars, db, lease, files, theft, memory, processes, history
  <1>2. ASSUME NEW s \in Supervisors, SupervisorStep(s) PROVE SettledKept
    <2>1. CASE HoldLease(s)
      BY <2>1 DEF HoldLease
    <2>2. CASE ReadRunning(s)
      BY <2>2 DEF ReadRunning
    <2>3. CASE JudgeExit(s)
      BY <2>3 DEF JudgeExit
    <2>4. CASE JudgeSilent(s)
      BY <2>4 DEF JudgeSilent
    <2>5. CASE ReadRow(s)
      BY <2>5 DEF ReadRow
    <2>6. CASE SaveVerdict(s)
      <3>1. CASE Saves(s, "running")
        BY <2>6, <3>1 DEF SaveVerdict, Saves, WriteBack
      <3>2. CASE ~Saves(s, "running")
        BY <2>6, <3>2 DEF SaveVerdict
      <3>3. QED
        BY <3>1, <3>2
    <2>7. CASE Reap(s)
      BY <2>7 DEF Reap
    <2>8. CASE ReadHead(s)
      BY <2>8 DEF ReadHead
    <2>9. CASE CheckBlocker(s)
      BY <2>9 DEF CheckBlocker
    <2>10. CASE SaveAdmission(s)
      BY <2>10 DEF SaveAdmission, Saves
    <2>11. CASE StartWorker(s)
      BY <2>11 DEF StartWorker
    <2>12. CASE RecordWorker(s)
      BY <2>12 DEF RecordWorker
    <2>13. CASE UndoAdmission(s)
      <3>1. CASE Saves(s, "running")
        BY <2>13, <3>1 DEF UndoAdmission, Saves, WriteBack
      <3>2. CASE ~Saves(s, "running")
        BY <2>13, <3>2 DEF UndoAdmission
      <3>3. QED
        BY <3>1, <3>2
    <2>14. CASE EndWatch(s)
      BY <2>14 DEF EndWatch, Insert
    <2>15. CASE Boot(s)
      BY <2>15 DEF Boot
    <2>16. CASE RowUnreadable(s)
      BY <2>16 DEF RowUnreadable
    <2>17. CASE StartRaises(s)
      BY <2>17 DEF StartRaises
    <2>18. CASE TickRaises(s)
      BY <2>18 DEF TickRaises
    <2>19. CASE StartWatch(s)
      BY <2>19 DEF StartWatch
    <2>20. CASE KeepLease(s)
      BY <2>20 DEF KeepLease
    <2>21. CASE Stop(s)
      BY <2>21 DEF Stop
    <2>22. CASE Crash(s)
      BY <2>22 DEF Crash
    <2>23. QED
      BY <1>2, <2>1, <2>2, <2>3, <2>4, <2>5, <2>6, <2>7, <2>8, <2>9, <2>10, <2>11,
          <2>12, <2>13, <2>14, <2>15, <2>16, <2>17, <2>18, <2>19, <2>20, <2>21, <2>22
         DEF SupervisorStep, Tick
  <1>3. ASSUME NEW w \in Workers,
               WorkerStep(w) \/ BeginUnrecorded(w) \/ StealLock(w) \/ ForeignRobs(w)
        PROVE  SettledKept
    <2>1. CASE CheckRequest(w)
      BY <2>1 DEF CheckRequest
    <2>2. CASE TakeLock(w)
      BY <2>2 DEF TakeLock
    <2>3. CASE BeginBody(w)
      BY <2>3 DEF BeginBody
    <2>4. CASE EndBody(w)
      BY <2>4 DEF EndBody
    <2>5. CASE ReleaseAndExit(w)
      BY <2>5 DEF ReleaseAndExit
    <2>6. CASE WorkerFails(w)
      BY <2>6 DEF WorkerFails
    <2>7. CASE Beat(w)
      BY <2>7 DEF Beat
    <2>8. CASE BodyRefused(w)
      BY <2>8 DEF BodyRefused
    <2>9. CASE EndUnrecorded(w)
      BY <2>9 DEF EndUnrecorded
    <2>10. CASE WorkerKilled(w)
      BY <2>10 DEF WorkerKilled
    <2>11. CASE BeginUnrecorded(w)
      BY <2>11 DEF BeginUnrecorded
    <2>12. CASE StealLock(w)
      BY <2>12 DEF StealLock
    <2>13. CASE ForeignRobs(w)
      BY <2>13 DEF ForeignRobs
    <2>14. QED
      BY <1>3, <2>1, <2>2, <2>3, <2>4, <2>5, <2>6, <2>7, <2>8, <2>9, <2>10, <2>11,
          <2>12, <2>13 DEF WorkerStep, WorkerRuns
  <1>4. ASSUME NEW r \in Requests, Ask(r) \/ GoesSilent(r) \/ MissesBeats(r) PROVE SettledKept
    <2>1. CASE Ask(r)
      BY <2>1 DEF Ask, Insert
    <2>2. CASE GoesSilent(r)
      BY <2>2 DEF GoesSilent, GoesStale
    <2>3. CASE MissesBeats(r)
      BY <2>3 DEF MissesBeats, GoesStale
    <2>4. QED
      BY <1>4, <2>1, <2>2, <2>3
  <1>5. CASE Around \/ LapseInTick
    <2>1. CASE ForeignTakes
      BY <2>1 DEF ForeignTakes
    <2>2. CASE ForeignReleases
      BY <2>2 DEF ForeignReleases
    <2>3. CASE Pause
      BY <2>3 DEF Pause
    <2>4. CASE Resume
      BY <2>4 DEF Resume
    <2>5. CASE Lapse
      BY <2>5 DEF Lapse
    <2>6. CASE LapseInTick
      BY <2>6 DEF LapseInTick
    <2>7. QED
      BY <1>5, <2>1, <2>2, <2>3, <2>4, <2>5, <2>6 DEF Around
  <1>6. QED
    BY <1>1, <1>2, <1>3, <1>4, <1>5 DEF Next, PunctualNext

\* No copy a stalled, crashed or second supervisor holds moves a settled request.
THEOREM SettledOnce == Spec => SettledIsFinal
  <1>1. TypeOK /\ [Next]_vars => [SettledKept]_vars
    BY SettledKeptStep DEF TypeOK
  <1>2. [][SettledKept]_vars => SettledIsFinal
    BY PTL DEF SettledIsFinal, SettledKept
  <1>3. QED
    BY <1>1, <1>2, SupTypeCorrect, PTL DEF Spec

-----------------------------------------------------------------------------

\* What the exit code of w is worth, to whoever takes w for the process of r.
Vouches(w, r) ==
  /\ job[w] \in {r, 0}
  /\ phase[w] \in {"zombie", "gone"} /\ parent[w] # Nobody /\ code[w] = 0 => r \in finished

\* However old the copy is, a pid in it is that of a process started for its request.
Vouched(c) == c.pid # Nobody => Vouches(c.pid, c.req)

\* A process about to exit 0 reached the end of its body; so did a row that says success.
EndsWell ==
  /\ \A w \in Workers :
       phase[w] = "ending" /\ parent[w] # Nobody /\ code[w] = 0 => job[w] \in finished
  /\ \A r \in Requests : row[r] = "success" => r \in finished

TableVouched ==
  \A r \in Requests : /\ settlement[r] = "success" => r \in finished
                      /\ pidOf[r] # Nobody => Vouches(pidOf[r], r)

HandVouched(s) ==
  /\ Vouched(cur[s]) /\ \A c \in todo[s] : Vouched(c)
  /\ pc[s] = "save" /\ verdict[s] = "success" => cur[s].req \in finished
  /\ pc[s] = "undo" => verdict[s] \in {"queued", "abandoned"}

EarnedInv == EndsWell /\ TableVouched /\ \A s \in Supervisors : HandVouched(s)

EarnedTypes ==
  /\ job \in [Workers -> Requests \union {0}] /\ phase \in [Workers -> Phases]
  /\ parent \in [Workers -> Supervisors \union {Nobody}] /\ code \in [Workers -> Nat]
  /\ settlement \in [Requests -> Settlements \union {"none"}]
  /\ pidOf \in [Requests -> Pids] /\ row \in [Requests -> Outcomes]
  /\ pc \in [Supervisors -> SupervisorPCs]
  /\ todo \in [Supervisors -> SUBSET Copy] /\ cur \in [Supervisors -> Copy \union {NoCopy}]
  /\ verdict \in [Supervisors -> Settlements \union {"none", "gone", "silent", "queued"}]
  /\ finished \subseteq Requests
  /\ JobsKnown /\ CopyInHand

LEMMA EarnedTyped == SupType => EarnedTypes
BY DEF SupType, TypeOK, EarnedTypes

\* A pid that is known is that of a worker, of a request.
LEMMA PidsKnown ==
  ASSUME EarnedTypes
  PROVE  /\ \A r \in Requests : pidOf[r] # Nobody => pidOf[r] \in Workers
         /\ \A s \in Supervisors :
              /\ cur[s].pid # Nobody => cur[s].pid \in Workers /\ cur[s].req \in Requests
              /\ \A c \in todo[s] : c.req \in Requests /\ (c.pid # Nobody => c.pid \in Workers)
BY CopyFields DEF EarnedTypes, Pids, NoCopy

\* What a pid vouches for, it vouches for after the step.
Steady ==
  /\ finished \subseteq finished'
  /\ \A w \in Workers, r \in Requests : Vouches(w, r) => Vouches(w, r)'

LEMMA EarnedFrame ==
  ASSUME EarnedTypes, EarnedInv, Steady, EndsWell',
         UNCHANGED <<settlement, pidOf, cur, todo, verdict, pc>>
  PROVE  EarnedInv'
<1>1. TableVouched'
  BY PidsKnown DEF Steady, EarnedInv, TableVouched
<1>2. ASSUME NEW s \in Supervisors PROVE HandVouched(s)'
  <2>1. Vouched(cur[s])' /\ \A c \in todo[s] : Vouched(c)'
    BY PidsKnown DEF Steady, EarnedInv, HandVouched, Vouched
  <2> QED
    BY <2>1 DEF Steady, EarnedInv, HandVouched
<1> QED
  BY <1>1, <1>2 DEF EarnedInv

LEMMA EarnedWorker ==
  ASSUME EarnedTypes, EarnedInv, NEW w \in Workers,
         WorkerStep(w) \/ BeginUnrecorded(w) \/ StealLock(w)
  PROVE  EarnedInv'
<1> USE DEF db, memory, history, files, processes
<1>0. UNCHANGED <<settlement, pidOf, cur, todo, verdict, pc>>
  BY DEF WorkerStep, WorkerRuns, CheckRequest, WorkerFails, TakeLock, BeginBody, EndBody,
     ReleaseAndExit, Beat, BodyRefused, EndUnrecorded, WorkerKilled, BeginUnrecorded, StealLock
<1>1. ASSUME NEW c, Ends(w, c), phase[w] \notin {"zombie", "gone"},
             parent[w] # Nobody /\ c = 0 => job[w] \in finished,
             UNCHANGED <<row, parent, finished>>
      PROVE  EarnedInv'
  <2>1. /\ job'[w] = 0 /\ phase'[w] \in {"zombie", "gone"} /\ (parent[w] # Nobody => code'[w] = c)
        /\ \A v \in Workers : v # w => job'[v] = job[v] /\ phase'[v] = phase[v] /\ code'[v] = code[v]
    BY <1>1 DEF EarnedTypes, Ends
  <2>2. job[w] \in Requests /\ job[w] # 0
    BY <1>1, SupervisorAssumption DEF EarnedTypes, JobsKnown
  <2>3. EndsWell'
    BY <1>1, <2>1 DEF EarnedInv, EndsWell
  <2>4. Steady
    BY <1>1, <2>1, <2>2 DEF Steady, Vouches
  <2> QED
    BY <1>0, <2>3, <2>4, EarnedFrame
<1>2. ASSUME NEW to \in {"locking", "claiming", "locked", "body"}, phase[w] \notin {"zombie", "gone"},
             phase' = [phase EXCEPT ![w] = to], UNCHANGED <<job, parent, code, finished>>,
             \A r \in Requests : row'[r] \in {row[r], "running"}
      PROVE  EarnedInv'
  <2>1. phase'[w] = to /\ \A v \in Workers : v # w => phase'[v] = phase[v]
    BY <1>2 DEF EarnedTypes
  <2>2. EndsWell'
    BY <1>2, <2>1 DEF EarnedInv, EndsWell
  <2>3. Steady
    BY <1>2, <2>1 DEF Steady, Vouches
  <2> QED
    BY <1>0, <2>2, <2>3, EarnedFrame
<1>3. ASSUME phase[w] \notin {"zombie", "gone"}, phase' = [phase EXCEPT ![w] = "ending"],
             \A v \in Workers : v # w => code'[v] = code[v], UNCHANGED <<job, parent>>,
             finished \subseteq finished', code'[w] = 0 => job[w] \in finished',
             \A r \in Requests : row'[r] # row[r] => r \in finished'
      PROVE  EarnedInv'
  <2>1. phase'[w] = "ending" /\ \A v \in Workers : v # w => phase'[v] = phase[v]
    BY <1>3 DEF EarnedTypes
  <2>2. EndsWell'
    BY <1>3, <2>1 DEF EarnedInv, EndsWell
  <2>3. Steady
    BY <1>3, <2>1 DEF Steady, Vouches
  <2> QED
    BY <1>0, <2>2, <2>3, EarnedFrame
<1>4. CASE CheckRequest(w)
  <2>1. CASE state[job[w]] = "running"
    BY <1>2, <1>4, <2>1 DEF CheckRequest, Enter
  <2>2. CASE state[job[w]] # "running"
    BY <1>1, <1>4, <2>2 DEF CheckRequest
  <2> QED
    BY <2>1, <2>2
<1>5. CASE WorkerFails(w)
  BY <1>1, <1>5 DEF WorkerFails
<1>6. CASE TakeLock(w)
  <2>1. CASE Refused(w)
    BY <1>1, <1>6, <2>1 DEF TakeLock, LostLockExit
  <2>2. CASE ~Refused(w)
    BY <1>2, <1>6, <2>2 DEF TakeLock, Enter
  <2> QED
    BY <2>1, <2>2
<1>7. CASE Beat(w)
  BY <1>0, <1>7, EarnedFrame DEF Beat, EarnedInv, EndsWell, Steady, Vouches
<1>8. CASE BodyRefused(w)
  <2>1. /\ phase[w] = "locked" /\ phase' = [phase EXCEPT ![w] = "ending"]
        /\ code'[w] = 1 /\ \A v \in Workers : v # w => code'[v] = code[v]
        /\ UNCHANGED <<job, parent, row, finished>>
    BY <1>8 DEF EarnedTypes, BodyRefused, Enter
  <2> QED
    BY <1>3, <2>1
<1>9. CASE BeginBody(w)
  <2>1. \A r \in Requests : row'[r] \in {row[r], "running"}
    BY <1>9 DEF EarnedTypes, BeginBody
  <2> QED
    BY <1>2, <1>9, <2>1 DEF BeginBody, Enter
<1>10. CASE BeginUnrecorded(w)
  BY <1>2, <1>10 DEF BeginUnrecorded, Enter
<1>11. CASE EndBody(w)
  <2>1. \A v \in Workers : v # w => code'[v] = code[v]
    BY <1>11 DEF EarnedTypes, EndBody
  <2>2. \A r \in Requests : row'[r] # row[r] => r = job[w]
    BY <1>11 DEF EarnedTypes, EndBody
  <2>3. finished' = finished \union {job[w]}
    BY <1>11 DEF EndBody
  <2> QED
    BY <1>3, <1>11, <2>1, <2>2, <2>3 DEF EndBody, Enter
<1>12. CASE EndUnrecorded(w)
  <2>1. \A v \in Workers : v # w => code'[v] = code[v]
    BY <1>12 DEF EarnedTypes, EndUnrecorded
  <2> QED
    BY <1>3, <1>12, <2>1 DEF EndUnrecorded, Enter
<1>13. CASE ReleaseAndExit(w)
  <2>1. parent[w] # Nobody /\ code[w] = 0 => job[w] \in finished
    BY <1>13 DEF ReleaseAndExit, EarnedInv, EndsWell
  <2> QED
    BY <1>1, <1>13, <2>1 DEF ReleaseAndExit
<1>14. CASE WorkerKilled(w)
  BY <1>1, <1>14 DEF WorkerKilled, Alive, KilledExit
<1>15. CASE StealLock(w)
  BY <1>2, <1>15 DEF StealLock, Enter
<1> QED
  BY <1>4, <1>5, <1>6, <1>7, <1>8, <1>9, <1>10, <1>11, <1>12, <1>13, <1>14, <1>15
     DEF WorkerStep, WorkerRuns

\* The supervisors other than s keep what they have in hand.
OthersKeep(s) ==
  \A t \in Supervisors : t # s =>
    cur'[t] = cur[t] /\ todo'[t] = todo[t] /\ verdict'[t] = verdict[t] /\ pc'[t] = pc[t]

LEMMA EarnedHand ==
  ASSUME EarnedTypes, EarnedInv, Steady, EndsWell', TableVouched',
         NEW s \in Supervisors, OthersKeep(s), HandVouched(s)'
  PROVE  EarnedInv'
<1>1. ASSUME NEW t \in Supervisors, t # s PROVE HandVouched(t)'
  <2>1. /\ cur'[t] = cur[t] /\ todo'[t] = todo[t] /\ verdict'[t] = verdict[t] /\ pc'[t] = pc[t]
    BY <1>1 DEF OthersKeep
  <2>2. Vouched(cur[t])' /\ \A c \in todo'[t] : Vouched(c)'
    BY <2>1, PidsKnown DEF Steady, EarnedInv, HandVouched, Vouched
  <2> QED
    BY <2>1, <2>2 DEF Steady, EarnedInv, HandVouched, Vouched
<1> QED
  BY <1>1 DEF EarnedInv

LEMMA NoProcessMoves ==
  ASSUME EarnedInv, UNCHANGED <<row, processes, finished>>
  PROVE  /\ Steady /\ EndsWell' /\ \A c : Vouched(c) => Vouched(c)'
         /\ \A w, r : Vouches(w, r) => Vouches(w, r)'
BY DEF Steady, EarnedInv, EndsWell, Vouches, Vouched, processes

\* Steps that read, decide or give up: the copies taken are of the table.
LEMMA EarnedReads ==
  ASSUME EarnedTypes, EarnedInv, NEW s \in Supervisors,
         \/ HoldLease(s) \/ ReadRunning(s) \/ JudgeSilent(s) \/ ReadRow(s) \/ RowUnreadable(s)
         \/ ReadHead(s) \/ CheckBlocker(s) \/ StartRaises(s) \/ TickRaises(s) \/ StartWatch(s)
         \/ KeepLease(s) \/ Boot(s)
  PROVE  EarnedInv'
<1>0. UNCHANGED <<row, processes, finished, settlement, pidOf>>
  BY DEF HoldLease, ReadRunning, JudgeSilent, ReadRow, RowUnreadable, ReadHead, CheckBlocker,
     StartRaises, TickRaises, StartWatch, KeepLease, Boot, db, files, history
<1>1. OthersKeep(s)
  BY DEF EarnedTypes, HoldLease, ReadRunning, JudgeSilent, ReadRow, RowUnreadable, ReadHead, CheckBlocker,
     StartRaises, TickRaises, StartWatch, KeepLease, Boot, Goto, Take, PutDown, OthersKeep, memory
<1>2. HandVouched(s) /\ EndsWell /\ TableVouched
  BY DEF EarnedInv
<1>3. TableVouched'
  BY <1>0, <1>2, NoProcessMoves DEF TableVouched
<1> SUFFICES HandVouched(s)'
  BY <1>0, <1>1, <1>3, NoProcessMoves, EarnedHand
<1> DEFINE Copies == {CopyOf(r) : r \in Requests}
<1>4. \A c \in Copies : Vouched(c)'
  <2>1. \A c \in Copies : Vouched(c)
    BY <1>2 DEF TableVouched, Vouched, CopyOf
  <2> QED
    BY <1>0, <2>1, NoProcessMoves
<1>5. \A c \in {NoCopy, cur[s]} \union todo[s] : Vouched(c)'
  <2>1. Vouched(NoCopy)
    BY DEF Vouched, NoCopy
  <2> QED
    BY <1>0, <1>2, <2>1, NoProcessMoves DEF HandVouched
<1> HIDE DEF Copies
<1> DEFINE Quiet == pc'[s] \notin {"save", "undo"}
<1>6. ASSUME Quiet, cur'[s] \in {cur[s], NoCopy} \union todo[s] \union Copies, todo'[s] \subseteq todo[s] \union Copies
      PROVE  HandVouched(s)'
  <2>1. \A c \in {cur'[s]} \union todo'[s] : Vouched(c)'
    BY <1>4, <1>5, <1>6
  <2>2. Vouched(cur[s])'
    BY <2>1 DEF Vouched
  <2> QED
    BY <1>6, <2>1, <2>2 DEF HandVouched
<1>7. CASE \/ HoldLease(s) \/ StartWatch(s) \/ KeepLease(s) \/ Boot(s) \/ TickRaises(s)
           \/ CheckBlocker(s)
  BY <1>6, <1>7 DEF EarnedTypes, HoldLease, StartWatch, KeepLease, Boot, TickRaises, CheckBlocker, At,
     BetweenTicks, Goto, Take, PutDown, memory
<1>8. CASE ReadRunning(s)
  <2>1. todo'[s] \subseteq Copies
    BY <1>8 DEF EarnedTypes, ReadRunning, Running, Copies
  <2>2. Quiet /\ cur'[s] = cur[s]
    BY <1>8 DEF EarnedTypes, ReadRunning, Goto
  <2> QED
    BY <1>6, <2>1, <2>2
<1>9. CASE ReadHead(s)
  <2>1. cur'[s] \in {cur[s]} \union Copies
    BY <1>9 DEF EarnedTypes, ReadHead, Queued, Take, Copies
  <2>2. Quiet /\ todo'[s] = todo[s]
    BY <1>9 DEF EarnedTypes, ReadHead, Goto
  <2> QED
    BY <1>6, <2>1, <2>2
<1>10. CASE JudgeSilent(s)
  <2>1. todo'[s] \subseteq todo[s] /\ cur'[s] \in {cur[s]} \union todo[s]
    BY <1>10 DEF EarnedTypes, JudgeSilent, Take
  <2>2. Quiet
    BY <1>10 DEF EarnedTypes, JudgeSilent, At, Goto
  <2> QED
    BY <1>6, <2>1, <2>2
<1>11. CASE ReadRow(s)
  <2>1. /\ pc[s] = "row" /\ pc'[s] = "save" /\ cur' = cur /\ todo' = todo
        /\ verdict'[s] \in {"queued", RowSettlement(row[cur[s].req])}
    BY <1>11 DEF EarnedTypes, ReadRow, At, Goto
  <2>2. cur[s].req \in Requests
    BY <2>1, CopyFields DEF EarnedTypes, CopyInHand
  <2>3. verdict'[s] = "success" => cur[s].req \in finished
    BY <1>2, <2>1, <2>2 DEF EndsWell, RowSettlement
  <2> QED
    BY <1>0, <1>5, <2>1, <2>3 DEF HandVouched, Vouched
<1>12. CASE RowUnreadable(s)
  <2>1. /\ pc'[s] = "judge" \/ (pc'[s] = "save" /\ verdict'[s] = "interrupted")
        /\ cur'[s] \in {cur[s], NoCopy} /\ todo' = todo
    BY <1>12 DEF EarnedTypes, RowUnreadable, Goto, Take, PutDown
  <2> QED
    BY <1>5, <2>1 DEF HandVouched, Vouched
<1>13. CASE StartRaises(s)
  <2>1. pc'[s] = "undo" /\ verdict'[s] \in {"queued", "abandoned"} /\ cur'[s] = cur[s] /\ todo' = todo
    BY <1>13 DEF EarnedTypes, StartRaises, Goto, Take
  <2> QED
    BY <1>5, <2>1 DEF HandVouched, Vouched
<1> QED
  BY <1>7, <1>8, <1>9, <1>10, <1>11, <1>12, <1>13

\* Steps that write the table: each word written is that of the verdict, and the pid
\* recorded is that of the process started.
LEMMA EarnedWrites ==
  ASSUME EarnedTypes, EarnedInv, NEW s \in Supervisors,
         SaveVerdict(s) \/ UndoAdmission(s) \/ SaveAdmission(s) \/ RecordWorker(s) \/ EndWatch(s)
  PROVE  EarnedInv'
<1>0. UNCHANGED <<row, processes, finished>>
  BY DEF SaveVerdict, UndoAdmission, SaveAdmission, RecordWorker, EndWatch, files, history
<1>1. OthersKeep(s) /\ todo' = todo /\ cur'[s] \in {cur[s], NoCopy} /\ pc'[s] \notin {"save", "undo"}
  BY DEF EarnedTypes, SaveVerdict, UndoAdmission, SaveAdmission, RecordWorker, EndWatch, At, Goto, Take,
     PutDown, OthersKeep, memory
<1>2. HandVouched(s) /\ TableVouched
  BY DEF EarnedInv
<1>3. HandVouched(s)'
  <2>1. Vouched(NoCopy)
    BY DEF Vouched, NoCopy
  <2>2. \A c \in {NoCopy, cur[s]} \union todo[s] : Vouched(c)'
    BY <1>0, <1>2, <2>1, NoProcessMoves DEF HandVouched
  <2>3. \A c \in {cur'[s]} \union todo'[s] : Vouched(c)'
    BY <1>1, <2>2
  <2>4. Vouched(cur[s])'
    BY <2>3 DEF Vouched
  <2> QED
    BY <1>1, <2>3, <2>4 DEF HandVouched
<1>4. SUFFICES TableVouched'
  BY <1>0, <1>1, <1>3, NoProcessMoves, EarnedHand
<1>5. ASSUME \A r \in Requests :
               /\ settlement'[r] = "success" => r \in finished
               /\ pidOf'[r] # Nobody => Vouches(pidOf'[r], r)
      PROVE  TableVouched'
  BY <1>0, <1>5 DEF TableVouched, Vouches, processes
<1>6. CASE UNCHANGED <<settlement, pidOf>>
  BY <1>2, <1>5, <1>6 DEF TableVouched
<1>7. CASE SaveVerdict(s) \/ UndoAdmission(s)
  <2>1. verdict[s] = "success" => cur[s].req \in finished
    BY <1>2, <1>7 DEF SaveVerdict, UndoAdmission, At, HandVouched
  <2>2. CASE WriteBack(cur[s].req, verdict[s])
    <3>1. \A r \in Requests :
            /\ settlement'[r] = settlement[r] \/ (r = cur[s].req /\ settlement'[r] \in {"none", verdict[s]})
            /\ pidOf'[r] \in {pidOf[r], Nobody}
      BY <2>2 DEF EarnedTypes, WriteBack
    <3> QED
      BY <1>2, <1>5, <2>1, <3>1 DEF TableVouched
  <2> QED
    BY <1>6, <1>7, <2>2 DEF SaveVerdict, UndoAdmission, db
<1>8. CASE SaveAdmission(s)
  <2>1. settlement' = settlement /\ \A r \in Requests : pidOf'[r] \in {pidOf[r], Nobody}
    BY <1>8 DEF EarnedTypes, SaveAdmission, db
  <2> QED
    BY <1>2, <1>5, <2>1 DEF TableVouched
<1>9. CASE RecordWorker(s)
  <2>1. /\ settlement' = settlement
        /\ \A r \in Requests : pidOf'[r] = pidOf[r] \/ (r = cur[s].req /\ pidOf'[r] = cur[s].pid)
    BY <1>9 DEF EarnedTypes, RecordWorker
  <2> QED
    BY <1>2, <1>5, <2>1 DEF TableVouched, HandVouched, Vouched
<1>10. CASE EndWatch(s)
  BY <1>6, <1>10 DEF EndWatch, Insert, db
<1> QED
  BY <1>7, <1>8, <1>9, <1>10

\* A process is started under a pid that nothing names, and vouches for its request.
LEMMA EarnedStart ==
  ASSUME EarnedTypes, EarnedInv, NEW s \in Supervisors, StartWorker(s)
  PROVE  EarnedInv'
<1> DEFINE q == cur[s].req
<1>1. PICK w \in Workers :
        /\ Spare(w) /\ phase' = [phase EXCEPT ![w] = "starting"]
        /\ job' = [job EXCEPT ![w] = q] /\ parent' = [parent EXCEPT ![w] = s]
        /\ Take(s, [cur[s] EXCEPT !.pid = w], "none")
  BY DEF StartWorker
<1>2. /\ pc[s] = "start" /\ pc'[s] = "record" /\ todo' = todo
      /\ UNCHANGED <<settlement, pidOf, row, code, finished>>
  BY DEF EarnedTypes, StartWorker, At, Goto, db, files, history
<1>3. /\ cur[s] \in Copy /\ OthersKeep(s) /\ cur'[s].req = q /\ cur'[s].pid = w
  BY <1>1, <1>2 DEF EarnedTypes, CopyInHand, Copy, StartWorker, Take, Goto, OthersKeep
<1>4. /\ phase'[w] = "starting" /\ job'[w] = q
      /\ \A v \in Workers : v # w => job'[v] = job[v] /\ phase'[v] = phase[v] /\ parent'[v] = parent[v]
  BY <1>1 DEF EarnedTypes
<1>5. \A v \in Workers, r \in Requests : v # w /\ Vouches(v, r) => Vouches(v, r)'
  BY <1>2, <1>4 DEF Vouches
<1>6. EndsWell'
  BY <1>2, <1>4 DEF EarnedInv, EndsWell
<1>7. TableVouched'
  BY <1>1, <1>2, <1>5, PidsKnown DEF EarnedInv, TableVouched, Spare
<1>8. \A t \in Supervisors : \A c \in todo[t] \union {cur[t]} : Vouched(c)'
  BY <1>1, <1>5, PidsKnown DEF EarnedInv, HandVouched, Vouched, Spare
<1>9. ASSUME NEW t \in Supervisors, t # s PROVE HandVouched(t)'
  <2>1. /\ cur'[t] = cur[t] /\ todo'[t] = todo[t] /\ verdict'[t] = verdict[t] /\ pc'[t] = pc[t]
    BY <1>3, <1>9 DEF OthersKeep
  <2>2. Vouched(cur[t])' /\ \A c \in todo'[t] : Vouched(c)'
    BY <1>8, <2>1 DEF Vouched
  <2> QED
    BY <1>2, <2>1, <2>2 DEF EarnedInv, HandVouched
<1>10. HandVouched(s)'
  <2>1. Vouched(cur[s])'
    BY <1>3, <1>4 DEF Vouched, Vouches
  <2> QED
    BY <1>2, <1>8, <2>1 DEF HandVouched
<1> QED
  BY <1>6, <1>7, <1>9, <1>10 DEF EarnedInv

\* Children are reaped or orphaned: no exit code says more than it did.
LEMMA EarnedDisown ==
  ASSUME EarnedTypes, EarnedInv, NEW s \in Supervisors, Reap(s) \/ Stop(s) \/ Crash(s)
  PROVE  EarnedInv'
<1>1. /\ OthersKeep(s) /\ cur'[s] \in {cur[s], NoCopy} /\ todo'[s] \subseteq todo[s]
      /\ pc'[s] \in {"head", "down"} /\ UNCHANGED <<settlement, pidOf, row, job, finished>>
  BY DEF EarnedTypes, Reap, Stop, Crash, Forget, PutDown, Take, Goto, OthersKeep, db, files, history
<1>2. \A w \in Workers :
        /\ parent'[w] # Nobody => parent'[w] = parent[w] /\ code'[w] = code[w]
        /\ phase'[w] = phase[w] \/ (phase[w] = "zombie" /\ phase'[w] = "gone")
  BY DEF Reap, Stop, Crash, Orphan, Disown
<1>3. EndsWell'
  BY <1>1, <1>2 DEF EarnedInv, EndsWell
<1>4. Steady
  BY <1>1, <1>2 DEF Steady, Vouches
<1>5. TableVouched'
  BY <1>1, <1>4, PidsKnown DEF Steady, EarnedInv, TableVouched
<1>6. \A c \in {NoCopy, cur[s]} \union todo[s] : Vouched(c)'
  BY <1>4, PidsKnown DEF Steady, EarnedInv, HandVouched, Vouched, NoCopy
<1>7. HandVouched(s)'
  <2>1. \A c \in {cur'[s]} \union todo'[s] : Vouched(c)'
    BY <1>1, <1>6
  <2>2. Vouched(cur[s])'
    BY <2>1 DEF Vouched
  <2> QED
    BY <1>1, <2>1, <2>2 DEF HandVouched
<1> QED
  BY <1>1, <1>3, <1>4, <1>5, <1>7, EarnedHand

\* A child is polled: its exit code is worth what it vouches for, to this old copy too.
LEMMA EarnedJudge ==
  ASSUME EarnedTypes, EarnedInv, NEW s \in Supervisors, JudgeExit(s)
  PROVE  EarnedInv'
<1>1. PICK c \in todo[s] :
        /\ HasExited(s, c.pid)
        /\ Take(s, c, IF code[c.pid] = LostLockExit THEN "queued" ELSE SettlementOf(code[c.pid]))
        /\ todo' = [todo EXCEPT ![s] = @ \ {c}]
        /\ phase' = [phase EXCEPT ![c.pid] = "gone"]
  BY DEF JudgeExit
<1>2. /\ OthersKeep(s) /\ pc'[s] = "save" /\ cur'[s] = c /\ todo'[s] \subseteq todo[s]
      /\ verdict'[s] = IF code[c.pid] = LostLockExit THEN "queued" ELSE SettlementOf(code[c.pid])
      /\ UNCHANGED <<settlement, pidOf, row, job, parent, code, finished>>
  BY <1>1 DEF EarnedTypes, JudgeExit, Goto, Take, OthersKeep, db, files, history
<1>3. c.pid \in Workers /\ c.pid # Nobody /\ Vouched(c) /\ parent[c.pid] # Nobody
  BY <1>1, PidsKnown, SupervisorAssumption DEF EarnedInv, HandVouched, HasExited
<1>4. /\ phase[c.pid] \in {"zombie", "gone"} /\ phase'[c.pid] = "gone"
      /\ \A v \in Workers : v # c.pid => phase'[v] = phase[v]
  BY <1>1, <1>3 DEF EarnedTypes, HasExited
<1>5. EndsWell'
  BY <1>2, <1>4 DEF EarnedInv, EndsWell
<1>6. Steady
  BY <1>2, <1>4 DEF Steady, Vouches
<1>7. TableVouched'
  BY <1>2, <1>6, PidsKnown DEF Steady, EarnedInv, TableVouched
<1>8. \A d \in todo[s] : Vouched(d)'
  BY <1>6, PidsKnown DEF Steady, EarnedInv, HandVouched, Vouched
<1>9. verdict'[s] = "success" => c.req \in finished
  BY <1>2, <1>3, <1>4 DEF Vouched, Vouches, SettlementOf
<1>10. HandVouched(s)'
  <2>1. Vouched(cur[s])' /\ \A d \in todo'[s] : Vouched(d)'
    BY <1>2, <1>8 DEF Vouched
  <2> QED
    BY <1>2, <1>9, <2>1 DEF HandVouched
<1> QED
  BY <1>2, <1>5, <1>6, <1>7, <1>10, EarnedHand

LEMMA EarnedStep == EarnedTypes /\ EarnedInv /\ [Next]_vars => EarnedInv'
<1> SUFFICES ASSUME EarnedTypes, EarnedInv, [Next]_vars PROVE EarnedInv'
  OBVIOUS
<1>0. ASSUME UNCHANGED <<row, processes, finished, settlement, pidOf, cur, todo, verdict, pc>>
      PROVE  EarnedInv'
  BY <1>0, NoProcessMoves, EarnedFrame
<1>1. ASSUME NEW s \in Supervisors, SupervisorStep(s) PROVE EarnedInv'
  BY <1>1, EarnedReads, EarnedWrites, EarnedStart, EarnedDisown, EarnedJudge DEF SupervisorStep, Tick
<1>2. ASSUME NEW w \in Workers,
             WorkerStep(w) \/ BeginUnrecorded(w) \/ StealLock(w) \/ ForeignRobs(w)
      PROVE  EarnedInv'
  <2>1. CASE ForeignRobs(w)
    BY <1>0, <2>1 DEF ForeignRobs, db, memory, history
  <2> QED
    BY <1>2, <2>1, EarnedWorker
<1>3. ASSUME NEW r \in Requests, Ask(r) \/ GoesSilent(r) \/ MissesBeats(r) PROVE EarnedInv'
  BY <1>0, <1>3 DEF Ask, Insert, GoesSilent, MissesBeats, GoesStale, files, memory, history
<1>4. CASE Around \/ LapseInTick
  BY <1>0, <1>4 DEF Around, ForeignTakes, ForeignReleases, Pause, Resume, Lapse, LapseInTick, db, files,
     memory, history
<1>5. CASE UNCHANGED vars
  BY <1>0, <1>5 DEF vars, db, files, memory, history
<1> QED
  BY <1>1, <1>2, <1>3, <1>4, <1>5 DEF Next, PunctualNext

\* Whoever settles a request, from whatever stale copy, reused pid, exit code or row, and
\* however many supervisors believe they hold the lease: success is said only of a body
\* that reached its end.
THEOREM SuccessAlwaysEarned == Spec => []SuccessIsEarned
<1>1. Init => EarnedInv
  BY DEF Init, EarnedInv, EndsWell, TableVouched, HandVouched, Vouched, NoCopy
<1>2. SupType /\ EarnedInv /\ [Next]_vars => EarnedInv'
  BY EarnedTyped, EarnedStep
<1>3. EarnedInv => SuccessIsEarned
  BY DEF EarnedInv, TableVouched, SuccessIsEarned
<1>4. SupType /\ [Next]_vars => SupType'
  BY SupTypeStep
<1> QED
  BY <1>1, <1>2, <1>3, <1>4, SupTypeInit, PTL DEF Spec
=============================================================================
