----------------------- MODULE SupervisorQueueProofs -----------------------
(***************************************************************************)
(* While every admission tick fits in its lease and every body has its     *)
(* row, the supervisors and their workers implement the queue of RunQueue, *)
(* for every number of them and of requests.                               *)
(***************************************************************************)
EXTENDS SupervisorProofs

\* A process has a request until it ends, and no request has two.
OneWorker ==
  \A w \in Workers :
    /\ phase[w] \in {"zombie", "gone"} <=> job[w] = 0
    /\ job[w] # 0 => \A v \in Workers : job[v] = job[w] => v = w

\* No process is on r.
Unworked(r) == \A w \in Workers : job[w] # r

\* A request not admitted, or sent back, has no process and its body never began.
Unadmitted ==
  \A r \in Requests : state[r] \in {"unasked", "queued"} => r \notin began /\ Unworked(r)

\* What the exit code of the child w says of its request r.
Tells(w, r) ==
  parent[w] # Nobody /\ phase[w] \in {"zombie", "gone"} =>
    /\ code[w] = LostLockExit => r \notin began
    /\ code[w] = 0 => r \in finished

\* w is the process started for r: no other is on r, and w is on no other.
WorkerOf(w, r) ==
  /\ w \in Workers /\ job[w] \in {r, 0}
  /\ \A v \in Workers : job[v] = r => v = w
  /\ Tells(w, r)

\* The recorded pid is that of the request's own process.
Named ==
  \A r \in Requests :
    /\ state[r] # "running" => pidOf[r] = Nobody
    /\ pidOf[r] # Nobody => WorkerOf(pidOf[r], r)

\* Up to the lock the body has not begun; past it the exit code is that of the body.
Progress ==
  \A w \in Workers :
    /\ phase[w] \in {"starting", "locking", "claiming", "locked"} => job[w] \notin began
    /\ phase[w] = "ending" /\ parent[w] # Nobody =>
         code[w] # LostLockExit /\ (code[w] = 0 => job[w] \in finished)

\* A body has its row, and a row says success of a body that reached its end.
RowsTell ==
  \A r \in Requests : /\ r \in began => row[r] # "norow"
                      /\ row[r] = "success" => r \in finished

\* The copy c is what the table still says.
Current(c) == state[c.req] = "running" /\ c.pid = pidOf[c.req]

\* The copies to judge are current, one of a request, and the one in hand is apart.
Judging(s) ==
  /\ pc[s] \notin {"judge", "row", "save"} => todo[s] = {}
  /\ \A c \in todo[s] : Current(c) /\ \A d \in todo[s] : c.req = d.req => c = d
  /\ pc[s] \in {"row", "save"} => Current(cur[s]) /\ \A c \in todo[s] : c.req # cur[s].req

\* What a verdict rests on.
Grounded(s) ==
  /\ pc[s] = "row" /\ verdict[s] = "gone" => Unworked(cur[s].req)
  /\ pc[s] = "save" =>
       /\ verdict[s] = "queued" => cur[s].req \notin began /\ Unworked(cur[s].req)
       /\ verdict[s] = "success" => cur[s].req \in finished
       /\ verdict[s] # "abandoned"

\* How far the admission in hand is.
Admitting(s) ==
  /\ pc[s] = "admit" => Running = {}
  /\ pc[s] \in {"start", "undo"} =>
       /\ state[cur[s].req] = "running" /\ pidOf[cur[s].req] = Nobody
       /\ cur[s].req \notin began /\ Unworked(cur[s].req)
  /\ pc[s] = "undo" => verdict[s] \in {"queued", "abandoned"}
  /\ pc[s] = "record" =>
       /\ state[cur[s].req] = "running" /\ pidOf[cur[s].req] = Nobody
       /\ WorkerOf(cur[s].pid, cur[s].req)

QueueCore ==
  /\ OneWorker /\ Unadmitted /\ Named /\ Progress /\ RowsTell
  /\ \A s \in Supervisors : Judging(s) /\ Grounded(s) /\ Admitting(s)

-----------------------------------------------------------------------------
(* What the parts rest on. *)

Places(s) == Judging(s) /\ Grounded(s) /\ Admitting(s)

QueueTypes ==
  /\ state \in [Requests -> {"unasked", "queued", "running", "settled"}]
  /\ pidOf \in [Requests -> Pids]
  /\ row \in [Requests -> Outcomes]
  /\ phase \in [Workers -> Phases]
  /\ job \in [Workers -> Requests \union {0}]
  /\ parent \in [Workers -> Supervisors \union {Nobody}]
  /\ code \in [Workers -> Nat]
  /\ began \subseteq Requests /\ finished \subseteq Requests
  /\ pc \in [Supervisors -> SupervisorPCs]
  /\ todo \in [Supervisors -> SUBSET Copy]
  /\ cur \in [Supervisors -> Copy \union {NoCopy}]
  /\ verdict \in [Supervisors -> Settlements \union {"none", "gone", "silent", "queued"}]
  /\ CopyInHand

LEMMA Typed == SupType => QueueTypes
BY DEF SupType, TypeOK, QueueTypes

\* The request of a copy in hand is one.
LEMMA InHand ==
  ASSUME QueueTypes, NEW s \in Supervisors
  PROVE  /\ pc[s] \in {"row", "save", "block", "admit", "start", "undo", "record"} =>
              cur[s] \in Copy /\ cur[s].req \in Requests /\ cur[s].pid \in Pids
         /\ \A c \in todo[s] : c \in Copy /\ c.req \in Requests /\ c.pid \in Pids
BY CopyFields DEF QueueTypes, CopyInHand

LEMMA InitCore == Init => QueueCore
<1> SUFFICES ASSUME Init PROVE QueueCore
  OBVIOUS
<1> USE SupervisorAssumption DEF Init
<1>1. OneWorker /\ Unadmitted /\ Progress
  BY DEF OneWorker, Unadmitted, Unworked, Progress
<1>2. Named /\ RowsTell
  BY DEF Named, RowsTell
<1>3. \A s \in Supervisors : Judging(s) /\ Grounded(s) /\ Admitting(s)
  BY DEF Judging, Grounded, Admitting
<1> QED
  BY <1>1, <1>2, <1>3 DEF QueueCore

\* A supervisor that is not inside an admission tick has nothing in hand.
LEMMA OutOfTick ==
  ASSUME NEW t \in Supervisors, pc'[t] \in {"down", "idle", "gate", "watch", "scan", "head", "block"},
         todo'[t] = {}
  PROVE  Places(t)'
BY DEF Places, Judging, Grounded, Admitting

\* While s is inside a tick the others have nothing in hand, before and after.
LEMMA Alone ==
  ASSUME QueueTypes, QueueCore, TickerHolds, NEW s \in Supervisors, InTick(s),
         NEW t \in Supervisors, t # s, pc'[t] = pc[t], todo'[t] = todo[t]
  PROVE  Places(t)'
<1>1. ~InTick(t)
  BY DEF TickerHolds
<1>2. pc[t] \in {"down", "idle", "gate", "watch"}
  BY <1>1 DEF InTick
<1>3. todo[t] = {}
  BY <1>2 DEF QueueCore, Judging
<1> QED
  BY <1>2, <1>3, OutOfTick

\* A step of the world around the ticks: no admission, no write back, no new process.
Onward ==
  /\ pidOf' = pidOf /\ finished \subseteq finished'
  /\ \A r \in Requests :
       /\ state'[r] = "running" <=> state[r] = "running"
       /\ state'[r] \in {"unasked", "queued"} => state[r] \in {"unasked", "queued"}
       /\ Unworked(r) => Unworked(r)' /\ (r \notin began => r \notin began')
       /\ \A w \in Workers : WorkerOf(w, r) => WorkerOf(w, r)'

\* Such a step spoils nothing a tick rests on.
LEMMA OnwardPlaces ==
  ASSUME QueueTypes, QueueCore, Onward, NEW t \in Supervisors,
         pc'[t] = pc[t], todo'[t] = todo[t], cur'[t] = cur[t], verdict'[t] = verdict[t]
  PROVE  Places(t)'
<1>0. Judging(t) /\ Grounded(t) /\ Admitting(t)
  BY DEF QueueCore
<1>1. Judging(t)'
  <2>1. ASSUME NEW c, c.req \in Requests, Current(c) PROVE Current(c)'
    BY <2>1 DEF Onward, Current
  <2> QED
    BY <1>0, <2>1, InHand DEF Judging
<1>2. Grounded(t)'
  BY <1>0, InHand DEF Onward, Grounded
<1>3. Admitting(t)'
  <2>1. Running = {} => Running' = {}
    BY DEF Onward, Running
  <2>2. CASE pc[t] \in {"start", "undo"}
    BY <1>0, <2>2, InHand DEF Onward, Admitting
  <2>3. CASE pc[t] = "record"
    BY <1>0, <2>3, InHand DEF Onward, Admitting, WorkerOf
  <2> QED
    BY <1>0, <2>1, <2>2, <2>3 DEF Admitting
<1> QED
  BY <1>1, <1>2, <1>3 DEF Places

\* Nor what the table says.
LEMMA OnwardTable ==
  ASSUME QueueTypes, QueueCore, Onward
  PROVE  Unadmitted' /\ Named'
<1>1. Unadmitted'
  BY DEF QueueCore, Onward, Unadmitted
<1>2. Named'
  BY DEF QueueCore, Onward, Named, WorkerOf
<1> QED
  BY <1>1, <1>2

LEMMA OnwardCore ==
  ASSUME QueueTypes, QueueCore, Onward, UNCHANGED <<pc, todo, cur, verdict>>,
         OneWorker', Progress', RowsTell'
  PROVE  QueueCore'
<1>1. \A t \in Supervisors : Places(t)'
  BY OnwardPlaces
<1> QED
  BY <1>1, OnwardTable DEF QueueCore, Places

-----------------------------------------------------------------------------
(* The workers. *)

Still == UNCHANGED <<pc, todo, cur, verdict>>

\* A worker that is there is on a request, and on no other worker's.
LEMMA OnRequest ==
  ASSUME QueueTypes, QueueCore, NEW w \in Workers, phase[w] \notin {"zombie", "gone"}
  PROVE  job[w] \in Requests /\ job[w] # 0 /\ \A v \in Workers : job[v] = job[w] => v = w
BY DEF QueueTypes, QueueCore, OneWorker

\* A worker goes on, and says nothing yet.
LEMMA EntersStep ==
  ASSUME QueueTypes, QueueCore, NEW w \in Workers, NEW to \in {"locking", "locked"},
         phase[w] \in {"starting", "locking", "claiming"}, phase' = [phase EXCEPT ![w] = to],
         Still, UNCHANGED <<state, pidOf, row, job, parent, code, began, finished>>
  PROVE  QueueCore'
<1>0. \A v \in Workers : v # w => phase'[v] = phase[v]
  BY DEF QueueTypes
<1>1. phase'[w] = to
  BY DEF QueueTypes
<1>2. OneWorker' /\ Progress' /\ RowsTell'
  BY <1>0, <1>1 DEF QueueCore, OneWorker, Progress, RowsTell
<1>3. \A v \in Workers : v = w \/ phase'[v] = phase[v]
  BY <1>0
<1>4. ASSUME NEW r \in Requests, NEW v \in Workers, WorkerOf(v, r) PROVE WorkerOf(v, r)'
  BY <1>1, <1>3, <1>4 DEF WorkerOf, Tells
<1>5. Onward
  BY <1>4 DEF Onward, Unworked
<1> QED
  BY <1>2, <1>5, OnwardCore DEF Still

\* A worker ends, with an exit code that says no more than what happened.
LEMMA EndsStep ==
  ASSUME QueueTypes, QueueCore, NEW w \in Workers, NEW c, Ends(w, c),
         phase[w] \notin {"zombie", "gone"},
         parent[w] # Nobody => /\ c = LostLockExit => job[w] \notin began
                               /\ c = 0 => job[w] \in finished,
         Still, UNCHANGED <<state, pidOf, row, parent, began, finished>>
  PROVE  QueueCore'
<1>0. /\ job'[w] = 0 /\ phase'[w] \in {"zombie", "gone"}
      /\ parent[w] # Nobody => code'[w] = c
      /\ \A v \in Workers : v # w => job'[v] = job[v] /\ phase'[v] = phase[v] /\ code'[v] = code[v]
  BY DEF QueueTypes, Ends
<1>1. job[w] \in Requests
  BY OnRequest
<1>2. OneWorker' /\ Progress' /\ RowsTell'
  <2>1. OneWorker'
    BY <1>0 DEF QueueCore, OneWorker
  <2>2. Progress'
    BY <1>0 DEF QueueCore, Progress
  <2>3. RowsTell'
    BY DEF QueueCore, RowsTell
  <2> QED
    BY <2>1, <2>2, <2>3
<1>3. ASSUME NEW r \in Requests, NEW v \in Workers, WorkerOf(v, r) PROVE WorkerOf(v, r)'
  <2>1. job'[v] \in {r, 0} /\ \A u \in Workers : job'[u] = r => u = v
    BY <1>0, <1>3, SupervisorAssumption DEF WorkerOf
  <2>2. CASE v # w
    BY <1>0, <1>3, <2>1, <2>2 DEF WorkerOf, Tells
  <2>3. CASE v = w
    <3>1. job[w] = r
      BY <1>1, <1>3, <2>3, SupervisorAssumption DEF WorkerOf
    <3>2. Tells(w, r)'
      BY <1>0, <3>1 DEF Tells
    <3> QED
      BY <2>1, <2>3, <3>2 DEF WorkerOf
  <2> QED
    BY <2>2, <2>3
<1>4. \A r \in Requests : Unworked(r) => Unworked(r)'
  BY <1>0, SupervisorAssumption DEF Unworked
<1>5. Onward
  BY <1>3, <1>4 DEF Onward
<1> QED
  BY <1>2, <1>5, OnwardCore DEF Still

\* The body begins: of a request of which none had begun, since no other worker is on it.
LEMMA BeginBodyStep ==
  ASSUME QueueTypes, QueueCore, NEW w \in Workers, BeginBody(w)
  PROVE  QueueCore'
<1> DEFINE q == job[w]
<1>0. /\ phase[w] = "locked" /\ phase'[w] = "body" /\ \A v \in Workers : v # w => phase'[v] = phase[v]
      /\ began' = began \union {q} /\ Still
      /\ UNCHANGED <<state, pidOf, job, parent, code, finished>>
  BY DEF QueueTypes, BeginBody, Enter, Still, db, memory
<1>1. q \in Requests /\ q \notin began /\ \A v \in Workers : job[v] = q => v = w
  BY <1>0, OnRequest DEF QueueCore, Progress
<1>2. /\ row'[q] # "norow" /\ (row'[q] = "success" => row[q] = "success")
      /\ \A r \in Requests : r # q => row'[r] = row[r]
  BY <1>1 DEF QueueTypes, BeginBody
<1>3. OneWorker' /\ Progress'
  BY <1>0, <1>1 DEF QueueCore, OneWorker, Progress
<1>4. RowsTell'
  BY <1>0, <1>2 DEF QueueCore, RowsTell
<1>5. ASSUME NEW r \in Requests, NEW v \in Workers, WorkerOf(v, r) PROVE WorkerOf(v, r)'
  BY <1>0, <1>5 DEF WorkerOf, Tells
<1>6. \A r \in Requests : Unworked(r) => r # q
  BY DEF Unworked
<1>7. Onward
  BY <1>0, <1>5, <1>6 DEF Onward, Unworked
<1> QED
  BY <1>0, <1>3, <1>4, <1>7, OnwardCore DEF Still

\* The body ends, or gives up before its row.
LEMMA BodyLeftStep ==
  ASSUME QueueTypes, QueueCore, NEW w \in Workers,
         EndBody(w) \/ EndUnrecorded(w) \/ BodyRefused(w)
  PROVE  QueueCore'
<1> DEFINE q == job[w]
<1>0. /\ phase[w] \in {"locked", "body"} /\ phase'[w] = "ending"
      /\ \A v \in Workers : v # w => phase'[v] = phase[v] /\ code'[v] = code[v]
      /\ Still /\ UNCHANGED <<state, pidOf, job, parent, began>>
  BY DEF QueueTypes, EndBody, EndUnrecorded, BodyRefused, Enter, Still, db, memory, history, files
<1>1. q \in Requests
  BY <1>0, OnRequest
<1>2. \/ finished' = finished \union {q} /\ code'[w] \in {0, 1}
      \/ finished' = finished /\ code'[w] = 1
  BY DEF QueueTypes, EndBody, EndUnrecorded, BodyRefused, Endings, history
<1>3. /\ \A r \in Requests : r # q => row'[r] = row[r]
      /\ row'[q] # row[q] => row[q] # "norow" /\ row'[q] # "norow" /\ finished' = finished \union {q}
  <2>1. CASE EndBody(w)
    BY <1>1, <2>1 DEF QueueTypes, EndBody, Endings
  <2>2. CASE EndUnrecorded(w) \/ BodyRefused(w)
    BY <2>2 DEF EndUnrecorded, BodyRefused, files
  <2> QED
    BY <2>1, <2>2
<1>4. OneWorker' /\ Progress'
  BY <1>0, <1>2 DEF QueueCore, OneWorker, Progress, LostLockExit
<1>5. RowsTell'
  BY <1>0, <1>2, <1>3 DEF QueueCore, RowsTell
<1>6. ASSUME NEW r \in Requests, NEW v \in Workers, WorkerOf(v, r) PROVE WorkerOf(v, r)'
  BY <1>0, <1>2, <1>6 DEF WorkerOf, Tells
<1>7. Onward
  BY <1>0, <1>2, <1>6 DEF Onward, Unworked
<1> QED
  BY <1>0, <1>4, <1>5, <1>7, OnwardCore DEF Still

LEMMA WorkerCore ==
  ASSUME QueueTypes, QueueCore, NEW w \in Workers, WorkerStep(w)
  PROVE  QueueCore'
<1> USE DEF Still, db, memory, history, files
<1>1. CASE CheckRequest(w)
  <2>1. CASE state[job[w]] = "running"
    BY <1>1, <2>1, EntersStep DEF CheckRequest, Enter
  <2>2. CASE state[job[w]] # "running"
    BY <1>1, <2>2, EndsStep DEF CheckRequest, LostLockExit
  <2> QED
    BY <2>1, <2>2
<1>2. CASE WorkerFails(w)
  BY <1>2, EndsStep DEF WorkerFails, LostLockExit
<1>3. CASE TakeLock(w)
  <2>1. CASE ~Refused(w)
    BY <1>3, <2>1, EntersStep DEF TakeLock, Enter
  <2>2. CASE Refused(w)
    <3>1. job[w] \notin began
      BY <1>3 DEF TakeLock, QueueCore, Progress
    <3> QED
      BY <1>3, <2>2, <3>1, EndsStep DEF TakeLock, LostLockExit
  <2> QED
    BY <2>1, <2>2
<1>4. CASE ReleaseAndExit(w)
  <2>1. parent[w] # Nobody => code[w] # LostLockExit /\ (code[w] = 0 => job[w] \in finished)
    BY <1>4 DEF ReleaseAndExit, QueueCore, Progress
  <2> QED
    BY <1>4, <2>1, EndsStep DEF ReleaseAndExit
<1>5. CASE WorkerKilled(w)
  BY <1>5, EndsStep DEF WorkerKilled, Alive, LostLockExit, KilledExit
<1>6. CASE BeginBody(w)
  BY <1>6, BeginBodyStep
<1>7. CASE EndBody(w) \/ EndUnrecorded(w) \/ BodyRefused(w)
  BY <1>7, BodyLeftStep
<1>8. CASE Beat(w)
  BY <1>8 DEF Beat, processes, QueueCore, OneWorker, Unadmitted, Named, Progress, RowsTell, Unworked,
       WorkerOf, Tells, Judging, Grounded, Admitting, Current, Running
<1> QED
  BY <1>1, <1>2, <1>3, <1>4, <1>5, <1>6, <1>7, <1>8 DEF WorkerStep, WorkerRuns

-----------------------------------------------------------------------------
(* The supervisors: what a step takes in hand. *)

World == <<state, pidOf, row, phase, job, parent, code, began, finished>>

\* The other supervisors stay where they are.
Only(s) ==
  \A t \in Supervisors : t # s =>
    pc'[t] = pc[t] /\ todo'[t] = todo[t] /\ cur'[t] = cur[t] /\ verdict'[t] = verdict[t]

LEMMA StepCore ==
  ASSUME QueueTypes, QueueCore, Onward, OneWorker', Progress', RowsTell',
         NEW s \in Supervisors, Only(s), Places(s)'
  PROVE  QueueCore'
<1>1. \A t \in Supervisors : Places(t)'
  BY OnwardPlaces DEF Only
<1> QED
  BY <1>1, OnwardTable DEF QueueCore, Places

LEMMA MoveCore ==
  ASSUME QueueTypes, QueueCore, UNCHANGED World, NEW s \in Supervisors, Only(s), Places(s)'
  PROVE  QueueCore'
<1>1. Onward
  BY DEF World, Onward, Unworked, WorkerOf, Tells
<1>2. OneWorker' /\ Progress' /\ RowsTell'
  BY DEF World, QueueCore, OneWorker, Progress, RowsTell
<1> QED
  BY <1>1, <1>2, StepCore

\* A step that ends with nothing in hand.
LEMMA EmptyHanded ==
  ASSUME QueueTypes, QueueCore, UNCHANGED World, NEW s \in Supervisors, Only(s),
         pc'[s] \in {"down", "idle", "gate", "watch", "scan", "head", "block"}, todo'[s] = {}
  PROVE  QueueCore'
BY OutOfTick, MoveCore

\* What a supervisor has to judge, outside the judging.
LEMMA NothingToJudge ==
  ASSUME QueueCore, NEW s \in Supervisors, pc[s] \notin {"judge", "row", "save"}
  PROVE  todo[s] = {}
BY DEF QueueCore, Judging

LEMMA ReadRunningStep ==
  ASSUME QueueTypes, QueueCore, NEW s \in Supervisors, ReadRunning(s)
  PROVE  QueueCore'
<1>1. /\ pc'[s] = "judge" /\ todo'[s] = {CopyOf(r) : r \in Running} /\ Only(s) /\ UNCHANGED World
  BY DEF QueueTypes, ReadRunning, Goto, Only, World, db, files, processes, history
<1>2. ASSUME NEW c \in todo'[s] PROVE c = CopyOf(c.req) /\ Current(c)'
  <2>1. PICK r \in Running : c = CopyOf(r)
    BY <1>1
  <2>2. c.req = r /\ c.pid = pidOf[r]
    BY <2>1 DEF CopyOf
  <2> QED
    BY <1>1, <2>1, <2>2 DEF Running, Current, World
<1>3. Judging(s)'
  <2>1. \A c \in todo'[s], d \in todo'[s] : c.req = d.req => c = d
    BY <1>2
  <2> QED
    BY <1>1, <1>2, <2>1 DEF Judging
<1>4. Places(s)'
  BY <1>1, <1>3 DEF Places, Grounded, Admitting
<1> QED
  BY <1>1, <1>4, MoveCore

\* A request whose recorded process has ended has no process.
LEMMA EndedUnworked ==
  ASSUME QueueTypes, QueueCore, NEW r \in Requests, pidOf[r] # Nobody,
         phase[pidOf[r]] \in {"zombie", "gone"}
  PROVE  Unworked(r) /\ WorkerOf(pidOf[r], r)
BY SupervisorAssumption DEF QueueCore, Named, OneWorker, WorkerOf, Unworked

LEMMA JudgeSilentStep ==
  ASSUME QueueTypes, QueueCore, NEW s \in Supervisors, JudgeSilent(s)
  PROVE  QueueCore'
<1>1. PICK c \in todo[s] :
        /\ todo' = [todo EXCEPT ![s] = @ \ {c}]
        /\ \/ Take(s, c, IF Gone(c.pid) THEN "gone" ELSE "silent") /\ Goto(s, "row")
           \/ UNCHANGED <<cur, verdict, pc>>
  BY DEF JudgeSilent
<1>2. pc[s] = "judge" /\ Only(s) /\ UNCHANGED World /\ todo'[s] = todo[s] \ {c}
  BY <1>1 DEF QueueTypes, JudgeSilent, At, Goto, Take, Only, World, db, files, processes, history
<1>3. /\ Current(c) /\ c.req \in Requests
      /\ \A d \in todo[s] : Current(d) /\ (d.req = c.req => d = c)
      /\ \A d \in todo[s], e \in todo[s] : d.req = e.req => d = e
  BY InHand DEF QueueCore, Judging
<1>4. \A d \in todo'[s] : d \in todo[s] /\ d.req # c.req /\ Current(d)'
  BY <1>2, <1>3 DEF Current, World
<1>5. CASE UNCHANGED <<cur, verdict, pc>>
  <2>1. pc'[s] = "judge"
    BY <1>2, <1>5
  <2>2. Judging(s)'
    BY <1>2, <1>3, <1>4, <2>1 DEF Judging
  <2>3. Grounded(s)' /\ Admitting(s)'
    BY <2>1 DEF Grounded, Admitting
  <2> QED
    BY <1>2, <2>2, <2>3, MoveCore DEF Places
<1>6. CASE Take(s, c, IF Gone(c.pid) THEN "gone" ELSE "silent") /\ Goto(s, "row")
  <2>1. /\ pc'[s] = "row" /\ cur'[s] = c
        /\ verdict'[s] = "gone" => Gone(c.pid)
    BY <1>6 DEF QueueTypes, Take, Goto
  <2>2. Gone(c.pid) => Unworked(c.req)
    BY <1>3, EndedUnworked DEF Gone, Alive, Current
  <2>3. Judging(s)'
    BY <1>2, <1>3, <1>4, <2>1 DEF Judging, Current, World
  <2>4. Grounded(s)' /\ Admitting(s)'
    BY <1>2, <2>1, <2>2 DEF Grounded, Admitting, Unworked, World
  <2> QED
    BY <1>2, <2>3, <2>4, MoveCore DEF Places
<1> QED
  BY <1>1, <1>5, <1>6

\* The row is read, or given up on: a success is of a body that ended, and a request goes
\* back only when its process is gone and its body left no row.
LEMMA ReadRowStep ==
  ASSUME QueueTypes, QueueCore, NEW s \in Supervisors, ReadRow(s) \/ RowUnreadable(s)
  PROVE  QueueCore'
<1> DEFINE r == cur[s].req
<1>1. pc[s] = "row" /\ Only(s) /\ UNCHANGED World /\ todo' = todo
  BY DEF QueueTypes, ReadRow, RowUnreadable, At, Goto, PutDown, Take, Only, World, db, files, processes, history
<1>2. /\ r \in Requests /\ Current(cur[s]) /\ (verdict[s] = "gone" => Unworked(r))
      /\ \A c \in todo[s] : /\ Current(c) /\ c.req # r
                            /\ \A d \in todo[s] : d.req = c.req => d = c
  BY <1>1, InHand DEF QueueCore, Judging, Grounded
<1>3. \A c \in todo[s] : Current(c)'
  BY <1>1, <1>2 DEF Current, World
<1>4. CASE pc'[s] = "save" /\ cur'[s] = cur[s]
  <2>1. Judging(s)'
    BY <1>1, <1>2, <1>3, <1>4 DEF Judging, Current, World
  <2>2. \/ /\ verdict'[s] = "queued" /\ verdict[s] = "gone" /\ row[r] = "norow"
        \/ verdict'[s] = RowSettlement(row[r])
        \/ verdict'[s] = "interrupted"
    BY <1>1, <1>4 DEF QueueTypes, ReadRow, RowUnreadable, Take, PutDown, Goto
  <2>3. verdict'[s] = "queued" => r \notin began /\ Unworked(r)
    BY <1>2, <2>2 DEF QueueCore, RowsTell, RowSettlement
  <2>4. verdict'[s] # "abandoned" /\ (verdict'[s] = "success" => r \in finished)
    BY <1>2, <2>2 DEF QueueCore, RowsTell, RowSettlement
  <2>5. Grounded(s)' /\ Admitting(s)'
    BY <1>1, <1>4, <2>3, <2>4 DEF Grounded, Admitting, Unworked, World
  <2> QED
    BY <1>1, <2>1, <2>5, MoveCore DEF Places
<1>5. CASE pc'[s] = "judge"
  BY <1>1, <1>2, <1>3, <1>5, MoveCore DEF Places, Judging, Grounded, Admitting
<1>6. (pc'[s] = "save" /\ cur'[s] = cur[s]) \/ pc'[s] = "judge"
  BY <1>1 DEF QueueTypes, ReadRow, RowUnreadable, Goto, Take, PutDown
<1> QED
  BY <1>4, <1>5, <1>6

LEMMA CheckBlockerStep ==
  ASSUME QueueTypes, QueueCore, NEW s \in Supervisors, CheckBlocker(s)
  PROVE  QueueCore'
<1>1. /\ pc[s] = "block" /\ Only(s) /\ UNCHANGED World /\ todo' = todo /\ todo[s] = {}
      /\ pc'[s] = "gate" \/ (pc'[s] = "admit" /\ ~Blocked)
  BY NothingToJudge
     DEF QueueTypes, CheckBlocker, At, Goto, PutDown, Take, Only, World, db, files, processes, history
<1>2. CASE pc'[s] = "gate"
  BY <1>1, <1>2, EmptyHanded
<1>3. CASE pc'[s] = "admit" /\ ~Blocked
  <2>1. Running' = {}
    BY <1>1, <1>3 DEF Blocked, Running, World
  <2> QED
    BY <1>1, <1>3, <2>1, MoveCore DEF Places, Judging, Grounded, Admitting
<1> QED
  BY <1>1, <1>2, <1>3

\* A start that fails leaves the request as the admission found it.
LEMMA StartRaisesStep ==
  ASSUME QueueTypes, QueueCore, NEW s \in Supervisors, StartRaises(s)
  PROVE  QueueCore'
<1>1. /\ pc[s] = "start" /\ pc'[s] = "undo" /\ Only(s) /\ UNCHANGED World
      /\ todo' = todo /\ todo[s] = {} /\ cur'[s] = cur[s] /\ verdict'[s] \in {"queued", "abandoned"}
  BY NothingToJudge
     DEF QueueTypes, StartRaises, At, Goto, Take, Only, World, db, files, processes, history
<1>2. Admitting(s)
  BY DEF QueueCore
<1>3. Places(s)'
  BY <1>1, <1>2 DEF Places, Judging, Grounded, Admitting, Unworked, World
<1> QED
  BY <1>1, <1>3, MoveCore

\* The steps that leave nothing in hand and change nothing else.
LEMMA IdleStep ==
  ASSUME QueueTypes, QueueCore, NEW s \in Supervisors,
         \/ HoldLease(s) \/ ReadHead(s) \/ TickRaises(s) \/ StartWatch(s) \/ Boot(s)
  PROVE  QueueCore'
<1>1. CASE HoldLease(s)
  <2>1. /\ pc[s] \in {"idle", "gate"} /\ pc'[s] \in {"scan", "gate"} /\ todo' = todo
        /\ Only(s) /\ UNCHANGED World
    BY <1>1 DEF QueueTypes, HoldLease, BetweenTicks, Goto, Only, World, db, files, processes, history
  <2> QED
    BY <2>1, NothingToJudge, EmptyHanded
<1>2. CASE ReadHead(s)
  <2>1. /\ pc[s] = "head" /\ pc'[s] \in {"block", "gate"} /\ todo' = todo
        /\ Only(s) /\ UNCHANGED World
    BY <1>2 DEF QueueTypes, ReadHead, At, Take, Goto, Only, World, db, files, processes, history
  <2> QED
    BY <2>1, NothingToJudge, EmptyHanded
<1>3. CASE TickRaises(s)
  <2>1. pc'[s] = "gate" /\ todo'[s] = {} /\ Only(s) /\ UNCHANGED World
    BY <1>3 DEF QueueTypes, TickRaises, PutDown, Take, Goto, Only, World, db, files, processes, history
  <2> QED
    BY <2>1, EmptyHanded
<1>4. CASE StartWatch(s) \/ Boot(s)
  <2>1. /\ pc[s] \in {"gate", "down"} /\ pc'[s] \in {"watch", "idle"} /\ todo' = todo
        /\ Only(s) /\ UNCHANGED World
    BY <1>4 DEF QueueTypes, StartWatch, Boot, At, Goto, Only, World, db, files, processes, history, memory
  <2> QED
    BY <2>1, NothingToJudge, EmptyHanded
<1> QED
  BY <1>1, <1>2, <1>3, <1>4

-----------------------------------------------------------------------------
(* The supervisors: what a step writes. *)

Processes == <<row, phase, job, parent, code, began, finished>>

\* The request in hand leaves "running": for the queue if its body never began and no
\* process is on it.
LEMMA WrittenBack ==
  ASSUME QueueTypes, QueueCore, TickerHolds, NEW s \in Supervisors, InTick(s),
         cur[s].req \in Requests,
         WriteBack(cur[s].req, verdict[s]), UNCHANGED Processes, Only(s), todo' = todo,
         verdict[s] = "queued" => cur[s].req \notin began /\ Unworked(cur[s].req),
         pc'[s] \in {"judge", "gate"}, pc'[s] = "gate" => todo[s] = {},
         \A c \in todo[s] : c.req # cur[s].req
  PROVE  QueueCore'
<1> DEFINE r == cur[s].req
<1>1. /\ state'[r] \in {"queued", "settled"} /\ (state'[r] = "queued" => verdict[s] = "queued")
      /\ pidOf'[r] = Nobody
      /\ \A q \in Requests : q # r => state'[q] = state[q] /\ pidOf'[q] = pidOf[q]
  BY DEF QueueTypes, WriteBack
<1>2. OneWorker' /\ Progress' /\ RowsTell'
  BY DEF Processes, QueueCore, OneWorker, Progress, RowsTell
<1>3. Unadmitted'
  BY <1>1 DEF Processes, QueueCore, Unadmitted, Unworked
<1>4. Named'
  <2>1. \A w, q : WorkerOf(w, q)' <=> WorkerOf(w, q)
    BY DEF Processes, WorkerOf, Tells
  <2> QED
    BY <1>1, <2>1 DEF QueueCore, Named
<1>5. ASSUME NEW t \in Supervisors PROVE Places(t)'
  <2>1. CASE t # s
    BY <2>1, Alone DEF Only
  <2>2. CASE t = s
    <3>1. \A c \in todo[s] : Current(c)'
      BY <1>1, InHand DEF QueueCore, Judging, Current
    <3>2. Judging(s)'
      BY <3>1 DEF QueueCore, Judging
    <3> QED
      BY <2>2, <3>2 DEF Places, Grounded, Admitting
  <2> QED
    BY <2>1, <2>2
<1> QED
  BY <1>2, <1>3, <1>4, <1>5 DEF QueueCore, Places

LEMMA SaveVerdictStep ==
  ASSUME QueueTypes, QueueCore, TickerHolds, NEW s \in Supervisors, SaveVerdict(s)
  PROVE  QueueCore'
<1>1. /\ pc[s] = "save" /\ pc'[s] = "judge" /\ InTick(s) /\ Only(s) /\ todo' = todo
      /\ UNCHANGED Processes
  BY DEF QueueTypes, SaveVerdict, At, Goto, PutDown, Take, InTick, Only, Processes, files, processes, history
<1>2. /\ cur[s].req \in Requests /\ state[cur[s].req] = "running"
      /\ verdict[s] = "queued" => cur[s].req \notin began /\ Unworked(cur[s].req)
      /\ \A c \in todo[s] : c.req # cur[s].req
  BY <1>1, InHand DEF QueueCore, Judging, Grounded, Current
<1>3. WriteBack(cur[s].req, verdict[s])
  BY <1>2 DEF SaveVerdict, Saves
<1> QED
  BY <1>1, <1>2, <1>3, WrittenBack

LEMMA UndoAdmissionStep ==
  ASSUME QueueTypes, QueueCore, TickerHolds, NEW s \in Supervisors, UndoAdmission(s)
  PROVE  QueueCore'
<1>1. /\ pc[s] = "undo" /\ pc'[s] = "gate" /\ InTick(s) /\ Only(s) /\ todo' = todo /\ todo[s] = {}
      /\ UNCHANGED Processes
  BY NothingToJudge
     DEF QueueTypes, UndoAdmission, At, Goto, PutDown, Take, InTick, Only, Processes, files, processes, history
<1>2. /\ cur[s].req \in Requests /\ state[cur[s].req] = "running"
      /\ cur[s].req \notin began /\ Unworked(cur[s].req)
  BY <1>1, InHand DEF QueueCore, Admitting
<1>3. WriteBack(cur[s].req, verdict[s])
  BY <1>2 DEF UndoAdmission, Saves
<1> QED
  BY <1>1, <1>2, <1>3, WrittenBack

\* The admission: nothing was running, and the head of the queue has no process.
LEMMA SaveAdmissionStep ==
  ASSUME QueueTypes, QueueCore, TickerHolds, NEW s \in Supervisors, SaveAdmission(s)
  PROVE  QueueCore'
<1> DEFINE r == cur[s].req
<1>1. /\ pc[s] = "admit" /\ InTick(s) /\ Only(s) /\ todo' = todo /\ todo[s] = {}
      /\ UNCHANGED Processes /\ r \in Requests
  BY NothingToJudge, InHand
     DEF QueueTypes, SaveAdmission, At, Goto, PutDown, Take, InTick, Only, Processes, files, processes, history
<1>2. CASE ~Saves(s, "queued")
  <2>1. pc'[s] = "gate" /\ UNCHANGED World
    BY <1>1, <1>2 DEF QueueTypes, SaveAdmission, Goto, World, Processes, db
  <2> QED
    BY <1>1, <2>1, EmptyHanded
<1>3. CASE Saves(s, "queued")
  <2>1. /\ state[r] = "queued" /\ state'[r] = "running" /\ pidOf'[r] = Nobody /\ pc'[s] = "start"
        /\ cur'[s] = cur[s]
        /\ \A q \in Requests : q # r => state'[q] = state[q] /\ pidOf'[q] = pidOf[q]
    BY <1>1, <1>3 DEF QueueTypes, SaveAdmission, Saves, Goto
  <2>2. r \notin began /\ Unworked(r)
    BY <1>1, <2>1 DEF QueueCore, Unadmitted
  <2>3. OneWorker' /\ Progress' /\ RowsTell'
    BY <1>1 DEF Processes, QueueCore, OneWorker, Progress, RowsTell
  <2>4. Unadmitted'
    BY <1>1, <2>1 DEF Processes, QueueCore, Unadmitted, Unworked
  <2>5. Named'
    <3>1. \A w, q : WorkerOf(w, q)' <=> WorkerOf(w, q)
      BY <1>1 DEF Processes, WorkerOf, Tells
    <3> QED
      BY <2>1, <3>1 DEF QueueCore, Named
  <2>6. Places(s)'
    BY <1>1, <2>1, <2>2 DEF Places, Judging, Grounded, Admitting, Unworked, Processes
  <2>7. ASSUME NEW t \in Supervisors PROVE Places(t)'
    BY <1>1, <2>6, Alone DEF Only
  <2> QED
    BY <2>3, <2>4, <2>5, <2>7 DEF QueueCore, Places
<1> QED
  BY <1>2, <1>3

\* The pid that is recorded is that of the process started for the request.
LEMMA RecordWorkerStep ==
  ASSUME QueueTypes, QueueCore, TickerHolds, NEW s \in Supervisors, RecordWorker(s)
  PROVE  QueueCore'
<1> DEFINE r == cur[s].req
<1>1. /\ pc[s] = "record" /\ InTick(s) /\ Only(s) /\ todo' = todo /\ todo[s] = {}
      /\ UNCHANGED Processes /\ r \in Requests /\ pc'[s] = "gate" /\ state' = state
  BY NothingToJudge, InHand
     DEF QueueTypes, RecordWorker, At, Goto, PutDown, Take, InTick, Only, Processes, files, processes, history
<1>2. state[r] = "running" /\ WorkerOf(cur[s].pid, r)
  BY <1>1 DEF QueueCore, Admitting
<1>3. pidOf' = [pidOf EXCEPT ![r] = cur[s].pid]
  BY <1>2 DEF RecordWorker, Saves
<1>4. OneWorker' /\ Progress' /\ RowsTell' /\ Unadmitted'
  BY <1>1 DEF Processes, QueueCore, OneWorker, Progress, RowsTell, Unadmitted, Unworked
<1>5. Named'
  <2>1. \A w, q : WorkerOf(w, q)' <=> WorkerOf(w, q)
    BY <1>1 DEF Processes, WorkerOf, Tells
  <2> QED
    BY <1>1, <1>2, <1>3, <2>1 DEF QueueTypes, QueueCore, Named
<1>6. ASSUME NEW t \in Supervisors PROVE Places(t)'
  BY <1>1, Alone, OutOfTick DEF Only
<1> QED
  BY <1>4, <1>5, <1>6 DEF QueueCore, Places

\* An ask, by whomever: a request that nobody is on.
LEMMA InsertCore ==
  ASSUME QueueTypes, QueueCore, NEW r \in Requests, Insert(r), UNCHANGED Processes
  PROVE  Onward /\ OneWorker' /\ Progress' /\ RowsTell'
<1>1. /\ state[r] = "unasked" /\ state'[r] = "queued" /\ pidOf' = pidOf
      /\ \A q \in Requests : q # r => state'[q] = state[q]
  BY DEF QueueTypes, Insert
<1>2. Onward
  BY <1>1 DEF Onward, Processes, Unworked, WorkerOf, Tells
<1> QED
  BY <1>2 DEF Processes, QueueCore, OneWorker, Progress, RowsTell

LEMMA EndWatchStep ==
  ASSUME QueueTypes, QueueCore, NEW s \in Supervisors, EndWatch(s)
  PROVE  QueueCore'
<1>1. /\ pc[s] = "watch" /\ pc'[s] = "idle" /\ Only(s) /\ todo' = todo /\ todo[s] = {}
      /\ UNCHANGED Processes
  BY NothingToJudge
     DEF QueueTypes, EndWatch, At, Goto, Only, Processes, files, processes, history, memory
<1>2. CASE UNCHANGED db
  BY <1>1, <1>2, EmptyHanded DEF World, Processes, db
<1>3. ASSUME NEW r \in Requests, Insert(r) PROVE QueueCore'
  BY <1>1, <1>3, InsertCore, OutOfTick, StepCore
<1> QED
  BY <1>2, <1>3 DEF EndWatch

-----------------------------------------------------------------------------
(* The supervisors: what a step does to the processes. *)

\* A worker is started, under a pid nothing names, on a request that has none.
LEMMA StartWorkerStep ==
  ASSUME QueueTypes, QueueCore, TickerHolds, NEW s \in Supervisors, StartWorker(s)
  PROVE  QueueCore'
<1> DEFINE r == cur[s].req
<1>1. PICK w \in Workers :
        /\ Spare(w) /\ phase' = [phase EXCEPT ![w] = "starting"]
        /\ job' = [job EXCEPT ![w] = r] /\ parent' = [parent EXCEPT ![w] = s]
        /\ Take(s, [cur[s] EXCEPT !.pid = w], "none")
  BY DEF StartWorker
<1>2. /\ pc[s] = "start" /\ pc'[s] = "record" /\ InTick(s) /\ todo' = todo /\ todo[s] = {}
      /\ cur[s] \in Copy /\ r \in Requests
      /\ UNCHANGED <<state, pidOf, row, code, began, finished>>
  BY NothingToJudge, InHand DEF QueueTypes, StartWorker, At, Goto, InTick, files, db, history
<1>3. Only(s) /\ cur'[s].req = r /\ cur'[s].pid = w
  BY <1>1, <1>2 DEF QueueTypes, StartWorker, Goto, Take, Only, Copy
<1>4. /\ job[w] = 0 /\ job'[w] = r /\ phase'[w] = "starting"
      /\ \A q \in Requests : pidOf[q] # w
      /\ \A v \in Workers : v # w => job'[v] = job[v] /\ phase'[v] = phase[v] /\ parent'[v] = parent[v]
  BY <1>1 DEF QueueTypes, QueueCore, OneWorker, Spare, Alive
<1>5. /\ state[r] = "running" /\ pidOf[r] = Nobody /\ r \notin began /\ Unworked(r) /\ r # 0
  BY <1>2, SupervisorAssumption DEF QueueCore, Admitting
<1>6. OneWorker'
  BY <1>4, <1>5 DEF QueueCore, OneWorker, Unworked
<1>7. Progress' /\ RowsTell'
  BY <1>2, <1>4, <1>5 DEF QueueCore, Progress, RowsTell
<1>8. Unadmitted'
  BY <1>2, <1>4, <1>5 DEF QueueCore, Unadmitted, Unworked
<1>9. Named'
  <2>1. ASSUME NEW q \in Requests, pidOf[q] # Nobody PROVE WorkerOf(pidOf[q], q)'
    BY <1>2, <1>4, <1>5, <2>1 DEF QueueCore, Named, WorkerOf, Tells
  <2> QED
    BY <1>2, <2>1 DEF QueueCore, Named
<1>10. WorkerOf(w, r)'
  BY <1>3, <1>4, <1>5 DEF WorkerOf, Unworked, Tells
<1>11. Places(s)'
  BY <1>2, <1>3, <1>5, <1>10 DEF Places, Judging, Grounded, Admitting
<1>12. ASSUME NEW t \in Supervisors PROVE Places(t)'
  BY <1>2, <1>3, <1>11, Alone DEF Only
<1> QED
  BY <1>6, <1>7, <1>8, <1>9, <1>12 DEF QueueCore, Places

\* Children are reaped or orphaned: an exit code that is lost says nothing any more.
LEMMA DisownCore ==
  ASSUME QueueTypes, QueueCore, NEW ws, Disown(ws),
         UNCHANGED <<state, pidOf, row, job, began, finished>>
  PROVE  Onward /\ OneWorker' /\ Progress' /\ RowsTell'
<1>1. \A w \in Workers :
        /\ parent'[w] # Nobody => parent'[w] = parent[w] /\ code'[w] = code[w]
        /\ phase'[w] = phase[w] \/ (phase[w] = "zombie" /\ phase'[w] = "gone")
  BY DEF Disown
<1>2. OneWorker' /\ Progress' /\ RowsTell'
  BY <1>1 DEF QueueCore, OneWorker, Progress, RowsTell
<1>3. ASSUME NEW r \in Requests, NEW v \in Workers, WorkerOf(v, r) PROVE WorkerOf(v, r)'
  BY <1>1, <1>3 DEF WorkerOf, Tells
<1>4. Onward
  BY <1>3 DEF Onward, Unworked
<1> QED
  BY <1>2, <1>4

LEMMA LeaveStep ==
  ASSUME QueueTypes, QueueCore, NEW s \in Supervisors, Stop(s) \/ Crash(s) \/ Reap(s)
  PROVE  QueueCore'
<1>1. /\ pc'[s] \in {"down", "head"} /\ todo'[s] = {} /\ Only(s)
      /\ UNCHANGED <<state, pidOf, row, job, began, finished>>
  BY DEF QueueTypes, Stop, Crash, Reap, At, Goto, Forget, PutDown, Take, Only, db, files, history
<1>2. \E ws : Disown(ws)
  BY DEF Stop, Crash, Reap, Orphan
<1> QED
  BY <1>1, <1>2, DisownCore, OutOfTick, StepCore

\* The exit code of the request's own process is what the verdict rests on.
LEMMA JudgeExitStep ==
  ASSUME QueueTypes, QueueCore, TickerHolds, NEW s \in Supervisors, JudgeExit(s)
  PROVE  QueueCore'
<1>1. PICK c \in todo[s] :
        /\ HasExited(s, c.pid)
        /\ Take(s, c, IF code[c.pid] = LostLockExit THEN "queued" ELSE SettlementOf(code[c.pid]))
        /\ todo' = [todo EXCEPT ![s] = @ \ {c}]
        /\ phase' = [phase EXCEPT ![c.pid] = "gone"]
  BY DEF JudgeExit
<1>2. /\ pc[s] = "judge" /\ pc'[s] = "save" /\ InTick(s) /\ Only(s)
      /\ UNCHANGED <<state, pidOf, row, job, parent, code, began, finished>>
      /\ cur'[s] = c /\ todo'[s] = todo[s] \ {c}
      /\ verdict'[s] = IF code[c.pid] = LostLockExit THEN "queued" ELSE SettlementOf(code[c.pid])
  BY <1>1 DEF QueueTypes, JudgeExit, At, Goto, Take, InTick, Only, db, files, history
<1>3. /\ Current(c) /\ c.req \in Requests /\ c.pid \in Workers
      /\ \A d \in todo[s] : Current(d) /\ (d.req = c.req => d = c)
      /\ \A d \in todo[s], e \in todo[s] : d.req = e.req => d = e
  BY <1>1, InHand DEF QueueCore, Judging, HasExited, Pids
<1>4. /\ phase[c.pid] \in {"zombie", "gone"} /\ phase'[c.pid] = "gone"
      /\ \A v \in Workers : v # c.pid => phase'[v] = phase[v]
      /\ parent[c.pid] # Nobody /\ pidOf[c.req] = c.pid /\ c.pid # Nobody
  BY <1>1, <1>3, SupervisorAssumption DEF QueueTypes, HasExited, Current
<1>5. Unworked(c.req) /\ Tells(c.pid, c.req)
  BY <1>3, <1>4, EndedUnworked DEF WorkerOf
<1>6. OneWorker' /\ Progress' /\ RowsTell'
  BY <1>2, <1>4 DEF QueueCore, OneWorker, Progress, RowsTell
<1>7. Onward
  <2>1. ASSUME NEW r \in Requests, NEW v \in Workers, WorkerOf(v, r) PROVE WorkerOf(v, r)'
    BY <1>2, <1>4, <2>1 DEF WorkerOf, Tells
  <2> QED
    BY <1>2, <2>1 DEF Onward, Unworked
<1>8. Judging(s)'
  BY <1>2, <1>3 DEF Judging, Current
<1>9. Grounded(s)'
  <2>1. verdict'[s] = "queued" => c.req \notin began
    BY <1>2, <1>4, <1>5 DEF Tells, SettlementOf
  <2>2. verdict'[s] # "abandoned" /\ (verdict'[s] = "success" => c.req \in finished)
    BY <1>2, <1>4, <1>5 DEF Tells, SettlementOf
  <2> QED
    BY <1>2, <1>5, <2>1, <2>2 DEF Grounded, Unworked
<1>10. Places(s)'
  BY <1>2, <1>8, <1>9 DEF Places, Admitting
<1> QED
  BY <1>2, <1>6, <1>7, <1>10, StepCore

-----------------------------------------------------------------------------
(* Every step. *)

\* What is around the ticks and the workers' progress touches none of this.
LEMMA ElsewhereStep ==
  ASSUME QueueTypes, QueueCore, UNCHANGED <<World, pc, todo, cur, verdict>>
  PROVE  QueueCore'
<1>1. Onward
  BY DEF World, Onward, Unworked, WorkerOf, Tells
<1>2. OneWorker' /\ Progress' /\ RowsTell'
  BY DEF World, QueueCore, OneWorker, Progress, RowsTell
<1> QED
  BY <1>1, <1>2, OnwardCore

LEMMA SupervisorCore ==
  ASSUME QueueTypes, QueueCore, TickerHolds, NEW s \in Supervisors, SupervisorStep(s)
  PROVE  QueueCore'
<1>1. CASE HoldLease(s) \/ ReadHead(s) \/ TickRaises(s) \/ StartWatch(s) \/ Boot(s)
  BY <1>1, IdleStep
<1>2. CASE ReadRunning(s)
  BY <1>2, ReadRunningStep
<1>3. CASE JudgeExit(s)
  BY <1>3, JudgeExitStep
<1>4. CASE JudgeSilent(s)
  BY <1>4, JudgeSilentStep
<1>5. CASE ReadRow(s) \/ RowUnreadable(s)
  BY <1>5, ReadRowStep
<1>6. CASE SaveVerdict(s)
  BY <1>6, SaveVerdictStep
<1>7. CASE CheckBlocker(s)
  BY <1>7, CheckBlockerStep
<1>8. CASE SaveAdmission(s)
  BY <1>8, SaveAdmissionStep
<1>9. CASE StartWorker(s)
  BY <1>9, StartWorkerStep
<1>10. CASE RecordWorker(s)
  BY <1>10, RecordWorkerStep
<1>11. CASE UndoAdmission(s)
  BY <1>11, UndoAdmissionStep
<1>12. CASE EndWatch(s)
  BY <1>12, EndWatchStep
<1>13. CASE StartRaises(s)
  BY <1>13, StartRaisesStep
<1>14. CASE Stop(s) \/ Crash(s) \/ Reap(s)
  BY <1>14, LeaveStep
<1>15. CASE KeepLease(s)
  BY <1>15, ElsewhereStep DEF KeepLease, World, db, files, memory, processes, history
<1> QED
  BY <1>1, <1>2, <1>3, <1>4, <1>5, <1>6, <1>7, <1>8, <1>9, <1>10, <1>11, <1>12, <1>13, <1>14, <1>15
     DEF SupervisorStep, Tick

LEMMA CoreStep ==
  ASSUME QueueTypes, QueueCore, TickerHolds, [PunctualNext]_vars
  PROVE  QueueCore'
<1> USE DEF World, db, lease, files, memory, processes, history
<1>1. ASSUME NEW s \in Supervisors, SupervisorStep(s) PROVE QueueCore'
  BY <1>1, SupervisorCore
<1>2. ASSUME NEW w \in Workers, WorkerStep(w) PROVE QueueCore'
  BY <1>2, WorkerCore
<1>3. ASSUME NEW r \in Requests, Ask(r) PROVE QueueCore'
  BY <1>3, InsertCore, OnwardCore DEF Ask, Processes
<1>4. ASSUME NEW r \in Requests, GoesSilent(r) \/ MissesBeats(r) PROVE QueueCore'
  BY <1>4, ElsewhereStep DEF GoesSilent, MissesBeats, GoesStale
<1>5. CASE Around
  BY <1>5, ElsewhereStep DEF Around, ForeignTakes, ForeignReleases, Pause, Resume, Lapse
<1>6. CASE UNCHANGED vars
  BY <1>6, ElsewhereStep DEF vars
<1> QED
  BY <1>1, <1>2, <1>3, <1>4, <1>5, <1>6 DEF PunctualNext

\* While no lock file is taken from a living worker, a worker past the lock holds it.
NoneRobbed == LockOfBody /\ robbed = {}

LEMMA NoneRobbedStep ==
  ASSUME phase \in [Workers -> Phases], NoneRobbed, [PunctualNext]_vars
  PROVE  NoneRobbed'
<1> USE DEF NoneRobbed, files, theft
<1>1. LockOfBody'
  BY LockOfBodyStep DEF Next
<1>2. ASSUME NEW s \in Supervisors, SupervisorStep(s) PROVE robbed' = {}
  BY <1>2 DEF SupervisorStep, Tick, HoldLease, ReadRunning, JudgeExit, JudgeSilent, ReadRow, SaveVerdict,
     Reap, ReadHead, CheckBlocker, SaveAdmission, StartWorker, RecordWorker, UndoAdmission, EndWatch, Boot,
     RowUnreadable, StartRaises, TickRaises, StartWatch, KeepLease, Stop, Crash
<1>3. ASSUME NEW w \in Workers, WorkerStep(w) PROVE robbed' = {}
  <2>1. CASE ReleaseAndExit(w)
    <3>1. lock = w
      BY <2>1 DEF ReleaseAndExit, LockOfBody, Beating
    <3> QED
      BY <2>1, <3>1 DEF ReleaseAndExit, Robbed
  <2>2. CASE WorkerFails(w) \/ TakeLock(w)
    BY <2>2 DEF WorkerFails, TakeLock, MakesFile
  <2> QED
    BY <1>3, <2>1, <2>2 DEF WorkerStep, WorkerRuns, CheckRequest, BeginBody, EndBody, Beat, BodyRefused,
       EndUnrecorded, WorkerKilled
<1>4. ASSUME NEW r \in Requests, Ask(r) \/ GoesSilent(r) \/ MissesBeats(r) PROVE robbed' = {}
  BY <1>4 DEF Ask, GoesSilent, MissesBeats, GoesStale
<1>5. ASSUME Around \/ UNCHANGED vars PROVE robbed' = {}
  BY <1>5 DEF Around, ForeignTakes, ForeignReleases, Pause, Resume, Lapse, vars
<1> QED
  BY <1>1, <1>2, <1>3, <1>4, <1>5 DEF PunctualNext

QueueInv == SupType /\ TickerHolds /\ NoneRobbed /\ QueueCore

LEMMA QueueInvStep == QueueInv /\ [PunctualNext]_vars => QueueInv'
<1> SUFFICES ASSUME QueueInv, [PunctualNext]_vars PROVE QueueInv'
  OBVIOUS
<1>1. QueueTypes /\ SupType /\ TickerHolds /\ NoneRobbed /\ QueueCore
  BY Typed DEF QueueInv
<1>2. [Next]_vars
  BY DEF Next
<1>3. SupType'
  BY <1>1, <1>2, SupTypeStep
<1>4. TickerHolds'
  BY <1>1, TickerHoldsStep DEF QueueTypes
<1>5. NoneRobbed'
  BY <1>1, NoneRobbedStep DEF QueueTypes
<1>6. QueueCore'
  BY <1>1, CoreStep
<1> QED
  BY <1>3, <1>4, <1>5, <1>6 DEF QueueInv

THEOREM QueueInductive == PunctualSpec => []QueueInv
<1>1. Init => QueueInv
  BY SupTypeInit, InitCore DEF Init, TickerHolds, InTick, NoneRobbed, LockOfBody, Beating, QueueInv
<1> QED
  BY <1>1, QueueInvStep, PTL DEF PunctualSpec

\* Never a worker on a queued request: while each admission tick fits in its lease and each
\* body has its row, whoever crashed, was killed or was restarted.
THEOREM QueuedIsUnworked == PunctualSpec => []NoWorkerOnQueued
<1>1. QueueInv => NoWorkerOnQueued
  <2> SUFFICES ASSUME QueueInv, NEW w \in Workers, Alive(w), phase[w] # "zombie"
               PROVE  state[job[w]] \in {"running", "settled"}
    BY DEF NoWorkerOnQueued
  <2>1. job[w] \in Requests
    BY Typed, OnRequest DEF QueueInv, Alive
  <2>2. state[job[w]] \notin {"unasked", "queued"}
    BY <2>1 DEF QueueInv, QueueCore, Unadmitted, Unworked
  <2> QED
    BY <2>1, <2>2, Typed DEF QueueInv, QueueTypes
<1> QED
  BY <1>1, QueueInductive, PTL

-----------------------------------------------------------------------------
(* The refinement: every step is one of RunQueue's, or none. *)

LEMMA MapsInit == Init => Queue!Init
BY DEF Init, Queue!Init, executing

\* Said of a settled request only.
Unsaid == \A r \in Requests : state[r] # "settled" => settlement[r] = "none"

\* A request abandoned has no process.
Abandoned == \A r \in Requests : settlement[r] = "abandoned" => Unworked(r)

RefineInv ==
  /\ QueueTypes /\ settlement \in [Requests -> Settlements \union {"none"}]
  /\ VerdictReached /\ TickerHolds /\ NoneRobbed /\ QueueCore /\ Unsaid /\ Abandoned

\* One body executes at most, that of the holder of the lock.
LEMMA OneBody ==
  ASSUME NoneRobbed
  PROVE  /\ \A w \in Workers : phase[w] = "body" => executing = {job[w]}
         /\ \A w \in Workers : Beating(w) /\ phase[w] # "body" => executing = {}
<1>1. \A v, w \in Workers : Beating(v) /\ Beating(w) => v = w
  BY DEF NoneRobbed, LockOfBody
<1>2. \A w \in Workers : phase[w] = "body" => Beating(w)
  BY DEF Beating
<1> QED
  BY <1>1, <1>2 DEF executing

\* What the queue is told by a step that begins and ends no body.
SameBodies ==
  \A w \in Workers :
    /\ phase'[w] = "body" <=> phase[w] = "body"
    /\ phase[w] = "body" => job'[w] = job[w]

LEMMA SameExecuting == SameBodies => executing' = executing
BY DEF SameBodies, executing

LEMMA Unseen ==
  ASSUME SameBodies, UNCHANGED <<state, settlement, began, finished>>
  PROVE  UNCHANGED Queue!vars
BY SameExecuting DEF Queue!vars

\* A queue step of one request is a step of the queue.
LEMMA QueueMoves ==
  ASSUME NEW r \in Requests,
         \/ Queue!Ask(r) \/ Queue!Admit(r) \/ Queue!BackToQueue(r) \/ Queue!Begin(r) \/ Queue!End(r)
         \/ \E how \in Queue!Settlements : Queue!Settle(r, how)
  PROVE  Queue!Next
BY DEF Queue!Next

LEMMA InsertMaps ==
  ASSUME NEW r \in Requests, Insert(r), UNCHANGED <<processes, history>>
  PROVE  Queue!Next
<1>1. SameBodies
  BY DEF SameBodies, processes
<1>2. Queue!Ask(r)
  BY <1>1, SameExecuting DEF Insert, Queue!Ask, history
<1> QED
  BY <1>2, QueueMoves

\* A request leaves "running" for the queue or for good.
LEMMA WriteBackMaps ==
  ASSUME RefineInv, NEW r \in Requests, NEW how \in Settlements \union {"queued"},
         state[r] = "running", WriteBack(r, how), UNCHANGED <<processes, history>>,
         how \in {"queued", "abandoned"} => r \notin began,
         how = "success" => r \in finished
  PROVE  Queue!Next
<1>1. executing' = executing /\ began' = began /\ finished' = finished
  BY SameExecuting DEF SameBodies, processes, history
<1>2. CASE how = "queued"
  <2>1. settlement' = settlement /\ state' = [state EXCEPT ![r] = "queued"]
    BY <1>2 DEF RefineInv, Unsaid, WriteBack
  <2>2. Queue!BackToQueue(r)
    BY <1>1, <1>2, <2>1 DEF Queue!BackToQueue
  <2> QED
    BY <2>2, QueueMoves
<1>3. CASE how # "queued"
  <2>1. Queue!Settle(r, how)
    BY <1>1, <1>3 DEF WriteBack, Queue!Settle
  <2>2. how \in Queue!Settlements
    BY <1>3 DEF Settlements, Queue!Settlements
  <2> QED
    BY <2>1, <2>2, QueueMoves
<1> QED
  BY <1>2, <1>3

LEMMA SaveVerdictMaps ==
  ASSUME RefineInv, NEW s \in Supervisors, SaveVerdict(s)
  PROVE  Queue!Next
<1>1. pc[s] = "save" /\ UNCHANGED <<processes, history>>
  BY DEF SaveVerdict, At
<1>2. /\ cur[s].req \in Requests /\ state[cur[s].req] = "running"
      /\ verdict[s] = "queued" => cur[s].req \notin began
      /\ verdict[s] = "success" => cur[s].req \in finished
      /\ verdict[s] # "abandoned"
  BY <1>1, InHand DEF RefineInv, QueueCore, Judging, Grounded, Current
<1>3. WriteBack(cur[s].req, verdict[s])
  BY <1>2 DEF SaveVerdict, Saves
<1>4. verdict[s] \in Settlements \union {"queued"}
  BY <1>1 DEF RefineInv, VerdictReached
<1> QED
  BY <1>1, <1>2, <1>3, <1>4, WriteBackMaps

LEMMA UndoAdmissionMaps ==
  ASSUME RefineInv, NEW s \in Supervisors, UndoAdmission(s)
  PROVE  Queue!Next
<1>1. pc[s] = "undo" /\ UNCHANGED <<processes, history>>
  BY DEF UndoAdmission, At
<1>2. /\ cur[s].req \in Requests /\ state[cur[s].req] = "running" /\ cur[s].req \notin began
      /\ verdict[s] \in {"queued", "abandoned"}
  BY <1>1, InHand DEF RefineInv, QueueCore, Admitting
<1>3. WriteBack(cur[s].req, verdict[s])
  BY <1>2 DEF UndoAdmission, Saves
<1>4. verdict[s] \in Settlements \union {"queued"}
  BY <1>1 DEF RefineInv, VerdictReached
<1> QED
  BY <1>1, <1>2, <1>3, <1>4, WriteBackMaps

LEMMA SaveAdmissionMaps ==
  ASSUME RefineInv, NEW s \in Supervisors, SaveAdmission(s)
  PROVE  [Queue!Next]_(Queue!vars)
<1> DEFINE r == cur[s].req
<1>1. pc[s] = "admit" /\ UNCHANGED <<processes, history>> /\ settlement' = settlement
  BY DEF SaveAdmission, At, db
<1>2. SameBodies
  BY <1>1 DEF SameBodies, processes
<1>3. CASE ~Saves(s, "queued")
  BY <1>1, <1>2, <1>3, Unseen DEF SaveAdmission, db, history
<1>4. CASE Saves(s, "queued")
  <2>1. r \in Requests /\ Running = {}
    BY <1>1, InHand DEF RefineInv, QueueCore, Admitting
  <2>2. state[r] = "queued" /\ state' = [state EXCEPT ![r] = "running"]
    BY <1>4 DEF SaveAdmission, Saves
  <2>3. Queue!Admit(r)
    BY <1>1, <1>2, <2>1, <2>2, SameExecuting DEF Queue!Admit, Running, history
  <2> QED
    BY <2>1, <2>3, QueueMoves
<1> QED
  BY <1>3, <1>4

\* The body that begins is of a request admitted, of which none had begun, with the lock.
LEMMA BeginBodyMaps ==
  ASSUME RefineInv, NEW w \in Workers, BeginBody(w)
  PROVE  Queue!Next
<1> DEFINE r == job[w]
<1>1. /\ phase[w] = "locked" /\ phase'[w] = "body" /\ \A v \in Workers : v # w => phase'[v] = phase[v]
      /\ began' = began \union {r} /\ UNCHANGED <<state, settlement, job, finished>>
  BY DEF RefineInv, QueueTypes, BeginBody, Enter, db
<1>2. r \in Requests /\ r \notin began
  BY <1>1, OnRequest DEF RefineInv, QueueCore, Progress
<1>3. state[r] \in {"running", "settled"} /\ settlement[r] # "abandoned"
  BY <1>2 DEF RefineInv, QueueTypes, QueueCore, Unadmitted, Abandoned, Unworked
<1>4. executing = {} /\ \A v \in Workers : phase[v] # "body"
  BY <1>1, OneBody DEF RefineInv, Beating, executing
<1>5. executing' = {r}
  BY <1>1, <1>4 DEF executing
<1>6. Queue!Begin(r)
  BY <1>1, <1>2, <1>3, <1>4, <1>5 DEF Queue!Begin
<1> QED
  BY <1>2, <1>6, QueueMoves

\* A body that ends, by itself or under a signal, is the one that executes.
LEMMA EndBodyMaps ==
  ASSUME RefineInv, NEW w \in Workers, phase[w] = "body", phase'[w] # "body",
         \A v \in Workers : v # w => phase'[v] = phase[v],
         finished' \in {finished, finished \union {job[w]}},
         UNCHANGED <<state, settlement, began>>
  PROVE  Queue!Next
<1>1. job[w] \in Requests
  BY OnRequest DEF RefineInv
<1>2. executing = {job[w]}
  BY OneBody DEF RefineInv
<1>3. \A v \in Workers : phase[v] = "body" => v = w
  BY DEF RefineInv, NoneRobbed, LockOfBody, Beating
<1>4. executing' = {}
  BY <1>3 DEF executing
<1>5. Queue!End(job[w])
  BY <1>2, <1>4 DEF Queue!End
<1> QED
  BY <1>1, <1>5, QueueMoves

LEMMA WorkerMaps ==
  ASSUME RefineInv, NEW w \in Workers, WorkerStep(w)
  PROVE  [Queue!Next]_(Queue!vars)
<1> DEFINE Same == UNCHANGED <<state, settlement, began, finished>>
<1>0. phase \in [Workers -> Phases] /\ job \in [Workers -> Requests \union {0}]
  BY DEF RefineInv, QueueTypes
<1>1. CASE CheckRequest(w) \/ WorkerFails(w) \/ TakeLock(w) \/ ReleaseAndExit(w) \/ BodyRefused(w)
  <2>1. Same /\ phase[w] # "body" /\ phase'[w] # "body" /\ \A v \in Workers : v # w =>
          phase'[v] = phase[v] /\ job'[v] = job[v]
    BY <1>0, <1>1 DEF CheckRequest, WorkerFails, TakeLock, ReleaseAndExit, BodyRefused, Enter, Ends,
         db, history
  <2> QED
    BY <2>1, Unseen DEF SameBodies
<1>2. CASE Beat(w)
  BY <1>2, Unseen DEF Beat, SameBodies, processes, history
<1>3. CASE BeginBody(w)
  BY <1>3, BeginBodyMaps
<1>4. CASE EndBody(w) \/ EndUnrecorded(w)
  <2>1. /\ phase[w] = "body" /\ phase'[w] = "ending" /\ \A v \in Workers : v # w => phase'[v] = phase[v]
        /\ finished' = finished \union {job[w]} /\ UNCHANGED <<state, settlement, began>>
    BY <1>0, <1>4 DEF EndBody, EndUnrecorded, Enter, db
  <2> QED
    BY <2>1, EndBodyMaps
<1>5. CASE WorkerKilled(w)
  <2>1. /\ Same /\ phase'[w] \in {"zombie", "gone"}
        /\ \A v \in Workers : v # w => phase'[v] = phase[v] /\ job'[v] = job[v]
    BY <1>0, <1>5 DEF WorkerKilled, Ends, db, history
  <2>2. CASE phase[w] = "body"
    BY <2>1, <2>2, EndBodyMaps
  <2>3. CASE phase[w] # "body"
    BY <2>1, <2>3, Unseen DEF SameBodies
  <2> QED
    BY <2>2, <2>3
<1> QED
  BY <1>1, <1>2, <1>3, <1>4, <1>5 DEF WorkerStep, WorkerRuns

\* Reaping and orphaning are of processes whose body is over, or goes on without a parent.
LEMMA DisownSame ==
  ASSUME NEW ws, Disown(ws), job' = job
  PROVE  SameBodies
BY DEF Disown, SameBodies

LEMMA SupervisorMaps ==
  ASSUME RefineInv, NEW s \in Supervisors, SupervisorStep(s)
  PROVE  [Queue!Next]_(Queue!vars)
<1> DEFINE Same == UNCHANGED <<state, settlement, began, finished>>
<1>1. CASE \/ HoldLease(s) \/ ReadRunning(s) \/ JudgeSilent(s) \/ ReadRow(s) \/ RowUnreadable(s)
           \/ ReadHead(s) \/ CheckBlocker(s) \/ StartRaises(s) \/ TickRaises(s) \/ StartWatch(s)
           \/ KeepLease(s) \/ Boot(s)
  <2>1. Same /\ UNCHANGED processes
    BY <1>1 DEF HoldLease, ReadRunning, JudgeSilent, ReadRow, RowUnreadable, ReadHead, CheckBlocker,
         StartRaises, TickRaises, StartWatch, KeepLease, Boot, db, history
  <2> QED
    BY <2>1, Unseen DEF SameBodies, processes
<1>2. CASE JudgeExit(s)
  <2>1. PICK c \in todo[s] : HasExited(s, c.pid) /\ phase' = [phase EXCEPT ![c.pid] = "gone"]
    BY <1>2 DEF JudgeExit
  <2>2. SameBodies
    BY <1>2, <2>1 DEF RefineInv, QueueTypes, JudgeExit, HasExited, SameBodies
  <2> QED
    BY <1>2, <2>2, Unseen DEF JudgeExit, db, history
<1>3. CASE Stop(s) \/ Crash(s) \/ Reap(s)
  <2>1. Same /\ job' = job /\ \E ws : Disown(ws)
    BY <1>3 DEF Stop, Crash, Reap, Orphan, db, history
  <2> QED
    BY <2>1, DisownSame, Unseen
<1>4. CASE StartWorker(s)
  <2>1. PICK w \in Workers : /\ Spare(w) /\ phase' = [phase EXCEPT ![w] = "starting"]
                             /\ job' = [job EXCEPT ![w] = cur[s].req]
    BY <1>4 DEF StartWorker
  <2>2. SameBodies
    BY <2>1 DEF RefineInv, QueueTypes, Spare, Alive, SameBodies
  <2> QED
    BY <1>4, <2>2, Unseen DEF StartWorker, db, history
<1>5. CASE RecordWorker(s)
  BY <1>5, Unseen DEF RecordWorker, SameBodies, processes, history
<1>6. CASE EndWatch(s)
  <2>1. UNCHANGED <<processes, history>>
    BY <1>6 DEF EndWatch
  <2>2. CASE UNCHANGED db
    BY <2>1, <2>2, Unseen DEF SameBodies, db, processes, history
  <2> QED
    BY <1>6, <2>1, <2>2, InsertMaps DEF EndWatch
<1>7. CASE SaveVerdict(s) \/ UndoAdmission(s) \/ SaveAdmission(s)
  BY <1>7, SaveVerdictMaps, UndoAdmissionMaps, SaveAdmissionMaps
<1> QED
  BY <1>1, <1>2, <1>3, <1>4, <1>5, <1>6, <1>7 DEF SupervisorStep, Tick

\* Only a request whose worker could not be started is abandoned, and nothing starts one
\* for a request that is settled.
LEMMA AbandonedStep == RefineInv /\ [PunctualNext]_vars => Abandoned'
<1> SUFFICES ASSUME RefineInv, [PunctualNext]_vars PROVE Abandoned'
  OBVIOUS
<1> DEFINE Kept == settlement' = settlement /\ \A w \in Workers : job'[w] \in {job[w], 0}
<1>0. Kept => Abandoned'
  BY SupervisorAssumption DEF RefineInv, Abandoned, Unworked
<1>1. ASSUME NEW s \in Supervisors, SupervisorStep(s) PROVE Abandoned'
  <2>1. CASE SaveVerdict(s) \/ UndoAdmission(s)
    <3>1. pc[s] \in {"save", "undo"} /\ job' = job
      BY <2>1 DEF SaveVerdict, UndoAdmission, At, processes
    <3>2. cur[s].req \in Requests /\ (verdict[s] = "abandoned" => Unworked(cur[s].req))
      BY <3>1, InHand DEF RefineInv, QueueCore, Grounded, Admitting
    <3>3. \A r \in Requests :
            settlement'[r] = settlement[r] \/ (r = cur[s].req /\ settlement'[r] \in {"none", verdict[s]})
      BY <2>1, <3>2 DEF RefineInv, SaveVerdict, UndoAdmission, WriteBack, db
    <3> QED
      BY <3>1, <3>2, <3>3 DEF RefineInv, Abandoned, Unworked
  <2>2. CASE StartWorker(s)
    <3>1. pc[s] = "start" /\ settlement' = settlement
      BY <2>2 DEF StartWorker, At, db
    <3>2. PICK w \in Workers : job' = [job EXCEPT ![w] = cur[s].req]
      BY <2>2 DEF StartWorker
    <3>3. cur[s].req \in Requests /\ settlement[cur[s].req] = "none"
      BY <3>1, InHand DEF RefineInv, QueueCore, Admitting, Unsaid
    <3> QED
      BY <3>1, <3>2, <3>3 DEF RefineInv, QueueTypes, Abandoned, Unworked
  <2>3. CASE EndWatch(s) \/ SaveAdmission(s) \/ RecordWorker(s)
    <3>1. settlement' = settlement /\ job' = job
      BY <2>3 DEF EndWatch, SaveAdmission, RecordWorker, Insert, db, processes
    <3> QED
      BY <1>0, <3>1
  <2>4. CASE \/ HoldLease(s) \/ ReadRunning(s) \/ JudgeSilent(s) \/ ReadRow(s) \/ RowUnreadable(s)
             \/ ReadHead(s) \/ CheckBlocker(s) \/ StartRaises(s) \/ TickRaises(s) \/ StartWatch(s)
             \/ KeepLease(s) \/ Boot(s) \/ JudgeExit(s) \/ Stop(s) \/ Crash(s) \/ Reap(s)
    <3>1. settlement' = settlement /\ job' = job
      BY <2>4 DEF HoldLease, ReadRunning, JudgeSilent, ReadRow, RowUnreadable, ReadHead, CheckBlocker,
           StartRaises, TickRaises, StartWatch, KeepLease, Boot, JudgeExit, Stop, Crash, Reap, db, processes
    <3> QED
      BY <1>0, <3>1
  <2> QED
    BY <1>1, <2>1, <2>2, <2>3, <2>4 DEF SupervisorStep, Tick
<1>2. ASSUME NEW w \in Workers, WorkerStep(w) PROVE Abandoned'
  <2>1. settlement' = settlement
    BY <1>2 DEF WorkerStep, WorkerRuns, CheckRequest, WorkerFails, TakeLock, BeginBody, EndBody,
         ReleaseAndExit, Beat, BodyRefused, EndUnrecorded, WorkerKilled, db
  <2>2. job' = job \/ job' = [job EXCEPT ![w] = 0]
    BY <1>2 DEF WorkerStep, WorkerRuns, CheckRequest, WorkerFails, TakeLock, BeginBody, EndBody,
         ReleaseAndExit, Beat, BodyRefused, EndUnrecorded, WorkerKilled, Ends, processes
  <2>3. \A v \in Workers : job'[v] \in {job[v], 0}
    BY <2>2 DEF RefineInv, QueueTypes
  <2> QED
    BY <1>0, <2>1, <2>3
<1>3. ASSUME NEW r \in Requests, Ask(r) \/ GoesSilent(r) \/ MissesBeats(r) PROVE Abandoned'
  <2>1. settlement' = settlement /\ job' = job
    BY <1>3 DEF Ask, Insert, GoesSilent, MissesBeats, GoesStale, processes
  <2> QED
    BY <1>0, <2>1
<1>4. CASE Around \/ UNCHANGED vars
  <2>1. settlement' = settlement /\ job' = job
    BY <1>4 DEF Around, ForeignTakes, ForeignReleases, Pause, Resume, Lapse, vars, db, processes
  <2> QED
    BY <1>0, <2>1
<1> QED
  BY <1>1, <1>2, <1>3, <1>4 DEF PunctualNext

LEMMA MapsStep == RefineInv /\ [PunctualNext]_vars => [Queue!Next]_(Queue!vars)
<1> SUFFICES ASSUME RefineInv, [PunctualNext]_vars PROVE [Queue!Next]_(Queue!vars)
  OBVIOUS
<1>1. ASSUME NEW s \in Supervisors, SupervisorStep(s) PROVE [Queue!Next]_(Queue!vars)
  BY <1>1, SupervisorMaps
<1>2. ASSUME NEW w \in Workers, WorkerStep(w) PROVE [Queue!Next]_(Queue!vars)
  BY <1>2, WorkerMaps
<1>3. ASSUME NEW r \in Requests, Ask(r) PROVE [Queue!Next]_(Queue!vars)
  BY <1>3, InsertMaps DEF Ask
<1>4. ASSUME NEW r \in Requests, GoesSilent(r) \/ MissesBeats(r) PROVE [Queue!Next]_(Queue!vars)
  BY <1>4, Unseen DEF GoesSilent, MissesBeats, GoesStale, SameBodies, processes, history
<1>5. CASE Around
  BY <1>5, Unseen DEF Around, ForeignTakes, ForeignReleases, Pause, Resume, Lapse, SameBodies, db,
       processes, history
<1>6. CASE UNCHANGED vars
  BY <1>6, Unseen DEF vars, SameBodies, db, processes, history
<1> QED
  BY <1>1, <1>2, <1>3, <1>4, <1>5, <1>6 DEF PunctualNext

\* The queue itself settles nothing unsaid, and says nothing unsettled.
LEMMA UnsaidStep ==
  ASSUME state \in [Requests -> {"unasked", "queued", "running", "settled"}],
         settlement \in [Requests -> Settlements \union {"none"}],
         Unsaid, [Queue!Next]_(Queue!vars)
  PROVE  Unsaid'
BY DEF Unsaid, Queue!Next, Queue!vars, Queue!Ask, Queue!Admit, Queue!BackToQueue, Queue!Begin,
     Queue!End, Queue!Settle

LEMMA RefineInductive == PunctualSpec => []RefineInv
<1> DEFINE Words == Unsaid /\ Abandoned
<1>1. QueueInv /\ Words => RefineInv
  BY Typed DEF QueueInv, RefineInv, SupType, TypeOK
<1>2. Init => Words
  BY SupervisorAssumption DEF Init, Unsaid, Abandoned
<1>3. QueueInv /\ Words /\ [PunctualNext]_vars => Words'
  <2> SUFFICES ASSUME QueueInv, Words, [PunctualNext]_vars PROVE Words'
    OBVIOUS
  <2>1. RefineInv
    BY <1>1
  <2>2. Abandoned'
    BY <2>1, AbandonedStep
  <2>3. Unsaid'
    BY <2>1, MapsStep, UnsaidStep DEF RefineInv, QueueTypes
  <2> QED
    BY <2>2, <2>3
<1> QED
  BY <1>1, <1>2, <1>3, QueueInductive, PTL DEF PunctualSpec

\* While every admission tick fits in its lease, every body has its row and no lock file is
\* taken from a living worker, the supervisors, their workers, the lease, the lock and the rows implement the queue of RunQueue: whatever
\* crashes, is killed, is restarted, goes silent or is adopted, a request runs its body at
\* most once, is settled at most once, with success only of a body that reached its end, and
\* is queued again only if its body never began.
THEOREM QueueImplemented == PunctualSpec => ImplementsRunQueue
BY MapsInit, MapsStep, RefineInductive, PTL DEF PunctualSpec, ImplementsRunQueue, Queue!Spec

-----------------------------------------------------------------------------
(* What the queue promises, and so what the table of the supervisors may be read for. *)

QueueShape ==
  /\ state \in [Requests -> Queue!States]
  /\ settlement \in [Requests -> Queue!Settlements \union {"none"}]
  /\ executing \subseteq Requests

LEMMA ConclusionsStep ==
  ASSUME QueueShape, Queue!Conclusions, [Queue!Next]_(Queue!vars)
  PROVE  Queue!Conclusions'
<1> USE DEF QueueShape, Queue!Conclusions, Queue!States, Queue!Settlements
<1>1. ASSUME NEW r \in Requests, Queue!Ask(r) PROVE Queue!Conclusions'
  BY <1>1 DEF Queue!Ask
<1>2. ASSUME NEW r \in Requests, Queue!Admit(r) PROVE Queue!Conclusions'
  BY <1>2 DEF Queue!Admit
<1>3. ASSUME NEW r \in Requests, Queue!BackToQueue(r) PROVE Queue!Conclusions'
  BY <1>3 DEF Queue!BackToQueue
<1>4. ASSUME NEW r \in Requests, Queue!Begin(r) PROVE Queue!Conclusions'
  BY <1>4 DEF Queue!Begin
<1>5. ASSUME NEW r \in Requests, Queue!End(r) PROVE Queue!Conclusions'
  BY <1>5 DEF Queue!End
<1>6. ASSUME NEW r \in Requests, NEW how \in Queue!Settlements, Queue!Settle(r, how)
      PROVE  Queue!Conclusions'
  BY <1>6 DEF Queue!Settle
<1>7. CASE UNCHANGED Queue!vars
  BY <1>7 DEF Queue!vars
<1> QED
  BY <1>1, <1>2, <1>3, <1>4, <1>5, <1>6, <1>7 DEF Queue!Next

\* Carried over by the refinement: at most one request is running and one body executes, a
\* request that waits has not run, "success" is said of a body that reached its end and
\* "abandoned" of one that never began, and a request is settled when it has such a word.
THEOREM TableTells == PunctualSpec => []Queue!Conclusions
<1>1. RefineInv => QueueShape
  BY OnRequest, SupervisorAssumption
     DEF RefineInv, QueueTypes, QueueShape, Queue!States, Queue!Settlements, Settlements, executing
<1>2. Queue!Init => Queue!Conclusions
  BY DEF Queue!Init, Queue!Conclusions
<1> QED
  BY <1>1, <1>2, ConclusionsStep, QueueImplemented, RefineInductive, PTL DEF ImplementsRunQueue, Queue!Spec
=============================================================================
