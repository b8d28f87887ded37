----------------------------- MODULE Supervisor -----------------------------
(***************************************************************************)
(* personalscraper/app/supervisor: the processes that admit asked runs     *)
(* under a lease, the workers they start, and what they share: the tables  *)
(* run_request and run_lease of app.db, the pipeline_run rows of           *)
(* library.db, and the files pipeline.lock and pipeline.pause.             *)
(*                                                                         *)
(* A supervisor's tick is a sequence of separate transactions and system   *)
(* calls; each is a step here, and the copies a tick works on (todo, cur)  *)
(* may be stale when used.  Time is abstracted: a lease may lapse and a    *)
(* heartbeat may go stale at any moment the code's timing does not exclude.*)
(* All processes are on one host.                                          *)
(***************************************************************************)
EXTENDS Naturals, FiniteSets

CONSTANTS
  Requests,         \* the uids, numbered by asked_at: the queue is FIFO on them
  Supervisors,      \* supervisor processes, each restarted any number of times
  Workers,          \* process ids workers may get: bounds how many matter at a time
  Nobody,           \* no process: NULL pid, no parent, no holder
  Foreign,          \* a CLI run, a maintenance or a scrape-resolve holding a lock
  MaxStartAttempts, \* MAX_WORKER_START_ATTEMPTS
  MaxUnreadable,    \* MAX_UNREADABLE_ROW_READS
  MaxTrouble        \* bound on the troubles of an execution (see Trouble)

ASSUME SupervisorAssumption ==
  /\ Requests \subseteq Nat \ {0}
  /\ Nobody \notin Workers \union Supervisors
  /\ Foreign \notin Workers \union {Nobody}
  /\ MaxStartAttempts \in Nat \ {0}
  /\ MaxUnreadable \in Nat \ {0}
  /\ MaxTrouble \in Nat

VARIABLES
  \* run_request
  state, settlement,
  pidOf,    \* worker_pid of a running request
  beaten,   \* heartbeat_at differs from admitted_at: the worker has beaten
  stale,    \* heartbeat_at is older than STALE_AFTER_S
  \* run_lease: its holder, and whether expires_at is in the future
  holder, leaseLive,
  \* pipeline_run, pipeline.lock (and the scrape locks), pipeline.pause
  row, lock, paused,
  racing,   \* workers whose attempt at pipeline.lock overlaps the one that made its file
  robbed,   \* history: workers whose file was unlinked under them
  \* each supervisor
  pc, holding,
  todo,     \* copies of the running requests the tick still has to judge
  cur,      \* the copy in hand
  verdict,  \* what the tick decided of it
  fails,    \* _start_failures
  unread,   \* _unreadable_reads
  \* each worker
  phase, job,
  parent,   \* the supervisor whose Popen the process is, until reaped or orphaned
  code,     \* its exit code
  \* history
  began, finished,
  failed,   \* requests a body of which ended with an exit code other than 0
  trouble

db == <<state, settlement, pidOf, beaten, stale>>
lease == <<holder, leaseLive>>
theft == <<racing, robbed>>
files == <<row, lock, paused, theft>>
memory == <<holding, todo, cur, verdict, fails, unread>>
processes == <<phase, job, parent, code>>
history == <<began, finished, failed>>
vars == <<db, lease, files, pc, memory, processes, history, trouble>>

Pids == Workers \union {Nobody}
LostLockExit == 3
KilledExit == 9     \* stands for every negative code: a signal
Settlements == {"success", "error", "killed", "interrupted", "abandoned"}
Outcomes == {"norow", "running", "success", "error", "killed"}

\* What a tick keeps of a request it read.
Copy == [req : Requests, pid : Pids, beaten : BOOLEAN, stale : BOOLEAN]
CopyOf(r) == [req |-> r, pid |-> pidOf[r], beaten |-> beaten[r], stale |-> stale[r]]
NoCopy == [req |-> 0, pid |-> Nobody, beaten |-> FALSE, stale |-> FALSE]

\* os.kill(pid, 0): a zombie still answers.
Alive(w) == phase[w] # "gone"
Beating(w) == phase[w] \in {"locked", "body", "ending"}
\* Mutant of LockHeld: any pid in the file counts, a dead one too.
LockHeldByTheDead == lock # Nobody

\* Mutant of LockHeld: only the worker of a running request counts as its holder.
LockHeldByRunning ==
  lock = Foreign \/ \E r \in Requests : state[r] = "running" /\ pidOf[r] = lock

LockHeld == lock = Foreign \/ (lock \in Workers /\ Alive(lock))
Queued == {r \in Requests : state[r] = "queued"}
Running == {r \in Requests : state[r] = "running"}

SupervisorPCs == {"down", "idle", "scan", "judge", "row", "save", "head",
                  "block", "admit", "start", "undo", "record", "gate", "watch"}
Phases ==
  {"starting", "locking", "claiming", "locked", "body", "ending", "zombie", "gone"}

TypeOK ==
  /\ state \in [Requests -> {"unasked", "queued", "running", "settled"}]
  /\ settlement \in [Requests -> Settlements \union {"none"}]
  /\ pidOf \in [Requests -> Pids]
  /\ beaten \in [Requests -> BOOLEAN]
  /\ stale \in [Requests -> BOOLEAN]
  /\ holder \in Supervisors \union {Nobody}
  /\ leaseLive \in BOOLEAN
  /\ row \in [Requests -> Outcomes]
  /\ lock \in Workers \union {Nobody, Foreign}
  /\ paused \in BOOLEAN
  /\ racing \subseteq Workers /\ robbed \subseteq Workers
  /\ pc \in [Supervisors -> SupervisorPCs]
  /\ holding \in [Supervisors -> BOOLEAN]
  /\ todo \in [Supervisors -> SUBSET Copy]
  /\ cur \in [Supervisors -> Copy \union {NoCopy}]
  /\ verdict \in [Supervisors -> Settlements \union {"none", "gone", "silent", "queued"}]
  /\ fails \in [Supervisors -> [Requests -> Nat]]
  /\ unread \in [Supervisors -> [Requests -> Nat]]
  /\ phase \in [Workers -> Phases]
  /\ job \in [Workers -> Requests \union {0}]
  /\ parent \in [Workers -> Supervisors \union {Nobody}]
  /\ code \in [Workers -> Nat]
  /\ began \subseteq Requests
  /\ finished \subseteq Requests
  /\ failed \subseteq Requests
  /\ trouble \in Nat

Init ==
  /\ state = [r \in Requests |-> "unasked"]
  /\ settlement = [r \in Requests |-> "none"]
  /\ pidOf = [r \in Requests |-> Nobody]
  /\ beaten = [r \in Requests |-> FALSE]
  /\ stale = [r \in Requests |-> FALSE]
  /\ holder = Nobody
  /\ leaseLive = FALSE
  /\ row = [r \in Requests |-> "norow"]
  /\ lock = Nobody
  /\ paused = FALSE
  /\ racing = {} /\ robbed = {}
  /\ pc = [s \in Supervisors |-> "down"]
  /\ holding = [s \in Supervisors |-> FALSE]
  /\ todo = [s \in Supervisors |-> {}]
  /\ cur = [s \in Supervisors |-> NoCopy]
  /\ verdict = [s \in Supervisors |-> "none"]
  /\ fails = [s \in Supervisors |-> [r \in Requests |-> 0]]
  /\ unread = [s \in Supervisors |-> [r \in Requests |-> 0]]
  /\ phase = [w \in Workers |-> "gone"]
  /\ job = [w \in Workers |-> 0]
  /\ parent = [w \in Workers |-> Nobody]
  /\ code = [w \in Workers |-> 0]
  /\ began = {}
  /\ finished = {}
  /\ failed = {}
  /\ trouble = 0

-----------------------------------------------------------------------------
(* Building blocks *)

Goto(s, label) == pc' = [pc EXCEPT ![s] = label]
At(s, label) == pc[s] = label

\* Faults and outside interference; MaxTrouble bounds how many happen.
Trouble == trouble < MaxTrouble /\ trouble' = trouble + 1
NoTrouble == trouble' = trouble

Take(s, copy, to) ==
  /\ cur' = [cur EXCEPT ![s] = copy]
  /\ verdict' = [verdict EXCEPT ![s] = to]

PutDown(s) == Take(s, NoCopy, "none")

\* Mutant of Saves: the write is not conditional on the state that was read.
SavesAlways(s, readState) == TRUE

\* QueueRepository.save: a compare-and-set on the state the copy was read in.
Saves(s, readState) == state[cur[s].req] = readState

\* Mutant of WriteBack: a request sent back keeps the word it was sent back with.
WriteBackKept(r, to) ==
  /\ state' = [state EXCEPT ![r] = IF to = "queued" THEN "queued" ELSE "settled"]
  /\ settlement' = [settlement EXCEPT ![r] = to]
  /\ pidOf' = [pidOf EXCEPT ![r] = Nobody]
  /\ beaten' = [beaten EXCEPT ![r] = FALSE]
  /\ stale' = [stale EXCEPT ![r] = FALSE]

\* The row of r as back_to_queue and settle leave it; the columns that only a
\* running request's row is read for return to their initial value.
WriteBack(r, to) ==
  /\ state' = [state EXCEPT ![r] = IF to = "queued" THEN "queued" ELSE "settled"]
  /\ settlement' = [settlement EXCEPT ![r] = IF to = "queued" THEN "none" ELSE to]
  /\ pidOf' = [pidOf EXCEPT ![r] = Nobody]
  /\ beaten' = [beaten EXCEPT ![r] = FALSE]
  /\ stale' = [stale EXCEPT ![r] = FALSE]

\* The workers of ws lose their parent: a zombie is reaped, an exit code lost.
Disown(ws) ==
  /\ parent' = [w \in Workers |-> IF w \in ws THEN Nobody ELSE parent[w]]
  /\ phase' = [w \in Workers |-> IF w \in ws /\ phase[w] = "zombie" THEN "gone" ELSE phase[w]]
  /\ code' = [w \in Workers |-> IF w \in ws THEN 0 ELSE code[w]]

\* A process's children when it ends: init adopts them, and reaps the zombies.
Orphan(s) == Disown({w \in Workers : parent[w] = s})

Forget(s) ==
  /\ holding' = [holding EXCEPT ![s] = FALSE]
  /\ todo' = [todo EXCEPT ![s] = {}]
  /\ fails' = [fails EXCEPT ![s] = [r \in Requests |-> 0]]
  /\ unread' = [unread EXCEPT ![s] = [r \in Requests |-> 0]]
  /\ PutDown(s)

-----------------------------------------------------------------------------
(* Asking: RunService._ask, by the web, the CLI or a watcher tick.  The number of
   a request is the asked_at it read before its transaction, so it may be inserted
   after a request with a later one.  An ask that joins a request changes nothing. *)

Insert(r) ==
  /\ state[r] = "unasked"
  /\ state' = [state EXCEPT ![r] = "queued"]
  /\ UNCHANGED <<settlement, pidOf, beaten, stale>>

Ask(r) ==
  /\ Insert(r)
  /\ NoTrouble
  /\ UNCHANGED <<lease, files, pc, memory, processes, history>>

-----------------------------------------------------------------------------
(* Supervisor.tick_admission *)

\* Supervisor._hold_lease: renew the lease it believes it holds, or claim a
\* claimable one.  A holder that died is Nobody here: its pid no longer runs.
BetweenTicks(s) == pc[s] \in {"idle", "gate"}
\* Mutant of Claimable: a lease is taken from a live holder before it expires.
ClaimableAnytime == TRUE

Claimable == holder = Nobody \/ ~leaseLive

HoldsNow(s) == IF holding[s] THEN holder = s ELSE Claimable

HoldLease(s) ==
  /\ BetweenTicks(s)
  /\ \/ /\ HoldsNow(s)
        /\ holder' = s /\ leaseLive' = TRUE
        /\ holding' = [holding EXCEPT ![s] = TRUE]
        /\ Goto(s, "scan")
     \/ /\ ~HoldsNow(s)
        /\ UNCHANGED lease
        /\ holding' = [holding EXCEPT ![s] = FALSE]
        /\ Goto(s, "gate")
  /\ NoTrouble
  /\ UNCHANGED <<db, files, todo, cur, verdict, fails, unread, processes, history>>

\* _settle_ended reads the running requests...
ReadRunning(s) ==
  /\ At(s, "scan")
  /\ todo' = [todo EXCEPT ![s] = {CopyOf(r) : r \in Running}]
  /\ Goto(s, "judge")
  /\ NoTrouble
  /\ UNCHANGED <<db, lease, files, holding, cur, verdict, fails, unread, processes, history>>

SettlementOf(c) ==
  IF c = 0 THEN "success" ELSE IF c = KilledExit THEN "killed" ELSE "error"

\* ... and judges each: by the exit code of its own child, whose poll() reaps it;
\* else by whether its pid still runs, or its heartbeat was stale when read.
HasExited(s, w) == w # Nobody /\ parent[w] = s /\ phase[w] \in {"zombie", "gone"}

JudgeExit(s) ==
  /\ At(s, "judge")
  /\ \E c \in todo[s] :
       /\ HasExited(s, c.pid)
       /\ Take(s, c, IF code[c.pid] = LostLockExit THEN "queued" ELSE SettlementOf(code[c.pid]))
       /\ todo' = [todo EXCEPT ![s] = @ \ {c}]
       /\ phase' = [phase EXCEPT ![c.pid] = "gone"]
  /\ Goto(s, "save")
  /\ NoTrouble
  /\ UNCHANGED <<db, lease, files, holding, fails, unread, job, parent, code, history>>

Gone(w) == w # Nobody /\ ~Alive(w)

JudgeSilent(s) ==
  /\ At(s, "judge")
  /\ \E c \in todo[s] :
       /\ ~HasExited(s, c.pid)
       /\ todo' = [todo EXCEPT ![s] = @ \ {c}]
       /\ IF Gone(c.pid) \/ c.stale
            THEN Take(s, c, IF Gone(c.pid) THEN "gone" ELSE "silent") /\ Goto(s, "row")
            ELSE UNCHANGED <<cur, verdict, pc>>
  /\ NoTrouble
  /\ UNCHANGED <<db, lease, files, holding, fails, unread, processes, history>>

RowSettlement(o) == IF o \in {"success", "error", "killed"} THEN o ELSE "interrupted"

\* Mutant of ReadRow: what a gone worker left in its row is not looked at.
ReadRowUnseen(s) ==
  LET r == cur[s].req IN
  /\ At(s, "row")
  /\ verdict' = [verdict EXCEPT ![s] =
                   IF @ = "gone" /\ ~cur[s].beaten THEN "queued" ELSE RowSettlement(row[r])]
  /\ unread' = [unread EXCEPT ![s][r] = 0]
  /\ Goto(s, "save")
  /\ NoTrouble
  /\ UNCHANGED <<db, lease, files, holding, todo, cur, fails, processes, history>>

\* Mutant of ReadRow: a silent worker is taken for a gone one.
ReadRowSilentAsGone(s) ==
  LET r == cur[s].req IN
  /\ At(s, "row")
  /\ verdict' = [verdict EXCEPT ![s] =
                   IF row[r] = "norow" /\ ~cur[s].beaten
                     THEN "queued" ELSE RowSettlement(row[r])]
  /\ unread' = [unread EXCEPT ![s][r] = 0]
  /\ Goto(s, "save")
  /\ NoTrouble
  /\ UNCHANGED <<db, lease, files, holding, todo, cur, fails, processes, history>>

\* _settle_silent, on the outcome of its pipeline_run row.
ReadRow(s) ==
  LET r == cur[s].req IN
  /\ At(s, "row")
  /\ verdict' = [verdict EXCEPT ![s] =
                   IF @ = "gone" /\ row[r] = "norow" /\ ~cur[s].beaten
                     THEN "queued" ELSE RowSettlement(row[r])]
  /\ unread' = [unread EXCEPT ![s][r] = 0]
  /\ Goto(s, "save")
  /\ NoTrouble
  /\ UNCHANGED <<db, lease, files, holding, todo, cur, fails, processes, history>>

\* The row cannot be read now: tried again next tick, interrupted in the end.
RowUnreadable(s) ==
  LET r == cur[s].req
      reads == unread[s][r] + 1 IN
  /\ At(s, "row")
  /\ Trouble
  /\ IF reads >= MaxUnreadable
       THEN /\ unread' = [unread EXCEPT ![s][r] = 0]
            /\ Take(s, cur[s], "interrupted")
            /\ Goto(s, "save")
       ELSE /\ unread' = [unread EXCEPT ![s][r] = reads]
            /\ PutDown(s)
            /\ Goto(s, "judge")
  /\ UNCHANGED <<db, lease, files, holding, todo, fails, processes, history>>

SaveVerdict(s) ==
  /\ At(s, "save")
  /\ IF Saves(s, "running") THEN WriteBack(cur[s].req, verdict[s]) ELSE UNCHANGED db
  /\ PutDown(s)
  /\ Goto(s, "judge")
  /\ NoTrouble
  /\ UNCHANGED <<lease, files, holding, todo, fails, unread, processes, history>>

\* launcher.reap forgets the ended children no running row names; _announce then
\* drops the counters of requests that left the queue for good.
Reap(s) ==
  LET keep == {pidOf[r] : r \in Running}
      drop == {w \in Workers : HasExited(s, w) /\ w \notin keep}
      live == Queued \union Running
  IN
  /\ At(s, "judge")
  /\ todo[s] = {}
  /\ Disown(drop)
  /\ fails' = [fails EXCEPT ![s] = [r \in Requests |-> IF r \in live THEN @[r] ELSE 0]]
  /\ unread' = [unread EXCEPT ![s] = [r \in Requests |-> IF r \in live THEN @[r] ELSE 0]]
  /\ Goto(s, "head")
  /\ NoTrouble
  /\ UNCHANGED <<db, lease, files, holding, todo, cur, verdict, job, history>>

\* _admit: the head of the queue...
ReadHead(s) ==
  /\ At(s, "head")
  /\ \/ Queued = {} /\ Goto(s, "gate") /\ UNCHANGED <<cur, verdict>>
     \/ \E r \in Queued :
          /\ \A q \in Queued : r <= q
          /\ Take(s, CopyOf(r), "none")
          /\ Goto(s, "block")
  /\ NoTrouble
  /\ UNCHANGED <<db, lease, files, holding, todo, fails, unread, processes, history>>

\* ... is started when nothing runs and nothing blocks.  The wait_reason the other
\* branch records is read by no decision and is left out.
Blocked == Running # {} \/ paused \/ LockHeld

\* A pid is given again once nothing names it.  Workers bounds the processes: the
\* head of the queue waits, as behind a blocker, while no pid is spare.
Spare(w) ==
  /\ ~Alive(w) /\ parent[w] = Nobody /\ lock # w
  /\ \A r \in Requests : pidOf[r] # w
  /\ \A s \in Supervisors : cur[s].pid # w /\ \A c \in todo[s] : c.pid # w

CheckBlocker(s) ==
  /\ At(s, "block")
  /\ IF Blocked \/ \A w \in Workers : ~Spare(w)
       THEN Goto(s, "gate") /\ PutDown(s)
       ELSE Goto(s, "admit") /\ UNCHANGED <<cur, verdict>>
  /\ NoTrouble
  /\ UNCHANGED <<db, lease, files, holding, todo, fails, unread, processes, history>>

\* _start: the admission is saved first...
SaveAdmission(s) ==
  LET r == cur[s].req IN
  /\ At(s, "admit")
  /\ \/ /\ Saves(s, "queued")
        /\ state' = [state EXCEPT ![r] = "running"]
        /\ pidOf' = [pidOf EXCEPT ![r] = Nobody]
        /\ beaten' = [beaten EXCEPT ![r] = FALSE]
        /\ stale' = [stale EXCEPT ![r] = FALSE]
        /\ Goto(s, "start")
        /\ UNCHANGED <<settlement, cur, verdict>>
     \/ /\ ~Saves(s, "queued")
        /\ PutDown(s)
        /\ Goto(s, "gate")
        /\ UNCHANGED db
  /\ NoTrouble
  /\ UNCHANGED <<lease, files, holding, todo, fails, unread, processes, history>>

\* ... then the worker is started...
StartWorker(s) ==
  LET r == cur[s].req IN
  /\ At(s, "start")
  /\ \E w \in Workers :
       /\ Spare(w)
       /\ phase' = [phase EXCEPT ![w] = "starting"]
       /\ job' = [job EXCEPT ![w] = r]
       /\ parent' = [parent EXCEPT ![w] = s]
       /\ Take(s, [cur[s] EXCEPT !.pid = w], "none")
  /\ fails' = [fails EXCEPT ![s][r] = 0]
  /\ Goto(s, "record")
  /\ NoTrouble
  /\ UNCHANGED <<db, lease, files, holding, todo, unread, code, history>>

\* ... and its pid recorded, with the heartbeat the copy still has: the admission's.
RecordWorker(s) ==
  LET r == cur[s].req IN
  /\ At(s, "record")
  /\ IF Saves(s, "running")
       THEN /\ pidOf' = [pidOf EXCEPT ![r] = cur[s].pid]
            /\ beaten' = [beaten EXCEPT ![r] = FALSE]
       ELSE UNCHANGED <<pidOf, beaten>>
  /\ PutDown(s)
  /\ Goto(s, "gate")
  /\ NoTrouble
  /\ UNCHANGED <<state, settlement, stale, lease, files, holding, todo, fails, unread,
                 processes, history>>

\* _start_failed: a transient cause is tried again, up to MaxStartAttempts.
StartRaises(s) ==
  LET r == cur[s].req
      attempt == fails[s][r] + 1 IN
  /\ At(s, "start")
  /\ Trouble
  /\ \/ /\ attempt < MaxStartAttempts
        /\ fails' = [fails EXCEPT ![s][r] = attempt]
        /\ Take(s, cur[s], "queued")
     \/ /\ fails' = [fails EXCEPT ![s][r] = 0]
        /\ Take(s, cur[s], "abandoned")
  /\ Goto(s, "undo")
  /\ UNCHANGED <<db, lease, files, holding, todo, unread, processes, history>>

UndoAdmission(s) ==
  /\ At(s, "undo")
  /\ IF Saves(s, "running") THEN WriteBack(cur[s].req, verdict[s]) ELSE UNCHANGED db
  /\ PutDown(s)
  /\ Goto(s, "gate")
  /\ NoTrouble
  /\ UNCHANGED <<lease, files, holding, todo, fails, unread, processes, history>>

\* _guarded: a transaction of the tick raised; the tick is dropped where it stands.
TickRaises(s) ==
  /\ pc[s] \in {"idle", "gate", "scan", "judge", "row", "save", "head", "block", "admit",
                "undo", "record"}
  /\ Trouble
  /\ todo' = [todo EXCEPT ![s] = {}]
  /\ PutDown(s)
  /\ Goto(s, "gate")
  /\ UNCHANGED <<db, lease, files, holding, fails, unread, processes, history>>

-----------------------------------------------------------------------------
(* Supervisor.run around the two ticks *)

\* tick_watcher, when due after an admission tick: only while this process believes
\* it holds the lease; a queued or running request makes the decision engine wait.
StartWatch(s) ==
  /\ At(s, "gate")
  /\ holding[s]
  /\ Queued \union Running = {}
  /\ Goto(s, "watch")
  /\ NoTrouble
  /\ UNCHANGED <<db, lease, files, memory, processes, history>>

\* _LeaseKeeper: the lease is renewed from a thread while the watcher tick lasts.
KeepLease(s) ==
  /\ At(s, "watch")
  /\ holder = s
  /\ ~leaseLive
  /\ leaseLive' = TRUE
  /\ NoTrouble
  /\ UNCHANGED <<holder, db, files, pc, memory, processes, history>>

EndWatch(s) ==
  /\ At(s, "watch")
  /\ \/ UNCHANGED db
     \/ \E r \in Requests : Insert(r)
  /\ Goto(s, "idle")
  /\ NoTrouble
  /\ UNCHANGED <<lease, files, memory, processes, history>>

Boot(s) ==
  /\ At(s, "down")
  /\ Goto(s, "idle")
  /\ NoTrouble
  /\ UNCHANGED <<db, lease, files, memory, processes, history>>

\* The holder's lease row goes: deleted by stop(), or claimable for its dead pid.
LeaveLease(s) ==
  IF holder = s THEN holder' = Nobody /\ leaseLive' = FALSE ELSE UNCHANGED lease

\* A stop signal, or SupervisorWedged, seen between two ticks.
Stop(s) ==
  /\ BetweenTicks(s)
  /\ IF holding[s] THEN LeaveLease(s) ELSE UNCHANGED lease
  /\ Forget(s)
  /\ Orphan(s)
  /\ Goto(s, "down")
  /\ Trouble
  /\ UNCHANGED <<db, files, job, history>>

\* Killed at any step: memory is lost, the workers live on.
Crash(s) ==
  /\ pc[s] # "down"
  /\ LeaveLease(s)
  /\ Forget(s)
  /\ Orphan(s)
  /\ Goto(s, "down")
  /\ Trouble
  /\ UNCHANGED <<db, files, job, history>>

-----------------------------------------------------------------------------
(* The worker: run_request *)

\* The process is over; it stays a zombie until the parent polls it.
Ends(w, c) ==
  /\ phase' = [phase EXCEPT ![w] = IF parent[w] = Nobody THEN "gone" ELSE "zombie"]
  /\ code' = [code EXCEPT ![w] = IF parent[w] = Nobody THEN 0 ELSE c]
  /\ job' = [job EXCEPT ![w] = 0]

Enter(w, from, to) == phase[w] = from /\ phase' = [phase EXCEPT ![w] = to]

\* The request must still be running.
CheckRequest(w) ==
  /\ phase[w] = "starting"
  /\ IF state[job[w]] = "running"
       THEN Enter(w, "starting", "locking") /\ UNCHANGED <<code, job>>
       ELSE Ends(w, 1)
  /\ racing' = racing \ {w}
  /\ NoTrouble
  /\ UNCHANGED <<db, lease, row, lock, paused, robbed, pc, memory, parent, history>>

\* acquire_pipeline_lock lasts while the worker is "locking", and its outcome is one
\* step (PipelineLock has all of them).  A held lock is refused...
Attempting == {w \in Workers : phase[w] = "locking"}

MakesFile(w) ==
  /\ lock' = w
  /\ racing' = Attempting \ {w}
  /\ robbed' = robbed \ {w}

Refused(w) == LockHeld \/ (phase[w] = "claiming" /\ lock # Nobody)

TakeLock(w) ==
  /\ phase[w] \in {"locking", "claiming"}
  /\ IF Refused(w)
       THEN Ends(w, LostLockExit) /\ UNCHANGED <<lock, theft>>
       ELSE Enter(w, phase[w], "locked") /\ MakesFile(w) /\ UNCHANGED <<code, job>>
  /\ NoTrouble
  /\ UNCHANGED <<db, lease, row, paused, pc, memory, parent, history>>

\* ... unless two attempts overlapped (the finding lock_claim of PipelineLock): this one
\* saw the file still empty, or the dead pid the other has replaced since, and unlinks
\* it under its owner; what is left of its attempt is to create the file.
StealLock(w) ==
  /\ w \in racing
  /\ LockHeld
  /\ Enter(w, "locking", "claiming")
  /\ lock' = Nobody
  /\ robbed' = robbed \union ({lock} \intersect Workers)
  /\ NoTrouble
  /\ UNCHANGED <<db, lease, row, paused, racing, pc, memory, job, parent, code, history>>

\* The configuration does not load, or acquire_lock raised, the file made or not.
WorkerFails(w) ==
  /\ phase[w] \in {"starting", "locking", "claiming"}
  /\ Ends(w, 1)
  /\ \/ UNCHANGED <<lock, theft>>
     \/ phase[w] # "starting" /\ ~Refused(w) /\ MakesFile(w)
  /\ Trouble
  /\ UNCHANGED <<db, lease, row, paused, pc, memory, parent, history>>

\* _Heartbeat._beat
Beat(w) ==
  LET r == job[w] IN
  /\ Beating(w)
  /\ state[r] = "running"
  /\ beaten' = [beaten EXCEPT ![r] = TRUE]
  /\ stale' = [stale EXCEPT ![r] = FALSE]
  /\ NoTrouble
  /\ UNCHANGED <<state, settlement, pidOf, lease, files, pc, memory, processes, history>>

\* Mutant of BodyRefused: a run that was refused exits as one that ended well.
BodyRefusedQuietly(w) ==
  /\ Enter(w, "locked", "ending")
  /\ code' = [code EXCEPT ![w] = 0]
  /\ Trouble
  /\ UNCHANGED <<db, lease, files, pc, memory, job, parent, history>>

\* The body gives up before its row: its torrent client does not answer, say.
BodyRefused(w) ==
  /\ Enter(w, "locked", "ending")
  /\ code' = [code EXCEPT ![w] = 1]
  /\ Trouble
  /\ UNCHANGED <<db, lease, files, pc, memory, job, parent, history>>

\* The body begins by inserting its row; the uid is unique, a second insert fails.
BeginBody(w) ==
  LET r == job[w] IN
  /\ Enter(w, "locked", "body")
  /\ row' = [row EXCEPT ![r] = IF @ = "norow" THEN "running" ELSE @]
  /\ began' = began \union {r}
  /\ NoTrouble
  /\ UNCHANGED <<db, lease, lock, paused, theft, pc, memory, job, parent, code, finished, failed>>

\* PipelineRunWriter.insert is fail-soft: the body goes on without a row.
BeginUnrecorded(w) ==
  /\ Enter(w, "locked", "body")
  /\ began' = began \union {job[w]}
  /\ Trouble
  /\ UNCHANGED <<db, lease, files, pc, memory, job, parent, code, finished, failed>>

\* How a body ends: what it finalizes its row to, and its exit code.  A step that
\* reported errors leaves a "success" row and exit code 1; a SIGINT honoured at a
\* step boundary leaves "killed" and exit code 0.
Endings == {[row |-> "success", code |-> 0], [row |-> "success", code |-> 1],
            [row |-> "error", code |-> 1], [row |-> "killed", code |-> 0]}

EndBody(w) ==
  LET r == job[w] IN
  /\ Enter(w, "body", "ending")
  /\ \E end \in Endings :
       /\ row' = [row EXCEPT ![r] = IF @ = "norow" THEN @ ELSE end.row]
       /\ code' = [code EXCEPT ![w] = end.code]
       /\ failed' = IF end.code = 0 THEN failed ELSE failed \union {r}
  /\ finished' = finished \union {r}
  /\ NoTrouble
  /\ UNCHANGED <<db, lease, lock, paused, theft, pc, memory, job, parent, began>>

\* finalize is fail-soft too: the row stays "running".
EndUnrecorded(w) ==
  /\ Enter(w, "body", "ending")
  /\ \E end \in Endings :
       /\ code' = [code EXCEPT ![w] = end.code]
       /\ failed' = IF end.code = 0 THEN failed ELSE failed \union {job[w]}
  /\ finished' = finished \union {job[w]}
  /\ Trouble
  /\ UNCHANGED <<db, lease, files, pc, memory, job, parent, began>>

\* A file unlinked by someone else than its owner, if its owner is a living worker.
Robbed(w) == {v \in Workers \ {w} : lock = v /\ Alive(v)}

\* release_lock unlinks the file of that name, whoever made it; then the exit.
ReleaseAndExit(w) ==
  /\ phase[w] = "ending"
  /\ lock' = Nobody
  /\ robbed' = robbed \union Robbed(w)
  /\ Ends(w, code[w])
  /\ NoTrouble
  /\ UNCHANGED <<db, lease, row, paused, racing, pc, memory, parent, history>>

\* A signal, at any step: pipeline.lock keeps the dead pid.
WorkerKilled(w) ==
  /\ Alive(w) /\ phase[w] # "zombie"
  /\ Ends(w, KilledExit)
  /\ Trouble
  /\ UNCHANGED <<db, lease, files, pc, memory, parent, history>>

-----------------------------------------------------------------------------
(* Around them *)

\* A run from the command line, a maintenance command or a scrape-resolve.
ForeignTakes ==
  /\ ~LockHeld
  /\ lock' = Foreign
  /\ racing' = Attempting
  /\ Trouble
  /\ UNCHANGED <<db, lease, row, paused, robbed, pc, memory, processes, history>>

\* One of them unlinks the file of a worker: its attempt overlapped the worker's, or it
\* was robbed itself and releases.
ForeignRobs(w) ==
  /\ lock = w /\ Alive(w)
  /\ lock' \in {Foreign, Nobody}
  /\ robbed' = robbed \union {w}
  /\ racing' = IF lock' = Foreign THEN Attempting ELSE racing
  /\ Trouble
  /\ UNCHANGED <<db, lease, row, paused, pc, memory, processes, history>>

ForeignReleases ==
  /\ lock = Foreign
  /\ lock' = Nobody
  /\ NoTrouble
  /\ UNCHANGED <<db, lease, row, paused, theft, pc, memory, processes, history>>

Pause ==
  /\ ~paused
  /\ paused' = TRUE
  /\ Trouble
  /\ UNCHANGED <<db, lease, row, lock, theft, pc, memory, processes, history>>

Resume ==
  /\ paused
  /\ paused' = FALSE
  /\ NoTrouble
  /\ UNCHANGED <<db, lease, row, lock, theft, pc, memory, processes, history>>

\* STALE_AFTER_S pass without a heartbeat; a worker that beats missed three.
BeatenBySomeone(r) == \E w \in Workers : Beating(w) /\ job[w] = r

GoesStale(r) ==
  /\ state[r] = "running" /\ ~stale[r]
  /\ stale' = [stale EXCEPT ![r] = TRUE]
  /\ UNCHANGED <<state, settlement, pidOf, beaten, lease, files, pc, memory, processes,
                 history>>

GoesSilent(r) == ~BeatenBySomeone(r) /\ NoTrouble /\ GoesStale(r)
MissesBeats(r) == BeatenBySomeone(r) /\ Trouble /\ GoesStale(r)

InTick(s) == pc[s] \notin {"down", "idle", "gate", "watch"}

\* LEASE_TTL_S pass without a renewal, while its holder is not inside an admission tick.
Lapse ==
  /\ leaseLive
  /\ holder \in Supervisors => ~InTick(holder)
  /\ leaseLive' = FALSE
  /\ NoTrouble
  /\ UNCHANGED <<holder, db, files, pc, memory, processes, history>>

\* The same inside a tick: no thread renews the lease there, so a tick held up
\* longer than the TTL loses it.
LapseInTick ==
  /\ leaseLive
  /\ leaseLive' = FALSE
  /\ Trouble
  /\ UNCHANGED <<holder, db, files, pc, memory, processes, history>>

-----------------------------------------------------------------------------
Tick(s) ==
  \/ HoldLease(s) \/ ReadRunning(s) \/ JudgeExit(s) \/ JudgeSilent(s) \/ ReadRow(s)
  \/ SaveVerdict(s) \/ Reap(s) \/ ReadHead(s) \/ CheckBlocker(s) \/ SaveAdmission(s)
  \/ StartWorker(s) \/ RecordWorker(s) \/ UndoAdmission(s)
  \/ EndWatch(s) \/ Boot(s)

SupervisorStep(s) ==
  \/ Tick(s) \/ RowUnreadable(s) \/ StartRaises(s) \/ TickRaises(s)
  \/ StartWatch(s) \/ KeepLease(s) \/ Stop(s) \/ Crash(s)

WorkerRuns(w) ==
  CheckRequest(w) \/ TakeLock(w) \/ BeginBody(w) \/ EndBody(w) \/ ReleaseAndExit(w)

WorkerStep(w) ==
  \/ WorkerRuns(w) \/ WorkerFails(w) \/ Beat(w) \/ BodyRefused(w) \/ EndUnrecorded(w)
  \/ WorkerKilled(w)

Around ==
  ForeignTakes \/ ForeignReleases \/ Pause \/ Resume \/ Lapse

\* Every admission tick fits in its lease, every body has its row, and no lock file is
\* taken from a living worker.
PunctualNext ==
  \/ \E s \in Supervisors : SupervisorStep(s)
  \/ \E w \in Workers : WorkerStep(w)
  \/ \E r \in Requests : Ask(r) \/ GoesSilent(r) \/ MissesBeats(r)
  \/ Around

Next ==
  \/ PunctualNext
  \/ LapseInTick
  \/ \E w \in Workers : BeginUnrecorded(w) \/ StealLock(w) \/ ForeignRobs(w)

PunctualSpec == Init /\ [][PunctualNext]_vars
Spec == Init /\ [][Next]_vars

\* What goes on by itself: PM2 restarts a supervisor and the supervisor ticks, a
\* worker runs to its end, time passes over a worker that does not beat, and who
\* paused the runs or holds the lock comes back.  No fault is fair.
Fairness ==
  /\ \A s \in Supervisors : WF_vars(Tick(s))
  /\ \A w \in Workers : WF_vars(WorkerRuns(w))
  /\ \A r \in Requests : WF_vars(GoesSilent(r))
  /\ WF_vars(Lapse) /\ WF_vars(Resume) /\ WF_vars(ForeignReleases)

FairSpec == PunctualSpec /\ Fairness

-----------------------------------------------------------------------------
(* Properties *)

executing == {job[w] : w \in {v \in Workers : phase[v] = "body"}}

Queue == INSTANCE RunQueue WITH
  Requests <- Requests, state <- state, settlement <- settlement,
  began <- began, executing <- executing, finished <- finished

\* While every admission tick fits in its lease, every body has its row and no lock file
\* is taken from a living worker, all of this implements the queue of RunQueue: whatever
\* crashes, is killed, is restarted, goes silent or is adopted, no body runs twice, no
\* request runs beside another, none is settled twice, and only a request whose body
\* never began is queued again.
ImplementsRunQueue == Queue!Spec

\* Under the same assumption the lease does its work: at most one supervisor is
\* inside an admission tick, whoever crashed or was restarted meanwhile.
OneTicker ==
  \A s, t \in Supervisors : InTick(s) /\ InTick(t) => s = t

\* "Never a worker on a queued" request (supervisor.py:15): a process that may still
\* run the body belongs to a request that was admitted and not sent back.
NoWorkerOnQueued ==
  \A w \in Workers : Alive(w) /\ phase[w] # "zombie" => state[job[w]] \in {"running", "settled"}

\* However often the supervisor crashes and whatever its workers come to, a request
\* asked is settled in the end: nothing it waits for waits for ever.
EveryRequestSettles ==
  \A r \in Requests : (state[r] = "queued") ~> (state[r] = "settled")

\* Neither the lease nor the queue is what keeps two bodies apart in the end: when
\* stalled supervisors have both admitted, or a worker judged silent wakes, two bodies
\* meet only if the lock file of one of them was unlinked under it (the finding lock_claim
\* is how), or another process robbed of its own released it.
BodiesMeetOnlyByTheft ==
  \A v, w \in Workers :
    v # w /\ phase[v] = "body" /\ phase[w] = "body" => {v, w} \intersect robbed # {}

\* With no assumption on time or on library.db: no copy a stalled, crashed or second
\* supervisor still holds moves a settled request (QueueRepository.save).
SettledIsFinal ==
  [][\A r \in Requests : state[r] = "settled" =>
       state'[r] = "settled" /\ settlement'[r] = settlement[r]]_vars

\* With no assumption on time or on library.db either: whoever settles a request, from
\* whatever stale copy, pid, exit code or row, says success only of a body that reached
\* its end.
SuccessIsEarned ==
  \A r \in Requests : settlement[r] = "success" => r \in finished

\* "Detects and cleans up stale locks from crashed processes" (lock.py:5): a lock
\* whose worker was killed is in the end not held.
DeadLockIsFreed ==
  \A w \in Workers : (lock = w /\ phase[w] = "zombie") ~> ~LockHeld
=============================================================================
