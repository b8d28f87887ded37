------------------------------ MODULE Watcher ------------------------------
(***************************************************************************)
(* The watcher: the decision engine of acquire/watcher.py, driven by the   *)
(* supervisor's watcher tick, over the torrent client, the run queue and   *)
(* the last success kept in acquire.db.                                    *)
(*                                                                         *)
(* Time passes in units: window and the ages below are what is left of     *)
(* debounce_until, and what has passed since an epoch, rounded to them.    *)
(* One cycle (poll, queue view, evaluate) is one step, for the supervisor  *)
(* is one thread and settles runs itself; the ask it decides is another,   *)
(* because the web asks through the same queue from other processes.       *)
(***************************************************************************)
EXTENDS Integers, FiniteSets

CONSTANTS
  Torrents,           \* the torrents the triage does not leave alone
  Debounce,           \* watch.debounce_s
  SafetyNet,          \* watch.safety_net_hours, in the same unit
  Scoped,             \* whether the instance owns a scope in a shared client
  CrossSeedAttempts,  \* failures after which a cross-seed is given up (3)
  MaxTrouble          \* bound: restarts, refused asks, failed writes, lost leases,
                      \* web asks, deferrals and pauses of the watcher

ASSUME WatcherAssumption ==
  /\ Debounce \in Nat \ {0} /\ SafetyNet \in Nat \ {0}
  /\ Scoped \in BOOLEAN
  /\ CrossSeedAttempts \in Nat \ {0}
  /\ MaxTrouble \in Nat

VARIABLES
  complete,    \* the torrents the client lists as completed
  arriving,    \* the client counts an active download
  answering,   \* the client answers, and ingested_torrents.json can be read
  deferred,    \* torrents ingest would skip for now (ratio, content, space)
  ingested,    \* ingested_torrents.json
  sentinel,    \* watch.trigger exists
  paused,      \* watcher.paused exists
  queued,      \* kinds of run waiting in the queue
  running,     \* kind of the run that is running
  stored,      \* age of the success recorded in acquire.db
  holding,     \* the supervisor holds the lease
  window,      \* memory: what is left of debounce_until
  backoff,     \* memory: backoff_multiplier, as the delay it stands for
  origin,      \* memory: debounce_origin
  since,       \* memory: age of last_successful_run_at
  dispatched,  \* memory: cross_seed_dispatched
  failures,    \* memory: cross-seed failures of each torrent
  ask,         \* the ask decided and not made yet, with the memory it restores
  trouble,
  age,         \* history: age of the last pipeline run that did succeed
  uninformed,  \* history: a success this supervisor's memory does not reflect
  lastGate,    \* history: age of the last download the quiescence gate saw
  lastFire,    \* history: age of the last automatic ask taken
  obtained,    \* history: the last ask taken in this memory was automatic
  owed,        \* history: completions, and the poke, no run has started for
  eaten        \* history: that poke's sentinel was consumed with no run waiting

world == <<complete, arriving, answering, deferred, ingested, sentinel, paused>>
queue == <<queued, running>>
pacing == <<window, backoff, origin>>
memory == <<window, backoff, origin, since, dispatched, failures>>
history == <<age, uninformed, lastGate, lastFire, obtained, owed, eaten>>
vars == <<complete, arriving, answering, deferred, ingested, sentinel, paused, queued, running,
          stored, holding, window, backoff, origin, since, dispatched, failures, ask, trouble,
          age, uninformed, lastGate, lastFire, obtained, owed, eaten>>

None == -1      \* debounce_until is None: no window is open
Never == -2     \* no successful run is recorded
Poke == "poke"  \* the operator's watch-now, beside the torrents in owed

Origins == {"none", "completion", "safety_net"}
Reasons == {"manual", "completion", "safety_net"}
Poked == "poked"  \* a manual ask that is committed, its sentinel not consumed yet

Older(a, cap) == IF a \in 0..(cap - 1) THEN a + 1 ELSE a

\* min(debounce_s * 2^multiplier, safety net): the first of them, and for any multiplier.
\* The configuration allows a debounce longer than the safety net.
FirstDelay == IF Debounce < SafetyNet THEN Debounce ELSE SafetyNet
Delays == FirstDelay..SafetyNet

Windows == {None} \union 0..Debounce \union 0..SafetyNet
Ages == {Never} \union 0..SafetyNet

NoAsk == [reason |-> "none"]  \* no decided ask is in flight
Asks == [reason : Reasons \union {Poked}, window : Windows, backoff : Delays,
         origin : Origins, since : Ages]

TypeOK ==
  /\ complete \subseteq Torrents /\ arriving \in BOOLEAN /\ answering \in BOOLEAN
  /\ deferred \subseteq Torrents /\ ingested \subseteq Torrents
  /\ sentinel \in BOOLEAN /\ paused \in BOOLEAN /\ holding \in BOOLEAN
  /\ queued \subseteq {"pipeline", "other"}
  /\ running \in {"nothing", "pipeline", "other"}
  /\ window \in Windows /\ backoff \in Delays /\ origin \in Origins
  /\ stored \in Ages /\ since \in Ages /\ age \in Ages
  /\ dispatched \subseteq Torrents /\ failures \in [Torrents -> 0..CrossSeedAttempts]
  /\ ask = NoAsk \/ ask \in Asks
  /\ trouble \in 0..MaxTrouble
  /\ lastGate \in 0..Debounce /\ lastFire \in 0..Debounce
  /\ uninformed \in BOOLEAN /\ obtained \in BOOLEAN
  /\ owed \subseteq Torrents \union {Poke} /\ eaten \in BOOLEAN

Init ==
  /\ complete = {} /\ arriving = FALSE /\ answering = TRUE /\ deferred = {} /\ ingested = {}
  /\ sentinel = FALSE /\ paused = FALSE
  /\ queued = {} /\ running = "nothing" /\ stored = Never /\ holding = TRUE
  /\ window = None /\ backoff = FirstDelay /\ origin = "none" /\ since = stored
  /\ dispatched = {} /\ failures = [t \in Torrents |-> 0] /\ ask = NoAsk
  /\ trouble = 0
  /\ age = Never /\ uninformed = FALSE /\ obtained = FALSE /\ owed = {} /\ eaten = FALSE
  /\ lastGate = Debounce /\ lastFire = Debounce

-----------------------------------------------------------------------------
(* What a cycle sees. *)

Work == complete \ ingested
PipelineWork == Work \ deferred
Busy == queued # {} \/ running # "nothing"
Overdue(a) == a \in {Never, SafetyNet}

\* Mutant of GateOpen: only a window that was cleared is open.
GateOpenIfCleared == window = None

GateOpen == window \in {None, 0}

\* Branch 0, before every other: a scoped instance never starts overdue.
Seeded == IF Scoped /\ since = Never THEN 0 ELSE since

\* backoff once the multiplier is one more.
Doubled == IF 2 * backoff < SafetyNet THEN 2 * backoff ELSE SafetyNet

-----------------------------------------------------------------------------
(* The branches of evaluate, in its order: each excludes those above it.  A fire that *)
(* finds the queue busy is requeued: the cycle then changes nothing.                  *)

NoAction == UNCHANGED <<pacing, ask, dispatched, failures>>

\* FIRE_RUN arms the window of its run before asking for it.
Fire(reason, newWindow, newBackoff, newOrigin) ==
  IF Busy THEN NoAction
  ELSE /\ ask' = [reason |-> reason, window |-> window, backoff |-> backoff,
                  origin |-> origin, since |-> since]
       /\ window' = newWindow /\ backoff' = newBackoff /\ origin' = newOrigin
       /\ UNCHANGED <<dispatched, failures>>

FirePaced(reason) == Fire(reason, backoff, Doubled, reason)

\* 1. The operator's poke bypasses every window.
Manual == Fire("manual", None, FirstDelay, "none")

\* Mutant of CrossSeed: failures are counted and never give up.
CrossSeedForEver ==
  \E failed \in SUBSET (Work \ dispatched) :
    /\ failures' = [t \in Torrents |-> IF t \in failed THEN failures[t] + 1 ELSE failures[t]]
    /\ dispatched' = dispatched \union (Work \ failed)
    /\ UNCHANGED <<pacing, ask>>

\* 2. Cross-seed what completed since: a failed child is retried at a later cycle, until
\* it has failed CrossSeedAttempts times.
CrossSeed ==
  \E failed \in SUBSET (Work \ dispatched) :
    /\ failures' = [t \in Torrents |-> IF t \in failed THEN failures[t] + 1 ELSE failures[t]]
    /\ dispatched' = dispatched \union
         {t \in Work : t \notin failed \/ failures'[t] = CrossSeedAttempts}
    /\ UNCHANGED <<pacing, ask>>

\* Mutant of Quiescence: the window is frozen while something downloads.
QuiescenceFrozen == NoAction

\* 3-gate. While something downloads the grace delay is cleared, not frozen.
Quiescence == window' = None /\ UNCHANGED <<backoff, origin, ask, dispatched, failures>>

\* 3a.
StartDebounce ==
  window' = Debounce /\ UNCHANGED <<backoff, origin, ask, dispatched, failures>>

\* Mutant of Completion: a window that expired is taken for no window.
CompletionExpired ==
  IF window \in {None, 0} THEN StartDebounce ELSE NoAction

\* 3a, 3b, 3c.
Completion ==
  CASE window = None -> StartDebounce
    [] window = 0    -> FirePaced("completion")
    [] OTHER         -> NoAction

\* 4. The work vanished: a completion's window goes, a safety net's window stays.
StaleWindow == window # None /\ origin # "safety_net"
ClearWindow ==
  /\ window' = None /\ backoff' = FirstDelay /\ origin' = "none"
  /\ UNCHANGED <<ask, dispatched, failures>>

Evaluate ==
  IF sentinel THEN Manual
  ELSE IF Work \ dispatched # {} THEN CrossSeed
  ELSE IF PipelineWork # {} THEN (IF arriving THEN Quiescence ELSE Completion)
  ELSE IF StaleWindow THEN ClearWindow
  ELSE IF Overdue(Seeded) /\ GateOpen THEN FirePaced("safety_net")
  ELSE NoAction

\* The cycle came to the quiescence gate, with something to hold back.
AtGate == ~sentinel /\ Work \subseteq dispatched /\ PipelineWork # {}

\* One watcher tick, up to the ask it decides.  A poll without an answer (polled is None)
\* skips it, the sentinel unread.
WatchCycle ==
  /\ holding /\ ~paused /\ ask = NoAsk
  /\ answering
  /\ since' = Seeded
  /\ Evaluate
  /\ lastGate' = IF arriving /\ AtGate THEN 0 ELSE lastGate
  /\ UNCHANGED <<world, queue, stored, holding, trouble, age, uninformed, lastFire, obtained,
                 owed, eaten>>

-----------------------------------------------------------------------------
(* The ask a cycle decided. *)

\* The ask joins a queued request or inserts one...
AskTaken ==
  /\ ask # NoAsk /\ ask.reason # Poked
  /\ queued' = queued \union {"pipeline"}
  /\ IF ask.reason = "manual"
       THEN ask' = [ask EXCEPT !.reason = Poked] /\ UNCHANGED <<lastFire, obtained>>
       ELSE ask' = NoAsk /\ lastFire' = 0 /\ obtained' = TRUE
  /\ UNCHANGED <<world, running, stored, holding, memory, trouble, age, uninformed, lastGate,
                 owed, eaten>>

\* ... and a manual one then unlinks watch.trigger, whoever wrote it last: a poke made since
\* is served by the run that waits, if none has started it meanwhile.
ConsumeSentinel ==
  /\ ask # NoAsk /\ ask.reason = Poked
  /\ sentinel' = FALSE
  /\ eaten' = (Poke \in owed /\ "pipeline" \notin queued)
  /\ obtained' = FALSE
  /\ ask' = NoAsk
  /\ UNCHANGED <<complete, arriving, answering, deferred, ingested, paused, queue, stored, holding,
                 memory, trouble, age, uninformed, lastGate, lastFire, owed>>

Troubled == trouble < MaxTrouble /\ trouble' = trouble + 1

\* Mutant of AskNotTaken: the window armed for the run is kept.
AskNotTakenStaysArmed ==
  /\ ask # NoAsk /\ Troubled
  /\ ask' = NoAsk
  /\ UNCHANGED <<world, queue, stored, holding, memory, history>>

\* Mutant of AskNotTaken: a poke that is refused is consumed all the same.
AskNotTakenEatsPoke ==
  /\ ask # NoAsk /\ Troubled
  /\ window' = ask.window /\ backoff' = ask.backoff /\ origin' = ask.origin
  /\ since' = ask.since
  /\ sentinel' = (sentinel /\ ask.reason # "manual")
  /\ ask' = NoAsk
  /\ UNCHANGED <<complete, arriving, answering, deferred, ingested, paused, queue, stored, holding,
                 dispatched, failures, history>>

\* Refused (AppForbidden) or raised, its own commit or the unlink after it: the memory is
\* what it was before the decision.
AskNotTaken ==
  /\ ask # NoAsk /\ Troubled
  /\ window' = ask.window /\ backoff' = ask.backoff /\ origin' = ask.origin
  /\ since' = ask.since
  /\ ask' = NoAsk
  /\ UNCHANGED <<world, queue, stored, holding, dispatched, failures, history>>

\* The process dies and another is started: it has what acquire.db has, when that can be
\* read.  The ask in flight was committed or was not; a sentinel not consumed yet stays.
Restart ==
  /\ Troubled
  /\ \/ UNCHANGED queued
     \/ ask # NoAsk /\ ask.reason # Poked /\ queued' = queued \union {"pipeline"}
  /\ ask' = NoAsk
  /\ window' = None /\ backoff' = FirstDelay /\ origin' = "none" /\ since' \in {stored, Never}
  /\ dispatched' = {} /\ failures' = [t \in Torrents |-> 0]
  /\ uninformed' = (since' # age) /\ obtained' = FALSE
  /\ UNCHANGED <<world, running, stored, holding, age, lastGate, lastFire, owed, eaten>>

\* Another supervisor takes the lease that this one let expire, and later gives it back.
LoseLease ==
  /\ holding /\ Troubled /\ holding' = FALSE
  /\ UNCHANGED <<world, queue, stored, memory, ask, history>>
TakeLease ==
  /\ ~holding /\ ask = NoAsk /\ holding' = TRUE
  /\ UNCHANGED <<world, queue, stored, memory, ask, trouble, history>>

-----------------------------------------------------------------------------
(* The queue and its runs.  The supervisor that holds the lease is the one thread  *)
(* that starts and settles: between its own cycles, or beside this one's ask when  *)
(* it is another.                                                                  *)

MayTick == ~holding \/ ask = NoAsk

WebAsks(kind) ==
  /\ Troubled
  /\ queued' = queued \union {kind}
  /\ UNCHANGED <<world, running, stored, holding, memory, ask, history>>

RunStarts(kind) ==
  /\ MayTick /\ kind \in queued /\ running = "nothing"
  /\ queued' = queued \ {kind} /\ running' = kind
  /\ owed' = IF kind = "pipeline" THEN owed \ ((complete \ deferred) \union {Poke}) ELSE owed
  /\ UNCHANGED <<world, stored, holding, memory, ask, trouble,
                 age, uninformed, lastGate, lastFire, obtained, eaten>>

\* The run's ingest forgets the torrents that left the client, and takes what it can of
\* the work; a torrent it moves leaves the client.
RunIngests ==
  /\ running = "pipeline"
  /\ \E taken \in SUBSET PipelineWork, left \in SUBSET (ingested \ complete) :
     \E moved \in SUBSET taken :
       /\ ingested' = (ingested \ left) \union taken
       /\ complete' = complete \ moved
       /\ owed' = owed \ taken
  /\ UNCHANGED <<arriving, answering, deferred, sentinel, paused, queue, stored, holding, memory, ask,
                 trouble, age, uninformed, lastGate, lastFire, obtained, eaten>>

\* Mutant of RunSucceeds: a success is persisted and not kept in memory.
RunSucceedsUnseen ==
  /\ MayTick /\ running = "pipeline" /\ running' = "nothing"
  /\ age' = 0
  /\ uninformed' = ~holding
  /\ stored' = 0
  /\ UNCHANGED <<world, queued, holding, memory, ask, trouble,
                 lastGate, lastFire, obtained, owed, eaten>>

\* A success reaches the memory of the supervisor that settles it, and acquire.db unless
\* the write fails.
RunSucceeds ==
  /\ MayTick /\ running = "pipeline" /\ running' = "nothing"
  /\ age' = 0
  /\ since' = IF holding THEN 0 ELSE since
  /\ uninformed' = ~holding
  /\ \/ stored' = 0 /\ UNCHANGED trouble
     \/ Troubled /\ UNCHANGED stored
  /\ UNCHANGED <<world, queued, holding, pacing, dispatched, failures, ask,
                 lastGate, lastFire, obtained, owed, eaten>>

\* It ended otherwise, or was of another kind.
RunEnds ==
  /\ MayTick /\ running # "nothing" /\ running' = "nothing"
  /\ UNCHANGED <<world, queued, stored, holding, memory, ask, trouble, history>>

-----------------------------------------------------------------------------
(* The world around it. *)

Rest == UNCHANGED <<queue, stored, holding, memory, ask,
                    age, uninformed, lastGate, lastFire, obtained>>

DownloadsChange ==
  /\ arriving' = ~arriving
  /\ UNCHANGED <<complete, answering, deferred, ingested, sentinel, paused, trouble, owed, eaten>>
  /\ Rest

\* The client stops answering, or the tracker's file cannot be read; and later can.
AnswersChange ==
  /\ answering' = ~answering
  /\ UNCHANGED <<complete, arriving, deferred, ingested, sentinel, paused, trouble, owed, eaten>>
  /\ Rest

TorrentCompletes(t) ==
  /\ arriving /\ arriving' \in BOOLEAN
  /\ t \notin complete /\ complete' = complete \union {t}
  /\ owed' = IF t \in ingested THEN owed ELSE owed \union {t}
  /\ UNCHANGED <<answering, deferred, ingested, sentinel, paused, trouble, eaten>> /\ Rest

TorrentRemoved(t) ==
  /\ t \in complete /\ complete' = complete \ {t}
  /\ owed' = owed \ {t}
  /\ UNCHANGED <<arriving, answering, deferred, ingested, sentinel, paused, trouble, eaten>> /\ Rest

DeferralChanges(t) ==
  /\ \/ t \notin deferred /\ deferred' = deferred \union {t} /\ Troubled
     \/ t \in deferred /\ deferred' = deferred \ {t} /\ UNCHANGED trouble
  /\ UNCHANGED <<complete, arriving, answering, ingested, sentinel, paused, owed, eaten>> /\ Rest

\* personalscraper watch-now.
WatchNow ==
  /\ sentinel' = TRUE /\ owed' = owed \union {Poke} /\ eaten' = FALSE
  /\ UNCHANGED <<complete, arriving, answering, deferred, ingested, paused, trouble>> /\ Rest

PauseChanges ==
  /\ paused' = ~paused
  /\ IF paused THEN UNCHANGED trouble ELSE Troubled
  /\ UNCHANGED <<complete, arriving, answering, deferred, ingested, sentinel, owed, eaten>> /\ Rest

\* A unit of time; a decision and its ask are in the same one.
TimePasses ==
  /\ ask = NoAsk
  /\ window' = IF window > 0 THEN window - 1 ELSE window
  /\ since' = Older(since, SafetyNet) /\ stored' = Older(stored, SafetyNet)
  /\ age' = Older(age, SafetyNet)
  /\ lastGate' = Older(lastGate, Debounce) /\ lastFire' = Older(lastFire, Debounce)
  /\ UNCHANGED <<world, queue, holding, backoff, origin, dispatched, failures, ask, trouble,
                 uninformed, obtained, owed, eaten>>

Environment ==
  \/ \E t \in Torrents : \/ TorrentCompletes(t) \/ TorrentRemoved(t)
                         \/ DeferralChanges(t)
  \/ DownloadsChange \/ AnswersChange \/ WatchNow \/ PauseChanges
  \/ \E kind \in {"pipeline", "other"} : WebAsks(kind)

Next ==
  \/ WatchCycle \/ AskTaken \/ ConsumeSentinel \/ AskNotTaken
  \/ Restart \/ LoseLease \/ TakeLease
  \/ \E kind \in {"pipeline", "other"} : RunStarts(kind)
  \/ RunIngests \/ RunSucceeds \/ RunEnds
  \/ TimePasses
  \/ Environment

Spec == Init /\ [][Next]_vars

\* The supervisor's loop keeps ticking (its manager restarts it), the lease of a holder
\* that left expires, a worker ends, and time passes.  Nothing is assumed of the client,
\* of the operator or of the web.
Fairness ==
  /\ WF_vars(WatchCycle) /\ WF_vars(AskTaken \/ ConsumeSentinel) /\ WF_vars(TakeLease)
  /\ WF_vars(\E kind \in {"pipeline", "other"} : RunStarts(kind))
  /\ WF_vars(RunEnds) /\ WF_vars(TimePasses)

FairSpec == Spec /\ Fairness

-----------------------------------------------------------------------------
(* What the watcher promises. *)

Decides(reason) == ask = NoAsk /\ ask' # NoAsk /\ ask'.reason = reason

\* The watcher paces itself (origin "completion" or "safety_net") only for a run it did
\* obtain: an ask refused or raised gives the trigger back (_watch_cycle).
PacesObtainedRuns == origin # "none" /\ ask = NoAsk => obtained

\* A completion is asked for only when a whole debounce has passed since the gate last saw
\* a download, and since the last automatic ask: clearing, restarting and settling in
\* between never shorten the grace delay (evaluate, branches 3-gate to 3c).  Where the
\* debounce is longer than the safety net, the window a fire arms is cut at the safety net
\* and may be read as the grace of a later completion: then the whole debounce is promised
\* only while no paced ask stands in the memory.
GraceRestarts ==
  [][Decides("completion") => /\ lastGate >= FirstDelay /\ lastFire >= FirstDelay
                              /\ origin = "none" => lastGate = Debounce]_vars

\* A safety-net run is asked for only when no run has succeeded for SafetyNet, except by
\* a supervisor whose memory misses a success (settled by another one, or not persisted
\* before a restart); and, while its own window stands, such a delay after the last one.
SafetyNetOverdue ==
  [][Decides("safety_net") => /\ Overdue(age) \/ uninformed
                              /\ window = None \/ lastFire >= FirstDelay]_vars

\* Nothing lasting holds the watcher back.
Quiet == answering /\ ~arriving /\ ~paused /\ deferred = {}

\* Every completion is in the end served by a run that starts after it, through refused
\* asks, failed runs, restarts and lost leases, if the client answers and falls quiet.
EveryCompletionServed == \A t \in Torrents : []<>(t \notin owed \/ ~Quiet)

\* So is every poke of the operator, whatever downloads, unless the watcher is paused or
\* its polls have no answer, and except one made while the run of an earlier poke was
\* already started but the earlier sentinel not yet unlinked (supervisor.py:765).
EveryPokeServed == []<>(Poke \notin owed \/ paused \/ ~answering \/ eaten)

\* However often its runs fail, an overdue library is asked for again and again.
SafetyNetLives ==
  []<>(~Overdue(since) \/ "pipeline" \in queued \/ running = "pipeline" \/ ~Quiet)
=============================================================================
