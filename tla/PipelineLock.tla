---------------------------- MODULE PipelineLock ----------------------------
(***************************************************************************)
(* The PID lock files of personalscraper/lock.py, one file-system call per *)
(* step.                                                                   *)
(*                                                                         *)
(* A global holder (the worker of a run, a CLI step, a maintenance         *)
(* command) claims pipeline.lock and then probes the scrape locks; a       *)
(* scrape-resolve claims the lock of its staging item and then probes      *)
(* pipeline.lock.  Both claim with acquire_lock: look at the file, judge   *)
(* the pid it holds, remove it when that pid is dead or unreadable, create *)
(* it with O_EXCL, and only then write the pid into it.                    *)
(*                                                                         *)
(* Every process makes one attempt, as a worker or a CLI command does, and *)
(* may be killed at any step; a killed process leaves its file behind.     *)
(* Any file-system call may raise: a process whose claim is on disk by     *)
(* then, and whose code does not undo it, goes on with its file left there *)
(* (pc "leaked").                                                          *)
(***************************************************************************)
EXTENDS FiniteSets

CONSTANTS
  Runs,          \* processes that take pipeline.lock
  Resolves,      \* processes that take the lock of one staging item
  ItemOf,        \* the item lock of each of Resolves
  PipelineLock,  \* the file pipeline.lock
  NoProc         \* stands for an absent file, and for a pid never read

ItemLocks == {ItemOf[p] : p \in Resolves}
Procs == Runs \union Resolves
Locks == ItemLocks \union {PipelineLock}

ASSUME LockAssumption ==
  /\ Runs \intersect Resolves = {}
  /\ PipelineLock \notin ItemLocks
  /\ NoProc \notin Procs

VARIABLES
  creator,  \* creator[l]: the process whose O_EXCL made the file on disk
  written,  \* written[l]: whether that process has written its pid into it
  pc,       \* where each process stands in acquire_* / release_*
  seen,     \* seen[p]: the pid p read from the file it is judging
  toScan,   \* toScan[p]: the files p's post-claim check still has to probe
  robbed,   \* history: processes whose file another one unlinked while they ran
  alone     \* history: the process that started, and has been, the only one alive

vars == <<creator, written, pc, seen, toScan, robbed, alone>>

Own(p) == IF p \in Runs THEN PipelineLock ELSE ItemOf[p]

\* os.kill(pid, 0) finds the process: it has started, and has not exited.
Live(p) == pc[p] \notin {"idle", "gone"}

\* The process has created its file and has not yet unlinked it.
Claimed(p) ==
  pc[p] \in {"write", "list", "scan", "probe", "held", "backoff", "unwind"}

PCs == {"idle", "exists", "read", "kill", "unlink", "create", "write", "list",
        "scan", "probe", "backoff", "unwind", "held", "refused", "raised",
        "leaked", "done", "gone"}

TypeOK ==
  /\ creator \in [Locks -> Procs \union {NoProc}]
  /\ written \in [Locks -> BOOLEAN]
  /\ pc \in [Procs -> PCs]
  /\ seen \in [Procs -> Procs \union {NoProc}]
  /\ toScan \in [Procs -> SUBSET Locks]
  /\ robbed \subseteq Procs
  /\ alone \subseteq Procs

Init ==
  /\ creator = [l \in Locks |-> NoProc]
  /\ written = [l \in Locks |-> FALSE]
  /\ pc = [p \in Procs |-> "idle"]
  /\ seen = [p \in Procs |-> NoProc]
  /\ toScan = [p \in Procs |-> {}]
  /\ robbed = {}
  /\ alone = {}

Goto(p, label) == pc' = [pc EXCEPT ![p] = label]

\* unlink(missing_ok=True): whatever file bears the name goes, whoever made it.
RemoveFile(l, p) ==
  /\ creator' = [creator EXCEPT ![l] = NoProc]
  /\ robbed' = robbed \union {q \in Procs \ {p} : creator[l] = q /\ Live(q)}

-----------------------------------------------------------------------------
(* acquire_lock *)

Start(p) ==
  /\ pc[p] = "idle"
  /\ Goto(p, "exists")
  /\ alone' = IF \E q \in Procs : Live(q) THEN {} ELSE {p}
  /\ UNCHANGED <<creator, written, seen, toScan, robbed>>

\* lock_file.exists()
Exists(p) ==
  /\ pc[p] = "exists"
  /\ Goto(p, IF creator[Own(p)] = NoProc THEN "create" ELSE "read")
  /\ UNCHANGED <<creator, written, seen, toScan, robbed, alone>>

\* int(lock_file.read_text()): a file gone meanwhile raises FileNotFoundError,
\* which nothing catches; an empty one is a ValueError, "corrupt".
ReadPid(p) ==
  LET l == Own(p) IN
  /\ pc[p] = "read"
  /\ \/ /\ creator[l] = NoProc
        /\ Goto(p, "raised")
        /\ seen' = seen
     \/ /\ creator[l] # NoProc /\ ~written[l]
        /\ Goto(p, "unlink")
        /\ seen' = seen
     \/ /\ creator[l] # NoProc /\ written[l]
        /\ Goto(p, "kill")
        /\ seen' = [seen EXCEPT ![p] = creator[l]]
  /\ UNCHANGED <<creator, written, toScan, robbed, alone>>

\* Mutant of JudgePid: any pid found in the file counts as a live holder.
JudgePidAlwaysHeld(p) ==
  /\ pc[p] = "kill"
  /\ Goto(p, "refused")
  /\ UNCHANGED <<creator, written, seen, toScan, robbed, alone>>

\* os.kill(stored_pid, 0)
JudgePid(p) ==
  /\ pc[p] = "kill"
  /\ Goto(p, IF Live(seen[p]) THEN "refused" ELSE "unlink")
  /\ UNCHANGED <<creator, written, seen, toScan, robbed, alone>>

UnlinkStale(p) ==
  /\ pc[p] = "unlink"
  /\ RemoveFile(Own(p), p)
  /\ Goto(p, "create")
  /\ UNCHANGED <<written, seen, toScan, alone>>

\* Mutant of CreateFile: a lost race is cleaned up by the release path.
CreateFileThenRelease(p) ==
  LET l == Own(p) IN
  /\ pc[p] = "create"
  /\ IF creator[l] = NoProc
       THEN /\ creator' = [creator EXCEPT ![l] = p]
            /\ written' = [written EXCEPT ![l] = FALSE]
            /\ Goto(p, "write")
       ELSE Goto(p, "backoff") /\ UNCHANGED <<creator, written>>
  /\ UNCHANGED <<seen, toScan, robbed, alone>>

\* os.open(O_CREAT | O_EXCL): the file exists, empty, until WritePid.
CreateFile(p) ==
  LET l == Own(p) IN
  /\ pc[p] = "create"
  /\ \/ /\ creator[l] = NoProc
        /\ creator' = [creator EXCEPT ![l] = p]
        /\ written' = [written EXCEPT ![l] = FALSE]
        /\ Goto(p, "write")
     \/ /\ creator[l] # NoProc
        /\ Goto(p, "refused")
        /\ UNCHANGED <<creator, written>>
  /\ UNCHANGED <<seen, toScan, robbed, alone>>

\* os.write(fd): it reaches the file on disk only while that is still p's own.
WritePid(p) ==
  LET l == Own(p) IN
  /\ pc[p] = "write"
  /\ written' = [written EXCEPT ![l] = (creator[l] = p) \/ @]
  /\ Goto(p, "list")
  /\ UNCHANGED <<creator, seen, toScan, robbed, alone>>

\* A call of acquire_lock raises before the file is made: nothing catches it.
ClaimRaises(p) ==
  /\ pc[p] \in {"exists", "read", "kill", "unlink", "create"}
  /\ Goto(p, "raised")
  /\ UNCHANGED <<creator, written, seen, toScan, robbed, alone>>

\* os.write or os.close raises (a full disk): only FileExistsError is caught, so the
\* file stays, empty or with the pid already in it.
WriteRaises(p) ==
  LET l == Own(p) IN
  /\ pc[p] = "write"
  /\ written' \in {written, [written EXCEPT ![l] = (creator[l] = p) \/ @]}
  /\ Goto(p, "leaked")
  /\ UNCHANGED <<creator, seen, toScan, robbed, alone>>

-----------------------------------------------------------------------------
(* The post-claim check of acquire_pipeline_lock and acquire_scrape_resolve_lock *)

\* Mutant of Rivals: a resolve trusts its own claim and probes nothing.
RivalsOfRunsOnly(p) ==
  IF p \in Runs THEN {l \in ItemLocks : creator[l] # NoProc} ELSE {}

\* Mutant of Rivals: the glob yields the holders instead of their files.
RivalsAsHolders(p) == {creator[l] : l \in Locks}

\* A global holder globs the item locks on disk; a resolve has one file to probe.
Rivals(p) ==
  IF p \in Runs THEN {l \in ItemLocks : creator[l] # NoProc} ELSE {PipelineLock}

ListRivals(p) ==
  /\ pc[p] = "list"
  /\ toScan' = [toScan EXCEPT ![p] = Rivals(p)]
  /\ Goto(p, "scan")
  /\ UNCHANGED <<creator, written, seen, robbed, alone>>

\* is_lock_held, up to the pid: a missing or empty file is not held.
ScanRead(p) ==
  /\ pc[p] = "scan"
  /\ \E l \in toScan[p] :
       /\ toScan' = [toScan EXCEPT ![p] = @ \ {l}]
       /\ IF creator[l] # NoProc /\ written[l]
            THEN Goto(p, "probe") /\ seen' = [seen EXCEPT ![p] = creator[l]]
            ELSE UNCHANGED <<pc, seen>>
  /\ UNCHANGED <<creator, written, robbed, alone>>

\* is_lock_held, its os.kill.
ScanProbe(p) ==
  /\ pc[p] = "probe"
  /\ Goto(p, IF Live(seen[p]) THEN "backoff" ELSE "scan")
  /\ UNCHANGED <<creator, written, seen, toScan, robbed, alone>>

\* The probe raises.  any_scrape_resolve_active is called in a try: the claim of a
\* global holder is released, the error re-raised.  A resolve calls is_lock_held bare.
ScanRaises(p) ==
  /\ pc[p] \in {"list", "scan", "probe"}
  /\ Goto(p, IF p \in Runs THEN "unwind" ELSE "leaked")
  /\ UNCHANGED <<creator, written, seen, toScan, robbed, alone>>

Granted(p) ==
  /\ pc[p] = "scan"
  /\ toScan[p] = {}
  /\ Goto(p, "held")
  /\ UNCHANGED <<creator, written, seen, toScan, robbed, alone>>

-----------------------------------------------------------------------------
(* release_lock, and the end of a process *)

\* Mutant of Release: backing off returns without releasing the claim.
ReleaseLeaksOnBackoff(p) ==
  /\ \/ pc[p] = "held" /\ Goto(p, "done") /\ RemoveFile(Own(p), p)
     \/ pc[p] = "backoff" /\ Goto(p, "refused") /\ UNCHANGED <<creator, robbed>>
     \/ pc[p] = "unwind" /\ Goto(p, "raised") /\ RemoveFile(Own(p), p)
  /\ UNCHANGED <<written, seen, toScan, alone>>

Release(p) ==
  /\ \/ pc[p] = "held" /\ Goto(p, "done")
     \/ pc[p] = "backoff" /\ Goto(p, "refused")
     \/ pc[p] = "unwind" /\ Goto(p, "raised")
  /\ RemoveFile(Own(p), p)
  /\ UNCHANGED <<written, seen, toScan, alone>>

\* The unlink of release_lock raises.
ReleaseRaises(p) ==
  /\ pc[p] \in {"held", "backoff", "unwind"}
  /\ Goto(p, "leaked")
  /\ UNCHANGED <<creator, written, seen, toScan, robbed, alone>>

\* The process is over: of itself, or killed at any step, its file left behind.
Exit(p) ==
  /\ Live(p)
  /\ Goto(p, "gone")
  /\ UNCHANGED <<creator, written, seen, toScan, robbed, alone>>

Step(p) ==
  \/ Start(p) \/ Exists(p) \/ ReadPid(p) \/ JudgePid(p) \/ UnlinkStale(p)
  \/ CreateFile(p) \/ WritePid(p) \/ ClaimRaises(p) \/ WriteRaises(p)
  \/ ListRivals(p) \/ ScanRead(p) \/ ScanProbe(p) \/ ScanRaises(p) \/ Granted(p)
  \/ Release(p) \/ ReleaseRaises(p) \/ Exit(p)

Next == \E p \in Procs : Step(p)

Spec == Init /\ [][Next]_vars

-----------------------------------------------------------------------------
(* Properties *)

\* Two attempts that must not both succeed: the same file, or one of each tier.
Exclude(p, q) == p # q /\ (Own(p) = Own(q) \/ (p \in Runs) # (q \in Runs))

\* The claim of lock.py's docstring (lines 13-28): at most one global holder, none
\* beside a resolve, one resolve per item, in any interleaving.  The code does not
\* keep it: acquire_lock may unlink the file of a live process.
TwoTierExclusion ==
  \A p, q \in Procs : Exclude(p, q) => ~(pc[p] = "held" /\ pc[q] = "held")

\* What the code does keep: two holders that exclude each other are only ever seen
\* after the file of one of them was unlinked while it lived, by the stale-lock
\* cleanup of another process or the release of a robbed one.  The claim-then-verify
\* order of the two acquire_*_lock functions adds no other way in, whatever is
\* killed, and whatever empty or stale file is on disk.
OverlapOnlyAfterTheft ==
  \A p, q \in Procs :
    Exclude(p, q) /\ pc[p] = "held" /\ pc[q] = "held" => {p, q} \intersect robbed # {}

\* An attempt that was refused, one whose error found no claim or undid it, and a
\* release leave no file of the process on disk: not the back-off, not a probe of a
\* global holder that raises (SF5 in acquire_pipeline_lock), not a claim whose file
\* was stolen on the way.  Three errors do leave it (pc "leaked"): of the write of the
\* pid, of the probe of a resolve, and of the unlink itself, although lock.py:226-227
\* says that no exception path does.
NothingLeaked ==
  \A p \in Procs : pc[p] \in {"refused", "raised", "done"}
                     => \A l \in Locks : creator[l] # p

\* release_lock unlinks by name and asks nothing, yet a process that still owns its
\* file never takes another one's: only a process robbed before can rob by releasing.
OwnersStealNothing ==
  [][\A p \in Procs \ robbed : Release(p) => robbed' = robbed]_vars

\* Whatever killed processes left on disk, full or empty files of either tier, an
\* attempt made while no other process is alive is not refused.
LoneAttemptNotRefused == \A p \in alone : pc[p] # "refused"
=============================================================================
