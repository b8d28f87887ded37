------------------------- MODULE PipelineLockProofs -------------------------
(***************************************************************************)
(* Theorems about the lock files, for every number of processes and items. *)
(*                                                                         *)
(* The argument: while nobody has stolen it, the file of a process that    *)
(* claimed is the one on disk, pid written (FileOwned).  So of two         *)
(* processes of different tiers, the one that looks second finds the other *)
(* one's file: they cannot both have passed the other by (NotBothPast).    *)
(***************************************************************************)
EXTENDS PipelineLock, TLAPS

\* An unrobbed claim owns the file of its name, with its pid in it once written.
FileOwned ==
  \A p \in Procs \ robbed :
    Claimed(p) => /\ creator[Own(p)] = p
                  /\ pc[p] # "write" => written[Own(p)]

\* A file is made by a process that uses its name, and is still claimed, or leaked, or
\* its maker is over.
FileMade ==
  \A p \in Procs, l \in Locks :
    creator[l] = p => l = Own(p) /\ (Claimed(p) \/ pc[p] \in {"leaked", "gone"})

\* p's post-claim check is past the file of q and did not see q in it.
Past(p, q) ==
  /\ pc[p] \in {"scan", "probe", "held"}
  /\ Own(q) \notin toScan[p]
  /\ pc[p] = "probe" => seen[p] # q

NotBothPast ==
  \A p \in Runs \ robbed, q \in Resolves \ robbed : ~(Past(p, q) /\ Past(q, p))

ScanOver == \A p \in Procs : pc[p] = "held" => toScan[p] = {}

LockInv == TypeOK /\ FileOwned /\ FileMade /\ NotBothPast /\ ScanOver

-----------------------------------------------------------------------------

\* The name a process claims is a lock file, and never one of the other tier.
LEMMA OwnType ==
  /\ \A p \in Procs : Own(p) \in Locks
  /\ \A p \in Runs : Own(p) = PipelineLock
  /\ \A p \in Resolves : Own(p) \in ItemLocks /\ Own(p) # PipelineLock
  BY LockAssumption DEF Own, Procs, Locks, ItemLocks

\* The state of every lock file and process stays of its type.
LEMMA TypeInit == Init => TypeOK
  BY DEF Init, TypeOK, PCs

\* Every step of every process keeps the types.
LEMMA TypeStep == TypeOK /\ [Next]_vars => TypeOK'
  <1> SUFFICES ASSUME TypeOK, [Next]_vars PROVE TypeOK'
    OBVIOUS
  <1> USE OwnType DEF TypeOK, PCs, Goto
  <1>1. CASE UNCHANGED vars
    BY <1>1 DEF vars
  <1>2. ASSUME NEW p \in Procs, Step(p) PROVE TypeOK'
    <2>1. CASE Start(p)
      BY <2>1 DEF Start
    <2>2. CASE Exists(p)
      BY <2>2 DEF Exists
    <2>3. CASE ReadPid(p)
      BY <2>3 DEF ReadPid
    <2>4. CASE JudgePid(p)
      BY <2>4 DEF JudgePid
    <2>5. CASE UnlinkStale(p)
      BY <2>5 DEF UnlinkStale, RemoveFile
    <2>6. CASE CreateFile(p)
      <3>1. CASE pc[p] = "create" /\ creator[Own(p)] = NoProc
        <4>1. /\ creator' = [creator EXCEPT ![Own(p)] = p]
              /\ written' = [written EXCEPT ![Own(p)] = FALSE]
              /\ Goto(p, "write")
              /\ UNCHANGED <<seen, toScan, robbed, alone>>
          BY <2>6, <3>1 DEF CreateFile
        <4>2. QED
          BY <4>1
      <3>2. CASE creator[Own(p)] # NoProc
        BY <2>6, <3>2 DEF CreateFile
      <3>3. QED
        BY <2>6, <3>1, <3>2 DEF CreateFile
    <2>7. CASE WritePid(p)
      BY <2>7 DEF WritePid
    <2>8. CASE ListRivals(p)
      <3>1. Rivals(p) \in SUBSET Locks
        BY DEF Rivals, Locks
      <3>2. QED
        BY <2>8, <3>1 DEF ListRivals
    <2>9. CASE ScanRead(p)
      BY <2>9 DEF ScanRead
    <2>10. CASE ScanProbe(p)
      BY <2>10 DEF ScanProbe
    <2>11. CASE ScanRaises(p)
      BY <2>11 DEF ScanRaises
    <2>12. CASE Granted(p)
      BY <2>12 DEF Granted
    <2>13. CASE Release(p)
      BY <2>13 DEF Release, RemoveFile
    <2>14. CASE Exit(p)
      BY <2>14 DEF Exit
    <2>15. CASE ClaimRaises(p)
      BY <2>15 DEF ClaimRaises
    <2>16. CASE WriteRaises(p)
      BY <2>16 DEF WriteRaises
    <2>17. CASE ReleaseRaises(p)
      BY <2>17 DEF ReleaseRaises
    <2>18. QED
      BY <1>2, <2>1, <2>2, <2>3, <2>4, <2>5, <2>6, <2>7, <2>8, <2>9, <2>10,
         <2>11, <2>12, <2>13, <2>14, <2>15, <2>16, <2>17 DEF Step
  <1>3. QED
    BY <1>1, <1>2 DEF Next

\* Type correctness of PipelineLock, for every set of processes and files.
THEOREM LockTypeCorrect == Spec => []TypeOK
  BY TypeInit, TypeStep, PTL DEF Spec
-----------------------------------------------------------------------------

\* A step of any process leaves an unrobbed claim in possession of its file.
LEMMA FileOwnedStep == TypeOK /\ FileOwned /\ [Next]_vars => FileOwned'
  <1> SUFFICES ASSUME TypeOK, FileOwned, [Next]_vars PROVE FileOwned'
    OBVIOUS
  <1> USE OwnType, LockAssumption DEF TypeOK, FileOwned, Claimed, Goto, Live
  <1>1. CASE UNCHANGED vars
    BY <1>1 DEF vars
  <1>2. ASSUME NEW a \in Procs, Step(a) PROVE FileOwned'
    <2>1. CASE Start(a)
      BY <2>1 DEF Start
    <2>2. CASE Exists(a)
      BY <2>2 DEF Exists
    <2>3. CASE ReadPid(a)
      BY <2>3 DEF ReadPid
    <2>4. CASE JudgePid(a)
      BY <2>4 DEF JudgePid
    <2>5. CASE UnlinkStale(a)
      BY <2>5 DEF UnlinkStale, RemoveFile
    <2>6. CASE CreateFile(a)
      BY <2>6 DEF CreateFile
    <2>7. CASE WritePid(a)
      BY <2>7 DEF WritePid
    <2>8. CASE ListRivals(a)
      BY <2>8 DEF ListRivals
    <2>9. CASE ScanRead(a)
      BY <2>9 DEF ScanRead
    <2>10. CASE ScanProbe(a)
      BY <2>10 DEF ScanProbe
    <2>11. CASE ScanRaises(a)
      BY <2>11 DEF ScanRaises
    <2>12. CASE Granted(a)
      BY <2>12 DEF Granted
    <2>13. CASE Release(a)
      BY <2>13 DEF Release, RemoveFile
    <2>14. CASE Exit(a)
      BY <2>14 DEF Exit
    <2>15. CASE ClaimRaises(a)
      BY <2>15 DEF ClaimRaises
    <2>16. CASE WriteRaises(a)
      BY <2>16 DEF WriteRaises
    <2>17. CASE ReleaseRaises(a)
      BY <2>17 DEF ReleaseRaises
    <2>18. QED
      BY <1>2, <2>1, <2>2, <2>3, <2>4, <2>5, <2>6, <2>7, <2>8, <2>9, <2>10,
         <2>11, <2>12, <2>13, <2>14, <2>15, <2>16, <2>17 DEF Step
  <1>3. QED
    BY <1>1, <1>2 DEF Next

\* A file's maker keeps its claim for as long as the file is there, or dies with it.
LEMMA FileMadeStep == TypeOK /\ FileMade /\ [Next]_vars => FileMade'
  <1> SUFFICES ASSUME TypeOK, FileMade, [Next]_vars PROVE FileMade'
    OBVIOUS
  <1> USE OwnType, LockAssumption DEF TypeOK, FileMade, Claimed, Goto, Live
  <1>1. CASE UNCHANGED vars
    BY <1>1 DEF vars
  <1>2. ASSUME NEW a \in Procs, Step(a) PROVE FileMade'
    <2>1. CASE Start(a)
      BY <2>1 DEF Start
    <2>2. CASE Exists(a)
      BY <2>2 DEF Exists
    <2>3. CASE ReadPid(a)
      BY <2>3 DEF ReadPid
    <2>4. CASE JudgePid(a)
      BY <2>4 DEF JudgePid
    <2>5. CASE UnlinkStale(a)
      BY <2>5 DEF UnlinkStale, RemoveFile
    <2>6. CASE CreateFile(a)
      BY <2>6 DEF CreateFile
    <2>7. CASE WritePid(a)
      BY <2>7 DEF WritePid
    <2>8. CASE ListRivals(a)
      BY <2>8 DEF ListRivals
    <2>9. CASE ScanRead(a)
      BY <2>9 DEF ScanRead
    <2>10. CASE ScanProbe(a)
      BY <2>10 DEF ScanProbe
    <2>11. CASE ScanRaises(a)
      BY <2>11 DEF ScanRaises
    <2>12. CASE Granted(a)
      BY <2>12 DEF Granted
    <2>13. CASE Release(a)
      BY <2>13 DEF Release, RemoveFile
    <2>14. CASE Exit(a)
      BY <2>14 DEF Exit
    <2>15. CASE ClaimRaises(a)
      BY <2>15 DEF ClaimRaises
    <2>16. CASE WriteRaises(a)
      BY <2>16 DEF WriteRaises
    <2>17. CASE ReleaseRaises(a)
      BY <2>17 DEF ReleaseRaises
    <2>18. QED
      BY <1>2, <2>1, <2>2, <2>3, <2>4, <2>5, <2>6, <2>7, <2>8, <2>9, <2>10,
         <2>11, <2>12, <2>13, <2>14, <2>15, <2>16, <2>17 DEF Step
  <1>3. QED
    BY <1>1, <1>2 DEF Next

\* A lock is granted only once every rival file was probed.
LEMMA ScanOverStep == TypeOK /\ ScanOver /\ [Next]_vars => ScanOver'
  <1> SUFFICES ASSUME TypeOK, ScanOver, [Next]_vars PROVE ScanOver'
    OBVIOUS
  <1> USE DEF TypeOK, ScanOver, Goto
  <1>1. CASE UNCHANGED vars
    BY <1>1 DEF vars
  <1>2. ASSUME NEW a \in Procs, Step(a) PROVE ScanOver'
    <2>1. CASE Start(a)
      BY <2>1 DEF Start
    <2>2. CASE Exists(a)
      BY <2>2 DEF Exists
    <2>3. CASE ReadPid(a)
      BY <2>3 DEF ReadPid
    <2>4. CASE JudgePid(a)
      BY <2>4 DEF JudgePid
    <2>5. CASE UnlinkStale(a)
      BY <2>5 DEF UnlinkStale, RemoveFile
    <2>6. CASE CreateFile(a)
      BY <2>6 DEF CreateFile
    <2>7. CASE WritePid(a)
      BY <2>7 DEF WritePid
    <2>8. CASE ListRivals(a)
      BY <2>8 DEF ListRivals
    <2>9. CASE ScanRead(a)
      BY <2>9 DEF ScanRead
    <2>10. CASE ScanProbe(a)
      BY <2>10 DEF ScanProbe
    <2>11. CASE ScanRaises(a)
      BY <2>11 DEF ScanRaises
    <2>12. CASE Granted(a)
      BY <2>12 DEF Granted
    <2>13. CASE Release(a)
      BY <2>13 DEF Release, RemoveFile
    <2>14. CASE Exit(a)
      BY <2>14 DEF Exit
    <2>15. CASE ClaimRaises(a)
      BY <2>15 DEF ClaimRaises
    <2>16. CASE WriteRaises(a)
      BY <2>16 DEF WriteRaises
    <2>17. CASE ReleaseRaises(a)
      BY <2>17 DEF ReleaseRaises
    <2>18. QED
      BY <1>2, <2>1, <2>2, <2>3, <2>4, <2>5, <2>6, <2>7, <2>8, <2>9, <2>10,
         <2>11, <2>12, <2>13, <2>14, <2>15, <2>16, <2>17 DEF Step
  <1>3. QED
    BY <1>1, <1>2 DEF Next

\* Of two unrobbed processes of different tiers, at most one is past the other's file.
LEMMA NotBothPastStep == TypeOK /\ FileOwned /\ NotBothPast /\ [Next]_vars => NotBothPast'
  <1> SUFFICES ASSUME TypeOK, FileOwned, NotBothPast, [Next]_vars PROVE NotBothPast'
    OBVIOUS
  <1> USE OwnType, LockAssumption DEF TypeOK, NotBothPast, Past, Goto, Procs
  <1>1. CASE UNCHANGED vars
    BY <1>1 DEF vars
  <1>2. ASSUME NEW a \in Procs, Step(a) PROVE NotBothPast'
    <2>1. CASE Start(a)
      BY <2>1 DEF Start
    <2>2. CASE Exists(a)
      BY <2>2 DEF Exists
    <2>3. CASE ReadPid(a)
      BY <2>3 DEF ReadPid
    <2>4. CASE JudgePid(a)
      BY <2>4 DEF JudgePid
    <2>5. CASE UnlinkStale(a)
      BY <2>5 DEF UnlinkStale, RemoveFile
    <2>6. CASE CreateFile(a)
      BY <2>6 DEF CreateFile
    <2>7. CASE WritePid(a)
      BY <2>7 DEF WritePid
    <2>8. CASE ListRivals(a)
      BY <2>8 DEF ListRivals, Rivals, FileOwned, Claimed
    <2>9. CASE ScanRead(a)
      BY <2>9 DEF ScanRead, FileOwned, Claimed
    <2>10. CASE ScanProbe(a)
      BY <2>10 DEF ScanProbe, Live
    <2>11. CASE ScanRaises(a)
      BY <2>11 DEF ScanRaises
    <2>12. CASE Granted(a)
      BY <2>12 DEF Granted
    <2>13. CASE Release(a)
      BY <2>13 DEF Release, RemoveFile
    <2>14. CASE Exit(a)
      BY <2>14 DEF Exit
    <2>15. CASE ClaimRaises(a)
      BY <2>15 DEF ClaimRaises
    <2>16. CASE WriteRaises(a)
      BY <2>16 DEF WriteRaises
    <2>17. CASE ReleaseRaises(a)
      BY <2>17 DEF ReleaseRaises
    <2>18. QED
      BY <1>2, <2>1, <2>2, <2>3, <2>4, <2>5, <2>6, <2>7, <2>8, <2>9, <2>10,
         <2>11, <2>12, <2>13, <2>14, <2>15, <2>16, <2>17 DEF Step
  <1>3. QED
    BY <1>1, <1>2 DEF Next

\* The invariant holds before any process starts, and every step keeps it.
LEMMA LockInvInit == Init => LockInv
  <1> SUFFICES ASSUME Init PROVE LockInv
    OBVIOUS
  <1>1. FileMade
    BY LockAssumption DEF Init, FileMade
  <1>2. FileOwned /\ ScanOver
    BY DEF Init, FileOwned, ScanOver, Claimed
  <1>3. NotBothPast
    BY DEF Init, NotBothPast, Past, Procs
  <1>4. QED
    BY TypeInit, <1>1, <1>2, <1>3 DEF LockInv

\* The invariant is preserved, one lemma per conjunct.
LEMMA LockInvStep == LockInv /\ [Next]_vars => LockInv'
  BY TypeStep, FileOwnedStep, FileMadeStep, NotBothPastStep, ScanOverStep DEF LockInv

\* The invariant holds in every reachable state.
LEMMA LockInvAlways == Spec => []LockInv
  BY LockInvInit, LockInvStep, PTL DEF Spec

\* For any number of processes and items: two holders that exclude each other are
\* only seen after one of their files was unlinked while its process lived.
THEOREM ExclusionUnlessTheft == Spec => []OverlapOnlyAfterTheft
  <1>1. LockInv => OverlapOnlyAfterTheft
    <2> SUFFICES ASSUME LockInv, NEW p \in Procs \ robbed, NEW q \in Procs \ robbed,
                        Exclude(p, q), pc[p] = "held", pc[q] = "held"
                 PROVE FALSE
      BY DEF OverlapOnlyAfterTheft
    <2>1. CASE Own(p) = Own(q)
      BY <2>1 DEF LockInv, FileOwned, Claimed, Exclude
    <2>2. CASE (p \in Runs) # (q \in Runs)
      <3>1. Past(p, q) /\ Past(q, p)
        BY DEF Past, LockInv, ScanOver
      <3>2. QED
        BY <2>2, <3>1 DEF LockInv, NotBothPast, Procs
    <2>3. QED
      BY <2>1, <2>2 DEF Exclude
  <1>2. QED
    BY LockInvAlways, <1>1, PTL

\* For any number of processes and items: an attempt that is over left no file.
THEOREM NoFileLeaked == Spec => []NothingLeaked
  <1>1. LockInv => NothingLeaked
    BY DEF LockInv, FileMade, NothingLeaked, Claimed
  <1>2. QED
    BY LockInvAlways, <1>1, PTL

\* For any number of processes and items: releasing a lock one still owns takes
\* no other process's file.
THEOREM ReleaseIsSafe == Spec => OwnersStealNothing
  <1>1. LockInv /\ [Next]_vars => [\A p \in Procs \ robbed : Release(p) => robbed' = robbed]_vars
    <2> SUFFICES ASSUME LockInv, NEW p \in Procs \ robbed, Release(p)
                 PROVE robbed' = robbed
      OBVIOUS
    <2>1. creator[Own(p)] = p
      BY DEF LockInv, FileOwned, Claimed, Release
    <2>2. {q \in Procs \ {p} : creator[Own(p)] = q /\ Live(q)} = {}
      BY <2>1
    <2>3. QED
      BY <2>2 DEF Release, RemoveFile
  <1>2. QED
    BY LockInvAlways, <1>1, PTL DEF Spec, OwnersStealNothing

-----------------------------------------------------------------------------

\* The attempt that found nobody alive still has nobody beside it; the pid it judges is a
\* dead one, the name it is about to create is free, and no file it probes is its own.
LoneAttempt ==
  \A p \in alone :
    /\ Live(p) => \A q \in Procs \ {p} : ~Live(q)
    /\ pc[p] \notin {"backoff", "refused"}
    /\ pc[p] \in {"kill", "probe"} => seen[p] \in Procs \ {p}
    /\ pc[p] = "create" => creator[Own(p)] = NoProc
    /\ pc[p] \in {"scan", "probe"} => Own(p) \notin toScan[p]

\* No step of it, and no start of another process, takes that from a lone attempt.
LEMMA LoneAttemptStep ==
  TypeOK /\ FileMade /\ LoneAttempt /\ [Next]_vars => LoneAttempt'
  <1> SUFFICES ASSUME TypeOK, FileMade, LoneAttempt, [Next]_vars PROVE LoneAttempt'
    OBVIOUS
  <1> USE OwnType, LockAssumption DEF TypeOK, LoneAttempt, Goto, Live
  <1>1. CASE UNCHANGED vars
    BY <1>1 DEF vars
  <1>2. ASSUME NEW a \in Procs, Step(a) PROVE LoneAttempt'
    <2>1. CASE Start(a)
      BY <2>1 DEF Start
    <2>2. CASE Exists(a)
      BY <2>2 DEF Exists
    <2>3. CASE ReadPid(a)
      BY <2>3 DEF ReadPid, FileMade, Claimed
    <2>4. CASE JudgePid(a)
      BY <2>4 DEF JudgePid
    <2>5. CASE UnlinkStale(a)
      BY <2>5 DEF UnlinkStale, RemoveFile
    <2>6. CASE CreateFile(a)
      BY <2>6 DEF CreateFile
    <2>7. CASE WritePid(a)
      BY <2>7 DEF WritePid
    <2>8. CASE ListRivals(a)
      BY <2>8 DEF ListRivals, Rivals, Procs
    <2>9. CASE ScanRead(a)
      BY <2>9 DEF ScanRead, FileMade
    <2>10. CASE ScanProbe(a)
      BY <2>10 DEF ScanProbe
    <2>11. CASE ScanRaises(a)
      BY <2>11 DEF ScanRaises
    <2>12. CASE Granted(a)
      BY <2>12 DEF Granted
    <2>13. CASE Release(a)
      BY <2>13 DEF Release, RemoveFile
    <2>14. CASE Exit(a)
      BY <2>14 DEF Exit
    <2>15. CASE ClaimRaises(a)
      BY <2>15 DEF ClaimRaises
    <2>16. CASE WriteRaises(a)
      BY <2>16 DEF WriteRaises
    <2>17. CASE ReleaseRaises(a)
      BY <2>17 DEF ReleaseRaises
    <2>18. QED
      BY <1>2, <2>1, <2>2, <2>3, <2>4, <2>5, <2>6, <2>7, <2>8, <2>9, <2>10,
         <2>11, <2>12, <2>13, <2>14, <2>15, <2>16, <2>17 DEF Step
  <1>3. QED
    BY <1>1, <1>2 DEF Next

\* For any number of processes and items, and whatever files the killed ones left: an
\* attempt made while no other process is alive is not refused.
THEOREM LoneIsNotRefused == Spec => []LoneAttemptNotRefused
  <1>1. Init => LoneAttempt
    BY DEF Init, LoneAttempt
  <1>2. LockInv /\ LoneAttempt /\ [Next]_vars => LoneAttempt'
    BY LoneAttemptStep DEF LockInv
  <1>3. LoneAttempt => LoneAttemptNotRefused
    BY DEF LoneAttempt, LoneAttemptNotRefused
  <1>4. QED
    BY <1>1, <1>2, <1>3, LockInvAlways, PTL DEF Spec
=============================================================================
