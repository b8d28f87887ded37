------------------------- MODULE AcquisitionProofs -------------------------
(***************************************************************************)
(* No torrent without a row that names it, none taken without a seed       *)
(* obligation, for any number of passes, releases and faults.              *)
(***************************************************************************)
EXTENDS Acquisition, TLAPS

-----------------------------------------------------------------------------
(* The inductive invariant *)

\* What a pass works with where it stands.
Shape(p) ==
  /\ pc[p] \in {"reserve", "add", "mark", "owe"} => pick[p] \in Releases
  /\ pc[p] \in {"judge", "switch", "delete", "oblige"} => seen[p].hash \in Releases
  /\ pc[p] = "idle" => job[p] = "search"
  /\ pc[p] = "ask" => job[p] = "grab"
  /\ job[p] = "search" => ~sighted[p]

AcqType == TypeOK /\ \A p \in Passes : Shape(p)

\* Torrents whose row nobody gave up, that nobody missed the answer for, and that nobody
\* is about to name.
Orphans == client \ (tried \union unanswered \union unreserved \union InTheGap)

\* A row in a queue, or out of it for good, promises no torrent.
QueuedIsFree == status \in {"pending", "available", "abandoned"} => hash = NoHash

\* What a pass knows of the row while nobody else wrote it.
Known(p) ==
  /\ pc[p] = "ask" => ~sighted[p] /\ (status \in Open => sight[p] = hash)
  /\ pc[p] = "sweep" /\ sighted[p] /\ status \in Open /\ hash \in client => sight[p] = hash
  /\ pc[p] = "settle" =>
       /\ seen[p].hash = hash
       /\ sighted[p] /\ hash \in client => sight[p] = hash
  /\ pc[p] \in {"judge", "switch"} => seen[p].hash = hash
  /\ pc[p] = "cutoff" => status \in {"pending", "available"}
  /\ pc[p] \in {"verdict", "choose", "reserve", "add", "mark", "release", "conclude"} =>
       status = "searching"
  /\ pc[p] \in {"verdict", "choose", "reserve", "conclude"} => hash = NoHash
  /\ pc[p] \in {"add", "mark"} => hash = IF pick[p] \in Unannounced THEN NoHash ELSE pick[p]
  /\ pc[p] \in {"add", "release"} => Orphans = {}

Owed ==
  status = "grabbed" /\ hash \in client \ Floorless =>
    \/ hash \in owed \union forgone
    \/ \E p \in Passes : \/ pc[p] = "owe" /\ pick[p] = hash
                         \/ pc[p] = "oblige" /\ seen[p].hash = hash

InTurn ==
  /\ Orphans \subseteq {hash}
  /\ QueuedIsFree
  /\ \A p \in Passes : fresh[p] => Known(p)
  /\ Owed

AcqInv == overtaken \/ InTurn

-----------------------------------------------------------------------------
(* The types *)

LEMMA InitAcqType == Init => AcqType
<1> SUFFICES ASSUME Init PROVE AcqType
  OBVIOUS
<1>1. TypeOK
  BY DEF Init, TypeOK, Open, Closed, Hashes, PCs, NoRow
<1>2. \A p \in Passes : Shape(p)
  BY DEF Init, Shape
<1> QED
  BY <1>1, <1>2 DEF AcqType

\* What a pass that leaves the item, or goes on to its own work, leaves behind.
LEMMA Leaving ==
  ASSUME TypeOK, NEW p \in Passes, Forgets(p)
  PROVE  /\ pc' \in [Passes -> PCs] /\ job' \in [Passes -> {"grab", "search"}]
         /\ seen' \in [Passes -> [status : Open \union {"none"}, hash : Hashes]]
         /\ sight' \in [Passes -> Hashes] /\ pick' \in [Passes -> Hashes]
         /\ pc'[p] = "idle" /\ job'[p] = "search"
         /\ \A q \in Passes : q # p =>
              /\ pc'[q] = pc[q] /\ job'[q] = job[q] /\ seen'[q] = seen[q]
              /\ sight'[q] = sight[q] /\ pick'[q] = pick[q]
BY DEF Forgets, Goto, TypeOK, PCs, NoRow, Hashes

LEMMA LeavingBlind ==
  ASSUME TypeOK, NEW p \in Passes, Forgets(p) \/ Onward(p)
  PROVE  /\ sighted' \in [Passes -> BOOLEAN] /\ ~sighted'[p]
         /\ \A q \in Passes : q # p => sighted'[q] = sighted[q]
BY DEF Forgets, Onward, TypeOK

LEMMA GoingOn ==
  ASSUME TypeOK, NEW p \in Passes, Onward(p)
  PROVE  /\ pc' \in [Passes -> PCs] /\ UNCHANGED <<job, pick>>
         /\ seen' \in [Passes -> [status : Open \union {"none"}, hash : Hashes]]
         /\ sight' \in [Passes -> Hashes]
         /\ pc'[p] \in {"stalled", "list"}
         /\ \A q \in Passes : q # p =>
              pc'[q] = pc[q] /\ seen'[q] = seen[q] /\ sight'[q] = sight[q]
BY DEF Onward, Goto, TypeOK, PCs, NoRow, Hashes

\* Who knows what is on record as true or false.
LEMMA Races ==
  ASSUME TypeOK, NEW p \in Passes,
         \/ Reads(p) \/ Acts(p) \/ OthersAct \/ UNCHANGED race
         \/ fresh' = [fresh EXCEPT ![p] = FALSE] /\ UNCHANGED overtaken
         \/ fresh' = [q \in Passes |-> FALSE] /\ overtaken' = (overtaken \/ ~fresh[p])
         \/ fresh' = [q \in Passes |-> q = p] /\ UNCHANGED overtaken
  PROVE  fresh' \in [Passes -> BOOLEAN] /\ overtaken' \in BOOLEAN
BY DEF Reads, Acts, OthersAct, race, TypeOK

\* A step of p leaves what the other passes work with alone.
LocalStep(p) ==
  /\ pc' \in [Passes -> PCs] /\ job' \in [Passes -> {"grab", "search"}]
  /\ seen' \in [Passes -> [status : Open \union {"none"}, hash : Hashes]]
  /\ sight' \in [Passes -> Hashes] /\ pick' \in [Passes -> Hashes]
  /\ sighted' \in [Passes -> BOOLEAN]
  /\ \A q \in Passes : q # p =>
       /\ pc'[q] = pc[q] /\ job'[q] = job[q] /\ seen'[q] = seen[q]
       /\ sight'[q] = sight[q] /\ pick'[q] = pick[q] /\ sighted'[q] = sighted[q]

\* p moves on, and at most its copy of the row changes.
LEMMA CopyStep ==
  ASSUME TypeOK, NEW p \in Passes, NEW label \in PCs, pc' = [pc EXCEPT ![p] = label],
         UNCHANGED <<job, sight, sighted, pick>>,
         \/ UNCHANGED seen
         \/ seen' = [seen EXCEPT ![p] = NoRow]
         \/ status \in Open /\ seen' = [seen EXCEPT ![p] = Row]
  PROVE  LocalStep(p) /\ pc'[p] = label
<1>1. /\ pc' \in [Passes -> PCs] /\ pc'[p] = label
      /\ \A q \in Passes : q # p => pc'[q] = pc[q]
  BY DEF TypeOK
<1>2. Row \in [status : Open, hash : Hashes] \/ status \notin Open
  BY DEF Row, TypeOK
<1>3. NoRow \in [status : Open \union {"none"}, hash : Hashes]
  BY DEF NoRow, Hashes
<1>4. /\ seen' \in [Passes -> [status : Open \union {"none"}, hash : Hashes]]
      /\ \A q \in Passes : q # p => seen'[q] = seen[q]
  <2>1. seen \in [Passes -> [status : Open \union {"none"}, hash : Hashes]]
    BY DEF TypeOK
  <2>2. CASE UNCHANGED seen
    BY <2>1, <2>2
  <2>3. CASE seen' = [seen EXCEPT ![p] = NoRow]
    BY <1>3, <2>1, <2>3
  <2>4. CASE status \in Open /\ seen' = [seen EXCEPT ![p] = Row]
    <3>1. Row \in [status : Open \union {"none"}, hash : Hashes]
      BY <1>2, <2>4
    <3> QED
      BY <2>1, <2>4, <3>1
  <2> QED
    BY <2>2, <2>3, <2>4
<1> QED
  BY <1>1, <1>4 DEF LocalStep, TypeOK

LEMMA LocalSteps ==
  ASSUME AcqType, NEW p \in Passes, StartGrab(p) \/ Runs(p) \/ Dies(p)
  PROVE  LocalStep(p) /\ Shape(p)'
<1> USE DEF AcqType, At, copies, local, row, outside, history, race
<1> NoHash \notin Releases
  BY AcquisitionAssumption
<1>0. ASSUME Forgets(p) PROVE LocalStep(p) /\ Shape(p)'
  BY <1>0, Leaving, LeavingBlind DEF LocalStep, Shape
<1>a. ASSUME Onward(p) PROVE LocalStep(p) /\ Shape(p)'
  BY <1>a, GoingOn, LeavingBlind DEF LocalStep, Shape, TypeOK
<1>1. CASE StartGrab(p)
  BY <1>1 DEF StartGrab, Goto, Row, NoRow, LocalStep, Shape, TypeOK, PCs, Hashes, Open, Vanished, Unconfirmed
<1>2. CASE StartSearch(p)
  BY <1>2 DEF StartSearch, Goto, Row, NoRow, LocalStep, Shape, TypeOK, PCs, Hashes, Open, Vanished, Unconfirmed
<1>3. CASE AskClient(p)
  <2>1. LocalStep(p)
    <3>1. /\ pc' = [pc EXCEPT ![p] = "sweep"] /\ UNCHANGED <<job, seen, pick>>
          /\ \/ sight' = [sight EXCEPT ![p] = NoHash]
             \/ sight' = [sight EXCEPT ![p] = sight[p]]
          /\ sighted' = sighted \/ sighted' = [sighted EXCEPT ![p] = TRUE]
      BY <1>3 DEF AskClient, Goto
    <3>2. /\ sight' \in [Passes -> Hashes] /\ sighted' \in [Passes -> BOOLEAN]
          /\ \A q \in Passes : q # p => sight'[q] = sight[q] /\ sighted'[q] = sighted[q]
      BY <3>1 DEF TypeOK, Hashes
    <3> QED
      BY <3>1, <3>2 DEF LocalStep, TypeOK, PCs
  <2>2. pc'[p] = "sweep" /\ UNCHANGED <<job, pick>> /\ job[p] = "grab"
    BY <1>3 DEF AskClient, Goto, Shape, TypeOK
  <2> QED
    BY <2>1, <2>2 DEF Shape
<1>4. CASE ListOpen(p)
  <2>1. CASE Onward(p)
    BY <1>a, <2>1
  <2>2. CASE ~Onward(p)
    <3>1. /\ seen' = [seen EXCEPT ![p] = Row] /\ status \in Open
          /\ pc' = [pc EXCEPT ![p] = "settle"] /\ UNCHANGED <<job, sight, sighted, pick>>
      BY <1>4, <2>2 DEF ListOpen, Goto
    <3>2. LocalStep(p) /\ pc'[p] = "settle"
      BY <3>1, CopyStep DEF PCs
    <3> QED
      BY <3>1, <3>2 DEF Shape
  <2> QED
    BY <2>1, <2>2
<1>5. CASE CloseOwned(p)
  BY <1>a, <1>5 DEF CloseOwned
<1>6. CASE RequeueMissing(p)
  BY <1>a, <1>6 DEF RequeueMissing
<1>7. CASE ConfirmIntent(p)
  <2>1. CASE Onward(p)
    BY <1>a, <2>1
  <2>2. CASE pc' = [pc EXCEPT ![p] = "oblige"] /\ UNCHANGED local
    <3>1. LocalStep(p)
      BY <2>2 DEF LocalStep, TypeOK, PCs
    <3>2. seen[p].hash \in Releases
      BY <1>7 DEF ConfirmIntent, Unconfirmed, TypeOK, Hashes
    <3> QED
      BY <2>2, <3>1, <3>2 DEF Shape, TypeOK
  <2> QED
    BY <1>7, <2>1, <2>2, Zenon DEF ConfirmIntent, Goto
<1>8. CASE LeaveInFlight(p)
  BY <1>a, <1>8 DEF LeaveInFlight
<1>9. CASE RecordRecovered(p)
  BY <1>a, <1>9 DEF RecordRecovered
<1>10. CASE ListGrabbed(p)
  <2>1. LocalStep(p)
    <3>1. CASE status = "grabbed" /\ hash # NoHash
      BY <1>10, <3>1, CopyStep DEF ListGrabbed, Goto, PCs, Open
    <3>2. CASE ~(status = "grabbed" /\ hash # NoHash)
      BY <1>10, <3>2, CopyStep DEF ListGrabbed, Goto, PCs
    <3> QED
      BY <3>1, <3>2
  <2>2. UNCHANGED <<job, sighted, pick>> /\ pc'[p] \in {"judge", "list"}
    BY <1>10 DEF ListGrabbed, Goto, TypeOK
  <2>3. pc'[p] = "judge" => seen'[p].hash \in Releases
    <3>1. CASE seen' = [seen EXCEPT ![p] = Row] /\ hash # NoHash
      BY <3>1 DEF Row, TypeOK, Hashes
    <3>2. CASE Goto(p, "list")
      BY <3>2 DEF Goto, TypeOK
    <3> QED
      BY <1>10, <3>1, <3>2, Zenon DEF ListGrabbed
  <2> QED
    BY <2>1, <2>2, <2>3 DEF Shape
<1>11. CASE JudgeTorrent(p)
  <2>1. LocalStep(p)
    BY <1>11, CopyStep, Zenon DEF JudgeTorrent, Goto, PCs
  <2>2. UNCHANGED <<job, sighted, pick>> /\ pc'[p] \in {"switch", "list"}
    BY <1>11 DEF JudgeTorrent, Goto, TypeOK
  <2>3. pc'[p] = "switch" => seen'[p].hash \in Releases
    <3>1. seen[p].hash \in Releases /\ pc \in [Passes -> PCs]
      BY <1>11 DEF JudgeTorrent, Shape, TypeOK
    <3> QED
      BY <1>11, <3>1, Zenon DEF JudgeTorrent, Goto
  <2> QED
    BY <2>1, <2>2, <2>3 DEF Shape
<1>12. CASE Switch(p)
  <2>1. UNCHANGED <<job, sight, sighted, pick>> /\ seen[p].hash \in Releases
    BY <1>12 DEF Switch, Shape
  <2>2. CASE MayRequeue
    <3>1. pc' = [pc EXCEPT ![p] = "delete"] /\ UNCHANGED seen
      BY <1>12, <2>2 DEF Switch, Goto
    <3>2. LocalStep(p) /\ pc'[p] = "delete"
      BY <2>1, <3>1, CopyStep DEF PCs
    <3> QED
      BY <2>1, <3>1, <3>2 DEF Shape
  <2>3. CASE ~MayRequeue
    <3>1. pc' = [pc EXCEPT ![p] = "list"] /\ seen' = [seen EXCEPT ![p] = NoRow]
      BY <1>12, <2>3 DEF Switch, Goto
    <3>2. LocalStep(p) /\ pc'[p] = "list"
      BY <2>1, <3>1, CopyStep DEF PCs
    <3> QED
      BY <2>1, <3>2 DEF Shape
  <2> QED
    BY <2>2, <2>3
<1>13. CASE DeleteDead(p)
  <2>1. LocalStep(p)
    BY <1>13, CopyStep DEF DeleteDead, Goto, PCs
  <2>2. pc'[p] = "list" /\ UNCHANGED <<job, sighted, pick>>
    BY <1>13 DEF DeleteDead, Goto, TypeOK
  <2> QED
    BY <2>1, <2>2 DEF Shape
<1>14. CASE ListQueue(p)
  <2>1. CASE Ends(p)
    BY <1>0, <2>1 DEF Ends
  <2>2. CASE /\ status \in Open /\ seen' = [seen EXCEPT ![p] = Row]
             /\ pc' = [pc EXCEPT ![p] = "gate"] \/ pc' = [pc EXCEPT ![p] = "cutoff"]
             /\ UNCHANGED <<job, sight, sighted, pick>>
    <3>1. Row \in [status : Open \union {"none"}, hash : Hashes]
      BY <2>2 DEF Row, TypeOK
    <3>2. LocalStep(p)
      BY <2>2, <3>1 DEF LocalStep, TypeOK, PCs
    <3>3. pc'[p] \in {"gate", "cutoff"}
      BY <2>2 DEF TypeOK
    <3> QED
      BY <2>2, <3>2, <3>3 DEF Shape
  <2> QED
    BY <1>14, <2>1, <2>2, Zenon DEF ListQueue, Goto, Open
<1>15. CASE Reclaim(p)
  BY <1>0, <1>15 DEF Reclaim, Ends, Goto, Row, NoRow, LocalStep, Shape, TypeOK, PCs, Hashes, Open
<1>16. CASE AgeOut(p)
  BY <1>0, <1>16 DEF AgeOut, Ends, EndsActing
<1>17. CASE NotDue(p)
  BY <1>0, <1>17 DEF NotDue, Ends, EndsActing
<1>18. CASE Claim(p)
  BY <1>0, <1>18, SMTT(30) DEF Claim, Ends, Goto, Row, NoRow, LocalStep, Shape, TypeOK, PCs, Hashes, Open
<1>19. CASE SearchConcludes(p)
  BY <1>0, <1>19 DEF SearchConcludes, Ends, EndsActing
<1>20. CASE AlreadyGrabbed(p)
  BY <1>0, <1>20 DEF AlreadyGrabbed, Ends, EndsActing
<1>21. CASE Choose(p)
  BY <1>21 DEF Choose, Goto, Row, NoRow, LocalStep, Shape, TypeOK, PCs, Hashes, Open, Vanished, Unconfirmed
<1>22. CASE ChoosesNothing(p)
  BY <1>22 DEF ChoosesNothing, Goto, Row, NoRow, LocalStep, Shape, TypeOK, PCs, Hashes, Open, Vanished, Unconfirmed
<1>23. CASE Reserve(p)
  BY <1>23 DEF Reserve, Goto, Row, NoRow, LocalStep, Shape, TypeOK, PCs, Hashes, Open, Vanished, Unconfirmed
<1>24. CASE AddTorrent(p)
  BY <1>24 DEF AddTorrent, Goto, Row, NoRow, LocalStep, Shape, TypeOK, PCs, Hashes, Open, Vanished, Unconfirmed
<1>25. CASE AddFails(p)
  BY <1>25 DEF AddFails, Goto, Row, NoRow, LocalStep, Shape, TypeOK, PCs, Hashes, Open, Vanished, Unconfirmed
<1>26. CASE MarkGrabbed(p)
  BY <1>26 DEF MarkGrabbed, Goto, Row, NoRow, LocalStep, Shape, TypeOK, PCs, Hashes, Open, Vanished, Unconfirmed
<1>27. CASE RecordObligation(p)
  BY <1>0, <1>27 DEF RecordObligation, Ends, EndsActing
<1>28. CASE ReleaseIntent(p)
  BY <1>28 DEF ReleaseIntent, Goto, Row, NoRow, LocalStep, Shape, TypeOK, PCs, Hashes, Open, Vanished, Unconfirmed
<1>29. CASE Conclude(p)
  BY <1>0, <1>29 DEF Conclude, Ends, EndsActing
<1>30. CASE Dies(p)
  BY <1>0, <1>30 DEF Dies, Ends, EndsActing
<1> QED
  BY <1>1, <1>2, <1>3, <1>4, <1>5, <1>6, <1>7, <1>8, <1>9, <1>10, <1>11, <1>12, <1>13, <1>14, <1>15, <1>16, <1>17, <1>18, <1>19, <1>20, <1>21, <1>22, <1>23, <1>24, <1>25, <1>26, <1>27, <1>28, <1>29, <1>30 DEF Runs, Reconciles, Reswitches, TakesItem

\* The row, the client and the records, in their types.
SharedTyped ==
  /\ status' \in Open \union Closed /\ hash' \in Hashes
  /\ tried' \subseteq Releases /\ client' \subseteq Releases /\ owed' \subseteq Releases
  /\ unanswered' \subseteq Releases /\ unreserved' \subseteq Releases /\ forgone' \subseteq Releases
  /\ trouble' \in Nat

Flags ==
  /\ stale' \in BOOLEAN /\ owned' \in BOOLEAN
  /\ fresh' \in [Passes -> BOOLEAN] /\ overtaken' \in BOOLEAN

LEMMA SharedSteps ==
  ASSUME AcqType, NEW p \in Passes, StartGrab(p) \/ Runs(p) \/ Dies(p)
  PROVE  SharedTyped
<1> USE AcquisitionAssumption
        DEF AcqType, TypeOK, At, row, outside, history, NoTrouble, Trouble, Open, Closed, Hashes,
            SharedTyped
<1>1. CASE StartGrab(p)
  BY <1>1 DEF StartGrab
<1>2. CASE StartSearch(p)
  BY <1>2 DEF StartSearch
<1>3. CASE AskClient(p)
  BY <1>3 DEF AskClient
<1>4. CASE ListOpen(p)
  BY <1>4 DEF ListOpen
<1>5. CASE CloseOwned(p)
  BY <1>5 DEF CloseOwned
<1>6. CASE RequeueMissing(p)
  BY <1>6 DEF RequeueMissing
<1>7. CASE ConfirmIntent(p)
  BY <1>7 DEF ConfirmIntent
<1>8. CASE LeaveInFlight(p)
  BY <1>8 DEF LeaveInFlight
<1>9. CASE RecordRecovered(p)
  BY <1>9 DEF RecordRecovered, Shape, Recovered
<1>10. CASE ListGrabbed(p)
  BY <1>10 DEF ListGrabbed
<1>11. CASE JudgeTorrent(p)
  BY <1>11 DEF JudgeTorrent
<1>12. CASE Switch(p)
  BY <1>12 DEF Switch, Shape
<1>13. CASE DeleteDead(p)
  BY <1>13 DEF DeleteDead
<1>14. CASE ListQueue(p)
  BY <1>14 DEF ListQueue
<1>15. CASE Reclaim(p)
  BY <1>15 DEF Reclaim
<1>16. CASE AgeOut(p)
  BY <1>16 DEF AgeOut
<1>17. CASE NotDue(p)
  BY <1>17 DEF NotDue
<1>18. CASE Claim(p)
  BY <1>18 DEF Claim
<1>19. CASE SearchConcludes(p)
  BY <1>19 DEF SearchConcludes, Absorbable
<1>20. CASE AlreadyGrabbed(p)
  BY <1>20 DEF AlreadyGrabbed
<1>21. CASE Choose(p)
  BY <1>21 DEF Choose
<1>22. CASE ChoosesNothing(p)
  BY <1>22 DEF ChoosesNothing
<1>23. CASE Reserve(p)
  BY <1>23 DEF Reserve, Shape
<1>24. CASE AddTorrent(p)
  BY <1>24 DEF AddTorrent, Shape
<1>25. CASE AddFails(p)
  BY <1>25 DEF AddFails, Shape
<1>26. CASE MarkGrabbed(p)
  BY <1>26 DEF MarkGrabbed, Shape
<1>27. CASE RecordObligation(p)
  BY <1>27 DEF RecordObligation, Shape
<1>28. CASE ReleaseIntent(p)
  BY <1>28 DEF ReleaseIntent
<1>29. CASE Conclude(p)
  BY <1>29 DEF Conclude, Outcomes
<1>30. CASE Dies(p)
  BY <1>30 DEF Dies, Shape
<1> QED
  BY <1>1, <1>2, <1>3, <1>4, <1>5, <1>6, <1>7, <1>8, <1>9, <1>10, <1>11, <1>12, <1>13, <1>14, <1>15, <1>16, <1>17, <1>18, <1>19, <1>20, <1>21, <1>22, <1>23, <1>24, <1>25, <1>26, <1>27, <1>28, <1>29, <1>30 DEF Runs, Reconciles, Reswitches, TakesItem

LEMMA FlagSteps ==
  ASSUME AcqType, NEW p \in Passes, StartGrab(p) \/ Runs(p) \/ Dies(p)
  PROVE  Flags
<1> TypeOK
  BY DEF AcqType
<1>a. stale \in BOOLEAN /\ owned \in BOOLEAN
  BY DEF TypeOK
<1>b. UNCHANGED stale \/ stale' = FALSE
  BY Zenon DEF Runs, Reconciles, Reswitches, TakesItem, row, StartGrab, StartSearch, AskClient, ListOpen, CloseOwned, RequeueMissing, ConfirmIntent, LeaveInFlight, RecordRecovered, ListGrabbed, JudgeTorrent, Switch, DeleteDead, ListQueue, Reclaim, AgeOut, NotDue, Claim, SearchConcludes, AlreadyGrabbed, Choose, ChoosesNothing, Reserve, AddTorrent, AddFails, MarkGrabbed, RecordObligation, ReleaseIntent, Conclude, Dies
<1>c. UNCHANGED owned
  BY Zenon DEF Runs, Reconciles, Reswitches, TakesItem, outside, StartGrab, StartSearch, AskClient, ListOpen, CloseOwned, RequeueMissing, ConfirmIntent, LeaveInFlight, RecordRecovered, ListGrabbed, JudgeTorrent, Switch, DeleteDead, ListQueue, Reclaim, AgeOut, NotDue, Claim, SearchConcludes, AlreadyGrabbed, Choose, ChoosesNothing, Reserve, AddTorrent, AddFails, MarkGrabbed, RecordObligation, ReleaseIntent, Conclude, Dies
<1>d. \/ Reads(p) \/ Acts(p) \/ OthersAct \/ UNCHANGED race
      \/ fresh' = [fresh EXCEPT ![p] = FALSE] /\ UNCHANGED overtaken
      \/ fresh' = [q \in Passes |-> FALSE] /\ overtaken' = (overtaken \/ ~fresh[p])
      \/ fresh' = [q \in Passes |-> q = p] /\ UNCHANGED overtaken
  BY Zenon DEF Runs, Reconciles, Reswitches, TakesItem, Ends, EndsActing, race, StartGrab, StartSearch, AskClient, ListOpen, CloseOwned, RequeueMissing, ConfirmIntent, LeaveInFlight, RecordRecovered, ListGrabbed, JudgeTorrent, Switch, DeleteDead, ListQueue, Reclaim, AgeOut, NotDue, Claim, SearchConcludes, AlreadyGrabbed, Choose, ChoosesNothing, Reserve, AddTorrent, AddFails, MarkGrabbed, RecordObligation, ReleaseIntent, Conclude, Dies
<1>e. fresh' \in [Passes -> BOOLEAN] /\ overtaken' \in BOOLEAN
  BY <1>d, Races
<1> QED
  BY <1>a, <1>b, <1>c, <1>e, Zenon DEF Flags

\* What happens to the row and the client without a pass.
LEMMA WorldSteps ==
  ASSUME AcqType, World \/ UNCHANGED vars
  PROVE  AcqType' /\ UNCHANGED <<pc, local>>
<1> USE AcquisitionAssumption
<1>1. UNCHANGED <<pc, local>>
  BY Zenon DEF World, GoesStale, Resurrect, Absorb, Lands, Disappears, vars, outside
<1>2. SharedTyped
  BY DEF AcqType, TypeOK, SharedTyped, World, GoesStale, Resurrect, Absorb, Lands, Disappears,
         vars, row, outside, history, Trouble, NoTrouble, Open, Closed, Hashes
<1>3. stale' \in BOOLEAN /\ owned' \in BOOLEAN
  BY Zenon DEF AcqType, TypeOK, World, GoesStale, Resurrect, Absorb, Lands, Disappears,
         vars, row, outside
<1>4. fresh' \in [Passes -> BOOLEAN] /\ overtaken' \in BOOLEAN
  <2>1. OthersAct \/ UNCHANGED race
    BY Zenon DEF World, GoesStale, Resurrect, Absorb, Lands, Disappears, vars
  <2> QED
    BY <2>1 DEF OthersAct, race, AcqType, TypeOK
<1>5. TypeOK'
  BY <1>1, <1>2, <1>3, <1>4 DEF AcqType, TypeOK, SharedTyped, local, copies
<1>6. \A p \in Passes : Shape(p)'
  BY <1>1 DEF AcqType, Shape, local, copies
<1> QED
  BY <1>1, <1>5, <1>6 DEF AcqType

LEMMA AcqTypeStep == AcqType /\ [Next]_vars => AcqType'
<1> SUFFICES ASSUME AcqType, [Next]_vars PROVE AcqType'
  OBVIOUS
<1>1. CASE World \/ UNCHANGED vars
  BY <1>1, WorldSteps
<1>2. ASSUME NEW p \in Passes, StartGrab(p) \/ Runs(p) \/ Dies(p)
      PROVE  AcqType'
  <2>1. LocalStep(p) /\ Shape(p)'
    BY <1>2, LocalSteps
  <2>2. SharedTyped
    BY <1>2, SharedSteps
  <2>3. Flags
    BY <1>2, FlagSteps
  <2>4. TypeOK'
    BY <2>1, <2>2, <2>3 DEF LocalStep, SharedTyped, Flags, TypeOK
  <2>5. ASSUME NEW q \in Passes, q # p PROVE Shape(q)'
    BY <2>1, <2>5 DEF AcqType, LocalStep, Shape
  <2>6. \A q \in Passes : Shape(q)'
    BY <2>1, <2>5
  <2> QED
    BY <2>4, <2>6 DEF AcqType
<1> QED
  BY <1>1, <1>2 DEF Next

\* Every variable stays in its type, whatever the passes and the faults.
THEOREM AcquisitionTypeCorrect == Spec => []TypeOK
<1>1. AcqType => TypeOK
  BY DEF AcqType
<1> QED
  BY InitAcqType, AcqTypeStep, <1>1, PTL DEF Spec

-----------------------------------------------------------------------------
(* What a step leaves true *)

\* A pass that acts in turn acted on what it knew, and the others know nothing more.
LEMMA ActedInTurn ==
  ASSUME TypeOK, ~overtaken', NEW p \in Passes,
         \/ Acts(p)
         \/ fresh' = [q \in Passes |-> FALSE] /\ overtaken' = (overtaken \/ ~fresh[p])
  PROVE  fresh[p] /\ \A q \in Passes : q # p => ~fresh'[q]
BY Zenon DEF Acts, TypeOK

LEMMA OthersKnow ==
  ASSUME TypeOK, NEW p \in Passes,
         \/ Reads(p) \/ UNCHANGED race
         \/ fresh' = [fresh EXCEPT ![p] = FALSE] /\ UNCHANGED overtaken
  PROVE  \A q \in Passes : q # p => fresh'[q] = fresh[q]
BY Zenon DEF Reads, race, TypeOK

\* Nobody but p took a step, and p's own step took nothing from what they know.
Quiet(p) ==
  /\ UNCHANGED <<status, hash>>
  /\ client' \subseteq client /\ Orphans' \subseteq Orphans
  /\ \A q \in Passes : q # p => (fresh'[q] => fresh[q])

LEMMA Bystanders ==
  ASSUME InTurn, NEW p \in Passes, LocalStep(p), Quiet(p),
         NEW q \in Passes, q # p, fresh'[q]
  PROVE  Known(q)'
<1>1. Known(q)
  BY DEF InTurn, Quiet
<1>2. /\ pc'[q] = pc[q] /\ seen'[q] = seen[q] /\ sight'[q] = sight[q]
      /\ pick'[q] = pick[q] /\ sighted'[q] = sighted[q]
  BY DEF LocalStep
<1> QED
  BY <1>1, <1>2 DEF Known, Quiet

LEMMA QuietStep ==
  ASSUME InTurn, NEW p \in Passes, LocalStep(p), Quiet(p),
         fresh'[p] => Known(p)', Owed'
  PROVE  InTurn'
<1>1. \A q \in Passes : fresh'[q] => Known(q)'
  BY Bystanders
<1>2. Orphans' \subseteq {hash'} /\ QueuedIsFree'
  BY DEF InTurn, Quiet, QueuedIsFree
<1> QED
  BY <1>1, <1>2 DEF InTurn

LEMMA LoneStep ==
  ASSUME NEW p \in Passes, \A q \in Passes : q # p => ~fresh'[q],
         Orphans' \subseteq {hash'}, QueuedIsFree', fresh'[p] => Known(p)', Owed'
  PROVE  InTurn'
BY DEF InTurn

\* A torrent owed, or about to be, stays so while p does not hold it.
LEMMA OwedStays ==
  ASSUME Owed, NEW p \in Passes, LocalStep(p), pc[p] \notin {"owe", "oblige"},
         status' = "grabbed" => status = "grabbed", UNCHANGED hash,
         client' \subseteq client, owed \subseteq owed', forgone \subseteq forgone'
  PROVE  Owed'
BY DEF Owed, LocalStep

\* Only a pass at mark has a torrent in the gap, and only its own.
LEMMA GapStays ==
  ASSUME NEW p \in Passes, LocalStep(p)
  PROVE  /\ InTheGap \subseteq InTheGap' \union ({pick[p]} \intersect Unannounced)
         /\ pc[p] # "mark" => InTheGap \subseteq InTheGap'
BY DEF LocalStep, InTheGap

LEMMA FreshKnows ==
  ASSUME InTurn, NEW p \in Passes, fresh[p]
  PROVE  Known(p)
BY DEF InTurn

-----------------------------------------------------------------------------
(* Reconciling keeps the row and the torrents in turn *)

LEMMA ReconcileInTurn ==
  ASSUME AcqType, ~overtaken', InTurn, NEW p \in Passes, LocalStep(p),
         StartGrab(p) \/ Reconciles(p)
  PROVE  InTurn'
<1> USE AcquisitionAssumption DEF At, Goto, AcqType
<1> InTheGap \subseteq InTheGap'
  <2>1. pc[p] # "mark"
    BY DEF Reconciles, StartGrab, StartSearch, AskClient, ListOpen, CloseOwned, RequeueMissing,
           ConfirmIntent, LeaveInFlight, RecordRecovered
  <2> QED
    BY <2>1, GapStays
<1>1. CASE StartGrab(p)
  <2>1. Quiet(p)
    BY <1>1, OthersKnow DEF StartGrab, Quiet, Orphans, row, outside, history
  <2>2. Known(p)'
    BY <1>1 DEF StartGrab, Known, Shape, TypeOK, row
  <2>3. Owed'
    BY <1>1, OwedStays DEF StartGrab, InTurn, row, outside, history
  <2> QED
    BY <2>1, <2>2, <2>3, QuietStep
<1>2. CASE StartSearch(p)
  <2>1. Quiet(p)
    BY <1>2, OthersKnow DEF StartSearch, Quiet, Orphans, row, outside, history
  <2>2. Known(p)'
    BY <1>2 DEF StartSearch, Known, Shape, TypeOK, local, copies
  <2>3. Owed'
    BY <1>2, OwedStays DEF StartSearch, InTurn, row, outside, history
  <2> QED
    BY <2>1, <2>2, <2>3, QuietStep
<1>3. CASE AskClient(p)
  <2>1. Quiet(p)
    BY <1>3, OthersKnow DEF AskClient, Quiet, Orphans, row, outside, history
  <2>2. ASSUME fresh'[p] PROVE Known(p)'
    <3>1. Known(p)
      BY <1>3, <2>2, FreshKnows DEF AskClient, race
    <3> QED
      BY <1>3, <3>1 DEF AskClient, Known, TypeOK, row, outside
  <2>3. Owed'
    BY <1>3, OwedStays DEF AskClient, InTurn, row, outside, history
  <2> QED
    BY <2>1, <2>2, <2>3, QuietStep
<1>4. CASE ListOpen(p)
  <2>0. \A q \in Passes : q # p => fresh'[q] = fresh[q]
    BY <1>4, OthersKnow DEF ListOpen
  <2>1. Quiet(p)
    BY <1>4, <2>0 DEF ListOpen, Quiet, Orphans, row, outside, history
  <2>2. ASSUME fresh'[p] PROVE Known(p)'
    <3>1. CASE Onward(p)
      BY <3>1, GoingOn DEF Known
    <3>2. CASE status \in Open /\ ~Onward(p)
      <4>1. /\ seen' = [seen EXCEPT ![p] = Row] /\ pc' = [pc EXCEPT ![p] = "settle"]
            /\ UNCHANGED <<row, outside, sight, sighted>> /\ pc[p] = "sweep"
        BY <1>4, <3>2 DEF ListOpen
      <4>2. seen'[p].hash = hash /\ pc'[p] = "settle"
        BY <4>1 DEF Row, TypeOK
      <4>3. CASE job[p] = "search"
        BY <4>1, <4>2, <4>3 DEF Shape, Known, row
      <4>4. CASE job[p] # "search"
        <5>1. Known(p)
          BY <1>4, <2>2, <4>4, FreshKnows DEF ListOpen, race
        <5> QED
          BY <3>2, <4>1, <4>2, <5>1 DEF Known, row, outside
      <4> QED
        BY <4>3, <4>4
    <3> QED
      BY <1>4, <3>1, <3>2 DEF ListOpen
  <2>3. Owed'
    BY <1>4, OwedStays DEF ListOpen, InTurn, row, outside, history
  <2> QED
    BY <2>1, <2>2, <2>3, QuietStep
<1>5. CASE CloseOwned(p)
  <2>1. Known(p)'
    BY <1>5, GoingOn DEF CloseOwned, Known
  <2>2. Owed'
    BY <1>5, OwedStays DEF CloseOwned, InTurn, outside, history
  <2>3. CASE MayClose
    <3>1. \A q \in Passes : q # p => ~fresh'[q]
      BY <1>5, <2>3, ActedInTurn DEF CloseOwned
    <3>2. Orphans' \subseteq {hash'} /\ QueuedIsFree'
      BY <1>5, <2>3 DEF CloseOwned, InTurn, Orphans, QueuedIsFree, outside, history
    <3> QED
      BY <2>1, <2>2, <3>1, <3>2, LoneStep
  <2>4. CASE ~MayClose
    <3>1. Quiet(p)
      BY <1>5, <2>4, OthersKnow DEF CloseOwned, Quiet, Orphans, outside, history
    <3> QED
      BY <2>1, <2>2, <3>1, QuietStep
  <2> QED
    BY <2>3, <2>4
<1>6. CASE RequeueMissing(p)
  <2>1. Known(p)'
    BY <1>6, GoingOn DEF RequeueMissing, Known
  <2>3. CASE MayRequeue
    <3>1. fresh[p] /\ \A q \in Passes : q # p => ~fresh'[q]
      BY <1>6, <2>3, ActedInTurn DEF RequeueMissing
    <3>2. hash \notin client
      BY <1>6, <2>3, <3>1, FreshKnows DEF RequeueMissing, Vanished, Known
    <3>3. Orphans' \subseteq {hash'} /\ QueuedIsFree' /\ Owed'
      BY <1>6, <2>3, <3>2
         DEF RequeueMissing, InTurn, Orphans, QueuedIsFree, Owed, outside, history
    <3> QED
      BY <2>1, <3>1, <3>3, LoneStep
  <2>4. CASE ~MayRequeue
    <3>1. Quiet(p)
      BY <1>6, <2>4, OthersKnow DEF RequeueMissing, Quiet, Orphans, outside, history
    <3>2. Owed'
      BY <1>6, <2>4, OwedStays DEF RequeueMissing, InTurn, outside, history
    <3> QED
      BY <2>1, <3>1, <3>2, QuietStep
  <2> QED
    BY <2>3, <2>4
<1>7. CASE ConfirmIntent(p)
  <2>1. CASE Onward(p) /\ UNCHANGED <<status, hash, race>>
    <3>1. Known(p)'
      BY <2>1, GoingOn DEF Known
    <3>2. Quiet(p)
      BY <1>7, <2>1, OthersKnow DEF ConfirmIntent, Quiet, Orphans, outside, history
    <3>3. Owed'
      BY <1>7, <2>1, OwedStays DEF ConfirmIntent, InTurn, outside, history
    <3> QED
      BY <3>1, <3>2, <3>3, QuietStep
  <2>2. CASE ~(Onward(p) /\ UNCHANGED <<status, hash, race>>)
    <3>1. /\ status' = "grabbed" /\ hash' = seen[p].hash /\ Acts(p)
          /\ pc' = [pc EXCEPT ![p] = "oblige"] /\ UNCHANGED <<local, tried, outside, history>>
      BY <1>7, <2>2 DEF ConfirmIntent
    <3>2. fresh[p] /\ \A q \in Passes : q # p => ~fresh'[q]
      BY <3>1, ActedInTurn
    <3>3. hash' = hash
      BY <1>7, <3>1, <3>2, FreshKnows DEF ConfirmIntent, Known
    <3>4. Orphans' \subseteq {hash'} /\ QueuedIsFree'
      BY <3>1, <3>3 DEF InTurn, Orphans, QueuedIsFree, outside, history
    <3>5. pc'[p] = "oblige" /\ seen'[p] = seen[p]
      BY <3>1 DEF TypeOK, local, copies
    <3>6. Known(p)' /\ Owed'
      BY <3>1, <3>5 DEF Known, Owed
    <3> QED
      BY <3>2, <3>4, <3>6, LoneStep
  <2> QED
    BY <2>1, <2>2
<1>8. CASE LeaveInFlight(p)
  <2>1. Quiet(p)
    BY <1>8, OthersKnow DEF LeaveInFlight, Quiet, Orphans, row, outside, history
  <2>2. Known(p)'
    BY <1>8, GoingOn DEF LeaveInFlight, Known
  <2>3. Owed'
    BY <1>8, OwedStays DEF LeaveInFlight, InTurn, row, outside, history
  <2> QED
    BY <2>1, <2>2, <2>3, QuietStep
<1>9. CASE RecordRecovered(p)
  <2>1. Quiet(p)
    BY <1>9, OthersKnow DEF RecordRecovered, Quiet, Orphans, row, outside
  <2>2. Known(p)'
    BY <1>9, GoingOn DEF RecordRecovered, Known
  <2>3. \A q \in Passes : q # p => pc'[q] = pc[q] /\ pick'[q] = pick[q] /\ seen'[q] = seen[q]
    BY DEF LocalStep
  <2>4. Owed'
    BY <1>9, <2>3 DEF RecordRecovered, InTurn, Owed, Recovered, row, outside
  <2> QED
    BY <2>1, <2>2, <2>4, QuietStep
<1> QED
  BY <1>1, <1>2, <1>3, <1>4, <1>5, <1>6, <1>7, <1>8, <1>9 DEF Reconciles

-----------------------------------------------------------------------------
(* So does switching a dead release *)

LEMMA ReswitchInTurn ==
  ASSUME AcqType, ~overtaken', InTurn, NEW p \in Passes, LocalStep(p), Reswitches(p)
  PROVE  InTurn'
<1> USE AcquisitionAssumption DEF At, Goto, AcqType
<1> InTheGap \subseteq InTheGap'
  <2>1. pc[p] # "mark"
    BY DEF Reswitches, ListGrabbed, JudgeTorrent, Switch, DeleteDead
  <2> QED
    BY <2>1, GapStays
<1>1. CASE ListGrabbed(p)
  <2>0. \A q \in Passes : q # p => fresh'[q] = fresh[q]
    BY <1>1, OthersKnow DEF ListGrabbed
  <2>1. Quiet(p)
    BY <1>1, <2>0 DEF ListGrabbed, Quiet, Orphans, row, outside, history
  <2>2. Known(p)'
    BY <1>1 DEF ListGrabbed, Known, TypeOK, Row, row
  <2>3. Owed'
    BY <1>1, OwedStays DEF ListGrabbed, InTurn, row, outside, history
  <2> QED
    BY <2>1, <2>2, <2>3, QuietStep
<1>2. CASE JudgeTorrent(p)
  <2>1. Quiet(p)
    BY <1>2, OthersKnow DEF JudgeTorrent, Quiet, Orphans, row, outside, history
  <2>2. ASSUME fresh'[p] PROVE Known(p)'
    <3>1. Known(p)
      BY <1>2, <2>2, FreshKnows DEF JudgeTorrent, race
    <3> QED
      BY <1>2, <3>1 DEF JudgeTorrent, Known, TypeOK, row
  <2>3. Owed'
    BY <1>2, OwedStays DEF JudgeTorrent, InTurn, row, outside, history
  <2> QED
    BY <2>1, <2>2, <2>3, QuietStep
<1>3. CASE Switch(p)
  <2>1. Known(p)'
    BY <1>3 DEF Switch, Known, TypeOK
  <2>2. CASE MayRequeue
    <3>1. fresh[p] /\ \A q \in Passes : q # p => ~fresh'[q]
      BY <1>3, <2>2, ActedInTurn DEF Switch
    <3>2. seen[p].hash = hash
      BY <1>3, <3>1, FreshKnows DEF Switch, Known
    <3>3. Orphans' \subseteq {hash'} /\ QueuedIsFree' /\ Owed'
      BY <1>3, <2>2, <3>2
         DEF Switch, InTurn, Orphans, QueuedIsFree, Owed, outside, history
    <3> QED
      BY <2>1, <3>1, <3>3, LoneStep
  <2>3. CASE ~MayRequeue
    <3>1. Quiet(p)
      BY <1>3, <2>3, OthersKnow DEF Switch, Quiet, Orphans, outside, history
    <3>2. Owed'
      BY <1>3, <2>3, OwedStays DEF Switch, InTurn, outside, history
    <3> QED
      BY <2>1, <3>1, <3>2, QuietStep
  <2> QED
    BY <2>2, <2>3
<1>4. CASE DeleteDead(p)
  <2>1. Quiet(p)
    BY <1>4, OthersKnow DEF DeleteDead, Quiet, Orphans, row, history
  <2>2. Known(p)'
    BY <1>4 DEF DeleteDead, Known, TypeOK
  <2>3. Owed'
    BY <1>4, OwedStays DEF DeleteDead, InTurn, row, history
  <2> QED
    BY <2>1, <2>2, <2>3, QuietStep
<1> QED
  BY <1>1, <1>2, <1>3, <1>4 DEF Reswitches

-----------------------------------------------------------------------------
(* So does taking the item *)

\* A pass that leaves the item without a write.
LEMMA LeavesInTurn ==
  ASSUME AcqType, InTurn, NEW p \in Passes, LocalStep(p), Forgets(p),
         UNCHANGED <<row, outside, unanswered>>,
         unreserved \union InTheGap \subseteq unreserved' \union InTheGap',
         fresh' = [fresh EXCEPT ![p] = FALSE], UNCHANGED overtaken,
         owed \subseteq owed', forgone \subseteq forgone',
         pc[p] = "owe" => pick[p] \in owed' \union forgone' \union Floorless,
         pc[p] = "oblige" => seen[p].hash \in owed' \union forgone' \union Floorless
  PROVE  InTurn'
<1>1. Quiet(p)
  BY OthersKnow DEF AcqType, Quiet, Orphans, row, outside
<1>2. Known(p)'
  BY Leaving DEF Known, AcqType
<1>3. \A q \in Passes : q # p => pc'[q] = pc[q] /\ pick'[q] = pick[q] /\ seen'[q] = seen[q]
  BY DEF LocalStep
<1>4. Owed'
  BY <1>3 DEF InTurn, Owed, row, outside
<1> QED
  BY <1>1, <1>2, <1>4, QuietStep

\* A pass whose last act was to put an item that promises no torrent in a queue, or out
\* of it.
LEMMA ClosesInTurn ==
  ASSUME AcqType, ~overtaken', InTurn, NEW p \in Passes, LocalStep(p), EndsActing(p),
         UNCHANGED <<hash, tried, outside, unanswered, unreserved>>, pc[p] # "mark",
         status' # "grabbed", hash = NoHash
  PROVE  InTurn'
<1>1. \A q \in Passes : ~fresh'[q]
  BY Zenon DEF EndsActing
<1>2. Orphans' \subseteq {hash'} /\ QueuedIsFree' /\ Owed'
  BY GapStays DEF InTurn, Orphans, QueuedIsFree, Owed, outside
<1> QED
  BY <1>1, <1>2, LoneStep

LEMMA TakeInTurn ==
  ASSUME AcqType, ~overtaken', InTurn, NEW p \in Passes, LocalStep(p), TakesItem(p)
  PROVE  InTurn'
<1> USE AcquisitionAssumption DEF At, Goto, AcqType
<1> pc[p] # "mark" => InTheGap \subseteq InTheGap'
  BY GapStays
<1>1. CASE ListQueue(p)
  <2>1. CASE Ends(p)
    BY <1>1, <2>1, LeavesInTurn DEF ListQueue, Ends, row, history
  <2>2. CASE ~Ends(p)
    <3>1. /\ Reads(p) /\ seen' = [seen EXCEPT ![p] = Row]
          /\ \/ pc' = [pc EXCEPT ![p] = "gate"]
             \/ status \in {"pending", "available"} /\ pc' = [pc EXCEPT ![p] = "cutoff"]
      BY <1>1, <2>2 DEF ListQueue
    <3>2. Quiet(p)
      BY <1>1, <3>1, OthersKnow DEF ListQueue, Quiet, Orphans, row, outside, history
    <3>3. Known(p)'
      BY <1>1, <3>1 DEF ListQueue, Known, TypeOK, row
    <3>4. Owed'
      BY <1>1, OwedStays DEF ListQueue, InTurn, row, outside, history
    <3> QED
      BY <3>2, <3>3, <3>4, QuietStep
  <2> QED
    BY <2>1, <2>2
<1>2. CASE Reclaim(p)
  <2>1. CASE MayReclaim
    <3>1. \A q \in Passes : q # p => ~fresh'[q]
      BY <1>2, <2>1, ActedInTurn DEF Reclaim
    <3>2. Orphans' \subseteq {hash'} /\ QueuedIsFree' /\ Owed'
      BY <1>2, <2>1 DEF Reclaim, MayReclaim, InTurn, Orphans, QueuedIsFree, Owed, outside, history
    <3>3. Known(p)'
      BY <1>2, <2>1 DEF Reclaim, Known, TypeOK
    <3> QED
      BY <3>1, <3>2, <3>3, LoneStep
  <2>2. CASE ~MayReclaim
    BY <1>2, <2>2, LeavesInTurn DEF Reclaim, Ends, row, outside, history
  <2> QED
    BY <2>1, <2>2
<1>3. CASE AgeOut(p)
  <2>1. fresh[p]
    BY <1>3, ActedInTurn DEF AgeOut, EndsActing
  <2>2. hash = NoHash
    BY <1>3, <2>1, FreshKnows DEF AgeOut, Known, InTurn, QueuedIsFree
  <2>3. status' # "grabbed"
    BY <1>3 DEF AgeOut
  <2> QED
    BY <1>3, <2>2, <2>3, ClosesInTurn DEF AgeOut, row, history
<1>4. CASE NotDue(p)
  BY <1>4, LeavesInTurn DEF NotDue, Ends, row, history
<1>5. CASE Claim(p)
  <2>1. CASE Claimable(p)
    <3>1. \A q \in Passes : q # p => ~fresh'[q]
      BY <1>5, <2>1, Zenon DEF Claim
    <3>2. status' = "searching" /\ hash = NoHash /\ hash' = hash
      BY <1>5, <2>1 DEF Claim, Claimable, InTurn, QueuedIsFree
    <3>3. Orphans' \subseteq {hash'} /\ QueuedIsFree' /\ Owed'
      BY <1>5, <3>2 DEF Claim, InTurn, Orphans, QueuedIsFree, Owed, outside, history
    <3>4. Known(p)'
      BY <1>5, <2>1, <3>2 DEF Claim, Known, TypeOK
    <3> QED
      BY <3>1, <3>3, <3>4, LoneStep
  <2>2. CASE ~Claimable(p)
    BY <1>5, <2>2, LeavesInTurn DEF Claim, Ends, row, outside, history
  <2> QED
    BY <2>1, <2>2
<1>6. CASE SearchConcludes(p)
  <2>1. fresh[p]
    BY <1>6, ActedInTurn DEF SearchConcludes, EndsActing
  <2>2. hash = NoHash
    BY <1>6, <2>1, FreshKnows DEF SearchConcludes, Known, InTurn, QueuedIsFree
  <2>3. status' # "grabbed"
    BY <1>6 DEF SearchConcludes, Absorbable
  <2> QED
    BY <1>6, <2>2, <2>3, ClosesInTurn DEF SearchConcludes, row, history
<1>7. CASE AlreadyGrabbed(p)
  BY <1>7, LeavesInTurn DEF AlreadyGrabbed, Ends, row, history
<1>8. CASE Choose(p)
  <2>1. Quiet(p)
    BY <1>8, OthersKnow DEF Choose, Quiet, Orphans, row, outside, history
  <2>2. ASSUME fresh'[p] PROVE Known(p)'
    <3>1. Known(p)
      BY <1>8, <2>2, FreshKnows DEF Choose, race
    <3> QED
      BY <1>8, <3>1 DEF Choose, Known, TypeOK, InTurn, Orphans, row, local, copies, outside, history
  <2>3. Owed'
    BY <1>8, OwedStays DEF Choose, InTurn, row, outside, history
  <2> QED
    BY <2>1, <2>2, <2>3, QuietStep
<1>9. CASE ChoosesNothing(p)
  <2>1. Quiet(p)
    BY <1>9, OthersKnow DEF ChoosesNothing, Quiet, Orphans, row, outside, history
  <2>2. ASSUME fresh'[p] PROVE Known(p)'
    <3>1. Known(p)
      BY <1>9, <2>2, FreshKnows DEF ChoosesNothing, race
    <3> QED
      BY <1>9, <3>1 DEF ChoosesNothing, Known, TypeOK, InTurn, Orphans, row, local, copies, outside, history
  <2>3. Owed'
    BY <1>9, OwedStays DEF ChoosesNothing, InTurn, row, outside, history
  <2> QED
    BY <2>1, <2>2, <2>3, QuietStep
<1>10. CASE Reserve(p)
  <2>1. CASE pick[p] \notin Unannounced /\ status = "searching" /\ hash = NoHash
    <3>1. \A q \in Passes : q # p => ~fresh'[q]
      BY <1>10, <2>1, ActedInTurn DEF Reserve
    <3>2. Orphans' = {} /\ QueuedIsFree' /\ Owed'
      BY <1>10, <2>1 DEF Reserve, InTurn, Orphans, QueuedIsFree, Owed, TypeOK, outside, history
    <3>3. Known(p)'
      BY <1>10, <2>1, <3>2 DEF Reserve, Known, TypeOK, local
    <3> QED
      BY <3>1, <3>2, <3>3, LoneStep
  <2>2. CASE ~(pick[p] \notin Unannounced /\ status = "searching" /\ hash = NoHash)
    <3>1. Quiet(p)
      BY <1>10, <2>2, OthersKnow DEF Reserve, Quiet, Orphans, outside, history
    <3>2. ASSUME fresh'[p] PROVE Known(p)'
      <4>1. Known(p)
        BY <1>10, <2>2, <3>2, FreshKnows DEF Reserve, race
      <4>2. pick[p] \in Unannounced /\ status = "searching" /\ hash = NoHash
        BY <1>10, <2>2, <4>1 DEF Reserve, Known
      <4>3. Orphans' = {}
        BY <3>1, <4>2 DEF InTurn, Quiet, Orphans, TypeOK
      <4>4. pc'[p] = "add" /\ pick'[p] = pick[p] /\ hash' = hash /\ status' = status
        BY <1>10, <2>2 DEF Reserve, TypeOK, local
      <4> QED
        BY <4>2, <4>3, <4>4 DEF Known
    <3>3. Owed'
      BY <1>10, <2>2, OwedStays DEF Reserve, InTurn, outside, history
    <3> QED
      BY <3>1, <3>2, <3>3, QuietStep
  <2> QED
    BY <2>1, <2>2
<1>11. CASE AddTorrent(p)
  <2>1. fresh[p] /\ \A q \in Passes : q # p => ~fresh'[q]
    BY <1>11, ActedInTurn DEF AddTorrent
  <2>2. /\ Orphans = {} /\ status = "searching"
        /\ hash = IF pick[p] \in Unannounced THEN NoHash ELSE pick[p]
    BY <1>11, <2>1, FreshKnows DEF AddTorrent, Known
  <2>3. pc'[p] = "mark" /\ pick'[p] = pick[p]
    BY <1>11 DEF AddTorrent, TypeOK, local
  <2>4. {pick[p]} \intersect Unannounced \subseteq InTheGap'
    BY <2>3 DEF InTheGap
  <2>5. Orphans' \subseteq {hash'} /\ QueuedIsFree' /\ Owed'
    BY <1>11, <2>2, <2>4 DEF AddTorrent, Orphans, QueuedIsFree, Owed, row, history
  <2>6. Known(p)'
    BY <1>11, <2>2, <2>3 DEF AddTorrent, Known, row
  <2> QED
    BY <2>1, <2>5, <2>6, LoneStep
<1>12. CASE AddFails(p)
  <2>1. CASE UNCHANGED <<client, unanswered, race>>
    <3>1. Quiet(p)
      BY <1>12, <2>1, OthersKnow DEF AddFails, Quiet, Orphans, row
    <3>2. ASSUME fresh'[p] PROVE Known(p)'
      <4>1. Known(p)
        BY <2>1, <3>2, FreshKnows DEF race
      <4> QED
        BY <1>12, <2>1, <4>1 DEF AddFails, Known, TypeOK, Orphans, row
    <3>3. Owed'
      BY <1>12, <2>1, OwedStays DEF AddFails, InTurn, row
    <3> QED
      BY <3>1, <3>2, <3>3, QuietStep
  <2>2. CASE /\ Acts(p) /\ client' = client \union {pick[p]}
             /\ unanswered' = unanswered \union {pick[p]}
    <3>1. fresh[p] /\ \A q \in Passes : q # p => ~fresh'[q]
      BY <2>2, ActedInTurn
    <3>2. Orphans = {} /\ status = "searching"
      BY <1>12, <3>1, FreshKnows DEF AddFails, Known
    <3>3. Orphans' = {} /\ QueuedIsFree' /\ Owed'
      BY <1>12, <2>2, <3>2 DEF AddFails, Orphans, QueuedIsFree, Owed, InTurn, row
    <3>4. Known(p)'
      BY <1>12, <3>2, <3>3 DEF AddFails, Known, TypeOK, row
    <3> QED
      BY <3>1, <3>3, <3>4, LoneStep
  <2> QED
    BY <1>12, <2>1, <2>2 DEF AddFails
<1>13. CASE MarkGrabbed(p)
  <2>1. fresh[p] /\ \A q \in Passes : q # p => ~fresh'[q]
    BY <1>13, ActedInTurn DEF MarkGrabbed
  <2>2. Orphans \subseteq {pick[p]}
    <3>1. hash = IF pick[p] \in Unannounced THEN NoHash ELSE pick[p]
      BY <1>13, <2>1, FreshKnows DEF MarkGrabbed, Known
    <3> QED
      BY <3>1 DEF InTurn, Orphans, TypeOK
  <2>3. pc'[p] = "owe" /\ pick'[p] = hash' /\ hash' = pick[p]
    BY <1>13 DEF MarkGrabbed, TypeOK, local
  <2>4. Orphans' \subseteq {hash'} /\ QueuedIsFree' /\ Owed'
    BY <1>13, <2>2, <2>3, GapStays
       DEF MarkGrabbed, Orphans, QueuedIsFree, Owed, outside, history
  <2>5. Known(p)'
    BY <2>3 DEF Known
  <2> QED
    BY <2>1, <2>4, <2>5, LoneStep
<1>14. CASE RecordObligation(p)
  BY <1>14, LeavesInTurn DEF RecordObligation, Ends, row, history
<1>15. CASE ReleaseIntent(p)
  <2>1. CASE GivesBack
    <3>1. fresh[p] /\ \A q \in Passes : q # p => ~fresh'[q]
      BY <1>15, <2>1, ActedInTurn DEF ReleaseIntent
    <3>2. Orphans = {} /\ status = "searching"
      BY <1>15, <3>1, FreshKnows DEF ReleaseIntent, Known
    <3>3. Orphans' \subseteq {hash'} /\ QueuedIsFree' /\ Owed'
      BY <1>15, <3>2 DEF ReleaseIntent, Orphans, QueuedIsFree, Owed, outside, history
    <3>4. Known(p)'
      BY <1>15, <2>1, <3>2 DEF ReleaseIntent, Known, TypeOK
    <3> QED
      BY <3>1, <3>3, <3>4, LoneStep
  <2>2. CASE ~GivesBack
    <3>1. Quiet(p)
      BY <1>15, <2>2, OthersKnow DEF ReleaseIntent, Quiet, Orphans, outside, history
    <3>2. ASSUME fresh'[p] PROVE Known(p)'
      <4>1. Known(p)
        BY <1>15, <2>2, <3>2, FreshKnows DEF ReleaseIntent, race
      <4> QED
        BY <1>15, <2>2, <4>1 DEF ReleaseIntent, GivesBack, Known, TypeOK
    <3>3. Owed'
      BY <1>15, <2>2, OwedStays DEF ReleaseIntent, InTurn, outside, history
    <3> QED
      BY <3>1, <3>2, <3>3, QuietStep
  <2> QED
    BY <2>1, <2>2
<1>16. CASE Conclude(p)
  <2>1. fresh[p]
    BY <1>16, ActedInTurn DEF Conclude, EndsActing
  <2>2. hash = NoHash
    BY <1>16, <2>1, FreshKnows DEF Conclude, Known, InTurn, QueuedIsFree
  <2>3. status' # "grabbed"
    BY <1>16 DEF Conclude, Outcomes
  <2> QED
    BY <1>16, <2>2, <2>3, ClosesInTurn DEF Conclude, row, history
<1> QED
  BY <1>1, <1>2, <1>3, <1>4, <1>5, <1>6, <1>7, <1>8, <1>9, <1>10, <1>11, <1>12, <1>13, <1>14, <1>15, <1>16 DEF TakesItem

-----------------------------------------------------------------------------
(* The invariant, and what it is for *)

LEMMA DiesInTurn ==
  ASSUME AcqType, InTurn, NEW p \in Passes, LocalStep(p), Dies(p)
  PROVE  InTurn'
<1>1. /\ pc[p] = "owe" => pick[p] \in forgone'
      /\ pc[p] = "oblige" => seen[p].hash \in forgone'
  BY DEF Dies, At
<1>2. unreserved \union InTheGap \subseteq unreserved' \union InTheGap'
  BY GapStays DEF Dies, At
<1> QED
  BY <1>1, <1>2, LeavesInTurn DEF Dies, Ends, At, row

LEMMA WorldInTurn ==
  ASSUME AcqType, InTurn, World \/ UNCHANGED vars
  PROVE  InTurn'
<1> USE AcquisitionAssumption DEF AcqType
<1> InTheGap' = InTheGap
  <2>1. UNCHANGED <<pc, local>>
    BY WorldSteps
  <2> QED
    BY <2>1 DEF InTheGap, local
<1>1. CASE Resurrect \/ Absorb
  <2>1. \A q \in Passes : ~fresh'[q]
    BY <1>1, Zenon DEF Resurrect, Absorb, OthersAct
  <2>2. Orphans' \subseteq {hash'} /\ QueuedIsFree' /\ Owed'
    BY <1>1 DEF Resurrect, Absorb, InTurn, Orphans, QueuedIsFree, Owed, outside, history
  <2> QED
    BY <2>1, <2>2 DEF InTurn
<1>2. CASE GoesStale \/ Lands \/ (\E r \in Releases : Disappears(r)) \/ UNCHANGED vars
  <2>1. /\ UNCHANGED <<status, hash, owed, pc, local, race, history>>
        /\ client' \subseteq client /\ Orphans' \subseteq Orphans
    BY <1>2 DEF GoesStale, Lands, Disappears, vars, row, outside, history, Orphans
  <2>2. Orphans' \subseteq {hash'} /\ QueuedIsFree' /\ Owed'
    BY <2>1 DEF InTurn, QueuedIsFree, Owed, local, copies, history
  <2>3. ASSUME NEW q \in Passes, fresh'[q] PROVE Known(q)'
    <3>1. Known(q)
      BY <2>1, <2>3, FreshKnows DEF race
    <3> QED
      BY <2>1, <3>1 DEF Known, local, copies
  <2> QED
    BY <2>2, <2>3 DEF InTurn
<1> QED
  BY <1>1, <1>2 DEF World

\* A race lost is never forgotten.
LEMMA OvertakenForGood ==
  ASSUME [Next]_vars, overtaken
  PROVE  overtaken'
BY ZenonT(40) DEF Next, World, Runs, Reconciles, Reswitches, TakesItem, Ends, EndsActing, Acts, Reads,
   OthersAct, vars, race, StartGrab, StartSearch, AskClient, ListOpen, CloseOwned, RequeueMissing,
   ConfirmIntent, LeaveInFlight, RecordRecovered, ListGrabbed, JudgeTorrent, Switch, DeleteDead,
   ListQueue, Reclaim, AgeOut, NotDue, Claim, SearchConcludes, AlreadyGrabbed, Choose,
   ChoosesNothing, Reserve, AddTorrent, AddFails, MarkGrabbed, RecordObligation, ReleaseIntent,
   Conclude, Dies, GoesStale, Resurrect, Absorb, Lands, Disappears

LEMMA AcqInvStep == AcqType /\ AcqInv /\ [Next]_vars => AcqInv'
<1> SUFFICES ASSUME AcqType, AcqInv, [Next]_vars, ~overtaken' PROVE InTurn'
  BY DEF AcqInv
<1>1. InTurn
  BY OvertakenForGood DEF AcqInv
<1>2. CASE World \/ UNCHANGED vars
  BY <1>1, <1>2, WorldInTurn
<1>3. ASSUME NEW p \in Passes, StartGrab(p) \/ Runs(p) \/ Dies(p)
      PROVE  InTurn'
  <2>1. LocalStep(p)
    BY <1>3, LocalSteps
  <2>2. CASE StartGrab(p) \/ Reconciles(p)
    BY <1>1, <2>1, <2>2, ReconcileInTurn
  <2>3. CASE Reswitches(p)
    BY <1>1, <2>1, <2>3, ReswitchInTurn
  <2>4. CASE TakesItem(p)
    BY <1>1, <2>1, <2>4, TakeInTurn
  <2>5. CASE Dies(p)
    BY <1>1, <2>1, <2>5, DiesInTurn
  <2> QED
    BY <1>3, <2>2, <2>3, <2>4, <2>5 DEF Runs
<1> QED
  BY <1>2, <1>3 DEF Next

LEMMA AcqInvInit == Init => AcqInv
BY DEF Init, AcqInv, InTurn, Orphans, QueuedIsFree, Known, Owed, InTheGap

LEMMA AcqInvAlways == Spec => []AcqInv
BY InitAcqType, AcqTypeStep, AcqInvInit, AcqInvStep, PTL DEF Spec

\* Whatever crashes, fails or vanishes, every torrent the client holds for the item is
\* the one its row names: the hash is reserved before the add, and given up only by a
\* pass to which the torrent never landed, vanished, or is on record as tried.  A release
\* that announces no hash cannot be reserved: it alone may be left without a row, by a
\* pass cut off between its add and mark_grabbed.
THEOREM NoOrphan == Spec => []EveryTorrentNamed
<1>1. AcqInv => EveryTorrentNamed
  BY DEF AcqInv, InTurn, Orphans, EveryTorrentNamed
<1> QED
  BY <1>1, AcqInvAlways, PTL

\* A grabbed row whose torrent the client holds, from a tracker with an economy block, has
\* its seed obligation, or a pass about to record it, or had one fail at that write.
THEOREM GrabsAreProtected == Spec => []GrabbedIsOwed
<1>1. AcqInv => GrabbedIsOwed
  BY DEF AcqInv, InTurn, Owed, GrabbedIsOwed
<1> QED
  BY <1>1, AcqInvAlways, PTL
=============================================================================
