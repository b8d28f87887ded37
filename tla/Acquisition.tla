---------------------------- MODULE Acquisition -----------------------------
(***************************************************************************)
(* One wanted item, its row in acquire.db, the torrent client, and the     *)
(* passes that work on it: the cron's grab and search, the same two        *)
(* started by hand or from the web, several at once.  A grab pass first    *)
(* reconciles the row with the client and the library (reconcile.py),      *)
(* switches a dead release for another (_reswitch.py), then takes the item *)
(* (_pass_gates.py, _grab_pass.py); a search pass reconciles blind and     *)
(* says what is takeable (_search_pass.py).                                *)
(*                                                                         *)
(* Every write of _wanted_store.py is one guarded UPDATE, here one step;   *)
(* between two steps of a pass anything may happen.  Rows meet each other  *)
(* only when a season absorbs its episodes: one row is modelled, and being *)
(* absorbed is something that happens to it.                               *)
(***************************************************************************)
EXTENDS Naturals, FiniteSets

CONSTANTS
  Passes,      \* the processes that may be at work at once
  Releases,    \* info-hashes that trackers offer for this item
  Unannounced, \* those whose search result carries no info-hash
  Floorless,   \* those whose tracker has no economy block: nothing is owed to it
  NoHash,
  MaxTrouble   \* bound on faults and on claims outlived by their age

ASSUME AcquisitionAssumption ==
  /\ Unannounced \subseteq Releases /\ Floorless \subseteq Releases
  /\ NoHash \notin Releases /\ MaxTrouble \in Nat

VARIABLES
  \* The row.
  status, hash,
  stale,       \* its claim is older than _STALE_THRESHOLD_S
  tried,       \* releases grabbed and found dead
  \* The outside.
  client,      \* torrents the client holds
  owned,       \* the library has the work
  owed,        \* hashes under a seed obligation
  \* The passes.
  pc, job,
  seen,        \* the row as p read it
  sight,       \* the hash p asks the client about, then the one it found there
  sighted,     \* the client answered p
  pick,        \* the release p grabs
  \* History.
  fresh,       \* fresh[p]: nobody wrote the row since p read or claimed it
  overtaken,   \* a pass wrote the row, or added a torrent, on a copy out of date
  unanswered,  \* releases whose add failed in the caller's eyes and landed
  unreserved,  \* unannounced releases whose pass was cut off before it named them
  forgone,     \* releases whose pass was cut off at its last write
  trouble

row == <<status, hash, stale, tried>>
outside == <<client, owned>>
copies == <<seen, sight, sighted>>
local == <<job, copies, pick>>
history == <<unanswered, unreserved, forgone>>
race == <<fresh, overtaken>>
vars == <<row, outside, owed, pc, local, race, history, trouble>>

Open == {"pending", "searching", "available", "grabbed"}  \* OPEN_WANTED_STATUSES
Closed == {"done", "abandoned", "absorbed"}
Hashes == Releases \union {NoHash}
PCs == {"idle", "ask", "sweep", "settle", "oblige", "stalled", "judge", "switch",
        "delete", "list", "gate", "cutoff", "choose", "verdict", "reserve", "add",
        "mark", "owe", "release", "conclude"}
\* absorb_episodes leaves a grabbed episode alone.
Absorbable == {"pending", "searching", "available"}
\* Where a pass believes the claim is its own.
InClaim == {"choose", "verdict", "reserve", "add", "mark", "release", "conclude"}

Row == [status |-> status, hash |-> hash]
NoRow == [status |-> "none", hash |-> NoHash]

TypeOK ==
  /\ status \in Open \union Closed
  /\ hash \in Hashes
  /\ stale \in BOOLEAN /\ owned \in BOOLEAN /\ overtaken \in BOOLEAN
  /\ tried \subseteq Releases /\ client \subseteq Releases
  /\ owed \subseteq Releases /\ unanswered \subseteq Releases
  /\ unreserved \subseteq Releases /\ forgone \subseteq Releases
  /\ pc \in [Passes -> PCs]
  /\ job \in [Passes -> {"grab", "search"}]
  /\ seen \in [Passes -> [status : Open \union {"none"}, hash : Hashes]]
  /\ sight \in [Passes -> Hashes]
  /\ sighted \in [Passes -> BOOLEAN]
  /\ pick \in [Passes -> Hashes]
  /\ fresh \in [Passes -> BOOLEAN]
  /\ trouble \in Nat

Init ==
  /\ status = "pending" /\ hash = NoHash
  /\ stale = FALSE /\ tried = {}
  /\ client = {} /\ owned = FALSE /\ owed = {}
  /\ pc = [p \in Passes |-> "idle"]
  /\ job = [p \in Passes |-> "search"]
  /\ seen = [p \in Passes |-> NoRow]
  /\ sight = [p \in Passes |-> NoHash]
  /\ sighted = [p \in Passes |-> FALSE]
  /\ pick = [p \in Passes |-> NoHash]
  /\ fresh = [p \in Passes |-> FALSE]
  /\ overtaken = FALSE /\ unanswered = {} /\ unreserved = {} /\ forgone = {}
  /\ trouble = 0

-----------------------------------------------------------------------------
(* Building blocks *)

At(p, label) == pc[p] = label
Goto(p, label) == pc' = [pc EXCEPT ![p] = label]

Trouble == trouble < MaxTrouble /\ trouble' = trouble + 1
NoTrouble == trouble' = trouble

\* p reads the row, or wins a claim on it: what it knows is what is there.
Reads(p) == fresh' = [fresh EXCEPT ![p] = TRUE] /\ UNCHANGED overtaken

\* p changes the row or the client: what the others know is out of date, and p's
\* own act is a race lost if what p knew was.
Acts(p) ==
  /\ overtaken' = (overtaken \/ ~fresh[p])
  /\ fresh' = [q \in Passes |-> q = p /\ fresh[p]]

\* Somebody who is not a pass changes the row.
OthersAct == fresh' = [q \in Passes |-> FALSE] /\ UNCHANGED overtaken

\* The pass is over, or leaves the item alone: nothing it knew is used again.
Forgets(p) ==
  /\ Goto(p, "idle")
  /\ seen' = [seen EXCEPT ![p] = NoRow]
  /\ sight' = [sight EXCEPT ![p] = NoHash]
  /\ sighted' = [sighted EXCEPT ![p] = FALSE]
  /\ pick' = [pick EXCEPT ![p] = NoHash]
  /\ job' = [job EXCEPT ![p] = "search"]

Ends(p) == Forgets(p) /\ fresh' = [fresh EXCEPT ![p] = FALSE] /\ UNCHANGED overtaken

\* Its last act was a write.
EndsActing(p) ==
  /\ Forgets(p)
  /\ overtaken' = (overtaken \/ ~fresh[p])
  /\ fresh' = [q \in Passes |-> FALSE]

\* On to the pass's own work, for which every row is read anew.
Onward(p) ==
  /\ Goto(p, IF job[p] = "grab" THEN "stalled" ELSE "list")
  /\ seen' = [seen EXCEPT ![p] = NoRow]
  /\ sight' = [sight EXCEPT ![p] = NoHash]
  /\ sighted' = [sighted EXCEPT ![p] = FALSE]
  /\ UNCHANGED <<job, pick>>

-----------------------------------------------------------------------------
(* Reconciliation *)

\* The grab command asks the store which hashes to ask the client about.
StartGrab(p) ==
  /\ At(p, "idle")
  /\ job' = [job EXCEPT ![p] = "grab"]
  /\ sight' = [sight EXCEPT ![p] = IF status \in Open THEN hash ELSE NoHash]
  /\ Goto(p, "ask") /\ Reads(p) /\ NoTrouble
  /\ UNCHANGED <<row, outside, owed, seen, sighted, pick, history>>

\* The search command has no client.
StartSearch(p) ==
  /\ At(p, "idle")
  /\ Goto(p, "sweep") /\ NoTrouble
  /\ UNCHANGED <<row, outside, owed, local, race, history>>

AskClient(p) ==
  /\ At(p, "ask")
  /\ Goto(p, "sweep")
  /\ \/ /\ NoTrouble
        /\ sight' = [sight EXCEPT ![p] = IF @ \in client THEN @ ELSE NoHash]
        /\ sighted' = [sighted EXCEPT ![p] = TRUE]
     \/ Trouble /\ sight' = [sight EXCEPT ![p] = NoHash] /\ UNCHANGED sighted   \* no answer
  /\ UNCHANGED <<row, outside, owed, job, seen, pick, race, history>>

\* The copies of the rows are read after the client answered.
ListOpen(p) ==
  /\ At(p, "sweep")
  /\ IF status \in Open
     THEN /\ seen' = [seen EXCEPT ![p] = Row]
          /\ Goto(p, "settle")
          /\ UNCHANGED <<job, sight, sighted, pick>>
     ELSE Onward(p)
  /\ IF job[p] = "search" THEN Reads(p) ELSE UNCHANGED race
  /\ NoTrouble
  /\ UNCHANGED <<row, outside, owed, history>>

\* Mutant of MayClose: only a grab is closed.
MayCloseGrabbed == status = "grabbed"

MayClose == status \in Open

\* mark_done: what is on the disk outranks what the queue thinks.
CloseOwned(p) ==
  /\ At(p, "settle") /\ owned
  /\ Onward(p) /\ NoTrouble
  /\ IF MayClose
     THEN status' = "done" /\ Acts(p)
     ELSE UNCHANGED <<status, race>>
  /\ UNCHANGED <<hash, stale, tried, outside, owed, history>>

\* The hash was not among those the client reported: gone, or reserved since it was asked.
Vanished(p) == sighted[p] /\ seen[p].hash # NoHash /\ seen[p].hash # sight[p]

\* An add that landed and whose pass never said so.
Unconfirmed(p) ==
  sighted[p] /\ seen[p].status = "searching" /\ seen[p].hash # NoHash /\ seen[p].hash = sight[p]

\* Mutant of MayRequeue: only a row between its claim and its grab is queued again.
MayRequeueReserved == status = "searching" /\ hash # NoHash

\* Mutant of MayRequeue: only a grabbed row is queued again, as it once was.
MayRequeueGrabbed == status = "grabbed" /\ hash # NoHash

MayRequeue == status \in Open /\ hash # NoHash

RequeueMissing(p) ==
  /\ At(p, "settle") /\ ~owned /\ Vanished(p)
  /\ Onward(p) /\ NoTrouble
  /\ IF MayRequeue
     THEN status' = "pending" /\ hash' = NoHash /\ Acts(p)
     ELSE UNCHANGED <<status, hash, race>>
  /\ UNCHANGED <<stale, tried, outside, owed, history>>

\* confirm_grab_intent
ConfirmIntent(p) ==
  /\ At(p, "settle") /\ ~owned /\ Unconfirmed(p)
  /\ NoTrouble
  /\ IF status = "searching" /\ hash # NoHash
     THEN /\ status' = "grabbed" /\ hash' = seen[p].hash
          /\ Goto(p, "oblige") /\ Acts(p) /\ UNCHANGED local
     ELSE Onward(p) /\ UNCHANGED <<status, hash, race>>
  /\ UNCHANGED <<stale, tried, outside, owed, history>>

\* Nothing to do: no hash, no sight of the client, or a torrent on its way.
LeaveInFlight(p) ==
  /\ At(p, "settle") /\ ~owned /\ ~Vanished(p) /\ ~Unconfirmed(p)
  /\ Onward(p) /\ NoTrouble
  /\ UNCHANGED <<row, outside, owed, race, history>>

\* Mutant of Recovered: a grab confirmed late is not protected.
RecoveredNothing(p) == {}

\* The tracker is found by the torrent's own tag, so the client must hold it, among the
\* trackers that have an economy block.
Recovered(p) == ({seen[p].hash} \intersect client) \ Floorless

\* record_grab_obligation, fail-soft: the client, the store or the tag may fail it, a tag
\* being anybody's to edit in the client.
RecordRecovered(p) ==
  /\ At(p, "oblige")
  /\ Onward(p)
  /\ \/ NoTrouble /\ owed' = owed \union Recovered(p) /\ UNCHANGED forgone
     \/ Trouble /\ forgone' = forgone \union {seen[p].hash} /\ UNCHANGED owed
  /\ UNCHANGED <<row, outside, race, unanswered, unreserved>>

-----------------------------------------------------------------------------
(* Switching a dead release for another *)

ListGrabbed(p) ==
  /\ At(p, "stalled")
  /\ IF status = "grabbed" /\ hash # NoHash
     THEN /\ seen' = [seen EXCEPT ![p] = Row]
          /\ Goto(p, "judge") /\ Reads(p)
     ELSE Goto(p, "list") /\ UNCHANGED <<seen, race>>
  /\ NoTrouble
  /\ UNCHANGED <<row, outside, owed, job, sight, sighted, pick, history>>

\* Nothing is dead to a client that cannot be reached; any torrent it holds may be.
JudgeTorrent(p) ==
  /\ At(p, "judge")
  /\ \/ seen[p].hash \in client /\ Goto(p, "switch") /\ UNCHANGED seen
     \/ Goto(p, "list") /\ seen' = [seen EXCEPT ![p] = NoRow]
  /\ NoTrouble
  /\ UNCHANGED <<row, outside, owed, job, sight, sighted, pick, race, history>>

\* requeue_for_reswitch: remembered, queued again and its clock reset at once.
Switch(p) ==
  /\ At(p, "switch") /\ NoTrouble
  /\ IF MayRequeue
     THEN /\ status' = "pending" /\ hash' = NoHash
          /\ tried' = tried \union {seen[p].hash}
          /\ Goto(p, "delete") /\ Acts(p) /\ UNCHANGED seen
     ELSE /\ Goto(p, "list") /\ seen' = [seen EXCEPT ![p] = NoRow]
          /\ UNCHANGED <<status, hash, tried, race>>
  /\ UNCHANGED <<stale, outside, owed, job, sight, sighted, pick, history>>

DeleteDead(p) ==
  /\ At(p, "delete")
  /\ Goto(p, "list") /\ seen' = [seen EXCEPT ![p] = NoRow]
  /\ \/ NoTrouble /\ client' = client \ {seen[p].hash}
     \/ Trouble /\ UNCHANGED client
  /\ UNCHANGED <<row, owned, owed, job, sight, sighted, pick, race, history>>

-----------------------------------------------------------------------------
(* The gates and the claim *)

\* _build_queue: the pass's own status, and claims that have grown old.
ListQueue(p) ==
  /\ At(p, "list") /\ NoTrouble
  /\ IF \/ status = (IF job[p] = "grab" THEN "available" ELSE "pending")
        \/ status = "searching" /\ stale
     THEN /\ seen' = [seen EXCEPT ![p] = Row]
          /\ Goto(p, IF status = "searching" THEN "gate" ELSE "cutoff") /\ Reads(p)
          /\ UNCHANGED <<job, sight, sighted, pick>>
     ELSE Ends(p)
  /\ UNCHANGED <<row, outside, owed, history>>

MayReclaim == status = "searching" /\ stale /\ hash = NoHash

\* reclaim_stale_searching
Reclaim(p) ==
  /\ At(p, "gate") /\ NoTrouble
  /\ IF MayReclaim
     THEN /\ status' = "pending"
          /\ Goto(p, "cutoff") /\ Acts(p)
          /\ UNCHANGED local
     ELSE Ends(p) /\ UNCHANGED status
  /\ UNCHANGED <<hash, stale, tried, outside, owed, history>>

\* Past the cadence's cutoff.  set_status has no guard: whatever became of the row
\* since it was listed, it is abandoned.
AgeOut(p) ==
  /\ At(p, "cutoff")
  /\ status' = "abandoned"
  /\ EndsActing(p) /\ NoTrouble
  /\ UNCHANGED <<hash, stale, tried, outside, owed, history>>

\* The search pass leaves an item alone until its tier's interval has passed.
NotDue(p) ==
  /\ At(p, "cutoff") /\ job[p] = "search"
  /\ Ends(p) /\ NoTrouble
  /\ UNCHANGED <<row, outside, owed, history>>

\* claim_for_grab, claim_for_search: which status the UPDATE matches.
Claimable(p) ==
  status = (IF job[p] = "grab" /\ seen[p].status = "available" THEN "available" ELSE "pending")

Claim(p) ==
  /\ At(p, "cutoff") /\ NoTrouble
  /\ IF Claimable(p)
     THEN /\ status' = "searching" /\ stale' = FALSE
          /\ seen' = [seen EXCEPT ![p] = NoRow]
          /\ Goto(p, IF job[p] = "grab" THEN "choose" ELSE "verdict")
          /\ fresh' = [q \in Passes |-> q = p]
          /\ UNCHANGED <<overtaken, job, sight, sighted, pick>>
     ELSE Ends(p) /\ UNCHANGED <<status, stale>>
  /\ UNCHANGED <<hash, tried, outside, owed, history>>

\* _apply_search_verdict: the verdict, then a status set without a guard.  A search that
\* found the season's pack absorbs its own episode instead, if it still may.
SearchConcludes(p) ==
  /\ At(p, "verdict")
  /\ \/ status' \in {"available", "pending", "abandoned"}
     \/ status \in Absorbable /\ status' = "absorbed"
  /\ EndsActing(p) /\ NoTrouble
  /\ UNCHANGED <<hash, stale, tried, outside, owed, history>>

-----------------------------------------------------------------------------
(* The grab *)

\* The row read again after the claim names a torrent already.
AlreadyGrabbed(p) ==
  /\ At(p, "choose") /\ (status = "grabbed" \/ hash # NoHash)
  /\ Ends(p) /\ NoTrouble
  /\ UNCHANGED <<row, outside, owed, history>>

\* Search, filters and ranking: a release that was not found dead before, as far as its
\* result tells.
Choose(p) ==
  /\ At(p, "choose") /\ status # "grabbed" /\ hash = NoHash
  /\ \E r \in Releases \ (tried \ Unannounced) : pick' = [pick EXCEPT ![p] = r]
  /\ Goto(p, "reserve") /\ NoTrouble
  /\ UNCHANGED <<row, outside, owed, job, copies, race, history>>

\* Nothing takeable, an outage, or a passkey refused while the torrent is fetched.
ChoosesNothing(p) ==
  /\ At(p, "choose") /\ status # "grabbed" /\ hash = NoHash
  /\ Goto(p, "release") /\ NoTrouble
  /\ UNCHANGED <<row, outside, owed, local, race, history>>

\* Mutant of Reserve: the hash is left to mark_grabbed, as before the intent.
ReserveNothing(p) ==
  /\ At(p, "reserve")
  /\ Goto(p, "add") /\ NoTrouble
  /\ UNCHANGED <<row, outside, owed, local, race, history>>

\* record_grab_intent, unless the result has no hash to record; refused, it is logged and
\* the add goes on.
Reserve(p) ==
  /\ At(p, "reserve")
  /\ IF pick[p] \notin Unannounced /\ status = "searching" /\ hash = NoHash
     THEN hash' = pick[p] /\ Acts(p)
     ELSE UNCHANGED <<hash, race>>
  /\ Goto(p, "add") /\ NoTrouble
  /\ UNCHANGED <<status, stale, tried, outside, owed, local, history>>

AddTorrent(p) ==
  /\ At(p, "add")
  /\ client' = client \union {pick[p]}
  /\ Goto(p, "mark") /\ Acts(p) /\ NoTrouble
  /\ UNCHANGED <<row, owned, owed, local, history>>

\* The client refuses, or is not heard to accept: the same failure to the pass.
AddFails(p) ==
  /\ At(p, "add")
  /\ Goto(p, "release") /\ Trouble
  /\ \/ UNCHANGED <<client, unanswered, race>>
     \/ /\ Acts(p)
        /\ client' = client \union {pick[p]} /\ unanswered' = unanswered \union {pick[p]}
  /\ UNCHANGED <<row, owned, owed, local, unreserved, forgone>>

\* mark_grabbed has no guard.
MarkGrabbed(p) ==
  /\ At(p, "mark")
  /\ status' = "grabbed" /\ hash' = pick[p]
  /\ Goto(p, "owe") /\ Acts(p) /\ NoTrouble
  /\ UNCHANGED <<stale, tried, outside, owed, local, history>>

\* _record_seed_obligation, fail-soft, of a tracker that has an economy block.
RecordObligation(p) ==
  /\ At(p, "owe")
  /\ Ends(p)
  /\ \/ NoTrouble /\ owed' = owed \union ({pick[p]} \ Floorless) /\ UNCHANGED forgone
     \/ Trouble /\ forgone' = forgone \union {pick[p]} /\ UNCHANGED owed
  /\ UNCHANGED <<row, outside, unanswered, unreserved>>

GivesBack == status = "searching" /\ hash # NoHash

\* clear_grab_intent
ReleaseIntent(p) ==
  /\ At(p, "release")
  /\ IF GivesBack THEN hash' = NoHash /\ Acts(p) ELSE UNCHANGED <<hash, race>>
  /\ Goto(p, "conclude") /\ NoTrouble
  /\ UNCHANGED <<status, stale, tried, outside, owed, local, history>>

\* Mutant of Outcomes: the outcome's tag is written for the status.
OutcomesTagged(p) == {"retried"}

Outcomes(p) == {"pending", "available", "abandoned"}

\* Back in a queue; abandoned if a tracker refused the passkey.
Conclude(p) ==
  /\ At(p, "conclude")
  /\ status' \in Outcomes(p)
  /\ EndsActing(p) /\ NoTrouble
  /\ UNCHANGED <<hash, stale, tried, outside, owed, history>>

-----------------------------------------------------------------------------
(* Faults, and the world *)

\* Killed, or a locked database: the item is left as it is.
Dies(p) ==
  /\ pc[p] # "idle" /\ Trouble
  /\ Ends(p)
  /\ forgone' = forgone \union (CASE At(p, "owe") -> {pick[p]}
                                  [] At(p, "oblige") -> {seen[p].hash}
                                  [] OTHER -> {})
  /\ unreserved' = unreserved \union (IF At(p, "mark") THEN {pick[p]} \intersect Unannounced ELSE {})
  /\ UNCHANGED <<row, outside, owed, unanswered>>

\* An hour passes over a claim: nobody's, or that of a pass held up that long.
GoesStale ==
  /\ status = "searching" /\ ~stale
  /\ stale' = TRUE
  /\ IF \E p \in Passes : pc[p] \in InClaim THEN Trouble ELSE NoTrouble
  /\ UNCHANGED <<status, hash, tried, outside, owed, pc, local, race, history>>

\* detect: abandoned while still wanted, it is queued again.
Resurrect ==
  /\ status = "abandoned" /\ ~owned
  /\ status' = "pending" /\ hash' = NoHash
  /\ OthersAct /\ NoTrouble
  /\ UNCHANGED <<stale, tried, outside, owed, pc, local, history>>

\* absorb_episodes, for a sibling whose search found the season's pack.
Absorb ==
  /\ status \in Absorbable /\ Trouble
  /\ status' = "absorbed" /\ OthersAct
  /\ UNCHANGED <<hash, stale, tried, outside, owed, pc, local, history>>

\* A torrent downloads, and the pipeline puts it in the library.
Lands ==
  /\ ~owned /\ client # {}
  /\ owned' = TRUE /\ NoTrouble
  /\ UNCHANGED <<row, client, owed, pc, local, race, history>>

\* Somebody removes a torrent from the client.
Disappears(r) ==
  /\ r \in client /\ Trouble
  /\ client' = client \ {r}
  /\ UNCHANGED <<row, owned, owed, pc, local, race, history>>

\* What a pass does when it is left to run.
Reconciles(p) ==
  \/ StartSearch(p) \/ AskClient(p) \/ ListOpen(p) \/ CloseOwned(p) \/ RequeueMissing(p)
  \/ ConfirmIntent(p) \/ LeaveInFlight(p) \/ RecordRecovered(p)

Reswitches(p) == ListGrabbed(p) \/ JudgeTorrent(p) \/ Switch(p) \/ DeleteDead(p)

TakesItem(p) ==
  \/ ListQueue(p) \/ Reclaim(p) \/ AgeOut(p) \/ NotDue(p) \/ Claim(p) \/ AlreadyGrabbed(p)
  \/ SearchConcludes(p) \/ Choose(p) \/ ChoosesNothing(p) \/ Reserve(p) \/ AddTorrent(p)
  \/ AddFails(p) \/ MarkGrabbed(p) \/ RecordObligation(p) \/ ReleaseIntent(p) \/ Conclude(p)

Runs(p) == Reconciles(p) \/ Reswitches(p) \/ TakesItem(p)

World ==
  \/ GoesStale \/ Resurrect \/ Absorb \/ Lands
  \/ \E r \in Releases : Disappears(r)

Next == World \/ \E p \in Passes : StartGrab(p) \/ Runs(p) \/ Dies(p)

\* A pass that began runs to its end, the crons start grab passes again and again
\* whatever else is started, and time passes.
Fairness ==
  /\ \A p \in Passes : WF_vars(Runs(p)) /\ SF_vars(StartGrab(p))
  /\ WF_vars(GoesStale)

Spec == Init /\ [][Next]_vars /\ Fairness

-----------------------------------------------------------------------------
(* Properties *)

\* Added and not named yet: what an unannounced release goes through, and no other.
InTheGap == {pick[p] : p \in {q \in Passes : pc[q] = "mark" /\ pick[q] \in Unannounced}}

\* "No orphan" (_grab_pass.py), for the releases that announce their hash: whatever
\* crashes, fails or vanishes between the choice of a release and the confirmed grab,
\* every torrent in the client is the one its row names - a dead release whose deletion
\* failed aside - unless an add was not heard to succeed, or a pass acted on a row another
\* had changed meanwhile.  One that announces none is unnamed from its add to
\* mark_grabbed, and stays so for ever only if its pass is cut off in between.
EveryTorrentNamed ==
  ~overtaken => client \ (tried \union unanswered \union unreserved) \subseteq {hash} \union InTheGap

\* A torrent taken for the item from a tracker that asks for one is under a seed
\* obligation, whether its pass confirmed it or a later one found it in the client: only a
\* pass cut off, or refused, at its very last write leaves one without, and no later pass
\* makes up for it.  Races lost aside, as above.
GrabbedIsOwed ==
  ~overtaken /\ status = "grabbed" /\ hash \in client \ Floorless =>
    \/ hash \in owed \union forgone
    \/ \E p \in Passes : \/ pc[p] = "owe" /\ pick[p] = hash
                         \/ pc[p] = "oblige" /\ seen[p].hash = hash

\* No row stays claimed for good: one that reserved a hash is reconciled with the
\* client, one that did not is taken back when its claim is old.
ClaimsEnd == (status = "searching") ~> (status # "searching")

\* Once the library has the work the row closes, whatever pass it is in the hands of, and
\* closes again if the unguarded write of a pass under way opens it.
OwnedCloses == owned ~> (status \in Closed)

\* A grab whose torrent vanished does not wait for it for ever.
VanishedIsNoticed ==
  (status = "grabbed" /\ hash \notin client) ~> (status # "grabbed" \/ hash \in client)
=============================================================================
