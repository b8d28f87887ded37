---------------------------- MODULE IndexOutbox -----------------------------
(***************************************************************************)
(* The indexer's outbox (indexer/outbox): dispatch, scraper and trailers   *)
(* publish what they did to a disk as rows of index_outbox, and a drain    *)
(* applies them to the index - the one at the end of a dispatch, which     *)
(* takes no lock, and the one at the end of library-index, so two may be   *)
(* at work at once.  Rows of a disk the index holds for unmounted are      *)
(* parked in pending_op and replayed by a drain that finds it mounted.     *)
(*                                                                         *)
(* One disk, and rows numbered as they are published.  What a row says is  *)
(* abstracted to its number: the index is the last row written to it.      *)
(***************************************************************************)
EXTENDS Naturals, Sequences, FiniteSets

CONSTANTS
  Rows,        \* 1 .. the number of rows published
  SameFile,    \* those that name one and the same file, which a batch deduplicates
  Unusable,    \* those whose payload the handlers refuse
  Complete,    \* moves with every field: their handlers write without finding anything first
  Batch,       \* how many rows a drain fetches at a time
  Drains,
  ByHand,      \* whether an operator may restore the disk's row in the database
  MaxTrouble   \* bound on refused writes, kills, lost publications and I/O errors

ASSUME OutboxAssumption ==
  /\ Rows \subseteq Nat \ {0} /\ IsFiniteSet(Rows) /\ SameFile \subseteq Rows
  /\ Unusable \subseteq Rows /\ Complete \subseteq Rows /\ Batch \in Nat \ {0}
  /\ ByHand \in BOOLEAN /\ MaxTrouble \in Nat

VARIABLES
  status,     \* index_outbox.status, with what has no row: "unpublished", "lost"
  parked,     \* pending_op
  mounted,    \* disk.is_mounted
  present,    \* the volume really is there
  index,      \* the last row written to the index, 0 for none
  pc,
  todo,       \* what the drain has fetched and not yet come to
  stale,      \* the rows of its batch that a later one replaces
  \* History.
  applied,    \* rows whose effect reached the index
  missed,     \* rows whose handler ran and wrote nothing
  expired,    \* rows purged from pending_op unreplayed
  disordered, \* something the drain does not order happened
  trouble

outbox == <<status, parked>>
disk == <<mounted, present>>
written == <<index, applied, missed>>
history == <<expired, disordered>>
vars == <<outbox, disk, written, pc, todo, stale, history, trouble>>

Parked == [row : Rows, replayed : BOOLEAN]
Waiting(r) == \E i \in DOMAIN parked : parked[i].row = r /\ ~parked[i].replayed

TypeOK ==
  /\ status \in [Rows -> {"unpublished", "lost", "pending", "done", "failed", "deferred"}]
  /\ parked \in Seq(Parked)
  /\ mounted \in BOOLEAN /\ present \in BOOLEAN /\ disordered \in BOOLEAN
  /\ index \in Rows \union {0}
  /\ pc \in [Drains -> {"idle", "replay", "row", "fail"}]
  /\ todo \in [Drains -> Seq(Rows)]
  /\ stale \in [Drains -> SUBSET Rows]
  /\ applied \subseteq Rows /\ missed \subseteq Rows /\ expired \subseteq Rows
  /\ trouble \in Nat

Init ==
  /\ status = [r \in Rows |-> "unpublished"]
  /\ parked = <<>> /\ mounted = TRUE /\ present = TRUE /\ index = 0
  /\ pc = [d \in Drains |-> "idle"]
  /\ todo = [d \in Drains |-> <<>>]
  /\ stale = [d \in Drains |-> {}]
  /\ applied = {} /\ missed = {} /\ expired = {} /\ disordered = FALSE
  /\ trouble = 0

-----------------------------------------------------------------------------
(* Building blocks *)

At(d, label) == pc[d] = label
Goto(d, label) == pc' = [pc EXCEPT ![d] = label]
Row(d) == Head(todo[d])
Passes(d) == todo' = [todo EXCEPT ![d] = Tail(@)]

\* The sequence - one - of the numbers of S in ascending order.
Ascending(S) ==
  {order \in [1 .. Cardinality(S) -> S] :
     \A i, j \in 1 .. Cardinality(S) : i < j => order[i] < order[j]}

Trouble == trouble < MaxTrouble /\ trouble' = trouble + 1
NoTrouble == trouble' = trouble

Becomes(r, s) == status' = [status EXCEPT ![r] = s]
Disorders == disordered' = TRUE /\ UNCHANGED expired

\* A handler's write.
Writes(r) == index' = r /\ applied' = applied \union {r} /\ UNCHANGED missed

\* It returns without one: the path or the item is not in the index - which scans fill, not
\* drains - or a move lacks a field.
Misses(r) == r \notin Complete /\ missed' = missed \union {r} /\ UNCHANGED <<index, applied>>

\* The same to the transaction that it is part of.
Handles(r) == Writes(r) \/ Misses(r)

-----------------------------------------------------------------------------
(* Publishing *)

\* publish_event, for the next thing done to the disk.  Nothing is published for a disk
\* the index holds for unmounted (disk_id_for_path), and a failure is swallowed.
Publish(r) ==
  /\ status[r] = "unpublished" /\ \A s \in Rows : s < r => status[s] # "unpublished"
  /\ \/ mounted /\ NoTrouble /\ Becomes(r, "pending")
     \/ mounted /\ Trouble /\ Becomes(r, "lost")
     \/ ~mounted /\ NoTrouble /\ Becomes(r, "lost")
  /\ UNCHANGED <<parked, disk, written, pc, todo, stale, history>>

-----------------------------------------------------------------------------
(* A drain *)

\* Mutant of ToReplay: the drain does not look at replayed_at.
ToReplayAll == IF mounted THEN DOMAIN parked ELSE {}

\* replay_for_disk, of a disk that is mounted: which ops of pending_op.
ToReplay == IF mounted THEN {i \in DOMAIN parked : ~parked[i].replayed} ELSE {}

StartDrain(d) ==
  /\ At(d, "idle") /\ NoTrouble
  /\ \E order \in Ascending(ToReplay) :
       todo' = [todo EXCEPT ![d] = [i \in DOMAIN order |-> parked[order[i]].row]]
  /\ Goto(d, "replay")
  /\ disordered' = (disordered \/ \E e \in Drains : pc[e] # "idle")
  /\ UNCHANGED <<outbox, disk, written, stale, expired>>

\* The first op of row r that is not replayed yet becomes so.
MarkReplayed(r) ==
  LET ops == {i \in DOMAIN parked : parked[i] = [row |-> r, replayed |-> FALSE]}
  IN  [i \in DOMAIN parked |->
        IF i \in ops /\ \A j \in ops : i <= j THEN [row |-> r, replayed |-> TRUE] ELSE parked[i]]

\* One transaction: the handler and replayed_at.
Replay(d) ==
  /\ At(d, "replay") /\ todo[d] # <<>> /\ Row(d) \notin Unusable
  /\ Handles(Row(d)) /\ Passes(d) /\ NoTrouble
  /\ parked' = MarkReplayed(Row(d))
  /\ UNCHANGED <<status, disk, pc, stale, history>>

\* Locked out, or refused: it waits for the next drain, and the drain goes on.
ReplayFails(d) ==
  /\ At(d, "replay") /\ todo[d] # <<>>
  /\ IF Row(d) \in Unusable THEN NoTrouble ELSE Trouble
  /\ Passes(d) /\ Disorders
  /\ UNCHANGED <<outbox, disk, written, pc, stale>>

\* Mutant of Superseded: the first row of a file is kept, not the last.
SupersededFirst(batch) == {r \in batch \intersect SameFile : \E s \in batch \intersect SameFile : s < r}

\* _dedup_key: of the rows of one file in a batch, all but the latest.
Superseded(batch) == {r \in batch \intersect SameFile : \E s \in batch \intersect SameFile : r < s}

\* The first rows of S, as many as a batch holds.
FirstOf(S) == {r \in S : Cardinality({s \in S : s < r}) < Batch}

\* fetch_pending; with nothing left the drain purges what is a month old - any ops, from
\* the first on, as time is not counted here - and ends.
Fetch(d) ==
  /\ todo[d] = <<>> /\ pc[d] \in {"replay", "row"} /\ NoTrouble
  /\ LET batch == FirstOf({r \in Rows : status[r] = "pending"})
     IN  IF batch # {}
         THEN /\ \E order \in Ascending(batch) : todo' = [todo EXCEPT ![d] = order]
              /\ stale' = [stale EXCEPT ![d] = Superseded(batch)]
              /\ Goto(d, "row")
              /\ UNCHANGED <<parked, expired>>
         ELSE /\ \E n \in 0 .. Len(parked) :
                   /\ parked' = SubSeq(parked, n + 1, Len(parked))
                   /\ expired' = expired \union
                        {parked[i].row : i \in {j \in 1 .. n : ~parked[j].replayed}}
              /\ stale' = [stale EXCEPT ![d] = {}]
              /\ Goto(d, "idle") /\ UNCHANGED todo
  /\ UNCHANGED <<status, disk, written, disordered>>

\* Marked done unapplied; a failure to mark is swallowed, and the next batch has the row.
Skip(d) ==
  /\ At(d, "row") /\ todo[d] # <<>> /\ Row(d) \in stale[d]
  /\ Passes(d)
  /\ \/ NoTrouble /\ Becomes(Row(d), "done") /\ UNCHANGED history
     \/ Trouble /\ UNCHANGED status /\ Disorders
  /\ UNCHANGED <<parked, disk, written, pc, stale>>

\* Mutant of Park: marked before it is parked, and the process dies in between.
ParkTorn(d) ==
  /\ At(d, "row") /\ todo[d] # <<>> /\ Row(d) \notin stale[d] /\ ~mounted
  /\ Becomes(Row(d), "deferred") /\ Passes(d) /\ NoTrouble
  /\ UNCHANGED <<parked, disk, written, pc, stale, history>>

\* One transaction.
Park(d) ==
  /\ At(d, "row") /\ todo[d] # <<>> /\ Row(d) \notin stale[d] /\ ~mounted
  /\ parked' = Append(parked, [row |-> Row(d), replayed |-> FALSE])
  /\ Becomes(Row(d), "deferred") /\ Passes(d) /\ NoTrouble
  /\ UNCHANGED <<disk, written, pc, stale, history>>

\* One transaction: the handler and mark_done, whatever the handler wrote.  What the row has become since
\* it was fetched is not asked.
Apply(d) ==
  /\ At(d, "row") /\ todo[d] # <<>> /\ Row(d) \notin stale[d] /\ mounted
  /\ Row(d) \notin Unusable
  /\ Handles(Row(d)) /\ Becomes(Row(d), "done") /\ Passes(d) /\ NoTrouble
  /\ UNCHANGED <<parked, disk, pc, stale, history>>

\* Locked out four times, not to be parked, or refused by its handler.
RowFails(d) ==
  /\ At(d, "row") /\ todo[d] # <<>> /\ Row(d) \notin stale[d]
  /\ IF mounted /\ Row(d) \in Unusable THEN NoTrouble ELSE Trouble
  /\ Goto(d, "fail")
  /\ UNCHANGED <<outbox, disk, written, todo, stale, history>>

\* Mutant of MarkFailed: the row is left pending, to be fetched again.
MarkFailedNot(d) ==
  /\ At(d, "fail") /\ Goto(d, "row") /\ Passes(d) /\ NoTrouble
  /\ UNCHANGED <<outbox, disk, written, stale, history>>

\* Mutant of MarkFailed: the outcome's tag is written for the status.
MarkFailedTagged(d) ==
  /\ At(d, "fail") /\ Goto(d, "row") /\ Passes(d)
  /\ NoTrouble /\ Becomes(Row(d), "skip")
  /\ UNCHANGED <<parked, disk, written, stale, history>>

\* mark_failed, so that the loop ends; refused too, the row comes again.
MarkFailed(d) ==
  /\ At(d, "fail") /\ Goto(d, "row") /\ Passes(d)
  /\ \/ NoTrouble /\ Becomes(Row(d), "failed") /\ UNCHANGED history
     \/ Trouble /\ UNCHANGED status /\ Disorders
  /\ UNCHANGED <<parked, disk, written, stale>>

Dies(d) ==
  /\ pc[d] # "idle" /\ Trouble
  /\ Goto(d, "idle")
  /\ todo' = [todo EXCEPT ![d] = <<>>] /\ stale' = [stale EXCEPT ![d] = {}]
  /\ UNCHANGED <<outbox, disk, written, history>>

-----------------------------------------------------------------------------
(* The disk, and time *)

\* A scan meets an I/O error on the disk: unmounted in the index, its path forgotten.
ScanFails ==
  /\ mounted /\ Trouble
  /\ mounted' = FALSE /\ present' = FALSE
  /\ UNCHANGED <<outbox, written, pc, todo, stale, history>>

ComesBack ==
  /\ ~present /\ present' = TRUE /\ NoTrouble
  /\ UNCHANGED <<outbox, mounted, written, pc, todo, stale, history>>

\* No code does this: update_mount_path has no caller, a scan passes over a disk without
\* a path, and the bootstrap inserts only into an empty table.
RestoreByHand ==
  /\ ByHand /\ present /\ ~mounted /\ NoTrouble
  /\ mounted' = TRUE
  /\ disordered' = (disordered \/ \E d \in Drains : pc[d] # "idle")
  /\ UNCHANGED <<outbox, present, written, pc, todo, stale, expired>>

Works(d) ==
  \/ Replay(d) \/ ReplayFails(d) \/ Fetch(d) \/ Skip(d) \/ Park(d) \/ Apply(d)
  \/ RowFails(d) \/ MarkFailed(d)

Next ==
  \/ \E r \in Rows : Publish(r)
  \/ \E d \in Drains : StartDrain(d) \/ Works(d) \/ Dies(d)
  \/ ScanFails \/ ComesBack \/ RestoreByHand

\* Dispatches and scans come again and again, a drain runs to its end, the volume is
\* plugged back.  Nobody is bound to edit the database.
Spec ==
  /\ Init /\ [][Next]_vars
  /\ \A d \in Drains : WF_vars(StartDrain(d)) /\ WF_vars(Works(d))
  /\ WF_vars(ComesBack)

-----------------------------------------------------------------------------
(* Properties *)

\* The index is written in the order things happened on the disk - a later row's effect is
\* not undone by an earlier one's - unless two drains overlap (rows are not looked at
\* again once fetched), a replay or the mark of a failed or a superseded row was refused,
\* or the disk came back while a drain was at work.
InOrder == [][index' >= index \/ disordered]_vars

\* A row that reads done had its effect, or its handler ran and found nothing to write to -
\* never the row of a complete move -, or it gave way to a later row of its file, whatever
\* became of that one: applied, missed, parked, or failed.
DoneIsWritten ==
  \A r \in Rows : status[r] = "done" =>
    \/ r \in applied \union (missed \ Complete)
    \/ \E s \in Rows : s > r /\ {r, s} \subseteq SameFile /\ status[s] \notin {"unpublished", "lost"}

\* A row that reads deferred is in pending_op, or was until it was a month old.
DeferredIsParked ==
  \A r \in Rows : status[r] = "deferred" =>
    r \in applied \union missed \union expired \/ \E i \in DOMAIN parked : parked[i].row = r

\* Whatever the rows, a drain ends, once what refuses its writes has let go: a refusal of
\* mark_failed that lasted for ever would have it fetch the same row for ever.
DrainsEnd == \A d \in Drains : []<>(pc[d] = "idle")

\* In the end no row is pending.
EveryRowSettles == <>[](\A r \in Rows : status[r] # "pending")

\* docs/production/indexer.md: pending_op is "replayed on remount".  Violated: nothing in
\* the code sets is_mounted again.
ReplayedOnRemount ==
  <>[]present => \A r \in Rows : Waiting(r) ~> (r \in applied \union missed \union expired)
=============================================================================
