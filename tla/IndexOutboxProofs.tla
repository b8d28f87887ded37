------------------------- MODULE IndexOutboxProofs -------------------------
(***************************************************************************)
(* What a row of the outbox says is true, and the index is written in the  *)
(* order things happened on the disk, for any rows, any number of drains   *)
(* and any number of failures.                                             *)
(***************************************************************************)
EXTENDS IndexOutbox, FiniteSetTheorems, SequenceTheorems, TLAPS

-----------------------------------------------------------------------------
(* The inductive invariant *)

\* What a batch holds for superseded was replaced by something published.
StaleReplaced ==
  \A d \in Drains : \A r \in stale[d] :
    \E s \in Rows : s > r /\ {r, s} \subseteq SameFile /\ status[s] \notin {"unpublished", "lost"}

\* What pending_op holds for replayed went through its handler.
ReplayedIsHandled ==
  \A i \in DOMAIN parked : parked[i].replayed => parked[i].row \in applied \union missed

\* A drain fails at the row it has come to.
FailHasRow == \A d \in Drains : pc[d] = "fail" => todo[d] # <<>>

OutboxType == TypeOK /\ FailHasRow

RowInv == OutboxType /\ StaleReplaced /\ ReplayedIsHandled /\ DoneIsWritten /\ DeferredIsParked

WaitingRows == {parked[i].row : i \in {j \in DOMAIN parked : ~parked[j].replayed}}
Todo(d) == {todo[d][i] : i \in DOMAIN todo[d]}

\* Rows are published in their order.
PublishedInOrder ==
  \A r, s \in Rows : status[r] = "unpublished" /\ status[s] # "unpublished" => s < r

OneDrain == \A d, e \in Drains : pc[d] # "idle" /\ pc[e] # "idle" => d = e

\* First what was written to the index, then what waits for the disk, in the order of
\* pending_op, then what is pending or not even published.
WrittenFirst == \A w \in WaitingRows : index < w
ParkedInOrder ==
  \A i, j \in DOMAIN parked :
    i < j /\ ~parked[i].replayed /\ ~parked[j].replayed => parked[i].row < parked[j].row
PendingLast ==
  \A r \in Rows : status[r] \in {"pending", "unpublished"} =>
    index < r /\ \A w \in WaitingRows : w < r

\* A drain goes through its rows in their order.
TodoInOrder ==
  \A d \in Drains : \A i, j \in DOMAIN todo[d] : i < j => todo[d][i] < todo[d][j]

\* A batch is the pending rows up to some point; nothing waits while a mounted disk's
\* batch is worked on.
BatchFirst ==
  \A d \in Drains : pc[d] \in {"row", "fail"} =>
    /\ \A t \in Todo(d) : status[t] = "pending"
    /\ \A r \in Rows : status[r] = "pending" => r \in Todo(d) \/ \A t \in Todo(d) : t < r
    /\ mounted => WaitingRows = {}

\* A drain that found the disk mounted has yet to replay what waits.
ReplayWhole ==
  \A d \in Drains : pc[d] = "replay" =>
    \/ Todo(d) = WaitingRows
    \/ todo[d] = <<>> /\ ~mounted

Ordered ==
  /\ PublishedInOrder /\ OneDrain /\ WrittenFirst /\ ParkedInOrder /\ PendingLast
  /\ TodoInOrder /\ BatchFirst /\ ReplayWhole

OrderInv == disordered \/ Ordered

-----------------------------------------------------------------------------
(* The sequences a drain works with *)

\* An ascending list of a finite set has its elements, each once, and in order.
LEMMA AscendingLists ==
  ASSUME NEW S \in SUBSET Nat, IsFiniteSet(S), NEW order \in Ascending(S)
  PROVE  /\ order \in Seq(S)
         /\ DOMAIN order = 1 .. Len(order)
         /\ {order[i] : i \in DOMAIN order} = S
         /\ \A i, j \in DOMAIN order : i < j => order[i] < order[j]
<1> DEFINE n == Cardinality(S)
<1>1. n \in Nat
  BY FS_CardinalityType
<1>2. order \in [1 .. n -> S] /\ \A i, j \in 1 .. n : i < j => order[i] < order[j]
  BY DEF Ascending
<1>3. order \in Seq(S) /\ Len(order) = n
  BY <1>1, <1>2
<1>4. order \in Surjection(1 .. n, S)
  <2>1. order \in Injection(1 .. n, S)
    <3>1. ASSUME NEW i \in 1 .. n, NEW j \in 1 .. n, order[i] = order[j] PROVE i = j
      <4>1. order[i] \in Nat /\ order[j] \in Nat /\ i \in Int /\ j \in Int
        <5>1. order[i] \in S /\ order[j] \in S
          BY <1>2
        <5>2. \A x \in S : x \in Nat
          OBVIOUS
        <5>3. i \in Int /\ j \in Int
          BY <1>1
        <5> QED
          BY <5>1, <5>2, <5>3
      <4>2. ~(i < j) /\ ~(j < i)
        BY <1>2, <3>1, <4>1
      <4> QED
        BY <4>1, <4>2
    <3> QED
      BY <1>2, <3>1 DEF Injection, IsInjective
  <2>2. Cardinality(1 .. n) = n
    BY <1>1, FS_Interval
  <2> QED
    BY <2>1, <2>2, FS_Injection
<1>5. \A s \in S : \E i \in 1 .. n : order[i] = s
  BY <1>4 DEF Surjection
<1> QED
  BY <1>2, <1>3, <1>5

\* One row further.
LEMMA OneRowOn ==
  ASSUME TypeOK, NEW d \in Drains, todo[d] # <<>>, Passes(d)
  PROVE  /\ Row(d) \in Rows
         /\ todo' \in [Drains -> Seq(Rows)]
         /\ \A e \in Drains : e # d => todo'[e] = todo[e]
         /\ Todo(d) = Todo(d)' \union {Row(d)}
         /\ TodoInOrder => TodoInOrder' /\ \A t \in Todo(d)' : Row(d) < t
<1> DEFINE s == todo[d]
<1>1. s \in Seq(Rows) /\ s # <<>>
  BY DEF TypeOK
<1>2. /\ Head(s) = s[1] /\ 1 \in DOMAIN s /\ DOMAIN s = 1 .. Len(s) /\ Len(s) \in Nat \ {0}
      /\ Tail(s) \in Seq(Rows) /\ Len(Tail(s)) = Len(s) - 1
      /\ DOMAIN Tail(s) = 1 .. Len(s) - 1
      /\ \A i \in 1 .. Len(s) - 1 : Tail(s)[i] = s[i + 1]
  BY <1>1, HeadTailProperties
<1>3. todo' = [todo EXCEPT ![d] = Tail(s)] /\ todo'[d] = Tail(s)
  BY DEF Passes, TypeOK
<1>4. Row(d) = s[1] /\ s[1] \in Rows
  BY <1>1, <1>2 DEF Row
<1>5. \A e \in Drains : e # d => todo'[e] = todo[e]
  BY <1>3 DEF TypeOK
<1>6. Todo(d) = Todo(d)' \union {Row(d)}
  <2>1. ASSUME NEW i \in DOMAIN s PROVE s[i] \in Todo(d)' \union {Row(d)}
    <3>1. CASE i = 1
      BY <3>1, <1>4
    <3>2. CASE i # 1
      <4>1. i - 1 \in 1 .. Len(s) - 1 /\ Tail(s)[i - 1] = s[i]
        BY <3>2, <1>2
      <4> QED
        BY <4>1, <1>2, <1>3 DEF Todo
    <3> QED
      BY <3>1, <3>2
  <2>2. ASSUME NEW i \in DOMAIN Tail(s) PROVE Tail(s)[i] \in Todo(d)
    BY <1>2 DEF Todo
  <2> QED
    BY <2>1, <2>2, <1>2, <1>3, <1>4 DEF Todo
<1>7. ASSUME TodoInOrder PROVE TodoInOrder' /\ \A t \in Todo(d)' : Row(d) < t
  <2>1. \A i, j \in DOMAIN s : i < j => s[i] < s[j]
    BY <1>7 DEF TodoInOrder
  <2>2. \A i, j \in DOMAIN Tail(s) : i < j => Tail(s)[i] < Tail(s)[j]
    BY <2>1, <1>2
  <2>3. \A i \in DOMAIN Tail(s) : s[1] < Tail(s)[i]
    BY <2>1, <1>2
  <2>4. TodoInOrder'
    <3>1. ASSUME NEW e \in Drains, NEW i \in DOMAIN todo'[e], NEW j \in DOMAIN todo'[e], i < j
          PROVE  todo'[e][i] < todo'[e][j]
      <4>1. CASE e = d
        BY <2>2, <1>3, <3>1, <4>1
      <4>2. CASE e # d
        BY <1>5, <1>7, <3>1, <4>2 DEF TodoInOrder
      <4> QED
        BY <4>1, <4>2
    <3> QED
      BY <3>1 DEF TodoInOrder
  <2> QED
    BY <2>3, <2>4, <1>3, <1>4 DEF Todo
<1> QED
  BY <1>2, <1>3, <1>4, <1>5, <1>6, <1>7 DEF TypeOK

\* One op of row r replayed: the rows of pending_op are the same, and r's no longer waits
\* where its rows are in order.
LEMMA OneReplayed ==
  ASSUME TypeOK, NEW r \in Rows, parked' = MarkReplayed(r)
  PROVE  /\ parked' \in Seq(Parked)
         /\ DOMAIN parked' = DOMAIN parked
         /\ \A i \in DOMAIN parked :
              /\ parked'[i].row = parked[i].row
              /\ parked[i].replayed => parked'[i].replayed
              /\ parked'[i].replayed => parked[i].replayed \/ parked[i].row = r
         /\ ParkedInOrder => ParkedInOrder' /\ WaitingRows' = WaitingRows \ {r}
<1> DEFINE ops == {i \in DOMAIN parked : parked[i] = [row |-> r, replayed |-> FALSE]}
           first(i) == i \in ops /\ \A j \in ops : i <= j
<1>1. /\ Len(parked) \in Nat /\ DOMAIN parked = 1 .. Len(parked)
      /\ \A i \in DOMAIN parked : parked[i] \in Parked
  BY DEF TypeOK
<1>2. parked' = [i \in DOMAIN parked |->
                  IF first(i) THEN [row |-> r, replayed |-> TRUE] ELSE parked[i]]
  BY DEF MarkReplayed
<1> HIDE DEF first
<1>3. DOMAIN parked' = DOMAIN parked /\ parked' \in Seq(Parked)
  <2>1. ASSUME NEW i \in DOMAIN parked PROVE parked'[i] \in Parked
    <3>1. [row |-> r, replayed |-> TRUE] \in Parked
      BY DEF Parked
    <3> QED
      BY <1>1, <1>2, <3>1
  <2>2. parked' \in [1 .. Len(parked) -> Parked]
    BY <1>1, <1>2, <2>1
  <2> QED
    BY <1>1, <2>2
<1>4. ASSUME NEW i \in DOMAIN parked
      PROVE  /\ parked'[i].row = parked[i].row
             /\ parked[i].replayed => parked'[i].replayed
             /\ parked'[i].replayed => parked[i].replayed \/ parked[i].row = r
  <2>1. CASE first(i)
    BY <2>1, <1>2 DEF first
  <2>2. CASE ~first(i)
    BY <2>2, <1>2
  <2> QED
    BY <2>1, <2>2
<1>5. ASSUME ParkedInOrder PROVE ParkedInOrder' /\ WaitingRows' = WaitingRows \ {r}
  <2>1. ParkedInOrder'
    BY <1>3, <1>4, <1>5 DEF ParkedInOrder
  <2>2. ASSUME NEW i \in DOMAIN parked, ~parked[i].replayed, parked[i].row = r
        PROVE  parked'[i].replayed
    <3>1. i \in ops
      BY <2>2, <1>1 DEF Parked
    <3>2. ASSUME NEW j \in ops PROVE i <= j
      <4>1. i \in Int /\ j \in Int /\ r \in Int
        BY <1>1, OutboxAssumption
      <4>2. j < i => parked[j].row < parked[i].row
        BY <1>5, <2>2 DEF ParkedInOrder
      <4> QED
        BY <4>1, <4>2, <2>2
    <3> QED
      BY <3>1, <3>2, <1>2 DEF first
  <2> QED
    BY <2>1, <2>2, <1>3, <1>4 DEF WaitingRows
<1> QED
  BY <1>3, <1>4, <1>5

-----------------------------------------------------------------------------
(* The types *)

LEMMA InitRowInv == Init => RowInv
<1> SUFFICES ASSUME Init PROVE RowInv
  OBVIOUS
<1>1. TypeOK
  BY OutboxAssumption, EmptySeq DEF Init, TypeOK
<1> QED
  BY <1>1 DEF Init, RowInv, OutboxType, FailHasRow, StaleReplaced, ReplayedIsHandled, DoneIsWritten, DeferredIsParked

\* A row that goes through its handler is written, or missed if it may be.
LEMMA Handled ==
  ASSUME TypeOK, NEW r \in Rows, Handles(r)
  PROVE  /\ index' \in {index, r} /\ index' \in Rows \union {0}
         /\ applied \subseteq applied' /\ missed \subseteq missed'
         /\ applied' \subseteq Rows /\ missed' \subseteq Rows
         /\ r \in applied' \union (missed' \ Complete)
BY DEF Handles, Writes, Misses, TypeOK

\* A batch is of the rows that are pending, none of them after one it leaves.
LEMMA FirstRows ==
  ASSUME NEW S \in SUBSET Rows
  PROVE  /\ FirstOf(S) \subseteq S /\ FirstOf(S) \subseteq Rows
         /\ \A q \in S : q \in FirstOf(S) \/ \A t \in FirstOf(S) : t < q
<1> DEFINE Before(q) == {s \in S : s < q}
<1>1. ASSUME NEW q \in S, NEW t \in FirstOf(S), q < t PROVE q \in FirstOf(S)
  <2>1. q \in Nat /\ t \in Nat /\ t \in S /\ S \subseteq Nat
    BY OutboxAssumption DEF FirstOf
  <2>2. Before(q) \subseteq Before(t)
    <3>1. ASSUME NEW s \in S, s < q PROVE s < t
      <4>1. s \in Nat
        BY <2>1
      <4> QED
        BY <1>1, <2>1, <3>1, <4>1
    <3> QED
      BY <3>1
  <2>3. IsFiniteSet(Before(t))
    BY OutboxAssumption, FS_Subset
  <2>4. /\ Cardinality(Before(q)) \in Nat /\ Cardinality(Before(t)) \in Nat
        /\ Cardinality(Before(q)) <= Cardinality(Before(t))
    <3> HIDE DEF Before
    <3> QED
      BY <2>2, <2>3, FS_Subset, FS_CardinalityType
  <2>5. Cardinality(Before(t)) < Batch
    BY DEF FirstOf
  <2>6. Cardinality(Before(q)) < Batch
    <3> HIDE DEF Before
    <3> QED
      BY <2>4, <2>5, OutboxAssumption
  <2> QED
    BY <2>6 DEF FirstOf
<1>2. ASSUME NEW q \in S, NEW t \in FirstOf(S), q \notin FirstOf(S) PROVE t < q
  <2>1. q \in Nat /\ t \in Nat /\ q # t /\ ~(q < t)
    BY <1>1, <1>2, OutboxAssumption DEF FirstOf
  <2> QED
    BY <2>1
<1> QED
  BY <1>2 DEF FirstOf

\* What a drain fetches is of the rows there are.
LEMMA Fetched ==
  ASSUME TypeOK, NEW d \in Drains, NEW batch \in SUBSET Rows, NEW order \in Ascending(batch),
         todo' = [todo EXCEPT ![d] = order]
  PROVE  /\ todo' \in [Drains -> Seq(Rows)]
         /\ Todo(d)' = batch
         /\ \A e \in Drains : e # d => todo'[e] = todo[e]
         /\ TodoInOrder => TodoInOrder'
<1>1. batch \in SUBSET Nat /\ IsFiniteSet(batch)
  BY OutboxAssumption, FS_Subset
<1>2. /\ order \in Seq(batch) /\ {order[i] : i \in DOMAIN order} = batch
      /\ \A i, j \in DOMAIN order : i < j => order[i] < order[j]
  BY <1>1, AscendingLists
<1>3. order \in Seq(Rows)
  BY <1>2, SeqMonotonic
<1>4. todo'[d] = order /\ \A e \in Drains : e # d => todo'[e] = todo[e]
  BY DEF TypeOK
<1>5. todo' \in [Drains -> Seq(Rows)]
  BY <1>3 DEF TypeOK
<1>6. ASSUME TodoInOrder PROVE TodoInOrder'
  <2>1. ASSUME NEW e \in Drains, NEW i \in DOMAIN todo'[e], NEW j \in DOMAIN todo'[e], i < j
        PROVE  todo'[e][i] < todo'[e][j]
    <3>1. CASE e = d
      BY <1>2, <1>4, <2>1, <3>1
    <3>2. CASE e # d
      BY <1>4, <1>6, <2>1, <3>2 DEF TodoInOrder
    <3> QED
      BY <3>1, <3>2
  <2> QED
    BY <2>1 DEF TodoInOrder
<1> QED
  BY <1>2, <1>4, <1>5, <1>6 DEF Todo

\* What a drain is to replay is all that waits, if the disk is mounted.
LEMMA Replayable ==
  ASSUME TypeOK, NEW d \in Drains, NEW order \in Ascending(ToReplay),
         todo' = [todo EXCEPT ![d] = [i \in DOMAIN order |-> parked[order[i]].row]]
  PROVE  /\ todo' \in [Drains -> Seq(Rows)]
         /\ mounted => Todo(d)' = WaitingRows
         /\ ~mounted => todo'[d] = <<>>
         /\ \A e \in Drains : e # d => todo'[e] = todo[e]
         /\ TodoInOrder /\ ParkedInOrder => TodoInOrder'
<1> DEFINE rows == [i \in DOMAIN order |-> parked[order[i]].row]
<1>1. /\ Len(parked) \in Nat /\ DOMAIN parked = 1 .. Len(parked)
      /\ \A i \in DOMAIN parked : parked[i] \in Parked
  BY DEF TypeOK
<1>2. ToReplay \subseteq DOMAIN parked /\ ToReplay \in SUBSET Nat /\ IsFiniteSet(ToReplay)
  <2>1. ToReplay \subseteq 1 .. Len(parked)
    BY <1>1 DEF ToReplay
  <2>2. IsFiniteSet(1 .. Len(parked))
    BY <1>1, FS_Interval
  <2>3. IsFiniteSet(ToReplay)
    BY <2>1, <2>2, FS_Subset
  <2> QED
    BY <1>1, <2>1, <2>3
<1>3. /\ order \in Seq(ToReplay) /\ DOMAIN order = 1 .. Len(order)
      /\ {order[i] : i \in DOMAIN order} = ToReplay
      /\ \A i, j \in DOMAIN order : i < j => order[i] < order[j]
  BY <1>2, AscendingLists
<1>4. ASSUME NEW i \in DOMAIN order PROVE order[i] \in ToReplay /\ order[i] \in DOMAIN parked
  BY <1>2, <1>3
<1>5. rows \in Seq(Rows) /\ DOMAIN rows = DOMAIN order
  <2>1. Len(order) \in Nat
    BY <1>3
  <2>2. \A i \in DOMAIN order : parked[order[i]].row \in Rows
    BY <1>1, <1>4 DEF Parked
  <2>3. rows \in [1 .. Len(order) -> Rows]
    BY <1>3, <2>2
  <2> QED
    BY <2>1, <2>3
<1>6. todo'[d] = rows /\ \A e \in Drains : e # d => todo'[e] = todo[e]
  BY DEF TypeOK
<1>7. todo' \in [Drains -> Seq(Rows)]
  BY <1>5 DEF TypeOK
<1>8. ASSUME mounted PROVE {rows[i] : i \in DOMAIN rows} = WaitingRows
  <2>1. ToReplay = {j \in DOMAIN parked : ~parked[j].replayed}
    BY <1>8 DEF ToReplay
  <2>2. \A i \in DOMAIN rows : rows[i] = parked[order[i]].row /\ order[i] \in ToReplay
    BY <1>4, <1>5
  <2>3. ASSUME NEW j \in ToReplay PROVE \E i \in DOMAIN rows : rows[i] = parked[j].row
    BY <1>3, <1>5
  <2> QED
    BY <2>1, <2>2, <2>3 DEF WaitingRows
<1>9. ASSUME ~mounted PROVE rows = <<>>
  <2>1. DOMAIN order = {}
    BY <1>3, <1>9 DEF ToReplay
  <2>2. Len(rows) = 0
    BY <1>3, <1>5, <2>1
  <2> QED
    BY <1>5, <2>2, EmptySeq
<1>10. ASSUME TodoInOrder, ParkedInOrder PROVE TodoInOrder'
  <2>1. ASSUME NEW i \in DOMAIN rows, NEW j \in DOMAIN rows, i < j PROVE rows[i] < rows[j]
    <3>1. /\ order[i] \in DOMAIN parked /\ order[j] \in DOMAIN parked
          /\ ~parked[order[i]].replayed /\ ~parked[order[j]].replayed
      BY <1>4, <1>5 DEF ToReplay
    <3>2. order[i] < order[j]
      BY <1>3, <1>5, <2>1
    <3>3. parked[order[i]].row < parked[order[j]].row
      BY <1>10, <3>1, <3>2 DEF ParkedInOrder
    <3> QED
      BY <1>5, <3>3
  <2>2. ASSUME NEW e \in Drains, NEW i \in DOMAIN todo'[e], NEW j \in DOMAIN todo'[e], i < j
        PROVE  todo'[e][i] < todo'[e][j]
    <3>1. CASE e = d
      BY <1>6, <2>1, <2>2, <3>1
    <3>2. CASE e # d
      BY <1>6, <1>10, <2>2, <3>2 DEF TodoInOrder
    <3> QED
      BY <3>1, <3>2
  <2> QED
    BY <2>2 DEF TodoInOrder
<1>11. Todo(d)' = {rows[i] : i \in DOMAIN rows}
  BY <1>6 DEF Todo
<1> QED
  BY <1>6, <1>7, <1>8, <1>9, <1>10, <1>11

\* pending_op after a purge of its first n ops.
LEMMA Purged ==
  ASSUME TypeOK, NEW n \in 0 .. Len(parked), parked' = SubSeq(parked, n + 1, Len(parked))
  PROVE  /\ parked' \in Seq(Parked)
         /\ \A i \in DOMAIN parked' : i + n \in DOMAIN parked /\ parked'[i] = parked[i + n]
         /\ \A i \in DOMAIN parked : i > n => i - n \in DOMAIN parked' /\ parked'[i - n] = parked[i]
<1>1. /\ parked \in Seq(Parked) /\ Len(parked) \in Nat /\ DOMAIN parked = 1 .. Len(parked)
      /\ n \in Nat /\ n <= Len(parked)
  BY DEF TypeOK
<1>2. \A i \in n + 1 .. Len(parked) : parked[i] \in Parked
  BY <1>1
<1>3. /\ parked' \in Seq(Parked)
      /\ Len(parked') = IF n + 1 <= Len(parked) THEN Len(parked) - (n + 1) + 1 ELSE 0
      /\ \A i \in 1 .. Len(parked) - (n + 1) + 1 : parked'[i] = parked[n + 1 + i - 1]
  BY <1>1, <1>2, SubSeqProperties
<1>4. DOMAIN parked' = 1 .. Len(parked) - n
  <2>1. DOMAIN parked' = 1 .. Len(parked')
    BY <1>3
  <2>2. Len(parked') = Len(parked) - n
    <3>1. \A m, k \in Nat : k <= m => (IF k + 1 <= m THEN m - (k + 1) + 1 ELSE 0) = m - k
      OBVIOUS
    <3>2. Len(parked') = IF n + 1 <= Len(parked) THEN Len(parked) - (n + 1) + 1 ELSE 0
      BY <1>3
    <3> HIDE <1>3
    <3> QED
      BY <1>1, <3>1, <3>2, Zenon
  <2> QED
    BY <2>1, <2>2
<1>5. \A i \in 1 .. Len(parked) - n : parked'[i] = parked[i + n]
  BY <1>1, <1>3
<1> QED
  BY <1>1, <1>3, <1>4, <1>5

\* pending_op with one more op at its end.
LEMMA OneParked ==
  ASSUME TypeOK, NEW r \in Rows, parked' = Append(parked, [row |-> r, replayed |-> FALSE])
  PROVE  /\ parked' \in Seq(Parked)
         /\ DOMAIN parked' = DOMAIN parked \union {Len(parked) + 1}
         /\ \A i \in DOMAIN parked : parked'[i] = parked[i] /\ i < Len(parked) + 1
         /\ parked'[Len(parked) + 1] = [row |-> r, replayed |-> FALSE]
<1>1. parked \in Seq(Parked) /\ [row |-> r, replayed |-> FALSE] \in Parked
  BY DEF TypeOK, Parked
<1>2. /\ Len(parked) \in Nat /\ DOMAIN parked = 1 .. Len(parked)
      /\ parked' \in Seq(Parked) /\ Len(parked') = Len(parked) + 1
      /\ \A i \in 1 .. Len(parked) : parked'[i] = parked[i]
      /\ parked'[Len(parked) + 1] = [row |-> r, replayed |-> FALSE]
  BY <1>1, AppendProperties
<1>3. DOMAIN parked' = 1 .. Len(parked) + 1
  BY <1>2
<1> QED
  BY <1>2, <1>3

LEMMA TypeStep == OutboxType /\ [Next]_vars => TypeOK'
<1> SUFFICES ASSUME TypeOK, FailHasRow, [Next]_vars PROVE TypeOK'
  BY DEF OutboxType
<1> USE OutboxAssumption DEF Trouble, NoTrouble, Goto, Becomes, At,
        outbox, disk, written, history
<1>1. ASSUME NEW r \in Rows, Publish(r) PROVE TypeOK'
  <2>1. status' \in [Rows -> {"unpublished", "lost", "pending", "done", "failed", "deferred"}]
    BY <1>1 DEF Publish, TypeOK
  <2>2. trouble' \in Nat
    BY <1>1 DEF Publish, TypeOK
  <2> QED
    BY <1>1, <2>1, <2>2, Zenon DEF Publish, TypeOK
<1>2. ASSUME NEW d \in Drains, StartDrain(d) PROVE TypeOK'
  <2>1. todo' \in [Drains -> Seq(Rows)]
    BY <1>2, Replayable DEF StartDrain
  <2> QED
    BY <1>2, <2>1 DEF StartDrain, TypeOK
<1>3. ASSUME NEW d \in Drains, Replay(d) PROVE TypeOK'
  <2>1. Row(d) \in Rows /\ todo' \in [Drains -> Seq(Rows)]
    BY <1>3, OneRowOn DEF Replay
  <2>2. parked' \in Seq(Parked)
    BY <1>3, <2>1, OneReplayed DEF Replay
  <2> QED
    BY <1>3, <2>1, <2>2, Handled DEF Replay, TypeOK
<1>4. ASSUME NEW d \in Drains, ReplayFails(d) PROVE TypeOK'
  <2>1. todo' \in [Drains -> Seq(Rows)]
    BY <1>4, OneRowOn DEF ReplayFails
  <2> QED
    BY <1>4, <2>1 DEF ReplayFails, Disorders, TypeOK
<1>5. ASSUME NEW d \in Drains, Fetch(d) PROVE TypeOK'
  <2> DEFINE batch == FirstOf({r \in Rows : status[r] = "pending"})
  <2>0. batch \subseteq Rows
    BY FirstRows
  <2>1. CASE batch # {}
    <3>1. todo' \in [Drains -> Seq(Rows)]
      BY <1>5, <2>0, <2>1, Fetched DEF Fetch
    <3>2. stale' \in [Drains -> SUBSET Rows]
      <4>1. Superseded(batch) \subseteq Rows
        BY <2>0 DEF Superseded
      <4>2. stale' = [stale EXCEPT ![d] = Superseded(batch)]
        BY <1>5, <2>1 DEF Fetch
      <4> QED
        BY <4>1, <4>2 DEF TypeOK
    <3> QED
      BY <1>5, <2>1, <3>1, <3>2 DEF Fetch, TypeOK
  <2>2. CASE batch = {}
    <3>1. PICK n \in 0 .. Len(parked) :
            /\ parked' = SubSeq(parked, n + 1, Len(parked))
            /\ expired' = expired \union
                 {parked[i].row : i \in {j \in 1 .. n : ~parked[j].replayed}}
      BY <1>5, <2>2 DEF Fetch
    <3>2. parked' \in Seq(Parked)
      BY <3>1, Purged
    <3>3. expired' \subseteq Rows
      <4>1. ASSUME NEW i \in 1 .. n PROVE parked[i].row \in Rows
        <5>1. parked \in Seq(Parked) /\ i \in 1 .. Len(parked)
          BY DEF TypeOK
        <5>2. parked[i] \in Parked
          BY <5>1, ElementOfSeq
        <5> QED
          BY <5>2 DEF Parked
      <4> QED
        BY <3>1, <4>1 DEF TypeOK
    <3> QED
      BY <1>5, <2>2, <3>2, <3>3 DEF Fetch, TypeOK
  <2> QED
    BY <2>1, <2>2
<1>6. ASSUME NEW d \in Drains, Skip(d) PROVE TypeOK'
  <2>1. Row(d) \in Rows /\ todo' \in [Drains -> Seq(Rows)]
    BY <1>6, OneRowOn DEF Skip
  <2>2. status' \in [Rows -> {"unpublished", "lost", "pending", "done", "failed", "deferred"}]
    BY <1>6, <2>1 DEF Skip, TypeOK
  <2>3. disordered' \in BOOLEAN /\ expired' \subseteq Rows
    BY <1>6, Zenon DEF Skip, Disorders, TypeOK
  <2>4. trouble' \in Nat
    <3>1. trouble \in Nat
      BY DEF TypeOK
    <3>2. trouble' = trouble \/ trouble' = trouble + 1
      BY <1>6, Zenon DEF Skip
    <3> QED
      BY <3>1, <3>2
  <2> QED
    BY <1>6, <2>1, <2>2, <2>3, <2>4 DEF Skip, TypeOK
<1>7. ASSUME NEW d \in Drains, Park(d) PROVE TypeOK'
  <2>1. Row(d) \in Rows /\ todo' \in [Drains -> Seq(Rows)]
    BY <1>7, OneRowOn DEF Park
  <2>2. parked' \in Seq(Parked)
    BY <1>7, <2>1, OneParked DEF Park
  <2> QED
    BY <1>7, <2>1, <2>2 DEF Park, TypeOK
<1>8. ASSUME NEW d \in Drains, Apply(d) PROVE TypeOK'
  <2>1. Row(d) \in Rows /\ todo' \in [Drains -> Seq(Rows)]
    BY <1>8, OneRowOn DEF Apply
  <2> QED
    BY <1>8, <2>1, Handled DEF Apply, TypeOK
<1>9. ASSUME NEW d \in Drains, RowFails(d) PROVE TypeOK'
  BY <1>9 DEF RowFails, TypeOK
<1>10. ASSUME NEW d \in Drains, MarkFailed(d) PROVE TypeOK'
  <2>1. Row(d) \in Rows /\ todo' \in [Drains -> Seq(Rows)]
    BY <1>10, OneRowOn DEF MarkFailed, FailHasRow
  <2>2. status' \in [Rows -> {"unpublished", "lost", "pending", "done", "failed", "deferred"}]
    BY <1>10, <2>1 DEF MarkFailed, TypeOK
  <2>3. disordered' \in BOOLEAN /\ expired' \subseteq Rows
    BY <1>10, Zenon DEF MarkFailed, Disorders, TypeOK
  <2>4. trouble' \in Nat
    <3>1. trouble \in Nat
      BY DEF TypeOK
    <3>2. trouble' = trouble \/ trouble' = trouble + 1
      BY <1>10, Zenon DEF MarkFailed
    <3> QED
      BY <3>1, <3>2
  <2> QED
    BY <1>10, <2>1, <2>2, <2>3, <2>4 DEF MarkFailed, TypeOK
<1>11. ASSUME NEW d \in Drains, Dies(d) PROVE TypeOK'
  BY <1>11, EmptySeq DEF Dies, TypeOK
<1>12. CASE ScanFails \/ ComesBack
  <2>1. mounted' \in BOOLEAN /\ present' \in BOOLEAN /\ disordered' \in BOOLEAN
    BY <1>12, Zenon DEF ScanFails, ComesBack, TypeOK
  <2>2. trouble' \in Nat
    BY <1>12 DEF ScanFails, ComesBack, TypeOK
  <2> QED
    BY <1>12, <2>1, <2>2, Zenon DEF ScanFails, ComesBack, TypeOK
<1>13. CASE RestoreByHand
  BY <1>13 DEF RestoreByHand, TypeOK
<1>14. CASE UNCHANGED vars
  BY <1>14, Zenon DEF vars, TypeOK
<1> QED
  BY <1>1, <1>2, <1>3, <1>4, <1>5, <1>6, <1>7, <1>8, <1>9, <1>10, <1>11, <1>12, <1>13, <1>14
     DEF Next, Works

LEMMA FailStep == OutboxType /\ [Next]_vars => FailHasRow'
<1> SUFFICES ASSUME TypeOK, FailHasRow, [Next]_vars,
                    NEW d \in Drains, pc'[d] = "fail"
             PROVE  todo'[d] # <<>>
  BY DEF OutboxType, FailHasRow
<1> USE DEF TypeOK, FailHasRow, Goto, At, Passes
<1>1. ASSUME NEW r \in Rows, Publish(r) PROVE todo'[d] # <<>>
  BY <1>1 DEF Publish
<1>2. ASSUME NEW e \in Drains, StartDrain(e) PROVE todo'[d] # <<>>
  BY <1>2 DEF StartDrain
<1>3. ASSUME NEW e \in Drains, Replay(e) \/ ReplayFails(e) PROVE todo'[d] # <<>>
  BY <1>3 DEF Replay, ReplayFails
<1>4. ASSUME NEW e \in Drains, Fetch(e) PROVE todo'[d] # <<>>
  BY <1>4 DEF Fetch
<1>5. ASSUME NEW e \in Drains, Skip(e) \/ Park(e) \/ Apply(e) PROVE todo'[d] # <<>>
  BY <1>5 DEF Skip, Park, Apply
<1>6. ASSUME NEW e \in Drains, RowFails(e) PROVE todo'[d] # <<>>
  BY <1>6 DEF RowFails
<1>7. ASSUME NEW e \in Drains, MarkFailed(e) PROVE todo'[d] # <<>>
  BY <1>7 DEF MarkFailed
<1>8. ASSUME NEW e \in Drains, Dies(e) PROVE todo'[d] # <<>>
  BY <1>8 DEF Dies
<1>9. CASE ScanFails \/ ComesBack \/ RestoreByHand
  BY <1>9, Zenon DEF ScanFails, ComesBack, RestoreByHand
<1>10. CASE UNCHANGED vars
  BY <1>10, Zenon DEF vars
<1> QED
  BY <1>1, <1>2, <1>3, <1>4, <1>5, <1>6, <1>7, <1>8, <1>9, <1>10 DEF Next, Works

\* Every variable stays in its type, whatever the drains, the disk and the faults.
THEOREM OutboxTypeCorrect == Spec => []TypeOK
<1>1. Init => OutboxType
  BY InitRowInv DEF RowInv
<1>2. OutboxType /\ [Next]_vars => OutboxType'
  BY TypeStep, FailStep DEF OutboxType
<1>3. OutboxType => TypeOK
  BY DEF OutboxType
<1> QED
  BY <1>1, <1>2, <1>3, PTL DEF Spec

-----------------------------------------------------------------------------
(* A status is not taken back, a row that was published stays published *)

Gone == {"unpublished", "lost"}

\* The lists of rows grow, and rows do not go back to being unpublished.
LEMMA RowsStay ==
  ASSUME OutboxType, [Next]_vars
  PROVE  /\ applied \subseteq applied' /\ missed \subseteq missed' /\ expired \subseteq expired'
         /\ \A r \in Rows : status[r] \notin Gone => status'[r] \notin Gone
<1> USE DEF Gone, Becomes, Handles, Writes, Misses, Disorders, outbox, written, history
<1> TypeOK
  BY DEF OutboxType
<1> status \in [Rows -> {"unpublished", "lost", "pending", "done", "failed", "deferred"}]
  BY DEF TypeOK
<1> HIDE DEF TypeOK
<1> DEFINE Stay == /\ applied \subseteq applied' /\ missed \subseteq missed'
                   /\ expired \subseteq expired'
                   /\ \A r \in Rows : status[r] \notin Gone => status'[r] \notin Gone
<1> SUFFICES Stay
  OBVIOUS
<1>1. ASSUME NEW r \in Rows, Publish(r) PROVE Stay
  BY <1>1 DEF Publish
<1>2. ASSUME NEW d \in Drains, StartDrain(d) PROVE Stay
  BY <1>2, Zenon DEF StartDrain
<1>3. ASSUME NEW d \in Drains, Replay(d) PROVE Stay
  BY <1>3 DEF Replay
<1>4. ASSUME NEW d \in Drains, ReplayFails(d) PROVE Stay
  BY <1>4, Zenon DEF ReplayFails
<1>5. ASSUME NEW d \in Drains, Fetch(d) PROVE Stay
  BY <1>5 DEF Fetch
<1>6. ASSUME NEW d \in Drains, Skip(d) PROVE Stay
  BY <1>6 DEF Skip
<1>7. ASSUME NEW d \in Drains, Park(d) PROVE Stay
  BY <1>7 DEF Park
<1>8. ASSUME NEW d \in Drains, Apply(d) PROVE Stay
  BY <1>8 DEF Apply
<1>9. ASSUME NEW d \in Drains, RowFails(d) \/ Dies(d) PROVE Stay
  BY <1>9, Zenon DEF RowFails, Dies
<1>10. ASSUME NEW d \in Drains, MarkFailed(d) PROVE Stay
  BY <1>10 DEF MarkFailed
<1>11. CASE ScanFails \/ ComesBack \/ RestoreByHand
  BY <1>11, Zenon DEF ScanFails, ComesBack, RestoreByHand
<1>12. CASE UNCHANGED vars
  BY <1>12, Zenon DEF vars
<1> QED
  BY <1>1, <1>2, <1>3, <1>4, <1>5, <1>6, <1>7, <1>8, <1>9, <1>10, <1>11, <1>12 DEF Next, Works

-----------------------------------------------------------------------------
(* What a row says is true *)

\* The end of a drain, as far as pending_op and the rows are concerned.
Purges(d, n) ==
  /\ parked' = SubSeq(parked, n + 1, Len(parked))
  /\ expired' = expired \union {parked[i].row : i \in {j \in 1 .. n : ~parked[j].replayed}}
  /\ UNCHANGED <<status, applied, missed>>

LEMMA WhoParks ==
  ASSUME [Next]_vars
  PROVE  \/ UNCHANGED parked
         \/ \E d \in Drains : Replay(d) \/ Park(d) \/ \E n \in 0 .. Len(parked) : Purges(d, n)
<1> USE DEF outbox
<1>1. ASSUME NEW d \in Drains, Fetch(d)
      PROVE  UNCHANGED parked \/ \E n \in 0 .. Len(parked) : Purges(d, n)
  BY <1>1, Zenon DEF Fetch, Purges, written
<1>2. ASSUME NEW d \in Drains,
             StartDrain(d) \/ ReplayFails(d) \/ Skip(d) \/ Apply(d) \/ RowFails(d)
               \/ MarkFailed(d) \/ Dies(d)
      PROVE  UNCHANGED parked
  BY <1>2, Zenon DEF StartDrain, ReplayFails, Skip, Apply, RowFails, MarkFailed, Dies
<1>3. ASSUME NEW r \in Rows, Publish(r) PROVE UNCHANGED parked
  BY <1>3, Zenon DEF Publish
<1>4. CASE ScanFails \/ ComesBack \/ RestoreByHand \/ UNCHANGED vars
  BY <1>4, Zenon DEF ScanFails, ComesBack, RestoreByHand, vars
<1> QED
  BY <1>1, <1>2, <1>3, <1>4 DEF Next, Works

LEMMA WhoMarks ==
  ASSUME OutboxType, [Next]_vars, NEW r \in Rows, status'[r] # status[r],
         status'[r] \in {"done", "deferred"}
  PROVE  \E d \in Drains : r = Row(d) /\ todo[d] # <<>> /\
           \/ Skip(d) /\ status'[r] = "done"
           \/ Apply(d) /\ status'[r] = "done"
           \/ Park(d) /\ status'[r] = "deferred"
<1> USE DEF outbox, Becomes
<1> status \in [Rows -> {"unpublished", "lost", "pending", "done", "failed", "deferred"}]
  BY DEF OutboxType, TypeOK
<1>1. ASSUME NEW q \in Rows, Publish(q) PROVE FALSE
  BY <1>1 DEF Publish
<1>2. ASSUME NEW d \in Drains, MarkFailed(d) PROVE FALSE
  BY <1>2 DEF MarkFailed
<1>3. ASSUME NEW d \in Drains,
             StartDrain(d) \/ Replay(d) \/ ReplayFails(d) \/ Fetch(d) \/ RowFails(d) \/ Dies(d)
      PROVE  FALSE
  BY <1>3, Zenon DEF StartDrain, Replay, ReplayFails, Fetch, RowFails, Dies
<1>4. CASE ScanFails \/ ComesBack \/ RestoreByHand \/ UNCHANGED vars
  BY <1>4, Zenon DEF ScanFails, ComesBack, RestoreByHand, vars
<1>5. ASSUME NEW d \in Drains, Skip(d)
      PROVE  r = Row(d) /\ todo[d] # <<>> /\ status'[r] = "done"
  BY <1>5 DEF Skip
<1>6. ASSUME NEW d \in Drains, Apply(d)
      PROVE  r = Row(d) /\ todo[d] # <<>> /\ status'[r] = "done"
  BY <1>6 DEF Apply
<1>7. ASSUME NEW d \in Drains, Park(d)
      PROVE  r = Row(d) /\ todo[d] # <<>> /\ status'[r] = "deferred"
  BY <1>7 DEF Park
<1> QED
  BY <1>1, <1>2, <1>3, <1>4, <1>5, <1>6, <1>7 DEF Next, Works

LEMMA StaleStep == OutboxType /\ StaleReplaced /\ [Next]_vars => StaleReplaced'
<1> SUFFICES ASSUME OutboxType, StaleReplaced, [Next]_vars,
                    NEW d \in Drains, NEW r \in stale'[d]
             PROVE  \E s \in Rows : /\ s > r /\ {r, s} \subseteq SameFile
                                    /\ status'[s] \notin {"unpublished", "lost"}
  BY DEF StaleReplaced
<1>1. CASE r \in stale[d]
  BY <1>1, RowsStay DEF StaleReplaced, Gone
<1>2. CASE r \notin stale[d]
  <2> TypeOK
    BY DEF OutboxType
  <2> stale \in [Drains -> SUBSET Rows]
    BY DEF TypeOK
  <2> HIDE DEF TypeOK
  <2>1. ASSUME NEW e \in Drains, Fetch(e)
        PROVE  r \in Superseded(FirstOf({q \in Rows : status[q] = "pending"})) /\ UNCHANGED status
    <3> DEFINE batch == FirstOf({q \in Rows : status[q] = "pending"})
    <3>1. UNCHANGED status
      BY <2>1, Zenon DEF Fetch
    <3>2. \/ stale' = [stale EXCEPT ![e] = Superseded(batch)]
          \/ stale' = [stale EXCEPT ![e] = {}]
      BY <2>1, Zenon DEF Fetch
    <3>3. r \in Superseded(batch)
      <4> HIDE DEF batch
      <4> QED
        BY <1>2, <3>2
    <3> QED
      BY <3>1, <3>3
  <2>2. ASSUME NEW e \in Drains, Dies(e) PROVE FALSE
    BY <1>2, <2>2 DEF Dies
  <2>3. ASSUME UNCHANGED stale PROVE FALSE
    BY <1>2, <2>3
  <2>4. ASSUME NEW e \in Drains,
               StartDrain(e) \/ Replay(e) \/ ReplayFails(e) \/ Skip(e) \/ Park(e) \/ Apply(e)
                 \/ RowFails(e) \/ MarkFailed(e)
        PROVE  FALSE
    BY <2>3, <2>4, Zenon DEF StartDrain, Replay, ReplayFails, Skip, Park, Apply, RowFails, MarkFailed
  <2>5. ASSUME NEW q \in Rows, Publish(q) PROVE FALSE
    BY <2>3, <2>5, Zenon DEF Publish
  <2>6. ASSUME ScanFails \/ ComesBack \/ RestoreByHand \/ UNCHANGED vars PROVE FALSE
    BY <2>3, <2>6, Zenon DEF ScanFails, ComesBack, RestoreByHand, vars
  <2>7. PICK e \in Drains : Fetch(e)
    BY <2>2, <2>4, <2>5, <2>6 DEF Next, Works
  <2> QED
    BY <2>1, <2>7, OutboxAssumption, FirstRows DEF Superseded
<1> QED
  BY <1>1, <1>2

LEMMA ReplayedStep == OutboxType /\ ReplayedIsHandled /\ [Next]_vars => ReplayedIsHandled'
<1> SUFFICES ASSUME TypeOK, ReplayedIsHandled, OutboxType, [Next]_vars,
                    NEW i \in DOMAIN parked', parked'[i].replayed
             PROVE  parked'[i].row \in applied' \union missed'
  BY DEF OutboxType, ReplayedIsHandled
<1>1. CASE UNCHANGED parked
  BY <1>1, RowsStay DEF ReplayedIsHandled
<1>2. ASSUME NEW d \in Drains, Replay(d) PROVE parked'[i].row \in applied' \union missed'
  <2>1. Row(d) \in Rows
    BY <1>2, OneRowOn DEF Replay
  <2>2. /\ i \in DOMAIN parked /\ parked'[i].row = parked[i].row
        /\ parked[i].replayed \/ parked[i].row = Row(d)
    BY <1>2, <2>1, OneReplayed DEF Replay
  <2>3. Row(d) \in applied' \union missed'
    BY <1>2, <2>1, Handled DEF Replay, OutboxType
  <2> QED
    BY <2>2, <2>3, RowsStay DEF ReplayedIsHandled
<1>3. ASSUME NEW d \in Drains, Park(d) PROVE parked'[i].row \in applied' \union missed'
  <2>1. Row(d) \in Rows
    BY <1>3, OneRowOn DEF Park
  <2>2. i \in DOMAIN parked /\ parked'[i] = parked[i]
    BY <1>3, <2>1, OneParked DEF Park
  <2> QED
    BY <2>2, RowsStay DEF ReplayedIsHandled
<1>4. ASSUME NEW d \in Drains, NEW n \in 0 .. Len(parked), Purges(d, n)
      PROVE  parked'[i].row \in applied' \union missed'
  <2>1. i + n \in DOMAIN parked /\ parked'[i] = parked[i + n]
    BY <1>4, Purged DEF Purges
  <2> QED
    BY <1>4, <2>1 DEF ReplayedIsHandled, Purges
<1> QED
  BY <1>1, <1>2, <1>3, <1>4, WhoParks

LEMMA DoneStep == RowInv /\ [Next]_vars => DoneIsWritten'
<1> SUFFICES ASSUME OutboxType, StaleReplaced, DoneIsWritten, [Next]_vars,
                    NEW r \in Rows, status'[r] = "done"
             PROVE  \/ r \in applied' \union (missed' \ Complete)
                    \/ \E s \in Rows : /\ s > r /\ {r, s} \subseteq SameFile
                                       /\ status'[s] \notin {"unpublished", "lost"}
  BY DEF RowInv, DoneIsWritten
<1>1. CASE status[r] = "done"
  BY <1>1, RowsStay DEF DoneIsWritten, Gone
<1>2. CASE status[r] # "done"
  <2>1. PICK d \in Drains : r = Row(d) /\ (Skip(d) \/ Apply(d))
    BY <1>2, WhoMarks
  <2>2. CASE Apply(d)
    BY <2>1, <2>2, Handled DEF Apply, OutboxType
  <2>3. CASE Skip(d)
    <3>1. r \in stale[d]
      BY <2>1, <2>3 DEF Skip
    <3> QED
      BY <3>1, RowsStay DEF StaleReplaced, Gone
  <2> QED
    BY <2>1, <2>2, <2>3
<1> QED
  BY <1>1, <1>2

LEMMA DeferredStep == RowInv /\ [Next]_vars => DeferredIsParked'
<1> SUFFICES ASSUME OutboxType, TypeOK, ReplayedIsHandled, DeferredIsParked, [Next]_vars,
                    NEW r \in Rows, status'[r] = "deferred",
                    r \notin applied' \union missed' \union expired'
             PROVE  \E i \in DOMAIN parked' : parked'[i].row = r
  BY DEF RowInv, OutboxType, DeferredIsParked
<1>1. CASE status[r] # "deferred"
  <2>1. PICK d \in Drains : r = Row(d) /\ Park(d)
    BY <1>1, WhoMarks
  <2> QED
    BY <2>1, OneParked DEF Park
<1>2. CASE status[r] = "deferred"
  <2>1. r \notin applied \union missed \union expired
    BY RowsStay
  <2>2. PICK i \in DOMAIN parked : parked[i].row = r
    BY <1>2, <2>1 DEF DeferredIsParked
  <2>3. CASE UNCHANGED parked
    BY <2>2, <2>3
  <2>4. ASSUME NEW d \in Drains, Replay(d) PROVE \E j \in DOMAIN parked' : parked'[j].row = r
    <3>1. Row(d) \in Rows
      BY <2>4, OneRowOn DEF Replay
    <3> QED
      BY <2>2, <2>4, <3>1, OneReplayed DEF Replay
  <2>5. ASSUME NEW d \in Drains, Park(d) PROVE \E j \in DOMAIN parked' : parked'[j].row = r
    <3>1. Row(d) \in Rows
      BY <2>5, OneRowOn DEF Park
    <3> QED
      BY <2>2, <2>5, <3>1, OneParked DEF Park
  <2>6. ASSUME NEW d \in Drains, NEW n \in 0 .. Len(parked), Purges(d, n)
        PROVE  \E j \in DOMAIN parked' : parked'[j].row = r
    <3>1. ~parked[i].replayed
      BY <2>1, <2>2 DEF ReplayedIsHandled
    <3>2. i \in 1 .. Len(parked)
      BY DEF TypeOK
    <3>3. i > n
      <4>1. i \notin 1 .. n
        BY <2>2, <2>6, <3>1 DEF Purges
      <4> QED
        BY <3>2, <4>1
    <3> QED
      BY <2>2, <2>6, <3>3, Purged DEF Purges
  <2> QED
    BY <2>3, <2>4, <2>5, <2>6, WhoParks
<1> QED
  BY <1>1, <1>2

LEMMA RowInductive == Spec => []RowInv
<1>1. RowInv /\ [Next]_vars => RowInv'
  BY TypeStep, FailStep, StaleStep, ReplayedStep, DoneStep, DeferredStep DEF RowInv, OutboxType
<1> QED
  BY <1>1, InitRowInv, PTL DEF Spec

\* A row marked done had its effect on the index, or went through a handler that found
\* nothing to write to - a complete move's never does -, or gave way to a later row of its
\* file.
THEOREM DoneAlwaysWritten == Spec => []DoneIsWritten
<1>1. RowInv => DoneIsWritten
  BY DEF RowInv
<1> QED
  BY <1>1, RowInductive, PTL

\* A row deferred for its disk is kept in pending_op until its replay or a month old.
THEOREM DeferredAlwaysParked == Spec => []DeferredIsParked
<1>1. RowInv => DeferredIsParked
  BY DEF RowInv
<1> QED
  BY <1>1, RowInductive, PTL

-----------------------------------------------------------------------------
(* The order of the index *)

LEMMA Numbers == TypeOK => index \in Nat /\ \A r \in Rows : r \in Nat
BY OutboxAssumption DEF TypeOK

LEMMA WaitingAreRows == TypeOK => WaitingRows \subseteq Rows
<1> SUFFICES ASSUME TypeOK, NEW i \in DOMAIN parked PROVE parked[i].row \in Rows
  BY DEF WaitingRows
<1>1. parked \in Seq(Parked) /\ i \in 1 .. Len(parked)
  BY DEF TypeOK
<1>2. parked[i] \in Parked
  BY <1>1, ElementOfSeq
<1> QED
  BY <1>2 DEF Parked

LEMMA TodoAreRows == ASSUME TypeOK, NEW d \in Drains PROVE Todo(d) \subseteq Rows
<1> SUFFICES ASSUME NEW i \in DOMAIN todo[d] PROVE todo[d][i] \in Rows
  BY DEF Todo
<1>1. todo[d] \in Seq(Rows) /\ i \in 1 .. Len(todo[d])
  BY DEF TypeOK
<1> QED
  BY <1>1, ElementOfSeq

\* The row a batch has come to is the least of those not yet settled.
LEMMA LeastRow ==
  ASSUME TypeOK, Ordered, NEW d \in Drains, pc[d] \in {"row", "fail"}, todo[d] # <<>>, Passes(d)
  PROVE  /\ status[Row(d)] = "pending" /\ index < Row(d)
         /\ \A w \in WaitingRows : w < Row(d)
         /\ \A q \in Rows : q # Row(d) /\ status[q] \in {"pending", "unpublished"} => Row(d) < q
         /\ \A t \in Todo(d)' : t \in Todo(d) /\ Row(d) < t
<1>1. /\ Row(d) \in Rows /\ Todo(d) = Todo(d)' \union {Row(d)}
      /\ \A t \in Todo(d)' : Row(d) < t
  BY OneRowOn DEF Ordered
<1>2. status[Row(d)] = "pending"
  BY <1>1 DEF Ordered, BatchFirst
<1>3. index < Row(d) /\ \A w \in WaitingRows : w < Row(d)
  BY <1>1, <1>2 DEF Ordered, PendingLast
<1>4. ASSUME NEW q \in Rows, q # Row(d), status[q] = "pending" PROVE Row(d) < q
  <2>1. q \in Todo(d) \/ \A t \in Todo(d) : t < q
    BY <1>4 DEF Ordered, BatchFirst
  <2> QED
    BY <1>1, <1>4, <2>1
<1>5. ASSUME NEW q \in Rows, status[q] = "unpublished" PROVE Row(d) < q
  BY <1>1, <1>2, <1>5 DEF Ordered, PublishedInOrder
<1> QED
  BY <1>1, <1>2, <1>3, <1>4, <1>5

\* When the row a batch has come to is settled, all is as it was but for the index and
\* what waits.
LEMMA RowLeaves ==
  ASSUME TypeOK, Ordered, NEW d \in Drains, pc[d] \in {"row", "fail"}, todo[d] # <<>>, Passes(d),
         NEW s \in {"done", "failed", "deferred"}, Becomes(Row(d), s),
         pc' = [pc EXCEPT ![d] = "row"], UNCHANGED mounted,
         mounted => WaitingRows' = WaitingRows
  PROVE  PublishedInOrder' /\ OneDrain' /\ TodoInOrder' /\ BatchFirst' /\ ReplayWhole'
<1>1. /\ Row(d) \in Rows /\ Todo(d) = Todo(d)' \union {Row(d)} /\ TodoInOrder'
      /\ \A e \in Drains : e # d => todo'[e] = todo[e]
  BY OneRowOn DEF Ordered
<1>2. /\ status[Row(d)] = "pending"
      /\ \A q \in Rows : q # Row(d) /\ status[q] \in {"pending", "unpublished"} => Row(d) < q
      /\ \A t \in Todo(d)' : t \in Todo(d) /\ Row(d) < t
  BY LeastRow
<1>3. /\ status'[Row(d)] = s /\ \A q \in Rows : q # Row(d) => status'[q] = status[q]
      /\ pc'[d] = "row" /\ \A e \in Drains : e # d => pc[e] = "idle" /\ pc'[e] = "idle"
  BY <1>1 DEF Becomes, TypeOK, Ordered, OneDrain
<1>4. PublishedInOrder'
  BY <1>1, <1>2, <1>3 DEF PublishedInOrder, Ordered
<1>5. OneDrain'
  BY <1>3 DEF OneDrain
<1>6. BatchFirst'
  <2> SUFFICES /\ \A t \in Todo(d)' : status'[t] = "pending"
               /\ \A r \in Rows : status'[r] = "pending" =>
                    r \in Todo(d)' \/ \A t \in Todo(d)' : t < r
               /\ mounted' => WaitingRows' = {}
    BY <1>3 DEF BatchFirst
  <2>1. ASSUME NEW t \in Todo(d)' PROVE status'[t] = "pending"
    <3>1. status[t] = "pending" /\ t # Row(d) /\ t \in Rows
      <4>1. t \in Todo(d) /\ Row(d) < t
        BY <1>2
      <4>2. t \in Rows
        BY <4>1, TodoAreRows
      <4> QED
        BY <4>1, <4>2, <1>1, Numbers DEF Ordered, BatchFirst
    <3> QED
      BY <3>1, <1>3
  <2>2. ASSUME NEW r \in Rows, status'[r] = "pending"
        PROVE  r \in Todo(d)' \/ \A t \in Todo(d)' : t < r
    <3>1. r # Row(d) /\ status[r] = "pending"
      BY <1>3, <2>2
    <3>2. r \in Todo(d) \/ \A t \in Todo(d) : t < r
      BY <3>1 DEF Ordered, BatchFirst
    <3> QED
      BY <1>1, <3>1, <3>2
  <2>3. mounted' => WaitingRows' = {}
    BY DEF Ordered, BatchFirst
  <2> QED
    BY <2>1, <2>2, <2>3
<1>7. ReplayWhole'
  BY <1>3 DEF ReplayWhole
<1> QED
  BY <1>1, <1>4, <1>5, <1>6, <1>7

\* The same where nothing is written.
LEMMA Settles ==
  ASSUME TypeOK, Ordered, NEW d \in Drains, pc[d] \in {"row", "fail"}, todo[d] # <<>>, Passes(d),
         NEW s \in {"done", "failed"}, Becomes(Row(d), s),
         pc' = [pc EXCEPT ![d] = "row"], UNCHANGED <<parked, mounted, index>>
  PROVE  Ordered'
<1>1. WaitingRows' = WaitingRows
  BY DEF WaitingRows
<1>2. PublishedInOrder' /\ OneDrain' /\ TodoInOrder' /\ BatchFirst' /\ ReplayWhole'
  BY <1>1, RowLeaves
<1>3. Row(d) \in Rows
  BY OneRowOn
<1>4. WrittenFirst' /\ ParkedInOrder'
  BY <1>1 DEF Ordered, WrittenFirst, ParkedInOrder
<1>5. PendingLast'
  BY <1>1, <1>3 DEF Ordered, PendingLast, Becomes, TypeOK
<1> QED
  BY <1>2, <1>4, <1>5 DEF Ordered

LEMMA OrderStep == OutboxType /\ OrderInv /\ [Next]_vars => OrderInv'
<1> SUFFICES ASSUME TypeOK, FailHasRow, OrderInv, [Next]_vars, ~disordered'
             PROVE  Ordered'
  BY DEF OutboxType, OrderInv
<1>1. ASSUME NEW r \in Rows, Publish(r) PROVE Ordered'
  <2>1. Ordered
    BY <1>1 DEF Publish, history, OrderInv
  <2>2. /\ UNCHANGED <<parked, mounted, index, pc, todo>>
        /\ status[r] = "unpublished" /\ \A s \in Rows : s < r => status[s] # "unpublished"
        /\ \A q \in Rows : q # r => status'[q] = status[q]
        /\ status'[r] \in {"pending", "lost"}
    BY <1>1 DEF Publish, Becomes, TypeOK, disk, written
  <2>3. /\ OneDrain' /\ WrittenFirst' /\ ParkedInOrder' /\ TodoInOrder' /\ ReplayWhole'
        /\ WaitingRows' = WaitingRows /\ \A d \in Drains : Todo(d)' = Todo(d)
    <3>1. WaitingRows' = WaitingRows /\ \A d \in Drains : Todo(d)' = Todo(d)
      BY <2>2 DEF WaitingRows, Todo
    <3>2. OneDrain' /\ WrittenFirst' /\ ParkedInOrder'
      BY <2>1, <2>2, <3>1 DEF Ordered, OneDrain, WrittenFirst, ParkedInOrder
    <3>3. TodoInOrder' /\ ReplayWhole'
      BY <2>1, <2>2, <3>1 DEF Ordered, TodoInOrder, ReplayWhole
    <3> QED
      BY <3>1, <3>2, <3>3
  <2>4. PublishedInOrder'
    BY <2>1, <2>2, Numbers DEF Ordered, PublishedInOrder
  <2>5. PendingLast'
    BY <2>1, <2>2, <2>3 DEF Ordered, PendingLast
  <2>6. BatchFirst'
    <3> SUFFICES ASSUME NEW d \in Drains, pc'[d] \in {"row", "fail"}
                 PROVE  /\ \A t \in Todo(d)' : status'[t] = "pending"
                        /\ \A q \in Rows : status'[q] = "pending" =>
                             q \in Todo(d)' \/ \A t \in Todo(d)' : t < q
                        /\ mounted' => WaitingRows' = {}
      BY DEF BatchFirst
    <3>1. /\ \A t \in Todo(d) : status[t] = "pending"
          /\ \A q \in Rows : status[q] = "pending" => q \in Todo(d) \/ \A t \in Todo(d) : t < q
          /\ mounted => WaitingRows = {}
      BY <2>1, <2>2 DEF Ordered, BatchFirst
    <3>2. Todo(d) \subseteq Rows
      BY TodoAreRows
    <3>3. \A t \in Todo(d) : t < r
      BY <2>1, <2>2, <3>1, <3>2 DEF Ordered, PublishedInOrder
    <3> QED
      BY <2>2, <2>3, <3>1, <3>2, <3>3
  <2> QED
    BY <2>3, <2>4, <2>5, <2>6 DEF Ordered
<1>2. ASSUME NEW d \in Drains, StartDrain(d) PROVE Ordered'
  <2>1. ~disordered /\ Ordered /\ \A e \in Drains : pc[e] = "idle"
    BY <1>2 DEF StartDrain, OrderInv
  <2>2. /\ UNCHANGED <<status, parked, mounted, index>>
        /\ pc'[d] = "replay" /\ \A e \in Drains : e # d => pc'[e] = "idle"
    BY <1>2, <2>1 DEF StartDrain, Goto, TypeOK, outbox, disk, written
  <2>3. /\ TodoInOrder'
        /\ Todo(d)' = WaitingRows \/ (todo'[d] = <<>> /\ ~mounted)
    <3>1. PICK order \in Ascending(ToReplay) :
            todo' = [todo EXCEPT ![d] = [i \in DOMAIN order |-> parked[order[i]].row]]
      BY <1>2, Zenon DEF StartDrain
    <3> QED
      BY <2>1, <3>1, Replayable DEF Ordered
  <2>4. PublishedInOrder' /\ WrittenFirst' /\ ParkedInOrder' /\ PendingLast'
        /\ WaitingRows' = WaitingRows
    <3>1. WaitingRows' = WaitingRows
      BY <2>2 DEF WaitingRows
    <3> QED
      BY <2>1, <2>2, <3>1 DEF Ordered, PublishedInOrder, WrittenFirst, ParkedInOrder, PendingLast
  <2> QED
    BY <2>2, <2>3, <2>4 DEF Ordered, OneDrain, BatchFirst, ReplayWhole
<1>3. ASSUME NEW d \in Drains, Replay(d) PROVE Ordered'
  <2>1. Ordered /\ pc[d] = "replay" /\ todo[d] # <<>>
    BY <1>3 DEF Replay, history, OrderInv, At
  <2>2. /\ Row(d) \in Rows /\ Todo(d) = Todo(d)' \union {Row(d)}
        /\ TodoInOrder' /\ \A t \in Todo(d)' : Row(d) < t
    BY <1>3, <2>1, OneRowOn DEF Replay, Ordered
  <2>3. Todo(d) = WaitingRows
    BY <2>1 DEF Ordered, ReplayWhole
  <2>4. ParkedInOrder' /\ WaitingRows' = WaitingRows \ {Row(d)}
    BY <1>3, <2>1, <2>2, OneReplayed DEF Replay, Ordered
  <2>5. Todo(d)' = WaitingRows'
    BY <2>2, <2>3, <2>4, Numbers
  <2>6. UNCHANGED <<status, mounted, pc>> /\ index' \in {index, Row(d)}
    BY <1>3, <2>2, Handled DEF Replay, disk
  <2>7. \A e \in Drains : e # d => pc'[e] = "idle"
    BY <2>1, <2>6 DEF Ordered, OneDrain
  <2>8. WrittenFirst'
    BY <2>1, <2>2, <2>4, <2>5, <2>6 DEF Ordered, WrittenFirst
  <2>9. PendingLast'
    BY <2>1, <2>2, <2>3, <2>4, <2>6 DEF Ordered, PendingLast
  <2>10. PublishedInOrder' /\ OneDrain'
    BY <2>1, <2>6 DEF Ordered, PublishedInOrder, OneDrain
  <2> QED
    BY <2>1, <2>2, <2>4, <2>5, <2>6, <2>7, <2>8, <2>9, <2>10 DEF Ordered, BatchFirst, ReplayWhole
<1>4. ASSUME NEW d \in Drains, ReplayFails(d) PROVE Ordered'
  BY <1>4 DEF ReplayFails, Disorders
<1>5. ASSUME NEW d \in Drains, Fetch(d) PROVE Ordered'
  <2> DEFINE batch == FirstOf({r \in Rows : status[r] = "pending"})
  <2>0. /\ batch \subseteq Rows /\ \A r \in batch : status[r] = "pending"
        /\ \A r \in Rows : status[r] = "pending" => r \in batch \/ \A t \in batch : t < r
    BY FirstRows
  <2> HIDE DEF batch
  <2>1. Ordered /\ pc[d] \in {"replay", "row"} /\ todo[d] = <<>>
    BY <1>5 DEF Fetch, OrderInv
  <2>2. UNCHANGED <<status, mounted, index>> /\ \A e \in Drains : e # d => pc[e] = "idle" /\ pc'[e] = "idle"
    <3>1. \A e \in Drains : e # d => pc[e] = "idle"
      BY <2>1 DEF Ordered, OneDrain
    <3>2. pc' = [pc EXCEPT ![d] = "row"] \/ pc' = [pc EXCEPT ![d] = "idle"]
      BY <1>5, Zenon DEF Fetch, Goto
    <3>3. UNCHANGED <<status, mounted, index>>
      BY <1>5, Zenon DEF Fetch, disk, written
    <3> QED
      BY <3>1, <3>2, <3>3 DEF TypeOK
  <2>3. PublishedInOrder' /\ OneDrain'
    BY <2>1, <2>2 DEF Ordered, PublishedInOrder, OneDrain
  <2>4. CASE batch # {}
    <3>1. /\ UNCHANGED parked /\ pc'[d] = "row"
          /\ Todo(d)' = batch /\ TodoInOrder'
      <4>1. PICK order \in Ascending(batch) : todo' = [todo EXCEPT ![d] = order]
        BY <1>5, <2>4, Zenon DEF Fetch, batch
      <4>2. Todo(d)' = batch /\ TodoInOrder'
        BY <2>0, <4>1, <2>1, Fetched DEF Ordered
      <4>3. UNCHANGED parked /\ pc' = [pc EXCEPT ![d] = "row"]
        BY <1>5, <2>4, Zenon DEF Fetch, Goto, batch
      <4> QED
        BY <4>2, <4>3 DEF TypeOK
    <3>2. WrittenFirst' /\ ParkedInOrder' /\ PendingLast' /\ WaitingRows' = WaitingRows
      BY <2>1, <2>2, <3>1 DEF Ordered, WrittenFirst, ParkedInOrder, PendingLast, WaitingRows
    <3>3. mounted => WaitingRows = {}
      <4>1. Todo(d) = {}
        BY <2>1 DEF Todo
      <4> QED
        BY <2>1, <4>1 DEF Ordered, BatchFirst, ReplayWhole
    <3> QED
      BY <2>0, <2>2, <2>3, <3>1, <3>2, <3>3 DEF Ordered, BatchFirst, ReplayWhole
  <2>5. CASE batch = {}
    <3>1. PICK n \in 0 .. Len(parked) : parked' = SubSeq(parked, n + 1, Len(parked))
      BY <1>5, <2>5, Zenon DEF Fetch, batch
    <3>2. pc'[d] = "idle" /\ UNCHANGED todo
      BY <1>5, <2>5 DEF Fetch, Goto, TypeOK, batch
    <3>3. /\ \A i \in DOMAIN parked' : i + n \in DOMAIN parked /\ parked'[i] = parked[i + n]
          /\ DOMAIN parked' \subseteq Nat
      <4>1. parked' \in Seq(Parked)
        BY <3>1, Purged
      <4>2. DOMAIN parked' \subseteq Nat
        BY <4>1
      <4> QED
        BY <3>1, <4>2, Purged
    <3>4. WaitingRows' \subseteq WaitingRows
      BY <3>3 DEF WaitingRows
    <3>5. ParkedInOrder'
      <4> SUFFICES ASSUME NEW i \in DOMAIN parked', NEW j \in DOMAIN parked', i < j,
                          ~parked'[i].replayed, ~parked'[j].replayed
                   PROVE  parked'[i].row < parked'[j].row
        BY DEF ParkedInOrder
      <4>1. i + n < j + n
        BY <3>3
      <4> QED
        BY <2>1, <3>3, <4>1 DEF Ordered, ParkedInOrder
    <3>6. WrittenFirst' /\ PendingLast' /\ TodoInOrder'
      BY <2>1, <2>2, <3>2, <3>4 DEF Ordered, WrittenFirst, PendingLast, TodoInOrder
    <3> QED
      BY <2>2, <2>3, <3>2, <3>5, <3>6 DEF Ordered, BatchFirst, ReplayWhole
  <2> QED
    BY <2>4, <2>5
<1>6. ASSUME NEW d \in Drains, Skip(d) PROVE Ordered'
  <2>1. /\ Ordered /\ pc[d] = "row" /\ todo[d] # <<>> /\ Passes(d)
        /\ Becomes(Row(d), "done") /\ UNCHANGED <<parked, mounted, index, pc>>
    <3>1. Becomes(Row(d), "done") /\ UNCHANGED history
      BY <1>6, Zenon DEF Skip, Disorders
    <3>2. Ordered
      BY <3>1 DEF history, OrderInv
    <3> QED
      BY <1>6, <3>1, <3>2, Zenon DEF Skip, At, disk, written
  <2>2. pc' = [pc EXCEPT ![d] = "row"]
    BY <2>1 DEF TypeOK
  <2> QED
    BY <2>1, <2>2, Settles
<1>7. ASSUME NEW d \in Drains, Park(d) PROVE Ordered'
  <2>1. /\ Ordered /\ pc[d] = "row" /\ todo[d] # <<>> /\ Passes(d) /\ ~mounted
        /\ Becomes(Row(d), "deferred") /\ UNCHANGED <<mounted, index, pc>>
        /\ parked' = Append(parked, [row |-> Row(d), replayed |-> FALSE])
    BY <1>7, Zenon DEF Park, At, history, disk, written, OrderInv
  <2>2. pc' = [pc EXCEPT ![d] = "row"]
    BY <2>1 DEF TypeOK
  <2>3. PublishedInOrder' /\ OneDrain' /\ TodoInOrder' /\ BatchFirst' /\ ReplayWhole'
    BY <2>1, <2>2, RowLeaves
  <2>4. /\ Row(d) \in Rows /\ index < Row(d) /\ \A w \in WaitingRows : w < Row(d)
        /\ \A q \in Rows : q # Row(d) /\ status[q] \in {"pending", "unpublished"} => Row(d) < q
    BY <2>1, LeastRow, OneRowOn
  <2>5. /\ DOMAIN parked' = DOMAIN parked \union {Len(parked) + 1}
        /\ \A i \in DOMAIN parked : parked'[i] = parked[i] /\ i < Len(parked) + 1
        /\ parked'[Len(parked) + 1] = [row |-> Row(d), replayed |-> FALSE]
    BY <2>1, <2>4, OneParked
  <2>6. WaitingRows' = WaitingRows \union {Row(d)}
    BY <2>5 DEF WaitingRows
  <2>7. ParkedInOrder'
    <3> SUFFICES ASSUME NEW i \in DOMAIN parked', NEW j \in DOMAIN parked', i < j,
                        ~parked'[i].replayed, ~parked'[j].replayed
                 PROVE  parked'[i].row < parked'[j].row
      BY DEF ParkedInOrder
    <3>1. i \in DOMAIN parked
      <4>1. Len(parked) \in Nat /\ DOMAIN parked \subseteq Nat
        BY DEF TypeOK
      <4> QED
        BY <2>5, <4>1
    <3>2. CASE j \in DOMAIN parked
      BY <2>1, <2>5, <3>1, <3>2 DEF Ordered, ParkedInOrder
    <3>3. CASE j = Len(parked) + 1
      <4>1. parked[i].row \in WaitingRows
        BY <2>5, <3>1 DEF WaitingRows
      <4> QED
        BY <2>4, <2>5, <3>1, <3>3, <4>1
    <3> QED
      BY <2>5, <3>2, <3>3
  <2>8. WrittenFirst'
    BY <2>1, <2>4, <2>6 DEF Ordered, WrittenFirst
  <2>9. PendingLast'
    <3>1. ASSUME NEW q \in Rows, status'[q] \in {"pending", "unpublished"}
          PROVE  q # Row(d) /\ status[q] = status'[q]
      BY <2>1, <2>4, <3>1 DEF Becomes, TypeOK
    <3> QED
      BY <2>1, <2>4, <2>6, <3>1 DEF Ordered, PendingLast
  <2> QED
    BY <2>3, <2>7, <2>8, <2>9 DEF Ordered
<1>8. ASSUME NEW d \in Drains, Apply(d) PROVE Ordered'
  <2>1. /\ Ordered /\ pc[d] = "row" /\ todo[d] # <<>> /\ Passes(d) /\ mounted
        /\ Becomes(Row(d), "done") /\ UNCHANGED <<parked, mounted, pc>> /\ index' \in {index, Row(d)}
    <3>1. Row(d) \in Rows
      BY <1>8, OneRowOn DEF Apply
    <3>2. index' \in {index, Row(d)}
      BY <1>8, <3>1, Handled DEF Apply
    <3> QED
      BY <1>8, <3>2, Zenon DEF Apply, At, history, disk, OrderInv
  <2>2. pc' = [pc EXCEPT ![d] = "row"] /\ WaitingRows' = WaitingRows /\ WaitingRows = {}
    BY <2>1 DEF TypeOK, WaitingRows, Ordered, BatchFirst
  <2>3. PublishedInOrder' /\ OneDrain' /\ TodoInOrder' /\ BatchFirst' /\ ReplayWhole'
    BY <2>1, <2>2, RowLeaves
  <2>4. /\ Row(d) \in Rows
        /\ \A q \in Rows : q # Row(d) /\ status[q] \in {"pending", "unpublished"} => Row(d) < q
    BY <2>1, LeastRow, OneRowOn
  <2>5. PendingLast'
    <3>1. ASSUME NEW q \in Rows, status'[q] \in {"pending", "unpublished"}
          PROVE  q # Row(d) /\ status[q] = status'[q]
      BY <2>1, <2>4, <3>1 DEF Becomes, TypeOK
    <3>2. index' = index \/ index' = Row(d)
      BY <2>1
    <3>3. ASSUME NEW q \in Rows, status'[q] \in {"pending", "unpublished"} PROVE index' < q
      <4>1. index < q /\ Row(d) < q
        BY <2>1, <2>4, <3>1, <3>3 DEF Ordered, PendingLast
      <4> QED
        BY <3>2, <4>1
    <3> QED
      BY <2>2, <3>3 DEF PendingLast
  <2>6. ParkedInOrder' /\ WrittenFirst'
    BY <2>1, <2>2 DEF Ordered, ParkedInOrder, WrittenFirst
  <2> QED
    BY <2>3, <2>5, <2>6 DEF Ordered
<1>9. ASSUME NEW d \in Drains, RowFails(d) PROVE Ordered'
  <2>1. /\ Ordered /\ pc[d] = "row" /\ UNCHANGED <<status, parked, mounted, index, todo>>
        /\ pc' = [pc EXCEPT ![d] = "fail"]
    BY <1>9, Zenon DEF RowFails, At, Goto, history, outbox, disk, written, OrderInv
  <2>2. pc'[d] = "fail" /\ \A e \in Drains : e # d => pc[e] = "idle" /\ pc'[e] = "idle"
    BY <2>1 DEF TypeOK, Ordered, OneDrain
  <2>3. Todo(d)' = Todo(d) /\ WaitingRows' = WaitingRows
    BY <2>1 DEF Todo, WaitingRows
  <2>4. BatchFirst'
    BY <2>1, <2>2, <2>3 DEF Ordered, BatchFirst
  <2>5. OneDrain' /\ ReplayWhole'
    BY <2>2 DEF OneDrain, ReplayWhole
  <2>6. PublishedInOrder' /\ WrittenFirst' /\ ParkedInOrder' /\ PendingLast' /\ TodoInOrder'
    BY <2>1, <2>3 DEF Ordered, PublishedInOrder, WrittenFirst, ParkedInOrder, PendingLast, TodoInOrder
  <2> QED
    BY <2>4, <2>5, <2>6 DEF Ordered
<1>10. ASSUME NEW d \in Drains, MarkFailed(d) PROVE Ordered'
  <2>1. /\ Ordered /\ pc[d] = "fail" /\ todo[d] # <<>> /\ Passes(d)
        /\ Becomes(Row(d), "failed") /\ UNCHANGED <<parked, mounted, index>>
        /\ pc' = [pc EXCEPT ![d] = "row"]
    <3>1. Becomes(Row(d), "failed") /\ UNCHANGED history
      BY <1>10, Zenon DEF MarkFailed, Disorders
    <3>2. Ordered
      BY <3>1 DEF history, OrderInv
    <3> QED
      BY <1>10, <3>1, <3>2, Zenon DEF MarkFailed, At, Goto, disk, written, FailHasRow
  <2> QED
    BY <2>1, Settles
<1>11. ASSUME NEW d \in Drains, Dies(d) PROVE Ordered'
  <2>1. /\ Ordered /\ pc[d] # "idle" /\ UNCHANGED <<status, parked, mounted, index>>
        /\ pc' = [pc EXCEPT ![d] = "idle"] /\ todo' = [todo EXCEPT ![d] = <<>>]
    BY <1>11, Zenon DEF Dies, Goto, history, outbox, disk, written, OrderInv
  <2>2. /\ todo'[d] = <<>> /\ \A e \in Drains : pc'[e] = "idle"
        /\ \A e \in Drains : e # d => todo'[e] = todo[e]
    BY <2>1 DEF TypeOK, Ordered, OneDrain
  <2>3. OneDrain' /\ ReplayWhole' /\ BatchFirst'
    BY <2>2 DEF OneDrain, ReplayWhole, BatchFirst
  <2>4. TodoInOrder'
    BY <2>1, <2>2 DEF Ordered, TodoInOrder
  <2>5. PublishedInOrder' /\ WrittenFirst' /\ ParkedInOrder' /\ PendingLast'
    BY <2>1 DEF Ordered, PublishedInOrder, WrittenFirst, ParkedInOrder, PendingLast, WaitingRows
  <2> QED
    BY <2>3, <2>4, <2>5 DEF Ordered
<1>12. ASSUME UNCHANGED <<outbox, index, pc, todo, disordered>>, mounted' => mounted PROVE Ordered'
  <2>1. Ordered
    BY <1>12 DEF OrderInv
  <2>2. WaitingRows' = WaitingRows /\ \A d \in Drains : Todo(d)' = Todo(d)
    BY <1>12 DEF WaitingRows, Todo, outbox
  <2>3. BatchFirst'
    BY <1>12, <2>1, <2>2 DEF Ordered, BatchFirst, outbox
  <2>4. ReplayWhole'
    BY <1>12, <2>1, <2>2 DEF Ordered, ReplayWhole
  <2> QED
    BY <1>12, <2>1, <2>2, <2>3, <2>4
       DEF Ordered, PublishedInOrder, OneDrain, WrittenFirst, ParkedInOrder, PendingLast, TodoInOrder, outbox
<1>13. CASE ScanFails
  BY <1>12, <1>13, Zenon DEF ScanFails, history, written
<1>14. CASE ComesBack
  BY <1>12, <1>14, Zenon DEF ComesBack, history, written
<1>15. CASE RestoreByHand
  <2>1. /\ Ordered /\ \A d \in Drains : pc[d] = "idle"
        /\ UNCHANGED <<status, parked, index, pc, todo>>
    BY <1>15, Zenon DEF RestoreByHand, outbox, written, OrderInv
  <2> QED
    BY <2>1 DEF Ordered, PublishedInOrder, OneDrain, WrittenFirst, ParkedInOrder, PendingLast,
                TodoInOrder, BatchFirst, ReplayWhole, WaitingRows
<1>16. CASE UNCHANGED vars
  BY <1>12, <1>16, Zenon DEF vars, history, written, disk
<1> QED
  BY <1>1, <1>2, <1>3, <1>4, <1>5, <1>6, <1>7, <1>8, <1>9, <1>10, <1>11, <1>13, <1>14, <1>15, <1>16
     DEF Next, Works

\* The index is written in the order things happened on the disk, but for what the drains
\* do not order.
THEOREM WrittenInOrder == Spec => InOrder
<1>1. Init => OrderInv
  <2> SUFFICES ASSUME Init PROVE Ordered
    BY DEF OrderInv
  <2>1. DOMAIN parked = {} /\ WaitingRows = {}
    BY DEF Init, WaitingRows
  <2>2. WrittenFirst /\ ParkedInOrder /\ PendingLast
    BY <2>1, OutboxAssumption DEF Init, WrittenFirst, ParkedInOrder, PendingLast
  <2> QED
    BY <2>2 DEF Init, Ordered, PublishedInOrder, OneDrain, TodoInOrder, BatchFirst, ReplayWhole
<1>2. OutboxType /\ OrderInv /\ [Next]_vars => (index' >= index \/ disordered)
  <2> SUFFICES ASSUME TypeOK, Ordered, [Next]_vars PROVE index' >= index
    BY DEF OutboxType, OrderInv
  <2>1. index >= index
    BY Numbers
  <2>2. ASSUME NEW d \in Drains, Replay(d) PROVE index' >= index
    <3>1. Row(d) \in WaitingRows
      <4>1. Row(d) \in Todo(d)
        BY <2>2, OneRowOn DEF Replay
      <4>2. Todo(d) = WaitingRows
        BY <2>2 DEF Replay, At, Ordered, ReplayWhole
      <4> QED
        BY <4>1, <4>2
    <3>2. index < Row(d) /\ Row(d) \in Rows
      BY <2>2, <3>1, WaitingAreRows DEF Ordered, WrittenFirst
    <3>3. index' \in {index, Row(d)}
      BY <2>2, <3>2, Handled DEF Replay
    <3> QED
      BY <3>2, <3>3, Numbers
  <2>3. ASSUME NEW d \in Drains, Apply(d) PROVE index' >= index
    <3>1. index < Row(d) /\ Row(d) \in Rows
      BY <2>3, LeastRow, OneRowOn DEF Apply, At
    <3> QED
      BY <2>3, <3>1, Numbers, Handled DEF Apply
  <2>4. ASSUME NEW d \in Drains,
               StartDrain(d) \/ ReplayFails(d) \/ Fetch(d) \/ Skip(d) \/ Park(d) \/ RowFails(d)
                 \/ MarkFailed(d) \/ Dies(d)
        PROVE  index' = index
    BY <2>4, Zenon DEF StartDrain, ReplayFails, Fetch, Skip, Park, RowFails, MarkFailed, Dies, written
  <2>5. ASSUME NEW r \in Rows, Publish(r) PROVE index' = index
    BY <2>5, Zenon DEF Publish, written
  <2>6. ASSUME ScanFails \/ ComesBack \/ RestoreByHand \/ UNCHANGED vars PROVE index' = index
    BY <2>6, Zenon DEF ScanFails, ComesBack, RestoreByHand, vars, written
  <2> QED
    BY <2>1, <2>2, <2>3, <2>4, <2>5, <2>6 DEF Next, Works
<1>3. Init => OutboxType
  BY InitRowInv DEF RowInv
<1>4. OutboxType /\ [Next]_vars => OutboxType'
  BY TypeStep, FailStep DEF OutboxType
<1>5. OutboxType /\ OrderInv /\ [Next]_vars => [index' >= index \/ disordered]_vars
  BY <1>2
<1> QED
  BY <1>1, <1>3, <1>4, <1>5, OrderStep, PTL DEF Spec, InOrder
=============================================================================
