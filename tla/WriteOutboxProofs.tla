------------------------- MODULE WriteOutboxProofs -------------------------
(***************************************************************************)
(* The web client is one of the clients IdempotencyProofs speaks of: its   *)
(* steps are steps of the server or leave the server alone.  What it holds *)
(* on disk and what it tells the operator, for any number of writes.       *)
(***************************************************************************)
EXTENDS WriteOutbox, IdempotencyProofs, SequenceTheorems

LEMMA ClientSteps == [Next]_vars => [ServerNext]_server
<1> SUFFICES ASSUME [Next]_vars PROVE [ServerNext]_server
  OBVIOUS
<1>1. ASSUME NEW s \in Slots, ServerStep(s) PROVE ServerNext
  BY <1>1 DEF ServerStep, LiveAnswered, DepartAnswered, DepartPutOff, Unread, ServerNext
<1>2. ASSUME NEW s \in Slots, NetworkFails(s) \/ RequestDies(s) PROVE ServerNext
  BY <1>2 DEF NetworkFails, RequestDies, ServerNext
<1>3. ASSUME NEW s \in Slots, TurnedAway(s) PROVE ServerNext
  BY <1>3 DEF ServerNext
<1>4. ASSUME NEW w \in Writes, Make(w) PROVE ServerNext
  BY <1>4 DEF Make, ServerNext
<1>5. CASE DepartNext
  BY <1>5 DEF DepartNext, ServerNext
<1>6. CASE Reload
  BY <1>6 DEF Reload, ServerNext
<1>7. CASE DepartAsked \/ DepartEnds \/ UNCHANGED vars
  BY <1>7 DEF DepartAsked, DepartEnds, vars, server
<1>8. CASE TimePasses
  BY <1>8 DEF ServerNext
<1> QED
  BY <1>1, <1>2, <1>3, <1>4, <1>5, <1>6, <1>7, <1>8 DEF Next

\* The outbox over the server is the server with one of its clients.
THEOREM ClientOfServer == Spec => ServerSpec
<1>1. Init => ServerInit
  BY DEF Init
<1> QED
  BY <1>1, ClientSteps, PTL DEF Spec, ServerSpec

\* What the outbox sends, as often as it sends it, is applied at most once but for the
\* residuals.
THEOREM OutboxAppliesOnce == Spec => []AppliedOnce
BY ClientOfServer, OnceTheorem, PTL

\* What the outbox sends is answered as the keys promise: the first answer kept stands.
THEOREM OutboxAnswerKept == Spec => FirstAnswerStands
BY ClientOfServer, FirstAnswerKept, PTL

-----------------------------------------------------------------------------
(* The queue on disk. *)

LEMMA Removed ==
  ASSUME NEW S, NEW q \in Seq(S), IsInjective(q), NEW e
  PROVE  /\ RemoveFirst(q, e) \in Seq(S) /\ IsInjective(RemoveFirst(q, e))
         /\ \A x : Contains(RemoveFirst(q, e), x) => Contains(q, x)
         /\ \A x : x # e /\ Contains(q, x) => Contains(RemoveFirst(q, e), x)
<1>1. CASE ~Contains(q, e)
  BY <1>1 DEF RemoveFirst, Contains
<1>2. CASE Contains(q, e)
  <2>1. PICK i \in 1..Len(q) : q[i] = e
    BY <1>2 DEF Contains
  <2> DEFINE r == RemoveAt(q, i)
  <2>2. RemoveFirst(q, e) = r
    <3>1. {j \in 1..Len(q) : q[j] = e} = {i}
      BY <2>1 DEF IsInjective
    <3>2. SelectInSeq(q, LAMBDA v : v = e) = i
      BY <3>1 DEF SelectInSeq, Min
    <3> QED
      BY <2>1, <3>2 DEF RemoveFirst
  <2>3. /\ r \in Seq(S) /\ Len(r) = Len(q) - 1
        /\ \A j \in 1..Len(r) : r[j] = IF j < i THEN q[j] ELSE q[j + 1]
    <3> DEFINE a == SubSeq(q, 1, i - 1)
               b == SubSeq(q, i + 1, Len(q))
    <3>1. /\ a \in Seq(S) /\ Len(a) = i - 1 /\ \A j \in 1..Len(a) : a[j] = q[j]
          /\ b \in Seq(S) /\ Len(b) = Len(q) - i /\ \A j \in 1..Len(b) : b[j] = q[i + j]
      BY SubSeqProperties
    <3>2. /\ a \o b \in Seq(S) /\ Len(a \o b) = Len(a) + Len(b)
          /\ \A j \in 1..Len(a) + Len(b) : (a \o b)[j] = IF j <= Len(a) THEN a[j] ELSE b[j - Len(a)]
      BY <3>1, ConcatProperties
    <3> HIDE DEF a, b
    <3>3. a \o b \in Seq(S) /\ Len(a \o b) = Len(q) - 1
      BY <3>1, <3>2
    <3>4. ASSUME NEW j \in 1..Len(a \o b) PROVE (a \o b)[j] = IF j < i THEN q[j] ELSE q[j + 1]
      <4>1. CASE j < i
        BY <3>1, <3>2, <4>1
      <4>2. CASE j >= i
        <5>1. PICK k \in 1..Len(b) : k = j - (i - 1)
          BY <3>1, <3>2, <4>2
        <5>2. (a \o b)[j] = b[k] /\ i + k = j + 1
          BY <3>1, <3>2, <4>2, <5>1
        <5> QED
          BY <3>1, <4>2, <5>2
      <4> QED
        BY <4>1, <4>2
    <3> QED
      BY <3>3, <3>4 DEF RemoveAt, a, b
  <2>4. IsInjective(r)
    <3>1. ASSUME NEW j \in 1..Len(r), NEW k \in 1..Len(r), r[j] = r[k] PROVE j = k
      BY <2>3, <3>1, SMTT(30) DEF IsInjective
    <3> QED
      BY <2>3, <3>1 DEF IsInjective
  <2>5. ASSUME NEW x, Contains(r, x) PROVE Contains(q, x)
    BY <2>3, <2>5 DEF Contains
  <2>6. ASSUME NEW x, x # e, Contains(q, x) PROVE Contains(r, x)
    <3>1. PICK j \in 1..Len(q) : q[j] = x
      BY <2>6 DEF Contains
    <3>2. CASE j < i
      BY <2>3, <3>1, <3>2 DEF Contains
    <3>3. CASE j > i
      <4>1. j - 1 \in 1..Len(r) /\ r[j - 1] = x
        BY <2>3, <3>1, <3>3
      <4> QED
        BY <4>1 DEF Contains
    <3> QED
      BY <2>1, <2>6, <3>1, <3>2, <3>3
  <2> QED
    BY <2>2, <2>3, <2>4, <2>5, <2>6
<1> QED
  BY <1>1, <1>2

LEMMA Appended ==
  ASSUME NEW S, NEW q \in Seq(S), IsInjective(q), NEW e \in S
  PROVE  /\ Append(q, e) \in Seq(S)
         /\ ~Contains(q, e) => IsInjective(Append(q, e))
         /\ \A x : Contains(Append(q, e), x) <=> Contains(q, x) \/ x = e
<1> DEFINE r == Append(q, e)
<1>1. r \in Seq(S) /\ Len(r) = Len(q) + 1 /\ r[Len(q) + 1] = e /\ \A i \in 1..Len(q) : r[i] = q[i]
  OBVIOUS
<1>2. ~Contains(q, e) => IsInjective(r)
  BY <1>1 DEF IsInjective, Contains
<1>3. ASSUME NEW x PROVE Contains(r, x) <=> Contains(q, x) \/ x = e
  BY <1>1 DEF Contains
<1> QED
  BY <1>1, <1>2, <1>3

LEMMA Walked ==
  ASSUME NEW S, NEW q \in Seq(S), q # <<>>
  PROVE  /\ Tail(q) \in Seq(S) /\ Head(q) \in S /\ Contains(q, Head(q))
         /\ \A x : Contains(Tail(q), x) => Contains(q, x)
<1>1. Tail(q) \in Seq(S) /\ Len(q) > 0 /\ Len(Tail(q)) = Len(q) - 1 /\ Head(q) = q[1]
      /\ \A i \in 1..Len(Tail(q)) : Tail(q)[i] = q[i + 1]
  OBVIOUS
<1>2. Head(q) \in S /\ Contains(q, Head(q))
  BY <1>1 DEF Contains
<1>3. ASSUME NEW x, Contains(Tail(q), x) PROVE Contains(q, x)
  BY <1>1, <1>3 DEF Contains
<1> QED
  BY <1>1, <1>2, <1>3

LEMMA Nothing == \A x : ~Contains(<<>>, x)
BY DEF Contains

-----------------------------------------------------------------------------
(* The client's inductive invariant. *)

\* What is queued or walked was made and is not being sent for the first time.
Queued ==
  \A w \in Writes : Contains(held, w) \/ Contains(walk, w) => told[w] \notin {"unmade", "sending"}

\* A write is awaited in one request, and of the departures one at a time.
OneFlight ==
  /\ \A s \in awaited : told[slot[s].write] # "unmade"
  /\ \A s, t \in awaited : slot[s].write = slot[t].write => s = t
  /\ \A s \in awaited : ~Live(s) => departing /\ walk # <<>>
  /\ \A s, t \in awaited : ~Live(s) /\ ~Live(t) => s = t

\* What is said of a write is the server's word.
Said ==
  \A w \in Writes :
    /\ told[w] = "applied" => applied[w] > 0
    /\ told[w] = "refused" /\ w \notin lapsed \union disowned => record[w].answer = "final"

OutboxInv == IInv /\ Truthful /\ TypeOK /\ Queued /\ OneFlight /\ Said /\ HeldIsKept

LEMMA InitOutbox == Init => OutboxInv
<1> SUFFICES ASSUME Init PROVE OutboxInv
  OBVIOUS
<1>1. IInv /\ Truthful
  BY InitIInv, InitTruthful DEF Init
<1>2. held = <<>> /\ walk = <<>> /\ awaited = {} /\ told = [w \in Writes |-> "unmade"]
      /\ departing = FALSE /\ wanted = FALSE
  BY DEF Init
<1>3. TypeOK
  <2>1. <<>> \in Seq(Writes) /\ IsInjective(<<>>)
    BY DEF IsInjective
  <2>2. departing \in BOOLEAN /\ wanted \in BOOLEAN
    BY <1>2
  <2>3. told \in [Writes -> Tellings]
    BY <1>2 DEF Tellings
  <2> QED
    BY <1>1, <1>2, <2>1, <2>2, <2>3 DEF IInv, TypeOK
<1>4. Queued /\ OneFlight /\ Said /\ HeldIsKept
  BY <1>2, Nothing DEF Queued, OneFlight, Said, HeldIsKept
<1> QED
  BY <1>1, <1>3, <1>4 DEF OutboxInv

\* What the operator was told stays true.
LEMMA SaidStays ==
  ASSUME OutboxInv, ServerTypeOK', [ServerNext]_server, NEW w \in Writes, told'[w] = told[w]
  PROVE  /\ told'[w] = "applied" => applied'[w] > 0
         /\ told'[w] = "refused" /\ w \notin lapsed' \union disowned' => record'[w].answer = "final"
BY Residue, RefusalIsLast DEF OutboxInv, Said

\* The requests the document awaits go on being what they are.
Undisturbed(awaiting) ==
  \A s \in awaiting : slot'[s].write = slot[s].write /\ slot'[s].at # "free"

\* A step of the server, whose answer does not reach the document.
LEMMA ServerOnly ==
  ASSUME OutboxInv, ServerTypeOK', [ServerNext]_server, UNCHANGED client, Undisturbed(awaited)
  PROVE  (TypeOK /\ Queued /\ OneFlight /\ Said /\ HeldIsKept)'
<1>1. TypeOK'
  BY DEF OutboxInv, TypeOK, client, Undisturbed
<1>2. Queued' /\ HeldIsKept'
  BY DEF OutboxInv, Queued, HeldIsKept, client
<1>3. OneFlight'
  BY DEF OutboxInv, OneFlight, client, Undisturbed, Live, TypeOK
<1>4. Said'
  BY SaidStays DEF Said, client
<1> QED
  BY <1>1, <1>2, <1>3, <1>4

-----------------------------------------------------------------------------
(* Each step of the client preserves it. *)

LEMMA MakeStep ==
  ASSUME OutboxInv, ServerTypeOK', [ServerNext]_server, NEW w \in Writes, Make(w)
  PROVE  (TypeOK /\ Queued /\ OneFlight /\ Said /\ HeldIsKept)'
<1>0. TypeOK /\ ServerTypeOK /\ Queued /\ OneFlight /\ Said /\ HeldIsKept
  BY DEF OutboxInv, TypeOK
<1>1. PICK s \in Slots : Send(s, w) /\ awaited' = awaited \union {s}
  BY DEF Make
<1>2. /\ told[w] = "unmade" /\ told' = [told EXCEPT ![w] = "sending"]
      /\ UNCHANGED <<held, departing, walk, wanted>>
  BY DEF Make
<1>3. /\ s \notin awaited /\ slot'[s].write = w /\ slot'[s].at # "free"
      /\ \A t \in Slots : t # s => slot'[t] = slot[t]
  BY <1>0, <1>1 DEF Send, Free, TypeOK, ServerTypeOK
<1>4. TypeOK'
  BY <1>0, <1>1, <1>2, <1>3 DEF TypeOK, Tellings
<1>5. Queued' /\ HeldIsKept'
  BY <1>0, <1>2 DEF Queued, HeldIsKept, TypeOK
<1>6. \A t \in awaited : slot'[t].write = slot[t].write /\ slot[t].write # w /\ slot[t].write \in Writes
  BY <1>0, <1>2, <1>3 DEF OneFlight, TypeOK, ServerTypeOK
<1>7. Live(s)' /\ \A t \in awaited : Live(t)' <=> Live(t)
  BY <1>0, <1>2, <1>3, <1>6 DEF Live, TypeOK
<1>8. OneFlight'
  BY <1>0, <1>1, <1>2, <1>3, <1>6, <1>7 DEF OneFlight, TypeOK
<1>9. Said'
  BY <1>0, <1>2, SaidStays DEF Said, TypeOK
<1> QED
  BY <1>4, <1>5, <1>8, <1>9

LEMMA DepartNextStep ==
  ASSUME OutboxInv, ServerTypeOK', [ServerNext]_server, DepartNext
  PROVE  (TypeOK /\ Queued /\ OneFlight /\ Said /\ HeldIsKept)'
<1>0. TypeOK /\ ServerTypeOK /\ Queued /\ OneFlight /\ Said /\ HeldIsKept
  BY DEF OutboxInv, TypeOK
<1>1. PICK s \in Slots, w \in Writes : w = Head(walk) /\ Send(s, w) /\ awaited' = awaited \union {s}
  BY DEF DepartNext
<1>2. departing /\ walk # <<>> /\ ~InFlight /\ UNCHANGED <<told, held, departing, walk, wanted>>
  BY DEF DepartNext
<1>3. /\ s \notin awaited /\ slot'[s].write = w /\ slot'[s].at # "free"
      /\ \A t \in Slots : t # s => slot'[t] = slot[t]
  BY <1>0, <1>1 DEF Send, Free, TypeOK, ServerTypeOK
<1>4. TypeOK'
  BY <1>0, <1>1, <1>2, <1>3 DEF TypeOK
<1>5. Queued' /\ HeldIsKept'
  BY <1>0, <1>2 DEF Queued, HeldIsKept, TypeOK
<1>6. told[w] \notin {"unmade", "sending"}
  BY <1>0, <1>1, <1>2, Walked DEF Queued, TypeOK
<1>7. \A t \in awaited : slot'[t].write = slot[t].write /\ Live(t) /\ slot[t].write # w
  BY <1>0, <1>2, <1>3, <1>6 DEF InFlight, Live, TypeOK
<1>8. ~Live(s)' /\ \A t \in awaited : Live(t)'
  BY <1>2, <1>3, <1>6, <1>7 DEF Live
<1>9. OneFlight'
  BY <1>0, <1>1, <1>2, <1>3, <1>6, <1>7, <1>8 DEF OneFlight
<1>10. Said'
  BY <1>0, <1>2, SaidStays DEF Said
<1> QED
  BY <1>4, <1>5, <1>9, <1>10

\* A departure is asked for, or the run that ends starts over.
LEMMA DepartRunStep ==
  ASSUME OutboxInv, ServerTypeOK', [ServerNext]_server, DepartAsked \/ DepartEnds
  PROVE  (TypeOK /\ Queued /\ OneFlight /\ Said /\ HeldIsKept)'
<1>0. TypeOK /\ ServerTypeOK /\ Queued /\ OneFlight /\ Said /\ HeldIsKept
  BY DEF OutboxInv, TypeOK
<1>1. UNCHANGED <<slot, told, held, awaited>>
  BY DEF DepartAsked, DepartEnds, server
<1>2. \/ walk' = walk /\ departing' = departing
      \/ (walk = <<>> \/ ~departing) /\ walk' \in {held, <<>>, walk}
  BY DEF DepartAsked, DepartEnds
<1>3. departing' \in BOOLEAN /\ wanted' \in BOOLEAN
  <2>1. departing \in BOOLEAN /\ wanted \in BOOLEAN
    BY <1>0 DEF TypeOK
  <2>2. departing' \in {departing, TRUE, FALSE} /\ wanted' \in {TRUE, FALSE}
    BY Zenon DEF DepartAsked, DepartEnds
  <2> QED
    BY <2>1, <2>2
<1>4. TypeOK'
  <2>1. walk' \in Seq(Writes)
    <3>1. held \in Seq(Writes) /\ walk \in Seq(Writes) /\ <<>> \in Seq(Writes)
      BY <1>0, EmptySeq DEF TypeOK
    <3> QED
      BY <1>2, <3>1
  <2>2. /\ told' \in [Writes -> Tellings] /\ held' \in Seq(Writes) /\ IsInjective(held')
        /\ awaited' \subseteq {s \in Slots : slot'[s].at # "free"}
    BY <1>0, <1>1 DEF TypeOK
  <2> QED
    BY <1>3, <2>1, <2>2, Zenon DEF TypeOK
<1>5. Queued'
  BY <1>0, <1>1, <1>2, Nothing DEF Queued
<1>6. OneFlight'
  <2>1. \A t \in awaited : Live(t)' <=> Live(t)
    BY <1>1 DEF Live
  <2>2. \A t \in awaited' : ~Live(t)' => departing' /\ walk' # <<>>
    BY <1>0, <1>1, <1>2, <2>1 DEF OneFlight
  <2> QED
    BY <1>0, <1>1, <2>1, <2>2 DEF OneFlight
<1>7. HeldIsKept'
  BY <1>0, <1>1 DEF HeldIsKept
<1>8. Said'
  BY <1>0, <1>1, SaidStays DEF Said
<1> QED
  BY <1>4, <1>5, <1>6, <1>7, <1>8

\* The document hears of a request, or gives it up: the slot of that one is emptied or goes
\* on alone, and the others stay.
LEMMA OthersAwaited ==
  ASSUME TypeOK, NEW s \in Slots, Deliver(s) \/ Die(s) \/ UNCHANGED slot
  PROVE  \A t \in awaited \ {s} : slot'[t] = slot[t]
BY DEF TypeOK, ServerTypeOK, Deliver, Die

LEMMA LiveStep ==
  ASSUME OutboxInv, ServerTypeOK', [ServerNext]_server, NEW s \in Slots,
         \/ LiveAnswered(s)
         \/ LiveUnanswered(s) /\ (Die(s) \/ UNCHANGED slot)
  PROVE  (TypeOK /\ Queued /\ OneFlight /\ Said /\ HeldIsKept)'
<1>0. TypeOK /\ ServerTypeOK /\ Queued /\ OneFlight /\ Said /\ HeldIsKept /\ Truthful
  BY DEF OutboxInv, TypeOK
<1> DEFINE w == slot[s].write
<1>1. s \in awaited /\ Live(s) /\ awaited' = awaited \ {s} /\ UNCHANGED <<departing, walk, wanted>>
  BY DEF LiveAnswered, LiveUnanswered
<1>2. w \in Writes /\ told[w] = "sending"
  BY <1>0, <1>1 DEF TypeOK, ServerTypeOK, Live
<1>3. \A t \in awaited \ {s} : slot'[t] = slot[t]
  BY <1>0, OthersAwaited DEF LiveAnswered
<1>4. /\ told' = [told EXCEPT ![w] = told'[w]] /\ told'[w] \in Tellings \ {"unmade", "sending"}
      /\ \/ held' = held /\ told'[w] # "held"
         \/ held' = Append(held, w) /\ told'[w] = "held"
  <2>1. CASE LiveAnswered(s)
    <3>1. PICK x \in {"applied", "refused", "failed"} : told' = [told EXCEPT ![w] = x]
      BY <2>1 DEF LiveAnswered
    <3> QED
      BY <1>0, <1>2, <2>1, <3>1 DEF LiveAnswered, TypeOK, Tellings
  <2>2. CASE LiveUnanswered(s)
    BY <1>0, <1>2, <2>2 DEF LiveUnanswered, TypeOK, Tellings
  <2> QED
    BY <2>1, <2>2
<1>5. ~Contains(held, w) /\ ~Contains(walk, w)
  BY <1>0, <1>2 DEF Queued
<1>6. /\ held' \in Seq(Writes) /\ IsInjective(held')
      /\ \A v : Contains(held', v) <=> Contains(held, v) \/ (v = w /\ told'[w] = "held")
  <2>1. held \in Seq(Writes) /\ IsInjective(held)
    BY <1>0 DEF TypeOK
  <2>2. CASE held' = held /\ told'[w] # "held"
    BY <2>1, <2>2
  <2>3. CASE held' = Append(held, w) /\ told'[w] = "held"
    BY <1>2, <1>5, <2>1, <2>3, Appended
  <2> QED
    BY <1>4, <2>2, <2>3
<1>7. told' \in [Writes -> Tellings] /\ \A v \in Writes : v # w => told'[v] = told[v]
  BY <1>0, <1>4 DEF TypeOK
<1>8. TypeOK'
  <2>1. awaited' \subseteq {t \in Slots : slot'[t].at # "free"}
    BY <1>0, <1>1, <1>3 DEF TypeOK
  <2> QED
    BY <1>0, <1>1, <1>6, <1>7, <2>1 DEF TypeOK
<1>9. Queued' /\ HeldIsKept'
  <2>1. ASSUME NEW v \in Writes, Contains(held, v)' \/ Contains(walk, v)'
        PROVE  told'[v] \notin {"unmade", "sending"}
    BY <1>0, <1>1, <1>4, <1>6, <1>7, <2>1 DEF Queued
  <2>2. ASSUME NEW v \in Writes, told'[v] = "held" PROVE Contains(held', v)
    BY <1>0, <1>6, <1>7, <2>2 DEF HeldIsKept
  <2> QED
    BY <2>1, <2>2 DEF Queued, HeldIsKept
<1>10. \A t \in awaited' : /\ slot'[t].write = slot[t].write /\ slot[t].write # w /\ slot[t].write \in Writes
                           /\ Live(t)' <=> Live(t)
  <2>1. \A t \in awaited' : slot'[t].write = slot[t].write /\ slot[t].write # w /\ slot[t].write \in Writes
    BY <1>0, <1>1, <1>3 DEF OneFlight, TypeOK, ServerTypeOK
  <2> QED
    BY <1>7, <2>1 DEF Live
<1>11. OneFlight'
  BY <1>0, <1>1, <1>7, <1>10 DEF OneFlight
<1>12. Said'
  <2>1. /\ told'[w] = "applied" => applied'[w] > 0
        /\ told'[w] = "refused" /\ w \notin lapsed' \union disowned' => record'[w].answer = "final"
    BY <1>0, <1>2 DEF LiveAnswered, LiveUnanswered, Deliver, Truthful, Honest, TypeOK, Tellings
  <2> QED
    BY <1>7, <2>1, SaidStays DEF Said
<1> QED
  BY <1>8, <1>9, <1>11, <1>12

LEMMA DepartAnsweredStep ==
  ASSUME OutboxInv, ServerTypeOK', [ServerNext]_server, NEW s \in Slots, DepartAnswered(s)
  PROVE  (TypeOK /\ Queued /\ OneFlight /\ Said /\ HeldIsKept)'
<1>0. TypeOK /\ ServerTypeOK /\ Queued /\ OneFlight /\ Said /\ HeldIsKept /\ Truthful
  BY DEF OutboxInv, TypeOK
<1> DEFINE w == slot[s].write
<1>1. s \in awaited /\ ~Live(s) /\ awaited' = awaited \ {s} /\ UNCHANGED <<departing, wanted>>
      /\ walk' = Tail(walk) /\ held' \in {RemoveFirst(held, w), held}
  BY DEF DepartAnswered
<1>2. w \in Writes /\ told[w] # "unmade" /\ departing /\ walk # <<>>
  BY <1>0, <1>1 DEF TypeOK, ServerTypeOK, OneFlight
<1>3. \A t \in awaited \ {s} : slot'[t] = slot[t]
  BY <1>0, OthersAwaited DEF DepartAnswered
<1>4. \/ told' = [told EXCEPT ![w] = "applied"] /\ slot[s].status = "ok"
      \/ told' = [told EXCEPT ![w] = "refused"] /\ slot[s].status = "final"
  BY DEF DepartAnswered, Final
<1>5. /\ told' \in [Writes -> Tellings] /\ told'[w] \in {"applied", "refused"}
      /\ \A v \in Writes : v # w => told'[v] = told[v]
  BY <1>0, <1>2, <1>4 DEF TypeOK, Tellings
<1>6. /\ held' \in Seq(Writes) /\ IsInjective(held')
      /\ \A v : Contains(held', v) => Contains(held, v)
      /\ \A v : v # w /\ Contains(held, v) => Contains(held', v)
  BY <1>0, <1>1, Removed DEF TypeOK
<1>7. walk' \in Seq(Writes) /\ \A v : Contains(walk', v) => Contains(walk, v)
  BY <1>0, <1>1, <1>2, Walked DEF TypeOK
<1>8. TypeOK'
  <2>1. awaited' \subseteq {t \in Slots : slot'[t].at # "free"}
    BY <1>0, <1>1, <1>3 DEF TypeOK
  <2> QED
    BY <1>0, <1>1, <1>5, <1>6, <1>7, <2>1 DEF TypeOK
<1>9. Queued' /\ HeldIsKept'
  <2>1. ASSUME NEW v \in Writes, Contains(held', v) \/ Contains(walk', v)
        PROVE  told'[v] \notin {"unmade", "sending"}
    BY <1>0, <1>5, <1>6, <1>7, <2>1 DEF Queued
  <2>2. ASSUME NEW v \in Writes, told'[v] = "held" PROVE Contains(held', v)
    BY <1>0, <1>5, <1>6, <2>2 DEF HeldIsKept
  <2> QED
    BY <2>1, <2>2 DEF Queued, HeldIsKept
\* The requests still awaited were sent by the operator's own gestures.
<1>10. \A t \in awaited' : slot'[t].write = slot[t].write /\ slot[t].write \in Writes /\ Live(t)
  BY <1>0, <1>1, <1>3 DEF OneFlight, TypeOK, ServerTypeOK
<1>11. \A t \in awaited' : slot[t].write # w /\ Live(t)'
  BY <1>1, <1>5, <1>10 DEF Live
<1>12. OneFlight'
  BY <1>0, <1>1, <1>5, <1>10, <1>11 DEF OneFlight
<1>13. Said'
  <2>1. slot[s].at = "leaving" /\ Honest(s) /\ UNCHANGED <<record, applied, lapsed, disowned>>
    BY <1>0 DEF DepartAnswered, Deliver, Truthful
  <2>2. /\ told'[w] = "applied" => applied'[w] > 0
        /\ told'[w] = "refused" /\ w \notin lapsed' \union disowned' => record'[w].answer = "final"
    BY <1>0, <1>2, <1>4, <2>1 DEF Honest, TypeOK
  <2> QED
    BY <1>5, <2>2, SaidStays DEF Said
<1> QED
  BY <1>8, <1>9, <1>12, <1>13

\* The departure stops, and with it the walk; the document goes, and with it what it awaited.
LEMMA StopStep ==
  ASSUME OutboxInv, ServerTypeOK', [ServerNext]_server, NEW s \in Slots,
         s \in awaited, ~Live(s), Stop(s), Deliver(s) \/ Die(s) \/ UNCHANGED slot
  PROVE  (TypeOK /\ Queued /\ OneFlight /\ Said /\ HeldIsKept)'
<1>0. TypeOK /\ ServerTypeOK /\ Queued /\ OneFlight /\ Said /\ HeldIsKept
  BY DEF OutboxInv, TypeOK
<1>1. /\ awaited' = awaited \ {s} /\ walk' = <<>> /\ told' = told /\ held' = held
      /\ departing' \in BOOLEAN /\ wanted' \in BOOLEAN
  BY Zenon DEF Stop
<1>2. \A t \in awaited' : slot'[t] = slot[t] /\ Live(t)
  BY <1>0, <1>1, OthersAwaited DEF OneFlight
<1>3. TypeOK'
  <2>1. awaited' \subseteq {t \in Slots : slot'[t].at # "free"}
    BY <1>0, <1>1, <1>2 DEF TypeOK
  <2>2. /\ told' \in [Writes -> Tellings] /\ held' \in Seq(Writes) /\ IsInjective(held')
        /\ walk' \in Seq(Writes)
    BY <1>0, <1>1, EmptySeq DEF TypeOK
  <2> QED
    BY <1>1, <2>1, <2>2, Zenon DEF TypeOK
<1>4. Queued' /\ HeldIsKept'
  BY <1>0, <1>1, Nothing DEF Queued, HeldIsKept
<1>5. \A t \in awaited' : slot'[t].write = slot[t].write /\ Live(t)'
  BY <1>1, <1>2 DEF Live
<1>6. OneFlight'
  BY <1>0, <1>1, <1>2, <1>5 DEF OneFlight
<1>7. Said'
  BY <1>0, <1>1, SaidStays DEF Said
<1> QED
  BY <1>3, <1>4, <1>6, <1>7

LEMMA ReloadStep ==
  ASSUME OutboxInv, ServerTypeOK', [ServerNext]_server, Reload
  PROVE  (TypeOK /\ Queued /\ OneFlight /\ Said /\ HeldIsKept)'
<1>0. TypeOK /\ ServerTypeOK /\ Queued /\ OneFlight /\ Said /\ HeldIsKept
  BY DEF OutboxInv, TypeOK
<1>1. /\ awaited' = {} /\ walk' = <<>> /\ held' = held
      /\ departing' \in BOOLEAN /\ wanted' \in BOOLEAN
  BY Zenon DEF Reload
<1>2. /\ told' \in [Writes -> Tellings]
      /\ \A w \in Writes : told'[w] = told[w] \/ (told[w] = "sending" /\ told'[w] = "failed")
  BY <1>0 DEF Reload, TypeOK, Tellings
<1>3. TypeOK'
  <2>1. held' \in Seq(Writes) /\ IsInjective(held') /\ walk' \in Seq(Writes)
        /\ awaited' \subseteq {t \in Slots : slot'[t].at # "free"}
    BY <1>0, <1>1, EmptySeq DEF TypeOK
  <2> QED
    BY <1>1, <1>2, <2>1, Zenon DEF TypeOK
<1>4. Queued' /\ HeldIsKept'
  BY <1>0, <1>1, <1>2, Nothing DEF Queued, HeldIsKept
<1>5. OneFlight'
  BY <1>1 DEF OneFlight
<1>6. Said'
  BY <1>0, <1>2, SaidStays DEF Said
<1> QED
  BY <1>3, <1>4, <1>5, <1>6

-----------------------------------------------------------------------------
(* Every step, and what follows. *)

\* A handler keeps the write of every request, and empties no slot.
LEMMA HandleKeeps ==
  ASSUME ServerTypeOK, NEW s \in Slots, Handle(s) \/ TurnedAway(s)
  PROVE  \A t \in Slots : slot[t].at # "free" => slot'[t].write = slot[t].write /\ slot'[t].at # "free"
<1>1. CASE Replay(s)
  <2>1. /\ slot'[s].write = slot[s].write /\ slot'[s].at = "leaving"
        /\ \A t \in Slots : t # s => slot'[t] = Dispossessed(Expired)[t]
    BY <1>1 DEF Replay, Dispossessed
  <2> QED
    BY <2>1, Slotted
<1>2. CASE Claim(s)
  <2>1. /\ slot'[s].write = slot[s].write /\ slot'[s].at = "claimed"
        /\ \A t \in Slots : t # s => slot'[t] = Dispossessed(Expired \union {slot[s].write})[t]
    BY <1>2 DEF Claim, Dispossessed
  <2> QED
    BY <2>1, Slotted
<1>3. CASE RefuseRunning(s) \/ Settle(s) \/ TurnedAway(s)
  BY <1>3 DEF ServerTypeOK, RefuseRunning, Settle, TurnedAway, Leave
<1>4. ASSUME NEW at \in {"committed", "answered"}, NEW status,
             slot' = [slot EXCEPT ![s].at = at] \/ slot' = [slot EXCEPT ![s].at = at, ![s].status = status]
      PROVE  \A t \in Slots : slot[t].at # "free" => slot'[t].write = slot[t].write /\ slot'[t].at # "free"
  <2>1. \A t \in Slots : slot[t] = [write |-> slot[t].write, at |-> slot[t].at,
                                   status |-> slot[t].status, holds |-> slot[t].holds]
    BY DEF ServerTypeOK, Request
  <2>2. slot'[s].write = slot[s].write /\ slot'[s].at = at
    BY <1>4, <2>1 DEF ServerTypeOK
  <2>3. \A t \in Slots : t # s => slot'[t] = slot[t]
    BY <1>4 DEF ServerTypeOK
  <2> QED
    BY <2>2, <2>3
<1>5. CASE Commit(s)
  BY <1>4, <1>5 DEF Commit
<1>6. CASE AnswerCommitted(s)
  BY <1>4, <1>6 DEF AnswerCommitted, Answering
<1>7. CASE Refuse(s)
  BY <1>4, <1>7 DEF Refuse, Answering
<1> QED
  BY <1>1, <1>2, <1>3, <1>5, <1>6, <1>7 DEF Handle

LEMMA OutboxStep == OutboxInv /\ [Next]_vars => OutboxInv'
<1> SUFFICES ASSUME OutboxInv, [Next]_vars PROVE OutboxInv'
  OBVIOUS
<1>0. TypeOK /\ ServerTypeOK /\ IInv /\ Truthful
  BY DEF OutboxInv, TypeOK
<1>1. [ServerNext]_server
  BY ClientSteps
<1>2. IInv' /\ ServerTypeOK'
  BY <1>0, <1>1, IInvStep DEF IInv
<1>3. Truthful'
  BY <1>0, <1>1, <1>2, TruthfulStep
<1> DEFINE Client == TypeOK /\ Queued /\ OneFlight /\ Said /\ HeldIsKept
<1> HIDE DEF Client
<1>4. ASSUME UNCHANGED client, Undisturbed(awaited) PROVE Client'
  BY <1>1, <1>2, <1>4, ServerOnly DEF Client
<1>5. ASSUME NEW s \in Slots, Handle(s) \/ TurnedAway(s), UNCHANGED client PROVE Client'
  BY <1>0, <1>4, <1>5, HandleKeeps DEF Undisturbed, TypeOK
<1>6. ASSUME NEW s \in Slots, s \notin awaited, Deliver(s) \/ Die(s), UNCHANGED client PROVE Client'
  <2>1. Undisturbed(awaited)
    BY <1>0, <1>6, OthersAwaited DEF Undisturbed, TypeOK
  <2> QED
    BY <1>4, <1>6, <2>1
<1>7. ASSUME NEW s \in Slots, Unanswered(s), Die(s) \/ UNCHANGED slot PROVE Client'
  BY <1>1, <1>2, <1>7, LiveStep, StopStep DEF Client, Unanswered, DepartUnanswered
<1>8. ASSUME NEW s \in Slots, ServerStep(s) PROVE Client'
  <2>1. CASE LiveAnswered(s)
    BY <1>1, <1>2, <2>1, LiveStep DEF Client
  <2>2. CASE DepartAnswered(s)
    BY <1>1, <1>2, <2>2, DepartAnsweredStep DEF Client
  <2>3. CASE DepartPutOff(s)
    BY <1>1, <1>2, <2>3, StopStep DEF Client, DepartPutOff
  <2>4. CASE Unread(s)
    BY <1>6, <2>4 DEF Unread
  <2> QED
    BY <1>5, <1>8, <2>1, <2>2, <2>3, <2>4 DEF ServerStep
<1>9. ASSUME NEW s \in Slots, NetworkFails(s) \/ RequestDies(s) PROVE Client'
  BY <1>6, <1>7, <1>9 DEF NetworkFails, RequestDies
<1>10. ASSUME NEW w \in Writes, Make(w) PROVE Client'
  BY <1>1, <1>2, <1>10, MakeStep DEF Client
<1>11. ASSUME DepartNext PROVE Client'
  BY <1>1, <1>2, <1>11, DepartNextStep DEF Client
<1>12. ASSUME DepartAsked \/ DepartEnds PROVE Client'
  BY <1>1, <1>2, <1>12, DepartRunStep DEF Client
<1>13. ASSUME Reload PROVE Client'
  BY <1>1, <1>2, <1>13, ReloadStep DEF Client
<1>14. ASSUME UNCHANGED client /\ UNCHANGED slot PROVE Client'
  BY <1>0, <1>4, <1>14 DEF Undisturbed, TypeOK
<1>15. Client'
  BY <1>5, <1>8, <1>9, <1>10, <1>11, <1>12, <1>13, <1>14 DEF Next, TimePasses, vars, client
<1> QED
  BY <1>2, <1>3, <1>15 DEF OutboxInv, Client

THEOREM OutboxInductive == Spec => []OutboxInv
BY InitOutbox, OutboxStep, PTL DEF Spec

\* The queue on disk is a queue of writes, each once, and what is awaited is in flight.
THEOREM OutboxTypeCorrect == Spec => []TypeOK
<1>1. OutboxInv => TypeOK
  BY DEF OutboxInv
<1> QED
  BY <1>1, OutboxInductive, PTL

\* A write the operator was told is held is on disk until its request has answered.
THEOREM OutboxKeepsHeld == Spec => []HeldIsKept
<1>1. OutboxInv => HeldIsKept
  BY DEF OutboxInv
<1> QED
  BY <1>1, OutboxInductive, PTL

\* The operator is told the truth: a write said applied was, and one said refused was not,
\* but for the server's residuals.
THEOREM OutboxTellsTruly == Spec => []ToldTruly
<1>1. OutboxInv => ToldTruly
  <2> SUFFICES ASSUME OutboxInv, NEW w \in Writes
               PROVE  /\ told[w] = "applied" => applied[w] > 0
                      /\ told[w] = "refused" /\ applied[w] > 0 => w \in lapsed \union disowned
    BY DEF ToldTruly
  <2>1. told[w] = "refused" /\ w \notin lapsed \union disowned => applied[w] = 0
    BY DEF OutboxInv, Said, Truthful
  <2> QED
    BY <2>1 DEF OutboxInv, Said
<1> QED
  BY <1>1, OutboxInductive, PTL
=============================================================================
