--------------------------- MODULE WatcherProofs ---------------------------
(***************************************************************************)
(* Theorems about the watcher's decisions, for any torrents, any debounce, *)
(* any safety net (also one shorter than the debounce) and any number of   *)
(* restarts, refused asks, polls without an answer and lost leases.        *)
(*                                                                         *)
(* The argument: an open window and the times since the last download seen *)
(* and the last automatic ask add up to the first delay at least, in       *)
(* memory and in the memory an ask in flight would give back, so a window  *)
(* that is over had the whole delay behind it.                             *)
(***************************************************************************)
EXTENDS Watcher, TLAPS

\* A torrent whose cross-seed may still be tried has not failed too often.
GivenUp == \A t \in Torrents \ dispatched : failures[t] < CrossSeedAttempts

\* What an ask in flight would restore counts as memory too.
PacedIsObtained ==
  /\ ask = NoAsk => PacesObtainedRuns
  /\ ask # NoAsk => /\ ask.origin # "none" => obtained
                    /\ ask.reason \in {"manual", Poked} => origin = "none"

\* What is left of a window, with the time since something it must keep away from.
Apart(left, last) == left # None => left + last >= FirstDelay

\* A window that no fire armed is a whole debounce.
Fresh(left, from) == from = "none" /\ left # None => left + lastGate >= Debounce

GraceKept ==
  /\ Apart(window, lastGate) /\ Apart(window, lastFire) /\ Fresh(window, origin)
  /\ ask # NoAsk => /\ Apart(ask.window, lastGate) /\ Apart(ask.window, lastFire)
                    /\ Fresh(ask.window, ask.origin)
                    /\ IF ask.reason \in {"manual", Poked}
                         THEN window = None
                         ELSE window >= FirstDelay /\ origin # "none"

\* A memory that missed no success knows the last one, or there was none.
Knows(a) == a = age \/ age = Never

Informed ==
  ~uninformed => /\ Knows(since)
                 /\ ask # NoAsk => Knows(ask.since)

WatchInv == TypeOK /\ GivenUp /\ PacedIsObtained /\ GraceKept /\ Informed

-----------------------------------------------------------------------------
(* What a cycle does to the memory. *)

Asked(reason) ==
  ask' = [reason |-> reason, window |-> window, backoff |-> backoff, origin |-> origin, since |-> since]

\* The pacing left alone, the window cleared, a window started, or a run decided.
StandsStill == UNCHANGED <<window, backoff, origin, ask>>
Clears == window' = None /\ UNCHANGED <<backoff, origin, ask>>
StartsWindow == window = None /\ window' = Debounce /\ UNCHANGED <<backoff, origin, ask>>
Resets == window' = None /\ backoff' = FirstDelay /\ origin' = "none" /\ UNCHANGED ask
FiresManual == Asked("manual") /\ window' = None /\ backoff' = FirstDelay /\ origin' = "none"
Paces(reason) ==
  Asked(reason) /\ window' = backoff /\ backoff' = Doubled /\ origin' = reason
FiresCompletion == Paces("completion") /\ window = 0
FiresSafetyNet == Paces("safety_net") /\ Overdue(Seeded) /\ GateOpen

Outcome ==
  \/ StandsStill \/ Clears \/ StartsWindow \/ Resets
  \/ FiresManual \/ FiresCompletion \/ FiresSafetyNet

\* Every branch of evaluate has one of these outcomes, and one that saw a download at the
\* gate has cleared the window.
LEMMA CycleOutcome ==
  ASSUME WatchCycle
  PROVE  /\ Outcome
         /\ lastGate' = lastGate \/ (lastGate' = 0 /\ Clears)
         /\ since' = Seeded
         /\ UNCHANGED <<world, queue, stored, holding, trouble, age, uninformed, lastFire, obtained, owed,
                        eaten>>
<1> USE DEF Outcome, StandsStill, Clears, StartsWindow, Resets, FiresManual, FiresCompletion,
            FiresSafetyNet, Paces, Asked, pacing
<1>1. Evaluate /\ UNCHANGED <<world, queue, stored, holding, trouble, age, uninformed, lastFire, obtained,
                              owed, eaten>>
  BY DEF WatchCycle
<1>2. ASSUME NEW reason, NEW w, NEW b, NEW o, Fire(reason, w, b, o)
      PROVE  StandsStill \/ (Asked(reason) /\ window' = w /\ backoff' = b /\ origin' = o)
  BY <1>2 DEF Fire, NoAction
<1>3. CASE sentinel
  BY <1>1, <1>2, <1>3 DEF Evaluate, Manual, WatchCycle, AtGate
<1>4. CASE ~sentinel /\ Work \ dispatched # {}
  BY <1>1, <1>4 DEF Evaluate, CrossSeed, WatchCycle, AtGate
<1>5. CASE ~sentinel /\ Work \ dispatched = {} /\ PipelineWork # {} /\ arriving
  BY <1>1, <1>5 DEF Evaluate, Quiescence, WatchCycle, AtGate
<1>6. CASE ~sentinel /\ Work \ dispatched = {} /\ PipelineWork # {} /\ ~arriving
  <2>1. Completion /\ lastGate' = lastGate
    BY <1>1, <1>6 DEF Evaluate, WatchCycle
  <2>2. CASE window = None
    BY <1>1, <2>1, <2>2 DEF Completion, StartDebounce, WatchCycle, None
  <2>3. CASE window = 0
    BY <1>1, <1>2, <2>1, <2>3 DEF Completion, FirePaced, WatchCycle, None
  <2>4. CASE window # None /\ window # 0
    BY <1>1, <2>1, <2>4 DEF Completion, NoAction, WatchCycle, None
  <2> QED
    BY <2>2, <2>3, <2>4
<1>7. CASE ~sentinel /\ Work \ dispatched = {} /\ PipelineWork = {}
  <2>1. lastGate' = lastGate
    BY <1>7 DEF WatchCycle, AtGate
  <2>2. CASE StaleWindow
    BY <1>1, <1>7, <2>1, <2>2 DEF Evaluate, ClearWindow, WatchCycle
  <2>3. CASE ~StaleWindow /\ Overdue(Seeded) /\ GateOpen
    BY <1>1, <1>2, <1>7, <2>1, <2>3 DEF Evaluate, FirePaced, WatchCycle
  <2>4. CASE ~StaleWindow /\ ~(Overdue(Seeded) /\ GateOpen)
    BY <1>1, <1>7, <2>1, <2>4 DEF Evaluate, NoAction, WatchCycle
  <2> QED
    BY <2>2, <2>3, <2>4
<1> QED
  BY <1>3, <1>4, <1>5, <1>6, <1>7

\* What the numbers are.
LEMMA Ranges ==
  /\ Debounce \in Nat /\ Debounce > 0 /\ SafetyNet \in Nat /\ SafetyNet > 0
  /\ FirstDelay \in Nat /\ FirstDelay > 0 /\ FirstDelay <= Debounce /\ FirstDelay <= SafetyNet
  /\ Delays \subseteq Windows /\ FirstDelay \in Delays /\ Debounce \in Windows
  /\ None \in Windows /\ Never \in Ages /\ 0 \in Ages /\ 0 \in Windows
BY WatcherAssumption DEF FirstDelay, Delays, Windows, Ages, None, Never

LEMMA Timed ==
  TypeOK => /\ Doubled \in Delays /\ Seeded \in Ages
            /\ \A a \in Ages : Older(a, SafetyNet) \in Ages
            /\ \A a \in 0..Debounce : Older(a, Debounce) \in 0..Debounce
            /\ (IF window > 0 THEN window - 1 ELSE window) \in Windows
BY Ranges DEF TypeOK, Doubled, Seeded, Older, Delays, Ages, Windows, Never, None

\* An ask and no ask are told apart by the reason, and an ask gives back a memory.
LEMMA AskReason ==
  /\ NoAsk.reason = "none" /\ NoAsk \notin Asks
  /\ \A a \in Asks : /\ a # NoAsk /\ a.reason \in Reasons \union {Poked}
                     /\ a.window \in Windows /\ a.backoff \in Delays
                     /\ a.origin \in Origins /\ a.since \in Ages
BY DEF NoAsk, Asks, Reasons, Poked

\* What the memory becomes, by outcome.
LEMMA OutcomeType ==
  ASSUME TypeOK, Outcome
  PROVE  /\ window' \in Windows /\ backoff' \in Delays /\ origin' \in Origins
         /\ ask' = NoAsk \/ ask' \in Asks
<1> USE Ranges, Timed DEF TypeOK, Origins, Reasons, Asks
<1>1. CASE StandsStill
  BY <1>1 DEF StandsStill
<1>2. CASE Clears \/ StartsWindow
  BY <1>2 DEF Clears, StartsWindow
<1>3. CASE Resets
  BY <1>3 DEF Resets
<1>4. CASE FiresManual
  BY <1>4 DEF FiresManual, Asked
<1>5. CASE FiresCompletion \/ FiresSafetyNet
  BY <1>5 DEF FiresCompletion, FiresSafetyNet, Paces, Asked
<1> QED
  BY <1>1, <1>2, <1>3, <1>4, <1>5 DEF Outcome

\* The cross-seed of a cycle: counted, and given up in time.
LEMMA CrossSeedType ==
  ASSUME TypeOK, GivenUp, WatchCycle
  PROVE  /\ dispatched' \subseteq Torrents /\ failures' \in [Torrents -> 0..CrossSeedAttempts]
         /\ GivenUp'
<1>1. CASE UNCHANGED <<dispatched, failures>>
  BY <1>1 DEF TypeOK, GivenUp
<1>2. CASE CrossSeed
  <2>1. PICK failed \in SUBSET (Work \ dispatched) :
          /\ failures' = [t \in Torrents |-> IF t \in failed THEN failures[t] + 1 ELSE failures[t]]
          /\ dispatched' = dispatched \union
               {t \in Work : t \notin failed \/ failures'[t] = CrossSeedAttempts}
    BY <1>2 DEF CrossSeed
  <2>2. Work \subseteq Torrents
    BY DEF TypeOK, Work
  <2>3. \A t \in Torrents : failures[t] \in 0..CrossSeedAttempts
    BY DEF TypeOK
  <2>4. \A t \in failed : failures[t] < CrossSeedAttempts
    BY <2>2 DEF GivenUp
  <2>5. failures' \in [Torrents -> 0..CrossSeedAttempts]
    BY <2>1, <2>3, <2>4, WatcherAssumption
  <2>6. dispatched' \subseteq Torrents
    BY <2>1, <2>2 DEF TypeOK
  <2>7. ASSUME NEW t \in Torrents \ dispatched' PROVE failures'[t] < CrossSeedAttempts
    <3>1. t \notin dispatched /\ (t \in Work => t \in failed /\ failures'[t] # CrossSeedAttempts)
      BY <2>1, <2>7
    <3>2. CASE t \in Work
      BY <2>5, <3>1, <3>2, WatcherAssumption
    <3>3. CASE t \notin Work
      BY <2>1, <3>1, <3>3 DEF GivenUp
    <3> QED
      BY <3>2, <3>3
  <2> QED
    BY <2>5, <2>6, <2>7 DEF GivenUp
<1> QED
  BY <1>1, <1>2
     DEF WatchCycle, Evaluate, Manual, Quiescence, Completion, StartDebounce, FirePaced, Fire,
         ClearWindow, NoAction

-----------------------------------------------------------------------------
(* Every step keeps the invariant. *)

LEMMA WatchInvInit == Init => WatchInv
<1> SUFFICES ASSUME Init PROVE WatchInv
  OBVIOUS
<1> USE Ranges, WatcherAssumption DEF Init
<1>1. TypeOK
  <2>1. Init => age \in Ages /\ since \in Ages /\ stored \in Ages /\ window \in Windows
    OBVIOUS
  <2>2. Init => complete \subseteq Torrents /\ deferred \subseteq Torrents /\ ingested \subseteq Torrents
    OBVIOUS
  <2>3. Init => arriving \in BOOLEAN /\ answering \in BOOLEAN /\ sentinel \in BOOLEAN /\ paused \in BOOLEAN
    BY Zenon
  <2>4. Init => holding \in BOOLEAN /\ uninformed \in BOOLEAN /\ obtained \in BOOLEAN /\ eaten \in BOOLEAN
    BY Zenon
  <2>5. Init => failures \in [Torrents -> 0..CrossSeedAttempts]
    OBVIOUS
  <2>6. Init => lastGate \in 0..Debounce /\ lastFire \in 0..Debounce /\ trouble \in 0..MaxTrouble
    OBVIOUS
  <2>7. Init => queued \subseteq {"pipeline", "other"} /\ running \in {"nothing", "pipeline", "other"}
    OBVIOUS
  <2>8. Init => backoff \in Delays /\ origin \in Origins /\ ask = NoAsk
    BY DEF Origins
  <2>9. Init => owed \subseteq Torrents \union {Poke} /\ dispatched \subseteq Torrents
    OBVIOUS
  <2> QED
    BY <2>1, <2>2, <2>3, <2>4, <2>5, <2>6, <2>7, <2>8, <2>9 DEF TypeOK
<1>2. GivenUp
  BY DEF GivenUp
<1>3. PacedIsObtained /\ GraceKept /\ Informed
  BY DEF PacedIsObtained, PacesObtainedRuns, GraceKept, Apart, Fresh, Informed, Knows
<1> QED
  BY <1>1, <1>2, <1>3 DEF WatchInv

\* The type, and the count of a cross-seed that is tried again.
LEMMA WatchTypeStep == TypeOK /\ GivenUp /\ [Next]_vars => TypeOK' /\ GivenUp'
<1> SUFFICES ASSUME TypeOK, GivenUp, [Next]_vars PROVE TypeOK' /\ GivenUp'
  OBVIOUS
<1>1. CASE WatchCycle
  <2>1. /\ Outcome /\ since' = Seeded
        /\ lastGate' = lastGate \/ lastGate' = 0
        /\ UNCHANGED <<world, queue, stored, holding, trouble, age, uninformed, lastFire, obtained, owed,
                        eaten>>
    BY <1>1, CycleOutcome
  <2>2. dispatched' \subseteq Torrents /\ failures' \in [Torrents -> 0..CrossSeedAttempts] /\ GivenUp'
    BY <1>1, CrossSeedType
  <2>3. /\ window' \in Windows /\ backoff' \in Delays /\ origin' \in Origins
        /\ ask' = NoAsk \/ ask' \in Asks
    BY <2>1, OutcomeType
  <2>4. lastGate' \in 0..Debounce /\ since' \in Ages
    BY <2>1, Ranges, Timed DEF TypeOK
  <2> QED
    BY <2>1, <2>2, <2>3, <2>4 DEF TypeOK, Asks, world, queue
<1> USE Ranges, WatcherAssumption, AskReason
    DEF TypeOK, GivenUp, world, queue, pacing, memory, history, Troubled, Origins, Reasons, Rest
<1>2. CASE AskTaken \/ ConsumeSentinel
  <2>1. CASE AskTaken
    <3>1. ask' = NoAsk \/ ask' \in Asks
      BY <2>1 DEF AskTaken, Asks
    <3>2. obtained' \in BOOLEAN
      BY <2>1, Zenon DEF AskTaken
    <3> QED
      BY <2>1, <3>1, <3>2 DEF AskTaken
  <2>2. CASE ConsumeSentinel
    <3>1. sentinel' \in BOOLEAN /\ obtained' \in BOOLEAN /\ eaten' \in BOOLEAN
      BY <2>2, Zenon DEF ConsumeSentinel
    <3> QED
      BY <2>2, <3>1 DEF ConsumeSentinel
  <2> QED
    BY <1>2, <2>1, <2>2
<1>3. CASE AskNotTaken
  BY <1>3 DEF AskNotTaken
<1>4. CASE Restart
  <2>1. uninformed' \in BOOLEAN /\ obtained' \in BOOLEAN
    BY <1>4, Zenon DEF Restart
  <2>2. queued' \subseteq {"pipeline", "other"}
    BY <1>4 DEF Restart
  <2>3. since' \in Ages /\ failures' \in [Torrents -> 0..CrossSeedAttempts] /\ GivenUp'
    BY <1>4 DEF Restart
  <2>4. /\ ask' = NoAsk /\ window' = None /\ backoff' = FirstDelay /\ origin' = "none" /\ dispatched' = {}
        /\ trouble' \in 0..MaxTrouble
        /\ UNCHANGED <<world, running, stored, holding, age, lastGate, lastFire, owed, eaten>>
    BY <1>4 DEF Restart
  <2> QED
    BY <2>1, <2>2, <2>3, <2>4
<1>5. CASE LoseLease \/ TakeLease
  <2>1. CASE LoseLease
    <3>1. holding' \in BOOLEAN
      BY <2>1, Zenon DEF LoseLease
    <3>2. /\ trouble' \in 0..MaxTrouble
          /\ UNCHANGED <<world, queue, stored, memory, ask, history>>
      BY <2>1 DEF LoseLease
    <3> QED
      BY <3>1, <3>2
  <2>2. CASE TakeLease
    BY <2>2 DEF TakeLease
  <2> QED
    BY <1>5, <2>1, <2>2
<1>6. ASSUME NEW kind \in {"pipeline", "other"}, RunStarts(kind) \/ WebAsks(kind) PROVE TypeOK' /\ GivenUp'
  <2>1. CASE RunStarts(kind)
    BY <2>1 DEF RunStarts
  <2>2. CASE WebAsks(kind)
    BY <2>2 DEF WebAsks
  <2> QED
    BY <1>6, <2>1, <2>2
<1>7. CASE RunIngests
  BY <1>7 DEF RunIngests, PipelineWork, Work
<1>8. CASE RunSucceeds \/ RunEnds
  <2>1. CASE RunSucceeds
    BY <2>1 DEF RunSucceeds
  <2>2. CASE RunEnds
    BY <2>2 DEF RunEnds
  <2> QED
    BY <1>8, <2>1, <2>2
<1>9. CASE TimePasses
  BY <1>9, Timed DEF TimePasses
<1>10. ASSUME NEW t \in Torrents, TorrentCompletes(t) \/ TorrentRemoved(t) \/ DeferralChanges(t)
       PROVE  TypeOK' /\ GivenUp'
  <2>1. CASE TorrentCompletes(t)
    BY <2>1 DEF TorrentCompletes
  <2>2. CASE TorrentRemoved(t)
    BY <2>2 DEF TorrentRemoved
  <2>3. CASE DeferralChanges(t)
    BY <2>3 DEF DeferralChanges
  <2> QED
    BY <1>10, <2>1, <2>2, <2>3
<1>11. CASE DownloadsChange \/ AnswersChange \/ WatchNow \/ PauseChanges
  <2>1. CASE DownloadsChange
    BY <2>1 DEF DownloadsChange
  <2>2. CASE WatchNow
    BY <2>2 DEF WatchNow
  <2>3. CASE PauseChanges
    BY <2>3 DEF PauseChanges
  <2>4. CASE AnswersChange
    BY <2>4 DEF AnswersChange
  <2> QED
    BY <1>11, <2>1, <2>2, <2>3, <2>4
<1>12. CASE UNCHANGED vars
  BY <1>12 DEF vars
<1> QED
  BY <1>1, <1>2, <1>3, <1>4, <1>5, <1>6, <1>7, <1>8, <1>9, <1>10, <1>11, <1>12 DEF Next, Environment

\* What the memory, the ask and the history of asks are left as by all the other steps.
MemoryKept ==
  UNCHANGED <<window, backoff, origin, since, ask, lastGate, lastFire, obtained, age, uninformed>>

\* The steps that touch neither.
LEMMA Elsewhere ==
  ASSUME [Next]_vars
  PROVE  \/ WatchCycle \/ AskTaken \/ ConsumeSentinel \/ AskNotTaken \/ Restart
         \/ RunSucceeds \/ TimePasses \/ MemoryKept
<1> USE DEF MemoryKept, memory, pacing, history, Rest
<1>1. CASE LoseLease \/ TakeLease
  BY <1>1 DEF LoseLease, TakeLease
<1>2. ASSUME NEW kind, RunStarts(kind) \/ WebAsks(kind) PROVE MemoryKept
  BY <1>2 DEF RunStarts, WebAsks
<1>3. CASE RunIngests \/ RunEnds
  BY <1>3 DEF RunIngests, RunEnds
<1>4. ASSUME NEW t, TorrentCompletes(t) \/ TorrentRemoved(t) \/ DeferralChanges(t) PROVE MemoryKept
  BY <1>4 DEF TorrentCompletes, TorrentRemoved, DeferralChanges
<1>5. CASE DownloadsChange \/ AnswersChange \/ WatchNow \/ PauseChanges
  BY <1>5 DEF DownloadsChange, AnswersChange, WatchNow, PauseChanges
<1>6. CASE UNCHANGED vars
  BY <1>6 DEF vars
<1> QED
  BY <1>1, <1>2, <1>3, <1>4, <1>5, <1>6 DEF Next, Environment

LEMMA PacedStep == WatchInv /\ [Next]_vars => PacedIsObtained'
<1> SUFFICES ASSUME WatchInv, [Next]_vars PROVE PacedIsObtained'
  OBVIOUS
<1> USE DEF WatchInv, PacedIsObtained, PacesObtainedRuns
<1>1. CASE WatchCycle
  <2>1. Outcome /\ obtained' = obtained /\ ask = NoAsk
    BY <1>1, CycleOutcome DEF WatchCycle
  <2> QED
    BY <2>1, AskReason DEF Outcome, StandsStill, Clears, StartsWindow, Resets, FiresManual,
                FiresCompletion, FiresSafetyNet, Paces, Asked, Poked
<1>2. CASE AskTaken
  BY <1>2, AskReason DEF AskTaken, memory, pacing, Asks, TypeOK, Reasons, Poked
<1>3. CASE AskNotTaken
  BY <1>3 DEF AskNotTaken, history
<1>4. CASE Restart
  BY <1>4 DEF Restart
<1>5. CASE RunSucceeds
  BY <1>5 DEF RunSucceeds, pacing
<1>6. CASE TimePasses
  BY <1>6 DEF TimePasses
<1>7. CASE MemoryKept
  BY <1>7 DEF MemoryKept
<1>8. CASE ConsumeSentinel
  BY <1>8 DEF ConsumeSentinel, memory, pacing
<1> QED
  BY <1>1, <1>2, <1>3, <1>4, <1>5, <1>6, <1>7, <1>8, Elsewhere

LEMMA GraceStep == WatchInv /\ [Next]_vars => GraceKept'
<1> SUFFICES ASSUME WatchInv, [Next]_vars PROVE GraceKept'
  OBVIOUS
<1>0. /\ window \in Windows /\ backoff \in Delays /\ lastGate \in 0..Debounce /\ lastFire \in 0..Debounce
      /\ ask # NoAsk => ask \in Asks
  BY DEF WatchInv, TypeOK, Asks
<1> USE Ranges, <1>0 DEF GraceKept, Apart, Fresh, Windows, Delays, None
<1>1. CASE WatchCycle
  <2>1. /\ Outcome /\ lastFire' = lastFire /\ ask = NoAsk
        /\ lastGate' = lastGate \/ (lastGate' = 0 /\ Clears)
    BY <1>1, CycleOutcome DEF WatchCycle
  <2>2. CASE StandsStill \/ Clears \/ StartsWindow \/ Resets
    BY <2>1, <2>2 DEF WatchInv, StandsStill, Clears, StartsWindow, Resets
  <2>3. CASE FiresManual
    BY <2>1, <2>3, AskReason DEF WatchInv, FiresManual, Asked, Clears, Poked
  <2>4. CASE FiresCompletion \/ FiresSafetyNet
    BY <2>1, <2>4, AskReason DEF WatchInv, FiresCompletion, FiresSafetyNet, Paces, Asked, Clears, Poked
  <2> QED
    BY <2>1, <2>2, <2>3, <2>4 DEF Outcome
<1>2. CASE AskTaken
  BY <1>2, AskReason DEF AskTaken, memory, pacing, WatchInv, Asks, Poked
<1>3. CASE AskNotTaken
  BY <1>3 DEF AskNotTaken, history, WatchInv
<1>4. CASE Restart
  BY <1>4 DEF Restart
<1>5. CASE RunSucceeds
  BY <1>5 DEF RunSucceeds, pacing, WatchInv
<1>6. CASE TimePasses
  BY <1>6 DEF TimePasses, Older, WatchInv
<1>7. CASE MemoryKept
  BY <1>7 DEF MemoryKept, WatchInv
<1>8. CASE ConsumeSentinel
  BY <1>8 DEF ConsumeSentinel, memory, pacing, WatchInv
<1> QED
  BY <1>1, <1>2, <1>3, <1>4, <1>5, <1>6, <1>7, <1>8, Elsewhere

LEMMA InformedStep == WatchInv /\ [Next]_vars => Informed'
<1> SUFFICES ASSUME WatchInv, [Next]_vars PROVE Informed'
  OBVIOUS
<1> USE DEF WatchInv, Informed, Knows
<1>1. CASE WatchCycle
  <2>1. /\ Outcome /\ since' = Seeded /\ age' = age /\ uninformed' = uninformed /\ ask = NoAsk
    BY <1>1, CycleOutcome DEF WatchCycle
  <2>2. ~uninformed => Knows(Seeded)
    BY DEF Seeded
  <2>3. ask' = NoAsk \/ ask'.since = since
    BY <2>1 DEF Outcome, StandsStill, Clears, StartsWindow, Resets, FiresManual,
                FiresCompletion, FiresSafetyNet, Paces, Asked
  <2> QED
    BY <2>1, <2>2, <2>3
<1>2. CASE AskTaken
  BY <1>2 DEF AskTaken, memory, TypeOK, Asks
<1>3. CASE AskNotTaken
  BY <1>3 DEF AskNotTaken, history
<1>4. CASE Restart
  BY <1>4 DEF Restart
<1>5. CASE RunSucceeds
  BY <1>5 DEF RunSucceeds, MayTick
<1>6. CASE TimePasses
  BY <1>6, Ranges DEF TimePasses, Older, Never
<1>7. CASE MemoryKept
  BY <1>7 DEF MemoryKept
<1>8. CASE ConsumeSentinel
  BY <1>8 DEF ConsumeSentinel, memory
<1> QED
  BY <1>1, <1>2, <1>3, <1>4, <1>5, <1>6, <1>7, <1>8, Elsewhere

LEMMA WatchInvAlways == Spec => []WatchInv
<1>1. Init => WatchInv
  BY WatchInvInit
<1>2. WatchInv /\ [Next]_vars => WatchInv'
  BY WatchTypeStep, PacedStep, GraceStep, InformedStep DEF WatchInv
<1> QED
  BY <1>1, <1>2, PTL DEF Spec

-----------------------------------------------------------------------------

\* Type correctness of Watcher, for every debounce and safety net.
THEOREM WatchTypeCorrect == Spec => []TypeOK
<1>1. WatchInv => TypeOK
  BY DEF WatchInv
<1> QED
  BY <1>1, WatchInvAlways, PTL

\* However often asks are refused or raise and the supervisor is restarted, the watcher
\* paces itself only for a run it did obtain.
THEOREM PacesOnlyObtained == Spec => []PacesObtainedRuns
<1>1. WatchInv => PacesObtainedRuns
  BY DEF WatchInv, PacedIsObtained, PacesObtainedRuns
<1> QED
  BY <1>1, WatchInvAlways, PTL

\* Only a cycle decides.
LEMMA CycleDecides ==
  ASSUME NEW reason, [Next]_vars, Decides(reason)
  PROVE  WatchCycle /\ Outcome /\ ask' # ask /\ ask'.reason = reason
<1>1. ask' # ask /\ ask = NoAsk /\ ask'.reason = reason
  BY DEF Decides
<1>2. WatchCycle
  BY <1>1, Elsewhere DEF AskTaken, ConsumeSentinel, AskNotTaken, Restart, RunSucceeds,
                           TimePasses, MemoryKept
<1> QED
  BY <1>1, <1>2, CycleOutcome

\* A completion is asked for only a whole debounce (cut at the safety net where that is
\* shorter and a paced ask stands in the memory) after the gate last saw a download and
\* after the last automatic ask, whatever cleared, restarted or settled in between.
THEOREM GraceIsWhole == Spec => GraceRestarts
<1> DEFINE Kept == /\ lastGate >= FirstDelay /\ lastFire >= FirstDelay
                   /\ origin = "none" => lastGate = Debounce
<1>1. WatchInv /\ [Next]_vars => [Decides("completion") => Kept]_vars
  <2> SUFFICES ASSUME WatchInv, [Next]_vars, Decides("completion") PROVE Kept
    OBVIOUS
  <2>1. Outcome /\ ask' # ask /\ ask'.reason = "completion"
    BY CycleDecides
  <2>2. window = 0
    BY <2>1 DEF Outcome, StandsStill, Clears, StartsWindow, Resets, FiresManual,
                FiresCompletion, FiresSafetyNet, Paces, Asked
  <2> QED
    BY <2>2, Ranges DEF WatchInv, TypeOK, GraceKept, Apart, Fresh, None
<1> QED
  BY <1>1, WatchInvAlways, PTL DEF Spec, GraceRestarts

\* A safety-net run is asked for only when no run has succeeded for the safety net, as far
\* as this memory was told, and never within the first delay of the last ask while its window
\* stands.
THEOREM SafetyNetIsOverdue == Spec => SafetyNetOverdue
<1>1. WatchInv /\ [Next]_vars =>
        [Decides("safety_net") => /\ Overdue(age) \/ uninformed
                                  /\ window = None \/ lastFire >= FirstDelay]_vars
  <2> SUFFICES ASSUME WatchInv, [Next]_vars, Decides("safety_net")
               PROVE  /\ Overdue(age) \/ uninformed
                      /\ window = None \/ lastFire >= FirstDelay
    OBVIOUS
  <2>1. Outcome /\ ask' # ask /\ ask'.reason = "safety_net"
    BY CycleDecides
  <2>2. Overdue(Seeded) /\ GateOpen
    BY <2>1 DEF Outcome, StandsStill, Clears, StartsWindow, Resets, FiresManual,
                FiresCompletion, FiresSafetyNet, Paces, Asked
  <2>3. uninformed \/ Overdue(age)
    BY <2>2, Ranges DEF WatchInv, Informed, Knows, Overdue, Seeded, Never
  <2>4. window = None \/ lastFire >= FirstDelay
    BY <2>2, Ranges DEF WatchInv, TypeOK, GraceKept, Apart, GateOpen, None
  <2> QED
    BY <2>3, <2>4
<1> QED
  BY <1>1, WatchInvAlways, PTL DEF Spec, SafetyNetOverdue
=============================================================================
