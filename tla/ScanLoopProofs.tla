-------------------------- MODULE ScanLoopProofs --------------------------
(***************************************************************************)
(* The scanner loop for any number of markets, pairs, messages and requests: *)
(* types, what is kept for the markets that are due, and what a refresh adds.*)
(***************************************************************************)
EXTENDS ScanLoop, FiniteSetTheorems, WellFoundedInduction, TLAPS

-----------------------------------------------------------------------------
(* Passes *)

Passes == [phase : Phases, todo : SUBSET Tokens, seeded : SUBSET Tokens]

\* A pass at its start.
LEMMA PassFields ==
    ASSUME NEW ph \in Phases, NEW T \in SUBSET Tokens
    PROVE  /\ Pass(ph, T) \in Passes
           /\ Pass(ph, T).phase = ph /\ Pass(ph, T).todo = T /\ Pass(ph, T).seeded = {}
  BY DEF Pass, Passes

\* No pass at all has nothing to do.
LEMMA NoPassFields ==
    /\ NoPass \in Passes
    /\ NoPass.phase = "none" /\ NoPass.todo = {} /\ NoPass.seeded = {}
    /\ ~ Busy(NoPass)
  BY PassFields DEF NoPass, Phases, Busy

\* A pass whose phase alone changes.
LEMMA PhaseFields ==
    ASSUME NEW p \in Passes, NEW ph \in Phases
    PROVE  /\ [p EXCEPT !.phase = ph] \in Passes
           /\ [p EXCEPT !.phase = ph].phase = ph
           /\ [p EXCEPT !.phase = ph].todo = p.todo
           /\ [p EXCEPT !.phase = ph].seeded = p.seeded
  BY Zenon DEF Passes

\* The pass after a chunk has lost the chunk and gained what it brought.
LEMMA AfterChunkFields ==
    ASSUME NEW p \in Passes, NEW got \in SUBSET Tokens
    PROVE  LET a == AfterChunk(p, got) IN
           /\ a \in Passes
           /\ a.todo = p.todo \ Chunk(p.todo) /\ a.seeded = p.seeded \cup got
           /\ a.phase \in {"running", "failed", "done"}
           /\ a.phase = "running" <=> a.todo # {}
<1> DEFINE left == p.todo \ Chunk(p.todo)
           seeded == p.seeded \cup got
           ph == IF left # {} THEN "running" ELSE IF seeded = {} THEN "failed" ELSE "done"
<1>1. AfterChunk(p, got) = [phase |-> ph, todo |-> left, seeded |-> seeded]
  BY DEF AfterChunk
<1>2. /\ left \in SUBSET Tokens /\ seeded \in SUBSET Tokens
      /\ ph \in {"running", "failed", "done"} /\ ph \in Phases
      /\ ph = "running" <=> left # {}
  BY DEF Passes, Phases
<1> HIDE DEF left, seeded, ph
<1>3. /\ AfterChunk(p, got) \in Passes
      /\ AfterChunk(p, got).phase = ph /\ AfterChunk(p, got).todo = left
      /\ AfterChunk(p, got).seeded = seeded
  BY <1>1, <1>2 DEF Passes
<1> QED
  BY <1>2, <1>3 DEF left, seeded

\* Only a pass that is done is laid bare.
LEMMA BareFields ==
    ASSUME NEW p \in Passes
    PROVE  /\ Bare(p) \in Passes /\ Bare(p).phase = p.phase
           /\ p.phase # "done" => Bare(p) = p
           /\ p.phase = "done" => Bare(p).todo = {}
<1>1. CASE p.phase = "done"
  <2>1. Bare(p) = Pass("done", {})
    BY <1>1 DEF Bare
  <2>2. "done" \in Phases
    BY DEF Phases
  <2> QED
    BY <1>1, <2>1, <2>2, PassFields
<1>2. CASE p.phase # "done"
  BY <1>2 DEF Bare
<1> QED
  BY <1>1, <1>2

\* Collecting a pass ends it if it is over, and leaves it alone if it is not.
LEMMA CollectedFields ==
    ASSUME NEW p \in Passes
    PROVE  /\ Collected(p) \in Passes
           /\ Collected(p).phase \notin {"done", "failed"}
           /\ Busy(p) => Collected(p) = p
           /\ Collected(p) = p \/ Collected(p) = NoPass
           /\ Busy(Collected(p)) => Busy(p)
<1>1. CASE p.phase \in {"done", "failed"}
  BY <1>1, NoPassFields DEF Collected, Busy
<1>2. CASE p.phase \notin {"done", "failed"}
  BY <1>2 DEF Collected, Busy
<1> QED
  BY <1>1, <1>2

\* A request brings books of the chunk it asked for only.
LEMMA BringsWithin ==
    ASSUME NEW p, NEW got, Brings(p, got)
    PROVE  got \subseteq Chunk(p.todo) /\ got \subseteq p.todo
  BY DEF Brings, Chunk

\* A request asks for a book, if there is any left to ask for.
LEMMA ChunkNotEmpty ==
    ASSUME NEW T \in SUBSET Tokens, T # {}
    PROVE  Chunk(T) # {}
<1> DEFINE R == OpToRel(<, Nat)
<1>1. T \subseteq Nat
  BY ScanAssumption
<1>2. IsWellFoundedOn(R, Nat)
  BY NatLessThanWellFounded
<1>3. PICK t \in T : \A u \in T : <<u, t>> \notin R
  <2> HIDE DEF R
  <2> QED
    BY <1>1, <1>2, WFMin
<1>4. \A u \in T : ~ (u < t)
  BY <1>1, <1>3 DEF OpToRel
<1>5. {u \in T : u =< t} = {t}
  <2>1. \A u \in T : u \in Nat /\ t \in Nat /\ ~ (u < t)
    BY <1>1, <1>4
  <2>2. \A u \in T : u =< t <=> u = t
    BY <2>1
  <2> QED
    BY <2>2
<1>6. Cardinality({t}) = 1
  BY FS_Singleton
<1>7. 1 <= ChunkSize
  BY ScanAssumption
<1>8. t \in Chunk(T)
  BY <1>5, <1>6, <1>7 DEF Chunk
<1> QED
  BY <1>8

-----------------------------------------------------------------------------
(* The invariant *)

TypeInv ==
    /\ pc \in Places /\ running \in BOOLEAN /\ online \in BOOLEAN
    /\ complete \in BOOLEAN /\ event \in BOOLEAN
    /\ universe \in SUBSET Markets /\ subscribed \in SUBSET Markets
    /\ target \in SUBSET Markets /\ due \in SUBSET Markets
    /\ fresh \in SUBSET Tokens /\ dirty \in SUBSET Tokens
    /\ batch \in SUBSET Tokens /\ targeted \in SUBSET Tokens
    /\ boot \in Passes /\ backfill \in Passes /\ reconcile \in Passes /\ refresh \in Passes

\* A batch is in hand only between taking it and its evaluation.
Holding == {"collect", "evaluate", "reevaluate", "stopped"}

\* The refreshed universe is taken up before anything is evaluated.
Collecting == Awaits \cup {"top", "collect"}

\* Event and set agree; no batch is forgotten; an ended backfill has asked for everything.
QueueInv ==
    /\ dirty # {} <=> event
    /\ pc \notin Holding => batch = {}
    /\ ~ Busy(backfill) => backfill.todo = {}

\* A refresh reads tokens of new markets only, subscribes its universe when it has read
\* them, and what it seeded stays dirty until the loop has the universe.
RefreshInv ==
    /\ universe \subseteq subscribed
    /\ refresh.phase = "running" => refresh.todo \cap TokensOf(universe) = {}
    /\ refresh.phase \in {"subscribing", "done"} => target \subseteq subscribed
    /\ refresh.phase = "done" =>
           /\ pc \in Collecting
           /\ refresh.seeded \subseteq dirty \cup (IF pc = "collect" THEN batch ELSE {})

ScanInv == TypeInv /\ QueueInv /\ RefreshInv

\* No market and no token is lost by the maps between them.
LEMMA Maps ==
    /\ \A M \in SUBSET Markets : TokensOf(M) \in SUBSET Tokens
    /\ \A T : MarketsOf(T) \in SUBSET Markets
    /\ \A m \in Markets : Pair[m] # {}
<1>1. ASSUME NEW m \in Markets PROVE Pair[m] # {}
  <2>1. Cardinality({}) = 0
    BY FS_EmptySet
  <2>2. Cardinality(Pair[m]) = 2
    BY ScanAssumption
  <2>3. 0 # 2
    OBVIOUS
  <2> QED
    BY <2>1, <2>2, <2>3
<1> QED
  BY <1>1 DEF TokensOf, MarketsOf, Tokens

-----------------------------------------------------------------------------
(* Types *)

\* Scheduling leaves a backfill that is busy or was there.
LEMMA ScheduleTypes ==
    ASSUME TypeInv, NEW T \in SUBSET Tokens, Schedule(T)
    PROVE  /\ targeted' \in SUBSET Tokens /\ backfill' \in Passes
           /\ targeted' = targeted \cup T
           /\ Busy(backfill) => backfill' = backfill
           /\ ~ Busy(backfill) => backfill' = backfill \/ (backfill'.todo = {} /\ Busy(backfill'))
           /\ T # {} => Busy(backfill')
<1>1. "running" \in Phases
  BY DEF Phases
<1>2. /\ Pass("running", {}) \in Passes /\ Pass("running", {}).todo = {}
      /\ Pass("running", {}).phase = "running"
  BY <1>1, PassFields
<1>3. /\ targeted' = targeted \cup T
      /\ backfill' = IF T # {} /\ ~ Busy(backfill) THEN Pass("running", {}) ELSE backfill
  BY DEF Schedule
<1> QED
  BY <1>2, <1>3 DEF TypeInv, Busy

\* Types, for the bootstrap.
LEMMA BootTypes ==
    ASSUME TypeInv, NEW got \in SUBSET Tokens, BootChunk(got)
    PROVE  TypeInv'
<1> DEFINE after == AfterChunk(boot, got)
           current == fresh \cup got
           ready == Ready(got, current)
           T == TokensOf(Hit(got) \ ready)
<1>1. after \in Passes /\ boot' = Bare(after) /\ Bare(after) \in Passes
  BY AfterChunkFields, BareFields DEF BootChunk, TypeInv
<1>2. T \in SUBSET Tokens /\ Schedule(T)
  BY Maps DEF BootChunk, Hit, MarketsOf
<1>3. targeted' \in SUBSET Tokens /\ backfill' \in Passes
  BY <1>2, ScheduleTypes
<1>4. refresh' \in Passes
  BY PassFields DEF BootChunk, StartRefresh, TypeInv, Phases
<1>5. due' \in SUBSET Markets /\ fresh' \in SUBSET Tokens
  BY Maps DEF BootChunk, TypeInv
<1>6. online' \in BOOLEAN /\ pc' \in Places
  BY DEF BootChunk, TypeInv, Places
<1> QED
  BY <1>1, <1>3, <1>4, <1>5, <1>6 DEF BootChunk, TypeInv, accumulator

\* Types, for a chunk of one of the three tasks.
LEMMA TaskTypes ==
    ASSUME TypeInv, NEW got \in SUBSET Tokens,
           BackfillChunk(got) \/ ReconcileChunk(got) \/ RefreshChunk(got)
    PROVE  TypeInv'
<1>1. MarketsOf(got) \in SUBSET Markets
  BY Maps
<1>2. CASE BackfillChunk(got)
  <2>1. AfterChunk(backfill, got) \in Passes /\ Bare(AfterChunk(backfill, got)) \in Passes
    BY AfterChunkFields, BareFields DEF TypeInv
  <2>2. Pass("running", targeted) \in Passes
    BY PassFields DEF TypeInv, Phases
  <2>3. backfill' \in Passes /\ targeted' \in SUBSET Tokens
    BY <1>2, <2>1, <2>2 DEF BackfillChunk, TypeInv
  <2> QED
    BY <1>1, <1>2, <2>3 DEF BackfillChunk, Mark, TypeInv, control
<1>3. CASE ReconcileChunk(got)
  <2>1. AfterChunk(reconcile, got) \in Passes /\ Bare(AfterChunk(reconcile, got)) \in Passes
    BY AfterChunkFields, BareFields DEF TypeInv
  <2> QED
    BY <1>1, <1>3, <2>1 DEF ReconcileChunk, Mark, TypeInv, control
<1>4. CASE RefreshChunk(got)
  <2>1. AfterChunk(refresh, got) \in Passes
    BY AfterChunkFields DEF TypeInv
  <2>2. [AfterChunk(refresh, got) EXCEPT !.phase = "subscribing"] \in Passes
    BY <2>1, PhaseFields DEF Phases
  <2>3. refresh' \in Passes /\ subscribed' \in SUBSET Markets
    BY <1>4, <2>1, <2>2 DEF RefreshChunk, TypeInv
  <2> QED
    BY <1>1, <1>4, <2>3 DEF RefreshChunk, TypeInv, control, accumulator
<1> QED
  BY <1>2, <1>3, <1>4

\* Types, for the other steps of the refresh and the start of the backfill.
LEMMA RefreshTypes ==
    ASSUME TypeInv,
           (\E found \in Universes : RefreshFetched(found)) \/ RefreshDone \/ RefreshFails
           \/ BackfillStarts
    PROVE  TypeInv'
<1>1. ASSUME NEW found \in Universes, RefreshFetched(found) PROVE TypeInv'
  <2>1. found \in SUBSET Markets
    BY ScanAssumption
  <2>2. TokensOf(found \ universe) \in SUBSET Tokens
    BY <2>1, Maps
  <2>3. refresh' \in Passes
    BY <1>1, <2>2, PassFields DEF RefreshFetched, Phases
  <2>4. target' \in SUBSET Markets /\ subscribed' \in SUBSET Markets
    BY <1>1, <2>1 DEF RefreshFetched, TypeInv
  <2> QED
    BY <1>1, <2>3, <2>4 DEF RefreshFetched, TypeInv, control, accumulator, bounds
<1>2. CASE RefreshDone
  <2>1. refresh' \in Passes /\ refresh.seeded \in SUBSET Tokens
    BY <1>2, PhaseFields DEF RefreshDone, TypeInv, Passes, Phases
  <2> QED
    BY <1>2, <2>1 DEF RefreshDone, Mark, TypeInv, control, bounds
<1>3. CASE RefreshFails
  <2>1. refresh' \in Passes
    BY <1>3, PhaseFields DEF RefreshFails, TypeInv, Phases
  <2> QED
    BY <1>3, <2>1 DEF RefreshFails, TypeInv, control, accumulator, bounds
<1>4. CASE BackfillStarts
  <2>1. backfill' \in Passes
    BY <1>4, PassFields DEF BackfillStarts, TypeInv, Phases
  <2> QED
    BY <1>4, <2>1 DEF BackfillStarts, TypeInv, control, accumulator, bounds
<1> QED
  BY <1>1, <1>2, <1>3, <1>4

\* Types, for the messages, the connection, time and the signal.
LEMMA CallbackTypes ==
    ASSUME TypeInv,
           (\E t \in Tokens : WsMessage(t) \/ BookAges(t)) \/ Disconnected \/ StopRequested
    PROVE  TypeInv'
<1>1. ASSUME NEW t \in Tokens, WsMessage(t) PROVE TypeInv'
  BY <1>1, Maps DEF WsMessage, Mark, TypeInv, control, tasks
<1>2. ASSUME NEW t \in Tokens, BookAges(t) PROVE TypeInv'
  BY <1>2 DEF BookAges, TypeInv, control, tasks, accumulator
<1>3. CASE Disconnected
  <2>1. TokensOf(subscribed) \in SUBSET Tokens
    BY Maps DEF TypeInv
  <2> QED
    BY <1>3, <2>1 DEF Disconnected, Mark, TypeInv, control, tasks
<1>4. CASE StopRequested
  BY <1>4 DEF StopRequested, TypeInv, accumulator, tasks, bounds
<1> QED
  BY <1>1, <1>2, <1>3, <1>4

\* Types, for leaving the loop.
LEMMA StoppedTypes ==
    ASSUME TypeInv, Stopped
    PROVE  TypeInv'
  BY NoPassFields DEF Stopped, TypeInv, accumulator, bounds, Places

\* Types, for the main loop.
LEMMA LoopTypes ==
    ASSUME TypeInv, MainLoop
    PROVE  TypeInv'
<1>1. CASE LoopTop
  <2>1. backfill' \in Passes /\ refresh' \in Passes /\ reconcile' \in Passes
    BY <1>1, CollectedFields DEF LoopTop, CollectBackfill, CollectRefresh, TypeInv
  <2>2. universe' \in SUBSET Markets /\ pc' \in Places
    BY <1>1 DEF LoopTop, CollectRefresh, TypeInv, Places, Awaits
  <2> QED
    BY <1>1, <2>1, <2>2 DEF LoopTop, TypeInv, accumulator, bounds
<1>2. CASE LoopEnds
  BY <1>2, StoppedTypes DEF LoopEnds
<1>3. CASE WakesUp
  BY <1>3 DEF WakesUp, TypeInv, accumulator, tasks, bounds, Places, Awaits
<1>4. CASE TimesOut
  BY <1>4 DEF TimesOut, TypeInv, accumulator, tasks, bounds, Places, Awaits
<1>5. CASE TakeBatch
  BY <1>5 DEF TakeBatch, TakeNowait, TypeInv, tasks, bounds, Places, Awaits
<1>6. CASE CollectAgain
  <2>1. backfill' \in Passes /\ refresh' \in Passes
    BY <1>6, CollectedFields DEF CollectAgain, CollectBackfill, CollectRefresh, TypeInv
  <2>2. universe' \in SUBSET Markets /\ pc' \in Places
    BY <1>6 DEF CollectAgain, CollectRefresh, TypeInv, Places
  <2> QED
    BY <1>6, <2>1, <2>2 DEF CollectAgain, TypeInv, accumulator, bounds
<1>7. CASE Evaluate
  <2> DEFINE T == TokensOf(Hit(batch) \ Ready(batch, fresh))
  <2>1. T \in SUBSET Tokens /\ Schedule(T)
    BY <1>7, Maps DEF Evaluate, Hit, MarketsOf
  <2>2. targeted' \in SUBSET Tokens /\ backfill' \in Passes
    BY <2>1, ScheduleTypes
  <2>3. pc' \in Places
    BY <1>7 DEF Evaluate, Places
  <2> QED
    BY <1>7, <2>2, <2>3 DEF Evaluate, TypeInv, accumulator, bounds
<1>8. CASE EvaluateStops
  BY <1>8, StoppedTypes DEF EvaluateStops
<1>9. CASE NoRefreshYet
  BY <1>9 DEF NoRefreshYet, TypeInv, accumulator, tasks, bounds, Places
<1>10. CASE RefreshTimer
  <2>1. refresh' \in Passes
    BY <1>10, PassFields DEF RefreshTimer, StartRefresh, Phases
  <2> QED
    BY <1>10, <2>1 DEF RefreshTimer, StartRefresh, TypeInv, accumulator, Places
<1>11. CASE NoReconcileYet
  BY <1>11 DEF NoReconcileYet, TypeInv, accumulator, tasks, bounds, Places
<1>12. CASE ReconcileTimer
  <2>1. TokensOf(universe) \in SUBSET Tokens
    BY Maps DEF TypeInv
  <2>2. Pass("running", TokensOf(universe)) \in Passes
    BY <2>1, PassFields DEF Phases
  <2> QED
    BY <1>12, <2>2 DEF ReconcileTimer, TakeNowait, TypeInv, accumulator, bounds, Places
<1> QED
  BY <1>1, <1>2, <1>3, <1>4, <1>5, <1>6, <1>7, <1>8, <1>9, <1>10, <1>11, <1>12 DEF MainLoop

-----------------------------------------------------------------------------
(* The queue *)

\* Marking keeps event and set in step.
LEMMA MarkKeeps ==
    ASSUME TypeInv, QueueInv, NEW T, Mark(T)
    PROVE  dirty' # {} <=> event'
  BY DEF Mark, QueueInv, TypeInv

\* An ended pass has asked for everything, whatever came.
LEMMA BackfillDrains ==
    ASSUME TypeInv, NEW got \in SUBSET Tokens, BackfillChunk(got)
    PROVE  ~ Busy(backfill') => backfill'.todo = {}
<1> DEFINE a == AfterChunk(backfill, got)
<1>1. /\ a \in Passes
      /\ a.phase = "running" <=> a.todo # {}
  BY AfterChunkFields DEF TypeInv
<1> HIDE DEF a
<1>2. /\ Bare(a).phase = a.phase
      /\ a.phase # "done" => Bare(a) = a
      /\ a.phase = "done" => Bare(a).todo = {}
  BY <1>1, BareFields
<1>3. Pass("running", targeted).phase = "running"
  BY PassFields DEF TypeInv, Phases
<1>4. backfill' = Pass("running", targeted) \/ backfill' = Bare(a)
  BY DEF BackfillChunk, a
<1> QED
  BY <1>1, <1>2, <1>3, <1>4 DEF Busy

\* Nor does asking for more leave tokens to a pass that has ended.
LEMMA ScheduleKeeps ==
    ASSUME TypeInv, QueueInv, NEW T \in SUBSET Tokens, Schedule(T)
    PROVE  ~ Busy(backfill') => backfill'.todo = {}
  BY ScheduleTypes DEF QueueInv, Busy

\* No step parts the event from the dirty set, loses a batch or ends a backfill early.
LEMMA QueueStep ==
    ASSUME TypeInv, QueueInv, [Next]_vars
    PROVE  QueueInv'
<1>1. CASE UNCHANGED vars
  BY <1>1 DEF vars, QueueInv, Busy, control, accumulator, tasks
<1>2. ASSUME NEW t \in Tokens, WsMessage(t) PROVE QueueInv'
  BY <1>2, MarkKeeps DEF WsMessage, QueueInv, control, tasks, Busy
<1>3. ASSUME NEW t \in Tokens, BookAges(t) PROVE QueueInv'
  BY <1>3 DEF BookAges, QueueInv, control, tasks, accumulator, Busy
<1>4. CASE Disconnected
  BY <1>4, MarkKeeps DEF Disconnected, QueueInv, control, tasks, Busy
<1>5. CASE StopRequested
  BY <1>5 DEF StopRequested, QueueInv, tasks, accumulator, Busy
<1>6. ASSUME NEW got \in SUBSET Tokens, BootChunk(got) PROVE QueueInv'
  <2> DEFINE T == TokensOf(Hit(got) \ Ready(got, fresh \cup got))
  <2>1. T \in SUBSET Tokens /\ Schedule(T)
    BY <1>6, Maps DEF BootChunk, Hit, MarketsOf
  <2>2. ~ Busy(backfill') => backfill'.todo = {}
    BY <2>1, ScheduleKeeps
  <2>3. pc = "bootstrap" /\ pc' \in {"bootstrap", "top"} /\ batch' = batch
        /\ dirty' = dirty /\ event' = event
    BY <1>6 DEF BootChunk, accumulator
  <2> QED
    BY <2>2, <2>3 DEF QueueInv, Holding
<1>7. ASSUME NEW got \in SUBSET Tokens, BackfillChunk(got) PROVE QueueInv'
  BY <1>7, MarkKeeps, BackfillDrains DEF BackfillChunk, QueueInv, control
<1>8. ASSUME NEW got \in SUBSET Tokens, ReconcileChunk(got) PROVE QueueInv'
  BY <1>8, MarkKeeps DEF ReconcileChunk, QueueInv, control, Busy
<1>9. ASSUME NEW got \in SUBSET Tokens, RefreshChunk(got) PROVE QueueInv'
  BY <1>9 DEF RefreshChunk, QueueInv, control, accumulator, Busy
<1>10. ASSUME Stopped PROVE QueueInv'
  BY <1>10, NoPassFields DEF Stopped, QueueInv, accumulator, Holding
<1>11. CASE BackfillStarts
  <2>1. backfill'.phase = IF targeted = {} THEN "done" ELSE "running"
    BY <1>11, PassFields DEF BackfillStarts, TypeInv, Phases
  <2>2. backfill'.todo = targeted
    BY <1>11, PassFields DEF BackfillStarts, TypeInv, Phases
  <2> QED
    BY <1>11, <2>1, <2>2 DEF BackfillStarts, QueueInv, control, accumulator, Busy
<1>12. ASSUME NEW found \in Universes, RefreshFetched(found) PROVE QueueInv'
  BY <1>12 DEF RefreshFetched, QueueInv, control, accumulator, Busy
<1>13. CASE RefreshDone
  BY <1>13, MarkKeeps DEF RefreshDone, QueueInv, control, Busy
<1>14. CASE RefreshFails
  BY <1>14 DEF RefreshFails, QueueInv, control, accumulator, Busy
<1>15. CASE LoopTop \/ CollectAgain
  <2>1. ~ Busy(backfill') => backfill'.todo = {}
    BY <1>15, CollectedFields, NoPassFields
       DEF LoopTop, CollectAgain, CollectBackfill, QueueInv, TypeInv
  <2> QED
    BY <1>15, <2>1 DEF LoopTop, CollectAgain, QueueInv, accumulator, Holding
<1>16. CASE WakesUp
  BY <1>16 DEF WakesUp, QueueInv, accumulator, tasks, Holding, Busy
<1>17. CASE TimesOut
  BY <1>17 DEF TimesOut, QueueInv, accumulator, tasks, Holding, Busy
<1>18. CASE TakeBatch
  BY <1>18 DEF TakeBatch, TakeNowait, QueueInv, tasks, Holding, Busy
<1>19. CASE Evaluate
  <2> DEFINE T == TokensOf(Hit(batch) \ Ready(batch, fresh))
  <2>1. T \in SUBSET Tokens /\ Schedule(T)
    BY <1>19, Maps DEF Evaluate, Hit, MarketsOf
  <2>2. ~ Busy(backfill') => backfill'.todo = {}
    BY <2>1, ScheduleKeeps
  <2> QED
    BY <1>19, <2>2 DEF Evaluate, QueueInv, accumulator
<1>20. CASE NoRefreshYet \/ NoReconcileYet
  BY <1>20 DEF NoRefreshYet, NoReconcileYet, QueueInv, accumulator, tasks, Holding, Busy
<1>21. CASE RefreshTimer
  BY <1>21 DEF RefreshTimer, QueueInv, accumulator, Holding, Busy
<1>22. CASE ReconcileTimer
  BY <1>22 DEF ReconcileTimer, TakeNowait, QueueInv, accumulator, Holding, Busy
<1> QED
  BY <1>1, <1>2, <1>3, <1>4, <1>5, <1>6, <1>7, <1>8, <1>9, <1>10, <1>11, <1>12, <1>13, <1>14,
     <1>15, <1>16, <1>17, <1>18, <1>19, <1>20, <1>21, <1>22
     DEF Next, AnyChunk, MainLoop, BootFails, LoopEnds, EvaluateStops

-----------------------------------------------------------------------------
(* The refresh *)

\* Taking up the refreshed universe.
LEMMA CollectKeepsRefresh ==
    ASSUME TypeInv, RefreshInv, CollectRefresh, UNCHANGED <<subscribed, target>>
    PROVE  RefreshInv'
<1>1. CASE refresh.phase \in {"done", "failed"}
  <2>1. refresh'.phase = "none"
    BY <1>1, NoPassFields DEF CollectRefresh, Collected
  <2>2. universe' \subseteq subscribed'
    BY <1>1 DEF CollectRefresh, RefreshInv
  <2> QED
    BY <2>1, <2>2 DEF RefreshInv
<1>2. CASE refresh.phase \notin {"done", "failed"}
  <2>1. refresh' = refresh /\ universe' = universe
    BY <1>2 DEF CollectRefresh, Collected
  <2> QED
    BY <1>2, <2>1 DEF RefreshInv
<1> QED
  BY <1>1, <1>2

\* A refresh that starts, or is cancelled, has nothing yet.
LEMMA NewRefresh ==
    ASSUME RefreshInv, UNCHANGED <<universe, subscribed>>, refresh'.phase \in {"none", "fetching"}
    PROVE  RefreshInv'
  BY DEF RefreshInv

\* Nothing about the refresh changes, and nothing dirty is lost while it is done.
LEMMA SameRefresh ==
    ASSUME RefreshInv, UNCHANGED <<universe, subscribed, target, refresh>>,
           refresh.phase = "done" =>
               /\ pc' \in Collecting
               /\ dirty \cup (IF pc = "collect" THEN batch ELSE {})
                      \subseteq dirty' \cup (IF pc' = "collect" THEN batch' ELSE {})
    PROVE  RefreshInv'
  BY DEF RefreshInv

\* No step takes up a universe before it is subscribed, nor evaluates what the refresh
\* seeded before the loop has its universe.
LEMMA RefreshStep ==
    ASSUME TypeInv, QueueInv, RefreshInv, [Next]_vars
    PROVE  RefreshInv'
<1>1. CASE UNCHANGED vars
  BY <1>1, SameRefresh DEF vars, RefreshInv, control, accumulator, tasks
<1>2. ASSUME NEW t \in Tokens, WsMessage(t) PROVE RefreshInv'
  BY <1>2, SameRefresh DEF WsMessage, Mark, RefreshInv, control, tasks
<1>3. ASSUME NEW t \in Tokens, BookAges(t) PROVE RefreshInv'
  BY <1>3, SameRefresh DEF BookAges, RefreshInv, control, tasks, accumulator
<1>4. CASE Disconnected
  BY <1>4, SameRefresh DEF Disconnected, Mark, RefreshInv, control, tasks
<1>5. CASE StopRequested
  BY <1>5, SameRefresh DEF StopRequested, RefreshInv, tasks, accumulator
<1>6. ASSUME NEW got \in SUBSET Tokens, BootChunk(got) PROVE RefreshInv'
  <2>1. CASE refresh' = refresh
    <3>1. pc' \in Collecting /\ pc = "bootstrap" /\ pc' # "collect"
      BY <1>6 DEF BootChunk, Collecting, Awaits
    <3> QED
      BY <1>6, <2>1, <3>1, SameRefresh DEF BootChunk, accumulator
  <2>2. CASE refresh' # refresh
    <3>1. refresh' = Pass("fetching", {})
      BY <1>6, <2>2 DEF BootChunk, StartRefresh
    <3>2. refresh'.phase = "fetching"
      BY <3>1, PassFields DEF Phases
    <3> QED
      BY <1>6, <3>2, NewRefresh DEF BootChunk
  <2> QED
    BY <2>1, <2>2
<1>7. ASSUME NEW got \in SUBSET Tokens, BackfillChunk(got) PROVE RefreshInv'
  BY <1>7, SameRefresh DEF BackfillChunk, Mark, RefreshInv, control
<1>8. ASSUME NEW got \in SUBSET Tokens, ReconcileChunk(got) PROVE RefreshInv'
  BY <1>8, SameRefresh DEF ReconcileChunk, Mark, RefreshInv, control
<1>9. ASSUME NEW got \in SUBSET Tokens, RefreshChunk(got) PROVE RefreshInv'
  <2> DEFINE a == AfterChunk(refresh, got)
  <2>1. /\ a \in Passes /\ a.phase \in {"running", "failed", "done"}
        /\ a.todo \subseteq refresh.todo
    BY AfterChunkFields DEF TypeInv
  <2>2. /\ refresh.phase = "running" /\ universe' = universe /\ target' = target
        /\ subscribed' = IF a.phase = "done" THEN subscribed \cup target ELSE subscribed
        /\ refresh' = IF a.phase = "done" THEN [a EXCEPT !.phase = "subscribing"] ELSE a
    BY <1>9 DEF RefreshChunk
  <2> HIDE DEF a
  <2>3. [a EXCEPT !.phase = "subscribing"].phase = "subscribing"
    BY <2>1, PhaseFields DEF Phases
  <2>4. CASE a.phase = "done"
    BY <2>2, <2>3, <2>4 DEF RefreshInv
  <2>5. CASE a.phase # "done"
    BY <2>1, <2>2, <2>5 DEF RefreshInv
  <2> QED
    BY <2>4, <2>5
<1>10. ASSUME Stopped PROVE RefreshInv'
  BY <1>10, NoPassFields, NewRefresh DEF Stopped
<1>11. CASE BackfillStarts
  BY <1>11, SameRefresh DEF BackfillStarts, RefreshInv, control, accumulator
<1>12. ASSUME NEW found \in Universes, RefreshFetched(found) PROVE RefreshInv'
  <2> DEFINE added == TokensOf(found \ universe)
  <2>1. found \in SUBSET Markets
    BY ScanAssumption
  <2>2. added \in SUBSET Tokens
    BY <2>1, Maps
  <2>3. added \cap TokensOf(universe) = {}
    BY <2>1, ScanAssumption DEF TokensOf, TypeInv
  <2>4. /\ universe' = universe /\ target' = universe \cup found
        /\ subscribed' = IF added = {} THEN subscribed \cup target' ELSE subscribed
        /\ refresh' = IF added = {} THEN Pass("subscribing", {}) ELSE Pass("running", added)
    BY <1>12 DEF RefreshFetched
  <2> HIDE DEF added
  <2>5. CASE added = {}
    <3>1. refresh'.phase = "subscribing"
      BY <2>4, <2>5, PassFields DEF Phases
    <3> QED
      BY <2>4, <2>5, <3>1 DEF RefreshInv
  <2>6. CASE added # {}
    <3>1. refresh'.phase = "running" /\ refresh'.todo = added
      BY <2>2, <2>4, <2>6, PassFields DEF Phases
    <3> QED
      BY <2>3, <2>4, <2>6, <3>1 DEF RefreshInv
  <2> QED
    BY <2>5, <2>6
<1>13. CASE RefreshDone
  <2>1. /\ refresh.phase = "subscribing" /\ refresh'.phase = "done"
        /\ refresh'.seeded = refresh.seeded
    BY <1>13, PhaseFields DEF RefreshDone, TypeInv, Phases
  <2>2. /\ dirty' = dirty \cup refresh.seeded /\ pc' \in Awaits
        /\ UNCHANGED <<universe, subscribed, target>>
    BY <1>13 DEF RefreshDone, Mark, control
  <2> QED
    BY <2>1, <2>2 DEF RefreshInv, Collecting
<1>14. CASE RefreshFails
  <2>1. refresh'.phase = "failed"
    BY <1>14, PhaseFields DEF RefreshFails, TypeInv, Phases
  <2> QED
    BY <1>14, <2>1 DEF RefreshFails, RefreshInv
<1>15. CASE LoopTop \/ CollectAgain
  BY <1>15, CollectKeepsRefresh DEF LoopTop, CollectAgain
<1>16. CASE WakesUp
  BY <1>16, SameRefresh DEF WakesUp, accumulator, tasks, Collecting, Awaits
<1>17. CASE TimesOut
  BY <1>17, SameRefresh DEF TimesOut, accumulator, tasks, Collecting
<1>18. CASE TakeBatch
  BY <1>18, SameRefresh DEF TakeBatch, TakeNowait, tasks, Collecting
<1>19. CASE Evaluate
  <2>1. refresh.phase # "done"
    BY <1>19 DEF Evaluate, RefreshInv, Collecting, Awaits
  <2> QED
    BY <1>19, <2>1, SameRefresh DEF Evaluate
<1>20. CASE NoRefreshYet \/ NoReconcileYet
  <2>1. refresh.phase # "done"
    BY <1>20 DEF NoRefreshYet, NoReconcileYet, RefreshInv, Collecting, Awaits
  <2> QED
    BY <1>20, <2>1, SameRefresh DEF NoRefreshYet, NoReconcileYet, tasks
<1>21. CASE RefreshTimer
  <2>1. refresh'.phase = "fetching"
    BY <1>21, PassFields DEF RefreshTimer, StartRefresh, Phases
  <2> QED
    BY <1>21, <2>1, NewRefresh DEF RefreshTimer
<1>22. CASE ReconcileTimer
  <2>1. refresh.phase # "done"
    BY <1>22 DEF ReconcileTimer, RefreshInv, Collecting, Awaits
  <2> QED
    BY <1>22, <2>1, SameRefresh DEF ReconcileTimer
<1> QED
  BY <1>1, <1>2, <1>3, <1>4, <1>5, <1>6, <1>7, <1>8, <1>9, <1>10, <1>11, <1>12, <1>13, <1>14,
     <1>15, <1>16, <1>17, <1>18, <1>19, <1>20, <1>21, <1>22
     DEF Next, AnyChunk, MainLoop, BootFails, LoopEnds, EvaluateStops

-----------------------------------------------------------------------------
(* The invariant holds always *)

\* The scanner starts with nothing dirty and one pass, over its first universe.
LEMMA ScanInitially == Init => ScanInv
<1> SUFFICES ASSUME Init PROVE ScanInv
  OBVIOUS
<1>1. universe \in SUBSET Markets /\ complete \in BOOLEAN
  BY ScanAssumption DEF Init
<1>2. TokensOf(universe) \in SUBSET Tokens
  BY <1>1, Maps
<1>3. boot \in Passes
  BY <1>2, PassFields DEF Init, Phases
<1>4. TypeInv
  BY <1>1, <1>3, NoPassFields DEF Init, TypeInv, Places, Awaits
<1>5. QueueInv
  BY NoPassFields DEF Init, QueueInv
<1>6. RefreshInv
  BY NoPassFields DEF Init, RefreshInv
<1> QED
  BY <1>4, <1>5, <1>6 DEF ScanInv

\* No step leaves the invariant.
LEMMA ScanStep ==
    ASSUME ScanInv, [Next]_vars
    PROVE  ScanInv'
<1>1. TypeInv'
  <2>1. CASE UNCHANGED vars
    BY <2>1 DEF ScanInv, vars, TypeInv, control, accumulator, tasks
  <2>2. CASE BootFails \/ LoopEnds \/ EvaluateStops
    BY <2>2, StoppedTypes DEF ScanInv, BootFails, LoopEnds, EvaluateStops
  <2>3. CASE AnyChunk
    BY <2>3, BootTypes, TaskTypes DEF ScanInv, AnyChunk
  <2>4. CASE \/ (\E t \in Tokens : WsMessage(t) \/ BookAges(t))
             \/ Disconnected \/ StopRequested
    BY <2>4, CallbackTypes DEF ScanInv
  <2>5. CASE \/ (\E found \in Universes : RefreshFetched(found))
             \/ RefreshDone \/ RefreshFails \/ BackfillStarts
    BY <2>5, RefreshTypes DEF ScanInv
  <2>6. CASE MainLoop
    BY <2>6, LoopTypes DEF ScanInv
  <2> QED
    BY <2>1, <2>2, <2>3, <2>4, <2>5, <2>6 DEF Next
<1> QED
  BY <1>1, QueueStep, RefreshStep DEF ScanInv

\* The invariant holds in every state of the scanner loop.
LEMMA ScanInvariant == Spec => []ScanInv
  BY ScanInitially, ScanStep, PTL DEF Spec

\* Every variable of the loop has its type, the event of the accumulator is set exactly
\* when something is dirty (mark, take_nowait), and every market of the universe is
\* subscribed (the order of update_tokens and _finish_refresh_task_if_ready).
THEOREM ScanTypeCorrect == Spec => []TypeOK
<1>1. ScanInv => TypeOK
  BY DEF ScanInv, TypeInv, QueueInv, RefreshInv, TypeOK, Passes
<1> QED
  BY <1>1, ScanInvariant, PTL

-----------------------------------------------------------------------------
(* What a refresh adds *)

\* When the loop takes up a refreshed universe, every added market that was seeded is
\* dirty or in the batch in hand (_refresh_market_universe marks last, and
\* _finish_refresh_task_if_ready is called once more before the batch is evaluated).  A
\* refresh that is done is found at the top of the loop or when a batch was just taken,
\* never after an evaluation: the awaits lie before the second call.
THEOREM AddedDirty == Spec => AddedMarketsDirty
<1>1. ASSUME ScanInv, [Next]_vars, NEW m \in universe' \ universe,
             Pair[m] \cap refresh.seeded # {}
      PROVE  Pair[m] \cap (dirty' \cup batch') # {}
  <2>1. LoopTop \/ CollectAgain
    BY <1>1 DEF Next, AnyChunk, MainLoop, vars, WsMessage, BookAges, Disconnected,
                StopRequested, BootChunk, BackfillChunk, ReconcileChunk, RefreshChunk,
                BootFails, Stopped, BackfillStarts, RefreshFetched, RefreshDone,
                RefreshFails, LoopEnds, WakesUp, TimesOut, TakeBatch, Evaluate,
                EvaluateStops, NoRefreshYet, RefreshTimer, NoReconcileYet, ReconcileTimer
  <2>2. refresh.phase = "done"
    BY <1>1, <2>1 DEF LoopTop, CollectAgain, CollectRefresh
  <2>3. refresh.seeded \subseteq dirty \cup batch
    BY <1>1, <2>2 DEF ScanInv, RefreshInv
  <2>4. dirty' = dirty /\ batch' = batch
    BY <2>1 DEF LoopTop, CollectAgain, accumulator
  <2> QED
    BY <1>1, <2>3, <2>4
<1>2. ScanInv /\ [Next]_vars
      => [\A m \in universe' \ universe :
              Pair[m] \cap refresh.seeded # {} => Pair[m] \cap (dirty' \cup batch') # {}]_vars
  BY <1>1
<1> QED
  BY <1>2, ScanInvariant, PTL DEF Spec, AddedMarketsDirty

-----------------------------------------------------------------------------
(* Nothing that is due is forgotten *)

\* What a step may do with a market that is due.
Keeps(m) ==
    \/ Covered(m)'
    \/ OnlyInChunk(m) /\ backfill' # backfill
    \/ backfill'.phase = "failed"
    \/ pc' = "stopped"

\* Tokens move between the dirty set, the batch and the backfill, and none is dropped.
LEMMA StillCovered ==
    ASSUME NEW m \in Markets, Covered(m),
           dirty \cup batch \subseteq dirty' \cup batch',
           backfill.todo \subseteq backfill'.todo,
           targeted \subseteq targeted', Busy(backfill) => Busy(backfill')
    PROVE  Covered(m)'
  BY DEF Covered

\* A market with a dirty token is covered.
LEMMA DirtyCovers ==
    ASSUME NEW T, NEW m \in MarketsOf(T), T \subseteq dirty'
    PROVE  Covered(m)'
  BY DEF MarketsOf, Covered

\* So is a market whose tokens the backfill was just asked for.
LEMMA ScheduledCovers ==
    ASSUME TypeInv, NEW M \in SUBSET Markets, NEW m \in M, Schedule(TokensOf(M))
    PROVE  Covered(m)'
<1>1. Pair[m] # {} /\ Pair[m] \subseteq TokensOf(M)
  BY Maps DEF TokensOf
<1>2. TokensOf(M) \in SUBSET Tokens
  BY Maps
<1>3. targeted' = targeted \cup TokensOf(M) /\ (TokensOf(M) # {} => Busy(backfill'))
  BY <1>2, ScheduleTypes
<1> QED
  BY <1>1, <1>3 DEF Covered

\* Asking the backfill for more forgets nothing it had.
LEMMA ScheduleStillCovers ==
    ASSUME TypeInv, QueueInv, NEW m \in Markets, NEW T \in SUBSET Tokens, Schedule(T),
           Pair[m] \cap (dirty \cup backfill.todo
                           \cup IF Busy(backfill) THEN targeted ELSE {}) # {},
           dirty \subseteq dirty'
    PROVE  Covered(m)'
<1>1. CASE Busy(backfill)
  <2>1. backfill' = backfill /\ targeted \subseteq targeted'
    BY <1>1, ScheduleTypes
  <2> QED
    BY <1>1, <2>1 DEF Covered
<1>2. CASE ~ Busy(backfill)
  BY <1>2 DEF Covered, QueueInv
<1> QED
  BY <1>1, <1>2

\* A chunk of the backfill: what it brought is dirty; what it asked for and did not
\* get is all that may be let go.
LEMMA BackfillKeeps ==
    ASSUME TypeInv, NEW m \in Markets, NEW got \in SUBSET Tokens, BackfillChunk(got),
           m \in due', Covered(m) \/ m \notin due
    PROVE  Keeps(m)
<1> DEFINE a == AfterChunk(backfill, got)
<1>1. /\ a \in Passes
      /\ a.todo = backfill.todo \ Chunk(backfill.todo)
      /\ a.phase \in {"running", "failed", "done"}
      /\ a.phase = "running" <=> a.todo # {}
  BY AfterChunkFields DEF TypeInv
<1>2. /\ backfill.phase = "running" /\ backfill.todo # {} /\ Mark(got) /\ batch' = batch
      /\ due' = due \cup MarketsOf(got)
      /\ IF a.phase = "done" /\ targeted # {}
         THEN backfill' = Pass("running", targeted) /\ targeted' = {}
         ELSE backfill' = Bare(a) /\ UNCHANGED targeted
  BY DEF BackfillChunk, control
<1> HIDE DEF a
<1>3. /\ Bare(a).phase = a.phase
      /\ a.phase # "done" => Bare(a) = a
  BY <1>1, BareFields
<1>4. dirty' = dirty \cup got
  BY <1>2 DEF Mark
<1>5. CASE m \in MarketsOf(got)
  <2>1. got \subseteq dirty'
    BY <1>4
  <2> QED
    BY <1>5, <2>1, DirtyCovers DEF Keeps
<1>6. CASE m \notin MarketsOf(got)
  <2>1. Pair[m] \cap (dirty \cup batch \cup backfill.todo \cup targeted) # {}
    BY <1>2, <1>6 DEF Covered
  <2>2. CASE Pair[m] \cap (dirty \cup batch) # {}
    BY <1>2, <1>4, <2>2 DEF Keeps, Covered
  <2>3. CASE a.phase = "failed"
    BY <1>2, <1>3, <2>3 DEF Keeps
  <2>4. CASE Pair[m] \cap (dirty \cup batch) = {} /\ a.phase = "done" /\ targeted # {}
    <3>1. backfill'.todo = targeted /\ backfill' = Pass("running", targeted)
      BY <1>2, <2>4, PassFields DEF TypeInv, Phases
    <3>2. CASE Pair[m] \cap targeted # {}
      BY <3>1, <3>2 DEF Keeps, Covered
    <3>3. CASE Pair[m] \cap targeted = {}
      <4>1. OnlyInChunk(m)
        BY <1>1, <2>4, <3>3 DEF OnlyInChunk
      <4>2. backfill' # backfill
        BY <2>1, <2>4, <3>1, <3>3
      <4> QED
        BY <4>1, <4>2 DEF Keeps
    <3> QED
      BY <3>2, <3>3
  <2>5. CASE Pair[m] \cap (dirty \cup batch) = {} /\ a.phase = "done" /\ targeted = {}
    <3>1. OnlyInChunk(m)
      BY <1>1, <2>5 DEF OnlyInChunk
    <3>2. backfill'.phase = "done"
      BY <1>2, <1>3, <2>5
    <3> QED
      BY <1>2, <3>1, <3>2 DEF Keeps
  <2>6. CASE Pair[m] \cap (dirty \cup batch) = {} /\ a.phase = "running"
    <3>1. backfill' = a /\ targeted' = targeted
      BY <1>2, <1>3, <2>6
    <3>2. Busy(backfill')
      BY <2>6, <3>1 DEF Busy
    <3>3. CASE Pair[m] \cap (a.todo \cup targeted) # {}
      BY <3>1, <3>2, <3>3 DEF Keeps, Covered
    <3>4. CASE Pair[m] \cap (a.todo \cup targeted) = {}
      <4>1. OnlyInChunk(m)
        BY <1>1, <2>6, <3>4 DEF OnlyInChunk
      <4>2. backfill'.todo # backfill.todo
        BY <1>1, <2>1, <2>6, <3>1, <3>4
      <4> QED
        BY <4>1, <4>2 DEF Keeps
    <3> QED
      BY <3>3, <3>4
  <2> QED
    BY <1>1, <2>2, <2>3, <2>4, <2>5, <2>6
<1> QED
  BY <1>5, <1>6

\* The reconcile marks what it brought.
LEMMA ReconcileKeeps ==
    ASSUME NEW m \in Markets, NEW got \in SUBSET Tokens, ReconcileChunk(got),
           m \in due', Covered(m) \/ m \notin due
    PROVE  Keeps(m)
<1>1. got \subseteq dirty' /\ dirty \cup batch \subseteq dirty' \cup batch'
  BY DEF ReconcileChunk, Mark, control
<1>2. CASE m \in MarketsOf(got)
  BY <1>1, <1>2, DirtyCovers DEF Keeps
<1>3. CASE m \notin MarketsOf(got)
  BY <1>1, <1>3, StillCovered DEF ReconcileChunk, Keeps, Busy
<1> QED
  BY <1>2, <1>3

\* The refresh reads books of markets only that the loop does not have yet.
LEMMA RefreshKeeps ==
    ASSUME TypeInv, RefreshInv, NEW m \in universe, NEW got \in SUBSET Tokens,
           RefreshChunk(got), m \in due', Covered(m) \/ m \notin due
    PROVE  Keeps(m)
<1>1. got \subseteq refresh.todo
  BY BringsWithin DEF RefreshChunk
<1>2. got \cap TokensOf(universe) = {}
  BY <1>1 DEF RefreshChunk, RefreshInv
<1>3. m \notin MarketsOf(got)
  BY <1>2 DEF MarketsOf, TokensOf
<1>4. Covered(m) /\ m \in Markets
  BY <1>3 DEF RefreshChunk, TypeInv
<1> QED
  BY <1>4, StillCovered DEF RefreshChunk, Keeps, Busy, control, accumulator

\* The bootstrap evaluates what it can and asks the backfill for the rest.
LEMMA BootKeeps ==
    ASSUME TypeInv, QueueInv, NEW m \in universe, NEW got \in SUBSET Tokens,
           BootChunk(got), m \in due', Covered(m) \/ m \notin due
    PROVE  Keeps(m)
<1> DEFINE current == fresh \cup got
           ready == Ready(got, current)
           M == Hit(got) \ ready
<1>1. m \in Markets /\ M \in SUBSET Markets /\ TokensOf(M) \in SUBSET Tokens
  BY Maps DEF TypeInv, Hit, MarketsOf
<1>2. /\ Schedule(TokensOf(M)) /\ dirty' = dirty /\ batch = {}
      /\ m \in due \cup MarketsOf(got)
  BY DEF BootChunk, accumulator, QueueInv, Holding
<1>3. m \notin ready
  BY DEF BootChunk
<1>4. CASE m \in MarketsOf(got)
  <2>1. m \in M
    BY <1>3, <1>4 DEF Hit
  <2> HIDE DEF M
  <2> QED
    BY <1>1, <1>2, <2>1, ScheduledCovers DEF Keeps
<1>5. CASE m \notin MarketsOf(got)
  <2>1. Covered(m)
    BY <1>2, <1>5
  <2>2. Pair[m] \cap (dirty \cup backfill.todo
                        \cup IF Busy(backfill) THEN targeted ELSE {}) # {}
    BY <1>2, <2>1 DEF Covered
  <2> HIDE DEF M
  <2> QED
    BY <1>1, <1>2, <2>2, ScheduleStillCovers DEF Keeps
<1> QED
  BY <1>4, <1>5

\* The batch is evaluated, or asked for.
LEMMA EvaluateKeeps ==
    ASSUME TypeInv, QueueInv, NEW m \in universe, Evaluate, m \in due', Covered(m)
    PROVE  Keeps(m)
<1> DEFINE M == Hit(batch) \ Ready(batch, fresh)
<1>1. m \in Markets /\ M \in SUBSET Markets /\ TokensOf(M) \in SUBSET Tokens
  BY Maps DEF TypeInv, Hit, MarketsOf
<1>2. Schedule(TokensOf(M)) /\ dirty' = dirty /\ m \notin Ready(batch, fresh)
  BY DEF Evaluate, accumulator
<1>3. CASE Pair[m] \cap batch # {}
  <2>1. m \in M
    BY <1>1, <1>2, <1>3 DEF Hit, MarketsOf
  <2> HIDE DEF M
  <2> QED
    BY <1>1, <1>2, <2>1, ScheduledCovers DEF Keeps
<1>4. CASE Pair[m] \cap batch = {}
  <2>1. Pair[m] \cap (dirty \cup backfill.todo
                        \cup IF Busy(backfill) THEN targeted ELSE {}) # {}
    BY <1>4 DEF Covered
  <2> HIDE DEF M
  <2> QED
    BY <1>1, <1>2, <2>1, ScheduleStillCovers DEF Keeps
<1> QED
  BY <1>3, <1>4

\* An ended backfill had nothing left, so collecting it forgets nothing.
LEMMA CollectKeeps ==
    ASSUME TypeInv, QueueInv, NEW m \in Markets, Covered(m), CollectBackfill,
           UNCHANGED <<dirty, batch, targeted>>
    PROVE  Keeps(m)
<1>1. CASE Busy(backfill)
  <2>1. backfill' = backfill
    BY <1>1, CollectedFields DEF CollectBackfill, TypeInv
  <2> QED
    BY <1>1, <2>1, StillCovered DEF Keeps
<1>2. CASE ~ Busy(backfill)
  <2>1. Pair[m] \cap (dirty \cup batch) # {}
    BY <1>2 DEF Covered, QueueInv
  <2> QED
    BY <2>1 DEF Keeps, Covered
<1> QED
  BY <1>1, <1>2

\* A market of the loop's universe that is due stays in the accumulator, in the batch in
\* hand or in the backfill, in every step and for any number of markets and messages,
\* until it is evaluated, its backfill comes back without its books or the scanner stops
\* (mark and take_nowait around the awaits, _schedule_targeted_backfill).
THEOREM NothingForgottenHolds == Spec => NothingForgotten
<1>1. ASSUME ScanInv, [Next]_vars, NEW m \in universe, m \in due',
             Covered(m) \/ m \notin due
      PROVE  Keeps(m)
  <2> USE <1>1 DEF ScanInv
  <2>0. m \in Markets
    BY DEF TypeInv
  <2>1. CASE UNCHANGED vars
    BY <2>0, <2>1, StillCovered DEF vars, Keeps, Busy, control, accumulator, tasks
  <2>2. ASSUME NEW t \in Tokens, WsMessage(t) PROVE Keeps(m)
    <3>1. {t} \subseteq dirty'
      BY <2>2 DEF WsMessage, Mark
    <3>2. CASE m \in MarketsOf({t})
      BY <3>1, <3>2, DirtyCovers DEF Keeps
    <3>3. CASE m \notin MarketsOf({t})
      BY <2>0, <2>2, <3>3, StillCovered DEF WsMessage, Mark, Keeps, Busy, control, tasks
    <3> QED
      BY <3>2, <3>3
  <2>3. ASSUME NEW t \in Tokens, BookAges(t) PROVE Keeps(m)
    BY <2>0, <2>3, StillCovered DEF BookAges, Keeps, Busy, control, accumulator, tasks
  <2>4. CASE Disconnected
    <3>1. CASE m \in subscribed
      <4>1. Pair[m] # {} /\ Pair[m] \subseteq dirty'
        BY <2>0, <2>4, <3>1, Maps DEF Disconnected, Mark, TokensOf
      <4> QED
        BY <4>1 DEF Keeps, Covered
    <3>2. CASE m \notin subscribed
      BY <2>0, <2>4, <3>2, StillCovered DEF Disconnected, Mark, Keeps, Busy, control, tasks
    <3> QED
      BY <3>1, <3>2
  <2>5. CASE StopRequested
    BY <2>0, <2>5, StillCovered DEF StopRequested, Keeps, Busy, accumulator, tasks
  <2>6. CASE AnyChunk
    BY <2>0, <2>6, BootKeeps, BackfillKeeps, ReconcileKeeps, RefreshKeeps DEF AnyChunk
  <2>7. CASE BootFails \/ LoopEnds \/ EvaluateStops
    BY <2>7 DEF BootFails, LoopEnds, EvaluateStops, Stopped, Keeps
  <2>8. CASE BackfillStarts
    <3>1. backfill.todo = {} /\ backfill'.todo = targeted
      BY <2>8, PassFields DEF BackfillStarts, TypeInv, Phases
    <3>2. due' = due /\ dirty' = dirty /\ batch' = batch
      BY <2>8 DEF BackfillStarts, control, accumulator
    <3> QED
      BY <3>1, <3>2 DEF Covered, Keeps
  <2>9. ASSUME NEW found \in Universes, RefreshFetched(found) PROVE Keeps(m)
    BY <2>0, <2>9, StillCovered DEF RefreshFetched, Keeps, Busy, control, accumulator
  <2>10. CASE RefreshDone
    BY <2>0, <2>10, StillCovered DEF RefreshDone, Mark, Keeps, Busy, control
  <2>11. CASE RefreshFails
    BY <2>0, <2>11, StillCovered DEF RefreshFails, Keeps, Busy, control, accumulator
  <2>12. CASE LoopTop \/ CollectAgain
    BY <2>0, <2>12, CollectKeeps DEF LoopTop, CollectAgain, accumulator
  <2>13. CASE WakesUp \/ NoRefreshYet \/ NoReconcileYet
    BY <2>0, <2>13, StillCovered
       DEF WakesUp, NoRefreshYet, NoReconcileYet, Keeps, Busy, accumulator, tasks
  <2>14. CASE TimesOut
    <3>1. batch = {}
      BY <2>14 DEF TimesOut, QueueInv, Holding
    <3> QED
      BY <2>0, <2>14, <3>1, StillCovered DEF TimesOut, Keeps, Busy, accumulator, tasks
  <2>15. CASE TakeBatch
    <3>1. batch = {}
      BY <2>15 DEF TakeBatch, QueueInv, Holding
    <3> QED
      BY <2>0, <2>15, <3>1, StillCovered DEF TakeBatch, TakeNowait, Keeps, Busy, tasks
  <2>16. CASE Evaluate
    <3>1. m \in due
      BY <2>16 DEF Evaluate
    <3> QED
      BY <2>16, <3>1, EvaluateKeeps
  <2>17. CASE RefreshTimer
    BY <2>0, <2>17, StillCovered DEF RefreshTimer, Keeps, Busy, accumulator
  <2>18. CASE ReconcileTimer
    <3>1. batch = {}
      BY <2>18 DEF ReconcileTimer, QueueInv, Holding
    <3> QED
      BY <2>0, <2>18, <3>1, StillCovered
         DEF ReconcileTimer, TakeNowait, Keeps, Busy, accumulator
  <2> QED
    BY <2>1, <2>2, <2>3, <2>4, <2>5, <2>6, <2>7, <2>8, <2>9, <2>10, <2>11, <2>12, <2>13,
       <2>14, <2>15, <2>16, <2>17, <2>18 DEF Next, MainLoop
<1>2. ScanInv /\ [Next]_vars
      => [\A m \in universe :
             m \in due' /\ (Covered(m) \/ m \notin due)
             => \/ Covered(m)'
                \/ OnlyInChunk(m) /\ backfill' # backfill
                \/ backfill'.phase = "failed"
                \/ pc' = "stopped"]_vars
  BY <1>1 DEF Keeps
<1> QED
  BY <1>2, ScanInvariant, PTL DEF Spec, NothingForgotten

=============================================================================
