-------------------------- MODULE AsyncLoggerProofs --------------------------
(***************************************************************************)
(* The pipeline loses no entry silently and drains on shutdown, for any    *)
(* number of requests and workers, any sizes, and whatever PostgreSQL      *)
(* refuses or fails to do.                                                 *)
(***************************************************************************)
EXTENDS AsyncLogger, FiniteSetTheorems, TLAPS

\* How far the shutdown is: a worker in its last flush has seen the channel
\* empty after quit was closed, so whatever is in it now came late.
Draining ==
  /\ QuitClosed => \A e \in Entry : handler[e] = "serving" => e \in late
  /\ main \in {"closed", "panicked"} => \A w \in Worker : stage[w] = "gone"
  /\ \A w \in Worker :
       /\ stage[w] # "serve" => QuitClosed \/ main = "killed"
       /\ stage[w] \in {"last", "gone"} => buffer \subseteq late
       /\ stage[w] \in {"last", "gone"} /\ io[w] = "none" => batch[w] = {}
       /\ stage[w] = "gone" => io[w] = "none"

IInv == TypeOK /\ Conservation /\ WithinSizes /\ Draining

LEMMA EntriesFinite ==
  ASSUME NEW S, S \subseteq Entry
  PROVE  /\ IsFiniteSet(S) /\ Cardinality(S) \in Nat
         /\ \A x : Cardinality(S \union {x}) \in Nat
                   /\ Cardinality(S \union {x}) <= Cardinality(S) + 1
         /\ \A x : Cardinality(S \ {x}) \in Nat
                   /\ Cardinality(S \ {x}) <= Cardinality(S)
<1>1. IsFiniteSet(S) /\ Cardinality(S) \in Nat
  BY LoggerAssumption, FS_Subset, FS_CardinalityType
<1>2. ASSUME NEW x
      PROVE  Cardinality(S \union {x}) \in Nat
             /\ Cardinality(S \union {x}) <= Cardinality(S) + 1
  BY <1>1, FS_AddElement
<1>3. ASSUME NEW x
      PROVE  Cardinality(S \ {x}) \in Nat /\ Cardinality(S \ {x}) <= Cardinality(S)
  BY <1>1, FS_Subset, FS_CardinalityType
<1> QED
  BY <1>1, <1>2, <1>3

LEMMA InitInv == Init => IInv
<1> SUFFICES ASSUME Init PROVE IInv
  OBVIOUS
<1>1. TypeOK
  BY DEF Init, TypeOK
<1>2. Conservation
  BY DEF Init, Conservation, Offered, Places, Held
<1>3. WithinSizes
  BY FS_EmptySet, LoggerAssumption DEF Init, WithinSizes
<1>4. Draining
  BY DEF Init, Draining, QuitClosed
<1> QED
  BY <1>1, <1>2, <1>3, <1>4 DEF IInv

\* A step that moves no entry keeps Conservation.
LEMMA NothingMoves ==
  ASSUME Conservation, Offered' = Offered, buffer' = buffer,
         stored' = stored, lost' = lost, dropped' = dropped,
         \A w \in Worker : Held(w)' = Held(w)
  PROVE  Conservation'
BY DEF Conservation, Places

LEMMA HandlerInv ==
  ASSUME IInv, NEW e \in Entry, Arrive(e) \/ HandlerStep(e)
  PROVE  IInv'
<1> USE DEF IInv, TypeOK, workers, fate, stats
<1>1. CASE Arrive(e)
  <2>1. TypeOK'
    BY <1>1 DEF Arrive
  <2>2. /\ Offered' = Offered /\ \A w \in Worker : Held(w)' = Held(w)
    BY <1>1 DEF Arrive, Offered, Held
  <2>3. Conservation'
    BY <1>1, <2>2, NothingMoves DEF Arrive
  <2>4. WithinSizes'
    BY <1>1 DEF Arrive, WithinSizes
  <2>5. Draining'
    BY <1>1 DEF Arrive, Draining, QuitClosed
  <2> QED
    BY <2>1, <2>3, <2>4, <2>5
<1>2. CASE LogEnqueues(e)
  <2>1. TypeOK'
    BY <1>2 DEF LogEnqueues
  <2>2. /\ e \notin Offered /\ Offered' = Offered \union {e}
        /\ \A w \in Worker : Held(w)' = Held(w)
    BY <1>2 DEF LogEnqueues, Offered, Held
  <2>3. Conservation'
    BY <1>2, <2>2 DEF LogEnqueues, Conservation, Places
  <2>4. WithinSizes'
    <3>1. buffer \subseteq Entry /\ Cardinality(buffer) < BufferSize
          /\ buffer' = buffer \union {e}
      BY <1>2 DEF LogEnqueues
    <3>2. /\ Cardinality(buffer) \in Nat /\ Cardinality(buffer \union {e}) \in Nat
          /\ Cardinality(buffer \union {e}) <= Cardinality(buffer) + 1
      BY <3>1, EntriesFinite
    <3>3. Cardinality(buffer \union {e}) <= BufferSize
      BY <3>1, <3>2, LoggerAssumption
    <3> QED
      BY <1>2, <3>1, <3>3 DEF LogEnqueues, WithinSizes
  <2>5. Draining'
    BY <1>2 DEF LogEnqueues, Draining, QuitClosed, Alive
  <2> QED
    BY <2>1, <2>3, <2>4, <2>5
<1>3. CASE LogDrops(e)
  <2>1. TypeOK'
    BY <1>3 DEF LogDrops
  <2>2. /\ e \notin Offered /\ Offered' = Offered \union {e}
        /\ \A w \in Worker : Held(w)' = Held(w)
    BY <1>3 DEF LogDrops, Offered, Held
  <2>3. Conservation'
    BY <1>3, <2>2 DEF LogDrops, Conservation, Places
  <2>4. WithinSizes'
    BY <1>3 DEF LogDrops, WithinSizes
  <2>5. Draining'
    BY <1>3 DEF LogDrops, Draining, QuitClosed
  <2> QED
    BY <2>1, <2>3, <2>4, <2>5
<1>4. CASE CountDrop(e)
  <2>1. TypeOK'
    BY <1>4 DEF CountDrop
  <2>2. Offered' = Offered /\ \A w \in Worker : Held(w)' = Held(w)
    BY <1>4 DEF CountDrop, Offered, Held
  <2>3. Conservation'
    BY <1>4, <2>2, NothingMoves DEF CountDrop
  <2>4. WithinSizes'
    BY <1>4 DEF CountDrop, WithinSizes
  <2>5. Draining'
    BY <1>4 DEF CountDrop, Draining, QuitClosed
  <2> QED
    BY <2>1, <2>3, <2>4, <2>5
<1> QED
  BY <1>1, <1>2, <1>3, <1>4 DEF HandlerStep

LEMMA ReceiveInv ==
  ASSUME IInv, NEW w \in Worker, NEW e \in Entry, Receive(w, e)
  PROVE  IInv'
<1> USE DEF IInv, TypeOK, fate, stats
<1>1. /\ batch' = [batch EXCEPT ![w] = batch[w] \union {e}]
      /\ batch'[w] = batch[w] \union {e}
      /\ io'[w] \in {"none", "insert"} /\ io[w] = "none"
      /\ \A v \in Worker \ {w} : batch'[v] = batch[v] /\ io'[v] = io[v]
  BY DEF Receive, Ready
<1>2. TypeOK'
  BY <1>1 DEF Receive
<1>3. /\ Held(w)' = Held(w) \union {e}
      /\ \A v \in Worker \ {w} : Held(v)' = Held(v)
      /\ buffer' = buffer \ {e} /\ e \in buffer
      /\ Offered' = Offered
  BY <1>1 DEF Receive, Held, Offered
<1>4. Conservation'
  BY <1>3 DEF Receive, Conservation, Places
<1>5. WithinSizes'
  <2>1. Cardinality(buffer') <= BufferSize
    <3>1. buffer \subseteq Entry /\ Cardinality(buffer) <= BufferSize
      BY DEF WithinSizes
    <3>2. /\ Cardinality(buffer) \in Nat /\ Cardinality(buffer \ {e}) \in Nat
          /\ Cardinality(buffer \ {e}) <= Cardinality(buffer)
      BY <3>1, EntriesFinite
    <3>3. Cardinality(buffer \ {e}) <= BufferSize
      BY <3>1, <3>2, LoggerAssumption
    <3> QED
      BY <1>3, <3>3
  <2>2. Cardinality(batch'[w]) <= BatchSize
    <3>1. Cardinality(batch[w]) < BatchSize
      BY <1>1 DEF WithinSizes
    <3>2. batch[w] \subseteq Entry
      OBVIOUS
    <3> QED
      BY <1>1, <3>1, <3>2, EntriesFinite, LoggerAssumption
  <2>3. io'[w] = "none" => Cardinality(batch'[w]) < BatchSize
    <3>1. batch'[w] \subseteq Entry
      BY <1>1
    <3>2. Cardinality(batch'[w]) \in Nat
      BY <3>1, EntriesFinite
    <3> QED
      BY <3>2, LoggerAssumption DEF Receive
  <2> QED
    BY <1>1, <2>1, <2>2, <2>3 DEF WithinSizes
<1>6. Draining'
  BY <1>1 DEF Receive, Ready, Draining, QuitClosed
<1> QED
  BY <1>2, <1>4, <1>5, <1>6

\* The worker's steps that move no entry.
LEMMA WorkerMovesInv ==
  ASSUME IInv, NEW w \in Worker,
         TickFlush(w) \/ SeeQuit(w) \/ DrainEnds(w) \/ Exit(w)
  PROVE  IInv'
<1> USE DEF IInv, TypeOK, fate, stats, Ready
<1>1. TypeOK'
  BY DEF TickFlush, SeeQuit, DrainEnds, Exit
<1>2. /\ io[w] = "none" /\ io'[w] \in {"none", "insert"} /\ batch' = batch
      /\ \A v \in Worker \ {w} : io'[v] = io[v] /\ stage'[v] = stage[v]
      /\ buffer' = buffer /\ main' = main /\ late' = late /\ handler' = handler
      /\ stored' = stored /\ lost' = lost /\ dropped' = dropped
  BY DEF TickFlush, SeeQuit, DrainEnds, Exit
<1>3. Conservation'
  <2>1. Offered' = Offered /\ \A v \in Worker : Held(v)' = Held(v)
    BY <1>2 DEF Offered, Held
  <2> QED
    BY <1>2, <2>1, NothingMoves
<1>4. WithinSizes'
  BY <1>2 DEF WithinSizes
<1>5. Draining'
  <2>1. CASE TickFlush(w)
    BY <2>1 DEF TickFlush, Draining, QuitClosed
  <2>2. CASE SeeQuit(w)
    BY <2>2 DEF SeeQuit, Draining, QuitClosed
  <2>3. CASE DrainEnds(w)
    BY <2>3 DEF DrainEnds, Draining, QuitClosed
  <2>4. CASE Exit(w)
    BY <2>4 DEF Exit, Draining, QuitClosed
  <2> QED
    BY <2>1, <2>2, <2>3, <2>4
<1> QED
  BY <1>1, <1>3, <1>4, <1>5

LEMMA FlushInv ==
  ASSUME IInv, NEW w \in Worker,
         Commits(w) \/ CommitsInDoubt(w) \/ RollsBack(w)
  PROVE  IInv'
<1> USE DEF IInv, TypeOK, fate, stats, Insert
<1>1. TypeOK'
  BY DEF Commits, CommitsInDoubt, RollsBack
<1>2. /\ io[w] = "insert" /\ io'[w] \in {"count", "error"} /\ batch' = batch
      /\ \A v \in Worker \ {w} : io'[v] = io[v]
      /\ buffer' = buffer /\ main' = main /\ late' = late /\ handler' = handler
      /\ stage' = stage /\ dropped' = dropped
      /\ \/ stored' = stored \union batch[w] /\ lost' = lost
         \/ stored' = stored /\ lost' = lost \union batch[w]
  BY DEF Commits, CommitsInDoubt, RollsBack
<1>3. /\ Held(w) = batch[w] /\ Held(w)' = {}
      /\ \A v \in Worker \ {w} : Held(v)' = Held(v)
      /\ Offered' = Offered
  BY <1>2 DEF Held, Offered
<1>4. Conservation'
  <2>1. CASE stored' = stored \union Held(w) /\ lost' = lost
    BY <1>2, <1>3, <2>1 DEF Conservation, Places
  <2>2. CASE stored' = stored /\ lost' = lost \union Held(w)
    BY <1>2, <1>3, <2>2 DEF Conservation, Places
  <2> QED
    BY <1>2, <1>3, <2>1, <2>2
<1>5. WithinSizes'
  BY <1>2 DEF WithinSizes
<1>6. Draining'
  BY <1>2 DEF Draining, QuitClosed
<1> QED
  BY <1>1, <1>4, <1>5, <1>6

LEMMA CountInv ==
  ASSUME IInv, NEW w \in Worker, CountLogged(w) \/ CountError(w)
  PROVE  IInv'
<1> USE DEF IInv, TypeOK, fate, stats, Flushed
<1>0. batch[w] \subseteq Entry /\ Cardinality(batch[w]) \in Nat
  BY EntriesFinite
<1>1. TypeOK'
  BY <1>0 DEF CountLogged, CountError
<1>2. /\ io[w] \in {"count", "error"} /\ io'[w] = "none" /\ batch'[w] = {}
      /\ \A v \in Worker \ {w} : io'[v] = io[v] /\ batch'[v] = batch[v]
      /\ buffer' = buffer /\ main' = main /\ late' = late /\ handler' = handler
      /\ stage' = stage /\ stored' = stored /\ lost' = lost /\ dropped' = dropped
  BY DEF CountLogged, CountError
<1>3. Conservation'
  <2>1. Offered' = Offered /\ \A v \in Worker : Held(v)' = Held(v)
    BY <1>2 DEF Offered, Held
  <2> QED
    BY <1>2, <2>1, NothingMoves
<1>4. WithinSizes'
  BY <1>2, FS_EmptySet, LoggerAssumption DEF WithinSizes
<1>5. Draining'
  BY <1>2 DEF Draining, QuitClosed
<1> QED
  BY <1>1, <1>3, <1>4, <1>5

LEMMA MainInv ==
  ASSUME IInv, Signal \/ Stop \/ Kill \/ UNCHANGED vars
  PROVE  IInv'
<1> USE DEF IInv, TypeOK, Main, workers, fate, stats, vars, Stop, Signal, CloseLogger, Join,
            DeferredClose, Kill
<1>1. TypeOK'
  OBVIOUS
<1>2. /\ buffer' = buffer /\ handler' = handler /\ stage' = stage /\ io' = io
      /\ batch' = batch /\ stored' = stored /\ lost' = lost /\ dropped' = dropped
  OBVIOUS
<1>3. Conservation'
  <2>1. Offered' = Offered /\ \A v \in Worker : Held(v)' = Held(v)
    BY <1>2 DEF Offered, Held
  <2> QED
    BY <1>2, <2>1, NothingMoves
<1>4. WithinSizes'
  BY <1>2 DEF WithinSizes
<1>5. Draining'
  BY DEF Draining, QuitClosed, Alive
<1> QED
  BY <1>1, <1>3, <1>4, <1>5

LEMMA NextInv == IInv /\ [Next]_vars => IInv'
BY HandlerInv, ReceiveInv, WorkerMovesInv, FlushInv, CountInv, MainInv DEF Next, WorkerStep

\* Every counter, channel and batch keeps its type.
THEOREM LoggerTyped == Spec => []TypeOK
<1>1. IInv => TypeOK
  BY DEF IInv
<1> QED
  BY <1>1, InitInv, NextInv, PTL DEF Spec

\* Every entry a handler offered is in exactly one place: the channel, one
\* worker's batch, the database, a failed transaction or the dropped ones.
THEOREM EntriesConserved == Spec => [](TypeOK /\ Conservation)
<1>1. IInv => TypeOK /\ Conservation
  BY DEF IInv
<1> QED
  BY <1>1, InitInv, NextInv, PTL DEF Spec

\* The channel and the batches never outgrow their configured sizes.
THEOREM SizesRespected == Spec => []WithinSizes
<1>1. IInv => WithinSizes
  BY DEF IInv
<1> QED
  BY <1>1, InitInv, NextInv, PTL DEF Spec

\* Once main has waited for the workers, memory holds nothing but entries of
\* handlers that outlived Shutdown.
THEOREM ShutdownDrains == Spec => []NothingLeftBehind
<1>1. IInv => NothingLeftBehind
  <2> SUFFICES ASSUME IInv, main \in {"closed", "panicked"}
               PROVE  buffer \subseteq late /\ \A w \in Worker : batch[w] = {}
    BY DEF NothingLeftBehind
  <2>1. PICK v \in Worker : TRUE
    BY LoggerAssumption
  <2> QED
    BY <2>1 DEF IInv, Draining
<1> QED
  BY <1>1, InitInv, NextInv, PTL DEF Spec

----------------------------------------------------------------------------
(***************************************************************************)
(* The statistics.  A counter lags behind the fate of the entries by those *)
(* whose handler or worker has yet to count them.                          *)
(***************************************************************************)
AtFlush(result) == {e \in Entry : \E w \in Worker : io[w] = result /\ e \in batch[w]}
Counting == AtFlush("count")
Erring == AtFlush("error")
Dropping == {e \in Entry : handler[e] = "dropping"}

\* What is to be counted happened, and no two workers count the same entry.
Uncounted ==
  /\ Counting \subseteq stored
  /\ Erring \subseteq stored \union lost
  /\ Dropping \subseteq dropped
  /\ \A v, w \in Worker : v # w => batch[v] \intersect batch[w] = {}

Tallies ==
  /\ totalDropped + Cardinality(Dropping) = Cardinality(dropped)
  /\ totalLogged + Cardinality(Counting) <= Cardinality(stored)
  /\ totalFlushErrs = 0 =>
       /\ lost \subseteq Erring
       /\ totalLogged + Cardinality(Counting) = Cardinality(stored \ Erring)

StatsInv == IInv /\ Uncounted /\ Tallies

LEMMA DisjointSum ==
  ASSUME NEW S, S \subseteq Entry, NEW T, T \subseteq Entry, S \intersect T = {}
  PROVE  /\ Cardinality(S) \in Nat /\ Cardinality(T) \in Nat
         /\ Cardinality(S \union T) = Cardinality(S) + Cardinality(T)
<1>1. IsFiniteSet(S) /\ IsFiniteSet(T) /\ Cardinality(S) \in Nat /\ Cardinality(T) \in Nat
  BY EntriesFinite
<1>2. Cardinality(S \intersect T) = 0
  BY FS_EmptySet
<1>3. Cardinality(S \union T) = Cardinality(S) + Cardinality(T) - Cardinality(S \intersect T)
  BY <1>1, FS_Union
<1> QED
  BY <1>1, <1>2, <1>3

LEMMA StatsInit == Init => StatsInv
<1> SUFFICES ASSUME Init PROVE StatsInv
  OBVIOUS
<1>1. Counting = {} /\ Erring = {} /\ Dropping = {}
  BY DEF Init, Counting, Erring, Dropping, AtFlush
<1>2. Uncounted
  BY <1>1 DEF Init, Uncounted
<1>3. Tallies
  BY <1>1, FS_EmptySet DEF Init, Tallies
<1> QED
  BY <1>2, <1>3, InitInv DEF StatsInv

\* A step that leaves the batches, the fates and the counters alone.
LEMMA NothingCounted ==
  ASSUME StatsInv, Counting' = Counting, Erring' = Erring, Dropping' = Dropping,
         \A v, w \in Worker : v # w => batch'[v] \intersect batch'[w] = {},
         UNCHANGED <<fate, stats>>
  PROVE  Uncounted' /\ Tallies'
BY DEF StatsInv, Uncounted, Tallies, fate, stats

LEMMA HandlerStats ==
  ASSUME StatsInv, NEW e \in Entry, Arrive(e) \/ HandlerStep(e)
  PROVE  Uncounted' /\ Tallies'
<1> USE DEF workers, fate, stats
<1>1. /\ batch' = batch /\ io' = io /\ stored' = stored /\ lost' = lost
      /\ totalLogged' = totalLogged /\ totalFlushErrs' = totalFlushErrs
      /\ handler \in [Entry -> {"none", "serving", "dropping", "done"}]
      /\ dropped \subseteq Entry /\ totalDropped \in Nat
  BY DEF StatsInv, IInv, TypeOK, Arrive, HandlerStep, LogEnqueues, LogDrops, CountDrop
<1>2. /\ Counting' = Counting /\ Erring' = Erring
      /\ \A v, w \in Worker : v # w => batch'[v] \intersect batch'[w] = {}
  BY <1>1 DEF Counting, Erring, AtFlush, StatsInv, Uncounted
<1>3. CASE Arrive(e) \/ LogEnqueues(e)
  <2>1. Dropping' = Dropping
    BY <1>1, <1>3 DEF Arrive, LogEnqueues, Dropping
  <2> QED
    BY <1>1, <1>2, <1>3, <2>1, NothingCounted DEF Arrive, LogEnqueues
<1>4. CASE LogDrops(e)
  <2>1. /\ Dropping' = Dropping \union {e} /\ dropped' = dropped \union {e}
        /\ totalDropped' = totalDropped
    BY <1>1, <1>4 DEF LogDrops, Dropping
  <2>2. e \notin Dropping /\ e \notin dropped
    BY <1>4 DEF LogDrops, Dropping, StatsInv, IInv, Conservation, Offered, Places
  <2>3. /\ Cardinality(Dropping') = Cardinality(Dropping) + Cardinality({e})
        /\ Cardinality(dropped') = Cardinality(dropped) + Cardinality({e})
        /\ Cardinality(Dropping) \in Nat /\ Cardinality(dropped) \in Nat
        /\ Cardinality({e}) \in Nat
    <3>1. Dropping \subseteq Entry /\ dropped \subseteq Entry /\ {e} \subseteq Entry
      BY <1>1 DEF Dropping
    <3>2. Dropping \intersect {e} = {} /\ dropped \intersect {e} = {}
      BY <2>2
    <3> QED
      BY <2>1, <3>1, <3>2, DisjointSum
  <2>4. totalDropped' + Cardinality(Dropping') = Cardinality(dropped')
    BY <1>1, <2>1, <2>3 DEF StatsInv, Tallies
  <2> QED
    BY <1>1, <1>2, <2>1, <2>4 DEF StatsInv, Uncounted, Tallies
<1>5. CASE CountDrop(e)
  <2>1. /\ e \in Dropping /\ Dropping' = Dropping \ {e} /\ dropped' = dropped
        /\ totalDropped' = totalDropped + 1
    BY <1>1, <1>5 DEF CountDrop, Dropping
  <2>2. /\ Cardinality(Dropping) \in Nat /\ Cardinality(dropped) \in Nat
        /\ Cardinality(Dropping') = Cardinality(Dropping) - 1
    <3>1. IsFiniteSet(Dropping) /\ Cardinality(Dropping) \in Nat /\ Cardinality(dropped) \in Nat
      BY <1>1, EntriesFinite DEF Dropping
    <3> QED
      BY <2>1, <3>1, FS_RemoveElement
  <2>3. totalDropped' + Cardinality(Dropping') = Cardinality(dropped')
    BY <1>1, <2>1, <2>2 DEF StatsInv, Tallies
  <2> QED
    BY <1>1, <1>2, <2>1, <2>3 DEF StatsInv, Uncounted, Tallies
<1> QED
  BY <1>3, <1>4, <1>5 DEF HandlerStep

\* The worker's steps outside a flush.  An entry just received was in the
\* channel, so it is in no batch: not in one that is held, nor in one whose
\* entries are stored or lost.
LEMMA ReceiveStats ==
  ASSUME StatsInv, NEW w \in Worker, NEW e \in Entry, Receive(w, e)
  PROVE  Uncounted' /\ Tallies'
<1> USE DEF fate, stats
<1>1. /\ io[w] = "none" /\ io'[w] \in {"none", "insert"}
      /\ batch'[w] = batch[w] \union {e} /\ e \in buffer
      /\ \A v \in Worker \ {w} : batch'[v] = batch[v] /\ io'[v] = io[v]
  BY DEF StatsInv, IInv, TypeOK, Receive, Ready
<1>2. /\ Counting' = Counting /\ Erring' = Erring /\ Dropping' = Dropping
  BY <1>1 DEF Receive, Counting, Erring, AtFlush, Dropping
<1>3. ASSUME NEW v \in Worker PROVE e \notin batch[v]
  <2>1. CASE io[v] \in {"none", "insert"}
    BY <1>1, <2>1 DEF StatsInv, IInv, Conservation, Held, Places
  <2>2. CASE io[v] \in {"count", "error"}
    <3>1. batch[v] \subseteq Counting \union Erring
      BY <2>2 DEF Counting, Erring, AtFlush, StatsInv, IInv, TypeOK
    <3> QED
      BY <1>1, <3>1 DEF StatsInv, Uncounted, IInv, Conservation
  <2> QED
    BY <2>1, <2>2 DEF StatsInv, IInv, TypeOK
<1>4. ASSUME NEW u \in Worker, NEW v \in Worker, u # v
      PROVE  batch'[u] \intersect batch'[v] = {}
  <2>1. batch[u] \intersect batch[v] = {}
    BY <1>4 DEF StatsInv, Uncounted
  <2> QED
    BY <1>1, <1>3, <1>4, <2>1
<1> QED
  BY <1>2, <1>4, NothingCounted DEF Receive

LEMMA WorkerMovesStats ==
  ASSUME StatsInv, NEW w \in Worker,
         TickFlush(w) \/ SeeQuit(w) \/ DrainEnds(w) \/ Exit(w)
  PROVE  Uncounted' /\ Tallies'
<1> USE DEF fate, stats
<1>1. /\ io[w] = "none" /\ io'[w] \in {"none", "insert"} /\ batch' = batch
      /\ \A v \in Worker \ {w} : io'[v] = io[v]
      /\ handler' = handler /\ UNCHANGED <<fate, stats>>
  BY DEF TickFlush, SeeQuit, DrainEnds, Exit, Ready, StatsInv, IInv, TypeOK
<1>2. /\ Counting' = Counting /\ Erring' = Erring /\ Dropping' = Dropping
      /\ \A u, v \in Worker : u # v => batch'[u] \intersect batch'[v] = {}
  BY <1>1 DEF Counting, Erring, AtFlush, Dropping, StatsInv, Uncounted
<1> QED
  BY <1>1, <1>2, NothingCounted

\* The end of the transaction.  The batch was held until now, so it is apart
\* from what was stored, lost or yet to be counted before.
LEMMA InsertStats ==
  ASSUME StatsInv, NEW w \in Worker,
         Commits(w) \/ CommitsInDoubt(w) \/ RollsBack(w)
  PROVE  Uncounted' /\ Tallies'
<1> DEFINE B == batch[w]
<1> USE DEF stats, Insert
<1>1. /\ io[w] = "insert" /\ batch' = batch /\ handler' = handler /\ dropped' = dropped
      /\ \A v \in Worker \ {w} : io'[v] = io[v]
      /\ UNCHANGED stats
      /\ B \subseteq Entry /\ stored \subseteq Entry /\ lost \subseteq Entry
      /\ totalLogged \in Nat
  BY DEF Commits, CommitsInDoubt, RollsBack, StatsInv, IInv, TypeOK
<1>2. /\ B \intersect stored = {} /\ B \intersect lost = {}
      /\ B \intersect Counting = {} /\ B \intersect Erring = {}
  BY <1>1 DEF StatsInv, IInv, Conservation, Held, Places, Uncounted
<1>3. /\ Dropping' = Dropping
      /\ totalDropped' + Cardinality(Dropping') = Cardinality(dropped')
      /\ \A u, v \in Worker : u # v => batch'[u] \intersect batch'[v] = {}
  BY <1>1 DEF Dropping, StatsInv, Uncounted, Tallies
<1>4. /\ Counting \subseteq Entry /\ Erring \subseteq Entry
      /\ Cardinality(Counting) \in Nat /\ Cardinality(stored) \in Nat
      /\ Cardinality(B) \in Nat
  BY <1>1, EntriesFinite DEF Counting, Erring, AtFlush
<1>5. CASE Commits(w)
  <2>1. /\ io' = [io EXCEPT ![w] = "count"] /\ stored' = stored \union B /\ lost' = lost
    BY <1>5 DEF Commits
  <2>2. Counting' = Counting \union B /\ Erring' = Erring
    BY <1>1, <2>1 DEF Counting, Erring, AtFlush, StatsInv, IInv, TypeOK
  <2>3. Cardinality(Counting') = Cardinality(Counting) + Cardinality(B)
    BY <1>1, <1>2, <1>4, <2>2, DisjointSum
  <2>4. Cardinality(stored') = Cardinality(stored) + Cardinality(B)
    BY <1>1, <1>2, <2>1, DisjointSum
  <2>5. Cardinality(stored' \ Erring') = Cardinality(stored \ Erring) + Cardinality(B)
        /\ Cardinality(stored \ Erring) \in Nat
    <3>1. /\ stored' \ Erring' = (stored \ Erring) \union B
          /\ (stored \ Erring) \intersect B = {} /\ stored \ Erring \subseteq Entry
      BY <1>1, <1>2, <2>1, <2>2
    <3> QED
      BY <1>1, <3>1, DisjointSum
  <2>6. Uncounted'
    BY <1>1, <1>3, <2>1, <2>2 DEF StatsInv, Uncounted
  <2>7. Tallies'
    BY <1>1, <1>3, <1>4, <2>1, <2>2, <2>3, <2>4, <2>5 DEF StatsInv, Tallies
  <2> QED
    BY <2>6, <2>7
<1>6. CASE CommitsInDoubt(w) \/ RollsBack(w)
  <2>1. /\ io' = [io EXCEPT ![w] = "error"]
        /\ \/ stored' = stored \union B /\ lost' = lost
           \/ stored' = stored /\ lost' = lost \union B
    BY <1>6 DEF CommitsInDoubt, RollsBack
  <2>2. Counting' = Counting /\ Erring' = Erring \union B
    BY <1>1, <2>1 DEF Counting, Erring, AtFlush, StatsInv, IInv, TypeOK
  <2>3. Cardinality(stored) <= Cardinality(stored') /\ Cardinality(stored') \in Nat
    <3>1. IsFiniteSet(stored') /\ stored \subseteq stored' /\ stored' \subseteq Entry
      BY <1>1, <2>1, EntriesFinite
    <3> QED
      BY <3>1, FS_Subset, FS_CardinalityType
  <2>4. stored' \ Erring' = stored \ Erring
    BY <1>2, <2>1, <2>2
  <2>5. Uncounted'
    BY <1>1, <1>3, <2>1, <2>2 DEF StatsInv, Uncounted
  <2>6. totalLogged' + Cardinality(Counting') <= Cardinality(stored')
    BY <1>1, <1>4, <2>2, <2>3 DEF StatsInv, Tallies
  <2>7. Tallies'
    BY <1>1, <1>3, <2>1, <2>2, <2>4, <2>6 DEF StatsInv, Tallies
  <2> QED
    BY <2>5, <2>7
<1> QED
  BY <1>5, <1>6

LEMMA CountStats ==
  ASSUME StatsInv, NEW w \in Worker, CountLogged(w) \/ CountError(w)
  PROVE  Uncounted' /\ Tallies'
<1> DEFINE B == batch[w]
<1> USE DEF fate, Flushed
<1>1. /\ io'[w] = "none" /\ batch'[w] = {} /\ io[w] \in {"count", "error"}
      /\ \A v \in Worker \ {w} : io'[v] = io[v] /\ batch'[v] = batch[v]
      /\ handler' = handler /\ stored' = stored /\ lost' = lost /\ dropped' = dropped
      /\ totalDropped' = totalDropped
      /\ B \subseteq Entry /\ totalLogged \in Nat /\ totalFlushErrs \in Nat
  BY DEF CountLogged, CountError, StatsInv, IInv, TypeOK
<1>2. /\ Dropping' = Dropping
      /\ totalDropped' + Cardinality(Dropping') = Cardinality(dropped')
  BY <1>1 DEF Dropping, StatsInv, Tallies
<1>3. \A u, v \in Worker : u # v => batch'[u] \intersect batch'[v] = {}
  BY <1>1 DEF StatsInv, Uncounted
<1>4. CASE CountLogged(w)
  <2>1. /\ io[w] = "count" /\ totalLogged' = totalLogged + Cardinality(B)
        /\ totalFlushErrs' = totalFlushErrs
    BY <1>4 DEF CountLogged
  <2>2. /\ Counting = Counting' \union B /\ Counting' \intersect B = {} /\ Erring' = Erring
        /\ Counting' \subseteq Entry
    BY <1>1, <2>1 DEF Counting, Erring, AtFlush, StatsInv, Uncounted
  <2>3. /\ Cardinality(Counting) = Cardinality(Counting') + Cardinality(B)
        /\ Cardinality(Counting') \in Nat /\ Cardinality(B) \in Nat
    BY <1>1, <2>2, DisjointSum
  <2>4. totalLogged' + Cardinality(Counting') = totalLogged + Cardinality(Counting)
    BY <1>1, <2>1, <2>3
  <2>5. Uncounted'
    BY <1>1, <1>2, <1>3, <2>2 DEF StatsInv, Uncounted
  <2>6. Tallies'
    BY <1>1, <1>2, <2>1, <2>2, <2>4 DEF StatsInv, Tallies
  <2> QED
    BY <2>5, <2>6
<1>5. CASE CountError(w)
  <2>1. /\ io[w] = "error" /\ totalLogged' = totalLogged
        /\ totalFlushErrs' = totalFlushErrs + 1
    BY <1>5 DEF CountError
  <2>2. Counting' = Counting /\ Erring' \subseteq Erring
    BY <1>1, <2>1 DEF Counting, Erring, AtFlush
  <2>3. totalFlushErrs' # 0
    BY <1>1, <2>1
  <2>4. Uncounted'
    BY <1>1, <1>2, <1>3, <2>2 DEF StatsInv, Uncounted
  <2>5. Tallies'
    BY <1>1, <1>2, <2>1, <2>2, <2>3 DEF StatsInv, Tallies
  <2> QED
    BY <2>4, <2>5
<1> QED
  BY <1>4, <1>5

LEMMA MainStats ==
  ASSUME StatsInv, Signal \/ Stop \/ Kill \/ UNCHANGED vars
  PROVE  Uncounted' /\ Tallies'
<1>1. batch' = batch /\ io' = io /\ handler' = handler /\ UNCHANGED <<fate, stats>>
  BY DEF Main, Signal, Stop, CloseLogger, Join, DeferredClose, Kill, workers, vars
<1>2. /\ Counting' = Counting /\ Erring' = Erring /\ Dropping' = Dropping
      /\ \A u, v \in Worker : u # v => batch'[u] \intersect batch'[v] = {}
  BY <1>1 DEF Counting, Erring, AtFlush, Dropping, StatsInv, Uncounted
<1> QED
  BY <1>1, <1>2, NothingCounted

LEMMA StatsNext == StatsInv /\ [Next]_vars => StatsInv'
<1> SUFFICES ASSUME StatsInv, [Next]_vars PROVE StatsInv'
  OBVIOUS
<1>1. IInv'
  BY NextInv DEF StatsInv
<1>2. Uncounted' /\ Tallies'
  BY HandlerStats, ReceiveStats, WorkerMovesStats, InsertStats, CountStats, MainStats
  DEF Next, WorkerStep
<1> QED
  BY <1>1, <1>2 DEF StatsInv

\* The counters never run ahead of what they count, and once nothing is
\* under way and no flush has failed they account for every entry offered.
THEOREM StatsAccount == Spec => []StatsAddUp
<1>1. StatsInv => StatsAddUp
  <2> SUFFICES ASSUME StatsInv PROVE StatsAddUp
    OBVIOUS
  <2>1. /\ stored \subseteq Entry /\ lost \subseteq Entry /\ dropped \subseteq Entry
        /\ totalLogged \in Nat /\ totalDropped \in Nat
    BY DEF StatsInv, IInv, TypeOK
  <2>2. /\ Cardinality(Counting) \in Nat /\ Cardinality(Dropping) \in Nat
        /\ Cardinality(stored) \in Nat /\ Cardinality(dropped) \in Nat
    BY <2>1, EntriesFinite DEF Counting, AtFlush, Dropping
  <2>3. totalLogged <= Cardinality(stored) /\ totalDropped <= Cardinality(dropped)
    BY <2>1, <2>2 DEF StatsInv, Tallies
  <2>4. ASSUME Quiet, totalFlushErrs = 0
        PROVE  totalLogged + totalDropped = Cardinality(Offered \ buffer)
    <3>1. Counting = {} /\ Erring = {} /\ Dropping = {}
      BY <2>4 DEF Quiet, Counting, Erring, AtFlush, Dropping
    <3>2. lost = {} /\ stored \ Erring = stored
      BY <2>4, <3>1 DEF StatsInv, Tallies
    <3>3. totalLogged = Cardinality(stored) /\ totalDropped = Cardinality(dropped)
      BY <2>1, <2>4, <3>1, <3>2, FS_EmptySet DEF StatsInv, Tallies
    <3>4. /\ Offered \ buffer = stored \union dropped
          /\ stored \intersect dropped = {}
      <4>1. \A w \in Worker : Held(w) = {}
        BY <2>4 DEF Quiet, Held
      <4> QED
        BY <2>1, <3>2, <4>1 DEF StatsInv, IInv, Conservation, Places, Offered
    <3> QED
      BY <2>1, <3>3, <3>4, DisjointSum
  <2> QED
    BY <2>3, <2>4 DEF StatsAddUp
<1> QED
  BY <1>1, StatsInit, StatsNext, PTL DEF Spec

=============================================================================
