---------------------------- MODULE AsyncLogger ----------------------------
(***************************************************************************)
(* The telemetry pipeline of one gateway and its shutdown (logger.go,      *)
(* main.go:105-119, InsertLogsBatch in database.go:182-209): request       *)
(* handlers offer log entries to a bounded channel, workers gather them in *)
(* batches and write each batch in one transaction, and main drains the    *)
(* lot when it stops.                                                      *)
(*                                                                         *)
(* The channel and the batches are sets: nothing depends on the order of   *)
(* the entries.  An entry is identified with the request it is about.      *)
(***************************************************************************)
EXTENDS Integers, FiniteSets

CONSTANTS Entry,       \* the entries, one per request
          Worker,      \* the flush workers
          BufferSize,  \* capacity of the channel
          BatchSize,   \* entries per batch
          Poison,      \* the entries PostgreSQL refuses (a field too long for its column)
          PGFails      \* may PostgreSQL fail otherwise?

ASSUME LoggerAssumption ==
  /\ IsFiniteSet(Entry)
  /\ Worker # {}
  /\ BufferSize \in Nat \ {0} /\ BatchSize \in Nat \ {0}
  /\ Poison \subseteq Entry
  /\ PGFails \in BOOLEAN

VARIABLES main,     \* how far main is
          handler,  \* the handler of each request
          late,     \* the requests whose handlers outlived Shutdown
          buffer,   \* the channel
          stage,    \* the loop each worker is in
          io,       \* the flush each worker is in
          batch,    \* the batch of each worker
          stored,   \* history: the entries PostgreSQL has committed
          lost,     \* history: the entries whose transaction was rolled back
          dropped,  \* history: the entries that found the channel full
          totalLogged, totalDropped, totalFlushErrs

workers == <<stage, io, batch>>
fate    == <<stored, lost, dropped>>
stats   == <<totalLogged, totalDropped, totalFlushErrs>>
vars    == <<main, handler, late, buffer, workers, fate, stats>>

Init ==
  /\ main = "running"
  /\ handler = [e \in Entry |-> "none"]
  /\ late = {} /\ buffer = {}
  /\ stage = [w \in Worker |-> "serve"]
  /\ io = [w \in Worker |-> "none"]
  /\ batch = [w \in Worker |-> {}]
  /\ stored = {} /\ lost = {} /\ dropped = {}
  /\ totalLogged = 0 /\ totalDropped = 0 /\ totalFlushErrs = 0

Alive == main \notin {"panicked", "killed"}
QuitClosed == main \in {"closing", "closed", "panicked"}

----------------------------------------------------------------------------
(***************************************************************************)
(* The handlers.                                                           *)
(***************************************************************************)
Arrive(e) ==
  /\ main = "running"
  /\ handler[e] = "none"
  /\ handler' = [handler EXCEPT ![e] = "serving"]
  /\ UNCHANGED <<main, late, buffer, workers, fate, stats>>

LogEnqueues(e) ==
  /\ Alive
  /\ handler[e] = "serving"
  /\ Cardinality(buffer) < BufferSize
  /\ buffer' = buffer \union {e}
  /\ handler' = [handler EXCEPT ![e] = "done"]
  /\ UNCHANGED <<main, late, workers, fate, stats>>

LogDrops(e) ==
  /\ Alive
  /\ handler[e] = "serving"
  /\ Cardinality(buffer) >= BufferSize
  /\ dropped' = dropped \union {e}
  /\ handler' = [handler EXCEPT ![e] = "dropping"]
  /\ UNCHANGED <<main, late, buffer, workers, stored, lost, stats>>

CountDrop(e) ==
  /\ Alive
  /\ handler[e] = "dropping"
  /\ totalDropped' = totalDropped + 1
  /\ handler' = [handler EXCEPT ![e] = "done"]
  /\ UNCHANGED <<main, late, buffer, workers, fate, totalLogged, totalFlushErrs>>

----------------------------------------------------------------------------
(***************************************************************************)
(* The workers.  A full batch, a tick and the end of the drain start a     *)
(* flush; a worker receives nothing while it flushes.                      *)
(***************************************************************************)
Ready(w) == Alive /\ io[w] = "none"

\* Mutant: a batch is flushed when it is over its size.
ReceiveBeyond(w, e) ==
  /\ Ready(w)
  /\ stage[w] \in {"serve", "drain"}
  /\ e \in buffer
  /\ buffer' = buffer \ {e}
  /\ batch' = [batch EXCEPT ![w] = @ \union {e}]
  /\ io' = [io EXCEPT ![w] = IF Cardinality(batch'[w]) > BatchSize THEN "insert" ELSE "none"]
  /\ UNCHANGED <<main, handler, late, stage, fate, stats>>

Receive(w, e) ==
  /\ Ready(w)
  /\ stage[w] \in {"serve", "drain"}
  /\ e \in buffer
  /\ buffer' = buffer \ {e}
  /\ batch' = [batch EXCEPT ![w] = @ \union {e}]
  /\ io' = [io EXCEPT ![w] = IF Cardinality(batch'[w]) >= BatchSize THEN "insert" ELSE "none"]
  /\ UNCHANGED <<main, handler, late, stage, fate, stats>>

\* Mutant: a tick flushes full batches only.
TickFlushFull(w) ==
  /\ Ready(w)
  /\ stage[w] = "serve"
  /\ Cardinality(batch[w]) >= BatchSize
  /\ io' = [io EXCEPT ![w] = "insert"]
  /\ UNCHANGED <<main, handler, late, buffer, stage, batch, fate, stats>>

TickFlush(w) ==
  /\ Ready(w)
  /\ stage[w] = "serve"
  /\ batch[w] # {}
  /\ io' = [io EXCEPT ![w] = "insert"]
  /\ UNCHANGED <<main, handler, late, buffer, stage, batch, fate, stats>>

\* Mutant: quit flushes the batch and returns, without a drain.
SeeQuitWithoutDrain(w) ==
  /\ Ready(w)
  /\ stage[w] = "serve"
  /\ QuitClosed
  /\ stage' = [stage EXCEPT ![w] = "last"]
  /\ io' = [io EXCEPT ![w] = IF batch[w] = {} THEN "none" ELSE "insert"]
  /\ UNCHANGED <<main, handler, late, buffer, batch, fate, stats>>

SeeQuit(w) ==
  /\ Ready(w)
  /\ stage[w] = "serve"
  /\ QuitClosed
  /\ stage' = [stage EXCEPT ![w] = "drain"]
  /\ UNCHANGED <<main, handler, late, buffer, io, batch, fate, stats>>

\* The drain ends when it finds the channel empty, with a last flush.
DrainEnds(w) ==
  /\ Ready(w)
  /\ stage[w] = "drain"
  /\ buffer = {}
  /\ stage' = [stage EXCEPT ![w] = "last"]
  /\ io' = [io EXCEPT ![w] = IF batch[w] = {} THEN "none" ELSE "insert"]
  /\ UNCHANGED <<main, handler, late, buffer, batch, fate, stats>>

\* Mutant: the worker returns without wg.Done.
ExitWithoutDone(w) ==
  /\ Ready(w)
  /\ stage[w] = "last"
  /\ UNCHANGED vars

Exit(w) ==
  /\ Ready(w)
  /\ stage[w] = "last"
  /\ stage' = [stage EXCEPT ![w] = "gone"]
  /\ UNCHANGED <<main, handler, late, buffer, io, batch, fate, stats>>

(***************************************************************************)
(* InsertLogsBatch: one transaction for the batch.  It commits, or fails   *)
(* as a whole, or commits and fails to say so before the deadline.         *)
(***************************************************************************)
Insert(w, result) ==
  /\ Alive
  /\ io[w] = "insert"
  /\ io' = [io EXCEPT ![w] = result]
  /\ UNCHANGED <<main, handler, late, buffer, stage, batch, dropped, stats>>

Commits(w) ==
  /\ Insert(w, "count")
  /\ batch[w] \intersect Poison = {}
  /\ stored' = stored \union batch[w]
  /\ UNCHANGED lost

CommitsInDoubt(w) ==
  /\ Insert(w, "error")
  /\ PGFails /\ batch[w] \intersect Poison = {}
  /\ stored' = stored \union batch[w]
  /\ UNCHANGED lost

RollsBack(w) ==
  /\ Insert(w, "error")
  /\ PGFails \/ batch[w] \intersect Poison # {}
  /\ lost' = lost \union batch[w]
  /\ UNCHANGED stored

\* Mutants: the batch is kept after its flush; the new batch is made with
\* zero-valued entries in it (make with a length, not a capacity).
FlushedKeepsBatch(w, result) ==
  /\ Alive
  /\ io[w] = result
  /\ io' = [io EXCEPT ![w] = "none"]
  /\ UNCHANGED <<main, handler, late, buffer, stage, batch, fate>>

FlushedPadded(w, result) ==
  /\ Alive
  /\ io[w] = result
  /\ io' = [io EXCEPT ![w] = "none"]
  /\ batch' = [batch EXCEPT ![w] = {"zero entry"}]
  /\ UNCHANGED <<main, handler, late, buffer, stage, fate>>

\* The flush returns; whatever came of it the worker starts a new batch.
Flushed(w, result) ==
  /\ Alive
  /\ io[w] = result
  /\ io' = [io EXCEPT ![w] = "none"]
  /\ batch' = [batch EXCEPT ![w] = {}]
  /\ UNCHANGED <<main, handler, late, buffer, stage, fate>>

\* Mutant: a flush counts as a full batch.
CountLoggedFull(w) ==
  /\ Flushed(w, "count")
  /\ totalLogged' = totalLogged + BatchSize
  /\ UNCHANGED <<totalDropped, totalFlushErrs>>

CountLogged(w) ==
  /\ Flushed(w, "count")
  /\ totalLogged' = totalLogged + Cardinality(batch[w])
  /\ UNCHANGED <<totalDropped, totalFlushErrs>>

CountError(w) ==
  /\ Flushed(w, "error")
  /\ totalFlushErrs' = totalFlushErrs + 1
  /\ UNCHANGED <<totalLogged, totalDropped>>

----------------------------------------------------------------------------
(***************************************************************************)
(* main: Shutdown turns new requests away and waits for the handlers, at   *)
(* most 15 seconds; Close closes quit and waits for the workers; and the   *)
(* deferred second Close closes a closed channel.                          *)
(***************************************************************************)
Main(at, next) ==
  /\ main = at
  /\ main' = next
  /\ UNCHANGED <<handler, buffer, workers, fate, stats>>

Signal == Main("running", "shutdown") /\ UNCHANGED late

CloseLogger ==
  /\ Main("shutdown", "closing")
  /\ late' = {e \in Entry : handler[e] = "serving"}

Join ==
  /\ Main("closing", "closed")
  /\ \A w \in Worker : stage[w] = "gone"
  /\ UNCHANGED late

DeferredClose == Main("closed", "panicked") /\ UNCHANGED late

\* log.Fatalf, an out-of-memory kill, a power cut.
Kill ==
  /\ Alive
  /\ main' = "killed"
  /\ UNCHANGED <<handler, late, buffer, workers, fate, stats>>

HandlerStep(e) == LogEnqueues(e) \/ LogDrops(e) \/ CountDrop(e)

WorkerStep(w) ==
  \/ \E e \in Entry : Receive(w, e)
  \/ TickFlush(w) \/ SeeQuit(w) \/ DrainEnds(w) \/ Exit(w)
  \/ Commits(w) \/ CommitsInDoubt(w) \/ RollsBack(w)
  \/ CountLogged(w) \/ CountError(w)

Stop == CloseLogger \/ Join \/ DeferredClose

Next ==
  \/ \E e \in Entry : Arrive(e) \/ HandlerStep(e)
  \/ \E w \in Worker : WorkerStep(w)
  \/ Signal \/ Stop \/ Kill

Spec == Init /\ [][Next]_vars

\* The Go scheduler runs every goroutine that can run, transactions and
\* Shutdown end by their deadlines, and tickers tick.  Nobody has to send a
\* request, finish one, or stop the gateway.
FairSpec == Spec /\ WF_vars(Stop) /\ \A w \in Worker : WF_vars(WorkerStep(w))

----------------------------------------------------------------------------
TypeOK ==
  /\ main \in {"running", "shutdown", "closing", "closed", "panicked", "killed"}
  /\ handler \in [Entry -> {"none", "serving", "dropping", "done"}]
  /\ late \subseteq Entry /\ buffer \subseteq Entry
  /\ stage \in [Worker -> {"serve", "drain", "last", "gone"}]
  /\ io \in [Worker -> {"none", "insert", "count", "error"}]
  /\ batch \in [Worker -> SUBSET Entry]
  /\ stored \subseteq Entry /\ lost \subseteq Entry /\ dropped \subseteq Entry
  /\ totalLogged \in Nat /\ totalDropped \in Nat /\ totalFlushErrs \in Nat

Offered == {e \in Entry : handler[e] \in {"dropping", "done"}}

\* The entries only worker w still has.
Held(w) == IF io[w] \in {"none", "insert"} THEN batch[w] ELSE {}

(***************************************************************************)
(* Every entry offered is in one place and one only: no step of a worker   *)
(* loses an entry silently, stores it twice, or writes off what it stored  *)
(* (logger.go:91-95, 118-128, 139-145).                                    *)
(***************************************************************************)
Places == {buffer, stored, lost, dropped}

Conservation ==
  /\ \A e \in Entry :
       e \in Offered <=> e \in UNION Places \/ \E w \in Worker : e \in Held(w)
  /\ buffer \intersect (stored \union lost \union dropped) = {}
  /\ stored \intersect (lost \union dropped) = {}
  /\ lost \intersect dropped = {}
  /\ \A w \in Worker : Held(w) \intersect UNION Places = {}
  /\ \A v, w \in Worker : v # w => Held(v) \intersect Held(w) = {}

(***************************************************************************)
(* The channel and the batches stay within their sizes.                    *)
(***************************************************************************)
WithinSizes ==
  /\ Cardinality(buffer) <= BufferSize
  /\ \A w \in Worker :
       /\ Cardinality(batch[w]) <= BatchSize
       /\ io[w] = "none" => Cardinality(batch[w]) < BatchSize

(***************************************************************************)
(* When main has waited for the workers, nothing is left in memory but     *)
(* what handlers that outlived Shutdown have offered (main.go:114-116,     *)
(* logger.go:131-149).                                                     *)
(***************************************************************************)
NothingLeftBehind ==
  main \in {"closed", "panicked"} =>
    buffer \subseteq late /\ \A w \in Worker : batch[w] = {}

(***************************************************************************)
(* The statistics never claim more than happened, and add up when nothing  *)
(* is under way and no flush has failed (handlers.go:202-209).             *)
(***************************************************************************)
Quiet ==
  /\ \A e \in Entry : handler[e] # "dropping"
  /\ \A w \in Worker : batch[w] = {}

StatsAddUp ==
  /\ totalLogged <= Cardinality(stored)
  /\ totalDropped <= Cardinality(dropped)
  /\ Quiet /\ totalFlushErrs = 0 =>
       totalLogged + totalDropped = Cardinality(Offered \ buffer)

(***************************************************************************)
(* An entry that got into the channel is written or written off, unless    *)
(* the process ends first; and a process told to stop ends.                *)
(***************************************************************************)
Settled(e) == e \in stored \union lost

EntriesSettle == \A e \in Entry : e \in buffer ~> Settled(e) \/ ~ Alive

ShutdownEnds == main = "shutdown" ~> ~ Alive

(***************************************************************************)
(* "Every approved request must be logged for analytics and billing        *)
(* purposes" (inst.txt:17-18): an entry PostgreSQL accepts is not lost.    *)
(***************************************************************************)
ApprovedLogged == \A e \in Entry \ Poison : e \notin lost

=============================================================================
