--------------------------- MODULE LoadGenerator ---------------------------
(***************************************************************************)
(* cmd/loadgen: main hands a fixed number of jobs to workers over a        *)
(* channel as large as their number, the workers fire requests and keep    *)
(* two kinds of books (atomic counters for all, latencies each for itself),*)
(* and main reports when all of them are done.                             *)
(***************************************************************************)
EXTENDS Integers, Sequences, FiniteSets, Functions

CONSTANTS MaxWorkers, \* no more workers than this
          TotalFlag,  \* the values of -n
          WorkerFlag, \* the values of -c
          Latency     \* how long an answer may take

ASSUME LoadGeneratorAssumption ==
  /\ MaxWorkers \in Nat \ {0}
  /\ TotalFlag \subseteq Int
  /\ WorkerFlag \subseteq Int /\ \A c \in WorkerFlag : c <= MaxWorkers
  /\ Latency \subseteq Nat

WorkerID == 1 .. MaxWorkers

VARIABLES total, concurrency, \* the flags, as parseFlags leaves them
          main,      \* how far main is
          pushed,    \* the jobs sent so far
          jobs,      \* the jobs in the channel
          worker,    \* how far each worker is
          outcome,   \* how the request each worker fired ended
          sent, allowed, blocked, errors, otherStatus,
          lat,       \* the latencies each worker keeps
          perWorker, \* those it has handed in
          merged,    \* the workers whose latencies are in the report
          latencies  \* those of the report

flags    == <<total, concurrency>>
counters == <<sent, allowed, blocked, errors, otherStatus>>
report   == <<perWorker, merged, latencies>>
vars     == <<flags, main, pushed, jobs, worker, outcome, counters, lat, report>>

\* Mutant: the flags are taken as they are.
Unclamped(n) == n

AtLeastOne(n) == IF n < 1 THEN 1 ELSE n

Ids == {w \in WorkerID : w <= concurrency}
NoOutcome == [status |-> "none", latency |-> 0]

Init ==
  /\ \E n \in TotalFlag : total = AtLeastOne(n)
  /\ \E n \in WorkerFlag : concurrency = AtLeastOne(n)
  /\ main = "push"
  /\ pushed = 0 /\ jobs = 0
  /\ worker = [w \in WorkerID |-> "receive"]
  /\ outcome = [w \in WorkerID |-> NoOutcome]
  /\ sent = 0 /\ allowed = 0 /\ blocked = 0 /\ errors = 0 /\ otherStatus = 0
  /\ lat = [w \in WorkerID |-> <<>>]
  /\ perWorker = [w \in WorkerID |-> <<>>]
  /\ merged = 0
  /\ latencies = <<>>

----------------------------------------------------------------------------
(***************************************************************************)
(* The workers.                                                            *)
(***************************************************************************)
Step(w, from, to) ==
  w \in Ids /\ worker[w] = from /\ worker' = [worker EXCEPT ![w] = to]

Receive(w) ==
  /\ jobs > 0
  /\ Step(w, "receive", "fire")
  /\ jobs' = jobs - 1
  /\ UNCHANGED <<flags, main, pushed, outcome, counters, lat, report>>

\* The request ends, at the latest by its timeout.
Fire(w) ==
  /\ Step(w, "fire", "sent")
  /\ \/ outcome' = [outcome EXCEPT ![w] = [status |-> "error", latency |-> 0]]
     \/ \E s \in {"200", "429", "other"}, d \in Latency :
          outcome' = [outcome EXCEPT ![w] = [status |-> s, latency |-> d]]
  /\ UNCHANGED <<flags, main, pushed, jobs, counters, lat, report>>

CountSent(w) ==
  /\ Step(w, "sent", "tally")
  /\ sent' = sent + 1
  /\ UNCHANGED <<flags, main, pushed, jobs, outcome, allowed, blocked, errors, otherStatus,
                 lat, report>>

One(w, status) == IF outcome[w].status = status THEN 1 ELSE 0

\* One counter per outcome; a 200 leaves its latency with the worker.
Tally(w) ==
  /\ Step(w, "tally", "receive")
  /\ errors' = errors + One(w, "error")
  /\ allowed' = allowed + One(w, "200")
  /\ blocked' = blocked + One(w, "429")
  /\ otherStatus' = otherStatus + One(w, "other")
  /\ lat' = [lat EXCEPT ![w] = IF outcome[w].status = "200" THEN Append(@, outcome[w].latency) ELSE @]
  /\ UNCHANGED <<flags, main, pushed, jobs, outcome, sent, report>>

\* The channel is closed and empty: the worker hands in its latencies.
HandIn(w) ==
  /\ main # "push" /\ jobs = 0
  /\ Step(w, "receive", "done")
  /\ perWorker' = [perWorker EXCEPT ![w] = lat[w]]
  /\ UNCHANGED <<flags, main, pushed, jobs, outcome, counters, lat, merged, latencies>>

----------------------------------------------------------------------------
(***************************************************************************)
(* main.                                                                   *)
(***************************************************************************)
Push ==
  /\ main = "push"
  /\ pushed < total /\ jobs < concurrency
  /\ pushed' = pushed + 1
  /\ jobs' = jobs + 1
  /\ UNCHANGED <<flags, main, worker, outcome, counters, lat, report>>

\* Mutant: main waits for the workers before it closes the channel.
CloseJobsAfterWait ==
  /\ main = "push"
  /\ pushed = total
  /\ \A w \in Ids : worker[w] = "done"
  /\ main' = "wait"
  /\ UNCHANGED <<flags, pushed, jobs, worker, outcome, counters, lat, report>>

CloseJobs ==
  /\ main = "push"
  /\ pushed = total
  /\ main' = "wait"
  /\ UNCHANGED <<flags, pushed, jobs, worker, outcome, counters, lat, report>>

\* Mutant: main waits for the jobs to be taken, not for the workers.
WaitUntilDrained ==
  /\ main = "wait"
  /\ jobs = 0
  /\ main' = "merge"
  /\ UNCHANGED <<flags, pushed, jobs, worker, outcome, counters, lat, report>>

\* wg.Wait.
Wait ==
  /\ main = "wait"
  /\ \A w \in Ids : worker[w] = "done"
  /\ main' = "merge"
  /\ UNCHANGED <<flags, pushed, jobs, worker, outcome, counters, lat, report>>

\* One round of the loop that merges the latencies.
Merge ==
  /\ main = "merge"
  /\ merged < concurrency
  /\ merged' = merged + 1
  /\ latencies' = latencies \o perWorker[merged + 1]
  /\ UNCHANGED <<flags, main, pushed, jobs, worker, outcome, counters, lat, perWorker>>

Ascending(s) == \A i, j \in DOMAIN s : i < j => s[i] <= s[j]

Permuted(s) == {[i \in DOMAIN s |-> s[p[i]]] : p \in Bijection(DOMAIN s, DOMAIN s)}

\* printReport sorts what it got.
Report ==
  /\ main = "merge"
  /\ merged = concurrency
  /\ main' = "done"
  /\ latencies' \in {s \in Permuted(latencies) : Ascending(s)}
  /\ UNCHANGED <<flags, pushed, jobs, worker, outcome, counters, lat, perWorker, merged>>

----------------------------------------------------------------------------
WorkerStep(w) == Receive(w) \/ Fire(w) \/ CountSent(w) \/ Tally(w) \/ HandIn(w)
MainStep == Push \/ CloseJobs \/ Wait \/ Merge \/ Report

Next == MainStep \/ \E w \in WorkerID : WorkerStep(w)

\* The scheduler runs whatever can run, and every request ends.
Spec ==
  /\ Init /\ [][Next]_vars
  /\ WF_vars(MainStep)
  /\ \A w \in WorkerID : WF_vars(WorkerStep(w))

----------------------------------------------------------------------------
(***************************************************************************)
(* pct of printReport: the nearest rank.  (In floating point, too,         *)
(* ceil(p / 100 * n) is the exact rank for p = 50, 90, 95 and 99 and n up  *)
(* to two million.)                                                        *)
(***************************************************************************)
Ceil(a, b) == (a + b - 1) \div b

Clamp(i, n) == IF i < 1 THEN 1 ELSE IF i > n THEN n ELSE i

\* Mutant: the index of the slice is taken for the rank.
PctRoundedDown(s, p) == s[Clamp((p * Len(s)) \div 100 + 1, Len(s))]

Pct(s, p) == s[Clamp(Ceil(p * Len(s), 100), Len(s))]

----------------------------------------------------------------------------
TypeOK ==
  /\ total \in Nat \ {0} /\ concurrency \in Nat \ {0}
  /\ main \in {"push", "wait", "merge", "done"}
  /\ pushed \in 0 .. total
  /\ jobs \in 0 .. concurrency
  /\ worker \in [WorkerID -> {"receive", "fire", "sent", "tally", "done"}]
  /\ outcome \in [WorkerID -> [status : {"none", "error", "200", "429", "other"},
                               latency : Latency \union {0}]]
  /\ sent \in Nat /\ allowed \in Nat /\ blocked \in Nat /\ errors \in Nat /\ otherStatus \in Nat
  /\ lat \in [WorkerID -> Seq(Latency)] /\ perWorker \in [WorkerID -> Seq(Latency)]
  /\ merged \in 0 .. concurrency
  /\ latencies \in Seq(Latency)

(***************************************************************************)
(* The report accounts for every request asked for, once, and its          *)
(* percentiles are those of all allowed requests and of no other: the      *)
(* workers' own books agree with the shared counters when main reads them  *)
(* (main.go:107, 114, 127-131).                                            *)
(***************************************************************************)
CountersAddUp ==
  main = "done" => /\ sent = total
                   /\ allowed + blocked + errors + otherStatus = sent
                   /\ Len(latencies) = allowed

(***************************************************************************)
(* A percentile means what it says: p percent of the latencies are no      *)
(* larger, and less than p percent are smaller.                            *)
(***************************************************************************)
Count(s, v, Test(_, _)) == Cardinality({i \in DOMAIN s : Test(s[i], v)})

PercentilesMean ==
  main = "done" /\ latencies # <<>> =>
    \A p \in {50, 90, 95, 99} :
      LET v == Pct(latencies, p) IN
      /\ 100 * Count(latencies, v, LAMBDA a, b : a <= b) >= p * Len(latencies)
      /\ 100 * Count(latencies, v, LAMBDA a, b : a < b) < p * Len(latencies)

\* The run ends with a report, whatever the flags and whatever fails.
Finishes == <>(main = "done")

=============================================================================
