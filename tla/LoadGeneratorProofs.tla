------------------------ MODULE LoadGeneratorProofs ------------------------
(***************************************************************************)
(* The report of the load generator is complete and its percentiles are    *)
(* what they say, for any flags, any number of workers and whatever        *)
(* becomes of the requests.                                                *)
(***************************************************************************)
EXTENDS LoadGenerator, FiniteSetTheorems, SequenceTheorems, TLAPS

At(stages) == {w \in WorkerID : worker[w] \in stages}

\* The latencies the workers in T keep, each by its place.
Places(T) == UNION {{w} \X DOMAIN lat[w] : w \in T}

\* Every job sent is in the channel, with a worker or counted, and every
\* request counted has been tallied or is about to be.
JobsCounted ==
  /\ pushed = jobs + Cardinality(At({"fire", "sent"})) + sent
  /\ sent = Cardinality(At({"tally"})) + allowed + blocked + errors + otherStatus

\* The latencies kept are those of the allowed requests, and a worker that is
\* done has handed in all of its own.
LatenciesKept ==
  /\ IsFiniteSet(Places(WorkerID))
  /\ allowed = Cardinality(Places(WorkerID))
  /\ \A w \in WorkerID :
       /\ worker[w] = "done" => perWorker[w] = lat[w]
       /\ w \notin Ids => worker[w] = "receive" /\ lat[w] = <<>>

Outcomes ==
  \A w \in WorkerID :
    /\ worker[w] \in {"sent", "tally"} => outcome[w].status # "none"
    /\ outcome[w].status = "200" => outcome[w].latency \in Latency

\* How far main is.
Phases ==
  /\ concurrency <= MaxWorkers
  /\ main # "push" => pushed = total
  /\ \A w \in WorkerID : worker[w] = "done" => main # "push" /\ jobs = 0
  /\ main \in {"merge", "done"} => \A w \in Ids : worker[w] = "done"
  /\ main \in {"push", "wait"} => merged = 0 /\ latencies = <<>>
  /\ Len(latencies) = Cardinality(Places(1 .. merged))
  /\ main = "done" => merged = concurrency /\ Ascending(latencies)

LoadInv == TypeOK /\ JobsCounted /\ LatenciesKept /\ Outcomes /\ Phases

----------------------------------------------------------------------------
LEMMA WorkersFinite ==
  ASSUME NEW S, S \subseteq WorkerID
  PROVE  IsFiniteSet(S) /\ Cardinality(S) \in Nat
<1>1. IsFiniteSet(WorkerID)
  BY FS_Interval, LoadGeneratorAssumption DEF WorkerID
<1> QED
  BY <1>1, FS_Subset, FS_CardinalityType

\* How a step of a worker changes the number of workers at some stages.
LEMMA WorkerMoves ==
  ASSUME TypeOK, NEW w \in WorkerID, NEW from, NEW to, Step(w, from, to), NEW stages
  PROVE  /\ Cardinality(At(stages)) \in Nat /\ Cardinality(At(stages)') \in Nat
         /\ (from \in stages <=> to \in stages) => Cardinality(At(stages)') = Cardinality(At(stages))
         /\ from \notin stages /\ to \in stages =>
              Cardinality(At(stages)') = Cardinality(At(stages)) + 1
         /\ from \in stages /\ to \notin stages =>
              Cardinality(At(stages)') = Cardinality(At(stages)) - 1
<1>1. /\ worker[w] = from /\ worker'[w] = to
      /\ \A v \in WorkerID \ {w} : worker'[v] = worker[v]
  BY DEF TypeOK, Step
<1>2. IsFiniteSet(At(stages)) /\ Cardinality(At(stages)) \in Nat
  BY WorkersFinite DEF At
<1>3. Cardinality(At(stages)') \in Nat
  BY WorkersFinite DEF At
<1>4. CASE from \in stages <=> to \in stages
  <2>1. At(stages)' = At(stages)
    BY <1>1, <1>4 DEF At
  <2> QED
    BY <1>2, <1>4, <2>1
<1>5. CASE from \notin stages /\ to \in stages
  <2>1. At(stages)' = At(stages) \union {w} /\ w \notin At(stages)
    BY <1>1, <1>5 DEF At
  <2> QED
    BY <1>2, <1>3, <1>5, <2>1, FS_AddElement
<1>6. CASE from \in stages /\ to \notin stages
  <2>1. At(stages)' = At(stages) \ {w} /\ w \in At(stages)
    BY <1>1, <1>6 DEF At
  <2> QED
    BY <1>2, <1>3, <1>6, <2>1, FS_RemoveElement
<1> QED
  BY <1>4, <1>5, <1>6

LEMMA PlacesAre ==
  \A T : \A p : p \in Places(T) <=> \E w \in T : \E i \in DOMAIN lat[w] : p = <<w, i>>
BY DEF Places

LEMMA InitInv == Init => LoadInv
<1> SUFFICES ASSUME Init PROVE LoadInv
  OBVIOUS
<1> USE LoadGeneratorAssumption DEF Init
<1>1. /\ total \in Nat \ {0} /\ concurrency \in Nat \ {0} /\ concurrency <= MaxWorkers
  BY DEF AtLeastOne
<1>2. TypeOK
  BY <1>1 DEF TypeOK, NoOutcome
<1>3. pushed = 0 /\ jobs = 0 /\ sent = 0 /\ allowed = 0 /\ blocked = 0 /\ errors = 0 /\ otherStatus = 0
  OBVIOUS
<1>4. At({"fire", "sent"}) = {} /\ At({"tally"}) = {} /\ Cardinality({}) = 0 /\ IsFiniteSet({})
  BY FS_EmptySet DEF At
<1>5. Places(WorkerID) = {} /\ Places(1 .. merged) = {}
  BY DEF Places
<1>6. JobsCounted /\ LatenciesKept /\ Outcomes /\ Phases
  <2>1. JobsCounted
    <3> HIDE DEF Init
    <3>1. 0 = 0 + 0 + 0 /\ 0 = 0 + 0 + 0 + 0 + 0
      OBVIOUS
    <3> QED
      BY <1>3, <1>4, <3>1 DEF JobsCounted
  <2>2. LatenciesKept
    BY <1>4, <1>5 DEF LatenciesKept
  <2>3. Outcomes
    BY DEF Outcomes, NoOutcome
  <2>4. Phases
    BY <1>1, <1>4, <1>5 DEF Phases
  <2> QED
    BY <2>1, <2>2, <2>3, <2>4
<1> QED
  BY <1>2, <1>6 DEF LoadInv

\* No worker moves once main has seen all of them done.
LEMMA WorkersFirst ==
  ASSUME LoadInv, NEW w \in WorkerID, WorkerStep(w)
  PROVE  main \in {"push", "wait"} /\ merged = 0 /\ latencies = <<>>
<1>1. w \in Ids /\ worker[w] # "done"
  BY DEF WorkerStep, Receive, Fire, CountSent, Tally, HandIn, Step
<1> QED
  BY <1>1 DEF LoadInv, TypeOK, Phases

\* A step that adds no latency.
LEMMA SamePlaces ==
  ASSUME LoadInv, lat' = lat
  PROVE  \A T : Places(T)' = Places(T)
BY DEF Places

LEMMA ReceiveInv ==
  ASSUME LoadInv, NEW w \in WorkerID, Receive(w)
  PROVE  LoadInv'
<1> USE DEF LoadInv, flags, counters, report
<1>1. main \in {"push", "wait"} /\ merged = 0 /\ latencies = <<>>
  BY WorkersFirst DEF WorkerStep
<1>2. /\ Step(w, "receive", "fire") /\ jobs > 0 /\ jobs' = jobs - 1 /\ w \in Ids
      /\ \A v \in WorkerID \ {w} : worker'[v] = worker[v]
      /\ worker[w] = "receive" /\ worker'[w] = "fire"
      /\ UNCHANGED <<flags, main, pushed, outcome, counters, lat, report>>
  BY DEF Receive, Step, TypeOK
<1>3. TypeOK'
  BY <1>2 DEF TypeOK, Step
<1>4. JobsCounted'
  <2>1. /\ Cardinality(At({"fire", "sent"})') = Cardinality(At({"fire", "sent"})) + 1
        /\ Cardinality(At({"tally"})') = Cardinality(At({"tally"}))
        /\ Cardinality(At({"fire", "sent"})) \in Nat
    BY <1>2, WorkerMoves
  <2> QED
    BY <1>2, <2>1 DEF JobsCounted, TypeOK
<1>5. LatenciesKept'
  <2>1. Ids' = Ids
    BY <1>2 DEF Ids
  <2> QED
    BY <1>2, <2>1, SamePlaces DEF LatenciesKept
<1>6. Outcomes'
  BY <1>2 DEF Outcomes
<1>7. Phases'
  <2>1. \A v \in WorkerID : worker'[v] # "done"
    BY <1>2 DEF Phases, TypeOK
  <2> QED
    BY <1>1, <1>2, <2>1, SamePlaces DEF Phases
<1> QED
  BY <1>3, <1>4, <1>5, <1>6, <1>7

LEMMA FireInv ==
  ASSUME LoadInv, NEW w \in WorkerID, Fire(w)
  PROVE  LoadInv'
<1> USE DEF LoadInv, flags, counters, report
<1>1. main \in {"push", "wait"} /\ merged = 0 /\ latencies = <<>>
  BY WorkersFirst DEF WorkerStep
<1>2. /\ Step(w, "fire", "sent") /\ w \in Ids
      /\ \A v \in WorkerID \ {w} : worker'[v] = worker[v] /\ outcome'[v] = outcome[v]
      /\ worker[w] = "fire" /\ worker'[w] = "sent"
      /\ UNCHANGED <<flags, main, pushed, jobs, counters, lat, report>>
  BY DEF Fire, Step, TypeOK
<1>3. /\ outcome' \in [WorkerID -> [status : {"none", "error", "200", "429", "other"},
                                    latency : Latency \union {0}]]
      /\ outcome'[w].status # "none"
      /\ outcome'[w].status = "200" => outcome'[w].latency \in Latency
  <2>1. CASE outcome' = [outcome EXCEPT ![w] = [status |-> "error", latency |-> 0]]
    BY <2>1 DEF TypeOK
  <2>2. CASE \E s \in {"200", "429", "other"}, d \in Latency :
               outcome' = [outcome EXCEPT ![w] = [status |-> s, latency |-> d]]
    BY <2>2 DEF TypeOK
  <2> QED
    BY <2>1, <2>2 DEF Fire
<1>4. TypeOK'
  BY <1>2, <1>3 DEF TypeOK, Step
<1>5. JobsCounted'
  <2>1. /\ Cardinality(At({"fire", "sent"})') = Cardinality(At({"fire", "sent"}))
        /\ Cardinality(At({"tally"})') = Cardinality(At({"tally"}))
    BY <1>2, WorkerMoves
  <2> QED
    BY <1>2, <2>1 DEF JobsCounted
<1>6. LatenciesKept'
  <2>1. Ids' = Ids
    BY <1>2 DEF Ids
  <2> QED
    BY <1>2, <2>1, SamePlaces DEF LatenciesKept
<1>7. Outcomes'
  BY <1>2, <1>3 DEF Outcomes
<1>8. Phases'
  BY <1>1, <1>2, SamePlaces DEF Phases
<1> QED
  BY <1>4, <1>5, <1>6, <1>7, <1>8

LEMMA CountSentInv ==
  ASSUME LoadInv, NEW w \in WorkerID, CountSent(w)
  PROVE  LoadInv'
<1> USE DEF LoadInv, flags, counters, report
<1>1. main \in {"push", "wait"} /\ merged = 0 /\ latencies = <<>>
  BY WorkersFirst DEF WorkerStep
<1>2. /\ Step(w, "sent", "tally") /\ w \in Ids /\ sent' = sent + 1
      /\ \A v \in WorkerID \ {w} : worker'[v] = worker[v]
      /\ worker[w] = "sent" /\ worker'[w] = "tally"
      /\ UNCHANGED <<flags, main, pushed, jobs, outcome, allowed, blocked, errors, otherStatus,
                     lat, report>>
  BY DEF CountSent, Step, TypeOK
<1>3. TypeOK'
  BY <1>2 DEF TypeOK, Step
<1>4. JobsCounted'
  <2>1. /\ Cardinality(At({"fire", "sent"})') = Cardinality(At({"fire", "sent"})) - 1
        /\ Cardinality(At({"tally"})') = Cardinality(At({"tally"})) + 1
        /\ Cardinality(At({"fire", "sent"})) \in Nat /\ Cardinality(At({"tally"})) \in Nat
    BY <1>2, WorkerMoves
  <2>2. /\ jobs \in Nat /\ sent \in Nat /\ allowed \in Nat /\ blocked \in Nat
        /\ errors \in Nat /\ otherStatus \in Nat
    BY DEF TypeOK
  <2> HIDE DEF LoadInv
  <2>3. /\ pushed = jobs + Cardinality(At({"fire", "sent"})) + sent
        /\ sent = Cardinality(At({"tally"})) + allowed + blocked + errors + otherStatus
    BY DEF LoadInv, JobsCounted
  <2> QED
    BY <1>2, <2>1, <2>2, <2>3 DEF JobsCounted
<1>5. LatenciesKept'
  <2>1. Ids' = Ids
    BY <1>2 DEF Ids
  <2> QED
    BY <1>2, <2>1, SamePlaces DEF LatenciesKept
<1>6. Outcomes'
  BY <1>2 DEF Outcomes
<1>7. Phases'
  BY <1>1, <1>2, SamePlaces DEF Phases
<1> QED
  BY <1>3, <1>4, <1>5, <1>6, <1>7

LEMMA TallyInv ==
  ASSUME LoadInv, NEW w \in WorkerID, Tally(w)
  PROVE  LoadInv'
<1> USE DEF LoadInv, flags, counters, report
<1>1. main \in {"push", "wait"} /\ merged = 0 /\ latencies = <<>>
  BY WorkersFirst DEF WorkerStep
<1>2. /\ Step(w, "tally", "receive") /\ w \in Ids
      /\ worker[w] = "tally" /\ worker'[w] = "receive"
      /\ \A v \in WorkerID \ {w} : worker'[v] = worker[v] /\ lat'[v] = lat[v]
      /\ UNCHANGED <<flags, main, pushed, jobs, outcome, sent, report>>
  BY DEF Tally, Step, TypeOK
<1>3. /\ errors' = errors + One(w, "error") /\ allowed' = allowed + One(w, "200")
      /\ blocked' = blocked + One(w, "429") /\ otherStatus' = otherStatus + One(w, "other")
      /\ lat' = [lat EXCEPT ![w] = IF outcome[w].status = "200" THEN Append(@, outcome[w].latency) ELSE @]
  BY DEF Tally
<1>4. /\ outcome[w].status \in {"error", "200", "429", "other"}
      /\ outcome[w].status = "200" => outcome[w].latency \in Latency
  BY <1>2 DEF Outcomes, TypeOK
<1>5. /\ One(w, "error") + One(w, "200") + One(w, "429") + One(w, "other") = 1
      /\ One(w, "error") \in Nat /\ One(w, "200") \in Nat
      /\ One(w, "429") \in Nat /\ One(w, "other") \in Nat
  BY <1>4 DEF One
<1>6. TypeOK'
  <2>1. lat' \in [WorkerID -> Seq(Latency)]
    BY <1>3, <1>4 DEF TypeOK
  <2>2. errors \in Nat /\ allowed \in Nat /\ blocked \in Nat /\ otherStatus \in Nat
    BY DEF TypeOK
  <2>3. errors' \in Nat /\ allowed' \in Nat /\ blocked' \in Nat /\ otherStatus' \in Nat
    <3> HIDE DEF LoadInv
    <3>1. \A m, n \in Nat : m + n \in Nat
      OBVIOUS
    <3> QED
      BY <1>3, <1>5, <2>2, <3>1
  <2> QED
    BY <1>2, <2>1, <2>3 DEF TypeOK, Step
<1>7. JobsCounted'
  <2>1. /\ Cardinality(At({"fire", "sent"})') = Cardinality(At({"fire", "sent"}))
        /\ Cardinality(At({"tally"})') = Cardinality(At({"tally"})) - 1
        /\ Cardinality(At({"tally"})) \in Nat
    BY <1>2, WorkerMoves
  <2>2. /\ sent \in Nat /\ allowed \in Nat /\ blocked \in Nat /\ errors \in Nat /\ otherStatus \in Nat
    BY DEF TypeOK
  <2> HIDE DEF LoadInv
  <2>3. /\ pushed = jobs + Cardinality(At({"fire", "sent"})) + sent
        /\ sent = Cardinality(At({"tally"})) + allowed + blocked + errors + otherStatus
    BY DEF LoadInv, JobsCounted
  <2>4. sent' = Cardinality(At({"tally"})') + allowed' + blocked' + errors' + otherStatus'
    <3> DEFINE e == One(w, "error")  a == One(w, "200")
               b == One(w, "429")    o == One(w, "other")
               k == Cardinality(At({"tally"}))
    <3>1. /\ e + a + b + o = 1 /\ e \in Nat /\ a \in Nat /\ b \in Nat /\ o \in Nat
          /\ errors' = errors + e /\ allowed' = allowed + a
          /\ blocked' = blocked + b /\ otherStatus' = otherStatus + o
      BY <1>3, <1>5
    <3>2. k \in Nat /\ Cardinality(At({"tally"})') = k - 1 /\ sent' = sent
          /\ sent = k + allowed + blocked + errors + otherStatus
      BY <1>2, <2>1, <2>3
    <3> HIDE DEF e, a, b, o, k
    <3> QED
      BY <2>2, <3>1, <3>2
  <2> QED
    BY <1>2, <2>1, <2>3, <2>4 DEF JobsCounted
<1>8. LatenciesKept'
  <2>1. Ids' = Ids
    BY <1>2 DEF Ids
  <2>2. IsFiniteSet(Places(WorkerID)') /\ allowed' = Cardinality(Places(WorkerID)')
    <3>1. CASE outcome[w].status = "200"
      <4> DEFINE p == <<w, Len(lat[w]) + 1>>
      <4>1. lat[w] \in Seq(Latency) /\ DOMAIN lat[w] = 1 .. Len(lat[w]) /\ Len(lat[w]) \in Nat
        BY DEF TypeOK
      <4>2. DOMAIN lat'[w] = DOMAIN lat[w] \union {Len(lat[w]) + 1}
        BY <1>3, <1>4, <3>1, <4>1 DEF TypeOK
      <4>3. \A q : q \in Places(WorkerID)' <=> q \in Places(WorkerID) \/ q = p
        BY <1>2, <4>2 DEF Places
      <4>4. Places(WorkerID)' = Places(WorkerID) \union {p} /\ p \notin Places(WorkerID)
        <5>1. p \notin Places(WorkerID)
          BY <4>1 DEF Places
        <5> QED
          BY <4>3, <5>1
      <4>5. allowed' = allowed + 1 /\ allowed \in Nat
        BY <1>3, <3>1 DEF One, TypeOK
      <4> QED
        BY <4>4, <4>5, FS_AddElement DEF LatenciesKept
    <3>2. CASE outcome[w].status # "200"
      <4>1. lat' = lat /\ allowed' = allowed
        BY <1>3, <3>2 DEF One, TypeOK
      <4> QED
        BY <4>1, SamePlaces DEF LatenciesKept
    <3> QED
      BY <3>1, <3>2
  <2> QED
    BY <1>2, <2>1, <2>2 DEF LatenciesKept
<1>9. Outcomes'
  BY <1>2 DEF Outcomes
<1>10. Phases'
  <2>1. Places(1 .. merged)' = {} /\ Places(1 .. merged) = {}
    BY <1>1, <1>2 DEF Places
  <2> QED
    BY <1>1, <1>2, <2>1 DEF Phases
<1> QED
  BY <1>6, <1>7, <1>8, <1>9, <1>10

LEMMA HandInInv ==
  ASSUME LoadInv, NEW w \in WorkerID, HandIn(w)
  PROVE  LoadInv'
<1> USE DEF LoadInv, flags, counters, report
<1>1. main \in {"push", "wait"} /\ merged = 0 /\ latencies = <<>>
  BY WorkersFirst DEF WorkerStep
<1>2. /\ Step(w, "receive", "done") /\ w \in Ids /\ main # "push" /\ jobs = 0
      /\ \A v \in WorkerID \ {w} : worker'[v] = worker[v] /\ perWorker'[v] = perWorker[v]
      /\ worker[w] = "receive" /\ worker'[w] = "done" /\ perWorker'[w] = lat[w]
      /\ UNCHANGED <<flags, main, pushed, jobs, outcome, counters, lat, merged, latencies>>
  BY DEF HandIn, Step, TypeOK
<1>3. TypeOK'
  BY <1>2 DEF TypeOK, Step, HandIn
<1>4. JobsCounted'
  <2>1. /\ Cardinality(At({"fire", "sent"})') = Cardinality(At({"fire", "sent"}))
        /\ Cardinality(At({"tally"})') = Cardinality(At({"tally"}))
    BY <1>2, WorkerMoves
  <2> QED
    BY <1>2, <2>1 DEF JobsCounted
<1>5. LatenciesKept'
  <2>1. Ids' = Ids
    BY <1>2 DEF Ids
  <2> QED
    BY <1>2, <2>1, SamePlaces DEF LatenciesKept
<1>6. Outcomes'
  BY <1>2 DEF Outcomes
<1>7. Phases'
  BY <1>1, <1>2, SamePlaces DEF Phases
<1> QED
  BY <1>3, <1>4, <1>5, <1>6, <1>7

----------------------------------------------------------------------------
LEMMA PushInv == LoadInv /\ Push => LoadInv'
<1> SUFFICES ASSUME LoadInv, Push PROVE LoadInv'
  OBVIOUS
<1> USE DEF LoadInv, flags, counters, report
<1>1. /\ main = "push" /\ pushed < total /\ jobs < concurrency
      /\ pushed' = pushed + 1 /\ jobs' = jobs + 1
      /\ UNCHANGED <<flags, main, worker, outcome, counters, lat, report>>
  BY DEF Push
<1>2. TypeOK'
  BY <1>1 DEF TypeOK
<1>3. JobsCounted'
  <2>1. At({"fire", "sent"})' = At({"fire", "sent"}) /\ At({"tally"})' = At({"tally"})
    BY <1>1 DEF At
  <2>2. Cardinality(At({"fire", "sent"})) \in Nat /\ jobs \in Nat /\ sent \in Nat
    BY WorkersFinite DEF At, TypeOK
  <2>3. pushed' = jobs' + Cardinality(At({"fire", "sent"})) + sent
    BY <1>1, <2>2 DEF JobsCounted
  <2> QED
    BY <1>1, <2>1, <2>3 DEF JobsCounted
<1>4. LatenciesKept'
  BY <1>1, SamePlaces DEF LatenciesKept, Ids
<1>5. Outcomes'
  BY <1>1 DEF Outcomes
<1>6. Phases'
  BY <1>1, SamePlaces DEF Phases
<1> QED
  BY <1>2, <1>3, <1>4, <1>5, <1>6

\* main goes on and nothing else changes.
LEMMA MainMoves ==
  ASSUME LoadInv,
         UNCHANGED <<flags, pushed, jobs, worker, outcome, counters, lat, perWorker>>
  PROVE  JobsCounted' /\ LatenciesKept' /\ Outcomes'
<1> USE DEF LoadInv, flags, counters
<1>1. At({"fire", "sent"})' = At({"fire", "sent"}) /\ At({"tally"})' = At({"tally"})
  BY DEF At
<1>2. JobsCounted'
  BY <1>1 DEF JobsCounted
<1>3. LatenciesKept'
  BY SamePlaces DEF LatenciesKept, Ids
<1>4. Outcomes'
  BY DEF Outcomes
<1> QED
  BY <1>2, <1>3, <1>4

LEMMA CloseJobsInv == LoadInv /\ CloseJobs => LoadInv'
<1> SUFFICES ASSUME LoadInv, CloseJobs PROVE LoadInv'
  OBVIOUS
<1> USE DEF LoadInv, CloseJobs, report
<1>1. JobsCounted' /\ LatenciesKept' /\ Outcomes'
  BY MainMoves
<1>2. TypeOK'
  BY DEF TypeOK, flags, counters
<1>3. Phases'
  BY SamePlaces DEF Phases, flags
<1> QED
  BY <1>1, <1>2, <1>3

LEMMA WaitInv == LoadInv /\ Wait => LoadInv'
<1> SUFFICES ASSUME LoadInv, Wait PROVE LoadInv'
  OBVIOUS
<1> USE DEF LoadInv, Wait, report
<1>1. JobsCounted' /\ LatenciesKept' /\ Outcomes'
  BY MainMoves
<1>2. TypeOK'
  BY DEF TypeOK, flags, counters
<1>3. Phases'
  BY SamePlaces DEF Phases, flags, Ids
<1> QED
  BY <1>1, <1>2, <1>3

LEMMA CardinalityOfRow ==
  ASSUME NEW x, NEW n \in Nat
  PROVE  IsFiniteSet({x} \X (1 .. n)) /\ Cardinality({x} \X (1 .. n)) = n
<1>1. IsFiniteSet(1 .. n) /\ Cardinality(1 .. n) = n
  BY FS_Interval
<1>2. IsFiniteSet({x}) /\ Cardinality({x}) = 1
  BY FS_Singleton
<1> DEFINE S == {x}  T == 1 .. n
<1>3. IsFiniteSet(S \X T) /\ Cardinality(S \X T) = Cardinality(S) * Cardinality(T)
  <2>1. IsFiniteSet(S) /\ IsFiniteSet(T)
    BY <1>1, <1>2
  <2> HIDE DEF S, T
  <2> QED
    BY <2>1, FS_Product
<1> QED
  BY <1>1, <1>2, <1>3

LEMMA CardinalityOfDisjoint ==
  ASSUME NEW S, NEW T, IsFiniteSet(S), IsFiniteSet(T), S \intersect T = {}
  PROVE  Cardinality(S \union T) = Cardinality(S) + Cardinality(T)
<1>1. /\ Cardinality(S) \in Nat /\ Cardinality(T) \in Nat /\ Cardinality({}) = 0
      /\ Cardinality(S \union T) = Cardinality(S) + Cardinality(T) - Cardinality(S \intersect T)
  BY FS_Union, FS_CardinalityType, FS_EmptySet
<1>2. Cardinality(S \intersect T) = 0
  BY <1>1
<1> QED
  BY <1>1, <1>2

LEMMA MergeInv == LoadInv /\ Merge => LoadInv'
<1> SUFFICES ASSUME LoadInv, Merge PROVE LoadInv'
  OBVIOUS
<1> USE DEF LoadInv
<1> DEFINE w == merged + 1
           D == DOMAIN lat[w]
<1>1. /\ main = "merge" /\ merged < concurrency /\ merged' = w
      /\ latencies' = latencies \o perWorker[w]
      /\ UNCHANGED <<flags, main, pushed, jobs, worker, outcome, counters, lat, perWorker>>
  BY DEF Merge
<1>2. merged \in Nat /\ w \in Ids /\ w \in WorkerID
  BY <1>1, LoadGeneratorAssumption DEF TypeOK, Phases, Ids, WorkerID
<1>3. perWorker[w] = lat[w]
  BY <1>1, <1>2 DEF Phases, LatenciesKept
<1>4. lat[w] \in Seq(Latency) /\ latencies \in Seq(Latency) /\ D = 1 .. Len(lat[w]) /\ Len(lat[w]) \in Nat
  BY <1>2 DEF TypeOK
<1>5. JobsCounted' /\ LatenciesKept' /\ Outcomes'
  BY <1>1, MainMoves
<1>6. latencies' \in Seq(Latency) /\ Len(latencies') = Len(latencies) + Len(lat[w])
  <2>1. latencies' = latencies \o lat[w]
    BY <1>1, <1>3
  <2> QED
    BY <1>4, <2>1, ConcatProperties
<1>7. TypeOK'
  <2> HIDE DEF w
  <2>1. merged' \in 0 .. concurrency
    BY <1>1, <1>2 DEF w, TypeOK
  <2> QED
    BY <1>1, <1>6, <2>1 DEF TypeOK, flags, counters
<1>8. Len(latencies') = Cardinality(Places(1 .. merged)')
  <2>1. Places(1 .. merged)' = Places(1 .. merged) \union ({w} \X D)
    <3>1. lat' = lat /\ (1 .. merged') = (1 .. merged) \union {w}
      BY <1>1, <1>2
    <3> QED
      BY <3>1 DEF Places
  <2>2. Places(1 .. merged) \intersect ({w} \X D) = {}
    BY <1>2 DEF Places
  <2>3. IsFiniteSet(Places(1 .. merged)) /\ Cardinality(Places(1 .. merged)) \in Nat
    <3>1. 1 .. merged \subseteq WorkerID
      BY <1>2, LoadGeneratorAssumption DEF WorkerID
    <3>2. Places(1 .. merged) \subseteq Places(WorkerID)
      BY <3>1 DEF Places
    <3> QED
      BY <3>2, FS_Subset, FS_CardinalityType DEF LatenciesKept
  <2>4. IsFiniteSet({w} \X D) /\ Cardinality({w} \X D) = Len(lat[w])
    BY <1>4, CardinalityOfRow
  <2>5. Cardinality(Places(1 .. merged)') = Cardinality(Places(1 .. merged)) + Len(lat[w])
    BY <2>1, <2>2, <2>3, <2>4, CardinalityOfDisjoint
  <2> QED
    BY <1>6, <2>5 DEF Phases
<1>9. Phases'
  BY <1>1, <1>8 DEF Phases, flags, Ids
<1> QED
  BY <1>5, <1>7, <1>9

\* Sorting loses nothing.
LEMMA PermutedKeeps ==
  ASSUME NEW S, NEW s \in Seq(S), NEW t \in Permuted(s)
  PROVE  t \in Seq(S) /\ Len(t) = Len(s)
<1>1. PICK p \in Bijection(DOMAIN s, DOMAIN s) : t = [i \in DOMAIN s |-> s[p[i]]]
  BY DEF Permuted
<1>2. p \in [DOMAIN s -> DOMAIN s]
  BY DEF Bijection, Injection
<1>3. DOMAIN s = 1 .. Len(s) /\ Len(s) \in Nat /\ \A i \in 1 .. Len(s) : s[i] \in S
  OBVIOUS
<1>4. t \in [1 .. Len(s) -> S]
  BY <1>1, <1>2, <1>3
<1> QED
  BY <1>3, <1>4

LEMMA ReportInv == LoadInv /\ Report => LoadInv'
<1> SUFFICES ASSUME LoadInv, Report PROVE LoadInv'
  OBVIOUS
<1> USE DEF LoadInv
<1>1. /\ main = "merge" /\ merged = concurrency /\ main' = "done"
      /\ latencies' \in Permuted(latencies) /\ Ascending(latencies')
      /\ UNCHANGED <<flags, pushed, jobs, worker, outcome, counters, lat, perWorker, merged>>
  BY DEF Report
<1>2. JobsCounted' /\ LatenciesKept' /\ Outcomes'
  BY <1>1, MainMoves
<1>3. latencies' \in Seq(Latency) /\ Len(latencies') = Len(latencies)
  BY <1>1, PermutedKeeps DEF TypeOK
<1>4. TypeOK'
  BY <1>1, <1>3 DEF TypeOK, flags, counters
<1>5. Phases'
  <2>1. Len(latencies') = Cardinality(Places(1 .. merged)')
    BY <1>1, <1>3, SamePlaces DEF Phases
  <2>2. Ascending(latencies)'
    BY <1>1 DEF Ascending
  <2> QED
    BY <1>1, <2>1, <2>2 DEF Phases, flags, Ids
<1> QED
  BY <1>2, <1>4, <1>5

LEMMA NextInv == LoadInv /\ [Next]_vars => LoadInv'
<1> SUFFICES ASSUME LoadInv, [Next]_vars PROVE LoadInv'
  OBVIOUS
<1>1. ASSUME NEW w \in WorkerID, WorkerStep(w) PROVE LoadInv'
  BY <1>1, ReceiveInv, FireInv, CountSentInv, TallyInv, HandInInv DEF WorkerStep
<1>2. CASE MainStep
  BY <1>2, PushInv, CloseJobsInv, WaitInv, MergeInv, ReportInv DEF MainStep
<1>3. CASE UNCHANGED vars
  <2> USE <1>3 DEF vars, flags, counters, report
  <2>1. JobsCounted' /\ LatenciesKept' /\ Outcomes'
    BY MainMoves
  <2>2. TypeOK'
    BY DEF LoadInv, TypeOK
  <2>3. Phases'
    BY DEF LoadInv, Phases, Ids, Places, Ascending
  <2> QED
    BY <2>1, <2>2, <2>3 DEF LoadInv
<1> QED
  BY <1>1, <1>2, <1>3 DEF Next

LEMMA LoadInvariant == Spec => []LoadInv
<1> QED
  BY InitInv, NextInv, PTL DEF Spec

\* The state is as described and the counters stay in their ranges, whatever
\* becomes of the requests (cmd/loadgen/main.go:58-134, 258-259).
THEOREM LoadTyped == Spec => []TypeOK
<1>1. LoadInv => TypeOK
  BY DEF LoadInv
<1> QED
  BY <1>1, LoadInvariant, PTL

\* The report accounts for every request asked for, once, and its percentiles
\* are taken from the latencies of all allowed requests and of no other
\* (main.go:97-131).
THEOREM ReportComplete == Spec => []CountersAddUp
<1>1. LoadInv => CountersAddUp
  <2> SUFFICES ASSUME LoadInv, main = "done" PROVE CountersAddUp
    BY DEF CountersAddUp
  <2> USE DEF LoadInv
  <2>1. /\ \A w \in Ids : worker[w] = "done"
        /\ pushed = total /\ merged = concurrency /\ concurrency <= MaxWorkers
    BY DEF Phases
  <2>2. jobs = 0
    <3>1. 1 \in Ids /\ 1 \in WorkerID
      BY LoadGeneratorAssumption DEF Ids, WorkerID, TypeOK
    <3> QED
      BY <2>1, <3>1 DEF Phases
  <2>3. At({"fire", "sent"}) = {} /\ At({"tally"}) = {} /\ Cardinality({}) = 0
    BY <2>1, FS_EmptySet DEF At, LatenciesKept
  <2>4. Places(1 .. merged) = Places(WorkerID)
    <3>1. 1 .. merged = Ids
      BY <2>1, LoadGeneratorAssumption DEF Ids, WorkerID, TypeOK
    <3>2. \A w \in WorkerID \ Ids : DOMAIN lat[w] = {}
      BY DEF LatenciesKept
    <3>3. Ids \subseteq WorkerID
      BY DEF Ids
    <3> QED
      BY <3>1, <3>2, <3>3 DEF Places
  <2>5. Len(latencies) = allowed
    BY <2>4 DEF Phases, LatenciesKept
  <2>6. /\ sent \in Nat /\ allowed \in Nat /\ blocked \in Nat /\ errors \in Nat /\ otherStatus \in Nat
    BY DEF TypeOK
  <2>7. sent = total /\ allowed + blocked + errors + otherStatus = sent
    <3>1. /\ total = 0 + 0 + sent
          /\ sent = 0 + allowed + blocked + errors + otherStatus
      BY <2>1, <2>2, <2>3 DEF JobsCounted
    <3> QED
      BY <2>6, <3>1
  <2> QED
    BY <2>5, <2>7 DEF CountersAddUp
<1> QED
  BY <1>1, LoadInvariant, PTL

----------------------------------------------------------------------------
LEMMA Ranked ==
  ASSUME NEW s \in Seq(Nat), s # <<>>, Ascending(s), NEW p \in {50, 90, 95, 99}
  PROVE  /\ 100 * Cardinality({i \in DOMAIN s : s[i] <= Pct(s, p)}) >= p * Len(s)
         /\ 100 * Cardinality({i \in DOMAIN s : s[i] < Pct(s, p)}) < p * Len(s)
<1>1. PICK n \in Nat \ {0} : Len(s) = n /\ DOMAIN s = 1 .. n /\ \A i \in 1 .. n : s[i] \in Nat
  BY EmptySeq
<1>2. PICK z \in Int : z = p * n
  BY <1>1
<1>3. PICK k : k = Ceil(z, 100)
  OBVIOUS
<1>4. k \in 1 .. n /\ 100 * k >= z /\ 100 * (k - 1) < z
  <2>1. k \in Int /\ 100 * k >= z /\ 100 * (k - 1) < z
    BY <1>3 DEF Ceil
  <2>2. 50 * n <= z /\ z <= 99 * n
    <3>1. z = 50 * n \/ z = 90 * n \/ z = 95 * n \/ z = 99 * n
      BY <1>2
    <3> QED
      BY <3>1
  <2> QED
    BY <2>1, <2>2
<1>5. Pct(s, p) = s[k]
  <2>1. Pct(s, p) = s[Clamp(k, n)]
    BY <1>1, <1>2, <1>3 DEF Pct
  <2>2. Clamp(k, n) = k
    BY <1>4 DEF Clamp
  <2> QED
    BY <2>1, <2>2
<1> DEFINE NoLarger == {i \in DOMAIN s : s[i] <= Pct(s, p)}
           Smaller  == {i \in DOMAIN s : s[i] < Pct(s, p)}
<1>6. 1 .. k \subseteq NoLarger
  <2> SUFFICES ASSUME NEW i \in 1 .. k PROVE i \in 1 .. n /\ s[i] <= s[k]
    BY <1>1, <1>5
  <2> QED
    BY <1>1, <1>4 DEF Ascending
<1>7. Smaller \subseteq 1 .. (k - 1)
  <2> SUFFICES ASSUME NEW i \in 1 .. n, s[i] < s[k] PROVE i \in 1 .. (k - 1)
    BY <1>1, <1>5
  <2>1. s[i] \in Nat /\ s[k] \in Nat /\ k \in Nat /\ (k <= i => s[k] <= s[i])
    BY <1>1, <1>4 DEF Ascending
  <2> QED
    BY <2>1
<1>8. NoLarger \subseteq 1 .. n /\ k \in Int /\ k - 1 \in Int /\ k >= 1
  BY <1>1, <1>4
<1> HIDE DEF NoLarger, Smaller
<1>9. Cardinality(NoLarger) >= k /\ Cardinality(NoLarger) \in Nat
  <2>1. IsFiniteSet(NoLarger) /\ Cardinality(NoLarger) \in Nat
    <3>1. IsFiniteSet(1 .. n)
      BY FS_Interval
    <3> QED
      BY <1>8, <3>1, FS_Subset, FS_CardinalityType
  <2>2. Cardinality(1 .. k) <= Cardinality(NoLarger)
    BY <1>6, <2>1, FS_Subset
  <2>3. Cardinality(1 .. k) = k
    BY <1>8, FS_Interval
  <2> QED
    BY <2>1, <2>2, <2>3
<1>10. Cardinality(Smaller) <= k - 1 /\ Cardinality(Smaller) \in Nat
  <2>1. IsFiniteSet(1 .. (k - 1)) /\ Cardinality(1 .. (k - 1)) = k - 1
    <3>1. 1 > k - 1 => k - 1 = 0
      BY <1>8
    <3> QED
      BY <1>8, <3>1, FS_Interval
  <2> QED
    BY <1>7, <2>1, FS_Subset, FS_CardinalityType
<1>11. 100 * Cardinality(NoLarger) >= z /\ 100 * Cardinality(Smaller) < z
  <2>1. \A x, y \in Nat : x >= k /\ y <= k - 1 => 100 * x >= z /\ 100 * y < z
    BY <1>4, <1>8
  <2> QED
    BY <1>9, <1>10, <2>1
<1> QED
  <2>1. p * Len(s) = z
    BY <1>1, <1>2
  <2> QED
    BY <1>11, <2>1, Zenon DEF NoLarger, Smaller

\* A percentile of the report means what it says (printReport and pct,
\* main.go:259, 289-301).
THEOREM PercentilesHold == Spec => []PercentilesMean
<1>1. LoadInv => PercentilesMean
  <2>1. LoadInv /\ main = "done" => latencies \in Seq(Nat) /\ Ascending(latencies)
    BY LoadGeneratorAssumption, SeqMonotonic DEF LoadInv, TypeOK, Phases
  <2> QED
    BY <2>1, Ranked DEF PercentilesMean, Count
<1> QED
  BY <1>1, LoadInvariant, PTL

=============================================================================
