------------------------ MODULE CircuitBreakerProofs ------------------------
(***************************************************************************)
(* The breaker of a gateway has exactly one guardian while it is open and  *)
(* none while it is closed, for any number of requests and checkers, any   *)
(* threshold, and whatever Redis does.                                     *)
(***************************************************************************)
EXTENDS CircuitBreaker, TLAPS

\* A checker about to raise the flag has had its ping answered.
ClosersPinged == \A k \in Checker : check[k] = "close" => pinged

IInv == TypeOK /\ OneGuardian /\ ClosersPinged

LEMMA InitInv == Init => IInv
<1> SUFFICES ASSUME Init PROVE IInv
  OBVIOUS
<1>1. TypeOK
  BY DEF Init, TypeOK, RequestPC, CheckerPC
<1>2. redisHealthy = 1 /\ Spawning = {} /\ Recovering = {}
  BY DEF Init, Spawning, Recovering
<1>3. ClosersPinged
  BY DEF Init, ClosersPinged
<1> QED
  BY <1>1, <1>2, <1>3 DEF IInv, OneGuardian

\* The guardian is looked for among few places: a step that moves no request
\* into or out of "spawn", no checker into or out of "ping" and "close", and
\* leaves the flag alone, keeps it where it is.
LEMMA GuardianStays ==
  ASSUME OneGuardian, redisHealthy' = redisHealthy,
         Spawning' = Spawning, Recovering' = Recovering
  PROVE  OneGuardian'
BY DEF OneGuardian

LEMMA RequestStepInv ==
  ASSUME IInv, NEW r \in Request, Start(r) \/ RequestStep(r)
  PROVE  IInv'
<1> USE DEF Goto, IInv, TypeOK, RequestPC, CheckerPC, shared
<1>1. CASE \/ Start(r) \/ ReadSHA(r) \/ UseSHA(r)
           \/ CallSucceeds(r) \/ CallFails(r) \/ CheckHealthy(r) \/ AnswerLocally(r)
  <2>1. TypeOK'
    BY <1>1 DEF Start, ReadSHA, UseSHA, CallSucceeds, CallFails, CheckHealthy, AnswerLocally
  <2>2. /\ redisHealthy' = redisHealthy /\ check' = check /\ pinged' = pinged
        /\ Spawning' = Spawning
    BY <1>1 DEF Start, ReadSHA, UseSHA, CallSucceeds, CallFails, CheckHealthy, AnswerLocally,
                Spawning
  <2>3. Recovering' = Recovering
    BY <2>2 DEF Recovering
  <2> QED
    BY <2>1, <2>2, <2>3, GuardianStays DEF ClosersPinged
<1>2. CASE ResetFailures(r) \/ AddFailure(r)
  <2>1. TypeOK'
    BY <1>2 DEF ResetFailures, AddFailure
  <2>2. /\ redisHealthy' = redisHealthy /\ check' = check /\ pinged' = pinged
        /\ Spawning' = Spawning
    BY <1>2 DEF ResetFailures, AddFailure, Spawning
  <2>3. Recovering' = Recovering
    BY <2>2 DEF Recovering
  <2> QED
    BY <2>1, <2>2, <2>3, GuardianStays DEF ClosersPinged
<1>3. CASE Swap(r)
  <2>1. TypeOK' /\ redisHealthy' = 0 /\ check' = check
    BY <1>3 DEF Swap
  <2>2. CASE redisHealthy = 1
    <3>1. Spawning = {} /\ Recovering = {}
      BY <2>2 DEF OneGuardian
    <3>2. Spawning' = {r} /\ Recovering' = {}
      BY <1>3, <2>2, <3>1 DEF Swap, Spawning, Recovering
    <3>3. ClosersPinged'
      BY <2>1, <3>1 DEF ClosersPinged, Recovering
    <3> QED
      BY <2>1, <3>2, <3>3 DEF OneGuardian
  <2>3. CASE redisHealthy = 0
    <3>1. pinged' = pinged /\ redisHealthy' = redisHealthy
      BY <1>3, <2>3 DEF Swap
    <3>2. Spawning' = Spawning /\ Recovering' = Recovering
      BY <1>3, <2>3 DEF Swap, Spawning, Recovering
    <3> QED
      BY <2>1, <3>1, <3>2, GuardianStays DEF ClosersPinged
  <2> QED
    BY <2>2, <2>3
<1>4. ASSUME NEW k \in Checker, Spawn(r, k) PROVE IInv'
  <2>1. TypeOK' /\ redisHealthy' = redisHealthy /\ pinged' = pinged
    BY <1>4 DEF Spawn
  <2>2. r \in Spawning /\ r \notin Spawning'
    BY <1>4 DEF Spawn, Spawning
  <2>3. redisHealthy = 0 /\ Recovering = {} /\ Spawning = {r}
    BY <2>2 DEF OneGuardian
  <2>4. Spawning' = {} /\ Recovering' = {k}
    BY <1>4, <2>2, <2>3 DEF Spawn, Spawning, Recovering
  <2>5. ClosersPinged'
    BY <1>4, <2>1 DEF ClosersPinged, Spawn
  <2> QED
    BY <2>1, <2>3, <2>4, <2>5 DEF OneGuardian
<1> QED
  BY <1>1, <1>2, <1>3, <1>4 DEF RequestStep

LEMMA CheckerStepInv ==
  ASSUME IInv, NEW k \in Checker, CheckerStep(k)
  PROVE  IInv'
<1> USE DEF Move, IInv, TypeOK, RequestPC, CheckerPC, shared
<1>1. CASE PingSucceeds(k)
  <2>1. /\ TypeOK' /\ redisHealthy' = redisHealthy /\ pinged' = TRUE
        /\ Spawning' = Spawning /\ Recovering' = Recovering
    BY <1>1 DEF PingSucceeds, Spawning, Recovering
  <2> QED
    BY <2>1, GuardianStays DEF ClosersPinged
<1>2. CASE Close(k)
  <2>1. TypeOK' /\ redisHealthy' = 1 /\ pinged' = pinged /\ Spawning' = Spawning
    BY <1>2 DEF Close, Spawning
  <2>2. k \in Recovering
    BY <1>2 DEF Close, Recovering
  <2>3. Recovering = {k} /\ Spawning = {}
    BY <2>2 DEF OneGuardian
  <2>4. Recovering' = {}
    BY <1>2, <2>3 DEF Close, Recovering
  <2>5. ClosersPinged'
    BY <1>2, <2>1 DEF ClosersPinged, Close
  <2> QED
    BY <2>1, <2>3, <2>4, <2>5 DEF OneGuardian
<1>3. CASE Zero(k) \/ LoadSHA(k) \/ StoreSHA(k) \/ LoadFails(k)
  <2>1. TypeOK'
    BY <1>3 DEF Zero, LoadSHA, StoreSHA, LoadFails
  <2>2. /\ redisHealthy' = redisHealthy /\ pinged' = pinged
        /\ Spawning' = Spawning /\ Recovering' = Recovering
    BY <1>3 DEF Zero, LoadSHA, StoreSHA, LoadFails, Spawning, Recovering
  <2>3. ClosersPinged'
    BY <1>3, <2>2 DEF Zero, LoadSHA, StoreSHA, LoadFails, ClosersPinged
  <2> QED
    BY <2>1, <2>2, <2>3, GuardianStays
<1> QED
  BY <1>1, <1>2, <1>3 DEF CheckerStep

LEMMA NextInv == IInv /\ [Next]_vars => IInv'
<1> SUFFICES ASSUME IInv, [Next]_vars PROVE IInv'
  OBVIOUS
<1>1. CASE RedisFlips \/ UNCHANGED vars
  BY <1>1 DEF RedisFlips, vars, shared, IInv, TypeOK, OneGuardian, Spawning, Recovering,
              ClosersPinged
<1> QED
  BY <1>1, RequestStepInv, CheckerStepInv DEF Next

\* The types of the breaker's state.
THEOREM BreakerTyped == Spec => []TypeOK
<1>1. IInv => TypeOK
  BY DEF IInv
<1> QED
  BY <1>1, InitInv, NextInv, PTL DEF Spec

\* An open breaker always has exactly one goroutine that will try to close
\* it, a closed one none: it is never stuck open, and checks never pile up.
THEOREM BreakerHasOneGuardian == Spec => []OneGuardian
<1>1. IInv => OneGuardian
  BY DEF IInv
<1> QED
  BY <1>1, InitInv, NextInv, PTL DEF Spec

\* The breaker closes only after Redis has answered a ping sent since it
\* opened.
THEOREM BreakerClosesAfterPing == Spec => RisesAfterPing
<1>1. IInv /\ [Next]_vars => [redisHealthy = 0 /\ redisHealthy' = 1 => pinged]_vars
  <2> SUFFICES ASSUME IInv, [Next]_vars, redisHealthy = 0, redisHealthy' = 1
               PROVE  pinged
    OBVIOUS
  <2>1. PICK k \in Checker : Close(k)
    BY DEF Next, RedisFlips, Start, RequestStep, ReadSHA, UseSHA, CallSucceeds,
           ResetFailures, CallFails, AddFailure, CheckHealthy, Swap, Spawn, AnswerLocally,
           CheckerStep, PingSucceeds, Zero, LoadSHA, StoreSHA, LoadFails, shared, vars
  <2> QED
    BY <2>1 DEF Close, Move, IInv, ClosersPinged
<1> QED
  BY <1>1, InitInv, NextInv, PTL DEF Spec, RisesAfterPing

\* A request that has counted a failure over the threshold is on its way to
\* open the breaker; only a checker closes it, and zeroes the counter next.
LEMMA ThresholdStep ==
  ASSUME TypeOK, ThresholdActed, [Next]_vars
  PROVE  ThresholdActed'
<1> USE BreakerAssumption DEF TypeOK, RequestPC, CheckerPC, ThresholdActed, shared
<1>1. ASSUME NEW r \in Request, Start(r) \/ RequestStep(r) PROVE ThresholdActed'
  <2> USE DEF Goto
  <2>1. CASE Start(r) \/ ReadSHA(r) \/ UseSHA(r) \/ CallSucceeds(r) \/ CallFails(r)
    BY <2>1 DEF Start, ReadSHA, UseSHA, CallSucceeds, CallFails
  <2>2. CASE ResetFailures(r) \/ AddFailure(r)
    BY <2>2 DEF ResetFailures, AddFailure
  <2>3. CASE CheckHealthy(r) \/ Swap(r)
    BY <2>3 DEF CheckHealthy, Swap
  <2>4. CASE AnswerLocally(r) \/ \E k \in Checker : Spawn(r, k)
    BY <2>4 DEF AnswerLocally, Spawn
  <2> QED
    BY <1>1, <2>1, <2>2, <2>3, <2>4 DEF RequestStep
<1>2. ASSUME NEW k \in Checker, CheckerStep(k) PROVE ThresholdActed'
  <2> USE DEF Move
  <2>1. CASE PingSucceeds(k) \/ Close(k)
    BY <2>1 DEF PingSucceeds, Close
  <2>2. CASE Zero(k)
    BY <2>2 DEF Zero
  <2>3. CASE LoadSHA(k) \/ StoreSHA(k) \/ LoadFails(k)
    BY <2>3 DEF LoadSHA, StoreSHA, LoadFails
  <2> QED
    BY <1>2, <2>1, <2>2, <2>3 DEF CheckerStep
<1>3. CASE RedisFlips \/ UNCHANGED vars
  BY <1>3 DEF RedisFlips, vars
<1> QED
  BY <1>1, <1>2, <1>3 DEF Next

\* The threshold is never reached in vain, whatever it is and however many
\* requests and checkers race about it.
THEOREM BreakerActsAtThreshold == Spec => []ThresholdActed
<1>1. Init => ThresholdActed
  BY BreakerAssumption DEF Init, ThresholdActed
<1>2. IInv => TypeOK
  BY DEF IInv
<1> QED
  BY <1>1, <1>2, InitInv, NextInv, ThresholdStep, PTL DEF Spec

=============================================================================
