-------------------------- MODULE CircuitBreaker --------------------------
(***************************************************************************)
(* The circuit breaker of one gateway (limiter.go:97-150, 182-223): the    *)
(* goroutines of the requests, each inside Manager.Allow, and the recovery *)
(* checkers they spawn, which share redisHealthy, consecFailures and       *)
(* luaSHA.  redisHealthy and consecFailures are read and written with      *)
(* atomic operations, one action each; luaSHA is a plain Go string (two    *)
(* words), written by a checker while requests read it.                    *)
(*                                                                         *)
(* Redis goes down and comes back as it likes; a call may also fail while  *)
(* Redis is up (the 5 ms deadline, or a client that hangs up: proxy.go:75  *)
(* derives the context from the request's).                                *)
(***************************************************************************)
EXTENDS Integers, FiniteSets

CONSTANTS Request,     \* the goroutines that serve requests
          Checker,     \* the goroutines that can run the recovery check
          MaxFailures, \* maxFailures
          Lossy        \* may a call to a running Redis fail?

ASSUME BreakerAssumption ==
  /\ MaxFailures \in Nat \ {0}
  /\ Lossy \in BOOLEAN

VARIABLES redisUp,        \* does Redis answer?
          redisHealthy,   \* the atomic flag
          consecFailures, \* the atomic counter
          luaSHA,         \* "" | its length written, its pointer not | set
          pc,             \* where each request is in Allow
          check,          \* where each checker is
          pinged          \* history: has a ping been answered since the flag fell?

shared == <<redisHealthy, consecFailures, luaSHA, pinged>>
vars == <<redisUp, shared, pc, check>>

RequestPC == {"idle", "readSHA", "useSHA", "call", "reset", "add", "check", "swap",
              "spawn", "local"}
CheckerPC == {"none", "ping", "close", "zero", "load", "store"}

Init ==
  /\ redisUp \in BOOLEAN
  /\ redisHealthy = 1
  /\ consecFailures = 0
  /\ luaSHA \in {"empty", "set"}
  /\ pc = [r \in Request |-> "idle"]
  /\ check = [k \in Checker |-> "none"]
  /\ pinged = FALSE

RedisFlips ==
  /\ redisUp' = ~ redisUp
  /\ UNCHANGED <<shared, pc, check>>

\* A command sent to Redis is answered, or is not.
Answered == redisUp
Unanswered == ~ redisUp \/ Lossy

----------------------------------------------------------------------------
(***************************************************************************)
(* Allow and handleRedisFailure.                                           *)
(***************************************************************************)
Goto(r, at, next) == pc[r] = at /\ pc' = [pc EXCEPT ![r] = next]

\* A request arrives; the flag chooses between Redis and the local limiter.
Start(r) ==
  /\ Goto(r, "idle", IF redisHealthy = 1 THEN "readSHA" ELSE "local")
  /\ UNCHANGED <<redisUp, shared, check>>

\* if m.luaSHA != "" looks at the length only.
ReadSHA(r) ==
  /\ Goto(r, "readSHA", IF luaSHA = "empty" THEN "call" ELSE "useSHA")
  /\ UNCHANGED <<redisUp, shared, check>>

\* The second read follows the pointer: with only the length written yet it
\* is nil, and the panic ends the request without an answer of the limiter.
UseSHA(r) ==
  /\ Goto(r, "useSHA", IF luaSHA = "torn" THEN "idle" ELSE "call")
  /\ UNCHANGED <<redisUp, shared, check>>

CallSucceeds(r) ==
  /\ Answered
  /\ Goto(r, "call", "reset")
  /\ UNCHANGED <<redisUp, shared, check>>

\* Mutant: a success takes one failure back instead of all.
ResetOneFailure(r) ==
  /\ Goto(r, "reset", "idle")
  /\ consecFailures' = consecFailures - 1
  /\ UNCHANGED <<redisUp, redisHealthy, luaSHA, pinged, check>>

ResetFailures(r) ==
  /\ Goto(r, "reset", "idle")
  /\ consecFailures' = 0
  /\ UNCHANGED <<redisUp, redisHealthy, luaSHA, pinged, check>>

\* Mutant: an error goes to the local limiter uncounted.
CallFailsUncounted(r) ==
  /\ Unanswered
  /\ Goto(r, "call", "local")
  /\ UNCHANGED <<redisUp, shared, check>>

CallFails(r) ==
  /\ Unanswered
  /\ Goto(r, "call", "add")
  /\ UNCHANGED <<redisUp, shared, check>>

\* Mutant: the threshold is compared with the counter as it was before.
AddFailureThenCompare(r) ==
  /\ Goto(r, "add", IF consecFailures >= MaxFailures THEN "check" ELSE "local")
  /\ consecFailures' = consecFailures + 1
  /\ UNCHANGED <<redisUp, redisHealthy, luaSHA, pinged, check>>

AddFailure(r) ==
  /\ Goto(r, "add", IF consecFailures + 1 >= MaxFailures THEN "check" ELSE "local")
  /\ consecFailures' = consecFailures + 1
  /\ UNCHANGED <<redisUp, redisHealthy, luaSHA, pinged, check>>

CheckHealthy(r) ==
  /\ Goto(r, "check", IF redisHealthy = 1 THEN "swap" ELSE "local")
  /\ UNCHANGED <<redisUp, shared, check>>

\* Mutants: the flag is stored, not swapped; no checker is started.
SwapByStore(r) ==
  /\ Goto(r, "swap", "spawn")
  /\ redisHealthy' = 0
  /\ pinged' = (pinged /\ redisHealthy = 0)
  /\ UNCHANGED <<redisUp, consecFailures, luaSHA, check>>

SwapWithoutChecker(r) ==
  /\ Goto(r, "swap", "local")
  /\ redisHealthy' = 0
  /\ pinged' = (pinged /\ redisHealthy = 0)
  /\ UNCHANGED <<redisUp, consecFailures, luaSHA, check>>

\* CompareAndSwap(1, 0): only the request that makes the flag fall goes on.
Swap(r) ==
  /\ Goto(r, "swap", IF redisHealthy = 1 THEN "spawn" ELSE "local")
  /\ redisHealthy' = 0
  /\ pinged' = (pinged /\ redisHealthy = 0)
  /\ UNCHANGED <<redisUp, consecFailures, luaSHA, check>>

Spawn(r, k) ==
  /\ check[k] = "none"
  /\ Goto(r, "spawn", "local")
  /\ check' = [check EXCEPT ![k] = "ping"]
  /\ UNCHANGED <<redisUp, shared>>

AnswerLocally(r) ==
  /\ Goto(r, "local", "idle")
  /\ UNCHANGED <<redisUp, shared, check>>

----------------------------------------------------------------------------
(***************************************************************************)
(* startRedisRecoveryHealthCheck.                                          *)
(***************************************************************************)
Move(k, at, next) == check[k] = at /\ check' = [check EXCEPT ![k] = next]

\* A ping that fails leaves the checker waiting for the next tick.
PingSucceeds(k) ==
  /\ Answered
  /\ Move(k, "ping", "close")
  /\ pinged' = TRUE
  /\ UNCHANGED <<redisUp, redisHealthy, consecFailures, luaSHA, pc>>

\* The flag rises first, the counter is zeroed after.
Close(k) ==
  /\ Move(k, "close", "zero")
  /\ redisHealthy' = 1
  /\ UNCHANGED <<redisUp, consecFailures, luaSHA, pinged, pc>>

\* Mutant: the checker's return is missing, it goes on pinging.
ZeroWithoutReturn(k) ==
  /\ Move(k, "zero", "ping")
  /\ consecFailures' = 0
  /\ UNCHANGED <<redisUp, redisHealthy, luaSHA, pinged, pc>>

Zero(k) ==
  /\ Move(k, "zero", IF luaSHA = "empty" THEN "load" ELSE "none")
  /\ consecFailures' = 0
  /\ UNCHANGED <<redisUp, redisHealthy, luaSHA, pinged, pc>>

\* The script is loaded; the first of the string's two words is stored.
LoadSHA(k) ==
  /\ Answered
  /\ Move(k, "load", "store")
  /\ luaSHA' \in IF luaSHA = "empty" THEN {"empty", "torn"} ELSE {luaSHA}
  /\ UNCHANGED <<redisUp, redisHealthy, consecFailures, pinged, pc>>

StoreSHA(k) ==
  /\ Move(k, "store", "none")
  /\ luaSHA' = "set"
  /\ UNCHANGED <<redisUp, redisHealthy, consecFailures, pinged, pc>>

LoadFails(k) ==
  /\ Unanswered
  /\ Move(k, "load", "none")
  /\ UNCHANGED <<redisUp, shared, pc>>

----------------------------------------------------------------------------
RequestStep(r) ==
  \/ ReadSHA(r) \/ UseSHA(r)
  \/ CallSucceeds(r) \/ ResetFailures(r)
  \/ CallFails(r) \/ AddFailure(r) \/ CheckHealthy(r) \/ Swap(r)
  \/ \E k \in Checker : Spawn(r, k)
  \/ AnswerLocally(r)

CheckerStep(k) ==
  \/ PingSucceeds(k) \/ Close(k) \/ Zero(k)
  \/ LoadSHA(k) \/ StoreSHA(k) \/ LoadFails(k)

Next ==
  \/ RedisFlips
  \/ \E r \in Request : Start(r) \/ RequestStep(r)
  \/ \E k \in Checker : CheckerStep(k)

Spec == Init /\ [][Next]_vars

\* The Go scheduler runs every goroutine that can run, every call returns (a
\* deadline sees to it) and every ticker ticks.
FairSpec ==
  /\ Spec
  /\ \A r \in Request : WF_vars(RequestStep(r))
  /\ \A k \in Checker : WF_vars(CheckerStep(k))

\* The same, with clients that never stop sending requests.
BusySpec == FairSpec /\ \A r \in Request : WF_vars(Start(r))

----------------------------------------------------------------------------
TypeOK ==
  /\ redisUp \in BOOLEAN
  /\ redisHealthy \in {0, 1}
  /\ consecFailures \in Nat
  /\ luaSHA \in {"empty", "torn", "set"}
  /\ pc \in [Request -> RequestPC]
  /\ check \in [Checker -> CheckerPC]
  /\ pinged \in BOOLEAN

(***************************************************************************)
(* While the flag is down exactly one goroutine is on its way to raise it  *)
(* again (about to be spawned, pinging, or about to store 1), and while it *)
(* is up there is none: the gateway is never stuck in fail-safe mode, and  *)
(* recovery checks never pile up (limiter.go:188-193, 207-208).            *)
(***************************************************************************)
Spawning == {r \in Request : pc[r] = "spawn"}
Recovering == {k \in Checker : check[k] \in {"ping", "close"}}

OneGuardian ==
  IF redisHealthy = 1
  THEN Spawning = {} /\ Recovering = {}
  ELSE \/ Recovering = {} /\ \E r \in Request : Spawning = {r}
       \/ Spawning = {} /\ \E k \in Checker : Recovering = {k}

(***************************************************************************)
(* A closed breaker over its threshold is about to be opened or about to   *)
(* have its counter zeroed: the threshold is never reached in vain, so the *)
(* flag that /health/deep reports lags by no more than that one step       *)
(* (limiter.go:188-190, 208-209; handlers.go:59).                          *)
(***************************************************************************)
ThresholdActed ==
  redisHealthy = 1 /\ consecFailures >= MaxFailures =>
    \/ \E r \in Request : pc[r] \in {"check", "swap"}
    \/ \E k \in Checker : check[k] = "zero"

(***************************************************************************)
(* The flag rises only after Redis has answered a ping sent since it fell: *)
(* no checker left over from an earlier outage closes the breaker.         *)
(***************************************************************************)
RisesAfterPing == [][redisHealthy = 0 /\ redisHealthy' = 1 => pinged]_vars

(***************************************************************************)
(* Once Redis stays up the gateway ends up using it for good, whatever     *)
(* stale failures are still under way ("auto-recovers", README.md:230).    *)
(***************************************************************************)
Recovers == <>[]redisUp => <>[](redisHealthy = 1)

(***************************************************************************)
(* Once Redis stays down, and requests keep coming, the gateway stops      *)
(* asking it.                                                              *)
(***************************************************************************)
Opens == <>[](~ redisUp) => <>[](redisHealthy = 0)

=============================================================================
