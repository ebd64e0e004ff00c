--------------------------- MODULE GatewayProofs ---------------------------
(***************************************************************************)
(* The composition of a gateway takes only steps its breaker knows, and    *)
(* admits nothing for free, for any number of requests and checkers, any   *)
(* two limits and any threshold.                                           *)
(***************************************************************************)
EXTENDS Gateway, FiniteSetTheorems, TLAPS

----------------------------------------------------------------------------
(***************************************************************************)
(* The steps that leave the breaker alone, and the others.                 *)
(***************************************************************************)
LEMMA StepImplementsBreaker ==
  ASSUME [Next]_vars
  PROVE  [Breaker!Next]_(Breaker!vars)
<1> USE DEF Breaker!vars, Breaker!shared, breaker
<1>1. CASE UNCHANGED vars
  BY <1>1 DEF vars
<1>2. ASSUME NEW r \in Request,
             \/ TurnAway(r) \/ Lookup(r) \/ ScriptRunsUnheard(r)
             \/ LocalLoad(r) \/ LocalStore(r) \/ Refuse(r)
             \/ UpstreamAnswers(r) \/ UpstreamFails(r) \/ UpstreamBreaksOff(r)
      PROVE  UNCHANGED Breaker!vars
  BY <1>2 DEF TurnAway, Lookup, ScriptRunsUnheard, LocalLoad, LocalStore, Refuse,
              UpstreamAnswers, UpstreamFails, UpstreamBreaksOff
<1>3. ASSUME NEW r \in Request, Allow(r)
      PROVE  Breaker!Start(r)
  BY <1>3 DEF Allow
<1>4. ASSUME NEW r \in Request,
             \/ UseSHA(r) \/ RedisDecides(r) \/ RedisDecided(r) \/ RedisFails(r)
             \/ BreakerStep(r) \/ LocalTake(r)
      PROVE  Breaker!RequestStep(r)
  BY <1>4 DEF UseSHA, RedisDecides, RedisDecided, RedisFails, BreakerStep, LocalTake,
              Breaker!RequestStep
<1>5. ASSUME Environment
      PROVE  Breaker!RedisFlips \/ \E k \in Checker : Breaker!CheckerStep(k)
  BY <1>5 DEF Environment
<1> QED
  BY <1>1, <1>2, <1>3, <1>4, <1>5 DEF Next, RequestStep, Breaker!Next

(***************************************************************************)
(* Every behaviour of the gateway is one of its breaker.                   *)
(***************************************************************************)
THEOREM GatewayImplementsBreaker == Spec => ImplementsBreaker
<1>1. Init => Breaker!Init
  BY DEF Init
<1> QED
  BY <1>1, StepImplementsBreaker, PTL DEF Spec, ImplementsBreaker, Breaker!Spec

Proven == INSTANCE CircuitBreakerProofs

\* The breaker of the proofs is that of the gateway.
LEMMA SameBreaker ==
  /\ Breaker!Init <=> Proven!Init
  /\ [Breaker!Next]_(Breaker!vars) <=> [Proven!Next]_(Proven!vars)
  /\ Breaker!OneGuardian <=> Proven!OneGuardian
BY DEF Breaker!vars, Proven!vars,
   Breaker!shared, Proven!shared,
   Breaker!Goto, Proven!Goto,
   Breaker!Start, Proven!Start,
   Breaker!ReadSHA, Proven!ReadSHA,
   Breaker!UseSHA, Proven!UseSHA,
   Breaker!CallSucceeds, Proven!CallSucceeds,
   Breaker!ResetFailures, Proven!ResetFailures,
   Breaker!CallFails, Proven!CallFails,
   Breaker!AddFailure, Proven!AddFailure,
   Breaker!CheckHealthy, Proven!CheckHealthy,
   Breaker!Swap, Proven!Swap,
   Breaker!Spawn, Proven!Spawn,
   Breaker!AnswerLocally, Proven!AnswerLocally,
   Breaker!RequestStep, Proven!RequestStep,
   Breaker!PingSucceeds, Proven!PingSucceeds,
   Breaker!Close, Proven!Close,
   Breaker!Zero, Proven!Zero,
   Breaker!LoadSHA, Proven!LoadSHA,
   Breaker!StoreSHA, Proven!StoreSHA,
   Breaker!LoadFails, Proven!LoadFails,
   Breaker!CheckerStep, Proven!CheckerStep,
   Breaker!RedisFlips, Proven!RedisFlips,
   Breaker!Next, Proven!Next,
   Breaker!Answered, Proven!Answered,
   Breaker!Unanswered, Proven!Unanswered,
   Breaker!Move, Proven!Move,
   Breaker!Init, Proven!Init,
   Breaker!OneGuardian, Proven!OneGuardian,
   Breaker!Spawning, Proven!Spawning,
   Breaker!Recovering, Proven!Recovering

(***************************************************************************)
(* What is proved of the breaker alone holds inside the gateway: exactly   *)
(* one recovery check while the breaker is open, none while it is closed   *)
(* (limiter.go:188-223).                                                   *)
(***************************************************************************)
THEOREM GatewayHasOneGuardian == Spec => []Breaker!OneGuardian
<1>1. Proven!BreakerAssumption
  BY GatewayAssumption DEF Proven!BreakerAssumption
<1>2. Proven!Spec => []Proven!OneGuardian
  BY <1>1, Proven!BreakerHasOneGuardian
<1> QED
  BY <1>2, GatewayImplementsBreaker, SameBreaker, PTL DEF ImplementsBreaker, Breaker!Spec, Proven!Spec

----------------------------------------------------------------------------
(***************************************************************************)
(* The inductive invariant of the requests: where a request is in Allow    *)
(* says what it may hold and whether it is decided.                        *)
(***************************************************************************)
Trying  == {"readSHA", "useSHA", "call"}
Failing == {"add", "check", "swap", "spawn", "local"}

Positions ==
  \A r \in Request :
    /\ at[r] \in {"new", "allow", "refuse", "upstream", "done"} => pc[r] = "idle"
    /\ at[r] = "limiter" => pc[r] \in Trying \union Failing \union {"reset"}
    /\ at[r] \in {"store", "take"} => pc[r] = "local"

Decisions ==
  \A r \in Request :
    /\ at[r] \in {"new", "allow"} => allowed[r] = "undecided"
    /\ pc[r] \in Trying \union Failing => allowed[r] = "undecided"
    /\ pc[r] = "reset" => allowed[r] # "undecided"

Buckets ==
  /\ \A r \in Request :
       /\ at[r] \in {"new", "allow", "limiter"} => mine[r] = NoBucket
       /\ at[r] \in {"store", "take"} => mine[r] # NoBucket
       /\ at[r] = "store" => mine[r] = r
       /\ mine[r] # NoBucket => mine[mine[r]] = mine[r]
  /\ bucket # NoBucket => mine[bucket] = bucket

Places ==
  \A r \in Request : mine[r] = NoBucket =>
    /\ r \in inflight => pc[r] \in Failing
    /\ r \in window => pc[r] \in Failing \/ allowed[r] = "yes"
    /\ allowed[r] = "yes" => r \in window

Limits == limit \in [Request -> {0, Row, Default}]

Shape == TypeOK /\ Positions /\ Decisions /\ Buckets /\ Places /\ Limits

LEMMA InitShape == Init => Shape
<1> SUFFICES ASSUME Init PROVE Shape
  OBVIOUS
<1>1. Breaker!TypeOK
  BY DEF Init, Breaker!Init, Breaker!TypeOK, Breaker!RequestPC, Breaker!CheckerPC
<1>2. TypeOK
  BY <1>1 DEF Init, TypeOK, NoEntry, Stage, Status
<1>3. Positions /\ Decisions /\ Buckets /\ Places /\ Limits
  BY GatewayAssumption
     DEF Init, Breaker!Init, Positions, Decisions, Buckets, Places, Limits, Trying, Failing
<1> QED
  BY <1>2, <1>3 DEF Shape

LEMMA StampsType == \A layer : Stamps(layer) \subseteq {"RequestID", "InstanceHeader"}
BY DEF Stamps

LEMMA OutsideType == \A m, layer : Outside(m, layer) \in BOOLEAN
BY DEF Outside

LEMMA AnswerTyped ==
  ASSUME TypeOK, NEW r \in Request, NEW layer, NEW s \in Status, Answer(r, layer, s)
  PROVE  /\ reply' \in [Request -> Status]
         /\ headers' \in [Request -> SUBSET {"RequestID", "InstanceHeader"}]
         /\ line' \in [Request -> BOOLEAN]
BY StampsType, OutsideType DEF TypeOK, Answer

\* The steps that leave the breaker, the window and the buckets alone.
LEMMA HandlerStepShape ==
  ASSUME Shape, Breaker!TypeOK', NEW r \in Request,
         \/ TurnAway(r) \/ Lookup(r) \/ Refuse(r)
         \/ UpstreamAnswers(r) \/ UpstreamFails(r) \/ UpstreamBreaksOff(r)
  PROVE  Shape'
<1> USE DEF Shape
<1>1. /\ UNCHANGED <<breaker, allowed, inflight, window, local>>
      /\ \E stage \in {"allow", "done"} : at' = [at EXCEPT ![r] = stage]
      /\ at[r] \in {"new", "refuse", "upstream"}
      /\ at[r] # "new" => at'[r] = "done"
  BY DEF TypeOK, TurnAway, Lookup, Refuse, UpstreamAnswers, UpstreamFails, UpstreamBreaksOff,
         breaker, local, Answer
<1> USE DEF breaker, local
<1>2. Limits' /\ limit' \in [Request -> Nat]
  <2>1. CASE Lookup(r)
    BY <2>1, GatewayAssumption DEF Limits, Lookup
  <2>2. CASE ~ Lookup(r)
    <3>1. limit' = limit
      BY <2>2 DEF TurnAway, Refuse, UpstreamAnswers, UpstreamFails, UpstreamBreaksOff
    <3> QED
      BY <3>1 DEF Limits, TypeOK
  <2> QED
    BY <2>1, <2>2
<1>3. entry' \in [Request -> [status : Status, isAllowed : BOOLEAN]]
  <2>1. \/ entry' = entry
        \/ \E s \in {"429", "502", "upstream"}, yes \in BOOLEAN : Log(r, s, yes)
    BY DEF TurnAway, Lookup, outcome, Refuse, UpstreamAnswers, UpstreamFails, UpstreamBreaksOff
  <2>2. CASE entry' = entry
    BY <2>2 DEF TypeOK
  <2>3. ASSUME NEW s \in {"429", "502", "upstream"}, NEW yes \in BOOLEAN, Log(r, s, yes)
        PROVE  entry' \in [Request -> [status : Status, isAllowed : BOOLEAN]]
    <3>1. [status |-> s, isAllowed |-> yes] \in [status : Status, isAllowed : BOOLEAN]
      BY DEF Status
    <3> QED
      BY <2>3, <3>1 DEF TypeOK, Log
  <2> QED
    BY <2>1, <2>2, <2>3
<1>4. /\ reply' \in [Request -> Status]
      /\ headers' \in [Request -> SUBSET {"RequestID", "InstanceHeader"}]
      /\ line' \in [Request -> BOOLEAN]
  <2>1. CASE Lookup(r)
    BY <2>1 DEF Lookup, TypeOK, outcome
  <2>2. CASE ~ Lookup(r)
    <3>1. \E layer \in {"handler", "ClientID"}, s \in {"404", "400", "429", "upstream", "cut", "502"} :
            Answer(r, layer, s)
      BY <2>2 DEF TurnAway, Refuse, UpstreamAnswers, UpstreamFails, UpstreamBreaksOff
    <3> QED
      BY <3>1, AnswerTyped DEF Status
  <2> QED
    BY <2>1, <2>2
<1>6. TypeOK'
  BY <1>1, <1>2, <1>3, <1>4 DEF TypeOK, Stage
<1>7. Positions' /\ Decisions'
  BY <1>1 DEF Positions, Decisions, TypeOK
<1>8. Buckets' /\ Places'
  BY <1>1 DEF Buckets, Places, TypeOK
<1> QED
  BY <1>2, <1>6, <1>7, <1>8

\* The steps inside Allow that decide nothing yet.
LEMMA BreakerStepShape ==
  ASSUME Shape, Breaker!TypeOK', NEW r \in Request, BreakerStep(r)
  PROVE  Shape'
<1> USE DEF Shape, Trying, Failing, Breaker!Goto
<1>1. /\ UNCHANGED <<at, limit, allowed, inflight, window, local, outcome>>
      /\ pc[r] \in Trying \union Failing
      /\ \E step \in Trying \union Failing : pc' = [pc EXCEPT ![r] = step]
      /\ pc[r] \in Failing => pc'[r] \in Failing
      /\ pc[r] # "local"
  BY DEF TypeOK, Breaker!TypeOK, BreakerStep, Breaker!ReadSHA, Breaker!AddFailure, Breaker!CheckHealthy,
         Breaker!Swap, Breaker!Spawn
<1> USE DEF local, outcome
<1>3. TypeOK' /\ Limits'
  BY <1>1 DEF TypeOK, Limits
<1>4. Positions' /\ Decisions'
  BY <1>1 DEF Positions, Decisions, TypeOK, Breaker!TypeOK
<1>5. Buckets' /\ Places'
  BY <1>1 DEF Buckets, Places, TypeOK, Breaker!TypeOK
<1> QED
  BY <1>3, <1>4, <1>5

\* A panic ends the request before it holds anything.
LEMMA UseSHAShape ==
  ASSUME Shape, Breaker!TypeOK', NEW r \in Request, UseSHA(r)
  PROVE  Shape'
<1> USE DEF Shape, Trying, Failing, Breaker!Goto, UseSHA, Breaker!UseSHA, local
<1>1. /\ UNCHANGED <<limit, allowed, inflight, window, local>>
      /\ pc[r] = "useSHA" /\ at[r] = "limiter"
      /\ \/ pc' = [pc EXCEPT ![r] = "call"] /\ UNCHANGED <<at, outcome>>
         \/ pc' = [pc EXCEPT ![r] = "idle"] /\ Panic(r)
  BY DEF TypeOK, Breaker!TypeOK, Positions, Stage
<1>2. TypeOK' /\ Limits'
  <2>1. CASE UNCHANGED <<at, outcome>>
    BY <1>1, <2>1 DEF TypeOK, Limits, outcome
  <2>2. CASE Panic(r)
    <3>1. /\ at' \in [Request -> Stage] /\ reply' \in [Request -> Status] /\ entry' = entry
      BY <2>2 DEF Panic, TypeOK, Stage, Status
    <3>2. /\ headers' \in [Request -> SUBSET {"RequestID", "InstanceHeader"}]
          /\ line' \in [Request -> BOOLEAN]
      BY <2>2, StampsType, OutsideType DEF Panic, TypeOK
    <3> QED
      BY <1>1, <3>1, <3>2 DEF TypeOK, Limits
  <2> QED
    BY <1>1, <2>1, <2>2
<1>3. Positions' /\ Decisions'
  BY <1>1 DEF Positions, Decisions, TypeOK, Breaker!TypeOK, Panic
<1>4. Buckets'
  BY <1>1 DEF Buckets, TypeOK, Panic
<1>5. Places'
  BY <1>1 DEF Places, TypeOK, Breaker!TypeOK
<1> QED
  BY <1>2, <1>3, <1>4, <1>5

LEMMA RedisStepShape ==
  ASSUME Shape, Breaker!TypeOK', NEW r \in Request,
         Allow(r) \/ RedisDecides(r) \/ RedisDecided(r) \/ RedisFails(r) \/ ScriptRunsUnheard(r)
  PROVE  Shape'
<1> USE DEF Shape, Trying, Failing, Breaker!Goto, outcome, local
<1>1. CASE Allow(r)
  <2> USE <1>1 DEF Allow, Breaker!Start
  <2>1. TypeOK' /\ Limits'
    BY DEF TypeOK, Limits, Stage
  <2>2. Positions' /\ Decisions'
    BY DEF Positions, Decisions, TypeOK, Breaker!TypeOK
  <2>3. Buckets'
    BY DEF Buckets, TypeOK
  <2>4. Places'
    BY DEF Places, TypeOK, Breaker!TypeOK, Positions
  <2> QED
    BY <2>1, <2>2, <2>3, <2>4
<1>2. CASE RedisDecides(r)
  <2> USE <1>2 DEF RedisDecides, Breaker!CallSucceeds
  <2>0. at[r] = "limiter" /\ mine[r] = NoBucket /\ r \notin inflight /\ r \notin window
    BY DEF TypeOK, Positions, Buckets, Places, Decisions, Stage
  <2>1. TypeOK' /\ Limits'
    BY DEF TypeOK, Limits, Verdict
  <2>2. Positions' /\ Decisions'
    BY <2>0 DEF Positions, Decisions, TypeOK, Breaker!TypeOK, Verdict
  <2>3. Buckets'
    BY DEF Buckets
  <2>4. Places'
    BY <2>0 DEF Places, TypeOK, Breaker!TypeOK, Verdict
  <2> QED
    BY <2>1, <2>2, <2>3, <2>4
<1>3. CASE RedisDecided(r)
  <2> USE <1>3 DEF RedisDecided, Breaker!ResetFailures
  <2>0. at[r] = "limiter" /\ NextStop(allowed[r]) \in {"upstream", "refuse"}
    BY DEF TypeOK, Positions, Stage, NextStop
  <2>1. TypeOK' /\ Limits'
    BY <2>0 DEF TypeOK, Limits, Stage
  <2>2. Positions' /\ Decisions'
    BY <2>0 DEF Positions, Decisions, TypeOK, Breaker!TypeOK
  <2>3. Buckets'
    BY <2>0 DEF Buckets, TypeOK
  <2>4. Places'
    BY DEF Places, TypeOK, Breaker!TypeOK
  <2> QED
    BY <2>1, <2>2, <2>3, <2>4
<1>4. CASE RedisFails(r)
  <2> USE <1>4 DEF RedisFails, Breaker!CallFails
  <2>1. TypeOK' /\ Limits'
    BY DEF TypeOK, Limits
  <2>2. Positions' /\ Decisions'
    BY DEF Positions, Decisions, TypeOK, Breaker!TypeOK
  <2>3. Buckets' /\ Places'
    BY DEF Buckets, Places, TypeOK, Breaker!TypeOK
  <2> QED
    BY <2>1, <2>2, <2>3
<1>5. CASE ScriptRunsUnheard(r)
  <2> USE <1>5 DEF ScriptRunsUnheard, breaker
  <2>1. TypeOK' /\ Limits'
    BY DEF TypeOK, Limits
  <2>2. Positions' /\ Decisions' /\ Buckets' /\ Places'
    BY DEF Positions, Decisions, Buckets, Places
  <2> QED
    BY <2>1, <2>2
<1> QED
  BY <1>1, <1>2, <1>3, <1>4, <1>5

LEMMA LocalStepShape ==
  ASSUME Shape, Breaker!TypeOK', NEW r \in Request,
         LocalLoad(r) \/ LocalStore(r) \/ LocalTake(r)
  PROVE  Shape'
<1> USE GatewayAssumption DEF Shape, Trying, Failing, Breaker!Goto, outcome
<1>1. CASE LocalLoad(r)
  <2> USE <1>1 DEF LocalLoad, breaker
  <2>1. TypeOK' /\ Limits'
    BY DEF TypeOK, Limits, Stage, Fits
  <2>2. Positions' /\ Decisions'
    BY DEF Positions, Decisions, TypeOK
  <2>3. Buckets'
    BY DEF Buckets, TypeOK, Fits
  <2>4. Places'
    BY DEF Places, Buckets, TypeOK, Fits
  <2> QED
    BY <2>1, <2>2, <2>3, <2>4
<1>2. CASE LocalStore(r)
  <2> USE <1>2 DEF LocalStore, breaker
  <2>1. TypeOK' /\ Limits'
    BY DEF TypeOK, Limits, Stage
  <2>2. Positions' /\ Decisions'
    BY DEF Positions, Decisions, TypeOK
  <2>3. Buckets' /\ Places'
    BY DEF Buckets, Places, TypeOK
  <2> QED
    BY <2>1, <2>2, <2>3
<1>3. CASE LocalTake(r)
  <2> USE <1>3 DEF LocalTake, Breaker!AnswerLocally
  <2>0. mine[r] \in Request
    BY DEF TypeOK, Buckets
  <2>1. TypeOK' /\ Limits'
    BY <2>0 DEF TypeOK, Limits, Stage, Verdict, NextStop
  <2>2. Positions' /\ Decisions'
    BY DEF Positions, Decisions, TypeOK, Breaker!TypeOK, Verdict, NextStop
  <2>3. Buckets' /\ Places'
    BY <2>0 DEF Buckets, Places, TypeOK, Breaker!TypeOK, Verdict, NextStop
  <2> QED
    BY <2>1, <2>2, <2>3
<1> QED
  BY <1>1, <1>2, <1>3

LEMMA NextShape ==
  ASSUME Shape, Breaker!TypeOK', [Next]_vars
  PROVE  Shape'
<1>1. CASE UNCHANGED vars
  BY <1>1 DEF Shape, vars, breaker, local, outcome, TypeOK, Positions, Decisions, Buckets, Places, Limits
<1>2. CASE Environment
  <2>1. UNCHANGED <<pc, at, limit, allowed, inflight, window, local, outcome>>
    BY <1>2 DEF Environment, Breaker!RedisFlips, Breaker!CheckerStep, Breaker!PingSucceeds,
                Breaker!Close, Breaker!Zero, Breaker!LoadSHA, Breaker!StoreSHA, Breaker!LoadFails
  <2> QED
    BY <2>1 DEF Shape, local, outcome, TypeOK, Positions, Decisions, Buckets, Places, Limits
<1> QED
  BY <1>1, <1>2, HandlerStepShape, BreakerStepShape, UseSHAShape, RedisStepShape, LocalStepShape
     DEF Next, RequestStep

----------------------------------------------------------------------------
(***************************************************************************)
(* The books: the places taken at Redis and the tokens taken from a bucket.*)
(***************************************************************************)
WindowFits == Cardinality(window) <= Row \/ Cardinality(window) <= Default

Holders(b) == {r \in Admitted : mine[r] = b}

TokensKept == \A b \in Request : mine[b] = b => Cardinality(Holders(b)) + tokens[b] = limit[b]

LEMMA InitBooks == Init => WindowFits /\ TokensKept
<1> SUFFICES ASSUME Init PROVE WindowFits /\ TokensKept
  OBVIOUS
<1>1. WindowFits
  BY FS_EmptySet, GatewayAssumption DEF Init, WindowFits
<1>2. TokensKept
  BY GatewayAssumption DEF Init, TokensKept
<1> QED
  BY <1>1, <1>2

\* A place is taken only where there is room.
LEMMA NextWindow ==
  ASSUME Shape, WindowFits, [Next]_vars
  PROVE  WindowFits'
<1>1. CASE UNCHANGED window
  BY <1>1 DEF WindowFits
<1>2. ASSUME NEW r \in Request, window' = IF Room(r) THEN window \union {r} ELSE window
      PROVE  WindowFits'
  <2>1. IsFiniteSet(window)
    BY FS_Subset, GatewayAssumption DEF Shape, TypeOK
  <2>2. limit[r] \in {0, Row, Default} /\ Cardinality(window) \in Nat
    BY <2>1, FS_CardinalityType DEF Shape, Limits
  <2>3. Cardinality(window \union {r}) <= Cardinality(window) + 1
    <3>1. Cardinality(window \union {r}) =
            IF r \in window THEN Cardinality(window) ELSE Cardinality(window) + 1
      BY <2>1, FS_AddElement
    <3> QED
      BY <2>2, <3>1
  <2>4. Cardinality(window \union {r}) \in Nat
    BY <2>1, FS_AddElement, FS_CardinalityType
  <2> QED
    BY <1>2, <2>2, <2>3, <2>4, GatewayAssumption DEF WindowFits, Room
<1> QED
  BY <1>1, <1>2
     DEF Next, RequestStep, vars, TurnAway, Lookup, Allow, RedisDecides, RedisDecided, RedisFails,
         ScriptRunsUnheard, UseSHA, BreakerStep, LocalLoad, LocalStore, LocalTake, Refuse,
         UpstreamAnswers, UpstreamFails, UpstreamBreaksOff, Environment

LEMMA LocalTakeBooks ==
  ASSUME Shape, TokensKept, NEW r \in Request, LocalTake(r)
  PROVE  TokensKept'
<1> DEFINE b == mine[r]
<1>1. /\ b \in Request /\ mine[b] = b /\ r \notin Admitted
      /\ pc[r] = "local" /\ UNCHANGED <<limit, mine>>
  BY DEF LocalTake, Breaker!AnswerLocally, Breaker!Goto, Shape, TypeOK, Buckets, Decisions,
         Failing, Trying, Admitted
<1>2. Holders(b) \subseteq Request /\ IsFiniteSet(Holders(b))
  BY FS_Subset, GatewayAssumption DEF Holders, Admitted
<1>3. Cardinality(Holders(b)) \in Nat /\ tokens[b] \in Nat /\ limit[b] \in Nat
  BY <1>1, <1>2, FS_CardinalityType DEF Shape, TypeOK
<1>4. CASE tokens[b] > 0
  <2>1. Admitted' = Admitted \union {r} /\ tokens' = [tokens EXCEPT ![b] = @ - 1]
    <3>1. allowed' = [allowed EXCEPT ![r] = "yes"] /\ tokens' = [tokens EXCEPT ![b] = @ - 1]
      BY <1>4 DEF LocalTake, Verdict
    <3> QED
      BY <3>1 DEF Admitted, Shape, TypeOK
  <2>2. Holders(b)' = Holders(b) \union {r} /\ r \notin Holders(b)
    BY <1>1, <2>1 DEF Holders
  <2>3. Cardinality(Holders(b)') = Cardinality(Holders(b)) + 1
    BY <1>2, <2>2, FS_AddElement
  <2>4. tokens'[b] = tokens[b] - 1 /\ \A c \in Request \ {b} : tokens'[c] = tokens[c]
    BY <1>1, <2>1 DEF Shape, TypeOK
  <2>5. \A c \in Request \ {b} : Holders(c)' = Holders(c)
    BY <1>1, <2>1 DEF Holders
  <2> QED
    BY <1>1, <1>3, <2>3, <2>4, <2>5 DEF TokensKept
<1>5. CASE ~ tokens[b] > 0
  <2>1. Admitted' = Admitted /\ tokens' = tokens
    BY <1>1, <1>5 DEF LocalTake, Admitted, Verdict, Shape, TypeOK
  <2> QED
    BY <1>1, <2>1 DEF TokensKept, Holders
<1> QED
  BY <1>4, <1>5

\* A new bucket is full and nobody has taken from it.
LEMMA LocalLoadBooks ==
  ASSUME Shape, TokensKept, NEW r \in Request, LocalLoad(r)
  PROVE  TokensKept'
<1>1. /\ mine[r] = NoBucket /\ r \notin Admitted /\ Admitted' = Admitted /\ limit' = limit
  BY DEF LocalLoad, Shape, Decisions, Buckets, Admitted, Failing, Trying
<1>2. CASE Fits(r) /\ mine' = [mine EXCEPT ![r] = bucket] /\ UNCHANGED tokens
  <2>1. bucket # r
    BY <1>1, <1>2, GatewayAssumption DEF Fits, Shape, Buckets
  <2>2. \A c \in Request : Holders(c)' = Holders(c) /\ (mine'[c] = c => mine[c] = c)
    BY <1>1, <1>2, <2>1 DEF Holders, Admitted, Shape, TypeOK
  <2> QED
    BY <1>1, <1>2, <2>2 DEF TokensKept
<1>3. CASE mine' = [mine EXCEPT ![r] = r] /\ tokens' = [tokens EXCEPT ![r] = limit[r]]
  <2>1. \A c \in Request \ {r} : Holders(c)' = Holders(c) /\ mine'[c] = mine[c] /\ tokens'[c] = tokens[c]
    BY <1>1, <1>3 DEF Holders, Admitted, Shape, TypeOK
  <2>2. Holders(r)' = {}
    <3>1. \A x \in Request : mine[x] # r
      BY <1>1, GatewayAssumption DEF Shape, Buckets
    <3> QED
      BY <1>1, <1>3, <3>1 DEF Holders, Admitted, Shape, TypeOK
  <2>3. tokens'[r] = limit[r] /\ limit[r] \in Nat
    BY <1>3 DEF Shape, TypeOK
  <2> QED
    BY <1>1, <2>1, <2>2, <2>3, FS_EmptySet DEF TokensKept
<1> QED
  BY <1>2, <1>3 DEF LocalLoad

LEMMA NextTokens ==
  ASSUME Shape, TokensKept, [Next]_vars
  PROVE  TokensKept'
<1>1. ASSUME UNCHANGED <<limit, allowed, tokens, mine>>
      PROVE  TokensKept'
  BY <1>1 DEF TokensKept, Holders, Admitted
<1>2. ASSUME NEW r \in Request, Lookup(r)
      PROVE  TokensKept'
  <2>1. mine[r] # r
    BY <1>2, GatewayAssumption DEF Lookup, Shape, Buckets
  <2>2. \A c \in Request \ {r} : limit'[c] = limit[c]
    BY <1>2 DEF Lookup, Shape, TypeOK
  <2> QED
    BY <1>2, <2>1, <2>2 DEF TokensKept, Holders, Admitted, Lookup, local
<1>3. ASSUME NEW r \in Request, RedisDecides(r)
      PROVE  TokensKept'
  <2>1. mine[r] = NoBucket /\ UNCHANGED <<limit, tokens, mine>>
    BY <1>3 DEF RedisDecides, Breaker!CallSucceeds, Breaker!Goto, Shape, TypeOK, Positions, Buckets,
                Stage, local
  <2>2. \A x \in Request \ {r} : x \in Admitted' <=> x \in Admitted
    BY <1>3 DEF RedisDecides, Admitted, Shape, TypeOK
  <2>3. \A c \in Request : Holders(c)' = Holders(c)
    BY <2>1, <2>2, GatewayAssumption DEF Holders, Admitted
  <2> QED
    BY <2>1, <2>3 DEF TokensKept
<1> QED
  BY <1>1, <1>2, <1>3, LocalLoadBooks, LocalTakeBooks
     DEF Next, RequestStep, vars, TurnAway, Allow, RedisDecided, RedisFails,
         ScriptRunsUnheard, UseSHA, BreakerStep, LocalStore, Refuse,
         UpstreamAnswers, UpstreamFails, UpstreamBreaksOff, Environment, local

----------------------------------------------------------------------------
LEMMA BooksAreRight ==
  ASSUME Shape, WindowFits, TokensKept
  PROVE  SpendingMatches
<1>1. \A r \in Admitted : mine[r] = NoBucket => r \in window
  BY DEF Shape, Places, Admitted
<1>2. \A r \in window :
        at[r] \in {"upstream", "refuse", "done"} => r \in Admitted \/ mine[r] # NoBucket
  BY DEF Shape, TypeOK, Positions, Places, Admitted, Failing
<1> QED
  BY <1>1, <1>2 DEF SpendingMatches, WindowFits, TokensKept, Holders

----------------------------------------------------------------------------
(***************************************************************************)
(* The entry of a request is made with its reply.                          *)
(***************************************************************************)
Entries ==
  \A r \in Request :
    /\ at[r] = "upstream" => allowed[r] = "yes"
    /\ at[r] = "refuse" => allowed[r] = "no"
    /\ at[r] # "done" => entry[r] = NoEntry

LoggedInv == Entries /\ EveryDecisionLogged

LEMMA InitLogged == Init => LoggedInv
BY DEF Init, LoggedInv, Entries, EveryDecisionLogged

LEMMA NextLogged ==
  ASSUME Shape, LoggedInv, [Next]_vars
  PROVE  LoggedInv'
<1> USE DEF LoggedInv, Entries, EveryDecisionLogged
<1>1. ASSUME UNCHANGED <<at, allowed, entry>>
      PROVE  LoggedInv'
  BY <1>1
<1>2. ASSUME NEW r \in Request, TurnAway(r)
      PROVE  LoggedInv'
  BY <1>2 DEF TurnAway, Answer, Shape, TypeOK, Decisions
<1>3. ASSUME NEW r \in Request, Lookup(r) \/ Allow(r) \/ LocalLoad(r) \/ LocalStore(r)
      PROVE  LoggedInv'
  <2>1. /\ UNCHANGED <<allowed, entry>> /\ at[r] # "done"
        /\ \E stage \in {"allow", "limiter", "store", "take"} : at' = [at EXCEPT ![r] = stage]
    BY <1>3 DEF Lookup, Allow, LocalLoad, LocalStore, outcome
  <2> QED
    BY <2>1 DEF Shape, TypeOK
<1>4. ASSUME NEW r \in Request, UseSHA(r)
      PROVE  LoggedInv'
  <2>1. UNCHANGED <<allowed, entry>> /\ pc[r] = "useSHA"
    BY <1>4 DEF UseSHA, Breaker!UseSHA, Breaker!Goto, Panic, outcome
  <2>2. at' = at \/ at' = [at EXCEPT ![r] = "done"]
    BY <1>4 DEF UseSHA, Panic
  <2>3. allowed[r] = "undecided" /\ at[r] = "limiter"
    BY <2>1 DEF Shape, TypeOK, Stage, Positions, Decisions, Trying
  <2> QED
    BY <2>1, <2>2, <2>3 DEF Shape, TypeOK
<1>5. ASSUME NEW r \in Request, RedisDecides(r)
      PROVE  LoggedInv'
  <2>1. pc[r] = "call" /\ UNCHANGED <<at, entry>>
    BY <1>5 DEF RedisDecides, Breaker!CallSucceeds, Breaker!Goto, outcome
  <2>2. at[r] = "limiter"
    BY <2>1 DEF Shape, TypeOK, Stage, Positions
  <2>3. \A x \in Request \ {r} : allowed'[x] = allowed[x]
    BY <1>5 DEF RedisDecides, Shape, TypeOK
  <2> QED
    BY <2>1, <2>2, <2>3
<1>6. ASSUME NEW r \in Request, RedisDecided(r)
      PROVE  LoggedInv'
  <2>1. pc[r] = "reset" /\ UNCHANGED <<allowed, entry>> /\ at' = [at EXCEPT ![r] = NextStop(allowed[r])]
    BY <1>6 DEF RedisDecided, Breaker!ResetFailures, Breaker!Goto, outcome
  <2>2. at[r] = "limiter" /\ allowed[r] \in {"yes", "no"}
    BY <2>1 DEF Shape, TypeOK, Stage, Positions, Decisions
  <2> QED
    BY <2>1, <2>2 DEF Shape, TypeOK, NextStop
<1>7. ASSUME NEW r \in Request, LocalTake(r)
      PROVE  LoggedInv'
  <2>1. /\ at[r] = "take" /\ entry' = entry
        /\ \E v \in {"yes", "no"} : /\ allowed' = [allowed EXCEPT ![r] = v]
                                    /\ at' = [at EXCEPT ![r] = NextStop(v)]
    BY <1>7 DEF LocalTake, Verdict, outcome
  <2> QED
    BY <2>1 DEF Shape, TypeOK, NextStop
<1>8. ASSUME NEW r \in Request,
             Refuse(r) \/ UpstreamAnswers(r) \/ UpstreamFails(r) \/ UpstreamBreaksOff(r)
      PROVE  LoggedInv'
  <2>1. /\ allowed' = allowed /\ at' = [at EXCEPT ![r] = "done"]
        /\ \/ at[r] = "refuse" /\ Log(r, "429", FALSE)
           \/ at[r] = "upstream" /\ \E s \in {"upstream", "502"} : Log(r, s, TRUE)
    BY <1>8 DEF Refuse, UpstreamAnswers, UpstreamFails, UpstreamBreaksOff, Answer
  <2> QED
    BY <2>1 DEF Shape, TypeOK, Log
<1> QED
  BY <1>1, <1>2, <1>3, <1>4, <1>5, <1>6, <1>7, <1>8
     DEF Next, RequestStep, vars, RedisFails, ScriptRunsUnheard, BreakerStep, Environment, outcome

----------------------------------------------------------------------------
(***************************************************************************)
(* What the chain puts on a reply, and what the client is told.            *)
(***************************************************************************)
LEMMA StampedInside ==
  Stamps("handler") = {"RequestID", "InstanceHeader"} /\ Stamps("ClientID") = {"RequestID", "InstanceHeader"}
<1>1. DOMAIN Chain = 1 .. 6
  BY DEF Chain
<1>2. Chain[3] = "RequestID" /\ Chain[4] = "InstanceHeader" /\ Chain[5] = "ClientID" /\ Chain[6] = "handler"
  BY DEF Chain
<1>3. 3 \in 1 .. 6 /\ 4 \in 1 .. 6 /\ 5 \in 1 .. 6 /\ 6 \in 1 .. 6 /\ 3 < 5 /\ 3 < 6 /\ 4 < 5 /\ 4 < 6
  OBVIOUS
<1> QED
  BY <1>1, <1>2, <1>3 DEF Stamps, Outside

\* Whoever writes the reply, and whatever it says: a 404 or a 400, or the reply
\* that goes with an entry.
LEMMA AnswerTrue ==
  ASSUME Shape, RepliesTrue, NEW r \in Request, NEW layer \in {"handler", "ClientID"}, NEW s,
         Answer(r, layer, s),
         \A x \in Request \ {r} : entry'[x] = entry[x],
         \/ entry'[r] = NoEntry
         \/ s = entry'[r].status
         \/ s \in {"502", "cut"} /\ entry'[r].status = "upstream"
  PROVE  RepliesTrue'
<1>1. /\ headers'[r] = {"RequestID", "InstanceHeader"} /\ reply'[r] = s
      /\ \A x \in Request \ {r} : /\ at'[x] = at[x] /\ headers'[x] = headers[x]
                                  /\ reply'[x] = reply[x]
  BY StampedInside DEF Answer, Shape, TypeOK
<1> QED
  BY <1>1 DEF RepliesTrue

LEMMA NextReplies ==
  ASSUME Shape, Entries, RepliesTrue, [Next]_vars
  PROVE  RepliesTrue'
<1>1. ASSUME NEW r \in Request, NEW stage \in Stage \ {"done"},
             at' = [at EXCEPT ![r] = stage], UNCHANGED outcome
      PROVE  RepliesTrue'
  BY <1>1 DEF RepliesTrue, Shape, TypeOK, outcome
<1>2. ASSUME UNCHANGED <<at, outcome>>
      PROVE  RepliesTrue'
  BY <1>2 DEF RepliesTrue, outcome
<1>3. ASSUME NEW r \in Request, TurnAway(r)
      PROVE  RepliesTrue'
  <2>1. entry' = entry /\ entry[r] = NoEntry
    BY <1>3 DEF TurnAway, Entries
  <2>2. Answer(r, "handler", "404") \/ Answer(r, "ClientID", "400")
    BY <1>3 DEF TurnAway
  <2> QED
    BY <2>1, <2>2, AnswerTrue
<1>4. ASSUME NEW r \in Request, UseSHA(r)
      PROVE  RepliesTrue'
  <2>1. CASE UNCHANGED <<at, outcome>>
    BY <1>2, <2>1
  <2>2. CASE Panic(r)
    <3>1. pc[r] = "useSHA"
      BY <1>4 DEF UseSHA, Breaker!UseSHA, Breaker!Goto
    <3>2. at[r] = "limiter"
      BY <3>1 DEF Shape, TypeOK, Stage, Positions
    <3>3. entry' = entry /\ entry[r] = NoEntry
      BY <2>2, <3>2 DEF Panic, Entries
    <3> QED
      BY <2>2, <3>3, StampedInside DEF Panic, RepliesTrue, Shape, TypeOK
  <2> QED
    BY <1>4, <2>1, <2>2 DEF UseSHA
<1>5. ASSUME NEW r \in Request,
             Refuse(r) \/ UpstreamAnswers(r) \/ UpstreamFails(r) \/ UpstreamBreaksOff(r)
      PROVE  RepliesTrue'
  <2>1. \E s \in {"429", "upstream", "cut", "502"}, logged \in {"429", "upstream", "502"}, yes \in BOOLEAN :
          /\ Answer(r, "handler", s) /\ Log(r, logged, yes)
          /\ s = logged \/ (s \in {"502", "cut"} /\ logged = "upstream")
    BY <1>5 DEF Refuse, UpstreamAnswers, UpstreamFails, UpstreamBreaksOff
  <2>2. PICK s \in {"429", "upstream", "cut", "502"}, logged \in {"429", "upstream", "502"}, yes \in BOOLEAN :
          /\ Answer(r, "handler", s) /\ Log(r, logged, yes)
          /\ s = logged \/ (s \in {"502", "cut"} /\ logged = "upstream")
    BY <2>1
  <2>3. entry'[r].status = logged /\ \A x \in Request \ {r} : entry'[x] = entry[x]
    BY <2>2 DEF Log, Shape, TypeOK
  <2> QED
    BY <2>2, <2>3, AnswerTrue
<1>6. ASSUME NEW r \in Request,
             \/ Lookup(r) \/ Allow(r) \/ RedisDecided(r)
             \/ LocalLoad(r) \/ LocalStore(r) \/ LocalTake(r)
      PROVE  RepliesTrue'
  <2>1. /\ UNCHANGED outcome
        /\ \E stage \in Stage \ {"done"} : at' = [at EXCEPT ![r] = stage]
    BY <1>6 DEF Lookup, Allow, RedisDecided, LocalLoad, LocalStore, LocalTake, NextStop, Stage
  <2> QED
    BY <1>1, <2>1
<1>7. ASSUME NEW r \in Request,
             RedisDecides(r) \/ RedisFails(r) \/ BreakerStep(r) \/ ScriptRunsUnheard(r)
      PROVE  RepliesTrue'
  BY <1>2, <1>7 DEF RedisDecides, RedisFails, BreakerStep, ScriptRunsUnheard
<1>8. ASSUME Environment \/ UNCHANGED vars
      PROVE  RepliesTrue'
  BY <1>2, <1>8 DEF Environment, vars, outcome
<1> QED
  BY <1>3, <1>4, <1>5, <1>6, <1>7, <1>8 DEF Next, RequestStep

----------------------------------------------------------------------------
(***************************************************************************)
(* The breaker's own type invariant, proved of CircuitBreaker, is what the *)
(* steps above assume of it.                                               *)
(***************************************************************************)
LEMMA BreakerTypedHere == Spec => []Breaker!TypeOK
<1>1. Proven!BreakerAssumption
  BY GatewayAssumption DEF Proven!BreakerAssumption
<1>2. Proven!Spec => []Proven!TypeOK
  BY <1>1, Proven!BreakerTyped
<1>3. Proven!TypeOK <=> Breaker!TypeOK
  BY DEF Proven!TypeOK, Breaker!TypeOK, Proven!RequestPC, Breaker!RequestPC,
         Proven!CheckerPC, Breaker!CheckerPC
<1> QED
  BY <1>2, <1>3, GatewayImplementsBreaker, SameBreaker, PTL
     DEF ImplementsBreaker, Breaker!Spec, Proven!Spec

LEMMA ShapeHolds == Spec => []Shape
BY BreakerTypedHere, InitShape, NextShape, PTL DEF Spec

(***************************************************************************)
(* Every variable of the gateway has its type.                             *)
(***************************************************************************)
THEOREM GatewayTyped == Spec => []TypeOK
<1>1. Shape => TypeOK
  BY DEF Shape
<1> QED
  BY <1>1, ShapeHolds, PTL

(***************************************************************************)
(* Nothing is admitted for free: whoever is admitted holds a place in the  *)
(* window at Redis or a token of the bucket it asked, however often the    *)
(* decision moved from the one to the other (limiter.go:104-114, 133-143). *)
(***************************************************************************)
THEOREM AdmissionsPaidFor == Spec => []SpendingMatches
<1>1. Spec => [](WindowFits /\ TokensKept)
  BY ShapeHolds, InitBooks, NextWindow, NextTokens, PTL DEF Spec
<1> QED
  BY <1>1, ShapeHolds, BooksAreRight, PTL

LEMMA LoggedHolds == Spec => []LoggedInv
BY ShapeHolds, InitLogged, NextLogged, PTL DEF Spec

(***************************************************************************)
(* Every request Allow decided leaves one entry that says what it decided  *)
(* (proxy.go:96-112).                                                      *)
(***************************************************************************)
THEOREM DecisionsLogged == Spec => []EveryDecisionLogged
<1>1. LoggedInv => EveryDecisionLogged
  BY DEF LoggedInv
<1> QED
  BY <1>1, LoggedHolds, PTL

(***************************************************************************)
(* Every reply carries both headers and the status of its entry, but for a *)
(* body that broke off and a client that is gone (proxy.go:146-157,        *)
(* middleware.go:98-109).                                                  *)
(***************************************************************************)
THEOREM RepliesMatchEntries == Spec => []RepliesTrue
<1>1. Init => RepliesTrue
  BY DEF Init, RepliesTrue
<1>2. LoggedInv => Entries
  BY DEF LoggedInv
<1> QED
  BY <1>1, <1>2, ShapeHolds, LoggedHolds, NextReplies, PTL DEF Spec

=============================================================================
