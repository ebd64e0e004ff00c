------------------------------ MODULE Gateway ------------------------------
(***************************************************************************)
(* The requests of one client through one gateway, from the middleware     *)
(* chain to the reply (proxy.go, middleware.go, main.go:50-60): the lookup *)
(* of the row, Manager.Allow with its breaker (CircuitBreaker, composed    *)
(* here), the window at Redis, the local buckets, the forwarded call, the  *)
(* log entry and the line of the access log.                               *)
(*                                                                         *)
(* Everything happens within one window: no call leaves the window and no  *)
(* token comes back (SlidingWindow and LocalLimiter have the clock).  A    *)
(* bucket is identified with the request that made it.                     *)
(***************************************************************************)
EXTENDS Integers, Sequences, FiniteSets

CONSTANTS Request, Checker, MaxFailures, Lossy, \* as in CircuitBreaker
          Row,      \* the limit in the client's row
          Default,  \* DefaultRateLimit, when the lookup fails
          NoBucket

ASSUME GatewayAssumption ==
  /\ IsFiniteSet(Request)
  /\ MaxFailures \in Nat \ {0} /\ Lossy \in BOOLEAN
  /\ Row \in Nat \ {0} /\ Default \in Nat \ {0}
  /\ NoBucket \notin Request

VARIABLES redisUp, redisHealthy, consecFailures, luaSHA, pc, check, pinged,
          at,       \* how far each request is
          limit,    \* rateLimit, as the request read it
          allowed,  \* what Allow decided
          inflight, \* the scripts sent by calls that have given up on them
          window,   \* the requests the sorted set at Redis holds
          bucket,   \* the entry of localLimiters
          tokens,   \* what is left in each bucket
          mine,     \* the bucket each request holds
          entry,    \* what each request gave to Log
          reply,    \* what the client got: a status, "cut" or "none"
          headers,  \* the headers the chain put on the reply
          line      \* has the access log a line about it?

Breaker == INSTANCE CircuitBreaker

breaker == <<redisUp, redisHealthy, consecFailures, luaSHA, pc, check, pinged>>
local   == <<bucket, tokens, mine>>
outcome == <<entry, reply, headers, line>>
vars    == <<breaker, at, limit, allowed, inflight, window, local, outcome>>

NoEntry == [status |-> "none", isAllowed |-> FALSE]

Init ==
  /\ Breaker!Init
  /\ at = [r \in Request |-> "new"]
  /\ limit = [r \in Request |-> 0]
  /\ allowed = [r \in Request |-> "undecided"]
  /\ inflight = {} /\ window = {}
  /\ bucket = NoBucket
  /\ tokens = [r \in Request |-> 0]
  /\ mine = [r \in Request |-> NoBucket]
  /\ entry = [r \in Request |-> NoEntry]
  /\ reply = [r \in Request |-> "none"]
  /\ headers = [r \in Request |-> {}]
  /\ line = [r \in Request |-> FALSE]

----------------------------------------------------------------------------
(***************************************************************************)
(* The middleware chain, outermost first.  A layer's headers are on the    *)
(* reply when a layer further in writes it; AccessLog writes its line when *)
(* the layer further in returns, and a panic unwinds up to Recovery.       *)
(***************************************************************************)
\* Mutant: the instance is stamped after the client has been checked.
ChainStampedLast == <<"Recovery", "AccessLog", "RequestID", "ClientID", "InstanceHeader", "handler">>

Chain == <<"Recovery", "AccessLog", "RequestID", "InstanceHeader", "ClientID", "handler">>

Outside(m, layer) ==
  \E i, j \in DOMAIN Chain : i < j /\ Chain[i] = m /\ Chain[j] = layer

Stamps(layer) == {m \in {"RequestID", "InstanceHeader"} : Outside(m, layer)}

\* The layer writes the reply s and returns.
Answer(r, layer, s) ==
  /\ at' = [at EXCEPT ![r] = "done"]
  /\ reply' = [reply EXCEPT ![r] = s]
  /\ headers' = [headers EXCEPT ![r] = Stamps(layer)]
  /\ line' = [line EXCEPT ![r] = Outside("AccessLog", layer)]

\* The handler panics: Recovery writes a 500, with the headers already set.
Panic(r) ==
  /\ at' = [at EXCEPT ![r] = "done"]
  /\ reply' = [reply EXCEPT ![r] = "500"]
  /\ headers' = [headers EXCEPT ![r] = Stamps("handler")]
  /\ line' = [line EXCEPT ![r] = Outside("AccessLog", "Recovery")]
  /\ UNCHANGED entry

----------------------------------------------------------------------------
(***************************************************************************)
(* ServeHTTP up to the call of Allow.                                      *)
(***************************************************************************)
\* A path the mux does not know, or no client ID.
TurnAway(r) ==
  /\ at[r] = "new"
  /\ \/ Answer(r, "handler", "404")
     \/ Answer(r, "ClientID", "400")
  /\ UNCHANGED <<breaker, limit, allowed, inflight, window, local, entry>>

\* The row, or the defaults when PostgreSQL does not answer.
Lookup(r) ==
  /\ at[r] = "new"
  /\ at' = [at EXCEPT ![r] = "allow"]
  /\ \E n \in {Row, Default} : limit' = [limit EXCEPT ![r] = n]
  /\ UNCHANGED <<breaker, allowed, inflight, window, local, outcome>>

Allow(r) ==
  /\ at[r] = "allow"
  /\ Breaker!Start(r)
  /\ at' = [at EXCEPT ![r] = "limiter"]
  /\ UNCHANGED <<limit, allowed, inflight, window, local, outcome>>

----------------------------------------------------------------------------
(***************************************************************************)
(* allowRedis.                                                             *)
(***************************************************************************)
Room(r) == Cardinality(window) < limit[r]

Verdict(yes) == IF yes THEN "yes" ELSE "no"

\* Where a decided request goes next.
NextStop(verdict) == IF verdict = "yes" THEN "upstream" ELSE "refuse"

\* The script runs and its answer arrives.
RedisDecides(r) ==
  /\ Breaker!CallSucceeds(r)
  /\ window' = IF Room(r) THEN window \union {r} ELSE window
  /\ allowed' = [allowed EXCEPT ![r] = Verdict(Room(r))]
  /\ UNCHANGED <<at, limit, inflight, local, outcome>>

RedisDecided(r) ==
  /\ Breaker!ResetFailures(r)
  /\ at' = [at EXCEPT ![r] = NextStop(allowed[r])]
  /\ UNCHANGED <<limit, allowed, inflight, window, local, outcome>>

\* Mutant: a client that hung up is not counted as a failure of Redis.
RedisFailsUncounted(r) ==
  /\ pc[r] = "call"
  /\ pc' = [pc EXCEPT ![r] = "local"]
  /\ inflight' = inflight \union {r}
  /\ UNCHANGED <<redisUp, redisHealthy, consecFailures, luaSHA, check, pinged>>
  /\ UNCHANGED <<at, limit, allowed, window, local, outcome>>

\* The call ends in an error; its script may run all the same.
RedisFails(r) ==
  /\ Breaker!CallFails(r)
  /\ inflight' = inflight \union {r}
  /\ UNCHANGED <<at, limit, allowed, window, local, outcome>>

ScriptRunsUnheard(r) ==
  /\ redisUp
  /\ r \in inflight
  /\ inflight' = inflight \ {r}
  /\ window' = IF Room(r) THEN window \union {r} ELSE window
  /\ UNCHANGED <<breaker, at, limit, allowed, local, outcome>>

\* The read of luaSHA that follows the pointer may panic.
UseSHA(r) ==
  /\ Breaker!UseSHA(r)
  /\ IF pc'[r] = "idle" THEN Panic(r) ELSE UNCHANGED <<at, outcome>>
  /\ UNCHANGED <<limit, allowed, inflight, window, local>>

\* The steps that concern the breaker alone.
BreakerStep(r) ==
  /\ \/ Breaker!ReadSHA(r) \/ Breaker!AddFailure(r)
     \/ Breaker!CheckHealthy(r) \/ Breaker!Swap(r)
     \/ \E k \in Checker : Breaker!Spawn(r, k)
  /\ UNCHANGED <<at, limit, allowed, inflight, window, local, outcome>>

----------------------------------------------------------------------------
(***************************************************************************)
(* allowLocal: Load, Store and the token are steps of their own.           *)
(***************************************************************************)
Fits(r) == bucket # NoBucket /\ limit[bucket] = limit[r]

LocalLoad(r) ==
  /\ at[r] = "limiter" /\ pc[r] = "local"
  /\ \/ /\ Fits(r)
        /\ mine' = [mine EXCEPT ![r] = bucket]
        /\ at' = [at EXCEPT ![r] = "take"]
        /\ UNCHANGED tokens
     \/ /\ ~ Fits(r)
        /\ mine' = [mine EXCEPT ![r] = r]
        /\ at' = [at EXCEPT ![r] = "store"]
        /\ tokens' = [tokens EXCEPT ![r] = limit[r]]
  /\ UNCHANGED <<breaker, limit, allowed, inflight, window, bucket, outcome>>

LocalStore(r) ==
  /\ at[r] = "store"
  /\ bucket' = r
  /\ at' = [at EXCEPT ![r] = "take"]
  /\ UNCHANGED <<breaker, limit, allowed, inflight, window, tokens, mine, outcome>>

\* Mutant: the call waits for a token.
LocalWait(r) ==
  /\ at[r] = "take"
  /\ Breaker!AnswerLocally(r)
  /\ tokens[mine[r]] > 0
  /\ allowed' = [allowed EXCEPT ![r] = "yes"]
  /\ tokens' = [tokens EXCEPT ![mine[r]] = @ - 1]
  /\ at' = [at EXCEPT ![r] = "upstream"]
  /\ UNCHANGED <<limit, inflight, window, bucket, mine, outcome>>

\* Mutant: an empty bucket fails open.
LocalTakeOpen(r) ==
  /\ at[r] = "take"
  /\ Breaker!AnswerLocally(r)
  /\ allowed' = [allowed EXCEPT ![r] = "yes"]
  /\ tokens' = [tokens EXCEPT ![mine[r]] = IF @ > 0 THEN @ - 1 ELSE @]
  /\ at' = [at EXCEPT ![r] = "upstream"]
  /\ UNCHANGED <<limit, inflight, window, bucket, mine, outcome>>

\* Mutant: the token is taken before it is looked for.
LocalTakeOverdrawn(r) ==
  LET yes == tokens[mine[r]] > 0 IN
  /\ at[r] = "take"
  /\ Breaker!AnswerLocally(r)
  /\ allowed' = [allowed EXCEPT ![r] = Verdict(yes)]
  /\ tokens' = [tokens EXCEPT ![mine[r]] = @ - 1]
  /\ at' = [at EXCEPT ![r] = NextStop(Verdict(yes))]
  /\ UNCHANGED <<limit, inflight, window, bucket, mine, outcome>>

LocalTake(r) ==
  LET yes == tokens[mine[r]] > 0 IN
  /\ at[r] = "take"
  /\ Breaker!AnswerLocally(r)
  /\ allowed' = [allowed EXCEPT ![r] = Verdict(yes)]
  /\ tokens' = [tokens EXCEPT ![mine[r]] = IF yes THEN @ - 1 ELSE @]
  /\ at' = [at EXCEPT ![r] = NextStop(Verdict(yes))]
  /\ UNCHANGED <<limit, inflight, window, bucket, mine, outcome>>

----------------------------------------------------------------------------
(***************************************************************************)
(* ServeHTTP after Allow.  The reply is a matter of this goroutine and its *)
(* client, so it goes with the entry in one step.                          *)
(***************************************************************************)
Log(r, s, yes) == entry' = [entry EXCEPT ![r] = [status |-> s, isAllowed |-> yes]]

Refuse(r) ==
  /\ at[r] = "refuse"
  /\ Answer(r, "handler", "429")
  /\ Log(r, "429", FALSE)
  /\ UNCHANGED <<breaker, limit, allowed, inflight, window, local>>

\* The upstream answers; or answers after the server has given up writing to
\* the client (WriteTimeout is shorter than the 30 s of the upstream call).
UpstreamAnswers(r) ==
  /\ at[r] = "upstream"
  /\ \E s \in {"upstream", "cut"} : Answer(r, "handler", s)
  /\ Log(r, "upstream", TRUE)
  /\ UNCHANGED <<breaker, limit, allowed, inflight, window, local>>

\* Mutant: the entry is made after the errors have returned.
UpstreamFailsUnlogged(r) ==
  /\ at[r] = "upstream"
  /\ Answer(r, "handler", "502")
  /\ UNCHANGED <<breaker, limit, allowed, inflight, window, local, entry>>

\* It cannot be reached, or says nothing for 30 s.
UpstreamFails(r) ==
  /\ at[r] = "upstream"
  /\ Answer(r, "handler", "502")
  /\ Log(r, "502", TRUE)
  /\ UNCHANGED <<breaker, limit, allowed, inflight, window, local>>

\* Its body breaks off after the status.
UpstreamBreaksOff(r) ==
  /\ at[r] = "upstream"
  /\ Answer(r, "handler", "502")
  /\ Log(r, "upstream", TRUE)
  /\ UNCHANGED <<breaker, limit, allowed, inflight, window, local>>

----------------------------------------------------------------------------
\* Redis and the recovery checkers.
Environment ==
  /\ \/ Breaker!RedisFlips
     \/ \E k \in Checker : Breaker!CheckerStep(k)
  /\ UNCHANGED <<at, limit, allowed, inflight, window, local, outcome>>

RequestStep(r) ==
  \/ Allow(r)
  \/ UseSHA(r) \/ RedisDecides(r) \/ RedisDecided(r) \/ RedisFails(r) \/ BreakerStep(r)
  \/ LocalLoad(r) \/ LocalStore(r) \/ LocalTake(r)
  \/ Refuse(r)
  \/ UpstreamAnswers(r) \/ UpstreamFails(r) \/ UpstreamBreaksOff(r)

Next ==
  \/ \E r \in Request : TurnAway(r) \/ Lookup(r) \/ RequestStep(r) \/ ScriptRunsUnheard(r)
  \/ Environment

Spec == Init /\ [][Next]_vars

\* Every goroutine that can run runs, every call ends (5 ms at Redis, 30 s
\* upstream), every ticker ticks.
FairSpec ==
  /\ Spec
  /\ \A r \in Request : WF_vars(RequestStep(r))
  /\ \A k \in Checker : WF_vars(Breaker!CheckerStep(k) /\ Environment)

----------------------------------------------------------------------------
Stage == {"new", "allow", "limiter", "store", "take", "refuse", "upstream", "done"}
Status == {"none", "400", "404", "429", "500", "502", "upstream", "cut"}

TypeOK ==
  /\ Breaker!TypeOK
  /\ at \in [Request -> Stage]
  /\ limit \in [Request -> Nat]
  /\ allowed \in [Request -> {"undecided", "yes", "no"}]
  /\ inflight \subseteq Request /\ window \subseteq Request
  /\ bucket \in Request \union {NoBucket}
  /\ tokens \in [Request -> Nat]
  /\ mine \in [Request -> Request \union {NoBucket}]
  /\ entry \in [Request -> [status : Status, isAllowed : BOOLEAN]]
  /\ reply \in [Request -> Status]
  /\ headers \in [Request -> SUBSET {"RequestID", "InstanceHeader"}]
  /\ line \in [Request -> BOOLEAN]

(***************************************************************************)
(* Nothing is admitted for free, whichever limiter decided and however     *)
(* often the decision moved between the two: who is admitted holds a place *)
(* at Redis or a token of the bucket it asked, the places never exceed the *)
(* larger limit and the tokens those of the bucket.  A place at Redis goes *)
(* unused only when the answer was not heard, and then the local limiter   *)
(* decided (limiter.go:104-114, 133-143, 157-169).                         *)
(***************************************************************************)
Admitted == {r \in Request : allowed[r] = "yes"}

SpendingMatches ==
  /\ \A r \in Admitted : mine[r] = NoBucket => r \in window
  /\ Cardinality(window) <= Row \/ Cardinality(window) <= Default
  /\ \A b \in Request :
       mine[b] = b => Cardinality({r \in Admitted : mine[r] = b}) + tokens[b] = limit[b]
  /\ \A r \in window :
       at[r] \in {"upstream", "refuse", "done"} => r \in Admitted \/ mine[r] # NoBucket

(***************************************************************************)
(* Every request Allow decided leaves one entry that says what it decided, *)
(* and no other request leaves one: refused calls, failed upstream calls   *)
(* and replies that never arrived included (proxy.go:96-112, "Every        *)
(* approved request must be logged", inst.txt:17).                         *)
(***************************************************************************)
EveryDecisionLogged ==
  \A r \in Request : at[r] = "done" =>
    IF allowed[r] = "undecided"
    THEN entry[r] = NoEntry
    ELSE /\ entry[r].isAllowed <=> allowed[r] = "yes"
         /\ entry[r].status = "429" <=> allowed[r] = "no"

(***************************************************************************)
(* Every reply names its instance and its request, whichever layer wrote   *)
(* it ("stamps every response", middleware.go:98), and has the status of   *)
(* the entry, but for a body that broke off or a client that is gone.      *)
(***************************************************************************)
RepliesTrue ==
  \A r \in Request : at[r] = "done" =>
    /\ headers[r] = {"RequestID", "InstanceHeader"}
    /\ entry[r] # NoEntry =>
         \/ reply[r] = entry[r].status
         \/ reply[r] \in {"502", "cut"} /\ entry[r].status = "upstream"

(***************************************************************************)
(* Every request is answered: neither limiter nor the upstream holds it    *)
(* for ever ("the system must not block all traffic", inst.txt:15-16).     *)
(***************************************************************************)
Responds == \A r \in Request : at[r] = "allow" ~> at[r] = "done"

(***************************************************************************)
(* The access log "logs every request" (middleware.go:73).                 *)
(***************************************************************************)
AccessLogged == \A r \in Request : at[r] = "done" => line[r]

(***************************************************************************)
(* The composition takes no step the breaker does not know: what is proved *)
(* of CircuitBreaker holds of the gateway.                                 *)
(***************************************************************************)
ImplementsBreaker == Breaker!Spec

=============================================================================
