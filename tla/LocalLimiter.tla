---------------------------- MODULE LocalLimiter ----------------------------
(***************************************************************************)
(* The local fall-back of one gateway for one client (limiter.go:152-180,  *)
(* 225-241): requests look the client's token bucket up in a sync.Map,     *)
(* create and store one if there is none for their row, and take a token,  *)
(* while the cleanup loop deletes buckets that have not been used for      *)
(* long.  Load, Store and Delete are atomic, what lies between is not.     *)
(*                                                                         *)
(* The bucket itself is golang.org/x/time/rate's: it holds up to limit     *)
(* tokens and gains limit / window of them per tick (a tick stands for a   *)
(* second).  Its content is counted in 1/window tokens, so that it is an   *)
(* integer.                                                                *)
(*                                                                         *)
(* A request creates at most one bucket, which bears its name.             *)
(***************************************************************************)
EXTENDS Integers, FiniteSets

CONSTANTS Request,   \* the client's requests
          Quota,     \* the [limit, window] rows they carry
          MinIdle,   \* how long a bucket is kept at least (5 minutes)
          MaxStall,  \* bound: a request takes its token at most this long after it began
          MaxTime,   \* bound of the clock
          None       \* no bucket

\* What an entry of localLimiters holds, the rate.Limiter's content included.
Bucket == [quota : Quota, level : Nat, last : Nat, lastAccessed : Nat]

\* A bucket is kept for five windows, and for MinIdle at least.
Idle(q) == IF 5 * q.window < MinIdle THEN MinIdle ELSE 5 * q.window

\* No request stalls for so long that an idle bucket could lack its token.
ASSUME LocalLimiterAssumption ==
  /\ IsFiniteSet(Request) /\ None \notin Request \union Bucket
  /\ Quota \subseteq [limit : Nat \ {0}, window : Nat \ {0}]
  /\ MinIdle \in Nat /\ MaxStall \in Nat /\ MaxTime \in Nat
  /\ \A q \in Quota : q.window + 2 * MaxStall <= Idle(q)

VARIABLES now,      \* the gateway's clock
          slot,     \* the client's entry in localLimiters
          bucket,   \* the bucket each request has created, if it has
          pc,       \* where each request is in allowLocal
          quota,    \* the row each request carries
          began,    \* its "now"
          entry,    \* the bucket it uses
          doomed,   \* has the cleanup loop decided to delete the entry?
          tookAt,   \* history: when each admitted request took its token
          since     \* history: the requests admitted since the cleanup decided

request == <<pc, quota, began, entry>>
history == <<tookAt, since>>
vars    == <<now, slot, bucket, request, doomed, history>>

Init ==
  /\ now = 0
  /\ slot = None
  /\ bucket = [r \in Request |-> None]
  /\ pc = [r \in Request |-> "idle"]
  /\ quota = [r \in Request |-> None]
  /\ began = [r \in Request |-> 0]
  /\ entry = [r \in Request |-> None]
  /\ doomed = FALSE
  /\ tookAt = [r \in Request |-> 0]
  /\ since = {}

----------------------------------------------------------------------------
(***************************************************************************)
(* rate.Limiter: how much a bucket holds, what it gains per tick, and its  *)
(* content now.                                                            *)
(***************************************************************************)
Capacity(q) == q.limit * q.window

\* Mutant: the limit is the rate, whatever the window.
GainPerTick(q) == q.limit * q.window

Gain(q) == q.limit

Level(b) ==
  LET filled == bucket[b].level + (now - bucket[b].last) * Gain(bucket[b].quota)
  IN  IF filled > Capacity(bucket[b].quota) THEN Capacity(bucket[b].quota) ELSE filled

Token(b) == bucket[b].quota.window

\* Mutant: the burst is one more than the limit.
FullBucketAndOne(q) ==
  [quota |-> q, level |-> Capacity(q) + q.window, last |-> now, lastAccessed |-> now]

FullBucket(q) ==
  [quota |-> q, level |-> Capacity(q), last |-> now, lastAccessed |-> now]

----------------------------------------------------------------------------
(***************************************************************************)
(* allowLocal.                                                             *)
(***************************************************************************)
Fits(b, q) == b # None /\ bucket[b].quota = q

Goto(r, at, next) == pc[r] = at /\ pc' = [pc EXCEPT ![r] = next]

InTime(r) == now <= began[r] + MaxStall

\* The clock is read and the client looked up; a bucket that does not fit the
\* row is replaced by a new one, which nobody else knows of yet.
Begin(r, q) ==
  /\ Goto(r, "idle", IF Fits(slot, q) THEN "touch" ELSE "store")
  /\ quota' = [quota EXCEPT ![r] = q]
  /\ began' = [began EXCEPT ![r] = now]
  /\ entry' = [entry EXCEPT ![r] = IF Fits(slot, q) THEN slot ELSE r]
  /\ bucket' = IF Fits(slot, q) THEN bucket ELSE [bucket EXCEPT ![r] = FullBucket(q)]
  /\ UNCHANGED <<now, slot, doomed, history>>

Store(r) ==
  /\ InTime(r)
  /\ Goto(r, "store", "touch")
  /\ slot' = r
  /\ UNCHANGED <<now, bucket, quota, began, entry, doomed, history>>

\* Mutant: lastAccessed keeps the time of creation.
TouchNothing(r) ==
  /\ InTime(r)
  /\ Goto(r, "touch", "take")
  /\ UNCHANGED <<now, slot, bucket, quota, began, entry, doomed, history>>

Touch(r) ==
  /\ InTime(r)
  /\ Goto(r, "touch", "take")
  /\ bucket' = [bucket EXCEPT ![entry[r]].lastAccessed = began[r]]
  /\ UNCHANGED <<now, slot, quota, began, entry, doomed, history>>

\* limiter.Allow: a whole token, if there is one.
Admit(r) ==
  /\ InTime(r)
  /\ Goto(r, "take", "admitted")
  /\ Level(entry[r]) >= Token(entry[r])
  /\ bucket' = [bucket EXCEPT ![entry[r]].level = Level(entry[r]) - Token(entry[r]),
                              ![entry[r]].last = now]
  /\ tookAt' = [tookAt EXCEPT ![r] = now]
  /\ since' = since \union {r}
  /\ UNCHANGED <<now, slot, quota, began, entry, doomed>>

Refuse(r) ==
  /\ InTime(r)
  /\ Goto(r, "take", "refused")
  /\ Level(entry[r]) < Token(entry[r])
  /\ UNCHANGED <<now, slot, bucket, quota, began, entry, doomed, history>>

----------------------------------------------------------------------------
(***************************************************************************)
(* The cleanup loop: it looks at the entry, then deletes whatever entry    *)
(* the client has.                                                         *)
(***************************************************************************)
CleanLook ==
  /\ ~ doomed
  /\ slot # None
  /\ now - bucket[slot].lastAccessed > Idle(bucket[slot].quota)
  /\ doomed' = TRUE
  /\ since' = {}
  /\ UNCHANGED <<now, slot, bucket, request, tookAt>>

CleanDelete ==
  /\ doomed
  /\ doomed' = FALSE
  /\ slot' = None
  /\ UNCHANGED <<now, bucket, request, history>>

Tick ==
  /\ now < MaxTime
  /\ now' = now + 1
  /\ UNCHANGED <<slot, bucket, request, doomed, history>>

Next ==
  \/ \E r \in Request, q \in Quota : Begin(r, q)
  \/ \E r \in Request : Store(r) \/ Touch(r) \/ Admit(r) \/ Refuse(r)
  \/ CleanLook
  \/ CleanDelete
  \/ Tick

Spec == Init /\ [][Next]_vars

----------------------------------------------------------------------------
\* The type invariant: a bucket is never overdrawn, nor over its capacity.
TypeOK ==
  /\ now \in Nat
  /\ slot \in Request \union {None}
  /\ bucket \in [Request -> Bucket \union {None}]
  /\ \A r \in Request : bucket[r] # None => bucket[r].level <= Capacity(bucket[r].quota)
  /\ pc \in [Request -> {"idle", "store", "touch", "take", "admitted", "refused"}]
  /\ quota \in [Request -> Quota \union {None}]
  /\ began \in [Request -> Nat]
  /\ entry \in [Request -> Request \union {None}]
  /\ doomed \in BOOLEAN
  /\ tookAt \in [Request -> Nat]
  /\ since \subseteq Request

Admitted(b) == {r \in Request : pc[r] = "admitted" /\ entry[r] = b}

(***************************************************************************)
(* No bucket admits, between any two of its admissions, more than its      *)
(* limit and what the time between them has earned at the rate of the row, *)
(* and it admits requests of its own row only, whatever rows are in flight *)
(* (limiter.go:159, 172-175).                                              *)
(***************************************************************************)
Between(b, s, t) == {r \in Admitted(b) : tookAt[r] \in s .. t}

BucketBound ==
  \A b \in Request : \A r, x \in Admitted(b) :
    /\ quota[r] = bucket[b].quota
    /\ Cardinality(Between(b, tookAt[r], tookAt[x])) * quota[r].window
         <= Capacity(quota[r]) + IF tookAt[x] > tookAt[r]
                                 THEN (tookAt[x] - tookAt[r]) * quota[r].limit ELSE 0

(***************************************************************************)
(* The cleanup gives no token back: what it deletes is a full bucket, but  *)
(* for the tokens requests took between its look and its Delete, however   *)
(* late requests are and in whatever order they set lastAccessed           *)
(* (limiter.go:168, 230-236).                                              *)
(***************************************************************************)
Missing(b) == Capacity(bucket[b].quota) - Level(b)

DeletesUnused ==
  [][slot # None /\ slot' = None =>
       Missing(slot) <= Token(slot) * Cardinality(since \intersect Admitted(slot))]_vars

=============================================================================
