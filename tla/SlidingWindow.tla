--------------------------- MODULE SlidingWindow ---------------------------
(***************************************************************************)
(* The distributed sliding-window check of limiter.go: the gateways'       *)
(* allowRedis and the Lua script they run in the one Redis they share, for *)
(* one client (the script touches one key, "limiter:" + clientID).         *)
(*                                                                         *)
(* A gateway stamps the call with ITS clock, builds the sorted-set member  *)
(* and sends the script; Redis runs the script atomically, later, out of   *)
(* order, or never, and at most once (the 5 ms context of the caller,      *)
(* proxy.go:75, leaves no room for the client library's retries).  Redis   *)
(* may die and come back with an older snapshot of its data.               *)
(*                                                                         *)
(* What the caller does when the reply is lost is no part of this module:  *)
(* the script's verdict is what the quota is spent on.                     *)
(*                                                                         *)
(* Time is counted in ticks (a tick stands for a millisecond) of Redis's   *)
(* clock.                                                                  *)
(***************************************************************************)
EXTENDS Integers, FiniteSets

CONSTANTS Gateway,    \* the gateway processes (a restarted one is another one)
          Call,       \* the client's calls
          Quota,      \* the [limit, window] rows the calls are checked with
          MinWindow,  \* a lower bound of the windows in Quota
          MaxLimit,   \* an upper bound of the limits in Quota
          SubTick,    \* the distinguishable instants (nanoseconds) of one tick
          MaxSkew,    \* bound: a gateway's clock is at most this far from Redis's
          ClockError, \* what the clock of each gateway may be off by
          MaxDelay,   \* bound: a script runs at most this long after its stamp
          MaxTime,    \* bound of the clock
          MaxCrashes, \* bound of the number of Redis crashes
          NoArgs      \* the arguments of a call not yet made

ASSUME SlidingWindowAssumption ==
  /\ IsFiniteSet(Call)
  /\ Quota \subseteq [limit : Nat, window : Nat]
  /\ MinWindow \in Nat /\ MaxLimit \in Nat
  /\ \A q \in Quota : MinWindow <= q.window /\ q.limit <= MaxLimit
  /\ ClockError \in [Gateway -> SUBSET (-MaxSkew .. MaxSkew)]
  /\ MaxSkew \in Nat /\ MaxDelay \in Nat /\ MaxTime \in Nat /\ MaxCrashes \in Nat

VARIABLES now,      \* Redis's clock
          seq,      \* memberSeq of each gateway process
          args,     \* the script's arguments, per call, and when they were stamped
          zset,     \* the client's sorted set: member |-> score
          expireAt, \* when the key expires
          disk,     \* the last snapshot of the key
          crashes,  \* number of Redis crashes
          verdict,  \* history: what the script decided for each call
          runAt,    \* history: when
          counted   \* history: the admitted calls no crash has forgotten

redis   == <<zset, expireAt, disk, crashes>>
history == <<verdict, runAt, counted>>
vars    == <<now, seq, args, redis, history>>

\* A member is the nanosecond stamp and the process-wide sequence number.
Member == [tick : Int, sub : SubTick, seq : Nat]

Args == [gateway : Gateway, nowMS : Int, member : Member, quota : Quota, sentAt : Int]

Made == {c \in Call : args[c] # NoArgs}

Init ==
  /\ now = MaxSkew
  /\ seq = [g \in Gateway |-> 0]
  /\ args = [c \in Call |-> NoArgs]
  /\ zset = [m \in {} |-> 0]
  /\ expireAt = 0
  /\ disk = [zset |-> zset, expireAt |-> 0, counted |-> {}]
  /\ crashes = 0
  /\ verdict = [c \in Call |-> "none"]
  /\ runAt = [c \in Call |-> 0]
  /\ counted = {}

----------------------------------------------------------------------------
\* Mutants: the timestamp alone is the member (what limiter.go:25-28 warns
\* about); memberSeq is not advanced.
SendTimestamp(c, g, nowMS, sub, q) ==
  /\ args[c] = NoArgs
  /\ args' = [args EXCEPT ![c] =
       [gateway |-> g,
        nowMS   |-> nowMS,
        member  |-> [tick |-> nowMS, sub |-> sub],
        quota   |-> q,
        sentAt  |-> now]]
  /\ UNCHANGED <<now, seq, redis, history>>

SendUnnumbered(c, g, nowMS, sub, q) ==
  /\ args[c] = NoArgs
  /\ args' = [args EXCEPT ![c] =
       [gateway |-> g,
        nowMS   |-> nowMS,
        member  |-> [tick |-> nowMS, sub |-> sub, seq |-> seq[g]],
        quota   |-> q,
        sentAt  |-> now]]
  /\ UNCHANGED <<now, seq, redis, history>>

(***************************************************************************)
(* The gateway: stamp the call, build the member, send the script.  Its    *)
(* clock is off by one of the errors it may have.                          *)
(***************************************************************************)
Send(c, g, nowMS, sub, q) ==
  /\ args[c] = NoArgs
  /\ seq' = [seq EXCEPT ![g] = @ + 1]
  /\ args' = [args EXCEPT ![c] =
       [gateway |-> g,
        nowMS   |-> nowMS,
        member  |-> [tick |-> nowMS, sub |-> sub, seq |-> seq[g] + 1],
        quota   |-> q,
        sentAt  |-> now]]
  /\ UNCHANGED <<now, redis, history>>

(***************************************************************************)
(* The Lua script, one atomic step of Redis.  Live is the key it finds (an *)
(* expired key is gone), Kept what ZREMRANGEBYSCORE leaves of it and Added *)
(* the set after ZADD: a member that is already there is overwritten.      *)
(***************************************************************************)
Live == IF now > expireAt THEN {} ELSE DOMAIN zset

\* Mutants: the purge spares the boundary; it takes one tick too many.
KeptInclusive(a) == {m \in Live : zset[m] >= a.nowMS - a.quota.window}
KeptTooFew(a) == {m \in Live : zset[m] > a.nowMS - a.quota.window + 1}

Kept(a) == {m \in Live : zset[m] > a.nowMS - a.quota.window}

\* Mutant: the limit itself still has room.
RoomAtLimit(a) == Cardinality(Kept(a)) <= a.quota.limit

Room(a) == Cardinality(Kept(a)) < a.quota.limit

Added(a) == [m \in Kept(a) \union {a.member} |-> IF m = a.member THEN a.nowMS ELSE zset[m]]

RunScript(c, v) ==
  /\ c \in Made
  /\ verdict[c] = "none"
  /\ now <= args[c].sentAt + MaxDelay
  /\ verdict' = [verdict EXCEPT ![c] = v]
  /\ runAt' = [runAt EXCEPT ![c] = now]
  /\ UNCHANGED <<now, seq, args, disk, crashes>>

\* Mutant: only a new key is given an expiry.
ScriptAdmitsExpiringOnce(c) ==
  /\ RunScript(c, "admitted")
  /\ Room(args[c])
  /\ zset' = Added(args[c])
  /\ expireAt' = IF Live = {} THEN now + args[c].quota.window ELSE expireAt
  /\ counted' = counted \union {c}

ScriptAdmits(c) ==
  /\ RunScript(c, "admitted")
  /\ Room(args[c])
  /\ zset' = Added(args[c])
  /\ expireAt' = now + args[c].quota.window
  /\ counted' = counted \union {c}

ScriptRefuses(c) ==
  /\ RunScript(c, "refused")
  /\ ~ Room(args[c])
  /\ zset' = [m \in Kept(args[c]) |-> zset[m]]
  /\ UNCHANGED <<expireAt, counted>>

(***************************************************************************)
(* Redis saves its data in the background; when it dies it starts again    *)
(* with what it saved last.                                                *)
(***************************************************************************)
RedisSave ==
  /\ crashes < MaxCrashes
  /\ disk' = [zset |-> zset, expireAt |-> expireAt, counted |-> counted]
  /\ UNCHANGED <<now, seq, args, zset, expireAt, crashes, history>>

RedisCrash ==
  /\ crashes < MaxCrashes
  /\ crashes' = crashes + 1
  /\ zset' = disk.zset
  /\ expireAt' = disk.expireAt
  /\ counted' = disk.counted
  /\ UNCHANGED <<now, seq, args, disk, verdict, runAt>>

Tick ==
  /\ now < MaxTime
  /\ now' = now + 1
  /\ UNCHANGED <<seq, args, redis, history>>

Next ==
  \/ \E c \in Call, g \in Gateway, sub \in SubTick, q \in Quota :
       \E err \in ClockError[g] : Send(c, g, now + err, sub, q)
  \/ \E c \in Call : ScriptAdmits(c) \/ ScriptRefuses(c)
  \/ RedisSave
  \/ RedisCrash
  \/ Tick

Spec == Init /\ [][Next]_vars

----------------------------------------------------------------------------
(***************************************************************************)
(* Two calls never share a sorted-set member (limiter.go:123).  Within one *)
(* process memberSeq sees to it; across processes it takes two calls in    *)
(* the same nanosecond with the same sequence number to break it.          *)
(***************************************************************************)
SameMember(c, d) == c # d /\ args[c].member = args[d].member

\* No two calls of one process share a member.
ProcessMembersDistinct ==
  \A c, d \in Made : args[c].gateway = args[d].gateway => ~ SameMember(c, d)

\* The runs in which no two processes collide.
ProcessesApart ==
  \A c, d \in Made : args[c].gateway # args[d].gateway => ~ SameMember(c, d)

DistinctSpec == Init /\ [][Next /\ ProcessesApart']_vars

(***************************************************************************)
(* What a stored key (the live one, and the one on disk) says of the calls *)
(* it accounts for: each of them is in the set, and the key will outlive   *)
(* its window, unless it has left every window already; and whatever is in *)
(* the set stands for one of them.                                         *)
(***************************************************************************)
KeyType(z, e, calls) ==
  /\ z \in [DOMAIN z -> Int]
  /\ DOMAIN z \subseteq Member
  /\ e \in Int
  /\ calls \subseteq Call

Outdated(c) == args[c].nowMS + MinWindow <= now + MaxSkew

Stored(c, z, e) ==
  /\ args[c].member \in DOMAIN z
  /\ z[args[c].member] = args[c].nowMS
  /\ runAt[c] + MinWindow <= e

AllAccounted(z, e, calls) == \A c \in calls : Outdated(c) \/ Stored(c, z, e)

NothingElse(z, calls) ==
  \A m \in DOMAIN z : \E c \in calls : args[c].member = m /\ args[c].nowMS = z[m]

\* The type invariant: the range of every variable.
TypeOK ==
  /\ now \in Int
  /\ seq \in [Gateway -> Nat]
  /\ args \in [Call -> Args \union {NoArgs}]
  /\ KeyType(zset, expireAt, counted)
  /\ KeyType(disk.zset, disk.expireAt, disk.counted)
  /\ disk = [zset |-> disk.zset, expireAt |-> disk.expireAt, counted |-> disk.counted]
  /\ crashes \in Nat
  /\ verdict \in [Call -> {"none", "admitted", "refused"}]
  /\ runAt \in [Call -> Int]

\* Stamps are within MaxSkew of the sending, and scripts ran within MaxDelay.
Timely ==
  /\ \A c \in Made :
       /\ args[c].sentAt <= now
       /\ args[c].nowMS \in args[c].sentAt - MaxSkew .. args[c].sentAt + MaxSkew
       /\ args[c].member.tick = args[c].nowMS
  /\ \A c \in counted :
       /\ c \in Made /\ verdict[c] = "admitted"
       /\ runAt[c] \in args[c].sentAt .. args[c].sentAt + MaxDelay
       /\ runAt[c] <= now
  /\ disk.counted \subseteq counted

\* The sorted set is the record of the admitted calls, whatever Redis has
\* purged, expired, overwritten or restored (limiter.go:37-43).
Accounting ==
  /\ AllAccounted(zset, expireAt, counted)
  /\ AllAccounted(disk.zset, disk.expireAt, disk.counted)
  /\ NothingElse(zset, counted)
  /\ NothingElse(disk.zset, disk.counted)

(***************************************************************************)
(* The script implements the sliding-window limit, as accurately as clocks *)
(* and delays allow.                                                       *)
(***************************************************************************)
RL == INSTANCE RateLimit
        WITH Slack <- MaxDelay + 2 * MaxSkew, decidedAt <- runAt

ImplementsRateLimit == RL!Spec

\* No interval shorter than the smallest window by the slack sees more
\* admissions than the largest limit (limiter.go:37-44).
WindowBound == RL!WindowBound

\* The same, without slack: "accuracy does NOT depend on which instance a
\* request lands on" (nginx/nginx.conf:3).
ExactBound ==
  \A c \in counted : Cardinality(RL!AdmittedUpTo(c, MinWindow)) <= MaxLimit

=============================================================================
