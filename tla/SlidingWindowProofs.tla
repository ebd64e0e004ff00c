------------------------ MODULE SlidingWindowProofs ------------------------
(***************************************************************************)
(* The Redis script implements the sliding-window limit for any number of  *)
(* gateways, calls, quotas, snapshots and crashes, whatever the clock      *)
(* errors and delays within their bounds; and the abstract limit keeps     *)
(* what it promises, so the script does.                                   *)
(***************************************************************************)
EXTENDS SlidingWindow, FiniteSetTheorems, TLAPS

IInv == TypeOK /\ Timely /\ Accounting

\* What the bounds make of a call's stamps (limiter.go:120).
LEMMA Stamps ==
  ASSUME IInv, NEW c \in Made
  PROVE  /\ args[c] \in Args
         /\ args[c].nowMS \in Int /\ args[c].sentAt \in Int
         /\ args[c].sentAt <= now
         /\ args[c].sentAt - MaxSkew <= args[c].nowMS
         /\ args[c].nowMS <= args[c].sentAt + MaxSkew
         /\ args[c].nowMS <= now + MaxSkew
         /\ args[c].quota \in Quota
         /\ args[c].quota.window \in Nat /\ MinWindow <= args[c].quota.window
         /\ args[c].quota.limit \in Nat
<1>1. args[c] \in Args
  BY DEF IInv, TypeOK, Made
<1>2. args[c].nowMS \in Int /\ args[c].sentAt \in Int /\ args[c].quota \in Quota
  BY <1>1 DEF Args
<1>3. /\ args[c].sentAt <= now
      /\ args[c].nowMS \in args[c].sentAt - MaxSkew .. args[c].sentAt + MaxSkew
  BY DEF IInv, Timely
<1> QED
  BY <1>1, <1>2, <1>3, SlidingWindowAssumption DEF IInv, TypeOK

\* A call that ran more than a window ago is outdated.
LEMMA RanLongAgo ==
  ASSUME IInv, NEW c \in counted, runAt[c] + MinWindow < now
  PROVE  Outdated(c)
<1>1. c \in Made /\ runAt[c] >= args[c].sentAt
  BY Stamps DEF IInv, Timely, Made, TypeOK, KeyType
<1>2. runAt[c] \in Int /\ now \in Int
  BY DEF IInv, TypeOK, KeyType
<1> QED
  BY <1>1, <1>2, Stamps, SlidingWindowAssumption DEF Outdated

LEMMA InitInv == Init => IInv
<1> SUFFICES ASSUME Init PROVE IInv
  OBVIOUS
<1>1. TypeOK
  BY SlidingWindowAssumption DEF Init, TypeOK, KeyType
<1>2. Timely
  BY DEF Init, Timely, Made
<1>3. Accounting
  BY DEF Init, Accounting, AllAccounted, NothingElse
<1> QED
  BY <1>1, <1>2, <1>3 DEF IInv

LEMMA SendInv ==
  ASSUME IInv, NEW c \in Call, NEW g \in Gateway, NEW sub \in SubTick, NEW q \in Quota,
         NEW err \in ClockError[g], Send(c, g, now + err, sub, q)
  PROVE  IInv'
<1>0. err \in Int /\ -MaxSkew <= err /\ err <= MaxSkew /\ MaxSkew \in Nat
  BY SlidingWindowAssumption
<1>1. args'[c] \in Args
  BY <1>0 DEF Send, IInv, TypeOK, Args, Member
<1>2. TypeOK'
  BY <1>1 DEF IInv, TypeOK, KeyType, Send, redis, history
<1>3. c \notin counted /\ c \notin disk.counted
  BY DEF IInv, Timely, Made, Send
<1>4. \A d \in Call \ {c} : args'[d] = args[d]
  BY DEF IInv, TypeOK, Send
<1>5. /\ args'[c].sentAt = now
      /\ args'[c].nowMS = now + err
      /\ args'[c].member.tick = now + err
  BY DEF IInv, TypeOK, Send
<1>6. Timely'
  <2>1. ASSUME NEW d \in Made'
        PROVE  /\ args'[d].sentAt <= now
               /\ args'[d].nowMS \in args'[d].sentAt - MaxSkew .. args'[d].sentAt + MaxSkew
               /\ args'[d].member.tick = args'[d].nowMS
    <3>1. CASE d = c
      BY <3>1, <1>0, <1>5 DEF IInv, TypeOK
    <3>2. CASE d # c
      BY <3>2, <1>4 DEF IInv, Timely, Made
    <3> QED
      BY <3>1, <3>2
  <2>2. \A d \in counted : d \in Call \ {c} /\ d \in Made'
    BY <1>3, <1>4 DEF IInv, Timely, Made
  <2> QED
    BY <2>1, <2>2, <1>4 DEF IInv, Timely, Send, redis, history
<1>7. Accounting'
  <2>1. \A d \in counted \union disk.counted : args'[d] = args[d]
    BY <1>3, <1>4 DEF IInv, TypeOK, KeyType
  <2> QED
    BY <2>1 DEF IInv, Accounting, AllAccounted, NothingElse, Outdated, Stored,
                Send, redis, history
<1> QED
  BY <1>2, <1>6, <1>7 DEF IInv

\* What is left of the key after the purge still accounts for every call.
LEMMA PurgeAccounts ==
  ASSUME IInv, NEW a \in Made, NEW z,
         Kept(args[a]) \subseteq DOMAIN z,
         \A m \in Kept(args[a]) : z[m] = zset[m]
  PROVE  \A d \in counted :
           \/ Outdated(d)
           \/ /\ args[d].member \in DOMAIN z
              /\ z[args[d].member] = args[d].nowMS
              /\ runAt[d] + MinWindow <= expireAt
              /\ now <= expireAt
<1> SUFFICES ASSUME NEW d \in counted, ~ Outdated(d)
             PROVE  /\ args[d].member \in Kept(args[a])
                    /\ zset[args[d].member] = args[d].nowMS
                    /\ runAt[d] + MinWindow <= expireAt
                    /\ now <= expireAt
  OBVIOUS
<1>1. /\ args[d].member \in DOMAIN zset
      /\ zset[args[d].member] = args[d].nowMS
      /\ runAt[d] + MinWindow <= expireAt
  BY DEF IInv, Accounting, AllAccounted, Stored
<1>2. d \in Made /\ runAt[d] \in Int /\ now \in Int /\ expireAt \in Int
  BY DEF IInv, TypeOK, KeyType, Timely
<1>3. now <= expireAt
  BY <1>1, <1>2, RanLongAgo, SlidingWindowAssumption
<1>4. args[d].nowMS > args[a].nowMS - args[a].quota.window
  BY <1>2, Stamps, SlidingWindowAssumption DEF Outdated
<1> QED
  BY <1>1, <1>2, <1>3, <1>4 DEF Kept, Live

LEMMA AdmitsInv ==
  ASSUME IInv, NEW c \in Call, ScriptAdmits(c)
  PROVE  IInv'
<1> USE SlidingWindowAssumption
<1>1. c \in Made /\ c \notin counted /\ c \notin disk.counted
  BY DEF IInv, Timely, ScriptAdmits, RunScript
<1>2. /\ args' = args /\ now' = now /\ disk' = disk /\ Made' = Made
      /\ \A d \in counted : runAt'[d] = runAt[d] /\ verdict'[d] = verdict[d]
      /\ \A d \in disk.counted : runAt'[d] = runAt[d]
  BY <1>1 DEF ScriptAdmits, RunScript, Made, IInv, TypeOK, KeyType
<1>3. /\ runAt'[c] = now /\ verdict'[c] = "admitted"
      /\ expireAt' = now + args[c].quota.window
      /\ counted' = counted \union {c}
  BY DEF ScriptAdmits, RunScript, IInv, TypeOK
<1>4. /\ DOMAIN zset' = Kept(args[c]) \union {args[c].member}
      /\ zset'[args[c].member] = args[c].nowMS
      /\ \A m \in Kept(args[c]) : m # args[c].member => zset'[m] = zset[m]
  BY DEF ScriptAdmits, Added
<1>5. Kept(args[c]) \subseteq DOMAIN zset
  BY DEF Kept, Live
<1>6. args[c].member \in Member
  BY <1>1, Stamps DEF Args
<1>7. KeyType(zset, expireAt, counted)'
  <2>1. zset' \in [DOMAIN zset' -> Int]
    BY <1>1, <1>5, Stamps DEF ScriptAdmits, Added, IInv, TypeOK, KeyType
  <2> QED
    BY <2>1, <1>1, <1>3, <1>4, <1>5, <1>6, Stamps DEF IInv, TypeOK, KeyType
<1>8. TypeOK'
  BY <1>2, <1>7 DEF ScriptAdmits, RunScript, IInv, TypeOK
<1>9. Timely'
  BY <1>1, <1>2, <1>3, Stamps DEF ScriptAdmits, RunScript, IInv, Timely, TypeOK
\* An overwritten member keeps its score: the score is the member's tick.
<1>10. \A m \in Kept(args[c]) : zset'[m] = zset[m]
  <2>1. ASSUME args[c].member \in Kept(args[c])
        PROVE  zset[args[c].member] = args[c].nowMS
    <3>1. PICK d \in counted : args[d].member = args[c].member
                               /\ args[d].nowMS = zset[args[c].member]
      BY <2>1, <1>5 DEF IInv, Accounting, NothingElse
    <3> QED
      BY <3>1, <1>1 DEF IInv, Timely
  <2> QED
    BY <2>1, <1>4
<1>11. AllAccounted(zset, expireAt, counted)'
  <2>1. ASSUME NEW d \in counted, ~ Outdated(d)
        PROVE  Stored(d, zset, expireAt)'
    <3>1. /\ args[d].member \in DOMAIN zset'
          /\ zset'[args[d].member] = args[d].nowMS
      BY <2>1, <1>1, <1>4, <1>10, PurgeAccounts
    <3>2. runAt[d] <= now /\ runAt[d] \in Int
      BY DEF IInv, Timely, TypeOK, KeyType
    <3>3. runAt'[d] + MinWindow <= expireAt'
      BY <3>2, <1>1, <1>2, <1>3, Stamps DEF IInv, TypeOK
    <3> QED
      BY <3>1, <3>3, <1>2 DEF Stored
  <2>2. Stored(c, zset, expireAt)'
    BY <1>1, <1>2, <1>3, <1>4, Stamps DEF Stored, IInv, TypeOK
  <2> QED
    BY <2>1, <2>2, <1>2, <1>3 DEF AllAccounted, Outdated
<1>12. NothingElse(zset, counted)'
  BY <1>2, <1>3, <1>4, <1>5 DEF NothingElse, IInv, Accounting
<1>13. /\ AllAccounted(disk.zset, disk.expireAt, disk.counted)'
       /\ NothingElse(disk.zset, disk.counted)'
  BY <1>2 DEF AllAccounted, NothingElse, Stored, Outdated, IInv, Accounting
<1> QED
  BY <1>8, <1>9, <1>11, <1>12, <1>13 DEF IInv, Accounting, AllAccounted, NothingElse

LEMMA RefusesInv ==
  ASSUME IInv, NEW c \in Call, ScriptRefuses(c)
  PROVE  IInv'
<1>1. c \in Made /\ c \notin counted /\ c \notin disk.counted
  BY DEF IInv, Timely, ScriptRefuses, RunScript
<1>2. /\ args' = args /\ now' = now /\ disk' = disk /\ Made' = Made
      /\ expireAt' = expireAt /\ counted' = counted
      /\ \A d \in counted : runAt'[d] = runAt[d] /\ verdict'[d] = verdict[d]
      /\ \A d \in disk.counted : runAt'[d] = runAt[d]
  BY <1>1 DEF ScriptRefuses, RunScript, Made, IInv, TypeOK, KeyType
<1>3. /\ zset' = [m \in Kept(args[c]) |-> zset[m]]
      /\ DOMAIN zset' = Kept(args[c])
      /\ Kept(args[c]) \subseteq DOMAIN zset
  BY DEF ScriptRefuses, Kept, Live
<1>4. TypeOK'
  BY <1>2, <1>3 DEF ScriptRefuses, RunScript, IInv, TypeOK, KeyType
<1>5. Timely'
  BY <1>1, <1>2 DEF IInv, Timely
<1>6. AllAccounted(zset, expireAt, counted)'
  <2>1. ASSUME NEW d \in counted, ~ Outdated(d)
        PROVE  Stored(d, zset, expireAt)'
    BY <2>1, <1>1, <1>2, <1>3, PurgeAccounts DEF Stored
  <2> QED
    BY <2>1, <1>2 DEF AllAccounted, Outdated
<1>7. NothingElse(zset, counted)'
  BY <1>2, <1>3 DEF NothingElse, IInv, Accounting
<1>8. /\ AllAccounted(disk.zset, disk.expireAt, disk.counted)'
      /\ NothingElse(disk.zset, disk.counted)'
  BY <1>2 DEF AllAccounted, NothingElse, Stored, Outdated, IInv, Accounting
<1> QED
  BY <1>4, <1>5, <1>6, <1>7, <1>8 DEF IInv, Accounting

LEMMA SaveInv ==
  ASSUME IInv, RedisSave
  PROVE  IInv'
<1>1. TypeOK'
  BY DEF RedisSave, history, IInv, TypeOK, KeyType
<1>2. Timely'
  BY DEF RedisSave, history, IInv, Timely, Made
<1>3. Accounting'
  BY DEF RedisSave, history, IInv, Accounting, AllAccounted, NothingElse, Stored, Outdated
<1> QED
  BY <1>1, <1>2, <1>3 DEF IInv

LEMMA CrashInv ==
  ASSUME IInv, RedisCrash
  PROVE  IInv'
<1>1. TypeOK'
  BY DEF RedisCrash, IInv, TypeOK, KeyType
<1>2. Timely'
  BY DEF RedisCrash, IInv, Timely, Made
<1>3. Accounting'
  BY DEF RedisCrash, IInv, Accounting, AllAccounted, NothingElse, Stored, Outdated
<1> QED
  BY <1>1, <1>2, <1>3 DEF IInv

LEMMA TickInv ==
  ASSUME IInv, Tick
  PROVE  IInv'
<1> USE SlidingWindowAssumption
<1>1. TypeOK'
  BY DEF Tick, redis, history, IInv, TypeOK, KeyType
<1>2. Timely'
  <2>1. \A c \in Made : args[c].sentAt <= now + 1
    BY Stamps DEF IInv, TypeOK
  <2>2. \A c \in counted : runAt[c] <= now + 1
    BY DEF IInv, TypeOK, KeyType, Timely
  <2> QED
    BY <2>1, <2>2 DEF Tick, redis, history, IInv, Timely, Made
<1>3. Accounting'
  <2>1. ASSUME NEW c \in counted, Outdated(c)
        PROVE  Outdated(c)'
    <3>1. c \in Made
      BY DEF IInv, Timely
    <3> QED
      BY <2>1, <3>1, Stamps DEF Tick, Outdated, IInv, TypeOK
  <2>2. disk.counted \subseteq counted
    BY DEF IInv, Timely
  <2> QED
    BY <2>1, <2>2 DEF Tick, redis, history, IInv, Accounting, AllAccounted,
                      NothingElse, Stored
<1> QED
  BY <1>1, <1>2, <1>3 DEF IInv

LEMMA NextInv == IInv /\ [Next]_vars => IInv'
<1> SUFFICES ASSUME IInv, [Next]_vars PROVE IInv'
  OBVIOUS
<1>1. CASE UNCHANGED vars
  <2>1. TypeOK'
    BY <1>1 DEF vars, redis, history, IInv, TypeOK, KeyType
  <2>2. Timely'
    BY <1>1 DEF vars, redis, history, IInv, Timely, Made
  <2>3. Accounting'
    BY <1>1 DEF vars, redis, history, IInv, Accounting, AllAccounted, NothingElse,
                Stored, Outdated
  <2> QED
    BY <2>1, <2>2, <2>3 DEF IInv
<1> QED
  BY <1>1, SendInv, AdmitsInv, RefusesInv, SaveInv, CrashInv, TickInv DEF Next

\* Redis, its snapshot and the calls keep their types.
THEOREM SlidingWindowTyped == Spec => []TypeOK
<1>1. IInv => TypeOK
  BY DEF IInv
<1> QED
  BY <1>1, InitInv, NextInv, PTL DEF Spec

\* Whatever Redis purges, expires, overwrites or restores, the key it keeps
\* accounts for every admitted call that is still in a window, and for no
\* other (limiter.go:37-43); stamps and runs are within their bounds.
THEOREM AccountingHolds == Spec => [](TypeOK /\ Timely /\ Accounting)
<1>1. IInv => TypeOK /\ Timely /\ Accounting
  BY DEF IInv
<1> QED
  BY <1>1, InitInv, NextInv, PTL DEF Spec

----------------------------------------------------------------------------
(***************************************************************************)
(* Members.                                                                *)
(***************************************************************************)

\* memberSeq has passed every number it gave out, and gave none out twice.
Numbered ==
  /\ \A c \in Made : args[c].member.seq <= seq[args[c].gateway]
  /\ ProcessMembersDistinct

\* All members differ, of one process or of two.
MembersDistinct == \A c, d \in Made : ~ SameMember(c, d)

LEMMA NumberedInv == TypeOK /\ Numbered /\ [Next]_vars => Numbered'
<1> SUFFICES ASSUME TypeOK, Numbered, [Next]_vars PROVE Numbered'
  OBVIOUS
<1>1. ASSUME NEW c \in Call, NEW g \in Gateway, NEW sub \in SubTick, NEW q \in Quota,
             NEW err \in ClockError[g], Send(c, g, now + err, sub, q)
      PROVE  Numbered'
  <2>1. /\ \A d \in Call \ {c} : args'[d] = args[d]
        /\ args'[c].gateway = g /\ args'[c].member.seq = seq[g] + 1
        /\ seq'[g] = seq[g] + 1
        /\ \A h \in Gateway \ {g} : seq'[h] = seq[h]
        /\ seq \in [Gateway -> Nat]
    BY <1>1 DEF Send, TypeOK
  <2>2. \A d \in Made' \ {c} :
          /\ args'[d] = args[d] /\ d \in Made
          /\ args[d].gateway \in Gateway /\ args[d].member.seq \in Nat
    BY <2>1 DEF Made, TypeOK, Args, Member
  <2>3. ASSUME NEW d \in Made' PROVE args'[d].member.seq <= seq'[args'[d].gateway]
    BY <2>1, <2>2 DEF Numbered
  <2>4. ASSUME NEW d \in Made', NEW e \in Made', args'[d].gateway = args'[e].gateway,
               d # e
        PROVE  args'[d].member # args'[e].member
    <3>1. CASE d # c /\ e # c
      BY <3>1, <2>2, <2>4 DEF Numbered, ProcessMembersDistinct, SameMember
    <3>2. CASE d = c
      BY <3>2, <2>1, <2>2, <2>4 DEF Numbered
    <3>3. CASE e = c
      BY <3>3, <2>1, <2>2, <2>4 DEF Numbered
    <3> QED
      BY <3>1, <3>2, <3>3
  <2> QED
    BY <2>3, <2>4 DEF Numbered, ProcessMembersDistinct, SameMember
<1>2. CASE UNCHANGED <<args, seq>>
  BY <1>2 DEF Numbered, ProcessMembersDistinct, SameMember, Made
<1> QED
  BY <1>1, <1>2 DEF Next, ScriptAdmits, ScriptRefuses, RunScript, RedisSave, RedisCrash,
                    Tick, vars

\* Two calls of one gateway process never share a member, however its clock
\* behaves: memberSeq does it, not the clock (limiter.go:123-125).
THEOREM ProcessMembersNeverShared == Spec => []ProcessMembersDistinct
<1>1. Init => Numbered
  BY DEF Init, Numbered, ProcessMembersDistinct, Made
<1>2. Numbered => ProcessMembersDistinct
  BY DEF Numbered
<1>3. Spec => []TypeOK
  BY AccountingHolds, PTL
<1> QED
  BY <1>1, <1>2, <1>3, NumberedInv, PTL DEF Spec

----------------------------------------------------------------------------
(***************************************************************************)
(* The refinement: an admitting script is an Admit, a refusing one a       *)
(* Refuse, a crash a Forget, and everything else is invisible.             *)
(***************************************************************************)
Slack == MaxDelay + 2 * MaxSkew

LEMMA AssumptionHolds ==
  /\ IsFiniteSet(Call)
  /\ Quota \subseteq [limit : Nat, window : Nat]
  /\ MinWindow \in Nat /\ MaxLimit \in Nat /\ Slack \in Nat
  /\ \A q \in Quota : MinWindow <= q.window /\ q.limit <= MaxLimit
BY SlidingWindowAssumption DEF Slack

LEMMA FiniteCalls ==
  ASSUME IInv
  PROVE  /\ \A S \in SUBSET counted : IsFiniteSet(S) /\ Cardinality(S) \in Nat
BY SlidingWindowAssumption, FS_Subset, FS_CardinalityType DEF IInv, TypeOK, KeyType

\* The set holds no more members than calls it accounts for.
LEMMA FiniteKept ==
  ASSUME IInv, NEW c \in Made
  PROVE  IsFiniteSet(Kept(args[c])) /\ Cardinality(Kept(args[c])) \in Nat
<1> DEFINE f == [d \in counted |-> args[d].member]
<1>1. IsFiniteSet(counted)
  BY FiniteCalls
<1>2. f \in Surjection(counted, Range(f))
  BY DEF Surjection, Range
<1>3. IsFiniteSet(Range(f))
  BY <1>1, <1>2, FS_Surjection
<1>4. Kept(args[c]) \subseteq Range(f)
  BY DEF Kept, Live, Range, IInv, Accounting, NothingElse
<1> QED
  BY <1>3, <1>4, FS_Subset, FS_CardinalityType

\* A script that finds room was sent a call the limit has room for.
LEMMA RoomMeansRoom ==
  ASSUME IInv, MembersDistinct, NEW c \in Made, Room(args[c])
  PROVE  Cardinality(RL!Recent(MinWindow - Slack)) < args[c].quota.limit
<1> DEFINE R == RL!Recent(MinWindow - Slack)
           f == [d \in R |-> args[d].member]
<1>1. ASSUME NEW d \in R PROVE d \in Made /\ args[d].member \in Kept(args[c])
  <2>1. d \in counted /\ runAt[d] > now - (MinWindow - Slack)
    BY DEF RL!Recent
  <2>2. d \in Made /\ runAt[d] <= args[d].sentAt + MaxDelay /\ runAt[d] \in Int
    BY <2>1 DEF IInv, Timely, TypeOK, KeyType
  <2>3. ~ Outdated(d)
    BY <2>1, <2>2, Stamps, SlidingWindowAssumption DEF Outdated, Slack, IInv, TypeOK
  <2>4. Kept(args[c]) \subseteq DOMAIN zset
    BY DEF Kept, Live
  <2>5. now <= expireAt /\ now \in Int /\ expireAt \in Int
    BY <2>1, <2>3, <2>4, PurgeAccounts DEF IInv, TypeOK, KeyType
  <2>6. args[d].member \in DOMAIN zset /\ zset[args[d].member] = args[d].nowMS
    BY <2>1, <2>3 DEF IInv, Accounting, AllAccounted, Stored
  <2>7. args[d].nowMS > args[c].nowMS - args[c].quota.window
    BY <2>2, <2>3, Stamps, SlidingWindowAssumption DEF Outdated, IInv, TypeOK
  <2> QED
    BY <2>2, <2>5, <2>6, <2>7 DEF Kept, Live
<1>2. f \in Injection(R, Kept(args[c]))
  <2>1. \A d, e \in R : args[d].member = args[e].member => d = e
    BY <1>1 DEF MembersDistinct, SameMember
  <2> HIDE DEF R
  <2> QED
    BY <1>1, <2>1 DEF Injection, IsInjective
<1>3. IsFiniteSet(Kept(args[c])) /\ Cardinality(Kept(args[c])) \in Nat
  BY FiniteKept
<1>4. R \in SUBSET counted
  BY DEF RL!Recent
<1>5. Cardinality(R) \in Nat
  BY <1>4, FiniteCalls
<1>6. Cardinality(R) <= Cardinality(Kept(args[c]))
  BY <1>2, <1>3, FS_Injection
<1> QED
  BY <1>3, <1>5, <1>6, Stamps DEF Room

\* A script that finds no room was sent a call the limit refuses.
LEMMA NoRoomMeansFull ==
  ASSUME IInv, NEW c \in Made, now <= args[c].sentAt + MaxDelay, ~ Room(args[c])
  PROVE  Cardinality(RL!Recent(args[c].quota.window + Slack)) >= args[c].quota.limit
<1> DEFINE R == RL!Recent(args[c].quota.window + Slack)
           f == [m \in Kept(args[c]) |->
                   CHOOSE d \in counted : args[d].member = m /\ args[d].nowMS = zset[m]]
<1>1. ASSUME NEW m \in Kept(args[c])
      PROVE  f[m] \in R /\ args[f[m]].member = m
  <2>1. /\ f[m] \in counted /\ args[f[m]].member = m
        /\ args[f[m]].nowMS = zset[m]
        /\ zset[m] > args[c].nowMS - args[c].quota.window
    BY DEF Kept, Live, IInv, Accounting, NothingElse
  <2> DEFINE d == f[m]
  <2>2. d \in counted /\ args[d].nowMS > args[c].nowMS - args[c].quota.window
    BY <2>1
  <2> HIDE DEF d
  <2>3. d \in Made /\ runAt[d] >= args[d].sentAt /\ runAt[d] \in Int
    BY <2>2, Stamps DEF IInv, Timely, TypeOK, KeyType
  <2>4. runAt[d] > now - (args[c].quota.window + Slack)
    BY <2>2, <2>3, Stamps, SlidingWindowAssumption DEF Slack, IInv, TypeOK
  <2>5. d \in R
    BY <2>2, <2>4 DEF RL!Recent
  <2> QED
    BY <2>1, <2>5 DEF d
<1>2. f \in Injection(Kept(args[c]), R)
  <2>1. \A m \in Kept(args[c]) : f[m] \in R
    BY <1>1
  <2>2. \A m, n \in Kept(args[c]) : f[m] = f[n] => m = n
    BY <1>1
  <2>3. f = [m \in Kept(args[c]) |-> f[m]]
    OBVIOUS
  <2> HIDE DEF R, f
  <2> QED
    BY <2>1, <2>2, <2>3 DEF Injection, IsInjective
<1>3. R \in SUBSET counted
  BY DEF RL!Recent
<1>4. IsFiniteSet(R) /\ Cardinality(R) \in Nat
  BY <1>3, FiniteCalls
<1>5. Cardinality(Kept(args[c])) <= Cardinality(R)
  BY <1>2, <1>4, FS_Injection
<1>6. Cardinality(Kept(args[c])) \in Nat
  BY FiniteKept
<1> QED
  BY <1>4, <1>5, <1>6, Stamps DEF Room

\* The Cardinality of the instance is the one of this module.
LEMMA SameCardinality == \A S : RL!Cardinality(S) = Cardinality(S)
BY DEF RL!Cardinality, Cardinality

LEMMA StepRefines ==
  IInv /\ MembersDistinct /\ [Next]_vars => [RL!Next]_(RL!vars)
<1> SUFFICES ASSUME IInv, MembersDistinct, [Next]_vars
             PROVE  RL!Next \/ UNCHANGED RL!vars
  BY DEF RL!vars
<1>1. ASSUME NEW c \in Call, ScriptAdmits(c) PROVE RL!Next
  <2>1. c \in Made /\ args[c].quota \in Quota /\ Room(args[c])
    BY <1>1, Stamps DEF ScriptAdmits, RunScript
  <2>2. Cardinality(RL!Recent(MinWindow - Slack)) < args[c].quota.limit
    BY <2>1, RoomMeansRoom
  <2>3. RL!Decide(c, "admitted")
    BY <1>1 DEF RL!Decide, ScriptAdmits, RunScript
  <2>4. RL!Admit(c, args[c].quota)
    BY <1>1, <2>2, <2>3, SameCardinality DEF RL!Admit, Slack, ScriptAdmits
  <2> QED
    BY <2>1, <2>4 DEF RL!Next
<1>2. ASSUME NEW c \in Call, ScriptRefuses(c) PROVE RL!Next
  <2>1. c \in Made /\ args[c].quota \in Quota /\ ~ Room(args[c])
        /\ now <= args[c].sentAt + MaxDelay
    BY <1>2, Stamps DEF ScriptRefuses, RunScript
  <2>2. Cardinality(RL!Recent(args[c].quota.window + Slack)) >= args[c].quota.limit
    BY <2>1, NoRoomMeansFull
  <2>3. RL!Decide(c, "refused")
    BY <1>2 DEF RL!Decide, ScriptRefuses, RunScript
  <2>4. RL!Refuse(c, args[c].quota)
    BY <1>2, <2>2, <2>3, SameCardinality DEF RL!Refuse, Slack, ScriptRefuses
  <2> QED
    BY <2>1, <2>4 DEF RL!Next
<1>3. CASE RedisCrash
  <2>1. disk.counted \in SUBSET counted
    BY DEF IInv, Timely
  <2> QED
    BY <1>3, <2>1 DEF RedisCrash, RL!Next, RL!Forget
<1>4. CASE Tick
  BY <1>4 DEF Tick, history, RL!Next, RL!Tick
<1>5. CASE UNCHANGED <<now, verdict, runAt, counted>>
  BY <1>5 DEF RL!vars
<1> QED
  BY <1>1, <1>2, <1>3, <1>4, <1>5
     DEF Next, Send, RedisSave, history, vars

\* The script is a sliding-window limiter, off by at most the delay of a
\* script and twice the error of a clock (limiter.go:29-48, 117-150): it
\* admits a call only if the window less that slack had room, and refuses
\* one only if the window plus that slack was full.
THEOREM ScriptImplementsRateLimit == DistinctSpec => ImplementsRateLimit
<1> DEFINE J == IInv /\ Numbered /\ ProcessesApart
<1>1. Init => RL!Init /\ Numbered /\ ProcessesApart
  BY SlidingWindowAssumption DEF Init, RL!Init, Numbered, ProcessMembersDistinct,
     ProcessesApart, Made
<1>2. J /\ [Next /\ ProcessesApart']_vars => J' /\ [RL!Next]_(RL!vars)
  <2> SUFFICES ASSUME J, [Next /\ ProcessesApart']_vars
               PROVE  J' /\ [RL!Next]_(RL!vars)
    OBVIOUS
  <2>1. [Next]_vars /\ TypeOK
    BY DEF IInv
  <2>2. IInv' /\ Numbered'
    BY <2>1, NextInv, NumberedInv
  <2>3. ProcessesApart'
    BY DEF ProcessesApart, SameMember, Made, vars
  <2>4. MembersDistinct
    BY DEF MembersDistinct, Numbered, ProcessMembersDistinct, ProcessesApart
  <2> QED
    BY <2>1, <2>2, <2>3, <2>4, StepRefines
<1> QED
  BY <1>1, <1>2, InitInv, PTL DEF DistinctSpec, ImplementsRateLimit, RL!Spec

----------------------------------------------------------------------------
(***************************************************************************)
(* The abstract specification keeps its promise, whatever is admitted,     *)
(* refused or forgotten.  Nothing here is about the script: the variables  *)
(* of RL are the clock and the decisions, its slack any natural number.    *)
(***************************************************************************)

\* What was decided was decided by now, and only decided calls are counted.
Decided == \A c \in counted : verdict[c] = "admitted" /\ runAt[c] <= now

\* WindowBound, for the Cardinality of this module.
Bounded ==
  \A c \in counted : Cardinality(RL!AdmittedUpTo(c, MinWindow - Slack)) <= MaxLimit

Promised == RL!TypeOK /\ Decided /\ Bounded

\* The constants are fit for the abstract specification.
LEMMA RateLimitApplies == RL!RateLimitAssumption
BY SlidingWindowAssumption DEF RL!RateLimitAssumption, RL!IsFiniteSet, IsFiniteSet

\* A set of calls is finite, and a smaller one has no more elements.
LEMMA CallsFinite ==
  ASSUME NEW S, S \subseteq Call
  PROVE  IsFiniteSet(S) /\ Cardinality(S) \in Nat
BY SlidingWindowAssumption, FS_Subset, FS_CardinalityType

LEMMA CallsMonotone ==
  ASSUME NEW S, NEW T, S \subseteq T, T \subseteq Call
  PROVE  Cardinality(S) <= Cardinality(T)
BY CallsFinite, FS_Subset

LEMMA PromisedInit == RL!Init => Promised
<1> SUFFICES ASSUME RL!Init PROVE Promised
  OBVIOUS
<1>1. RL!TypeOK
  BY DEF RL!Init, RL!TypeOK, RL!Verdicts
<1> QED
  BY <1>1 DEF RL!Init, Promised, Decided, Bounded

LEMMA PromisedNext == Promised /\ [RL!Next]_(RL!vars) => Promised'
<1> SUFFICES ASSUME Promised, [RL!Next]_(RL!vars) PROVE Promised'
  OBVIOUS
<1> DEFINE span == MinWindow - Slack
           Upto(c) == RL!AdmittedUpTo(c, span)
<1>a. span \in Int
  BY SlidingWindowAssumption DEF Slack
<1>b. Bounded' <=> \A c \in counted' : Cardinality(Upto(c)') <= MaxLimit
  BY DEF Bounded, Slack
<1>c. \A c \in counted : Cardinality(Upto(c)) <= MaxLimit
  BY DEF Promised, Bounded
<1>1. CASE \E c \in Call, q \in Quota : RL!Admit(c, q)
  <2> PICK c \in Call, q \in Quota : RL!Admit(c, q)
    BY <1>1
  <2>1. RL!TypeOK' /\ Decided' /\ c \notin counted
    BY DEF Promised, RL!TypeOK, RL!Verdicts, Decided, RL!Admit, RL!Decide
  <2>2. /\ RL!Recent(span) \subseteq Call
        /\ Cardinality(RL!Recent(span)) < q.limit
    BY SameCardinality DEF Promised, RL!TypeOK, RL!Admit, RL!Recent, Slack
  <2>3. Cardinality(RL!Recent(span) \union {c}) <= MaxLimit
    <3>1. IsFiniteSet(RL!Recent(span)) /\ Cardinality(RL!Recent(span)) \in Nat
      BY <2>2, CallsFinite
    <3>2. Cardinality(RL!Recent(span) \union {c}) = Cardinality(RL!Recent(span)) + 1
      BY <3>1, <2>1, FS_AddElement DEF RL!Recent
    <3>3. q.limit \in Nat /\ q.limit <= MaxLimit /\ MaxLimit \in Nat
      BY SlidingWindowAssumption
    <3> QED
      BY <2>2, <3>1, <3>2, <3>3
  <2>4. ASSUME NEW d \in counted'
        PROVE  Cardinality(Upto(d)') <= MaxLimit
    <3>1. CASE runAt'[d] = now
      <4>1. Upto(d)' \subseteq RL!Recent(span) \union {c}
        BY <1>a, <3>1, <2>1
           DEF RL!AdmittedUpTo, RL!Recent, RL!Admit, RL!Decide, Promised, RL!TypeOK
      <4>2. RL!Recent(span) \union {c} \subseteq Call
        BY <2>2
      <4>3. /\ Cardinality(Upto(d)') \in Nat
            /\ Cardinality(RL!Recent(span) \union {c}) \in Nat
        BY <4>1, <4>2, CallsFinite
      <4> HIDE DEF span, Upto
      <4>4. Cardinality(Upto(d)') <= Cardinality(RL!Recent(span) \union {c})
        BY <4>1, <4>2, CallsMonotone
      <4> QED
        BY <4>3, <4>4, <2>3, SlidingWindowAssumption
    <3>2. CASE runAt'[d] # now
      <4>1. d \in counted /\ runAt'[d] = runAt[d] /\ runAt[d] < now
        BY <3>2, <2>1 DEF RL!Admit, RL!Decide, Promised, RL!TypeOK, Decided
      <4>2. Upto(d)' = Upto(d)
        BY <1>a, <4>1, <2>1 DEF RL!AdmittedUpTo, RL!Admit, RL!Decide, Promised, RL!TypeOK
      <4> QED
        BY <1>c, <4>1, <4>2
    <3> QED
      BY <3>1, <3>2
  <2> QED
    BY <1>b, <2>1, <2>4 DEF Promised
<1>2. CASE \E c \in Call, q \in Quota : RL!Refuse(c, q)
  <2> PICK c \in Call, q \in Quota : RL!Refuse(c, q)
    BY <1>2
  <2>1. RL!TypeOK' /\ Decided' /\ c \notin counted
    BY DEF Promised, RL!TypeOK, RL!Verdicts, Decided, RL!Refuse, RL!Decide
  <2>2. counted' = counted /\ \A d \in counted : Upto(d)' = Upto(d)
    BY <2>1 DEF RL!AdmittedUpTo, RL!Refuse, RL!Decide, Promised, RL!TypeOK
  <2> QED
    BY <1>b, <1>c, <2>1, <2>2 DEF Promised
<1>3. CASE RL!Tick
  <2>1. RL!TypeOK' /\ Decided'
    BY <1>3 DEF Promised, RL!TypeOK, Decided, RL!Tick
  <2>2. counted' = counted /\ \A d \in counted : Upto(d)' = Upto(d)
    BY <1>3 DEF RL!AdmittedUpTo, RL!Tick
  <2> QED
    BY <1>b, <1>c, <2>1, <2>2 DEF Promised
<1>4. CASE RL!Forget
  <2>1. RL!TypeOK' /\ Decided'
    BY <1>4 DEF Promised, RL!TypeOK, Decided, RL!Forget
  <2>2. ASSUME NEW d \in counted'
        PROVE  Cardinality(Upto(d)') <= MaxLimit
    <3>1. d \in counted /\ Upto(d)' \subseteq Upto(d) /\ Upto(d) \subseteq Call
      BY <1>4 DEF RL!AdmittedUpTo, RL!Forget, Promised, RL!TypeOK
    <3>2. Cardinality(Upto(d)') \in Nat /\ Cardinality(Upto(d)) \in Nat
      BY <3>1, CallsFinite
    <3>3. Cardinality(Upto(d)) <= MaxLimit
      BY <1>c, <3>1
    <3> HIDE DEF span, Upto
    <3>4. Cardinality(Upto(d)') <= Cardinality(Upto(d))
      BY <3>1, CallsMonotone
    <3> QED
      BY <3>2, <3>3, <3>4, SlidingWindowAssumption
  <2> QED
    BY <1>b, <2>1, <2>2 DEF Promised
<1>5. CASE UNCHANGED RL!vars
  <2>1. RL!TypeOK' /\ Decided'
    BY <1>5 DEF Promised, RL!TypeOK, Decided, RL!vars
  <2>2. counted' = counted /\ \A d \in counted : Upto(d)' = Upto(d)
    BY <1>5 DEF RL!AdmittedUpTo, RL!vars
  <2> QED
    BY <1>b, <1>c, <2>1, <2>2 DEF Promised
<1> QED
  BY <1>1, <1>2, <1>3, <1>4, <1>5 DEF RL!Next

\* Whatever implements the abstract limit keeps the promise: no interval as
\* long as the smallest window less the slack sees more remembered admissions
\* than the largest limit (limiter.go:29-48).
THEOREM RateLimitSafe == RL!Spec => [](RL!TypeOK /\ WindowBound)
<1>1. Promised => RL!TypeOK /\ WindowBound
  BY SameCardinality DEF Promised, Bounded, WindowBound, RL!WindowBound, Slack
<1> QED
  BY <1>1, PromisedInit, PromisedNext, PTL DEF RL!Spec

\* So does the script.
THEOREM AdmissionsBounded == DistinctSpec => []WindowBound
<1> QED
  BY RateLimitSafe, ScriptImplementsRateLimit, PTL DEF ImplementsRateLimit

=============================================================================
