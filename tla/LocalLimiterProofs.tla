------------------------- MODULE LocalLimiterProofs -------------------------
(***************************************************************************)
(* The local limiter keeps the rate of its rows, and its cleanup loop      *)
(* gives no token back: for any number of requests and rows, however late  *)
(* requests are within MaxStall.                                           *)
(***************************************************************************)
EXTENDS LocalLimiter, FiniteSetTheorems, TLAPS

\* A request that is under way knows its row, when it began and its bucket;
\* the one it is about to store is full and its own.
Underway ==
  \A r \in Request :
    /\ pc[r] = "idle" => bucket[r] = None
    /\ began[r] <= now
    /\ pc[r] = "store" => entry[r] = r /\ bucket[r].level = Capacity(bucket[r].quota)
    /\ pc[r] \in {"store", "touch", "take"} => entry[r] \in Request /\ bucket[entry[r]] # None

\* Nobody has the bucket of a request that has not stored it.
Private ==
  \A r \in Request : pc[r] \in {"idle", "store"} =>
    slot # r /\ \A x \in Request \ {r} : entry[x] # r

\* The stamps of a bucket are in the past, and lastAccessed is not further
\* behind the last token taken than two requests can stall; a request about
\* to take a token has left its mark.
Marked ==
  /\ \A b \in Request : bucket[b] # None =>
       /\ bucket[b].last <= now /\ bucket[b].lastAccessed <= now
       /\ bucket[b].last <= bucket[b].lastAccessed + 2 * MaxStall
  /\ \A r \in Request : pc[r] = "take" => bucket[entry[r]].lastAccessed + MaxStall >= began[r]

\* What the entry lacks once it is doomed, requests have taken since.
Spent(b) == Token(b) * Cardinality(since \intersect Admitted(b))

Doomed == doomed /\ slot # None => Missing(slot) <= Spent(slot)

Stored == slot # None => bucket[slot] # None

SinceAdmitted == \A r \in since : pc[r] = "admitted"

IInv == TypeOK /\ Underway /\ Private /\ Marked /\ Stored /\ SinceAdmitted /\ Doomed

----------------------------------------------------------------------------
\* Products of the quantities of a bucket are natural numbers and monotone.
LEMMA Products ==
  ASSUME NEW x \in Nat, NEW y \in Nat, NEW z \in Nat, y <= z
  PROVE  x * y \in Nat /\ x * y <= x * z
OBVIOUS

LEMMA Rows ==
  ASSUME NEW q \in Quota
  PROVE  /\ q.limit \in Nat \ {0} /\ q.window \in Nat \ {0}
         /\ Capacity(q) \in Nat
         /\ Idle(q) \in Nat /\ q.window + 2 * MaxStall <= Idle(q)
<1>1. q.limit \in Nat \ {0} /\ q.window \in Nat \ {0}
  BY LocalLimiterAssumption
<1>2. Capacity(q) \in Nat
  BY <1>1, Products DEF Capacity
<1> QED
  BY <1>1, <1>2, LocalLimiterAssumption DEF Idle

\* The content of a bucket: a natural number up to its capacity, that never
\* shrinks by itself and is full a window after the last token.
LEMMA Contents ==
  ASSUME TypeOK, NEW b \in Request, bucket[b] # None, bucket[b].last <= now
  PROVE  /\ bucket[b] \in Bucket /\ bucket[b].quota \in Quota
         /\ Token(b) \in Nat
         /\ Level(b) \in Nat /\ Level(b) <= Capacity(bucket[b].quota)
         /\ Level(b) >= bucket[b].level
         /\ now - bucket[b].last >= Token(b) => Missing(b) = 0
         /\ bucket[b].level = Capacity(bucket[b].quota) => Missing(b) = 0
<1> DEFINE B == bucket[b]
           e == now - B.last
           C == Capacity(B.quota)
<1>1. /\ B \in Bucket /\ B.quota \in Quota /\ B.level \in Nat /\ B.last \in Nat
      /\ B.lastAccessed \in Nat /\ B.level <= C /\ e \in Nat
  BY DEF TypeOK, Bucket
<1>2. /\ B.quota.limit \in Nat /\ B.quota.window \in Nat /\ C \in Nat
  BY <1>1, Rows
<1>3. e * Gain(B.quota) \in Nat
  BY <1>1, <1>2, Products DEF Gain
<1>4. Level(b) = IF B.level + e * Gain(B.quota) > C THEN C ELSE B.level + e * Gain(B.quota)
  BY DEF Level
<1>5. ASSUME e >= Token(b)
      PROVE  e * Gain(B.quota) >= C
  <2>1. B.quota.limit * B.quota.window <= B.quota.limit * e
    BY <1>1, <1>2, <1>5, Products DEF Token
  <2>2. B.quota.limit * e = e * Gain(B.quota)
    BY <1>1, <1>2 DEF Gain
  <2> QED
    BY <2>1, <2>2 DEF Capacity
<1> HIDE DEF e, C
<1>6. /\ Level(b) \in Nat /\ Level(b) <= C /\ Level(b) >= B.level
      /\ e >= Token(b) => Level(b) = C
      /\ B.level = C => Level(b) = C
  BY <1>1, <1>2, <1>3, <1>4, <1>5
<1> QED
  BY <1>1, <1>2, <1>6 DEF Missing, Token, e, C

\* The tokens requests have taken of a bucket since the look.
Countable ==
  TypeOK => \A b \in Request : bucket[b] # None =>
    Cardinality(since \intersect Admitted(b)) \in Nat /\ Spent(b) \in Nat

LEMMA SpentNat == Countable
<1> USE DEF Countable
<1> SUFFICES ASSUME NEW b \in Request, TypeOK, bucket[b] # None
             PROVE  Cardinality(since \intersect Admitted(b)) \in Nat /\ Spent(b) \in Nat
  OBVIOUS
<1>1. IsFiniteSet(since \intersect Admitted(b))
  BY LocalLimiterAssumption, FS_Subset DEF TypeOK
<1>2. Cardinality(since \intersect Admitted(b)) \in Nat
  BY <1>1, FS_CardinalityType
<1>3. Token(b) \in Nat
  BY Rows DEF TypeOK, Bucket, Token
<1> QED
  BY <1>2, <1>3, Products DEF Spent

LEMMA InitInv == Init => IInv
<1> SUFFICES ASSUME Init PROVE IInv
  OBVIOUS
<1>1. TypeOK /\ Underway /\ Marked
  <2>1. TypeOK
    BY DEF Init, TypeOK
  <2> QED
    BY <2>1 DEF Init, Underway, Marked
<1>2. None \notin Request
  BY LocalLimiterAssumption
<1>3. Private
  BY <1>2 DEF Init, Private
<1> QED
  BY <1>1, <1>3 DEF Init, IInv, Stored, SinceAdmitted, Doomed

\* A step that leaves the entry's content and its users alone.
LEMMA DoomedStays ==
  ASSUME Doomed, doomed' = doomed, slot' = slot, now' = now, since' = since,
         slot # None => /\ bucket'[slot].quota = bucket[slot].quota
                        /\ bucket'[slot].level = bucket[slot].level
                        /\ bucket'[slot].last = bucket[slot].last
                        /\ since \intersect Admitted(slot)' = since \intersect Admitted(slot)
  PROVE  Doomed'
BY DEF Doomed, Missing, Spent, Level, Token

LEMMA BeginInv ==
  ASSUME IInv, NEW r \in Request, NEW q \in Quota, Begin(r, q)
  PROVE  IInv'
<1> USE DEF Begin, Goto, IInv, TypeOK, history
<1>1. /\ pc[r] = "idle" /\ slot # r /\ bucket[r] = None
      /\ \A x \in Request \ {r} : entry[x] # r /\ pc'[x] = pc[x] /\ entry'[x] = entry[x]
                                   /\ began'[x] = began[x]
      /\ pc'[r] \in {"touch", "store"} /\ began'[r] = now
      /\ \A b \in Request \ {r} : bucket'[b] = bucket[b]
  BY DEF Private, Underway
<1>2. \/ /\ Fits(slot, q) /\ bucket' = bucket
         /\ pc'[r] = "touch" /\ entry'[r] = slot
      \/ /\ bucket'[r] = FullBucket(q) /\ pc'[r] = "store" /\ entry'[r] = r
  OBVIOUS
<1>3. /\ FullBucket(q) \in Bucket /\ FullBucket(q).quota = q
      /\ FullBucket(q).level = Capacity(q) /\ Capacity(q) <= Capacity(q)
  BY Rows DEF FullBucket, Bucket
<1>4. FullBucket(q) # None /\ None \notin Request
  BY <1>3, LocalLimiterAssumption
<1>5. TypeOK'
  <2>1. bucket' \in [Request -> Bucket \union {None}]
    BY <1>2, <1>3
  <2>2. \A b \in Request : bucket'[b] # None => bucket'[b].level <= Capacity(bucket'[b].quota)
    BY <1>1, <1>2, <1>3
  <2>3. entry' \in [Request -> Request \union {None}]
    OBVIOUS
  <2>4. pc' \in [Request -> {"idle", "store", "touch", "take", "admitted", "refused"}]
    OBVIOUS
  <2> QED
    BY <2>1, <2>2, <2>3, <2>4
<1>6. Underway'
  BY <1>1, <1>2, <1>3, <1>4 DEF Underway, Fits, FullBucket, Stored
<1>7. Private'
  BY <1>1, <1>2 DEF Private, Fits
<1>8. Marked'
  <2>1. \A b \in Request : bucket'[b] # None =>
          /\ bucket'[b].last <= now /\ bucket'[b].lastAccessed <= now
          /\ bucket'[b].last <= bucket'[b].lastAccessed + 2 * MaxStall
    BY <1>1, <1>2, LocalLimiterAssumption DEF Marked, FullBucket
  <2>2. \A x \in Request : pc'[x] = "take" =>
          x # r /\ entry[x] # r /\ entry[x] \in Request
    BY <1>1 DEF Underway
  <2> QED
    BY <1>1, <2>1, <2>2 DEF Marked
<1>9. Stored' /\ SinceAdmitted'
  BY <1>1 DEF Stored, SinceAdmitted
<1>10. Doomed'
  BY <1>1, DoomedStays DEF Admitted
<1> QED
  BY <1>5, <1>6, <1>7, <1>8, <1>9, <1>10

LEMMA StoreInv ==
  ASSUME IInv, NEW r \in Request, Store(r)
  PROVE  IInv'
<1> USE DEF Store, Goto, IInv, TypeOK, history
<1>1. /\ pc[r] = "store" /\ entry[r] = r /\ bucket[r] # None /\ slot' = r
      /\ bucket[r].level = Capacity(bucket[r].quota)
      /\ \A x \in Request \ {r} : pc'[x] = pc[x]
      /\ pc'[r] = "touch" /\ None \notin Request
  BY LocalLimiterAssumption DEF Underway
<1>2. /\ TypeOK' /\ Underway' /\ Stored' /\ SinceAdmitted'
  <2>1. TypeOK'
    OBVIOUS
  <2>2. Underway'
    BY <1>1 DEF Underway
  <2> QED
    BY <1>1, <2>1, <2>2 DEF Stored, SinceAdmitted
<1>5. Marked'
  BY <1>1 DEF Marked
<1>3. Private'
  BY <1>1 DEF Private
<1>4. Doomed'
  <2>1. Missing(r) = 0 /\ Missing(r)' = Missing(r)
    BY <1>1, Contents DEF Marked, Missing, Level
  <2>2. TypeOK' /\ bucket'[r] # None
    BY <1>1, <1>2
  <2>4. Spent(r)' \in Nat
    <3>1. Countable'
      BY SpentNat, PTL
    <3> QED
      BY <3>1, <2>2 DEF Countable
  <2> QED
    BY <1>1, <2>1, <2>4 DEF Doomed
<1> QED
  BY <1>2, <1>3, <1>4, <1>5

LEMMA TouchInv ==
  ASSUME IInv, NEW r \in Request, Touch(r)
  PROVE  IInv'
<1> USE DEF Touch, Goto, IInv, TypeOK, history
<1> DEFINE b == entry[r]
<1>1. /\ pc[r] = "touch" /\ pc'[r] = "take" /\ \A x \in Request \ {r} : pc'[x] = pc[x]
      /\ b \in Request /\ bucket[b] # None /\ bucket[b] \in Bucket
      /\ \A x \in Request \ {b} : bucket'[x] = bucket[x]
      /\ bucket'[b] = [bucket[b] EXCEPT !.lastAccessed = began[r]]
  BY DEF Underway
<1>2. /\ bucket'[b] \in Bucket /\ bucket'[b].quota = bucket[b].quota
      /\ bucket'[b].level = bucket[b].level /\ bucket'[b].last = bucket[b].last
      /\ bucket'[b].lastAccessed = began[r]
  BY <1>1 DEF Bucket
<1>3. bucket'[b] # None /\ None \notin Request
  BY <1>2, LocalLimiterAssumption
<1>4. /\ began[r] <= now /\ now <= began[r] + MaxStall /\ MaxStall \in Nat
      /\ bucket[b].last <= now /\ bucket[b].last \in Nat
  BY <1>1, LocalLimiterAssumption DEF Underway, Marked, InTime, Bucket
<1> HIDE DEF b
<1>5. TypeOK'
  <2>1. bucket' \in [Request -> Bucket \union {None}]
    BY <1>1, <1>2
  <2>2. \A x \in Request : bucket'[x] # None => bucket'[x].level <= Capacity(bucket'[x].quota)
    BY <1>1, <1>2
  <2> QED
    BY <2>1, <2>2
<1>6. Underway' /\ Private' /\ Stored' /\ SinceAdmitted'
  <2>1. Underway'
    BY <1>1, <1>2, <1>3 DEF Underway
  <2>2. Private'
    BY <1>1 DEF Private
  <2> QED
    BY <1>1, <1>3, <2>1, <2>2 DEF Stored, SinceAdmitted
<1>7. Marked'
  <2>1. \A x \in Request : bucket'[x] # None =>
          /\ bucket'[x].last <= now /\ bucket'[x].lastAccessed <= now
          /\ bucket'[x].last <= bucket'[x].lastAccessed + 2 * MaxStall
    <3>1. bucket[b].last <= began[r] + 2 * MaxStall /\ began[r] <= now
      BY <1>4
    <3> QED
      BY <3>1, <1>1, <1>2, <1>4 DEF Marked
  <2>2. ASSUME NEW x \in Request, pc'[x] = "take"
        PROVE  bucket'[entry[x]].lastAccessed + MaxStall >= began[x]
    <3>1. began[x] \in Nat /\ began[r] \in Nat /\ began[x] <= now
      BY DEF Underway
    <3>2. CASE entry[x] = b
      BY <3>1, <3>2, <1>2, <1>4
    <3>3. CASE entry[x] # b
      <4>1. x # r
        BY <3>3 DEF b
      <4>2. pc[x] = "take" /\ entry[x] \in Request
        BY <4>1, <1>1, <2>2 DEF Underway
      <4> QED
        BY <4>2, <3>3, <1>1 DEF Marked
    <3> QED
      BY <3>2, <3>3
  <2> QED
    BY <2>1, <2>2 DEF Marked
<1>8. Doomed'
  <2>1. slot # None => Admitted(slot)' = Admitted(slot)
    BY <1>1 DEF Admitted
  <2> QED
    BY <1>1, <1>2, <2>1, DoomedStays
<1> QED
  BY <1>5, <1>6, <1>7, <1>8

LEMMA RefuseInv ==
  ASSUME IInv, NEW r \in Request, Refuse(r)
  PROVE  IInv'
<1> USE DEF Refuse, Goto, IInv, TypeOK, history
<1>1. /\ pc[r] = "take" /\ pc'[r] = "refused" /\ \A x \in Request \ {r} : pc'[x] = pc[x]
  OBVIOUS
<1>2. TypeOK' /\ Underway' /\ Stored' /\ SinceAdmitted'
  <2>1. TypeOK'
    OBVIOUS
  <2>2. Underway'
    BY <1>1 DEF Underway
  <2> QED
    BY <1>1, <2>1, <2>2 DEF Stored, SinceAdmitted
<1>3. Private'
  BY <1>1 DEF Private
<1>4. Marked'
  BY <1>1 DEF Marked
<1>5. Doomed'
  <2>1. Admitted(slot)' = Admitted(slot)
    BY <1>1 DEF Admitted
  <2> QED
    BY <2>1, DoomedStays
<1> QED
  BY <1>2, <1>3, <1>4, <1>5

LEMMA AdmitInv ==
  ASSUME IInv, NEW r \in Request, Admit(r)
  PROVE  IInv'
<1> USE DEF Admit, Goto, IInv, TypeOK, history
<1>0. PICK b \in Request : b = entry[r]
  BY DEF Underway
<1>1. /\ pc[r] = "take" /\ pc'[r] = "admitted" /\ \A x \in Request \ {r} : pc'[x] = pc[x]
      /\ entry[r] = b /\ bucket[b] # None /\ bucket[b] \in Bucket
      /\ \A x \in Request \ {b} : bucket'[x] = bucket[x]
      /\ bucket'[b] = [bucket[b] EXCEPT !.level = Level(b) - Token(b), !.last = now]
      /\ Level(b) >= Token(b)
  BY <1>0 DEF Underway
<1>2. /\ Level(b) \in Nat /\ Level(b) <= Capacity(bucket[b].quota)
      /\ Token(b) \in Nat /\ Capacity(bucket[b].quota) \in Nat
  BY <1>1, Contents, Rows DEF Marked, Bucket
<1>3. /\ bucket'[b] \in Bucket /\ bucket'[b].quota = bucket[b].quota
      /\ bucket'[b].level = Level(b) - Token(b) /\ bucket'[b].last = now
      /\ bucket'[b].lastAccessed = bucket[b].lastAccessed
  <2>1. Level(b) - Token(b) \in Nat
    BY <1>1, <1>2
  <2> QED
    BY <1>1, <2>1 DEF Bucket
<1>4. bucket'[b] # None /\ None \notin Request
  BY <1>3, LocalLimiterAssumption
<1>5. /\ now <= bucket[b].lastAccessed + 2 * MaxStall
      /\ bucket[b].lastAccessed <= now
  <2>1. /\ now <= began[r] + MaxStall /\ bucket[b].lastAccessed + MaxStall >= began[r]
        /\ began[r] \in Nat /\ MaxStall \in Nat /\ bucket[b].lastAccessed \in Nat
        /\ bucket[b].lastAccessed <= now
    BY <1>1, LocalLimiterAssumption DEF Marked, InTime, Bucket
  <2> QED
    BY <2>1
<1>6. pc[b] \notin {"idle", "store"}
  BY <1>1 DEF Private
<1>7. TypeOK'
  <2>1. bucket' \in [Request -> Bucket \union {None}]
    BY <1>1, <1>3
  <2>2. \A x \in Request : bucket'[x] # None => bucket'[x].level <= Capacity(bucket'[x].quota)
    BY <1>1, <1>2, <1>3
  <2> QED
    BY <2>1, <2>2
<1>8. Underway'
  <2>1. \A x \in Request : pc'[x] = "store" => entry[x] = x /\ x # b
    BY <1>1, <1>6 DEF Underway
  <2>2. \A x \in Request : bucket'[x] # None <=> bucket[x] # None
    BY <1>1, <1>4
  <2>3. \A x \in Request : pc'[x] \in {"idle", "store", "touch", "take"} =>
          x # r /\ pc[x] = pc'[x]
    BY <1>1
  <2>4. \A x \in Request : pc'[x] = "store" => bucket'[x] = bucket[x]
    BY <1>1, <2>1
  <2> SUFFICES ASSUME NEW x \in Request
               PROVE  /\ pc'[x] = "idle" => bucket'[x] = None
                      /\ began[x] <= now
                      /\ pc'[x] = "store" =>
                           entry[x] = x /\ bucket'[x].level = Capacity(bucket'[x].quota)
                      /\ pc'[x] \in {"store", "touch", "take"} =>
                           entry[x] \in Request /\ bucket'[entry[x]] # None
    BY DEF Underway
  <2>5. pc'[x] = "idle" => bucket'[x] = None
    BY <2>2, <2>3 DEF Underway
  <2>6. began[x] <= now
    BY DEF Underway
  <2>7. pc'[x] = "store" => entry[x] = x /\ bucket'[x].level = Capacity(bucket'[x].quota)
    <3> SUFFICES ASSUME pc'[x] = "store"
                 PROVE  entry[x] = x /\ bucket'[x].level = Capacity(bucket'[x].quota)
      OBVIOUS
    <3>1. pc[x] = "store" /\ bucket'[x] = bucket[x]
      BY <2>3, <2>4
    <3>2. entry[x] = x /\ bucket[x].level = Capacity(bucket[x].quota)
      BY <3>1 DEF Underway
    <3> QED
      BY <3>1, <3>2
  <2>8. pc'[x] \in {"store", "touch", "take"} =>
          entry[x] \in Request /\ bucket'[entry[x]] # None
    BY <2>2, <2>3 DEF Underway
  <2> QED
    BY <2>5, <2>6, <2>7, <2>8
<1>9. Private' /\ Stored' /\ SinceAdmitted'
  <2>1. Private'
    BY <1>1 DEF Private
  <2> QED
    BY <1>1, <1>4, <2>1 DEF Stored, SinceAdmitted
<1>10. Marked'
  <2>1. \A x \in Request : bucket'[x].lastAccessed = bucket[x].lastAccessed
    BY <1>1, <1>3
  <2>2. \A x \in Request : bucket'[x] # None =>
          /\ bucket'[x].last <= now /\ bucket'[x].lastAccessed <= now
          /\ bucket'[x].last <= bucket'[x].lastAccessed + 2 * MaxStall
    BY <1>1, <1>3, <1>5 DEF Marked
  <2>3. \A x \in Request : pc'[x] = "take" => x # r /\ pc[x] = "take" /\ entry[x] \in Request
    BY <1>1 DEF Underway
  <2> QED
    BY <2>1, <2>2, <2>3 DEF Marked
<1>11. Doomed'
  <2>1. CASE slot # b
    <3>1. Admitted(slot)' = Admitted(slot)
      BY <2>1, <1>1 DEF Admitted
    <3>2. slot # None => since' \intersect Admitted(slot)' = since \intersect Admitted(slot)
      BY <2>1, <3>1 DEF Admitted
    <3>3. slot # None => bucket'[slot] = bucket[slot]
      BY <2>1, <1>1
    <3> QED
      BY <3>1, <3>2, <3>3 DEF Doomed, Missing, Spent, Level, Token
  <2>2. CASE slot = b
    <3> DEFINE S == since \intersect Admitted(b)
    <3>1. r \notin S /\ since' \intersect Admitted(b)' = S \union {r}
      BY <1>1 DEF Admitted
    <3>2. IsFiniteSet(S) /\ Cardinality(S) \in Nat
      BY LocalLimiterAssumption, FS_Subset, FS_CardinalityType
    <3>3. Cardinality(S \union {r}) = Cardinality(S) + 1
      BY <3>1, <3>2, FS_AddElement
    <3>4. Spent(b)' = Spent(b) + Token(b)
      <4>1. Spent(b)' = Token(b) * Cardinality(S \union {r})
        BY <3>1, <1>3 DEF Spent, Token
      <4>2. Spent(b) = Token(b) * Cardinality(S)
        BY DEF Spent
      <4> HIDE DEF S
      <4> QED
        BY <4>1, <4>2, <3>2, <3>3, <1>2
    <3>5. Level(b)' = Level(b) - Token(b)
      <4>1. Level(b) - Token(b) \in Nat /\ Level(b) - Token(b) <= Capacity(bucket[b].quota)
        BY <1>1, <1>2
      <4>2. (now - now) * Gain(bucket[b].quota) = 0
        BY Rows, <1>1 DEF Gain, Bucket
      <4> QED
        BY <4>1, <4>2, <1>2, <1>3 DEF Level
    <3>6. Missing(b)' = Missing(b) + Token(b)
      BY <3>5, <1>2, <1>3 DEF Missing
    <3>7. Spent(b) \in Nat
      BY <1>1, SpentNat DEF Countable
    <3>8. Missing(b) \in Int
      BY <1>2 DEF Missing
    <3> QED
      BY <2>2, <3>4, <3>6, <3>7, <3>8, <1>2 DEF Doomed
  <2> QED
    BY <2>1, <2>2
<1> QED
  BY <1>7, <1>8, <1>9, <1>10, <1>11

LEMMA CleanInv ==
  ASSUME IInv, CleanLook \/ CleanDelete
  PROVE  IInv'
<1> USE DEF IInv, TypeOK, history, request
<1>1. CASE CleanLook
  <2>1. TypeOK' /\ Underway' /\ Private' /\ Marked' /\ Stored' /\ SinceAdmitted'
    BY <1>1 DEF CleanLook, Underway, Private, Marked, Stored, SinceAdmitted
  <2>2. PICK b \in Request : b = slot
    BY <1>1 DEF CleanLook
  <2>3. /\ bucket[b] # None /\ bucket[b].quota \in Quota /\ bucket[b].last <= now
        /\ bucket[b].last \in Nat /\ bucket[b].lastAccessed \in Nat
        /\ bucket[b].last <= bucket[b].lastAccessed + 2 * MaxStall
    BY <2>2, <1>1 DEF CleanLook, Stored, Marked, Bucket
  <2>4. now - bucket[b].last >= Token(b)
    <3>1. now - bucket[b].lastAccessed > Idle(bucket[b].quota)
      BY <1>1, <2>2 DEF CleanLook
    <3>2. /\ Token(b) + 2 * MaxStall <= Idle(bucket[b].quota) /\ Idle(bucket[b].quota) \in Nat
          /\ Token(b) \in Nat
      BY <2>3, Rows DEF Token
    <3> QED
      BY <3>1, <3>2, <2>3, LocalLimiterAssumption
  <2>5. Missing(b) = 0
    BY <2>3, <2>4, Contents
  <2>6. Missing(b)' = Missing(b)
    BY <1>1 DEF CleanLook, Missing, Level
  <2>7. Spent(b)' \in Nat
    <3>1. Countable'
      BY SpentNat, PTL
    <3> QED
      BY <3>1, <2>1, <2>3, <1>1 DEF Countable, CleanLook
  <2>8. slot' = b
    BY <1>1, <2>2 DEF CleanLook
  <2>9. Doomed'
    BY <2>5, <2>6, <2>7, <2>8 DEF Doomed
  <2> QED
    BY <2>1, <2>9
<1>2. CASE CleanDelete
  <2>1. TypeOK' /\ Underway' /\ Marked' /\ SinceAdmitted'
    BY <1>2 DEF CleanDelete, Underway, Marked, SinceAdmitted
  <2>2. Private' /\ Stored' /\ Doomed'
    BY <1>2, LocalLimiterAssumption DEF CleanDelete, Private, Stored, Doomed
  <2> QED
    BY <2>1, <2>2
<1> QED
  BY <1>1, <1>2

LEMMA TickInv ==
  ASSUME IInv, Tick
  PROVE  IInv'
<1> USE DEF IInv, TypeOK, history, request, Tick
<1>1. TypeOK' /\ Private' /\ Stored' /\ SinceAdmitted'
  BY DEF Private, Stored, SinceAdmitted
<1>2. Underway'
  BY DEF Underway
<1>3. Marked'
  BY DEF Marked, Bucket
<1>4. Doomed'
  <2> SUFFICES ASSUME doomed, NEW b \in Request, slot = b
               PROVE  Missing(b)' <= Spent(b)'
    BY DEF Doomed
  <2>1. /\ bucket[b] # None /\ bucket[b] \in Bucket /\ bucket[b].quota \in Quota
        /\ bucket[b].last <= now
    <3>1. bucket[b] # None
      BY LocalLimiterAssumption DEF Stored
    <3>2. bucket[b] \in Bucket
      BY <3>1
    <3> QED
      BY <3>1, <3>2 DEF Marked, Bucket
  <2>2. /\ Capacity(bucket[b].quota) \in Nat /\ Gain(bucket[b].quota) \in Nat
        /\ bucket[b].level \in Nat /\ bucket[b].last \in Nat
    BY <2>1, Rows DEF Bucket, Gain
  <2> DEFINE G == Gain(bucket[b].quota)
             e == now - bucket[b].last
  <2>3. /\ e \in Nat /\ (e + 1) \in Nat /\ now' - bucket[b].last = e + 1
    BY <2>1, <2>2
  <2> HIDE DEF e
  <2>4. e * G \in Nat /\ (e + 1) * G = e * G + G
    BY <2>2, <2>3, Products
  <2>5. /\ Level(b) = IF bucket[b].level + e * G > Capacity(bucket[b].quota)
                      THEN Capacity(bucket[b].quota) ELSE bucket[b].level + e * G
        /\ Level(b)' = IF bucket[b].level + (e + 1) * G > Capacity(bucket[b].quota)
                       THEN Capacity(bucket[b].quota) ELSE bucket[b].level + (e + 1) * G
    <3>1. now - bucket[b].last = e
      BY DEF e
    <3> QED
      BY <2>3, <3>1 DEF Level
  <2> HIDE DEF G
  <2>6. Level(b)' >= Level(b) /\ Level(b) \in Nat /\ Level(b)' \in Nat
    BY <2>2, <2>3, <2>4, <2>5 DEF G
  <2>7. Missing(b)' <= Missing(b) /\ Missing(b)' \in Int /\ Missing(b) \in Int
    BY <2>2, <2>6 DEF Missing
  <2>8. Spent(b)' = Spent(b)
    BY DEF Spent, Token, Admitted
  <2>9. Spent(b) \in Nat
    BY <2>1, SpentNat DEF Countable
  <2>10. Missing(b) <= Spent(b)
    BY LocalLimiterAssumption DEF Doomed
  <2> QED
    BY <2>7, <2>8, <2>9, <2>10
<1> QED
  BY <1>1, <1>2, <1>3, <1>4

LEMMA NextInv == IInv /\ [Next]_vars => IInv'
<1> SUFFICES ASSUME IInv, [Next]_vars PROVE IInv'
  OBVIOUS
<1>1. CASE UNCHANGED vars
  <2>1. TypeOK' /\ Underway' /\ Private' /\ Marked' /\ Stored' /\ SinceAdmitted'
    BY <1>1 DEF vars, request, history, IInv, TypeOK, Underway, Private, Marked, Stored,
                SinceAdmitted
  <2>2. Doomed'
    BY <1>1 DEF vars, request, history, IInv, Doomed, Missing, Spent, Level, Token, Admitted
  <2> QED
    BY <2>1, <2>2 DEF IInv
<1> QED
  BY <1>1, BeginInv, StoreInv, TouchInv, AdmitInv, RefuseInv, CleanInv, TickInv DEF Next

----------------------------------------------------------------------------
\* Buckets are never overdrawn nor over their capacity (limiter.go:172-175).
THEOREM BucketsTyped == Spec => []TypeOK
<1>1. IInv => TypeOK
  BY DEF IInv
<1> QED
  BY <1>1, InitInv, NextInv, PTL DEF Spec

\* The cleanup loop deletes nothing but full buckets, up to what requests
\* take between its look and its Delete (limiter.go:230-236).
THEOREM CleanupGivesNothingBack == Spec => DeletesUnused
<1>1. IInv /\ [Next]_vars =>
        [slot # None /\ slot' = None =>
           Missing(slot) <= Token(slot) * Cardinality(since \intersect Admitted(slot))]_vars
  <2> SUFFICES ASSUME IInv, [Next]_vars, slot # None, slot' = None
               PROVE  Missing(slot) <= Spent(slot)
    BY DEF Spent
  <2>1. CleanDelete
    BY LocalLimiterAssumption
       DEF Next, Begin, Store, Touch, Admit, Refuse, CleanLook, Tick, vars
  <2> QED
    BY <2>1 DEF IInv, Doomed, CleanDelete
<1> QED
  BY <1>1, InitInv, NextInv, PTL DEF Spec, DeletesUnused

----------------------------------------------------------------------------
(***************************************************************************)
(* The spending of a bucket.  From any of its admissions on, what it has   *)
(* given away since, and what it still holds, is at most a full bucket and *)
(* the earnings of the time in between.                                    *)
(***************************************************************************)
Taken(b, t) == {r \in Admitted(b) : tookAt[r] >= t}

Budget(b, t) ==
  Cardinality(Taken(b, t)) * Token(b) + bucket[b].level
    <= Capacity(bucket[b].quota) + (bucket[b].last - t) * Gain(bucket[b].quota)

\* A request uses a bucket that was made for its row.
OwnRow ==
  \A r \in Request : pc[r] \in {"store", "touch", "take", "admitted"} =>
    /\ entry[r] \in Request /\ bucket[entry[r]] # None
    /\ quota[r] = bucket[entry[r]].quota

Paid ==
  \A b \in Request : \A r \in Admitted(b) : tookAt[r] <= bucket[b].last /\ Budget(b, tookAt[r])

\* BucketBound, for one pair of admissions.
PairBound(b, r, x) ==
  /\ quota[r] = bucket[b].quota
  /\ Cardinality(Between(b, tookAt[r], tookAt[x])) * quota[r].window
       <= Capacity(quota[r]) + IF tookAt[x] > tookAt[r]
                               THEN (tookAt[x] - tookAt[r]) * quota[r].limit ELSE 0

BoundsPairs == BucketBound <=> \A b \in Request : \A r, x \in Admitted(b) : PairBound(b, r, x)

BudgetInv == IInv /\ OwnRow /\ Paid /\ BucketBound

LEMMA Distributes ==
  ASSUME NEW x \in Int, NEW y \in Int, NEW z \in Int
  PROVE  /\ x * z \in Int /\ y * z \in Int
         /\ (x + y) * z = x * z + y * z
OBVIOUS

LEMMA BoundIsPairs == BoundsPairs
BY DEF BoundsPairs, BucketBound, PairBound

LEMMA BudgetInit == Init => BudgetInv
<1> SUFFICES ASSUME Init PROVE BudgetInv
  OBVIOUS
<1>1. \A b \in Request : Admitted(b) = {}
  BY DEF Init, Admitted
<1>2. OwnRow
  BY DEF Init, OwnRow
<1> QED
  BY <1>1, <1>2, InitInv DEF BudgetInv, Paid, BucketBound

\* A step that admits nobody and leaves what matters of a bucket in use.
LEMMA BudgetKept ==
  ASSUME BudgetInv,
         \A b \in Request : Admitted(b)' = Admitted(b),
         tookAt' = tookAt,
         \A b \in Request : \A r \in Admitted(b) :
           /\ quota'[r] = quota[r]
           /\ bucket'[b].quota = bucket[b].quota
           /\ bucket'[b].level = bucket[b].level
           /\ bucket'[b].last = bucket[b].last
  PROVE  Paid' /\ BucketBound'
<1>1. Paid'
  BY DEF BudgetInv, Paid, Budget, Taken, Token
<1>2. ASSUME NEW b \in Request, NEW r \in Admitted(b), NEW x \in Admitted(b)
      PROVE  PairBound(b, r, x)'
  <2>1. Between(b, tookAt[r], tookAt[x])' = Between(b, tookAt[r], tookAt[x])
    BY DEF Between
  <2>2. PairBound(b, r, x)
    BY BoundIsPairs DEF BudgetInv, BoundsPairs
  <2> QED
    BY <2>1, <2>2 DEF PairBound
<1>3. BoundsPairs'
  BY BoundIsPairs, PTL
<1> QED
  BY <1>1, <1>2, <1>3 DEF BoundsPairs

LEMMA BudgetBegin ==
  ASSUME BudgetInv, NEW r \in Request, NEW q \in Quota, Begin(r, q)
  PROVE  OwnRow' /\ Paid' /\ BucketBound'
<1> USE DEF Begin, Goto, BudgetInv, IInv, TypeOK, history
<1>1. /\ pc[r] = "idle" /\ slot # r /\ pc'[r] \in {"touch", "store"}
      /\ \A x \in Request \ {r} : /\ entry[x] # r /\ pc'[x] = pc[x] /\ entry'[x] = entry[x]
                                   /\ quota'[x] = quota[x]
      /\ \A b \in Request \ {r} : bucket'[b] = bucket[b]
      /\ quota'[r] = q
  BY DEF Private
<1>2. \/ /\ Fits(slot, q) /\ bucket' = bucket /\ entry'[r] = slot
      \/ /\ bucket'[r] = FullBucket(q) /\ entry'[r] = r
  OBVIOUS
<1>3. FullBucket(q).quota = q /\ FullBucket(q) # None
  <2>1. FullBucket(q) \in Bucket
    BY Rows DEF FullBucket, Bucket
  <2> QED
    BY <2>1, LocalLimiterAssumption DEF FullBucket
<1>4. OwnRow'
  <2>1. entry'[r] \in Request /\ bucket'[entry'[r]] # None /\ quota'[r] = bucket'[entry'[r]].quota
    BY <1>1, <1>2, <1>3 DEF Fits, Stored
  <2>2. ASSUME NEW x \in Request \ {r}, pc[x] \in {"store", "touch", "take", "admitted"}
        PROVE  entry[x] \in Request /\ bucket'[entry[x]] # None /\ quota[x] = bucket'[entry[x]].quota
    BY <1>1, <2>2 DEF OwnRow
  <2> QED
    BY <1>1, <2>1, <2>2 DEF OwnRow
<1>5. \A b \in Request : Admitted(b)' = Admitted(b)
  BY <1>1 DEF Admitted
<1>6. Admitted(r) = {} /\ r \notin UNION {Admitted(b) : b \in Request}
  BY <1>1 DEF Admitted
<1> QED
  BY <1>1, <1>4, <1>5, <1>6, BudgetKept

LEMMA BudgetRest ==
  ASSUME BudgetInv,
         \/ \E r \in Request : Store(r) \/ Touch(r) \/ Refuse(r)
         \/ CleanLook \/ CleanDelete \/ Tick \/ UNCHANGED vars
  PROVE  OwnRow' /\ Paid' /\ BucketBound'
<1> USE DEF BudgetInv, IInv, TypeOK, history, request, vars
<1>1. /\ quota' = quota /\ entry' = entry /\ tookAt' = tookAt
      /\ \A x \in Request :
           /\ pc'[x] \in {"store", "touch", "take", "admitted"} =>
                pc[x] \in {"store", "touch", "take", "admitted"}
           /\ pc'[x] = "admitted" <=> pc[x] = "admitted"
  BY DEF Store, Touch, Refuse, CleanLook, CleanDelete, Tick, Goto
<1>2. \A b \in Request : bucket[b] # None =>
        /\ bucket'[b] # None /\ bucket'[b].quota = bucket[b].quota
        /\ bucket'[b].level = bucket[b].level /\ bucket'[b].last = bucket[b].last
  <2>1. CASE \E r \in Request : Touch(r)
    <3>1. PICK r \in Request : Touch(r)
      BY <2>1
    <3>2. /\ entry[r] \in Request /\ bucket[entry[r]] \in Bucket /\ began[r] \in Nat
          /\ \A b \in Request \ {entry[r]} : bucket'[b] = bucket[b]
          /\ bucket'[entry[r]] = [bucket[entry[r]] EXCEPT !.lastAccessed = began[r]]
      BY <3>1 DEF Touch, Goto, Underway
    <3>3. bucket'[entry[r]] \in Bucket
      BY <3>2 DEF Bucket
    <3> QED
      BY <3>2, <3>3, LocalLimiterAssumption DEF Bucket
  <2>2. CASE bucket' = bucket
    BY <2>2
  <2> QED
    BY <2>1, <2>2 DEF Store, Refuse, CleanLook, CleanDelete, Tick
<1>3. OwnRow'
  BY <1>1, <1>2 DEF OwnRow
<1>4. \A b \in Request : Admitted(b)' = Admitted(b)
  BY <1>1 DEF Admitted
<1>5. \A b \in Request : \A r \in Admitted(b) : bucket[b] # None
  BY DEF Admitted, OwnRow
<1> QED
  BY <1>1, <1>2, <1>3, <1>4, <1>5, BudgetKept

\* An admission: everyone before it has one more, and the bucket one token
\* less, in it.
LEMMA BudgetAdmit ==
  ASSUME BudgetInv, NEW r \in Request, Admit(r)
  PROVE  OwnRow' /\ Paid' /\ BucketBound'
<1>0. PICK b \in Request : b = entry[r]
  BY DEF BudgetInv, OwnRow, Admit, Goto
<1> DEFINE w == Token(b)
           G == Gain(bucket[b].quota)
           C == Capacity(bucket[b].quota)
           L == Level(b)
           l == bucket[b].last
           A == Admitted(b)
<1>1. /\ pc[r] = "take" /\ pc'[r] = "admitted" /\ \A x \in Request \ {r} : pc'[x] = pc[x]
      /\ entry[r] = b /\ bucket[b] # None /\ bucket[b] \in Bucket
      /\ quota[r] = bucket[b].quota
      /\ \A x \in Request \ {b} : bucket'[x] = bucket[x]
      /\ bucket'[b] = [bucket[b] EXCEPT !.level = L - w, !.last = now]
      /\ L >= w /\ tookAt' = [tookAt EXCEPT ![r] = now]
      /\ UNCHANGED <<now, quota, entry>>
  BY <1>0 DEF BudgetInv, IInv, TypeOK, OwnRow, Admit, Goto
<1>2. /\ w \in Nat /\ G \in Nat /\ C \in Nat /\ L \in Nat /\ L <= C
      /\ l \in Nat /\ l <= now /\ now \in Nat /\ bucket[b].level \in Nat
      /\ L <= bucket[b].level + (now - l) * G
  <2>1. w \in Nat /\ L \in Nat /\ L <= C /\ l <= now
    BY <1>1, Contents DEF BudgetInv, IInv, Marked
  <2>2. G \in Nat /\ C \in Nat /\ l \in Nat /\ bucket[b].level \in Nat
    BY <1>1, Rows DEF Bucket, Gain
  <2>3. now \in Nat
    BY DEF BudgetInv, IInv, TypeOK
  <2>4. (now - l) * G \in Int
    <3>1. now - l \in Int
      BY <2>2, <2>3
    <3> HIDE DEF G, l
    <3> QED
      BY <2>2, <3>1
  <2> QED
    BY <2>1, <2>2, <2>3, <2>4 DEF Level
<1>3. /\ bucket'[b].quota = bucket[b].quota /\ bucket'[b].level = L - w
      /\ bucket'[b].last = now /\ bucket'[b] \in Bucket /\ bucket'[b] # None
  <2>1. L - w \in Nat /\ now \in Nat
    BY <1>1, <1>2
  <2>2. bucket'[b] \in Bucket
    BY <1>1, <2>1 DEF Bucket
  <2> QED
    BY <1>1, <2>2, LocalLimiterAssumption DEF Bucket
<1>4. /\ A' = A \union {r} /\ r \notin A
      /\ \A c \in Request \ {b} : Admitted(c)' = Admitted(c) /\ r \notin Admitted(c)
      /\ A \subseteq Request /\ \A c \in Request : Admitted(c) \subseteq Request
      /\ tookAt'[r] = now /\ \A x \in Request \ {r} : tookAt'[x] = tookAt[x]
      /\ \A x \in A : tookAt[x] <= l
      /\ \A x \in Request : tookAt[x] \in Nat
  BY <1>1 DEF BudgetInv, IInv, TypeOK, Admitted, Paid
<1>5. OwnRow'
  <2>1. \A x \in Request : bucket[x] # None =>
          bucket'[x] # None /\ bucket'[x].quota = bucket[x].quota
    BY <1>1, <1>3
  <2>2. \A x \in Request : pc'[x] \in {"store", "touch", "take", "admitted"} =>
          pc[x] \in {"store", "touch", "take", "admitted"}
    BY <1>1
  <2> QED
    BY <1>1, <2>1, <2>2 DEF BudgetInv, OwnRow
<1> HIDE DEF w, G, C, L, l, A
\* What the admissions of this bucket have after it.
<1>6. ASSUME NEW x \in A'
      PROVE  /\ tookAt'[x] <= now
             /\ Cardinality(Taken(b, tookAt[x])') \in Nat
             /\ Cardinality(Taken(b, tookAt[x])') * w + (L - w) <= C + (now - tookAt'[x]) * G
  <2>1. ASSUME NEW y \in A, tookAt[y] = tookAt'[x]
        PROVE  /\ Cardinality(Taken(b, tookAt[x])') \in Nat
               /\ Cardinality(Taken(b, tookAt[x])') * w + (L - w) <= C + (now - tookAt'[x]) * G
    <3> DEFINE S == Taken(b, tookAt[y])
               n == Cardinality(S)
    <3>1. Taken(b, tookAt[x])' = S \union {r} /\ r \notin S
      <4>1. \A z \in A : z # r /\ tookAt'[z] = tookAt[z]
        BY <1>4
      <4>2. Taken(b, tookAt[x])' = {z \in A' : tookAt'[z] >= tookAt[y]}
        BY <2>1 DEF Taken, A
      <4>3. S = {z \in A : tookAt[z] >= tookAt[y]}
        BY DEF Taken, A
      <4>4. now >= tookAt[y]
        BY <1>2, <1>4
      <4> HIDE DEF S
      <4> QED
        BY <1>4, <4>1, <4>2, <4>3, <4>4
    <3>2. IsFiniteSet(S) /\ n \in Nat
      BY LocalLimiterAssumption, FS_Subset, FS_CardinalityType DEF Taken, Admitted
    <3>3. Cardinality(S \union {r}) = n + 1
      BY <3>1, <3>2, FS_AddElement
    <3>4. n * w + bucket[b].level <= C + (l - tookAt[y]) * G
      BY <1>1 DEF BudgetInv, Paid, Budget, C, G, w, l, A
    <3> HIDE DEF S, n
    <3>5. /\ (n + 1) * w = n * w + w /\ n * w \in Int
      BY <3>2, <1>2, Distributes
    <3>6. /\ (l - tookAt[y]) * G + (now - l) * G = (now - tookAt[y]) * G
          /\ (l - tookAt[y]) * G \in Int /\ (now - l) * G \in Int
      <4>1. (l - tookAt[y]) + (now - l) = now - tookAt[y]
        BY <1>2, <1>4
      <4>2. l - tookAt[y] \in Int /\ now - l \in Int
        BY <1>2, <1>4
      <4> QED
        BY <4>1, <4>2, <1>2, Distributes
    <3>7. (n + 1) * w + (L - w) <= C + (now - tookAt[y]) * G
      BY <3>2, <3>4, <3>5, <3>6, <1>2
    <3> QED
      BY <2>1, <3>1, <3>2, <3>3, <3>7
  <2>2. CASE x # r
    BY <2>1, <2>2, <1>2, <1>4
  <2>3. CASE x = r /\ \E y \in A : tookAt[y] = now
    BY <2>1, <2>3, <1>4
  <2>4. CASE x = r /\ \A y \in A : tookAt[y] # now
    <3>1. Taken(b, tookAt[x])' = {r}
      <4>1. Taken(b, tookAt[x])' = {z \in A' : tookAt'[z] >= now}
        BY <2>4, <1>4 DEF Taken, A
      <4>2. ASSUME NEW z \in A PROVE ~ tookAt'[z] >= now
        <5>1. tookAt'[z] = tookAt[z] /\ tookAt[z] \in Nat /\ tookAt[z] <= l /\ tookAt[z] # now
          BY <2>4, <1>4
        <5> QED
          BY <5>1, <1>2
      <4> QED
        BY <4>1, <4>2, <1>2, <1>4
    <3>2. Cardinality({r}) = 1
      BY FS_Singleton
    <3>3. (now - now) * G = 0 /\ 1 * w = w
      BY <1>2
    <3> QED
      BY <2>4, <3>1, <3>2, <3>3, <1>2, <1>4
  <2> QED
    BY <2>2, <2>3, <2>4, <1>2, <1>4
<1>7. Paid'
  <2>1. ASSUME NEW x \in A' PROVE tookAt'[x] <= bucket'[b].last /\ Budget(b, tookAt[x])'
    BY <1>3, <1>6 DEF Budget, Token, C, G, w
  <2>2. ASSUME NEW c \in Request \ {b}, NEW x \in Admitted(c)
        PROVE  tookAt'[x] <= bucket'[c].last /\ Budget(c, tookAt[x])'
    <3>1. Taken(c, tookAt[x])' = Taken(c, tookAt[x])
      <4>1. \A z \in Admitted(c) : tookAt'[z] = tookAt[z]
        BY <1>4
      <4>2. Taken(c, tookAt[x])' = {z \in Admitted(c) : tookAt'[z] >= tookAt'[x]}
        BY <1>4 DEF Taken
      <4> QED
        BY <4>1, <4>2 DEF Taken
    <3>2. tookAt[x] <= bucket[c].last /\ Budget(c, tookAt[x])
      BY <2>2 DEF BudgetInv, Paid
    <3>3. tookAt'[x] = tookAt[x] /\ bucket'[c] = bucket[c]
      BY <1>1, <1>4, <2>2
    <3> QED
      BY <3>1, <3>2, <3>3 DEF Budget, Token
  <2> QED
    BY <1>4, <2>1, <2>2 DEF Paid, A
<1>8. ASSUME NEW c \in Request, NEW x \in Admitted(c)', NEW y \in Admitted(c)'
      PROVE  PairBound(c, x, y)'
  <2>0. quota'[x] = bucket'[c].quota
    BY <1>5 DEF OwnRow, Admitted
  <2>1. CASE c # b \/ (y # r /\ tookAt[y] < now)
    <3>1. y \in Admitted(c) /\ tookAt'[y] = tookAt[y] /\ y # r
      BY <1>4, <2>1 DEF A
    <3>2. CASE x = r
      <4>1. c = b /\ tookAt'[x] = now /\ tookAt'[y] < now
        BY <3>1, <3>2, <1>4, <2>1 DEF A
      <4>2. Between(c, tookAt[x], tookAt[y])' = {}
        BY <4>1, <1>2, <1>4 DEF Between, Admitted
      <4>3. quota'[x].window \in Nat /\ Capacity(quota'[x]) \in Nat
        BY <4>1, <1>3, <2>0, Rows DEF Bucket
      <4> QED
        <5>1. Cardinality(Between(c, tookAt[x], tookAt[y])') = 0
          BY <4>2, FS_EmptySet
        <5>2. 0 * quota'[x].window = 0
          BY <4>3
        <5>3. ~ tookAt'[y] > tookAt'[x]
          BY <3>1, <4>1, <1>2, <1>4
        <5> QED
          BY <2>0, <4>3, <5>1, <5>2, <5>3 DEF PairBound
    <3>3. CASE x # r
      <4>1. x \in Admitted(c) /\ tookAt'[x] = tookAt[x]
        BY <3>3, <1>4 DEF A
      <4>2. Between(c, tookAt[x], tookAt[y])' = Between(c, tookAt[x], tookAt[y])
        <5>1. \A z \in Admitted(c) : z # r /\ tookAt'[z] = tookAt[z]
          BY <1>4 DEF A
        <5>2. r \in Admitted(c)' => tookAt'[r] \notin tookAt'[x] .. tookAt'[y]
          <6>1. r \in Admitted(c)' => c = b
            BY <1>4
          <6>2. tookAt[x] \in Nat /\ tookAt[y] \in Nat
            BY <1>4, <3>1, <4>1
          <6> QED
            BY <6>1, <6>2, <1>2, <1>4, <2>1, <3>1, <4>1
        <5>3. Admitted(c)' \subseteq Admitted(c) \union {r} /\ Admitted(c) \subseteq Admitted(c)'
          BY <1>4 DEF A
        <5>4. Between(c, tookAt[x], tookAt[y])'
                = {z \in Admitted(c)' : tookAt'[z] \in tookAt'[x] .. tookAt'[y]}
          BY DEF Between
        <5> QED
          BY <3>1, <4>1, <5>1, <5>2, <5>3, <5>4 DEF Between
      <4>3. PairBound(c, x, y)
        BY <3>1, <4>1, BoundIsPairs DEF BudgetInv, BoundsPairs
      <4> QED
        BY <2>0, <3>1, <4>1, <4>2, <4>3, <1>1 DEF PairBound
    <3> QED
      BY <3>2, <3>3
  <2>2. CASE c = b /\ (y = r \/ tookAt[y] >= now)
    <3>1. x \in A' /\ tookAt'[y] = now
      BY <2>2, <1>2, <1>4 DEF A
    <3>2. Between(b, tookAt[x], tookAt[y])' = Taken(b, tookAt[x])'
      <4>1. \A z \in A' : tookAt'[z] <= now /\ tookAt'[z] \in Nat
        BY <1>6, <1>2, <1>4 DEF A
      <4> QED
        BY <4>1, <3>1, <1>2, <1>4 DEF Between, Taken, A
    <3> DEFINE N == Cardinality(Taken(b, tookAt[x])')
    <3>3. /\ N \in Nat /\ tookAt'[x] <= now /\ tookAt'[x] \in Nat
          /\ N * w + (L - w) <= C + (now - tookAt'[x]) * G
      BY <3>1, <1>2, <1>4, <1>6 DEF A
    <3> HIDE DEF N
    <3>4. N * w <= C + (now - tookAt'[x]) * G
      <4>1. N * w \in Int /\ (now - tookAt'[x]) * G \in Int
        BY <3>3, <1>2, Distributes
      <4> QED
        BY <4>1, <3>3, <1>1, <1>2
    <3>5. ~ now > tookAt'[x] => (now - tookAt'[x]) * G = 0
      <4>1. ~ now > tookAt'[x] => now - tookAt'[x] = 0
        BY <3>3, <1>2
      <4> QED
        BY <4>1, <1>2
    <3>6. /\ quota'[x] = bucket[b].quota
          /\ w = quota'[x].window /\ G = quota'[x].limit /\ C = Capacity(quota'[x])
      BY <2>0, <2>2, <1>3 DEF w, Token, G, Gain, C
    <3>7. N * quota'[x].window
            <= Capacity(quota'[x]) + IF now > tookAt'[x]
                                     THEN (now - tookAt'[x]) * quota'[x].limit ELSE 0
      BY <3>4, <3>5, <3>6, <1>2
    <3> QED
      BY <2>0, <2>2, <3>1, <3>2, <3>7 DEF PairBound, N
  <2>3. y \in Request /\ tookAt[y] \in Nat
    BY <1>4 DEF Admitted
  <2> QED
    BY <2>1, <2>2, <2>3, <1>2
<1>9. BoundsPairs'
  BY BoundIsPairs, PTL
<1> QED
  BY <1>5, <1>7, <1>8, <1>9 DEF BoundsPairs

LEMMA BudgetNext == BudgetInv /\ [Next]_vars => BudgetInv'
<1> SUFFICES ASSUME BudgetInv, [Next]_vars PROVE BudgetInv'
  OBVIOUS
<1>1. IInv'
  BY NextInv DEF BudgetInv
<1>2. OwnRow' /\ Paid' /\ BucketBound'
  BY BudgetBegin, BudgetAdmit, BudgetRest DEF Next
<1> QED
  BY <1>1, <1>2 DEF BudgetInv

\* Between any two of its admissions a bucket gives no more than its limit
\* and what the time in between has earned at the rate of its row, to
\* requests of its row only (limiter.go:159, 172-175).
THEOREM BucketsKeepTheRate == Spec => []BucketBound
<1>1. BudgetInv => BucketBound
  BY DEF BudgetInv
<1> QED
  BY <1>1, BudgetInit, BudgetNext, PTL DEF Spec

=============================================================================
