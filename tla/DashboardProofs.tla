-------------------------- MODULE DashboardProofs --------------------------
(***************************************************************************)
(* The views of the dashboard agree with each other, and the minutes of    *)
(* the live view are whole, for any rows, clients, units and ranges.       *)
(***************************************************************************)
EXTENDS Dashboard, FiniteSetTheorems, FunctionTheorems, TLAPS

\* The marks of Total: one line of so many for each key.
Marks(K, n) == UNION {{b} \X (1 .. n[b]) : b \in K}

\* The sizes of the groups of a finite set add up to its own.
LEMMA SumOfGroups ==
  ASSUME NEW S, IsFiniteSet(S), NEW K, NEW G \in [K -> SUBSET S],
         \A r \in S : \E b \in K : r \in G[b],
         \A a, b \in K : G[a] \intersect G[b] # {} => a = b
  PROVE  Cardinality(Marks(K, [b \in K |-> Cardinality(G[b])])) = Cardinality(S)
<1> DEFINE n == [b \in K |-> Cardinality(G[b])]
           M == Marks(K, n)
           h == [b \in K |-> CHOOSE f : f \in Bijection(1 .. n[b], G[b])]
           glue == [m \in M |-> h[m[1]][m[2]]]
<1>1. ASSUME NEW b \in K PROVE h[b] \in Bijection(1 .. n[b], G[b])
  <2>1. IsFiniteSet(G[b])
    BY FS_Subset
  <2>2. Bijection(1 .. n[b], G[b]) # {}
    BY <2>1, FS_CardinalityType, Fun_ExistsBij
  <2> QED
    BY <2>2
<1>2. \A b \in K : /\ h[b] \in [1 .. n[b] -> G[b]]
                   /\ \A i, j \in 1 .. n[b] : h[b][i] = h[b][j] => i = j
                   /\ \A r \in G[b] : \E i \in 1 .. n[b] : h[b][i] = r
  <2> HIDE DEF h, n
  <2> TAKE b \in K
  <2>1. h[b] \in Injection(1 .. n[b], G[b]) /\ h[b] \in Surjection(1 .. n[b], G[b])
    BY <1>1 DEF Bijection
  <2> QED
    BY <2>1 DEF Injection, Surjection, IsInjective
<1> HIDE DEF h, n
<1>3. \A m \in M : \E b \in K : \E i \in 1 .. n[b] : m = <<b, i>>
  BY DEF Marks
<1>4. \A b \in K : \A i \in 1 .. n[b] : <<b, i>> \in M
  BY DEF Marks
<1> HIDE DEF M
<1>10. \A b \in K : \A i \in 1 .. n[b] : glue[<<b, i>>] = h[b][i]
  BY <1>4
<1>5. glue \in [M -> S]
  <2>1. ASSUME NEW m \in M PROVE glue[m] \in S
    <3> HIDE DEF glue
    <3>1. PICK b \in K : \E i \in 1 .. n[b] : m = <<b, i>>
      BY <1>3
    <3>2. PICK i \in 1 .. n[b] : m = <<b, i>>
      BY <3>1
    <3>3. glue[m] = h[b][i] /\ h[b][i] \in G[b]
      BY <1>2, <1>10, <3>2
    <3> QED
      BY <3>3
  <2> QED
    BY <2>1
<1>6. ASSUME NEW p \in M, NEW q \in M, glue[p] = glue[q] PROVE p = q
  <2>1. PICK a \in K : \E i \in 1 .. n[a] : p = <<a, i>>
    BY <1>3
  <2>2. PICK b \in K : \E j \in 1 .. n[b] : q = <<b, j>>
    BY <1>3
  <2>3. PICK i \in 1 .. n[a] : p = <<a, i>>
    BY <2>1
  <2>4. PICK j \in 1 .. n[b] : q = <<b, j>>
    BY <2>2
  <2>5. h[a][i] = h[b][j] /\ h[a][i] \in G[a] /\ h[b][j] \in G[b]
    <3> HIDE DEF glue
    <3>1. glue[p] = h[a][i] /\ glue[q] = h[b][j]
      BY <1>10, <2>3, <2>4
    <3>2. h[a][i] = h[b][j]
      BY <1>6, <3>1
    <3>3. h[a] \in [1 .. n[a] -> G[a]] /\ h[b] \in [1 .. n[b] -> G[b]]
      BY <1>2
    <3> QED
      BY <3>2, <3>3
  <2> QED
    BY <1>2, <2>3, <2>4, <2>5
<1>7. ASSUME NEW r \in S PROVE \E m \in M : glue[m] = r
  <2>1. PICK b \in K : r \in G[b]
    OBVIOUS
  <2>2. PICK i \in 1 .. n[b] : h[b][i] = r
    BY <1>2, <2>1
  <2>3. <<b, i>> \in M /\ glue[<<b, i>>] = r
    BY <1>4, <1>10, <2>2
  <2> QED
    BY <2>3
<1>8. glue \in Bijection(M, S)
  <2> HIDE DEF glue
  <2>1. glue \in Injection(M, S)
    BY <1>5, <1>6 DEF Injection, IsInjective
  <2>2. glue \in Surjection(M, S)
    BY <1>5, <1>7 DEF Surjection
  <2> QED
    BY <2>1, <2>2 DEF Bijection
<1>9. ExistsBijection(S, M)
  <2> HIDE DEF glue
  <2> QED
    BY <1>8, Fun_ExistsBij, Fun_ExistsBijSymmetric
<1> QED
  BY <1>9, FS_Bijection DEF M, n

LEMMA RowsFinite ==
  ASSUME TypeOK, NEW S, S \subseteq committed
  PROVE  IsFiniteSet(S) /\ Cardinality(S) \in Nat
<1>1. S \subseteq Row
  BY DEF TypeOK
<1> QED
  BY <1>1, DashboardAssumption, FS_Subset, FS_CardinalityType

\* What a table grouped by time adds up to.
LEMMA GroupedAddUp ==
  ASSUME TypeOK, NEW S, S \subseteq committed, NEW unit
  PROVE  /\ Total(Grouped(S, unit), LAMBDA p : p.total) = Point(S).total
         /\ Total(Grouped(S, unit), LAMBDA p : p.allowed) = Point(S).allowed
<1> DEFINE K == {StampOf(r) \div unit : r \in S}
           G == [b \in K |-> {r \in S : StampOf(r) \div unit = b}]
           A == {r \in S : IsAllowed(r)}
           H == [b \in K |-> {r \in G[b] : IsAllowed(r)}]
<1>1. IsFiniteSet(S) /\ IsFiniteSet(A)
  BY RowsFinite
<1>2. Cardinality(Marks(K, [b \in K |-> Cardinality(G[b])])) = Cardinality(S)
  <2>1. /\ G \in [K -> SUBSET S]
        /\ \A r \in S : \E b \in K : r \in G[b]
        /\ \A a, b \in K : G[a] \intersect G[b] # {} => a = b
    OBVIOUS
  <2> HIDE DEF K, G
  <2> QED
    BY <1>1, <2>1, SumOfGroups
<1>3. Cardinality(Marks(K, [b \in K |-> Cardinality(H[b])])) = Cardinality(A)
  <2>1. /\ H \in [K -> SUBSET A]
        /\ \A r \in A : \E b \in K : r \in H[b]
        /\ \A a, b \in K : H[a] \intersect H[b] # {} => a = b
    OBVIOUS
  <2> HIDE DEF K, H, A
  <2> QED
    BY <1>1, <2>1, SumOfGroups
<1>4. /\ DOMAIN Grouped(S, unit) = K
      /\ \A b \in K : /\ Grouped(S, unit)[b].total = Cardinality(G[b])
                      /\ Grouped(S, unit)[b].allowed = Cardinality(H[b])
  BY DEF Grouped, Point
<1>5. Total(Grouped(S, unit), LAMBDA p : p.total) = Cardinality(Marks(K, [b \in K |-> Cardinality(G[b])]))
  <2> DEFINE T == Grouped(S, unit)
             n == [b \in K |-> Cardinality(G[b])]
  <2>1. Total(T, LAMBDA p : p.total) = Cardinality(UNION {{b} \X (1 .. T[b].total) : b \in DOMAIN T})
    BY DEF Total
  <2>2. DOMAIN T = K /\ \A b \in K : T[b].total = n[b]
    BY <1>4
  <2> HIDE DEF K, G, T, n
  <2>3. UNION {{b} \X (1 .. T[b].total) : b \in DOMAIN T} = Marks(K, n)
    BY <2>2 DEF Marks
  <2> QED
    BY <2>1, <2>3 DEF T, n
<1>6. Total(Grouped(S, unit), LAMBDA p : p.allowed) = Cardinality(Marks(K, [b \in K |-> Cardinality(H[b])]))
  <2> DEFINE T == Grouped(S, unit)
             n == [b \in K |-> Cardinality(H[b])]
  <2>1. Total(T, LAMBDA p : p.allowed) = Cardinality(UNION {{b} \X (1 .. T[b].allowed) : b \in DOMAIN T})
    BY DEF Total
  <2>2. DOMAIN T = K /\ \A b \in K : T[b].allowed = n[b]
    BY <1>4
  <2> HIDE DEF K, H, T, n
  <2>3. UNION {{b} \X (1 .. T[b].allowed) : b \in DOMAIN T} = Marks(K, n)
    BY <2>2 DEF Marks
  <2> QED
    BY <2>1, <2>3 DEF T, n
<1> QED
  BY <1>2, <1>3, <1>5, <1>6 DEF Point

LEMMA PointAddsUp ==
  ASSUME TypeOK, NEW S, S \subseteq committed
  PROVE  Point(S).total = Point(S).allowed + Point(S).blocked
<1> DEFINE A == {r \in S : IsAllowed(r)}
           B == {r \in S : ~ IsAllowed(r)}
<1>1. IsFiniteSet(A) /\ IsFiniteSet(B) /\ Cardinality(A) \in Nat /\ Cardinality(B) \in Nat
  BY RowsFinite
<1>2. S = A \union B /\ A \intersect B = {}
  OBVIOUS
<1> HIDE DEF A, B
<1>3. Cardinality(S) = Cardinality(A) + Cardinality(B) - Cardinality({})
  BY <1>1, <1>2, FS_Union
<1>4. Cardinality(S) = Cardinality(A) + Cardinality(B)
  BY <1>1, <1>3, FS_EmptySet
<1> QED
  BY <1>4 DEF Point, A, B

----------------------------------------------------------------------------
LEMMA InitTyped == Init => TypeOK
BY DashboardAssumption DEF Init, TypeOK, Filter, Free, Nothing, Calls, Answers

LEMMA NextTyped == TypeOK /\ [Next]_vars => TypeOK'
<1> SUFFICES ASSUME TypeOK, [Next]_vars PROVE TypeOK'
  OBVIOUS
<1> USE DEF TypeOK, store, page
<1>1. CASE Tick
  BY <1>1, DashboardAssumption DEF Tick
<1>2. CASE ServerFlips
  BY <1>2 DEF ServerFlips
<1>3. ASSUME NEW r \in Row, Commit(r) PROVE TypeOK'
  BY <1>3 DEF Commit
<1>4. ASSUME NEW f \in Filter, Choose(f) PROVE TypeOK'
  <2>1. Asked(f) \in Calls
    BY DEF Asked, Calls
  <2>2. call' \in [View -> [Slot -> Calls]]
    BY <1>4, <2>1 DEF Choose
  <2> QED
    BY <1>4, <2>2 DEF Choose
<1>5. ASSUME NEW v \in View, NEW k \in Slot, Poll(v, k) PROVE TypeOK'
  <2>1. Asked(filter) \in Calls
    BY DEF Asked, Calls
  <2>2. call' \in [View -> [Slot -> Calls]] /\ error' \in [View -> BOOLEAN]
    BY <1>5, <2>1 DEF Poll, Fetch
  <2> QED
    BY <1>5, <2>2 DEF Poll
<1>6. ASSUME NEW v \in View, NEW k \in Slot, Query(v, k) PROVE TypeOK'
  <2>1. [stage |-> "answered", filter |-> call[v][k].filter, seen |-> Matching(call[v][k].filter)]
          \in Calls
    BY DEF Calls, Matching
  <2>2. call' \in [View -> [Slot -> Calls]]
    BY <1>6, <2>1 DEF Query
  <2> QED
    BY <1>6, <2>2 DEF Query
<1>7. ASSUME NEW v \in View, NEW k \in Slot, Arrive(v, k) PROVE TypeOK'
  <2>1. Free \in Calls
    BY DEF Free, Calls, Filter
  <2>2. call[v][k] \in Calls
    OBVIOUS
  <2>3. [filter |-> call[v][k].filter, seen |-> call[v][k].seen] \in Answers
    BY <2>2 DEF Calls, Answers
  <2>4. call' \in [View -> [Slot -> Calls]] /\ data' \in [View -> Answers]
    BY <1>7, <2>1, <2>3 DEF Arrive
  <2> QED
    BY <1>7, <2>4 DEF Arrive
<1>8. ASSUME NEW v \in View, NEW k \in Slot, Fail(v, k) PROVE TypeOK'
  <2>1. Free \in Calls
    BY DEF Free, Calls, Filter
  <2>2. call' \in [View -> [Slot -> Calls]] /\ error' \in [View -> BOOLEAN]
    BY <1>8, <2>1 DEF Fail
  <2> QED
    BY <1>8, <2>2 DEF Fail
<1>9. CASE UNCHANGED vars
  BY <1>9 DEF vars
<1> QED
  BY <1>1, <1>2, <1>3, <1>4, <1>5, <1>6, <1>7, <1>8, <1>9 DEF Next, CallStep

\* Rows on their way to the screen keep their form, and no row is committed
\* before it is stamped.
THEOREM DashboardTyped == Spec => []TypeOK
<1> QED
  BY InitTyped, NextTyped, PTL DEF Spec

----------------------------------------------------------------------------
\* The days of the trend add up to the summary, the summaries of the clients
\* to that of all, and latencies are those of allowed requests
\* (database.go:229-307).
THEOREM ViewsAgreeAlways == Spec => []ViewsAgree
<1>1. TypeOK => ViewsAgree
  <2> SUFFICES ASSUME TypeOK PROVE ViewsAgree
    OBVIOUS
  <2> DEFINE since == now - Days * Day
  <2>1. ASSUME NEW f \in Filter
        PROVE  /\ Total(Trend(f), LAMBDA p : p.total) = Summary(f).total
               /\ Total(Trend(f), LAMBDA p : p.allowed) = Summary(f).allowed
               /\ Summary(f).total = Summary(f).allowed + Summary(f).blocked
               /\ Cardinality(Summary(f).timed) = Summary(f).allowed
    <3>1. Since(f, since) \subseteq committed
      BY DEF Since, Matching
    <3>2. Trend(f) = Grouped(Since(f, since), Day) /\ Summary(f) = Point(Since(f, since))
      BY DEF Trend, Summary
    <3> HIDE DEF since
    <3>3. Cardinality(Summary(f).timed) = Summary(f).allowed
      BY <3>2 DEF Point
    <3> QED
      BY <3>1, <3>2, <3>3, GroupedAddUp, PointAddsUp
  <2>2. Total([c \in Client |-> Summary(c)], LAMBDA p : p.total) = Summary(All).total
    <3> DEFINE S == Since(All, since)
               G == [c \in Client |-> Since(c, since)]
               n == [c \in Client |-> Cardinality(G[c])]
               T == [c \in Client |-> Summary(c)]
    <3>1. IsFiniteSet(S)
      BY RowsFinite DEF Since, Matching
    <3>2. /\ G \in [Client -> SUBSET S]
          /\ \A r \in S : \E c \in Client : r \in G[c]
          /\ \A a, c \in Client : G[a] \intersect G[c] # {} => a = c
      BY DashboardAssumption DEF Since, Matching, TypeOK
    <3>3. Cardinality(Marks(Client, n)) = Cardinality(S)
      <4> HIDE DEF S, G
      <4> QED
        BY <3>1, <3>2, SumOfGroups
    <3>4. Total(T, LAMBDA p : p.total) = Cardinality(UNION {{c} \X (1 .. T[c].total) : c \in DOMAIN T})
      BY DEF Total
    <3>5. DOMAIN T = Client /\ \A c \in Client : T[c].total = n[c]
      BY DEF Summary, Point
    <3>6. Summary(All).total = Cardinality(S)
      BY DEF Summary, Point
    <3> HIDE DEF T, n, S, G
    <3>7. UNION {{c} \X (1 .. T[c].total) : c \in DOMAIN T} = Marks(Client, n)
      BY <3>5 DEF Marks
    <3> QED
      BY <3>3, <3>4, <3>6, <3>7 DEF T
  <2> QED
    BY <2>1, <2>2 DEF ViewsAgree
<1> QED
  BY <1>1, DashboardTyped, PTL

LEMMA UnitBegins ==
  ASSUME NEW x \in Nat, NEW m \in Nat \ {0}
  PROVE  (x \div m) * m <= x
OBVIOUS

\* A minute that begins within the range of the live view is shown with all
\* its committed rows (database.go:309-320).
THEOREM MinutesAreWhole == Spec => []WholeMinutes
<1>1. TypeOK => WholeMinutes
  <2> SUFFICES ASSUME TypeOK, NEW f \in Filter, NEW b \in 0 .. MaxTime \div Minute,
                      b * Minute >= now - Minutes * Minute,
                      {r \in Matching(f) : StampOf(r) \div Minute = b} # {}
               PROVE  /\ b \in DOMAIN Live(f)
                      /\ Live(f)[b] = Point({r \in Matching(f) : StampOf(r) \div Minute = b})
    BY DEF WholeMinutes
  <2> DEFINE since == now - Minutes * Minute
             S == Since(f, since)
             minute(r) == StampOf(r) \div Minute
  <2>1. since \in Int /\ b * Minute \in Int /\ b * Minute >= since
    BY DashboardAssumption DEF TypeOK
  <2>2. ASSUME NEW r \in Matching(f), minute(r) = b PROVE r \in S
    <3>1. StampOf(r) \in Nat /\ Minute \in Nat \ {0}
      BY DashboardAssumption DEF Matching, TypeOK
    <3>2. b * Minute <= StampOf(r)
      BY <2>2, <3>1, UnitBegins
    <3> HIDE DEF since
    <3> QED
      BY <2>1, <3>1, <3>2 DEF Since
  <2>3. {r \in Matching(f) : minute(r) = b} = {r \in S : minute(r) = b}
    BY <2>2 DEF Since
  <2>4. Live(f) = [d \in {minute(r) : r \in S} |-> Point({r \in S : minute(r) = d})]
    BY DEF Live, Grouped
  <2> HIDE DEF S
  <2> QED
    BY <2>3, <2>4
<1> QED
  BY <1>1, DashboardTyped, PTL

=============================================================================
