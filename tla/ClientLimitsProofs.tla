------------------------- MODULE ClientLimitsProofs -------------------------
(***************************************************************************)
(* The limits an administrator has set stay in force, the seed rows come   *)
(* together, and the gateways find their tables, for any number of         *)
(* gateways, clients, upserts, lookups and crashes.                        *)
(***************************************************************************)
EXTENDS ClientLimits, TLAPS

----------------------------------------------------------------------------
(***************************************************************************)
(* The inductive invariant of upserts and lookups: what the administrator  *)
(* was told is in the table while nothing else is pending for the client.  *)
(***************************************************************************)
UpsertsFormed ==
  \A u \in Upsert :
    /\ upsert[u].stage = "sent" \/ u \in late =>
         upsert[u].client \in Client /\ upsert[u].limit \in Positive \cap Limit
    /\ u \in late => upsert[u].stage = "error"

LookupsFormed == \A l \in Lookup : lookup[l].stage = "asked" => lookup[l].client \in Client

Settled == \A c \in Client : told[c] # Unknown => Pending(c) = {} /\ rows[c] = told[c]

Expected ==
  \A l \in Lookup :
    lookup[l].stage = "asked" /\ lookup[l].expect # Unknown =>
      told[lookup[l].client] = lookup[l].expect

Formed == TypeOK /\ UpsertsFormed /\ LookupsFormed
Inv == Formed /\ Settled /\ Expected /\ AckedLimitUsed

LEMMA InitInv == Init => Inv
<1> SUFFICES ASSUME Init PROVE Inv
  OBVIOUS
<1>1. TypeOK
  <2>1. NoUpsert \in [stage : {"none", "sent", "ok", "error", "rejected"},
                     client : Client \union {Unknown}, limit : Limit \union {0}]
    BY DEF NoUpsert
  <2>2. NoLookup \in [stage : {"none", "asked", "done"}, client : Client \union {Unknown},
                     expect : Positive \union {Unknown}, used : Positive \union {Unknown}]
    BY DEF NoLookup
  <2>3. pgUp \in BOOLEAN /\ pgFailed \in BOOLEAN /\ crashes \in 0 .. MaxCrashes
    BY ClientLimitsAssumption DEF Init
  <2> QED
    BY <2>1, <2>2, <2>3 DEF Init, TypeOK, Stage
<1>2. UpsertsFormed /\ LookupsFormed /\ Expected /\ AckedLimitUsed
  BY DEF Init, UpsertsFormed, LookupsFormed, Expected, AckedLimitUsed, NoUpsert, NoLookup
<1>3. Settled
  BY DEF Init, Settled
<1> QED
  BY <1>1, <1>2, <1>3 DEF Inv, Formed

----------------------------------------------------------------------------
LEMMA StartupInv ==
  ASSUME Inv, NEW i \in Instance, Startup(i) \/ Crash(i)
  PROVE  Inv'
<1> USE DEF Inv, Formed
<1>1. UNCHANGED <<pgUp, pgFailed, admin, lookup>>
  BY DEF Startup, Crash, Start, PingFails, PingSucceeds, CreateLooks, CreateCommits, CreateFails,
         Count, Seed
<1>2. \/ rows' = rows
      \/ /\ \A c \in Seeded : rows[c] = NoRow
         /\ rows' = [c \in Client |-> IF c \in Seeded THEN SeedLimit ELSE rows[c]]
  BY DEF Startup, Crash, Start, PingFails, PingSucceeds, CreateLooks, CreateCommits, CreateFails,
         Count, Seed, WithSeeds, table
<1>3. \A c \in Client : rows'[c] = rows[c] \/ (rows[c] = NoRow /\ rows'[c] = SeedLimit)
  BY <1>2, ClientLimitsAssumption
<1>4. rows' \in [Client -> Positive \union {NoRow}]
  BY <1>2, ClientLimitsAssumption DEF TypeOK, Positive
<1>5. tables' \in BOOLEAN /\ reached' \subseteq Instance /\ crashes' \in 0 .. MaxCrashes
  <2>1. tables' \in {tables, TRUE} /\ reached' \in {reached, reached \ {i}, reached \union {i}}
    BY DEF Startup, Crash, Start, PingFails, PingSucceeds, CreateLooks, CreateCommits,
           CreateFails, Count, Seed, table
  <2>2. crashes' = crashes \/ (crashes < MaxCrashes /\ crashes' = crashes + 1)
    BY DEF Startup, Crash, Start, PingFails, PingSucceeds, CreateLooks, CreateCommits,
           CreateFails, Count, Seed
  <2>3. crashes' \in 0 .. MaxCrashes
    BY <2>2, ClientLimitsAssumption DEF TypeOK
  <2>4. tables' \in BOOLEAN
    BY <2>1 DEF TypeOK
  <2> QED
    BY <2>1, <2>3, <2>4 DEF TypeOK
<1>6. instance' \in [Instance -> Stage]
  BY DEF TypeOK, Stage, Go, Startup, Crash, Start, PingFails, PingSucceeds, CreateLooks,
         CreateCommits, CreateFails, Count, Seed
<1>7. TypeOK'
  BY <1>1, <1>4, <1>5, <1>6 DEF TypeOK, admin
<1>8. UpsertsFormed' /\ LookupsFormed' /\ Expected' /\ AckedLimitUsed'
  BY <1>1 DEF UpsertsFormed, LookupsFormed, Expected, AckedLimitUsed, admin
<1>9. Settled'
  <2>1. \A c \in Client : told[c] # Unknown => rows[c] # NoRow
    BY ClientLimitsAssumption DEF Settled, TypeOK, Positive
  <2> QED
    BY <1>1, <1>3, <2>1 DEF Settled, Pending, admin
<1> QED
  BY <1>7, <1>8, <1>9

\* An upsert that settles, or unsettles, its client.
LEMMA UpsertInv ==
  ASSUME Inv, NEW u \in Upsert, UpsertStep(u)
  PROVE  Inv'
<1> USE ClientLimitsAssumption DEF Inv, Formed
<1>1. ASSUME NEW c \in Client, NEW n \in Limit, SendUpsert(u, c, n)
      PROVE  Inv'
  <2>1. CASE Valid(n)
    <3>1. /\ upsert[u].stage = "none" /\ UNCHANGED <<pgUp, pgFailed, table, starts, late>>
          /\ upsert' = [upsert EXCEPT ![u] = [stage |-> "sent", client |-> c, limit |-> n]]
          /\ told' = [told EXCEPT ![c] = Unknown]
          /\ lookup' = Unsettled(c) /\ n \in Positive
      BY <1>1, <2>1 DEF SendUpsert, Valid, Positive
    <3>2. \A l \in Lookup :
            /\ lookup'[l].stage = lookup[l].stage /\ lookup'[l].client = lookup[l].client
            /\ lookup'[l].used = lookup[l].used
            /\ lookup'[l].expect = IF lookup[l].client = c THEN Unknown ELSE lookup[l].expect
      BY <3>1 DEF Unsettled, TypeOK
    <3>3. TypeOK'
      <4>1. lookup' \in [Lookup -> [stage : {"none", "asked", "done"},
                            client : Client \union {Unknown},
                            expect : Positive \union {Unknown},
                            used : Positive \union {Unknown}]]
        <5>1. \A l \in Lookup :
                [lookup[l] EXCEPT !.expect = Unknown] \in
                  [stage : {"none", "asked", "done"}, client : Client \union {Unknown},
                   expect : Positive \union {Unknown}, used : Positive \union {Unknown}]
          BY DEF TypeOK
        <5> QED
          BY <3>1, <5>1 DEF Unsettled, TypeOK
      <4> QED
        BY <3>1, <4>1 DEF TypeOK, table, starts
    <3>4. UpsertsFormed' /\ LookupsFormed'
      BY <3>1, <3>2 DEF UpsertsFormed, LookupsFormed, TypeOK
    <3>5. Settled'
      <4>1. \A d \in Client \ {c} : Pending(d)' = Pending(d) /\ told'[d] = told[d]
        BY <3>1 DEF Pending, UpsertsFormed, TypeOK
      <4> QED
        BY <3>1, <4>1 DEF Settled, TypeOK, table
    <3>6. Expected' /\ AckedLimitUsed'
      BY <3>1, <3>2 DEF Expected, AckedLimitUsed, LookupsFormed, TypeOK
    <3> QED
      BY <3>3, <3>4, <3>5, <3>6
  <2>2. CASE ~ Valid(n)
    <3>1. /\ upsert[u].stage = "none"
          /\ UNCHANGED <<pgUp, pgFailed, table, starts, late, told, lookup>>
          /\ upsert' = [upsert EXCEPT ![u] = [stage |-> "rejected", client |-> c, limit |-> n]]
      BY <1>1, <2>2 DEF SendUpsert
    <3>2. TypeOK'
      BY <3>1 DEF TypeOK, table, starts
    <3>3. UpsertsFormed' /\ LookupsFormed' /\ Expected' /\ AckedLimitUsed'
      BY <3>1 DEF UpsertsFormed, LookupsFormed, Expected, AckedLimitUsed, TypeOK
    <3>4. \A d \in Client : Pending(d)' = Pending(d)
      BY <3>1 DEF Pending, UpsertsFormed, TypeOK
    <3> QED
      BY <3>1, <3>2, <3>3, <3>4 DEF Settled, table
  <2> QED
    BY <2>1, <2>2
<1>2. CASE UpsertRuns(u)
  <2> DEFINE c == upsert[u].client
  <2>1. /\ upsert[u].stage = "sent" /\ c \in Client /\ upsert[u].limit \in Positive /\ u \notin late
        /\ upsert' = [upsert EXCEPT ![u].stage = "ok"]
        /\ rows' = [rows EXCEPT ![c] = upsert[u].limit]
        /\ UNCHANGED <<pgUp, pgFailed, tables, starts, late, lookup>>
    BY <1>2 DEF UpsertRuns, Answered, UpsertsFormed
  <2>2. told[c] = Unknown
    BY <2>1 DEF Settled, Pending
  <2>3. told' = [told EXCEPT ![c] = IF Pending(c) = {u} THEN upsert[u].limit ELSE Unknown]
    BY <1>2 DEF UpsertRuns
  <2>4. TypeOK'
    BY <2>1, <2>3 DEF TypeOK, starts
  <2>5. UpsertsFormed' /\ LookupsFormed'
    BY <2>1 DEF UpsertsFormed, LookupsFormed, TypeOK
  <2>6. Settled'
    <3>1. \A d \in Client : Pending(d)' = Pending(d) \ {u}
      BY <2>1 DEF Pending, TypeOK
    <3>2. \A d \in Client \ {c} : told'[d] = told[d] /\ rows'[d] = rows[d]
      BY <2>1, <2>3 DEF TypeOK
    <3>3. told'[c] # Unknown => Pending(c) = {u} /\ rows'[c] = told'[c]
      BY <2>1, <2>3 DEF TypeOK
    <3> QED
      BY <3>1, <3>2, <3>3 DEF Settled
  <2>7. Expected' /\ AckedLimitUsed'
    BY <2>1, <2>2, <2>3 DEF Expected, AckedLimitUsed, LookupsFormed, TypeOK
  <2> QED
    BY <2>4, <2>5, <2>6, <2>7
<1>3. CASE UpsertRefused(u) \/ UpsertGivenUp(u)
  <2>1. /\ upsert[u].stage = "sent" /\ upsert' = [upsert EXCEPT ![u].stage = "error"]
        /\ late' \in {late, late \union {u}}
        /\ UNCHANGED <<pgUp, pgFailed, table, starts, told, lookup>>
    BY <1>3 DEF UpsertRefused, UpsertGivenUp, Answered
  <2>2. TypeOK'
    BY <2>1 DEF TypeOK, table, starts
  <2>3. UpsertsFormed' /\ LookupsFormed' /\ Expected' /\ AckedLimitUsed'
    BY <2>1 DEF UpsertsFormed, LookupsFormed, Expected, AckedLimitUsed, TypeOK
  <2>4. \A d \in Client : Pending(d)' \subseteq Pending(d)
    BY <2>1 DEF Pending, TypeOK
  <2> QED
    BY <2>1, <2>2, <2>3, <2>4 DEF Settled, table
<1>4. CASE RunsLate(u)
  <2> DEFINE c == upsert[u].client
  <2>1. /\ u \in late /\ c \in Client /\ upsert[u].limit \in Positive
        /\ late' = late \ {u} /\ rows' = [rows EXCEPT ![c] = upsert[u].limit]
        /\ UNCHANGED <<pgUp, pgFailed, tables, starts, upsert, told, lookup>>
    BY <1>4 DEF RunsLate, UpsertsFormed
  <2>2. told[c] = Unknown
    BY <2>1 DEF Settled, Pending
  <2>3. TypeOK'
    BY <2>1 DEF TypeOK, starts
  <2>4. UpsertsFormed' /\ LookupsFormed' /\ Expected' /\ AckedLimitUsed'
    BY <2>1 DEF UpsertsFormed, LookupsFormed, Expected, AckedLimitUsed
  <2>5. \A d \in Client \ {c} : rows'[d] = rows[d]
    BY <2>1 DEF TypeOK
  <2>6. \A d \in Client : Pending(d)' \subseteq Pending(d)
    BY <2>1 DEF Pending
  <2> QED
    BY <2>1, <2>2, <2>3, <2>4, <2>5, <2>6 DEF Settled
<1> QED
  BY <1>1, <1>2, <1>3, <1>4 DEF UpsertStep

LEMMA LookupInv ==
  ASSUME Inv, NEW l \in Lookup, LookupStep(l)
  PROVE  Inv'
<1> USE ClientLimitsAssumption DEF Inv, Formed
<1>1. UNCHANGED <<pgUp, pgFailed, table, starts, admin>>
  BY DEF LookupStep, StartLookup, LookupReads, LookupFails, Uses
<1>2. UpsertsFormed' /\ Settled'
  BY <1>1 DEF UpsertsFormed, Settled, Pending, table, admin
<1>3. ASSUME NEW c \in Client, StartLookup(l, c)
      PROVE  TypeOK' /\ LookupsFormed' /\ Expected' /\ AckedLimitUsed'
  <2>1. \E e \in {Unknown, told[c]} :
          lookup' = [lookup EXCEPT ![l] =
                       [stage |-> "asked", client |-> c, used |-> Unknown, expect |-> e]]
    BY <1>3 DEF StartLookup
  <2>2. told[c] \in Positive \union {Unknown}
    BY DEF TypeOK
  <2>3. TypeOK'
    BY <1>1, <2>1, <2>2 DEF TypeOK, table, starts, admin
  <2>4. LookupsFormed' /\ Expected' /\ AckedLimitUsed'
    BY <1>1, <2>1 DEF LookupsFormed, Expected, AckedLimitUsed, TypeOK, admin
  <2> QED
    BY <2>3, <2>4
<1>4. ASSUME NEW n \in Positive, Uses(l, n),
             lookup[l].expect = Unknown \/ n \in {lookup[l].expect, Default}
      PROVE  TypeOK' /\ LookupsFormed' /\ Expected' /\ AckedLimitUsed'
  <2>1. /\ lookup[l].stage = "asked"
        /\ lookup' = [lookup EXCEPT ![l].stage = "done", ![l].used = n]
    BY <1>4 DEF Uses
  <2>2. TypeOK'
    BY <1>1, <2>1 DEF TypeOK, table, starts, admin
  <2>3. LookupsFormed' /\ Expected' /\ AckedLimitUsed'
    BY <1>1, <1>4, <2>1 DEF LookupsFormed, Expected, AckedLimitUsed, TypeOK, admin
  <2> QED
    BY <2>2, <2>3
<1>5. CASE LookupReads(l)
  <2> DEFINE c == lookup[l].client
             n == IF rows[c] = NoRow THEN Fallback ELSE rows[c]
  <2>1. Uses(l, n) /\ lookup[l].stage = "asked" /\ c \in Client
    BY <1>5 DEF LookupReads, Uses, LookupsFormed
  <2>2. n \in Positive
    BY <2>1 DEF TypeOK, Positive
  <2>3. lookup[l].expect # Unknown => rows[c] = lookup[l].expect /\ rows[c] # NoRow
    BY <2>1 DEF Expected, Settled, TypeOK, Positive
  <2> QED
    BY <1>2, <1>4, <2>1, <2>2, <2>3
<1>6. CASE LookupFails(l)
  BY <1>2, <1>4, <1>6 DEF LookupFails, Positive
<1> QED
  BY <1>2, <1>3, <1>5, <1>6 DEF LookupStep

LEMMA NextInv ==
  ASSUME Inv, [Next]_vars
  PROVE  Inv'
<1>1. CASE UNCHANGED vars
  BY <1>1 DEF vars, table, starts, admin, Inv, Formed, TypeOK, UpsertsFormed, LookupsFormed, Settled,
              Pending, Expected, AckedLimitUsed
<1>2. CASE PGFlips
  BY <1>2 DEF PGFlips, table, starts, admin, Inv, Formed, TypeOK, UpsertsFormed, LookupsFormed,
              Settled, Pending, Expected, AckedLimitUsed
<1> QED
  BY <1>1, <1>2, StartupInv, UpsertInv, LookupInv DEF Next

LEMMA InvHolds == Spec => []Inv
BY InitInv, NextInv, PTL DEF Spec

(***************************************************************************)
(* Every variable has its type; in particular no row holds a limit or a    *)
(* window of 0, by which createLocalEntry would divide (limiter.go:173).   *)
(***************************************************************************)
THEOREM LimitsTyped == Spec => []TypeOK
<1>1. Inv => TypeOK
  BY DEF Inv, Formed
<1> QED
  BY <1>1, InvHolds, PTL

(***************************************************************************)
(* A request goes by the limit an administrator was told is set, whichever *)
(* gateway it meets and whatever starts, is seeded or crashes meanwhile    *)
(* (handlers.go:195-200, database.go:116-123, 216-226).                    *)
(***************************************************************************)
THEOREM ToldLimitsHold == Spec => []AckedLimitUsed
<1>1. Inv => AckedLimitUsed
  BY DEF Inv
<1> QED
  BY <1>1, InvHolds, PTL

----------------------------------------------------------------------------
(***************************************************************************)
(* The seed rows.                                                          *)
(***************************************************************************)
LEMMA NextSeeds ==
  ASSUME SeedLimit \notin Limit, Inv, SeedsTogether, [Next]_vars
  PROVE  SeedsTogether'
<1> USE ClientLimitsAssumption DEF SeedsTogether
<1>1. ASSUME rows' = rows
      PROVE  SeedsTogether'
  BY <1>1
<1>2. ASSUME rows' = [c \in Client |-> IF c \in Seeded THEN SeedLimit ELSE rows[c]]
      PROVE  SeedsTogether'
  BY <1>2
<1>3. ASSUME NEW u \in Upsert, u \in late \/ upsert[u].stage = "sent",
             rows' = [rows EXCEPT ![upsert[u].client] = upsert[u].limit]
      PROVE  SeedsTogether'
  <2>1. upsert[u].client \in Client /\ upsert[u].limit \notin {SeedLimit, NoRow}
    BY <1>3 DEF Inv, Formed, UpsertsFormed, Positive
  <2> QED
    BY <1>3, <2>1 DEF Inv, Formed, TypeOK
<1>4. ASSUME NEW i \in Instance, Startup(i) \/ Crash(i)
      PROVE  SeedsTogether'
  BY <1>1, <1>2, <1>4
     DEF Startup, Crash, Start, PingFails, PingSucceeds, CreateLooks, CreateCommits, CreateFails,
         Count, Seed, WithSeeds, table
<1>5. ASSUME NEW u \in Upsert, UpsertStep(u)
      PROVE  SeedsTogether'
  BY <1>1, <1>3, <1>5
     DEF UpsertStep, SendUpsert, UpsertRuns, UpsertRefused, UpsertGivenUp, RunsLate, Answered, table
<1>6. ASSUME NEW l \in Lookup, LookupStep(l)
      PROVE  SeedsTogether'
  BY <1>1, <1>6 DEF LookupStep, StartLookup, LookupReads, LookupFails, Uses, table
<1> QED
  BY <1>1, <1>4, <1>5, <1>6 DEF Next, PGFlips, vars, table

(***************************************************************************)
(* The seed rows come together or not at all; a row with the limit of the  *)
(* seeds is one of theirs when no upsert asks for that limit               *)
(* (database.go:115-123).                                                  *)
(***************************************************************************)
THEOREM SeedsComeTogether ==
  ASSUME SeedLimit \notin Limit
  PROVE  Spec => []SeedsTogether
<1>1. Init => SeedsTogether
  BY ClientLimitsAssumption DEF Init, SeedsTogether
<1>2. Inv /\ SeedsTogether /\ [Next]_vars => SeedsTogether'
  BY NextSeeds
<1> QED
  BY <1>1, <1>2, InvHolds, PTL DEF Spec

----------------------------------------------------------------------------
(***************************************************************************)
(* The tables.                                                             *)
(***************************************************************************)
\* A gateway that pings has not yet found PostgreSQL up.
TablesInv ==
  /\ \A i \in Instance : instance[i] = "ping" => i \notin reached
  /\ ServesWithTables

LEMMA InitTables == Init => TablesInv
BY DEF Init, TablesInv, ServesWithTables

LEMMA NextTables ==
  ASSUME Formed, TablesInv, [Next]_vars
  PROVE  TablesInv'
<1> USE DEF TablesInv, ServesWithTables, Formed, TypeOK, Go
<1>1. ASSUME UNCHANGED <<tables, instance, reached>>
      PROVE  TablesInv'
  BY <1>1
<1>2. ASSUME NEW i \in Instance, Start(i) \/ PingFails(i) \/ PingSucceeds(i)
      PROVE  TablesInv'
  BY <1>2 DEF Start, PingFails, PingSucceeds, table
<1>3. ASSUME NEW i \in Instance, CreateLooks(i) \/ CreateCommits(i) \/ CreateFails(i)
      PROVE  TablesInv'
  BY <1>3 DEF CreateLooks, CreateCommits, CreateFails, table
<1>4. ASSUME NEW i \in Instance, Count(i) \/ Seed(i) \/ Crash(i)
      PROVE  TablesInv'
  BY <1>4 DEF Count, Seed, Crash, table
<1>5. ASSUME NEW u \in Upsert, UpsertStep(u)
      PROVE  TablesInv'
  BY <1>1, <1>5
     DEF UpsertStep, SendUpsert, UpsertRuns, UpsertRefused, UpsertGivenUp, RunsLate, table, starts
<1>6. ASSUME NEW l \in Lookup, LookupStep(l)
      PROVE  TablesInv'
  BY <1>1, <1>6 DEF LookupStep, StartLookup, LookupReads, LookupFails, Uses, table, starts
<1> QED
  BY <1>1, <1>2, <1>3, <1>4, <1>5, <1>6 DEF Next, Startup, PGFlips, vars, table, starts

(***************************************************************************)
(* A gateway that reached PostgreSQL when it started serves only when the  *)
(* tables are there (database.go:82-112).                                  *)
(***************************************************************************)
THEOREM TablesBeforeService == Spec => []ServesWithTables
<1>1. Inv => Formed
  BY DEF Inv
<1>2. TablesInv => ServesWithTables
  BY DEF TablesInv
<1> QED
  BY <1>1, <1>2, InvHolds, InitTables, NextTables, PTL DEF Spec

----------------------------------------------------------------------------
(***************************************************************************)
(* While PostgreSQL has always been up, only a gateway that lost the race  *)
(* for the tables has ended; the one that won it cannot lose it later.     *)
(***************************************************************************)
RaceInv ==
  ~ pgFailed =>
    /\ pgUp
    /\ tables => \E i \in Instance : instance[i] \notin {"creating", "fatal"}
    /\ ~ tables => \A i \in Instance : instance[i] # "fatal"

LEMMA NextRace ==
  ASSUME Formed, RaceInv, [Next]_vars
  PROVE  RaceInv'
<1> USE DEF Formed, TypeOK, Go
<1>1. ASSUME UNCHANGED <<pgUp, pgFailed, tables, instance>>
      PROVE  RaceInv'
  BY <1>1 DEF RaceInv
<1>2. CASE PGFlips
  BY <1>2 DEF PGFlips, RaceInv
<1>3. ASSUME NEW i \in Instance, CreateCommits(i)
      PROVE  RaceInv'
  <2>1. /\ instance[i] = "creating" /\ tables' = TRUE /\ UNCHANGED <<pgUp, pgFailed>>
        /\ instance' = [instance EXCEPT ![i] = IF tables THEN "fatal" ELSE "count"]
    BY <1>3 DEF CreateCommits
  <2> QED
    BY <2>1 DEF RaceInv
<1>4. ASSUME NEW i \in Instance, CreateLooks(i) \/ CreateFails(i)
      PROVE  RaceInv'
  BY <1>4 DEF CreateLooks, CreateFails, table, RaceInv
<1>5. ASSUME NEW i \in Instance,
             Start(i) \/ PingFails(i) \/ PingSucceeds(i) \/ Count(i) \/ Seed(i) \/ Crash(i)
      PROVE  RaceInv'
  <2>1. /\ UNCHANGED <<pgUp, pgFailed, tables>>
        /\ \E stage \in Stage \ {"creating", "fatal"} : instance' = [instance EXCEPT ![i] = stage]
    BY <1>5 DEF Start, PingFails, PingSucceeds, Count, Seed, Crash, table, Stage
  <2> QED
    BY <2>1 DEF RaceInv
<1>6. ASSUME NEW u \in Upsert, UpsertStep(u)
      PROVE  RaceInv'
  BY <1>1, <1>6
     DEF UpsertStep, SendUpsert, UpsertRuns, UpsertRefused, UpsertGivenUp, RunsLate, table, starts
<1>7. ASSUME NEW l \in Lookup, LookupStep(l)
      PROVE  RaceInv'
  BY <1>1, <1>7 DEF LookupStep, StartLookup, LookupReads, LookupFails, Uses, table, starts
<1> QED
  BY <1>1, <1>2, <1>3, <1>4, <1>5, <1>6, <1>7 DEF Next, Startup, vars, table, starts

(***************************************************************************)
(* While PostgreSQL is up, the gateways do not all end in log.Fatalf       *)
(* (database.go:110-112, main.go:33-35).                                   *)
(***************************************************************************)
THEOREM NotAllFatal ==
  ASSUME Instance # {}
  PROVE  Spec => []SomeGatewayStarts
<1>1. Init => RaceInv
  BY DEF Init, RaceInv
<1>2. Inv => Formed
  BY DEF Inv
<1>3. RaceInv => SomeGatewayStarts
  BY DEF RaceInv, SomeGatewayStarts
<1> QED
  BY <1>1, <1>2, <1>3, InvHolds, NextRace, PTL DEF Spec

=============================================================================
