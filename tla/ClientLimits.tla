---------------------------- MODULE ClientLimits ----------------------------
(***************************************************************************)
(* The table client_limits and everything that touches it: the migrations  *)
(* each gateway runs when it starts (database.go:25-68, 81-128), the       *)
(* upserts of the admin API (handlers.go:166-201) and the lookups of the   *)
(* gateways (database.go:214-227, proxy.go:68-73).                         *)
(*                                                                         *)
(* PostgreSQL is reachable or not; what it has committed it keeps.  A      *)
(* statement whose answer does not arrive may still run, then or later.    *)
(* A limit stands for the pair of limit and window.                        *)
(***************************************************************************)
EXTENDS Integers, FiniteSets

CONSTANTS Instance,    \* the gateways
          Client,
          Seeded,      \* the clients of the seed rows
          Upsert,      \* the upserts made
          Lookup,      \* the lookups made
          Limit,       \* the limits in the bodies of upserts, valid or not
          SeedLimit,   \* the limit of a seed row
          Fallback,    \* 60/60, for a client without a row
          Default,     \* DefaultRateLimit, DefaultWindowSecs
          NoRow, Unknown,
          MaxCrashes

ASSUME ClientLimitsAssumption ==
  /\ Seeded \subseteq Client
  /\ Limit \subseteq Int
  /\ SeedLimit \in Nat \ {0} /\ Fallback \in Nat \ {0} /\ Default \in Nat \ {0}
  /\ NoRow \notin Int /\ Unknown \notin Int
  /\ MaxCrashes \in Nat

VARIABLES pgUp,      \* does PostgreSQL answer?
          tables,    \* has it the tables?
          rows,      \* client_limits
          instance,  \* how far each gateway is
          reached,   \* the gateways whose migrations found PostgreSQL up
          crashes,
          pgFailed,  \* history: has PostgreSQL ever been down?
          upsert,    \* the upserts
          late,      \* the upserts given up whose statement may still run
          told,      \* history: the limit the last upsert was told is set
          lookup     \* the lookups

table   == <<tables, rows>>
starts  == <<instance, reached, crashes>>
admin   == <<upsert, late, told>>
vars    == <<pgUp, pgFailed, table, starts, admin, lookup>>

Positive == Nat \ {0}
NoUpsert == [stage |-> "none", client |-> Unknown, limit |-> 0]
NoLookup == [stage |-> "none", client |-> Unknown, expect |-> Unknown, used |-> Unknown]

Init ==
  /\ pgUp \in BOOLEAN /\ pgFailed = ~ pgUp
  /\ tables = FALSE
  /\ rows = [c \in Client |-> NoRow]
  /\ instance = [i \in Instance |-> "stopped"]
  /\ reached = {} /\ crashes = 0
  /\ upsert = [u \in Upsert |-> NoUpsert]
  /\ late = {}
  /\ told = [c \in Client |-> Unknown]
  /\ lookup = [l \in Lookup |-> NoLookup]

PGFlips ==
  /\ pgUp' = ~ pgUp
  /\ pgFailed' = TRUE
  /\ UNCHANGED <<table, starts, admin, lookup>>

----------------------------------------------------------------------------
(***************************************************************************)
(* Init and runMigrations.                                                 *)
(***************************************************************************)
Go(i, from, to) == instance[i] = from /\ instance' = [instance EXCEPT ![i] = to]

\* The pools are opened; a server that does not answer is only warned about.
Start(i) ==
  /\ Go(i, "stopped", "ping")
  /\ reached' = reached \ {i}
  /\ UNCHANGED <<pgUp, pgFailed, table, crashes, admin, lookup>>

\* The migrations are skipped when PostgreSQL does not answer.
PingFails(i) ==
  /\ ~ pgUp
  /\ Go(i, "ping", "serving")
  /\ UNCHANGED <<pgUp, pgFailed, table, reached, crashes, admin, lookup>>

PingSucceeds(i) ==
  /\ pgUp
  /\ Go(i, "ping", "create")
  /\ reached' = reached \union {i}
  /\ UNCHANGED <<pgUp, pgFailed, table, crashes, admin, lookup>>

\* Mutant: the tables are created whether or not they exist.
CreateLooksNot(i) ==
  /\ pgUp
  /\ Go(i, "create", "creating")
  /\ UNCHANGED <<pgUp, pgFailed, table, reached, crashes, admin, lookup>>

\* IF NOT EXISTS looks first ...
CreateLooks(i) ==
  /\ pgUp
  /\ Go(i, "create", IF tables THEN "count" ELSE "creating")
  /\ UNCHANGED <<pgUp, pgFailed, table, reached, crashes, admin, lookup>>

\* ... and creates afterwards: PostgreSQL refuses the slower of two that both
\* found nothing, and main ends in log.Fatalf.
CreateCommits(i) ==
  /\ pgUp
  /\ Go(i, "creating", IF tables THEN "fatal" ELSE "count")
  /\ tables' = TRUE
  /\ UNCHANGED <<pgUp, pgFailed, rows, reached, crashes, admin, lookup>>

\* Mutant: the error of the statement is ignored.
CreateErrorIgnored(i) ==
  /\ ~ pgUp
  /\ instance[i] \in {"create", "creating"}
  /\ instance' = [instance EXCEPT ![i] = "count"]
  /\ UNCHANGED <<pgUp, pgFailed, table, reached, crashes, admin, lookup>>

CreateFails(i) ==
  /\ ~ pgUp
  /\ instance[i] \in {"create", "creating"}
  /\ instance' = [instance EXCEPT ![i] = "fatal"]
  /\ UNCHANGED <<pgUp, pgFailed, table, reached, crashes, admin, lookup>>

Empty == \A c \in Client : rows[c] = NoRow

\* Only an empty table is seeded; a count that fails seeds nothing.
Count(i) ==
  /\ Go(i, "count", IF pgUp /\ Empty THEN "seed" ELSE "serving")
  /\ UNCHANGED <<pgUp, pgFailed, table, reached, crashes, admin, lookup>>

\* Mutant: the seed rows replace what is there.
SeedsReplacing == [c \in Client |-> IF c \in Seeded THEN SeedLimit ELSE rows[c]]

\* One INSERT for all seed rows: a row that is there fails the whole of it.
WithSeeds ==
  IF \E c \in Seeded : rows[c] # NoRow
  THEN rows
  ELSE [c \in Client |-> IF c \in Seeded THEN SeedLimit ELSE rows[c]]

\* Mutant: one INSERT per seed row, given up at the first error.
SeedRowByRow(i) ==
  /\ Go(i, "seed", "serving")
  /\ \E S \in SUBSET {c \in Seeded : pgUp /\ rows[c] = NoRow} :
       rows' = [c \in Client |-> IF c \in S THEN SeedLimit ELSE rows[c]]
  /\ UNCHANGED <<pgUp, pgFailed, tables, reached, crashes, admin, lookup>>

\* Its error is ignored.
Seed(i) ==
  /\ Go(i, "seed", "serving")
  /\ rows' = IF pgUp THEN WithSeeds ELSE rows
  /\ UNCHANGED <<pgUp, pgFailed, tables, reached, crashes, admin, lookup>>

\* A gateway that serves, starts or has ended is started again.
Crash(i) ==
  /\ crashes < MaxCrashes
  /\ instance[i] # "stopped"
  /\ instance' = [instance EXCEPT ![i] = "stopped"]
  /\ crashes' = crashes + 1
  /\ UNCHANGED <<pgUp, pgFailed, table, reached, admin, lookup>>

Serving == \E i \in Instance : instance[i] = "serving"

----------------------------------------------------------------------------
(***************************************************************************)
(* UpsertClient.                                                           *)
(***************************************************************************)
\* Mutant: only negative limits are refused.
ValidOrZero(n) == n >= 0

Valid(n) == n > 0

Pending(c) == {u \in Upsert : upsert[u].client = c /\ (upsert[u].stage = "sent" \/ u \in late)}

\* What lookups under way may expect when c changes.
Unsettled(c) ==
  [l \in Lookup |-> IF lookup[l].client = c THEN [lookup[l] EXCEPT !.expect = Unknown]
                                            ELSE lookup[l]]

SendUpsert(u, c, n) ==
  /\ Serving
  /\ upsert[u].stage = "none"
  /\ \/ /\ Valid(n)
        /\ upsert' = [upsert EXCEPT ![u] = [stage |-> "sent", client |-> c, limit |-> n]]
        /\ told' = [told EXCEPT ![c] = Unknown]
        /\ lookup' = Unsettled(c)
     \/ /\ ~ Valid(n)
        /\ upsert' = [upsert EXCEPT ![u] = [stage |-> "rejected", client |-> c, limit |-> n]]
        /\ UNCHANGED <<told, lookup>>
  /\ UNCHANGED <<pgUp, pgFailed, table, starts, late>>

Answered(u, stage) ==
  upsert[u].stage = "sent" /\ upsert' = [upsert EXCEPT ![u].stage = stage]

\* The row is inserted or replaced, and the administrator is told.
UpsertRuns(u) ==
  LET c == upsert[u].client IN
  /\ pgUp /\ tables
  /\ Answered(u, "ok")
  /\ rows' = [rows EXCEPT ![c] = upsert[u].limit]
  /\ told' = [told EXCEPT ![c] = IF Pending(c) = {u} THEN upsert[u].limit ELSE Unknown]
  /\ UNCHANGED <<pgUp, pgFailed, tables, starts, late, lookup>>

\* There is no table.
UpsertRefused(u) ==
  /\ pgUp /\ ~ tables
  /\ Answered(u, "error")
  /\ UNCHANGED <<pgUp, pgFailed, table, starts, late, told, lookup>>

\* No answer within 3 s: the administrator is told of a failure.
UpsertGivenUp(u) ==
  /\ Answered(u, "error")
  /\ late' = late \union {u}
  /\ UNCHANGED <<pgUp, pgFailed, table, starts, told, lookup>>

RunsLate(u) ==
  /\ pgUp /\ tables
  /\ u \in late
  /\ late' = late \ {u}
  /\ rows' = [rows EXCEPT ![upsert[u].client] = upsert[u].limit]
  /\ UNCHANGED <<pgUp, pgFailed, tables, starts, upsert, told, lookup>>

----------------------------------------------------------------------------
(***************************************************************************)
(* GetClientLimit and the handler's defaults.                              *)
(***************************************************************************)
StartLookup(l, c) ==
  /\ Serving
  /\ lookup[l].stage = "none"
  /\ lookup' = [lookup EXCEPT ![l] =
                  [stage |-> "asked", client |-> c, used |-> Unknown,
                   expect |-> IF Pending(c) = {} THEN told[c] ELSE Unknown]]
  /\ UNCHANGED <<pgUp, pgFailed, table, starts, admin>>

Uses(l, n) ==
  /\ lookup[l].stage = "asked"
  /\ lookup' = [lookup EXCEPT ![l].stage = "done", ![l].used = n]
  /\ UNCHANGED <<pgUp, pgFailed, table, starts, admin>>

LookupReads(l) ==
  /\ pgUp /\ tables
  /\ Uses(l, IF rows[lookup[l].client] = NoRow THEN Fallback ELSE rows[lookup[l].client])

\* No answer, no table or no time.
LookupFails(l) == Uses(l, Default)

----------------------------------------------------------------------------
Startup(i) ==
  \/ Start(i) \/ PingFails(i) \/ PingSucceeds(i)
  \/ CreateLooks(i) \/ CreateCommits(i) \/ CreateFails(i)
  \/ Count(i) \/ Seed(i)

UpsertStep(u) ==
  \/ \E c \in Client, n \in Limit : SendUpsert(u, c, n)
  \/ UpsertRuns(u) \/ UpsertRefused(u) \/ UpsertGivenUp(u) \/ RunsLate(u)

LookupStep(l) ==
  \/ \E c \in Client : StartLookup(l, c)
  \/ LookupReads(l) \/ LookupFails(l)

Next ==
  \/ PGFlips
  \/ \E i \in Instance : Startup(i) \/ Crash(i)
  \/ \E u \in Upsert : UpsertStep(u)
  \/ \E l \in Lookup : LookupStep(l)

Spec == Init /\ [][Next]_vars

----------------------------------------------------------------------------
Stage == {"stopped", "ping", "create", "creating", "count", "seed", "serving", "fatal"}

\* No row has a limit or a window of 0: createLocalEntry divides by the window
\* (limiter.go:173).
TypeOK ==
  /\ pgUp \in BOOLEAN /\ tables \in BOOLEAN /\ pgFailed \in BOOLEAN
  /\ rows \in [Client -> Positive \union {NoRow}]
  /\ instance \in [Instance -> Stage]
  /\ reached \subseteq Instance
  /\ crashes \in 0 .. MaxCrashes
  /\ upsert \in [Upsert -> [stage : {"none", "sent", "ok", "error", "rejected"},
                            client : Client \union {Unknown}, limit : Limit \union {0}]]
  /\ late \subseteq Upsert
  /\ told \in [Client -> Positive \union {Unknown}]
  /\ lookup \in [Lookup -> [stage : {"none", "asked", "done"},
                            client : Client \union {Unknown},
                            expect : Positive \union {Unknown},
                            used : Positive \union {Unknown}]]

(***************************************************************************)
(* A request that starts after an administrator was told of a new limit,   *)
(* at whatever gateway, goes by that limit, or by the defaults when        *)
(* PostgreSQL does not answer it: no start of a gateway and no seeding     *)
(* puts another one in its place.  It need not when another upsert of the  *)
(* client is under way, or was given up and may still run                  *)
(* (handlers.go:195-200, database.go:116-123, 216-226).                    *)
(***************************************************************************)
AckedLimitUsed ==
  \A l \in Lookup :
    lookup[l].stage = "done" =>
      \/ lookup[l].expect = Unknown
      \/ lookup[l].used \in {lookup[l].expect, Default}

(***************************************************************************)
(* The seed rows come together or not at all, however many gateways count  *)
(* an empty table before the first of them seeds it and whatever upserts   *)
(* come in between (database.go:115-123).                                  *)
(***************************************************************************)
SeedsTogether ==
  (\E c \in Client : rows[c] = SeedLimit) => \A c \in Seeded : rows[c] # NoRow

(***************************************************************************)
(* A gateway that reached PostgreSQL when it started serves only when the  *)
(* tables are there (database.go:82-112); one that did not serves without, *)
(* and never creates them.                                                 *)
(***************************************************************************)
ServesWithTables ==
  \A i \in reached : instance[i] \in {"count", "seed", "serving"} => tables

(***************************************************************************)
(* While PostgreSQL is up, the gateways do not all end in log.Fatalf,      *)
(* started together or again: one that does lost the race for the tables   *)
(* to one that did not (database.go:110-112, main.go:33-35).               *)
(***************************************************************************)
SomeGatewayStarts ==
  ~ pgFailed => \E i \in Instance : instance[i] # "fatal"

=============================================================================
