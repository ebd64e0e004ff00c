----------------------------- MODULE Dashboard -----------------------------
(***************************************************************************)
(* From the table request_logs to the screen: the analytics queries        *)
(* (database.go:229-350), the handlers that run them (handlers.go:76-125)  *)
(* and the hook that fetches their answers (hooks.js:7-26, App.jsx:36-63). *)
(*                                                                         *)
(* An answer under way is represented by its filter and the committed rows *)
(* that match it; the cut by time is left to the operators that model the  *)
(* queries.  Entries are stamped when the request is decided and committed *)
(* in any order, when the logger flushes them.                             *)
(***************************************************************************)
EXTENDS Integers, FiniteSets

CONSTANTS Row,                 \* the log entries
          Client, ClientOf(_), \* whose they are
          IsAllowed(_), StampOf(_),
          All,                 \* the filter that names no client
          View,                \* the hooks on the page
          Slot,                \* the calls of a hook that may be under way at once
          Minute, Minutes,     \* the ticks of a minute, the minutes asked for
          Day, Days,           \* the ticks of a day, the days asked for
          MaxTime

ASSUME DashboardAssumption ==
  /\ IsFiniteSet(Row) /\ IsFiniteSet(Client)
  /\ \A r \in Row : ClientOf(r) \in Client /\ IsAllowed(r) \in BOOLEAN /\ StampOf(r) \in Nat
  /\ All \notin Client
  /\ View \subseteq {"summary", "trend", "live"}
  /\ Minute \in Nat \ {0} /\ Minutes \in Nat \ {0}
  /\ Day \in Nat \ {0} /\ Days \in Nat \ {0}
  /\ MaxTime \in Nat

VARIABLES now,       \* the clock
          committed, \* the rows of request_logs
          serverUp,  \* does the admin API answer?
          filter,    \* selectedClient
          call,      \* the calls of each hook
          data,      \* what each hook shows
          error      \* does it show an error?

store == <<now, committed>>
page  == <<filter, call, data, error>>
vars  == <<store, serverUp, page>>

Filter == Client \union {All}

----------------------------------------------------------------------------
(***************************************************************************)
(* The queries.                                                            *)
(***************************************************************************)
Matching(f) == {r \in committed : f = All \/ ClientOf(r) = f}

\* Mutant: a row as old as the range is left out.
LaterThan(f, since) == {r \in Matching(f) : StampOf(r) > since}

Since(f, since) == {r \in Matching(f) : StampOf(r) >= since}

\* Mutant: latencies are taken from every row.
PointOfAll(S) ==
  [total   |-> Cardinality(S),
   allowed |-> Cardinality({r \in S : IsAllowed(r)}),
   blocked |-> Cardinality({r \in S : ~ IsAllowed(r)}),
   timed   |-> S]

\* One line of an answer: the counts, and the rows whose latencies go into the
\* average and the percentiles.
Point(S) ==
  [total   |-> Cardinality(S),
   allowed |-> Cardinality({r \in S : IsAllowed(r)}),
   blocked |-> Cardinality({r \in S : ~ IsAllowed(r)}),
   timed   |-> {r \in S : IsAllowed(r)}]

\* GROUP BY a time unit: no point for a unit without rows.
Grouped(S, unit) ==
  [b \in {StampOf(r) \div unit : r \in S} |-> Point({r \in S : StampOf(r) \div unit = b})]

Summary(f) == Point(Since(f, now - Days * Day))
Trend(f)   == Grouped(Since(f, now - Days * Day), Day)
Live(f)    == Grouped(Since(f, now - Minutes * Minute), Minute)

----------------------------------------------------------------------------
Asked(f)   == [stage |-> "sent", filter |-> f, seen |-> {}]
Free       == [stage |-> "free", filter |-> All, seen |-> {}]
Nothing    == [filter |-> "none", seen |-> {}]

Init ==
  /\ now = 0
  /\ committed = {}
  /\ serverUp \in BOOLEAN
  /\ filter = All
  /\ call = [v \in View |-> [k \in Slot |-> Free]]
  /\ data = [v \in View |-> Nothing]
  /\ error = [v \in View |-> FALSE]

Tick ==
  /\ now < MaxTime
  /\ now' = now + 1
  /\ UNCHANGED <<committed, serverUp, page>>

\* Mutant: the entry is stamped with a time still to come.
CommitEarly(r) ==
  /\ r \notin committed
  /\ committed' = committed \union {r}
  /\ UNCHANGED <<now, serverUp, page>>

\* A flush of the logger commits an entry made by now.
Commit(r) ==
  /\ StampOf(r) <= now
  /\ r \notin committed
  /\ committed' = committed \union {r}
  /\ UNCHANGED <<now, serverUp, page>>

ServerFlips ==
  /\ serverUp' = ~ serverUp
  /\ UNCHANGED <<store, page>>

\* refetch: one more call, and the error is cleared.
Fetch(v, k, f) ==
  /\ call[v][k].stage = "free"
  /\ call' = [call EXCEPT ![v][k] = Asked(f)]
  /\ error' = [error EXCEPT ![v] = FALSE]

\* Another client is chosen: the effects run again and every hook fetches.
Choose(f) ==
  /\ f # filter
  /\ \A v \in View : \E k \in Slot : call[v][k].stage = "free"
  /\ filter' = f
  /\ \E slot \in [View -> Slot] :
       /\ \A v \in View : call[v][slot[v]].stage = "free"
       /\ call' = [v \in View |-> [call[v] EXCEPT ![slot[v]] = Asked(f)]]
  /\ error' = [v \in View |-> FALSE]
  /\ UNCHANGED <<store, serverUp, data>>

\* Mutant: the interval keeps the refetch of the first page.
PollStale(v, k) ==
  /\ Fetch(v, k, All)
  /\ UNCHANGED <<store, serverUp, filter, data>>

\* The interval, which is set anew whenever the filter changes.
Poll(v, k) ==
  /\ Fetch(v, k, filter)
  /\ UNCHANGED <<store, serverUp, filter, data>>

\* The handler runs the query.
Query(v, k) ==
  /\ serverUp
  /\ call[v][k].stage = "sent"
  /\ call' = [call EXCEPT ![v][k] =
       [stage |-> "answered", filter |-> call[v][k].filter, seen |-> Matching(call[v][k].filter)]]
  /\ UNCHANGED <<store, serverUp, filter, data, error>>

\* Answers arrive in any order; each replaces what is shown.
Arrive(v, k) ==
  /\ call[v][k].stage = "answered"
  /\ data' = [data EXCEPT ![v] =
       [filter |-> call[v][k].filter, seen |-> call[v][k].seen]]
  /\ call' = [call EXCEPT ![v][k] = Free]
  /\ UNCHANGED <<store, serverUp, filter, error>>

\* A call fails on its way there, in the handler (500) or on its way back; what
\* was shown stays.
Fail(v, k) ==
  /\ ~ serverUp
  /\ call[v][k].stage \in {"sent", "answered"}
  /\ call' = [call EXCEPT ![v][k] = Free]
  /\ error' = [error EXCEPT ![v] = TRUE]
  /\ UNCHANGED <<store, serverUp, filter, data>>

CallStep(v, k) == Query(v, k) \/ Arrive(v, k) \/ Fail(v, k)

Next ==
  \/ Tick \/ ServerFlips
  \/ \E r \in Row : Commit(r)
  \/ \E f \in Filter : Choose(f)
  \/ \E v \in View, k \in Slot : Poll(v, k) \/ CallStep(v, k)

\* The browser's timers go off, every call ends, and the logger flushes.
Spec ==
  /\ Init /\ [][Next]_vars
  /\ \A r \in Row : WF_vars(Commit(r))
  /\ \A v \in View : WF_vars(\E k \in Slot : Poll(v, k))
  /\ \A v \in View, k \in Slot : WF_vars(CallStep(v, k))

----------------------------------------------------------------------------
Calls   == [stage : {"free", "sent", "answered"}, filter : Filter, seen : SUBSET Row]
Answers == [filter : Filter \union {"none"}, seen : SUBSET Row]

TypeOK ==
  /\ now \in 0 .. MaxTime
  /\ \A r \in committed : r \in Row /\ StampOf(r) <= now
  /\ serverUp \in BOOLEAN
  /\ filter \in Filter
  /\ call \in [View -> [Slot -> Calls]]
  /\ data \in [View -> Answers]
  /\ error \in [View -> BOOLEAN]

(***************************************************************************)
(* The three views agree with each other: the days of the trend add up to  *)
(* the summary, the summaries of the clients to that of all, and latencies *)
(* are those of allowed requests ("computed over *allowed* requests only", *)
(* database.go:144-146, 236-247, 266-275).                                 *)
(***************************************************************************)
\* The sum of a column, counted as so many marks on each line.
Total(points, Field(_)) ==
  Cardinality(UNION {{b} \X (1 .. Field(points[b])) : b \in DOMAIN points})

ViewsAgree ==
  /\ \A f \in Filter :
       /\ Total(Trend(f), LAMBDA p : p.total) = Summary(f).total
       /\ Total(Trend(f), LAMBDA p : p.allowed) = Summary(f).allowed
       /\ Summary(f).total = Summary(f).allowed + Summary(f).blocked
       /\ Cardinality(Summary(f).timed) = Summary(f).allowed
  /\ Total([c \in Client |-> Summary(c)], LAMBDA p : p.total) = Summary(All).total

(***************************************************************************)
(* A minute the live view covers as a whole shows every request of it that *)
(* was committed; only the oldest may be cut (database.go:309-320).        *)
(***************************************************************************)
WholeMinutes ==
  \A f \in Filter, b \in 0 .. MaxTime \div Minute :
    LET inMinute == {r \in Matching(f) : StampOf(r) \div Minute = b} IN
    b * Minute >= now - Minutes * Minute /\ inMinute # {} =>
      b \in DOMAIN Live(f) /\ Live(f)[b] = Point(inMinute)

(***************************************************************************)
(* An answer to an old filter may replace the one to the new (hooks.js:16),*)
(* but not for good: once the user leaves the filter alone and the server  *)
(* stays up, the page ends up showing the rows there are, for the filter   *)
(* it names, and no error.                                                 *)
(***************************************************************************)
Current(v) == data[v] = [filter |-> filter, seen |-> Matching(filter)] /\ ~ error[v]

Repairs ==
  <>[]serverUp /\ (\E f \in Filter : <>[](filter = f)) => <>[](\A v \in View : Current(v))

=============================================================================
