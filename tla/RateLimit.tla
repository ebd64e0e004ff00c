----------------------------- MODULE RateLimit -----------------------------
(***************************************************************************)
(* What a client of the gateway cluster is promised: a sliding-window      *)
(* limit on the calls of one client, decided call by call against ONE      *)
(* clock, accurate up to Slack.                                            *)
(*                                                                         *)
(*  - a call is admitted only if fewer than its limit were admitted in the *)
(*    last MinWindow - Slack, and                                          *)
(*  - a call is refused only if at least its limit were admitted in the    *)
(*    last window + Slack.                                                 *)
(*                                                                         *)
(* With Slack = 0 this is the exact sliding window.  SlidingWindow, the    *)
(* model of the Redis script and its callers, implements this module.      *)
(***************************************************************************)
EXTENDS Integers, FiniteSets

CONSTANTS Call,       \* the calls made by the client
          Quota,      \* the [limit, window] pairs the client is configured with
          MinWindow,  \* a lower bound of the windows in Quota
          MaxLimit,   \* an upper bound of the limits in Quota
          Slack       \* how far the decisions may be from the exact window

\* What is asked of the constants.
RateLimitAssumption ==
  /\ IsFiniteSet(Call)
  /\ Quota \subseteq [limit : Nat, window : Nat]
  /\ MinWindow \in Nat /\ MaxLimit \in Nat /\ Slack \in Nat
  /\ \A q \in Quota : MinWindow <= q.window /\ q.limit <= MaxLimit

VARIABLES now,        \* the reference clock
          verdict,    \* what was decided for each call
          decidedAt,  \* when
          counted     \* the admitted calls that are still remembered

vars == <<now, verdict, decidedAt, counted>>

Verdicts == {"none", "admitted", "refused"}

TypeOK ==
  /\ now \in Int
  /\ verdict \in [Call -> Verdicts]
  /\ decidedAt \in [Call -> Int]
  /\ counted \subseteq Call

Init ==
  /\ now \in Nat
  /\ verdict = [c \in Call |-> "none"]
  /\ decidedAt = [c \in Call |-> 0]
  /\ counted = {}

\* The remembered calls admitted in the last span ticks.
Recent(span) == {c \in counted : decidedAt[c] > now - span}

Decide(c, v) ==
  /\ verdict[c] = "none"
  /\ verdict' = [verdict EXCEPT ![c] = v]
  /\ decidedAt' = [decidedAt EXCEPT ![c] = now]
  /\ UNCHANGED now

Admit(c, q) ==
  /\ Cardinality(Recent(MinWindow - Slack)) < q.limit
  /\ Decide(c, "admitted")
  /\ counted' = counted \union {c}

Refuse(c, q) ==
  /\ Cardinality(Recent(q.window + Slack)) >= q.limit
  /\ Decide(c, "refused")
  /\ UNCHANGED counted

Tick ==
  /\ now' = now + 1
  /\ UNCHANGED <<verdict, decidedAt, counted>>

\* The store may lose what it counted.
Forget ==
  /\ counted' \in SUBSET counted
  /\ UNCHANGED <<now, verdict, decidedAt>>

Next ==
  \/ \E c \in Call, q \in Quota : Admit(c, q) \/ Refuse(c, q)
  \/ Tick
  \/ Forget

Spec == Init /\ [][Next]_vars

(***************************************************************************)
(* The calls admitted in the span ticks that end with the decision on c.   *)
(***************************************************************************)
AdmittedUpTo(c, span) ==
  {d \in counted : decidedAt[c] - span < decidedAt[d] /\ decidedAt[d] <= decidedAt[c]}

\* No interval of length MinWindow - Slack, wherever it ends, sees more than
\* MaxLimit remembered admissions: the promise the quota is about.
WindowBound ==
  \A c \in counted : Cardinality(AdmittedUpTo(c, MinWindow - Slack)) <= MaxLimit

=============================================================================
