--------------------------- MODULE ReadinessProbe ---------------------------
(***************************************************************************)
(* ReadinessProbeController (mcp_http_gate.py): one probe at a time, a     *)
(* wait that is limited, and a verdict that is cached for a short time; and *)
(* check_readiness (mcp_readiness.py), the probe itself, that goes through *)
(* the scopes one by one in a thread while they change.  Of each scope it  *)
(* checks two conditions at two moments: that its plan is current (search  *)
(* configured, model there, sources as in the state), and if so, that the  *)
(* durable index matches.                                                  *)
(*                                                                         *)
(* Callers call get() on the event loop.  Time passes in ticks; what has a *)
(* deadline happens in the tick of its deadline.  The probe has none.  Two *)
(* numbers stop counting at a bound: the age of a probe at ProbeCap, and   *)
(* how long a condition has been false at SickCap.                           *)
(***************************************************************************)
EXTENDS Naturals

CONSTANTS
    Callers,
    ScopeCount,    \* scopes of the project file, in the order of their names
    Ttl,           \* cache_ttl_seconds
    Patience,      \* timeout_seconds
    ProbeCap,      \* bound: ages of a probe that are told apart
    MaxChanges,    \* bound: conditions that become true or false
    MaxErrors      \* bound: probes that fail

ASSUME ProbeAssumption ==
    /\ ScopeCount \in Nat /\ Ttl \in Nat \ {0} /\ Patience \in Nat \ {0}
    /\ ProbeCap \in Nat /\ MaxChanges \in Nat /\ MaxErrors \in Nat

\* Conditions 2i - 1 and 2i are the plan and the durable index of the i-th scope.
Conditions == 1..(2 * ScopeCount)
OfPlan(i) == \E j \in 1..ScopeCount : i = 2 * j - 1

SickCap == ProbeCap + Ttl + 1

VARIABLES
    sick,       \* 0 for a condition that holds, else one more than the ticks since it did
    verdict,    \* _cached: the report, the time it has left, and how long its probe took
    probe,      \* _inflight: the condition it comes to next, and whether it found an issue
    caller,     \* where each caller of get() stands, and what it was told
    changes, errors

probeVars == <<sick, verdict, probe, caller, changes, errors>>

\* What the configuration, the sources, the state and the index say now.
Ready == \A i \in Conditions : sick[i] = 0

Fresh == verdict.left > 0

NoProbe == [on |-> FALSE, next |-> 1, issues |-> FALSE, age |-> 0]
Started == [NoProbe EXCEPT !.on = TRUE]
NoCall == [pc |-> "out", ready |-> FALSE, left |-> 0, age |-> 0]

\* Ticks since the probe in flight, or the probe of the cached verdict, began; as
\* good as infinite for a probe whose age has not been counted to its end.
Counted(age, more) == IF age = ProbeCap THEN SickCap ELSE age + more
ProbeAge == Counted(probe.age, 0)
VerdictAge == Counted(verdict.span, Ttl - verdict.left)

\* get() is about to return; of a "ready" it is kept how old it is.
Told(call, ready, age) ==
    [call EXCEPT !.pc = "told", !.ready = ready, !.left = 0,
                 !.age = IF ready THEN age ELSE 0]

-----------------------------------------------------------------------------
(* get                                                                     *)

\* A fresh verdict answers, otherwise the caller waits for the probe in flight or
\* for one that it starts.
Get(c) ==
    /\ caller[c].pc = "out"
    /\ IF Fresh
       THEN /\ caller' = [caller EXCEPT ![c] = Told(@, verdict.ready, VerdictAge)]
            /\ UNCHANGED probe
       ELSE /\ caller' = [caller EXCEPT ![c] = [NoCall EXCEPT !.pc = "asking", !.left = Patience]]
            /\ probe' = IF probe.on THEN probe ELSE Started
    /\ UNCHANGED <<sick, verdict, changes, errors>>

\* TimeoutError: the caller is told "not ready"; the shielded probe goes on.
WaitTimesOut(c) ==
    /\ caller[c].pc = "asking" /\ caller[c].left = 0
    /\ caller' = [caller EXCEPT ![c] = Told(@, FALSE, 0)]
    /\ UNCHANGED <<sick, verdict, probe, changes, errors>>

\* get() returns to its caller, or its caller is cancelled.
CallEnds(c) == caller' = [caller EXCEPT ![c] = NoCall]

-----------------------------------------------------------------------------
(* The probe                                                               *)

\* Seeded fault: a scope whose plan is not current is left without a report.
ProbeForgets ==
    LET i == probe.next IN
    /\ probe.on /\ i \in Conditions
    /\ \/ sick[i] = 0 /\ probe' = [probe EXCEPT !.next = i + 1]
       \/ sick[i] # 0 /\ OfPlan(i) /\ probe' = [probe EXCEPT !.next = i + 2]
       \/ sick[i] # 0 /\ ~ OfPlan(i) /\ probe' = [probe EXCEPT !.next = i + 1, !.issues = TRUE]
    /\ UNCHANGED <<sick, verdict, caller, changes, errors>>

\* check_readiness of the next condition: a scope whose plan is not current is
\* left at once.
ProbeChecks ==
    LET i == probe.next IN
    /\ probe.on /\ i \in Conditions
    /\ \/ sick[i] = 0 /\ probe' = [probe EXCEPT !.next = i + 1]
       \/ /\ sick[i] # 0
          /\ probe' = [probe EXCEPT !.next = IF OfPlan(i) THEN i + 2 ELSE i + 1,
                                    !.issues = TRUE]
    /\ UNCHANGED <<sick, verdict, caller, changes, errors>>

Finished == probe.on /\ probe.next = 2 * ScopeCount + 1

\* _complete: the report is cached from now on, everybody who waits is told.
Completes(ready) ==
    /\ verdict' = [ready |-> ready, left |-> Ttl, span |-> probe.age]
    /\ probe' = NoProbe
    /\ caller' = [c \in Callers |->
                    IF caller[c].pc = "asking" THEN Told(caller[c], ready, ProbeAge)
                                               ELSE caller[c]]

\* Seeded fault: the finished probe stays in flight.
ProbeStays ==
    /\ Finished
    /\ verdict' = [ready |-> ~ probe.issues, left |-> Ttl, span |-> probe.age]
    /\ caller' = [c \in Callers |->
                    IF caller[c].pc = "asking" THEN Told(caller[c], ~ probe.issues, ProbeAge)
                                               ELSE caller[c]]
    /\ UNCHANGED <<sick, probe, changes, errors>>

ProbeReports ==
    /\ Finished
    /\ Completes(~ probe.issues)
    /\ UNCHANGED <<sick, changes, errors>>

\* safe_check_readiness turns an exception into a report.
ProbeFails ==
    /\ probe.on
    /\ errors < MaxErrors /\ errors' = errors + 1
    /\ Completes(FALSE)
    /\ UNCHANGED <<sick, changes>>

-----------------------------------------------------------------------------
(* The world                                                               *)

\* An edit, a refresh, a drop of the index or its return.
ConditionChanges(i) ==
    /\ changes < MaxChanges /\ changes' = changes + 1
    /\ sick' = [sick EXCEPT ![i] = IF @ = 0 THEN 1 ELSE 0]
    /\ UNCHANGED <<verdict, probe, caller, errors>>

Later(n, cap) == IF n < cap THEN n + 1 ELSE n
Sooner(n) == IF n > 0 THEN n - 1 ELSE n

\* Nobody is due: no deadline has come, and no caller that was told still stands
\* there, since it goes on without another await.
NobodyIsDue ==
    \A c \in Callers : caller[c].pc # "told" /\ (caller[c].pc = "asking" => caller[c].left > 0)

ProbeTick ==
    /\ NobodyIsDue
    /\ sick' = [i \in Conditions |-> IF sick[i] = 0 THEN 0 ELSE Later(sick[i], SickCap)]
    /\ verdict' = [verdict EXCEPT !.left = Sooner(@)]
    /\ probe' = [probe EXCEPT !.age = IF probe.on THEN Later(@, ProbeCap) ELSE @]
    /\ caller' = [c \in Callers |-> [caller[c] EXCEPT !.left = Sooner(@)]]
    /\ UNCHANGED <<changes, errors>>

ProbeInit ==
    /\ sick \in [Conditions -> {0, 1}]
    /\ verdict = [ready |-> FALSE, left |-> 0, span |-> 0]
    /\ probe = NoProbe
    /\ caller = [c \in Callers |-> NoCall]
    /\ changes = 0 /\ errors = 0

\* Callers come and go as they like here.
ProbeNext ==
    \/ \E c \in Callers : Get(c) \/ WaitTimesOut(c)
                          \/ (CallEnds(c) /\ UNCHANGED <<sick, verdict, probe, changes, errors>>)
    \/ ProbeChecks \/ ProbeReports \/ ProbeFails
    \/ \E i \in Conditions : ConditionChanges(i)
    \/ ProbeTick

ProbeSpec == ProbeInit /\ [][ProbeNext]_probeVars

-----------------------------------------------------------------------------
(* Properties                                                              *)

ProbeTypeOK ==
    /\ sick \in [Conditions -> 0..SickCap]
    /\ verdict \in [ready : BOOLEAN, left : 0..Ttl, span : 0..ProbeCap]
    /\ probe \in [on : BOOLEAN, next : 1..(2 * ScopeCount + 1), issues : BOOLEAN, age : 0..ProbeCap]
    /\ caller \in [Callers -> [pc : {"out", "asking", "told"}, ready : BOOLEAN,
                               left : 0..Patience, age : 0..SickCap]]
    /\ \A c \in Callers : caller[c].pc = "asking" => probe.on
    /\ changes \in 0..MaxChanges /\ errors \in 0..MaxErrors

\* Readiness is never older than its probe and the time to live: while a "ready"
\* is cached or in a caller's hand, none of the conditions has been false for
\* longer than the time since that probe began.
ReadyIsRecent ==
    /\ Fresh /\ verdict.ready => \A i \in Conditions : sick[i] <= 1 + VerdictAge
    /\ \A c \in Callers :
         caller[c].pc = "told" /\ caller[c].ready =>
            \A i \in Conditions : sick[i] <= 1 + caller[c].age
=============================================================================
