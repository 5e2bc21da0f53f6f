---------------------------- MODULE RequestPath ----------------------------
(***************************************************************************)
(* A request for the MCP endpoint on its way through the HTTP application  *)
(* (build_http_app in mcp_http.py): request budget and permits             *)
(* (BoundedRequestApp, mcp_http_limits.py), bearer verification (abstract  *)
(* here, see SigningKeys), the readiness gate (AuthenticatedReadinessGate, *)
(* mcp_http_gate.py) with the controller of ReadinessProbe, and the MCP    *)
(* transport (of the SDK: it answers when it likes, or never).             *)
(***************************************************************************)
EXTENDS ReadinessProbe, FiniteSets

CONSTANTS
    MaxConcurrent,   \* max_concurrent_requests
    Budget           \* timeout_seconds of BoundedRequestApp

ASSUME PathAssumption ==
    IsFiniteSet(Callers) /\ MaxConcurrent \in Nat \ {0} /\ Budget \in Nat \ {0}

VARIABLE conn       \* the request of each caller

vars == <<probeVars, conn>>

\* "data"    a POST that needs a ready server
\* "exempt"  what passes a gate that is not ready: a POST for protocol setup or
\*           manage_markdown_scope, whose body tells, or no POST at all
Kinds == {"data", "exempt"}

\* kind is what the gate finds the request to be; sent counts the responses started.
Conns == [pc : {"idle", "queued", "verifying", "gating", "buffering", "running", "replying"},
          kind : Kinds, left : 0..Budget, sent : 0..2]
NoRequest == [pc |-> "idle", kind |-> "exempt", left |-> 0, sent |-> 0]

\* Requests that hold a permit.
Inside == {c \in Callers : conn[c].pc \notin {"idle", "queued"}}

At(c, pc) == conn[c].pc = pc
Goes(c, pc) == conn' = [conn EXCEPT ![c].pc = pc]

\* tracked_send sees "http.response.start".
Answers(c) == conn' = [conn EXCEPT ![c].pc = "replying", ![c].sent = @ + 1]

-----------------------------------------------------------------------------
\* BoundedRequestApp: the budget runs from here, the wait for a permit included.
Arrive(c) ==
    /\ At(c, "idle")
    /\ conn' = [conn EXCEPT ![c] = [NoRequest EXCEPT !.pc = "queued", !.left = Budget]]
    /\ UNCHANGED probeVars

\* Seeded fault: one request too many.
AdmitOneMore(c) ==
    /\ At(c, "queued")
    /\ Cardinality(Inside) <= MaxConcurrent
    /\ Goes(c, "verifying")
    /\ UNCHANGED probeVars

\* asyncio.Semaphore
Admit(c) ==
    /\ At(c, "queued")
    /\ Cardinality(Inside) < MaxConcurrent
    /\ Goes(c, "verifying")
    /\ UNCHANGED probeVars

\* 401 or 403
Unauthorized(c) ==
    /\ At(c, "verifying")
    /\ Answers(c)
    /\ UNCHANGED probeVars

Authorized(c, kind) ==
    /\ At(c, "verifying")
    /\ conn' = [conn EXCEPT ![c].pc = "gating", ![c].kind = kind]
    /\ Get(c)

\* Seeded fault: every request passes the gate.
GateForgives(c) ==
    /\ At(c, "gating") /\ caller[c].pc = "told"
    /\ Goes(c, "running")
    /\ CallEnds(c)
    /\ UNCHANGED <<sick, verdict, probe, changes, errors>>

\* The gate has the report: "ready", or the request is no POST.
GateOpens(c) ==
    /\ At(c, "gating") /\ caller[c].pc = "told"
    /\ caller[c].ready \/ conn[c].kind = "exempt"
    /\ Goes(c, "running")
    /\ CallEnds(c)
    /\ UNCHANGED <<sick, verdict, probe, changes, errors>>

GateReadsBody(c) ==
    /\ At(c, "gating") /\ caller[c].pc = "told"
    /\ ~ caller[c].ready
    /\ Goes(c, "buffering")
    /\ CallEnds(c)
    /\ UNCHANGED <<sick, verdict, probe, changes, errors>>

\* _allows_not_ready_request, or 503
GateDecides(c) ==
    /\ At(c, "buffering")
    /\ \/ conn[c].kind = "exempt" /\ Goes(c, "running")
       \/ conn[c].kind = "data" /\ Answers(c)
    /\ UNCHANGED probeVars

\* The transport starts its response.
TransportAnswers(c) ==
    /\ At(c, "running")
    /\ Answers(c)
    /\ UNCHANGED probeVars

ResponseEnds(c) ==
    /\ At(c, "replying")
    /\ conn' = [conn EXCEPT ![c] = NoRequest]
    /\ UNCHANGED probeVars

\* What is due when the budget is spent.
Overdue(c) == ~ At(c, "idle") /\ conn[c].left = 0

\* Seeded faults: a second response; the wait for a permit outside the budget.
TimesOutAgain(c) ==
    /\ Overdue(c)
    /\ conn' = [conn EXCEPT ![c] = [NoRequest EXCEPT !.sent = conn[c].sent + 1]]
    /\ CallEnds(c)
    /\ UNCHANGED <<sick, verdict, probe, changes, errors>>

TimesOutInside(c) ==
    /\ Overdue(c) /\ c \in Inside
    /\ conn' = [conn EXCEPT ![c] = [NoRequest EXCEPT !.sent = IF conn[c].sent = 0 THEN 1 ELSE conn[c].sent]]
    /\ CallEnds(c)
    /\ UNCHANGED <<sick, verdict, probe, changes, errors>>

\* TimeoutError: everything inside is cancelled, and 504 is sent unless a response
\* has started.
TimesOut(c) ==
    /\ Overdue(c)
    /\ conn' = [conn EXCEPT ![c] = [NoRequest EXCEPT !.sent = IF conn[c].sent = 0 THEN 1 ELSE conn[c].sent]]
    /\ CallEnds(c)
    /\ UNCHANGED <<sick, verdict, probe, changes, errors>>

-----------------------------------------------------------------------------
Tick ==
    /\ \A c \in Callers : ~ Overdue(c)
    /\ conn' = [c \in Callers |-> [conn[c] EXCEPT !.left = Sooner(@)]]
    /\ ProbeTick

Init == ProbeInit /\ conn = [c \in Callers |-> NoRequest]

GateStep(c) == GateOpens(c) \/ GateReadsBody(c) \/ (WaitTimesOut(c) /\ UNCHANGED conn)

ProbeStep == (ProbeChecks \/ ProbeReports) /\ UNCHANGED conn

Next ==
    \/ \E c \in Callers :
          \/ Arrive(c) \/ Admit(c)
          \/ Unauthorized(c) \/ \E kind \in Kinds : Authorized(c, kind)
          \/ GateStep(c) \/ GateDecides(c)
          \/ TransportAnswers(c) \/ ResponseEnds(c)
          \/ TimesOut(c)
    \/ ProbeStep
    \/ ProbeFails /\ UNCHANGED conn
    \/ \E i \in Conditions : ConditionChanges(i) /\ UNCHANGED conn
    \/ Tick

Spec == Init /\ [][Next]_vars

\* Time passes, deadlines are met, and a told caller goes on.  Nobody else has to do
\* anything: neither the identity provider nor the transport nor a client, nor the
\* thread of the probe, which has no deadline and may never come to an end.
FairSpec ==
    /\ Spec
    /\ SF_vars(Tick)
    /\ \A c \in Callers : WF_vars(TimesOut(c)) /\ WF_vars(GateStep(c))

-----------------------------------------------------------------------------
(* Properties                                                              *)

\* Every variable stays within its type; a request is in get() only while it
\* stands at the gate; and there are as many inside as there are permits.
TypeOK ==
    /\ ProbeTypeOK
    /\ conn \in [Callers -> Conns]
    /\ \A c \in Callers : caller[c].pc # "out" <=> At(c, "gating")
    /\ Cardinality(Inside) <= MaxConcurrent

\* No request is answered twice, also when its budget ends with its response
\* under way.
OneResponse == \A c \in Callers : conn[c].sent <= 1

\* What the gate is for: at the moment a data request is handed to the transport
\* no condition has been false for longer than the time since the probe behind
\* its verdict began.
DataNeedsRecentReadiness ==
    [][\A c \in Callers :
        conn[c].kind = "data" /\ ~ At(c, "running") /\ At(c, "running")' =>
            \A i \in Conditions : sick[i] <= 1 + caller[c].age]_vars

\* Every request ends, whatever the provider, the transport, the client and the
\* probe do, if it be nothing at all: each of them is awaited within the budget.
EveryRequestEnds == \A c \in Callers : ~ At(c, "idle") ~> At(c, "idle")

\* Once the scopes are ready for good, a verdict of anything else is gone in the end
\* (a request may still be told "not ready", by a wait that ran out).  Once one of
\* them is unready for good, no verdict of "ready" is left in the end and no request
\* is told "ready".
VerdictsFollowTruth ==
    /\ <>[]Ready => <>[](Fresh => verdict.ready)
    /\ <>[]~ Ready => <>[](/\ Fresh => ~ verdict.ready
                          /\ \A c \in Callers : ~ (caller[c].pc = "told" /\ caller[c].ready))
=============================================================================
