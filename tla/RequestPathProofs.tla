------------------------- MODULE RequestPathProofs -------------------------
(***************************************************************************)
(* Proofs about RequestPath for any callers, permits, scopes and           *)
(* durations.  A step of the path is a step of the probe controller        *)
(* (ReadinessProbeProofs) together with a change of one request; what has  *)
(* to be added is that a request has sent nothing before it replies        *)
(* (SilentBefore).                                                         *)
(***************************************************************************)
EXTENDS RequestPath, ReadinessProbeProofs, FiniteSetTheorems

\* How many responses a request in this place may have started.
Silent(x) == x.sent <= 1 /\ (x.pc \notin {"idle", "replying"} => x.sent = 0)

SilentBefore == \A c \in Callers : Silent(conn[c])

WaitsAtGate == \A c \in Callers : caller[c].pc # "out" <=> At(c, "gating")

PathInv ==
    /\ ProbeInv
    /\ conn \in [Callers -> Conns]
    /\ WaitsAtGate
    /\ Cardinality(Inside) <= MaxConcurrent
    /\ SilentBefore

-----------------------------------------------------------------------------
(* One request changes                                                     *)

LEMMA InsideIsFinite == IsFiniteSet(Inside) /\ Cardinality(Inside) \in Nat
<1>1. Inside \in SUBSET Callers /\ IsFiniteSet(Callers)
  BY PathAssumption DEF Inside
<1> QED BY <1>1, FS_Subset, FS_CardinalityType

\* A request that changes leaves the others alone; the permits suffice when it was
\* inside already, or leaves, or one is free.
LEMMA OneRequestChanges ==
    ASSUME PathInv, NEW c \in Callers, NEW x \in Conns, conn' = [conn EXCEPT ![c] = x],
           Silent(x),
           \/ x.pc \in {"idle", "queued"}
           \/ conn[c].pc \notin {"idle", "queued"}
           \/ Cardinality(Inside) < MaxConcurrent
    PROVE  /\ conn' \in [Callers -> Conns]
           /\ conn'[c] = x
           /\ \A d \in Callers \ {c} : conn'[d] = conn[d]
           /\ SilentBefore'
           /\ Cardinality(Inside') <= MaxConcurrent
<1>1. /\ conn' \in [Callers -> Conns]
      /\ conn'[c] = x
      /\ \A d \in Callers \ {c} : conn'[d] = conn[d]
  BY DEF PathInv
<1>2. SilentBefore'
  BY <1>1 DEF PathInv, SilentBefore
<1>3. IsFiniteSet(Inside) /\ Cardinality(Inside) \in Nat /\ MaxConcurrent \in Nat
      /\ Cardinality(Inside) <= MaxConcurrent
  BY InsideIsFinite, PathAssumption DEF PathInv
<1>4. Cardinality(Inside') <= MaxConcurrent
  <2>1. CASE Inside' \in SUBSET Inside
    <3>1. Cardinality(Inside') <= Cardinality(Inside) /\ IsFiniteSet(Inside')
      BY <1>3, <2>1, FS_Subset
    <3>2. Cardinality(Inside') \in Nat
      BY <3>1, FS_CardinalityType
    <3> QED BY <1>3, <3>1, <3>2
  <2>2. CASE ~ Inside' \in SUBSET Inside
    <3>1. Inside' = Inside \cup {c} /\ Cardinality(Inside) < MaxConcurrent
      BY <1>1, <2>2 DEF Inside
    <3>2. Cardinality(Inside \cup {c}) =
            IF c \in Inside THEN Cardinality(Inside) ELSE Cardinality(Inside) + 1
      BY <1>3, FS_AddElement
    <3> QED BY <1>3, <3>1, <3>2
  <2> QED BY <2>1, <2>2
<1> QED BY <1>1, <1>2, <1>4

LEMMA NoRequestType ==
    NoRequest \in Conns /\ NoRequest.pc = "idle" /\ NoRequest.sent = 0
<1>1. 0 \in 0..Budget /\ 0 \in 0..2
  BY PathAssumption
<1> QED BY <1>1 DEF NoRequest, Conns, Kinds

\* A request that goes elsewhere keeps its kind, budget and silence.
LEMMA GoesEffect ==
    ASSUME PathInv, NEW c \in Callers,
           conn[c].pc \notin {"idle", "queued", "replying"} \/ Cardinality(Inside) < MaxConcurrent,
           conn[c].pc \notin {"idle", "replying"},
           NEW pc \in {"verifying", "gating", "buffering", "running"}, Goes(c, pc)
    PROVE  /\ conn' \in [Callers -> Conns]
           /\ conn'[c].pc = pc /\ conn'[c].kind = conn[c].kind
           /\ \A d \in Callers \ {c} : conn'[d] = conn[d]
           /\ SilentBefore'
           /\ Cardinality(Inside') <= MaxConcurrent
<1> DEFINE x == [conn[c] EXCEPT !.pc = pc]
<1>1. conn[c] \in Conns /\ Silent(conn[c])
  BY DEF PathInv, SilentBefore
<1>2. /\ x \in Conns /\ x.pc = pc /\ x.kind = conn[c].kind /\ x.sent = conn[c].sent
  BY <1>1 DEF Conns
<1>3. Silent(x)
  BY <1>1, <1>2 DEF Silent
<1>4. conn' = [conn EXCEPT ![c] = x]
  BY DEF Goes, PathInv
<1> HIDE DEF x
<1> QED BY <1>2, <1>3, <1>4, OneRequestChanges

\* A request inside that answers has answered once.
LEMMA AnswersEffect ==
    ASSUME PathInv, NEW c \in Callers,
           conn[c].pc \notin {"idle", "queued", "replying"}, Answers(c)
    PROVE  /\ conn' \in [Callers -> Conns]
           /\ conn'[c].pc = "replying"
           /\ \A d \in Callers \ {c} : conn'[d] = conn[d]
           /\ SilentBefore'
           /\ Cardinality(Inside') <= MaxConcurrent
<1> DEFINE n == conn[c].sent + 1
           x == [conn[c] EXCEPT !.pc = "replying", !.sent = n]
<1>1. conn[c] \in Conns /\ conn[c].sent = 0
  BY DEF PathInv, SilentBefore, Silent
<1>2. n = 1 /\ n \in 0..2
  BY <1>1
<1>3. conn' = [conn EXCEPT ![c].pc = "replying", ![c].sent = n]
  BY DEF Answers, PathInv
<1> HIDE DEF n
<1>4. conn' = [conn EXCEPT ![c] = x]
  BY <1>3 DEF PathInv
<1>5. x \in Conns /\ x.pc = "replying" /\ x.sent = n
  BY <1>1, <1>2 DEF Conns
<1>6. Silent(x)
  BY <1>2, <1>5 DEF Silent
<1> HIDE DEF x
<1> QED BY <1>4, <1>5, <1>6, OneRequestChanges

-----------------------------------------------------------------------------
(* The steps                                                               *)

LEMMA ProbeUnchanged == ASSUME ProbeInv, UNCHANGED probeVars PROVE ProbeInv'
BY ProbeInvStep

\* Requests come, get a permit and are refused; the probe does not notice.
LEMMA OutsideGateStep ==
    ASSUME PathInv, NEW c \in Callers,
           Arrive(c) \/ Admit(c) \/ Unauthorized(c) \/ GateDecides(c)
           \/ TransportAnswers(c) \/ ResponseEnds(c)
    PROVE  PathInv'
<1>1. UNCHANGED probeVars
  BY DEF Arrive, Admit, Unauthorized, GateDecides, TransportAnswers, ResponseEnds
<1>2. ProbeInv' /\ caller' = caller
  BY <1>1, ProbeUnchanged DEF PathInv, probeVars
<1>3. /\ conn' \in [Callers -> Conns]
      /\ conn[c].pc # "gating" /\ conn'[c].pc # "gating"
      /\ \A d \in Callers \ {c} : conn'[d] = conn[d]
      /\ SilentBefore'
      /\ Cardinality(Inside') <= MaxConcurrent
  <2>1. CASE Arrive(c)
    <3> DEFINE x == [NoRequest EXCEPT !.pc = "queued", !.left = Budget]
    <3>1. conn' = [conn EXCEPT ![c] = x] /\ conn[c].pc = "idle"
      BY <2>1 DEF Arrive, At
    <3>2. Budget \in 0..Budget
      BY PathAssumption
    <3>3. x \in Conns /\ x.pc = "queued" /\ x.sent = 0
      BY <3>2, NoRequestType DEF Conns
    <3>4. Silent(x)
      BY <3>3 DEF Silent
    <3> HIDE DEF x
    <3> QED BY <3>1, <3>3, <3>4, OneRequestChanges
  <2>2. CASE Admit(c)
    BY <2>2, GoesEffect DEF Admit, At
  <2>3. CASE Unauthorized(c)
    BY <2>3, AnswersEffect DEF Unauthorized, At
  <2>4. CASE GateDecides(c)
    BY <2>4, GoesEffect, AnswersEffect DEF GateDecides, At
  <2>5. CASE TransportAnswers(c)
    BY <2>5, AnswersEffect DEF TransportAnswers, At
  <2>6. CASE ResponseEnds(c)
    <3>1. Silent(NoRequest)
      BY NoRequestType DEF Silent
    <3> QED BY <2>6, <3>1, NoRequestType, OneRequestChanges DEF ResponseEnds, At
  <2> QED BY <2>1, <2>2, <2>3, <2>4, <2>5, <2>6
<1>4. WaitsAtGate'
  BY <1>2, <1>3 DEF PathInv, WaitsAtGate, At
<1> QED BY <1>2, <1>3, <1>4 DEF PathInv

LEMMA AuthorizedStep ==
    ASSUME PathInv, NEW c \in Callers, NEW kind \in Kinds, Authorized(c, kind)
    PROVE  PathInv' /\ conn'[c].pc = "gating"
<1> DEFINE x == [conn[c] EXCEPT !.pc = "gating", !.kind = kind]
<1>1. conn[c] \in Conns /\ Silent(conn[c]) /\ conn[c].pc = "verifying"
  BY DEF PathInv, SilentBefore, Authorized, At
<1>2. x \in Conns /\ x.pc = "gating" /\ x.sent = conn[c].sent
  BY <1>1 DEF Conns
<1>3. Silent(x)
  BY <1>1, <1>2 DEF Silent
<1>4. conn' = [conn EXCEPT ![c] = x]
  BY DEF Authorized, PathInv
<1> HIDE DEF x
<1>5. /\ conn' \in [Callers -> Conns]
      /\ conn'[c] = x
      /\ \A d \in Callers \ {c} : conn'[d] = conn[d]
      /\ SilentBefore'
      /\ Cardinality(Inside') <= MaxConcurrent
  BY <1>1, <1>2, <1>3, <1>4, OneRequestChanges
<1>6. /\ ProbeInv'
      /\ caller'[c].pc # "out"
      /\ \A d \in Callers \ {c} : caller'[d] = caller[d]
  BY GetStep DEF Authorized, PathInv
<1>7. WaitsAtGate'
  BY <1>2, <1>5, <1>6 DEF PathInv, WaitsAtGate, At
<1> QED BY <1>2, <1>5, <1>6, <1>7 DEF PathInv

\* A request leaves the gate with the answer of get().
LEMMA LeavesGateStep ==
    ASSUME PathInv, NEW c \in Callers, GateOpens(c) \/ GateReadsBody(c)
    PROVE  PathInv'
<1>1. /\ conn[c].pc = "gating" /\ (Goes(c, "running") \/ Goes(c, "buffering"))
      /\ CallEnds(c) /\ UNCHANGED <<sick, verdict, probe, changes, errors>>
  BY DEF GateOpens, GateReadsBody, At
<1>2. /\ conn' \in [Callers -> Conns]
      /\ conn'[c].pc # "gating"
      /\ \A d \in Callers \ {c} : conn'[d] = conn[d]
      /\ SilentBefore'
      /\ Cardinality(Inside') <= MaxConcurrent
  BY <1>1, GoesEffect
<1>3. /\ ProbeInv'
      /\ caller'[c].pc = "out"
      /\ \A d \in Callers \ {c} : caller'[d] = caller[d]
  BY <1>1, CallEndsStep DEF PathInv
<1>4. WaitsAtGate'
  BY <1>2, <1>3 DEF PathInv, WaitsAtGate, At
<1> QED BY <1>2, <1>3, <1>4 DEF PathInv

\* Out of time, a request answers unless it has answered before.
LEMMA TimesOutStep ==
    ASSUME PathInv, NEW c \in Callers, TimesOut(c)
    PROVE  PathInv' /\ conn'[c].pc = "idle"
<1> DEFINE n == IF conn[c].sent = 0 THEN 1 ELSE conn[c].sent
           x == [NoRequest EXCEPT !.sent = n]
<1>1. conn[c].sent \in 0..1
  BY DEF PathInv, SilentBefore, Silent, Conns
<1>2. n = 1 /\ n \in 0..2
  BY <1>1
<1>3. conn' = [conn EXCEPT ![c] = x]
  BY DEF TimesOut
<1> HIDE DEF n
<1>4. x \in Conns /\ x.pc = "idle" /\ x.sent = n
  BY <1>2, NoRequestType DEF Conns
<1>5. Silent(x)
  BY <1>2, <1>4 DEF Silent
<1> HIDE DEF x
<1>6. /\ conn' \in [Callers -> Conns]
      /\ conn'[c] = x
      /\ \A d \in Callers \ {c} : conn'[d] = conn[d]
      /\ SilentBefore'
      /\ Cardinality(Inside') <= MaxConcurrent
  BY <1>3, <1>4, <1>5, OneRequestChanges
<1>7. /\ ProbeInv'
      /\ caller'[c].pc = "out"
      /\ \A d \in Callers \ {c} : caller'[d] = caller[d]
  BY CallEndsStep DEF TimesOut, PathInv
<1>8. WaitsAtGate'
  BY <1>4, <1>6, <1>7 DEF PathInv, WaitsAtGate, At
<1> QED BY <1>4, <1>6, <1>7, <1>8 DEF PathInv

\* Requests do not move while the controller, the probe and the world do.
LEMMA ControllerStep ==
    ASSUME PathInv, UNCHANGED conn,
           \/ \E c \in Callers : WaitTimesOut(c)
           \/ ProbeChecks \/ ProbeReports \/ ProbeFails
           \/ \E i \in Conditions : ConditionChanges(i)
    PROVE  PathInv'
<1>1. ProbeInv' /\ \A c \in Callers : caller'[c].pc = "out" <=> caller[c].pc = "out"
  <2>1. ASSUME NEW c \in Callers, WaitTimesOut(c)
        PROVE  ProbeInv' /\ \A d \in Callers : caller'[d].pc = "out" <=> caller[d].pc = "out"
    BY <2>1, WaitTimesOutStep DEF PathInv
  <2>2. CASE ProbeChecks
    BY <2>2, ProbeChecksStep DEF PathInv
  <2>3. CASE ProbeReports \/ ProbeFails
    BY <2>3, ProbeEndsStep DEF PathInv
  <2>4. ASSUME NEW i \in Conditions, ConditionChanges(i)
        PROVE  ProbeInv' /\ caller' = caller
    BY <2>4, ConditionChangesStep DEF PathInv
  <2> QED BY <2>1, <2>2, <2>3, <2>4
<1>2. WaitsAtGate'
  BY <1>1 DEF PathInv, WaitsAtGate, At
<1>3. SilentBefore' /\ Inside' = Inside
  BY DEF PathInv, SilentBefore, Inside
<1> QED BY <1>1, <1>2, <1>3 DEF PathInv

LEMMA TickStep ==
    ASSUME PathInv, Tick
    PROVE  PathInv' /\ \A c \in Callers : conn'[c].pc = conn[c].pc
<1>1. ASSUME NEW c \in Callers
      PROVE  /\ conn'[c] \in Conns
             /\ conn'[c].pc = conn[c].pc /\ conn'[c].sent = conn[c].sent
  <2>1. conn[c] \in Conns /\ Sooner(conn[c].left) \in 0..Budget
    BY SoonerType, PathAssumption DEF PathInv, Conns
  <2>2. conn'[c] = [conn[c] EXCEPT !.left = Sooner(@)]
    BY DEF Tick
  <2> QED BY <2>1, <2>2 DEF Conns
<1>2. conn' \in [Callers -> Conns]
  BY <1>1 DEF Tick
<1>3. SilentBefore' /\ Inside' = Inside
  BY <1>1 DEF PathInv, SilentBefore, Silent, Inside
<1>4. ProbeInv' /\ \A c \in Callers : caller'[c].pc = caller[c].pc
  BY ProbeTickStep DEF Tick, PathInv
<1>5. WaitsAtGate'
  BY <1>1, <1>4 DEF PathInv, WaitsAtGate, At
<1> QED BY <1>1, <1>2, <1>3, <1>4, <1>5 DEF PathInv

LEMMA PathInitSatisfies == Init => PathInv
<1> SUFFICES ASSUME Init PROVE PathInv
  OBVIOUS
<1>1. ProbeInv /\ \A c \in Callers : caller[c].pc = "out"
  BY ProbeInitSatisfies, NoCallType DEF Init, ProbeInit
<1>2. conn \in [Callers -> Conns] /\ \A c \in Callers : conn[c] = NoRequest
  BY NoRequestType DEF Init
<1>3. SilentBefore /\ WaitsAtGate
  BY <1>1, <1>2, NoRequestType DEF SilentBefore, Silent, WaitsAtGate, At
<1>4. Cardinality(Inside) <= MaxConcurrent
  <2>1. Inside = {}
    BY <1>2, NoRequestType DEF Inside
  <2> QED BY <2>1, FS_EmptySet, PathAssumption
<1> QED BY <1>1, <1>2, <1>3, <1>4 DEF PathInv

LEMMA PathInvStep == PathInv /\ [Next]_vars => PathInv'
<1> SUFFICES ASSUME PathInv, [Next]_vars PROVE PathInv'
  OBVIOUS
<1>1. ASSUME NEW c \in Callers,
             \/ Arrive(c) \/ Admit(c) \/ Unauthorized(c) \/ GateDecides(c)
             \/ TransportAnswers(c) \/ ResponseEnds(c)
      PROVE  PathInv'
  BY <1>1, OutsideGateStep
<1>2. ASSUME NEW c \in Callers, NEW kind \in Kinds, Authorized(c, kind) PROVE PathInv'
  BY <1>2, AuthorizedStep
<1>3. ASSUME NEW c \in Callers, GateStep(c) \/ TimesOut(c) PROVE PathInv'
  BY <1>3, LeavesGateStep, TimesOutStep, ControllerStep DEF GateStep
<1>4. CASE ProbeStep \/ (ProbeFails /\ UNCHANGED conn)
           \/ \E i \in Conditions : ConditionChanges(i) /\ UNCHANGED conn
  BY <1>4, ControllerStep DEF ProbeStep
<1>5. CASE Tick
  BY <1>5, TickStep
<1>6. CASE UNCHANGED vars
  <2>1. ProbeInv' /\ UNCHANGED conn /\ caller' = caller
    BY <1>6, ProbeUnchanged DEF vars, PathInv, probeVars
  <2>2. SilentBefore' /\ Inside' = Inside /\ WaitsAtGate'
    BY <2>1 DEF PathInv, SilentBefore, Inside, WaitsAtGate, At
  <2> QED BY <2>1, <2>2 DEF PathInv
<1> QED BY <1>1, <1>2, <1>3, <1>4, <1>5, <1>6 DEF Next

\* Of all steps only the gate's opening lets a data request run.
LEMMA OnlyTheGateOpens ==
    ASSUME PathInv, Next, NEW c \in Callers, conn[c].kind = "data",
           conn[c].pc # "running", conn'[c].pc = "running"
    PROVE  GateOpens(c) /\ caller[c].ready
<1>1. conn \in [Callers -> Conns] /\ conn' # conn
  BY DEF PathInv
<1>2. CASE Tick
  BY <1>2, TickStep
<1>3. ASSUME NEW d \in Callers, NEW x, conn' = [conn EXCEPT ![d] = x]
      PROVE  d = c /\ x.pc = "running"
  BY <1>1, <1>3
<1>4. ASSUME NEW d \in Callers, NEW pc, Goes(d, pc)
      PROVE  d = c /\ pc = "running"
  BY <1>1, <1>4 DEF Goes, Conns
<1>5. ASSUME NEW d \in Callers PROVE ~ Answers(d)
  BY <1>1 DEF Answers, Conns
<1>6. ASSUME NEW d \in Callers,
             \/ Arrive(d) \/ Admit(d) \/ Unauthorized(d) \/ GateDecides(d)
             \/ TransportAnswers(d) \/ ResponseEnds(d)
      PROVE  FALSE
  <2>1. CASE Arrive(d)
    <3>1. [NoRequest EXCEPT !.pc = "queued", !.left = Budget].pc = "queued"
      BY DEF NoRequest
    <3> QED BY <1>3, <2>1, <3>1 DEF Arrive
  <2>2. CASE Admit(d)
    BY <1>4, <2>2 DEF Admit
  <2>3. CASE Unauthorized(d)
    BY <1>5, <2>3 DEF Unauthorized
  <2>4. CASE GateDecides(d)
    BY <1>4, <1>5, <2>4 DEF GateDecides
  <2>5. CASE TransportAnswers(d)
    BY <1>5, <2>5 DEF TransportAnswers
  <2>6. CASE ResponseEnds(d)
    BY <1>3, <2>6, NoRequestType DEF ResponseEnds
  <2> QED BY <1>6, <2>1, <2>2, <2>3, <2>4, <2>5, <2>6
<1>7. ASSUME NEW d \in Callers, NEW kind \in Kinds, Authorized(d, kind)
      PROVE  FALSE
  <2>1. conn' = [conn EXCEPT ![d].pc = "gating", ![d].kind = kind]
    BY <1>7 DEF Authorized
  <2>2. conn'[c].pc = IF d = c THEN "gating" ELSE conn[c].pc
    BY <1>1, <2>1 DEF Conns
  <2> QED BY <2>2
<1>8. ASSUME NEW d \in Callers, GateStep(d)
      PROVE  GateOpens(c) /\ caller[c].ready
  BY <1>1, <1>4, <1>8 DEF GateStep, GateOpens, GateReadsBody
<1>9. ASSUME NEW d \in Callers PROVE ~ TimesOut(d)
  <2> SUFFICES ASSUME TimesOut(d) PROVE FALSE
    OBVIOUS
  <2>1. conn' = [conn EXCEPT ![d] =
           [NoRequest EXCEPT !.sent = IF conn[d].sent = 0 THEN 1 ELSE conn[d].sent]]
    BY DEF TimesOut
  <2>2. ASSUME NEW n PROVE [NoRequest EXCEPT !.sent = n].pc = "idle"
    BY DEF NoRequest
  <2> QED BY <1>3, <2>1, <2>2
<1> QED BY <1>1, <1>2, <1>6, <1>7, <1>8, <1>9 DEF Next, ProbeStep

-----------------------------------------------------------------------------
(* Theorems                                                                *)

LEMMA PathInvariant == Spec => []PathInv
<1> QED BY PathInitSatisfies, PathInvStep, PTL DEF Spec

\* mcp_http_limits.py and mcp_http_gate.py: every variable keeps its type, a request
\* is in get() exactly while it stands at the gate, and never more requests are
\* inside than there are permits, for any number of callers and any durations.
THEOREM TypeCorrect == Spec => []TypeOK
<1>1. PathInv => TypeOK
  BY Parts DEF PathInv, TypeOK, WaitsAtGate
<1> QED BY <1>1, PathInvariant, PTL

\* mcp_http_gate.py: what is cached or handed to a request as "ready" is as recent as
\* its probe.
THEOREM ReadinessIsRecent == Spec => []ReadyIsRecent
<1>1. PathInv => ReadyIsRecent
  BY Parts DEF PathInv
<1> QED BY <1>1, PathInvariant, PTL

\* mcp_http_limits.py, tracked_send: a request whose budget ends with its response
\* under way is not answered a second time.
THEOREM NoSecondResponse == Spec => []OneResponse
<1>1. PathInv => OneResponse
  BY DEF PathInv, SilentBefore, Silent, OneResponse
<1> QED BY <1>1, PathInvariant, PTL

\* mcp_http_gate.py, AuthenticatedReadinessGate: no data request reaches the
\* transport on a readiness older than the verdict it was given.
THEOREM DataBehindTheGate == Spec => DataNeedsRecentReadiness
<1> DEFINE Recently ==
      \A c \in Callers :
        conn[c].kind = "data" /\ ~ At(c, "running") /\ At(c, "running")' =>
            \A i \in Conditions : sick[i] <= 1 + caller[c].age
<1>1. ASSUME PathInv, Next, NEW c \in Callers,
             conn[c].kind = "data", ~ At(c, "running"), At(c, "running")'
      PROVE  GateOpens(c) /\ caller[c].ready
  BY <1>1, OnlyTheGateOpens DEF At
<1>2. PathInv /\ [Next]_vars => [Recently]_vars
  <2> SUFFICES ASSUME PathInv, Next PROVE Recently
    OBVIOUS
  <2> QED BY <1>1, Parts DEF PathInv, GateOpens, ReadyIsRecent
<1> QED BY <1>2, PathInvariant, PTL DEF Spec, DataNeedsRecentReadiness
=============================================================================
