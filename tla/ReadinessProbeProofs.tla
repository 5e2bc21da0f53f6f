------------------------ MODULE ReadinessProbeProofs ------------------------
(***************************************************************************)
(* Proofs about ReadinessProbe for any callers, scopes and durations.      *)
(* ReadyIsRecent says how old a report may be; what makes it inductive is  *)
(* the same statement about the report that is still being made: a probe   *)
(* without an issue has seen every condition it has passed hold since it   *)
(* began (Unblemished).                                                     *)
(***************************************************************************)
EXTENDS ReadinessProbe, Integers, TLAPS

\* What a probe has passed without an issue held at some moment since it began.
Unblemished ==
    probe.on /\ ~ probe.issues =>
        \A i \in Conditions : i < probe.next => sick[i] <= 1 + ProbeAge

-----------------------------------------------------------------------------
(* Ages                                                                    *)

LEMMA Bounds ==
    /\ ScopeCount \in Nat /\ Ttl \in Nat \ {0} /\ Patience \in Nat \ {0}
    /\ ProbeCap \in Nat /\ MaxChanges \in Nat /\ MaxErrors \in Nat
    /\ SickCap \in Nat /\ SickCap = ProbeCap + Ttl + 1
BY ProbeAssumption DEF SickCap

LEMMA CountedType ==
    ASSUME NEW age \in 0..ProbeCap, NEW more \in 0..Ttl
    PROVE  Counted(age, more) \in 0..SickCap
BY Bounds DEF Counted

\* Whatever was not false for too long before a tick is not afterwards, since the
\* age that it is measured by grows as well.
LEMMA ProbeAges ==
    ASSUME NEW age \in 0..ProbeCap, NEW n \in 0..SickCap, n <= 1 + Counted(age, 0)
    PROVE  Later(n, SickCap) <= 1 + Counted(Later(age, ProbeCap), 0)
BY Bounds DEF Counted, Later

LEMMA VerdictAges ==
    ASSUME NEW span \in 0..ProbeCap, NEW left \in 1..Ttl, NEW n \in 0..SickCap,
           n <= 1 + Counted(span, Ttl - left)
    PROVE  Later(n, SickCap) <= 1 + Counted(span, Ttl - (left - 1))
BY Bounds DEF Counted, Later

LEMMA LaterType ==
    ASSUME NEW cap \in Nat, NEW n \in 0..cap
    PROVE  Later(n, cap) \in 0..cap
BY DEF Later

LEMMA SoonerType ==
    ASSUME NEW cap \in Nat, NEW n \in 0..cap
    PROVE  Sooner(n) \in 0..cap
BY DEF Sooner

\* The ages of what is under way and of what is cached are ages.
LEMMA AgesAreAges ==
    ASSUME ProbeTypeOK
    PROVE  /\ ProbeAge \in 0..SickCap
           /\ VerdictAge \in 0..SickCap
<1>1. probe.age \in 0..ProbeCap /\ verdict.span \in 0..ProbeCap /\ verdict.left \in 0..Ttl
  BY DEF ProbeTypeOK
<1>2. 0 \in 0..Ttl /\ Ttl - verdict.left \in 0..Ttl
  BY <1>1, Bounds
<1> QED BY <1>1, <1>2, CountedType DEF ProbeAge, VerdictAge

CallType == [pc : {"out", "asking", "told"}, ready : BOOLEAN,
             left : 0..Patience, age : 0..SickCap]

LEMMA ToldType ==
    ASSUME NEW call \in CallType, NEW ready \in BOOLEAN, NEW age \in 0..SickCap
    PROVE  /\ Told(call, ready, age) \in CallType
           /\ Told(call, ready, age).pc = "told"
           /\ Told(call, ready, age).ready = ready
           /\ ready => Told(call, ready, age).age = age
<1>1. 0 \in 0..Patience /\ 0 \in 0..SickCap
  BY Bounds
<1> DEFINE told == IF ready THEN age ELSE 0
<1>2. told \in 0..SickCap
  BY <1>1
<1>3. ready => told = age
  OBVIOUS
<1>4. Told(call, ready, age) =
         [call EXCEPT !.pc = "told", !.ready = ready, !.left = 0, !.age = told]
  BY DEF Told
<1> HIDE DEF told
<1>5. ASSUME NEW t, t = [call EXCEPT !.pc = "told", !.ready = ready, !.left = 0, !.age = told]
      PROVE  t \in CallType /\ t.pc = "told" /\ t.ready = ready /\ t.age = told
  BY <1>1, <1>2, <1>5 DEF CallType
<1> QED BY <1>3, <1>4, <1>5

-----------------------------------------------------------------------------
(* The parts of the invariant                                              *)

ProbeType == [on : BOOLEAN, next : 1..(2 * ScopeCount + 1), issues : BOOLEAN, age : 0..ProbeCap]
VerdictType == [ready : BOOLEAN, left : 0..Ttl, span : 0..ProbeCap]

VerdictIsRecent ==
    Fresh /\ verdict.ready => \A i \in Conditions : sick[i] <= 1 + VerdictAge

ToldRecently(c) ==
    caller[c].pc = "told" /\ caller[c].ready =>
        \A i \in Conditions : sick[i] <= 1 + caller[c].age

ProbeInv ==
    /\ sick \in [Conditions -> 0..SickCap]
    /\ verdict \in VerdictType
    /\ probe \in ProbeType
    /\ caller \in [Callers -> CallType]
    /\ \A c \in Callers : caller[c].pc = "asking" => probe.on
    /\ changes \in 0..MaxChanges /\ errors \in 0..MaxErrors
    /\ VerdictIsRecent
    /\ \A c \in Callers : ToldRecently(c)
    /\ Unblemished

LEMMA Parts == ProbeInv => ProbeTypeOK /\ ReadyIsRecent
BY Zenon DEF ProbeInv, ProbeTypeOK, ReadyIsRecent, VerdictIsRecent, ToldRecently, CallType,
             ProbeType, VerdictType

LEMMA NoProbeType == NoProbe \in ProbeType /\ Started \in ProbeType
<1>1. 1 \in 1..(2 * ScopeCount + 1) /\ 0 \in 0..ProbeCap
  BY Bounds
<1>2. NoProbe \in ProbeType
  BY <1>1 DEF NoProbe, ProbeType
<1> QED BY <1>2 DEF Started, NoProbe, ProbeType

LEMMA NoCallType ==
    /\ NoCall \in CallType /\ NoCall.pc = "out"
    /\ [NoCall EXCEPT !.pc = "asking", !.left = Patience] \in CallType
<1>1. 0 \in 0..Patience /\ 0 \in 0..SickCap /\ Patience \in 0..Patience
  BY Bounds
<1>2. NoCall \in CallType /\ NoCall.pc = "out"
  BY <1>1 DEF NoCall, CallType
<1> QED BY <1>1, <1>2 DEF NoCall, CallType

\* A caller that is told what a recent verdict says is told recently.
LEMMA RecentlyTold ==
    ASSUME NEW call \in CallType, NEW ready \in BOOLEAN, NEW age \in 0..SickCap,
           ready => \A i \in Conditions : sick[i] <= 1 + age
    PROVE  LET t == Told(call, ready, age)
           IN  t.ready => \A i \in Conditions : sick[i] <= 1 + t.age
BY ToldType, Zenon

-----------------------------------------------------------------------------
(* The steps                                                               *)

LEMMA GetStep ==
    ASSUME ProbeInv, NEW c \in Callers, Get(c)
    PROVE  /\ ProbeInv'
           /\ caller'[c].pc # "out"
           /\ \A d \in Callers \ {c} : caller'[d] = caller[d]
<1> USE DEF ProbeInv
<1>1. UNCHANGED <<sick, verdict, changes, errors>>
  BY DEF Get
<1>2. CASE Fresh
  <2> DEFINE t == Told(caller[c], verdict.ready, VerdictAge)
  <2>1. caller' = [caller EXCEPT ![c] = t] /\ probe' = probe
    BY <1>2 DEF Get
  <2>2. caller[c] \in CallType /\ verdict.ready \in BOOLEAN /\ VerdictAge \in 0..SickCap
    BY Parts, AgesAreAges DEF VerdictType
  <2>3. t \in CallType /\ t.pc = "told"
    BY <2>2, ToldType
  <2>4. t.ready => \A i \in Conditions : sick[i] <= 1 + t.age
    BY <1>2, <2>2, RecentlyTold DEF VerdictIsRecent
  <2> HIDE DEF t
  <2>5. /\ caller' \in [Callers -> CallType]
        /\ caller'[c] = t
        /\ \A d \in Callers \ {c} : caller'[d] = caller[d]
    BY <2>1, <2>3
  <2>6. \A d \in Callers : ToldRecently(d)'
    BY <1>1, <2>4, <2>5 DEF ToldRecently
  <2>7. \A d \in Callers : caller'[d].pc = "asking" => probe'.on
    BY <2>1, <2>3, <2>5
  <2>8. VerdictIsRecent' /\ Unblemished'
    BY <1>1, <2>1 DEF VerdictIsRecent, Unblemished, Fresh, VerdictAge, ProbeAge
  <2> QED BY <1>1, <2>1, <2>3, <2>5, <2>6, <2>7, <2>8
<1>3. CASE ~ Fresh
  <2> DEFINE t == [NoCall EXCEPT !.pc = "asking", !.left = Patience]
  <2>1. /\ caller' = [caller EXCEPT ![c] = t]
        /\ probe' = IF probe.on THEN probe ELSE Started
    BY <1>3 DEF Get
  <2>2. t \in CallType /\ t.pc = "asking"
    BY NoCallType DEF NoCall
  <2> HIDE DEF t
  <2>3. /\ caller' \in [Callers -> CallType]
        /\ caller'[c] = t
        /\ \A d \in Callers \ {c} : caller'[d] = caller[d]
    BY <2>1, <2>2
  <2>4. probe' \in ProbeType /\ probe'.on
    BY <2>1, NoProbeType DEF Started, NoProbe
  <2>5. Unblemished'
    <3>1. CASE probe.on
      BY <1>1, <2>1, <3>1 DEF Unblemished, ProbeAge
    <3>2. CASE ~ probe.on
      <4>1. probe'.next = 1
        BY <2>1, <3>2 DEF Started, NoProbe
      <4>2. \A i \in Conditions : ~ i < 1
        BY Bounds DEF Conditions
      <4> QED BY <4>1, <4>2 DEF Unblemished
    <3> QED BY <3>1, <3>2
  <2>6. VerdictIsRecent' /\ \A d \in Callers : ToldRecently(d)'
    BY <1>1, <2>2, <2>3 DEF VerdictIsRecent, Fresh, VerdictAge, ToldRecently
  <2> QED BY <1>1, <2>2, <2>3, <2>4, <2>5, <2>6
<1> QED BY <1>2, <1>3

LEMMA WaitTimesOutStep ==
    ASSUME ProbeInv, NEW c \in Callers, WaitTimesOut(c)
    PROVE  /\ ProbeInv'
           /\ caller[c].pc # "out" /\ caller'[c].pc # "out"
           /\ \A d \in Callers \ {c} : caller'[d] = caller[d]
<1> USE DEF ProbeInv
<1> DEFINE t == Told(caller[c], FALSE, 0)
<1>1. UNCHANGED <<sick, verdict, probe, changes, errors>> /\ caller' = [caller EXCEPT ![c] = t]
  BY DEF WaitTimesOut
<1>2. t \in CallType /\ t.pc = "told" /\ ~ t.ready
  <2>1. caller[c] \in CallType /\ FALSE \in BOOLEAN /\ 0 \in 0..SickCap
    BY Bounds
  <2> QED BY <2>1, ToldType
<1> HIDE DEF t
<1>3. /\ caller' \in [Callers -> CallType]
      /\ caller'[c] = t
      /\ \A d \in Callers \ {c} : caller'[d] = caller[d]
  BY <1>1, <1>2
<1>4. VerdictIsRecent' /\ Unblemished' /\ \A d \in Callers : ToldRecently(d)'
  BY <1>1, <1>2, <1>3
  DEF VerdictIsRecent, Unblemished, Fresh, VerdictAge, ProbeAge, ToldRecently
<1> QED BY <1>1, <1>2, <1>3, <1>4 DEF WaitTimesOut

LEMMA CallEndsStep ==
    ASSUME ProbeInv, NEW c \in Callers, CallEnds(c),
           UNCHANGED <<sick, verdict, probe, changes, errors>>
    PROVE  /\ ProbeInv'
           /\ caller'[c].pc = "out"
           /\ \A d \in Callers \ {c} : caller'[d] = caller[d]
<1> USE DEF ProbeInv
<1>1. /\ caller' \in [Callers -> CallType]
      /\ caller'[c].pc = "out"
      /\ \A d \in Callers \ {c} : caller'[d] = caller[d]
  BY NoCallType DEF CallEnds
<1>2. VerdictIsRecent' /\ Unblemished' /\ \A d \in Callers : ToldRecently(d)'
  BY <1>1 DEF VerdictIsRecent, Unblemished, Fresh, VerdictAge, ProbeAge, ToldRecently
<1> QED BY <1>1, <1>2

\* Whether it finds an issue or leaves a scope, the probe comes to a later condition.
LEMMA ProbeChecksStep ==
    ASSUME ProbeInv, ProbeChecks
    PROVE  ProbeInv' /\ caller' = caller
<1> USE DEF ProbeInv
<1> DEFINE i == probe.next
<1>1. UNCHANGED <<sick, verdict, caller, changes, errors>> /\ probe.on /\ i \in Conditions
  BY DEF ProbeChecks
<1>2. /\ i + 1 \in 1..(2 * ScopeCount + 1)
      /\ OfPlan(i) => i + 2 \in 1..(2 * ScopeCount + 1)
  BY <1>1, Bounds DEF Conditions, OfPlan
<1>3. VerdictIsRecent' /\ \A d \in Callers : ToldRecently(d)'
  BY <1>1 DEF VerdictIsRecent, Fresh, VerdictAge, ToldRecently
<1>4. CASE sick[i] = 0 /\ probe' = [probe EXCEPT !.next = i + 1]
  <2>1. /\ probe' \in ProbeType /\ probe'.on = probe.on /\ probe'.issues = probe.issues
        /\ probe'.next = i + 1 /\ probe'.age = probe.age
    BY <1>2, <1>4 DEF ProbeType
  <2>2. ASSUME probe'.on, ~ probe'.issues, NEW j \in Conditions, j < probe'.next
        PROVE  sick'[j] <= 1 + ProbeAge'
    <3>1. ProbeAge' = ProbeAge /\ ProbeAge \in 0..SickCap
      BY <2>1, Parts, AgesAreAges DEF ProbeAge
    <3>2. CASE j < i
      BY <1>1, <2>1, <2>2, <3>1, <3>2 DEF Unblemished
    <3>3. CASE j = i
      BY <1>1, <1>4, <3>1, <3>3, Bounds
    <3>4. j < i \/ j = i
      BY <2>1, <2>2, <1>1, Bounds DEF Conditions
    <3> QED BY <3>2, <3>3, <3>4
  <2>3. Unblemished'
    BY <1>1, <2>2 DEF Unblemished, ProbeAge
  <2> QED BY <1>1, <1>3, <2>1, <2>3
<1>5. CASE probe' = [probe EXCEPT !.next = IF OfPlan(i) THEN i + 2 ELSE i + 1, !.issues = TRUE]
  <2> DEFINE n == IF OfPlan(i) THEN i + 2 ELSE i + 1
  <2>1. n \in 1..(2 * ScopeCount + 1)
    BY <1>2
  <2> HIDE DEF n
  <2>2. probe' = [probe EXCEPT !.next = n, !.issues = TRUE]
    BY <1>5 DEF n
  <2>3. probe' \in ProbeType /\ probe'.on = probe.on /\ probe'.issues
    BY <2>1, <2>2 DEF ProbeType
  <2>4. Unblemished'
    BY <2>3 DEF Unblemished
  <2> QED BY <1>1, <1>3, <2>3, <2>4
<1> QED BY <1>1, <1>4, <1>5 DEF ProbeChecks

\* A report that says "ready" only when its probe went through without an issue is
\* as recent as the probe, for the cache and for everybody who waits.
LEMMA CompletesStep ==
    ASSUME ProbeInv, NEW ready \in BOOLEAN, Completes(ready), UNCHANGED <<sick, changes>>,
           errors' \in 0..MaxErrors,
           ready => \A i \in Conditions : sick[i] <= 1 + ProbeAge
    PROVE  /\ ProbeInv'
           /\ \A c \in Callers : caller'[c].pc = "out" <=> caller[c].pc = "out"
<1> USE DEF ProbeInv
<1>1. ProbeAge \in 0..SickCap /\ probe.age \in 0..ProbeCap
  BY Parts, AgesAreAges DEF ProbeType
<1>2. verdict' \in VerdictType /\ probe' = NoProbe /\ ~ probe'.on /\ probe' \in ProbeType
  <2>1. Ttl \in 0..Ttl
    BY Bounds
  <2> QED BY <1>1, <2>1, NoProbeType DEF Completes, VerdictType, NoProbe
<1>3. VerdictIsRecent'
  <2>1. verdict'.ready = ready /\ verdict'.left = Ttl /\ verdict'.span = probe.age
    BY DEF Completes
  <2>2. VerdictAge' = ProbeAge
    <3>1. Ttl - Ttl = 0
      BY Bounds
    <3> QED BY <2>1, <3>1 DEF VerdictAge, ProbeAge
  <2> QED BY <2>1, <2>2 DEF VerdictIsRecent
<1>4. ASSUME NEW c \in Callers
      PROVE  /\ caller'[c] \in CallType
             /\ caller'[c].pc # "asking"
             /\ caller'[c].pc = "out" <=> caller[c].pc = "out"
             /\ ToldRecently(c)'
  <2>1. caller[c] \in CallType
    OBVIOUS
  <2>2. CASE caller[c].pc = "asking"
    <3> DEFINE t == Told(caller[c], ready, ProbeAge)
    <3>1. caller'[c] = t
      BY <2>2 DEF Completes
    <3>2. t \in CallType /\ t.pc = "told"
      BY <1>1, <2>1, ToldType
    <3>3. t.ready => \A i \in Conditions : sick[i] <= 1 + t.age
      BY <1>1, <2>1, RecentlyTold
    <3> HIDE DEF t
    <3> QED BY <2>2, <3>1, <3>2, <3>3 DEF ToldRecently
  <2>3. CASE caller[c].pc # "asking"
    <3>1. caller'[c] = caller[c]
      BY <2>3 DEF Completes
    <3> QED BY <2>1, <2>3, <3>1 DEF ToldRecently
  <2> QED BY <2>2, <2>3
<1>5. caller' \in [Callers -> CallType]
  <2>1. DOMAIN caller' = Callers /\ caller' = [c \in Callers |-> caller'[c]]
    BY DEF Completes
  <2> QED BY <1>4, <2>1
<1>6. Unblemished'
  BY <1>2 DEF Unblemished
<1> QED BY <1>2, <1>3, <1>4, <1>5, <1>6

LEMMA ProbeEndsStep ==
    ASSUME ProbeInv, ProbeReports \/ ProbeFails
    PROVE  /\ ProbeInv'
           /\ \A c \in Callers : caller'[c].pc = "out" <=> caller[c].pc = "out"
<1>1. CASE ProbeReports
  <2>1. Completes(~ probe.issues) /\ UNCHANGED <<sick, changes, errors>> /\ Finished
    BY <1>1 DEF ProbeReports
  <2>2. (~ probe.issues) \in BOOLEAN
    BY DEF ProbeInv, ProbeType
  <2>3. \A i \in Conditions : i < probe.next
    BY <2>1, Bounds DEF Finished, Conditions
  <2>4. ~ probe.issues => \A i \in Conditions : sick[i] <= 1 + ProbeAge
    BY <2>1, <2>3 DEF ProbeInv, Unblemished, Finished
  <2>5. errors' \in 0..MaxErrors
    BY <2>1 DEF ProbeInv
  <2> QED BY <2>1, <2>2, <2>4, <2>5, CompletesStep
<1>2. CASE ProbeFails
  <2>1. Completes(FALSE) /\ UNCHANGED <<sick, changes>>
    BY <1>2 DEF ProbeFails
  <2>2. errors' \in 0..MaxErrors
    BY <1>2, Bounds DEF ProbeFails, ProbeInv
  <2> QED BY <2>1, <2>2, CompletesStep
<1> QED BY <1>1, <1>2

\* A condition that becomes false has been false for no time yet.
LEMMA ConditionChangesStep ==
    ASSUME ProbeInv, NEW i \in Conditions, ConditionChanges(i)
    PROVE  ProbeInv' /\ caller' = caller
<1> USE DEF ProbeInv
<1>1. UNCHANGED <<verdict, probe, caller, errors>> /\ changes' \in 0..MaxChanges
  BY Bounds DEF ConditionChanges
<1>2. sick' \in [Conditions -> 0..SickCap]
      /\ \A j \in Conditions : sick'[j] = sick[j] \/ sick'[j] \in {0, 1}
  BY Bounds DEF ConditionChanges
<1>3. /\ ProbeAge \in 0..SickCap /\ VerdictAge \in 0..SickCap
      /\ \A c \in Callers : caller[c].age \in 0..SickCap
  BY Parts, AgesAreAges DEF CallType
<1>4. ASSUME NEW age \in 0..SickCap, NEW j \in Conditions, sick[j] <= 1 + age
      PROVE  sick'[j] <= 1 + age
  BY <1>2, <1>4, Bounds
<1>5. VerdictIsRecent'
  BY <1>1, <1>3, <1>4 DEF VerdictIsRecent, Fresh, VerdictAge
<1>6. \A c \in Callers : ToldRecently(c)'
  BY <1>1, <1>3, <1>4 DEF ToldRecently
<1>7. Unblemished'
  BY <1>1, <1>3, <1>4 DEF Unblemished, ProbeAge
<1> QED BY <1>1, <1>2, <1>5, <1>6, <1>7

LEMMA ProbeTickStep ==
    ASSUME ProbeInv, ProbeTick
    PROVE  /\ ProbeInv'
           /\ \A c \in Callers : caller'[c].pc = caller[c].pc
<1> USE DEF ProbeInv
<1>1. /\ UNCHANGED <<changes, errors>>
      /\ sick' = [i \in Conditions |-> IF sick[i] = 0 THEN 0 ELSE Later(sick[i], SickCap)]
      /\ verdict' = [verdict EXCEPT !.left = Sooner(@)]
      /\ probe' = [probe EXCEPT !.age = IF probe.on THEN Later(@, ProbeCap) ELSE @]
      /\ caller' = [c \in Callers |-> [caller[c] EXCEPT !.left = Sooner(@)]]
  BY DEF ProbeTick
<1>2. sick' \in [Conditions -> 0..SickCap]
  <2>1. \A i \in Conditions : sick[i] \in 0..SickCap /\ Later(sick[i], SickCap) \in 0..SickCap
    BY LaterType, Bounds
  <2>2. 0 \in 0..SickCap
    BY Bounds
  <2> QED BY <1>1, <2>1, <2>2
<1>3. /\ verdict' \in VerdictType
      /\ verdict'.ready = verdict.ready /\ verdict'.span = verdict.span
      /\ verdict'.left = Sooner(verdict.left)
  <2>1. Sooner(verdict.left) \in 0..Ttl
    BY SoonerType, Bounds DEF VerdictType
  <2> QED BY <1>1, <2>1 DEF VerdictType
<1>4. /\ probe' \in ProbeType
      /\ probe'.on = probe.on /\ probe'.next = probe.next /\ probe'.issues = probe.issues
      /\ probe.on => probe'.age = Later(probe.age, ProbeCap)
  <2> DEFINE age == IF probe.on THEN Later(probe.age, ProbeCap) ELSE probe.age
  <2>1. probe.age \in 0..ProbeCap /\ Later(probe.age, ProbeCap) \in 0..ProbeCap
    BY LaterType, Bounds DEF ProbeType
  <2>2. age \in 0..ProbeCap /\ (probe.on => age = Later(probe.age, ProbeCap))
    BY <2>1
  <2>3. probe' = [probe EXCEPT !.age = age]
    BY <1>1
  <2> HIDE DEF age
  <2> QED BY <2>2, <2>3 DEF ProbeType
<1>5. /\ caller' \in [Callers -> CallType]
      /\ \A c \in Callers : caller'[c].pc = caller[c].pc
  <2>1. ASSUME NEW c \in Callers
        PROVE  /\ [caller[c] EXCEPT !.left = Sooner(@)] \in CallType
               /\ caller'[c].pc = caller[c].pc
    <3>1. caller[c] \in CallType /\ Sooner(caller[c].left) \in 0..Patience
      BY SoonerType, Bounds DEF CallType
    <3>2. caller'[c] = [caller[c] EXCEPT !.left = Sooner(@)]
      BY <1>1
    <3> QED BY <3>1, <3>2 DEF CallType
  <2> QED BY <1>1, <2>1
<1>6. \A i \in Conditions : sick[i] \in 0..SickCap /\ sick'[i] <= Later(sick[i], SickCap)
  <2>1. \A i \in Conditions : sick[i] \in 0..SickCap /\ Later(sick[i], SickCap) \in 0..SickCap
    BY LaterType, Bounds
  <2>2. ASSUME NEW i \in Conditions
        PROVE  sick'[i] = 0 \/ sick'[i] = Later(sick[i], SickCap)
    BY <1>1
  <2> QED BY <2>1, <2>2, Bounds
<1>7. VerdictIsRecent'
  <2> SUFFICES ASSUME verdict'.left > 0, verdict'.ready, NEW i \in Conditions
               PROVE  sick'[i] <= 1 + VerdictAge'
    BY DEF VerdictIsRecent, Fresh
  <2>1. verdict.left \in 1..Ttl /\ verdict'.left = verdict.left - 1 /\ verdict.span \in 0..ProbeCap
    BY <1>3, Bounds DEF VerdictType, Sooner
  <2>2. sick[i] <= 1 + Counted(verdict.span, Ttl - verdict.left)
    BY <1>3, <2>1 DEF VerdictIsRecent, Fresh, VerdictAge
  <2>3. Later(sick[i], SickCap) <= 1 + Counted(verdict.span, Ttl - (verdict.left - 1))
    BY <1>6, <2>1, <2>2, VerdictAges
  <2>4. VerdictAge' = Counted(verdict.span, Ttl - (verdict.left - 1))
    BY <1>3, <2>1 DEF VerdictAge
  <2>5. VerdictAge' \in 0..SickCap
    <3>1. Ttl - (verdict.left - 1) \in 0..Ttl
      BY <2>1, Bounds
    <3> QED BY <2>1, <2>4, <3>1, CountedType
  <2>6. sick'[i] \in 0..SickCap /\ Later(sick[i], SickCap) \in 0..SickCap
    BY <1>2, <1>6, LaterType, Bounds
  <2> QED BY <1>6, <2>3, <2>4, <2>5, <2>6, Bounds
<1>8. \A c \in Callers : ToldRecently(c)'
  BY <1>5 DEF ProbeTick, NobodyIsDue, ToldRecently
<1>9. Unblemished'
  <2> SUFFICES ASSUME probe.on, ~ probe.issues, NEW i \in Conditions, i < probe.next
               PROVE  sick'[i] <= 1 + ProbeAge'
    BY <1>4 DEF Unblemished
  <2>1. probe.age \in 0..ProbeCap /\ probe'.age = Later(probe.age, ProbeCap)
    BY <1>4 DEF ProbeType
  <2>2. sick[i] <= 1 + Counted(probe.age, 0)
    BY DEF Unblemished, ProbeAge
  <2>3. Later(sick[i], SickCap) <= 1 + Counted(Later(probe.age, ProbeCap), 0)
    BY <1>6, <2>1, <2>2, ProbeAges
  <2>4. ProbeAge' = Counted(Later(probe.age, ProbeCap), 0)
    BY <2>1 DEF ProbeAge
  <2>5. ProbeAge' \in 0..SickCap
    <3>1. 0 \in 0..Ttl /\ Later(probe.age, ProbeCap) \in 0..ProbeCap
      BY <2>1, LaterType, Bounds
    <3> QED BY <2>4, <3>1, CountedType
  <2>6. sick'[i] \in 0..SickCap /\ Later(sick[i], SickCap) \in 0..SickCap
    BY <1>2, <1>6, LaterType, Bounds
  <2> QED BY <1>6, <2>3, <2>4, <2>5, <2>6, Bounds
<1> QED BY <1>1, <1>2, <1>3, <1>4, <1>5, <1>7, <1>8, <1>9

-----------------------------------------------------------------------------
(* Theorems                                                                *)

LEMMA ProbeInitSatisfies == ProbeInit => ProbeInv
<1> SUFFICES ASSUME ProbeInit PROVE ProbeInv
  OBVIOUS
<1>1. sick \in [Conditions -> 0..SickCap]
  BY Bounds DEF ProbeInit
<1>2. verdict \in VerdictType /\ ~ Fresh
  BY Bounds DEF ProbeInit, VerdictType, Fresh
<1>3. probe \in ProbeType /\ ~ probe.on
  BY NoProbeType DEF ProbeInit, NoProbe
<1>4. caller \in [Callers -> CallType] /\ \A c \in Callers : caller[c].pc = "out"
  BY NoCallType DEF ProbeInit
<1>5. changes \in 0..MaxChanges /\ errors \in 0..MaxErrors
  BY Bounds DEF ProbeInit
<1> QED BY <1>1, <1>2, <1>3, <1>4, <1>5
        DEF ProbeInv, VerdictIsRecent, ToldRecently, Unblemished

LEMMA ProbeInvStep == ProbeInv /\ [ProbeNext]_probeVars => ProbeInv'
<1> SUFFICES ASSUME ProbeInv, [ProbeNext]_probeVars PROVE ProbeInv'
  OBVIOUS
<1>1. ASSUME NEW c \in Callers,
             Get(c) \/ WaitTimesOut(c)
             \/ (CallEnds(c) /\ UNCHANGED <<sick, verdict, probe, changes, errors>>)
      PROVE  ProbeInv'
  BY <1>1, GetStep, WaitTimesOutStep, CallEndsStep
<1>2. CASE ProbeChecks \/ ProbeReports \/ ProbeFails \/ ProbeTick
  BY <1>2, ProbeChecksStep, ProbeEndsStep, ProbeTickStep
<1>3. ASSUME NEW i \in Conditions, ConditionChanges(i) PROVE ProbeInv'
  BY <1>3, ConditionChangesStep
<1>4. CASE UNCHANGED probeVars
  BY <1>4 DEF probeVars, ProbeInv, VerdictIsRecent, ToldRecently, Unblemished, Fresh,
              VerdictAge, ProbeAge
<1> QED BY <1>1, <1>2, <1>3, <1>4 DEF ProbeNext

\* mcp_http_gate.py, ReadinessProbeController: whoever calls get(), as often and as
\* many at once as they like, is never told "ready" of scopes of which one has been
\* unready for longer than the time since the probe behind that answer began.
THEOREM ReadyIsRecentForAnyCallers == ProbeSpec => [](ProbeTypeOK /\ ReadyIsRecent)
<1>1. ProbeSpec => []ProbeInv
  BY ProbeInitSatisfies, ProbeInvStep, PTL DEF ProbeSpec
<1> QED BY <1>1, Parts, PTL
=============================================================================
