------------------------- MODULE SigningKeysProofs -------------------------
(***************************************************************************)
(* Proofs about SigningKeys for any number of requests, kids and bounds.   *)
(* The three invariants are inductive together: the type invariant says    *)
(* that only the holder of the lock looks a key up, so whatever it has     *)
(* found after the wait stays true until it lets go of the lock, and what  *)
(* it then caches was not cooling down.                                    *)
(***************************************************************************)
EXTENDS SigningKeys, SequenceTheorems, TLAPS

IInv == TypeOK /\ LookupsAreNeeded /\ FreshKeysAreNotRefused

Entries(s) == {s[i] : i \in DOMAIN s}

-----------------------------------------------------------------------------
(* The map of unknown kids                                                 *)

\* Popping a kid gives a sequence of old entries that is not longer.
LEMMA PoppedShrinks ==
    ASSUME NEW s \in Seq(Kids), NEW k
    PROVE  /\ Popped(s, k) \in Seq(Kids)
           /\ Len(Popped(s, k)) <= Len(s)
           /\ Entries(Popped(s, k)) \subseteq Entries(s)
<1>1. CASE ~ \E i \in DOMAIN s : s[i] = k
  BY <1>1, LenProperties DEF Popped, Entries
<1>2. CASE \E i \in DOMAIN s : s[i] = k
  <2> DEFINE i == CHOOSE i \in DOMAIN s : s[i] = k
             a == SubSeq(s, 1, i - 1)
             b == SubSeq(s, i + 1, Len(s))
  <2>1. /\ Len(s) \in Nat /\ DOMAIN s = 1..Len(s) /\ i \in 1..Len(s)
        /\ \A j \in 1..Len(s) : s[j] \in Kids
    BY <1>2, LenProperties, ElementOfSeq
  <2>2. Popped(s, k) = a \o b
    BY <1>2 DEF Popped
  <2> HIDE DEF i
  <2>3. /\ a \in Seq(Kids)
        /\ Len(a) = i - 1
        /\ \A j \in 1..(i - 1) : a[j] = s[j]
    <3>1. /\ 1 \in Int /\ i - 1 \in Int
          /\ \A j \in 1..(i - 1) : s[j] \in Kids
      BY <2>1
    <3>2. /\ a \in Seq(Kids)
          /\ Len(a) = IF 1 <= i - 1 THEN i - 1 - 1 + 1 ELSE 0
          /\ \A j \in 1..(i - 1 - 1 + 1) : a[j] = s[1 + j - 1]
      BY <3>1, SubSeqProperties
    <3> QED BY <3>2, <2>1
  <2>4. /\ b \in Seq(Kids)
        /\ Len(b) = Len(s) - i
        /\ \A j \in 1..(Len(s) - i) : b[j] = s[i + j]
    <3>1. /\ i + 1 \in Int /\ Len(s) \in Int
          /\ \A j \in (i + 1)..Len(s) : s[j] \in Kids
      BY <2>1
    <3>2. /\ b \in Seq(Kids)
          /\ Len(b) = IF i + 1 <= Len(s) THEN Len(s) - (i + 1) + 1 ELSE 0
          /\ \A j \in 1..(Len(s) - (i + 1) + 1) : b[j] = s[i + 1 + j - 1]
      BY <3>1, SubSeqProperties
    <3> HIDE DEF b
    <3>3. Len(s) - (i + 1) + 1 = Len(s) - i
      BY <2>1
    <3>4. Len(b) = Len(s) - i
      <4>1. CASE i + 1 <= Len(s)
        BY <3>2, <3>3, <4>1
      <4>2. CASE ~ i + 1 <= Len(s)
        <5>1. i = Len(s)
          <6>1. i \in Nat /\ Len(s) \in Nat /\ i <= Len(s)
            BY <2>1
          <6> QED BY <6>1, <4>2
        <5>2. Len(s) - i = 0
          BY <5>1, <2>1
        <5>3. Len(b) = 0
          BY <3>2, <4>2
        <5> QED BY <5>2, <5>3
      <4> QED BY <4>1, <4>2
    <3>5. \A j \in 1..(Len(s) - i) : i + 1 + j - 1 = i + j
      BY <2>1
    <3> QED BY <3>2, <3>3, <3>4, <3>5
  <2>5. /\ a \o b \in Seq(Kids)
        /\ Len(a \o b) = Len(a) + Len(b)
        /\ \A j \in 1..(Len(a) + Len(b)) :
              (a \o b)[j] = IF j <= Len(a) THEN a[j] ELSE b[j - Len(a)]
    BY <2>3, <2>4, ConcatProperties
  <2> HIDE DEF a, b
  <2>6. ASSUME NEW j \in DOMAIN (a \o b)
        PROVE  (a \o b)[j] \in Entries(s)
    <3>1. j \in 1..(Len(a) + Len(b))
      BY <2>5, LenProperties
    <3>2. CASE j <= Len(a)
      BY <3>1, <3>2, <2>1, <2>3, <2>5 DEF Entries
    <3>3. CASE ~ j <= Len(a)
      <4>1. j - Len(a) \in 1..(Len(s) - i) /\ i + (j - Len(a)) \in 1..Len(s)
        BY <3>1, <3>3, <2>1, <2>3, <2>4
      <4>2. (a \o b)[j] = s[i + (j - Len(a))]
        BY <4>1, <3>1, <3>3, <2>4, <2>5
      <4> QED BY <4>1, <4>2, <2>1 DEF Entries
    <3> QED BY <3>2, <3>3
  <2>7. Len(a \o b) <= Len(s)
    BY <2>1, <2>3, <2>4, <2>5
  <2>8. Entries(a \o b) \subseteq Entries(s)
    BY <2>6 DEF Entries
  <2> QED BY <2>2, <2>5, <2>7, <2>8
<1> QED BY <1>1, <1>2

\* The tail drops an entry.
LEMMA TailShrinks ==
    ASSUME NEW s \in Seq(Kids), s # <<>>
    PROVE  /\ Tail(s) \in Seq(Kids)
           /\ Len(Tail(s)) = Len(s) - 1
           /\ Entries(Tail(s)) \subseteq Entries(s)
<1>1. /\ Tail(s) \in Seq(Kids)
      /\ Len(Tail(s)) = Len(s) - 1
      /\ \A i \in 1..Len(Tail(s)) : Tail(s)[i] = s[i + 1]
  BY HeadTailProperties
<1>2. Len(s) \in Nat /\ DOMAIN s = 1..Len(s) /\ DOMAIN Tail(s) = 1..Len(Tail(s))
  BY <1>1, LenProperties
<1>3. \A i \in DOMAIN Tail(s) : Tail(s)[i] = s[i + 1] /\ i + 1 \in DOMAIN s
  BY <1>1, <1>2
<1> QED BY <1>1, <1>3 DEF Entries

\* Remembering a kid keeps the limit, and adds no entry but that kid.
LEMMA RememberedIsBounded ==
    ASSUME cooling \in Seq(Kids), Len(cooling) <= MaxUnknownKids, NEW k \in Kids
    PROVE  /\ Remembered(k) \in Seq(Kids)
           /\ Len(Remembered(k)) <= MaxUnknownKids
           /\ Entries(Remembered(k)) \subseteq Cooling \cup {k}
<1> DEFINE s == IF Len(cooling) >= MaxUnknownKids THEN Tail(cooling) ELSE cooling
           t == Popped(s, k)
<1>1. MaxUnknownKids \in Nat \ {0} /\ Len(cooling) \in Nat
  BY LimitAssumption, LenProperties
<1>2. s \in Seq(Kids) /\ Len(s) < MaxUnknownKids /\ Entries(s) \subseteq Cooling
  <2>1. CASE Len(cooling) >= MaxUnknownKids
    <3>1. cooling # <<>>
      BY <1>1, <2>1, EmptySeq
    <3> QED BY <1>1, <2>1, <3>1, TailShrinks DEF Entries, Cooling
  <2>2. CASE ~ Len(cooling) >= MaxUnknownKids
    BY <1>1, <2>2 DEF Entries, Cooling
  <2> QED BY <2>1, <2>2
<1> HIDE DEF s
<1>3. t \in Seq(Kids) /\ Len(t) <= Len(s) /\ Entries(t) \subseteq Entries(s)
  BY <1>2, PoppedShrinks
<1>4. Remembered(k) = Append(t, k)
  BY DEF Remembered, s
<1> HIDE DEF t
<1>5. /\ Append(t, k) \in Seq(Kids)
      /\ Len(Append(t, k)) = Len(t) + 1
      /\ \A i \in 1..(Len(t) + 1) : Append(t, k)[i] = IF i = Len(t) + 1 THEN k ELSE t[i]
  BY <1>3
<1>6. /\ DOMAIN Append(t, k) = 1..(Len(t) + 1)
      /\ DOMAIN t = 1..Len(t) /\ Len(t) \in Nat /\ Len(s) \in Nat
  BY <1>2, <1>3, <1>5, LenProperties
<1>7. ASSUME NEW i \in DOMAIN Append(t, k)
      PROVE  Append(t, k)[i] \in Entries(t) \cup {k}
  BY <1>5, <1>6 DEF Entries
<1>8. Entries(Append(t, k)) \subseteq Cooling \cup {k}
  BY <1>2, <1>3, <1>7 DEF Entries
<1>9. Len(Append(t, k)) <= MaxUnknownKids
  BY <1>1, <1>2, <1>3, <1>5, <1>6
<1> QED BY <1>4, <1>5, <1>8, <1>9

-----------------------------------------------------------------------------
(* The invariant                                                           *)

LEMMA InitSatisfies == Init => IInv
<1> SUFFICES ASSUME Init PROVE IInv
  OBVIOUS
<1>1. TypeOK
  <2>1. cooling \in Seq(Kids) /\ Len(cooling) <= MaxUnknownKids
    BY EmptySeq, LimitAssumption DEF Init
  <2>2. request \in [Requests -> CallRecords]
    BY DEF Init, CallRecords, RequestPcs, Outcomes
  <2>3. /\ rotations \in 0..MaxRotations /\ failures \in 0..MaxFailures
        /\ cancels \in 0..MaxCancels
    BY KeyBoundsAssumption DEF Init
  <2> QED BY <2>1, <2>2, <2>3, KeyNullsAssumption DEF Init, TypeOK
<1>2. LookupsAreNeeded
  BY DEF Init, LookupsAreNeeded
<1>3. FreshKeysAreNotRefused
  BY DEF Init, FreshKeysAreNotRefused
<1> QED BY <1>1, <1>2, <1>3 DEF IInv

\* A lookup that is under way does not see its grounds change while caches only
\* lose entries and no request enters or leaves a lookup.
LEMMA LookupsStayNeeded ==
    ASSUME TypeOK, LookupsAreNeeded,
           \A r \in Requests : request'[r].pc = "fetching" =>
                request[r].pc = "fetching" /\ request'[r].kid = request[r].kid,
           cached' \subseteq cached, Cooling' \subseteq Cooling,
           known' = known, globalCooling' => globalCooling
    PROVE  LookupsAreNeeded'
BY DEF TypeOK, LookupsAreNeeded, CooledDown, GloballyCooledDown

LEMMA ArriveStep ==
    ASSUME IInv, NEW r \in Requests, NEW k \in Kids, Arrive(r, k)
    PROVE  IInv'
<1> USE DEF IInv
<1>1. request' \in [Requests -> CallRecords]
  BY DEF Arrive, TypeOK, CallRecords, RequestPcs, Outcomes
<1>2. /\ request'[r].kid = k /\ request'[r].pc # "fetching"
      /\ \A q \in Requests \ {r} : request'[q] = request[q]
  BY DEF Arrive, TypeOK
<1>3. request[r].pc # "fetching"
  BY DEF Arrive, Outcomes
<1>4. TypeOK'
  BY <1>1, <1>2, <1>3 DEF Arrive, TypeOK
<1>5. LookupsAreNeeded'
  BY <1>2, LookupsStayNeeded DEF Arrive, Cooling
<1>6. FreshKeysAreNotRefused'
  BY DEF Arrive, FreshKeysAreNotRefused, Cooling
<1> QED BY <1>4, <1>5, <1>6

\* A request that moves on keeps its kid, and the others stay where they are.
LEMMA EndsEffect ==
    ASSUME TypeOK, NEW r \in Requests, NEW outcome \in RequestPcs, Ends(r, outcome)
    PROVE  /\ request' \in [Requests -> CallRecords]
           /\ request'[r].pc = outcome /\ request'[r].kid = request[r].kid
           /\ \A q \in Requests \ {r} : request'[q] = request[q]
BY DEF Ends, TypeOK, CallRecords

LEMMA GrantedStep ==
    ASSUME IInv, NEW r \in Requests, Granted(r)
    PROVE  IInv'
<1> USE DEF IInv
<1> DEFINE k == request[r].kid
           Needed == k \notin cached /\ ~ CooledDown(k) /\ ~ GloballyCooledDown(k)
<1>1. PICK outcome \in RequestPcs :
         /\ Ends(r, outcome)
         /\ \/ outcome \in {"accepted", "refused"} /\ holder' = holder
            \/ outcome = "fetching" /\ Needed /\ holder' = r
  BY DEF Granted, RequestPcs, Outcomes
<1>2. /\ holder = None /\ None \notin Requests /\ request[r].pc = "waiting"
      /\ \A q \in Requests : request[q].pc # "fetching"
  BY KeyNullsAssumption DEF Granted, TypeOK
<1>3. /\ request' \in [Requests -> CallRecords]
      /\ request'[r].pc = outcome /\ request'[r].kid = k
      /\ \A q \in Requests \ {r} : request'[q] = request[q]
  BY <1>1, EndsEffect
<1>4. TypeOK'
  <2>1. \A q \in Requests : request'[q].pc = "fetching" <=> holder' = q
    BY <1>1, <1>2, <1>3
  <2>2. holder' \in Requests \cup {None}
    BY <1>1, <1>2
  <2>3. \A q \in Requests : request'[q].pc # "idle" => request'[q].kid \in Kids
    BY <1>2, <1>3 DEF TypeOK
  <2> QED BY <1>3, <2>1, <2>2, <2>3 DEF Granted, TypeOK
<1>5. LookupsAreNeeded'
  BY <1>1, <1>2, <1>3
  DEF Granted, LookupsAreNeeded, CooledDown, GloballyCooledDown, Cooling
<1>6. FreshKeysAreNotRefused'
  BY DEF Granted, FreshKeysAreNotRefused, Cooling
<1> QED BY <1>4, <1>5, <1>6

\* What PyJWKClient does to its own cache stays within its type.
LEMMA AskedType ==
    ASSUME TypeOK, NEW k, NEW found, Asked(k, found)
    PROVE  jwkSet' \subseteq Kids /\ failures' \in 0..MaxFailures
BY KeyBoundsAssumption DEF Asked, TypeOK

\* When the holder lets go of the lock nobody is left inside.
LEMMA HolderLeaves ==
    ASSUME TypeOK, NEW r \in Requests, NEW outcome \in Outcomes, Ends(r, outcome),
           request[r].pc = "fetching", holder' = None
    PROVE  /\ request' \in [Requests -> CallRecords]
           /\ \A q \in Requests : request'[q].pc # "fetching"
           /\ \A q \in Requests : request'[q].pc # "idle" => request'[q].kid \in Kids
<1>1. holder = r /\ request[r].kid \in Kids
  BY DEF TypeOK
<1>2. /\ request' \in [Requests -> CallRecords]
      /\ request'[r].pc = outcome /\ request'[r].kid = request[r].kid
      /\ \A q \in Requests \ {r} : request'[q] = request[q]
  BY EndsEffect DEF RequestPcs
<1>3. \A q \in Requests \ {r} : request[q].pc # "fetching"
  BY <1>1 DEF TypeOK
<1> QED BY <1>1, <1>2, <1>3 DEF TypeOK, Outcomes

LEMMA KeyFoundStep ==
    ASSUME IInv, NEW r \in Requests, KeyFound(r)
    PROVE  IInv'
<1> USE DEF IInv
<1> DEFINE k == request[r].kid
<1>1. /\ request' \in [Requests -> CallRecords]
      /\ \A q \in Requests : request'[q].pc # "fetching"
      /\ \A q \in Requests : request'[q].pc # "idle" => request'[q].kid \in Kids
  BY HolderLeaves DEF KeyFound, Outcomes
<1>2. k \in Kids /\ k \notin Cooling
  BY DEF KeyFound, TypeOK, LookupsAreNeeded, CooledDown
<1>3. /\ cooling' \in Seq(Kids) /\ Len(cooling') <= Len(cooling)
      /\ Cooling' \subseteq Cooling
  <2>1. cooling' = Popped(cooling, k) /\ cooling \in Seq(Kids)
    BY DEF KeyFound, TypeOK
  <2>2. /\ Popped(cooling, k) \in Seq(Kids) /\ Len(Popped(cooling, k)) <= Len(cooling)
        /\ Entries(Popped(cooling, k)) \subseteq Entries(cooling)
    BY <2>1, PoppedShrinks
  <2>3. Cooling = Entries(cooling) /\ Cooling' = Entries(cooling')
    BY DEF Cooling, Entries
  <2> QED BY <2>1, <2>2, <2>3
<1>4. Len(cooling') <= MaxUnknownKids
  BY <1>3, LimitAssumption, LenProperties DEF TypeOK
<1>5. jwkSet' \subseteq Kids /\ failures' \in 0..MaxFailures
  BY AskedType DEF KeyFound
<1>6. TypeOK'
  BY <1>1, <1>2, <1>3, <1>4, <1>5, KeyNullsAssumption DEF KeyFound, TypeOK
<1>7. LookupsAreNeeded'
  BY <1>1 DEF LookupsAreNeeded
<1>8. FreshKeysAreNotRefused'
  BY <1>2, <1>3 DEF KeyFound, FreshKeysAreNotRefused
<1> QED BY <1>6, <1>7, <1>8

LEMMA KeyMissingStep ==
    ASSUME IInv, NEW r \in Requests, KeyMissing(r)
    PROVE  IInv'
<1> USE DEF IInv
<1> DEFINE k == request[r].kid
<1>1. /\ request' \in [Requests -> CallRecords]
      /\ \A q \in Requests : request'[q].pc # "fetching"
      /\ \A q \in Requests : request'[q].pc # "idle" => request'[q].kid \in Kids
  BY HolderLeaves DEF KeyMissing, Outcomes
<1>2. k \in Kids /\ k \notin cached
  BY DEF KeyMissing, TypeOK, LookupsAreNeeded
<1>3. /\ cooling' \in Seq(Kids) /\ Len(cooling') <= MaxUnknownKids
      /\ Cooling' \subseteq Cooling \cup {k}
  <2>1. cooling' = Remembered(k)
    BY DEF KeyMissing
  <2>2. Cooling' = Entries(cooling')
    BY DEF Cooling, Entries
  <2> QED BY <1>2, <2>1, <2>2, RememberedIsBounded DEF TypeOK
<1>4. jwkSet' \subseteq Kids /\ failures' \in 0..MaxFailures
  BY AskedType DEF KeyMissing
<1>5. TypeOK'
  BY <1>1, <1>2, <1>3, <1>4, KeyNullsAssumption DEF KeyMissing, TypeOK
<1>6. LookupsAreNeeded'
  BY <1>1 DEF LookupsAreNeeded
<1>7. FreshKeysAreNotRefused'
  BY <1>2, <1>3 DEF KeyMissing, FreshKeysAreNotRefused
<1> QED BY <1>5, <1>6, <1>7

LEMMA CancelStep ==
    ASSUME IInv, NEW r \in Requests, CancelWaiting(r) \/ CancelFetching(r)
    PROVE  IInv'
<1> USE DEF IInv
<1>1. cancels' \in 0..MaxCancels
  BY KeyBoundsAssumption DEF CancelWaiting, CancelFetching, TypeOK
<1>2. CASE CancelWaiting(r)
  <2>1. /\ request' \in [Requests -> CallRecords]
        /\ request'[r].pc = "idle"
        /\ \A q \in Requests \ {r} : request'[q] = request[q]
    BY <1>2, EndsEffect DEF CancelWaiting, RequestPcs, Outcomes
  <2>2. request[r].pc = "waiting"
    BY <1>2 DEF CancelWaiting
  <2>3. TypeOK'
    BY <1>1, <1>2, <2>1, <2>2 DEF CancelWaiting, TypeOK
  <2>4. LookupsAreNeeded'
    BY <1>2, <2>1, LookupsStayNeeded DEF CancelWaiting, Cooling
  <2>5. FreshKeysAreNotRefused'
    BY <1>2 DEF CancelWaiting, FreshKeysAreNotRefused, Cooling
  <2> QED BY <2>3, <2>4, <2>5
<1>3. CASE CancelFetching(r)
  <2>1. /\ request' \in [Requests -> CallRecords]
        /\ \A q \in Requests : request'[q].pc # "fetching"
        /\ \A q \in Requests : request'[q].pc # "idle" => request'[q].kid \in Kids
    BY <1>3, HolderLeaves DEF CancelFetching, Outcomes
  <2>2. strays' \in [Kids -> Nat]
    BY <1>3 DEF CancelFetching, TypeOK
  <2>3. TypeOK'
    BY <1>1, <1>3, <2>1, <2>2, KeyNullsAssumption DEF CancelFetching, TypeOK
  <2>4. LookupsAreNeeded'
    BY <2>1 DEF LookupsAreNeeded
  <2>5. FreshKeysAreNotRefused'
    BY <1>3 DEF CancelFetching, FreshKeysAreNotRefused, Cooling
  <2> QED BY <2>3, <2>4, <2>5
<1> QED BY <1>2, <1>3

\* Threads nobody waits for and the provider touch what PyJWKClient holds only.
LEMMA OutsideStep ==
    ASSUME IInv, (\E k \in Kids : StrayEnds(k)) \/ JwkSetExpires \/ Rotate
    PROVE  IInv'
<1> USE DEF IInv
<1>1. UNCHANGED <<cached, known, cooling, globalCooling, holder, request, cancels>>
  BY DEF StrayEnds, JwkSetExpires, Rotate
<1>2. /\ published' \subseteq Kids /\ jwkSet' \subseteq Kids
      /\ strays' \in [Kids -> Nat]
      /\ rotations' \in 0..MaxRotations /\ failures' \in 0..MaxFailures
  <2>1. CASE \E k \in Kids : StrayEnds(k)
    <3>1. PICK k \in Kids : StrayEnds(k)
      BY <2>1
    <3>2. strays' \in [Kids -> Nat]
      <4>1. strays \in [Kids -> Nat] /\ strays[k] > 0
        BY <3>1 DEF StrayEnds, TypeOK
      <4>2. strays[k] - 1 \in Nat
        BY <4>1
      <4> QED BY <3>1, <4>1, <4>2 DEF StrayEnds
    <3> QED BY <3>1, <3>2, AskedType DEF StrayEnds, TypeOK
  <2>2. CASE JwkSetExpires
    BY <2>2 DEF JwkSetExpires, TypeOK
  <2>3. CASE Rotate
    BY <2>3, KeyBoundsAssumption DEF Rotate, TypeOK
  <2> QED BY <2>1, <2>2, <2>3
<1>3. TypeOK'
  BY <1>1, <1>2 DEF TypeOK
<1>4. LookupsAreNeeded'
  BY <1>1, LookupsStayNeeded DEF Cooling
<1>5. FreshKeysAreNotRefused'
  BY <1>1 DEF FreshKeysAreNotRefused, Cooling
<1> QED BY <1>3, <1>4, <1>5

\* Deadlines pass: each takes an entry or a ground away.
LEMMA DeadlineStep ==
    ASSUME IInv, (\E k \in Kids : KeyExpires(k)) \/ CooldownEnds \/ GlobalCooldownEnds
    PROVE  IInv'
<1> USE DEF IInv
<1>1. UNCHANGED <<published, jwkSet, known, holder, request, strays, rotations,
                  failures, cancels>>
  BY DEF KeyExpires, CooldownEnds, GlobalCooldownEnds
<1>2. cached' \subseteq cached /\ globalCooling' \in BOOLEAN
      /\ (globalCooling' => globalCooling)
  <2>1. cached' \subseteq cached
    BY DEF KeyExpires, CooldownEnds, GlobalCooldownEnds
  <2>2. globalCooling \in BOOLEAN
    BY DEF TypeOK
  <2>3. globalCooling' = FALSE \/ globalCooling' = globalCooling
    BY DEF KeyExpires, CooldownEnds, GlobalCooldownEnds
  <2>4. globalCooling' \in BOOLEAN
    BY <2>2, <2>3
  <2>5. globalCooling' => globalCooling
    BY <2>3
  <2> QED BY <2>1, <2>4, <2>5
<1>3. /\ cooling' \in Seq(Kids) /\ Len(cooling') <= MaxUnknownKids
      /\ Cooling' \subseteq Cooling
  <2>1. CASE CooldownEnds
    <3>1. /\ cooling' \in Seq(Kids) /\ Len(cooling') = Len(cooling) - 1
          /\ Entries(cooling') \subseteq Entries(cooling)
      BY <2>1, TailShrinks DEF CooldownEnds, TypeOK
    <3>2. Len(cooling) \in Nat /\ Len(cooling) <= MaxUnknownKids /\ MaxUnknownKids \in Nat
      BY LimitAssumption, LenProperties DEF TypeOK
    <3> QED BY <3>1, <3>2 DEF Cooling, Entries
  <2>2. CASE cooling' = cooling
    BY <2>2 DEF TypeOK, Cooling
  <2> QED BY <2>1, <2>2 DEF KeyExpires, GlobalCooldownEnds
<1>4. TypeOK'
  BY <1>1, <1>2, <1>3 DEF TypeOK
<1>5. LookupsAreNeeded'
  BY <1>1, <1>2, <1>3, LookupsStayNeeded
<1>6. FreshKeysAreNotRefused'
  BY <1>2, <1>3 DEF FreshKeysAreNotRefused
<1> QED BY <1>4, <1>5, <1>6

LEMMA InvariantStep == IInv /\ [Next]_keyVars => IInv'
<1> SUFFICES ASSUME IInv, [Next]_keyVars PROVE IInv'
  OBVIOUS
<1>1. ASSUME NEW r \in Requests, NEW k \in Kids, Arrive(r, k) PROVE IInv'
  BY <1>1, ArriveStep
<1>2. ASSUME NEW r \in Requests, Progress(r) PROVE IInv'
  BY <1>2, GrantedStep, KeyFoundStep, KeyMissingStep DEF Progress
<1>3. ASSUME NEW r \in Requests, CancelWaiting(r) \/ CancelFetching(r) PROVE IInv'
  BY <1>3, CancelStep
<1>4. CASE (\E k \in Kids : StrayEnds(k)) \/ JwkSetExpires \/ Rotate
  BY <1>4, OutsideStep
<1>5. CASE (\E k \in Kids : KeyExpires(k)) \/ CooldownEnds \/ GlobalCooldownEnds
  BY <1>5, DeadlineStep
<1>6. CASE UNCHANGED keyVars
  BY <1>6 DEF keyVars, IInv, TypeOK, LookupsAreNeeded, FreshKeysAreNotRefused,
              CooledDown, GloballyCooledDown, Cooling
<1> QED BY <1>1, <1>2, <1>3, <1>4, <1>5, <1>6 DEF Next

-----------------------------------------------------------------------------
(* Theorems                                                                *)

LEMMA Invariant == Spec => []IInv
<1> QED BY InitSatisfies, InvariantStep, PTL DEF Spec

\* remote_auth.py: the caches and cooldowns keep their types, the map of unknown
\* kids its limit, and only the holder of the lock is inside a lookup, for any
\* number of requests and kids and any timing of deadlines and cancellations.
THEOREM TypeCorrect == Spec => []TypeOK
<1>1. IInv => TypeOK
  BY DEF IInv
<1> QED BY <1>1, Invariant, PTL

\* remote_auth.py, _get_signing_key: what is checked again inside the lock stays
\* true until the lookup returns.
THEOREM OnlyNeededLookups == Spec => []LookupsAreNeeded
<1>1. IInv => LookupsAreNeeded
  BY DEF IInv
<1> QED BY <1>1, Invariant, PTL

\* remote_auth.py, _reject_cooled_down_kid: a kid that cools down has no fresh key,
\* so the refusal before the cache costs no accepted key.
THEOREM NoFreshKeyIsRefused == Spec => []FreshKeysAreNotRefused
<1>1. IInv => FreshKeysAreNotRefused
  BY DEF IInv
<1> QED BY <1>1, Invariant, PTL
=============================================================================
