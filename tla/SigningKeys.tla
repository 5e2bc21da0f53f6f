---------------------------- MODULE SigningKeys ----------------------------
(***************************************************************************)
(* How SharedOAuthJWTVerifier (remote_auth.py) comes by the key that a     *)
(* token names: _get_signing_key with its cache of keys, its cooldowns and *)
(* its lookup lock, shared by the requests of one event loop.              *)
(*                                                                         *)
(* A request stands for one verify_token call.  Between two awaits it runs *)
(* alone.  It awaits the lock and, inside it, a thread that asks           *)
(* PyJWKClient; the request can be cancelled at both places by the timeout *)
(* of BoundedRequestApp.  PyJWKClient is not part of the repository: it is *)
(* modelled by what it is configured to do (cache_jwk_set with a lifespan, *)
(* cache_keys off).                                                        *)
(*                                                                         *)
(* Deadlines are not numbers: a deadline that has been set passes at some  *)
(* later moment.  The configured durations bear no relation to each other, *)
(* so any order is possible, except between cooldowns of single kids, which *)
(* all last equally long.  The wall clock is taken not to run backwards.   *)
(***************************************************************************)
EXTENDS Naturals, Sequences, FiniteSets

CONSTANTS
    Requests,
    Kids,             \* key ids that tokens name
    MaxUnknownKids,   \* max_unknown_kids of the configuration
    None,             \* no lock holder, no kid
    MaxRotations,     \* bound: changes of the provider's key set
    MaxFailures,      \* bound: lookups that fail on the network
    MaxCancels        \* bound: requests cancelled inside a lookup

ASSUME LimitAssumption == MaxUnknownKids \in Nat \ {0}
ASSUME KeyBoundsAssumption ==
    MaxRotations \in Nat /\ MaxFailures \in Nat /\ MaxCancels \in Nat
ASSUME KeyNullsAssumption == None \notin Requests \cup Kids

VARIABLES
    published,      \* the kids of the provider's current key set
    jwkSet,         \* the key set PyJWKClient has cached; {} when it has none
    cached,         \* kids with an unexpired entry in _known_signing_keys
    known,          \* _known_kids
    cooling,        \* unexpired entries of _unknown_kids, oldest deadline first
    globalCooling,  \* _unknown_kid_global_until is ahead
    holder,         \* the request inside _jwks_lookup_lock
    request,        \* where each request stands, and the kid of its token
    strays,         \* threads whose request was cancelled, by kid
    rotations, failures, cancels

keyVars == <<published, jwkSet, cached, known, cooling, globalCooling, holder,
             request, strays, rotations, failures, cancels>>

Outcomes == {"idle", "accepted", "refused"}
RequestPcs == Outcomes \cup {"waiting", "fetching"}
CallRecords == [pc : RequestPcs, kid : Kids \cup {None}]

-----------------------------------------------------------------------------
Cooling == {cooling[i] : i \in DOMAIN cooling}

\* An entry is popped.
Popped(s, k) ==
    IF \E i \in DOMAIN s : s[i] = k
    THEN LET i == CHOOSE i \in DOMAIN s : s[i] = k
         IN  SubSeq(s, 1, i - 1) \o SubSeq(s, i + 1, Len(s))
    ELSE s

\* Seeded fault: the map of unknown kids grows.
RememberedUnbounded(k) == Append(Popped(cooling, k), k)

\* _remember_unknown_kid: at the limit the entry with the oldest deadline makes
\* room, and the kid gets the newest.
Remembered(k) ==
    Append(Popped(IF Len(cooling) >= MaxUnknownKids THEN Tail(cooling) ELSE cooling, k), k)

Ends(r, outcome) == request' = [request EXCEPT ![r].pc = outcome]

\* The two grounds on which a lookup is refused.
CooledDown(k) == k \in Cooling

\* Seeded fault: known kids are not exempt.
EveryoneCooledDown(k) == globalCooling

GloballyCooledDown(k) == k \notin known /\ globalCooling

-----------------------------------------------------------------------------
(* A request                                                               *)

\* _get_signing_key up to its first await.
Arrive(r, k) ==
    /\ request[r].pc \in Outcomes
    /\ request' = [request EXCEPT ![r] =
         [kid |-> k, pc |-> IF CooledDown(k) THEN "refused"
                            ELSE IF k \in cached THEN "accepted" ELSE "waiting"]]
    /\ UNCHANGED <<published, jwkSet, cached, known, cooling, globalCooling, holder,
                   strays, rotations, failures, cancels>>

\* Seeded faults: the cooldowns are not asked again; the lock is not awaited.
GrantedUnchecked(r) ==
    LET k == request[r].kid IN
    /\ request[r].pc = "waiting"
    /\ holder = None
    /\ \/ k \in cached /\ Ends(r, "accepted") /\ UNCHANGED holder
       \/ k \notin cached /\ Ends(r, "fetching") /\ holder' = r
    /\ UNCHANGED <<published, jwkSet, cached, known, cooling, globalCooling, strays,
                   rotations, failures, cancels>>

GrantedTogether(r) ==
    LET k == request[r].kid IN
    /\ request[r].pc = "waiting"
    /\ k \notin cached /\ ~ CooledDown(k) /\ ~ GloballyCooledDown(k)
    /\ Ends(r, "fetching") /\ holder' = r
    /\ UNCHANGED <<published, jwkSet, cached, known, cooling, globalCooling, strays,
                   rotations, failures, cancels>>

\* The lock is granted, and what was found before the wait is looked up again.
\* Without need of a lookup it is released in the same step.
Granted(r) ==
    LET k == request[r].kid IN
    /\ request[r].pc = "waiting"
    /\ holder = None
    /\ \/ k \in cached /\ Ends(r, "accepted") /\ UNCHANGED holder
       \/ /\ k \notin cached
          /\ CooledDown(k) \/ GloballyCooledDown(k)
          /\ Ends(r, "refused") /\ UNCHANGED holder
       \/ /\ k \notin cached /\ ~ CooledDown(k) /\ ~ GloballyCooledDown(k)
          /\ Ends(r, "fetching") /\ holder' = r
    /\ UNCHANGED <<published, jwkSet, cached, known, cooling, globalCooling, strays,
                   rotations, failures, cancels>>

\* PyJWKClient.get_signing_key: the cached set serves a kid it holds, otherwise
\* the set is fetched again.  An error on the network may lose the cached set.
Asked(k, found) ==
    \/ /\ k \in jwkSet
       /\ found
       /\ UNCHANGED <<jwkSet, failures>>
    \/ /\ k \notin jwkSet
       /\ jwkSet' = published
       /\ found = (k \in published)
       /\ UNCHANGED failures
    \/ /\ k \notin jwkSet
       /\ failures < MaxFailures /\ failures' = failures + 1
       /\ jwkSet' \in {jwkSet, {}}
       /\ ~ found

\* The thread returns a key.
KeyFound(r) ==
    LET k == request[r].kid IN
    /\ request[r].pc = "fetching"
    /\ Asked(k, TRUE)
    /\ known' = known \cup {k}
    /\ cooling' = Popped(cooling, k)
    /\ cached' = cached \cup {k}
    /\ holder' = None
    /\ Ends(r, "accepted")
    /\ UNCHANGED <<published, globalCooling, strays, rotations, cancels>>

\* The thread raises: no such kid, or no answer.
KeyMissing(r) ==
    LET k == request[r].kid IN
    /\ request[r].pc = "fetching"
    /\ Asked(k, FALSE)
    /\ cooling' = Remembered(k)
    /\ globalCooling' = TRUE
    /\ holder' = None
    /\ Ends(r, "refused")
    /\ UNCHANGED <<published, cached, known, strays, rotations, cancels>>

\* The request runs out of time.  CancelledError is no Exception, so nothing is
\* remembered; the lock is released and the thread goes on.
CancelWaiting(r) ==
    /\ request[r].pc = "waiting"
    /\ cancels < MaxCancels /\ cancels' = cancels + 1
    /\ Ends(r, "idle")
    /\ UNCHANGED <<published, jwkSet, cached, known, cooling, globalCooling, holder,
                   strays, rotations, failures>>

CancelFetching(r) ==
    /\ request[r].pc = "fetching"
    /\ cancels < MaxCancels /\ cancels' = cancels + 1
    /\ strays' = [strays EXCEPT ![request[r].kid] = @ + 1]
    /\ holder' = None
    /\ Ends(r, "idle")
    /\ UNCHANGED <<published, jwkSet, cached, known, cooling, globalCooling, rotations,
                   failures>>

\* A thread ends that nobody waits for.
StrayEnds(k) ==
    /\ strays[k] > 0
    /\ strays' = [strays EXCEPT ![k] = @ - 1]
    /\ \E found \in BOOLEAN : Asked(k, found)
    /\ UNCHANGED <<published, cached, known, cooling, globalCooling, holder, request,
                   rotations, cancels>>

-----------------------------------------------------------------------------
(* Time and the provider                                                   *)

\* Seeded fault: the deadline of an entry is not looked at.
KeyStays(k) == k \in cached /\ k \notin known /\ UNCHANGED keyVars

\* _get_cached_signing_key: the deadline of an entry passes.
KeyExpires(k) ==
    /\ k \in cached
    /\ cached' = cached \ {k}
    /\ UNCHANGED <<published, jwkSet, known, cooling, globalCooling, holder, request,
                   strays, rotations, failures, cancels>>

JwkSetExpires ==
    /\ jwkSet # {}
    /\ jwkSet' = {}
    /\ UNCHANGED <<published, cached, known, cooling, globalCooling, holder, request,
                   strays, rotations, failures, cancels>>

CooldownEnds ==
    /\ cooling # <<>>
    /\ cooling' = Tail(cooling)
    /\ UNCHANGED <<published, jwkSet, cached, known, globalCooling, holder, request,
                   strays, rotations, failures, cancels>>

GlobalCooldownEnds ==
    /\ globalCooling
    /\ globalCooling' = FALSE
    /\ UNCHANGED <<published, jwkSet, cached, known, cooling, holder, request, strays,
                   rotations, failures, cancels>>

Rotate ==
    /\ rotations < MaxRotations
    /\ rotations' = rotations + 1
    /\ published' \in (SUBSET Kids) \ {published}
    /\ UNCHANGED <<jwkSet, cached, known, cooling, globalCooling, holder, request,
                   strays, failures, cancels>>

-----------------------------------------------------------------------------
Init ==
    /\ published \in SUBSET Kids
    /\ jwkSet = {}
    /\ cached = {} /\ known = {}
    /\ cooling = <<>> /\ globalCooling = FALSE
    /\ holder = None
    /\ request = [r \in Requests |-> [pc |-> "idle", kid |-> None]]
    /\ strays = [k \in Kids |-> 0]
    /\ rotations = 0 /\ failures = 0 /\ cancels = 0

\* What the server does for a request that has arrived.
Progress(r) == Granted(r) \/ KeyFound(r) \/ KeyMissing(r)

Next ==
    \/ \E r \in Requests :
          \/ \E k \in Kids : Arrive(r, k)
          \/ Progress(r)
          \/ CancelWaiting(r)
          \/ CancelFetching(r)
    \/ \E k \in Kids : StrayEnds(k) \/ KeyExpires(k)
    \/ JwkSetExpires
    \/ CooldownEnds
    \/ GlobalCooldownEnds
    \/ Rotate

Spec == Init /\ [][Next]_keyVars

\* Deadlines pass, the lock and the threads serve every request, and tokens with
\* every kid keep coming.
FairSpec ==
    /\ Spec
    /\ \A r \in Requests : SF_keyVars(Progress(r))
    /\ \A k \in Kids : SF_keyVars(\E r \in Requests : Arrive(r, k))
    /\ \A k \in Kids : WF_keyVars(KeyExpires(k))
    /\ WF_keyVars(JwkSetExpires)
    /\ WF_keyVars(CooldownEnds)
    /\ WF_keyVars(GlobalCooldownEnds)

-----------------------------------------------------------------------------
(* Properties                                                              *)

\* Every variable stays within its type; the lock is held exactly during a
\* lookup, so that requests which have not timed out look up one at a time; and
\* the map of unknown kids stays within its limit.
TypeOK ==
    /\ published \subseteq Kids
    /\ jwkSet \subseteq Kids
    /\ cached \subseteq known /\ known \subseteq Kids
    /\ cooling \in Seq(Kids) /\ Len(cooling) <= MaxUnknownKids
    /\ globalCooling \in BOOLEAN
    /\ request \in [Requests -> CallRecords]
    /\ holder \in Requests \cup {None}
    /\ \A r \in Requests : request[r].pc = "fetching" <=> holder = r
    /\ \A r \in Requests : request[r].pc # "idle" => request[r].kid \in Kids
    /\ strays \in [Kids -> Nat]
    /\ rotations \in 0..MaxRotations /\ failures \in 0..MaxFailures
    /\ cancels \in 0..MaxCancels

\* What a request has read before it waited for the lock is never acted on after
\* it has become untrue: nobody looks up a key that is cached, a kid that is
\* cooling down, or a kid never known while those are cooling down together.
LookupsAreNeeded ==
    \A r \in Requests : request[r].pc = "fetching" =>
        LET k == request[r].kid IN
        k \notin cached /\ ~ CooledDown(k) /\ ~ GloballyCooledDown(k)

\* "a previously accepted kid never waits behind an attacker-controlled slow
\* unknown-kid JWKS refresh while its key is still fresh" (remote_auth.py): the
\* refusal that comes before the cache never hits a kid that is in the cache.
FreshKeysAreNotRefused == cached \cap Cooling = {}

\* A key that the provider has withdrawn for good is not accepted any more in
\* the end, through the two caches, threads that outlive their request and
\* lookups that were under way.
RetiredKeysAreForgotten ==
    \A k \in Kids : <>[](k \notin published) => <>[](k \notin cached)

\* A key that has been accepted before and that the provider goes on publishing
\* is accepted again and again, however many unknown kids are looked up, once
\* the network and the requests' time suffice.
KnownKeysAreServed ==
    \A k \in Kids :
        <>[](k \in published \cap known) =>
            []<>(\E r \in Requests : request[r] = [pc |-> "accepted", kid |-> k])
=============================================================================
