-------------------------- MODULE RefreshPipeline --------------------------
(***************************************************************************)
(* One refresh of a scope, from the sources on disk to the durable index   *)
(* and the local state file: refresh_scope (cli_refresh.py), the functions *)
(* prepare_refresh and apply_refresh (refresh.py), load_state and          *)
(* save_state (state_store.py), the preflight (postgres_runtime.py) and    *)
(* the refresh lock (refresh_lock.py).  What is planned and applied is     *)
(* said in IndexPlanning.                                                  *)
(*                                                                         *)
(* Workers refresh the same namespace.  Those of one host share a state    *)
(* file and its lock; hosts share the sources and the durable index.  The  *)
(* sources change under a refresh, a refresh can stop at any step, and the *)
(* operator can drop the index schema.                                     *)
(*                                                                         *)
(* A generation token is a hash of all snapshots of a plan, so it is       *)
(* represented by the snapshots themselves.  The durable provider is not   *)
(* part of the repository: Apply models it from the plan it is handed and  *)
(* from what the repository says of it (a namespace lock, a compare-and-   *)
(* swap of the generation, one transaction, and receipts that answer an    *)
(* identical retry only while its result is still current).                *)
(***************************************************************************)
EXTENDS IndexPlanning

CONSTANTS
    Workers, Hosts,
    HostOf,          \* the host of each worker
    NoWorker,
    MaxEdits,        \* bound: changes of the sources and of the revision
    MaxStops,        \* bound: refreshes that fail or die
    MaxDrops         \* bound: drops of the index schema

ASSUME HostAssumption == HostOf \in [Workers -> Hosts]
ASSUME WorkerAssumption == NoWorker \notin Workers
ASSUME BoundsAssumption == MaxEdits \in Nat /\ MaxStops \in Nat /\ MaxDrops \in Nat

VARIABLES
    files,      \* the sources: content of each document, or None
    revision,   \* the configured chunk_profile and provider revision
    state,      \* the committed state file of each host
    index,      \* the durable index of the namespace: rows, generation, receipts
    lock,       \* the worker that holds the refresh lock of each host
    worker,     \* the refresh each worker is in
    spoiled,    \* history: what has happened that a refresh cannot repair
    edits, stops, drops

vars == <<files, revision, state, index, lock, worker, spoiled, edits, stops, drops>>

-----------------------------------------------------------------------------
(* Data                                                                    *)

\* The columns preflight_postgres_index compares.
Compared(rows) == {<<r.doc, r.hash, r.chunk, r.text>> : r \in rows}

\* RefreshPlan and what a worker knows on the way to it.
\*   rev       the revision in the runtime it was handed
\*   baseline  the state it loaded          seen   hashes found by discovery
\*   todo      documents still to be read   snaps  snapshots of the plan
\*   forced    force_full_reindex and expect_empty_durable_store
Pcs == {"idle", "waiting", "planning", "reading", "ready", "applied"}
Refreshes == [pc : Pcs, rev : Revisions \cup {None}, baseline : Snapshots,
              seen : [Docs -> Contents \cup {None}], todo : SUBSET Docs,
              snaps : Snapshots, forced : BOOLEAN]

\* build_snapshot, of a file whose hash was found before it was read.
SnapshotOf(hash, content, rev) ==
    [hash |-> hash, chunks |-> ChunksOf[rev.profile][content], rev |-> rev]

\* RefreshPlan.expected_generation
Expected(w) ==
    IF worker[w].forced \/ worker[w].baseline = Empty THEN None ELSE worker[w].baseline

-----------------------------------------------------------------------------
(* Steps of a refresh                                                      *)

At(w, pc) == worker[w].pc = pc
Goes(w, pc) == worker' = [worker EXCEPT ![w].pc = pc]
Idle == [pc |-> "idle", rev |-> None, baseline |-> Empty, seen |-> Empty,
         todo |-> {}, snaps |-> Empty, forced |-> FALSE]

UnderWay(w) == worker[w].pc \notin {"idle", "waiting"}

\* The refresh ends, and the lock is released.
Leave(w) ==
    /\ worker' = [worker EXCEPT ![w] = Idle]
    /\ lock' = [lock EXCEPT ![HostOf[w]] = NoWorker]

\* refresh_scope is called with a runtime loaded from the configuration of now.
Ask(w) ==
    /\ At(w, "idle")
    /\ worker' = [worker EXCEPT ![w].pc = "waiting", ![w].rev = revision]
    /\ UNCHANGED <<files, revision, state, index, lock, spoiled, edits, stops, drops>>

\* Seeded fault: the refresh does not wait for the lock.
BeginUnlocked(w) ==
    /\ At(w, "waiting")
    /\ lock' = [lock EXCEPT ![HostOf[w]] = w]
    /\ Goes(w, "planning")
    /\ UNCHANGED <<files, revision, state, index, spoiled, edits, stops, drops>>

\* exclusive_refresh_lock
Begin(w) ==
    /\ At(w, "waiting")
    /\ lock[HostOf[w]] = NoWorker
    /\ lock' = [lock EXCEPT ![HostOf[w]] = w]
    /\ Goes(w, "planning")
    /\ UNCHANGED <<files, revision, state, index, spoiled, edits, stops, drops>>

\* prepare_refresh: the state is loaded and discovery hashes every file.  The
\* documents that are not unchanged are read afterwards.
Discover(w) ==
    LET r == [worker[w] EXCEPT !.baseline = state[HostOf[w]], !.seen = files] IN
    /\ At(w, "planning")
    /\ worker' = [worker EXCEPT ![w] =
         [r EXCEPT !.pc = "reading",
                   !.todo = {d \in Docs : files[d] # None /\ ~ Unchanged(r, d)},
                   !.snaps = [d \in Docs |->
                        IF Unchanged(r, d) THEN r.baseline[d] ELSE None]]]
    /\ UNCHANGED <<files, revision, state, index, lock, spoiled, edits, stops, drops>>

\* chunk_markdown opens the file again: its chunks are filed under the hash that
\* discovery computed.
ReadDocument(w, d) ==
    LET r == worker[w] IN
    /\ At(w, "reading")
    /\ d \in r.todo
    /\ files[d] # None
    /\ worker' = [worker EXCEPT
                    ![w].todo = @ \ {d},
                    ![w].snaps[d] = SnapshotOf(r.seen[d], files[d], r.rev)]
    /\ UNCHANGED <<files, revision, state, index, lock, spoiled, edits, stops, drops>>

\* The file has been removed since discovery: the refresh fails.
DocumentIsGone(w, d) ==
    /\ At(w, "reading")
    /\ d \in worker[w].todo
    /\ files[d] = None
    /\ Leave(w)
    /\ UNCHANGED <<files, revision, state, index, spoiled, edits, stops, drops>>

\* A plan with a baseline is checked against the durable index, once.
NeedsPreflight(w) == worker[w].baseline # Empty /\ ~ worker[w].forced

Planned(w) == At(w, "reading") /\ worker[w].todo = {}

\* preflight_postgres_index: what the index should hold, and what it holds.
ExpectedRows(w) == Compared(RowsOf(worker[w].baseline))
ActualRows == Compared(index.rows)
SchemaGone == index.generation = None

\* "match"
PreflightMatch(w) ==
    /\ Planned(w) /\ NeedsPreflight(w)
    /\ ~ SchemaGone /\ ActualRows = ExpectedRows(w)
    /\ Goes(w, "ready")
    /\ UNCHANGED <<files, revision, state, index, lock, spoiled, edits, stops, drops>>

\* Seeded fault: the plan is kept although the index is gone.
PreflightMissingIgnored(w) ==
    /\ Planned(w) /\ NeedsPreflight(w)
    /\ \/ SchemaGone
       \/ ExpectedRows(w) # {} /\ ActualRows = {}
    /\ Goes(w, "ready")
    /\ UNCHANGED <<files, revision, state, index, lock, spoiled, edits, stops, drops>>

\* "missing": all current documents are planned again, for an empty index.
PreflightMissing(w) ==
    /\ Planned(w) /\ NeedsPreflight(w)
    /\ \/ SchemaGone
       \/ ExpectedRows(w) # {} /\ ActualRows = {}
    /\ worker' = [worker EXCEPT ![w].pc = "planning", ![w].forced = TRUE]
    /\ UNCHANGED <<files, revision, state, index, lock, spoiled, edits, stops, drops>>

\* "mismatch": DurableIndexDriftError.
PreflightMismatch(w) ==
    /\ Planned(w) /\ NeedsPreflight(w)
    /\ ~ SchemaGone
    /\ ActualRows # ExpectedRows(w)
    /\ ExpectedRows(w) = {} \/ ActualRows # {}
    /\ Leave(w)
    /\ UNCHANGED <<files, revision, state, index, spoiled, edits, stops, drops>>

PlanAccepted(w) == At(w, "ready") \/ (Planned(w) /\ ~ NeedsPreflight(w))

\* apply_refresh with nothing changed: only the state is written.
NothingToApply(w) ==
    /\ PlanAccepted(w)
    /\ Changed(worker[w]) = {}
    /\ state' = [state EXCEPT ![HostOf[w]] = worker[w].snaps]
    /\ Leave(w)
    /\ UNCHANGED <<files, revision, index, spoiled, edits, stops, drops>>

\* What this apply does that later refreshes do not repair: an emptied corpus has
\* a generation but the next plan expects none, and the rows of a torn document
\* stay if its file returns to the content that was hashed.
Damage(w) ==
    LET snaps == worker[w].snaps IN
    (IF snaps = Empty THEN {"emptied"} ELSE {}) \cup
    {"torn" : d \in {e \in Docs :
        snaps[e] # None /\ snaps[e] # SnapshotOf(snaps[e].hash, snaps[e].hash, snaps[e].rev)}}

\* apply_index_plan: one transaction of the provider.
Apply(w) ==
    /\ PlanAccepted(w)
    /\ Changed(worker[w]) # {}
    /\ ApplyIdOf(worker[w]) \notin index.receipts
    /\ index.generation = Expected(w)
    /\ index' = [rows |-> Mutated(worker[w], index.rows), generation |-> worker[w].snaps,
                 receipts |-> index.receipts \cup {ApplyIdOf(worker[w])}]
    /\ spoiled' = spoiled \cup Damage(w)
    /\ Goes(w, "applied")
    /\ UNCHANGED <<files, revision, state, lock, edits, stops, drops>>

\* The provider has done this very plan, and its result is still current.
AlreadyApplied(w) ==
    /\ PlanAccepted(w)
    /\ Changed(worker[w]) # {}
    /\ ApplyIdOf(worker[w]) \in index.receipts
    /\ index.generation = worker[w].snaps
    /\ Goes(w, "applied")
    /\ UNCHANGED <<files, revision, state, index, lock, spoiled, edits, stops, drops>>

\* The provider refuses: a stale receipt, or another generation than expected.
ApplyRefused(w) ==
    /\ PlanAccepted(w)
    /\ Changed(worker[w]) # {}
    /\ \/ /\ ApplyIdOf(worker[w]) \in index.receipts
          /\ index.generation # worker[w].snaps
          /\ spoiled' = spoiled \cup {"repeated"}
       \/ /\ ApplyIdOf(worker[w]) \notin index.receipts
          /\ index.generation # Expected(w)
          /\ UNCHANGED spoiled
    /\ Leave(w)
    /\ UNCHANGED <<files, revision, state, index, edits, stops, drops>>

\* Seeded fault: the state is saved before the index is written.
CommitEarly(w) ==
    /\ At(w, "applied") \/ At(w, "ready")
    /\ state' = [state EXCEPT ![HostOf[w]] = worker[w].snaps]
    /\ Leave(w)
    /\ UNCHANGED <<files, revision, index, spoiled, edits, stops, drops>>

\* commit_refresh_state: save_state replaces the state file.
Commit(w) ==
    /\ At(w, "applied")
    /\ state' = [state EXCEPT ![HostOf[w]] = worker[w].snaps]
    /\ Leave(w)
    /\ UNCHANGED <<files, revision, index, spoiled, edits, stops, drops>>

\* An exception at any step, or the death of the process: the plan is lost and
\* the lock released.
Stop(w) ==
    /\ UnderWay(w)
    /\ stops < MaxStops
    /\ stops' = stops + 1
    /\ spoiled' = IF At(w, "applied") THEN spoiled \cup {"uncommitted"} ELSE spoiled
    /\ Leave(w)
    /\ UNCHANGED <<files, revision, state, index, edits, drops>>

-----------------------------------------------------------------------------
(* What happens around it                                                  *)

EditFile(d) ==
    /\ edits < MaxEdits
    /\ edits' = edits + 1
    /\ \E c \in (Contents \cup {None}) \ {files[d]} : files' = [files EXCEPT ![d] = c]
    /\ UNCHANGED <<revision, state, index, lock, worker, spoiled, stops, drops>>

Reconfigure ==
    /\ edits < MaxEdits
    /\ edits' = edits + 1
    /\ revision' \in Revisions \ {revision}
    /\ UNCHANGED <<files, state, index, lock, worker, spoiled, stops, drops>>

DropIndex ==
    /\ drops < MaxDrops
    /\ drops' = drops + 1
    /\ index' = [rows |-> {}, generation |-> None, receipts |-> {}]
    /\ UNCHANGED <<files, revision, state, lock, worker, spoiled, edits, stops>>

-----------------------------------------------------------------------------
Init ==
    /\ files \in [Docs -> Contents \cup {None}]
    /\ revision \in Revisions
    /\ state = [h \in Hosts |-> Empty]
    /\ index = [rows |-> {}, generation |-> None, receipts |-> {}]
    /\ lock = [h \in Hosts |-> NoWorker]
    /\ worker = [w \in Workers |-> Idle]
    /\ spoiled = {}
    /\ edits = 0 /\ stops = 0 /\ drops = 0

RefreshStep(w) ==
    \/ Ask(w)
    \/ Begin(w)
    \/ Discover(w)
    \/ \E d \in Docs : ReadDocument(w, d) \/ DocumentIsGone(w, d)
    \/ PreflightMatch(w)
    \/ PreflightMissing(w)
    \/ PreflightMismatch(w)
    \/ NothingToApply(w)
    \/ Apply(w)
    \/ AlreadyApplied(w)
    \/ ApplyRefused(w)
    \/ Commit(w)

Next ==
    \/ \E w \in Workers : RefreshStep(w) \/ Stop(w)
    \/ \E d \in Docs : EditFile(d)
    \/ Reconfigure
    \/ DropIndex

Spec == Init /\ [][Next]_vars

\* Refreshes are asked for again and again, and each goes on until it ends.
FairSpec == Spec /\ \A w \in Workers : SF_vars(RefreshStep(w))

-----------------------------------------------------------------------------
(* Properties                                                              *)

\* Every variable stays within its type, and who is in a refresh holds the lock
\* of its host.
TypeOK ==
    /\ files \in [Docs -> Contents \cup {None}]
    /\ revision \in Revisions
    /\ state \in [Hosts -> Snapshots]
    /\ index.rows \subseteq Row
    /\ index.generation \in Snapshots \cup {None}
    /\ lock \in [Hosts -> Workers \cup {NoWorker}]
    /\ worker \in [Workers -> Refreshes]
    /\ \A w \in Workers : UnderWay(w) <=> lock[HostOf[w]] = w
    /\ spoiled \subseteq {"torn", "emptied", "uncommitted", "repeated"}
    /\ edits \in 0..MaxEdits /\ stops \in 0..MaxStops /\ drops \in 0..MaxDrops

\* The rows of the durable index are exactly the chunks of its generation token,
\* with vectors of these texts by the provider revision of that generation: no
\* mixture of two plans, no chunk without its vector, no vector of an old text or
\* provider.  Incremental deltas of several hosts, computed from baselines that may
\* be stale and carrying vectors over from version to version and from profile to
\* profile, add up (the generation fence of apply_refresh).
IndexMatchesGeneration ==
    IF index.generation = None THEN index.rows = {}
                               ELSE index.rows = RowsOf(index.generation)

\* A committed state has one provider revision: _baseline_provider_revision
\* never finds a state it refuses, however edits, reconfigurations and stopped
\* refreshes are interleaved.
OneRevisionCommitted ==
    \A h \in Hosts : \A d, e \in Docs :
        state[h][d] # None /\ state[h][e] # None => state[h][d].rev = state[h][e].rev

\* Only one host refreshes.
SingleHost == \A g, h \in Hosts : g = h

\* On the one host that refreshes, whenever no refresh is under way the state
\* file and the durable index agree, unless a refresh stopped between its apply
\* and its commit or the index was dropped behind its back.
StateTracksIndex ==
    (/\ SingleHost
     /\ drops = 0
     /\ "uncommitted" \notin spoiled) =>
        \A h \in Hosts :
            lock[h] = NoWorker =>
                \/ index.generation = state[h]
                \/ index.generation = None /\ state[h] = Empty

\* Apply before state: the state file of the one host never advances to documents
\* that the durable index does not hold at that moment, unless the index was dropped.
StateFollowsIndex ==
    [][SingleHost => \A h \in Hosts : state'[h] # state[h] =>
            index.generation = state'[h] \/ index.generation = None]_vars

\* The rows searches should find: the documents on disk, in the configured
\* representation.
Desired ==
    RowsOf([d \in Docs |->
        IF files[d] = None THEN None
        ELSE SnapshotOf(files[d], files[d], revision)])

\* Once the sources are left alone, refreshes bring the durable index in line
\* with them and keep it there, through dropped schemas, failed refreshes and
\* runtimes that were loaded before a reconfiguration, unless one of the things
\* that refreshes do not repair has happened.
EventuallyInSync == [](spoiled = {}) => <>[](index.rows = Desired)

\* "chunk-profile or provider-revision changes force safe reindexing" and "on
\* changes ... atomically apply the desired version" (README.md), also for a
\* change that has been made before and was undone since.
RepeatedChangeIsApplied ==
    [](spoiled \subseteq {"repeated"}) => <>[](index.rows = Desired)

\* "source_version identifies one indexed version of the file" (models.py): the
\* rows filed under the hash of some bytes are chunks of those bytes.
VersionIdentifiesContent ==
    \A row \in index.rows : \E profile \in Profiles :
        LET chunks == ChunksOf[profile][row.hash] IN
        row.chunk \in DOMAIN chunks /\ row.text = chunks[row.chunk]
=============================================================================
