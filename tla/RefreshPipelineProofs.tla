----------------------- MODULE RefreshPipelineProofs -----------------------
(***************************************************************************)
(* What RefreshPipeline guarantees for any number of hosts, workers,       *)
(* documents, contents and revisions, and any number of edits, stopped     *)
(* refreshes and dropped schemas; and before that, for any plan: it turns  *)
(* the rows of its baseline into the rows of its snapshots.                *)
(***************************************************************************)
EXTENDS RefreshPipeline, FiniteSetTheorems, TLAPS

-----------------------------------------------------------------------------
(* IndexPlanning: what a plan is made of                                   *)

\* What prepare_refresh makes: its snapshots have its revision, and the documents
\* that do not change keep theirs.
SoundDelta(r) ==
    /\ r.baseline \in Snapshots /\ r.snaps \in Snapshots
    /\ \A d \in Docs : r.snaps[d] # None => r.snaps[d].rev = r.rev
    /\ \A d \in Docs : d \notin Changed(r) => r.snaps[d] = r.baseline[d]

\* A snapshot is a record; None is none of them.
LEMMA SnapshotFields ==
    ASSUME NEW snaps \in Snapshots, NEW d \in Docs, snaps[d] # None
    PROVE  /\ snaps[d] \in Snapshot
           /\ snaps[d].hash \in Contents /\ snaps[d].hash # None
           /\ snaps[d].chunks \in Seq(Texts)
           /\ snaps[d].rev \in Revisions /\ snaps[d].rev.provider \in Providers
BY NullAssumption, RevisionAssumption DEF Snapshots, Snapshot

\* The places of chunks are numbers of the snapshot's sequence.
LEMMA ChunkPlaces ==
    ASSUME NEW snaps \in Snapshots, NEW d \in Docs, NEW i \in DOMAIN ChunksIn(snaps, d)
    PROVE  /\ snaps[d] # None
           /\ i \in 1..Len(snaps[d].chunks)
           /\ snaps[d].chunks[i] \in Texts
<1>1. snaps[d] # None
  BY DEF ChunksIn
<1>2. snaps[d].chunks \in Seq(Texts) /\ ChunksIn(snaps, d) = snaps[d].chunks
  BY <1>1, SnapshotFields DEF ChunksIn
<1> QED BY <1>1, <1>2

\* Rows of snapshots have the type of rows.
LEMMA RowsAreRows ==
    ASSUME NEW snaps \in Snapshots
    PROVE  RowsOf(snaps) \subseteq Row
<1> SUFFICES ASSUME NEW d \in Docs, NEW i \in DOMAIN ChunksIn(snaps, d)
             PROVE  ChunkRow(snaps, d, i, Embedded(snaps[d].chunks[i], snaps[d].rev)) \in Row
  BY DEF RowsOf
<1>1. snaps[d] # None /\ i \in Nat /\ snaps[d].chunks[i] \in Texts
  BY ChunkPlaces, SnapshotFields
<1>2. snaps[d].hash \in Contents /\ snaps[d].rev.provider \in Providers
  BY <1>1, SnapshotFields
<1> QED BY <1>1, <1>2 DEF ChunkRow, Embedded, Row, Vector

-----------------------------------------------------------------------------
(* Reused vectors                                                          *)

\* Places with a text can be counted.
LEMMA OccurrencesCount ==
    ASSUME NEW chunks, NEW text, NEW n \in Nat
    PROVE  /\ Occurrences(chunks, text, n) \in Nat
           /\ Occurrences(chunks, text, n) = 0 <=> \A j \in 1..n : chunks[j] # text
<1> DEFINE S == {j \in 1..n : chunks[j] = text}
<1>1. IsFiniteSet(1..n)
  BY FS_Interval
<1>2. IsFiniteSet(S)
  BY <1>1, FS_Subset
<1>3. Cardinality(S) \in Nat /\ (Cardinality(S) = 0 <=> S = {})
  BY <1>2, FS_CardinalityType, FS_EmptySet
<1> QED BY <1>3 DEF Occurrences

\* A chunk that has a partner has its text among the others.
LEMMA PartnersHaveTheText ==
    ASSUME NEW new \in Seq(Texts), NEW old \in Seq(Texts),
           NEW i \in DOMAIN new \ Unmatched(new, old)
    PROVE  \E j \in DOMAIN old : old[j] = new[i]
<1>1. i \in Nat /\ i \in 1..i /\ Len(old) \in Nat
  OBVIOUS
<1>2. Occurrences(new, new[i], i) \in Nat /\ Occurrences(new, new[i], i) # 0
  BY <1>1, OccurrencesCount
<1>3. Occurrences(old, new[i], Len(old)) \in Nat
  BY <1>1, OccurrencesCount
<1>4. Occurrences(old, new[i], Len(old)) # 0
  BY <1>2, <1>3 DEF Unmatched
<1>5. \E j \in 1..Len(old) : old[j] = new[i]
  BY <1>1, <1>4, OccurrencesCount
<1> QED BY <1>5

\* A vector that is carried over is the one the chunk would have been given: it is
\* there, of the same text, and of the same provider revision.
LEMMA ReusedVectorsFit ==
    ASSUME NEW r, SoundDelta(r), NEW d \in Docs, NEW i \in Reused(r, d)
    PROVE  VectorFor(r, RowsOf(r.baseline), d, i) = Embedded(r.snaps[d].chunks[i], r.snaps[d].rev)
<1> DEFINE old == r.baseline[d]
           new == r.snaps[d]
           sources == Sources(r, RowsOf(r.baseline), d, i)
<1>1. old # None /\ old.rev.provider = r.rev.provider
  BY DEF Reused, Reindexed
<1>2. /\ i \in DOMAIN ChunksIn(r.snaps, d)
      /\ i \notin Unmatched(ChunksIn(r.snaps, d), old.chunks)
  BY DEF Reused
<1>3. new # None /\ ChunksIn(r.snaps, d) = new.chunks
  BY <1>2, ChunkPlaces DEF SoundDelta, ChunksIn
<1>4. new.rev = r.rev
  BY <1>3 DEF SoundDelta
<1>5. old.chunks \in Seq(Texts) /\ new.chunks \in Seq(Texts)
  BY <1>1, <1>3, SnapshotFields DEF SoundDelta
<1>6. PICK j \in DOMAIN old.chunks : old.chunks[j] = new.chunks[i]
  BY <1>2, <1>3, <1>5, PartnersHaveTheText
<1>7. sources # {}
  <2> DEFINE row == ChunkRow(r.baseline, d, j, Embedded(old.chunks[j], old.rev))
  <2>1. row \in RowsOf(r.baseline)
    BY <1>1 DEF RowsOf, ChunksIn
  <2>2. row.doc = d /\ row.hash = old.hash /\ row.text = new.chunks[i]
    BY <1>6 DEF ChunkRow
  <2> QED BY <2>1, <2>2 DEF Sources
<1>8. ASSUME NEW row \in sources
      PROVE  row.vector = Embedded(new.chunks[i], new.rev)
  <2>1. row \in RowsOf(r.baseline) /\ row.doc = d /\ row.text = new.chunks[i]
    BY DEF Sources
  <2>2. PICK e \in Docs : \E k \in DOMAIN ChunksIn(r.baseline, e) :
          row = ChunkRow(r.baseline, e, k,
                         Embedded(r.baseline[e].chunks[k], r.baseline[e].rev))
    BY <2>1 DEF RowsOf
  <2>3. e = d /\ row.vector = Embedded(row.text, old.rev)
    BY <2>1, <2>2 DEF ChunkRow
  <2> QED BY <1>1, <1>4, <2>1, <2>3 DEF Embedded
<1>9. (CHOOSE row \in sources : TRUE) \in sources
  BY <1>7
<1> QED BY <1>8, <1>9 DEF VectorFor

-----------------------------------------------------------------------------
(* The rows of a plan                                                      *)

\* The plan writes the rows of its result for the documents that it changes.
LEMMA UpsertsAreRows ==
    ASSUME NEW r, NEW rows, SoundDelta(r),
           \A d \in Docs : \A i \in Reused(r, d) :
               VectorFor(r, rows, d, i) = Embedded(r.snaps[d].chunks[i], r.snaps[d].rev)
    PROVE  \A row : row \in Upserted(r, rows) <=>
                        row \in RowsOf(r.snaps) /\ row.doc \in Changed(r)
<1>1. ASSUME NEW d \in Docs, NEW i \in DOMAIN ChunksIn(r.snaps, d)
      PROVE  VectorFor(r, rows, d, i) = Embedded(r.snaps[d].chunks[i], r.snaps[d].rev)
  <2>1. r.snaps[d] # None /\ r.snaps[d].rev = r.rev
    BY ChunkPlaces DEF SoundDelta
  <2> QED BY <2>1 DEF VectorFor
<1>2. Changed(r) \subseteq Docs
  BY DEF Changed
<1>3. ASSUME NEW row \in Upserted(r, rows)
      PROVE  row \in RowsOf(r.snaps) /\ row.doc \in Changed(r)
  <2>1. PICK d \in Changed(r) : \E i \in DOMAIN ChunksIn(r.snaps, d) :
          row = ChunkRow(r.snaps, d, i, VectorFor(r, rows, d, i))
    BY DEF Upserted
  <2>2. PICK i \in DOMAIN ChunksIn(r.snaps, d) :
          row = ChunkRow(r.snaps, d, i, VectorFor(r, rows, d, i))
    BY <2>1
  <2>3. row = ChunkRow(r.snaps, d, i, Embedded(r.snaps[d].chunks[i], r.snaps[d].rev))
    BY <1>1, <1>2, <2>2
  <2>4. row.doc = d
    BY <2>3 DEF ChunkRow
  <2> QED BY <1>2, <2>3, <2>4 DEF RowsOf
<1>4. ASSUME NEW row \in RowsOf(r.snaps), row.doc \in Changed(r)
      PROVE  row \in Upserted(r, rows)
  <2>1. PICK d \in Docs : \E i \in DOMAIN ChunksIn(r.snaps, d) :
          row = ChunkRow(r.snaps, d, i, Embedded(r.snaps[d].chunks[i], r.snaps[d].rev))
    BY DEF RowsOf
  <2>2. PICK i \in DOMAIN ChunksIn(r.snaps, d) :
          row = ChunkRow(r.snaps, d, i, Embedded(r.snaps[d].chunks[i], r.snaps[d].rev))
    BY <2>1
  <2>3. row = ChunkRow(r.snaps, d, i, VectorFor(r, rows, d, i)) /\ row.doc = d
    BY <1>1, <2>2 DEF ChunkRow
  <2> QED BY <1>4, <2>3 DEF Upserted
<1> QED BY <1>3, <1>4

\* Rows of snapshots are told apart by their document.
LEMMA SameSnapshotSameRows ==
    ASSUME NEW snaps, NEW others, NEW row \in RowsOf(snaps),
           snaps[row.doc] = others[row.doc]
    PROVE  row \in RowsOf(others) /\ row.doc \in Docs /\ row.hash = snaps[row.doc].hash
           /\ snaps[row.doc] # None
<1>1. PICK d \in Docs : \E i \in DOMAIN ChunksIn(snaps, d) :
        row = ChunkRow(snaps, d, i, Embedded(snaps[d].chunks[i], snaps[d].rev))
  BY DEF RowsOf
<1>2. PICK i \in DOMAIN ChunksIn(snaps, d) :
        row = ChunkRow(snaps, d, i, Embedded(snaps[d].chunks[i], snaps[d].rev))
  BY <1>1
<1>3. row.doc = d /\ row.hash = snaps[d].hash
  BY <1>2 DEF ChunkRow
<1>4. snaps[d] # None
  BY DEF ChunksIn
<1>5. row = ChunkRow(others, d, i, Embedded(others[d].chunks[i], others[d].rev))
      /\ i \in DOMAIN ChunksIn(others, d)
  BY <1>2, <1>3 DEF ChunkRow, ChunksIn
<1> QED BY <1>3, <1>4, <1>5 DEF RowsOf

\* The deltas of a plan turn the rows of its baseline into those of its result, with
\* the vectors that a full index would have: no row of an old version stays, and no
\* vector is carried over that belongs to another text or provider.
THEOREM DeltasAreExact ==
    ASSUME NEW r, SoundDelta(r)
    PROVE  Mutated(r, RowsOf(r.baseline)) = RowsOf(r.snaps)
<1> DEFINE rows == RowsOf(r.baseline)
<1>1. \A row : row \in Upserted(r, rows) <=> row \in RowsOf(r.snaps) /\ row.doc \in Changed(r)
  BY ReusedVectorsFit, UpsertsAreRows
<1>2. ASSUME NEW row \in Mutated(r, rows)
      PROVE  row \in RowsOf(r.snaps)
  <2>1. CASE row \in Upserted(r, rows)
    BY <1>1, <2>1
  <2>2. CASE row \notin Upserted(r, rows)
    <3>1. row \in rows /\ row \notin Removed(r, rows)
      BY <1>2, <2>2 DEF Mutated
    <3>2. row.doc \in Docs /\ row.hash = r.baseline[row.doc].hash /\ r.baseline[row.doc] # None
      BY <3>1, SameSnapshotSameRows
    <3>3. row.doc \notin Changed(r)
      BY <3>1, <3>2 DEF Removed
    <3>4. r.snaps[row.doc] = r.baseline[row.doc]
      BY <3>2, <3>3 DEF SoundDelta
    <3> QED BY <3>1, <3>4, SameSnapshotSameRows
  <2> QED BY <2>1, <2>2
<1>3. ASSUME NEW row \in RowsOf(r.snaps)
      PROVE  row \in Mutated(r, rows)
  <2>1. CASE row.doc \in Changed(r)
    BY <1>1, <2>1 DEF Mutated
  <2>2. CASE row.doc \notin Changed(r)
    <3>1. row.doc \in Docs
      BY SameSnapshotSameRows
    <3>2. r.snaps[row.doc] = r.baseline[row.doc]
      BY <2>2, <3>1 DEF SoundDelta
    <3>3. row \in rows
      BY <3>2, SameSnapshotSameRows
    <3> QED BY <2>2, <3>3 DEF Mutated, Removed
  <2> QED BY <2>1, <2>2
<1> QED BY <1>2, <1>3

\* A plan for an empty index writes every row of its result.
LEMMA DeltaFromNothing ==
    ASSUME NEW r, SoundDelta(r), r.forced \/ r.baseline = Empty
    PROVE  Mutated(r, {}) = RowsOf(r.snaps)
<1>1. \A d \in Docs : Reused(r, d) = {} /\ ~ Unchanged(r, d)
  BY DEF Reused, Reindexed, Unchanged, Empty
<1>2. \A row : row \in Upserted(r, {}) <=> row \in RowsOf(r.snaps) /\ row.doc \in Changed(r)
  BY <1>1, UpsertsAreRows
<1>3. ASSUME NEW row \in RowsOf(r.snaps)
      PROVE  row.doc \in Changed(r)
  BY <1>1, SameSnapshotSameRows DEF Changed
<1> QED BY <1>2, <1>3 DEF Mutated, Removed

-----------------------------------------------------------------------------
(* RefreshPipeline: the inductive invariant                                *)

\* A refresh has a revision.  From its discovery on, a plan reads only documents
\* that were found, gives them that revision, and carries over the snapshots of
\* those it found unchanged.
SoundPlan(r) ==
    /\ r.pc # "idle" => r.rev # None
    /\ r.pc \in {"reading", "ready", "applied"} =>
         /\ \A d \in r.todo : r.seen[d] # None
         /\ \A d \in Docs : r.snaps[d] # None => r.snaps[d].rev = r.rev
         /\ \A d \in Docs : Unchanged(r, d) => d \notin r.todo /\ r.snaps[d] = r.baseline[d]

PlansAreSound == \A w \in Workers : SoundPlan(worker[w])

IInv == TypeOK /\ PlansAreSound /\ IndexMatchesGeneration /\ OneRevisionCommitted

-----------------------------------------------------------------------------
(* Plans                                                                   *)

\* An accepted plan is what IndexPlanning's theorem asks for.
LEMMA AcceptedPlansAreSound ==
    ASSUME NEW w \in Workers, TypeOK, SoundPlan(worker[w]), PlanAccepted(w)
    PROVE  SoundDelta(worker[w])
<1> DEFINE r == worker[w]
<1>1. r \in Refreshes
  BY DEF TypeOK
<1>2. r.pc \in {"reading", "ready"}
  BY DEF PlanAccepted, Planned, At
<1>3. r.baseline \in Snapshots /\ r.snaps \in Snapshots
  BY <1>1 DEF Refreshes
<1>4. ASSUME NEW d \in Docs, d \notin Changed(r)
      PROVE  r.snaps[d] = r.baseline[d]
  BY <1>2, <1>4 DEF SoundPlan, Changed
<1> QED BY <1>2, <1>3, <1>4 DEF SoundDelta, SoundPlan

-----------------------------------------------------------------------------
(* The invariant                                                           *)

LEMMA InitInvariant == Init => IInv
<1> SUFFICES ASSUME Init PROVE IInv
  OBVIOUS
<1>1. Empty \in Snapshots /\ Empty \in [Docs -> Contents \cup {None}]
  BY DEF Empty, Snapshots
<1>2. Idle \in Refreshes
  BY <1>1 DEF Idle, Refreshes, Pcs
<1>3. TypeOK
  BY <1>1, <1>2, BoundsAssumption, NullAssumption, WorkerAssumption, HostAssumption
     DEF Init, TypeOK, UnderWay, Idle
<1>4. PlansAreSound
  BY DEF Init, PlansAreSound, SoundPlan, Idle
<1>5. IndexMatchesGeneration
  BY DEF Init, IndexMatchesGeneration
<1>6. OneRevisionCommitted
  BY DEF Init, OneRevisionCommitted, Empty
<1> QED BY <1>3, <1>4, <1>5, <1>6 DEF IInv

\* Ending a refresh keeps the workers and the lock in order.
LEMMA LeaveKeeps ==
    ASSUME NEW w \in Workers, IInv, Leave(w), UnderWay(w)
    PROVE  /\ worker' \in [Workers -> Refreshes]
           /\ lock' \in [Hosts -> Workers \cup {NoWorker}]
           /\ \A v \in Workers : UnderWay(v)' <=> lock'[HostOf[v]] = v
           /\ PlansAreSound'
<1>1. Empty \in Snapshots /\ Empty \in [Docs -> Contents \cup {None}]
  BY DEF Empty, Snapshots
<1>2. Idle \in Refreshes /\ Idle.pc = "idle"
  BY <1>1 DEF Idle, Refreshes, Pcs
<1>3. worker' \in [Workers -> Refreshes] /\ lock' \in [Hosts -> Workers \cup {NoWorker}]
  BY <1>2, HostAssumption DEF IInv, TypeOK, Leave
<1>4. \A v \in Workers : UnderWay(v)' <=> lock'[HostOf[v]] = v
  BY <1>2, <1>3, HostAssumption, NullAssumption, WorkerAssumption DEF IInv, TypeOK, Leave, UnderWay
<1>5. PlansAreSound'
  BY <1>2 DEF IInv, TypeOK, Leave, PlansAreSound, SoundPlan, Unchanged
<1> QED BY <1>3, <1>4, <1>5

\* Moving a refresh on from one point under way to another keeps the lock in order.
LEMMA MoveKeeps ==
    ASSUME NEW w \in Workers, IInv, NEW r \in Refreshes, SoundPlan(r),
           UnderWay(w), r.pc \notin {"idle", "waiting"},
           worker' = [worker EXCEPT ![w] = r], UNCHANGED lock
    PROVE  /\ worker' \in [Workers -> Refreshes]
           /\ lock' \in [Hosts -> Workers \cup {NoWorker}]
           /\ \A v \in Workers : UnderWay(v)' <=> lock'[HostOf[v]] = v
           /\ PlansAreSound'
BY DEF IInv, TypeOK, UnderWay, PlansAreSound

\* A step that leaves everything else alone keeps the rest of the invariant.
LEMMA RestKeeps ==
    ASSUME IInv, UNCHANGED <<files, revision, state, index, edits, stops, drops>>,
           spoiled' \subseteq {"torn", "emptied", "uncommitted", "repeated"},
           worker' \in [Workers -> Refreshes],
           lock' \in [Hosts -> Workers \cup {NoWorker}],
           \A v \in Workers : UnderWay(v)' <=> lock'[HostOf[v]] = v,
           PlansAreSound'
    PROVE  IInv'
BY DEF IInv, TypeOK, IndexMatchesGeneration, OneRevisionCommitted

\* exclusive_refresh_lock admits one worker of a host.
LEMMA EntryInvariant ==
    ASSUME IInv, NEW w \in Workers, Ask(w) \/ Begin(w)
    PROVE  IInv'
<1>1. CASE Ask(w)
  <2> DEFINE r == [worker[w] EXCEPT !.pc = "waiting", !.rev = revision]
  <2>1. worker' = [worker EXCEPT ![w] = r] /\ UNCHANGED lock /\ worker[w].pc = "idle"
    BY <1>1 DEF Ask, At, IInv, TypeOK, Refreshes
  <2>0. worker[w] \in Refreshes /\ revision \in Revisions
    BY DEF IInv, TypeOK
  <2>2. r \in Refreshes /\ r.pc = "waiting" /\ r.rev \in Revisions
    BY <2>0 DEF Refreshes, Pcs
  <2>3. SoundPlan(r)
    BY <2>2, NullAssumption, WorkerAssumption DEF SoundPlan
  <2> HIDE DEF r
  <2>4. worker' \in [Workers -> Refreshes]
    BY <2>1, <2>2 DEF IInv, TypeOK
  <2>5. \A v \in Workers : UnderWay(v)' <=> lock'[HostOf[v]] = v
    BY <2>1, <2>2 DEF IInv, TypeOK, UnderWay
  <2>6. PlansAreSound'
    BY <2>1, <2>3 DEF IInv, TypeOK, PlansAreSound
  <2> QED BY <1>1, <2>4, <2>5, <2>6, RestKeeps DEF Ask, IInv, TypeOK
<1>2. CASE Begin(w)
  <2> DEFINE r == [worker[w] EXCEPT !.pc = "planning"]
  <2>1. worker' = [worker EXCEPT ![w] = r] /\ worker[w].pc = "waiting"
    BY <1>2 DEF Begin, At, Goes, IInv, TypeOK, Refreshes
  <2>2. r \in Refreshes /\ r.pc = "planning"
    BY DEF IInv, TypeOK, Refreshes, Pcs
  <2>3. SoundPlan(r)
    BY <2>1, <2>2 DEF SoundPlan, IInv, TypeOK, Refreshes, PlansAreSound
  <2> HIDE DEF r
  <2>4. worker' \in [Workers -> Refreshes] /\ lock' \in [Hosts -> Workers \cup {NoWorker}]
    BY <1>2, <2>1, <2>2, HostAssumption DEF Begin, IInv, TypeOK
  <2>5. ASSUME NEW v \in Workers
        PROVE  UnderWay(v)' <=> lock'[HostOf[v]] = v
    <3>1. UnderWay(v) <=> lock[HostOf[v]] = v
      BY DEF IInv, TypeOK
    <3>2. lock[HostOf[w]] = NoWorker /\ lock' = [lock EXCEPT ![HostOf[w]] = w]
      BY <1>2 DEF Begin
    <3>3. CASE v = w
      BY <2>1, <2>2, <3>2, <3>3, HostAssumption DEF IInv, TypeOK, UnderWay
    <3>4. CASE v # w /\ HostOf[v] = HostOf[w]
      BY <2>1, <3>1, <3>2, <3>4, HostAssumption, NullAssumption, WorkerAssumption
         DEF IInv, TypeOK, UnderWay
    <3>5. CASE v # w /\ HostOf[v] # HostOf[w]
      BY <2>1, <3>1, <3>2, <3>5, HostAssumption DEF IInv, TypeOK, UnderWay
    <3> QED BY <3>3, <3>4, <3>5
  <2>6. PlansAreSound'
    BY <2>1, <2>3 DEF IInv, TypeOK, PlansAreSound
  <2> QED BY <1>2, <2>4, <2>5, <2>6, RestKeeps DEF Begin, IInv, TypeOK
<1> QED BY <1>1, <1>2

\* prepare_refresh plans to read every document that it does not carry over.
LEMMA PlanningInvariant ==
    ASSUME IInv, NEW w \in Workers,
           \/ Discover(w)
           \/ \E d \in Docs : ReadDocument(w, d)
    PROVE  IInv'
<1>1. CASE Discover(w)
  <2> DEFINE q == [worker[w] EXCEPT !.baseline = state[HostOf[w]], !.seen = files]
             r == [q EXCEPT !.pc = "reading",
                            !.todo = {d \in Docs : files[d] # None /\ ~ Unchanged(q, d)},
                            !.snaps = [d \in Docs |->
                                IF Unchanged(q, d) THEN q.baseline[d] ELSE None]]
  <2>0. worker[w] \in Refreshes /\ state[HostOf[w]] \in Snapshots
    BY HostAssumption DEF IInv, TypeOK
  <2>1. q \in Refreshes
    BY <2>0 DEF IInv, TypeOK, Refreshes
  <2>2. [d \in Docs |-> IF Unchanged(q, d) THEN q.baseline[d] ELSE None] \in Snapshots
    BY <2>1 DEF Refreshes, Snapshots
  <2>3. r \in Refreshes /\ r.pc = "reading"
    BY <2>1, <2>2 DEF Refreshes, Pcs
  <2>4. \A d \in Docs : Unchanged(r, d) <=> Unchanged(q, d)
    BY <2>1 DEF Unchanged, Refreshes
  <2>5. SoundPlan(r)
    <3>1. r.rev = q.rev /\ r.rev # None
      BY <1>1, <2>1 DEF SoundPlan, Refreshes, Discover, At, IInv, TypeOK, PlansAreSound
    <3>2. \A d \in r.todo : r.seen[d] # None
      BY <2>1 DEF Refreshes
    <3>3. ASSUME NEW d \in Docs, r.snaps[d] # None
          PROVE  r.snaps[d].rev = r.rev
      <4>1. Unchanged(q, d) /\ r.snaps[d] = q.baseline[d]
        BY <2>1, <3>3 DEF Refreshes
      <4> QED BY <3>1, <4>1 DEF Unchanged
    <3>4. ASSUME NEW d \in Docs, Unchanged(r, d)
          PROVE  d \notin r.todo /\ r.snaps[d] = r.baseline[d]
      BY <2>1, <2>4, <3>4 DEF Refreshes
    <3> QED BY <3>1, <3>2, <3>3, <3>4 DEF SoundPlan
  <2>6. worker' = [worker EXCEPT ![w] = r] /\ UNCHANGED lock
    BY <1>1 DEF Discover
  <2>7. UnderWay(w)
    BY <1>1 DEF Discover, UnderWay, At
  <2> HIDE DEF q, r
  <2>8. /\ worker' \in [Workers -> Refreshes]
        /\ lock' \in [Hosts -> Workers \cup {NoWorker}]
        /\ \A v \in Workers : UnderWay(v)' <=> lock'[HostOf[v]] = v
        /\ PlansAreSound'
    BY <2>3, <2>5, <2>6, <2>7, MoveKeeps
  <2> QED BY <1>1, <2>8, RestKeeps DEF Discover, IInv, TypeOK
<1>2. ASSUME NEW d \in Docs, ReadDocument(w, d)
      PROVE  IInv'
  <2> DEFINE old == worker[w]
             snap == SnapshotOf(old.seen[d], files[d], old.rev)
             r == [old EXCEPT !.todo = @ \ {d}, !.snaps[d] = snap]
  <2>1. old \in Refreshes /\ old.pc = "reading" /\ d \in old.todo
    BY <1>2 DEF ReadDocument, At, IInv, TypeOK
  <2>2. SoundPlan(old)
    BY DEF IInv, PlansAreSound
  <2>3. snap \in Snapshot
    <3>1. files[d] \in Contents
      BY <1>2 DEF ReadDocument, IInv, TypeOK
    <3>2. old.seen[d] \in Contents
      BY <2>1, <2>2 DEF Refreshes, SoundPlan
    <3>3. old.rev \in Revisions
      BY <2>1, <2>2 DEF Refreshes, SoundPlan
    <3>4. ChunksOf[old.rev.profile][files[d]] \in Seq(Texts)
      BY <3>1, <3>3, ChunkAssumption, RevisionAssumption
    <3> QED BY <3>2, <3>3, <3>4 DEF Snapshot, SnapshotOf
  <2>4. worker' = [worker EXCEPT ![w] = r] /\ UNCHANGED lock
    <3>1. worker' = [worker EXCEPT ![w].todo = @ \ {d}, ![w].snaps[d] = snap]
      BY <1>2 DEF ReadDocument
    <3>2. worker \in [Workers -> Refreshes] /\ UNCHANGED lock
      BY <1>2 DEF ReadDocument, IInv, TypeOK
    <3> QED BY <2>1, <3>1, <3>2 DEF Refreshes
  <2>5. [old.snaps EXCEPT ![d] = snap] \in Snapshots
    BY <2>1, <2>3 DEF Refreshes, Snapshots
  <2>6. r \in Refreshes /\ r.pc = "reading"
    BY <2>1, <2>5 DEF Refreshes
  <2>7. \A e \in Docs : Unchanged(r, e) <=> Unchanged(old, e)
    BY <2>1 DEF Unchanged, Refreshes
  <2>8. SoundPlan(r)
    <3>1. /\ r.rev = old.rev /\ r.seen = old.seen /\ r.baseline = old.baseline
          /\ r.todo = old.todo \ {d} /\ r.pc = "reading"
      BY <2>1 DEF Refreshes
    <3>2. \A e \in Docs : r.snaps[e] = IF e = d THEN snap ELSE old.snaps[e]
      BY <2>1 DEF Refreshes, Snapshots
    <3>3. snap.rev = old.rev
      BY DEF SnapshotOf
    <3>4. ~ Unchanged(r, d)
      BY <2>1, <2>2, <2>7 DEF SoundPlan, Refreshes
    <3> QED BY <2>1, <2>2, <2>7, <3>1, <3>2, <3>3, <3>4 DEF SoundPlan
  <2>9. UnderWay(w)
    BY <2>1 DEF UnderWay
  <2> HIDE DEF r, old, snap
  <2>10. /\ worker' \in [Workers -> Refreshes]
         /\ lock' \in [Hosts -> Workers \cup {NoWorker}]
         /\ \A v \in Workers : UnderWay(v)' <=> lock'[HostOf[v]] = v
         /\ PlansAreSound'
    BY <2>4, <2>6, <2>8, <2>9, MoveKeeps
  <2> QED BY <1>2, <2>10, RestKeeps DEF ReadDocument, IInv, TypeOK
<1> QED BY <1>1, <1>2

\* A verdict of the preflight moves the plan on, or ends the refresh.
LEMMA PreflightInvariant ==
    ASSUME IInv, NEW w \in Workers,
           PreflightMatch(w) \/ PreflightMissing(w) \/ PreflightMismatch(w)
    PROVE  IInv'
<1>1. worker[w] \in Refreshes /\ SoundPlan(worker[w])
  BY DEF IInv, TypeOK, PlansAreSound
<1>2. worker[w].pc = "reading" /\ UnderWay(w)
  BY DEF PreflightMatch, PreflightMissing, PreflightMismatch, Planned, At, UnderWay
<1>3. CASE PreflightMatch(w)
  <2> DEFINE r == [worker[w] EXCEPT !.pc = "ready"]
  <2>1. worker' = [worker EXCEPT ![w] = r] /\ UNCHANGED lock
    BY <1>1, <1>3 DEF PreflightMatch, Goes, IInv, TypeOK, Refreshes
  <2>2. r \in Refreshes /\ r.pc = "ready"
    BY <1>1 DEF Refreshes, Pcs
  <2>3. SoundPlan(r)
    BY <1>1, <1>2 DEF SoundPlan, Unchanged, Refreshes
  <2> HIDE DEF r
  <2> QED BY <1>2, <1>3, <2>1, <2>2, <2>3, MoveKeeps, RestKeeps
          DEF PreflightMatch, IInv, TypeOK
<1>4. CASE PreflightMissing(w)
  <2> DEFINE r == [worker[w] EXCEPT !.pc = "planning", !.forced = TRUE]
  <2>1. worker' = [worker EXCEPT ![w] = r] /\ UNCHANGED lock
    <3>1. worker' = [worker EXCEPT ![w].pc = "planning", ![w].forced = TRUE]
      BY <1>4 DEF PreflightMissing
    <3> QED BY <1>1, <1>4, <3>1 DEF PreflightMissing, IInv, TypeOK, Refreshes
  <2>2. r \in Refreshes /\ r.pc = "planning"
    BY <1>1 DEF Refreshes, Pcs
  <2>3. SoundPlan(r)
    BY <1>1, <1>2 DEF SoundPlan, Refreshes
  <2> HIDE DEF r
  <2> QED BY <1>2, <1>4, <2>1, <2>2, <2>3, MoveKeeps, RestKeeps
          DEF PreflightMissing, IInv, TypeOK
<1>5. CASE PreflightMismatch(w)
  BY <1>2, <1>5, LeaveKeeps, RestKeeps DEF PreflightMismatch, IInv, TypeOK
<1> QED BY <1>3, <1>4, <1>5

\* Every refresh that ends without an apply leaves the index alone.
LEMMA EndInvariant ==
    ASSUME IInv, NEW w \in Workers,
           \/ \E d \in Docs : DocumentIsGone(w, d)
           \/ ApplyRefused(w)
           \/ NothingToApply(w)
           \/ Commit(w)
           \/ Stop(w)
    PROVE  IInv'
<1>1. worker[w] \in Refreshes
  BY DEF IInv, TypeOK
<1>2. UnderWay(w)
  BY DEF DocumentIsGone, ApplyRefused, NothingToApply, Commit, Stop, PlanAccepted,
         Planned, At, UnderWay
<1>3. Leave(w)
  BY DEF DocumentIsGone, ApplyRefused, NothingToApply, Commit, Stop
<1>4. /\ worker' \in [Workers -> Refreshes]
      /\ lock' \in [Hosts -> Workers \cup {NoWorker}]
      /\ \A v \in Workers : UnderWay(v)' <=> lock'[HostOf[v]] = v
      /\ PlansAreSound'
  BY <1>2, <1>3, LeaveKeeps
<1>5. spoiled' \subseteq {"torn", "emptied", "uncommitted", "repeated"}
  <2>1. \/ spoiled' = spoiled
        \/ spoiled' = spoiled \cup {"uncommitted"}
        \/ spoiled' = spoiled \cup {"repeated"}
    BY DEF DocumentIsGone, ApplyRefused, NothingToApply, Commit, Stop
  <2>2. spoiled \subseteq {"torn", "emptied", "uncommitted", "repeated"}
    BY DEF IInv, TypeOK
  <2> QED BY <2>1, <2>2
<1>6. state' \in [Hosts -> Snapshots]
  BY <1>1, HostAssumption
     DEF DocumentIsGone, ApplyRefused, NothingToApply, Commit, Stop, IInv, TypeOK, Refreshes
<1>7. UNCHANGED <<files, revision, index, edits, drops>>
  BY DEF DocumentIsGone, ApplyRefused, NothingToApply, Commit, Stop
<1>8. stops' \in 0 .. MaxStops
  BY BoundsAssumption
     DEF DocumentIsGone, ApplyRefused, NothingToApply, Commit, Stop, IInv, TypeOK
<1>9. OneRevisionCommitted'
  <2>1. CASE UNCHANGED state
    BY <2>1 DEF IInv, OneRevisionCommitted
  <2>2. CASE state' = [state EXCEPT ![HostOf[w]] = worker[w].snaps]
    <3>1. worker[w].pc \in {"reading", "ready", "applied"} \/ UNCHANGED state
      BY DEF DocumentIsGone, ApplyRefused, NothingToApply, Commit, Stop, PlanAccepted,
             Planned, At
    <3>2. SoundPlan(worker[w])
      BY DEF IInv, PlansAreSound
    <3> QED BY <2>1, <2>2, <3>1, <3>2, HostAssumption
            DEF SoundPlan, IInv, TypeOK, OneRevisionCommitted
  <2> QED BY <2>1, <2>2
          DEF DocumentIsGone, ApplyRefused, NothingToApply, Commit, Stop
<1> QED BY <1>4, <1>5, <1>6, <1>7, <1>8, <1>9 DEF IInv, TypeOK, IndexMatchesGeneration

\* The provider's transaction leaves exactly the rows of the new generation: the
\* fence lets it touch only the rows the deltas were computed from.
LEMMA ApplyInvariant ==
    ASSUME IInv, NEW w \in Workers, Apply(w) \/ AlreadyApplied(w)
    PROVE  IInv'
<1> DEFINE r == [worker[w] EXCEPT !.pc = "applied"]
<1>1. worker[w] \in Refreshes /\ SoundPlan(worker[w])
  BY DEF IInv, TypeOK, PlansAreSound
<1>2. PlanAccepted(w) /\ Goes(w, "applied") /\ UNCHANGED lock
  BY DEF Apply, AlreadyApplied
<1>3. worker[w].pc \in {"reading", "ready"} /\ UnderWay(w)
  BY <1>2 DEF PlanAccepted, Planned, At, UnderWay
<1>4. worker' = [worker EXCEPT ![w] = r]
  BY <1>1, <1>2 DEF Goes, IInv, TypeOK, Refreshes
<1>5. r \in Refreshes /\ r.pc = "applied"
  BY <1>1 DEF Refreshes, Pcs
<1>6. SoundPlan(r)
  BY <1>1, <1>3 DEF SoundPlan, Unchanged, Refreshes
<1> HIDE DEF r
<1>7. /\ worker' \in [Workers -> Refreshes]
      /\ lock' \in [Hosts -> Workers \cup {NoWorker}]
      /\ \A v \in Workers : UnderWay(v)' <=> lock'[HostOf[v]] = v
      /\ PlansAreSound'
  BY <1>2, <1>3, <1>4, <1>5, <1>6, MoveKeeps
<1>8. CASE Apply(w)
  <2>1. worker[w].snaps \in Snapshots /\ worker[w].baseline \in Snapshots
    BY <1>1 DEF Refreshes
  <2>2. Mutated(worker[w], index.rows) = RowsOf(worker[w].snaps)
    <3>1. index.generation = Expected(w) /\ SoundDelta(worker[w])
      BY <1>1, <1>2, <1>8, AcceptedPlansAreSound DEF Apply, IInv
    <3>2. CASE Expected(w) = None
      <4>1. worker[w].forced \/ worker[w].baseline = Empty
        BY <2>1, <3>2, NullAssumption DEF Expected
      <4>2. index.rows = {}
        BY <3>1, <3>2 DEF IInv, IndexMatchesGeneration
      <4> QED BY <3>1, <4>1, <4>2, DeltaFromNothing
    <3>3. CASE Expected(w) # None
      <4>1. Expected(w) = worker[w].baseline
        BY <3>3 DEF Expected
      <4>2. index.rows = RowsOf(worker[w].baseline)
        BY <3>1, <3>3, <4>1 DEF IInv, IndexMatchesGeneration
      <4> QED BY <3>1, <4>2, DeltasAreExact
    <3> QED BY <3>2, <3>3
  <2>3. index'.rows = RowsOf(worker[w].snaps) /\ index'.generation = worker[w].snaps
    BY <1>8, <2>2 DEF Apply
  <2>4. IndexMatchesGeneration'
    BY <2>1, <2>3, NullAssumption, WorkerAssumption DEF IndexMatchesGeneration
  <2>5. index'.rows \subseteq Row /\ index'.generation \in Snapshots \cup {None}
    BY <2>1, <2>3, RowsAreRows
  <2>6. spoiled' \subseteq {"torn", "emptied", "uncommitted", "repeated"}
    BY <1>8 DEF Apply, Damage, IInv, TypeOK
  <2>7. UNCHANGED <<files, revision, state, edits, stops, drops>>
    BY <1>8 DEF Apply
  <2> QED BY <1>7, <2>4, <2>5, <2>6, <2>7 DEF IInv, TypeOK, OneRevisionCommitted
<1>9. CASE AlreadyApplied(w)
  BY <1>7, <1>9, RestKeeps DEF AlreadyApplied, IInv, TypeOK
<1> QED BY <1>8, <1>9

\* Edits, reconfigurations and dropped schemas leave plans and locks alone.
LEMMA WorldInvariant ==
    ASSUME IInv, (\E d \in Docs : EditFile(d)) \/ Reconfigure \/ DropIndex
    PROVE  IInv'
<1>1. /\ UNCHANGED <<state, lock, worker, spoiled, stops>>
      /\ UNCHANGED index \/ (index'.rows = {} /\ index'.generation = None)
  BY DEF EditFile, Reconfigure, DropIndex
<1>2. /\ files' \in [Docs -> Contents \cup {None}]
      /\ revision' \in Revisions
      /\ edits' \in 0 .. MaxEdits /\ drops' \in 0 .. MaxDrops
  BY BoundsAssumption DEF EditFile, Reconfigure, DropIndex, IInv, TypeOK
<1>3. TypeOK'
  BY <1>1, <1>2 DEF IInv, TypeOK, UnderWay
<1>4. PlansAreSound'
  BY <1>1 DEF IInv, PlansAreSound
<1>5. IndexMatchesGeneration'
  BY <1>1 DEF IInv, IndexMatchesGeneration
<1>6. OneRevisionCommitted'
  BY <1>1 DEF IInv, OneRevisionCommitted
<1> QED BY <1>3, <1>4, <1>5, <1>6 DEF IInv

LEMMA StepInvariant == IInv /\ [Next]_vars => IInv'
<1> SUFFICES ASSUME IInv, [Next]_vars PROVE IInv'
  OBVIOUS
<1>1. ASSUME NEW w \in Workers, RefreshStep(w) \/ Stop(w)
      PROVE  IInv'
  BY <1>1, EntryInvariant, PlanningInvariant, PreflightInvariant, EndInvariant,
     ApplyInvariant DEF RefreshStep
<1>2. CASE (\E d \in Docs : EditFile(d)) \/ Reconfigure \/ DropIndex
  BY <1>2, WorldInvariant
<1>3. CASE UNCHANGED vars
  BY <1>3 DEF vars, IInv, TypeOK, UnderWay, PlansAreSound, IndexMatchesGeneration,
             OneRevisionCommitted
<1> QED BY <1>1, <1>2, <1>3 DEF Next

THEOREM Invariance == Spec => []IInv
BY InitInvariant, StepInvariant, PTL DEF Spec

-----------------------------------------------------------------------------
(* Theorems                                                                *)

\* Every variable keeps its type, and a refresh under way holds its host's lock.
THEOREM TypeCorrect == Spec => []TypeOK
BY Invariance, PTL DEF IInv

\* The durable index always holds the rows of one plan, named by its generation,
\* whatever hosts, stopped refreshes and dropped schemas do.
THEOREM GenerationNamesRows == Spec => []IndexMatchesGeneration
BY Invariance, PTL DEF IInv

\* No interleaving of reconfigurations, stale runtimes and stopped refreshes leaves
\* a state that _baseline_provider_revision refuses.
THEOREM StatesHaveOneRevision == Spec => []OneRevisionCommitted
BY Invariance, PTL DEF IInv

-----------------------------------------------------------------------------
(* State and index of one host                                             *)

\* The lock keeps others of the host from the state while a plan is made from it.
BaselinesAreCurrent ==
    \A w \in Workers :
        worker[w].pc \in {"reading", "ready"} => worker[w].baseline = state[HostOf[w]]

\* What was applied is in the index until it is committed, or the index was dropped.
AppliedIsThere ==
    SingleHost => \A w \in Workers : worker[w].pc = "applied" =>
        \/ index.generation = worker[w].snaps
        \/ index.generation = None /\ drops > 0

Agree == \A h \in Hosts : \/ index.generation = state[h]
                          \/ index.generation = None /\ state[h] = Empty

\* State and index agree except between an apply and its commit.
Agreement ==
    (SingleHost /\ drops = 0 /\ "uncommitted" \notin spoiled) =>
        Agree \/ \E w \in Workers : worker[w].pc = "applied"

HostInv == IInv /\ BaselinesAreCurrent /\ AppliedIsThere /\ Agreement

\* What a step of a worker can do to its state and index.
Quiet(w) ==
    /\ UNCHANGED <<state, index>>
    /\ worker[w].pc # "applied" /\ worker'[w].pc # "applied"
    /\ worker'[w].pc \in {"reading", "ready"} => worker'[w].baseline = state[HostOf[w]]

Applies(w) ==
    /\ UNCHANGED state
    /\ UnderWay(w)
    /\ worker'[w].pc = "applied"
    /\ index'.generation = worker'[w].snaps

Commits(w) ==
    /\ UNCHANGED index
    /\ worker[w].pc = "applied" /\ worker'[w].pc = "idle"
    /\ state' = [state EXCEPT ![HostOf[w]] = worker[w].snaps]

Abandons(w) ==
    /\ UNCHANGED <<state, index>>
    /\ worker[w].pc = "applied" /\ worker'[w].pc = "idle"
    /\ "uncommitted" \in spoiled'

\* Whoever leaves is idle.
LEMMA LeavesIdle ==
    ASSUME TypeOK, NEW w \in Workers, Leave(w)
    PROVE  worker'[w].pc = "idle" /\ \A v \in Workers \ {w} : worker'[v] = worker[v]
BY DEF TypeOK, Leave, Idle

\* A plan that changes nothing has the state as its result.
LEMMA NothingChanges ==
    ASSUME IInv, BaselinesAreCurrent, NEW w \in Workers, NothingToApply(w)
    PROVE  state' = state
<1>1. worker[w].pc \in {"reading", "ready"} /\ PlanAccepted(w) /\ Changed(worker[w]) = {}
  BY DEF NothingToApply, PlanAccepted, Planned, At
<1>2. SoundDelta(worker[w])
  BY <1>1, AcceptedPlansAreSound DEF IInv, PlansAreSound
<1>3. worker[w].snaps = worker[w].baseline
  <2>1. \A d \in Docs : worker[w].snaps[d] = worker[w].baseline[d]
    BY <1>1, <1>2 DEF SoundDelta
  <2> QED BY <1>2, <2>1 DEF SoundDelta, Snapshots
<1>4. worker[w].baseline = state[HostOf[w]]
  BY <1>1 DEF BaselinesAreCurrent
<1> QED BY <1>3, <1>4, HostAssumption DEF NothingToApply, IInv, TypeOK

\* Each step of a worker is of one of these kinds, and leaves the others alone.
LEMMA StepEffects ==
    ASSUME IInv, BaselinesAreCurrent, NEW w \in Workers, RefreshStep(w) \/ Stop(w)
    PROVE  /\ \A v \in Workers \ {w} : worker'[v] = worker[v]
           /\ drops' = drops /\ spoiled \subseteq spoiled'
           /\ Quiet(w) \/ Applies(w) \/ Commits(w) \/ Abandons(w)
<1>0. TypeOK /\ worker \in [Workers -> Refreshes] /\ worker[w] \in Refreshes
  BY DEF IInv, TypeOK
<1>1. CASE Ask(w) \/ Begin(w) \/ PreflightMissing(w)
  BY <1>0, <1>1 DEF Ask, Begin, PreflightMissing, Planned, Goes, At, Quiet, Refreshes
<1>2. CASE Discover(w)
  BY <1>0, <1>2 DEF Discover, At, Quiet, Refreshes
<1>3. ASSUME NEW d \in Docs, ReadDocument(w, d)
      PROVE  Quiet(w) /\ UNCHANGED <<drops, spoiled>>
             /\ \A v \in Workers \ {w} : worker'[v] = worker[v]
  <2>1. worker[w].pc = "reading" /\ UNCHANGED <<state, index, drops, spoiled>>
    BY <1>3 DEF ReadDocument, At
  <2>2. worker'[w].pc = "reading" /\ worker'[w].baseline = worker[w].baseline
        /\ \A v \in Workers \ {w} : worker'[v] = worker[v]
    BY <1>0, <1>3, <2>1 DEF ReadDocument, Refreshes
  <2> QED BY <2>1, <2>2 DEF Quiet, BaselinesAreCurrent
<1>4. CASE PreflightMatch(w)
  <2>1. worker[w].pc = "reading"
    BY <1>4 DEF PreflightMatch, Planned, At
  <2>2. worker'[w].pc = "ready" /\ worker'[w].baseline = worker[w].baseline
        /\ \A v \in Workers \ {w} : worker'[v] = worker[v]
    BY <1>0, <1>4 DEF PreflightMatch, Goes, Refreshes
  <2> QED BY <1>4, <2>1, <2>2 DEF PreflightMatch, Quiet, BaselinesAreCurrent
<1>5. CASE PreflightMismatch(w) \/ ApplyRefused(w) \/ \E d \in Docs : DocumentIsGone(w, d)
  <2>1. Leave(w) /\ UNCHANGED <<state, index, drops>> /\ spoiled \subseteq spoiled'
    BY <1>5 DEF PreflightMismatch, ApplyRefused, DocumentIsGone
  <2>2. worker[w].pc \in {"reading", "ready"}
    BY <1>5 DEF PreflightMismatch, ApplyRefused, DocumentIsGone, PlanAccepted, Planned, At
  <2> QED BY <1>0, <2>1, <2>2, LeavesIdle DEF Quiet
<1>6. CASE NothingToApply(w)
  <2>1. Leave(w) /\ UNCHANGED <<index, drops, spoiled>> /\ worker[w].pc \in {"reading", "ready"}
    BY <1>6 DEF NothingToApply, PlanAccepted, Planned, At
  <2> QED BY <1>0, <1>6, <2>1, LeavesIdle, NothingChanges DEF Quiet
<1>7. CASE Apply(w) \/ AlreadyApplied(w)
  <2>1. worker[w].pc \in {"reading", "ready"} /\ Goes(w, "applied") /\ UNCHANGED <<state, drops>>
        /\ spoiled \subseteq spoiled' /\ index'.generation = worker[w].snaps
    BY <1>7 DEF Apply, AlreadyApplied, PlanAccepted, Planned, At
  <2>2. worker'[w].pc = "applied" /\ worker'[w].snaps = worker[w].snaps
        /\ \A v \in Workers \ {w} : worker'[v] = worker[v]
    BY <1>0, <2>1 DEF Goes, Refreshes
  <2> QED BY <2>1, <2>2 DEF Applies, UnderWay
<1>8. CASE Commit(w)
  BY <1>0, <1>8, LeavesIdle DEF Commit, At, Commits
<1>9. CASE Stop(w)
  <2>1. Leave(w) /\ UNCHANGED <<state, index, drops>> /\ spoiled \subseteq spoiled'
        /\ (worker[w].pc = "applied" => "uncommitted" \in spoiled')
    BY <1>9 DEF Stop, At
  <2> QED BY <1>0, <2>1, LeavesIdle DEF Quiet, Abandons
<1> QED BY <1>1, <1>2, <1>3, <1>4, <1>5, <1>6, <1>7, <1>8, <1>9
        DEF RefreshStep, Ask, Begin, PreflightMissing, PreflightMatch, Discover, Commit

\* Two workers of a host are not in a refresh at once.
LEMMA OneAtATime ==
    ASSUME TypeOK, NEW v \in Workers, NEW w \in Workers, UnderWay(v), UnderWay(w),
           HostOf[v] = HostOf[w]
    PROVE  v = w
BY DEF TypeOK

LEMMA HostStep ==
    ASSUME HostInv, NEW w \in Workers, RefreshStep(w) \/ Stop(w)
    PROVE  BaselinesAreCurrent' /\ AppliedIsThere' /\ Agreement'
<1>0. TypeOK /\ HostOf[w] \in Hosts
  BY HostAssumption DEF HostInv, IInv
<1>1. /\ \A v \in Workers \ {w} : worker'[v] = worker[v]
      /\ drops' = drops /\ spoiled \subseteq spoiled'
      /\ Quiet(w) \/ Applies(w) \/ Commits(w) \/ Abandons(w)
  BY StepEffects DEF HostInv
<1>2. CASE Quiet(w)
  <2>1. BaselinesAreCurrent'
    BY <1>1, <1>2 DEF Quiet, HostInv, BaselinesAreCurrent
  <2>2. AppliedIsThere'
    BY <1>1, <1>2 DEF Quiet, HostInv, AppliedIsThere
  <2>3. Agreement'
    BY <1>1, <1>2 DEF Quiet, HostInv, Agreement, Agree
  <2> QED BY <2>1, <2>2, <2>3
<1>3. CASE Applies(w)
  <2>1. BaselinesAreCurrent'
    BY <1>1, <1>3 DEF Applies, HostInv, BaselinesAreCurrent
  <2>2. ASSUME SingleHost, NEW v \in Workers, worker'[v].pc = "applied"
        PROVE  v = w
    <3>1. CASE v # w
      <4>1. UnderWay(v) /\ UnderWay(w) /\ HostOf[v] = HostOf[w]
        BY <1>1, <1>3, <2>2, <3>1, HostAssumption DEF Applies, UnderWay, SingleHost
      <4> QED BY <1>0, <4>1, OneAtATime
    <3> QED BY <3>1
  <2>3. AppliedIsThere'
    BY <1>3, <2>2 DEF Applies, AppliedIsThere
  <2>4. Agreement'
    BY <1>3 DEF Applies, Agreement
  <2> QED BY <2>1, <2>3, <2>4
<1>4. CASE Commits(w)
  <2>1. ASSUME NEW v \in Workers, worker'[v].pc \in {"reading", "ready"}
        PROVE  worker'[v].baseline = state'[HostOf[v]]
    <3>1. v # w /\ worker'[v] = worker[v]
      BY <1>1, <1>4, <2>1 DEF Commits
    <3>2. UnderWay(v) /\ UnderWay(w)
      BY <1>4, <2>1, <3>1 DEF Commits, UnderWay
    <3>3. HostOf[v] # HostOf[w]
      BY <1>0, <3>1, <3>2, OneAtATime
    <3>4. state'[HostOf[v]] = state[HostOf[v]]
      BY <1>0, <1>4, <3>3, HostAssumption DEF Commits, TypeOK
    <3> QED BY <2>1, <3>1, <3>4 DEF HostInv, BaselinesAreCurrent
  <2>2. AppliedIsThere'
    BY <1>1, <1>4 DEF Commits, HostInv, AppliedIsThere
  <2>3. ASSUME SingleHost, drops = 0
        PROVE  Agree'
    <3>1. index.generation = worker[w].snaps
      BY <1>4, <2>3 DEF Commits, HostInv, AppliedIsThere
    <3>2. \A h \in Hosts : state'[h] = worker[w].snaps
      BY <1>0, <1>4, <2>3 DEF Commits, TypeOK, SingleHost
    <3> QED BY <1>4, <3>1, <3>2 DEF Commits, Agree
  <2>4. Agreement'
    BY <1>1, <2>3 DEF Agreement
  <2> QED BY <2>1, <2>2, <2>4 DEF BaselinesAreCurrent
<1>5. CASE Abandons(w)
  <2>1. BaselinesAreCurrent'
    BY <1>1, <1>5 DEF Abandons, HostInv, BaselinesAreCurrent
  <2>2. AppliedIsThere'
    BY <1>1, <1>5 DEF Abandons, HostInv, AppliedIsThere
  <2>3. Agreement'
    BY <1>5 DEF Abandons, Agreement
  <2> QED BY <2>1, <2>2, <2>3
<1> QED BY <1>1, <1>2, <1>3, <1>4, <1>5

LEMMA HostInit == Init => HostInv
<1> SUFFICES ASSUME Init PROVE HostInv
  OBVIOUS
<1>1. IInv
  BY InitInvariant
<1>2. \A w \in Workers : worker[w].pc = "idle"
  BY DEF Init, Idle
<1>3. Agree
  BY DEF Init, Agree
<1> QED BY <1>1, <1>2, <1>3 DEF HostInv, BaselinesAreCurrent, AppliedIsThere, Agreement

LEMMA HostNext == HostInv /\ [Next]_vars => HostInv'
<1> SUFFICES ASSUME HostInv, [Next]_vars PROVE HostInv'
  OBVIOUS
<1>0. IInv'
  BY StepInvariant DEF HostInv
<1>1. ASSUME NEW w \in Workers, RefreshStep(w) \/ Stop(w)
      PROVE  HostInv'
  BY <1>0, <1>1, HostStep DEF HostInv
<1>2. CASE (\E d \in Docs : EditFile(d)) \/ Reconfigure \/ UNCHANGED vars
  <2>1. UNCHANGED <<state, index, worker, spoiled, drops>>
    BY <1>2 DEF EditFile, Reconfigure, vars
  <2> QED BY <1>0, <2>1 DEF HostInv, BaselinesAreCurrent, AppliedIsThere, Agreement, Agree
<1>3. CASE DropIndex
  <2>1. UNCHANGED <<state, worker>> /\ index'.generation = None /\ drops' > 0
    BY <1>3 DEF DropIndex, HostInv, IInv, TypeOK
  <2> QED BY <1>0, <2>1 DEF HostInv, BaselinesAreCurrent, AppliedIsThere, Agreement
<1> QED BY <1>1, <1>2, <1>3 DEF Next

\* With one host, the lock and the order of apply and commit keep the state file and
\* the durable index together for any number of workers, documents and edits: they
\* differ only after a refresh that stopped in between, or a dropped schema.
THEOREM StateAndIndexAgree == Spec => []StateTracksIndex
<1>1. HostInv => StateTracksIndex
  <2> SUFFICES ASSUME HostInv, SingleHost, drops = 0, "uncommitted" \notin spoiled,
                      NEW h \in Hosts, lock[h] = NoWorker
               PROVE  \/ index.generation = state[h]
                      \/ index.generation = None /\ state[h] = Empty
    BY DEF StateTracksIndex
  <2>1. ASSUME NEW w \in Workers
        PROVE  worker[w].pc # "applied"
    <3>1. HostOf[w] = h
      BY HostAssumption DEF SingleHost
    <3> QED BY <3>1, WorkerAssumption DEF HostInv, IInv, TypeOK, UnderWay
  <2> QED BY <2>1 DEF HostInv, Agreement, Agree
<1> QED BY <1>1, HostInit, HostNext, PTL DEF Spec

\* Apply before state, for any number of workers of the host: a step that moves the
\* state file on finds its documents in the index.
THEOREM ApplyBeforeState == Spec => StateFollowsIndex
<1>1. ASSUME HostInv, [Next]_vars
      PROVE  [SingleHost => \A h \in Hosts : state'[h] # state[h] =>
                  index.generation = state'[h] \/ index.generation = None]_vars
  <2> SUFFICES ASSUME SingleHost, NEW h \in Hosts, state'[h] # state[h]
               PROVE  index.generation = state'[h] \/ index.generation = None
    OBVIOUS
  <2>1. ASSUME NEW w \in Workers, RefreshStep(w) \/ Stop(w)
        PROVE  index.generation = state'[h] \/ index.generation = None
    <3>1. Commits(w)
      BY <1>1, <2>1, StepEffects DEF HostInv, Quiet, Applies, Abandons
    <3>2. HostOf[w] = h
      BY HostAssumption DEF SingleHost
    <3>3. state'[h] = worker[w].snaps
      BY <1>1, <3>1, <3>2 DEF Commits, HostInv, IInv, TypeOK
    <3> QED BY <1>1, <3>1, <3>3 DEF Commits, HostInv, AppliedIsThere
  <2> QED BY <1>1, <2>1 DEF Next, EditFile, Reconfigure, DropIndex, vars
<1> QED BY <1>1, HostInit, HostNext, PTL DEF Spec, StateFollowsIndex
=============================================================================
