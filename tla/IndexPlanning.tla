---------------------------- MODULE IndexPlanning ----------------------------
(***************************************************************************)
(* What a refresh plans and what its plan does to the durable rows, chunk  *)
(* by chunk: plan_index_updates and _chunk_delta (indexing.py) and         *)
(* build_index_apply_plan (index_apply_bridge.py).                         *)
(*                                                                         *)
(* A document's content stands for its bytes and their hash; ChunksOf is   *)
(* what chunk_markdown makes of it (Chunking says how).  A chunk is named  *)
(* by its place, as chunk_id and ordinal do, and its text stands for its   *)
(* content_hash.  A vector is an embedding: of a text, by the provider     *)
(* revision that computed it.                                              *)
(*                                                                         *)
(* A plan is a record r with the fields rev (the revision of the runtime), *)
(* baseline and snaps (snapshots before and after), seen (the hashes that  *)
(* discovery found) and forced (force_full_reindex).                       *)
(***************************************************************************)
EXTENDS Naturals, Sequences, FiniteSets

CONSTANTS
    Docs,            \* relative paths (stable_document_id)
    Contents,        \* what a file may hold
    Texts,           \* texts of chunks
    Profiles,        \* chunk profiles (representation_revision)
    Providers,       \* provider revisions
    Revisions,       \* what the scope may be configured with
    ChunksOf,        \* the texts of a content's chunks, under a profile
    Threshold,       \* full_reindex_threshold, in percent
    None             \* no file, no snapshot, no generation

ASSUME RevisionAssumption == Revisions \subseteq [profile : Profiles, provider : Providers]
ASSUME ChunkAssumption == ChunksOf \in [Profiles -> [Contents -> Seq(Texts)]]
ASSUME ThresholdAssumption == Threshold \in 0..100

-----------------------------------------------------------------------------
(* Snapshots and rows                                                      *)

\* DocumentSnapshot: hash is file_hash and source_version.
Snapshot == [hash : Contents, chunks : Seq(Texts), rev : Revisions]
Snapshots == [Docs -> Snapshot \cup {None}]
Empty == [d \in Docs |-> None]

ASSUME NullAssumption == None \notin Contents \cup Revisions \cup Snapshot \cup Snapshots

\* The chunks of a document, none when it has no snapshot.
ChunksIn(snaps, d) == IF snaps[d] = None THEN <<>> ELSE snaps[d].chunks

Vector == [of : Texts, by : Providers]
Embedded(text, rev) == [of |-> text, by |-> rev.provider]

\* A row of the durable index: a chunk of one version of a document.
Row == [doc : Docs, hash : Contents, chunk : Nat, text : Texts, vector : Vector]

ChunkRow(snaps, d, i, vector) ==
    [doc |-> d, hash |-> snaps[d].hash, chunk |-> i, text |-> snaps[d].chunks[i],
     vector |-> vector]

\* The rows that an index with these snapshots should have.
RowsOf(snaps) ==
    UNION {{ChunkRow(snaps, d, i, Embedded(snaps[d].chunks[i], snaps[d].rev)) :
                i \in DOMAIN ChunksIn(snaps, d)} : d \in Docs}

-----------------------------------------------------------------------------
(* _chunk_delta                                                            *)

Larger(a, b) == IF a > b THEN a ELSE b

\* How often a text occurs among the first chunks.
Occurrences(chunks, text, n) == Cardinality({j \in 1..n : chunks[j] = text})

\* The counter of the others is counted down for every chunk with their text: a
\* chunk goes without a partner when it is the n-th of its text and they have less.
Unmatched(chunks, others) ==
    {i \in DOMAIN chunks :
        Occurrences(chunks, chunks[i], i) > Occurrences(others, chunks[i], Len(others))}

\* change_ratio > full_reindex_threshold
ChangesTooMuch(old, new) ==
    LET changed == Larger(Cardinality(Unmatched(new, old)), Cardinality(Unmatched(old, new)))
        units   == Larger(1, Larger(Len(old), Len(new)))
    IN  changed * 100 > Threshold * units

-----------------------------------------------------------------------------
(* plan_index_updates                                                      *)

\* Seeded fault: the revision of the provider is not compared.
UnchangedBytes(r, d) ==
    /\ ~ r.forced
    /\ r.baseline[d] # None
    /\ r.baseline[d].hash = r.seen[d]
    /\ r.baseline[d].rev.profile = r.rev.profile

\* This document keeps its snapshot and is not read again.
Unchanged(r, d) ==
    /\ ~ r.forced
    /\ r.baseline[d] # None
    /\ r.baseline[d].hash = r.seen[d]
    /\ r.baseline[d].rev = r.rev

\* IndexPlan.changed: new, re-read and deleted documents.
Changed(r) ==
    {d \in Docs : /\ r.snaps[d] # None \/ r.baseline[d] # None
                  /\ ~ Unchanged(r, d)}

\* Seeded fault: vectors of another provider are reused when the text is the same.
ReindexedWhenLarge(r, d) ==
    \/ r.forced
    \/ r.baseline[d] = None
    \/ ChangesTooMuch(r.baseline[d].chunks, ChunksIn(r.snaps, d))

\* A new document, or one that is indexed in full ("new", "full_reindex").
Reindexed(r, d) ==
    \/ r.forced
    \/ r.baseline[d] = None
    \/ r.baseline[d].rev.provider # r.rev.provider
    \/ ChangesTooMuch(r.baseline[d].chunks, ChunksIn(r.snaps, d))

\* reused_chunks; all other chunks are embedded.
Reused(r, d) ==
    IF Reindexed(r, d) THEN {}
    ELSE LET new == ChunksIn(r.snaps, d)
         IN  DOMAIN new \ Unmatched(new, r.baseline[d].chunks)

-----------------------------------------------------------------------------
(* build_index_apply_plan, and the provider that is handed its result      *)

\* apply_id: a digest of the revision and of every mutation of the plan.
ApplyIdOf(r) ==
    [rev |-> r.rev,
     from |-> [d \in Changed(r) |-> IF r.baseline[d] = None THEN None ELSE r.baseline[d].hash],
     to |-> [d \in Changed(r) |->
                IF r.snaps[d] = None THEN None ELSE <<r.snaps[d].hash, r.snaps[d].chunks>>],
     reused |-> [d \in Changed(r) |-> Reused(r, d)]]

\* EmbeddingReuse: rows of the previous version with this content_hash.
Sources(r, rows, d, i) ==
    {row \in rows : /\ row.doc = d
                    /\ row.hash = r.baseline[d].hash
                    /\ row.text = r.snaps[d].chunks[i]}

VectorFor(r, rows, d, i) ==
    IF i \in Reused(r, d) THEN (CHOOSE row \in Sources(r, rows, d, i) : TRUE).vector
    ELSE Embedded(r.snaps[d].chunks[i], r.rev)

\* remove_previous_version
Removed(r, rows) ==
    {row \in rows : /\ row.doc \in Changed(r)
                    /\ r.baseline[row.doc] # None
                    /\ row.hash = r.baseline[row.doc].hash}

\* upsert_chunks, with the vectors that are computed and reused.
Upserted(r, rows) ==
    UNION {{ChunkRow(r.snaps, d, i, VectorFor(r, rows, d, i)) :
                i \in DOMAIN ChunksIn(r.snaps, d)} : d \in Changed(r)}

\* Every mutation of the plan: the previous version goes, the current one comes.
Mutated(r, rows) == (rows \ Removed(r, rows)) \cup Upserted(r, rows)
=============================================================================
