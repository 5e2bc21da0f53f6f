--------------------------- MODULE ReadingProofs ---------------------------
(***************************************************************************)
(* The properties of Reading, for any files, chunk profiles, windows,      *)
(* limits, trees of files with links, and scopes.                          *)
(*                                                                         *)
(* LinesResolve rests on PiecesPlaced, which is inductive given the IInv   *)
(* of ChunkingProofs: a chunk is lines of the file, and the segments of a  *)
(* line follow each other from its start.  LineEndIsShown rests on         *)
(* EndsGrow, which is inductive too: every line has characters.            *)
(*                                                                         *)
(* What a scope has does not change, and its properties are about the      *)
(* loops of ScopeFiles.  A loop is a recursive function over 0..L; that it *)
(* has values at all (LoopExists), and what holds of each of them, is      *)
(* shown by induction up to L (UpTo), which is that a set of numbers has a *)
(* least element.  The walk of discover_markdown leads only to folders     *)
(* that their own path resolves to (WalkedAreStraight), and to all of them *)
(* (FoldersAreWalked); the invariant of the loops of policy_for is Decided.*)
(***************************************************************************)
EXTENDS Reading, ChunkingProofs, FiniteSetTheorems, WellFoundedInduction, TLAPS

-----------------------------------------------------------------------------
(* Least elements, induction and loops                                     *)

\* A set of numbers has a least element.
LEMMA LeastExists ==
    ASSUME NEW S \in SUBSET Nat, S # {}
    PROVE  \E x \in S : \A y \in S : x <= y
<1> DEFINE R == OpToRel(<, Nat)
<1>1. IsWellFoundedOn(R, Nat)
  BY NatLessThanWellFounded
<1>2. \A x, y \in Nat : y < x => <<y, x>> \in R
  BY DEF OpToRel
<1> HIDE DEF R
<1>3. PICK x \in S : \A y \in S : ~ (<<y, x>> \in R)
  BY <1>1, WFMin
<1>4. \A y \in S : y \in Nat /\ x \in Nat /\ ~ (y < x)
  BY <1>2, <1>3
<1>5. \A y \in S : x <= y
  BY <1>4
<1> QED BY <1>5

\* Induction up to a bound: S is where a formula holds.
LEMMA UpTo ==
    ASSUME NEW L \in Nat, NEW S \in SUBSET (0..L), 0 \in S,
           \A n \in 1..L : n - 1 \in S => n \in S
    PROVE  \A n \in 0..L : n \in S
<1> DEFINE T == (0..L) \ S
<1>1. SUFFICES ASSUME T # {} PROVE FALSE
  OBVIOUS
<1>2. PICK n \in T : \A m \in T : n <= m
  <2>1. T \in SUBSET Nat
    OBVIOUS
  <2> HIDE DEF T
  <2> QED BY <1>1, <2>1, LeastExists
<1>3. n \in 1..L /\ n - 1 \in 0..L /\ n - 1 < n
  BY <1>2
<1>4. n - 1 \in S
  BY <1>2, <1>3
<1> QED BY <1>2, <1>3, <1>4

\* g has the values of a loop over 1..L.
Goes(g, base, L, step) == g[0] = base /\ \A n \in 1..L : g[n] = step[<<g[n - 1], n>>]

\* A loop has values: what a recursive function over 0..L chooses exists.
LEMMA LoopExists ==
    ASSUME NEW S, NEW base \in S, NEW L \in Nat, NEW step \in [S \X (1..L) -> S]
    PROVE  \E g \in [0..L -> S] : Goes(g, base, L, step)
<1> DEFINE Loop(g, l) == Goes(g, base, l, step)
           T == {l \in 0..L : \E g \in [0..l -> S] : Loop(g, l)}
<1>1. 0 \in T
  <2> DEFINE g == [n \in 0..0 |-> base]
  <2>1. g \in [0..0 -> S] /\ Loop(g, 0)
    BY DEF Goes
  <2>2. 0 \in 0..L
    OBVIOUS
  <2> HIDE DEF g, Loop
  <2> QED BY <2>1, <2>2
<1>2. ASSUME NEW l \in 1..L, l - 1 \in T
      PROVE  l \in T
  <2>1. PICK g \in [0..(l - 1) -> S] : Loop(g, l - 1)
    BY <1>2
  <2>2. g[0] = base /\ \A n \in 1..(l - 1) : g[n] = step[<<g[n - 1], n>>]
    BY <2>1 DEF Goes
  <2> DEFINE h == [n \in 0..l |-> IF n = l THEN step[<<g[l - 1], l>>] ELSE g[n]]
  <2>3. g[l - 1] \in S /\ step[<<g[l - 1], l>>] \in S
    BY <2>1
  <2>4. h \in [0..l -> S]
    BY <2>1, <2>3
  <2>5. h[0] = base
    BY <2>2
  <2>6. ASSUME NEW n \in 1..l PROVE h[n] = step[<<h[n - 1], n>>]
    <3>1. h[n - 1] = g[n - 1]
      OBVIOUS
    <3>2. CASE n = l
      <4>1. h[l] = step[<<g[l - 1], l>>]
        OBVIOUS
      <4> HIDE DEF h
      <4> QED BY <3>1, <3>2, <4>1
    <3>3. CASE n # l
      <4>1. n \in 1..(l - 1)
        BY <3>3
      <4>2. h[n] = g[n]
        BY <3>3
      <4>3. g[n] = step[<<g[n - 1], n>>]
        BY <4>1, <2>2
      <4> HIDE DEF h
      <4> QED BY <3>1, <4>2, <4>3
    <3> QED BY <3>2, <3>3
  <2> HIDE DEF h
  <2>7. Loop(h, l)
    BY <2>5, <2>6 DEF Goes
  <2> QED BY <2>4, <2>7
<1>3. \A l \in 0..L : l \in T
  <2>1. T \in SUBSET (0..L)
    OBVIOUS
  <2> HIDE DEF T
  <2> QED BY <1>1, <1>2, <2>1, UpTo
<1>4. L \in T
  <2> HIDE DEF T
  <2> QED BY <1>3
<1> QED BY <1>4

-----------------------------------------------------------------------------
(* Every line is in a chunk                                                *)

\* The file is chunked whatever is asked.
LEMMA ReadingIsChunking == ReadSpec => ChunkSpec
<1>1. ReadInit => ChunkInit
  BY DEF ReadInit
<1>2. [ReadNext]_readVars => [ChunkNext]_chunkVars
  BY DEF ReadNext, readVars, chunkVars
<1> QED BY <1>1, <1>2, PTL DEF ReadSpec, ChunkSpec

\* Pieces are lines of the file, and segments parts of one line, of which the first
\* begins at its start.
WellPlaced(p) ==
    /\ 1 <= p.first /\ p.first <= p.last /\ p.last <= Count
    /\ p.kind = "segment" => p.first = p.last

Leads(p, q) == q.kind = "segment" /\ q.from # 0 => p.kind = "segment" /\ p.first = q.first

PiecesPlaced ==
    /\ \A k \in DOMAIN pieces : WellPlaced(pieces[k])
    /\ \A k \in DOMAIN pieces :
         IF k = 1 THEN pieces[k].kind = "segment" => pieces[k].from = 0
         ELSE Leads(pieces[k - 1], pieces[k])

LEMMA PiecePlaced ==
    ASSUME IInv, PiecesPlaced, text' = text, NEW p \in PieceRecords,
           pieces' = Append(pieces, p), WellPlaced(p),
           p.kind = "segment" /\ p.from # 0 => pieces # <<>> /\ Leads(LastPiece, p)
    PROVE  PiecesPlaced'
<1>1. /\ pieces \in Seq(PieceRecords) /\ Len(pieces) \in Nat /\ DOMAIN pieces = 1..Len(pieces)
      /\ DOMAIN pieces' = 1..(Len(pieces) + 1)
      /\ \A k \in DOMAIN pieces : pieces'[k] = pieces[k]
      /\ pieces'[Len(pieces) + 1] = p
      /\ pieces = <<>> <=> Len(pieces) = 0
  BY DEF IInv, ChunkTypeOK
<1>2. \A k \in DOMAIN pieces' : WellPlaced(pieces'[k])
  BY <1>1 DEF PiecesPlaced
<1>3. ASSUME NEW k \in DOMAIN pieces'
      PROVE  IF k = 1 THEN pieces'[k].kind = "segment" => pieces'[k].from = 0
             ELSE Leads(pieces'[k - 1], pieces'[k])
  <2>1. CASE k \in DOMAIN pieces
    <3>1. k # 1 => k - 1 \in DOMAIN pieces
      BY <2>1, <1>1
    <3> QED BY <2>1, <3>1, <1>1 DEF PiecesPlaced
  <2>2. CASE k = Len(pieces) + 1
    <3>1. CASE pieces = <<>>
      BY <2>2, <3>1, <1>1
    <3>2. CASE pieces # <<>>
      <4>1. k # 1 /\ k - 1 = Len(pieces) /\ k - 1 \in DOMAIN pieces
        BY <2>2, <3>2, <1>1
      <4>2. pieces'[k - 1] = LastPiece /\ pieces'[k] = p
        BY <2>2, <4>1, <1>1 DEF LastPiece
      <4> QED BY <4>1, <4>2 DEF Leads
    <3> QED BY <3>1, <3>2
  <2> QED BY <2>1, <2>2, <1>1
<1>4. Count' = Count
  BY DEF Count
<1> QED BY <1>2, <1>3, <1>4 DEF PiecesPlaced, WellPlaced, Leads, Count

LEMMA PlacedStays ==
    ASSUME PiecesPlaced, UNCHANGED <<text, pieces>>
    PROVE  PiecesPlaced'
BY DEF PiecesPlaced, WellPlaced, Leads, Count

LEMMA Collected_Placed ==
    ASSUME IInv, PiecesPlaced, pc = "flushing", cut.first < cut.next, text' = text,
           pieces' = Append(pieces, Collected)
    PROVE  PiecesPlaced'
<1>1. /\ Collected \in PieceRecords
      /\ Collected.first = cut.first /\ Collected.last = cut.next - 1
  BY CollectedSound
<1>2. Collected.kind = "text"
  BY DEF Collected, Piece
<1>3. WellPlaced(Collected)
  BY <1>1, <1>2, InFlushing DEF WellPlaced
<1> QED BY <1>1, <1>2, <1>3, PiecePlaced

LEMMA TableRow_Placed ==
    ASSUME IInv, PiecesPlaced, TableRow
    PROVE  PiecesPlaced'
<1> DEFINE i == split.index
           p == [kind |-> "table_row", first |-> i, last |-> i,
                 header |-> split.plain, from |-> 0, to |-> 0]
<1>1. /\ pc = "rows" /\ pc \in Splitting /\ i <= Current.last /\ text' = text
      /\ pieces' = Append(pieces, p)
  BY DEF TableRow, Splitting, IsRow, Piece
<1>2. i \in Nat /\ 1 <= i /\ i <= Count /\ split.plain \in Nat
  BY <1>1, InSplitting
<1>3. p \in PieceRecords /\ p.kind = "table_row" /\ p.first = i /\ p.last = i
  BY <1>2 DEF PieceRecords
<1> HIDE DEF p
<1>4. WellPlaced(p)
  BY <1>2, <1>3 DEF WellPlaced
<1> QED BY <1>1, <1>3, <1>4, PiecePlaced

LEMMA CutSegment_Placed ==
    ASSUME IInv, PiecesPlaced, CutSegment
    PROVE  PiecesPlaced'
<1> DEFINE n == cut.next
           length == Line(n).chars
           to == IF cut.from + Hard < length THEN cut.from + Hard ELSE length
           p == [kind |-> "segment", first |-> n, last |-> n, header |-> 0,
                 from |-> cut.from, to |-> to]
<1>1. /\ pc = "cutting" /\ pieces' = Append(pieces, p) /\ text' = text
  BY DEF CutSegment, Segment
<1>2. /\ n \in 1..Count /\ Count \in Nat /\ cut.from \in Nat /\ length \in Nat
  BY <1>1, InCutting
<1>3. to \in Nat
  BY <1>2, ProfileType
<1> HIDE DEF to
<1>4. /\ p \in PieceRecords /\ p.kind = "segment" /\ p.first = n /\ p.last = n
      /\ p.from = cut.from
  BY <1>2, <1>3 DEF PieceRecords
<1> HIDE DEF p
<1>5. WellPlaced(p)
  BY <1>2, <1>4 DEF WellPlaced
<1>6. cut.from # 0 => pieces # <<>> /\ LastPiece.kind = "segment" /\ LastPiece.first = n
  <2> SUFFICES ASSUME cut.from # 0
               PROVE  pieces # <<>> /\ LastPiece.kind = "segment" /\ LastPiece.first = n
    OBVIOUS
  <2>1. cut.from > 0
    BY <1>2
  <2>2. pieces # <<>>
    BY <2>1, <1>1 DEF IInv, PiecesSound, CutBegun
  <2> QED BY <2>2, <1>1 DEF IInv, PiecesSound, Frontier
<1> QED BY <1>1, <1>4, <1>5, <1>6, PiecePlaced DEF Leads

LEMMA Next_Placed ==
    ASSUME IInv, PiecesPlaced, [ChunkNext]_chunkVars
    PROVE  PiecesPlaced'
<1>1. CASE \E line \in Lines : ParseLine(line)
  <2>1. pieces = <<>> /\ pieces' = pieces
    BY <1>1 DEF ParseLine, IInv, SplitSound
  <2> QED BY <2>1 DEF PiecesPlaced
<1>2. CASE TableRow
  BY <1>2, TableRow_Placed
<1>3. CASE CutSegment
  BY <1>3, CutSegment_Placed
<1>4. CASE ShortLine \/ LongLine \/ PlainEnds
  <2>1. /\ pc = "flushing" /\ text' = text
        /\ \/ pieces' = pieces
           \/ pieces' = Append(pieces, Collected) /\ cut.first < cut.next
    <3>1. CASE ShortLine
      BY <3>1 DEF ShortLine, InPlain, ShouldFlush
    <3>2. CASE LongLine
      BY <3>2 DEF LongLine, InPlain
    <3>3. CASE PlainEnds
      BY <3>3 DEF PlainEnds
    <3> QED BY <1>4, <3>1, <3>2, <3>3
  <2> QED BY <2>1, Collected_Placed, PlacedStays
<1>5. CASE \/ ParseEnds \/ FenceLine \/ TableBegins \/ TableEnds \/ TableWithoutRows
           \/ PlainLine \/ FlushPlain \/ SectionEnds
  <2>1. UNCHANGED <<text, pieces>>
    BY <1>5 DEF ParseEnds, FenceLine, TableBegins, TableEnds, TableWithoutRows, PlainLine,
       FlushPlain, SectionEnds
  <2> QED BY <2>1, PlacedStays
<1>6. CASE UNCHANGED chunkVars
  BY <1>6, PlacedStays DEF chunkVars
<1> QED
  BY <1>1, <1>2, <1>3, <1>4, <1>5, <1>6 DEF ChunkNext, Returned

\* Pieces are placed well, always.
LEMMA Placement == ChunkSpec => []PiecesPlaced
<1>1. ChunkInit => PiecesPlaced
  BY DEF ChunkInit, PiecesPlaced
<1>2. IInv /\ PiecesPlaced /\ [ChunkNext]_chunkVars => PiecesPlaced'
  BY Next_Placed
<1> QED BY <1>1, <1>2, Invariance, PTL DEF ChunkSpec

\* The chunks of a line have a smallest, and of the smallest there is a first.
LEMMA ResolvedChunkIsLeast ==
    ASSUME IInv, PiecesPlaced, NEW i \in 1..Count, Containing(i) # {}
    PROVE  /\ ResolvedChunk(i) \in Containing(i)
           /\ \A j \in Containing(i) :
                \/ Width(ResolvedChunk(i)) < Width(j)
                \/ Width(ResolvedChunk(i)) = Width(j) /\ ResolvedChunk(i) <= j
<1>1. \A k \in Containing(i) : k \in Nat /\ Width(k) \in Nat
  <2> SUFFICES ASSUME NEW k \in Containing(i) PROVE k \in Nat /\ Width(k) \in Nat
    OBVIOUS
  <2>1. k \in DOMAIN pieces /\ pieces \in Seq(PieceRecords)
    BY DEF Containing, IInv, ChunkTypeOK
  <2>2. k \in Nat /\ pieces[k] \in PieceRecords
    BY <2>1
  <2>3. pieces[k].first \in Nat /\ pieces[k].last \in Nat /\ pieces[k].first <= pieces[k].last
    BY <2>1, <2>2 DEF PieceRecords, PiecesPlaced, WellPlaced
  <2> QED BY <2>2, <2>3 DEF Width
<1> DEFINE widths == {Width(k) : k \in Containing(i)}
<1>2. PICK w \in widths : \A y \in widths : w <= y
  <2>1. widths \in SUBSET Nat /\ widths # {}
    BY <1>1
  <2> HIDE DEF widths
  <2> QED BY <2>1, LeastExists
<1> DEFINE narrow == {k \in Containing(i) : Width(k) = w}
<1>3. PICK k \in narrow : \A j \in narrow : k <= j
  <2>1. narrow \in SUBSET Nat /\ narrow # {}
    BY <1>1, <1>2
  <2> HIDE DEF narrow
  <2> QED BY <2>1, LeastExists
<1>4. \A j \in Containing(i) : Width(k) < Width(j) \/ (Width(k) = Width(j) /\ k <= j)
  <2> SUFFICES ASSUME NEW j \in Containing(i)
               PROVE  Width(k) < Width(j) \/ (Width(k) = Width(j) /\ k <= j)
    OBVIOUS
  <2>1. Width(k) = w /\ k \in Containing(i)
    BY <1>3
  <2>2. Width(k) <= Width(j) /\ Width(k) \in Nat /\ Width(j) \in Nat
    BY <1>1, <1>2, <2>1
  <2>3. Width(j) = w => k <= j
    BY <1>3
  <2> QED BY <2>1, <2>2, <2>3
<1>5. k \in Containing(i)
  BY <1>3
<1> HIDE DEF widths, narrow
<1> QED BY <1>4, <1>5 DEF ResolvedChunk

\* A line in no chunk is the header of a table or its separator.
LEMMA InNoChunk ==
    ASSUME IInv, PiecesPlaced, NothingIsLost, pc = "done",
           NEW i \in 1..Count, Line(i).kind # "blank", Containing(i) = {}
    PROVE  AsHeader(i, pieces)
<1>1. ~ InRange(i, pieces)
  <2> SUFFICES ASSUME NEW k \in DOMAIN pieces, i \in pieces[k].first..pieces[k].last,
                      IsChunk(pieces[k])
               PROVE  k \in Containing(i)
    BY DEF InRange
  <2> QED BY DEF Containing
<1>2. ~ InSegments(i, pieces)
  <2>1. 0 \in 0..(Line(i).chars - 1)
    BY LineType DEF IInv
  <2> SUFFICES ASSUME NEW k \in DOMAIN pieces, pieces[k].kind = "segment",
                      pieces[k].first = i
               PROVE  k \in Containing(i)
    BY <2>1 DEF InSegments, Cut
  <2>2. pieces[k].last = i
    BY DEF PiecesPlaced, WellPlaced
  <2>3. i \in i..i
    OBVIOUS
  <2>4. IsChunk(pieces[k])
    BY <2>2, <2>3 DEF IsChunk, HasText
  <2> QED BY <2>2, <2>4 DEF Containing
<1>3. InRange(i, pieces) \/ AsHeader(i, pieces) \/ InSegments(i, pieces)
  BY DEF NothingIsLost, InRange, AsHeader, InSegments, Cut, Rows
<1> QED BY <1>1, <1>2, <1>3

\* Of a line that was cut the first segment is found.
LEMMA FirstSegmentIsFound ==
    ASSUME IInv, PiecesPlaced, NEW i \in 1..Count, NEW k \in Containing(i),
           \A j \in Containing(i) : Width(k) < Width(j) \/ (Width(k) = Width(j) /\ k <= j),
           pieces[k].kind = "segment"
    PROVE  pieces[k].from = 0
<1>1. k \in DOMAIN pieces /\ pieces \in Seq(PieceRecords)
  BY DEF Containing, IInv, ChunkTypeOK
<1>2. pieces[k].first \in Nat /\ pieces[k].last = pieces[k].first /\ k \in 1..Len(pieces)
  <2>1. pieces[k] \in PieceRecords /\ k \in 1..Len(pieces)
    BY <1>1
  <2> QED BY <2>1, <1>1 DEF PiecesPlaced, WellPlaced, PieceRecords
<1>3. SUFFICES ASSUME pieces[k].from # 0, k # 1 PROVE FALSE
  BY <1>1 DEF PiecesPlaced
<1> DEFINE j == k - 1
<1>4. j \in DOMAIN pieces /\ j \in Nat /\ j < k
  BY <1>1, <1>2, <1>3
<1> HIDE DEF j
<1>5. pieces[j].kind = "segment" /\ pieces[j].first = pieces[k].first
  BY <1>1, <1>3 DEF PiecesPlaced, Leads, j
<1>6. pieces[j].last = pieces[k].last
  BY <1>2, <1>4, <1>5 DEF PiecesPlaced, WellPlaced
<1>7. j \in Containing(i)
  BY <1>1, <1>4, <1>5, <1>6 DEF Containing, IsChunk
<1>8. Width(j) = Width(k) /\ Width(k) \in Int
  BY <1>2, <1>5, <1>6 DEF Width
<1> QED BY <1>2, <1>4, <1>7, <1>8

\* For every file and every chunk profile, resolve_source_chunk finds a chunk with
\* each line with text that is not the header of a table with rows or its separator;
\* its range of lines can be read as it is, and has the line.
THEOREM ChunksResolve == ReadSpec => []LinesResolve
<1>1. IInv /\ PiecesPlaced /\ NothingIsLost => LinesResolve
  <2> SUFFICES ASSUME IInv, PiecesPlaced, NothingIsLost, pc = "done",
                      NEW i \in 1..Count, Line(i).kind # "blank"
               PROVE  IF Containing(i) = {} THEN AsHeader(i, pieces)
                      ELSE LET p    == pieces[ResolvedChunk(i)]
                               hit  == Selected("hit", p.first, p.last, 0)
                           IN  /\ Answered(p.first, p.last) /\ i \in hit[1]..hit[2]
                               /\ hit[2] = p.last
                               /\ p.kind = "segment" => p.from = 0
    BY DEF LinesResolve, AsHeader
  <2>1. CASE Containing(i) = {}
    BY <2>1, InNoChunk
  <2>2. CASE Containing(i) # {}
    <3> DEFINE k == ResolvedChunk(i)
               p == pieces[k]
    <3>1. /\ k \in Containing(i)
          /\ \A j \in Containing(i) : Width(k) < Width(j) \/ (Width(k) = Width(j) /\ k <= j)
      BY <2>2, ResolvedChunkIsLeast
    <3> HIDE DEF k
    <3>2. /\ p.first \in Nat /\ p.last \in Nat /\ 1 <= p.first /\ p.first <= p.last
          /\ p.last <= Count /\ Count \in Nat /\ p.first <= i /\ i <= p.last
      <4>1. k \in DOMAIN pieces /\ pieces \in Seq(PieceRecords) /\ Count \in Nat
        BY <3>1 DEF Containing, IInv, ChunkTypeOK, Count
      <4>2. p \in PieceRecords
        BY <4>1
      <4> QED BY <3>1, <4>1, <4>2 DEF Containing, PieceRecords, PiecesPlaced, WellPlaced
    <3>3. Selected("hit", p.first, p.last, 0) = <<p.first, p.last>>
      BY <3>2 DEF Selected, Least
    <3>4. p.kind = "segment" => p.from = 0
      BY <3>1, FirstSegmentIsFound
    <3> QED BY <2>2, <3>2, <3>3, <3>4 DEF Answered, k
  <2> QED BY <2>1, <2>2
<1> QED BY <1>1, ReadingIsChunking, Invariance, Placement, TextIsKept, PTL

-----------------------------------------------------------------------------
(* Lines of an answer                                                      *)

\* Every line has characters.
EndsGrow == \A i, j \in 1..Count : i < j => text[i].end < text[j].end

LEMMA Next_EndsGrow ==
    ASSUME IInv, EndsGrow, [ChunkNext]_chunkVars
    PROVE  EndsGrow'
<1>1. CASE UNCHANGED text
  BY <1>1 DEF EndsGrow, Count
<1>2. CASE \E line \in Lines : ParseLine(line)
  <2>1. PICK line \in Lines : ParseLine(line)
    BY <1>2
  <2> DEFINE n == Count
             r == [line |-> line, end |-> Total + line.chars,
                   fence |-> Toggled(parse.fence, line.kind),
                   heads |-> Toggled(parse.fence, line.kind) = NoFence /\ line.kind = "heading"]
  <2>2. /\ text' = Append(text, r) /\ text \in Seq(TextRecords)
        /\ n = Len(text) /\ n \in Nat
    BY <2>1 DEF ParseLine, IInv, ChunkTypeOK, Count
  <2>3. Count' = n + 1 /\ text'[n + 1] = r /\ \A i \in 1..n : text'[i] = text[i]
    BY <2>2 DEF Count
  <2>4. line.chars \in Nat /\ line.chars > 0
    <3>1. line \in LineRecords /\ line.chars > 0
      BY LinesAssumption
    <3> QED BY <3>1 DEF LineRecords
  <2>5. ASSUME NEW i \in 1..n PROVE text[i].end <= Total /\ text[i].end \in Nat /\ Total \in Nat
    <3>1. n \in 1..n /\ (i = n \/ i < n) /\ n # 0
      BY <2>2
    <3>2. Total = text[n].end /\ text[i].end \in Nat /\ text[n].end \in Nat
      BY <3>1, LineType DEF Total, IInv
    <3> QED BY <3>1, <3>2 DEF EndsGrow
  <2>6. r.end = Total + line.chars
    OBVIOUS
  <2> HIDE DEF r, n
  <2>7. ASSUME NEW i \in 1..(n + 1), NEW j \in 1..(n + 1), i < j
        PROVE  text'[i].end < text'[j].end
    <3>1. CASE j = n + 1
      <4>1. i \in 1..n
        BY <3>1, <2>2, <2>7
      <4>2. /\ text'[i].end = text[i].end /\ text'[j].end = Total + line.chars
            /\ text[i].end <= Total /\ text[i].end \in Nat /\ Total \in Nat
        BY <4>1, <3>1, <2>3, <2>5, <2>6
      <4> QED BY <4>2, <2>4
    <3>2. CASE j # n + 1
      <4>1. i \in 1..n /\ j \in 1..n
        BY <3>2, <2>2, <2>7
      <4> QED BY <4>1, <2>3, <2>7 DEF EndsGrow, n
    <3> QED BY <3>1, <3>2
  <2> QED BY <2>3, <2>7 DEF EndsGrow
<1> QED
  BY <1>1, <1>2 DEF ChunkNext, chunkVars, ParseEnds, FenceLine, TableBegins, TableRow,
     TableEnds, TableWithoutRows, PlainLine, FlushPlain, SectionEnds, ShortLine, LongLine,
     CutSegment, PlainEnds, Returned

\* Lines grow, always.
LEMMA Growth == ChunkSpec => []EndsGrow
<1>1. ChunkInit => EndsGrow
  BY DEF ChunkInit, EndsGrow, Count
<1>2. IInv /\ EndsGrow /\ [ChunkNext]_chunkVars => EndsGrow'
  BY Next_EndsGrow
<1> QED BY <1>1, <1>2, Invariance, PTL DEF ChunkSpec

\* Of a file with lines, a request selects lines of it.
LEMMA SelectionsAreLines ==
    ASSUME IInv, NEW lines \in Selections
    PROVE  /\ Count = 0 => lines[1] = 0
           /\ Count # 0 => /\ lines[1] \in 1..Count /\ lines[2] \in 1..Count
                           /\ lines[1] <= lines[2]
<1>1. Count \in Nat
  BY DEF IInv, ChunkTypeOK, Count
<1>2. CASE lines = Selected("full", 0, 0, 0)
  BY <1>1, <1>2 DEF Selected
<1>3. CASE lines # Selected("full", 0, 0, 0)
  <2>1. PICK r \in {"hit", "around"} \X (1..Count) \X (1..(Count + 1)) \X Contexts :
          Answered(r[2], r[3]) /\ lines = Selected(r[1], r[2], r[3], r[4])
    BY <1>3 DEF Selections
  <2>2. PICK view \in {"hit", "around"}, i \in 1..Count, j \in 1..(Count + 1), c \in Contexts :
          Answered(i, j) /\ lines = Selected(view, i, j, c)
    BY <2>1
  <2>3. c \in Nat /\ i <= j /\ i \in Nat /\ j \in Nat /\ Count # 0
    BY <2>2, <1>1, RequestAssumption DEF Answered
  <2> DEFINE e == Least(j, Count)
  <2>4. e \in Nat /\ i <= e /\ e <= Count
    BY <2>2, <2>3, <1>1 DEF Least
  <2> HIDE DEF e
  <2>5. CASE view = "hit"
    <3>1. lines = <<i, e>>
      BY <2>2, <2>5 DEF Selected, e
    <3> QED BY <3>1, <2>2, <2>3, <2>4, <1>1
  <2>6. CASE view = "around"
    <3> DEFINE a == IF i > c THEN Greatest(1, i - c) ELSE 1
               b == Least(Count, e + c)
    <3>1. lines = <<a, b>>
      BY <2>2, <2>6 DEF Selected, e
    <3>2. a \in Nat /\ 1 <= a /\ a <= i
      BY <2>2, <2>3, <1>1 DEF Greatest
    <3>3. b \in Nat /\ e <= b /\ b <= Count
      BY <2>3, <2>4, <1>1 DEF Least
    <3> HIDE DEF a, b
    <3> QED BY <3>1, <3>2, <3>3, <2>3, <2>4, <1>1
  <2> QED BY <2>5, <2>6
<1> QED BY <1>2, <1>3

\* The lines of a window have more characters, the more there are.
LEMMA SpansGrow ==
    ASSUME IInv, EndsGrow, NEW a \in 1..Count, NEW i \in a..Count
    PROVE  /\ Span(a, i) \in Nat /\ Span(a, i) >= 1
           /\ \A j \in a..Count : i < j => Span(a, i) < Span(a, j)
           /\ \A j \in a..Count : i <= j => Span(a, i) <= Span(a, j)
<1>1. Count \in Nat /\ i \in 1..Count
  BY DEF IInv, ChunkTypeOK, Count
<1>2. \A j \in a..Count : j \in 1..Count /\ text[j].end \in Nat
  BY <1>1, LineType DEF IInv
<1>3. text[a].end \in Nat /\ Line(a).chars \in Nat \ {0} /\ text[i].end \in Nat
  BY <1>1, LineType DEF IInv
<1>4. \A j \in a..Count : i < j => text[i].end < text[j].end
  BY <1>1, <1>2 DEF EndsGrow
<1>5. text[a].end <= text[i].end
  BY <1>1, <1>3 DEF EndsGrow
<1>6. Span(a, i) \in Nat /\ Span(a, i) >= 1
  BY <1>3, <1>5 DEF Span
<1>7. \A j \in a..Count : i < j => Span(a, i) < Span(a, j)
  BY <1>2, <1>3, <1>4 DEF Span
<1>8. \A j \in a..Count : i <= j => Span(a, i) <= Span(a, j)
  <2> SUFFICES ASSUME NEW j \in a..Count, i <= j PROVE Span(a, i) <= Span(a, j)
    OBVIOUS
  <2>1. Span(a, j) \in Int
    BY <1>2, <1>3 DEF Span
  <2>2. i < j \/ i = j
    OBVIOUS
  <2> QED BY <2>1, <2>2, <1>6, <1>7
<1> QED BY <1>6, <1>7, <1>8

\* There is a last line in an answer with text.
LEMMA LastLineExists ==
    ASSUME IInv, EndsGrow, NEW a \in 1..Count, NEW b \in a..Count,
           NEW chars \in Nat \ {0}, chars <= Span(a, b)
    PROVE  /\ LastLine(a, b, chars) \in a..b
           /\ Span(a, LastLine(a, b, chars)) >= chars
           /\ \A k \in a..b : k < LastLine(a, b, chars) => Span(a, k) < chars
<1>1. Count \in Nat
  BY DEF IInv, ChunkTypeOK, Count
<1> DEFINE reach == {k \in a..b : Span(a, k) >= chars}
<1>2. PICK k \in reach : \A j \in reach : k <= j
  <2>1. reach \in SUBSET Nat /\ b \in reach
    BY <1>1
  <2> HIDE DEF reach
  <2> QED BY <2>1, LeastExists
<1>3. k \in a..b /\ Span(a, k) >= chars /\ \A j \in a..b : j < k => ~ (Span(a, j) >= chars)
  BY <1>1, <1>2
<1>4. k > a => Span(a, k - 1) < chars
  <2> SUFFICES ASSUME k > a PROVE Span(a, k - 1) < chars
    OBVIOUS
  <2>1. k - 1 \in a..b /\ k - 1 < k /\ k - 1 \in a..Count
    BY <1>1, <1>3
  <2>2. Span(a, k - 1) \in Nat
    BY <2>1, SpansGrow
  <2> QED BY <2>1, <2>2, <1>3
<1> DEFINE l == LastLine(a, b, chars)
<1>5. /\ l \in a..b /\ Span(a, l) >= chars /\ (l > a => Span(a, l - 1) < chars)
  BY <1>3, <1>4 DEF LastLine
<1> HIDE DEF l
<1>6. ASSUME NEW j \in a..b, j < l PROVE Span(a, j) < chars
  <2>1. l - 1 \in a..Count /\ j \in a..Count /\ j <= l - 1 /\ l > a
    BY <1>1, <1>5, <1>6
  <2>2. Span(a, j) <= Span(a, l - 1) /\ Span(a, j) \in Nat /\ Span(a, l - 1) \in Nat
    BY <2>1, SpansGrow
  <2> QED BY <2>1, <2>2, <1>5
<1> QED BY <1>5, <1>6 DEF l

\* The newlines among these characters are ends of lines up to the last one, and of
\* that one only when it is whole.
LEMMA NewlinesCount ==
    ASSUME IInv, EndsGrow, NEW a \in 1..Count, NEW b \in a..Count,
           NEW chars \in Nat \ {0}, NEW s \in a..b, Span(a, s) >= chars,
           \A k \in a..b : k < s => Span(a, k) < chars
    PROVE  LET N     == Newlines(a, b, chars)
               whole == \E k \in N : Span(a, k) = chars
               end   == a + Cardinality(N) + (IF whole THEN 0 ELSE 1) - 1
           IN  /\ end \in Nat /\ end <= s
               /\ (\A k \in a..(s - 1) : Line(k).newline) => end = s
<1> DEFINE N == Newlines(a, b, chars)
           whole == \E k \in N : Span(a, k) = chars
           last == IF whole THEN s ELSE s - 1
<1>1. Count \in Nat /\ a \in Nat /\ b \in Nat /\ s \in Nat /\ a..b \in SUBSET (a..Count)
  <2>1. Count \in Nat
    BY DEF IInv, ChunkTypeOK, Count
  <2>2. a \in Nat /\ b \in Nat /\ s \in Nat /\ b <= Count
    BY <2>1
  <2> QED BY <2>1, <2>2
<1>2. ASSUME NEW k \in N
      PROVE  k \in a..s /\ (Span(a, k) = chars => k = s) /\ (Span(a, k) # chars => k # s)
  <2>1. k \in a..b /\ Span(a, k) <= chars
    BY DEF Newlines
  <2>2. Span(a, k) \in Nat /\ Span(a, s) \in Nat /\ (s < k => Span(a, s) < Span(a, k))
    BY <2>1, <1>1, SpansGrow
  <2>3. k <= s
    BY <2>1, <2>2, <1>1
  <2>4. k < s => Span(a, k) < chars
    BY <2>1
  <2> QED BY <2>1, <2>2, <2>3, <2>4, <1>1
<1>3. N \in SUBSET (a..last)
  BY <1>1, <1>2
<1>4. /\ IsFiniteSet(a..last) /\ Cardinality(a..last) = last - a + 1 /\ last \in Int
  <2>1. last \in Int /\ a \in Int /\ last >= a - 1
    BY <1>1
  <2> HIDE DEF last
  <2>2. IsFiniteSet(a..last) /\ Cardinality(a..last) = (IF a > last THEN 0 ELSE last - a + 1)
    BY <2>1, FS_Interval
  <2>3. a > last => last - a + 1 = 0
    BY <2>1
  <2> QED BY <2>1, <2>2, <2>3
<1>5. IsFiniteSet(N) /\ Cardinality(N) \in Nat /\ Cardinality(N) <= last - a + 1
  <2> HIDE DEF N, last
  <2> QED BY <1>3, <1>4, FS_Subset, FS_CardinalityType
<1>6. ASSUME \A k \in a..(s - 1) : Line(k).newline
      PROVE  N = a..last
  <2>1. ASSUME NEW k \in a..(s - 1) PROVE k \in N
    <3>1. k \in a..b /\ k < s /\ k \in a..Count
      BY <1>1
    <3>2. Span(a, k) \in Nat
      BY <3>1, SpansGrow
    <3> QED BY <3>1, <3>2, <1>6 DEF Newlines
  <2>2. whole => s \in N
    BY <1>2
  <2>3. \A k \in a..last : k \in N
    BY <2>1, <2>2, <1>1
  <2> QED BY <2>3, <1>3
<1>7. last = s - (IF whole THEN 0 ELSE 1)
  BY <1>1
<1> HIDE DEF N, whole, last
<1>8. /\ a + Cardinality(N) + (IF whole THEN 0 ELSE 1) - 1 <= s
      /\ a + Cardinality(N) + (IF whole THEN 0 ELSE 1) - 1 \in Nat
      /\ (\A k \in a..(s - 1) : Line(k).newline) =>
            a + Cardinality(N) + (IF whole THEN 0 ELSE 1) - 1 = s
  <2>1. CASE whole
    BY <2>1, <1>1, <1>4, <1>5, <1>6, <1>7
  <2>2. CASE ~ whole
    BY <2>2, <1>1, <1>4, <1>5, <1>6, <1>7
  <2> QED BY <2>1, <2>2
<1> QED BY <1>8 DEF N, whole

\* For every file, every window and every limit, the line_end of an answer is the
\* line its text ends in, or an earlier one where other separators end its lines.
THEOREM LineEndsAreShown == ReadSpec => []LineEndIsShown
<1>1. IInv /\ EndsGrow => LineEndIsShown
  <2> SUFFICES ASSUME IInv, EndsGrow, NEW lines \in Selections, NEW limit \in Limits
               PROVE  LET chars == Bounded(lines[1], lines[2], limit)
                          end   == ReturnedLineEnd(lines[1], lines[2], chars)
                          shown == LastLine(lines[1], lines[2], chars)
                      IN  IF Count = 0 THEN end = 0
                          ELSE /\ end <= shown
                               /\ (\A k \in lines[1]..(shown - 1) : Line(k).newline) => end = shown
    BY DEF LineEndIsShown
  <2>1. Count \in Nat /\ limit \in Nat /\ limit >= 1
    BY RequestAssumption DEF IInv, ChunkTypeOK, Count
  <2>2. CASE Count = 0
    BY <2>2, SelectionsAreLines DEF ReturnedLineEnd
  <2>3. CASE Count # 0
    <3> DEFINE a == lines[1]
               b == lines[2]
               chars == Bounded(a, b, limit)
               s == LastLine(a, b, chars)
    <3>1. a \in 1..Count /\ b \in 1..Count /\ a <= b /\ b \in a..Count
      BY <2>1, <2>3, SelectionsAreLines
    <3> HIDE DEF a, b
    <3>2. Span(a, b) \in Nat /\ Span(a, b) >= 1
      BY <3>1, SpansGrow
    <3>3. chars \in Nat \ {0} /\ chars <= Span(a, b)
      BY <2>1, <3>1, <3>2 DEF Bounded, Least
    <3> HIDE DEF chars
    <3>4. /\ s \in a..b /\ Span(a, s) >= chars
          /\ \A k \in a..b : k < s => Span(a, k) < chars
      BY <3>1, <3>3, LastLineExists
    <3> HIDE DEF s
    <3> DEFINE N == Newlines(a, b, chars)
               whole == \E k \in N : Span(a, k) = chars
               end == a + Cardinality(N) + (IF whole THEN 0 ELSE 1) - 1
    <3>5. /\ end \in Nat /\ end <= s
          /\ (\A k \in a..(s - 1) : Line(k).newline) => end = s
      BY <3>1, <3>3, <3>4, NewlinesCount
    <3>6. a # 0 /\ chars # 0
      BY <2>1, <3>1, <3>3
    <3>7. ReturnedLineEnd(a, b, chars) = Least(b, end)
      BY <3>6 DEF ReturnedLineEnd
    <3> HIDE DEF end
    <3>8. /\ ReturnedLineEnd(a, b, chars) <= s
          /\ (\A k \in a..(s - 1) : Line(k).newline) => ReturnedLineEnd(a, b, chars) = s
      BY <2>1, <3>1, <3>4, <3>5, <3>7 DEF Least
    <3> QED BY <2>3, <3>8 DEF a, b, chars, s
  <2> QED BY <2>2, <2>3
<1> QED BY <1>1, ReadingIsChunking, Invariance, Growth, PTL

-----------------------------------------------------------------------------
(* Where paths lead                                                        *)

\* Names, and ".." for what is outside the root.
Paths == Seq(Names \cup {".."})

\* A link, like any other entry, leads to a path.
LEMMA FollowedType ==
    ASSUME NEW files, IsTree(files), NEW path \in Paths
    PROVE  Followed(files, path) \in Paths
BY DEF Followed, Kind, IsTree, Paths

\* at[n] is where the first n names of a path lead.
Leading(at, files, path) ==
    at[0] = Root /\ \A n \in 1..Len(path) : at[n] = Followed(files, Append(at[n - 1], path[n]))

\* Paths that begin alike lead to the same place.
LEMMA LeadAlike ==
    ASSUME NEW files, NEW f, NEW g, NEW p \in Paths, NEW q \in Paths, Len(p) <= Len(q),
           \A n \in 1..Len(p) : p[n] = q[n], Leading(f, files, p), Leading(g, files, q)
    PROVE  f[Len(p)] = g[Len(p)]
<1> DEFINE S == {n \in 0..Len(p) : f[n] = g[n]}
<1>1. Len(p) \in Nat /\ Len(q) \in Nat
  BY DEF Paths
<1>2. 0 \in S
  BY <1>1 DEF Leading
<1>3. ASSUME NEW n \in 1..Len(p), n - 1 \in S PROVE n \in S
  <2>1. f[n - 1] = g[n - 1] /\ n \in 1..Len(q) /\ n \in 0..Len(p)
    BY <1>1, <1>3
  <2> QED BY <2>1 DEF Leading
<1>4. \A n \in 0..Len(p) : n \in S
  <2>1. S \in SUBSET (0..Len(p))
    OBVIOUS
  <2> HIDE DEF S
  <2> QED BY <1>1, <1>2, <1>3, <2>1, UpTo
<1>5. Len(p) \in S
  <2> HIDE DEF S
  <2> QED BY <1>1, <1>4
<1> QED BY <1>5

\* The loop of Resolve.
LEMMA ResolveLoops ==
    ASSUME NEW files, IsTree(files), NEW path \in Paths
    PROVE  \E at \in [0..Len(path) -> Paths] :
             Leading(at, files, path) /\ Resolve(files, path) = at[Len(path)]
<1> DEFINE L == Len(path)
           at == CHOOSE f : f = [n \in 0..L |->
                   IF n = 0 THEN Root ELSE Followed(files, Append(f[n - 1], path[n]))]
           step == [x \in Paths \X (1..L) |-> Followed(files, Append(x[1], path[x[2]]))]
<1>1. L \in Nat /\ Root \in Paths
  BY DEF Paths, Root
<1>2. step \in [Paths \X (1..L) -> Paths]
  <2> SUFFICES ASSUME NEW p \in Paths, NEW n \in 1..L
               PROVE  Followed(files, Append(p, path[n])) \in Paths
    OBVIOUS
  <2>1. path[n] \in Names \cup {".."} /\ Append(p, path[n]) \in Paths
    BY DEF Paths
  <2> QED BY <2>1, FollowedType
<1>3. PICK g \in [0..L -> Paths] : Goes(g, Root, L, step)
  <2> HIDE DEF step, L
  <2> QED BY <1>1, <1>2, LoopExists
<1>4. g[0] = Root /\ \A n \in 1..L : g[n] = step[<<g[n - 1], n>>]
  BY <1>3 DEF Goes
<1>5. \A n \in 1..L : g[n] = Followed(files, Append(g[n - 1], path[n]))
  <2> SUFFICES ASSUME NEW n \in 1..L
               PROVE  g[n] = Followed(files, Append(g[n - 1], path[n]))
    OBVIOUS
  <2>1. n - 1 \in 0..L
    BY <1>1
  <2>2. <<g[n - 1], n>> \in Paths \X (1..L)
    BY <2>1
  <2> QED BY <2>2, <1>4
<1>6. g = [n \in 0..L |->
             IF n = 0 THEN Root ELSE Followed(files, Append(g[n - 1], path[n]))]
  <2> HIDE DEF step
  <2>1. \A n \in 0..L : n = 0 \/ n \in 1..L
    BY <1>1
  <2> QED BY <2>1, <1>5, <1>4
<1>7. at = [n \in 0..L |->
              IF n = 0 THEN Root ELSE Followed(files, Append(at[n - 1], path[n]))]
  BY <1>6
<1>8. Resolve(files, path) = at[L]
  BY DEF Resolve
<1> HIDE DEF at, step
<1>9. /\ at[0] = Root /\ DOMAIN at = 0..L
      /\ \A n \in 1..L : at[n] = Followed(files, Append(at[n - 1], path[n]))
  <2>1. \A n \in 1..L : n \in 0..L /\ n # 0
    BY <1>1
  <2>2. 0 \in 0..L
    BY <1>1
  <2> QED BY <2>1, <2>2, <1>7
<1>10. ASSUME NEW n \in 0..L PROVE at[n] \in Paths
  <2> DEFINE S == {m \in 0..L : at[m] \in Paths}
  <2>1. 0 \in S
    BY <1>1, <1>9
  <2>2. ASSUME NEW m \in 1..L, m - 1 \in S PROVE m \in S
    <3>1. at[m - 1] \in Paths /\ path[m] \in Names \cup {".."} /\ m \in 0..L
      BY <1>1, <2>2 DEF Paths
    <3>2. Append(at[m - 1], path[m]) \in Paths
      BY <3>1 DEF Paths
    <3> QED BY <3>1, <3>2, <1>9, FollowedType
  <2>3. \A m \in 0..L : m \in S
    <3>1. S \in SUBSET (0..L)
      OBVIOUS
    <3> HIDE DEF S, L
    <3> QED BY <1>1, <2>1, <2>2, <3>1, UpTo
  <2> QED BY <2>3
<1>11. at \in [0..L -> Paths]
  BY <1>7, <1>9, <1>10
<1> QED BY <1>8, <1>9, <1>11 DEF Leading

\* What a path leads to is a path.
LEMMA ResolveType ==
    ASSUME NEW files, IsTree(files), NEW path \in Paths
    PROVE  Resolve(files, path) \in Paths
<1>1. Len(path) \in 0..Len(path)
  BY DEF Paths
<1> QED BY <1>1, ResolveLoops

\* The root is where it is.
LEMMA ResolveRoot ==
    ASSUME NEW files, IsTree(files)
    PROVE  Resolve(files, Root) = Root
<1>1. Root \in Paths /\ Len(Root) = 0
  BY DEF Root, Paths
<1> QED BY <1>1, ResolveLoops DEF Leading

\* A path goes on from where its folder is.
LEMMA ResolveAppend ==
    ASSUME NEW files, IsTree(files), NEW p \in Paths, NEW name \in Names \cup {".."}
    PROVE  Resolve(files, Append(p, name))
             = Followed(files, Append(Resolve(files, p), name))
<1> DEFINE q == Append(p, name)
<1>1. /\ q \in Paths /\ Len(q) = Len(p) + 1 /\ q[Len(q)] = name /\ Len(p) \in Nat
      /\ \A n \in 1..Len(p) : p[n] = q[n]
  BY DEF Paths
<1> HIDE DEF q
<1>2. PICK f \in [0..Len(p) -> Paths] :
        Leading(f, files, p) /\ Resolve(files, p) = f[Len(p)]
  BY ResolveLoops
<1>3. PICK g \in [0..Len(q) -> Paths] :
        Leading(g, files, q) /\ Resolve(files, q) = g[Len(q)]
  BY <1>1, ResolveLoops
<1>4. f[Len(p)] = g[Len(p)]
  <2>1. Len(p) <= Len(q)
    BY <1>1
  <2> QED BY <2>1, <1>1, <1>2, <1>3, LeadAlike
<1>5. Len(q) \in 1..Len(q) /\ Len(q) - 1 = Len(p)
  BY <1>1
<1>6. g[Len(q)] = Followed(files, Append(g[Len(p)], name))
  BY <1>1, <1>3, <1>5 DEF Leading
<1> QED BY <1>2, <1>3, <1>4, <1>6 DEF q

\* Sequences apart from the last name, and without some of the last names.
LEMMA FrontAndLast ==
    ASSUME NEW S, NEW path \in Seq(S), path # Root
    PROVE  /\ Front(path) \in Seq(S) /\ Last(path) \in S
           /\ path = Append(Front(path), Last(path))
           /\ Len(Front(path)) = Len(path) - 1 /\ Len(path) \in Nat \ {0}
<1>1. Len(path) \in Nat \ {0}
  BY DEF Root
<1>2. Len(path) - 1 \in 0..Len(path) /\ 1 <= Len(path)
  BY <1>1
<1>3. Front(path) = [i \in 1..(Len(path) - 1) |-> path[i]]
  BY <1>1 DEF Front
<1>4. Front(path) \in Seq(S) /\ Len(Front(path)) = Len(path) - 1
  BY <1>1, <1>2, <1>3
<1>5. Last(path) \in S
  BY <1>1 DEF Last
<1>6. path = Append(Front(path), Last(path))
  BY <1>1, <1>3, <1>4, <1>5 DEF Last
<1> QED BY <1>1, <1>4, <1>5, <1>6

LEMMA FrontOfAppend ==
    ASSUME NEW S, NEW path \in Seq(S), NEW name \in S
    PROVE  /\ Append(path, name) \in Seq(S) /\ Append(path, name) # Root
           /\ Front(Append(path, name)) = path /\ Last(Append(path, name)) = name
<1> DEFINE q == Append(path, name)
<1>1. q \in Seq(S) /\ Len(q) = Len(path) + 1 /\ q[Len(q)] = name /\ Len(path) \in Nat
      /\ \A n \in 1..Len(path) : q[n] = path[n]
  OBVIOUS
<1> HIDE DEF q
<1>2. q # Root
  BY <1>1 DEF Root
<1>3. Front(q) = path
  <2>1. Front(q) \in Seq(S) /\ Len(Front(q)) = Len(path)
    BY <1>1, <1>2, FrontAndLast
  <2>2. Front(q) = [i \in 1..Len(path) |-> q[i]]
    BY <1>1 DEF Front
  <2> QED BY <1>1, <2>1, <2>2
<1> QED BY <1>1, <1>2, <1>3 DEF Last, q

\* A path of names stays below the root.
LEMMA NamesArePaths ==
    ASSUME NEW path \in Seq(Names)
    PROVE  path \in Paths /\ ~ Outside(path) /\ \A i \in 1..Len(path) : path[i] # ".."
<1>1. path \in Paths /\ \A i \in 1..Len(path) : path[i] # ".."
  BY NamesAssumption DEF Paths
<1>2. path # Root => Head(path) # ".."
  <2> SUFFICES ASSUME path # Root PROVE Head(path) # ".."
    OBVIOUS
  <2>1. Head(path) = path[1] /\ 1 \in 1..Len(path)
    BY DEF Root
  <2> QED BY <1>1, <2>1
<1> QED BY <1>1, <1>2 DEF Outside

\* What Resolve does with the last name.
LEMMA ResolveEntry ==
    ASSUME NEW files, IsTree(files), NEW path \in Paths, path # Root
    PROVE  /\ Entry(files, path) \in Paths /\ Entry(files, path) # Root
           /\ Last(Entry(files, path)) = Last(path)
           /\ Resolve(files, path) = Followed(files, Entry(files, path))
<1>1. /\ Front(path) \in Paths /\ Last(path) \in Names \cup {".."}
      /\ path = Append(Front(path), Last(path))
  BY FrontAndLast DEF Paths
<1>2. Resolve(files, Front(path)) \in Paths
  BY <1>1, ResolveType
<1>3. /\ Entry(files, path) \in Paths /\ Entry(files, path) # Root
      /\ Last(Entry(files, path)) = Last(path)
  BY <1>1, <1>2, FrontOfAppend DEF Paths, Entry
<1>4. Resolve(files, path) = Followed(files, Entry(files, path))
  BY <1>1, ResolveAppend DEF Entry
<1> QED BY <1>3, <1>4

\* Where a path leads that goes on from a folder to an entry that is no link.
LEMMA StraightOn ==
    ASSUME NEW files, IsTree(files), NEW folder \in Seq(Names), NEW name \in Names,
           Resolve(files, folder) = folder
    PROVE  /\ Entry(files, Append(folder, name)) = Append(folder, name)
           /\ Kind(files, Append(folder, name)) # "link" =>
                 Resolve(files, Append(folder, name)) = Append(folder, name)
<1>1. Front(Append(folder, name)) = folder /\ Last(Append(folder, name)) = name
  BY FrontOfAppend
<1>2. Entry(files, Append(folder, name)) = Append(folder, name)
  BY <1>1 DEF Entry
<1>3. Resolve(files, Append(folder, name)) = Followed(files, Append(folder, name))
  BY NamesArePaths, ResolveAppend
<1> QED BY <1>2, <1>3 DEF Followed

-----------------------------------------------------------------------------
(* The walk                                                                *)

\* The folders that the walk comes to, level by level.
Levels(level, scp) ==
    level[0] = {Root} /\ \A n \in 1..Depth : level[n] = Below(scp, level[n - 1])

\* The loop of Walked.
LEMMA WalkLoops ==
    ASSUME NEW scp
    PROVE  \E level \in [0..Depth -> SUBSET Seq(Names)] :
             /\ Levels(level, scp)
             /\ Walked(scp) = UNION {level[n] : n \in 0..(Depth - 1)}
<1> DEFINE level == CHOOSE f : f = [n \in 0..Depth |->
                      IF n = 0 THEN {Root} ELSE Below(scp, f[n - 1])]
           Folders == SUBSET Seq(Names)
           step == [x \in Folders \X (1..Depth) |-> Below(scp, x[1])]
<1>1. Depth \in Nat /\ {Root} \in Folders
  BY NamesAssumption DEF Root
<1>2. step \in [Folders \X (1..Depth) -> Folders]
  BY DEF Below
<1>3. PICK g \in [0..Depth -> Folders] : Goes(g, {Root}, Depth, step)
  <2> HIDE DEF step, Folders
  <2> QED BY <1>1, <1>2, LoopExists
<1>4. g[0] = {Root} /\ \A n \in 1..Depth : g[n] = step[<<g[n - 1], n>>]
  BY <1>3 DEF Goes
<1>5. ASSUME NEW n \in 1..Depth
      PROVE  g[n] = Below(scp, g[n - 1])
  <2>1. n - 1 \in 0..Depth
    BY <1>1
  <2>2. <<g[n - 1], n>> \in Folders \X (1..Depth)
    BY <2>1
  <2>3. step[<<g[n - 1], n>>] = Below(scp, g[n - 1])
    BY <2>2
  <2> QED BY <2>3, <1>4
<1>6. g = [n \in 0..Depth |-> IF n = 0 THEN {Root} ELSE Below(scp, g[n - 1])]
  <2> HIDE DEF step, Folders
  <2>1. \A n \in 0..Depth : n = 0 \/ n \in 1..Depth
    BY <1>1
  <2> QED BY <2>1, <1>4, <1>5
<1>7. level = [n \in 0..Depth |-> IF n = 0 THEN {Root} ELSE Below(scp, level[n - 1])]
  BY <1>6
<1>8. Walked(scp) = UNION {level[n] : n \in 0..(Depth - 1)}
  BY DEF Walked
<1> HIDE DEF level, step
<1>9. /\ level[0] = {Root} /\ DOMAIN level = 0..Depth
       /\ \A n \in 1..Depth : level[n] = Below(scp, level[n - 1])
  <2>1. 0 \in 0..Depth /\ \A n \in 1..Depth : n \in 0..Depth /\ n # 0
    BY <1>1
  <2> QED BY <2>1, <1>7
<1>10. ASSUME NEW n \in 0..Depth PROVE level[n] \in Folders
  <2> DEFINE S == {m \in 0..Depth : level[m] \in Folders}
  <2>1. 0 \in S
    BY <1>1, <1>9
  <2>2. ASSUME NEW m \in 1..Depth, m - 1 \in S PROVE m \in S
    <3>1. level[m - 1] \in Folders /\ m \in 0..Depth
      BY <1>1, <2>2
    <3>2. Below(scp, level[m - 1]) \in Folders
      BY <3>1 DEF Below
    <3> QED BY <3>1, <3>2, <1>9
  <2>3. \A m \in 0..Depth : m \in S
    <3>1. S \in SUBSET (0..Depth)
      OBVIOUS
    <3> HIDE DEF S
    <3> QED BY <1>1, <2>1, <2>2, <3>1, UpTo
  <2> QED BY <2>3
<1>11. level \in [0..Depth -> Folders]
  BY <1>7, <1>10
<1> QED BY <1>8, <1>9, <1>11 DEF Levels

\* The walk never leads through a link.
LEMMA WalkedAreStraight ==
    ASSUME NEW scp, IsTree(scp.files), NEW folder \in Walked(scp)
    PROVE  folder \in Seq(Names) /\ Resolve(scp.files, folder) = folder
<1>1. PICK level \in [0..Depth -> SUBSET Seq(Names)] :
        Levels(level, scp) /\ Walked(scp) = UNION {level[n] : n \in 0..(Depth - 1)}
  BY WalkLoops
<1> DEFINE Straight(path) == path \in Seq(Names) /\ Resolve(scp.files, path) = path
           S == {n \in 0..Depth : \A path \in level[n] : Straight(path)}
<1>2. Depth \in Nat
  BY NamesAssumption
<1>3. 0 \in S
  <2>1. level[0] = {Root} /\ Root \in Seq(Names)
    BY <1>1 DEF Levels, Root
  <2>2. Straight(Root)
    BY <2>1, ResolveRoot
  <2> HIDE DEF Straight
  <2> QED BY <2>1, <2>2, <1>2
<1>4. ASSUME NEW n \in 1..Depth, n - 1 \in S
      PROVE  n \in S
  <2>1. ASSUME NEW path \in level[n] PROVE Straight(path)
    <3>1. path \in Below(scp, level[n - 1])
      BY <1>1 DEF Levels
    <3>2. PICK up \in level[n - 1], name \in Names : path = Append(up, name)
      BY <3>1 DEF Below
    <3>3. Straight(up)
      BY <1>4
    <3>4. Kind(scp.files, Entry(scp.files, path)) = "folder"
      BY <3>1 DEF Below, Entered
    <3>5. Resolve(scp.files, path) = path
      BY <3>2, <3>3, <3>4, StraightOn
    <3>6. path \in Seq(Names)
      BY <3>2, <3>3
    <3> QED BY <3>5, <3>6
  <2> HIDE DEF Straight
  <2> QED BY <2>1, <1>2
<1>5. \A n \in 0..Depth : n \in S
  <2>1. S \in SUBSET (0..Depth)
    OBVIOUS
  <2> HIDE DEF S
  <2> QED BY <1>2, <1>3, <1>4, <2>1, UpTo
<1>6. PICK n \in 0..(Depth - 1) : folder \in level[n]
  BY <1>1
<1>7. n \in S
  <2>1. n \in 0..Depth
    BY <1>2
  <2> HIDE DEF S
  <2> QED BY <2>1, <1>5
<1> QED BY <1>6, <1>7

\* A file that is found is no link, and no link leads to it.
LEMMA FoundAreStraight ==
    ASSUME NEW scp, IsTree(scp.files), NEW path \in Found(scp)
    PROVE  /\ path \in Seq(Names) /\ path # Root /\ Last(path) \in Markdown
           /\ Resolve(scp.files, path) = path /\ Entry(scp.files, path) = path
           /\ Kind(scp.files, path) = "file" /\ Included(scp, path)
<1>1. PICK folder \in Walked(scp), name \in Markdown : path = Append(folder, name)
  BY DEF Found
<1>2. folder \in Seq(Names) /\ Resolve(scp.files, folder) = folder /\ name \in Names
  BY WalkedAreStraight, NamesAssumption
<1>3. /\ Kind(scp.files, Entry(scp.files, path)) = "file"
      /\ Included(scp, Resolve(scp.files, path))
  BY DEF Found
<1>4. path \in Seq(Names) /\ path # Root /\ Last(path) = name
  BY <1>1, <1>2, FrontOfAppend
<1>5. Entry(scp.files, path) = path /\ Resolve(scp.files, path) = path
  BY <1>1, <1>2, <1>3, StraightOn
<1> QED BY <1>3, <1>4, <1>5

\* Every folder on the way to an entry is one, and the walk comes to it.
LEMMA FoldersAreWalked ==
    ASSUME NEW scp, IsTree(scp.files), scp.recursive, NEW file \in DOMAIN scp.files
    PROVE  Front(file) \in Walked(scp)
<1> DEFINE files == scp.files
           L == Len(file)
           Up(n) == SubSeq(file, 1, n)
<1>1. file \in Seq(Names) /\ L \in 1..Depth /\ L \in Nat /\ Depth \in Nat
  BY NamesAssumption DEF IsTree
<1>2. ASSUME NEW n \in 0..L
      PROVE  Up(n) \in Seq(Names) /\ Len(Up(n)) = n /\ \A i \in 1..n : Up(n)[i] = file[i]
  BY <1>1
<1>3. ASSUME NEW n \in 1..L
      PROVE  /\ Up(n) = Append(Up(n - 1), file[n]) /\ Front(Up(n)) = Up(n - 1)
             /\ file[n] \in Names /\ Up(n) # Root
  <2>1. n \in 0..L /\ n - 1 \in 0..L /\ file[n] \in Names
    BY <1>1
  <2>2. /\ Up(n) \in Seq(Names) /\ Len(Up(n)) = n /\ \A i \in 1..n : Up(n)[i] = file[i]
        /\ Up(n - 1) \in Seq(Names) /\ Len(Up(n - 1)) = n - 1
        /\ \A i \in 1..(n - 1) : Up(n - 1)[i] = file[i]
    BY <2>1, <1>2
  <2> HIDE DEF Up
  <2>3. Up(n) = Append(Up(n - 1), file[n])
    BY <2>1, <2>2
  <2> QED BY <2>1, <2>2, <2>3, FrontOfAppend
<1>4. Up(L) = file /\ Front(file) = Up(L - 1)
  <2>1. Up(L) = file
    BY <1>1
  <2>2. L \in 1..L
    BY <1>1
  <2>3. Front(Up(L)) = Up(L - 1)
    BY <2>2, <1>3
  <2> HIDE DEF Up
  <2> QED BY <2>1, <2>3
<1>5. \A n \in 0..(L - 1) : Up(L - n) \in DOMAIN files
  <2> DEFINE S == {n \in 0..(L - 1) : Up(L - n) \in DOMAIN files}
  <2>1. 0 \in S
    <3>1. 0 \in 0..(L - 1) /\ L - 0 = L
      BY <1>1
    <3> HIDE DEF Up
    <3> QED BY <3>1, <1>4
  <2>2. ASSUME NEW n \in 1..(L - 1), n - 1 \in S PROVE n \in S
    <3> DEFINE m == L - (n - 1)
    <3>1. m \in 1..L /\ m > 1 /\ m - 1 = L - n /\ m \in 0..L /\ Up(m) \in DOMAIN files
      BY <1>1, <2>2
    <3>2. Len(Up(m)) > 1 /\ Front(Up(m)) = Up(m - 1)
      BY <3>1, <1>2, <1>3
    <3>3. Kind(files, Up(m - 1)) = "folder"
      BY <3>1, <3>2 DEF IsTree
    <3>4. Up(L - n) \in DOMAIN files
      BY <3>1, <3>3 DEF Kind
    <3> QED BY <3>4, <1>1
  <2>3. \A n \in 0..(L - 1) : n \in S
    <3>1. S \in SUBSET (0..(L - 1)) /\ L - 1 \in Nat
      BY <1>1
    <3> HIDE DEF S, L
    <3> QED BY <3>1, <2>1, <2>2, UpTo
  <2> QED BY <2>3
<1>6. ASSUME NEW n \in 1..(L - 1)
      PROVE  Kind(files, Up(n)) = "folder"
  <2>1. /\ L - (n + 1) \in 0..(L - 1) /\ n + 1 \in 1..L /\ n + 1 \in 0..L
        /\ L - (L - (n + 1)) = n + 1 /\ (n + 1) - 1 = n /\ n + 1 > 1
    BY <1>1
  <2>2. Up(n + 1) \in DOMAIN files
    BY <2>1, <1>5
  <2>3. Len(Up(n + 1)) > 1 /\ Front(Up(n + 1)) = Up(n)
    BY <2>1, <1>2, <1>3
  <2> QED BY <2>2, <2>3 DEF IsTree
<1> HIDE DEF Up
<1>7. PICK level \in [0..Depth -> SUBSET Seq(Names)] :
        Levels(level, scp) /\ Walked(scp) = UNION {level[n] : n \in 0..(Depth - 1)}
  BY WalkLoops
<1>8. \A n \in 0..(L - 1) : Up(n) \in level[n] /\ Resolve(files, Up(n)) = Up(n)
  <2> DEFINE S == {n \in 0..(L - 1) : Up(n) \in level[n] /\ Resolve(files, Up(n)) = Up(n)}
  <2>1. 0 \in S
    <3>1. 0 \in 0..L /\ 0 \in 0..(L - 1)
      BY <1>1
    <3>2. Up(0) = Root
      BY <3>1, <1>2 DEF Root
    <3> QED BY <3>1, <3>2, <1>7, ResolveRoot DEF Levels
  <2>2. ASSUME NEW n \in 1..(L - 1), n - 1 \in S PROVE n \in S
    <3>1. n \in 1..L /\ n - 1 \in 0..L /\ n \in 1..Depth /\ n \in 0..(L - 1)
      BY <1>1
    <3>2. /\ Up(n) = Append(Up(n - 1), file[n]) /\ file[n] \in Names
          /\ Up(n - 1) \in Seq(Names) /\ Kind(files, Up(n)) = "folder"
      BY <3>1, <1>2, <1>3, <1>6
    <3>3. Up(n - 1) \in level[n - 1] /\ Resolve(files, Up(n - 1)) = Up(n - 1)
      BY <2>2
    <3>4. Entry(files, Up(n)) = Up(n) /\ Resolve(files, Up(n)) = Up(n)
      BY <3>2, <3>3, StraightOn
    <3>5. Up(n) \in Below(scp, level[n - 1])
      <4>1. Entered(scp, Up(n))
        BY <3>2, <3>4 DEF Entered
      <4> QED BY <4>1, <3>2, <3>3 DEF Below
    <3> QED BY <3>1, <3>4, <3>5, <1>7 DEF Levels
  <2>3. \A n \in 0..(L - 1) : n \in S
    <3>1. S \in SUBSET (0..(L - 1)) /\ L - 1 \in Nat
      BY <1>1
    <3> HIDE DEF S, L
    <3> QED BY <3>1, <2>1, <2>2, UpTo
  <2> QED BY <2>3
<1>9. L - 1 \in 0..(L - 1) /\ L - 1 \in 0..(Depth - 1)
  BY <1>1
<1> QED BY <1>4, <1>7, <1>8, <1>9

\* An entry that is no link is where its path leads, and the walk comes to its folder.
LEMMA FilesAreWalkedTo ==
    ASSUME NEW scp, IsTree(scp.files), NEW file \in DOMAIN scp.files,
           Kind(scp.files, file) = "file", scp.recursive \/ ~ (Len(file) > 1)
    PROVE  /\ Front(file) \in Walked(scp) /\ Resolve(scp.files, file) = file
           /\ Entry(scp.files, file) = file
<1>1. file \in Seq(Names) /\ Len(file) \in 1..Depth /\ file # Root /\ Depth \in Nat
  BY NamesAssumption DEF IsTree, Root
<1>2. /\ Front(file) \in Seq(Names) /\ Last(file) \in Names
      /\ file = Append(Front(file), Last(file)) /\ Len(Front(file)) = Len(file) - 1
  BY <1>1, FrontAndLast
<1>3. Front(file) \in Walked(scp)
  <2>1. CASE scp.recursive
    BY <2>1, FoldersAreWalked
  <2>2. CASE ~ (Len(file) > 1)
    <3>1. Len(Front(file)) = 0 /\ Depth >= 1
      BY <2>2, <1>1, <1>2
    <3>2. Front(file) = Root
      BY <3>1, <1>2 DEF Root
    <3>3. PICK level \in [0..Depth -> SUBSET Seq(Names)] :
            Levels(level, scp) /\ Walked(scp) = UNION {level[n] : n \in 0..(Depth - 1)}
      BY WalkLoops
    <3>4. Root \in level[0] /\ 0 \in 0..(Depth - 1)
      BY <3>1, <3>3, <1>1 DEF Levels
    <3> QED BY <3>2, <3>3, <3>4
  <2> QED BY <2>1, <2>2
<1>4. Resolve(scp.files, Front(file)) = Front(file)
  BY <1>3, WalkedAreStraight
<1> QED BY <1>2, <1>3, <1>4, StraightOn

-----------------------------------------------------------------------------
(* Backslashes                                                             *)

\* f[n] is what the first n sequences make.
Joins(f, seqs) ==
    f[1] = seqs[1] /\ \A n \in 2..Len(seqs) : f[n] = f[n - 1] \o seqs[n]

\* The recursive function of FlattenSeq.
LEMMA FlattenLoops ==
    ASSUME NEW S, NEW seqs \in Seq(Seq(S)), Len(seqs) # 0
    PROVE  \E f \in [1..Len(seqs) -> Seq(S)] : Joins(f, seqs) /\ FlattenSeq(seqs) = f[Len(seqs)]
<1> DEFINE L == Len(seqs)
           T == Seq(S)
           flatten == CHOOSE f : f = [i \in 1..L |-> IF i = 1 THEN seqs[i] ELSE f[i - 1] \o seqs[i]]
           step == [x \in T \X (1..L) |-> x[1] \o seqs[x[2]]]
<1>1. L \in Nat /\ L # 0 /\ <<>> \in T /\ \A i \in 1..L : seqs[i] \in T
  OBVIOUS
<1>2. step \in [T \X (1..L) -> T]
  OBVIOUS
<1>3. PICK g \in [0..L -> T] : Goes(g, <<>>, L, step)
  <2> HIDE DEF step, L, T
  <2> QED BY <1>1, <1>2, LoopExists
<1>4. g[0] = <<>> /\ \A n \in 1..L : g[n] = step[<<g[n - 1], n>>]
  BY <1>3 DEF Goes
<1>5. ASSUME NEW n \in 1..L
      PROVE  g[n] = g[n - 1] \o seqs[n]
  <2>1. n - 1 \in 0..L
    BY <1>1
  <2>2. <<g[n - 1], n>> \in T \X (1..L)
    BY <2>1
  <2>3. step[<<g[n - 1], n>>] = g[n - 1] \o seqs[n]
    BY <2>2
  <2> QED BY <2>3, <1>4
<1>6. g[1] = seqs[1]
  <2>1. 1 \in 1..L /\ 1 - 1 = 0 /\ seqs[1] \in Seq(S)
    BY <1>1
  <2>2. g[1] = <<>> \o seqs[1]
    BY <2>1, <1>4, <1>5
  <2> QED BY <2>1, <2>2
<1> DEFINE f == [i \in 1..L |-> g[i]]
<1>7. f = [i \in 1..L |-> IF i = 1 THEN seqs[i] ELSE f[i - 1] \o seqs[i]]
  <2>1. \A i \in 1..L : i = 1 \/ i - 1 \in 1..L
    BY <1>1
  <2> HIDE DEF step, T
  <2> QED BY <2>1, <1>5, <1>6
<1>8. flatten = [i \in 1..L |-> IF i = 1 THEN seqs[i] ELSE flatten[i - 1] \o seqs[i]]
  <2> HIDE DEF f
  <2> QED BY <1>7
<1>9. FlattenSeq(seqs) = flatten[L]
  BY <1>1 DEF FlattenSeq
<1> HIDE DEF flatten
<1>10. flatten[1] = seqs[1] /\ \A n \in 2..L : flatten[n] = flatten[n - 1] \o seqs[n]
  <2>1. 1 \in 1..L /\ \A n \in 2..L : n \in 1..L /\ n # 1
    BY <1>1
  <2> QED BY <2>1, <1>8
<1>11. ASSUME NEW n \in 1..L PROVE flatten[n] \in T
  <2> DEFINE U == {m \in 0..L : m = 0 \/ flatten[m] \in T}
  <2>1. 0 \in U
    BY <1>1
  <2>2. ASSUME NEW m \in 1..L, m - 1 \in U PROVE m \in U
    <3>1. CASE m = 1
      BY <3>1, <1>1, <1>10
    <3>2. CASE m # 1
      <4>1. m \in 2..L /\ flatten[m - 1] \in T /\ seqs[m] \in T /\ m \in 0..L
        BY <1>1, <2>2, <3>2
      <4>2. flatten[m] = flatten[m - 1] \o seqs[m]
        BY <4>1, <1>10
      <4>3. flatten[m] \in T
        BY <4>1, <4>2
      <4> HIDE DEF T
      <4> QED BY <4>1, <4>3
    <3> QED BY <3>1, <3>2
  <2>3. \A m \in 0..L : m \in U
    <3>1. U \in SUBSET (0..L)
      OBVIOUS
    <3> HIDE DEF U, L
    <3> QED BY <1>1, <2>1, <2>2, <3>1, UpTo
  <2>4. n \in U /\ n # 0
    <3>1. n \in 0..L /\ n # 0
      BY <1>1
    <3> HIDE DEF U
    <3> QED BY <3>1, <2>3
  <2> QED BY <2>4
<1>12. flatten \in [1..L -> T]
  BY <1>8, <1>11
<1> QED BY <1>9, <1>10, <1>12 DEF Joins

\* A path whose backslashes are taken for slashes is one.
LEMMA PosixType ==
    ASSUME NEW path \in Paths
    PROVE  Posix(path) \in Paths
<1> DEFINE seqs == [i \in 1..Len(path) |-> Parts[path[i]]]
           S == Names \cup {".."}
<1>1. Len(path) \in Nat /\ \A i \in 1..Len(path) : Parts[path[i]] \in Seq(S)
  BY NamesAssumption DEF Paths
<1>2. seqs \in Seq(Seq(S)) /\ Len(seqs) = Len(path)
  BY <1>1
<1>3. Posix(path) = FlattenSeq(seqs)
  BY DEF Posix
<1> HIDE DEF seqs
<1>4. CASE Len(path) = 0
  <2>1. FlattenSeq(seqs) = seqs
    BY <1>2, <1>4 DEF FlattenSeq
  <2>2. seqs = <<>>
    BY <1>2, <1>4
  <2> QED BY <1>3, <2>1, <2>2 DEF Paths
<1>5. CASE Len(path) # 0
  <2>1. PICK f \in [1..Len(seqs) -> Seq(S)] : FlattenSeq(seqs) = f[Len(seqs)]
    BY <1>2, <1>5, FlattenLoops
  <2>2. Len(seqs) \in 1..Len(seqs)
    BY <1>1, <1>2, <1>5
  <2> QED BY <1>3, <2>1, <2>2 DEF Paths
<1> QED BY <1>4, <1>5

\* A path without backslashes is read as it is.
LEMMA PosixOfPlain ==
    ASSUME NEW path \in Paths, ~ HasBackslash(path)
    PROVE  Posix(path) = path
<1> DEFINE seqs == [i \in 1..Len(path) |-> Parts[path[i]]]
           S == Names \cup {".."}
           L == Len(path)
<1>1. /\ L \in Nat /\ \A i \in 1..L : path[i] \in S /\ Parts[path[i]] = <<path[i]>>
      /\ path \in Seq(S)
  BY DEF Paths, HasBackslash
<1>2. /\ seqs \in Seq(Seq(S)) /\ Len(seqs) = L
      /\ \A i \in 1..L : seqs[i] = <<path[i]>>
  <2>1. \A i \in 1..L : seqs[i] = <<path[i]>> /\ seqs[i] \in Seq(S)
    <3> SUFFICES ASSUME NEW i \in 1..L PROVE seqs[i] = <<path[i]>> /\ seqs[i] \in Seq(S)
      OBVIOUS
    <3>1. path[i] \in S /\ Parts[path[i]] = <<path[i]>>
      BY <1>1
    <3>2. seqs[i] = <<path[i]>>
      BY <3>1
    <3> HIDE DEF S, seqs
    <3> QED BY <3>1, <3>2
  <2>2. seqs \in [1..L -> Seq(S)]
    BY <2>1
  <2> HIDE DEF S
  <2> QED BY <2>1, <2>2, <1>1
<1>3. Posix(path) = FlattenSeq(seqs)
  BY DEF Posix
<1> HIDE DEF seqs, S
<1>4. CASE L = 0
  <2>1. FlattenSeq(seqs) = seqs
    BY <1>2, <1>4 DEF FlattenSeq
  <2>2. seqs = <<>> /\ path = <<>>
    BY <1>1, <1>2, <1>4
  <2> QED BY <1>3, <2>1, <2>2
<1>5. CASE L # 0
  <2>1. PICK f \in [1..L -> Seq(S)] : Joins(f, seqs) /\ FlattenSeq(seqs) = f[L]
    BY <1>2, <1>5, FlattenLoops
  <2> DEFINE Same(p, n) == Len(p) = n /\ \A i \in 1..n : p[i] = path[i]
             U == {n \in 0..L : n = 0 \/ Same(f[n], n)}
  <2>2. 0 \in U
    BY <1>1
  <2>3. ASSUME NEW n \in 1..L, n - 1 \in U PROVE n \in U
    <3>1. n \in 0..L /\ path[n] \in S /\ seqs[n] = <<path[n]>>
      BY <1>1, <1>2
    <3>2. CASE n = 1
      <4>1. f[n] = <<path[n]>>
        BY <2>1, <3>1, <3>2 DEF Joins
      <4>2. Same(f[n], n)
        BY <4>1, <3>2
      <4> QED BY <4>2, <3>1
    <3>3. CASE n # 1
      <4>1. n \in 2..L /\ Same(f[n - 1], n - 1) /\ f[n - 1] \in Seq(S)
        BY <1>1, <2>1, <2>3, <3>3
      <4>2. f[n] = f[n - 1] \o <<path[n]>>
        BY <4>1, <3>1, <2>1, <1>2 DEF Joins
      <4>3. Same(f[n], n)
        BY <4>1, <4>2, <3>1
      <4> QED BY <4>3, <3>1
    <3> QED BY <3>2, <3>3
  <2>4. \A n \in 0..L : n \in U
    <3>1. U \in SUBSET (0..L)
      OBVIOUS
    <3> HIDE DEF U, L
    <3> QED BY <1>1, <2>2, <2>3, <3>1, UpTo
  <2>5. L \in U
    <3> HIDE DEF U
    <3> QED BY <1>1, <2>4
  <2>6. Same(f[L], L) /\ f[L] \in Seq(S)
    BY <1>1, <1>5, <2>1, <2>5
  <2>7. f[L] = path
    BY <1>1, <2>6
  <2> QED BY <1>3, <2>1, <2>7
<1> QED BY <1>4, <1>5

-----------------------------------------------------------------------------
(* Files of a scope                                                        *)

\* The scope is one of those that are asked for, and stays.
LEMMA ScopeIsOne == ReadSpec => [](scope \in Scopes)
<1>1. ReadInit => scope \in Scopes
  BY DEF ReadInit
<1>2. scope \in Scopes /\ [ReadNext]_readVars => (scope \in Scopes)'
  BY DEF ReadNext, readVars
<1> QED BY <1>1, <1>2, PTL DEF ReadSpec

\* For every scope and every tree of files below its root, a file is found by one
\* path only, however links lead through the folders.
THEOREM FoundOnce == ReadSpec => []FilesAreFoundOnce
<1>1. scope \in Scopes => FilesAreFoundOnce
  <2> SUFFICES ASSUME scope \in Scopes, NEW p \in Found(scope), NEW q \in Found(scope),
                      Resolve(scope.files, p) = Resolve(scope.files, q)
               PROVE  p = q
    BY DEF FilesAreFoundOnce
  <2>1. IsTree(scope.files)
    BY ScopesAssumption DEF IsScope
  <2> QED BY <2>1, FoundAreStraight
<1> QED BY <1>1, ScopeIsOne, PTL

-----------------------------------------------------------------------------
(* Policies of folders                                                     *)

\* The settings of a policy, each of which an override has or leaves alone.
Settings == {"mode", "include", "exclude"}

\* The overrides that apply to a folder and have a setting.
Able(overrides, folder, f) ==
    {i \in DOMAIN overrides : Applies(overrides[i], folder) /\ overrides[i][f] # None}

\* Override j is reached before those for folders of n names that are listed after i.
Reached(overrides, j, n, i) ==
    Len(overrides[j].folder) < n \/ (Len(overrides[j].folder) = n /\ j <= i)

\* Override j comes after override k.
After(overrides, k, j) ==
    \/ Len(overrides[k].folder) < Len(overrides[j].folder)
    \/ Len(overrides[k].folder) = Len(overrides[j].folder) /\ k <= j

\* val is the setting of the last override reached that has it.
Decided(val, default, overrides, folder, f, n, i) ==
    LET able == Able(overrides, folder, f) IN
    \/ (\A j \in able : ~ Reached(overrides, j, n, i)) /\ val = default
    \/ \E j \in able : /\ Reached(overrides, j, n, i) /\ val = overrides[j][f]
                       /\ \A k \in able : Reached(overrides, k, n, i) => After(overrides, k, j)

\* What is listed are overrides.
LEMMA OverrideType ==
    ASSUME NEW overrides \in Seq(OverrideRecords), NEW j \in DOMAIN overrides
    PROVE  /\ overrides[j] \in OverrideRecords /\ Len(overrides[j].folder) \in Nat
           /\ j \in 1..Len(overrides)
<1>1. overrides[j] \in OverrideRecords /\ j \in 1..Len(overrides)
  OBVIOUS
<1> QED BY <1>1 DEF OverrideRecords

\* What an override does to each setting.
LEMMA AfterOverrideType ==
    ASSUME NEW policy \in PolicyRecords, NEW override \in OverrideRecords, NEW folder, NEW n
    PROVE  /\ AfterOverride(override, folder, n, policy) \in PolicyRecords
           /\ \A f \in Settings :
                AfterOverride(override, folder, n, policy)[f] =
                  IF Applies(override, folder) /\ Len(override.folder) = n /\ override[f] # None
                  THEN override[f] ELSE policy[f]
<1>1. Overridden(policy, override) \in PolicyRecords
  BY DEF PolicyRecords, Overridden, OverrideRecords
<1>2. \A f \in Settings :
        Overridden(policy, override)[f] = IF override[f] = None THEN policy[f] ELSE override[f]
  BY DEF PolicyRecords, Overridden, Settings
<1> QED BY <1>1, <1>2 DEF AfterOverride

\* The loop of AfterDepth.
Overriding(after, overrides, folder, n, policy) ==
    after[0] = policy
    /\ \A i \in 1..Len(overrides) : after[i] = AfterOverride(overrides[i], folder, n, after[i - 1])

\* The loop of AfterDepth gives policies.
LEMMA DepthLoops ==
    ASSUME NEW overrides \in Seq(OverrideRecords), NEW folder, NEW n,
           NEW policy \in PolicyRecords
    PROVE  \E after \in [0..Len(overrides) -> PolicyRecords] :
             /\ Overriding(after, overrides, folder, n, policy)
             /\ AfterDepth(overrides, folder, n, policy) = after[Len(overrides)]
<1> DEFINE L == Len(overrides)
           S == PolicyRecords
           after == CHOOSE g : g = [i \in 0..L |->
                      IF i = 0 THEN policy ELSE AfterOverride(overrides[i], folder, n, g[i - 1])]
           step == [x \in S \X (1..L) |-> AfterOverride(overrides[x[2]], folder, n, x[1])]
<1>1. L \in Nat /\ policy \in S /\ \A i \in 1..L : overrides[i] \in OverrideRecords
  OBVIOUS
<1>2. step \in [S \X (1..L) -> S]
  BY <1>1, AfterOverrideType
<1>3. PICK g \in [0..L -> S] : Goes(g, policy, L, step)
  <2> HIDE DEF step, L, S
  <2> QED BY <1>1, <1>2, LoopExists
<1>4. g[0] = policy /\ \A i \in 1..L : g[i] = step[<<g[i - 1], i>>]
  BY <1>3 DEF Goes
<1>5. ASSUME NEW i \in 1..L
      PROVE  g[i] = AfterOverride(overrides[i], folder, n, g[i - 1])
  <2>1. i - 1 \in 0..L
    BY <1>1
  <2>2. <<g[i - 1], i>> \in S \X (1..L)
    BY <2>1
  <2>3. step[<<g[i - 1], i>>] = AfterOverride(overrides[i], folder, n, g[i - 1])
    BY <2>2
  <2> QED BY <2>3, <1>4
<1>6. g = [i \in 0..L |->
             IF i = 0 THEN policy ELSE AfterOverride(overrides[i], folder, n, g[i - 1])]
  <2> HIDE DEF step, S
  <2>1. \A i \in 0..L : i = 0 \/ i \in 1..L
    BY <1>1
  <2> QED BY <2>1, <1>4, <1>5
<1>7. after = [i \in 0..L |->
                 IF i = 0 THEN policy ELSE AfterOverride(overrides[i], folder, n, after[i - 1])]
  BY <1>6
<1>8. AfterDepth(overrides, folder, n, policy) = after[L]
  BY DEF AfterDepth
<1> HIDE DEF after, step
<1>9. /\ after[0] = policy
      /\ \A i \in 1..L : after[i] = AfterOverride(overrides[i], folder, n, after[i - 1])
  <2>1. 0 \in 0..L /\ \A i \in 1..L : i \in 0..L /\ i # 0
    BY <1>1
  <2> QED BY <2>1, <1>7
<1>10. ASSUME NEW i \in 0..L PROVE after[i] \in S
  <2> DEFINE U == {j \in 0..L : after[j] \in S}
  <2>1. 0 \in U
    BY <1>1, <1>9
  <2>2. ASSUME NEW j \in 1..L, j - 1 \in U PROVE j \in U
    <3>1. after[j - 1] \in S /\ j \in 0..L /\ overrides[j] \in OverrideRecords
      BY <1>1, <2>2
    <3> QED BY <3>1, <1>9, AfterOverrideType
  <2>3. \A j \in 0..L : j \in U
    <3>1. U \in SUBSET (0..L)
      OBVIOUS
    <3> HIDE DEF U, L
    <3> QED BY <1>1, <2>1, <2>2, <3>1, UpTo
  <2> QED BY <2>3
<1>11. after \in [0..L -> S]
  BY <1>7, <1>10
<1> QED BY <1>8, <1>9, <1>11 DEF Overriding

\* One override.
LEMMA OverrideDecides ==
    ASSUME NEW overrides \in Seq(OverrideRecords), NEW folder, NEW f \in Settings,
           NEW policy \in PolicyRecords, NEW default, NEW n \in Nat,
           NEW i \in DOMAIN overrides,
           Decided(policy[f], default, overrides, folder, f, n, i - 1)
    PROVE  Decided(AfterOverride(overrides[i], folder, n, policy)[f],
                   default, overrides, folder, f, n, i)
<1> DEFINE able == Able(overrides, folder, f)
           val == AfterOverride(overrides[i], folder, n, policy)[f]
           takes == Applies(overrides[i], folder) /\ Len(overrides[i].folder) = n
                    /\ overrides[i][f] # None
<1>1. \A j \in able : j \in Nat /\ Len(overrides[j].folder) \in Nat
  BY OverrideType DEF Able
<1>2. overrides[i] \in OverrideRecords /\ i \in Nat /\ Len(overrides[i].folder) \in Nat
  BY OverrideType
<1>3. val = IF takes THEN overrides[i][f] ELSE policy[f]
  BY <1>2, AfterOverrideType
<1>4. CASE takes
  <2>1. i \in able /\ Reached(overrides, i, n, i)
    BY <1>2, <1>4 DEF Able, Reached
  <2>2. \A k \in able : Reached(overrides, k, n, i) => After(overrides, k, i)
    BY <1>1, <1>2, <1>4 DEF Reached, After
  <2> QED BY <2>1, <2>2, <1>3, <1>4 DEF Decided
<1>5. CASE ~ takes
  <2>1. \A j \in able : Reached(overrides, j, n, i) <=> Reached(overrides, j, n, i - 1)
    <3> SUFFICES ASSUME NEW j \in able
                 PROVE  Reached(overrides, j, n, i) <=> Reached(overrides, j, n, i - 1)
      OBVIOUS
    <3>1. j # i \/ Len(overrides[j].folder) # n
      BY <1>5 DEF Able
    <3> QED BY <3>1, <1>1, <1>2 DEF Reached
  <2>2. val = policy[f]
    BY <1>3, <1>5
  <2> HIDE DEF val
  <2> QED BY <2>1, <2>2 DEF Decided, val
<1> QED BY <1>4, <1>5

\* The overrides for folders of n names.
LEMMA DepthDecides ==
    ASSUME NEW overrides \in Seq(OverrideRecords), NEW folder, NEW f \in Settings,
           NEW policy \in PolicyRecords, NEW default, NEW n \in Nat,
           Decided(policy[f], default, overrides, folder, f, n, 0)
    PROVE  /\ AfterDepth(overrides, folder, n, policy) \in PolicyRecords
           /\ Decided(AfterDepth(overrides, folder, n, policy)[f],
                      default, overrides, folder, f, n, Len(overrides))
<1> DEFINE L == Len(overrides)
<1>1. PICK after \in [0..L -> PolicyRecords] :
        /\ Overriding(after, overrides, folder, n, policy)
        /\ AfterDepth(overrides, folder, n, policy) = after[L]
  BY DepthLoops
<1> DEFINE U == {i \in 0..L : Decided(after[i][f], default, overrides, folder, f, n, i)}
<1>2. L \in Nat /\ DOMAIN overrides = 1..L
  OBVIOUS
<1>3. 0 \in U
  BY <1>1, <1>2 DEF Overriding
<1>4. ASSUME NEW i \in 1..L, i - 1 \in U PROVE i \in U
  <2>1. i - 1 \in 0..L /\ i \in 0..L /\ after[i - 1] \in PolicyRecords
    BY <1>2
  <2>2. Decided(after[i - 1][f], default, overrides, folder, f, n, i - 1)
    BY <1>4
  <2>3. after[i] = AfterOverride(overrides[i], folder, n, after[i - 1])
    BY <1>1 DEF Overriding
  <2>4. Decided(after[i][f], default, overrides, folder, f, n, i)
    BY <2>1, <2>2, <2>3, <1>2, OverrideDecides
  <2> QED BY <2>1, <2>4
<1>5. \A i \in 0..L : i \in U
  <2>1. U \in SUBSET (0..L)
    OBVIOUS
  <2> HIDE DEF U, L
  <2> QED BY <1>2, <1>3, <1>4, <2>1, UpTo
<1>6. L \in U /\ after[L] \in PolicyRecords
  <2>1. L \in 0..L
    BY <1>2
  <2> HIDE DEF U, L
  <2> QED BY <2>1, <1>1, <1>5
<1> QED BY <1>1, <1>6

\* The loop of PolicyFor.
Deepening(current, scp, folder) ==
    /\ current[0] = scp.policy
    /\ \A n \in 1..(Len(folder) + 1) :
         current[n] = AfterDepth(scp.overrides, folder, n - 1, current[n - 1])

\* The settings after the overrides of a depth are policies.
LEMMA AfterDepthType ==
    ASSUME NEW overrides \in Seq(OverrideRecords), NEW folder, NEW n,
           NEW policy \in PolicyRecords
    PROVE  AfterDepth(overrides, folder, n, policy) \in PolicyRecords
<1>1. Len(overrides) \in 0..Len(overrides)
  OBVIOUS
<1> QED BY <1>1, DepthLoops

\* The loop of PolicyFor gives policies.
LEMMA PolicyLoops ==
    ASSUME NEW scp, scp.policy \in PolicyRecords, scp.overrides \in Seq(OverrideRecords),
           NEW folder \in Seq(Names)
    PROVE  \E current \in [0..(Len(folder) + 1) -> PolicyRecords] :
             /\ Deepening(current, scp, folder)
             /\ PolicyFor(scp, folder) = current[Len(folder) + 1]
<1> DEFINE L == Len(folder) + 1
           S == PolicyRecords
           current == CHOOSE g : g = [n \in 0..L |->
                        IF n = 0 THEN scp.policy
                        ELSE AfterDepth(scp.overrides, folder, n - 1, g[n - 1])]
           step == [x \in S \X (1..L) |-> AfterDepth(scp.overrides, folder, x[2] - 1, x[1])]
<1>1. L \in Nat /\ scp.policy \in S /\ scp.overrides \in Seq(OverrideRecords)
  OBVIOUS
<1>2. step \in [S \X (1..L) -> S]
  BY <1>1, AfterDepthType
<1>3. PICK g \in [0..L -> S] : Goes(g, scp.policy, L, step)
  <2> HIDE DEF step, L, S
  <2> QED BY <1>1, <1>2, LoopExists
<1>4. g[0] = scp.policy /\ \A n \in 1..L : g[n] = step[<<g[n - 1], n>>]
  BY <1>3 DEF Goes
<1>5. ASSUME NEW n \in 1..L
      PROVE  g[n] = AfterDepth(scp.overrides, folder, n - 1, g[n - 1])
  <2>1. n - 1 \in 0..L
    BY <1>1
  <2>2. <<g[n - 1], n>> \in S \X (1..L)
    BY <2>1
  <2>3. step[<<g[n - 1], n>>] = AfterDepth(scp.overrides, folder, n - 1, g[n - 1])
    BY <2>2
  <2> QED BY <2>3, <1>4
<1>6. g = [n \in 0..L |->
             IF n = 0 THEN scp.policy
             ELSE AfterDepth(scp.overrides, folder, n - 1, g[n - 1])]
  <2> HIDE DEF step, S
  <2>1. \A n \in 0..L : n = 0 \/ n \in 1..L
    BY <1>1
  <2> QED BY <2>1, <1>4, <1>5
<1>7. current = [n \in 0..L |->
                   IF n = 0 THEN scp.policy
                   ELSE AfterDepth(scp.overrides, folder, n - 1, current[n - 1])]
  BY <1>6
<1>8. PolicyFor(scp, folder) = current[L]
  BY DEF PolicyFor
<1> HIDE DEF current, step
<1>9. /\ current[0] = scp.policy
      /\ \A n \in 1..L : current[n] = AfterDepth(scp.overrides, folder, n - 1, current[n - 1])
  <2>1. 0 \in 0..L /\ \A n \in 1..L : n \in 0..L /\ n # 0
    BY <1>1
  <2> QED BY <2>1, <1>7
<1>10. ASSUME NEW n \in 0..L PROVE current[n] \in S
  <2> DEFINE U == {m \in 0..L : current[m] \in S}
  <2>1. 0 \in U
    BY <1>1, <1>9
  <2>2. ASSUME NEW m \in 1..L, m - 1 \in U PROVE m \in U
    <3>1. current[m - 1] \in S /\ m \in 0..L
      BY <1>1, <2>2
    <3> QED BY <3>1, <1>1, <1>9, AfterDepthType
  <2>3. \A m \in 0..L : m \in U
    <3>1. U \in SUBSET (0..L)
      OBVIOUS
    <3> HIDE DEF U, L
    <3> QED BY <1>1, <2>1, <2>2, <3>1, UpTo
  <2> QED BY <2>3
<1>11. current \in [0..L -> S]
  BY <1>7, <1>10
<1> QED BY <1>8, <1>9, <1>11 DEF Deepening

\* All overrides that apply are reached.
LEMMA PolicyDecides ==
    ASSUME NEW scp, scp.policy \in PolicyRecords, scp.overrides \in Seq(OverrideRecords),
           NEW folder \in Seq(Names), NEW f \in Settings
    PROVE  Decided(PolicyFor(scp, folder)[f], scp.policy[f], scp.overrides, folder, f,
                   Len(folder), Len(scp.overrides))
<1> DEFINE L == Len(folder) + 1
           K == Len(scp.overrides)
           D(val, n, i) == Decided(val, scp.policy[f], scp.overrides, folder, f, n, i)
           able == Able(scp.overrides, folder, f)
<1>1. PICK current \in [0..L -> PolicyRecords] :
        Deepening(current, scp, folder) /\ PolicyFor(scp, folder) = current[L]
  BY PolicyLoops
<1>2. L \in Nat /\ Len(folder) \in Nat /\ K \in Nat
  OBVIOUS
<1>3. \A j \in able : /\ j \in Nat /\ 1 <= j /\ j <= K
                      /\ Len(scp.overrides[j].folder) \in Nat
  BY OverrideType DEF Able
<1> DEFINE U == {n \in 0..L : n = L \/ D(current[n][f], n, 0)}
<1>4. ASSUME NEW n \in 1..L, D(current[n - 1][f], n - 1, 0)
      PROVE  D(current[n][f], n - 1, K)
  <2>1. n - 1 \in Nat /\ n - 1 \in 0..L /\ current[n - 1] \in PolicyRecords
    BY <1>2
  <2>2. current[n] = AfterDepth(scp.overrides, folder, n - 1, current[n - 1])
    BY <1>1 DEF Deepening
  <2> QED BY <2>1, <2>2, <1>4, DepthDecides
<1>5. 0 \in U
  <2>1. current[0] = scp.policy
    BY <1>1 DEF Deepening
  <2>2. \A j \in able : ~ Reached(scp.overrides, j, 0, 0)
    BY <1>3 DEF Reached
  <2>3. D(current[0][f], 0, 0)
    BY <2>1, <2>2 DEF Decided
  <2> HIDE DEF D
  <2> QED BY <2>3, <1>2
<1>6. ASSUME NEW n \in 1..L, n - 1 \in U PROVE n \in U
  <2>1. D(current[n - 1][f], n - 1, 0)
    <3> HIDE DEF D
    <3> QED BY <1>2, <1>6
  <2>2. D(current[n][f], n - 1, K)
    BY <2>1, <1>4
  <2>3. \A j \in able : Reached(scp.overrides, j, n - 1, K) <=> Reached(scp.overrides, j, n, 0)
    <3> SUFFICES ASSUME NEW j \in able
                 PROVE  Reached(scp.overrides, j, n - 1, K) <=> Reached(scp.overrides, j, n, 0)
      OBVIOUS
    <3> DEFINE len == Len(scp.overrides[j].folder)
    <3>1. j \in Nat /\ 1 <= j /\ j <= K /\ len \in Nat /\ n \in Nat /\ K \in Nat
      BY <1>2, <1>3
    <3> HIDE DEF K, L, able, len
    <3>2. (len < n - 1 \/ (len = n - 1 /\ j <= K)) <=> (len < n \/ (len = n /\ j <= 0))
      BY <3>1
    <3> QED BY <3>2 DEF Reached, len
  <2>4. D(current[n][f], n, 0)
    BY <2>2, <2>3 DEF Decided
  <2> HIDE DEF D
  <2> QED BY <2>4, <1>2
<1>7. \A n \in 0..L : n \in U
  <2>1. U \in SUBSET (0..L)
    OBVIOUS
  <2> HIDE DEF U, L
  <2> QED BY <1>2, <1>5, <1>6, <2>1, UpTo
<1>8. D(current[L - 1][f], L - 1, 0) /\ L \in 1..L /\ L - 1 = Len(folder)
  <2>1. L - 1 \in 0..L /\ L - 1 # L /\ L \in 1..L /\ L - 1 = Len(folder)
    BY <1>2
  <2>2. L - 1 \in U
    <3> HIDE DEF U, L
    <3> QED BY <2>1, <1>7
  <2> HIDE DEF D, L
  <2> QED BY <2>1, <2>2
<1>9. D(current[L][f], L - 1, K)
  <2> HIDE DEF D, L
  <2> QED BY <1>4, <1>8
<1> QED BY <1>1, <1>8, <1>9

\* An override that applies to a folder is for it or for one that it is in.
LEMMA AppliesFromAbove ==
    ASSUME NEW override \in OverrideRecords, NEW folder \in Seq(Names),
           Applies(override, folder)
    PROVE  Len(override.folder) <= Len(folder)
BY DEF Applies, IsPrefix, OverrideRecords

\* For every scope, every tree of files below its root and every list of overrides,
\* each setting of a folder is that of the nearest override that has it.
THEOREM NearestDecides == ReadSpec => []NearestOverrideDecides
<1>1. scope \in Scopes => NearestOverrideDecides
  <2> SUFFICES ASSUME scope \in Scopes, NEW folder \in ScopeFolders, NEW f \in Settings
               PROVE  LET near == Nearest(folder, f) IN
                      /\ near = {} => PolicyFor(scope, folder)[f] = scope.policy[f]
                      /\ \A i \in near : PolicyFor(scope, folder)[f] = scope.overrides[i][f]
    BY DEF NearestOverrideDecides, Settings
  <2> DEFINE near == Nearest(folder, f)
             able == Able(scope.overrides, folder, f)
             val == PolicyFor(scope, folder)[f]
             L == Len(scope.overrides)
  <2>1. /\ folder \in Seq(Names) /\ Len(folder) \in Nat
        /\ scope.policy \in PolicyRecords /\ scope.overrides \in Seq(OverrideRecords)
    <3>1. IsScope(scope) /\ Root \in Seq(Names)
      BY ScopesAssumption DEF Root
    <3>2. folder \in Seq(Names)
      BY <3>1 DEF IsScope, IsTree, ScopeFolders
    <3> QED BY <3>1, <3>2 DEF IsScope
  <2>2. Decided(val, scope.policy[f], scope.overrides, folder, f, Len(folder), L)
    BY <2>1, PolicyDecides
  <2>3. ASSUME NEW j \in able
        PROVE  /\ j \in Nat /\ Len(scope.overrides[j].folder) \in Nat
               /\ Reached(scope.overrides, j, Len(folder), L)
    <3>1. /\ scope.overrides[j] \in OverrideRecords /\ j \in 1..L
          /\ Len(scope.overrides[j].folder) \in Nat
          /\ Applies(scope.overrides[j], folder)
      BY <2>1, OverrideType DEF Able
    <3>2. Len(scope.overrides[j].folder) <= Len(folder)
      BY <2>1, <3>1, AppliesFromAbove
    <3> QED BY <2>1, <3>1, <3>2 DEF Reached
  <2>4. near = {j \in able : \A k \in able : After(scope.overrides, k, j)}
    BY DEF Nearest, Able, After
  <2>5. \A j, k \in near : j = k
    <3> SUFFICES ASSUME NEW j \in near, NEW k \in near PROVE j = k
      OBVIOUS
    <3>1. /\ j \in able /\ k \in able
          /\ After(scope.overrides, k, j) /\ After(scope.overrides, j, k)
      BY <2>4
    <3>2. /\ j \in Nat /\ Len(scope.overrides[j].folder) \in Nat
          /\ k \in Nat /\ Len(scope.overrides[k].folder) \in Nat
      BY <2>3, <3>1
    <3> DEFINE dj == Len(scope.overrides[j].folder)
               dk == Len(scope.overrides[k].folder)
    <3>3. /\ dk < dj \/ (dk = dj /\ k <= j)
          /\ dj < dk \/ (dj = dk /\ j <= k)
      BY <3>1 DEF After
    <3>4. j \in Nat /\ k \in Nat /\ dj \in Nat /\ dk \in Nat
      BY <3>2
    <3> HIDE DEF near, able, dj, dk
    <3> QED BY <3>3, <3>4
  <2> HIDE DEF near, val, able
  <2>6. CASE (\A j \in able : ~ Reached(scope.overrides, j, Len(folder), L))
             /\ val = scope.policy[f]
    <3>1. able = {}
      BY <2>3, <2>6
    <3> QED BY <3>1, <2>4, <2>6 DEF near, val
  <2>7. CASE \E j \in able :
               /\ Reached(scope.overrides, j, Len(folder), L) /\ val = scope.overrides[j][f]
               /\ \A k \in able : Reached(scope.overrides, k, Len(folder), L)
                                    => After(scope.overrides, k, j)
    <3>1. PICK j \in able : /\ val = scope.overrides[j][f]
                            /\ \A k \in able : After(scope.overrides, k, j)
      BY <2>3, <2>7
    <3>2. j \in near
      BY <3>1, <2>4
    <3> QED BY <3>1, <3>2, <2>5 DEF near, val
  <2> QED BY <2>2, <2>6, <2>7 DEF Decided, able
<1> QED BY <1>1, ScopeIsOne, PTL

-----------------------------------------------------------------------------
(* What is indexed and what is read                                        *)

\* What both pieces of code come to: Markdown files that the policies leave in.
IsDocument(scp, file) ==
    /\ file \in DOMAIN scp.files /\ Kind(scp.files, file) = "file"
    /\ Last(file) \in Markdown /\ Included(scp, file)

\* Two scopes with the same policies have the same settings for each folder.
LEMMA SamePolicy ==
    ASSUME NEW s, NEW t, NEW folder \in Seq(Names),
           s.policy \in PolicyRecords, s.overrides \in Seq(OverrideRecords),
           t.policy = s.policy, t.overrides = s.overrides
    PROVE  PolicyFor(t, folder) = PolicyFor(s, folder)
<1> DEFINE L == Len(folder) + 1
<1>1. L \in Nat
  OBVIOUS
<1>2. PICK f \in [0..L -> PolicyRecords] : Deepening(f, s, folder) /\ PolicyFor(s, folder) = f[L]
  BY PolicyLoops
<1>3. PICK g \in [0..L -> PolicyRecords] : Deepening(g, t, folder) /\ PolicyFor(t, folder) = g[L]
  BY PolicyLoops
<1> DEFINE S == {n \in 0..L : f[n] = g[n]}
<1>4. 0 \in S
  BY <1>1, <1>2, <1>3 DEF Deepening
<1>5. ASSUME NEW n \in 1..L, n - 1 \in S PROVE n \in S
  <2>1. f[n - 1] = g[n - 1] /\ n \in 0..L
    BY <1>1, <1>5
  <2>2. /\ f[n] = AfterDepth(s.overrides, folder, n - 1, f[n - 1])
        /\ g[n] = AfterDepth(t.overrides, folder, n - 1, g[n - 1])
    BY <1>2, <1>3 DEF Deepening
  <2> QED BY <2>1, <2>2
<1>6. \A n \in 0..L : n \in S
  <2>1. S \in SUBSET (0..L)
    OBVIOUS
  <2> HIDE DEF S, L
  <2> QED BY <1>1, <1>4, <1>5, <2>1, UpTo
<1>7. L \in S
  <2> HIDE DEF S
  <2> QED BY <1>1, <1>6
<1> QED BY <1>2, <1>3, <1>7

LEMMA SameDocuments ==
    ASSUME NEW scp, IsScope(scp), NEW file
    PROVE  IsDocument(Recursively(scp), file) <=> IsDocument(scp, file)
<1> DEFINE wide == Recursively(scp)
<1>1. wide.files = scp.files /\ wide.policy = scp.policy /\ wide.overrides = scp.overrides
  BY DEF Recursively
<1> HIDE DEF wide
<1>2. ASSUME file \in DOMAIN scp.files
      PROVE  Included(wide, file) <=> Included(scp, file)
  <2>1. file \in Seq(Names) /\ file # Root
    BY <1>2 DEF IsScope, IsTree, Root
  <2>2. Front(file) \in Seq(Names)
    BY <2>1, FrontAndLast
  <2>3. PolicyFor(wide, Front(file)) = PolicyFor(scp, Front(file))
    BY <1>1, <2>2, SamePolicy DEF IsScope
  <2> QED BY <2>3 DEF Included
<1> QED BY <1>1, <1>2 DEF IsDocument, wide

\* The walk comes to the documents that it may reach, and to nothing else.
LEMMA DocumentsAreIndexed ==
    ASSUME NEW scp, IsTree(scp.files), NEW file
    PROVE  file \in Discovered(scp)
             <=> IsDocument(scp, file) /\ (scp.recursive \/ ~ (Len(file) > 1))
<1>1. ASSUME file \in Discovered(scp)
      PROVE  IsDocument(scp, file) /\ (scp.recursive \/ ~ (Len(file) > 1))
  <2>1. PICK path \in Found(scp) : file = Resolve(scp.files, path)
    BY <1>1 DEF Discovered
  <2>2. /\ file = path /\ file \in Seq(Names) /\ Last(file) \in Markdown
        /\ Kind(scp.files, file) = "file" /\ Included(scp, file)
    BY <2>1, FoundAreStraight
  <2>3. file \in DOMAIN scp.files
    BY <2>2 DEF Kind
  <2>4. ASSUME ~ scp.recursive PROVE ~ (Len(file) > 1)
    <3>1. PICK folder \in Walked(scp), name \in Markdown : file = Append(folder, name)
      BY <2>1, <2>2 DEF Found
    <3>2. PICK level \in [0..Depth -> SUBSET Seq(Names)] :
            Levels(level, scp) /\ Walked(scp) = UNION {level[n] : n \in 0..(Depth - 1)}
      BY WalkLoops
    <3>3. PICK n \in 0..(Depth - 1) : folder \in level[n]
      BY <3>1, <3>2
    <3>4. CASE n = 0
      <4>1. folder = Root
        BY <3>2, <3>3, <3>4 DEF Levels
      <4> QED BY <3>1, <4>1 DEF Root
    <3>5. CASE n # 0
      <4>1. n \in 1..Depth
        BY <3>5, NamesAssumption
      <4>2. folder \in Below(scp, level[n - 1])
        BY <3>2, <3>3, <4>1 DEF Levels
      <4> QED BY <2>4, <4>2 DEF Below, Entered
    <3> QED BY <3>4, <3>5
  <2> QED BY <2>2, <2>3, <2>4 DEF IsDocument
<1>2. ASSUME IsDocument(scp, file), scp.recursive \/ ~ (Len(file) > 1)
      PROVE  file \in Discovered(scp)
  <2>1. /\ Front(file) \in Walked(scp) /\ Resolve(scp.files, file) = file
        /\ Entry(scp.files, file) = file
    BY <1>2, FilesAreWalkedTo DEF IsDocument
  <2>2. file = Append(Front(file), Last(file)) /\ ~ Outside(file)
    <3>1. file \in Seq(Names) /\ file # Root
      BY <1>2 DEF IsDocument, IsTree, Root
    <3> QED BY <3>1, FrontAndLast, NamesArePaths
  <2>3. file \in Found(scp)
    BY <1>2, <2>1, <2>2 DEF Found, IsDocument
  <2> QED BY <2>1, <2>3 DEF Discovered
<1> QED BY <1>1, <1>2

\* Folders on the way to a file are folders, so its own path leads to it.
LEMMA FilesAreStraight ==
    ASSUME NEW files, IsTree(files), NEW file \in DOMAIN files, Kind(files, file) = "file"
    PROVE  Resolve(files, file) = file /\ Entry(files, file) = file
<1> DEFINE whole == [files |-> files, recursive |-> TRUE]
<1>1. whole.files = files /\ whole.recursive
  OBVIOUS
<1> HIDE DEF whole
<1> QED BY <1>1, FilesAreWalkedTo

\* A document can be read under its relative path.
LEMMA DocumentCanBeRead ==
    ASSUME NEW scp, IsTree(scp.files), NEW file, IsDocument(scp, file), ~ HasBackslash(file)
    PROVE  Readable(scp, file) = {file}
<1>1. /\ file \in Seq(Names) /\ file # Root /\ Last(file) \in Markdown
      /\ Kind(scp.files, file) = "file" /\ Included(scp, file)
  BY DEF IsDocument, IsTree, Root
<1>2. Resolve(scp.files, file) = file /\ Entry(scp.files, file) = file
  BY FilesAreStraight DEF IsDocument
<1>3. file \in Paths /\ ~ Outside(file) /\ \A i \in 1..Len(file) : file[i] # ".."
  BY <1>1, NamesArePaths
<1>4. Posix(file) = file
  BY <1>3, PosixOfPlain
<1>5. MayRead(scp, file)
  BY <1>1, <1>2, <1>3 DEF MayRead
<1> QED BY <1>2, <1>4, <1>5 DEF Readable

\* What can be read is a document.
LEMMA ReadIsDocument ==
    ASSUME NEW scp, IsTree(scp.files), NEW path \in Paths, NEW file \in Readable(scp, path)
    PROVE  IsDocument(scp, file)
<1> DEFINE q == Posix(path)
<1>1. /\ MayRead(scp, q) /\ file = Resolve(scp.files, q)
  BY DEF Readable
<1>2. q \in Paths /\ q # Root
  BY <1>1, PosixType DEF MayRead
<1> HIDE DEF q
<1>3. /\ Last(Entry(scp.files, q)) = Last(q)
      /\ Resolve(scp.files, q) = Followed(scp.files, Entry(scp.files, q))
  BY <1>2, ResolveEntry
<1>4. /\ Last(q) \in Markdown /\ Kind(scp.files, Entry(scp.files, q)) # "link"
      /\ Kind(scp.files, file) = "file" /\ Included(scp, file)
  BY <1>1 DEF MayRead
<1>5. file = Entry(scp.files, q) /\ Last(file) \in Markdown
  BY <1>1, <1>3, <1>4 DEF Followed
<1>6. file \in DOMAIN scp.files
  BY <1>4 DEF Kind
<1> QED BY <1>4, <1>5, <1>6 DEF IsDocument

\* For every scope and every tree of files below its root, what can be read are the
\* documents at any depth, by whatever path, each under its relative path; and what
\* is indexed are the same, or of a scope that is not recursive those in its root.
THEOREM IndexedAreReadable == ReadSpec => []IndexedFilesAreReadable
<1>1. scope \in Scopes => IndexedFilesAreReadable
  <2> SUFFICES ASSUME scope \in Scopes PROVE IndexedFilesAreReadable
    OBVIOUS
  <2> DEFINE documents == Discovered(Recursively(scope))
  <2>1. IsScope(scope) /\ IsTree(scope.files)
    BY ScopesAssumption DEF IsScope
  <2>2. ASSUME NEW file PROVE file \in documents <=> IsDocument(scope, file)
    <3>1. Recursively(scope).files = scope.files /\ Recursively(scope).recursive
      BY DEF Recursively
    <3> QED BY <2>1, <3>1, DocumentsAreIndexed, SameDocuments
  <2> HIDE DEF documents
  <2>3. \A file \in documents : HasBackslash(file) \/ Readable(scope, file) = {file}
    BY <2>1, <2>2, DocumentCanBeRead
  <2>4. \A path \in Requests : Readable(scope, path) \subseteq documents
    <3>1. Requests \in SUBSET Paths
      BY DEF Requests, BoundedSeq, SeqOf, Paths
    <3> QED BY <2>1, <2>2, <3>1, ReadIsDocument
  <2>5. Discovered(scope) = {file \in documents : scope.recursive \/ Len(file) = 1}
    <3>1. ASSUME NEW file, IsDocument(scope, file) PROVE Len(file) \in Nat \ {0}
      BY <2>1, <3>1 DEF IsDocument, IsTree
    <3>2. \A file : file \in Discovered(scope)
                       <=> file \in documents /\ (scope.recursive \/ ~ (Len(file) > 1))
      BY <2>1, <2>2, DocumentsAreIndexed
    <3>3. ASSUME NEW file \in documents PROVE ~ (Len(file) > 1) <=> Len(file) = 1
      <4> DEFINE len == Len(file)
      <4>1. len \in Nat \ {0}
        BY <2>2, <3>1
      <4> HIDE DEF len
      <4>2. ~ (len > 1) <=> len = 1
        BY <4>1
      <4> QED BY <4>2 DEF len
    <3> QED BY <3>2, <3>3
  <2> QED BY <2>3, <2>4, <2>5 DEF IndexedFilesAreReadable, documents
<1> QED BY <1>1, ScopeIsOne, PTL
=============================================================================
