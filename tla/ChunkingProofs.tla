--------------------------- MODULE ChunkingProofs ---------------------------
(***************************************************************************)
(* Safety of Chunking for files of any lines and any chunk profile.        *)
(*                                                                         *)
(* IInv is inductive.  TextSound: what is known of the text and its        *)
(* sections while it is parsed.  SplitSound: the loops of _split_section   *)
(* and _split_plain_lines stay within their section and their plain text.  *)
(* PiecesSound: where the last piece ends, and how long the current one    *)
(* is.  Coverage is inductive given IInv: every line with text that the    *)
(* loops have passed is in a chunk.                                        *)
(* PathSound and FencesSound are inductive given IInv, too: the stack of   *)
(* headings, and the markers of the two passes that follow fences.         *)
(***************************************************************************)
EXTENDS Chunking, Integers, TLAPS

-----------------------------------------------------------------------------
(* The inductive invariant                                                 *)

\* `end' is what it is said to be.
EndsAddUp ==
    \A i \in 1..Count :
        text[i].end = (IF i = 1 THEN 0 ELSE text[i - 1].end) + Line(i).chars

\* The lines that are in sections or dropped, while the file is parsed and after.
Parsed == IF pc = "parsing" THEN parse.first - 1 ELSE Count

SectionsInOrder ==
    /\ parse.first \in 1..(Count + 1)
    /\ \A s \in DOMAIN sections :
         /\ 1 <= sections[s].first /\ sections[s].first <= sections[s].last
         /\ sections[s].last <= Parsed
    /\ \A s, t \in DOMAIN sections : s < t => sections[s].last < sections[t].first

\* Lines with text are in sections.
Sectioned ==
    \A i \in 1..Parsed : Line(i).kind # "blank" =>
        \E s \in DOMAIN sections : i \in sections[s].first..sections[s].last

TextSound == EndsAddUp /\ SectionsInOrder /\ Sectioned

Splitting == {"splitting", "rows", "flushing", "cutting"}

SplitSound ==
    /\ pc = "parsing" => pieces = <<>>
    /\ pc \in Splitting =>
         /\ split.section \in DOMAIN sections
         /\ Current.first <= split.plain /\ split.plain <= split.index
         /\ split.index <= Current.last + 1
    /\ pc = "rows" => split.plain + 2 <= split.index
    /\ pc = "flushing" =>
         /\ split.plain <= cut.first /\ cut.first <= cut.next /\ cut.next <= split.index
         /\ \A k \in cut.first..(cut.next - 1) : Line(k).chars <= Hard
         /\ cut.first < cut.next => Span(cut.first, cut.next - 1) <= 2 * Hard + Overlap - 1
    /\ pc = "cutting" =>
         /\ split.plain <= cut.next /\ cut.next < split.index
         /\ cut.first = cut.next + 1 /\ cut.chars = 0
         /\ cut.from < Line(cut.next).chars

LastPiece == pieces[Len(pieces)]

\* Where the last piece ends.
Frontier ==
    pieces # <<>> =>
        /\ LastPiece.first <= LastPiece.last
        /\ pc = "splitting" => LastPiece.last < split.plain
        /\ pc = "rows" => LastPiece.last < split.index
        /\ pc = "flushing" =>
             /\ LastPiece.first <= cut.first /\ LastPiece.last < cut.next
             /\ cut.first < cut.next => LastPiece.last < cut.next - 1
        /\ pc = "cutting" =>
             IF cut.from = 0 THEN LastPiece.last < cut.next
             ELSE /\ LastPiece.kind = "segment"
                  /\ LastPiece.first = cut.next /\ LastPiece.last = cut.next
                  /\ LastPiece.from + CutStep = cut.from
                  /\ LastPiece.to = LastPiece.from + Hard
                  /\ LastPiece.to < Line(cut.next).chars

CutBegun == pc = "cutting" /\ cut.from > 0 => pieces # <<>>

PiecesSound == Frontier /\ CutBegun /\ PiecesAdvance /\ PiecesAreBounded

IInv == ChunkTypeOK /\ TextSound /\ SplitSound /\ PiecesSound

-----------------------------------------------------------------------------
(* Lengths of line ranges                                                  *)

LEMMA LineType ==
    ASSUME ChunkTypeOK, NEW i \in 1..Count
    PROVE  /\ Count \in Nat /\ text[i] \in TextRecords
           /\ Line(i) \in Lines /\ Line(i).chars \in Nat \ {0} /\ text[i].end \in Nat
<1>1. Count \in Nat /\ text[i] \in TextRecords
  BY DEF ChunkTypeOK, Count
<1>2. Line(i) \in Lines /\ text[i].end \in Nat
  BY <1>1 DEF TextRecords, Line
<1>3. Line(i) \in LineRecords /\ Line(i).chars > 0
  BY <1>2, LinesAssumption
<1>4. Line(i).chars \in Nat
  BY <1>3 DEF LineRecords
<1> QED BY <1>1, <1>2, <1>3, <1>4

LEMMA SpanOfOne ==
    ASSUME ChunkTypeOK, NEW i \in 1..Count
    PROVE  Span(i, i) = Line(i).chars
BY LineType DEF Span

LEMMA SpanAtEnd ==
    ASSUME ChunkTypeOK, EndsAddUp, NEW j \in 2..Count, NEW i \in 1..(j - 1)
    PROVE  Span(i, j) = Span(i, j - 1) + Line(j).chars
<1>1. text[j].end = text[j - 1].end + Line(j).chars
  BY DEF EndsAddUp
<1>2. Count \in Nat
  BY DEF ChunkTypeOK, Count
<1>3. i \in 1..Count /\ j \in 1..Count /\ j - 1 \in 1..Count
  BY <1>2
<1>4. text[i].end \in Nat /\ text[j].end \in Nat /\ text[j - 1].end \in Nat
      /\ Line(i).chars \in Nat /\ Line(j).chars \in Nat
  BY <1>3, LineType
<1> QED BY <1>1, <1>4 DEF Span

LEMMA SpanAtStart ==
    ASSUME ChunkTypeOK, EndsAddUp, NEW j \in 2..Count, NEW i \in 1..(j - 1)
    PROVE  Span(i, j) = Line(i).chars + Span(i + 1, j)
<1>2. Count \in Nat
  BY DEF ChunkTypeOK, Count
<1>1. text[i + 1].end = text[i].end + Line(i + 1).chars
  <2>1. i + 1 \in 1..Count /\ i + 1 # 1 /\ (i + 1) - 1 = i
    BY <1>2
  <2> QED BY <2>1 DEF EndsAddUp
<1>3. i \in 1..Count /\ j \in 1..Count /\ i + 1 \in 1..Count
  BY <1>2
<1>4. text[i].end \in Nat /\ text[j].end \in Nat /\ text[i + 1].end \in Nat
      /\ Line(i).chars \in Nat /\ Line(i + 1).chars \in Nat
  BY <1>3, LineType
<1> QED BY <1>1, <1>4 DEF Span

LEMMA Init_IInv == ChunkInit => IInv
<1> SUFFICES ASSUME ChunkInit PROVE IInv
  OBVIOUS
<1>1. ChunkTypeOK
  BY ProfileAssumption DEF ChunkInit, ChunkTypeOK, Count, TextRecords, SectionRecords, PieceRecords,
       NoFence, Fences
<1>2. TextSound
  BY DEF ChunkInit, TextSound, EndsAddUp, SectionsInOrder, Sectioned, Parsed, Count
<1>3. SplitSound
  BY DEF ChunkInit, SplitSound, Splitting
<1>4. PiecesSound
  BY DEF ChunkInit, PiecesSound, Frontier, CutBegun, PiecesAdvance, PiecesAreBounded
<1> QED BY <1>1, <1>2, <1>3, <1>4 DEF IInv

-----------------------------------------------------------------------------
(* _parse_sections                                                         *)

\* What flush makes of the sections: they stay in order, and all lines with text
\* read so far are in them.
LEMMA FlushSound ==
    ASSUME IInv, pc = "parsing"
    PROVE  /\ Flushed \in Seq(SectionRecords)
           /\ \A s \in DOMAIN Flushed :
                /\ 1 <= Flushed[s].first /\ Flushed[s].first <= Flushed[s].last
                /\ Flushed[s].last <= Count
           /\ \A s, t \in DOMAIN Flushed : s < t => Flushed[s].last < Flushed[t].first
           /\ \A i \in 1..Count : Line(i).kind # "blank" =>
                \E s \in DOMAIN Flushed : i \in Flushed[s].first..Flushed[s].last
<1> DEFINE new == [path |-> parse.stack, first |-> parse.first, last |-> Count]
           flushes == parse.first <= Count /\ HasText(parse.first, Count)
<1>1. /\ Count \in Nat /\ parse.first \in 1..(Count + 1)
      /\ parse.stack \in Seq(Nat) /\ parse.first \in Nat
      /\ sections \in Seq(SectionRecords) /\ Parsed = parse.first - 1
  BY DEF IInv, ChunkTypeOK, Count, TextSound, SectionsInOrder, Parsed
<1>2. /\ \A s \in DOMAIN sections :
           /\ 1 <= sections[s].first /\ sections[s].first <= sections[s].last
           /\ sections[s].last <= parse.first - 1
           /\ sections[s].first \in Nat /\ sections[s].last \in Nat
      /\ \A s, t \in DOMAIN sections : s < t => sections[s].last < sections[t].first
  <2>1. \A s \in DOMAIN sections : sections[s] \in SectionRecords
    BY <1>1
  <2> QED BY <1>1, <2>1 DEF IInv, TextSound, SectionsInOrder, SectionRecords
<1>3. \A i \in 1..(parse.first - 1) : Line(i).kind # "blank" =>
         \E s \in DOMAIN sections : i \in sections[s].first..sections[s].last
  BY <1>1 DEF IInv, TextSound, Sectioned
<1>4. CASE flushes
  <2>1. Flushed = Append(sections, new) /\ new \in SectionRecords
    BY <1>1, <1>4 DEF Flushed, SectionRecords
  <2>2. /\ Flushed \in Seq(SectionRecords)
        /\ DOMAIN sections = 1..Len(sections) /\ Len(sections) \in Nat
        /\ DOMAIN Flushed = 1..(Len(sections) + 1)
        /\ \A s \in DOMAIN sections : Flushed[s] = sections[s]
        /\ Flushed[Len(sections) + 1] = new
    BY <1>1, <2>1
  <2>3. new.first = parse.first /\ new.last = Count
    OBVIOUS
  <2>4. \A s \in DOMAIN Flushed :
          /\ 1 <= Flushed[s].first /\ Flushed[s].first <= Flushed[s].last
          /\ Flushed[s].last <= Count
    <3> TAKE s \in DOMAIN Flushed
    <3>1. CASE s \in DOMAIN sections
      BY <3>1, <2>2, <1>1, <1>2
    <3>2. CASE s = Len(sections) + 1
      BY <3>2, <2>2, <2>3, <1>1, <1>4
    <3> QED BY <3>1, <3>2, <2>2
  <2>5. \A s, t \in DOMAIN Flushed : s < t => Flushed[s].last < Flushed[t].first
    <3> TAKE s, t \in DOMAIN Flushed
    <3> HAVE s < t
    <3>1. s \in DOMAIN sections
      BY <2>2
    <3>2. CASE t \in DOMAIN sections
      BY <3>1, <3>2, <2>2, <1>2
    <3>3. CASE t = Len(sections) + 1
      BY <3>1, <3>3, <2>2, <2>3, <1>1, <1>2
    <3> QED BY <3>2, <3>3, <2>2
  <2>6. ASSUME NEW i \in 1..Count, Line(i).kind # "blank"
        PROVE  \E s \in DOMAIN Flushed : i \in Flushed[s].first..Flushed[s].last
    <3>1. CASE i < parse.first
      <4>1. i \in 1..(parse.first - 1)
        BY <3>1, <1>1
      <4>2. PICK s \in DOMAIN sections : i \in sections[s].first..sections[s].last
        BY <4>1, <2>6, <1>3
      <4> QED BY <4>2, <2>2
    <3>2. CASE i >= parse.first
      <4>1. i \in new.first..new.last
        BY <3>2, <2>3, <1>1
      <4> QED BY <4>1, <2>2
    <3> QED BY <3>1, <3>2, <1>1
  <2> QED BY <2>2, <2>4, <2>5, <2>6
<1>5. CASE ~ flushes
  <2>1. Flushed = sections
    BY <1>5 DEF Flushed
  <2>2. \A i \in 1..Count : Line(i).kind # "blank" => i \in 1..(parse.first - 1)
    <3> SUFFICES ASSUME NEW i \in 1..Count, Line(i).kind # "blank", i >= parse.first
                 PROVE  FALSE
      BY <1>1
    <3>1. i \in parse.first..Count /\ parse.first <= Count
      BY <1>1
    <3> QED BY <3>1, <1>5 DEF HasText
  <2> QED BY <2>1, <2>2, <1>1, <1>2, <1>3
<1> QED BY <1>4, <1>5

LEMMA ParseLine_IInv ==
    ASSUME IInv, NEW line \in Lines, ParseLine(line)
    PROVE  IInv'
<1> DEFINE marker == Toggled(parse.fence, line.kind)
           heads  == marker = NoFence /\ line.kind = "heading"
           entry  == [line |-> line, end |-> Total + line.chars,
                      fence |-> marker, heads |-> heads]
<1>1. /\ pc = "parsing" /\ Count < MaxLines /\ text' = Append(text, entry)
      /\ UNCHANGED <<pc, split, cut, pieces>>
  BY DEF ParseLine
<1>2. /\ Count \in Nat /\ text \in Seq(TextRecords) /\ pieces = <<>>
      /\ parse \in [stack : Seq(Nat), first : Nat, fence : Fences \cup {NoFence}]
      /\ parse.first \in 1..(Count + 1)
  BY <1>1 DEF IInv, ChunkTypeOK, Count, SplitSound, TextSound, SectionsInOrder
<1>3. line.chars \in Nat \ {0} /\ Total \in Nat
  <2>1. line \in LineRecords /\ line.chars > 0
    BY LinesAssumption
  <2>2. Total \in Nat
    BY <1>2, LineType DEF Total, IInv
  <2> QED BY <2>1, <2>2 DEF LineRecords
<1>4. entry \in TextRecords
  <2>1. marker \in Fences \cup {NoFence}
    BY <1>2 DEF Toggled
  <2> HIDE DEF marker
  <2> QED BY <2>1, <1>3 DEF TextRecords
<1> HIDE DEF entry, marker
<1>5. /\ text' \in Seq(TextRecords) /\ Count' = Count + 1 /\ Count' \in Nat
      /\ \A i \in 1..Count : text'[i] = text[i]
      /\ text'[Count'] = entry
  BY <1>1, <1>2, <1>4 DEF Count
<1>6. /\ \A i \in 1..Count : Line(i)' = Line(i) /\ text'[i].end = text[i].end
      /\ text'[Count + 1].line = line /\ text'[Count + 1].end = Total + line.chars
  BY <1>5 DEF Line, entry
<1>7. /\ parse' \in [stack : Seq(Nat), first : Nat, fence : Fences \cup {NoFence}]
      /\ \/ sections' = Flushed /\ parse'.first = Count + 1
         \/ sections' = sections /\ parse'.first = parse.first
  <2>1. marker \in Fences \cup {NoFence}
    BY <1>2 DEF Toggled, marker
  <2>2. CASE heads
    <3>1. /\ sections' = Flushed
          /\ parse' = [stack |-> Headed(parse.stack, Count + 1, line),
                       first |-> Count + 1, fence |-> marker]
      BY <2>2 DEF ParseLine, marker
    <3>2. Headed(parse.stack, Count + 1, line) \in Seq(Nat)
      <4>1. line \in LineRecords /\ line.level \in Nat
        BY LinesAssumption DEF LineRecords
      <4>2. /\ parse.stack \in Seq(Nat) /\ Len(parse.stack) \in Nat
            /\ \A k \in 1..Len(parse.stack) : parse.stack[k] \in Nat
        BY <1>2
      <4>3. Headed(parse.stack, Count + 1, line) \in [1..line.level -> Nat]
        BY <4>1, <4>2, <1>2 DEF Headed
      <4> QED BY <4>1, <4>3
    <3> QED BY <3>1, <3>2, <2>1, <1>2
  <2>3. CASE ~ heads
    <3>1. parse' = [parse EXCEPT !.fence = marker] /\ sections' = sections
      BY <2>3 DEF ParseLine, marker
    <3> QED BY <3>1, <2>1, <1>2
  <2> QED BY <2>2, <2>3
<1>8. ChunkTypeOK'
  <2>1. sections' \in Seq(SectionRecords)
    BY <1>1, <1>7, FlushSound DEF IInv, ChunkTypeOK
  <2>2. Count' <= MaxLines
    BY <1>1, <1>2, <1>5, ProfileAssumption
  <2> QED BY <1>1, <1>5, <1>7, <2>1, <2>2 DEF IInv, ChunkTypeOK
<1>9. EndsAddUp'
  <2> SUFFICES ASSUME NEW i \in 1..Count'
               PROVE  text'[i].end = (IF i = 1 THEN 0 ELSE text'[i - 1].end) + Line(i)'.chars
    BY DEF EndsAddUp
  <2>1. CASE i \in 1..Count
    <3>1. i = 1 \/ i - 1 \in 1..Count
      BY <2>1, <1>2
    <3> QED BY <2>1, <3>1, <1>6 DEF IInv, TextSound, EndsAddUp
  <2>2. CASE i = Count'
    <3>1. i = 1 <=> Count = 0
      BY <2>2, <1>5, <1>2
    <3>2. Count # 0 => i - 1 = Count /\ i - 1 \in 1..Count
      BY <2>2, <1>5, <1>2
    <3>3. Line(i)' = line /\ text'[i].end = Total + line.chars
      BY <2>2, <1>5, <1>6 DEF Line
    <3>4. Count # 0 => text'[i - 1].end = text[Count].end
      BY <3>2, <1>6
    <3> QED BY <3>1, <3>3, <3>4, <1>2, <1>3 DEF Total
  <2> QED BY <2>1, <2>2, <1>5, <1>2
<1>10. SectionsInOrder'
  <2>1. CASE sections' = Flushed /\ parse'.first = Count + 1
    <3>1. Parsed' = Count
      BY <2>1, <1>1, <1>2 DEF Parsed
    <3> QED BY <2>1, <3>1, <1>1, <1>2, <1>5, FlushSound DEF SectionsInOrder
  <2>2. CASE sections' = sections /\ parse'.first = parse.first
    <3>1. Parsed' = Parsed
      BY <2>2, <1>1 DEF Parsed
    <3> QED BY <2>2, <3>1, <1>2, <1>5 DEF SectionsInOrder, IInv, TextSound
  <2> QED BY <1>7, <2>1, <2>2
<1>11. Sectioned'
  <2>1. CASE sections' = Flushed /\ parse'.first = Count + 1
    <3>1. Parsed' = Count
      BY <2>1, <1>1, <1>2 DEF Parsed
    <3> QED BY <2>1, <3>1, <1>1, <1>6, FlushSound DEF Sectioned
  <2>2. CASE sections' = sections /\ parse'.first = parse.first
    <3>1. Parsed' = Parsed /\ 1..Parsed \subseteq 1..Count
      BY <2>2, <1>1, <1>2 DEF Parsed
    <3> QED BY <2>2, <3>1, <1>6 DEF Sectioned, IInv, TextSound
  <2> QED BY <1>7, <2>1, <2>2
<1>12. SplitSound'
  BY <1>1, <1>2 DEF SplitSound, Splitting
<1>13. PiecesSound'
  <2>1. pieces' = <<>> /\ pc' = "parsing"
    BY <1>1, <1>2
  <2> QED BY <2>1 DEF PiecesSound, Frontier, CutBegun, PiecesAdvance, PiecesAreBounded
<1> QED BY <1>8, <1>9, <1>10, <1>11, <1>12, <1>13 DEF IInv, TextSound

-----------------------------------------------------------------------------
(* Facts about the steps after the parse                                   *)

LEMMA TextStays ==
    ASSUME IInv, UNCHANGED <<text, parse, sections>>, pc # "parsing", pc' # "parsing"
    PROVE  TextSound'
BY DEF IInv, TextSound, EndsAddUp, SectionsInOrder, Sectioned, Parsed, Count, Line

LEMMA AtSectionSound ==
    ASSUME split \in [section : Nat, index : Nat, plain : Nat, fence : Fences \cup {NoFence}],
           sections' \in Seq(SectionRecords),
           \A s \in DOMAIN sections' : sections'[s].first <= sections'[s].last,
           NEW k \in Nat \ {0}, AtSection(k)
    PROVE  /\ SplitSound'
           /\ split' \in [section : Nat, index : Nat, plain : Nat, fence : Fences \cup {NoFence}]
           /\ \/ pc' = "done"
              \/ pc' = "splitting" /\ k \in DOMAIN sections' /\ split'.plain = sections'[k].first
<1>1. CASE k <= Len(sections')
  <2>1. k \in DOMAIN sections' /\ sections'[k] \in SectionRecords
    BY <1>1
  <2>2. sections'[k].first \in Nat /\ sections'[k].last \in Nat
    BY <2>1 DEF SectionRecords
  <2>3. /\ pc' = "splitting"
        /\ split' = [section |-> k, index |-> sections'[k].first,
                     plain |-> sections'[k].first, fence |-> NoFence]
    BY <1>1 DEF AtSection
  <2>4. Current' = sections'[k]
    BY <2>3 DEF Current
  <2> QED BY <2>1, <2>2, <2>3, <2>4 DEF SplitSound, Splitting
<1>2. CASE ~ (k <= Len(sections'))
  <2>1. pc' = "done" /\ split' = split
    BY <1>2 DEF AtSection
  <2> QED BY <2>1 DEF SplitSound, Splitting
<1> QED BY <1>1, <1>2

\* What a piece adds to the one before it, and how long it is.
Advances(p, q) ==
    \/ p.last < q.last /\ p.first <= q.first
    \/ /\ p.kind = "segment" /\ q.kind = "segment" /\ p.first = q.first
       /\ p.from < q.from /\ q.from <= p.to /\ p.to < q.to

Within(p) ==
    /\ p.kind = "text" => Span(p.first, p.last) <= 2 * Hard + Overlap - 1
    /\ p.kind = "segment" => p.to - p.from <= Hard

LEMMA PiecesStay ==
    ASSUME IInv, UNCHANGED <<text, pieces>>
    PROVE  PiecesAdvance' /\ PiecesAreBounded'
<1>1. PiecesAdvance /\ PiecesAreBounded
  BY DEF IInv, PiecesSound
<1> QED BY <1>1 DEF PiecesAdvance, PiecesAreBounded, Span, Line

LEMMA PieceAppended ==
    ASSUME IInv, text' = text, NEW p \in PieceRecords, pieces' = Append(pieces, p),
           Within(p), pieces # <<>> => Advances(LastPiece, p)
    PROVE  /\ pieces' \in Seq(PieceRecords) /\ pieces' # <<>> /\ LastPiece' = p
           /\ PiecesAdvance' /\ PiecesAreBounded'
<1>1. /\ pieces \in Seq(PieceRecords) /\ Len(pieces) \in Nat /\ DOMAIN pieces = 1..Len(pieces)
      /\ pieces' \in Seq(PieceRecords) /\ Len(pieces') = Len(pieces) + 1
      /\ DOMAIN pieces' = 1..(Len(pieces) + 1)
      /\ \A k \in DOMAIN pieces : pieces'[k] = pieces[k]
      /\ pieces'[Len(pieces) + 1] = p
      /\ pieces = <<>> <=> Len(pieces) = 0
  <2>1. pieces \in Seq(PieceRecords)
    BY DEF IInv, ChunkTypeOK
  <2>2. pieces' \in Seq(PieceRecords) /\ Len(pieces') = Len(pieces) + 1
    BY <2>1
  <2>3. /\ Len(pieces) \in Nat /\ DOMAIN pieces = 1..Len(pieces)
        /\ DOMAIN pieces' = 1..(Len(pieces) + 1)
    BY <2>1, <2>2
  <2>4. pieces = <<>> <=> Len(pieces) = 0
    BY <2>1
  <2>5. \A k \in DOMAIN pieces : pieces'[k] = pieces[k]
    BY <2>1, <2>3
  <2>6. pieces'[Len(pieces) + 1] = p
    BY <2>1
  <2> QED BY <2>1, <2>2, <2>3, <2>4, <2>5, <2>6
<1>2. LastPiece' = p /\ pieces' # <<>>
  BY <1>1 DEF LastPiece
<1>3. PiecesAreBounded'
  <2>1. \A k \in DOMAIN pieces : Within(pieces[k])
    BY DEF IInv, PiecesSound, PiecesAreBounded, Within
  <2>2. \A k \in DOMAIN pieces' : Within(pieces'[k])
    BY <2>1, <1>1
  <2> QED BY <2>2 DEF PiecesAreBounded, Within, Span, Line
<1>4. PiecesAdvance'
  <2>1. \A k \in DOMAIN pieces : k > 1 => Advances(pieces[k - 1], pieces[k])
    BY DEF IInv, PiecesSound, PiecesAdvance, Advances
  <2>2. ASSUME NEW k \in DOMAIN pieces', k > 1
        PROVE  Advances(pieces'[k - 1], pieces'[k])
    <3>1. CASE k \in DOMAIN pieces
      <4>1. k - 1 \in DOMAIN pieces
        BY <2>2, <3>1, <1>1
      <4> QED BY <2>1, <2>2, <3>1, <4>1, <1>1
    <3>2. CASE k = Len(pieces) + 1
      <4>1. k - 1 = Len(pieces) /\ k - 1 \in DOMAIN pieces /\ pieces # <<>>
        BY <2>2, <3>2, <1>1
      <4>2. pieces'[k - 1] = LastPiece
        BY <4>1, <1>1 DEF LastPiece
      <4>3. pieces'[k] = p
        BY <3>2, <1>1
      <4> QED BY <4>1, <4>2, <4>3
    <3>3. k \in DOMAIN pieces \/ k = Len(pieces) + 1
      BY <1>1
    <3> QED BY <3>1, <3>2, <3>3
  <2> QED BY <2>2 DEF PiecesAdvance, Advances
<1> QED BY <1>1, <1>2, <1>3, <1>4

-----------------------------------------------------------------------------
(* Sections begin and end                                                  *)

LEMMA ParseEnds_IInv ==
    ASSUME IInv, ParseEnds
    PROVE  IInv'
<1>1. /\ pc = "parsing" /\ sections' = Flushed /\ AtSection(1)
      /\ UNCHANGED <<text, parse, cut, pieces>> /\ pieces = <<>>
  BY DEF ParseEnds, IInv, SplitSound
<1>2. /\ Flushed \in Seq(SectionRecords)
      /\ \A s \in DOMAIN Flushed :
           /\ 1 <= Flushed[s].first /\ Flushed[s].first <= Flushed[s].last
           /\ Flushed[s].last <= Count
      /\ \A s, t \in DOMAIN Flushed : s < t => Flushed[s].last < Flushed[t].first
      /\ \A i \in 1..Count : Line(i).kind # "blank" =>
           \E s \in DOMAIN Flushed : i \in Flushed[s].first..Flushed[s].last
  BY <1>1, FlushSound
<1>3. /\ SplitSound' /\ pc' \in {"splitting", "done"}
      /\ split' \in [section : Nat, index : Nat, plain : Nat, fence : Fences \cup {NoFence}]
  BY <1>1, <1>2, AtSectionSound DEF IInv, ChunkTypeOK
<1>4. Parsed' = Count
  BY <1>1, <1>3 DEF Parsed, Count
<1>5. ChunkTypeOK'
  BY <1>1, <1>2, <1>3 DEF IInv, ChunkTypeOK, Count
<1>6. TextSound'
  BY <1>1, <1>2, <1>4 DEF IInv, TextSound, EndsAddUp, SectionsInOrder, Sectioned, Count, Line
<1>7. PiecesSound'
  <2>1. PiecesAdvance' /\ PiecesAreBounded'
    BY <1>1, PiecesStay
  <2> QED BY <1>1, <1>3, <2>1 DEF PiecesSound, Frontier, CutBegun
<1> QED BY <1>3, <1>5, <1>6, <1>7 DEF IInv

\* What is known while sections are split.
LEMMA InSplitting ==
    ASSUME IInv, pc \in Splitting
    PROVE  /\ split.section \in DOMAIN sections /\ split.section \in Nat \ {0}
           /\ Current \in SectionRecords
           /\ Current.first \in 1..Count /\ Current.last \in 1..Count
           /\ split.plain \in 1..(Count + 1) /\ split.index \in 1..(Count + 1)
           /\ Current.first <= split.plain /\ split.plain <= split.index
           /\ split.index <= Current.last + 1 /\ Count \in Nat
           /\ split.fence \in Fences \cup {NoFence}
<1>1. /\ split.section \in DOMAIN sections
      /\ Current.first <= split.plain /\ split.plain <= split.index
      /\ split.index <= Current.last + 1
      /\ sections \in Seq(SectionRecords) /\ Count \in Nat
      /\ split \in [section : Nat, index : Nat, plain : Nat, fence : Fences \cup {NoFence}]
  BY DEF IInv, SplitSound, ChunkTypeOK, Count
<1>2. Current \in SectionRecords /\ split.section \in Nat \ {0}
  BY <1>1 DEF Current
<1>3. Current.first \in Nat /\ Current.last \in Nat
  BY <1>2 DEF SectionRecords
<1>4. /\ 1 <= Current.first /\ Current.first <= Current.last /\ Current.last <= Count
  BY <1>1 DEF IInv, TextSound, SectionsInOrder, Current, Parsed, Splitting
<1> QED BY <1>1, <1>2, <1>3, <1>4

LEMMA SectionEnds_IInv ==
    ASSUME IInv, SectionEnds
    PROVE  IInv'
<1> DEFINE k == split.section + 1
<1>1. /\ pc = "splitting" /\ split.index > Current.last /\ split.plain = split.index
      /\ UNCHANGED <<text, parse, sections, cut, pieces>> /\ AtSection(k)
  BY DEF SectionEnds
<1>2. pc \in Splitting
  BY <1>1 DEF Splitting
<1>3. /\ split.section \in DOMAIN sections /\ split.section \in Nat /\ k \in Nat \ {0}
      /\ Current.last \in Nat /\ split.plain = Current.last + 1 /\ split.plain \in Nat
  BY <1>1, <1>2, InSplitting
<1>4. /\ sections \in Seq(SectionRecords)
      /\ \A s \in DOMAIN sections : sections[s].first <= sections[s].last
      /\ \A s, t \in DOMAIN sections : s < t => sections[s].last < sections[t].first
  BY DEF IInv, ChunkTypeOK, TextSound, SectionsInOrder
<1>5. /\ SplitSound'
      /\ split' \in [section : Nat, index : Nat, plain : Nat, fence : Fences \cup {NoFence}]
      /\ \/ pc' = "done"
         \/ pc' = "splitting" /\ k \in DOMAIN sections /\ split'.plain = sections[k].first
  <2> HIDE DEF k
  <2> QED BY <1>1, <1>3, <1>4, AtSectionSound DEF IInv, ChunkTypeOK
<1>6. ChunkTypeOK'
  BY <1>1, <1>5 DEF IInv, ChunkTypeOK, Count
<1>7. TextSound'
  BY <1>1, <1>5, TextStays
<1>8. Frontier'
  <2>1. CASE pc' = "done"
    BY <2>1, <1>1 DEF Frontier, LastPiece, IInv, PiecesSound
  <2>2. CASE pc' = "splitting" /\ k \in DOMAIN sections /\ split'.plain = sections[k].first
    <3>1. Current.last < sections[k].first
      BY <2>2, <1>3, <1>4 DEF Current
    <3>2. pieces # <<>> => LastPiece.last < split.plain /\ LastPiece \in PieceRecords
      BY <1>1 DEF Frontier, LastPiece, IInv, PiecesSound, ChunkTypeOK
    <3>3. sections[k].first \in Nat
      <4>1. sections[k] \in SectionRecords
        BY <2>2, <1>4
      <4> QED BY <4>1 DEF SectionRecords
    <3>4. pieces # <<>> => LastPiece.last < split'.plain
      BY <2>2, <3>1, <3>2, <3>3, <1>3 DEF PieceRecords
    <3> QED BY <2>2, <3>4, <1>1 DEF Frontier, LastPiece, IInv, PiecesSound
  <2> QED BY <2>1, <2>2, <1>5
<1>9. PiecesSound'
  BY <1>1, <1>5, <1>8, PiecesStay DEF PiecesSound, CutBegun
<1> QED BY <1>5, <1>6, <1>7, <1>9 DEF IInv

-----------------------------------------------------------------------------
(* _split_section                                                          *)

LEMMA LastPieceType ==
    ASSUME IInv, pieces # <<>>
    PROVE  LastPiece \in PieceRecords /\ LastPiece.first \in Nat /\ LastPiece.last \in Nat
           /\ LastPiece.first <= LastPiece.last
<1>1. LastPiece \in PieceRecords
  BY DEF IInv, ChunkTypeOK, LastPiece
<1> QED BY <1>1 DEF IInv, PiecesSound, Frontier, PieceRecords

\* A step that goes on to another line of the section, or to another fence.
LEMMA IndexMoves ==
    ASSUME IInv, pc = "splitting", UNCHANGED <<pc, text, parse, sections, cut, pieces>>,
           NEW j \in Nat, NEW f \in Fences \cup {NoFence},
           split' = [split EXCEPT !.index = j, !.fence = f],
           split.index <= j, j <= Current.last + 1
    PROVE  IInv'
<1>1. pc \in Splitting /\ pc' = "splitting"
  BY DEF Splitting
<1>2. split \in [section : Nat, index : Nat, plain : Nat, fence : Fences \cup {NoFence}]
  BY DEF IInv, ChunkTypeOK
<1>3. /\ split'.section = split.section /\ split'.plain = split.plain /\ split'.index = j
      /\ split' \in [section : Nat, index : Nat, plain : Nat, fence : Fences \cup {NoFence}]
  BY <1>2
<1>4. Current' = Current
  BY <1>3 DEF Current
<1>5. ChunkTypeOK'
  BY <1>1, <1>3 DEF IInv, ChunkTypeOK, Count
<1>6. TextSound'
  BY <1>1, TextStays
<1>7. SplitSound'
  BY <1>1, <1>3, <1>4, InSplitting DEF SplitSound
<1>8. PiecesSound'
  BY <1>1, <1>3, PiecesStay DEF PiecesSound, Frontier, CutBegun, LastPiece, IInv
<1> QED BY <1>5, <1>6, <1>7, <1>8 DEF IInv

LEMMA FenceLine_IInv ==
    ASSUME IInv, FenceLine
    PROVE  IInv'
<1> DEFINE f == Toggled(split.fence, Line(split.index).kind)
           j == split.index + 1
<1>1. /\ pc = "splitting" /\ split.index <= Current.last /\ pc \in Splitting
      /\ UNCHANGED <<pc, text, parse, sections, cut, pieces>>
      /\ split' = [split EXCEPT !.index = j, !.fence = f]
  BY DEF FenceLine, InSection, Splitting
<1>2. j \in Nat /\ split.index <= j /\ j <= Current.last + 1 /\ f \in Fences \cup {NoFence}
  BY <1>1, InSplitting DEF Toggled
<1> HIDE DEF f, j
<1> QED BY <1>1, <1>2, IndexMoves

LEMMA PlainIndex_IInv ==
    ASSUME IInv, PlainLine \/ TableWithoutRows
    PROVE  IInv'
<1>1. /\ pc = "splitting" /\ split.index <= Current.last /\ pc \in Splitting
      /\ UNCHANGED <<pc, text, parse, sections, cut, pieces>>
  BY DEF PlainLine, TableWithoutRows, InSection, Splitting
<1>2. split \in [section : Nat, index : Nat, plain : Nat, fence : Fences \cup {NoFence}]
  BY DEF IInv, ChunkTypeOK
<1>3. PICK j \in Nat : /\ split.index <= j /\ j <= Current.last + 1
                       /\ split' = [split EXCEPT !.index = j]
  <2>1. CASE PlainLine
    <3>1. split' = [split EXCEPT !.index = split.index + 1]
      BY <2>1, <1>2 DEF PlainLine
    <3>2. split.index + 1 \in Nat /\ split.index + 1 <= Current.last + 1
      BY <1>1, InSplitting
    <3> QED BY <3>1, <3>2, <1>1, InSplitting
  <2>2. CASE TableWithoutRows
    <3>1. split' = [split EXCEPT !.index = split.index + 2] /\ split.index + 1 <= Current.last
      BY <2>2, <1>2 DEF TableWithoutRows, TableAt
    <3>2. split.index + 2 \in Nat /\ split.index + 2 <= Current.last + 1
      BY <3>1, <1>1, InSplitting
    <3> QED BY <3>1, <3>2, <1>1, InSplitting
  <2> QED BY <2>1, <2>2
<1>4. split' = [split EXCEPT !.index = j, !.fence = split.fence]
  BY <1>2, <1>3
<1>5. split.fence \in Fences \cup {NoFence}
  BY <1>2
<1> QED BY <1>1, <1>3, <1>4, <1>5, IndexMoves

LEMMA TableBegins_IInv ==
    ASSUME IInv, TableBegins
    PROVE  IInv'
<1>1. /\ pc = "splitting" /\ pc \in Splitting /\ pc' = "rows" /\ split.plain = split.index
      /\ UNCHANGED <<text, parse, sections, cut, pieces>>
      /\ split' = [split EXCEPT !.index = split.index + 2]
      /\ split.index + 2 <= Current.last
  BY DEF TableBegins, InSection, Splitting, IsRow
<1>2. split \in [section : Nat, index : Nat, plain : Nat, fence : Fences \cup {NoFence}]
  BY DEF IInv, ChunkTypeOK
<1>3. /\ split'.section = split.section /\ split'.plain = split.plain
      /\ split'.index = split.index + 2 /\ split.index \in Nat
      /\ split' \in [section : Nat, index : Nat, plain : Nat, fence : Fences \cup {NoFence}]
  BY <1>1, <1>2
<1>4. Current' = Current
  BY <1>1, <1>3 DEF Current
<1>5. ChunkTypeOK'
  BY <1>1, <1>3 DEF IInv, ChunkTypeOK, Count
<1>6. TextSound'
  BY <1>1, TextStays
<1>7. SplitSound'
  BY <1>1, <1>3, <1>4, InSplitting DEF SplitSound
<1>8. Frontier'
  <2>1. pieces # <<>> => LastPiece.last < split.plain /\ LastPiece.first <= LastPiece.last
    BY <1>1 DEF IInv, PiecesSound, Frontier
  <2>2. pieces # <<>> => LastPiece.last < split'.index
    BY <2>1, <1>1, <1>3, LastPieceType
  <2> QED BY <1>1, <2>1, <2>2 DEF Frontier, LastPiece
<1>9. PiecesSound'
  BY <1>1, <1>8, PiecesStay DEF PiecesSound, CutBegun
<1> QED BY <1>5, <1>6, <1>7, <1>9 DEF IInv

LEMMA TableRow_IInv ==
    ASSUME IInv, TableRow
    PROVE  IInv'
<1> DEFINE p == [kind |-> "table_row", first |-> split.index, last |-> split.index,
                 header |-> split.plain, from |-> 0, to |-> 0]
<1>1. /\ pc = "rows" /\ pc' = "rows" /\ pc \in Splitting /\ split.index <= Current.last
      /\ UNCHANGED <<text, parse, sections, cut>>
      /\ split' = [split EXCEPT !.index = split.index + 1]
      /\ pieces' = Append(pieces, p)
  BY DEF TableRow, Splitting, IsRow, Piece
<1>2. split \in [section : Nat, index : Nat, plain : Nat, fence : Fences \cup {NoFence}]
  BY DEF IInv, ChunkTypeOK
<1>3. /\ split'.section = split.section /\ split'.plain = split.plain
      /\ split'.index = split.index + 1 /\ split.index \in Nat
      /\ split' \in [section : Nat, index : Nat, plain : Nat, fence : Fences \cup {NoFence}]
  <2>1. split.index \in Nat /\ split.index + 1 \in Nat
    BY <1>2
  <2>2. split' = [split EXCEPT !.index = split.index + 1]
    BY <1>1
  <2> QED BY <1>2, <2>1, <2>2
<1>4. Current' = Current
  BY <1>1, <1>3 DEF Current
<1>5. /\ p \in PieceRecords /\ p.kind = "table_row"
      /\ p.first = split.index /\ p.last = split.index
  BY <1>2 DEF PieceRecords
<1> HIDE DEF p
<1>6. pieces # <<>> => Advances(LastPiece, p)
  <2>1. pieces # <<>> => LastPiece.last < split.index /\ LastPiece.first <= LastPiece.last
    BY <1>1 DEF IInv, PiecesSound, Frontier
  <2> QED BY <2>1, <1>3, <1>5, LastPieceType DEF Advances
<1>7. /\ pieces' \in Seq(PieceRecords) /\ pieces' # <<>> /\ LastPiece' = p
      /\ PiecesAdvance' /\ PiecesAreBounded'
  <2>1. Within(p)
    BY <1>5 DEF Within
  <2> QED BY <2>1, <1>1, <1>5, <1>6, PieceAppended
<1>8. ChunkTypeOK'
  BY <1>1, <1>3, <1>7 DEF IInv, ChunkTypeOK, Count
<1>9. TextSound'
  BY <1>1, TextStays
<1>10. SplitSound'
  <2>1. split.plain + 2 <= split.index
    BY <1>1 DEF IInv, SplitSound
  <2> QED BY <2>1, <1>1, <1>3, <1>4, InSplitting DEF SplitSound
<1>11. PiecesSound'
  BY <1>1, <1>3, <1>5, <1>7 DEF PiecesSound, Frontier, CutBegun
<1> QED BY <1>8, <1>9, <1>10, <1>11 DEF IInv

LEMMA TableEnds_IInv ==
    ASSUME IInv, TableEnds
    PROVE  IInv'
<1>1. /\ pc = "rows" /\ pc \in Splitting /\ pc' = "splitting"
      /\ UNCHANGED <<text, parse, sections, cut, pieces>>
      /\ split' = [split EXCEPT !.plain = split.index]
  BY DEF TableEnds, Splitting
<1>2. split \in [section : Nat, index : Nat, plain : Nat, fence : Fences \cup {NoFence}]
  BY DEF IInv, ChunkTypeOK
<1>3. /\ split'.section = split.section /\ split'.plain = split.index
      /\ split'.index = split.index
      /\ split' \in [section : Nat, index : Nat, plain : Nat, fence : Fences \cup {NoFence}]
  BY <1>1, <1>2
<1>4. Current' = Current
  BY <1>1, <1>3 DEF Current
<1>5. ChunkTypeOK'
  BY <1>1, <1>3 DEF IInv, ChunkTypeOK, Count
<1>6. TextSound'
  BY <1>1, TextStays
<1>7. SplitSound'
  BY <1>1, <1>3, <1>4, InSplitting DEF SplitSound
<1>8. PiecesSound'
  BY <1>1, <1>3, PiecesStay DEF PiecesSound, Frontier, CutBegun, LastPiece, IInv
<1> QED BY <1>5, <1>6, <1>7, <1>8 DEF IInv

LEMMA FlushPlain_IInv ==
    ASSUME IInv, FlushPlain
    PROVE  IInv'
<1>1. /\ pc = "splitting" /\ pc \in Splitting /\ pc' = "flushing" /\ split.plain < split.index
      /\ UNCHANGED <<text, parse, sections, split, pieces>>
      /\ cut' = [next |-> split.plain, first |-> split.plain, chars |-> 0, from |-> 0]
  BY DEF FlushPlain, Splitting
<1>2. split.plain \in Nat /\ split.index \in Nat
  BY <1>1, InSplitting
<1>3. /\ cut' \in [next : Nat, first : Nat, chars : Nat, from : Nat]
      /\ cut'.next = split.plain /\ cut'.first = split.plain /\ cut'.chars = 0
  BY <1>1, <1>2
<1>4. Current' = Current
  BY <1>1 DEF Current
<1>5. ChunkTypeOK'
  BY <1>1, <1>2, <1>3 DEF IInv, ChunkTypeOK, Count
<1>6. TextSound'
  BY <1>1, TextStays
<1>7. SplitSound'
  BY <1>1, <1>2, <1>3, <1>4, InSplitting DEF SplitSound
<1>8. Frontier'
  <2>1. pieces # <<>> => LastPiece.last < split.plain /\ LastPiece.first <= LastPiece.last
    BY <1>1 DEF IInv, PiecesSound, Frontier
  <2>2. pieces # <<>> => LastPiece.first <= split.plain
    BY <2>1, <1>2, LastPieceType
  <2> QED BY <1>1, <1>2, <1>3, <2>1, <2>2 DEF Frontier, LastPiece
<1>9. PiecesSound'
  BY <1>1, <1>8, PiecesStay DEF PiecesSound, CutBegun
<1> QED BY <1>5, <1>6, <1>7, <1>9 DEF IInv

-----------------------------------------------------------------------------
(* _split_plain_lines                                                      *)

CutRecords == [next : Nat, first : Nat, chars : Nat, from : Nat]

LEMMA ProfileType ==
    /\ Hard \in Nat /\ Hard >= 1 /\ Overlap \in Nat
    /\ CutStep \in Nat /\ CutStep >= 1 /\ CutStep <= Hard
<1>1. Hard \in Nat /\ Hard >= 1 /\ Overlap \in Nat
  BY ProfileAssumption
<1> QED BY <1>1 DEF CutStep

\* What is known while plain text is split.
LEMMA InFlushing ==
    ASSUME IInv, pc = "flushing"
    PROVE  /\ cut \in CutRecords /\ cut.next \in Nat /\ cut.first \in Nat /\ cut.chars \in Nat
           /\ 1 <= cut.first /\ split.plain <= cut.first /\ cut.first <= cut.next
           /\ cut.next <= split.index /\ split.index \in Nat /\ split.index <= Count + 1
           /\ Count \in Nat /\ split.plain \in Nat /\ split.index <= Current.last + 1
           /\ \A k \in cut.first..(cut.next - 1) : Line(k).chars <= Hard
           /\ cut.first < cut.next => /\ cut.chars = Span(cut.first, cut.next - 1)
                                      /\ cut.chars <= 2 * Hard + Overlap - 1
           /\ cut.first = cut.next => cut.chars = 0
           /\ pieces # <<>> =>
                /\ LastPiece.first <= cut.first /\ LastPiece.last < cut.next
                /\ LastPiece.first <= LastPiece.last
                /\ cut.first < cut.next => LastPiece.last < cut.next - 1
<1>1. pc \in Splitting
  BY DEF Splitting
<1>2. /\ cut \in CutRecords
      /\ cut.chars = IF cut.first < cut.next THEN Span(cut.first, cut.next - 1) ELSE 0
  BY DEF IInv, ChunkTypeOK, CutRecords
<1>3. /\ split.plain <= cut.first /\ cut.first <= cut.next /\ cut.next <= split.index
      /\ \A k \in cut.first..(cut.next - 1) : Line(k).chars <= Hard
      /\ cut.first < cut.next => Span(cut.first, cut.next - 1) <= 2 * Hard + Overlap - 1
  BY DEF IInv, SplitSound
<1>4. cut.next \in Nat /\ cut.first \in Nat /\ cut.chars \in Nat
  BY <1>2 DEF CutRecords
<1>5. /\ split.plain \in Nat /\ split.plain >= 1 /\ split.index \in Nat
      /\ split.index <= Count + 1 /\ Count \in Nat /\ split.index <= Current.last + 1
  BY <1>1, InSplitting
<1>6. pieces # <<>> =>
         /\ LastPiece.first <= cut.first /\ LastPiece.last < cut.next
         /\ LastPiece.first <= LastPiece.last
         /\ cut.first < cut.next => LastPiece.last < cut.next - 1
  BY DEF IInv, PiecesSound, Frontier
<1>7. cut.first < cut.next => /\ cut.chars = Span(cut.first, cut.next - 1)
                              /\ cut.chars <= 2 * Hard + Overlap - 1
  BY <1>2, <1>3
<1>8. cut.first = cut.next => cut.chars = 0
  BY <1>2, <1>4
<1>9. 1 <= cut.first
  BY <1>3, <1>4, <1>5
<1> QED BY <1>2, <1>3, <1>4, <1>5, <1>6, <1>7, <1>8, <1>9

\* The collected lines as a piece.
LEMMA CollectedSound ==
    ASSUME IInv, pc = "flushing", cut.first < cut.next
    PROVE  /\ Collected \in PieceRecords /\ Within(Collected)
           /\ pieces # <<>> => Advances(LastPiece, Collected)
           /\ Collected.first = cut.first /\ Collected.last = cut.next - 1
<1>1. cut.first \in Nat /\ cut.next - 1 \in Nat
  BY InFlushing
<1>2. /\ Collected \in PieceRecords /\ Collected.kind = "text"
      /\ Collected.first = cut.first /\ Collected.last = cut.next - 1
  BY <1>1 DEF Collected, Piece, PieceRecords
<1>3. Within(Collected)
  BY <1>2, InFlushing DEF Within
<1>4. pieces # <<>> => Advances(LastPiece, Collected)
  BY <1>2, InFlushing DEF Advances
<1> QED BY <1>2, <1>3, <1>4

\* What is carried over, with the next line, is within the limit and counted right.
LEMMA CarriedSound ==
    ASSUME IInv, InPlain, Line(cut.next).chars <= Hard, cut.first < cut.next,
           NEW k \in cut.first..cut.next, OverlapFrom(k)
    PROVE  /\ Carried(k) + Line(cut.next).chars = Span(k, cut.next)
           /\ Carried(k) + Line(cut.next).chars \in Nat
           /\ Span(k, cut.next) <= 2 * Hard + Overlap - 1
<1> DEFINE n == cut.next
<1>1. /\ pc = "flushing" /\ n \in 1..Count /\ Count \in Nat /\ k \in 1..Count /\ k <= n
      /\ cut.first \in Nat /\ 1 <= cut.first
  BY InFlushing DEF InPlain
<1>2. /\ ChunkTypeOK /\ EndsAddUp
  BY DEF IInv, TextSound
<1>3. Line(n).chars \in Nat /\ Line(n).chars <= Hard /\ Line(k).chars \in Nat
  BY <1>1, <1>2, LineType
<1>4. CASE k = n
  <2>1. Carried(k) = 0 /\ Span(k, n) = Line(n).chars
    BY <1>1, <1>2, <1>4, SpanOfOne DEF Carried
  <2> QED BY <2>1, <1>3, ProfileType
<1>5. CASE k < n
  <2>1. Carried(k) = Span(k, n - 1)
    BY <1>1, <1>5 DEF Carried
  <2>2. n \in 2..Count /\ k \in 1..(n - 1)
    BY <1>1, <1>5
  <2>3. Span(k, n) = Span(k, n - 1) + Line(n).chars
    BY <1>2, <2>2, SpanAtEnd
  <2>4. Overlap # 0 /\ Overlap >= 1
    BY <1>1, <1>5, ProfileType DEF OverlapFrom
  <2>5. /\ k = cut.first \/ Span(k, n - 1) >= Overlap
        /\ \A j \in (k + 1)..(n - 1) : Span(j, n - 1) < Overlap
    BY <2>4 DEF OverlapFrom
  <2>6. Line(k).chars <= Hard
    BY <1>1, <1>5, InFlushing
  <2>7. Span(k, n - 1) \in Int
    <3>1. k \in 1..Count /\ n - 1 \in 1..Count
      BY <1>1, <2>2
    <3> QED BY <3>1, <1>2, LineType DEF Span
  <2>8. Span(k, n - 1) \in Nat
    <3>1. CASE k = cut.first
      BY <3>1, <1>1, <1>5, InFlushing
    <3>2. CASE Span(k, n - 1) >= Overlap
      BY <3>2, <2>7, ProfileType
    <3> QED BY <3>1, <3>2, <2>5
  <2>9. Span(k, n - 1) <= Hard + Overlap - 1
    <3>1. CASE k = n - 1
      <4>1. Span(k, n - 1) = Line(k).chars
        BY <3>1, <1>1, <1>2, SpanOfOne
      <4> QED BY <4>1, <2>4, <2>6, <1>3, ProfileType
    <3>2. CASE k < n - 1
      <4>1. n - 1 \in 2..Count /\ k \in 1..((n - 1) - 1)
        BY <3>2, <1>1
      <4>2. Span(k, n - 1) = Line(k).chars + Span(k + 1, n - 1)
        BY <4>1, <1>2, SpanAtStart
      <4>3. k + 1 \in (k + 1)..(n - 1) /\ k + 1 \in 1..Count /\ n - 1 \in 1..Count
        BY <4>1, <1>1
      <4>4. Span(k + 1, n - 1) < Overlap
        BY <4>3, <2>5
      <4>5. Span(k + 1, n - 1) \in Int
        BY <4>3, <1>2, LineType DEF Span
      <4> QED BY <4>2, <4>4, <4>5, <2>6, <1>3, ProfileType
    <3> QED BY <3>1, <3>2, <2>2, <1>1
  <2> QED BY <2>1, <2>3, <2>8, <2>9, <1>3, ProfileType
<1> QED BY <1>1, <1>4, <1>5

\* A step to the next line, with the lines from k on as the current ones.
LEMMA NextLine ==
    ASSUME IInv, InPlain, UNCHANGED <<pc, text, parse, sections, split>>,
           Line(cut.next).chars <= Hard,
           NEW k \in cut.first..cut.next, NEW c \in Nat,
           c = Span(k, cut.next), c <= 2 * Hard + Overlap - 1,
           cut' = [cut EXCEPT !.next = cut.next + 1, !.first = k, !.chars = c],
           pieces' \in Seq(PieceRecords)
    PROVE  /\ ChunkTypeOK' /\ TextSound' /\ SplitSound'
           /\ cut'.next = cut.next + 1 /\ cut'.first = k
<1>1. /\ pc = "flushing" /\ pc' = "flushing" /\ cut.next < split.index
  BY DEF InPlain
<1>2. /\ cut \in CutRecords /\ cut.next \in Nat /\ cut.first \in Nat
      /\ split.plain <= cut.first /\ cut.first <= cut.next /\ split.plain \in Nat
      /\ split.index \in Nat
      /\ \A i \in cut.first..(cut.next - 1) : Line(i).chars <= Hard
  BY <1>1, InFlushing
<1>3. /\ cut' \in CutRecords /\ cut'.next = cut.next + 1 /\ cut'.first = k /\ cut'.chars = c
      /\ k \in Nat /\ k <= cut.next /\ split.plain <= k
  <2>1. k \in Nat /\ k <= cut.next /\ split.plain <= k
    BY <1>2
  <2>2. cut.next + 1 \in Nat /\ c \in Nat
    BY <1>2
  <2>3. /\ cut' \in CutRecords
        /\ cut'.next = cut.next + 1 /\ cut'.first = k /\ cut'.chars = c
    <3> DEFINE n == cut.next + 1
    <3>1. n \in Nat /\ cut' = [cut EXCEPT !.next = n, !.first = k, !.chars = c]
      BY <2>2
    <3> HIDE DEF n
    <3>2. cut' \in CutRecords /\ cut'.next = n /\ cut'.first = k /\ cut'.chars = c
      BY <1>2, <2>1, <2>2, <3>1 DEF CutRecords
    <3> QED BY <3>2 DEF n
  <2> QED BY <2>1, <2>3
<1>4. /\ cut'.next - 1 = cut.next /\ cut'.first < cut'.next
      /\ Span(cut.first, cut.next - 1)' = Span(k, cut.next) /\ \A i : Line(i)' = Line(i)
  BY <1>2, <1>3 DEF Span, Line
<1>5. ChunkTypeOK'
  <2>1. cut'.chars = Span(cut.first, cut.next - 1)'
    BY <1>3, <1>4
  <2> QED BY <1>1, <1>3, <1>4, <2>1 DEF IInv, ChunkTypeOK, CutRecords, Count
<1>6. TextSound'
  BY <1>1, TextStays
<1>7. SplitSound'
  <2>1. \A i \in cut'.first..(cut'.next - 1) : Line(i)'.chars <= Hard
    <3> SUFFICES ASSUME NEW i \in cut'.first..(cut'.next - 1) PROVE Line(i).chars <= Hard
      BY <1>4
    <3>1. i = cut.next \/ i \in cut.first..(cut.next - 1)
      BY <1>2, <1>3
    <3> QED BY <3>1, <1>2
  <2>2. Span(cut.first, cut.next - 1)' <= 2 * Hard + Overlap - 1
    BY <1>4
  <2>3. /\ split'.plain <= cut'.first /\ cut'.first <= cut'.next /\ cut'.next <= split'.index
    BY <1>1, <1>2, <1>3
  <2>4. /\ split.section \in DOMAIN sections /\ Current.first <= split.plain
        /\ split.plain <= split.index /\ split.index <= Current.last + 1
    BY <1>1 DEF IInv, SplitSound, Splitting
  <2> QED BY <1>1, <2>1, <2>2, <2>3, <2>4 DEF SplitSound, Current
<1> QED BY <1>3, <1>5, <1>6, <1>7

LEMMA ShortLine_IInv ==
    ASSUME IInv, ShortLine
    PROVE  IInv'
<1> DEFINE n == cut.next
           length == Line(n).chars
<1>1. /\ InPlain /\ pc = "flushing" /\ pc' = "flushing" /\ length <= Hard
      /\ UNCHANGED <<pc, text, parse, sections, split>>
  BY DEF ShortLine, InPlain
<1>2. /\ cut \in CutRecords /\ n \in 1..Count /\ Count \in Nat
      /\ cut.first \in Nat /\ 1 <= cut.first /\ cut.first <= n /\ cut.chars \in Nat
  BY <1>1, InFlushing DEF InPlain
<1>3. ChunkTypeOK /\ EndsAddUp /\ length \in Nat
  BY <1>2, LineType DEF IInv, TextSound
<1>4. CASE ShouldFlush(length)
  <2>1. cut.first < n
    BY <1>4 DEF ShouldFlush
  <2>2. PICK k \in cut.first..n :
          /\ OverlapFrom(k)
          /\ cut' = [cut EXCEPT !.next = @ + 1, !.first = k, !.chars = Carried(k) + length]
    BY <1>4 DEF ShortLine
  <2>3. pieces' = Append(pieces, Collected)
    BY <1>4 DEF ShortLine
  <2>4. /\ Carried(k) + length = Span(k, n) /\ Carried(k) + length \in Nat
        /\ Span(k, n) <= 2 * Hard + Overlap - 1
    BY <1>1, <2>1, <2>2, CarriedSound
  <2>5. /\ Collected \in PieceRecords /\ Within(Collected)
        /\ pieces # <<>> => Advances(LastPiece, Collected)
        /\ Collected.first = cut.first /\ Collected.last = n - 1
    BY <1>1, <2>1, CollectedSound
  <2>6. /\ pieces' \in Seq(PieceRecords) /\ pieces' # <<>> /\ LastPiece' = Collected
        /\ PiecesAdvance' /\ PiecesAreBounded'
    BY <1>1, <2>3, <2>5, PieceAppended
  <2>7. cut' = [cut EXCEPT !.next = cut.next + 1, !.first = k, !.chars = Carried(k) + length]
    BY <2>2, <1>2 DEF CutRecords
  <2>8. /\ ChunkTypeOK' /\ TextSound' /\ SplitSound' /\ cut'.next = n + 1 /\ cut'.first = k
    BY <1>1, <2>4, <2>6, <2>7, NextLine
  <2>9. PiecesSound'
    BY <1>1, <1>2, <2>1, <2>5, <2>6, <2>8 DEF PiecesSound, Frontier, CutBegun
  <2> QED BY <2>8, <2>9 DEF IInv
<1>5. CASE ~ ShouldFlush(length)
  <2>1. /\ cut' = [cut EXCEPT !.next = @ + 1, !.chars = @ + length] /\ pieces' = pieces
    BY <1>5 DEF ShortLine
  <2>2. /\ cut.chars + length = Span(cut.first, n)
        /\ cut.chars + length <= 2 * Hard + Overlap - 1
    <3>1. CASE cut.first = n
      <4>1. cut.chars = 0 /\ Span(n, n) = length
        BY <3>1, <1>1, <1>2, <1>3, InFlushing, SpanOfOne
      <4> QED BY <3>1, <4>1, <1>1, <1>3, ProfileType
    <3>2. CASE cut.first < n
      <4>1. ~ (cut.chars + length > Hard)
        BY <3>2, <1>5 DEF ShouldFlush
      <4>2. cut.chars = Span(cut.first, n - 1)
        BY <3>2, <1>1, InFlushing
      <4>3. n \in 2..Count /\ cut.first \in 1..(n - 1)
        BY <3>2, <1>2
      <4>4. Span(cut.first, n) = Span(cut.first, n - 1) + length
        BY <4>3, <1>3, SpanAtEnd
      <4> QED BY <4>1, <4>2, <4>4, <1>2, <1>3, ProfileType
    <3> QED BY <3>1, <3>2, <1>2
  <2>3. cut' = [cut EXCEPT !.next = cut.next + 1, !.first = cut.first, !.chars = cut.chars + length]
    BY <2>1, <1>2 DEF CutRecords
  <2>4. cut.first \in cut.first..n /\ cut.chars + length \in Nat /\ pieces' \in Seq(PieceRecords)
    BY <2>1, <1>2, <1>3 DEF ChunkTypeOK
  <2>5. /\ ChunkTypeOK' /\ TextSound' /\ SplitSound'
        /\ cut'.next = n + 1 /\ cut'.first = cut.first
    BY <1>1, <2>2, <2>3, <2>4, NextLine
  <2>6. Frontier'
    <3>1. pieces # <<>> => /\ LastPiece.first <= cut.first /\ LastPiece.last < n
                           /\ LastPiece.first <= LastPiece.last /\ LastPiece.last \in Nat
      BY <1>1, InFlushing, LastPieceType
    <3> QED BY <3>1, <2>1, <2>5, <1>1, <1>2 DEF Frontier, LastPiece
  <2>7. PiecesSound'
    BY <2>1, <2>6, <1>1, PiecesStay DEF PiecesSound, CutBegun
  <2> QED BY <2>5, <2>7 DEF IInv
<1> QED BY <1>4, <1>5

LEMMA LongLine_IInv ==
    ASSUME IInv, LongLine
    PROVE  IInv'
<1> DEFINE n == cut.next
<1>1. /\ InPlain /\ pc = "flushing" /\ pc' = "cutting" /\ Line(n).chars > Hard
      /\ UNCHANGED <<text, parse, sections, split>> /\ n < split.index
      /\ cut' = [next |-> n, first |-> n + 1, chars |-> 0, from |-> 0]
  BY DEF LongLine, InPlain
<1>2. /\ n \in Nat /\ split.plain \in Nat /\ split.plain <= n /\ n \in 1..Count
      /\ cut.first \in Nat /\ cut.first <= n
  BY <1>1, InFlushing
<1>3. /\ cut' \in CutRecords /\ cut'.next = n /\ cut'.first = n + 1
      /\ cut'.chars = 0 /\ cut'.from = 0
  BY <1>1, <1>2 DEF CutRecords
<1>4. /\ pieces' \in Seq(PieceRecords) /\ PiecesAdvance' /\ PiecesAreBounded'
      /\ pieces' # <<>> => LastPiece'.first <= LastPiece'.last /\ LastPiece'.last < n
  <2>1. CASE cut.first < n
    <3>1. pieces' = Append(pieces, Collected)
      BY <2>1 DEF LongLine
    <3>2. /\ Collected \in PieceRecords /\ Within(Collected)
          /\ pieces # <<>> => Advances(LastPiece, Collected)
          /\ Collected.first = cut.first /\ Collected.last = n - 1
      BY <1>1, <2>1, CollectedSound
    <3>3. /\ pieces' \in Seq(PieceRecords) /\ LastPiece' = Collected
          /\ PiecesAdvance' /\ PiecesAreBounded'
      BY <1>1, <3>1, <3>2, PieceAppended
    <3> QED BY <3>2, <3>3, <2>1, <1>2
  <2>2. CASE ~ (cut.first < n)
    <3>1. pieces' = pieces
      BY <2>2 DEF LongLine
    <3> QED BY <3>1, <1>1, PiecesStay, InFlushing DEF IInv, ChunkTypeOK, LastPiece
  <2> QED BY <2>1, <2>2
<1>5. ChunkTypeOK'
  BY <1>1, <1>3, <1>4 DEF IInv, ChunkTypeOK, CutRecords, Count
<1>6. TextSound'
  BY <1>1, TextStays
<1>7. SplitSound'
  <2>1. /\ split.section \in DOMAIN sections /\ Current.first <= split.plain
        /\ split.plain <= split.index /\ split.index <= Current.last + 1
    BY <1>1 DEF IInv, SplitSound, Splitting
  <2>2. Line(n)'.chars > 0 /\ Line(n)' = Line(n)
    BY <1>1, <1>2, LineType DEF IInv, Line
  <2>3. cut'.from < Line(cut.next)'.chars
    <3>1. Line(cut.next)' = text[n].line
      BY <1>1, <1>3 DEF Line
    <3>2. text[n].line.chars \in Nat \ {0}
      BY <1>2, LineType DEF IInv, Line
    <3> QED BY <3>1, <3>2, <1>3
  <2> QED BY <1>1, <1>2, <1>3, <2>1, <2>3 DEF SplitSound, Current
<1>8. PiecesSound'
  BY <1>1, <1>3, <1>4 DEF PiecesSound, Frontier, CutBegun
<1> QED BY <1>5, <1>6, <1>7, <1>8 DEF IInv

\* What is known while a line is cut.
LEMMA InCutting ==
    ASSUME IInv, pc = "cutting"
    PROVE  /\ cut \in CutRecords /\ cut.next \in 1..Count /\ Count \in Nat
           /\ cut.first = cut.next + 1 /\ cut.chars = 0
           /\ split.plain \in Nat /\ split.plain <= cut.next
           /\ cut.next < split.index /\ split.index \in Nat
           /\ cut.from \in Nat /\ Line(cut.next).chars \in Nat
           /\ cut.from < Line(cut.next).chars
<1>1. pc \in Splitting
  BY DEF Splitting
<1>2. cut \in CutRecords
  BY DEF IInv, ChunkTypeOK, CutRecords
<1>3. /\ split.plain <= cut.next /\ cut.next < split.index
      /\ cut.first = cut.next + 1 /\ cut.chars = 0
      /\ cut.from < Line(cut.next).chars
  BY DEF IInv, SplitSound
<1>4. /\ split.plain \in 1..(Count + 1) /\ split.index \in 1..(Count + 1) /\ Count \in Nat
  BY <1>1, InSplitting
<1>5. cut.next \in Nat /\ cut.from \in Nat
  BY <1>2 DEF CutRecords
<1>6. cut.next \in 1..Count
  BY <1>3, <1>4, <1>5
<1>7. Line(cut.next).chars \in Nat
  BY <1>6, LineType DEF IInv
<1> QED BY <1>2, <1>3, <1>4, <1>5, <1>6, <1>7

LEMMA CutSegment_IInv ==
    ASSUME IInv, CutSegment
    PROVE  IInv'
<1> DEFINE n == cut.next
           length == Line(n).chars
           to == IF cut.from + Hard < length THEN cut.from + Hard ELSE length
           p == [kind |-> "segment", first |-> n, last |-> n, header |-> 0,
                 from |-> cut.from, to |-> to]
<1>1. /\ pc = "cutting" /\ pieces' = Append(pieces, p)
      /\ UNCHANGED <<text, parse, sections, split>>
  BY DEF CutSegment, Segment
<1>2. /\ cut \in CutRecords /\ n \in 1..Count /\ Count \in Nat /\ cut.first = n + 1
      /\ cut.chars = 0 /\ split.plain \in Nat /\ split.plain <= n
      /\ n < split.index /\ split.index \in Nat
      /\ cut.from \in Nat /\ length \in Nat /\ cut.from < length
  BY <1>1, InCutting
<1>3. /\ to \in Nat /\ to <= cut.from + Hard /\ cut.from < to /\ to <= length
      /\ to = cut.from + Hard \/ to = length
  BY <1>2, ProfileType
<1> HIDE DEF to
<1>4. /\ p \in PieceRecords /\ p.kind = "segment" /\ p.first = n /\ p.last = n
      /\ p.from = cut.from /\ p.to = to
  BY <1>2, <1>3 DEF PieceRecords
<1> HIDE DEF p
<1>5. Within(p)
  BY <1>2, <1>3, <1>4, ProfileType DEF Within
<1>6. pieces # <<>> => Advances(LastPiece, p)
  <2>1. CASE cut.from = 0
    <3>1. pieces # <<>> => LastPiece.last < n /\ LastPiece.first <= LastPiece.last
      BY <2>1, <1>1 DEF IInv, PiecesSound, Frontier
    <3> QED BY <3>1, <1>2, <1>4, LastPieceType DEF Advances
  <2>2. CASE cut.from # 0
    <3>1. pieces # <<>> => /\ LastPiece.kind = "segment"
                           /\ LastPiece.first = n /\ LastPiece.last = n
                           /\ LastPiece.from + CutStep = cut.from
                           /\ LastPiece.to = LastPiece.from + Hard
                           /\ LastPiece.to < length
      BY <2>2, <1>1 DEF IInv, PiecesSound, Frontier
    <3>2. pieces # <<>> => LastPiece.from \in Nat /\ LastPiece.to \in Nat
      BY LastPieceType DEF PieceRecords
    <3>3. ASSUME pieces # <<>> PROVE LastPiece.to < to
      <4>1. LastPiece.to < cut.from + Hard
        BY <3>1, <3>2, <3>3, ProfileType
      <4>2. LastPiece.to < length
        BY <3>1, <3>3
      <4>3. CASE to = cut.from + Hard
        BY <4>1, <4>3
      <4>4. CASE to = length
        BY <4>2, <4>4
      <4> QED BY <1>3, <4>3, <4>4
    <3> QED BY <3>1, <3>2, <3>3, <1>2, <1>4, ProfileType DEF Advances
  <2> QED BY <2>1, <2>2
<1>7. /\ pieces' \in Seq(PieceRecords) /\ pieces' # <<>> /\ LastPiece' = p
      /\ PiecesAdvance' /\ PiecesAreBounded'
  BY <1>1, <1>4, <1>5, <1>6, PieceAppended
<1>8. /\ split.section \in DOMAIN sections /\ Current.first <= split.plain
      /\ split.plain <= split.index /\ split.index <= Current.last + 1
  BY <1>1 DEF IInv, SplitSound, Splitting
<1>9. CASE cut.from + Hard >= length
  <2>1. pc' = "flushing" /\ cut' = [cut EXCEPT !.next = n + 1, !.from = 0]
    BY <1>9, <1>2, ProfileType DEF CutSegment, CutRecords
  <2>2. /\ cut' \in CutRecords /\ cut'.next = n + 1 /\ cut'.first = n + 1 /\ cut'.chars = 0
    <3>1. n + 1 \in Nat
      BY <1>2
    <3> QED BY <3>1, <2>1, <1>2 DEF CutRecords
  <2>3. ChunkTypeOK'
    <3>1. ~ (cut'.first < cut'.next)
      BY <2>2, <1>2
    <3> QED BY <1>1, <1>7, <2>1, <2>2, <3>1 DEF IInv, ChunkTypeOK, CutRecords, Count
  <2>4. TextSound'
    BY <1>1, <2>1, TextStays
  <2>5. SplitSound'
    BY <1>1, <1>2, <1>8, <2>1, <2>2 DEF SplitSound, Current
  <2>6. PiecesSound'
    BY <1>2, <1>4, <1>7, <2>1, <2>2 DEF PiecesSound, Frontier, CutBegun
  <2> QED BY <2>3, <2>4, <2>5, <2>6 DEF IInv
<1>10. CASE cut.from + Hard < length
  <2>1. pc' = "cutting" /\ cut' = [cut EXCEPT !.from = cut.from + CutStep]
    BY <1>10, <1>1, <1>2, ProfileType DEF CutSegment, CutRecords
  <2>2. /\ cut' \in CutRecords /\ cut'.next = n /\ cut'.first = n + 1 /\ cut'.chars = 0
        /\ cut'.from = cut.from + CutStep
    <3>1. cut.from + CutStep \in Nat
      BY <1>2, ProfileType
    <3> QED BY <3>1, <2>1, <1>2 DEF CutRecords
  <2>3. ChunkTypeOK'
    BY <1>1, <1>7, <2>1, <2>2 DEF IInv, ChunkTypeOK, CutRecords, Count
  <2>4. TextSound'
    BY <1>1, <2>1, TextStays
  <2>5. cut'.from # 0 /\ cut'.from < length /\ Line(cut.next)'.chars = length
    <3>1. Line(cut.next)'.chars = length
      BY <1>1, <2>2 DEF Line
    <3>2. cut.from + CutStep # 0 /\ cut.from + CutStep < length
      BY <1>2, <1>10, ProfileType
    <3> QED BY <2>2, <3>1, <3>2
  <2>6. SplitSound'
    BY <1>1, <1>2, <1>8, <2>1, <2>2, <2>5 DEF SplitSound, Current
  <2>7. to = cut.from + Hard
    BY <1>10 DEF to
  <2>8. PiecesSound'
    BY <1>2, <1>4, <1>7, <1>10, <2>1, <2>2, <2>5, <2>7 DEF PiecesSound, Frontier, CutBegun
  <2> QED BY <2>3, <2>4, <2>6, <2>8 DEF IInv
<1> QED BY <1>2, <1>9, <1>10, ProfileType

LEMMA PlainEnds_IInv ==
    ASSUME IInv, PlainEnds
    PROVE  IInv'
<1>1. /\ pc = "flushing" /\ pc \in Splitting /\ pc' = "splitting" /\ cut.next = split.index
      /\ UNCHANGED <<text, parse, sections, cut>>
      /\ split' = [split EXCEPT !.plain = split.index]
  BY DEF PlainEnds, Splitting
<1>2. split \in [section : Nat, index : Nat, plain : Nat, fence : Fences \cup {NoFence}]
  BY DEF IInv, ChunkTypeOK
<1>3. /\ split'.section = split.section /\ split'.plain = split.index
      /\ split'.index = split.index /\ split.index \in Nat
      /\ split' \in [section : Nat, index : Nat, plain : Nat, fence : Fences \cup {NoFence}]
  BY <1>1, <1>2
<1>4. Current' = Current
  BY <1>1, <1>3 DEF Current
<1>5. cut.first \in Nat /\ cut.first <= cut.next
  BY <1>1, InFlushing
<1>6. /\ pieces' \in Seq(PieceRecords) /\ PiecesAdvance' /\ PiecesAreBounded'
      /\ pieces' # <<>> => LastPiece'.first <= LastPiece'.last /\ LastPiece'.last < split.index
  <2>1. CASE pieces' = Append(pieces, Collected) /\ cut.first < cut.next
    <3>1. /\ Collected \in PieceRecords /\ Within(Collected)
          /\ pieces # <<>> => Advances(LastPiece, Collected)
          /\ Collected.first = cut.first /\ Collected.last = cut.next - 1
      BY <1>1, <2>1, CollectedSound
    <3>2. /\ pieces' \in Seq(PieceRecords) /\ LastPiece' = Collected
          /\ PiecesAdvance' /\ PiecesAreBounded'
      BY <1>1, <2>1, <3>1, PieceAppended
    <3> QED BY <3>1, <3>2, <2>1, <1>1, <1>3, <1>5
  <2>2. CASE pieces' = pieces
    BY <2>2, <1>1, PiecesStay, InFlushing DEF IInv, ChunkTypeOK, LastPiece
  <2> QED BY <2>1, <2>2 DEF PlainEnds
<1>7. ChunkTypeOK'
  BY <1>1, <1>3, <1>6 DEF IInv, ChunkTypeOK, Count
<1>8. TextSound'
  BY <1>1, TextStays
<1>9. SplitSound'
  BY <1>1, <1>3, <1>4, InSplitting DEF SplitSound
<1>10. PiecesSound'
  BY <1>1, <1>3, <1>6 DEF PiecesSound, Frontier, CutBegun
<1> QED BY <1>7, <1>8, <1>9, <1>10 DEF IInv

-----------------------------------------------------------------------------
(* All steps                                                               *)

LEMMA Next_IInv ==
    ASSUME IInv, [ChunkNext]_chunkVars
    PROVE  IInv'
<1>1. CASE \E line \in Lines : ParseLine(line)
  BY <1>1, ParseLine_IInv
<1>2. CASE ParseEnds
  BY <1>2, ParseEnds_IInv
<1>3. CASE FenceLine
  BY <1>3, FenceLine_IInv
<1>4. CASE TableBegins
  BY <1>4, TableBegins_IInv
<1>5. CASE TableRow
  BY <1>5, TableRow_IInv
<1>6. CASE TableEnds
  BY <1>6, TableEnds_IInv
<1>7. CASE TableWithoutRows \/ PlainLine
  BY <1>7, PlainIndex_IInv
<1>8. CASE FlushPlain
  BY <1>8, FlushPlain_IInv
<1>9. CASE SectionEnds
  BY <1>9, SectionEnds_IInv
<1>10. CASE ShortLine
  BY <1>10, ShortLine_IInv
<1>11. CASE LongLine
  BY <1>11, LongLine_IInv
<1>12. CASE CutSegment
  BY <1>12, CutSegment_IInv
<1>13. CASE PlainEnds
  BY <1>13, PlainEnds_IInv
<1>14. CASE UNCHANGED chunkVars
  <2> USE <1>14 DEF chunkVars
  <2>1. ChunkTypeOK'
    BY DEF IInv, ChunkTypeOK, Count, Span, Line
  <2>2. TextSound'
    BY DEF IInv, TextSound, EndsAddUp, SectionsInOrder, Sectioned, Parsed, Count, Line
  <2>3. SplitSound'
    BY DEF IInv, SplitSound, Current, Span, Line
  <2>4. Frontier' /\ CutBegun'
    BY DEF IInv, PiecesSound, Frontier, CutBegun, LastPiece, Line
  <2>5. PiecesAdvance' /\ PiecesAreBounded'
    BY PiecesStay
  <2> QED BY <2>1, <2>2, <2>3, <2>4, <2>5 DEF IInv, PiecesSound
<1> QED
  BY <1>1, <1>2, <1>3, <1>4, <1>5, <1>6, <1>7, <1>8, <1>9, <1>10, <1>11, <1>12, <1>13, <1>14
  DEF ChunkNext, Returned

THEOREM Invariance == ChunkSpec => []IInv
<1>1. ChunkInit => IInv
  BY Init_IInv
<1>2. IInv /\ [ChunkNext]_chunkVars => IInv'
  BY Next_IInv
<1> QED BY <1>1, <1>2, PTL DEF ChunkSpec

\* For every file and every chunk profile, the variables stay within their types and
\* current_chars of _split_plain_lines is the length of the collected lines.
THEOREM TypeCorrect == ChunkSpec => []ChunkTypeOK
<1>1. IInv => ChunkTypeOK
  BY DEF IInv
<1> QED BY <1>1, Invariance, PTL

\* For every file and every chunk profile, each piece goes beyond the one before it
\* and does not begin before it: the overlap never repeats a whole piece.
THEOREM PiecesGoOn == ChunkSpec => []PiecesAdvance
<1>1. IInv => PiecesAdvance
  BY DEF IInv, PiecesSound
<1> QED BY <1>1, Invariance, PTL

\* For every file and every chunk profile, pieces of text are at most one line and
\* the overlap longer than hard_chars, and segments of cut lines are within it.
THEOREM PiecesStayBounded == ChunkSpec => []PiecesAreBounded
<1>1. IInv => PiecesAreBounded
  BY DEF IInv, PiecesSound
<1> QED BY <1>1, Invariance, PTL

-----------------------------------------------------------------------------
(* Nothing is lost                                                         *)

InRange(i, ps) ==
    \E k \in DOMAIN ps :
        ps[k].kind # "segment" /\ i \in ps[k].first..ps[k].last /\ IsChunk(ps[k])

AsHeader(i, ps) ==
    \E k \in DOMAIN ps :
        ps[k].kind = "table_row" /\ i \in {ps[k].header, ps[k].header + 1}

Cut(i, x, ps) ==
    \E k \in DOMAIN ps : /\ ps[k].kind = "segment" /\ ps[k].first = i
                         /\ ps[k].from <= x /\ x < ps[k].to

InSegments(i, ps) == \A x \in 0..(Line(i).chars - 1) : Cut(i, x, ps)

\* What NothingIsLost promises of a line with text.
Covered(i, ps) == InRange(i, ps) \/ AsHeader(i, ps) \/ InSegments(i, ps)

HeaderKept == AsHeader(split.plain, pieces) /\ AsHeader(split.plain + 1, pieces)

CoveredUpTo(n) == \A i \in 1..Count : i < n /\ Line(i).kind # "blank" => Covered(i, pieces)

\* The lines that the loops have passed are covered.  A table keeps its header and
\* its separator with its first row; a line that is cut is covered up to `from'.
Coverage ==
    /\ pc = "splitting" => CoveredUpTo(split.plain)
    /\ pc = "rows" =>
         /\ CoveredUpTo(split.plain)
         /\ \A i \in (split.plain + 2)..(split.index - 1) : Covered(i, pieces)
         /\ HeaderKept \/ (split.index = split.plain + 2 /\ IsRow(split.index))
    /\ pc = "flushing" => CoveredUpTo(cut.first)
    /\ pc = "cutting" =>
         /\ CoveredUpTo(cut.next)
         /\ \A x \in 0..(cut.from - 1) : Cut(cut.next, x, pieces)
    /\ pc = "done" => CoveredUpTo(Count + 1)

\* Pieces are only added.
LEMMA CoveredStays ==
    ASSUME IInv, text' = text, NEW p \in PieceRecords, pieces' = Append(pieces, p), NEW i
    PROVE  /\ Covered(i, pieces) => Covered(i, pieces)'
           /\ AsHeader(i, pieces) => AsHeader(i, pieces)'
           /\ \A x : Cut(i, x, pieces) => Cut(i, x, pieces)'
           /\ p.kind # "segment" /\ i \in p.first..p.last /\ IsChunk(p) => Covered(i, pieces)'
           /\ p.kind = "table_row" /\ i \in {p.header, p.header + 1} => AsHeader(i, pieces)'
           /\ \A x : /\ p.kind = "segment" /\ p.first = i /\ p.from <= x /\ x < p.to
                     => Cut(i, x, pieces)'
<1>1. /\ \A k \in DOMAIN pieces : k \in DOMAIN pieces' /\ pieces'[k] = pieces[k]
      /\ Len(pieces) + 1 \in DOMAIN pieces' /\ pieces'[Len(pieces) + 1] = p
  BY DEF IInv, ChunkTypeOK
<1>2. \A q : IsChunk(q)' <=> IsChunk(q)
  BY DEF IsChunk, HasText, Line
<1>3. AsHeader(i, pieces) => AsHeader(i, pieces)'
  BY <1>1 DEF AsHeader
<1>4. \A x : Cut(i, x, pieces) => Cut(i, x, pieces)'
  BY <1>1 DEF Cut
<1>5. InRange(i, pieces) => InRange(i, pieces)'
  <2> SUFFICES ASSUME InRange(i, pieces) PROVE InRange(i, pieces)'
    OBVIOUS
  <2>1. PICK k \in DOMAIN pieces :
          pieces[k].kind # "segment" /\ i \in pieces[k].first..pieces[k].last /\ IsChunk(pieces[k])
    BY DEF InRange
  <2>2. k \in DOMAIN pieces' /\ pieces'[k] = pieces[k] /\ IsChunk(pieces[k])'
    BY <2>1, <1>1 DEF IsChunk, HasText, Line
  <2> QED BY <2>1, <2>2 DEF InRange, IsChunk, HasText, Line
<1>6. InSegments(i, pieces) => InSegments(i, pieces)'
  BY <1>4 DEF InSegments, Line
<1>7. p.kind # "segment" /\ i \in p.first..p.last /\ IsChunk(p) => InRange(i, pieces)'
  BY <1>1 DEF InRange, IsChunk, HasText, Line
<1>8. p.kind = "table_row" /\ i \in {p.header, p.header + 1} => AsHeader(i, pieces)'
  BY <1>1 DEF AsHeader
<1>9. \A x : p.kind = "segment" /\ p.first = i /\ p.from <= x /\ x < p.to => Cut(i, x, pieces)'
  BY <1>1 DEF Cut
<1>10. Covered(i, pieces) => Covered(i, pieces)'
  BY <1>3, <1>5, <1>6 DEF Covered
<1>11. InRange(i, pieces)' => Covered(i, pieces)'
  BY DEF Covered
<1> QED BY <1>3, <1>4, <1>7, <1>8, <1>9, <1>10, <1>11

LEMMA UpToStays ==
    ASSUME IInv, text' = text, NEW n, CoveredUpTo(n),
           pieces' = pieces \/ \E p \in PieceRecords : pieces' = Append(pieces, p)
    PROVE  CoveredUpTo(n)'
<1>1. CASE pieces' = pieces
  BY <1>1 DEF CoveredUpTo, Count, Line, Covered, InRange, AsHeader, InSegments, Cut,
       IsChunk, HasText
<1>2. CASE \E p \in PieceRecords : pieces' = Append(pieces, p)
  <2>1. \A i : Covered(i, pieces) => Covered(i, pieces)'
    BY <1>2, CoveredStays
  <2> QED BY <2>1 DEF CoveredUpTo, Count, Line
<1> QED BY <1>1, <1>2

\* Sections leave out only blank lines: when one ends, all lines before the next
\* one are covered.
LEMMA AtSection_Coverage ==
    ASSUME IInv, UNCHANGED <<text, pieces>>, NEW k \in Nat \ {0}, AtSection(k),
           sections' \in Seq(SectionRecords),
           \A s \in DOMAIN sections' : sections'[s].first <= sections'[s].last,
           \A s, t \in DOMAIN sections' : s < t => sections'[s].last < sections'[t].first,
           \A i \in 1..Count : Line(i).kind # "blank" =>
               \E s \in DOMAIN sections' : i \in sections'[s].first..sections'[s].last,
           NEW n \in Nat, CoveredUpTo(n),
           \A s \in DOMAIN sections' : s < k => sections'[s].last < n
    PROVE  Coverage'
<1>1. \A s \in DOMAIN sections' : sections'[s].first \in Nat /\ sections'[s].last \in Nat
  <2>1. \A s \in DOMAIN sections' : sections'[s] \in SectionRecords
    OBVIOUS
  <2> QED BY <2>1 DEF SectionRecords
<1>2. CoveredUpTo(n)'
  <2>1. text' = text /\ pieces' = pieces
    OBVIOUS
  <2> QED BY <2>1, UpToStays
<1>3. ASSUME NEW i \in 1..Count, Line(i).kind # "blank",
             \A s \in DOMAIN sections' : s >= k => i < sections'[s].first
      PROVE  i < n
  <2>1. PICK s \in DOMAIN sections' : i \in sections'[s].first..sections'[s].last
    BY <1>3
  <2>2. s < k
    BY <2>1, <1>1, <1>3
  <2> QED BY <2>1, <2>2, <1>1
<1>4. CASE k <= Len(sections')
  <2>1. k \in DOMAIN sections' /\ pc' = "splitting" /\ split'.plain = sections'[k].first
    BY <1>4 DEF AtSection
  <2>2. ASSUME NEW i \in 1..Count, i < sections'[k].first, Line(i).kind # "blank"
        PROVE  Covered(i, pieces)'
    <3>1. \A s \in DOMAIN sections' : s >= k => i < sections'[s].first
      <4> TAKE s \in DOMAIN sections'
      <4> HAVE s >= k
      <4>1. CASE s = k
        BY <4>1, <2>2
      <4>2. CASE s > k
        BY <4>2, <2>1, <2>2, <1>1
      <4> QED BY <4>1, <4>2
    <3>2. i < n
      BY <2>2, <3>1, <1>3
    <3> QED BY <3>2, <2>2, <1>2 DEF CoveredUpTo, Count, Line
  <2> QED BY <2>1, <2>2 DEF Coverage, CoveredUpTo, Count, Line
<1>5. CASE ~ (k <= Len(sections'))
  <2>1. pc' = "done" /\ \A s \in DOMAIN sections' : ~ (s >= k)
    BY <1>5 DEF AtSection
  <2>2. \A i \in 1..Count : Line(i).kind # "blank" => i < n
    BY <2>1, <1>3
  <2> QED BY <2>1, <2>2, <1>2 DEF Coverage, CoveredUpTo, Count, Line
<1> QED BY <1>4, <1>5

LEMMA ParseEnds_Coverage ==
    ASSUME IInv, Coverage, ParseEnds
    PROVE  Coverage'
<1>1. /\ pc = "parsing" /\ sections' = Flushed /\ AtSection(1)
      /\ UNCHANGED <<text, pieces>>
  BY DEF ParseEnds
<1>2. /\ Flushed \in Seq(SectionRecords)
      /\ \A s \in DOMAIN Flushed : Flushed[s].first <= Flushed[s].last
      /\ \A s, t \in DOMAIN Flushed : s < t => Flushed[s].last < Flushed[t].first
      /\ \A i \in 1..Count : Line(i).kind # "blank" =>
           \E s \in DOMAIN Flushed : i \in Flushed[s].first..Flushed[s].last
  BY <1>1, FlushSound
<1>3. CoveredUpTo(1)
  BY DEF CoveredUpTo, IInv, ChunkTypeOK, Count
<1>4. \A s \in DOMAIN Flushed : ~ (s < 1)
  BY <1>2
<1>5. 1 \in Nat \ {0} /\ 1 \in Nat
  OBVIOUS
<1> QED BY <1>1, <1>2, <1>3, <1>4, <1>5, AtSection_Coverage

LEMMA SectionEnds_Coverage ==
    ASSUME IInv, Coverage, SectionEnds
    PROVE  Coverage'
<1>1. /\ pc = "splitting" /\ pc \in Splitting
      /\ split.index > Current.last /\ split.plain = split.index
      /\ UNCHANGED <<text, sections, pieces>> /\ AtSection(split.section + 1)
  BY DEF SectionEnds, Splitting
<1>2. /\ split.section \in DOMAIN sections /\ split.section \in Nat
      /\ Current.last \in Nat /\ split.plain = Current.last + 1
  BY <1>1, InSplitting
<1>3. PICK k \in Nat \ {0} : k = split.section + 1
  BY <1>2
<1>4. PICK n \in Nat : n = split.plain
  BY <1>2
<1>5. /\ sections \in Seq(SectionRecords)
      /\ \A s \in DOMAIN sections : sections[s].first <= sections[s].last
      /\ \A s, t \in DOMAIN sections : s < t => sections[s].last < sections[t].first
      /\ \A i \in 1..Count : Line(i).kind # "blank" =>
           \E s \in DOMAIN sections : i \in sections[s].first..sections[s].last
  BY <1>1 DEF IInv, ChunkTypeOK, TextSound, SectionsInOrder, Sectioned, Parsed
<1>6. CoveredUpTo(n)
  BY <1>1, <1>4 DEF Coverage
<1>7. \A s \in DOMAIN sections : s < k => sections[s].last < n
  <2> TAKE s \in DOMAIN sections
  <2> HAVE s < k
  <2>1. sections[s] \in SectionRecords /\ sections[split.section] \in SectionRecords
    BY <1>2, <1>5
  <2>2. /\ sections[s].last \in Nat /\ sections[split.section].first \in Nat
        /\ sections[split.section].last \in Nat
    BY <2>1 DEF SectionRecords
  <2>3. CASE s = split.section
    BY <2>3, <1>2, <1>4 DEF Current
  <2>4. CASE s < split.section
    BY <2>2, <2>4, <1>2, <1>4, <1>5 DEF Current
  <2> QED BY <2>3, <2>4, <1>2, <1>3, <1>5
<1> QED BY <1>1, <1>3, <1>5, <1>6, <1>7, AtSection_Coverage

\* A step that keeps the pieces and the place up to which all is covered.
LEMMA Index_Coverage ==
    ASSUME IInv, Coverage, FenceLine \/ PlainLine \/ TableWithoutRows \/ FlushPlain
    PROVE  Coverage'
<1>1. /\ pc = "splitting" /\ UNCHANGED <<text, pieces>>
      /\ \/ pc' = "splitting" /\ split'.plain = split.plain
         \/ pc' = "flushing" /\ cut'.first = split.plain
  <2>1. split \in [section : Nat, index : Nat, plain : Nat, fence : Fences \cup {NoFence}]
    BY DEF IInv, ChunkTypeOK
  <2>2. CASE FenceLine \/ PlainLine \/ TableWithoutRows
    BY <2>1, <2>2 DEF FenceLine, PlainLine, TableWithoutRows, InSection
  <2>3. CASE FlushPlain
    BY <2>3 DEF FlushPlain
  <2> QED BY <2>2, <2>3
<1>2. PICK n : n = split.plain
  OBVIOUS
<1>3. CoveredUpTo(n)
  BY <1>1, <1>2 DEF Coverage
<1>4. CoveredUpTo(n)'
  <2>1. text' = text /\ pieces' = pieces
    BY <1>1
  <2> QED BY <2>1, <1>3, UpToStays
<1> QED BY <1>1, <1>2, <1>4 DEF Coverage, CoveredUpTo

LEMMA TableBegins_Coverage ==
    ASSUME IInv, Coverage, TableBegins
    PROVE  Coverage'
<1>1. /\ pc = "splitting" /\ pc' = "rows" /\ IsRow(split.index + 2)
      /\ split.plain = split.index /\ split.index \in Nat
      /\ UNCHANGED <<text, sections, pieces>>
      /\ split'.plain = split.plain /\ split'.index = split.plain + 2
      /\ split'.section = split.section
  BY DEF TableBegins, InSection, IInv, ChunkTypeOK
<1>2. PICK n \in Nat : n = split.plain
  BY <1>1
<1>3. CoveredUpTo(n)'
  <2>1. text' = text /\ pieces' = pieces /\ CoveredUpTo(n)
    BY <1>1, <1>2 DEF Coverage
  <2> QED BY <2>1, UpToStays
<1>4. IsRow(split.index)'
  BY <1>1 DEF IsRow, Current, Line
<1>5. \A i : ~ (i \in (n + 2)..(n + 1))
  BY <1>2
<1> QED BY <1>1, <1>2, <1>3, <1>4, <1>5 DEF Coverage, CoveredUpTo

LEMMA TableRow_Coverage ==
    ASSUME IInv, Coverage, TableRow
    PROVE  Coverage'
<1> DEFINE p == [kind |-> "table_row", first |-> split.index, last |-> split.index,
                 header |-> split.plain, from |-> 0, to |-> 0]
<1>1. /\ pc = "rows" /\ pc' = "rows"
      /\ UNCHANGED <<text, sections>> /\ pieces' = Append(pieces, p)
      /\ split' = [split EXCEPT !.index = split.index + 1]
      /\ split \in [section : Nat, index : Nat, plain : Nat, fence : Fences \cup {NoFence}]
  <2>1. split \in [section : Nat, index : Nat, plain : Nat, fence : Fences \cup {NoFence}]
    BY DEF IInv, ChunkTypeOK
  <2>2. /\ pc = "rows" /\ pc' = "rows" /\ UNCHANGED <<text, sections>>
        /\ split' = [split EXCEPT !.index = split.index + 1]
        /\ pieces' = Append(pieces, p)
    BY DEF TableRow, Piece
  <2> QED BY <2>1, <2>2
<1>2. PICK n \in Nat, j \in Nat : n = split.plain /\ j = split.index
  BY <1>1
<1>3. split'.plain = n /\ split'.index = j + 1
  BY <1>1, <1>2
<1>4. /\ p \in PieceRecords /\ p.kind = "table_row" /\ p.first = j /\ p.last = j /\ p.header = n
  BY <1>2 DEF PieceRecords
<1> HIDE DEF p
<1>5. CoveredUpTo(n)'
  <2>1. CoveredUpTo(n) /\ text' = text
    BY <1>1, <1>2 DEF Coverage
  <2> QED BY <2>1, <1>1, <1>4, UpToStays
<1>6. ASSUME NEW i \in (n + 2)..j
      PROVE  Covered(i, pieces)'
  <2>1. CASE i = j
    <3>1. i \in p.first..p.last /\ IsChunk(p)
      BY <2>1, <1>2, <1>4 DEF IsChunk
    <3> QED BY <3>1, <1>1, <1>4, CoveredStays
  <2>2. CASE i # j
    <3>1. i \in (n + 2)..(j - 1)
      BY <2>2, <1>2
    <3>2. Covered(i, pieces)
      BY <3>1, <1>1, <1>2 DEF Coverage
    <3> QED BY <3>2, <1>1, <1>4, CoveredStays
  <2> QED BY <2>1, <2>2
<1>7. AsHeader(n, pieces)' /\ AsHeader(n + 1, pieces)'
  BY <1>1, <1>4, CoveredStays
<1>8. \A i \in (split'.plain + 2)..(split'.index - 1) : Covered(i, pieces)'
  BY <1>2, <1>3, <1>6
<1>9. HeaderKept'
  BY <1>3, <1>7 DEF HeaderKept, AsHeader
<1>10. CoveredUpTo(split.plain)'
  BY <1>3, <1>5 DEF CoveredUpTo
<1>11. (\A i \in (split.plain + 2)..(split.index - 1) : Covered(i, pieces))'
  BY <1>8
<1>12. pc' = "rows"
  BY <1>1
<1> QED BY <1>9, <1>10, <1>11, <1>12 DEF Coverage

LEMMA TableEnds_Coverage ==
    ASSUME IInv, Coverage, TableEnds
    PROVE  Coverage'
<1>1. /\ pc = "rows" /\ pc' = "splitting" /\ ~ IsRow(split.index)
      /\ UNCHANGED <<text, pieces>> /\ split'.plain = split.index
      /\ split.plain \in Nat /\ split.index \in Nat
  BY DEF TableEnds, IInv, ChunkTypeOK
<1>2. PICK n \in Nat, j \in Nat : n = split.plain /\ j = split.index
  BY <1>1
<1>3. /\ CoveredUpTo(n) /\ AsHeader(n, pieces) /\ AsHeader(n + 1, pieces)
      /\ \A i \in (n + 2)..(j - 1) : Covered(i, pieces)
  BY <1>1, <1>2 DEF Coverage, HeaderKept
<1>4. CoveredUpTo(j)
  <2> SUFFICES ASSUME NEW i \in 1..Count, i < j, Line(i).kind # "blank"
               PROVE  Covered(i, pieces)
    BY DEF CoveredUpTo
  <2>1. i \in Int
    OBVIOUS
  <2>2. i < n \/ i = n \/ i = n + 1 \/ i \in (n + 2)..(j - 1)
    BY <2>1, <1>2
  <2> QED BY <2>2, <1>3 DEF CoveredUpTo, Covered
<1>5. CoveredUpTo(j)'
  <2>1. text' = text /\ pieces' = pieces
    BY <1>1
  <2> QED BY <2>1, <1>4, UpToStays
<1> QED BY <1>1, <1>2, <1>5 DEF Coverage, CoveredUpTo

\* What is flushed covers its lines with text.
LEMMA CollectedCovers ==
    ASSUME IInv, pc = "flushing", cut.first < cut.next, text' = text,
           pieces' = Append(pieces, Collected),
           NEW i \in cut.first..(cut.next - 1), Line(i).kind # "blank"
    PROVE  Covered(i, pieces)'
<1>1. /\ Collected \in PieceRecords /\ Collected.kind = "text"
      /\ Collected.first = cut.first /\ Collected.last = cut.next - 1
  BY CollectedSound DEF Collected, Piece
<1>2. IsChunk(Collected)
  BY <1>1 DEF IsChunk, HasText
<1>3. PICK p \in PieceRecords : p = Collected
  BY <1>1
<1>4. p.kind # "segment" /\ i \in p.first..p.last /\ IsChunk(p)
  BY <1>1, <1>2, <1>3
<1> QED BY <1>3, <1>4, CoveredStays

LEMMA ShortLine_Coverage ==
    ASSUME IInv, Coverage, ShortLine
    PROVE  Coverage'
<1>1. /\ pc = "flushing" /\ pc' = "flushing" /\ text' = text
      /\ cut \in CutRecords /\ cut.first \in Nat /\ cut.next \in Nat
  BY InFlushing DEF ShortLine, InPlain
<1>2. PICK f \in Nat : f = cut.first
  BY <1>1
<1>3. CoveredUpTo(f)
  BY <1>1, <1>2 DEF Coverage
<1>4. CASE ShouldFlush(Line(cut.next).chars)
  <2>1. cut.first < cut.next /\ pieces' = Append(pieces, Collected)
    BY <1>4 DEF ShortLine, ShouldFlush
  <2>2. PICK k \in cut.first..cut.next : cut'.first = k
    BY <1>1, <1>4 DEF ShortLine, CutRecords
  <2>3. CoveredUpTo(f)'
    BY <1>1, <1>3, <2>1, CollectedSound, UpToStays
  <2>4. ASSUME NEW i \in 1..Count, i < k, Line(i).kind # "blank"
        PROVE  Covered(i, pieces)'
    <3>1. CASE i < f
      BY <3>1, <2>3, <2>4, <1>1 DEF CoveredUpTo, Count, Line
    <3>2. CASE i >= f
      <4>1. i \in cut.first..(cut.next - 1)
        BY <3>2, <2>4, <2>2, <1>1, <1>2
      <4> QED BY <4>1, <2>1, <2>4, <1>1, CollectedCovers
    <3> QED BY <3>1, <3>2, <1>2
  <2> QED BY <1>1, <2>2, <2>4 DEF Coverage, CoveredUpTo, Count, Line
<1>5. CASE ~ ShouldFlush(Line(cut.next).chars)
  <2>1. pieces' = pieces /\ cut'.first = f
    BY <1>1, <1>2, <1>5 DEF ShortLine, CutRecords
  <2>2. CoveredUpTo(f)'
    BY <1>1, <1>3, <2>1, UpToStays
  <2> QED BY <1>1, <2>1, <2>2 DEF Coverage, CoveredUpTo
<1> QED BY <1>4, <1>5

\* LongLine and PlainEnds: what was collected is in a piece, or has no text.
LEMMA Rest_Coverage ==
    ASSUME IInv, Coverage, LongLine \/ PlainEnds
    PROVE  Coverage'
<1>1. /\ pc = "flushing" /\ text' = text
      /\ \/ pc' = "cutting" /\ cut'.next = cut.next /\ cut'.from = 0
         \/ pc' = "splitting" /\ split'.plain = cut.next
      /\ \/ pieces' = Append(pieces, Collected) /\ cut.first < cut.next
         \/ /\ pieces' = pieces
            /\ cut.first < cut.next => ~ HasText(cut.first, cut.next - 1)
  <2>1. split \in [section : Nat, index : Nat, plain : Nat, fence : Fences \cup {NoFence}]
    BY DEF IInv, ChunkTypeOK
  <2>2. CASE LongLine
    BY <2>2 DEF LongLine, InPlain
  <2>3. CASE PlainEnds
    BY <2>1, <2>3 DEF PlainEnds
  <2> QED BY <2>2, <2>3
<1>2. cut.first \in Nat /\ cut.next \in Nat
  BY <1>1, InFlushing
<1>3. PICK f \in Nat, n \in Nat : f = cut.first /\ n = cut.next
  BY <1>2
<1>4. CoveredUpTo(f)'
  <2>1. CoveredUpTo(f)
    BY <1>1, <1>3 DEF Coverage
  <2>2. pieces' = pieces \/ \E p \in PieceRecords : pieces' = Append(pieces, p)
    BY <1>1, CollectedSound
  <2> QED BY <1>1, <2>1, <2>2, UpToStays
<1>5. ASSUME NEW i \in 1..Count, i < n, Line(i).kind # "blank"
      PROVE  Covered(i, pieces)'
  <2>1. CASE i < f
    BY <2>1, <1>1, <1>4, <1>5 DEF CoveredUpTo, Count, Line
  <2>2. CASE i >= f
    <3>1. i \in cut.first..(cut.next - 1) /\ cut.first < cut.next
      BY <2>2, <1>2, <1>3, <1>5
    <3>2. HasText(cut.first, cut.next - 1)
      BY <3>1, <1>5 DEF HasText
    <3> QED BY <3>1, <3>2, <1>1, <1>5, CollectedCovers
  <2> QED BY <2>1, <2>2, <1>3
<1>6. CASE pc' = "cutting"
  <2>1. \A x \in 0..(cut'.from - 1) : FALSE
    BY <1>1, <1>6
  <2> QED BY <1>1, <1>3, <1>5, <1>6, <2>1 DEF Coverage, CoveredUpTo, Count, Line
<1>7. CASE pc' = "splitting"
  BY <1>1, <1>3, <1>5, <1>7 DEF Coverage, CoveredUpTo, Count, Line
<1> QED BY <1>1, <1>6, <1>7

LEMMA CutSegment_Coverage ==
    ASSUME IInv, Coverage, CutSegment
    PROVE  Coverage'
<1> DEFINE length == Line(cut.next).chars
           to == IF cut.from + Hard < length THEN cut.from + Hard ELSE length
           p == [kind |-> "segment", first |-> cut.next, last |-> cut.next, header |-> 0,
                 from |-> cut.from, to |-> to]
<1>1. pc = "cutting" /\ pieces' = Append(pieces, p) /\ text' = text
  BY DEF CutSegment, Segment
<1>2. /\ cut \in CutRecords /\ cut.next \in 1..Count /\ cut.next \in Nat
      /\ cut.from \in Nat /\ length \in Nat
      /\ cut.first = cut.next + 1
  BY <1>1, InCutting
<1>3. to \in Nat
  BY <1>2, ProfileType
<1> HIDE DEF to
<1>4. /\ p \in PieceRecords /\ p.kind = "segment" /\ p.first = cut.next
      /\ p.from = cut.from /\ p.to = to
  BY <1>2, <1>3 DEF PieceRecords
<1> HIDE DEF p
<1>5. PICK n \in Nat, a \in Nat, b \in Nat : n = cut.next /\ a = cut.from /\ b = to
  BY <1>2, <1>3
<1>6. CoveredUpTo(n)'
  <2>1. CoveredUpTo(n)
    BY <1>1, <1>5 DEF Coverage
  <2> QED BY <2>1, <1>1, <1>4, UpToStays
<1>7. \A x \in 0..(b - 1) : Cut(n, x, pieces)'
  <2> TAKE x \in 0..(b - 1)
  <2>1. CASE x < a
    <3>1. x \in 0..(a - 1)
      BY <2>1, <1>5
    <3>2. Cut(n, x, pieces)
      BY <3>1, <1>1, <1>5 DEF Coverage
    <3> QED BY <3>2, <1>1, <1>4, CoveredStays
  <2>2. CASE x >= a
    <3>1. p.from <= x /\ x < p.to /\ p.first = n
      BY <2>2, <1>4, <1>5
    <3> QED BY <3>1, <1>1, <1>4, CoveredStays
  <2> QED BY <2>1, <2>2, <1>5
<1>8. CASE cut.from + Hard >= length
  <2>1. pc' = "flushing" /\ cut'.first = n + 1
    <3>1. pc' = "flushing" /\ cut' = [cut EXCEPT !.next = cut.next + 1, !.from = 0]
      BY <1>8, <1>2, ProfileType DEF CutSegment, CutRecords
    <3>2. cut'.first = cut.first
      BY <3>1, <1>2 DEF CutRecords
    <3> QED BY <3>1, <3>2, <1>2, <1>5
  <2>2. b = Line(n).chars
    BY <1>8, <1>2, <1>5, ProfileType DEF to
  <2>3. Covered(n, pieces)'
    <3>1. Line(n)' = Line(n)
      BY <1>1 DEF Line
    <3> QED BY <3>1, <2>2, <1>7 DEF Covered, InSegments
  <2>4. ASSUME NEW i \in 1..Count, i < n + 1, Line(i).kind # "blank"
        PROVE  Covered(i, pieces)'
    <3>1. i < n \/ i = n
      BY <2>4
    <3> QED BY <3>1, <2>3, <2>4, <1>1, <1>6 DEF CoveredUpTo, Count, Line
  <2> QED BY <1>1, <2>1, <2>4 DEF Coverage, CoveredUpTo, Count, Line
<1>9. CASE cut.from + Hard < length
  <2>1. pc' = "cutting" /\ cut'.next = n /\ cut'.from = a + CutStep
    BY <1>9, <1>1, <1>2, <1>5, ProfileType DEF CutSegment, CutRecords
  <2>2. b = a + Hard
    BY <1>9, <1>5 DEF to
  <2>3. \A x \in 0..(cut'.from - 1) : Cut(n, x, pieces)'
    <3> TAKE x \in 0..(cut'.from - 1)
    <3>1. x \in 0..(b - 1)
      BY <2>1, <2>2, <1>5, ProfileType
    <3> QED BY <3>1, <1>7
  <2> QED BY <2>1, <2>3, <1>1, <1>6 DEF Coverage, CoveredUpTo, Cut
<1> QED BY <1>2, <1>8, <1>9, ProfileType

LEMMA Next_Coverage ==
    ASSUME IInv, Coverage, [ChunkNext]_chunkVars
    PROVE  Coverage'
<1>1. CASE \E line \in Lines : ParseLine(line)
  <2>1. pc' = "parsing"
    BY <1>1 DEF ParseLine
  <2> QED BY <2>1 DEF Coverage
<1>2. CASE ParseEnds
  BY <1>2, ParseEnds_Coverage
<1>3. CASE FenceLine \/ PlainLine \/ TableWithoutRows \/ FlushPlain
  BY <1>3, Index_Coverage
<1>4. CASE TableBegins
  BY <1>4, TableBegins_Coverage
<1>5. CASE TableRow
  BY <1>5, TableRow_Coverage
<1>6. CASE TableEnds
  BY <1>6, TableEnds_Coverage
<1>7. CASE SectionEnds
  BY <1>7, SectionEnds_Coverage
<1>8. CASE ShortLine
  BY <1>8, ShortLine_Coverage
<1>9. CASE LongLine \/ PlainEnds
  BY <1>9, Rest_Coverage
<1>10. CASE CutSegment
  BY <1>10, CutSegment_Coverage
<1>11. CASE UNCHANGED chunkVars
  BY <1>11 DEF chunkVars, Coverage, CoveredUpTo, HeaderKept, Covered, InRange, AsHeader,
       InSegments, Cut, IsChunk, HasText, IsRow, Current, Count, Line
<1> QED
  BY <1>1, <1>2, <1>3, <1>4, <1>5, <1>6, <1>7, <1>8, <1>9, <1>10, <1>11
  DEF ChunkNext, Returned

\* For every file and every chunk profile, every line with text is in a chunk when
\* chunk_markdown returns.
THEOREM TextIsKept == ChunkSpec => []NothingIsLost
<1>1. ChunkInit => Coverage
  BY DEF ChunkInit, Coverage
<1>2. IInv /\ Coverage /\ [ChunkNext]_chunkVars => Coverage'
  BY Next_Coverage
<1>3. IInv /\ Coverage => NothingIsLost
  <2> SUFFICES ASSUME IInv, Coverage, pc = "done",
                      NEW i \in 1..Count, Line(i).kind # "blank"
               PROVE  InRange(i, pieces) \/ AsHeader(i, pieces) \/ InSegments(i, pieces)
    BY DEF NothingIsLost, InRange, AsHeader, InSegments, Cut, Rows
  <2>1. i < Count + 1
    BY DEF IInv, ChunkTypeOK, Count
  <2> QED BY <2>1 DEF Coverage, CoveredUpTo, Covered
<1> QED BY <1>1, <1>2, <1>3, Invariance, PTL DEF ChunkSpec

-----------------------------------------------------------------------------
(* Heading paths                                                           *)

\* path names, at each level, the heading that encloses line n.
Opens(path, n) ==
    \A l \in 1..6 :
        /\ PathAt(path, l) # 0 => Encloses(PathAt(path, l), l, n)
        /\ PathAt(path, l) = 0 => \A x \in 1..n : ~ Encloses(x, l, n)

\* The stack is that of the line where the section under way begins, and no
\* heading has been read since.
StackSound ==
    pc = "parsing" =>
        IF Count = 0 THEN parse.stack = <<>>
        ELSE /\ parse.first <= Count
             /\ Opens(parse.stack, parse.first)
             /\ \A k \in 1..Count : k > parse.first => ~ text[k].heads

PathSound ==
    /\ \A s \in DOMAIN sections :
         sections[s].first \in 1..Count /\ Opens(sections[s].path, sections[s].first)
    /\ StackSound

LEMMA InitPaths == ChunkInit => PathSound
BY DEF ChunkInit, PathSound, StackSound, Count

\* Lines that are added change no path.
LEMMA OpensStays ==
    ASSUME Count \in Nat, Count' \in Nat, \A i \in 1..Count : text'[i] = text[i],
           NEW n \in 1..Count, NEW path, Opens(path, n)
    PROVE  Opens(path, n)'
<1>1. \A i \in 1..n : i \in 1..Count /\ text'[i] = text[i] /\ Line(i)' = Line(i)
  BY DEF Line
<1>2. \A m \in 1..n : \A l \in 1..6 : Encloses(m, l, n)' <=> Encloses(m, l, n)
  <2> SUFFICES ASSUME NEW m \in 1..n, NEW l \in 1..6
               PROVE  Encloses(m, l, n)' <=> Encloses(m, l, n)
    OBVIOUS
  <2>1. \A k \in (m + 1)..n : k \in 1..n
    OBVIOUS
  <2> QED BY <1>1, <2>1 DEF Encloses
<1>3. \A l \in 1..6 : PathAt(path, l)' = PathAt(path, l)
  BY DEF PathAt
<1> QED BY <1>2, <1>3 DEF Opens, Encloses

\* What flush makes of the sections.
LEMMA FlushedPaths ==
    ASSUME IInv, PathSound, pc = "parsing"
    PROVE  \A s \in DOMAIN Flushed :
             Flushed[s].first \in 1..Count /\ Opens(Flushed[s].path, Flushed[s].first)
<1> DEFINE new == [path |-> parse.stack, first |-> parse.first, last |-> Count]
<1>1. /\ sections \in Seq(SectionRecords) /\ parse.stack \in Seq(Nat) /\ Count \in Nat
      /\ parse.first \in 1..(Count + 1)
  BY DEF IInv, ChunkTypeOK, Count, TextSound, SectionsInOrder
<1>2. CASE Flushed = sections
  BY <1>2 DEF PathSound
<1>3. CASE Flushed # sections
  <2>1. Flushed = Append(sections, new) /\ parse.first <= Count
    BY <1>3 DEF Flushed
  <2>2. new \in SectionRecords
    BY <1>1 DEF SectionRecords
  <2>3. new.first \in 1..Count /\ Opens(new.path, new.first)
    BY <1>1, <2>1 DEF PathSound, StackSound
  <2> HIDE DEF new
  <2>4. \A s \in DOMAIN Flushed : (s \in DOMAIN sections /\ Flushed[s] = sections[s]) \/ Flushed[s] = new
    BY <1>1, <2>1, <2>2
  <2> QED BY <2>3, <2>4 DEF PathSound
<1> QED BY <1>2, <1>3

\* The stack after a heading at line n: the levels above it are kept, its own is set,
\* and those below it are closed.
HeadingRule ==
    \A n \in Nat \ {0} : \A stack \in Seq(Nat) :
        /\ text[n].heads
        /\ Line(n).level \in 1..6 /\ Line(n).titled \in BOOLEAN
        /\ n > 1 => Opens(stack, n - 1)
        /\ n = 1 => stack = <<>>
        => Opens(Headed(stack, n, Line(n)), n)

LEMMA HeadingOpens == HeadingRule
<1> SUFFICES ASSUME NEW n \in Nat \ {0}, NEW stack \in Seq(Nat), text[n].heads,
                    Line(n).level \in 1..6, Line(n).titled \in BOOLEAN,
                    n > 1 => Opens(stack, n - 1),
                    n = 1 => stack = <<>>
             PROVE  Opens(Headed(stack, n, Line(n)), n)
  BY DEF HeadingRule
<1> DEFINE line == Line(n)
           top == line.level
           path == Headed(stack, n, line)
<1>1. \A l \in 1..6 : PathAt(path, l) =
         (IF l < top THEN PathAt(stack, l) ELSE IF l = top /\ line.titled THEN n ELSE 0)
  <2>1. path \in [1..top -> Nat] /\ top \in Nat
    BY DEF Headed
  <2>2. Len(path) = top
    BY <2>1
  <2>3. \A l \in 1..top : path[l] = IF l = top THEN (IF line.titled THEN n ELSE 0)
                                    ELSE PathAt(stack, l)
    BY DEF Headed, PathAt
  <2> HIDE DEF path, top, line
  <2>4. \A l \in 1..6 : l <= top => l \in 1..top
    BY <2>1
  <2> QED BY <2>1, <2>2, <2>3, <2>4 DEF PathAt
<1>2. ASSUME NEW l \in 1..6, NEW x \in 1..n, Encloses(x, l, n)
      PROVE  IF x = n THEN l = top /\ line.titled ELSE l < top /\ Encloses(x, l, n - 1)
  <2>1. CASE x = n
    BY <1>2, <2>1 DEF Encloses
  <2>2. CASE x # n
    <3>1. n \in (x + 1)..n /\ x \in 1..(n - 1)
      BY <2>2
    <3>2. l < top
      BY <1>2, <3>1 DEF Encloses
    <3>3. \A k \in (x + 1)..(n - 1) : k \in (x + 1)..n
      OBVIOUS
    <3> QED BY <1>2, <2>2, <3>1, <3>2, <3>3 DEF Encloses
  <2> QED BY <2>1, <2>2
<1>3. ASSUME NEW l \in 1..6, l < top, n > 1, NEW x \in 1..(n - 1), Encloses(x, l, n - 1)
      PROVE  Encloses(x, l, n)
  <2>1. \A k \in (x + 1)..n : k = n \/ k \in (x + 1)..(n - 1)
    OBVIOUS
  <2> QED BY <1>3, <2>1 DEF Encloses
<1>4. line.titled => Encloses(n, top, n)
  BY DEF Encloses
<1> HIDE DEF path, top, line
<1>5. top \in 1..6
  BY DEF top, line
<1> SUFFICES ASSUME NEW l \in 1..6
             PROVE  /\ PathAt(path, l) # 0 => Encloses(PathAt(path, l), l, n)
                    /\ PathAt(path, l) = 0 => \A x \in 1..n : ~ Encloses(x, l, n)
  BY DEF Opens, path, line
<1>6. CASE l < top
  <2>1. PathAt(path, l) = PathAt(stack, l)
    BY <1>1, <1>6
  <2>2. CASE n = 1
    <3>1. PathAt(stack, l) = 0
      BY <2>2 DEF PathAt
    <3>2. \A x \in 1..n : ~ Encloses(x, l, n)
      BY <1>2, <1>5, <1>6, <2>2
    <3> QED BY <2>1, <3>1, <3>2
  <2>3. CASE n > 1
    <3>1. /\ PathAt(stack, l) # 0 => Encloses(PathAt(stack, l), l, n - 1)
          /\ PathAt(stack, l) = 0 => \A x \in 1..(n - 1) : ~ Encloses(x, l, n - 1)
      BY <2>3 DEF Opens
    <3>2. PathAt(stack, l) # 0 => PathAt(stack, l) \in 1..(n - 1)
      BY <3>1 DEF Encloses
    <3>3. PathAt(path, l) # 0 => Encloses(PathAt(path, l), l, n)
      BY <1>3, <1>6, <2>1, <2>3, <3>1, <3>2
    <3>4. ASSUME PathAt(path, l) = 0, NEW x \in 1..n, Encloses(x, l, n) PROVE FALSE
      <4>1. x # n /\ Encloses(x, l, n - 1)
        BY <1>2, <1>5, <1>6, <3>4
      <4>2. x \in 1..(n - 1)
        BY <4>1
      <4> QED BY <2>1, <3>1, <3>4, <4>1, <4>2
    <3> QED BY <3>3, <3>4
  <2> QED BY <2>2, <2>3
<1>7. CASE l = top
  <2>1. CASE line.titled
    BY <1>1, <1>4, <1>7, <2>1
  <2>2. CASE ~ line.titled
    BY <1>1, <1>2, <1>5, <1>7, <2>2
  <2> QED BY <2>1, <2>2
<1>8. CASE l > top
  BY <1>1, <1>2, <1>5, <1>8
<1> QED BY <1>5, <1>6, <1>7, <1>8

\* A line that is no heading opens nothing.
LEMMA OpensOn ==
    ASSUME NEW n \in Nat, NEW first \in 1..n, NEW path, Opens(path, first),
           \A k \in 1..n : k > first => ~ text[k].heads
    PROVE  Opens(path, n)
<1>1. ASSUME NEW l \in 1..6, NEW x \in 1..first, Encloses(x, l, first) PROVE Encloses(x, l, n)
  <2>1. \A k \in (x + 1)..n : k \in (x + 1)..first \/ (k \in 1..n /\ k > first)
    OBVIOUS
  <2>2. x \in 1..n
    OBVIOUS
  <2> QED BY <1>1, <2>1, <2>2 DEF Encloses
<1>2. ASSUME NEW l \in 1..6, NEW x \in 1..n, Encloses(x, l, n)
      PROVE  x \in 1..first /\ Encloses(x, l, first)
  <2>1. x \in 1..first
    BY <1>2 DEF Encloses
  <2>2. \A k \in (x + 1)..first : k \in (x + 1)..n
    OBVIOUS
  <2> QED BY <1>2, <2>1, <2>2 DEF Encloses
<1> SUFFICES ASSUME NEW l \in 1..6
             PROVE  /\ PathAt(path, l) # 0 => Encloses(PathAt(path, l), l, n)
                    /\ PathAt(path, l) = 0 => \A x \in 1..n : ~ Encloses(x, l, n)
  BY DEF Opens
<1>3. /\ PathAt(path, l) # 0 => /\ PathAt(path, l) \in 1..first
                                /\ Encloses(PathAt(path, l), l, first)
      /\ PathAt(path, l) = 0 => \A x \in 1..first : ~ Encloses(x, l, first)
  BY DEF Opens, Encloses
<1> QED BY <1>1, <1>2, <1>3

LEMMA ParseLine_Paths ==
    ASSUME IInv, PathSound, NEW line \in Lines, ParseLine(line)
    PROVE  PathSound'
<1> DEFINE marker == Toggled(parse.fence, line.kind)
           heads  == marker = NoFence /\ line.kind = "heading"
           entry  == [line |-> line, end |-> Total + line.chars,
                      fence |-> marker, heads |-> heads]
<1>1. /\ pc = "parsing" /\ text' = Append(text, entry) /\ pc' = "parsing"
  BY DEF ParseLine
<1>2. /\ Count \in Nat /\ text \in Seq(TextRecords)
      /\ parse \in [stack : Seq(Nat), first : Nat, fence : Fences \cup {NoFence}]
      /\ parse.first \in 1..(Count + 1) /\ sections \in Seq(SectionRecords)
  BY <1>1 DEF IInv, ChunkTypeOK, Count, TextSound, SectionsInOrder
<1>9. PICK n \in Nat \ {0} : n = Count + 1
  BY <1>2
<1>0. IF Count = 0 THEN parse.stack = <<>> /\ parse.first = 1
      ELSE /\ parse.first \in 1..Count /\ Opens(parse.stack, parse.first)
           /\ \A k \in 1..Count : k > parse.first => ~ text[k].heads
  BY <1>1, <1>2 DEF PathSound, StackSound
<1>3. entry.line = line /\ entry.heads = heads
  OBVIOUS
<1> HIDE DEF entry
<1>4. /\ Count' = n /\ \A i \in 1..Count : text'[i] = text[i]
      /\ text'[n] = entry
  <2>1. entry \in TextRecords
    <3>1. IInv'
      BY ParseLine_IInv
    <3>2. text' \in Seq(TextRecords) /\ Len(text') = Len(text) + 1
      BY <1>1, <1>2, <3>1 DEF IInv, ChunkTypeOK
    <3>3. text'[Len(text) + 1] = entry
      BY <1>1, <1>2
    <3> QED BY <1>2, <3>2, <3>3
  <2> QED BY <1>1, <1>2, <1>9, <2>1 DEF Count
<1>5. line \in LineRecords /\ (line.kind = "heading" => line.level \in 1..6)
  BY LinesAssumption
<1>6. ASSUME NEW f \in 1..Count, NEW path, Opens(path, f) PROVE Opens(path, f)'
  <2>1. Count' \in Nat /\ \A i \in 1..Count : text'[i] = text[i]
    BY <1>4
  <2> QED BY <1>2, <1>6, <2>1, OpensStays
<1>7. ASSUME heads PROVE PathSound'
  <2>1. /\ sections' = Flushed
        /\ parse' = [stack |-> Headed(parse.stack, n, line), first |-> n, fence |-> marker]
    BY <1>7, <1>9 DEF ParseLine
  <2>2. \A s \in DOMAIN sections' :
          sections'[s].first \in 1..Count' /\ Opens(sections[s].path, sections[s].first)'
    <3> SUFFICES ASSUME NEW s \in DOMAIN Flushed
                 PROVE  Flushed[s].first \in 1..Count' /\ Opens(sections[s].path, sections[s].first)'
      BY <2>1
    <3>1. Flushed[s].first \in 1..Count /\ Opens(Flushed[s].path, Flushed[s].first)
      BY <1>1, FlushedPaths
    <3>2. \A f \in 1..Count : \A path : Opens(path, f) => Opens(path, f)'
      BY <1>6
    <3>3. PICK f \in 1..Count : f = Flushed[s].first
      BY <3>1
    <3>4. PICK path : path = Flushed[s].path
      OBVIOUS
    <3>5. Opens(path, f)'
      BY <3>1, <3>2, <3>3, <3>4
    <3>6. sections'[s].path = path /\ sections'[s].first = f
      BY <2>1, <3>3, <3>4
    <3> QED BY <1>2, <1>4, <1>9, <3>3, <3>5, <3>6 DEF Opens
  <2>3. StackSound'
    <3>1. HeadingRule'
      BY HeadingOpens, PTL
    <3>2. /\ text'[n].heads /\ Line(n)' = line
          /\ line.level \in 1..6 /\ line.titled \in BOOLEAN
      BY <1>3, <1>4, <1>5, <1>7 DEF Line, LineRecords
    <3>3. n > 1 => Count \in 1..Count /\ Opens(parse.stack, Count)
      <4> SUFFICES ASSUME n > 1 PROVE Count \in 1..Count /\ Opens(parse.stack, Count)
        OBVIOUS
      <4>1. Count # 0 /\ Count \in 1..Count
        BY <1>2, <1>9
      <4> QED BY <1>0, <1>2, <4>1, OpensOn
    <3>4. PICK stack \in Seq(Nat) : stack = parse.stack
      BY <1>2
    <3>5. n > 1 => Opens(stack, n - 1)'
      <4>1. \A f \in 1..Count : \A path : Opens(path, f) => Opens(path, f)'
        BY <1>6
      <4>2. n > 1 => n - 1 \in 1..Count /\ Opens(stack, n - 1)
        BY <1>2, <1>9, <3>3, <3>4
      <4> QED BY <4>1, <4>2
    <3>6. n = 1 => stack = <<>>
      BY <1>0, <1>2, <1>9, <3>4
    <3>7. Opens(Headed(stack, n, Line(n)), n)'
      BY <3>1, <3>2, <3>5, <3>6 DEF HeadingRule
    <3>8. parse'.first = n /\ Count' = n
      BY <1>4, <2>1
    <3>9. parse'.stack = Headed(stack, n, line)
      BY <2>1, <3>4
    <3>10. Headed(stack, n, Line(n))' = Headed(stack, n, line)
      BY <3>2 DEF Headed
    <3>11. Opens(parse.stack, parse.first)'
      BY <3>7, <3>8, <3>9, <3>10 DEF Opens
    <3> QED BY <3>8, <3>11 DEF StackSound
  <2> QED BY <2>2, <2>3 DEF PathSound
<1>8. ASSUME ~ heads PROVE PathSound'
  <2>1. /\ sections' = sections /\ parse'.stack = parse.stack /\ parse'.first = parse.first
    BY <1>2, <1>8 DEF ParseLine
  <2>2. \A f \in 1..Count : \A path : Opens(path, f) => Opens(path, f)'
    BY <1>6
  <2>3. \A s \in DOMAIN sections' :
          sections'[s].first \in 1..Count' /\ Opens(sections[s].path, sections[s].first)'
    <3> SUFFICES ASSUME NEW s \in DOMAIN sections
                 PROVE  /\ sections[s].first \in 1..Count'
                        /\ Opens(sections[s].path, sections[s].first)'
      BY <2>1
    <3>1. sections[s].first \in 1..Count /\ Opens(sections[s].path, sections[s].first)
      BY DEF PathSound
    <3>2. PICK f \in 1..Count : f = sections[s].first
      BY <3>1
    <3>3. PICK path : path = sections[s].path
      OBVIOUS
    <3>4. Opens(path, f)'
      BY <2>2, <3>1, <3>2, <3>3
    <3>5. sections'[s].path = path /\ sections'[s].first = f
      BY <2>1, <3>2, <3>3
    <3> QED BY <1>2, <1>4, <1>9, <3>2, <3>4, <3>5 DEF Opens
  <2>4. \A k \in 1..Count' : k > parse'.first => ~ text'[k].heads
    <3>1. ~ text'[n].heads
      BY <1>3, <1>4, <1>8
    <3>2. \A k \in 1..Count : k > parse.first => ~ text'[k].heads
      <4>1. Count # 0 => \A k \in 1..Count : k > parse.first => ~ text[k].heads
        BY <1>0
      <4> QED BY <1>2, <1>4, <4>1
    <3>3. \A k \in 1..Count' : k = n \/ k \in 1..Count
      BY <1>2, <1>4, <1>9
    <3> QED BY <2>1, <3>1, <3>2, <3>3
  <2>5. Opens(parse.stack, parse.first)' /\ parse'.first <= Count'
    <3>1. CASE Count = 0
      <4>1. parse'.first = 1 /\ Count' = 1 /\ parse'.stack = <<>> /\ ~ text'[1].heads
        <5>1. parse.stack = <<>> /\ parse.first = 1 /\ n = 1
          BY <1>0, <1>9, <3>1
        <5> QED BY <1>3, <1>4, <1>8, <2>1, <5>1
      <4>2. \A l \in 1..6 : PathAt(parse'.stack, l) = 0
        BY <4>1 DEF PathAt
      <4> QED BY <4>1, <4>2 DEF Opens, Encloses, PathAt
    <3>2. CASE Count # 0
      <4>1. PICK f \in 1..Count : f = parse.first
        BY <1>0, <3>2
      <4>2. PICK path : path = parse.stack
        OBVIOUS
      <4>3. Opens(path, f)'
        BY <1>0, <2>2, <3>2, <4>1, <4>2
      <4>4. parse'.stack = path /\ parse'.first = f
        BY <2>1, <4>1, <4>2
      <4>5. Opens(parse.stack, parse.first)'
        BY <4>3, <4>4 DEF Opens
      <4>6. parse'.first <= Count'
        BY <1>2, <1>4, <1>9, <4>1, <4>4
      <4> QED BY <4>5, <4>6
    <3> QED BY <3>1, <3>2
  <2>6. Count' # 0
    BY <1>4
  <2> QED BY <2>3, <2>4, <2>5, <2>6 DEF PathSound, StackSound
<1> QED BY <1>7, <1>8

\* The text and its sections, once parsed, stay.
LEMMA Next_Paths ==
    ASSUME IInv, IInv', PathSound, [ChunkNext]_chunkVars
    PROVE  PathSound'
<1>1. CASE \E line \in Lines : ParseLine(line)
  BY <1>1, ParseLine_Paths
<1>2. ASSUME text' = text, pc' # "parsing" \/ UNCHANGED <<pc, parse>>,
             sections' = sections \/ (sections' = Flushed /\ pc = "parsing")
      PROVE  PathSound'
  <2>1. \A s \in DOMAIN sections' :
          sections'[s].first \in 1..Count /\ Opens(sections'[s].path, sections'[s].first)
    BY <1>2, FlushedPaths DEF PathSound
  <2>2. Count' = Count
    BY <1>2 DEF Count
  <2>4. \A s \in DOMAIN sections' :
          sections'[s].first \in 1..Count' /\ Opens(sections[s].path, sections[s].first)'
    <3> SUFFICES ASSUME NEW s \in DOMAIN sections'
                 PROVE  /\ sections'[s].first \in 1..Count'
                        /\ Opens(sections[s].path, sections[s].first)'
      OBVIOUS
    <3>1. PICK f : f = sections'[s].first
      OBVIOUS
    <3>2. PICK path : path = sections'[s].path
      OBVIOUS
    <3>3. Opens(path, f)
      BY <2>1, <3>1, <3>2
    <3>4. Opens(path, f)'
      BY <1>2, <3>3 DEF Opens, Encloses, PathAt, Line
    <3>5. Opens(sections[s].path, sections[s].first)'
      BY <3>1, <3>2, <3>4 DEF Opens
    <3> QED BY <2>1, <2>2, <3>5
  <2>5. StackSound'
    <3>1. CASE pc' # "parsing"
      BY <3>1 DEF StackSound
    <3>2. CASE UNCHANGED <<pc, parse>>
      <4>1. StackSound
        BY DEF PathSound
      <4>2. Opens(parse.stack, parse.first)' <=> Opens(parse.stack, parse.first)
        BY <1>2, <3>2 DEF Opens, Encloses, PathAt, Line
      <4> QED BY <1>2, <2>2, <3>2, <4>1, <4>2 DEF StackSound
    <3> QED BY <1>2, <3>1, <3>2
  <2> QED BY <2>4, <2>5 DEF PathSound
<1>3. ASSUME ParseEnds PROVE PathSound'
  BY <1>2, <1>3 DEF ParseEnds, AtSection
<1>4. ASSUME \/ FenceLine \/ TableBegins \/ TableRow \/ TableEnds \/ TableWithoutRows
             \/ PlainLine \/ FlushPlain \/ SectionEnds
             \/ ShortLine \/ LongLine \/ CutSegment \/ PlainEnds
      PROVE  PathSound'
  <2>1. UNCHANGED <<text, sections>>
    BY <1>4 DEF FenceLine, TableBegins, TableRow, TableEnds, TableWithoutRows, PlainLine,
                FlushPlain, SectionEnds, ShortLine, LongLine, CutSegment, PlainEnds
  <2>2. pc # "parsing"
    BY <1>4 DEF FenceLine, TableBegins, TableRow, TableEnds, TableWithoutRows, PlainLine,
                FlushPlain, SectionEnds, ShortLine, LongLine, CutSegment, PlainEnds,
                InSection, InPlain
  <2>3. pc' # "parsing"
    BY <1>4, <2>2 DEF FenceLine, TableBegins, TableRow, TableEnds, TableWithoutRows,
                PlainLine, FlushPlain, SectionEnds, ShortLine, LongLine, CutSegment, PlainEnds,
                AtSection
  <2> QED BY <1>2, <2>1, <2>3
<1>5. CASE UNCHANGED chunkVars
  BY <1>2, <1>5 DEF chunkVars
<1> QED BY <1>1, <1>3, <1>4, <1>5 DEF ChunkNext, Returned

\* For every file, the heading path of a section consists of the headings that enclose
\* it, at each level the last one.
THEOREM PathsAreRight == ChunkSpec => []PathsEnclose
<1>1. IInv /\ PathSound => PathsEnclose
  <2> SUFFICES ASSUME PathSound PROVE PathsEnclose
    OBVIOUS
  <2>1. ASSUME NEW s \in DOMAIN sections, NEW l \in 1..6, NEW m, m = PathAt(sections[s].path, l)
        PROVE  /\ m # 0 => Encloses(m, l, sections[s].first)
               /\ m = 0 => \A x \in 1..Count : ~ Encloses(x, l, sections[s].first)
    <3>1. Opens(sections[s].path, sections[s].first)
      BY DEF PathSound
    <3> QED BY <2>1, <3>1 DEF Opens, Encloses
  <2> QED BY <2>1 DEF PathsEnclose
<1>2. ChunkInit => PathSound
  BY InitPaths
<1>3. IInv /\ IInv' /\ PathSound /\ [ChunkNext]_chunkVars => PathSound'
  BY Next_Paths
<1> QED BY <1>1, <1>2, <1>3, Invariance, PTL DEF ChunkSpec

-----------------------------------------------------------------------------
(* Tables and fences                                                       *)

\* fence and heads of a line are what the lines up to it make of them.
FileFences ==
    \A i \in 1..Count :
        /\ text[i].fence =
             Toggled(IF i = 1 THEN NoFence ELSE text[i - 1].fence, Line(i).kind)
        /\ text[i].heads => text[i].fence = NoFence /\ Line(i).kind = "heading"

\* While the file is parsed, the marker is that of the last line, and a section
\* begins with the file or with a heading.
ParseFences ==
    pc = "parsing" =>
        /\ parse.fence = (IF Count = 0 THEN NoFence ELSE text[Count].fence)
        /\ parse.first = 1 \/ (parse.first <= Count /\ text[parse.first].heads)

\* A section has no heading but its first line.
SectionHeads ==
    \A s \in DOMAIN sections :
        /\ sections[s].first = 1 \/ text[sections[s].first].heads
        /\ \A x \in 1..Count : sections[s].first < x /\ x <= sections[s].last => ~ text[x].heads

\* The marker of the file above line i of the section.
FenceAbove(i) == IF i = Current.first THEN NoFence ELSE text[i - 1].fence

\* A fence line of the section, above line n, was taken for a row.
Stray(n) ==
    \E j \in Rows : /\ IsFence(pieces[j].first)
                    /\ Current.first < pieces[j].first /\ pieces[j].first < n

\* _split_section's marker is that of the file, unless a fence line was taken for a row.
Aligned == pc \in Splitting => Stray(split.index) \/ split.fence = FenceAbove(split.index)

HeaderOutside == pc = "rows" => Stray(split.plain) \/ text[split.plain].fence = NoFence

FencesSound ==
    /\ FileFences /\ ParseFences /\ SectionHeads
    /\ Aligned /\ HeaderOutside
    /\ TablesAreOutsideFences

LEMMA InitFences == ChunkInit => FencesSound
BY DEF ChunkInit, FencesSound, FileFences, ParseFences, SectionHeads, Aligned, HeaderOutside,
       TablesAreOutsideFences, Rows, Splitting, Count

LEMMA FlushedHeads ==
    ASSUME IInv, PathSound, FencesSound, pc = "parsing"
    PROVE  \A s \in DOMAIN Flushed :
             /\ Flushed[s].first = 1 \/ text[Flushed[s].first].heads
             /\ \A x \in 1..Count : Flushed[s].first < x /\ x <= Flushed[s].last => ~ text[x].heads
<1> DEFINE new == [path |-> parse.stack, first |-> parse.first, last |-> Count]
<1>1. /\ sections \in Seq(SectionRecords) /\ parse.stack \in Seq(Nat) /\ Count \in Nat
      /\ parse.first \in 1..(Count + 1)
  BY DEF IInv, ChunkTypeOK, Count, TextSound, SectionsInOrder
<1>2. CASE Flushed = sections
  BY <1>2 DEF FencesSound, SectionHeads
<1>3. CASE Flushed # sections
  <2>1. Flushed = Append(sections, new) /\ parse.first <= Count
    BY <1>3 DEF Flushed
  <2>2. new \in SectionRecords
    BY <1>1 DEF SectionRecords
  <2>3. Count # 0
    BY <1>1, <2>1
  <2>4. /\ new.first = 1 \/ text[new.first].heads
        /\ \A x \in 1..Count : new.first < x /\ x <= new.last => ~ text[x].heads
    BY <1>1, <2>3 DEF PathSound, StackSound, FencesSound, ParseFences
  <2> HIDE DEF new
  <2>5. \A s \in DOMAIN Flushed :
          (s \in DOMAIN sections /\ Flushed[s] = sections[s]) \/ Flushed[s] = new
    BY <1>1, <2>1, <2>2
  <2> QED BY <2>4, <2>5 DEF FencesSound, SectionHeads
<1> QED BY <1>2, <1>3

LEMMA ParseLine_Fences ==
    ASSUME IInv, PathSound, FencesSound, NEW line \in Lines, ParseLine(line)
    PROVE  FencesSound'
<1> DEFINE marker == Toggled(parse.fence, line.kind)
           heads  == marker = NoFence /\ line.kind = "heading"
           entry  == [line |-> line, end |-> Total + line.chars,
                      fence |-> marker, heads |-> heads]
<1>1. /\ pc = "parsing" /\ text' = Append(text, entry) /\ pc' = "parsing" /\ pieces' = pieces
  BY DEF ParseLine
<1>2. /\ Count \in Nat /\ text \in Seq(TextRecords) /\ pieces = <<>>
      /\ parse \in [stack : Seq(Nat), first : Nat, fence : Fences \cup {NoFence}]
      /\ parse.first \in 1..(Count + 1) /\ sections \in Seq(SectionRecords)
  BY <1>1 DEF IInv, ChunkTypeOK, Count, TextSound, SectionsInOrder, SplitSound
<1>9. PICK n \in Nat \ {0} : n = Count + 1
  BY <1>2
<1>3. entry.line = line /\ entry.heads = heads /\ entry.fence = marker
  OBVIOUS
<1> HIDE DEF entry
<1>4. /\ Count' = n /\ \A i \in 1..Count : text'[i] = text[i]
      /\ text'[n] = entry
  <2>1. IInv'
    BY ParseLine_IInv
  <2>2. text' \in Seq(TextRecords) /\ Len(text') = Len(text) + 1
    BY <1>1, <1>2, <2>1 DEF IInv, ChunkTypeOK
  <2>3. text'[Len(text) + 1] = entry
    BY <1>1, <1>2
  <2> QED BY <1>1, <1>2, <1>9, <2>2, <2>3 DEF Count
<1>5. /\ \A i \in 1..Count' : i = n \/ i \in 1..Count
      /\ \A i \in 1..Count : Line(i)' = Line(i)
      /\ Line(n)' = line
  <2>1. \A i \in 1..n : i = n \/ i \in 1..Count
    BY <1>2, <1>9
  <2>2. \A i \in 1..Count : Line(i)' = Line(i)
    BY <1>4 DEF Line
  <2>3. Line(n)' = line
    BY <1>3, <1>4 DEF Line
  <2> QED BY <1>4, <2>1, <2>2, <2>3
<1>6. parse.fence = (IF Count = 0 THEN NoFence ELSE text[Count].fence)
  BY <1>1 DEF FencesSound, ParseFences
<1>7. FileFences'
  <2> SUFFICES ASSUME NEW i \in 1..Count'
               PROVE  /\ text'[i].fence =
                           Toggled(IF i = 1 THEN NoFence ELSE text'[i - 1].fence, Line(i)'.kind)
                      /\ text'[i].heads => text'[i].fence = NoFence /\ Line(i)'.kind = "heading"
    BY DEF FileFences, Toggled
  <2>1. CASE i \in 1..Count
    <3>1. i # 1 => i - 1 \in 1..Count
      BY <1>2, <2>1
    <3> QED BY <1>4, <1>5, <2>1, <3>1 DEF FencesSound, FileFences
  <2>2. CASE i = n
    <3>1. i = 1 <=> Count = 0
      BY <1>2, <1>9, <2>2
    <3>2. i # 1 => i - 1 = Count /\ text'[i - 1] = text[Count]
      BY <1>2, <1>4, <1>9, <2>2
    <3>3. parse.fence = (IF i = 1 THEN NoFence ELSE text'[i - 1].fence)
      BY <1>6, <3>1, <3>2
    <3> QED BY <1>3, <1>4, <1>5, <2>2, <3>3
  <2> QED BY <1>5, <2>1, <2>2
<1>8. ParseFences' /\ SectionHeads'
  <2>1. n # 0 /\ parse'.fence = text'[n].fence
    <3>1. \/ parse' = [stack |-> Headed(parse.stack, Count + 1, line),
                       first |-> Count + 1, fence |-> marker]
          \/ parse' = [parse EXCEPT !.fence = marker]
      BY DEF ParseLine
    <3>2. parse'.fence = marker
      BY <1>2, <3>1
    <3> QED BY <1>3, <1>4, <3>2
  <2>2. CASE heads
    <3>0. /\ parse' = [stack |-> Headed(parse.stack, Count + 1, line),
                       first |-> Count + 1, fence |-> marker]
          /\ sections' = Flushed
      BY <2>2 DEF ParseLine
    <3>1. parse'.first = n /\ sections' = Flushed
      BY <1>9, <3>0
    <3>2. text'[n].heads
      BY <1>3, <1>4, <2>2
    <3>3. ParseFences'
      BY <1>4, <2>1, <3>1, <3>2 DEF ParseFences
    <3>4. \A s \in DOMAIN Flushed : Flushed[s].first \in 1..Count /\ Flushed[s].last <= Count
                                    /\ Flushed[s].last \in Nat
      <4>1. Flushed \in Seq(SectionRecords)
        BY <1>1, FlushSound
      <4>2. \A s \in DOMAIN Flushed : Flushed[s] \in SectionRecords
        BY <4>1
      <4> QED BY <1>1, <1>2, <4>2, FlushSound DEF SectionRecords
    <3>5. ASSUME NEW s \in DOMAIN Flushed
          PROVE  /\ Flushed[s].first = 1 \/ text'[Flushed[s].first].heads
                 /\ \A x \in 1..Count' : Flushed[s].first < x /\ x <= Flushed[s].last =>
                       ~ text'[x].heads
      <4>1. /\ Flushed[s].first = 1 \/ text[Flushed[s].first].heads
            /\ \A x \in 1..Count : Flushed[s].first < x /\ x <= Flushed[s].last => ~ text[x].heads
        BY <1>1, FlushedHeads
      <4>2. \A x \in 1..Count' : x <= Flushed[s].last => x \in 1..Count
        BY <1>2, <1>4, <3>4
      <4> QED BY <1>4, <3>4, <4>1, <4>2
    <3> QED BY <3>1, <3>3, <3>5 DEF SectionHeads
  <2>3. CASE ~ heads
    <3>1. parse'.first = parse.first /\ sections' = sections
      BY <1>2, <2>3 DEF ParseLine
    <3>2. parse.first = 1 \/ (parse.first <= Count' /\ text'[parse.first].heads)
      <4>1. parse.first = 1 \/ (parse.first <= Count /\ text[parse.first].heads)
        BY <1>1 DEF FencesSound, ParseFences
      <4>2. parse.first <= Count => parse.first \in 1..Count
        BY <1>2
      <4>3. parse.first <= Count => parse.first <= n
        BY <1>2, <1>9
      <4> QED BY <1>4, <4>1, <4>2, <4>3
    <3>3. ASSUME NEW s \in DOMAIN sections
          PROVE  /\ sections[s].first = 1 \/ text'[sections[s].first].heads
                 /\ \A x \in 1..Count' : sections[s].first < x /\ x <= sections[s].last =>
                       ~ text'[x].heads
      <4>1. sections[s].first \in 1..Count
        BY DEF PathSound
      <4>2. sections[s].last <= Count /\ sections[s].last \in Nat
        <5>1. sections[s] \in SectionRecords
          BY <1>2
        <5> QED BY <1>1, <1>2, <5>1 DEF IInv, TextSound, SectionsInOrder, Parsed, SectionRecords
      <4>3. \A x \in 1..Count' : x <= sections[s].last => x \in 1..Count
        BY <1>2, <1>4, <4>2
      <4> QED BY <1>4, <4>1, <4>3 DEF FencesSound, SectionHeads
    <3> QED BY <1>4, <2>1, <3>1, <3>2, <3>3 DEF ParseFences, SectionHeads
  <2> QED BY <2>2, <2>3
<1>10. Aligned' /\ HeaderOutside' /\ TablesAreOutsideFences'
  BY <1>1, <1>2 DEF Aligned, HeaderOutside, TablesAreOutsideFences, Rows, Splitting
<1> QED BY <1>7, <1>8, <1>10 DEF FencesSound

\* The marker of a section's line follows from the one above.
LEMMA FenceOfLine ==
    ASSUME IInv, FencesSound, pc \in Splitting, NEW i \in 1..Count,
           Current.first <= i, i <= Current.last
    PROVE  text[i].fence = Toggled(FenceAbove(i), Line(i).kind)
<1>1. Current.first \in 1..Count /\ Current.last \in 1..Count /\ Count \in Nat
  BY InSplitting
<1>2. text[i].fence = Toggled(IF i = 1 THEN NoFence ELSE text[i - 1].fence, Line(i).kind)
  BY DEF FencesSound, FileFences
<1>3. CASE i = Current.first
  <2>1. Current.first = 1 \/ text[i].heads
    BY <1>3, InSplitting DEF FencesSound, SectionHeads, Current
  <2>2. CASE text[i].heads
    <3>1. text[i].fence = NoFence /\ Line(i).kind = "heading"
      BY <2>2 DEF FencesSound, FileFences
    <3> QED BY <1>3, <3>1 DEF FenceAbove, Toggled, Fences
  <2> QED BY <1>2, <1>3, <2>1, <2>2 DEF FenceAbove
<1>4. CASE i # Current.first
  BY <1>1, <1>2, <1>4 DEF FenceAbove
<1> QED BY <1>3, <1>4


\* Once the file is parsed, what is known of it stays.
LEMMA FileStays ==
    ASSUME FencesSound, UNCHANGED <<text, sections>>, pc' # "parsing"
    PROVE  FileFences' /\ ParseFences' /\ SectionHeads'
<1>1. FileFences'
  BY DEF FencesSound, FileFences, Count, Line
<1>2. SectionHeads'
  BY DEF FencesSound, SectionHeads, Count
<1>3. ParseFences'
  BY DEF ParseFences
<1> QED BY <1>1, <1>2, <1>3

\* A step that adds at most one piece.
LEMMA AtMostOneAdded ==
    ASSUME IInv, NEW p, pieces' = pieces \/ pieces' = Append(pieces, p)
    PROVE  /\ \A j \in DOMAIN pieces : j \in DOMAIN pieces' /\ pieces'[j] = pieces[j]
           /\ \A j \in DOMAIN pieces' :
                \/ j \in DOMAIN pieces /\ pieces'[j] = pieces[j]
                \/ pieces' = Append(pieces, p) /\ pieces'[j] = p
<1>1. pieces \in Seq(PieceRecords)
  BY DEF IInv, ChunkTypeOK
<1>2. CASE pieces' = pieces
  BY <1>2
<1>3. CASE pieces' = Append(pieces, p)
  BY <1>1, <1>3
<1> QED BY <1>2, <1>3

\* A row that has taken a fence line stays one, also above later lines.
LEMMA StrayStays ==
    ASSUME IInv, UNCHANGED <<text, sections>>, split'.section = split.section,
           NEW p, pieces' = pieces \/ pieces' = Append(pieces, p),
           NEW n \in Nat, NEW m \in Nat, n <= m, Stray(n)
    PROVE  Stray(m)'
<1>1. PICK j \in Rows : /\ IsFence(pieces[j].first)
                        /\ Current.first < pieces[j].first /\ pieces[j].first < n
  BY DEF Stray
<1>2. pieces[j].first \in Nat
  <2>1. pieces[j] \in PieceRecords
    BY DEF IInv, ChunkTypeOK, Rows
  <2> QED BY <2>1 DEF PieceRecords
<1>3. j \in DOMAIN pieces' /\ pieces'[j] = pieces[j] /\ pieces[j].kind = "table_row"
  BY AtMostOneAdded DEF Rows
<1>4. pieces[j].first < m
  BY <1>1, <1>2
<1>5. Line(pieces[j].first)' = Line(pieces[j].first)'
  OBVIOUS
<1>6. text'[pieces'[j].first].line.kind \in Fences
  BY <1>1, <1>3 DEF IsFence, Line
<1>7. sections'[split'.section].first < pieces'[j].first /\ pieces'[j].first < m
  BY <1>1, <1>3, <1>4 DEF Current
<1> QED BY <1>3, <1>6, <1>7 DEF Stray, IsFence, Rows, Current, Line

\* A row above line h, in the same section, has taken a fence line.
StrayAbove(h) ==
    \E j \in Rows : /\ IsFence(pieces[j].first)
                    /\ pieces[j].first < h
                    /\ \A x \in pieces[j].first..h : ~ text[x].heads

LEMMA TablesStay ==
    ASSUME IInv, FencesSound, text' = text, NEW p,
           pieces' = pieces \/ pieces' = Append(pieces, p),
           \/ pieces' = pieces
           \/ p.kind # "table_row"
           \/ text[p.header].fence = NoFence
           \/ StrayAbove(p.header)
    PROVE  TablesAreOutsideFences'
<1> SUFFICES ASSUME NEW k \in DOMAIN pieces', pieces'[k].kind = "table_row",
                    text'[pieces'[k].header].fence # NoFence
             PROVE  \E j \in DOMAIN pieces' :
                      /\ pieces'[j].kind = "table_row"
                      /\ text'[pieces'[j].first].line.kind \in Fences
                      /\ pieces'[j].first < pieces'[k].header
                      /\ \A x \in pieces'[j].first..pieces'[k].header : ~ text'[x].heads
  BY DEF TablesAreOutsideFences, IsFence, Line, Rows
<1>1. StrayAbove(pieces'[k].header)
  <2>1. CASE k \in DOMAIN pieces /\ pieces'[k] = pieces[k]
    BY <2>1 DEF FencesSound, TablesAreOutsideFences, StrayAbove, Rows
  <2>2. CASE pieces' = Append(pieces, p) /\ pieces'[k] = p /\ pieces' # pieces
    BY <2>2
  <2> QED BY <2>1, <2>2, AtMostOneAdded
<1>2. PICK j \in Rows : /\ IsFence(pieces[j].first)
                        /\ pieces[j].first < pieces'[k].header
                        /\ \A x \in pieces[j].first..pieces'[k].header : ~ text[x].heads
  BY <1>1 DEF StrayAbove
<1>3. j \in DOMAIN pieces' /\ pieces'[j] = pieces[j] /\ pieces[j].kind = "table_row"
  BY AtMostOneAdded DEF Rows
<1> QED BY <1>2, <1>3 DEF IsFence, Line

\* What a step within a section must show.
LEMMA SplitStep ==
    ASSUME IInv, FencesSound, UNCHANGED <<text, sections>>,
           pc \in Splitting, pc' \in Splitting, split'.section = split.section,
           NEW p, pieces' = pieces \/ pieces' = Append(pieces, p),
           \/ pieces' = pieces
           \/ p.kind # "table_row"
           \/ text[p.header].fence = NoFence
           \/ StrayAbove(p.header),
           NEW i \in Nat, i = split.index, NEW j \in Nat, j = split'.index, i <= j,
           Stray(i) \/ Stray(j)' \/ split'.fence = FenceAbove(j),
           NEW h \in Nat, h = split'.plain,
           pc' = "rows" => Stray(h) \/ text[h].fence = NoFence
    PROVE  FencesSound'
<1>1. pc' # "parsing"
  BY DEF Splitting
<1>2. FileFences' /\ ParseFences' /\ SectionHeads'
  BY <1>1, FileStays
<1>3. TablesAreOutsideFences'
  BY TablesStay
<1>4. Stray(i) => Stray(j)'
  BY StrayStays
<1>5. FenceAbove(j)' = FenceAbove(j)
  BY DEF FenceAbove, Current
<1>6. Stray(j)' => Stray(split.index)'
  BY DEF Stray
<1>7. FenceAbove(split.index)' = FenceAbove(j)'
  BY DEF FenceAbove
<1>8. Aligned'
  BY <1>4, <1>5, <1>6, <1>7 DEF Aligned
<1>9. Stray(h) => Stray(h)'
  <2>1. h <= h
    OBVIOUS
  <2> QED BY <2>1, StrayStays
<1>10. Stray(h)' => Stray(split.plain)'
  BY DEF Stray
<1>11. HeaderOutside'
  BY <1>9, <1>10 DEF HeaderOutside
<1> QED BY <1>2, <1>3, <1>8, <1>11 DEF FencesSound

LEMMA QuietStep_Fences ==
    ASSUME IInv, IInv', FencesSound,
           TableEnds \/ FlushPlain \/ ShortLine \/ LongLine \/ CutSegment \/ PlainEnds
    PROVE  FencesSound'
<1>1. /\ UNCHANGED <<text, sections>> /\ pc \in Splitting /\ pc' \in Splitting \ {"rows"}
      /\ split'.section = split.section /\ split'.index = split.index
      /\ split'.fence = split.fence
  <2>1. split \in [section : Nat, index : Nat, plain : Nat, fence : Fences \cup {NoFence}]
    BY DEF IInv, ChunkTypeOK
  <2> QED BY <2>1 DEF TableEnds, FlushPlain, ShortLine, LongLine, CutSegment, PlainEnds,
              InPlain, Splitting
<1>2. PICK p : /\ pieces' = pieces \/ pieces' = Append(pieces, p)
               /\ pieces' = pieces \/ p.kind # "table_row"
  <2>1. CASE TableEnds \/ FlushPlain
    BY <2>1 DEF TableEnds, FlushPlain
  <2>2. CASE ShortLine \/ LongLine \/ PlainEnds
    <3>1. pieces' = pieces \/ pieces' = Append(pieces, Collected)
      BY <2>2 DEF ShortLine, LongLine, PlainEnds
    <3>2. Collected.kind # "table_row"
      BY DEF Collected, Piece
    <3> QED BY <3>1, <3>2
  <2>3. CASE CutSegment
    <3>1. PICK to : pieces' = Append(pieces, Segment(cut.from, to))
      BY <2>3 DEF CutSegment
    <3>2. Segment(cut.from, to).kind # "table_row"
      BY DEF Segment
    <3> QED BY <3>1, <3>2
  <2> QED BY <2>1, <2>2, <2>3
<1>3. split.index \in Nat /\ split'.plain \in Nat
  BY DEF IInv, ChunkTypeOK
<1>4. PICK i \in Nat : i = split.index
  BY <1>3
<1>5. PICK h \in Nat : h = split'.plain
  BY <1>3
<1>6. Stray(i) \/ split'.fence = FenceAbove(i)
  BY <1>1, <1>4 DEF FencesSound, Aligned
<1>7. i = split'.index /\ i <= i
  BY <1>1, <1>4
<1> QED BY <1>1, <1>2, <1>4, <1>5, <1>6, <1>7, SplitStep

\* The marker of _split_section goes over a line as the file's does.
LEMMA MarkerFollows ==
    ASSUME IInv, FencesSound, pc \in Splitting, NEW i \in 1..Count,
           Current.first <= i, i <= Current.last,
           NEW marker, marker = FenceAbove(i)
    PROVE  Toggled(marker, Line(i).kind) = FenceAbove(i + 1)
<1>1. Current.first \in 1..Count /\ Count \in Nat
  BY InSplitting
<1>2. i + 1 # Current.first /\ (i + 1) - 1 = i
  BY <1>1
<1>3. FenceAbove(i + 1) = text[i].fence
  BY <1>2 DEF FenceAbove
<1> QED BY <1>3, FenceOfLine

LEMMA PlainStep_Fences ==
    ASSUME IInv, IInv', FencesSound, FenceLine \/ PlainLine
    PROVE  FencesSound'
<1>1. /\ UNCHANGED <<text, sections, pieces>> /\ pc = "splitting" /\ pc' = "splitting"
      /\ split.index <= Current.last
      /\ split'.section = split.section /\ split'.index = split.index + 1
      /\ split'.fence = Toggled(split.fence, Line(split.index).kind)
  <2>1. split \in [section : Nat, index : Nat, plain : Nat, fence : Fences \cup {NoFence}]
    BY DEF IInv, ChunkTypeOK
  <2>2. PlainLine => Toggled(split.fence, Line(split.index).kind) = split.fence
    BY DEF PlainLine, IsFence, Toggled
  <2>3. CASE FenceLine
    BY <2>1, <2>3 DEF FenceLine, InSection
  <2>4. CASE PlainLine
    BY <2>1, <2>2, <2>4 DEF PlainLine, InSection
  <2> QED BY <2>3, <2>4
<1>2. /\ split.index \in 1..Count /\ Current.first <= split.index /\ split'.plain \in Nat
      /\ Count \in Nat
  <2>1. /\ Current.first \in 1..Count /\ Current.last \in 1..Count /\ Count \in Nat
        /\ split.index \in 1..(Count + 1) /\ Current.first <= split.index
        /\ split.plain \in 1..(Count + 1) /\ Current.first <= split.plain
    BY <1>1, InSplitting DEF Splitting
  <2>2. split'.plain \in Nat
    BY DEF IInv, ChunkTypeOK
  <2> QED BY <1>1, <2>1, <2>2
<1>3. PICK i \in Nat : i = split.index
  BY <1>2
<1>4. PICK h \in Nat : h = split'.plain
  BY <1>2
<1>5. Stray(i) \/ split'.fence = FenceAbove(i + 1)
  <2>1. Stray(i) \/ split.fence = FenceAbove(i)
    BY <1>1, <1>3 DEF FencesSound, Aligned, Splitting
  <2> QED BY <1>1, <1>2, <1>3, <2>1, MarkerFollows DEF Splitting
<1>6. i + 1 = split'.index /\ i <= i + 1 /\ i + 1 \in Nat
  BY <1>1, <1>3
<1>7. pc \in Splitting /\ pc' \in Splitting /\ pc' # "rows"
  BY <1>1 DEF Splitting
<1> QED BY <1>1, <1>3, <1>4, <1>5, <1>6, <1>7, SplitStep

LEMMA TableStep_Fences ==
    ASSUME IInv, IInv', FencesSound, TableBegins \/ TableWithoutRows
    PROVE  FencesSound'
<1>1. /\ UNCHANGED <<text, sections, pieces>> /\ pc = "splitting" /\ pc' \in Splitting
      /\ split'.section = split.section /\ split'.index = split.index + 2
      /\ split'.fence = split.fence /\ split'.plain = split.plain
      /\ ~ IsFence(split.index) /\ split.fence = NoFence
      /\ split.index + 1 <= Current.last /\ Line(split.index + 1).kind = "separator"
      /\ pc' = "rows" => split.plain = split.index
  <2>1. split \in [section : Nat, index : Nat, plain : Nat, fence : Fences \cup {NoFence}]
    BY DEF IInv, ChunkTypeOK
  <2> QED BY <2>1 DEF TableBegins, TableWithoutRows, InSection, TableAt, Splitting
<1>2. /\ Current.first \in 1..Count /\ Current.last \in 1..Count /\ Count \in Nat
      /\ split.index \in 1..(Count + 1) /\ Current.first <= split.index
      /\ split.plain \in Nat
  BY <1>1, InSplitting DEF Splitting
<1>3. PICK i \in Nat : i = split.index
  BY <1>2
<1>4. PICK h \in Nat : h = split.plain
  BY <1>2
<1>5. /\ i \in 1..Count /\ i + 1 \in 1..Count /\ i + 2 \in Nat
      /\ Current.first <= i /\ i <= Current.last
      /\ Current.first <= i + 1 /\ i + 1 <= Current.last /\ (i + 1) + 1 = i + 2
  BY <1>1, <1>2, <1>3
<1>6. pc \in Splitting
  BY <1>1 DEF Splitting
<1>7. Stray(i) \/ (FenceAbove(i) = NoFence /\ split.fence = FenceAbove(i))
  BY <1>1, <1>3, <1>6 DEF FencesSound, Aligned
<1>8. Toggled(NoFence, Line(i).kind) = NoFence
  BY <1>1, <1>3 DEF IsFence, Toggled
<1>9. Toggled(NoFence, Line(i + 1).kind) = NoFence
  BY <1>1, <1>3 DEF Toggled, Fences
<1>10. FenceAbove(i) = NoFence => FenceAbove(i + 2) = NoFence /\ text[i].fence = NoFence
  <2> SUFFICES ASSUME FenceAbove(i) = NoFence
               PROVE  FenceAbove(i + 2) = NoFence /\ text[i].fence = NoFence
    OBVIOUS
  <2>1. FenceAbove(i + 1) = NoFence
    BY <1>5, <1>6, <1>8, MarkerFollows
  <2>2. FenceAbove(i + 2) = NoFence
    BY <1>5, <1>6, <1>9, <2>1, MarkerFollows
  <2>3. text[i].fence = NoFence
    BY <1>5, <1>6, <1>8, FenceOfLine
  <2> QED BY <2>2, <2>3
<1>11. Stray(i) \/ split'.fence = FenceAbove(i + 2)
  BY <1>1, <1>7, <1>10
<1>12. pc' = "rows" => Stray(h) \/ text[h].fence = NoFence
  BY <1>1, <1>3, <1>4, <1>7, <1>10
<1>13. i + 2 = split'.index /\ i <= i + 2 /\ h = split'.plain
  BY <1>1, <1>3, <1>4
<1> QED BY <1>1, <1>3, <1>4, <1>5, <1>6, <1>11, <1>12, <1>13, SplitStep

LEMMA TableRow_Fences ==
    ASSUME IInv, IInv', FencesSound, TableRow
    PROVE  FencesSound'
<1> DEFINE p == [Piece("table_row", split.index, split.index) EXCEPT !.header = split.plain]
<1>1. /\ UNCHANGED <<text, sections>> /\ pc = "rows" /\ pc' = "rows"
      /\ split'.section = split.section /\ split'.index = split.index + 1
      /\ split'.fence = split.fence /\ split'.plain = split.plain
      /\ split.index <= Current.last
      /\ pieces' = Append(pieces, p)
  <2>1. split \in [section : Nat, index : Nat, plain : Nat, fence : Fences \cup {NoFence}]
    BY DEF IInv, ChunkTypeOK
  <2> QED BY <2>1 DEF TableRow, IsRow
<1>2. pc \in Splitting /\ pc' \in Splitting
  BY <1>1 DEF Splitting
<1>3. /\ Current.first \in 1..Count /\ Current.last \in 1..Count /\ Count \in Nat
      /\ split.index \in Nat /\ split.plain \in Nat
      /\ Current.first <= split.plain /\ split.plain + 2 <= split.index
      /\ pieces \in Seq(PieceRecords)
  BY <1>1, <1>2, InSplitting DEF IInv, SplitSound, ChunkTypeOK
<1>4. PICK i \in Nat : i = split.index
  BY <1>3
<1>5. PICK h \in Nat : h = split.plain
  BY <1>3
<1>6. p.kind = "table_row" /\ p.first = i /\ p.header = h
  BY <1>4, <1>5 DEF Piece
<1> HIDE DEF p
<1>7. /\ i \in 1..Count /\ Current.first <= i /\ i <= Current.last /\ Current.first < i
      /\ i + 1 \in Nat /\ h \in 1..Count /\ h <= Current.last
  <2>1. i <= Current.last
    BY <1>1, <1>4
  <2>2. Current.first <= h /\ h + 2 <= i
    BY <1>3, <1>4, <1>5
  <2>3. /\ Current.first \in Nat /\ 1 <= Current.first
        /\ Current.last \in Nat /\ Current.last <= Count /\ Count \in Nat
    BY <1>3
  <2> QED BY <2>1, <2>2, <2>3
<1>8. Stray(h) => StrayAbove(h)
  <2> SUFFICES ASSUME NEW j \in Rows, IsFence(pieces[j].first),
                      Current.first < pieces[j].first, pieces[j].first < h
               PROVE  StrayAbove(h)
    BY DEF Stray
  <2>1. pieces[j].first \in Nat
    <3>1. pieces[j] \in PieceRecords
      BY <1>3 DEF Rows
    <3> QED BY <3>1 DEF PieceRecords
  <2>2. \A x \in pieces[j].first..h : /\ x \in 1..Count /\ Current.first < x
                                      /\ x <= Current.last
    <3>1. /\ Current.first \in Nat /\ Current.last \in Nat /\ Current.last <= Count
          /\ Count \in Nat
      BY <1>3
    <3>2. Current.first < pieces[j].first /\ h <= Current.last
      BY <1>7
    <3> QED BY <2>1, <3>1, <3>2
  <2>3. \A x \in 1..Count : Current.first < x /\ x <= Current.last => ~ text[x].heads
    BY <1>2, InSplitting DEF FencesSound, SectionHeads, Current
  <2> QED BY <2>2, <2>3 DEF StrayAbove
<1>9. text[p.header].fence = NoFence \/ StrayAbove(p.header)
  <2>1. Stray(h) \/ text[h].fence = NoFence
    BY <1>1, <1>5 DEF FencesSound, HeaderOutside
  <2> QED BY <1>6, <1>8, <2>1
<1>10. Stray(i) \/ Stray(i + 1)' \/ split'.fence = FenceAbove(i + 1)
  <2>1. CASE IsFence(i)
    <3>1. PICK k \in DOMAIN pieces' : pieces'[k] = p
      <4>1. /\ Len(pieces) + 1 \in DOMAIN pieces'
            /\ pieces'[Len(pieces) + 1] = p
        BY <1>1, <1>3
      <4> QED BY <4>1
    <3>2. /\ pieces'[k].kind = "table_row" /\ pieces'[k].first = i
          /\ text'[i].line.kind \in Fences
          /\ sections'[split'.section].first < i /\ i < i + 1
      BY <1>1, <1>6, <1>7, <2>1, <3>1 DEF IsFence, Line, Current
    <3>3. Stray(i + 1)'
      BY <3>1, <3>2 DEF Stray, Rows, IsFence, Line, Current
    <3> QED BY <3>3
  <2>2. CASE ~ IsFence(i)
    <3>1. Stray(i) \/ split.fence = FenceAbove(i)
      BY <1>2, <1>4 DEF FencesSound, Aligned
    <3>2. Toggled(split.fence, Line(i).kind) = split.fence
      BY <2>2 DEF IsFence, Toggled
    <3> QED BY <1>1, <1>2, <1>7, <3>1, <3>2, MarkerFollows
  <2> QED BY <2>1, <2>2
<1>11. Stray(h) \/ text[h].fence = NoFence
  BY <1>1, <1>5 DEF FencesSound, HeaderOutside
<1>12. i + 1 = split'.index /\ i <= i + 1 /\ h = split'.plain
  BY <1>1, <1>4, <1>5
<1> QED BY <1>1, <1>2, <1>4, <1>5, <1>7, <1>9, <1>10, <1>11, <1>12, SplitStep

\* A section begins with no marker and no row above.
LEMMA SectionStep_Fences ==
    ASSUME IInv, IInv', PathSound, FencesSound, ParseEnds \/ SectionEnds
    PROVE  FencesSound'
<1>1. /\ text' = text /\ pieces' = pieces
      /\ sections' = sections \/ (sections' = Flushed /\ pc = "parsing")
      /\ \/ pc' = "done"
         \/ /\ pc' = "splitting"
            /\ split'.index = sections'[split'.section].first /\ split'.fence = NoFence
  BY DEF ParseEnds, SectionEnds, AtSection
<1>2. pc' # "parsing" /\ Count' = Count
  BY <1>1 DEF Count
<1>3. FileFences'
  BY <1>1 DEF FencesSound, FileFences, Count, Line
<1>4. ParseFences'
  BY <1>2 DEF ParseFences
<1>5. SectionHeads'
  <2>1. \A s \in DOMAIN sections' :
          /\ sections'[s].first = 1 \/ text[sections'[s].first].heads
          /\ \A x \in 1..Count : sections'[s].first < x /\ x <= sections'[s].last =>
               ~ text[x].heads
    BY <1>1, FlushedHeads DEF FencesSound, SectionHeads
  <2> QED BY <1>1, <1>2, <2>1 DEF SectionHeads
<1>6. TablesAreOutsideFences'
  BY <1>1, TablesStay
<1>7. Aligned'
  BY <1>1 DEF Aligned, FenceAbove, Current, Splitting
<1>8. HeaderOutside'
  BY <1>1 DEF HeaderOutside
<1> QED BY <1>3, <1>4, <1>5, <1>6, <1>7, <1>8 DEF FencesSound

LEMMA Next_Fences ==
    ASSUME IInv, IInv', PathSound, FencesSound, [ChunkNext]_chunkVars
    PROVE  FencesSound'
<1>1. CASE UNCHANGED chunkVars
  BY <1>1 DEF chunkVars, FencesSound, FileFences, ParseFences, SectionHeads, Aligned,
              HeaderOutside, TablesAreOutsideFences, Stray, StrayAbove, FenceAbove, Rows,
              IsFence, Line, Current, Count
<1>2. CASE \E line \in Lines : ParseLine(line)
  BY <1>2, ParseLine_Fences
<1>3. CASE ParseEnds \/ SectionEnds
  BY <1>3, SectionStep_Fences
<1>4. CASE FenceLine \/ PlainLine
  BY <1>4, PlainStep_Fences
<1>5. CASE TableBegins \/ TableWithoutRows
  BY <1>5, TableStep_Fences
<1>6. CASE TableRow
  BY <1>6, TableRow_Fences
<1>7. CASE TableEnds \/ FlushPlain \/ ShortLine \/ LongLine \/ CutSegment \/ PlainEnds
  BY <1>7, QuietStep_Fences
<1> QED BY <1>1, <1>2, <1>3, <1>4, <1>5, <1>6, <1>7 DEF ChunkNext, Returned

\* Whatever the order of fences, tables and headings, a table is found in a fence only
\* below a row of its section that has taken a fence line.
THEOREM TablesStayOutside == ChunkSpec => []TablesAreOutsideFences
<1>1. IInv /\ IInv' /\ PathSound /\ [ChunkNext]_chunkVars => PathSound'
  BY Next_Paths
<1>2. IInv /\ IInv' /\ PathSound /\ FencesSound /\ [ChunkNext]_chunkVars => FencesSound'
  BY Next_Fences
<1>3. FencesSound => TablesAreOutsideFences
  BY DEF FencesSound
<1> QED BY <1>1, <1>2, <1>3, InitPaths, InitFences, Invariance, PTL DEF ChunkSpec
=============================================================================
