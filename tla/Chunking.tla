------------------------------ MODULE Chunking ------------------------------
(***************************************************************************)
(* chunk_markdown (chunking.py): a file is parsed into sections by its     *)
(* headings (_parse_sections), each section is split into table rows and   *)
(* plain text (_split_section), and plain text into pieces of limited size *)
(* (_split_plain_lines) that overlap.  Iterations of loops are steps.      *)
(*                                                                         *)
(* The file is chosen line by line while it is parsed.  A line is its kind *)
(* and its length; `end' is the number of characters up to its end, so     *)
(* that lengths of line ranges are differences.  The lines the code        *)
(* collects in lists (current_lines, plain, current) are always            *)
(* consecutive, and are kept as line numbers.                              *)
(***************************************************************************)
EXTENDS Naturals, Sequences

CONSTANTS
    Lines,                        \* the lines a file may have
    Target, Soft, Hard, Overlap,  \* ChunkProfile, in characters
    MaxLines                      \* bound: lines of a file

\* What the regular expressions and tests of the code tell apart.  "heading" is
\* what looks like one, in a fence or not, of a level, with a title or a blank one;
\* pipe says that the line has a "|"; newline, that it ends with "\n" and not with
\* another of the separators of splitlines or the end of the file.
Fences == {"backticks", "tildes"}
LineRecords ==
    [kind : {"text", "blank", "heading", "separator"} \cup Fences, level : Nat,
     titled : BOOLEAN, pipe : BOOLEAN, newline : BOOLEAN, chars : Nat]

ASSUME LinesAssumption ==
    /\ Lines \subseteq LineRecords
    /\ \A l \in Lines : /\ l.chars > 0
                        /\ l.kind = "blank" => ~ l.pipe
                        /\ l.kind = "separator" => l.pipe
                        /\ l.kind = "heading" => l.level \in 1..6
ASSUME ProfileAssumption ==
    /\ Target \in Nat /\ Soft \in Nat /\ Hard \in Nat \ {0} /\ Overlap \in Nat
    /\ MaxLines \in Nat

VARIABLES
    pc,         \* the loop under way
    text,       \* the lines read so far
    parse,      \* _parse_sections: heading_stack, start of current_lines, fence_marker
    sections,   \* what it returns
    split,      \* _split_section: section, index, start of plain, fence_marker
    cut,        \* _split_plain_lines: next line, start of current, current_chars;
                \* _hard_cut_line: start
    pieces      \* all pieces in order

chunkVars == <<pc, text, parse, sections, split, cut, pieces>>

NoFence == "none"

-----------------------------------------------------------------------------
(* Lines                                                                   *)

Count == Len(text)
Line(i) == text[i].line
Total == IF Count = 0 THEN 0 ELSE text[Count].end

\* Characters of the lines from i to j.
Span(i, j) == text[j].end - text[i].end + Line(i).chars

\* Seeded fault: only the first line is looked at.
StartsWithText(i, j) == Line(i).kind # "blank"

HasText(i, j) == \E k \in i..j : Line(k).kind # "blank"
IsFence(k) == Line(k).kind \in Fences

\* A marker opens a fence, or closes the one it opened.
Toggled(marker, kind) ==
    IF kind \notin Fences THEN marker
    ELSE IF marker = NoFence THEN kind
    ELSE IF marker = kind THEN NoFence ELSE marker

-----------------------------------------------------------------------------
(* _parse_sections                                                         *)

\* Seeded fault: the stack is not cut back to the level.
HeadedOver(stack, n, line) ==
    [k \in 1..(IF Len(stack) > line.level THEN Len(stack) ELSE line.level) |->
        IF k = line.level THEN (IF line.titled THEN n ELSE 0)
        ELSE IF k <= Len(stack) THEN stack[k] ELSE 0]

\* heading_stack after heading n; 0 stands for "".
Headed(stack, n, line) ==
    [k \in 1..line.level |->
        IF k = line.level THEN (IF line.titled THEN n ELSE 0)
        ELSE IF k <= Len(stack) THEN stack[k] ELSE 0]

\* flush
Flushed ==
    IF parse.first <= Count /\ HasText(parse.first, Count)
    THEN Append(sections, [path |-> parse.stack, first |-> parse.first, last |-> Count])
    ELSE sections

ParseLine(line) ==
    LET marker == Toggled(parse.fence, line.kind)
        heads  == marker = NoFence /\ line.kind = "heading"
    IN
    /\ pc = "parsing" /\ Count < MaxLines
    /\ text' = Append(text, [line |-> line, end |-> Total + line.chars,
                             fence |-> marker, heads |-> heads])
    /\ \/ /\ heads
          /\ sections' = Flushed
          /\ parse' = [stack |-> Headed(parse.stack, Count + 1, line),
                       first |-> Count + 1, fence |-> marker]
       \/ /\ ~ heads
          /\ parse' = [parse EXCEPT !.fence = marker]
          /\ UNCHANGED sections
    /\ UNCHANGED <<pc, split, cut, pieces>>

AtSection(k) ==
    IF k <= Len(sections')
    THEN /\ pc' = "splitting"
         /\ split' = [section |-> k, index |-> sections'[k].first,
                      plain |-> sections'[k].first, fence |-> NoFence]
    ELSE /\ pc' = "done" /\ UNCHANGED split

ParseEnds ==
    /\ pc = "parsing"
    /\ sections' = Flushed
    /\ AtSection(1)
    /\ UNCHANGED <<text, parse, cut, pieces>>

-----------------------------------------------------------------------------
(* _split_section                                                          *)

Current == sections[split.section]
InSection == pc = "splitting" /\ split.index <= Current.last

\* Seeded fault: the fence is not looked at.
TableAnywhere(i) == i + 1 <= Current.last /\ Line(i).pipe /\ Line(i + 1).kind = "separator"

\* A row and a separator below it, outside a fence.
TableAt(i) ==
    /\ split.fence = NoFence
    /\ i + 1 <= Current.last
    /\ Line(i).pipe /\ Line(i + 1).kind = "separator"

IsRow(i) == i <= Current.last /\ Line(i).pipe

Piece(kind, first, last) ==
    [kind |-> kind, first |-> first, last |-> last, header |-> 0, from |-> 0, to |-> 0]

FenceLine ==
    /\ InSection /\ IsFence(split.index)
    /\ split' = [split EXCEPT !.index = @ + 1, !.fence = Toggled(@, Line(split.index).kind)]
    /\ UNCHANGED <<pc, text, parse, sections, cut, pieces>>

\* One piece for each row, once the plain text above is flushed.  plain is the
\* header meanwhile.
TableBegins ==
    LET i == split.index IN
    /\ InSection /\ ~ IsFence(i) /\ TableAt(i) /\ IsRow(i + 2)
    /\ split.plain = i
    /\ split' = [split EXCEPT !.index = i + 2]
    /\ pc' = "rows"
    /\ UNCHANGED <<text, parse, sections, cut, pieces>>

TableRow ==
    LET i == split.index IN
    /\ pc = "rows" /\ IsRow(i)
    /\ pieces' = Append(pieces, [Piece("table_row", i, i) EXCEPT !.header = split.plain])
    /\ split' = [split EXCEPT !.index = i + 1]
    /\ UNCHANGED <<pc, text, parse, sections, cut>>

TableEnds ==
    /\ pc = "rows" /\ ~ IsRow(split.index)
    /\ split' = [split EXCEPT !.plain = split.index]
    /\ pc' = "splitting"
    /\ UNCHANGED <<text, parse, sections, cut, pieces>>

TableWithoutRows ==
    /\ InSection /\ ~ IsFence(split.index) /\ TableAt(split.index) /\ ~ IsRow(split.index + 2)
    /\ split' = [split EXCEPT !.index = @ + 2]
    /\ UNCHANGED <<pc, text, parse, sections, cut, pieces>>

PlainLine ==
    /\ InSection /\ ~ IsFence(split.index) /\ ~ TableAt(split.index)
    /\ split' = [split EXCEPT !.index = @ + 1]
    /\ UNCHANGED <<pc, text, parse, sections, cut, pieces>>

\* flush_plain: before the rows of a table, and at the end.
FlushPlain ==
    LET i == split.index IN
    /\ pc = "splitting" /\ split.plain < i
    /\ i <= Current.last => ~ IsFence(i) /\ TableAt(i) /\ IsRow(i + 2)
    /\ pc' = "flushing"
    /\ cut' = [next |-> split.plain, first |-> split.plain, chars |-> 0, from |-> 0]
    /\ UNCHANGED <<text, parse, sections, split, pieces>>

SectionEnds ==
    /\ pc = "splitting" /\ split.index > Current.last /\ split.plain = split.index
    /\ UNCHANGED <<text, parse, sections, cut, pieces>>
    /\ AtSection(split.section + 1)

-----------------------------------------------------------------------------
(* _split_plain_lines, for the lines from split.plain to split.index - 1   *)

Collected == Piece("text", cut.first, cut.next - 1)
InPlain == pc = "flushing" /\ cut.next < split.index

\* Seeded fault: everything is carried over.
OverlapOfAll(k) == k = cut.first

\* _overlap_lines: where the lines that are carried over begin.
OverlapFrom(k) ==
    IF Overlap = 0 THEN k = cut.next
    ELSE /\ k \in cut.first..(cut.next - 1)
         /\ k = cut.first \/ Span(k, cut.next - 1) >= Overlap
         /\ \A j \in (k + 1)..(cut.next - 1) : Span(j, cut.next - 1) < Overlap

\* How much that is.
Carried(k) == IF k = cut.next THEN 0 ELSE Span(k, cut.next - 1)

ShouldFlush(length) ==
    /\ cut.first < cut.next
    /\ \/ cut.chars >= Target
       \/ cut.chars + length > Soft
       \/ cut.chars + length > Hard

ShortLine ==
    LET length == Line(cut.next).chars IN
    /\ InPlain /\ length <= Hard
    /\ \/ /\ ShouldFlush(length)
          /\ pieces' = Append(pieces, Collected)
          /\ \E k \in cut.first..cut.next :
               /\ OverlapFrom(k)
               /\ cut' = [cut EXCEPT !.next = @ + 1, !.first = k, !.chars = Carried(k) + length]
       \/ /\ ~ ShouldFlush(length)
          /\ cut' = [cut EXCEPT !.next = @ + 1, !.chars = @ + length]
          /\ UNCHANGED pieces
    /\ UNCHANGED <<pc, text, parse, sections, split>>

\* What was collected is a piece, and the line is cut.
LongLine ==
    /\ InPlain /\ Line(cut.next).chars > Hard
    /\ pieces' = IF cut.first < cut.next THEN Append(pieces, Collected) ELSE pieces
    /\ cut' = [next |-> cut.next, first |-> cut.next + 1, chars |-> 0, from |-> 0]
    /\ pc' = "cutting"
    /\ UNCHANGED <<text, parse, sections, split>>

\* Seeded fault: one character is left out between segments.
CutStepTooFar == Hard + 1

CutStep == IF Hard > Overlap THEN Hard - Overlap ELSE 1

Segment(from, to) ==
    [kind |-> "segment", first |-> cut.next, last |-> cut.next, header |-> 0,
     from |-> from, to |-> to]

\* _hard_cut_line, one segment.  That a segment without text is dropped is left out.
CutSegment ==
    LET length == Line(cut.next).chars IN
    /\ pc = "cutting"
    /\ pieces' = Append(pieces,
         Segment(cut.from, IF cut.from + Hard < length THEN cut.from + Hard ELSE length))
    /\ \/ /\ cut.from + Hard >= length
          /\ cut' = [cut EXCEPT !.next = @ + 1, !.from = 0]
          /\ pc' = "flushing"
       \/ /\ cut.from + Hard < length
          /\ cut' = [cut EXCEPT !.from = @ + CutStep]
          /\ UNCHANGED pc
    /\ UNCHANGED <<text, parse, sections, split>>

PlainEnds ==
    /\ pc = "flushing" /\ cut.next = split.index
    /\ pieces' = IF cut.first < cut.next /\ HasText(cut.first, cut.next - 1)
                 THEN Append(pieces, Collected) ELSE pieces
    /\ split' = [split EXCEPT !.plain = split.index]
    /\ pc' = "splitting"
    /\ UNCHANGED <<text, parse, sections, cut>>

\* chunk_markdown drops the pieces without text.
IsChunk(p) == p.kind # "table_row" => HasText(p.first, p.last)

-----------------------------------------------------------------------------
ChunkInit ==
    /\ pc = "parsing"
    /\ text = <<>>
    /\ parse = [stack |-> <<>>, first |-> 1, fence |-> NoFence]
    /\ sections = <<>>
    /\ split = [section |-> 0, index |-> 0, plain |-> 0, fence |-> NoFence]
    /\ cut = [next |-> 0, first |-> 0, chars |-> 0, from |-> 0]
    /\ pieces = <<>>

\* The chunks are returned; nothing more happens.
Returned == pc = "done" /\ UNCHANGED chunkVars

ChunkNext ==
    \/ \E line \in Lines : ParseLine(line)
    \/ ParseEnds
    \/ FenceLine \/ TableBegins \/ TableRow \/ TableEnds \/ TableWithoutRows \/ PlainLine
    \/ FlushPlain \/ SectionEnds
    \/ ShortLine \/ LongLine \/ CutSegment \/ PlainEnds
    \/ Returned

ChunkSpec == ChunkInit /\ [][ChunkNext]_chunkVars

-----------------------------------------------------------------------------
(* Properties                                                              *)

TextRecords ==
    [line : Lines, end : Nat, fence : Fences \cup {NoFence}, heads : BOOLEAN]

SectionRecords == [path : Seq(Nat), first : Nat, last : Nat]

PieceRecords ==
    [kind : {"text", "table_row", "segment"}, first : Nat, last : Nat, header : Nat,
     from : Nat, to : Nat]

\* Every variable stays within its type; and current_chars, which is kept up to
\* date by hand through flushes and overlaps, is the length of what is collected.
ChunkTypeOK ==
    /\ pc \in {"parsing", "splitting", "rows", "flushing", "cutting", "done"}
    /\ text \in Seq(TextRecords) /\ Count <= MaxLines
    /\ parse \in [stack : Seq(Nat), first : Nat, fence : Fences \cup {NoFence}]
    /\ sections \in Seq(SectionRecords)
    /\ split \in [section : Nat, index : Nat, plain : Nat, fence : Fences \cup {NoFence}]
    /\ cut \in [next : Nat, first : Nat, chars : Nat, from : Nat]
    /\ pieces \in Seq(PieceRecords)
    /\ pc = "flushing" =>
         cut.chars = IF cut.first < cut.next THEN Span(cut.first, cut.next - 1) ELSE 0

\* Line m is the heading of level l that encloses line n.
Encloses(m, l, n) ==
    /\ m \in 1..n /\ text[m].heads
    /\ Line(m).level = l /\ Line(m).titled
    /\ \A k \in (m + 1)..n : text[k].heads => Line(k).level > l

PathAt(path, l) == IF l <= Len(path) THEN path[l] ELSE 0

\* The heading path of a section, kept in a stack that is cut back and padded, is
\* made of the headings that enclose it and have a title, at each level the last one.
PathsEnclose ==
    \A s \in DOMAIN sections : \A l \in 1..6 :
        LET m == PathAt(sections[s].path, l) IN
        /\ m # 0 => Encloses(m, l, sections[s].first)
        /\ m = 0 => \A x \in 1..Count : ~ Encloses(x, l, sections[s].first)

Rows == {k \in DOMAIN pieces : pieces[k].kind = "table_row"}

\* Every line with text is in a chunk: in a range of lines, as a row, as the header
\* of a row, or, when it is cut, in segments without a gap.  Only the separator of a
\* table with rows, the line below their header, is left out.
NothingIsLost ==
    pc = "done" => \A i \in 1..Count : Line(i).kind # "blank" =>
        \/ \E k \in DOMAIN pieces :
              pieces[k].kind # "segment" /\ i \in pieces[k].first..pieces[k].last /\ IsChunk(pieces[k])
        \/ \E k \in Rows : i \in {pieces[k].header, pieces[k].header + 1}
        \/ \A x \in 0..(Line(i).chars - 1) :
              \E k \in DOMAIN pieces : /\ pieces[k].kind = "segment" /\ pieces[k].first = i
                                      /\ pieces[k].from <= x /\ x < pieces[k].to

\* Every piece goes beyond the one before it, however much of that it repeats, and
\* never begins before it: no chunk is contained in another.
PiecesAdvance ==
    \A k \in DOMAIN pieces : k > 1 =>
        LET p == pieces[k - 1]
            q == pieces[k]
        IN  \/ p.last < q.last /\ p.first <= q.first
            \/ /\ p.kind = "segment" /\ q.kind = "segment" /\ p.first = q.first
               /\ p.from < q.from /\ q.from <= p.to /\ p.to < q.to

\* The limits are on lines collected before the next one is looked at, and the
\* overlap consists of whole lines: a piece of text exceeds hard_chars by at most
\* one line and the overlap.  A segment stays within it.  Rows of tables are not
\* bounded: a row is one chunk, however long, although the documentation says that
\* it "should not automatically become an arbitrarily large single embedding unit".
PiecesAreBounded ==
    \A k \in DOMAIN pieces :
        LET p == pieces[k] IN
        /\ p.kind = "text" => Span(p.first, p.last) <= 2 * Hard + Overlap - 1
        /\ p.kind = "segment" => p.to - p.from <= Hard

\* _parse_sections and _split_section follow fences independently, over the file and
\* over a section, and yet agree: no table is found in a fence, unless a table
\* above, in the same section, has taken a fence line with a "|" for a row.
TablesAreOutsideFences ==
    \A k \in Rows : text[pieces[k].header].fence # NoFence =>
        \E j \in Rows : /\ IsFence(pieces[j].first)
                        /\ pieces[j].first < pieces[k].header
                        /\ \A x \in pieces[j].first..pieces[k].header : ~ text[x].heads
=============================================================================
