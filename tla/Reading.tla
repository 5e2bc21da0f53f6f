------------------------------ MODULE Reading ------------------------------
(***************************************************************************)
(* What is answered about a file of a scope: resolve_source_chunk          *)
(* (source_resolver.py) finds the chunk of a line, and read_markdown_view  *)
(* (reading.py) returns lines around a hit, cut to a number of characters, *)
(* with the line numbers of what is returned.  ScopeFiles says which files *)
(* these are, and the file is the one Chunking has parsed; all split it    *)
(* with splitlines, while the end of a cut answer is found by counting     *)
(* "\n".                                                                   *)
(***************************************************************************)
EXTENDS Chunking, FiniteSets, ScopeFiles

CONSTANTS
    Contexts,     \* values of context_lines
    Limits,       \* values of max_chars
    Scopes        \* scopes and the files below their roots

ASSUME RequestAssumption == Contexts \subseteq Nat /\ Limits \subseteq Nat \ {0}
ASSUME ScopesAssumption == \A s \in Scopes : IsScope(s)

VARIABLE scope    \* the scope that is asked about

readVars == <<chunkVars, scope>>

Least(a, b) == IF a < b THEN a ELSE b
Greatest(a, b) == IF a > b THEN a ELSE b

-----------------------------------------------------------------------------
\* hit and around are answered for these lines.
Answered(lineStart, lineEnd) == 1 <= lineStart /\ lineStart <= lineEnd /\ lineStart <= Count

\* The lines selected, as <<first, last>>.
Selected(view, lineStart, lineEnd, context) ==
    IF view = "full" THEN <<IF Count = 0 THEN 0 ELSE 1, Count>>
    ELSE LET end == Least(lineEnd, Count) IN
         IF view = "hit" THEN <<lineStart, end>>
         ELSE <<IF lineStart > context THEN Greatest(1, lineStart - context) ELSE 1,
                Least(Count, end + context)>>

\* How many characters of these lines are returned.
Bounded(first, last, limit) == IF first = 0 THEN 0 ELSE Least(Span(first, last), limit)

\* Newlines among the first characters of these lines.
Newlines(first, last, chars) ==
    {k \in first..last : Line(k).newline /\ Span(first, k) <= chars}

\* Seeded fault: a line that is cut is not counted.
WholeLinesOnly(first, last, chars) ==
    IF first = 0 THEN 0
    ELSE Least(last, first + Cardinality(Newlines(first, last, chars)) - 1)

ReturnedLineEnd(first, last, chars) ==
    LET newlines == Newlines(first, last, chars)
        whole    == \E k \in newlines : Span(first, k) = chars
    IN  IF first = 0 THEN 0
        ELSE IF chars = 0 THEN first - 1
        ELSE Least(last, first + Cardinality(newlines) + (IF whole THEN 0 ELSE 1) - 1)

-----------------------------------------------------------------------------
(* resolve_source_chunk                                                    *)

\* Seeded fault: line_end is not inclusive.
ContainingBeforeEnd(i) ==
    {k \in DOMAIN pieces : IsChunk(pieces[k]) /\ pieces[k].first <= i /\ i < pieces[k].last}

\* The chunks of the file that contain a line.
Containing(i) ==
    {k \in DOMAIN pieces : IsChunk(pieces[k]) /\ pieces[k].first <= i /\ i <= pieces[k].last}

Width(k) == pieces[k].last - pieces[k].first

\* The one of the fewest lines, and of these the first.
ResolvedChunk(i) ==
    CHOOSE k \in Containing(i) : \A j \in Containing(i) :
        Width(k) < Width(j) \/ (Width(k) = Width(j) /\ k <= j)

-----------------------------------------------------------------------------
ReadInit == ChunkInit /\ scope \in Scopes
ReadNext == ChunkNext /\ UNCHANGED scope
ReadSpec == ReadInit /\ [][ReadNext]_readVars

-----------------------------------------------------------------------------
(* Properties                                                              *)

\* The scope is looked at when it is asked for.
Asked == pc = "parsing" /\ Count = 0

\* Paths that may be asked for; others are refused at once, as they do not end in ".md".
Requests ==
    {path \in BoundedSeq(Names \cup {".."}, Depth) : path # Root /\ Last(path) \in Markdown}

HasBackslash(path) == \E i \in 1..Len(path) : Parts[path[i]] # <<path[i]>>

\* The scope, were it recursive.
Recursively(s) ==
    [files |-> s.files, recursive |-> TRUE, policy |-> s.policy, overrides |-> s.overrides]

\* What is indexed and what may be read are decided by two pieces of code, the walk
\* of discover_markdown and the checks of _resolve_scoped_markdown.  What may be read,
\* under its relative path or by whatever path leads to it, are the documents of the
\* folder tree at any depth, but for a name with a backslash, which cannot be asked
\* for; what is indexed are these documents, too, or only those in the root when the
\* scope is not recursive.  So documents in the subfolders of such a scope are not
\* indexed and yet can be read, which the documentation rules out ("limited to
\* configured/indexed sources"); of a recursive scope the two are the same.
IndexedFilesAreReadable ==
    Asked =>
        LET documents == Discovered(Recursively(scope)) IN
        /\ \A file \in documents : HasBackslash(file) \/ Readable(scope, file) = {file}
        /\ \A path \in Requests : Readable(scope, path) \subseteq documents
        /\ Discovered(scope) = {file \in documents : scope.recursive \/ Len(file) = 1}

\* However links lead through the folders, a file is found by one path only: two
\* would be two documents with one document_id, and plan_index_updates would refuse
\* every refresh of the scope.
FilesAreFoundOnce ==
    Asked => \A p, q \in Found(scope) :
        Resolve(scope.files, p) = Resolve(scope.files, q) => p = q

\* The folders below the root, and the root.
ScopeFolders == {Root} \cup {path \in DOMAIN scope.files : Kind(scope.files, path) = "folder"}

\* The last of the overrides that come nearest to a folder and have a setting.
Nearest(folder, f) ==
    LET able     == {i \in DOMAIN scope.overrides :
                        Applies(scope.overrides[i], folder) /\ scope.overrides[i][f] # None}
        depth(i) == Len(scope.overrides[i].folder)
    IN  {i \in able : \A j \in able : depth(j) < depth(i) \/ (depth(j) = depth(i) /\ j <= i)}

\* In whatever order overrides are listed, each setting of a folder comes from the
\* nearest override that has it, and from the scope when none has: overrides of outer
\* folders do not take back what those of inner folders say.
NearestOverrideDecides ==
    Asked => \A folder \in ScopeFolders : \A f \in {"mode", "include", "exclude"} :
            LET near == Nearest(folder, f) IN
            /\ near = {} => PolicyFor(scope, folder)[f] = scope.policy[f]
            /\ \A i \in near : PolicyFor(scope, folder)[f] = scope.overrides[i][f]

\* A line with text is resolved to a chunk, unless it is the header of a table with
\* rows or its separator, and reading the lines of this chunk returns the line.  Of a
\* line that was cut it is the first segment.
LinesResolve ==
    pc = "done" => \A i \in 1..Count : Line(i).kind # "blank" =>
        IF Containing(i) = {}
        THEN \E k \in DOMAIN pieces : pieces[k].kind = "table_row"
                                       /\ i \in {pieces[k].header, pieces[k].header + 1}
        ELSE LET p    == pieces[ResolvedChunk(i)]
                 hit  == Selected("hit", p.first, p.last, 0)
             IN  /\ Answered(p.first, p.last) /\ i \in hit[1]..hit[2] /\ hit[2] = p.last
                 /\ p.kind = "segment" => p.from = 0

\* What requests select.
Selections ==
    {Selected("full", 0, 0, 0)} \cup
    {Selected(r[1], r[2], r[3], r[4]) :
        r \in {q \in {"hit", "around"} \X (1..Count) \X (1..(Count + 1)) \X Contexts :
                Answered(q[2], q[3])}}

\* The line of the last character returned.
LastLine(first, last, chars) ==
    CHOOSE k \in first..last : Span(first, k) >= chars
                               /\ (k > first => Span(first, k - 1) < chars)

\* The line_end of an answer is the line its text ends in, also when the text is
\* cut in a line or at the end of one.  Where another separator than "\n" ends a
\* line in the answer, it is an earlier line: an answer never claims a line that it
\* does not show.
LineEndIsShown ==
    pc = "done" => \A lines \in Selections, limit \in Limits :
        LET chars == Bounded(lines[1], lines[2], limit)
            end   == ReturnedLineEnd(lines[1], lines[2], chars)
            shown == LastLine(lines[1], lines[2], chars)
        IN  IF Count = 0 THEN end = 0
            ELSE /\ end <= shown
                 /\ (\A k \in lines[1]..(shown - 1) : Line(k).newline) => end = shown
=============================================================================
