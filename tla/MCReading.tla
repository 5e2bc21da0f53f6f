----------------------------- MODULE MCReading -----------------------------
EXTENDS Reading, TLC

L(kind, level, pipe, chars) ==
    [kind |-> kind, level |-> level, titled |-> TRUE, pipe |-> pipe, newline |-> TRUE,
     chars |-> chars]

\* A line that ends in a form feed, and a heading of nothing but blanks.
FormFeed == [L("text", 0, FALSE, 2) EXCEPT !.newline = FALSE]
Untitled == [L("heading", 1, FALSE, 1) EXCEPT !.titled = FALSE]

Row == L("text", 0, TRUE, 2)
Separator == L("separator", 0, TRUE, 1)
FenceWithPipe == L("backticks", 0, TRUE, 1)

TableLines == {Row, Separator, FenceWithPipe, FormFeed}

MCLines ==
    TableLines \cup
    {L("text", 0, FALSE, 1), L("text", 0, FALSE, 4), L("text", 0, FALSE, 7),
     L("blank", 0, FALSE, 1), L("heading", 1, FALSE, 1), L("heading", 3, TRUE, 1),
     Untitled, L("backticks", 0, FALSE, 1), L("tildes", 0, FALSE, 1)}

\* Below the root: the folders a, a/b and c, files, and links to a file that is
\* not Markdown, to a folder, and to one outside the root.
MCNames == {"a", "b", "c", "n.md", "m.md", "t.txt", "l.md", "k", "o", "a\\n.md"}
MCMarkdown == {"n.md", "m.md", "l.md", "a\\n.md"}
MCParts == [n \in MCNames \cup {".."} |-> IF n = "a\\n.md" THEN <<"a", "n.md">> ELSE <<n>>]

Folder == [kind |-> "folder", to |-> None]
File == [kind |-> "file", to |-> None]
Link(path) == [kind |-> "link", to |-> path]

MCFiles ==
    (<<"a">> :> Folder) @@ (<<"a", "b">> :> Folder) @@ (<<"c">> :> Folder) @@
    (<<"n.md">> :> File) @@ (<<"a", "n.md">> :> File) @@ (<<"a", "m.md">> :> File) @@
    (<<"a", "b", "n.md">> :> File) @@ (<<"c", "a\\n.md">> :> File) @@ (<<"t.txt">> :> File) @@
    (<<"l.md">> :> Link(<<"t.txt">>)) @@ (<<"c", "k">> :> Link(<<"a">>)) @@
    (<<"a", "o">> :> Link(<<"..", "c">>))

\* The patterns "n.md" and "a/**".
NamedN == <<{"n.md"}>>
InA == <<{"a"}, MCNames>>

Policies ==
    {[mode |-> mode, include |-> {NamedN}, exclude |-> exclude] :
        mode \in {"include_only", "include_all_except"}, exclude \in {{}, {InA}}}

Settings ==
    {[mode |-> "include_only", include |-> {InA}, exclude |-> None],
     [mode |-> None, include |-> None, exclude |-> {}],
     [mode |-> None, include |-> None, exclude |-> {NamedN}]}

Overrides ==
    {[folder |-> folder, inherit |-> inherit, mode |-> s.mode, include |-> s.include,
      exclude |-> s.exclude] :
        folder \in {<<>>, <<"a">>, <<"a", "b">>}, inherit \in BOOLEAN, s \in Settings}

Scope(recursive, policy, overrides) ==
    [files |-> MCFiles, recursive |-> recursive, policy |-> policy, overrides |-> overrides]

Plain == Scope(TRUE, [mode |-> "include_all_except", include |-> {}, exclude |-> {}], <<>>)

MCScopes ==
    {Plain} \cup {Scope(recursive, policy, overrides) :
        recursive \in BOOLEAN, policy \in Policies, overrides \in BoundedSeq(Overrides, 2)}

\* Files of any lines up to a length, and longer ones of lines that make tables; and
\* every scope, with one file.
AnyLines == 4
Explored ==
    /\ scope = Plain \/ Count = 0
    /\ Count > AnyLines => \A i \in 1..Count : Line(i) \in TableLines
=============================================================================
