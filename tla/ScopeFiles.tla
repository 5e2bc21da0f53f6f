----------------------------- MODULE ScopeFiles -----------------------------
(***************************************************************************)
(* Which files belong to a scope: policy_for and matches_any (config.py),  *)
(* discover_markdown (discovery.py), which decides what is indexed, and    *)
(* _resolve_scoped_markdown (reading.py), which decides what may be read.  *)
(*                                                                         *)
(* A path is a sequence of names below the root of the scope.  The files   *)
(* are a function from paths to entries: a folder, a file, or a symbolic   *)
(* link to a path that has no links itself.  Paths outside the root begin  *)
(* with "..".  A part of a pattern is the set of names that it matches.    *)
(***************************************************************************)
EXTENDS Naturals, Sequences, SequencesExt

CONSTANTS
    Names,       \* names of files and folders
    Markdown,    \* those that end in ".md"
    Parts,       \* the parts of a name, when its backslashes are taken for slashes
    Depth,       \* bound: names of the path of a file
    None         \* a setting that an override does not have

ASSUME NamesAssumption ==
    /\ Markdown \subseteq Names /\ ".." \notin Names
    /\ Parts \in [Names \cup {".."} -> Seq(Names \cup {".."})]
    /\ Depth \in Nat

Root == <<>>
Outside(path) == path # Root /\ Head(path) = ".."

-----------------------------------------------------------------------------
(* Files                                                                   *)

Kind(files, path) == IF path \in DOMAIN files THEN files[path].kind ELSE "missing"

Followed(files, path) == IF Kind(files, path) = "link" THEN files[path].to ELSE path

\* Path.resolve: every link on the way is followed.
Resolve(files, path) ==
    LET at[n \in 0..Len(path)] ==
            IF n = 0 THEN Root ELSE Followed(files, Append(at[n - 1], path[n]))
    IN  at[Len(path)]

\* What the last name of a path is, whatever links lead there.
Entry(files, path) == Append(Resolve(files, Front(path)), Last(path))

-----------------------------------------------------------------------------
(* FolderPolicy                                                            *)

\* matches_any: patterns are compared from the right, name by name.
Matches(path, patterns) ==
    \E pattern \in patterns :
        /\ pattern # <<>>
        /\ Len(pattern) <= Len(path)
        /\ \A i \in 1..Len(pattern) : path[Len(path) - Len(pattern) + i] \in pattern[i]

Applies(override, folder) ==
    \/ folder = override.folder
    \/ override.inherit /\ IsPrefix(override.folder, folder)

\* The settings mode, include and exclude that an override has.
Overridden(policy, override) ==
    [f \in DOMAIN policy |-> IF override[f] = None THEN policy[f] ELSE override[f]]

\* The settings for a folder after an override, if that is for folders of n names.
AfterOverride(override, folder, n, policy) ==
    IF Applies(override, folder) /\ Len(override.folder) = n
    THEN Overridden(policy, override) ELSE policy

\* The settings for a folder after the overrides for folders of n names, in the order
\* in which they are listed.
AfterDepth(overrides, folder, n, policy) ==
    LET after[i \in 0..Len(overrides)] ==
            IF i = 0 THEN policy ELSE AfterOverride(overrides[i], folder, n, after[i - 1])
    IN  after[Len(overrides)]

\* Seeded fault: overrides apply in the order in which they are listed.
InListedOrder(scope, folder) ==
    FoldLeft(LAMBDA policy, o : IF Applies(o, folder) THEN Overridden(policy, o) ELSE policy,
             scope.policy, scope.overrides)

\* policy_for: those of outer folders first.
PolicyFor(scope, folder) ==
    LET current[n \in 0..(Len(folder) + 1)] ==
            IF n = 0 THEN scope.policy
            ELSE AfterDepth(scope.overrides, folder, n - 1, current[n - 1])
    IN  current[Len(folder) + 1]

\* _included
Included(scope, path) ==
    LET policy == PolicyFor(scope, Front(path)) IN
    /\ ~ Matches(path, policy.exclude)
    /\ policy.mode = "include_only" => Matches(path, policy.include)

-----------------------------------------------------------------------------
(* Scopes                                                                  *)

\* An entry is below the root or in a folder.
IsTree(files) ==
    \A path \in DOMAIN files :
        /\ path \in Seq(Names) /\ Len(path) \in 1..Depth
        /\ Len(path) > 1 => Kind(files, Front(path)) = "folder"
        /\ files[path].kind = "link" => files[path].to \in Seq(Names \cup {".."})

Modes == {"include_only", "include_all_except"}
Patterns == Seq(SUBSET Names)

PolicyRecords == [mode : Modes, include : SUBSET Patterns, exclude : SUBSET Patterns]

OverrideRecords ==
    [folder : Seq(Names), inherit : BOOLEAN, mode : {None} \cup Modes,
     include : {None} \cup SUBSET Patterns, exclude : {None} \cup SUBSET Patterns]

\* ScopeConfig, and a directory for it.
IsScope(scope) ==
    /\ IsTree(scope.files) /\ scope.recursive \in BOOLEAN
    /\ scope.policy \in PolicyRecords /\ scope.overrides \in Seq(OverrideRecords)

-----------------------------------------------------------------------------
(* discover_markdown                                                       *)

\* Seeded fault: folders are entered through links.
EnteredThroughLinks(scope, path) ==
    scope.recursive /\ Kind(scope.files, Resolve(scope.files, path)) = "folder"

\* os.walk enters a folder: links are pruned, and everything when not recursive.
Entered(scope, path) ==
    scope.recursive /\ Kind(scope.files, Entry(scope.files, path)) = "folder"

\* The folders that are entered from some others.
Below(scope, folders) ==
    {path \in {Append(folder, name) : folder \in folders, name \in Names} : Entered(scope, path)}

\* The paths by which the walk comes to folders, level by level.
Walked(scope) ==
    LET level[n \in 0..Depth] == IF n = 0 THEN {Root} ELSE Below(scope, level[n - 1])
    IN  UNION {level[n] : n \in 0..(Depth - 1)}

\* The paths by which it comes to files of the scope.
Found(scope) ==
    {path \in {Append(folder, name) : folder \in Walked(scope), name \in Markdown} :
        LET file == Resolve(scope.files, path) IN
        /\ Kind(scope.files, Entry(scope.files, path)) = "file"
        /\ ~ Outside(file)
        /\ Included(scope, file)}

\* relative_path of the files that are indexed.
Discovered(scope) == {Resolve(scope.files, path) : path \in Found(scope)}

-----------------------------------------------------------------------------
(* _resolve_scoped_markdown                                                *)

\* A requested path, whose backslashes are taken for slashes.
Posix(path) == FlattenSeq([i \in 1..Len(path) |-> Parts[path[i]]])

\* Seeded fault: the last name of the path may be a link.
MayReadLinks(scope, path) ==
    LET file == Resolve(scope.files, path) IN
    /\ path # Root /\ (\A i \in 1..Len(path) : path[i] # "..")
    /\ Last(path) \in Markdown
    /\ ~ Outside(file)
    /\ Kind(scope.files, file) = "file"
    /\ Included(scope, file)

\* The checks that a path passes before its file is read.
MayRead(scope, path) ==
    LET file == Resolve(scope.files, path) IN
    /\ path # Root /\ (\A i \in 1..Len(path) : path[i] # "..")
    /\ Last(path) \in Markdown
    /\ Kind(scope.files, Entry(scope.files, path)) # "link"
    /\ ~ Outside(file)
    /\ Kind(scope.files, file) = "file"
    /\ Included(scope, file)

\* What a request for this path reads: nothing, or the file of one relative path.
Readable(scope, path) ==
    IF MayRead(scope, Posix(path)) THEN {Resolve(scope.files, Posix(path))} ELSE {}
=============================================================================
