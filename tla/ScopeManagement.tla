--------------------------- MODULE ScopeManagement ---------------------------
(***************************************************************************)
(* Edits of the project file config.toml (config_management.py) by the     *)
(* tool manage_markdown_scope of the MCP servers                           *)
(* (mcp_scope_management.py) and by the command line, the copy of the file *)
(* that each server keeps, and the search providers it caches by scope     *)
(* (mcp_service.py).                                                       *)
(*                                                                         *)
(* An MCP edit of a scope holds the lock of the refresh-job registry and   *)
(* is refused while the scope has an active job (scope_mutation); an edit  *)
(* by the command line takes no lock.  Every edit reads the file twice,    *)
(* writes config.toml.tmp, under that one name, and renames it.  Refresh   *)
(* jobs are those of RefreshJobs, reduced to what an edit sees of them: a  *)
(* scope's active job and the process that owns it.                        *)
(*                                                                         *)
(* The tables of the file are kept, for each scope name, as a set, so that *)
(* a name can be in the file twice; a table is the number of the edit that *)
(* wrote it and what load_project_config tells apart about it.  The        *)
(* workspace table is taken to be present.  Names are valid, roots exist,  *)
(* and the settings a new scope takes from a template are left out.        *)
(***************************************************************************)
EXTENDS Naturals

CONSTANTS
    Servers,      \* MCP server processes that share the file and the registry
    Refreshing,   \* those of them that are asked to refresh
    Searched,     \* the scopes that each server is asked to search, as pairs
    Tools,        \* command-line processes
    Names,        \* names of scopes
    None,         \* no lock holder, no owner
    MaxEdits,     \* bound: edits that pass their checks
    MaxCrashes    \* bound: processes that die

ASSUME EditorsAssumption == Servers \cap Tools = {}
ASSUME AskedAssumption == Refreshing \subseteq Servers
ASSUME EditNullAssumption == None \notin Servers \cup Tools
ASSUME EditBoundsAssumption == MaxEdits \in Nat /\ MaxCrashes \in Nat

VARIABLES
    config,       \* what config.toml holds
    temp,         \* what config.toml.tmp holds; NoFile when there is none
    edit,         \* the edit each process is in the middle of
    lock,         \* the server that holds the registry lock
    job,          \* the owner of each scope's active job
    up,           \* the servers that run
    project,      \* each server's copy of the scopes: service.project
    providers,    \* the settings each cached search provider was opened with
    search,       \* the search each server is in the middle of
    edits, crashes,
    committed,    \* history: the renamed edits applied to the first
                  \* file, until an edit of the command line overlaps
    overlapped,   \* history: a command-line edit has overlapped another edit
    outdated,     \* history: servers whose copy misses an edit of another process
    overtaken     \* history: servers that reloaded under a search

scopeVars == <<config, temp, edit, lock, job, up, project, providers, search,
               edits, crashes, committed, overlapped, outdated, overtaken>>

Editors == Servers \cup Tools

\* Where a scope's root lies, below a narrower workspace root or only below
\* the wider one, with its namespace in order; or a namespace of spaces.
Kinds == {"near", "far", "blank"}
Tables == [rev : 0..MaxEdits, kind : Kinds]
Roots == {"narrow", "wide"}
Docs == [text : {"none", "torn", "whole"}, root : Roots, scopes : [Names -> SUBSET Tables]]

Doc(text, root, scopes) == [text |-> text, root |-> root, scopes |-> scopes]
NoScopes == [n \in Names |-> {}]
\* A file that open(..., "w") has truncated, one of two texts mixed up, and none.
Truncated == Doc("none", "wide", NoScopes)
Torn == Doc("torn", "wide", NoScopes)
NoFile == [text |-> "absent"]

\* An edit: what it does, its table, the document it made, and the file that
\* its handle writes to.
Actions == {"create", "update", "delete", "root"}
EditPcs == {"read", "open", "write", "replace", "describe", "reload", "clear"}
NoEdit == [pc |-> "idle"]
Edits == [pc : EditPcs, action : Actions, name : Names \cup {None}, table : Tables,
          root : Roots, doc : Docs, handle : {"none", "temp", "config", "gone"}]

\* A search: the settings it has read from its server's copy.
NoSearch == [pc |-> "idle"]
Searches == [pc : {"read", "open"}, name : Names, settings : SUBSET Tables]

-----------------------------------------------------------------------------
(* What load_project_config accepts.                                       *)

Fits(root, kind) == kind = "far" => root = "wide"

Listed(doc) == {n \in Names : doc.scopes[n] # {}}

OncePerName(scopes) == \A n \in Names : \A x, y \in scopes[n] : x = y

Blanks(doc) == {n \in Names : \E t \in doc.scopes[n] : t.kind = "blank"}

Loadable(doc) ==
    /\ doc.text = "whole"
    /\ Listed(doc) # {}
    /\ OncePerName(doc.scopes)
    /\ \A n \in Names : \A t \in doc.scopes[n] : t.kind # "blank" /\ Fits(doc.root, t.kind)

-----------------------------------------------------------------------------
(* The four edits.                                                         *)

\* Mutant: the last scope may be deleted.
AllowedToEmpty(action, n, table, root, doc) ==
    \/ action = "create" /\ n \notin Listed(doc) /\ Fits(doc.root, table.kind)
    \/ action = "update" /\ n \in Listed(doc) /\ table.kind # "blank" /\ Fits(doc.root, table.kind)
    \/ action = "delete" /\ n \in Listed(doc)
    \/ action = "root" /\ \A m \in Names : \A t \in doc.scopes[m] : Fits(root, t.kind)

\* The checks that an edit makes on the file as it loads it.
Allowed(action, n, table, root, doc) ==
    \/ action = "create" /\ n \notin Listed(doc) /\ Fits(doc.root, table.kind)
    \/ action = "update" /\ n \in Listed(doc) /\ table.kind # "blank" /\ Fits(doc.root, table.kind)
    \/ action = "delete" /\ n \in Listed(doc) /\ Listed(doc) # {n}
    \/ action = "root" /\ \A m \in Names : \A t \in doc.scopes[m] : Fits(root, t.kind)

\* The checks on the document that it reads for the change; an empty file parses, and
\* a workspace root needs nothing to be there.
Found(e, doc) ==
    /\ doc.text = "whole" \/ (doc.text = "none" /\ e.action = "root")
    /\ e.action # "root" => Listed(doc) # {}
    /\ e.action \in {"update", "delete"} => doc.scopes[e.name] # {}

WithTables(doc, n, tables) == Doc(doc.text, doc.root, [doc.scopes EXCEPT ![n] = tables])

\* What the edit makes of a document; of two tables of a name, an update or a
\* deletion takes the first, which is either.
Changed(e, doc) ==
    CASE e.action = "create" -> {WithTables(doc, e.name, doc.scopes[e.name] \cup {e.table})}
      [] e.action = "update" ->
            {WithTables(doc, e.name, (doc.scopes[e.name] \ {t}) \cup {e.table}) :
                t \in doc.scopes[e.name]}
      [] e.action = "delete" ->
            {WithTables(doc, e.name, doc.scopes[e.name] \ {t}) : t \in doc.scopes[e.name]}
      [] e.action = "root" -> {Doc("whole", e.root, doc.scopes)}

-----------------------------------------------------------------------------
\* The edit goes on with this document and this handle; neither is kept when
\* the file is renamed.
Moved(e, pc, doc, handle) ==
    [pc |-> pc, action |-> e.action, name |-> e.name, table |-> e.table, root |-> e.root,
     doc |-> doc, handle |-> handle]

Editing(p) == edit[p].pc # "idle"
At(p, pc) == edit[p].pc = pc

NoTable == [rev |-> 0, kind |-> "near"]

Initial(kind) == [rev |-> 0, kind |-> kind]

ScopeInit ==
    /\ \E kinds \in [Names -> SUBSET {"near", "far"}] :
          config = Doc("whole", "wide", [n \in Names |-> {Initial(k) : k \in kinds[n]}])
    /\ Loadable(config)
    /\ temp = NoFile
    /\ edit = [p \in Editors |-> NoEdit]
    /\ lock = None
    /\ job = [n \in Names |-> None]
    /\ up = Servers
    /\ project = [s \in Servers |-> config.scopes]
    /\ providers = [s \in Servers |-> NoScopes]
    /\ search = [s \in Servers |-> NoSearch]
    /\ edits = 0 /\ crashes = 0
    /\ committed = config
    /\ overlapped = FALSE
    /\ outdated = {} /\ overtaken = {}

-----------------------------------------------------------------------------
(* An edit, step by step.                                                  *)

\* Mutants: the check of the active job comes before the lock, which is not
\* held for the edit; it is left out.
MayEditUnlocked(p, n) == p \in Servers => p \in up /\ job[n] = None
MayEditRefreshed(p, n) == p \in Servers => p \in up /\ lock = None

\* scope_mutation lets an MCP edit in; nothing holds back the command line.
MayEdit(p, n) == p \in Servers => p \in up /\ lock = None /\ job[n] = None

Locked(p) == IF p \in Servers THEN p ELSE lock
Unlocked(p) == IF lock = p THEN None ELSE lock

Overlaps(p) == \E q \in Editors \ {p} : Editing(q) /\ (p \in Tools \/ q \in Tools)

\* The lock is taken and the file loaded.  An edit that is refused here
\* changes nothing and is not a step.
BeginEdit(p, action, n, kind, root) ==
    LET table == [rev |-> edits + 1, kind |-> kind]
    IN  /\ edits < MaxEdits
        /\ ~Editing(p) /\ MayEdit(p, n)
        /\ Loadable(config) /\ Allowed(action, n, table, root, config)
        /\ lock' = Locked(p)
        /\ edit' = [edit EXCEPT ![p] =
                [pc |-> "read", action |-> action, name |-> n, table |-> table,
                 root |-> root, doc |-> Truncated, handle |-> "none"]]
        /\ edits' = edits + 1
        /\ overlapped' = (overlapped \/ Overlaps(p))
        /\ committed' = IF overlapped' THEN Truncated ELSE committed
        /\ UNCHANGED <<config, temp, job, up, project, providers, search, crashes,
                       outdated, overtaken>>

\* The edit ends; its lock is released.
EndEdit(p) ==
    /\ edit' = [edit EXCEPT ![p] = NoEdit]
    /\ lock' = Unlocked(p)

\* _read_doc, and the change to the document.
ReadDoc(p) ==
    /\ At(p, "read")
    /\ \/ \E doc \in Changed(edit[p], config) :
             /\ Found(edit[p], config)
             /\ edit' = [edit EXCEPT ![p] = Moved(@, "open", doc, "none")]
             /\ UNCHANGED lock
       \/ ~Found(edit[p], config) /\ EndEdit(p)
    /\ UNCHANGED <<config, temp, job, up, project, providers, search, edits, crashes,
                   committed, overlapped, outdated, overtaken>>

\* config.toml.tmp is created, or truncated.
OpenTemp(p) ==
    /\ At(p, "open")
    /\ temp' = Truncated
    /\ edit' = [edit EXCEPT ![p] = Moved(@, "write", @.doc, "temp")]
    /\ UNCHANGED <<config, lock, job, up, project, providers, search, edits, crashes,
                   committed, overlapped, outdated, overtaken>>

\* What a file holds when the text of an edit is written at its start: an
\* older text that is longer shows behind it.
Written(doc, old) == IF old.text = "none" THEN {doc} ELSE {doc, Torn}

\* The other servers' copies miss the edit.
Others(p) == Servers \ {p}

WriteTemp(p) ==
    /\ At(p, "write")
    /\ edit' = [edit EXCEPT ![p] = Moved(@, "replace", @.doc, "none")]
    /\ IF edit[p].handle = "temp" THEN temp' \in Written(edit[p].doc, temp) ELSE UNCHANGED temp
    /\ IF edit[p].handle = "config"
       THEN config' \in Written(edit[p].doc, config) /\ outdated' = outdated \cup Others(p)
       ELSE UNCHANGED <<config, outdated>>
    /\ UNCHANGED <<lock, job, up, project, providers, search, edits, crashes,
                   committed, overlapped, overtaken>>

\* The handles of a file follow it when it is renamed.
Followed(h) == CASE h = "temp" -> "config" [] h = "config" -> "gone" [] OTHER -> h

Handles(q) == IF At(q, "write")
              THEN Moved(edit[q], "write", edit[q].doc, Followed(edit[q].handle)) ELSE edit[q]

\* Mutant: a deletion describes its scope, too.
LoadsDescribed(e) == "describe"

\* What a server goes on with.
Loads(e) == IF e.action = "delete" THEN "reload" ELSE "describe"

\* os.chmod and replace; both need the file.  A server goes on to load it.
Replace(p) ==
    /\ At(p, "replace")
    /\ IF temp = NoFile
       THEN EndEdit(p) /\ UNCHANGED <<config, temp, committed, outdated>>
       ELSE /\ config' = temp
            /\ temp' = NoFile
            /\ edit' = [q \in Editors |->
                  IF q # p THEN Handles(q)
                  ELSE IF p \in Servers
                  THEN Moved(edit[p], Loads(edit[p]), Truncated, "none") ELSE NoEdit]
            /\ IF overlapped \/ Changed(edit[p], committed) = {}
               THEN UNCHANGED committed
               ELSE committed' \in Changed(edit[p], committed)
            /\ outdated' = outdated \cup IF temp = edit[p].doc THEN Others(p) ELSE Servers
            /\ UNCHANGED lock
    /\ UNCHANGED <<job, up, project, providers, search, edits, crashes, overlapped,
                   overtaken>>

\* create_scope and update_scope end with describe_scope on the file as it is
\* then; an edit that fails there ends without reload_project.
DescribeScope(s) ==
    /\ At(s, "describe")
    /\ IF Loadable(config) /\ edit[s].name \in Listed(config)
       THEN edit' = [edit EXCEPT ![s] = Moved(@, "reload", Truncated, "none")] /\ UNCHANGED lock
       ELSE EndEdit(s)
    /\ UNCHANGED <<config, temp, job, up, project, providers, search, edits, crashes,
                   committed, overlapped, outdated, overtaken>>

\* reload_project loads the file; when the file is refused the copy stays.
ReloadProject(s) ==
    /\ At(s, "reload")
    /\ IF Loadable(config)
       THEN /\ project' = [project EXCEPT ![s] = config.scopes]
            /\ edit' = [edit EXCEPT ![s] = Moved(@, "clear", Truncated, "none")]
            /\ outdated' = outdated \ {s}
            /\ overtaken' = IF search[s] = NoSearch THEN overtaken ELSE overtaken \cup {s}
            /\ UNCHANGED lock
       ELSE EndEdit(s) /\ UNCHANGED <<project, outdated, overtaken>>
    /\ UNCHANGED <<config, temp, job, up, providers, search, edits, crashes, committed,
                   overlapped>>

\* Mutant: only the providers of the edited scope are dropped.
ClearEdited(s) ==
    /\ At(s, "clear")
    /\ providers' = [providers EXCEPT ![s][edit[s].name] = {}]
    /\ EndEdit(s)
    /\ overtaken' = IF search[s] = NoSearch THEN overtaken \ {s} ELSE overtaken
    /\ UNCHANGED <<config, temp, job, up, project, search, edits, crashes, committed,
                   overlapped, outdated>>

\* _search_providers.clear(), and the lock is released.
ClearProviders(s) ==
    /\ At(s, "clear")
    /\ providers' = [providers EXCEPT ![s] = NoScopes]
    /\ EndEdit(s)
    /\ overtaken' = IF search[s] = NoSearch THEN overtaken \ {s} ELSE overtaken
    /\ UNCHANGED <<config, temp, job, up, project, search, edits, crashes, committed,
                   overlapped, outdated>>

-----------------------------------------------------------------------------
(* Refresh jobs and searches, which read the copy of their server.         *)

\* start_or_reuse, under the registry lock, when the scope has no active job.
StartRefresh(s, n) ==
    /\ s \in up \cap Refreshing /\ lock = None /\ job[n] = None
    /\ project[s][n] # {}
    /\ job' = [job EXCEPT ![n] = s]
    /\ UNCHANGED <<config, temp, edit, lock, up, project, providers, search, edits,
                   crashes, committed, overlapped, outdated, overtaken>>

EndRefresh(n) ==
    /\ lock = None /\ job[n] # None
    /\ job' = [job EXCEPT ![n] = None]
    /\ UNCHANGED <<config, temp, edit, lock, up, project, providers, search, edits,
                   crashes, committed, overlapped, outdated, overtaken>>

\* search_text and search_related get the scope from the copy.
BeginSearch(s, n) ==
    /\ s \in up /\ <<s, n>> \in Searched /\ search[s] = NoSearch /\ project[s][n] # {}
    /\ search' = [search EXCEPT ![s] = [pc |-> "read", name |-> n, settings |-> project[s][n]]]
    /\ UNCHANGED <<config, temp, edit, lock, job, up, project, providers, edits, crashes,
                   committed, overlapped, outdated, overtaken>>

\* _search_provider: the cached provider answers, or one is opened.
LookUpProvider(s) ==
    /\ search[s].pc = "read"
    /\ search' = [search EXCEPT ![s] =
            IF providers[s][search[s].name] # {} THEN NoSearch ELSE [@ EXCEPT !.pc = "open"]]
    /\ UNCHANGED <<config, temp, edit, lock, job, up, project, providers, edits, crashes,
                   committed, overlapped, outdated, overtaken>>

\* The opened provider is cached, or it could not be opened.
CacheProvider(s) ==
    /\ search[s].pc = "open"
    /\ search' = [search EXCEPT ![s] = NoSearch]
    /\ \/ providers' = [providers EXCEPT ![s][search[s].name] = search[s].settings]
       \/ UNCHANGED providers
    /\ UNCHANGED <<config, temp, edit, lock, job, up, project, edits, crashes, committed,
                   overlapped, outdated, overtaken>>

-----------------------------------------------------------------------------
\* A process dies: its lock is released, and its jobs are interrupted by
\* whoever looks at the registry next.
Die(p) ==
    /\ crashes < MaxCrashes
    /\ p \in up \/ (p \in Tools /\ Editing(p))
    /\ crashes' = crashes + 1
    /\ EndEdit(p)
    /\ up' = up \ {p}
    /\ job' = [n \in Names |-> IF job[n] = p THEN None ELSE job[n]]
    /\ search' = [s \in Servers |-> IF s = p THEN NoSearch ELSE search[s]]
    /\ providers' = [s \in Servers |-> IF s = p THEN NoScopes ELSE providers[s]]
    /\ overtaken' = overtaken \ {p}
    /\ UNCHANGED <<config, temp, project, edits, committed, overlapped, outdated>>

\* from_config: a server starts only on a file that it can load.
Restart(s) ==
    /\ s \notin up /\ Loadable(config)
    /\ up' = up \cup {s}
    /\ project' = [project EXCEPT ![s] = config.scopes]
    /\ outdated' = outdated \ {s}
    /\ UNCHANGED <<config, temp, edit, lock, job, providers, search, edits, crashes,
                   committed, overlapped, overtaken>>

EditStep(p) == ReadDoc(p) \/ OpenTemp(p) \/ WriteTemp(p) \/ Replace(p)

Begin(p) ==
    \/ \E n \in Names, kind \in Kinds : BeginEdit(p, "create", n, kind, "wide")
    \/ \E n \in Names, kind \in {"near", "far"} : BeginEdit(p, "update", n, kind, "wide")
    \/ \E n \in Names : BeginEdit(p, "delete", n, "near", "wide")

SetWorkspaceRoot(t) == \E root \in Roots : BeginEdit(t, "root", None, "near", root)

ServerStep(s) ==
    \/ DescribeScope(s) \/ ReloadProject(s) \/ ClearProviders(s)
    \/ \E n \in Names : StartRefresh(s, n) \/ BeginSearch(s, n)
    \/ LookUpProvider(s) \/ CacheProvider(s)
    \/ Restart(s)

ScopeNext ==
    \/ \E p \in Editors : Begin(p) \/ EditStep(p) \/ Die(p)
    \/ \E t \in Tools : SetWorkspaceRoot(t)
    \/ \E s \in Servers : ServerStep(s)
    \/ \E n \in Names : EndRefresh(n)

ScopeSpec == ScopeInit /\ [][ScopeNext]_scopeVars

-----------------------------------------------------------------------------
ScopeTypeOK ==
    /\ config \in Docs /\ temp \in Docs \cup {NoFile} /\ committed \in Docs
    /\ edit \in [Editors -> Edits \cup {NoEdit}]
    /\ lock \in Servers \cup {None}
    /\ job \in [Names -> Servers \cup {None}]
    /\ up \in SUBSET Servers /\ outdated \in SUBSET Servers /\ overtaken \in SUBSET Servers
    /\ project \in [Servers -> [Names -> SUBSET Tables]]
    /\ providers \in [Servers -> [Names -> SUBSET Tables]]
    /\ search \in [Servers -> Searches \cup {NoSearch}]
    /\ edits \in 0..MaxEdits /\ crashes \in 0..MaxCrashes
    /\ overlapped \in BOOLEAN

\* As long as no edit of the command line overlaps another edit, every edit
\* that has renamed its file is in config.toml, with nothing else in it: the
\* registry lock is enough against edits of other servers, and a process that
\* dies leaves nothing half done (_write_doc, scope_mutation).
NoEditIsLost == ~overlapped => config = committed

\* Until then config.toml can be loaded at every moment, also between the
\* steps of an edit, except when a scope was created with a namespace of
\* spaces: create_scope writes it unchecked and no load accepts it.
ConfigStaysLoadable == ~overlapped => (Loadable(config) \/ Blanks(config) # {})

\* While a scope has an active job, its tables are changed by an edit of that
\* scope on the command line only (refresh_jobs.py, scope_mutation).
OnlyToolsEditARefreshedScope ==
    [][\A n \in Names :
          job[n] # None /\ job'[n] = job[n] /\ config'.scopes[n] # config.scopes[n] =>
             overlapped \/ (\E t \in Tools : Editing(t) /\ edit[t].name = n)]_scopeVars

\* What a refresh of this server starts from is the file, unless another
\* process has edited it since the server loaded it last: no edit of its own,
\* whatever step it failed at, leaves the copy behind (reload_project).
CopyHasOwnEdits ==
    \A s \in up : lock # s /\ s \notin outdated /\ Loadable(config) => project[s] = config.scopes

\* A cached provider has the settings of its server's copy, unless a search
\* was under way when the copy was replaced (reload_project clears the
\* cache, _search_provider fills it).
ProvidersMatchTheCopy ==
    \A s \in Servers, n \in Names :
        ~At(s, "clear") /\ s \notin overtaken /\ providers[s][n] # {} =>
            providers[s][n] = project[s][n]
=============================================================================
