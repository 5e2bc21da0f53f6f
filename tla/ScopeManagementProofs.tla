------------------------ MODULE ScopeManagementProofs ------------------------
(***************************************************************************)
(* The properties of ScopeManagement, for any number of servers, command   *)
(* lines, scopes, edits and crashes.                                       *)
(*                                                                         *)
(* NoEditIsLost and ConfigStaysLoadable rest on there being one edit at a  *)
(* time (OneEdit) and on what each step of that edit knows of the file     *)
(* (EditIsSound): what it loaded still holds, and its document is the file *)
(* with its change.                                                        *)
(***************************************************************************)
EXTENDS ScopeManagement, TLAPS

-----------------------------------------------------------------------------
(* The types of what the actions are built from.                           *)

LEMMA DocType ==
    /\ NoScopes \in [Names -> SUBSET Tables]
    /\ Truncated \in Docs /\ Torn \in Docs
    /\ NoFile.text = "absent"
    /\ \A doc \in Docs : doc.scopes \in [Names -> SUBSET Tables]
<1>1. NoScopes \in [Names -> SUBSET Tables] BY DEF NoScopes
<1>2. Truncated \in Docs /\ Torn \in Docs BY <1>1 DEF Docs, Doc, Truncated, Torn, Roots
<1>. QED BY <1>1, <1>2 DEF Docs, NoFile

\* An edit under way has a document, and NoEdit has the program counter of none.
LEMMA EditType ==
    ASSUME NEW e \in Edits \cup {NoEdit}, e.pc # "idle"
    PROVE  e \in Edits
BY DEF Edits, NoEdit

\* An edit of a scope names one.
Named(e) == e.action = "root" \/ e.name \in Names

LEMMA MovedType ==
    ASSUME NEW e \in Edits, NEW pc \in EditPcs, NEW doc \in Docs,
           NEW handle \in {"none", "temp", "config", "gone"}
    PROVE  /\ Moved(e, pc, doc, handle) \in Edits
           /\ Moved(e, pc, doc, handle).pc = pc
           /\ Moved(e, pc, doc, handle).action = e.action
           /\ Moved(e, pc, doc, handle).name = e.name
           /\ Moved(e, pc, doc, handle).table = e.table
           /\ Moved(e, pc, doc, handle).root = e.root
           /\ Moved(e, pc, doc, handle).doc = doc
           /\ Moved(e, pc, doc, handle).handle = handle
           /\ Named(e) => Named(Moved(e, pc, doc, handle))
BY DEF Moved, Edits, Named

LEMMA MovedPc ==
    ASSUME NEW e, NEW pc, NEW doc, NEW handle
    PROVE  Moved(e, pc, doc, handle).pc = pc
BY DEF Moved

LEMMA WithTablesType ==
    ASSUME NEW doc \in Docs, NEW n, NEW tables \in SUBSET Tables
    PROVE  /\ WithTables(doc, n, tables) \in Docs
           /\ WithTables(doc, n, tables).text = doc.text
           /\ WithTables(doc, n, tables).root = doc.root
           /\ \A m \in Names :
                WithTables(doc, n, tables).scopes[m] = IF m = n THEN tables ELSE doc.scopes[m]
BY DEF WithTables, Doc, Docs

LEMMA RootDocType ==
    ASSUME NEW doc \in Docs, NEW root \in Roots
    PROVE  /\ Doc("whole", root, doc.scopes) \in Docs
           /\ Doc("whole", root, doc.scopes).text = "whole"
           /\ Doc("whole", root, doc.scopes).root = root
           /\ Doc("whole", root, doc.scopes).scopes = doc.scopes
BY DEF Doc, Docs

LEMMA ChangedType ==
    ASSUME NEW e \in Edits, Named(e), NEW doc \in Docs
    PROVE  Changed(e, doc) \subseteq Docs
<1>1. CASE e.action = "create"
  <2>1. doc.scopes[e.name] \cup {e.table} \in SUBSET Tables
    BY <1>1 DEF Named, Docs, Edits
  <2>. QED BY <1>1, <2>1, WithTablesType DEF Changed
<1>2. CASE e.action = "update"
  <2>. SUFFICES ASSUME NEW d \in Changed(e, doc) PROVE d \in Docs OBVIOUS
  <2>1. PICK t \in doc.scopes[e.name] :
          d = WithTables(doc, e.name, (doc.scopes[e.name] \ {t}) \cup {e.table})
    BY <1>2 DEF Changed
  <2>2. (doc.scopes[e.name] \ {t}) \cup {e.table} \in SUBSET Tables
    BY <1>2 DEF Named, Docs, Edits
  <2>. QED BY <2>1, <2>2, WithTablesType
<1>3. CASE e.action = "delete"
  <2>. SUFFICES ASSUME NEW d \in Changed(e, doc) PROVE d \in Docs OBVIOUS
  <2>1. PICK t \in doc.scopes[e.name] : d = WithTables(doc, e.name, doc.scopes[e.name] \ {t})
    BY <1>3 DEF Changed
  <2>2. (doc.scopes[e.name] \ {t}) \in SUBSET Tables
    BY <1>3 DEF Named, Docs
  <2>. QED BY <2>1, <2>2, WithTablesType
<1>4. CASE e.action = "root"
  <2>1. e.root \in Roots BY DEF Edits
  <2>. QED BY <1>4, <2>1, RootDocType DEF Changed
<1>. QED BY <1>1, <1>2, <1>3, <1>4 DEF Edits, Actions

\* What an edit makes of a document does not depend on how far it has come.
LEMMA ChangedOfMoved ==
    ASSUME NEW e, NEW pc, NEW d, NEW handle, NEW doc
    PROVE  Changed(Moved(e, pc, d, handle), doc) = Changed(e, doc)
BY DEF Changed, Moved

-----------------------------------------------------------------------------
(* Type correctness.                                                       *)

\* The types of what has to do with edits, and of the rest.
EditsTyped ==
    /\ config \in Docs /\ temp \in Docs \cup {NoFile} /\ committed \in Docs
    /\ edit \in [Editors -> Edits \cup {NoEdit}]
    /\ lock \in Servers \cup {None}
    /\ \A p \in Editors : Editing(p) => Named(edit[p])
RestTyped ==
    /\ job \in [Names -> Servers \cup {None}]
    /\ up \in SUBSET Servers /\ outdated \in SUBSET Servers /\ overtaken \in SUBSET Servers
    /\ project \in [Servers -> [Names -> SUBSET Tables]]
    /\ providers \in [Servers -> [Names -> SUBSET Tables]]
    /\ search \in [Servers -> Searches \cup {NoSearch}]
    /\ edits \in 0..MaxEdits /\ crashes \in 0..MaxCrashes
    /\ overlapped \in BOOLEAN

TypeInv == EditsTyped /\ RestTyped

LEMMA EndEditType ==
    ASSUME TypeInv, NEW p \in Editors, EndEdit(p)
    PROVE  /\ edit' \in [Editors -> Edits \cup {NoEdit}]
           /\ lock' \in Servers \cup {None}
           /\ \A q \in Editors : Editing(q)' => Named(edit'[q])
           /\ ~Editing(p)'
           /\ \A q \in Editors \ {p} : edit'[q] = edit[q]
<1>. edit \in [Editors -> Edits \cup {NoEdit}] BY DEF TypeInv, EditsTyped, RestTyped
<1>1. /\ edit'[p] = NoEdit
      /\ \A q \in Editors \ {p} : edit'[q] = edit[q]
      /\ edit' \in [Editors -> Edits \cup {NoEdit}]
  BY DEF EndEdit
<1>2. lock' \in Servers \cup {None} BY DEF TypeInv, EditsTyped, RestTyped, EndEdit, Unlocked
<1>3. ~Editing(p)' BY <1>1 DEF Editing, NoEdit
<1>. QED BY <1>1, <1>2, <1>3 DEF TypeInv, EditsTyped, Editing

\* One editor's edit becomes another one that names its scope.
LEMMA EditMovedType ==
    ASSUME TypeInv, NEW p \in Editors, NEW e \in Edits, Named(e),
           edit' = [edit EXCEPT ![p] = e]
    PROVE  /\ edit' \in [Editors -> Edits \cup {NoEdit}]
           /\ \A q \in Editors : Editing(q)' => Named(edit'[q])
           /\ edit'[p] = e
           /\ \A q \in Editors \ {p} : edit'[q] = edit[q]
<1>. edit \in [Editors -> Edits \cup {NoEdit}] BY DEF TypeInv, EditsTyped, RestTyped
<1>. QED BY DEF TypeInv, EditsTyped, Editing

LEMMA InitType == ScopeInit => TypeInv
<1>. SUFFICES ASSUME ScopeInit PROVE EditsTyped /\ RestTyped BY DEF TypeInv
<1>1. PICK kinds \in [Names -> SUBSET {"near", "far"}] :
        config = Doc("whole", "wide", [n \in Names |-> {Initial(k) : k \in kinds[n]}])
  BY DEF ScopeInit
<1>2. \A k \in {"near", "far"} : Initial(k) \in Tables
  BY EditBoundsAssumption DEF Initial, Tables, Kinds
<1>3. [n \in Names |-> {Initial(k) : k \in kinds[n]}] \in [Names -> SUBSET Tables]
  BY <1>2
<1>4. config \in Docs BY <1>1, <1>3 DEF Doc, Docs, Roots
<1>5. EditsTyped BY <1>4 DEF ScopeInit, EditsTyped, Editing, NoEdit
<1>6. project \in [Servers -> [Names -> SUBSET Tables]]
  BY <1>4, DocType DEF ScopeInit
<1>7. providers \in [Servers -> [Names -> SUBSET Tables]] BY DocType DEF ScopeInit
<1>8. search \in [Servers -> Searches \cup {NoSearch}] BY DEF ScopeInit
<1>9. edits \in 0..MaxEdits /\ crashes \in 0..MaxCrashes BY EditBoundsAssumption DEF ScopeInit
<1>10. RestTyped BY <1>6, <1>7, <1>8, <1>9 DEF ScopeInit, RestTyped
<1>. QED BY <1>5, <1>10

\* The tables of an edit that begins.
LEMMA BegunType ==
    ASSUME TypeInv, NEW p \in Editors, NEW action \in Actions, NEW n \in Names \cup {None},
           NEW kind \in Kinds, NEW root \in Roots, action = "root" \/ n \in Names,
           BeginEdit(p, action, n, kind, root)
    PROVE  /\ edit'[p] \in Edits /\ Named(edit'[p])
           /\ edit'[p].pc = "read" /\ edit'[p].action = action /\ edit'[p].name = n
           /\ edit'[p].table = [rev |-> edits + 1, kind |-> kind]
           /\ edit'[p].root = root /\ edit'[p].handle = "none"
           /\ \A q \in Editors \ {p} : edit'[q] = edit[q]
           /\ TypeInv'
<1>. DEFINE table == [rev |-> edits + 1, kind |-> kind]
            e == [pc |-> "read", action |-> action, name |-> n, table |-> table,
                  root |-> root, doc |-> Truncated, handle |-> "none"]
<1>1. table \in Tables
  BY EditBoundsAssumption DEF TypeInv, EditsTyped, RestTyped, BeginEdit, Tables
<1>2. e \in Edits /\ Named(e) BY <1>1, DocType DEF Edits, EditPcs, Named
<1>3. edit' = [edit EXCEPT ![p] = e] BY DEF BeginEdit
<1>4. edit'[p] = e /\ \A q \in Editors \ {p} : edit'[q] = edit[q]
  BY <1>2, <1>3, EditMovedType
<1>5. EditsTyped'
  <2>1. lock' \in Servers \cup {None} BY DEF TypeInv, EditsTyped, RestTyped, BeginEdit, Locked
  <2>2. committed' \in Docs BY DocType DEF TypeInv, EditsTyped, RestTyped, BeginEdit
  <2>. QED BY <1>2, <1>3, <2>1, <2>2, EditMovedType
         DEF TypeInv, EditsTyped, RestTyped, BeginEdit
<1>6. RestTyped'
  BY EditBoundsAssumption DEF TypeInv, EditsTyped, RestTyped, BeginEdit, Overlaps
<1>. QED BY <1>2, <1>4, <1>5, <1>6 DEF TypeInv

LEMMA WrittenType ==
    ASSUME NEW doc \in Docs, NEW old PROVE Written(doc, old) \subseteq Docs
BY DocType DEF Written

LEMMA ReadDocType == ASSUME TypeInv, NEW p \in Editors, ReadDoc(p) PROVE TypeInv'
<1>. EditsTyped /\ RestTyped BY DEF TypeInv
<1>. RestTyped' BY DEF RestTyped, ReadDoc
<1>1. edit[p] \in Edits /\ Named(edit[p])
  BY EditType DEF EditsTyped, ReadDoc, At, Editing
<1>2. CASE \E doc \in Changed(edit[p], config) :
             edit' = [edit EXCEPT ![p] = Moved(@, "open", doc, "none")] /\ UNCHANGED lock
  <2>1. PICK doc \in Changed(edit[p], config) :
             edit' = [edit EXCEPT ![p] = Moved(edit[p], "open", doc, "none")]
    BY <1>2
  <2>2. doc \in Docs BY <1>1, ChangedType DEF EditsTyped
  <2>3. Moved(edit[p], "open", doc, "none") \in Edits /\ Named(Moved(edit[p], "open", doc, "none"))
    BY <1>1, <2>2, MovedType DEF EditPcs
  <2>4. EditsTyped' BY <1>2, <2>1, <2>3, EditMovedType DEF EditsTyped, ReadDoc
  <2>. QED BY <2>4 DEF TypeInv
<1>3. CASE EndEdit(p)
  <2>1. EditsTyped' BY <1>3, EndEditType DEF EditsTyped, ReadDoc
  <2>. QED BY <2>1 DEF TypeInv
<1>. QED BY <1>2, <1>3 DEF ReadDoc

LEMMA OpenTempType == ASSUME TypeInv, NEW p \in Editors, OpenTemp(p) PROVE TypeInv'
<1>. EditsTyped /\ RestTyped BY DEF TypeInv
<1>. RestTyped' BY DEF RestTyped, OpenTemp
<1>. DEFINE e == Moved(edit[p], "write", edit[p].doc, "temp")
<1>1. edit[p] \in Edits /\ Named(edit[p]) /\ edit[p].doc \in Docs
  BY EditType DEF EditsTyped, OpenTemp, At, Editing, Edits
<1>2. e \in Edits /\ Named(e)
  <2>1. \A doc \in Docs : /\ Moved(edit[p], "write", doc, "temp") \in Edits
                         /\ Named(Moved(edit[p], "write", doc, "temp"))
    BY <1>1, MovedType DEF EditPcs
  <2>. QED BY <1>1, <2>1
<1>3. edit' = [edit EXCEPT ![p] = e] BY DEF OpenTemp
<1>4. EditsTyped' BY <1>2, <1>3, DocType, EditMovedType DEF EditsTyped, OpenTemp
<1>. QED BY <1>4 DEF TypeInv

LEMMA WriteTempType == ASSUME TypeInv, NEW p \in Editors, WriteTemp(p) PROVE TypeInv'
<1>. EditsTyped /\ RestTyped BY DEF TypeInv
<1>. DEFINE e == Moved(edit[p], "replace", edit[p].doc, "none")
<1>1. edit[p] \in Edits /\ Named(edit[p]) /\ edit[p].doc \in Docs
  BY EditType DEF EditsTyped, WriteTemp, At, Editing, Edits
<1>2. e \in Edits /\ Named(e)
  <2>1. \A doc \in Docs : /\ Moved(edit[p], "replace", doc, "none") \in Edits
                         /\ Named(Moved(edit[p], "replace", doc, "none"))
    BY <1>1, MovedType DEF EditPcs
  <2>. QED BY <1>1, <2>1
<1>3. edit' = [edit EXCEPT ![p] = e] BY DEF WriteTemp
<1>4. temp' \in Docs \cup {NoFile} BY <1>1, WrittenType DEF EditsTyped, WriteTemp
<1>5. config' \in Docs BY <1>1, WrittenType DEF EditsTyped, WriteTemp
<1>6. RestTyped' BY DEF RestTyped, WriteTemp, Others
<1>7. EditsTyped' BY <1>2, <1>3, <1>4, <1>5, EditMovedType DEF EditsTyped, WriteTemp
<1>. QED BY <1>6, <1>7 DEF TypeInv

LEMMA HandlesType ==
    ASSUME TypeInv, NEW q \in Editors
    PROVE  /\ Handles(q) \in Edits \cup {NoEdit}
           /\ Handles(q).pc = edit[q].pc
           /\ edit[q].pc # "idle" => /\ Handles(q).action = edit[q].action
                                     /\ Handles(q).name = edit[q].name
           /\ edit[q].pc # "write" => Handles(q) = edit[q]
<1>. edit[q] \in Edits \cup {NoEdit} BY DEF TypeInv, EditsTyped, RestTyped
<1>1. CASE At(q, "write")
  <2>1. edit[q] \in Edits BY <1>1, EditType DEF At
  <2>2. edit[q].doc \in Docs /\ edit[q].handle \in {"none", "temp", "config", "gone"}
    BY <2>1 DEF Edits
  <2>3. Followed(edit[q].handle) \in {"none", "temp", "config", "gone"}
    BY <2>2 DEF Followed
  <2>4. \A doc \in Docs, h \in {"none", "temp", "config", "gone"} :
           /\ Moved(edit[q], "write", doc, h) \in Edits
           /\ Moved(edit[q], "write", doc, h).pc = "write"
           /\ Moved(edit[q], "write", doc, h).action = edit[q].action
           /\ Moved(edit[q], "write", doc, h).name = edit[q].name
    <3>. TAKE doc \in Docs, h \in {"none", "temp", "config", "gone"}
    <3>1. "write" \in EditPcs BY DEF EditPcs
    <3>. QED BY <2>1, <3>1, MovedType
  <2>. QED BY <1>1, <2>2, <2>3, <2>4 DEF Handles, At
<1>2. CASE ~At(q, "write") BY <1>2 DEF Handles, At
<1>. QED BY <1>1, <1>2

LEMMA ReplaceType == ASSUME TypeInv, NEW p \in Editors, Replace(p) PROVE TypeInv'
<1>. EditsTyped /\ RestTyped BY DEF TypeInv
<1>1. CASE temp = NoFile
  <2>1. RestTyped' BY <1>1 DEF RestTyped, Replace
  <2>2. EditsTyped' BY <1>1, EndEditType DEF EditsTyped, Replace
  <2>. QED BY <2>1, <2>2 DEF TypeInv
<1>2. CASE temp # NoFile
  <2>1. edit[p] \in Edits /\ Named(edit[p])
    BY EditType DEF EditsTyped, Replace, At, Editing
  <2>2. Moved(edit[p], Loads(edit[p]), Truncated, "none") \in Edits
        /\ Named(Moved(edit[p], Loads(edit[p]), Truncated, "none"))
    <3>1. Loads(edit[p]) \in EditPcs BY DEF EditPcs, Loads
    <3>. QED BY <2>1, <3>1, DocType, MovedType
  <2>3. \A q \in Editors : edit'[q] \in Edits \cup {NoEdit}
                           /\ (edit'[q].pc # "idle" => Named(edit'[q]))
    <3>. TAKE q \in Editors
    <3>1. CASE q = p BY <1>2, <2>2, <3>1 DEF Replace, NoEdit
    <3>2. CASE q # p
      <4>1. edit'[q] = Handles(q) BY <1>2, <3>2 DEF Replace
      <4>. QED BY <4>1, HandlesType DEF EditsTyped, Editing, Named
    <3>. QED BY <3>1, <3>2
  <2>4. edit' \in [Editors -> Edits \cup {NoEdit}] BY <1>2, <2>3 DEF Replace
  <2>5. committed' \in Docs BY <1>2, <2>1, ChangedType DEF Replace, EditsTyped
  <2>6. EditsTyped' BY <1>2, <2>3, <2>4, <2>5 DEF EditsTyped, Replace, Editing
  <2>7. RestTyped' BY <1>2 DEF RestTyped, Replace, Others
  <2>. QED BY <2>6, <2>7 DEF TypeInv
<1>. QED BY <1>1, <1>2

LEMMA ServerStepType == ASSUME TypeInv, NEW s \in Servers, ServerStep(s) PROVE TypeInv'
<1>. EditsTyped /\ RestTyped BY DEF TypeInv
<1>. s \in Editors BY DEF Editors
<1>1. CASE ReloadProject(s)
  <2>1. CASE Loadable(config)
    <3>. DEFINE e == Moved(edit[s], "clear", Truncated, "none")
    <3>1. edit[s] \in Edits /\ Named(edit[s])
      BY <1>1, EditType DEF EditsTyped, ReloadProject, At, Editing
    <3>2. e \in Edits /\ Named(e) BY <3>1, DocType, MovedType DEF EditPcs
    <3>3. edit' = [edit EXCEPT ![s] = e] BY <1>1, <2>1 DEF ReloadProject
    <3>4. EditsTyped' BY <1>1, <2>1, <3>2, <3>3, EditMovedType DEF EditsTyped, ReloadProject
    <3>5. project' \in [Servers -> [Names -> SUBSET Tables]]
      BY <1>1, <2>1, DocType DEF RestTyped, EditsTyped, ReloadProject
    <3>6. RestTyped' BY <1>1, <2>1, <3>5 DEF RestTyped, ReloadProject
    <3>. QED BY <3>4, <3>6 DEF TypeInv
  <2>2. CASE ~Loadable(config)
    <3>1. RestTyped' BY <1>1, <2>2 DEF RestTyped, ReloadProject
    <3>2. EditsTyped' BY <1>1, <2>2, EndEditType DEF EditsTyped, ReloadProject
    <3>. QED BY <3>1, <3>2 DEF TypeInv
  <2>. QED BY <2>1, <2>2
<1>2. CASE ClearProviders(s)
  <2>1. RestTyped' BY <1>2, DocType DEF RestTyped, ClearProviders
  <2>2. EditsTyped' BY <1>2, EndEditType DEF EditsTyped, ClearProviders
  <2>. QED BY <2>1, <2>2 DEF TypeInv
<1>3. ASSUME NEW n \in Names, StartRefresh(s, n) PROVE TypeInv'
  BY <1>3 DEF TypeInv, EditsTyped, RestTyped, StartRefresh, Editing
<1>4. ASSUME NEW n \in Names, BeginSearch(s, n) PROVE TypeInv'
  <2>1. [pc |-> "read", name |-> n, settings |-> project[s][n]] \in Searches
    BY DEF Searches, RestTyped
  <2>2. RestTyped' BY <1>4, <2>1 DEF RestTyped, BeginSearch
  <2>3. EditsTyped' BY <1>4 DEF EditsTyped, BeginSearch, Editing
  <2>. QED BY <2>2, <2>3 DEF TypeInv
<1>5. CASE LookUpProvider(s)
  <2>1. search[s] \in Searches BY <1>5 DEF LookUpProvider, RestTyped, NoSearch
  <2>2. [search[s] EXCEPT !.pc = "open"] \in Searches BY <2>1 DEF Searches
  <2>3. RestTyped' BY <1>5, <2>2 DEF RestTyped, LookUpProvider
  <2>4. EditsTyped' BY <1>5 DEF EditsTyped, LookUpProvider, Editing
  <2>. QED BY <2>3, <2>4 DEF TypeInv
<1>6. CASE CacheProvider(s)
  <2>1. search[s] \in Searches BY <1>6 DEF CacheProvider, RestTyped, NoSearch
  <2>2. search[s].name \in Names /\ search[s].settings \in SUBSET Tables
    BY <2>1 DEF Searches
  <2>3. providers' \in [Servers -> [Names -> SUBSET Tables]]
    <3>1. CASE UNCHANGED providers BY <3>1 DEF RestTyped
    <3>2. CASE providers' = [providers EXCEPT ![s][search[s].name] = search[s].settings]
      <4>1. [providers[s] EXCEPT ![search[s].name] = search[s].settings] \in [Names -> SUBSET Tables]
        BY <2>2 DEF RestTyped
      <4>. QED BY <3>2, <4>1 DEF RestTyped
    <3>. QED BY <1>6, <3>1, <3>2 DEF CacheProvider
  <2>4. RestTyped' BY <1>6, <2>3 DEF RestTyped, CacheProvider
  <2>5. EditsTyped' BY <1>6 DEF EditsTyped, CacheProvider, Editing
  <2>. QED BY <2>4, <2>5 DEF TypeInv
<1>7. CASE Restart(s)
  <2>1. project' \in [Servers -> [Names -> SUBSET Tables]]
    BY <1>7, DocType DEF RestTyped, EditsTyped, Restart
  <2>2. RestTyped' BY <1>7, <2>1 DEF RestTyped, Restart
  <2>3. EditsTyped' BY <1>7 DEF EditsTyped, Restart, Editing
  <2>. QED BY <2>2, <2>3 DEF TypeInv
<1>8. CASE DescribeScope(s)
  <2>1. RestTyped' BY <1>8 DEF RestTyped, DescribeScope
  <2>2. CASE EndEdit(s)
    <3>1. EditsTyped' BY <1>8, <2>2, EndEditType DEF EditsTyped, DescribeScope
    <3>. QED BY <2>1, <3>1 DEF TypeInv
  <2>3. CASE ~EndEdit(s)
    <3>. DEFINE e == Moved(edit[s], "reload", Truncated, "none")
    <3>1. edit[s] \in Edits /\ Named(edit[s])
      BY <1>8, EditType DEF EditsTyped, DescribeScope, At, Editing
    <3>2. e \in Edits /\ Named(e) BY <3>1, DocType, MovedType DEF EditPcs
    <3>3. edit' = [edit EXCEPT ![s] = e] /\ UNCHANGED lock BY <1>8, <2>3 DEF DescribeScope
    <3>4. EditsTyped' BY <1>8, <3>2, <3>3, EditMovedType DEF EditsTyped, DescribeScope
    <3>. QED BY <2>1, <3>4 DEF TypeInv
  <2>. QED BY <2>2, <2>3
<1>. QED BY <1>1, <1>2, <1>3, <1>4, <1>5, <1>6, <1>7, <1>8 DEF ServerStep

LEMMA DieType == ASSUME TypeInv, NEW p \in Editors, Die(p) PROVE TypeInv'
<1>. EditsTyped /\ RestTyped BY DEF TypeInv
<1>1. RestTyped' BY DocType, EditBoundsAssumption DEF RestTyped, Die
<1>2. EditsTyped' BY EndEditType DEF EditsTyped, Die
<1>. QED BY <1>1, <1>2 DEF TypeInv

\* What begins is an edit that names its scope.
LEMMA BeginsEdit ==
    ASSUME NEW p \in Editors, Begin(p) \/ (p \in Tools /\ SetWorkspaceRoot(p))
    PROVE  \E action \in Actions, n \in Names \cup {None}, kind \in Kinds, root \in Roots :
              /\ BeginEdit(p, action, n, kind, root)
              /\ action = "root" \/ n \in Names
              /\ p \in Servers => action # "root"
<1>1. CASE Begin(p) BY <1>1 DEF Begin, Actions, Kinds, Roots
<1>2. CASE p \in Tools /\ SetWorkspaceRoot(p)
  <2>1. p \notin Servers BY <1>2, EditorsAssumption
  <2>. QED BY <1>2, <2>1 DEF SetWorkspaceRoot, Actions, Kinds
<1>. QED BY <1>1, <1>2

LEMMA StepType == TypeInv /\ [ScopeNext]_scopeVars => TypeInv'
<1>. SUFFICES ASSUME TypeInv, [ScopeNext]_scopeVars PROVE TypeInv' OBVIOUS
<1>1. ASSUME NEW p \in Editors, Begin(p) \/ (p \in Tools /\ SetWorkspaceRoot(p)) PROVE TypeInv'
  BY <1>1, BeginsEdit, BegunType
<1>2. ASSUME NEW p \in Editors, EditStep(p) PROVE TypeInv'
  BY <1>2, ReadDocType, OpenTempType, WriteTempType, ReplaceType DEF EditStep
<1>3. ASSUME NEW p \in Editors, Die(p) PROVE TypeInv' BY <1>3, DieType
<1>4. ASSUME NEW s \in Servers, ServerStep(s) PROVE TypeInv' BY <1>4, ServerStepType
<1>5. ASSUME NEW n \in Names, EndRefresh(n) PROVE TypeInv'
  BY <1>5 DEF TypeInv, EditsTyped, RestTyped, EndRefresh, Editing
<1>6. CASE UNCHANGED scopeVars BY <1>6 DEF scopeVars, TypeInv, EditsTyped, RestTyped, Editing
<1>. QED BY <1>1, <1>2, <1>3, <1>4, <1>5, <1>6 DEF ScopeNext, Editors

\* Every state is well-typed, and every edit of a scope names one.
THEOREM TypeCorrect == ScopeSpec => []ScopeTypeOK
<1>1. ScopeSpec => []TypeInv BY InitType, StepType, PTL DEF ScopeSpec
<1>2. TypeInv => ScopeTypeOK BY DEF TypeInv, EditsTyped, RestTyped, ScopeTypeOK
<1>. QED BY <1>1, <1>2, PTL

-----------------------------------------------------------------------------
(* Locks, jobs and servers that are down.                                  *)

\* The other edits stay where they are.
OthersStay(p) ==
    \A q \in Editors \ {p} :
        /\ edit'[q].pc = edit[q].pc
        /\ edit[q].pc # "idle" => edit'[q].action = edit[q].action /\ edit'[q].name = edit[q].name
        /\ edit[q].pc # "write" => edit'[q] = edit[q]

GoesOn(p) ==
    /\ edit'[p].pc # "idle" /\ lock' = lock
    /\ edit'[p].action = edit[p].action /\ edit'[p].name = edit[p].name

Ends(p) == edit'[p].pc = "idle" /\ lock' = Unlocked(p)

\* The steps of an edit after its first one, on a server and elsewhere.
ServerEditStep(s) == DescribeScope(s) \/ ReloadProject(s) \/ ClearProviders(s)
Progress(p) == EditStep(p) \/ (p \in Servers /\ ServerEditStep(p))

LEMMA EndsWhenEnded ==
    ASSUME TypeInv, NEW p \in Editors, EndEdit(p)
    PROVE  OthersStay(p) /\ Ends(p)
<1>1. ~Editing(p)' /\ \A q \in Editors \ {p} : edit'[q] = edit[q] BY EndEditType
<1>. QED BY <1>1 DEF OthersStay, Ends, EndEdit, Editing

LEMMA GoesOnWhenMoved ==
    ASSUME TypeInv, NEW p \in Editors, edit[p] \in Edits, NEW pc \in EditPcs, NEW doc \in Docs,
           NEW handle \in {"none", "temp", "config", "gone"},
           edit' = [edit EXCEPT ![p] = Moved(edit[p], pc, doc, handle)], lock' = lock
    PROVE  OthersStay(p) /\ GoesOn(p) /\ edit'[p] = Moved(edit[p], pc, doc, handle)
<1>. edit \in [Editors -> Edits \cup {NoEdit}] BY DEF TypeInv, EditsTyped
<1>1. /\ edit'[p] = Moved(edit[p], pc, doc, handle)
      /\ \A q \in Editors \ {p} : edit'[q] = edit[q]
  OBVIOUS
<1>2. pc # "idle" BY DEF EditPcs
<1>. QED BY <1>1, <1>2, MovedType DEF OthersStay, GoesOn

\* An edit under way is one.
LEMMA UnderWay ==
    ASSUME TypeInv, NEW p \in Editors, Editing(p)
    PROVE  edit[p] \in Edits /\ Named(edit[p]) /\ edit[p].doc \in Docs
<1>1. edit[p] \in Edits /\ Named(edit[p]) BY EditType DEF TypeInv, EditsTyped, Editing
<1>. QED BY <1>1 DEF Edits

LEMMA ReadDocProgress ==
    ASSUME TypeInv, NEW p \in Editors, ReadDoc(p)
    PROVE  /\ OthersStay(p)
           /\ \/ /\ GoesOn(p)
                 /\ \E doc \in Changed(edit[p], config) :
                       doc \in Docs /\ edit'[p] = Moved(edit[p], "open", doc, "none")
              \/ Ends(p)
<1>1. edit[p] \in Edits /\ Named(edit[p]) BY UnderWay DEF ReadDoc, At, Editing
<1>2. CASE EndEdit(p) BY <1>2, EndsWhenEnded
<1>3. CASE \E doc \in Changed(edit[p], config) :
             edit' = [edit EXCEPT ![p] = Moved(@, "open", doc, "none")] /\ UNCHANGED lock
  <2>1. PICK doc \in Changed(edit[p], config) :
             edit' = [edit EXCEPT ![p] = Moved(edit[p], "open", doc, "none")]
    BY <1>3
  <2>2. doc \in Docs BY <1>1, ChangedType DEF TypeInv, EditsTyped
  <2>3. "open" \in EditPcs BY DEF EditPcs
  <2>. QED BY <1>1, <1>3, <2>1, <2>2, <2>3, GoesOnWhenMoved
<1>. QED BY <1>2, <1>3 DEF ReadDoc

LEMMA OpenTempProgress ==
    ASSUME TypeInv, NEW p \in Editors, OpenTemp(p)
    PROVE  /\ OthersStay(p) /\ GoesOn(p)
           /\ edit'[p] = Moved(edit[p], "write", edit[p].doc, "temp")
<1>1. edit[p] \in Edits /\ edit[p].doc \in Docs BY UnderWay DEF OpenTemp, At, Editing
<1>2. "write" \in EditPcs BY DEF EditPcs
<1>3. edit' = [edit EXCEPT ![p] = Moved(edit[p], "write", edit[p].doc, "temp")] /\ lock' = lock
  BY DEF OpenTemp
<1>. QED BY <1>1, <1>2, <1>3, GoesOnWhenMoved

LEMMA WriteTempProgress ==
    ASSUME TypeInv, NEW p \in Editors, WriteTemp(p)
    PROVE  /\ OthersStay(p) /\ GoesOn(p)
           /\ edit'[p] = Moved(edit[p], "replace", edit[p].doc, "none")
<1>1. edit[p] \in Edits /\ edit[p].doc \in Docs BY UnderWay DEF WriteTemp, At, Editing
<1>2. "replace" \in EditPcs BY DEF EditPcs
<1>3. edit' = [edit EXCEPT ![p] = Moved(edit[p], "replace", edit[p].doc, "none")] /\ lock' = lock
  BY DEF WriteTemp
<1>. QED BY <1>1, <1>2, <1>3, GoesOnWhenMoved

LEMMA ReplaceProgress ==
    ASSUME TypeInv, NEW p \in Editors, Replace(p)
    PROVE  /\ OthersStay(p)
           /\ \/ /\ GoesOn(p) /\ temp # NoFile
                 /\ p \in Servers /\ edit'[p] = Moved(edit[p], Loads(edit[p]), Truncated, "none")
              \/ Ends(p) /\ (temp = NoFile \/ p \notin Servers)
<1>1. edit[p] \in Edits BY UnderWay DEF Replace, At, Editing
<1>2. CASE temp = NoFile BY <1>2, EndsWhenEnded DEF Replace
<1>3. CASE temp # NoFile
  <2>1. OthersStay(p) BY <1>3, HandlesType DEF Replace, OthersStay
  <2>2. CASE p \in Servers
    <3>1. edit'[p] = Moved(edit[p], Loads(edit[p]), Truncated, "none") /\ lock' = lock
      BY <1>3, <2>2 DEF Replace
    <3>2. \A doc \in Docs : /\ Moved(edit[p], Loads(edit[p]), doc, "none").pc # "idle"
                           /\ Moved(edit[p], Loads(edit[p]), doc, "none").action = edit[p].action
                           /\ Moved(edit[p], Loads(edit[p]), doc, "none").name = edit[p].name
      BY DEF Moved, Loads
    <3>3. GoesOn(p) BY <3>1, <3>2, DocType DEF GoesOn
    <3>. QED BY <1>3, <2>1, <2>2, <3>1, <3>3
  <2>3. CASE p \notin Servers
    <3>1. edit'[p] = NoEdit /\ lock' = lock BY <1>3, <2>3 DEF Replace
    <3>2. p # None BY EditNullAssumption DEF Editors
    <3>3. lock # p BY <2>3, <3>2 DEF TypeInv, EditsTyped
    <3>. QED BY <2>1, <2>3, <3>1, <3>3 DEF Ends, NoEdit, Unlocked
  <2>. QED BY <2>2, <2>3
<1>. QED BY <1>2, <1>3

LEMMA DescribeProgress ==
    ASSUME TypeInv, NEW p \in Servers, DescribeScope(p)
    PROVE  /\ OthersStay(p)
           /\ IF Loadable(config) /\ edit[p].name \in Listed(config)
              THEN GoesOn(p) /\ edit'[p] = Moved(edit[p], "reload", Truncated, "none")
              ELSE Ends(p)
<1>. p \in Editors BY DEF Editors
<1>1. edit[p] \in Edits BY UnderWay DEF DescribeScope, At, Editing
<1>2. CASE Loadable(config) /\ edit[p].name \in Listed(config)
  <2>1. edit' = [edit EXCEPT ![p] = Moved(edit[p], "reload", Truncated, "none")] /\ lock' = lock
    BY <1>2 DEF DescribeScope
  <2>2. "reload" \in EditPcs BY DEF EditPcs
  <2>. QED BY <1>1, <1>2, <2>1, <2>2, DocType, GoesOnWhenMoved
<1>3. CASE ~(Loadable(config) /\ edit[p].name \in Listed(config))
  <2>1. EndEdit(p) BY <1>3 DEF DescribeScope
  <2>. QED BY <1>3, <2>1, EndsWhenEnded
<1>. QED BY <1>2, <1>3

LEMMA ReloadProgress ==
    ASSUME TypeInv, NEW p \in Servers, ReloadProject(p)
    PROVE  /\ OthersStay(p)
           /\ IF Loadable(config)
              THEN GoesOn(p) /\ edit'[p] = Moved(edit[p], "clear", Truncated, "none")
              ELSE Ends(p)
<1>. p \in Editors BY DEF Editors
<1>1. edit[p] \in Edits BY UnderWay DEF ReloadProject, At, Editing
<1>2. CASE Loadable(config)
  <2>1. edit' = [edit EXCEPT ![p] = Moved(edit[p], "clear", Truncated, "none")] /\ lock' = lock
    BY <1>2 DEF ReloadProject
  <2>2. "clear" \in EditPcs BY DEF EditPcs
  <2>. QED BY <1>1, <1>2, <2>1, <2>2, DocType, GoesOnWhenMoved
<1>3. CASE ~Loadable(config)
  <2>1. EndEdit(p) BY <1>3 DEF ReloadProject
  <2>. QED BY <1>3, <2>1, EndsWhenEnded
<1>. QED BY <1>2, <1>3

LEMMA EditProgress ==
    ASSUME TypeInv, NEW p \in Editors, Progress(p)
    PROVE  /\ edit[p].pc # "idle" /\ OthersStay(p) /\ (GoesOn(p) \/ Ends(p))
           /\ UNCHANGED <<job, up, search, overlapped>>
<1>1. CASE ReadDoc(p) BY <1>1, ReadDocProgress DEF ReadDoc, At
<1>2. CASE OpenTemp(p) BY <1>2, OpenTempProgress DEF OpenTemp, At
<1>3. CASE WriteTemp(p) BY <1>3, WriteTempProgress DEF WriteTemp, At
<1>4. CASE Replace(p) BY <1>4, ReplaceProgress DEF Replace, At
<1>5. CASE p \in Servers /\ ReloadProject(p) BY <1>5, ReloadProgress DEF ReloadProject, At
<1>6. CASE p \in Servers /\ ClearProviders(p)
  BY <1>6, EndsWhenEnded DEF ClearProviders, At
<1>7. CASE p \in Servers /\ DescribeScope(p) BY <1>7, DescribeProgress DEF DescribeScope, At
<1>. QED BY <1>1, <1>2, <1>3, <1>4, <1>5, <1>6, <1>7 DEF Progress, EditStep, ServerEditStep

\* A server that edits holds the lock, and its scope has no active job.
LockInv ==
    \A s \in Servers :
        /\ Editing(s) <=> lock = s
        /\ Editing(s) => edit[s].action # "root" /\ job[edit[s].name] = None

\* A server that is down has no edit, no search and no providers.
DownInv == \A s \in Servers \ up :
    ~Editing(s) /\ search[s] = NoSearch /\ providers[s] = NoScopes

LEMMA InitLock == ScopeInit => LockInv /\ DownInv
BY EditNullAssumption DEF ScopeInit, LockInv, DownInv, Editing, NoEdit, Editors

LEMMA BeginLock ==
    ASSUME TypeInv, LockInv, DownInv, NEW p \in Editors,
           Begin(p) \/ (p \in Tools /\ SetWorkspaceRoot(p))
    PROVE  LockInv' /\ DownInv'
<1>1. PICK action \in Actions, n \in Names \cup {None}, kind \in Kinds, root \in Roots :
        /\ BeginEdit(p, action, n, kind, root)
        /\ action = "root" \/ n \in Names
        /\ p \in Servers => action # "root"
  BY BeginsEdit
<1>2. /\ edit'[p].pc = "read" /\ edit'[p].action = action /\ edit'[p].name = n
      /\ \A q \in Editors \ {p} : edit'[q] = edit[q]
  BY <1>1 DEF BeginEdit, TypeInv, EditsTyped
<1>3. UNCHANGED <<job, up, search, providers>> BY <1>1 DEF BeginEdit
<1>4. CASE p \in Servers
  <2>1. lock = None /\ lock' = p /\ p \in up /\ job[n] = None
    BY <1>1, <1>4 DEF BeginEdit, MayEdit, Locked
  <2>2. \A s \in Servers : s # None /\ s \in Editors BY EditNullAssumption DEF Editors
  <2>3. LockInv' BY <1>1, <1>2, <1>3, <1>4, <2>1, <2>2 DEF LockInv, Editing
  <2>4. DownInv' BY <1>2, <1>3, <2>1, <2>2 DEF DownInv, Editing
  <2>. QED BY <2>3, <2>4
<1>5. CASE p \notin Servers
  <2>1. lock' = lock BY <1>1, <1>5 DEF BeginEdit, Locked
  <2>2. \A s \in Servers : edit'[s] = edit[s] BY <1>2, <1>5 DEF Editors
  <2>. QED BY <1>3, <2>1, <2>2 DEF LockInv, DownInv, Editing
<1>. QED BY <1>4, <1>5

LEMMA ProgressLock ==
    ASSUME TypeInv, LockInv, DownInv, NEW p \in Editors, Progress(p)
    PROVE  LockInv' /\ DownInv'
<1>1. /\ edit[p].pc # "idle" /\ OthersStay(p) /\ (GoesOn(p) \/ Ends(p))
      /\ UNCHANGED <<job, up, search>>
  BY EditProgress
<1>2. \A s \in Servers : s # None /\ s \in Editors BY EditNullAssumption DEF Editors
<1>3. lock \in Servers \cup {None} BY DEF TypeInv, EditsTyped
<1>4. LockInv'
  <2>. SUFFICES ASSUME NEW s \in Servers
                PROVE  /\ edit'[s].pc # "idle" <=> lock' = s
                       /\ edit'[s].pc # "idle" =>
                             edit'[s].action # "root" /\ job'[edit'[s].name] = None
    BY DEF LockInv, Editing
  <2>1. /\ edit[s].pc # "idle" <=> lock = s
        /\ edit[s].pc # "idle" => edit[s].action # "root" /\ job[edit[s].name] = None
    BY DEF LockInv, Editing
  <2>2. CASE s # p
    <3>1. edit'[s].pc = edit[s].pc /\ (edit[s].pc # "idle" =>
             edit'[s].action = edit[s].action /\ edit'[s].name = edit[s].name)
      BY <1>1, <1>2, <2>2 DEF OthersStay
    <3>2. lock' = s <=> lock = s BY <1>1, <1>2, <2>2 DEF GoesOn, Ends, Unlocked
    <3>. QED BY <1>1, <2>1, <3>1, <3>2
  <2>3. CASE s = p BY <1>1, <1>2, <2>1, <2>3 DEF GoesOn, Ends, Unlocked
  <2>. QED BY <2>2, <2>3
<1>5. DownInv'
  <2>. SUFFICES ASSUME NEW s \in Servers \ up
                PROVE  edit'[s].pc = "idle" /\ search'[s] = NoSearch /\ providers'[s] = NoScopes
    BY <1>1 DEF DownInv, Editing
  <2>1. edit[s].pc = "idle" /\ search[s] = NoSearch /\ providers[s] = NoScopes
    BY DEF DownInv, Editing
  <2>2. s # p /\ edit'[s].pc = "idle" BY <1>1, <1>2, <2>1 DEF OthersStay
  <2>3. providers'[s] = providers[s]
    BY <2>2 DEF Progress, EditStep, ServerEditStep, ReadDoc, OpenTemp, WriteTemp, Replace,
                DescribeScope, ReloadProject, ClearProviders, TypeInv, RestTyped
  <2>. QED BY <1>1, <2>1, <2>2, <2>3
<1>. QED BY <1>4, <1>5

LEMMA DieLock ==
    ASSUME TypeInv, LockInv, DownInv, NEW p \in Editors, Die(p)
    PROVE  LockInv' /\ DownInv'
<1>1. ~Editing(p)' /\ \A q \in Editors \ {p} : edit'[q] = edit[q]
  BY EndEditType DEF Die
<1>2. \A s \in Servers : s # None /\ s \in Editors BY EditNullAssumption DEF Editors
<1>3. \A n \in Names : job'[n] = IF job[n] = p THEN None ELSE job[n] BY DEF Die
<1>4. \A s \in Servers : Editing(s) => edit[s].name \in Names
  BY <1>2 DEF LockInv, TypeInv, EditsTyped, Named
<1>5. LockInv'
  BY <1>1, <1>2, <1>3, <1>4 DEF LockInv, Editing, Die, EndEdit, Unlocked
<1>6. DownInv' BY <1>1, <1>2 DEF DownInv, Editing, Die
<1>. QED BY <1>5, <1>6

\* What the other actions of a server leave alone.
LEMMA StepLock ==
    TypeInv /\ LockInv /\ DownInv /\ [ScopeNext]_scopeVars => LockInv' /\ DownInv'
<1>. SUFFICES ASSUME TypeInv, LockInv, DownInv, [ScopeNext]_scopeVars PROVE LockInv' /\ DownInv'
  OBVIOUS
<1>0. \A s \in Servers : s # None BY EditNullAssumption
<1>1. ASSUME NEW p \in Editors, Begin(p) \/ (p \in Tools /\ SetWorkspaceRoot(p))
      PROVE  LockInv' /\ DownInv'
  BY <1>1, BeginLock
<1>2. ASSUME NEW p \in Editors, Progress(p) PROVE LockInv' /\ DownInv' BY <1>2, ProgressLock
<1>3. ASSUME NEW p \in Editors, Die(p) PROVE LockInv' /\ DownInv' BY <1>3, DieLock
<1>4. ASSUME NEW s \in Servers, NEW n \in Names, StartRefresh(s, n) PROVE LockInv' /\ DownInv'
  BY <1>0, <1>4 DEF StartRefresh, LockInv, DownInv, Editing
<1>5. ASSUME NEW n \in Names, EndRefresh(n) PROVE LockInv' /\ DownInv'
  BY <1>0, <1>5 DEF EndRefresh, LockInv, DownInv, Editing
<1>6. ASSUME NEW s \in Servers, NEW n \in Names, BeginSearch(s, n) PROVE LockInv' /\ DownInv'
  BY <1>6 DEF BeginSearch, LockInv, DownInv, Editing
<1>7. ASSUME NEW s \in Servers, LookUpProvider(s) \/ CacheProvider(s) PROVE LockInv' /\ DownInv'
  <2>1. search[s] # NoSearch BY <1>7 DEF LookUpProvider, CacheProvider, NoSearch
  <2>2. s \in up BY <2>1 DEF DownInv
  <2>3. \A r \in Servers \ {s} : search'[r] = search[r] /\ providers'[r] = providers[r]
    BY <1>7 DEF LookUpProvider, CacheProvider, TypeInv, RestTyped
  <2>4. UNCHANGED <<edit, lock, job, up>> BY <1>7 DEF LookUpProvider, CacheProvider
  <2>. QED BY <2>2, <2>3, <2>4 DEF LockInv, DownInv, Editing
<1>8. ASSUME NEW s \in Servers, Restart(s) PROVE LockInv' /\ DownInv'
  BY <1>8 DEF Restart, LockInv, DownInv, Editing
<1>9. CASE UNCHANGED scopeVars BY <1>9 DEF scopeVars, LockInv, DownInv, Editing
<1>. QED
  BY <1>1, <1>2, <1>3, <1>4, <1>5, <1>6, <1>7, <1>8, <1>9
  DEF ScopeNext, ServerStep, ServerEditStep, Progress, Editors

-----------------------------------------------------------------------------
(* One edit at a time: nothing is lost and the file can be loaded.         *)

Fine(doc) == Loadable(doc) \/ Blanks(doc) # {}

\* The document of an edit whose checks passed is the only one it can make,
\* and it loads, unless the namespace is blank.
LEMMA ChangedIsFine ==
    ASSUME NEW e \in Edits, Named(e), NEW doc \in Docs, Loadable(doc),
           Allowed(e.action, e.name, e.table, e.root, doc)
    PROVE  \E d \in Docs : Changed(e, doc) = {d} /\ Fine(d)
<1>. doc.scopes \in [Names -> SUBSET Tables] BY DocType
<1>. e.table \in Tables /\ e.root \in Roots /\ e.action \in Actions BY DEF Edits
<1>1. CASE e.action = "create"
  <2>. DEFINE d == WithTables(doc, e.name, {e.table})
  <2>1. e.name \in Names /\ doc.scopes[e.name] = {} /\ Fits(doc.root, e.table.kind)
    BY <1>1 DEF Named, Allowed, Listed
  <2>2. doc.scopes[e.name] \cup {e.table} = {e.table} BY <2>1
  <2>3. Changed(e, doc) = {d} BY <1>1, <2>2 DEF Changed
  <2>4. /\ d \in Docs /\ d.text = doc.text /\ d.root = doc.root
        /\ \A m \in Names : d.scopes[m] = IF m = e.name THEN {e.table} ELSE doc.scopes[m]
    BY WithTablesType
  <2>. HIDE DEF d
  <2>5. e.table \in d.scopes[e.name] BY <2>1, <2>4
  <2>6. ASSUME e.table.kind = "blank" PROVE Fine(d)
    <3>1. e.name \in Blanks(d) BY <2>1, <2>5, <2>6 DEF Blanks
    <3>. QED BY <3>1 DEF Fine
  <2>7. ASSUME e.table.kind # "blank" PROVE Fine(d)
    BY <2>1, <2>4, <2>7 DEF Fine, Loadable, Listed, OncePerName
  <2>. QED BY <2>3, <2>4, <2>6, <2>7
<1>2. CASE e.action = "update"
  <2>1. /\ e.name \in Names /\ doc.scopes[e.name] # {}
        /\ e.table.kind # "blank" /\ Fits(doc.root, e.table.kind)
    BY <1>2 DEF Named, Allowed, Listed
  <2>2. PICK t \in doc.scopes[e.name] : doc.scopes[e.name] = {t}
    BY <2>1 DEF Loadable, OncePerName
  <2>. DEFINE d == WithTables(doc, e.name, {e.table})
  <2>3. (doc.scopes[e.name] \ {t}) \cup {e.table} = {e.table} BY <2>2
  <2>4. Changed(e, doc) = {d}
    <3>1. Changed(e, doc) =
            {WithTables(doc, e.name, (doc.scopes[e.name] \ {u}) \cup {e.table}) : u \in {t}}
      BY <1>2, <2>2 DEF Changed
    <3>. QED BY <2>3, <3>1
  <2>5. /\ d \in Docs /\ d.text = doc.text /\ d.root = doc.root
        /\ \A m \in Names : d.scopes[m] = IF m = e.name THEN {e.table} ELSE doc.scopes[m]
    BY WithTablesType
  <2>. HIDE DEF d
  <2>6. Fine(d) BY <2>1, <2>5 DEF Fine, Loadable, Listed, OncePerName
  <2>. QED BY <2>4, <2>5, <2>6
<1>3. CASE e.action = "delete"
  <2>1. e.name \in Names /\ doc.scopes[e.name] # {} /\ Listed(doc) # {e.name}
        /\ e.name \in Listed(doc)
    BY <1>3 DEF Named, Allowed, Listed
  <2>2. PICK t \in doc.scopes[e.name] : doc.scopes[e.name] = {t}
    BY <2>1 DEF Loadable, OncePerName
  <2>. DEFINE d == WithTables(doc, e.name, {})
  <2>3. doc.scopes[e.name] \ {t} = {} BY <2>2
  <2>4. Changed(e, doc) = {d}
    <3>1. Changed(e, doc) = {WithTables(doc, e.name, doc.scopes[e.name] \ {u}) : u \in {t}}
      BY <1>3, <2>2 DEF Changed
    <3>. QED BY <2>3, <3>1
  <2>5. /\ d \in Docs /\ d.text = doc.text /\ d.root = doc.root
        /\ \A m \in Names : d.scopes[m] = IF m = e.name THEN {} ELSE doc.scopes[m]
    BY WithTablesType
  <2>. HIDE DEF d
  <2>6. PICK m \in Names : m # e.name /\ doc.scopes[m] # {} BY <2>1 DEF Listed
  <2>7. Fine(d) BY <2>5, <2>6 DEF Fine, Loadable, Listed, OncePerName
  <2>. QED BY <2>4, <2>5, <2>7
<1>4. CASE e.action = "root"
  <2>. DEFINE d == Doc("whole", e.root, doc.scopes)
  <2>1. Changed(e, doc) = {d} BY <1>4 DEF Changed
  <2>2. d \in Docs /\ d.text = "whole" /\ d.root = e.root /\ d.scopes = doc.scopes
    BY RootDocType
  <2>. HIDE DEF d
  <2>3. \A m \in Names : \A t \in doc.scopes[m] : Fits(e.root, t.kind)
    BY <1>4 DEF Allowed
  <2>4. Fine(d) BY <2>2, <2>3 DEF Fine, Loadable, Listed, OncePerName
  <2>. QED BY <2>1, <2>2, <2>4
<1>. QED BY <1>1, <1>2, <1>3, <1>4 DEF Actions

\* An edit changes the tables of the scope it names, and no others.
LEMMA ChangedAtName ==
    ASSUME NEW e \in Edits, Named(e), NEW doc \in Docs, NEW d \in Changed(e, doc)
    PROVE  /\ \A n \in Names : d.scopes[n] # doc.scopes[n] => e.action # "root" /\ n = e.name
           /\ e.action \in {"create", "update"} => e.name \in Listed(d)
<1>. doc.scopes \in [Names -> SUBSET Tables] BY DocType
<1>. e.table \in Tables /\ e.root \in Roots /\ e.action \in Actions BY DEF Edits
<1>1. CASE e.action = "root"
  <2>1. d = Doc("whole", e.root, doc.scopes) BY <1>1 DEF Changed
  <2>. QED BY <1>1, <2>1, RootDocType
<1>2. CASE e.action # "root"
  <2>1. PICK tables \in SUBSET Tables :
          /\ d = WithTables(doc, e.name, tables)
          /\ e.action \in {"create", "update"} => e.table \in tables
    <3>0. e.name \in Names /\ doc.scopes[e.name] \in SUBSET Tables BY <1>2 DEF Named
    <3>1. CASE e.action = "create"
      <4>1. d = WithTables(doc, e.name, doc.scopes[e.name] \cup {e.table}) BY <3>1 DEF Changed
      <4>2. doc.scopes[e.name] \cup {e.table} \in SUBSET Tables BY <3>0
      <4>. QED BY <4>1, <4>2
    <3>2. CASE e.action = "update"
      <4>1. PICK t \in doc.scopes[e.name] :
              d = WithTables(doc, e.name, (doc.scopes[e.name] \ {t}) \cup {e.table})
        BY <3>2 DEF Changed
      <4>2. (doc.scopes[e.name] \ {t}) \cup {e.table} \in SUBSET Tables BY <3>0
      <4>. QED BY <4>1, <4>2
    <3>3. CASE e.action = "delete"
      <4>1. PICK t \in doc.scopes[e.name] : d = WithTables(doc, e.name, doc.scopes[e.name] \ {t})
        BY <3>3 DEF Changed
      <4>2. doc.scopes[e.name] \ {t} \in SUBSET Tables BY <3>0
      <4>. QED BY <3>3, <4>1, <4>2
    <3>. QED BY <1>2, <3>1, <3>2, <3>3 DEF Actions
  <2>2. \A m \in Names : d.scopes[m] = IF m = e.name THEN tables ELSE doc.scopes[m]
    BY <2>1, WithTablesType
  <2>. QED BY <1>2, <2>1, <2>2 DEF Named, Listed
<1>. QED BY <1>1, <1>2

OneEdit == \A p, q \in Editors : Editing(p) /\ Editing(q) => p = q

\* What the step ahead of an edit relies on.
EditIsSound(p) ==
    /\ edit[p].pc = "read" =>
          Loadable(config)
          /\ Allowed(edit[p].action, edit[p].name, edit[p].table, edit[p].root, config)
    /\ edit[p].pc \in {"open", "write", "replace"} =>
          Changed(edit[p], config) = {edit[p].doc} /\ Fine(edit[p].doc)
    /\ edit[p].pc = "write" => edit[p].handle = "temp" /\ temp = Truncated
    /\ edit[p].pc = "replace" => temp = edit[p].doc

Quiet ==
    /\ OneEdit
    /\ \A p \in Editors : EditIsSound(p)
    /\ committed = config
    /\ Fine(config)

QuietInv == ~overlapped => Quiet

LEMMA InitQuiet == ScopeInit => QuietInv
BY DEF ScopeInit, QuietInv, Quiet, OneEdit, EditIsSound, Editing, NoEdit, Fine

LEMMA BeginQuiet ==
    ASSUME TypeInv, LockInv, QuietInv, NEW p \in Editors,
           Begin(p) \/ (p \in Tools /\ SetWorkspaceRoot(p))
    PROVE  QuietInv'
<1>. SUFFICES ASSUME ~overlapped' PROVE Quiet' BY DEF QuietInv
<1>1. PICK action \in Actions, n \in Names \cup {None}, kind \in Kinds, root \in Roots :
        /\ BeginEdit(p, action, n, kind, root)
        /\ action = "root" \/ n \in Names
  BY BeginsEdit
<1>. DEFINE table == [rev |-> edits + 1, kind |-> kind]
<1>2. /\ edit'[p].pc = "read" /\ edit'[p].action = action /\ edit'[p].name = n
      /\ edit'[p].table = table /\ edit'[p].root = root
      /\ \A q \in Editors \ {p} : edit'[q] = edit[q]
  BY <1>1 DEF BeginEdit, TypeInv, EditsTyped
<1>3. Quiet /\ ~Overlaps(p) BY <1>1 DEF BeginEdit, QuietInv
<1>4. UNCHANGED <<config, temp, committed>> BY <1>1 DEF BeginEdit
<1>5. \A q \in Editors \ {p} : edit[q].pc = "idle"
  <2>. SUFFICES ASSUME NEW q \in Editors \ {p}, Editing(q) PROVE FALSE BY DEF Editing
  <2>1. p \in Servers /\ q \in Servers BY <1>3 DEF Overlaps, Editors
  <2>2. lock = None BY <1>1, <2>1 DEF BeginEdit, MayEdit
  <2>3. lock = q BY <2>1 DEF LockInv
  <2>. QED BY <2>1, <2>2, <2>3, EditNullAssumption
<1>6. Loadable(config) /\ Allowed(action, n, table, root, config) BY <1>1 DEF BeginEdit
<1>. HIDE DEF table
<1>7. OneEdit' BY <1>2, <1>5 DEF OneEdit, Editing
<1>8. EditIsSound(p)' BY <1>2, <1>4, <1>6 DEF EditIsSound
<1>9. \A q \in Editors \ {p} : EditIsSound(q)' BY <1>2, <1>5 DEF EditIsSound
<1>. QED BY <1>3, <1>4, <1>7, <1>8, <1>9 DEF Quiet, Fine

LEMMA QuietOthers ==
    ASSUME Quiet, NEW p \in Editors, edit[p].pc # "idle", OthersStay(p)
    PROVE  /\ OneEdit'
           /\ \A q \in Editors \ {p} : EditIsSound(q)'
<1>1. \A q \in Editors \ {p} : edit[q].pc = "idle" BY DEF Quiet, OneEdit, Editing
<1>2. \A q \in Editors \ {p} : edit'[q].pc = "idle" BY <1>1 DEF OthersStay
<1>. QED BY <1>2 DEF OneEdit, Editing, EditIsSound

LEMMA ProgressQuiet ==
    ASSUME TypeInv, QuietInv, NEW p \in Editors, Progress(p)
    PROVE  QuietInv'
<1>0. /\ edit[p].pc # "idle" /\ OthersStay(p) /\ (GoesOn(p) \/ Ends(p))
      /\ UNCHANGED overlapped
  BY EditProgress
<1>. SUFFICES ASSUME ~overlapped, Quiet PROVE Quiet' BY <1>0 DEF QuietInv
<1>1. OneEdit' /\ \A q \in Editors \ {p} : EditIsSound(q)' BY <1>0, QuietOthers
<1>2. edit[p] \in Edits /\ Named(edit[p]) /\ edit[p].doc \in Docs
  BY <1>0, UnderWay DEF Editing
<1>3. SUFFICES EditIsSound(p)' /\ committed' = config' /\ Fine(config')
  BY <1>1 DEF Quiet, Fine
<1>4. EditIsSound(p) /\ committed = config /\ Fine(config) BY DEF Quiet
<1>5. ASSUME edit'[p].pc \in {"idle", "describe", "reload", "clear"} PROVE EditIsSound(p)'
  BY <1>5 DEF EditIsSound
<1>6. CASE ReadDoc(p)
  <2>1. UNCHANGED <<config, committed, temp>> BY <1>6 DEF ReadDoc
  <2>2. CASE Ends(p) BY <1>4, <1>5, <2>1, <2>2 DEF Ends
  <2>3. CASE ~Ends(p)
    <3>1. PICK doc \in Changed(edit[p], config) :
            doc \in Docs /\ edit'[p] = Moved(edit[p], "open", doc, "none")
      BY <1>6, <2>3, ReadDocProgress
    <3>2. config \in Docs BY DEF TypeInv, EditsTyped
    <3>3. \E d \in Docs : Changed(edit[p], config) = {d} /\ Fine(d)
      BY <1>2, <1>4, <1>6, <3>2, ChangedIsFine DEF EditIsSound, ReadDoc, At
    <3>4. Changed(edit[p], config) = {doc} /\ Fine(doc) BY <3>1, <3>3
    <3>5. Changed(edit'[p], config) = {doc} BY <3>1, <3>4, ChangedOfMoved
    <3>6. edit'[p].pc = "open" /\ edit'[p].doc = doc BY <3>1 DEF Moved
    <3>7. EditIsSound(p)' BY <2>1, <3>4, <3>5, <3>6 DEF EditIsSound
    <3>. QED BY <1>4, <2>1, <3>7
  <2>. QED BY <2>2, <2>3
<1>7. CASE OpenTemp(p)
  <2>1. UNCHANGED <<config, committed>> /\ temp' = Truncated BY <1>7 DEF OpenTemp
  <2>2. edit'[p] = Moved(edit[p], "write", edit[p].doc, "temp") BY <1>7, OpenTempProgress
  <2>3. edit'[p].pc = "write" /\ edit'[p].doc = edit[p].doc /\ edit'[p].handle = "temp"
    BY <2>2 DEF Moved
  <2>4. Changed(edit'[p], config) = Changed(edit[p], config) BY <2>2, ChangedOfMoved
  <2>5. EditIsSound(p)'
    BY <1>4, <1>7, <2>1, <2>3, <2>4 DEF EditIsSound, OpenTemp, At
  <2>. QED BY <1>4, <2>1, <2>5
<1>8. CASE WriteTemp(p)
  <2>0. edit[p].handle = "temp" /\ temp = Truncated BY <1>4, <1>8 DEF EditIsSound, WriteTemp, At
  <2>1. UNCHANGED <<config, committed>> BY <1>8, <2>0 DEF WriteTemp
  <2>2. temp' = edit[p].doc BY <1>8, <2>0 DEF WriteTemp, Written, Truncated, Doc
  <2>3. edit'[p] = Moved(edit[p], "replace", edit[p].doc, "none") BY <1>8, WriteTempProgress
  <2>4. edit'[p].pc = "replace" /\ edit'[p].doc = edit[p].doc BY <2>3 DEF Moved
  <2>5. Changed(edit'[p], config) = Changed(edit[p], config) BY <2>3, ChangedOfMoved
  <2>6. EditIsSound(p)'
    BY <1>4, <1>8, <2>1, <2>2, <2>4, <2>5 DEF EditIsSound, WriteTemp, At
  <2>. QED BY <1>4, <2>1, <2>6
<1>9. CASE Replace(p)
  <2>1. Changed(edit[p], config) = {edit[p].doc} /\ Fine(edit[p].doc) /\ temp = edit[p].doc
    BY <1>4, <1>9 DEF EditIsSound, Replace, At
  <2>2. temp # NoFile
    <3>1. temp.text \in {"none", "torn", "whole"} BY <1>2, <2>1 DEF Docs
    <3>. QED BY <3>1, DocType
  <2>3. config' = temp BY <1>9, <2>2 DEF Replace
  <2>4. committed' = edit[p].doc BY <1>4, <1>9, <2>1, <2>2 DEF Replace
  <2>5. edit'[p].pc \in {"idle", "describe", "reload"}
    <3>1. CASE Ends(p) BY <3>1 DEF Ends
    <3>2. CASE edit'[p] = Moved(edit[p], Loads(edit[p]), Truncated, "none")
      BY <3>2, MovedPc DEF Loads
    <3>. QED BY <1>9, <3>1, <3>2, ReplaceProgress
  <2>. QED BY <1>5, <2>1, <2>3, <2>4, <2>5
<1>10. CASE p \in Servers /\ ServerEditStep(p)
  <2>1. UNCHANGED <<config, committed>>
    BY <1>10 DEF ServerEditStep, DescribeScope, ReloadProject, ClearProviders
  <2>2. edit'[p].pc \in {"idle", "reload", "clear"}
    <3>1. CASE Ends(p) BY <3>1 DEF Ends
    <3>2. CASE DescribeScope(p) BY <1>10, <3>1, <3>2, DescribeProgress, MovedPc
    <3>3. CASE ReloadProject(p) BY <1>10, <3>1, <3>3, ReloadProgress, MovedPc
    <3>4. CASE ClearProviders(p) BY <3>1, <3>4, EndsWhenEnded DEF ClearProviders
    <3>. QED BY <1>10, <3>2, <3>3, <3>4 DEF ServerEditStep
  <2>. QED BY <1>4, <1>5, <2>1, <2>2
<1>. QED BY <1>6, <1>7, <1>8, <1>9, <1>10 DEF Progress, EditStep

LEMMA DieQuiet == ASSUME TypeInv, QuietInv, NEW p \in Editors, Die(p) PROVE QuietInv'
<1>1. ~Editing(p)' /\ \A q \in Editors \ {p} : edit'[q] = edit[q]
  BY EndEditType DEF Die
<1>2. UNCHANGED <<config, temp, committed, overlapped>> BY DEF Die
<1>. SUFFICES ASSUME ~overlapped, Quiet PROVE Quiet' BY <1>2 DEF QuietInv
<1>3. OneEdit' BY <1>1 DEF Quiet, OneEdit, Editing
<1>4. \A q \in Editors : EditIsSound(q)'
  <2>. TAKE q \in Editors
  <2>1. CASE q = p BY <1>1, <2>1 DEF EditIsSound, Editing
  <2>2. CASE q # p BY <1>1, <1>2, <2>2 DEF EditIsSound, Quiet
  <2>. QED BY <2>1, <2>2
<1>. QED BY <1>2, <1>3, <1>4 DEF Quiet, Fine

LEMMA StepQuiet ==
    TypeInv /\ LockInv /\ QuietInv /\ [ScopeNext]_scopeVars => QuietInv'
<1>. SUFFICES ASSUME TypeInv, LockInv, QuietInv, [ScopeNext]_scopeVars PROVE QuietInv' OBVIOUS
<1>1. ASSUME NEW p \in Editors, Begin(p) \/ (p \in Tools /\ SetWorkspaceRoot(p)) PROVE QuietInv'
  BY <1>1, BeginQuiet
<1>2. ASSUME NEW p \in Editors, Progress(p) PROVE QuietInv' BY <1>2, ProgressQuiet
<1>3. ASSUME NEW p \in Editors, Die(p) PROVE QuietInv' BY <1>3, DieQuiet
<1>4. ASSUME UNCHANGED <<config, temp, edit, committed, overlapped>> PROVE QuietInv'
  BY <1>4 DEF QuietInv, Quiet, OneEdit, EditIsSound, Editing, Fine
<1>5. CASE UNCHANGED scopeVars BY <1>4, <1>5 DEF scopeVars
<1>6. ASSUME NEW s \in Servers,
             Restart(s) \/ LookUpProvider(s) \/ CacheProvider(s)
             \/ (\E n \in Names : StartRefresh(s, n) \/ BeginSearch(s, n))
      PROVE  QuietInv'
  BY <1>4, <1>6 DEF Restart, LookUpProvider, CacheProvider, StartRefresh, BeginSearch
<1>7. ASSUME NEW n \in Names, EndRefresh(n) PROVE QuietInv' BY <1>4, <1>7 DEF EndRefresh
<1>. QED BY <1>1, <1>2, <1>3, <1>5, <1>6, <1>7 DEF ScopeNext, ServerStep, ServerEditStep, Progress, Editors

-----------------------------------------------------------------------------
(* The copy that each server keeps.                                        *)

\* A copy that is not outdated is the file, or is about to be: while its
\* server has renamed its edit and not described it, the file has that edit.
CopyIsSound(s) ==
    CASE edit[s].pc = "describe" -> edit[s].name \in Listed(config)
      [] edit[s].pc = "reload" -> TRUE
      [] OTHER -> Loadable(config) => project[s] = config.scopes

\* An edit whose handle has followed a rename, and the document of an edit.
EditFollows(s) ==
    /\ edit[s].pc = "write" /\ edit[s].handle = "config" => s \in outdated
    /\ edit[s].pc \in {"open", "write", "replace"} =>
          edit[s].action = "delete" \/ edit[s].name \in Listed(edit[s].doc)

CopyInv ==
    /\ \A s \in up \ outdated : CopyIsSound(s)
    /\ \A s \in Servers : EditFollows(s)

LEMMA InitCopy == ScopeInit => CopyInv
BY DEF ScopeInit, CopyInv, CopyIsSound, EditFollows, NoEdit, Editors

\* The servers whose edit stays where it is, when neither the file nor their
\* copies change.
LEMMA CopyOfOthers ==
    ASSUME TypeInv, CopyInv, NEW p \in Editors, OthersStay(p), NEW s \in Servers \ {p},
           outdated \subseteq outdated' \cup {p}
    PROVE  /\ UNCHANGED config /\ project'[s] = project[s] /\ s \in up' \ outdated' /\ s \in up
              => CopyIsSound(s)'
           /\ edit'[s].pc # "write" => EditFollows(s)'
           /\ edit'[s] = edit[s] => EditFollows(s)'
<1>. s \in Editors BY DEF Editors
<1>1. edit'[s].pc = edit[s].pc /\ (edit[s].pc # "write" => edit'[s] = edit[s])
  BY DEF OthersStay
<1>2. s \in outdated => s \in outdated' OBVIOUS
<1>3. EditFollows(s) BY DEF CopyInv
<1>4. edit'[s] = edit[s] => EditFollows(s)' BY <1>2, <1>3 DEF EditFollows
<1>5. ASSUME UNCHANGED config, project'[s] = project[s], s \in up' \ outdated', s \in up
      PROVE  CopyIsSound(s)'
  <2>1. CopyIsSound(s) BY <1>2, <1>5 DEF CopyInv
  <2>2. edit[s].pc = "describe" => edit'[s] = edit[s] BY <1>1
  <2>. QED BY <1>1, <1>5, <2>1, <2>2 DEF CopyIsSound, Listed, Loadable
<1>. QED BY <1>1, <1>4, <1>5

\* The same when the other edits do not change at all.
LEMMA CopyStays ==
    ASSUME TypeInv, CopyInv, NEW p \in Editors,
           \A q \in Editors \ {p} : edit'[q] = edit[q],
           UNCHANGED <<config, project, outdated>>, up' \subseteq up,
           p \in Servers =>
             /\ p \in up' \ outdated => CopyIsSound(p)'
             /\ EditFollows(p)'
    PROVE  CopyInv'
<1>1. OthersStay(p) BY DEF OthersStay
<1>2. ASSUME NEW s \in Servers \ {p}
      PROVE  (s \in up' \ outdated' => CopyIsSound(s)') /\ EditFollows(s)'
  <2>1. s \in Editors BY DEF Editors
  <2>. QED BY <1>1, <2>1, CopyOfOthers
<1>3. up' \subseteq Servers BY DEF TypeInv, RestTyped
<1>. QED BY <1>2, <1>3 DEF CopyInv

LEMMA BeginCopy ==
    ASSUME TypeInv, CopyInv, NEW p \in Editors,
           Begin(p) \/ (p \in Tools /\ SetWorkspaceRoot(p))
    PROVE  CopyInv'
<1>1. PICK action \in Actions, n \in Names \cup {None}, kind \in Kinds, root \in Roots :
        BeginEdit(p, action, n, kind, root)
  BY BeginsEdit
<1>2. edit'[p].pc = "read" /\ \A q \in Editors \ {p} : edit'[q] = edit[q]
  BY <1>1 DEF BeginEdit, TypeInv, EditsTyped
<1>3. UNCHANGED <<config, project, outdated, up>> BY <1>1 DEF BeginEdit
<1>4. edit[p].pc = "idle" BY <1>1 DEF BeginEdit, Editing
<1>5. p \in up \ outdated => CopyIsSound(p)' BY <1>2, <1>3, <1>4 DEF CopyInv, CopyIsSound
<1>6. EditFollows(p)' BY <1>2 DEF EditFollows
<1>. QED BY <1>2, <1>3, <1>5, <1>6, CopyStays

LEMMA OthersUnchanged ==
    ASSUME NEW p \in Editors, TypeInv, ~Replace(p), Progress(p)
    PROVE  \A q \in Editors \ {p} : edit'[q] = edit[q]
BY DEF Progress, EditStep, ServerEditStep, ReadDoc, OpenTemp, WriteTemp, DescribeScope,
       ReloadProject, ClearProviders, EndEdit, TypeInv, EditsTyped

LEMMA ProgressCopy ==
    ASSUME TypeInv, CopyInv, LockInv, NEW p \in Editors, Progress(p)
    PROVE  CopyInv'
<1>0. /\ edit[p].pc # "idle" /\ OthersStay(p) /\ (GoesOn(p) \/ Ends(p)) /\ UNCHANGED up
  BY EditProgress
<1>1. edit[p] \in Edits /\ Named(edit[p]) /\ edit[p].doc \in Docs
  BY <1>0, UnderWay DEF Editing
<1>2. up \subseteq Servers /\ config \in Docs BY DEF TypeInv, RestTyped, EditsTyped
<1>3. CASE ReadDoc(p)
  <2>1. UNCHANGED <<config, project, outdated>> BY <1>3 DEF ReadDoc
  <2>2. edit[p].pc = "read" BY <1>3 DEF ReadDoc, At
  <2>3. CASE Ends(p)
    <3>1. p \in up \ outdated => CopyIsSound(p)'
      BY <2>1, <2>2, <2>3 DEF CopyInv, CopyIsSound, Ends
    <3>2. EditFollows(p)' BY <2>3 DEF EditFollows, Ends
    <3>. QED BY <1>0, <1>3, <2>1, <3>1, <3>2, CopyStays, OthersUnchanged DEF ReadDoc, Replace, At
  <2>4. CASE ~Ends(p)
    <3>1. PICK doc \in Changed(edit[p], config) : edit'[p] = Moved(edit[p], "open", doc, "none")
      BY <1>3, <2>4, ReadDocProgress
    <3>2. /\ edit'[p].pc = "open" /\ edit'[p].action = edit[p].action
          /\ edit'[p].name = edit[p].name /\ edit'[p].doc = doc
      BY <3>1 DEF Moved
    <3>3. p \in up \ outdated => CopyIsSound(p)' BY <2>1, <2>2, <3>2 DEF CopyInv, CopyIsSound
    <3>4. p \in Servers => edit[p].action # "root" BY <1>0 DEF LockInv, Editing
    <3>5. edit[p].action \in {"create", "update"} => edit[p].name \in Listed(doc)
      BY <1>1, <1>2, ChangedAtName
    <3>6. p \in Servers => EditFollows(p)'
      BY <1>1, <3>2, <3>4, <3>5 DEF EditFollows, Edits, Actions, Listed
    <3>. QED BY <1>0, <1>3, <2>1, <3>3, <3>6, CopyStays, OthersUnchanged DEF ReadDoc, Replace, At
  <2>. QED BY <2>3, <2>4
<1>4. CASE OpenTemp(p)
  <2>1. UNCHANGED <<config, project, outdated>> BY <1>4 DEF OpenTemp
  <2>2. edit[p].pc = "open" BY <1>4 DEF OpenTemp, At
  <2>3. edit'[p] = Moved(edit[p], "write", edit[p].doc, "temp") BY <1>4, OpenTempProgress
  <2>4. /\ edit'[p].pc = "write" /\ edit'[p].action = edit[p].action /\ edit'[p].handle = "temp"
        /\ edit'[p].name = edit[p].name /\ edit'[p].doc = edit[p].doc
    BY <2>3 DEF Moved
  <2>5. p \in up \ outdated => CopyIsSound(p)' BY <2>1, <2>2, <2>4 DEF CopyInv, CopyIsSound
  <2>6. p \in Servers => EditFollows(p)' BY <2>2, <2>4 DEF CopyInv, EditFollows, Listed
  <2>. QED BY <1>0, <1>4, <2>1, <2>5, <2>6, CopyStays, OthersUnchanged DEF OpenTemp, Replace, At
<1>5. CASE WriteTemp(p)
  <2>1. edit[p].pc = "write" BY <1>5 DEF WriteTemp, At
  <2>2. edit'[p] = Moved(edit[p], "replace", edit[p].doc, "none") BY <1>5, WriteTempProgress
  <2>3. /\ edit'[p].pc = "replace" /\ edit'[p].action = edit[p].action
        /\ edit'[p].name = edit[p].name /\ edit'[p].doc = edit[p].doc
    BY <2>2 DEF Moved
  <2>4. \A q \in Editors \ {p} : edit'[q] = edit[q]
    BY <1>5, OthersUnchanged DEF WriteTemp, Replace, At, Progress, EditStep
  <2>5. p \in Servers => EditFollows(p)' BY <2>1, <2>3 DEF CopyInv, EditFollows, Listed
  <2>6. UNCHANGED project BY <1>5 DEF WriteTemp
  <2>7. CASE edit[p].handle # "config"
    <3>1. UNCHANGED <<config, outdated>> BY <1>5, <2>7 DEF WriteTemp
    <3>2. p \in up \ outdated => CopyIsSound(p)' BY <2>1, <2>3, <2>6, <3>1 DEF CopyInv, CopyIsSound
    <3>. QED BY <1>0, <2>4, <2>5, <2>6, <3>1, <3>2, CopyStays
  <2>8. CASE edit[p].handle = "config"
    <3>1. outdated' = outdated \cup Others(p) BY <1>5, <2>8 DEF WriteTemp
    <3>2. p \in Servers => p \in outdated BY <2>1, <2>8 DEF CopyInv, EditFollows
    <3>3. up' \ outdated' = {} BY <1>0, <1>2, <3>1, <3>2 DEF Others
    <3>4. \A s \in Servers \ {p} : EditFollows(s)'
      BY <1>0, <2>4, <3>1, CopyOfOthers DEF Editors
    <3>. QED BY <2>5, <3>3, <3>4 DEF CopyInv
  <2>. QED BY <2>7, <2>8
<1>6. CASE Replace(p)
  <2>0. edit[p].pc = "replace" /\ UNCHANGED project BY <1>6 DEF Replace, At
  <2>1. CASE temp = NoFile
    <3>1. EndEdit(p) /\ UNCHANGED <<config, outdated>> BY <1>6, <2>1 DEF Replace
    <3>2. edit'[p].pc = "idle" /\ \A q \in Editors \ {p} : edit'[q] = edit[q]
      BY <3>1, EndEditType DEF Editing
    <3>3. p \in up \ outdated => CopyIsSound(p)' BY <2>0, <3>1, <3>2 DEF CopyInv, CopyIsSound
    <3>4. EditFollows(p)' BY <3>2 DEF EditFollows
    <3>. QED BY <1>0, <2>0, <3>1, <3>2, <3>3, <3>4, CopyStays
  <2>2. CASE temp # NoFile
    <3>1. /\ config' = temp
          /\ outdated' = outdated \cup (IF temp = edit[p].doc THEN Others(p) ELSE Servers)
      BY <1>6, <2>2 DEF Replace
    <3>2. Servers \ {p} \subseteq outdated' BY <3>1 DEF Others
    <3>3. ASSUME NEW s \in up' \ outdated' PROVE CopyIsSound(s)'
      <4>1. s = p /\ p \in Servers /\ temp = edit[p].doc BY <1>0, <1>2, <3>1, <3>2 DEF Others
      <4>2. edit'[p] = Moved(edit[p], Loads(edit[p]), Truncated, "none")
        BY <1>6, <2>2, <4>1, ReplaceProgress
      <4>3. edit'[p].pc = Loads(edit[p]) /\ edit'[p].name = edit[p].name BY <4>2 DEF Moved
      <4>4. edit[p].action = "delete" \/ edit[p].name \in Listed(edit[p].doc)
        BY <2>0, <4>1 DEF CopyInv, EditFollows
      <4>. QED BY <3>1, <4>1, <4>3, <4>4 DEF CopyIsSound, Loads, Listed
    <3>4. ASSUME NEW s \in Servers PROVE EditFollows(s)'
      <4>1. CASE s = p
        <5>1. edit'[p].pc = Loads(edit[p])
          BY <1>6, <2>2, <4>1, ReplaceProgress, MovedPc DEF Ends
        <5>. QED BY <4>1, <5>1 DEF EditFollows, Loads
      <4>2. CASE s # p
        <5>. s \in Editors BY DEF Editors
        <5>1. edit'[s] = Handles(s) BY <1>6, <2>2, <4>2 DEF Replace
        <5>2. s \in outdated' BY <3>2, <4>2
        <5>3. EditFollows(s) BY DEF CopyInv
        <5>4. CASE edit[s].pc = "write"
          <6>1. edit'[s] = Moved(edit[s], "write", edit[s].doc, Followed(edit[s].handle))
            BY <5>1, <5>4 DEF Handles, At
          <6>2. /\ edit'[s].pc = "write" /\ edit'[s].action = edit[s].action
                /\ edit'[s].name = edit[s].name /\ edit'[s].doc = edit[s].doc
            BY <6>1 DEF Moved
          <6>. QED BY <5>2, <5>3, <5>4, <6>2 DEF EditFollows, Listed
        <5>5. CASE edit[s].pc # "write"
          <6>1. edit'[s] = edit[s] BY <5>1, <5>5 DEF Handles, At
          <6>. QED BY <5>2, <5>3, <6>1 DEF EditFollows, Listed
        <5>. QED BY <5>4, <5>5
      <4>. QED BY <4>1, <4>2
    <3>. QED BY <3>3, <3>4 DEF CopyInv
  <2>. QED BY <2>1, <2>2
<1>7. CASE p \in Servers /\ ReloadProject(p)
  <2>0. edit[p].pc = "reload" /\ UNCHANGED config BY <1>7 DEF ReloadProject, At
  <2>1. \A q \in Editors \ {p} : edit'[q] = edit[q]
    BY <1>7, OthersUnchanged DEF ReloadProject, Replace, At, Progress, ServerEditStep
  <2>2. CASE Loadable(config)
    <3>1. /\ project' = [project EXCEPT ![p] = config.scopes]
          /\ outdated' = outdated \ {p}
      BY <1>7, <2>2 DEF ReloadProject
    <3>2. edit'[p].pc = "clear" BY <1>7, <2>2, ReloadProgress, MovedPc
    <3>3. project'[p] = config.scopes /\ \A s \in Servers \ {p} : project'[s] = project[s]
      BY <1>7, <3>1 DEF TypeInv, RestTyped
    <3>4. CopyIsSound(p)' /\ EditFollows(p)'
      BY <2>0, <3>2, <3>3 DEF CopyIsSound, EditFollows
    <3>5. ASSUME NEW s \in Servers \ {p}
          PROVE  (s \in up' \ outdated' => CopyIsSound(s)') /\ EditFollows(s)'
      <4>1. s \in Editors /\ edit'[s] = edit[s] BY <2>1 DEF Editors
      <4>. QED BY <1>0, <2>0, <3>1, <3>3, <4>1, CopyOfOthers
    <3>. QED BY <1>0, <1>2, <3>4, <3>5 DEF CopyInv
  <2>3. CASE ~Loadable(config)
    <3>1. UNCHANGED <<project, outdated>> BY <1>7, <2>3 DEF ReloadProject
    <3>2. edit'[p].pc = "idle" BY <1>7, <2>3, ReloadProgress DEF Ends
    <3>3. p \in up \ outdated => CopyIsSound(p)'
      BY <2>0, <2>3, <3>2 DEF CopyInv, CopyIsSound
    <3>4. EditFollows(p)' BY <3>2 DEF EditFollows
    <3>. QED BY <1>0, <2>0, <2>1, <3>1, <3>3, <3>4, CopyStays
  <2>. QED BY <2>2, <2>3
<1>8. CASE p \in Servers /\ ClearProviders(p)
  <2>1. edit[p].pc = "clear" /\ UNCHANGED <<config, project, outdated>>
    BY <1>8 DEF ClearProviders, At
  <2>2. edit'[p].pc = "idle" /\ \A q \in Editors \ {p} : edit'[q] = edit[q]
    BY <1>8, EndEditType DEF ClearProviders, Editing
  <2>3. p \in up \ outdated => CopyIsSound(p)' BY <2>1, <2>2 DEF CopyInv, CopyIsSound
  <2>4. EditFollows(p)' BY <2>2 DEF EditFollows
  <2>. QED BY <1>0, <2>1, <2>2, <2>3, <2>4, CopyStays
<1>9. CASE p \in Servers /\ DescribeScope(p)
  <2>0. edit[p].pc = "describe" /\ UNCHANGED <<config, project, outdated>>
    BY <1>9 DEF DescribeScope, At
  <2>1. \A q \in Editors \ {p} : edit'[q] = edit[q]
    BY <1>9, OthersUnchanged DEF DescribeScope, Replace, At, Progress, ServerEditStep
  <2>2. CASE Loadable(config) /\ edit[p].name \in Listed(config)
    <3>1. edit'[p].pc = "reload" BY <1>9, <2>2, DescribeProgress, MovedPc
    <3>2. CopyIsSound(p)' /\ EditFollows(p)' BY <3>1 DEF CopyIsSound, EditFollows
    <3>. QED BY <1>0, <2>0, <2>1, <3>2, CopyStays
  <2>3. CASE ~(Loadable(config) /\ edit[p].name \in Listed(config))
    <3>1. edit'[p].pc = "idle" BY <1>9, <2>3, DescribeProgress DEF Ends
    <3>2. p \in up \ outdated => CopyIsSound(p)'
      BY <2>0, <2>3, <3>1 DEF CopyInv, CopyIsSound
    <3>3. EditFollows(p)' BY <3>1 DEF EditFollows
    <3>. QED BY <1>0, <2>0, <2>1, <3>2, <3>3, CopyStays
  <2>. QED BY <2>2, <2>3
<1>. QED BY <1>3, <1>4, <1>5, <1>6, <1>7, <1>8, <1>9 DEF Progress, EditStep, ServerEditStep

LEMMA DieCopy == ASSUME TypeInv, CopyInv, NEW p \in Editors, Die(p) PROVE CopyInv'
<1>1. edit'[p].pc = "idle" /\ \A q \in Editors \ {p} : edit'[q] = edit[q]
  BY EndEditType DEF Die, Editing
<1>2. UNCHANGED <<config, project, outdated>> /\ up' = up \ {p} BY DEF Die
<1>3. EditFollows(p)' BY <1>1 DEF EditFollows
<1>. QED BY <1>1, <1>2, <1>3, CopyStays

LEMMA RestartCopy ==
    ASSUME TypeInv, CopyInv, DownInv, NEW s \in Servers, Restart(s) PROVE CopyInv'
<1>1. UNCHANGED <<config, edit>> /\ outdated' = outdated \ {s} /\ up' = up \cup {s}
  BY DEF Restart
<1>2. project'[s] = config.scopes /\ \A r \in Servers \ {s} : project'[r] = project[r]
  BY DEF Restart, TypeInv, RestTyped
<1>3. edit[s].pc = "idle" BY DEF Restart, DownInv, Editing
<1>4. CopyIsSound(s)' BY <1>1, <1>2, <1>3 DEF CopyIsSound
<1>5. up \subseteq Servers BY DEF TypeInv, RestTyped
<1>6. ASSUME NEW r \in (up' \ outdated') \ {s} PROVE CopyIsSound(r)'
  <2>1. CopyIsSound(r) /\ r \in Servers \ {s} BY <1>1, <1>5 DEF CopyInv
  <2>. QED BY <1>1, <1>2, <2>1 DEF CopyIsSound, Listed, Loadable
<1>7. \A r \in Servers : EditFollows(r)' BY <1>1, <1>3 DEF CopyInv, EditFollows, Listed
<1>. QED BY <1>4, <1>6, <1>7 DEF CopyInv

LEMMA StepCopy ==
    TypeInv /\ LockInv /\ DownInv /\ CopyInv /\ [ScopeNext]_scopeVars => CopyInv'
<1>. SUFFICES ASSUME TypeInv, LockInv, DownInv, CopyInv, [ScopeNext]_scopeVars PROVE CopyInv'
  OBVIOUS
<1>1. ASSUME NEW p \in Editors, Begin(p) \/ (p \in Tools /\ SetWorkspaceRoot(p)) PROVE CopyInv'
  BY <1>1, BeginCopy
<1>2. ASSUME NEW p \in Editors, Progress(p) PROVE CopyInv' BY <1>2, ProgressCopy
<1>3. ASSUME NEW p \in Editors, Die(p) PROVE CopyInv' BY <1>3, DieCopy
<1>4. ASSUME UNCHANGED <<config, edit, project, outdated, up>> PROVE CopyInv'
  BY <1>4 DEF CopyInv, CopyIsSound, EditFollows, Listed, Loadable
<1>5. CASE UNCHANGED scopeVars BY <1>4, <1>5 DEF scopeVars
<1>6. ASSUME NEW s \in Servers,
             LookUpProvider(s) \/ CacheProvider(s)
             \/ (\E n \in Names : StartRefresh(s, n) \/ BeginSearch(s, n))
      PROVE  CopyInv'
  BY <1>4, <1>6 DEF LookUpProvider, CacheProvider, StartRefresh, BeginSearch
<1>7. ASSUME NEW s \in Servers, Restart(s) PROVE CopyInv' BY <1>7, RestartCopy
<1>8. ASSUME NEW n \in Names, EndRefresh(n) PROVE CopyInv' BY <1>4, <1>8 DEF EndRefresh
<1>. QED BY <1>1, <1>2, <1>3, <1>5, <1>6, <1>7, <1>8 DEF ScopeNext, ServerStep, ServerEditStep, Progress, Editors

-----------------------------------------------------------------------------
(* The search providers that each server caches.                           *)

\* The settings that a search has read are those of the copy, too.
CacheIsSound(s) ==
    s \notin overtaken =>
        /\ edit[s].pc # "clear" =>
              \A n \in Names : providers[s][n] # {} => providers[s][n] = project[s][n]
        /\ search[s] # NoSearch => search[s].settings = project[s][search[s].name]

CacheInv == \A s \in Servers : CacheIsSound(s)

LEMMA InitCache == ScopeInit => CacheInv
BY DEF ScopeInit, CacheInv, CacheIsSound, NoScopes

LEMMA CacheStays ==
    ASSUME NEW s \in Servers, CacheIsSound(s),
           edit'[s].pc = "clear" <=> edit[s].pc = "clear",
           project'[s] = project[s], providers'[s] = providers[s],
           search'[s] \in {search[s], NoSearch}, s \in overtaken => s \in overtaken'
    PROVE  CacheIsSound(s)'
BY DEF CacheIsSound

LEMMA BeginCache ==
    ASSUME TypeInv, CacheInv, NEW p \in Editors,
           Begin(p) \/ (p \in Tools /\ SetWorkspaceRoot(p))
    PROVE  CacheInv'
<1>1. PICK action \in Actions, n \in Names \cup {None}, kind \in Kinds, root \in Roots :
        BeginEdit(p, action, n, kind, root)
  BY BeginsEdit
<1>2. edit'[p].pc = "read" /\ \A q \in Editors \ {p} : edit'[q] = edit[q]
  BY <1>1 DEF BeginEdit, TypeInv, EditsTyped
<1>3. UNCHANGED <<project, providers, search, overtaken>> BY <1>1 DEF BeginEdit
<1>4. edit[p].pc = "idle" BY <1>1 DEF BeginEdit, Editing
<1>5. \A s \in Servers : edit'[s].pc = "clear" <=> edit[s].pc = "clear"
  BY <1>2, <1>4 DEF Editors
<1>. QED BY <1>3, <1>5, CacheStays DEF CacheInv

LEMMA ProgressCache ==
    ASSUME TypeInv, CacheInv, NEW p \in Editors, Progress(p)
    PROVE  CacheInv'
<1>0. edit[p].pc # "idle" /\ OthersStay(p) /\ UNCHANGED search BY EditProgress
<1>1. CASE EditStep(p)
  <2>1. UNCHANGED <<project, providers, overtaken>>
    BY <1>1 DEF EditStep, ReadDoc, OpenTemp, WriteTemp, Replace
  <2>2. edit[p].pc # "clear"
    BY <1>1 DEF EditStep, ReadDoc, OpenTemp, WriteTemp, Replace, At
  <2>3. edit'[p].pc # "clear"
    <3>1. CASE Ends(p) BY <3>1 DEF Ends
    <3>2. CASE ReadDoc(p) BY <3>1, <3>2, ReadDocProgress, MovedPc
    <3>3. CASE OpenTemp(p) BY <3>3, OpenTempProgress, MovedPc
    <3>4. CASE WriteTemp(p) BY <3>4, WriteTempProgress, MovedPc
    <3>5. CASE Replace(p) BY <3>1, <3>5, ReplaceProgress, MovedPc DEF Loads
    <3>. QED BY <1>1, <3>2, <3>3, <3>4, <3>5 DEF EditStep
  <2>4. \A s \in Servers : edit'[s].pc = "clear" <=> edit[s].pc = "clear"
    BY <1>0, <2>2, <2>3 DEF OthersStay, Editors
  <2>. QED BY <1>0, <2>1, <2>4, CacheStays DEF CacheInv
<1>2. CASE p \in Servers /\ ServerEditStep(p)
  <2>1. ASSUME NEW s \in Servers \ {p} PROVE CacheIsSound(s)'
    <3>1. edit'[s].pc = edit[s].pc BY <1>0 DEF OthersStay, Editors
    <3>2. project'[s] = project[s] /\ providers'[s] = providers[s]
      BY <1>2 DEF ServerEditStep, DescribeScope, ReloadProject, ClearProviders, TypeInv, RestTyped
    <3>3. s \in overtaken => s \in overtaken'
      BY <1>2 DEF ServerEditStep, DescribeScope, ReloadProject, ClearProviders
    <3>. QED BY <1>0, <3>1, <3>2, <3>3, CacheStays DEF CacheInv
  <2>2. CacheIsSound(p)'
    <3>1. CASE ReloadProject(p) /\ Loadable(config)
      <4>1. edit'[p].pc = "clear" BY <1>2, <3>1, ReloadProgress, MovedPc
      <4>2. search[p] # NoSearch => p \in overtaken' BY <1>2, <3>1 DEF ReloadProject
      <4>. QED BY <1>0, <4>1, <4>2 DEF CacheIsSound
    <3>2. CASE ReloadProject(p) /\ ~Loadable(config)
      <4>1. edit'[p].pc = "idle" BY <1>2, <3>2, ReloadProgress DEF Ends
      <4>2. edit[p].pc = "reload" /\ UNCHANGED <<project, providers, overtaken>>
        BY <3>2 DEF ReloadProject, At
      <4>. QED BY <1>0, <1>2, <4>1, <4>2, CacheStays DEF CacheInv
    <3>3. CASE ClearProviders(p)
      <4>1. UNCHANGED project /\ providers'[p] = NoScopes
        BY <1>2, <3>3 DEF ClearProviders, TypeInv, RestTyped
      <4>2. search[p] # NoSearch => (p \in overtaken => p \in overtaken')
        BY <3>3 DEF ClearProviders
      <4>. QED BY <1>0, <1>2, <4>1, <4>2 DEF CacheInv, CacheIsSound, NoScopes
    <3>4. CASE DescribeScope(p)
      <4>1. edit[p].pc = "describe" /\ UNCHANGED <<project, providers, overtaken>>
        BY <3>4 DEF DescribeScope, At
      <4>2. edit'[p].pc \in {"idle", "reload"}
        <5>1. CASE Ends(p) BY <5>1 DEF Ends
        <5>. QED BY <1>2, <3>4, <5>1, DescribeProgress, MovedPc
      <4>. QED BY <1>0, <1>2, <4>1, <4>2, CacheStays DEF CacheInv
    <3>. QED BY <1>2, <3>1, <3>2, <3>3, <3>4 DEF ServerEditStep
  <2>. QED BY <2>1, <2>2 DEF CacheInv
<1>. QED BY <1>1, <1>2 DEF Progress

LEMMA DieCache == ASSUME TypeInv, CacheInv, NEW p \in Editors, Die(p) PROVE CacheInv'
<1>1. \A q \in Editors \ {p} : edit'[q] = edit[q] BY EndEditType DEF Die
<1>2. \A s \in Servers \ {p} : /\ project'[s] = project[s] /\ providers'[s] = providers[s]
                               /\ search'[s] = search[s] /\ (s \in overtaken => s \in overtaken')
  BY DEF Die
<1>3. ASSUME NEW s \in Servers \ {p} PROVE CacheIsSound(s)'
  BY <1>1, <1>2, CacheStays DEF CacheInv, Editors
<1>4. ASSUME p \in Servers PROVE CacheIsSound(p)'
  <2>1. providers'[p] = NoScopes /\ search'[p] = NoSearch BY <1>4 DEF Die
  <2>. QED BY <2>1 DEF CacheIsSound, NoScopes
<1>. QED BY <1>3, <1>4 DEF CacheInv

LEMMA RestartCache ==
    ASSUME TypeInv, DownInv, CacheInv, NEW s \in Servers, Restart(s) PROVE CacheInv'
<1>1. providers'[s] = NoScopes /\ search'[s] = NoSearch BY DEF DownInv, Restart
<1>2. CacheIsSound(s)' BY <1>1 DEF CacheIsSound, NoScopes
<1>3. \A r \in Servers \ {s} : project'[r] = project[r] BY DEF Restart, TypeInv, RestTyped
<1>4. UNCHANGED <<edit, providers, search, overtaken>> BY DEF Restart
<1>5. ASSUME NEW r \in Servers \ {s} PROVE CacheIsSound(r)'
  BY <1>3, <1>4, CacheStays DEF CacheInv
<1>. QED BY <1>2, <1>5 DEF CacheInv

LEMMA SearchCache ==
    ASSUME TypeInv, CacheInv, NEW s \in Servers,
           LookUpProvider(s) \/ CacheProvider(s) \/ (\E n \in Names : BeginSearch(s, n))
    PROVE  CacheInv'
<1>0. UNCHANGED <<edit, project, overtaken>> BY DEF LookUpProvider, CacheProvider, BeginSearch
<1>1. ASSUME NEW r \in Servers \ {s} PROVE CacheIsSound(r)'
  <2>1. search'[r] = search[r] /\ providers'[r] = providers[r]
    BY DEF LookUpProvider, CacheProvider, BeginSearch, TypeInv, RestTyped
  <2>. QED BY <1>0, <2>1, CacheStays DEF CacheInv
<1>2. CASE \E n \in Names : BeginSearch(s, n)
  <2>1. PICK n \in Names : BeginSearch(s, n) BY <1>2
  <2>2. search'[s].name = n /\ search'[s].settings = project[s][n]
    BY <2>1 DEF BeginSearch, TypeInv, RestTyped
  <2>3. providers' = providers BY <2>1 DEF BeginSearch
  <2>4. CacheIsSound(s)' BY <1>0, <2>2, <2>3 DEF CacheInv, CacheIsSound
  <2>. QED BY <1>1, <2>4 DEF CacheInv
<1>3. ASSUME LookUpProvider(s) \/ CacheProvider(s)
      PROVE  search[s] \in Searches /\ search[s] # NoSearch
  BY <1>3 DEF LookUpProvider, CacheProvider, TypeInv, RestTyped, NoSearch
<1>4. CASE LookUpProvider(s)
  <2>1. \/ search'[s] = NoSearch
        \/ search'[s].name = search[s].name /\ search'[s].settings = search[s].settings
    BY <1>3, <1>4 DEF LookUpProvider, TypeInv, RestTyped, Searches
  <2>2. providers' = providers BY <1>4 DEF LookUpProvider
  <2>3. CacheIsSound(s)' BY <1>0, <1>3, <1>4, <2>1, <2>2 DEF CacheInv, CacheIsSound
  <2>. QED BY <1>1, <2>3 DEF CacheInv
<1>5. CASE CacheProvider(s)
  <2>1. search'[s] = NoSearch BY <1>5 DEF CacheProvider, TypeInv, RestTyped
  <2>2. search[s].name \in Names BY <1>3, <1>5 DEF Searches
  <2>3. \A n \in Names : providers'[s][n] =
            IF n = search[s].name /\ providers' # providers THEN search[s].settings
            ELSE providers[s][n]
    BY <1>5, <2>2 DEF CacheProvider, TypeInv, RestTyped
  <2>4. CacheIsSound(s)' BY <1>0, <1>3, <1>5, <2>1, <2>2, <2>3 DEF CacheInv, CacheIsSound
  <2>. QED BY <1>1, <2>4 DEF CacheInv
<1>. QED BY <1>2, <1>4, <1>5

LEMMA StepCache ==
    TypeInv /\ DownInv /\ CacheInv /\ [ScopeNext]_scopeVars => CacheInv'
<1>. SUFFICES ASSUME TypeInv, DownInv, CacheInv, [ScopeNext]_scopeVars PROVE CacheInv' OBVIOUS
<1>1. ASSUME NEW p \in Editors, Begin(p) \/ (p \in Tools /\ SetWorkspaceRoot(p)) PROVE CacheInv'
  BY <1>1, BeginCache
<1>2. ASSUME NEW p \in Editors, Progress(p) PROVE CacheInv' BY <1>2, ProgressCache
<1>3. ASSUME NEW p \in Editors, Die(p) PROVE CacheInv' BY <1>3, DieCache
<1>4. ASSUME UNCHANGED <<edit, project, providers, search, overtaken>> PROVE CacheInv'
  BY <1>4 DEF CacheInv, CacheIsSound
<1>5. CASE UNCHANGED scopeVars BY <1>4, <1>5 DEF scopeVars
<1>6. ASSUME NEW s \in Servers,
             LookUpProvider(s) \/ CacheProvider(s) \/ (\E n \in Names : BeginSearch(s, n))
      PROVE  CacheInv'
  BY <1>6, SearchCache
<1>7. ASSUME NEW s \in Servers, Restart(s) PROVE CacheInv' BY <1>7, RestartCache
<1>8. ASSUME NEW s \in Servers, NEW n \in Names, StartRefresh(s, n) PROVE CacheInv'
  BY <1>4, <1>8 DEF StartRefresh
<1>9. ASSUME NEW n \in Names, EndRefresh(n) PROVE CacheInv' BY <1>4, <1>9 DEF EndRefresh
<1>. QED BY <1>1, <1>2, <1>3, <1>5, <1>6, <1>7, <1>8, <1>9
       DEF ScopeNext, ServerStep, ServerEditStep, Progress, Editors

-----------------------------------------------------------------------------
(* The inductive invariant and what follows from it.                       *)

IInv == TypeInv /\ LockInv /\ DownInv /\ QuietInv /\ CopyInv /\ CacheInv

LEMMA Inductive == ScopeSpec => []IInv
<1>1. ScopeInit => IInv
  BY InitType, InitLock, InitQuiet, InitCopy, InitCache DEF IInv
<1>2. IInv /\ [ScopeNext]_scopeVars => IInv'
  BY StepType, StepLock, StepQuiet, StepCopy, StepCache DEF IInv
<1>. QED BY <1>1, <1>2, PTL DEF ScopeSpec

\* No edit that has renamed its file is lost, and none is half in the file,
\* until an edit of the command line overlaps another one.
THEOREM NoEditLost == ScopeSpec => []NoEditIsLost
<1>1. IInv => NoEditIsLost BY DEF IInv, QuietInv, Quiet, NoEditIsLost
<1>. QED BY <1>1, Inductive, PTL

\* Until then the file can be loaded, or has a namespace of spaces.
THEOREM StaysLoadable == ScopeSpec => []ConfigStaysLoadable
<1>1. IInv => ConfigStaysLoadable BY DEF IInv, QuietInv, Quiet, Fine, ConfigStaysLoadable
<1>. QED BY <1>1, Inductive, PTL

\* A server's copy has its own edits, whatever step they failed at.
THEOREM OwnEditsLoaded == ScopeSpec => []CopyHasOwnEdits
<1>1. IInv => CopyHasOwnEdits
  <2>. SUFFICES ASSUME IInv, NEW s \in up, lock # s, s \notin outdated, Loadable(config)
                PROVE  project[s] = config.scopes
    BY DEF CopyHasOwnEdits
  <2>1. s \in Servers BY DEF IInv, TypeInv, RestTyped
  <2>2. edit[s].pc \notin {"describe", "reload"} BY <2>1 DEF IInv, LockInv, Editing
  <2>. QED BY <2>2 DEF IInv, CopyInv, CopyIsSound
<1>. QED BY <1>1, Inductive, PTL

\* A cached provider has the settings of the copy, unless a search was under
\* way when the copy was replaced.
THEOREM ProvidersMatch == ScopeSpec => []ProvidersMatchTheCopy
<1>1. IInv => ProvidersMatchTheCopy
  BY DEF IInv, CacheInv, CacheIsSound, ProvidersMatchTheCopy, At
<1>. QED BY <1>1, Inductive, PTL

\* The file changes at an editor's rename only, to what its edit makes of it.
LEMMA FileChanges ==
    ASSUME IInv, [ScopeNext]_scopeVars, config' # config, ~overlapped
    PROVE  \E p \in Editors : /\ Editing(p) /\ edit[p] \in Edits /\ Named(edit[p])
                              /\ config' \in Changed(edit[p], config)
<1>1. PICK p \in Editors : WriteTemp(p) \/ Replace(p)
  BY DEF ScopeNext, scopeVars, Begin, BeginEdit, SetWorkspaceRoot, EditStep, ReadDoc, OpenTemp,
         Die, ServerStep, DescribeScope, ReloadProject, ClearProviders, StartRefresh, BeginSearch,
         LookUpProvider, CacheProvider, Restart, EndRefresh, Editors
<1>2. EditIsSound(p) BY DEF IInv, QuietInv, Quiet
<1>3. ~WriteTemp(p) BY <1>2 DEF WriteTemp, At, EditIsSound
<1>4. Editing(p) /\ edit[p].pc = "replace" BY <1>1, <1>3 DEF Replace, At, Editing
<1>5. edit[p] \in Edits /\ Named(edit[p]) BY <1>4, UnderWay DEF IInv
<1>6. config' = temp BY <1>1, <1>3 DEF Replace
<1>7. temp \in Changed(edit[p], config) BY <1>2, <1>4 DEF EditIsSound
<1>. QED BY <1>4, <1>5, <1>6, <1>7

\* While a scope has an active job, only an edit of that scope on the command
\* line changes its tables.
THEOREM RefreshedScopeIsLeftAlone == ScopeSpec => OnlyToolsEditARefreshedScope
<1>. DEFINE Left(n) ==
        job[n] # None /\ job'[n] = job[n] /\ config'.scopes[n] # config.scopes[n] =>
            overlapped \/ (\E t \in Tools : Editing(t) /\ edit[t].name = n)
<1>1. IInv /\ [ScopeNext]_scopeVars => \A n \in Names : Left(n)
  <2>. SUFFICES ASSUME IInv, [ScopeNext]_scopeVars, NEW n \in Names,
                       job[n] # None, config'.scopes[n] # config.scopes[n], ~overlapped
                PROVE  \E t \in Tools : Editing(t) /\ edit[t].name = n
    OBVIOUS
  <2>1. config' # config OBVIOUS
  <2>2. PICK p \in Editors : /\ Editing(p) /\ edit[p] \in Edits /\ Named(edit[p])
                             /\ config' \in Changed(edit[p], config)
    BY <2>1, FileChanges
  <2>3. config \in Docs BY DEF IInv, TypeInv, EditsTyped
  <2>4. n = edit[p].name BY <2>2, <2>3, ChangedAtName
  <2>5. p \notin Servers BY <2>2, <2>4 DEF IInv, LockInv
  <2>. QED BY <2>2, <2>4, <2>5 DEF Editors
<1>2. ScopeSpec => [][\A n \in Names : Left(n)]_scopeVars
  <2>1. IInv /\ [ScopeNext]_scopeVars => [\A n \in Names : Left(n)]_scopeVars BY <1>1
  <2>. QED BY <2>1, Inductive, PTL DEF ScopeSpec
<1>. QED BY <1>2 DEF OnlyToolsEditARefreshedScope
=============================================================================
