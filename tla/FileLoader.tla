---------------------------- MODULE FileLoader ----------------------------
(***************************************************************************)
(* The file loader: LoadRegFile and SaveRegFile (psm_flo_control.c) with   *)
(* the walks of psm_flo_parse.c, element by element, in the life of a      *)
(* process that starts, serves the bus, saves, reloads, and stops at any   *)
(* point.                                                                  *)
(*                                                                         *)
(* A document is the sequence of its elements in document order: records,  *)
(* the opening and closing of folders, and other elements.  path is where  *)
(* the walk is, the recursion of the code.                                 *)
(***************************************************************************)
EXTENDS XmlRecord, FiniteSets, SequencesExt

CONSTANTS
    Documents,  \* what the file may hold before the first start
    Names,      \* names of records that the bus sets and deletes
    BusValues,  \* the strings it sets
    Faults      \* whether the repository, an allocation or a save may fail

\* A document is a sequence, the text of a record has one of the forms, and no
\* client names a record "".
ASSUME FileLoaderAssumption ==
    /\ \A d \in Documents :
          /\ d \in Seq(Range(d))
          /\ \A e \in Range(d) : e.kind = "Record" => e.text \in Texts
    /\ "" \notin Names /\ BusValues \subseteq Texts
    /\ Faults \in BOOLEAN

VARIABLES
    file,  \* the document that ReadCurConfig would return
    recs,  \* the records of the tree: a function from <<path, name>>
    dirs,  \* its folders: a function from paths to attributes
    pc,    \* "down", "loading", "serving" or "saving"
    why,   \* why: "start", "reload" or "flush"
    rest,  \* loading: the elements still to be visited
    path,  \* the folder that the walk is in
    out,   \* saving: the elements written so far
    passed,  \* saving: the records that were visited
    entered  \* saving: the folders that were

(* What happened, for the properties. *)
VARIABLES
    cut,    \* what stopped the last load, until a save: "no", "element" or "fault"
    clean,  \* no element was lost in the save under way
    whole,  \* no element was lost in the save that the file is from
    saved,  \* the tree of that save, or NoTree
    quiet   \* no record was set or deleted since the last load or save began

vars == <<file, recs, dirs, pc, why, rest, path, out, passed, entered,
          cut, clean, whole, saved, quiet>>
walk == <<rest, path, out, passed, entered>>
history == <<cut, clean, whole, saved, quiet>>

Root == <<>>
Empty == [k \in {} |-> Root]
NoTree == [recs |-> Empty, dirs |-> Empty]
NoAttributes == [type |-> "storage", permission |-> "all", content |-> ""]

FolderTypes == {"storage", "guarded", "dynamic", "session"}
FolderContents == {"category", "table2D", "table3D", "chartPie", "chartBar", "graph"}

\* f with v at k.
With(f, k, v) == [j \in DOMAIN f \cup {k} |-> IF j = k THEN v ELSE f[j]]

Key(name) == <<path, name>>

TypeOK ==
    /\ pc \in {"down", "loading", "serving", "saving"}
    /\ why \in {"start", "reload", "flush"}
    /\ \A k \in DOMAIN recs : recs[k].type \in RecordTypes /\ recs[k].content \in 0 .. 15
    /\ \A k \in DOMAIN recs : k[1] \in DOMAIN dirs \cup {Root}
    /\ \A p \in DOMAIN dirs : Front(p) \in DOMAIN dirs \cup {Root}
    /\ \A p \in DOMAIN dirs :
          dirs[p].type \in FolderTypes /\ dirs[p].content \in FolderContents \cup {""}
    /\ path \in DOMAIN dirs \cup {Root}
    /\ passed \subseteq DOMAIN recs /\ entered \subseteq DOMAIN dirs
    /\ cut \in {"no", "element", "fault"}
    /\ {clean, whole, quiet} \subseteq BOOLEAN

Init ==
    /\ file \in Documents
    /\ recs = Empty /\ dirs = Empty
    /\ pc = "down" /\ why = "start"
    /\ rest = Root /\ path = Root /\ out = Root /\ passed = {} /\ entered = {}
    /\ cut = "no" /\ clean = FALSE /\ whole = FALSE /\ quiet = FALSE
    /\ saved = NoTree

-----------------------------------------------------------------------------
(* Loading. *)

BeginLoad(reason, doc) ==
    /\ pc' = "loading" /\ why' = reason
    /\ rest' = doc /\ path' = Root
    /\ cut' = "no"

\* The process starts: Engage loads the file into an empty tree.
Start ==
    /\ pc = "down"
    /\ BeginLoad("start", file)
    /\ recs' = Empty /\ dirs' = Empty
    /\ quiet' = TRUE
    /\ UNCHANGED <<file, out, passed, entered, clean, whole, saved>>

\* A failure ends the walk at once, in every folder that is open; nobody looks
\* at the status, and what was added stays.
CutLoad(reason) ==
    /\ pc' = "serving" /\ cut' = reason
    /\ rest' = Root /\ path' = Root

Visiting(kind) == pc = "loading" /\ rest # Root /\ Head(rest).kind = kind

\* A slip: a record that is there already is passed over by a continue.
LoadRecordOnce ==
    /\ Visiting("Record")
    /\ IF Key(Head(rest).name) \in DOMAIN recs
       THEN UNCHANGED <<recs, rest, pc, path, cut>>
       ELSE \E value \in loadRecordFromXML(Head(rest)) \ {Skip, Refuse} :
              /\ recs' = With(recs, Key(Head(rest).name), RecordOf(Head(rest), value))
              /\ rest' = Tail(rest)
              /\ UNCHANGED <<pc, path, cut>>
    /\ UNCHANGED <<file, dirs, why, out, passed, entered, clean, whole, saved, quiet>>

LoadRecord ==
    /\ Visiting("Record")
    /\ \/ \E value \in loadRecordFromXML(Head(rest)) \ {Skip, Refuse} :
             /\ recs' = With(recs, Key(Head(rest).name), RecordOf(Head(rest), value))
             /\ rest' = Tail(rest)
             /\ UNCHANGED <<pc, path, cut>>
       \/ /\ Skip \in loadRecordFromXML(Head(rest))
          /\ rest' = Tail(rest)
          /\ UNCHANGED <<recs, pc, path, cut>>
       \/ /\ Refuse \in loadRecordFromXML(Head(rest))
          /\ CutLoad("element")
          /\ UNCHANGED recs
    /\ UNCHANGED <<file, dirs, why, out, passed, entered, clean, whole, saved, quiet>>

\* The attributes of an open or new folder after an element: those that are
\* absent or unknown stay what they were.
AttributesAfter(old, node) ==
    [type |-> IF node.type \in FolderTypes THEN node.type ELSE old.type,
     permission |-> IF node.permission = "" THEN old.permission ELSE node.permission,
     content |-> IF node.content \in FolderContents THEN node.content ELSE old.content]

\* A slip: a folder without attributes is not added.
LoadFolderLazily ==
    /\ Visiting("Folder")
    /\ path' = Append(path, Head(rest).name)
    /\ IF Head(rest).permission = ""
       THEN UNCHANGED dirs
       ELSE dirs' = With(dirs, path', AttributesAfter(NoAttributes, Head(rest)))
    /\ rest' = Tail(rest)
    /\ UNCHANGED <<file, recs, pc, why, out, passed, entered, history>>

LoadFolder ==
    /\ Visiting("Folder")
    /\ LET child == Append(path, Head(rest).name)
           old == IF child \in DOMAIN dirs THEN dirs[child] ELSE NoAttributes
       IN  \/ /\ Head(rest).name # ""
              /\ dirs' = With(dirs, child, AttributesAfter(old, Head(rest)))
              /\ path' = child
              /\ rest' = Tail(rest)
              /\ UNCHANGED <<pc, cut>>
           \/ /\ Head(rest).name = ""
              /\ CutLoad("element")
              /\ UNCHANGED dirs
    /\ UNCHANGED <<file, recs, why, out, passed, entered, clean, whole, saved, quiet>>

\* The repository refuses the record or the folder (AddRecord2, AddFolder); or,
\* at the first element, the file could not be read or parsed.
FailAdd ==
    /\ Visiting("Record") \/ Visiting("Folder")
    /\ Faults
    /\ CutLoad("fault")
    /\ UNCHANGED <<file, recs, dirs, why, out, passed, entered, clean, whole, saved, quiet>>

\* A slip: the walk goes on in the folder that has ended.
EndFolderStays ==
    /\ Visiting("EndFolder")
    /\ rest' = Tail(rest)
    /\ UNCHANGED <<file, recs, dirs, pc, why, path, out, passed, entered, history>>

EndFolder ==
    /\ Visiting("EndFolder")
    /\ path' = Front(path)
    /\ rest' = Tail(rest)
    /\ UNCHANGED <<file, recs, dirs, pc, why, out, passed, entered, history>>

\* An element of another name is "ignored" by a continue that never moves on.
LoadOther == Visiting("Other") /\ UNCHANGED vars

EndLoad ==
    /\ pc = "loading" /\ rest = Root
    /\ pc' = "serving"
    /\ UNCHANGED <<file, recs, dirs, why, walk, history>>

-----------------------------------------------------------------------------
(* The bus. *)

SetRecord(name, value) ==
    /\ pc = "serving"
    /\ recs' = With(recs, <<Root, name>>,
                    [type |-> "astr", permission |-> "all", content |-> 0, value |-> value])
    /\ quiet' = FALSE
    /\ UNCHANGED <<file, dirs, pc, why, walk, cut, clean, whole, saved>>

DelRecord(name) ==
    /\ pc = "serving"
    /\ <<Root, name>> \in DOMAIN recs
    /\ recs' = [k \in DOMAIN recs \ {<<Root, name>>} |-> recs[k]]
    /\ quiet' = FALSE
    /\ UNCHANGED <<file, dirs, pc, why, walk, cut, clean, whole, saved>>

-----------------------------------------------------------------------------
(* Saving.  The write access keeps the tree as it is until the walk is over. *)

BeginSave(reason) ==
    /\ pc = "serving"
    /\ reason \in {"flush", "reload"}
    /\ pc' = "saving" /\ why' = reason
    /\ path' = Root /\ out' = Root /\ passed' = {} /\ entered' = {}
    /\ clean' = TRUE /\ quiet' = TRUE /\ cut' = "no"
    /\ UNCHANGED <<file, recs, dirs, rest, whole, saved>>

RecordsLeft == {k \in DOMAIN recs \ passed : k[1] = path}
FoldersLeft == {p \in DOMAIN dirs \ entered : p # Root /\ Front(p) = path}

\* One record of the folder; when it fails, the walk goes on without it.
SaveRecord ==
    /\ pc = "saving"
    /\ \E k \in RecordsLeft :
          /\ passed' = passed \cup {k}
          /\ \/ /\ out' = Append(out, addRecordToXMLHandle2(k[2], recs[k]))
                /\ UNCHANGED clean
             \/ /\ Faults
                /\ clean' = FALSE
                /\ UNCHANGED out
    /\ UNCHANGED <<file, recs, dirs, pc, why, rest, path, entered, cut, whole, saved, quiet>>

\* A folder is written with its permission, unless it is the default, and its
\* content type, never with its type.
FolderElement(p) ==
    [kind |-> "Folder", name |-> Last(p), type |-> "", content |-> dirs[p].content,
     permission |-> IF dirs[p].permission = "all" THEN "" ELSE dirs[p].permission]

EndElement == [kind |-> "EndFolder"]

\* The next subfolder, when the records of this one are written: it is entered,
\* or left out (EnumSubFolder fails), or written empty (OpenFolder fails).
SaveFolder ==
    /\ pc = "saving"
    /\ RecordsLeft = {}
    /\ \E p \in FoldersLeft :
          \/ /\ path' = p
             /\ out' = Append(out, FolderElement(p))
             /\ entered' = entered \cup {p}
             /\ UNCHANGED <<passed, clean>>
          \/ /\ Faults
             /\ out' \in {out, out \o <<[FolderElement(p) EXCEPT !.content = "", !.permission = ""],
                                        EndElement>>}
             /\ passed' = passed \cup {k \in DOMAIN recs : IsPrefix(p, k[1])}
             /\ entered' = entered \cup {q \in DOMAIN dirs : IsPrefix(p, q)}
             /\ clean' = FALSE
             /\ UNCHANGED path
    /\ UNCHANGED <<file, recs, dirs, pc, why, rest, cut, whole, saved, quiet>>

LeaveFolder ==
    /\ pc = "saving"
    /\ RecordsLeft = {} /\ FoldersLeft = {} /\ path # Root
    /\ out' = Append(out, EndElement)
    /\ path' = Front(path)
    /\ UNCHANGED <<file, recs, dirs, pc, why, rest, passed, entered, history>>

\* What follows a save: a reload reads the file, whatever became of the save.
AfterSave ==
    /\ out' = Root /\ passed' = {} /\ entered' = {}
    /\ IF why = "reload"
       THEN BeginLoad("reload", file')
       ELSE pc' = "serving" /\ path' = Root /\ UNCHANGED <<why, rest, cut>>

\* A slip: a reload clears the tree first (the ClearFolder that is commented out).
EndSaveCleared ==
    /\ pc = "saving"
    /\ RecordsLeft = {} /\ FoldersLeft = {} /\ path = Root
    /\ file' = out
    /\ whole' = clean
    /\ saved' = [recs |-> recs, dirs |-> dirs]
    /\ AfterSave
    /\ recs' = IF why = "reload" THEN Empty ELSE recs
    /\ UNCHANGED <<dirs, clean, quiet>>

EndSave ==
    /\ pc = "saving"
    /\ RecordsLeft = {} /\ FoldersLeft = {} /\ path = Root
    /\ file' = out
    /\ whole' = clean
    /\ saved' = [recs |-> recs, dirs |-> dirs]
    /\ AfterSave
    /\ UNCHANGED <<recs, dirs, clean, quiet>>

\* A folder element, the text or the file cannot be made: the file stays.
FailSave ==
    /\ pc = "saving" /\ Faults
    /\ UNCHANGED <<file, recs, dirs, clean, whole, saved>>
    /\ quiet' = FALSE
    /\ AfterSave

-----------------------------------------------------------------------------
\* The process is killed; what was not in the file is lost.
Stop ==
    /\ pc \in {"loading", "serving", "saving"}
    /\ pc' = "down" /\ why' = "start"
    /\ recs' = Empty /\ dirs' = Empty
    /\ rest' = Root /\ path' = Root /\ out' = Root /\ passed' = {} /\ entered' = {}
    /\ quiet' = FALSE
    /\ UNCHANGED <<file, cut, clean, whole, saved>>

Next ==
    \/ Start \/ LoadRecord \/ LoadFolder \/ FailAdd \/ EndFolder \/ LoadOther \/ EndLoad
    \/ \E name \in Names : DelRecord(name) \/ \E v \in BusValues : SetRecord(name, v)
    \/ \E reason \in {"flush", "reload"} : BeginSave(reason)
    \/ SaveRecord \/ SaveFolder \/ LeaveFolder \/ EndSave \/ FailSave
    \/ Stop

\* A load that has begun goes on; no failure is owed.
Fairness == WF_vars(LoadRecord \/ LoadFolder \/ EndFolder \/ LoadOther \/ EndLoad)

Spec == Init /\ [][Next]_vars /\ Fairness
-----------------------------------------------------------------------------
(* Properties. *)

\* What a save keeps of a record: everything but its permission, if it is not
\* of type enum, not an empty list, and not a list of numbers over 64 bytes.
\* Where a ULONG has 8 bytes a list comes back with twice its members.
Kept(rec) ==
    /\ rec.type # "enum"
    /\ TextForm(rec.type, rec.content) \in {"ints", "ips"} => Word = 4 /\ rec.value.n > 0
    /\ TextForm(rec.type, rec.content) = "ints" => rec.value.n <= 64

Same(a, b) == a.type = b.type /\ a.content = b.content /\ a.value = b.value

HasKept(records) ==
    \A k \in DOMAIN saved.recs :
        Kept(saved.recs[k]) => k \in DOMAIN records /\ Same(records[k], saved.recs[k])

\* What a save wrote without a failure is what the next start finds, in every
\* folder, unless its load was cut: each record that a save keeps, each folder
\* with its permission and content type, and nothing that was deleted before
\* (addRecordToXMLHandle2, PsmSysFolderToXMLHandle, loadRecordFromXML).
SavesSurvive ==
    pc = "serving" /\ why = "start" /\ quiet /\ whole /\ cut = "no" =>
        /\ HasKept(recs)
        /\ DOMAIN recs \subseteq DOMAIN saved.recs
        /\ DOMAIN dirs = DOMAIN saved.dirs
        /\ \A p \in DOMAIN dirs : /\ dirs[p].permission = saved.dirs[p].permission
                                  /\ dirs[p].content = saved.dirs[p].content

\* The loader can read what it wrote: an element of a file that was saved
\* without a failure stops a load only if the tree held an enum record or an
\* empty list of addresses (which a list that cannot be read becomes, see
\* decodeIP4AddrList); from then on every load is cut there.
SavedLoads ==
    cut = "element" /\ whole =>
        \E k \in DOMAIN saved.recs :
            \/ saved.recs[k].type = "enum"
            \/ saved.recs[k].value = Value("ips", 0)

\* A reload whose save succeeded takes nothing from the live tree and changes
\* nothing in it, at no point of its walk and wherever it is cut, although the
\* save may have lost elements (setParameterValues, PSM_RELOAD_CONFIG).
ReloadKeeps ==
    pc \in {"loading", "serving"} /\ why = "reload" /\ quiet =>
        /\ HasKept(recs)
        /\ DOMAIN recs = DOMAIN saved.recs
        /\ dirs = saved.dirs

\* The folders of a document that are open around its element i: nothing behind
\* them has closed them.
Count(doc, kind, from, to) == Cardinality({x \in from .. to : doc[x].kind = kind})

Open(doc, i) ==
    {o \in 1 .. i - 1 :
        /\ doc[o].kind = "Folder"
        /\ \A m \in o .. i - 1 : Count(doc, "Folder", o, m) > Count(doc, "EndFolder", o, m)}

\* The folder of element i: the names of those around it, outermost first.
Rank(doc, i, o) == Cardinality({x \in Open(doc, i) : x <= o})

Around(doc, i) ==
    [n \in 1 .. Cardinality(Open(doc, i)) |-> doc[CHOOSE o \in Open(doc, i) : Rank(doc, i, o) = n].name]

KeyOf(doc, i) == <<Around(doc, i), doc[i].name>>

\* The records of a document that were visited when so much of it is left, those
\* of them that nothing can keep out, and those of these that no later one hides.
Records(doc, left) ==
    {i \in 1 .. Len(doc) - Len(left) : doc[i].kind = "Record"}
Taken(doc, left) ==
    {i \in Records(doc, left) : {Skip, Refuse} \cap loadRecordFromXML(doc[i]) = {}}
Lasting(doc, left) ==
    {i \in Taken(doc, left) :
        \A j \in Records(doc, left) : j > i => KeyOf(doc, j) # KeyOf(doc, i)}

\* A load is under way, or it has come to its end and nothing has happened since.
Loading == pc = "loading"
Loaded == pc = "serving" /\ why \in {"start", "reload"} /\ cut = "no" /\ quiet

\* A load adds each record that it has passed in the folder that encloses it in
\* the document, the last one of a name prevailing; and a start adds nothing
\* else (PsmSysFolderFromXMLHandle, loadFolderFromXML, loadRecordFromXML).
LoadedSoFar ==
    Loading \/ Loaded =>
        /\ \A i \in Lasting(file, rest) :
              /\ KeyOf(file, i) \in DOMAIN recs
              /\ recs[KeyOf(file, i)].value \in loadRecordFromXML(file[i])
        /\ why = "start" =>
              \A k \in DOMAIN recs : \E i \in Records(file, rest) : KeyOf(file, i) = k

\* Every load ends, however its elements are nested and whichever of them are
\* passed over, when all of them are folders and records (the continue at
\* psm_flo_parse.c:2133 stays at any other element for ever).
LoadEnds ==
    (pc = "loading" /\ \A i \in DOMAIN rest : rest[i].kind # "Other") ~> pc # "loading"
=============================================================================
