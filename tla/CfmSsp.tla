------------------------------- MODULE CfmSsp -------------------------------
(***************************************************************************)
(* The file interface of the shipped build (ssp_cfmif.c), record by        *)
(* record.  ssp_CfmReadCurConfig collects the records of one file in a     *)
(* hash table, adds the custom, default, partner and bootstrap parameters, *)
(* and saves the result at once; ssp_CfmSaveCurConfig overwrites the       *)
(* current file, which is in /tmp, and copies it to the backup in /nvram.  *)
(* One call runs at a time.                                                *)
(*                                                                         *)
(* A configuration is a function from parameter names to values, or from   *)
(* some of them.  load_records takes any file that opens and every record  *)
(* that is complete in it, so that a file cut short is read as the records *)
(* before the cut.                                                         *)
(***************************************************************************)
EXTENDS FiniteSets, Functions

CONSTANTS
    Names, Values,  \* parameters and what they can be set to
    Factory,        \* the default configuration file
    Custom,         \* PsmHal_GetCustomParams
    Bootstrap,      \* the partner's values in bootstrap.json, by their PSM names
    Offers,         \* what the partner defaults put into syscfg
    OneTime,        \* the names among them that are unset once they were read
    IoFaults,       \* may an open, a write or a copy fail?
    Missing

Configs == UNION {[N -> Values] : N \in SUBSET Names}

\* parm_present_table holds the names that bootstrap.json may supply.
Listed == DOMAIN Bootstrap

ASSUME CfmSspAssumption ==
    /\ {Factory, Custom, Bootstrap, Offers} \subseteq Configs
    /\ OneTime \subseteq DOMAIN Offers
    /\ IoFaults \in BOOLEAN
    /\ \A c \in Configs, w \in BOOLEAN : Missing # [recs |-> c, whole |-> w]

NoRecords == [n \in {} |-> Missing]

\* The records of a, and those of b that a does not have.
Over(a, b) == [n \in DOMAIN a \cup DOMAIN b |-> IF n \in DOMAIN a THEN a[n] ELSE b[n]]

\* A file that is there: its complete records.  No code can see whether it is
\* whole.
File(c) == [recs |-> c, whole |-> TRUE]
Truncated == [recs |-> NoRecords, whole |-> FALSE]
CutShort(c) == {[recs |-> Restrict(c, N), whole |-> FALSE] : N \in SUBSET DOMAIN c}

VARIABLES
    cur, bak,       \* the two files
    tmpMark,        \* the partner markers in /tmp
    nvMark,         \* the partner marker in /nvram
    syscfg,         \* partner values waiting in syscfg
    pc,             \* where the call in progress is; "off": no process
    table,          \* rec_hash
    tree,           \* the registry tree
    buf,            \* the text to be saved
    call,           \* a start's "load", a "save", the save that begins a
                    \* "reload", and the load "again" that ends it
    present,        \* the names marked in parm_present_table
    taken,          \* the partner values of this ReadCurConfig
    status, backed, \* what SaveCurConfig and its backup_file returned
    found,          \* history: the records this ReadCurConfig found
    acked,          \* history: what the last completed backup stored
    wanted          \* history: what the current file was last written with

files == <<cur, bak>>
partner == <<tmpMark, nvMark, syscfg>>
memory == <<table, tree, buf, call, present, taken, status, backed>>
history == <<found, acked, wanted>>
vars == <<files, partner, pc, memory, history>>

LoadPCs == {"load_cur", "load_bak", "custom", "default", "partner", "nv", "nv_asked",
            "take", "missing", "flush"}
SavePCs == {"open", "write", "write_rest", "backup", "backup_write", "backup_rest", "return"}
PCs == {"off", "up", "reset"} \cup LoadPCs \cup SavePCs

Goto(from, to) == pc = from /\ pc' = to

\* The file that a start would read.
Found == IF cur # Missing THEN cur ELSE bak

Init ==
    /\ cur = Missing /\ bak = Missing
    /\ tmpMark = FALSE /\ nvMark \in BOOLEAN /\ syscfg = IF nvMark THEN Offers ELSE NoRecords
    /\ pc = "off"
    /\ table = NoRecords /\ tree = NoRecords /\ buf = NoRecords
    /\ call = "save" /\ present = {}
    /\ taken = NoRecords /\ status = "none" /\ backed = FALSE
    /\ found = NoRecords /\ acked = NoRecords /\ wanted = NoRecords

-----------------------------------------------------------------------------
(* ssp_CfmReadCurConfig                                                    *)

Start ==
    /\ Goto("off", "load_cur")
    /\ call' = "load"
    /\ UNCHANGED <<files, partner, table, tree, buf, present, taken, status, backed, history>>

\* load_records.  It does not look for names that are there already; the
\* table is empty before it.
LoadRecords(from, file) ==
    /\ Goto(from, "custom")
    /\ file # Missing
    /\ table' = Over(file.recs, table)
    /\ found' = file.recs
    /\ UNCHANGED <<files, partner, tree, buf, call, present, taken, status, backed, acked, wanted>>

\* fopen fails: go on with the backup, then with what the others supply.
LoadMissing ==
    /\ \/ Goto("load_cur", "load_bak") /\ (cur = Missing \/ IoFaults)
       \/ Goto("load_bak", "custom") /\ (bak = Missing \/ IoFaults)
    /\ found' = NoRecords
    /\ UNCHANGED <<files, partner, memory, acked, wanted>>

\* insert_record for a list of records, without and with overwriting.
Inserted(records) == table' = Over(table, records)
Overwritten(records) == table' = Over(records, table)

\* PsmHal_GetCustomParams may fail: the load goes on without its records.
ImportCustom ==
    /\ Goto("custom", "default")
    /\ Inserted(Custom) \/ (IoFaults /\ UNCHANGED table)
    /\ UNCHANGED <<files, partner, tree, buf, call, present, taken, status, backed, history>>

\* So it does when the default file cannot be opened.
MergeDefault ==
    /\ Goto("default", "partner")
    /\ Inserted(Factory) \/ (IoFaults /\ UNCHANGED table)
    /\ UNCHANGED <<files, partner, tree, buf, call, present, taken, status, backed, history>>

\* Psm_GetCustomPartnersParams: only a marker in /tmp, or having no file at
\* all, makes it go on; it deletes the markers it finds.
PartnerCheck ==
    /\ pc = "partner"
    /\ pc' = IF tmpMark THEN "nv_asked"
             ELSE IF cur = Missing /\ bak = Missing THEN "nv" ELSE "missing"
    /\ tmpMark' = FALSE
    /\ UNCHANGED <<files, nvMark, syscfg, memory, history>>

PartnerUnmark ==
    /\ pc \in {"nv", "nv_asked"}
    /\ pc' = IF pc = "nv_asked" \/ nvMark THEN "take" ELSE "missing"
    /\ nvMark' = FALSE
    /\ UNCHANGED <<files, tmpMark, syscfg, memory, history>>

\* The values are read, the one-time ones are unset, and syscfg is committed;
\* then they go over the table.
PartnerTake ==
    /\ Goto("take", "missing")
    /\ taken' = syscfg
    /\ syscfg' = Restrict(syscfg, DOMAIN syscfg \ OneTime)
    /\ Overwritten(syscfg)
    /\ UNCHANGED <<files, tmpMark, nvMark, tree, buf, call, present, status, backed, history>>

\* A slip: every name of the table is marked.
MergeBootstrapAll ==
    /\ Goto("missing", "flush")
    /\ present' = present \cup DOMAIN table
    /\ Inserted(Restrict(Bootstrap, Listed \ present'))
    /\ UNCHANGED <<files, partner, tree, buf, call, taken, status, backed, history>>

\* merge_missing_Partner_params; bootstrap.json may not be there.
MergeBootstrap ==
    /\ Goto("missing", "flush")
    /\ present' = present \cup (Listed \cap DOMAIN table)
    /\ \/ Inserted(Restrict(Bootstrap, Listed \ present'))
       \/ UNCHANGED table
    /\ UNCHANGED <<files, partner, tree, buf, call, taken, status, backed, history>>

\* A slip: the records stay in the table.
FlushKeeps ==
    /\ Goto("flush", "open")
    /\ buf' = table
    /\ UNCHANGED <<files, partner, table, tree, call, present, taken, status, backed, history>>

\* flush_records empties the table.
Flush ==
    /\ Goto("flush", "open")
    /\ buf' = table /\ table' = NoRecords
    /\ UNCHANGED <<files, partner, tree, call, present, taken, status, backed, history>>

LoadStep ==
    \/ LoadRecords("load_cur", cur) \/ LoadRecords("load_bak", bak) \/ LoadMissing
    \/ ImportCustom \/ MergeDefault \/ PartnerCheck \/ PartnerUnmark \/ PartnerTake
    \/ MergeBootstrap \/ Flush

-----------------------------------------------------------------------------
(* ssp_CfmSaveCurConfig                                                    *)

Single(n, v) == [m \in {n} |-> v]

\* The tree was changed in one parameter.
Changes(c) == {Over(Single(n, v), c) : n \in Names, v \in Values}
                \cup {Restrict(c, DOMAIN c \ {n}) : n \in Names}

Save(c) ==
    /\ Goto("up", "open")
    /\ tree' = c /\ buf' = c /\ call' = "save" /\ status' = "none"
    /\ UNCHANGED <<files, partner, table, present, taken, backed, history>>

\* ReloadConfig saves the tree before it loads the files.
Reload ==
    /\ Goto("up", "open")
    /\ buf' = tree /\ call' = "reload" /\ status' = "none"
    /\ UNCHANGED <<files, partner, table, tree, present, taken, backed, history>>

\* A slip: the file is opened without TRUNC.
OpenCurAsIs ==
    /\ Goto("open", "write")
    /\ cur' = IF cur = Missing THEN Truncated ELSE cur
    /\ wanted' = buf /\ taken' = NoRecords /\ found' = NoRecords /\ backed' = FALSE
    /\ UNCHANGED <<bak, partner, table, tree, buf, call, present, status, acked>>

\* AnscOpenFile(CREATE | WRITE | TRUNC)
OpenCur ==
    /\ Goto("open", "write")
    /\ cur' = Truncated
    /\ wanted' = buf /\ taken' = NoRecords /\ found' = NoRecords /\ backed' = FALSE
    /\ UNCHANGED <<bak, partner, table, tree, buf, call, present, status, acked>>

WriteCur ==
    /\ Goto("write", "write_rest")
    /\ cur' \in CutShort(buf)
    /\ UNCHANGED <<bak, partner, memory, history>>

WriteRest ==
    /\ Goto("write_rest", "backup")
    /\ cur' = File(buf) /\ status' = "success"
    /\ UNCHANGED <<bak, partner, table, tree, buf, call, present, taken, backed, history>>

SaveFault ==
    /\ IoFaults
    /\ pc \in {"open", "write", "write_rest"} /\ pc' = "return"
    /\ status' = "failure" /\ taken' = NoRecords /\ found' = NoRecords /\ backed' = FALSE
    /\ UNCHANGED <<files, partner, table, tree, buf, call, present, acked, wanted>>

\* backup_file(bakPath, curPath)
BackupTruncate ==
    /\ Goto("backup", "backup_write")
    /\ bak' = Truncated
    /\ UNCHANGED <<cur, partner, memory, history>>

BackupWrite ==
    /\ Goto("backup_write", "backup_rest")
    /\ bak' \in CutShort(cur.recs)
    /\ UNCHANGED <<cur, partner, memory, history>>

BackupRest ==
    /\ Goto("backup_rest", "return")
    /\ bak' = cur /\ backed' = TRUE
    /\ acked' = cur.recs
    /\ UNCHANGED <<cur, partner, table, tree, buf, call, present, taken, status, found, wanted>>

\* A slip: a failed backup is taken for a good one.
BackupFaultUnnoticed ==
    /\ IoFaults
    /\ pc \in {"backup", "backup_write", "backup_rest"} /\ pc' = "return"
    /\ backed' = TRUE
    /\ UNCHANGED <<files, partner, table, tree, buf, call, present, taken, status, history>>

\* Its failure is logged, and SaveCurConfig returns success.
BackupFault ==
    /\ IoFaults
    /\ pc \in {"backup", "backup_write", "backup_rest"} /\ pc' = "return"
    /\ backed' = FALSE
    /\ UNCHANGED <<files, partner, table, tree, buf, call, present, taken, status, history>>

Return ==
    /\ call # "reload" /\ Goto("return", "up")
    /\ tree' = IF call \in {"load", "again"} /\ status = "success" THEN Over(buf, tree) ELSE tree
    /\ buf' = NoRecords /\ call' = "save"
    /\ UNCHANGED <<files, partner, table, present, taken, status, backed, history>>

\* Nobody looks at the result of the save before a reload.  The marks of
\* parm_present_table are not cleared.
ReloadReads ==
    /\ call = "reload" /\ Goto("return", "load_cur")
    /\ call' = "again" /\ buf' = NoRecords /\ status' = "none"
    /\ UNCHANGED <<files, partner, table, tree, present, taken, backed, history>>

SaveStep ==
    \/ OpenCur \/ WriteCur \/ WriteRest \/ SaveFault
    \/ BackupTruncate \/ BackupWrite \/ BackupRest \/ BackupFault
    \/ Return \/ ReloadReads

-----------------------------------------------------------------------------
(* Factory reset, partner defaults, and the end of the process             *)

UnlinkCur ==
    /\ Goto("up", "reset")
    /\ cur' = Missing /\ status' = "none" /\ wanted' = NoRecords
    /\ UNCHANGED <<bak, partner, table, tree, buf, call, present, taken, backed, found, acked>>

UnlinkBak ==
    /\ Goto("reset", "up")
    /\ bak' = Missing /\ acked' = NoRecords
    /\ UNCHANGED <<cur, partner, memory, found, wanted>>

\* The firmware's scripts leave partner defaults for the next start.
PartnerDefaults ==
    /\ pc = "off"
    /\ syscfg' = Offers
    /\ \/ tmpMark' = TRUE /\ UNCHANGED nvMark
       \/ nvMark' = TRUE /\ UNCHANGED tmpMark
    /\ UNCHANGED <<files, pc, memory, history>>

Gone ==
    /\ pc' = "off"
    /\ table' = NoRecords /\ tree' = NoRecords /\ buf' = NoRecords
    /\ call' = "save" /\ present' = {}
    /\ taken' = NoRecords /\ status' = "none" /\ backed' = FALSE
    /\ found' = NoRecords

Kill == pc # "off" /\ Gone /\ UNCHANGED <<files, partner, acked, wanted>>

\* What is in /tmp is lost.
PowerLoss ==
    /\ Gone
    /\ cur' = Missing /\ tmpMark' = FALSE /\ wanted' = NoRecords
    /\ UNCHANGED <<bak, nvMark, syscfg, acked>>

Next ==
    \/ Start \/ LoadStep \/ (\E c \in Changes(tree) : Save(c)) \/ Reload \/ SaveStep
    \/ UnlinkCur \/ UnlinkBak \/ PartnerDefaults \/ Kill \/ PowerLoss

Spec == Init /\ [][Next]_vars

-----------------------------------------------------------------------------
(* Properties                                                              *)

Files == {[recs |-> c, whole |-> w] : c \in Configs, w \in BOOLEAN} \cup {Missing}

TypeOK ==
    /\ cur \in Files /\ bak \in Files
    /\ tmpMark \in BOOLEAN /\ nvMark \in BOOLEAN
    /\ pc \in PCs
    /\ {syscfg, table, tree, buf, taken, found, acked, wanted} \subseteq Configs
    /\ call \in {"load", "save", "reload", "again"} /\ present \subseteq Listed
    /\ status \in {"none", "success", "failure"} /\ backed \in BOOLEAN

\* Whatever was stopped or failed before, a file that is whole holds the
\* configuration that a save stored in both files, or the one that the
\* last save wrote: an older one never comes back, and no mixture is
\* ever written.
WholeIsKnown ==
    pc = "off" /\ Found # Missing => (Found.whole => Found.recs \in {acked, wanted})

\* A save that returns success can be read after a kill, and after a power
\* loss too when its backup was made.
SuccessIsDurable ==
    pc = "up" /\ status = "success" => cur = File(wanted) /\ (backed => bak = cur)

\* What a load gives to the registry: the records of the file over the
\* custom parameters over the defaults, where these could be read, and over
\* them all the partner's values if they were asked for.  bootstrap.json, if
\* it is there, fills in what nobody else has at a start; at a reload only
\* what no earlier load of the process has seen either (the marks stay).  So
\* neither a restart nor a reload changes what a user has set.
Merges == {Over(taken, Over(found, Over(c, d))) :
             c \in {Custom} \cup (IF IoFaults THEN {NoRecords} ELSE {}),
             d \in {Factory} \cup (IF IoFaults THEN {NoRecords} ELSE {})}

LoadsTheMerge ==
    pc = "open" /\ call \in {"load", "again"} =>
        \E m \in Merges :
            \/ buf = m
            \/ buf = Over(m, Restrict(Bootstrap,
                       Listed \ (IF call = "load" THEN DOMAIN m ELSE present)))

\* A start reads a whole file when there is one: a torn current file makes
\* it use the backup.
FailsOver ==
    pc = "off" /\ Found # Missing /\ ~Found.whole => ~(bak # Missing /\ bak.whole)

=============================================================================
