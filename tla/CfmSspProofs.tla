---------------------------- MODULE CfmSspProofs ----------------------------
(***************************************************************************)
(* Theorems about the file interface of the shipped build, for every set   *)
(* of names and values and whatever each source supplies, with and without *)
(* I/O faults, through kills and power losses at any point.                *)
(***************************************************************************)
EXTENDS CfmSsp, TLAPS

-----------------------------------------------------------------------------
(* Configurations                                                          *)

LEMMA IsConfig ==
    ASSUME NEW N \in SUBSET Names, NEW f \in [N -> Values]
    PROVE  f \in Configs /\ DOMAIN f = N
BY DEF Configs

LEMMA ConfigIs ==
    ASSUME NEW c \in Configs
    PROVE  DOMAIN c \subseteq Names /\ c \in [DOMAIN c -> Values]
BY DEF Configs

LEMMA NoRecordsIs == NoRecords \in Configs /\ DOMAIN NoRecords = {}
<1>1. NoRecords \in [{} -> Values] /\ {} \in SUBSET Names
  BY DEF NoRecords
<1> QED BY <1>1, IsConfig

\* a over b: what a has, and what only b has.
LEMMA OverIs ==
    ASSUME NEW a \in Configs, NEW b \in Configs
    PROVE  /\ Over(a, b) \in Configs /\ DOMAIN Over(a, b) = DOMAIN a \cup DOMAIN b
           /\ \A n \in DOMAIN a : Over(a, b)[n] = a[n]
           /\ \A n \in DOMAIN b \ DOMAIN a : Over(a, b)[n] = b[n]
<1>1. Over(a, b) = [n \in DOMAIN a \cup DOMAIN b |-> IF n \in DOMAIN a THEN a[n] ELSE b[n]]
  BY DEF Over
<1>2. Over(a, b) \in [DOMAIN a \cup DOMAIN b -> Values] /\ DOMAIN a \cup DOMAIN b \in SUBSET Names
  BY <1>1, ConfigIs
<1>3. Over(a, b) \in Configs
  BY <1>2, IsConfig
<1> QED BY <1>1, <1>3

LEMMA OverConfig ==
    ASSUME NEW a \in Configs, NEW b \in Configs
    PROVE  Over(a, b) \in Configs
BY OverIs

LEMMA RestrictIs ==
    ASSUME NEW c \in Configs, NEW N \in SUBSET DOMAIN c
    PROVE  Restrict(c, N) \in Configs /\ DOMAIN Restrict(c, N) = N
<1>1. Restrict(c, N) \in [N -> Values] /\ N \in SUBSET Names
  BY ConfigIs DEF Restrict
<1> QED BY <1>1, IsConfig

LEMMA OverNothing ==
    ASSUME NEW c \in Configs
    PROVE  Over(c, NoRecords) = c /\ Over(NoRecords, c) = c
<1>1. c = [n \in DOMAIN c |-> c[n]]
  BY ConfigIs
<1>2. DOMAIN c \cup DOMAIN NoRecords = DOMAIN c /\ DOMAIN NoRecords \cup DOMAIN c = DOMAIN c
  BY NoRecordsIs
<1>3. Over(c, NoRecords) = [n \in DOMAIN c |-> c[n]]
  BY <1>2 DEF Over
<1>4. Over(NoRecords, c) = [n \in DOMAIN c |-> c[n]]
  BY <1>2, NoRecordsIs DEF Over
<1> QED BY <1>1, <1>3, <1>4

\* The records of a, of b and of c, each where those before it have none.
Layers(a, b, c) ==
    [n \in DOMAIN a \cup DOMAIN b \cup DOMAIN c |->
        IF n \in DOMAIN a THEN a[n] ELSE IF n \in DOMAIN b THEN b[n] ELSE c[n]]

LEMMA OverLeft ==
    ASSUME NEW a, NEW b, NEW c, NEW f, f = Over(a, b)
    PROVE  Over(f, c) = Layers(a, b, c)
<1>1. /\ DOMAIN f = DOMAIN a \cup DOMAIN b
      /\ \A n \in DOMAIN f : f[n] = IF n \in DOMAIN a THEN a[n] ELSE b[n]
  BY DEF Over
<1>2. Over(f, c) = [n \in DOMAIN f \cup DOMAIN c |-> IF n \in DOMAIN f THEN f[n] ELSE c[n]]
  BY DEF Over
<1> QED BY <1>1, <1>2 DEF Layers

LEMMA OverRight ==
    ASSUME NEW a, NEW b, NEW c, NEW f, f = Over(b, c)
    PROVE  Over(a, f) = Layers(a, b, c)
<1>1. /\ DOMAIN f = DOMAIN b \cup DOMAIN c
      /\ \A n \in DOMAIN f : f[n] = IF n \in DOMAIN b THEN b[n] ELSE c[n]
  BY DEF Over
<1>2. Over(a, f) = [n \in DOMAIN a \cup DOMAIN f |-> IF n \in DOMAIN a THEN a[n] ELSE f[n]]
  BY DEF Over
<1> QED BY <1>1, <1>2 DEF Layers

LEMMA OverAssociates ==
    ASSUME NEW a, NEW b, NEW c
    PROVE  Over(Over(a, b), c) = Over(a, Over(b, c))
BY OverLeft, OverRight

-----------------------------------------------------------------------------
(* Types                                                                   *)

\* What a save has done of its work: where it is decides what the current file
\* is, and how far its success can be relied on.
Stored ==
    /\ pc \in {"write", "write_rest"} => wanted = buf
    /\ pc \in {"backup", "backup_write", "backup_rest"} => cur = File(wanted)
    /\ pc \notin {"backup", "backup_write", "backup_rest", "return", "up"} => status # "success"
    /\ pc \in {"return", "up"} /\ status = "success" =>
           cur = File(wanted) /\ (backed => bak = cur)

LEMMA FileIs ==
    ASSUME NEW f \in Files, f # Missing
    PROVE  f.recs \in Configs /\ f.whole \in BOOLEAN
<1>1. PICK c \in Configs, w \in BOOLEAN : f = [recs |-> c, whole |-> w]
  BY DEF Files
<1> QED BY <1>1

LEMMA FileMade ==
    ASSUME NEW c \in Configs, NEW w \in BOOLEAN, NEW f, f = [recs |-> c, whole |-> w]
    PROVE  f \in Files /\ f # Missing /\ f.recs = c /\ f.whole = w
<1>1. f # Missing
  BY CfmSspAssumption
<1>2. f \in {[recs |-> d, whole |-> v] : d \in Configs, v \in BOOLEAN}
  OBVIOUS
<1> QED BY <1>1, <1>2 DEF Files

\* What the code makes of a file is a file, and only what is written to its
\* end is whole.
LEMMA FileAll ==
    ASSUME NEW c \in Configs
    PROVE  File(c) \in Files /\ File(c) # Missing /\ File(c).whole /\ File(c).recs = c
<1>1. File(c).whole = TRUE /\ File(c) \in Files /\ File(c) # Missing /\ File(c).recs = c
  BY FileMade DEF File
<1> QED BY <1>1

LEMMA FileNone == Truncated \in Files /\ Truncated # Missing /\ ~Truncated.whole
<1>1. Truncated.whole = FALSE /\ Truncated \in Files /\ Truncated # Missing
  BY FileMade, NoRecordsIs DEF Truncated
<1> QED BY <1>1

LEMMA FileSome ==
    ASSUME NEW c \in Configs, NEW f \in CutShort(c)
    PROVE  f \in Files /\ f # Missing /\ ~f.whole
<1>1. PICK N \in SUBSET DOMAIN c : f = [recs |-> Restrict(c, N), whole |-> FALSE]
  BY Zenon DEF CutShort
<1>2. Restrict(c, N) \in Configs
  BY RestrictIs
<1>3. f.whole = FALSE /\ f \in Files /\ f # Missing
  BY <1>1, <1>2, FileMade
<1> QED BY <1>3

\* What each source supplies, nothing when it could not be read.
Customs == {Custom} \cup (IF IoFaults THEN {NoRecords} ELSE {})
Defaults == {Factory} \cup (IF IoFaults THEN {NoRecords} ELSE {})

LEMMA Sources == Factory \in Configs /\ Custom \in Configs /\ Bootstrap \in Configs /\ Offers \in Configs
BY CfmSspAssumption

LEMMA BootstrapPart ==
    ASSUME NEW N \in SUBSET Listed
    PROVE  Restrict(Bootstrap, N) \in Configs
BY Sources, RestrictIs DEF Listed

LEMMA TypeInit == Init => TypeOK
<1>1. Missing \in Files
  BY DEF Files
<1> QED BY <1>1, Sources, NoRecordsIs DEF Init, TypeOK, PCs

LEMMA LoadTypes == ASSUME TypeOK, LoadStep PROVE TypeOK'
<1> USE DEF Goto, PCs, LoadPCs, SavePCs
<1>a. table \in Configs
  BY DEF TypeOK
<1>1. CASE LoadRecords("load_cur", cur) \/ LoadRecords("load_bak", bak)
  <2>1. PICK f \in {cur, bak} : f # Missing /\ table' = Over(f.recs, table) /\ found' = f.recs
    BY <1>1 DEF LoadRecords
  <2>2. f.recs \in Configs
    BY <2>1, FileIs DEF TypeOK
  <2>3. table' \in Configs /\ found' \in Configs
    BY <2>1, <2>2, OverIs DEF TypeOK
  <2> QED BY <1>1, <2>3 DEF LoadRecords, files, partner, TypeOK
<1>2. CASE LoadMissing
  BY <1>2, NoRecordsIs DEF LoadMissing, files, partner, memory, TypeOK
<1>3. CASE ImportCustom \/ MergeDefault
  <2>1. table' \in Configs
    BY <1>3, <1>a, Sources, OverConfig DEF ImportCustom, MergeDefault, Inserted
  <2> QED BY <1>3, <2>1 DEF ImportCustom, MergeDefault, files, partner, history, TypeOK
<1>4. CASE PartnerCheck \/ PartnerUnmark
  BY <1>4 DEF PartnerCheck, PartnerUnmark, files, memory, history, TypeOK
<1>5. CASE PartnerTake
  <2>1. syscfg' \in Configs
    BY <1>5, RestrictIs DEF PartnerTake, TypeOK
  <2>2. table' \in Configs
    BY <1>5, OverIs DEF PartnerTake, Overwritten, TypeOK
  <2> QED BY <1>5, <2>1, <2>2 DEF PartnerTake, files, history, TypeOK
<1>6. CASE MergeBootstrap
  <2>1. present' \subseteq Listed
    BY <1>6 DEF MergeBootstrap, TypeOK
  <2>2. Restrict(Bootstrap, Listed \ present') \in Configs
    BY BootstrapPart
  <2>3. table' \in Configs
    BY <1>6, <1>a, <2>2, OverConfig DEF MergeBootstrap, Inserted
  <2> QED BY <1>6, <2>1, <2>3 DEF MergeBootstrap, files, partner, history, TypeOK
<1>7. CASE Flush
  BY <1>7, NoRecordsIs DEF Flush, files, partner, history, TypeOK
<1> QED BY <1>1, <1>2, <1>3, <1>4, <1>5, <1>6, <1>7 DEF LoadStep

LEMMA SaveTypes == ASSUME TypeOK, Stored, SaveStep PROVE TypeOK'
<1> USE DEF Goto, PCs, LoadPCs, SavePCs
<1>a. buf \in Configs /\ NoRecords \in Configs
  BY NoRecordsIs DEF TypeOK
<1>1. CASE OpenCur
  BY <1>1, <1>a, FileNone DEF OpenCur, partner, TypeOK
<1>2. CASE WriteCur
  BY <1>2, <1>a, FileSome DEF WriteCur, partner, memory, history, TypeOK
<1>3. CASE WriteRest
  BY <1>3, <1>a, FileAll DEF WriteRest, partner, history, TypeOK
<1>4. CASE SaveFault
  BY <1>4, <1>a DEF SaveFault, files, partner, TypeOK
<1>5. CASE BackupTruncate
  BY <1>5, <1>a, FileNone DEF BackupTruncate, partner, memory, history, TypeOK
<1>6. CASE BackupFault
  BY <1>6 DEF BackupFault, files, partner, history, TypeOK
<1>7. CASE Return
  <2>1. Over(buf, tree) \in Configs
    BY OverIs DEF TypeOK
  <2> QED BY <1>7, <1>a, <2>1 DEF Return, files, partner, history, TypeOK
<1>8. CASE ReloadReads
  BY <1>8, <1>a DEF ReloadReads, files, partner, history, TypeOK
<1>9. CASE BackupWrite \/ BackupRest
  <2>1. cur # Missing
    BY <1>9, FileAll DEF BackupWrite, BackupRest, Stored, TypeOK
  <2>2. cur.recs \in Configs
    BY <2>1, FileIs DEF TypeOK
  <2>3. bak' \in Files
    BY <1>9, <2>2, FileSome DEF BackupWrite, BackupRest, TypeOK
  <2>4. {acked', acked} \subseteq Configs
    BY <1>9, <2>2 DEF BackupWrite, BackupRest, history, TypeOK
  <2> QED BY <1>9, <2>3, <2>4 DEF BackupWrite, BackupRest, partner, memory, history, TypeOK
<1> QED BY <1>1, <1>2, <1>3, <1>4, <1>5, <1>6, <1>7, <1>8, <1>9 DEF SaveStep

LEMMA TypeNext == ASSUME TypeOK, Stored, [Next]_vars PROVE TypeOK'
<1> USE DEF Goto, PCs
<1>a. NoRecords \in Configs /\ Missing \in Files
  BY NoRecordsIs DEF Files
<1>1. ASSUME UNCHANGED vars PROVE TypeOK'
  BY <1>1 DEF vars, files, partner, memory, history, TypeOK
<1>2. CASE Start
  BY <1>2 DEF Start, LoadPCs, files, partner, history, TypeOK
<1>3. ASSUME NEW c \in Changes(tree), Save(c) PROVE TypeOK'
  <2>1. tree \in Configs
    BY DEF TypeOK
  <2>2. ASSUME NEW n \in Names, NEW v \in Values
        PROVE  Single(n, v) \in Configs
    <3>1. Single(n, v) \in [{n} -> Values] /\ {n} \in SUBSET Names
      BY DEF Single
    <3> QED BY <3>1, IsConfig
  <2>3. ASSUME NEW n \in Names, NEW v \in Values, c = Over(Single(n, v), tree)
        PROVE  c \in Configs
    BY <2>1, <2>2, <2>3, OverConfig
  <2>4. ASSUME NEW n \in Names, c = Restrict(tree, DOMAIN tree \ {n})
        PROVE  c \in Configs
    BY <2>1, <2>4, RestrictIs
  <2>5. \/ \E n \in Names, v \in Values : c = Over(Single(n, v), tree)
        \/ \E n \in Names : c = Restrict(tree, DOMAIN tree \ {n})
    BY DEF Changes
  <2>6. c \in Configs
    BY <2>3, <2>4, <2>5
  <2> QED BY <1>3, <2>6 DEF Save, SavePCs, files, partner, history, TypeOK
<1>4. CASE Reload
  BY <1>4 DEF Reload, SavePCs, files, partner, history, TypeOK
<1>5. CASE UnlinkCur \/ UnlinkBak
  BY <1>5, <1>a DEF UnlinkCur, UnlinkBak, partner, memory, history, TypeOK
<1>6. CASE PartnerDefaults
  BY <1>6, Sources DEF PartnerDefaults, files, memory, history, TypeOK
<1>7. CASE Kill \/ PowerLoss
  BY <1>7, <1>a DEF Kill, PowerLoss, Gone, files, partner, TypeOK
<1> QED BY <1>1, <1>2, <1>3, <1>4, <1>5, <1>6, <1>7, LoadTypes, SaveTypes DEF Next

-----------------------------------------------------------------------------
(* What the files are                                                      *)

\* A file that is whole is what was meant for it: the current one what it was
\* last written with, the backup what was last copied.
Known ==
    /\ cur # Missing /\ cur.whole => cur = File(wanted)
    /\ bak # Missing /\ bak.whole => bak.recs = acked

LEMMA StoredNext == ASSUME TypeOK, Stored, [Next]_vars PROVE Stored'
<1> USE DEF Goto
<1>1. CASE UNCHANGED vars
  BY <1>1 DEF vars, files, partner, memory, history, Stored
<1>2. CASE LoadStep
  <2>1. pc \in LoadPCs /\ pc' \in LoadPCs \cup {"open"} /\ status' = status
    BY <1>2 DEF LoadStep, LoadRecords, LoadMissing, ImportCustom, MergeDefault, PartnerCheck,
                PartnerUnmark, PartnerTake, MergeBootstrap, Flush, LoadPCs, memory
  <2> QED BY <2>1 DEF Stored, LoadPCs
<1>3. CASE SaveStep
  <2>1. CASE OpenCur
    BY <2>1 DEF OpenCur, Stored
  <2>2. CASE WriteCur
    BY <2>2 DEF WriteCur, memory, history, Stored
  <2>3. CASE WriteRest
    BY <2>3 DEF WriteRest, history, Stored
  <2>4. CASE SaveFault
    BY <2>4 DEF SaveFault, Stored
  <2>5. CASE BackupTruncate \/ BackupWrite
    BY <2>5 DEF BackupTruncate, BackupWrite, memory, history, Stored
  <2>6. CASE BackupRest
    BY <2>6 DEF BackupRest, Stored
  <2>7. CASE BackupFault
    BY <2>7 DEF BackupFault, files, history, Stored
  <2>8. CASE Return \/ ReloadReads
    BY <2>8 DEF Return, ReloadReads, files, history, Stored
  <2> QED BY <1>3, <2>1, <2>2, <2>3, <2>4, <2>5, <2>6, <2>7, <2>8 DEF SaveStep
<1>4. CASE Start
  BY <1>4 DEF Start, Stored
<1>5. CASE (\E c \in Changes(tree) : Save(c)) \/ Reload
  BY <1>5 DEF Save, Reload, Stored
<1>6. CASE UnlinkCur \/ UnlinkBak
  BY <1>6 DEF UnlinkCur, UnlinkBak, memory, Stored
<1>7. CASE PartnerDefaults
  BY <1>7 DEF PartnerDefaults, memory, Stored
<1>8. CASE Kill \/ PowerLoss
  BY <1>8 DEF Kill, PowerLoss, Gone, Stored
<1> QED BY <1>1, <1>2, <1>3, <1>4, <1>5, <1>6, <1>7, <1>8 DEF Next

LEMMA KnownNext == ASSUME TypeOK, Stored, Known, [Next]_vars PROVE Known'
<1> USE DEF Goto
<1>1. ASSUME UNCHANGED <<files, acked, wanted>> PROVE Known'
  BY <1>1 DEF files, Known
<1>2. CASE LoadStep
  <2>1. UNCHANGED <<files, acked, wanted>>
    BY <1>2 DEF LoadStep, LoadRecords, LoadMissing, ImportCustom, MergeDefault, PartnerCheck,
                PartnerUnmark, PartnerTake, MergeBootstrap, Flush, history
  <2> QED BY <1>1, <2>1
<1>3. CASE OpenCur
  BY <1>3, FileNone DEF OpenCur, Known
<1>4. CASE WriteCur
  <2>1. buf \in Configs
    BY DEF TypeOK
  <2>2. ~cur'.whole
    BY <1>4, <2>1, FileSome DEF WriteCur
  <2> QED BY <1>4, <2>2 DEF WriteCur, memory, history, Known
<1>5. CASE WriteRest
  BY <1>5 DEF WriteRest, history, Known, Stored
<1>6. CASE BackupTruncate
  BY <1>6, FileNone DEF BackupTruncate, memory, history, Known
<1>7. CASE BackupWrite
  <2>1. wanted \in Configs
    BY DEF TypeOK
  <2>2. cur.recs \in Configs
    BY <1>7, <2>1, FileAll DEF BackupWrite, Stored
  <2>3. ~bak'.whole
    BY <1>7, <2>2, FileSome DEF BackupWrite
  <2> QED BY <1>7, <2>3 DEF BackupWrite, memory, history, Known
<1>8. CASE BackupRest
  BY <1>8 DEF BackupRest, Known
<1>9. CASE SaveFault \/ BackupFault \/ Return \/ ReloadReads \/ Start \/ Reload \/ PartnerDefaults
           \/ Kill \/ (\E c \in Changes(tree) : Save(c)) \/ UNCHANGED vars
  BY <1>1, <1>9 DEF SaveFault, BackupFault, Return, ReloadReads, Start, Reload, PartnerDefaults,
                    Kill, Save, history, vars
<1>10. CASE UnlinkCur \/ UnlinkBak \/ PowerLoss
  BY <1>10 DEF UnlinkCur, UnlinkBak, PowerLoss, memory, Known
<1> QED BY <1>2, <1>3, <1>4, <1>5, <1>6, <1>7, <1>8, <1>9, <1>10 DEF Next, SaveStep

LEMMA FilesAlways == Spec => [](TypeOK /\ Stored /\ Known)
<1>1. Init => Stored /\ Known
  BY DEF Init, Stored, Known
<1>2. TypeOK /\ Stored /\ Known /\ [Next]_vars => (TypeOK /\ Stored /\ Known)'
  BY TypeNext, StoredNext, KnownNext
<1> QED BY <1>1, <1>2, TypeInit, PTL DEF Spec

\* Whatever a file has been cut down to, and whatever was merged over what,
\* every reachable state is well typed: the table, the tree and the files
\* hold configurations.
THEOREM TypeCorrect == Spec => []TypeOK
BY FilesAlways, PTL

\* After any sequence of faults, kills and power losses, a whole file is the
\* one that the last save wrote or that the last backup copied.
THEOREM KnownWhole == Spec => []WholeIsKnown
<1>1. TypeOK /\ Known => WholeIsKnown
  <2>1. wanted \in Configs => File(wanted).recs = wanted
    BY FileAll
  <2>2. TypeOK => wanted \in Configs
    BY DEF TypeOK
  <2> QED BY <2>1, <2>2 DEF Known, WholeIsKnown, Found
<1> QED BY <1>1, FilesAlways, PTL

\* When SaveCurConfig has returned success, what it was given is in the
\* current file as a whole, and in the backup too unless backup_file failed.
THEOREM DurableSuccess == Spec => []SuccessIsDurable
<1>1. Stored => SuccessIsDurable
  BY DEF Stored, SuccessIsDurable
<1> QED BY <1>1, FilesAlways, PTL

-----------------------------------------------------------------------------
(* What a load gathers                                                     *)

\* What the bootstrap file makes of a merge.
Supplied(records) ==
    \E m \in Merges :
        \/ records = m
        \/ records = Over(m, Restrict(Bootstrap,
                         Listed \ (IF call = "load" THEN DOMAIN m ELSE present)))

\* The table at each point of ReadCurConfig, and the marks at a start.
Gathered ==
    /\ pc \notin {"custom", "default", "partner", "nv", "nv_asked", "take", "missing", "flush"} =>
           table = NoRecords
    /\ pc = "custom" => table = found
    /\ pc = "default" => \E c \in Customs : table = Over(found, c)
    /\ pc \in {"partner", "nv", "nv_asked", "take"} =>
           \E c \in Customs, d \in Defaults : table = Over(found, Over(c, d))
    /\ pc = "missing" => table \in Merges
    /\ pc = "flush" => Supplied(table)
    /\ pc \notin {"missing", "flush", "open"} => taken = NoRecords
    /\ pc = "off" => present = {}
    /\ pc \in LoadPCs \ {"flush"} /\ call = "load" => present = {}

Gathering == Gathered /\ LoadsTheMerge

\* The steps that load, up to the default configuration.
LEMMA FileGathered ==
    ASSUME TypeOK, Gathering,
           LoadRecords("load_cur", cur) \/ LoadRecords("load_bak", bak) \/ LoadMissing
    PROVE  Gathering'
<1> USE DEF Goto, LoadPCs
<1>1. CASE LoadMissing
  BY <1>1 DEF LoadMissing, memory, Gathering, Gathered, LoadsTheMerge
<1>2. ASSUME NEW f \in {cur, bak}, f # Missing, table = NoRecords, table' = Over(f.recs, table),
             found' = f.recs
      PROVE  table' = found'
  <2>1. f.recs \in Configs
    BY <1>2, FileIs DEF TypeOK
  <2> QED BY <1>2, <2>1, OverNothing
<1>3. CASE LoadRecords("load_cur", cur) \/ LoadRecords("load_bak", bak)
  <2>1. /\ table = NoRecords /\ taken = NoRecords /\ pc' = "custom" /\ taken' = taken
        /\ pc \in {"load_cur", "load_bak"} /\ UNCHANGED <<call, present>>
    BY <1>3 DEF LoadRecords, Gathering, Gathered
  <2>2. table' = found'
    BY <1>2, <1>3, <2>1 DEF LoadRecords
  <2> QED BY <2>1, <2>2 DEF Gathering, Gathered, LoadsTheMerge
<1> QED BY <1>1, <1>3

LEMMA DefaultsGathered ==
    ASSUME TypeOK, Gathering, ImportCustom \/ MergeDefault
    PROVE  Gathering'
<1> USE DEF Goto, LoadPCs
<1>1. found' = found /\ UNCHANGED <<call, present, taken>> /\ found \in Configs
  BY DEF ImportCustom, MergeDefault, history, TypeOK
<1>2. CASE ImportCustom
  <2>1. pc = "custom" /\ pc' = "default" /\ table = found /\ taken = NoRecords
    BY <1>2 DEF ImportCustom, Gathering, Gathered
  <2>2. \E c \in Customs : table' = Over(found, c)
    <3>1. CASE table' = Over(table, Custom)
      BY <2>1, <3>1 DEF Customs
    <3>2. CASE IoFaults /\ table' = table
      BY <1>1, <2>1, <3>2, OverNothing DEF Customs
    <3> QED BY <1>2, <3>1, <3>2 DEF ImportCustom, Inserted
  <2> QED BY <1>1, <2>1, <2>2 DEF Gathering, Gathered, LoadsTheMerge
<1>3. CASE MergeDefault
  <2>1. pc = "default" /\ pc' = "partner" /\ taken = NoRecords
    BY <1>3 DEF MergeDefault, Gathering, Gathered
  <2>2. PICK c \in Customs : table = Over(found, c)
    BY <2>1 DEF Gathering, Gathered
  <2>3. c \in Configs
    BY Sources, NoRecordsIs DEF Customs
  <2>4. \E d \in Defaults : table' = Over(found, Over(c, d))
    <3>1. CASE table' = Over(table, Factory)
      BY <2>2, <3>1, OverAssociates DEF Defaults
    <3>2. CASE IoFaults /\ table' = table
      BY <2>2, <2>3, <3>2, OverNothing DEF Defaults
    <3> QED BY <1>3, <3>1, <3>2 DEF MergeDefault, Inserted
  <2> QED BY <1>1, <2>1, <2>4 DEF Gathering, Gathered, LoadsTheMerge
<1> QED BY <1>2, <1>3

LEMMA PartnerGathered ==
    ASSUME TypeOK, Gathering, PartnerCheck \/ PartnerUnmark \/ PartnerTake
    PROVE  Gathering'
<1> USE DEF Goto, LoadPCs
<1>1. pc \in {"partner", "nv", "nv_asked", "take"} /\ taken = NoRecords
      /\ UNCHANGED <<found, call, present>>
  BY DEF PartnerCheck, PartnerUnmark, PartnerTake, memory, history, Gathering, Gathered
<1>2. PICK c \in Customs, d \in Defaults : table = Over(found, Over(c, d))
  BY <1>1 DEF Gathering, Gathered
<1>3. Over(found, Over(c, d)) \in Configs
  BY <1>2 DEF TypeOK
<1>4. CASE PartnerCheck \/ PartnerUnmark
  <2>1. pc' \in {"nv", "nv_asked", "take", "missing"} /\ table' = table /\ taken' = taken
    BY <1>4 DEF PartnerCheck, PartnerUnmark, memory
  <2>2. table' = Over(taken', Over(found', Over(c, d)))
    BY <1>1, <1>2, <1>3, <2>1, OverNothing
  <2>3. table' \in Merges'
    BY <2>2 DEF Merges, Customs, Defaults
  <2> QED BY <1>1, <1>2, <2>1, <2>3 DEF Gathering, Gathered, LoadsTheMerge
<1>5. CASE PartnerTake
  <2>1. pc' = "missing" /\ table' = Over(taken', Over(found', Over(c, d)))
    BY <1>1, <1>2, <1>5 DEF PartnerTake, Overwritten
  <2>2. table' \in Merges'
    BY <2>1 DEF Merges, Customs, Defaults
  <2> QED BY <1>1, <2>1, <2>2 DEF Gathering, Gathered, LoadsTheMerge
<1> QED BY <1>4, <1>5

LEMMA BootstrapGathered ==
    ASSUME TypeOK, Gathering, MergeBootstrap \/ Flush
    PROVE  Gathering'
<1> USE DEF Goto, LoadPCs
<1>1. Merges' = Merges /\ call' = call
  BY DEF MergeBootstrap, Flush, history, Merges
<1>2. CASE MergeBootstrap
  <2>1. pc = "missing" /\ pc' = "flush" /\ table \in Merges
    BY <1>2 DEF MergeBootstrap, Gathering, Gathered
  <2>2. present' = present \cup (Listed \cap DOMAIN table)
    BY <1>2 DEF MergeBootstrap
  <2>3. call = "load" => Listed \ present' = Listed \ DOMAIN table
    BY <2>1, <2>2 DEF Gathering, Gathered
  <2>4. Supplied(table)'
    <3>1. CASE table' = table
      BY <1>1, <2>1, <3>1 DEF Supplied
    <3>2. CASE table' = Over(table, Restrict(Bootstrap, Listed \ present'))
      <4>1. Listed \ present' = Listed \ (IF call' = "load" THEN DOMAIN table ELSE present')
        BY <1>1, <2>3
      <4>2. PICK m : m = table
        OBVIOUS
      <4>3. m \in Merges' /\ table' = Over(m, Restrict(Bootstrap,
                 Listed \ (IF call' = "load" THEN DOMAIN m ELSE present')))
        BY <1>1, <2>1, <3>2, <4>1, <4>2
      <4> QED BY <4>3 DEF Supplied
    <3> QED BY <1>2, <3>1, <3>2 DEF MergeBootstrap, Inserted
  <2> QED BY <2>1, <2>4 DEF Gathering, Gathered, LoadsTheMerge
<1>3. CASE Flush
  <2>1. pc = "flush" /\ pc' = "open" /\ table' = NoRecords /\ buf' = table /\ UNCHANGED <<present, taken>>
    BY <1>3 DEF Flush
  <2>2. LoadsTheMerge'
    BY <1>1, <2>1 DEF Gathering, Gathered, Supplied, LoadsTheMerge
  <2> QED BY <2>1, <2>2 DEF Gathering, Gathered
<1> QED BY <1>2, <1>3

LEMMA GatheringNext == ASSUME TypeOK, Gathering, [Next]_vars PROVE Gathering'
<1> USE DEF Goto
<1>1. CASE UNCHANGED <<pc, memory, found>>
  BY <1>1 DEF memory, Gathering, Gathered, LoadsTheMerge, Merges, Supplied
<1>2. CASE LoadStep
  BY <1>2, FileGathered, DefaultsGathered, PartnerGathered, BootstrapGathered DEF LoadStep
<1>3. CASE Start \/ Kill \/ PowerLoss
  <2>1. pc' \in {"off", "load_cur"} /\ table' = NoRecords /\ taken' = NoRecords /\ present' = {}
    BY <1>3 DEF Start, Kill, PowerLoss, Gone, Gathering, Gathered
  <2> QED BY <2>1 DEF Gathering, Gathered, LoadsTheMerge
<1>4. CASE SaveStep \/ UnlinkCur \/ UnlinkBak
  <2>1. /\ pc' \in {"up", "reset", "write", "write_rest", "backup", "backup_write", "backup_rest", "return"}
           \/ (pc' = "load_cur" /\ call' = "again")
        /\ table' = NoRecords
    BY <1>4 DEF SaveStep, OpenCur, WriteCur, WriteRest, SaveFault, BackupTruncate,
                BackupWrite, BackupRest, BackupFault, Return, ReloadReads, UnlinkCur, UnlinkBak,
                memory, Gathering, Gathered
  <2>2. taken' = NoRecords
    BY <1>4 DEF SaveStep, OpenCur, WriteCur, WriteRest, SaveFault, BackupTruncate,
                BackupWrite, BackupRest, BackupFault, Return, ReloadReads, UnlinkCur, UnlinkBak,
                memory, Gathering, Gathered
  <2> QED BY <2>1, <2>2 DEF Gathering, Gathered, LoadsTheMerge, LoadPCs
<1>5. CASE (\E c \in Changes(tree) : Save(c)) \/ Reload
  <2>1. pc' = "open" /\ call' \notin {"load", "again"} /\ table' = NoRecords
    BY <1>5 DEF Save, Reload, Gathering, Gathered
  <2> QED BY <2>1 DEF Gathering, Gathered, LoadsTheMerge, LoadPCs
<1>6. CASE PartnerDefaults \/ UNCHANGED vars
  BY <1>1, <1>6 DEF PartnerDefaults, history, vars
<1> QED BY <1>2, <1>3, <1>4, <1>5, <1>6 DEF Next

\* What ReadCurConfig saves and hands to the registry are the user's settings
\* over the device's own and the factory's, as far as these could be read,
\* under the partner's where they were asked for, and bootstrap.json only where
\* nobody has a value (at a reload: nobody had one in this process): for any
\* overlap of the sources, and whatever happened to the files before.
THEOREM MergeLoads == Spec => []LoadsTheMerge
<1>1. Init => Gathering
  BY DEF Init, Gathering, Gathered, LoadsTheMerge, LoadPCs
<1>2. TypeOK /\ Gathering /\ [Next]_vars => Gathering'
  BY GatheringNext
<1>3. Gathering => LoadsTheMerge
  BY DEF Gathering
<1> QED BY <1>1, <1>2, <1>3, TypeCorrect, PTL DEF Spec

=============================================================================
