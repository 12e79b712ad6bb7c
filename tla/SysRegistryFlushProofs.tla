---------------------- MODULE SysRegistryFlushProofs ----------------------
(***************************************************************************)
(* Theorems about when the tree reaches the files, and that the registry   *)
(* implements the store WriteBack, for every set of clients, operations    *)
(* and values and for both builds (the model checker has the registry's    *)
(* own file interface only).  They are for loads that do not fail, files   *)
(* that can be written, a thread lock that only its holder releases and,   *)
(* in the HAL build, settings that are never deleted: a deleted one is     *)
(* back with the next start, as the factory defaults are merged in.        *)
(***************************************************************************)
EXTENDS SysRegistryProofs

Reliable == SaveFaults = FALSE /\ ForeignUnlock = FALSE /\ (Hal => "delete" \notin Ops)

\* The thread p goes on to l, which is none of the labels that the flush and
\* the start turn on.
Aside(p, l) ==
    /\ Goto(p, l)
    /\ l \notin {"off", "load", "loaded", "serving", "write", "saved", "exit"}
    /\ p = Main => \/ pc[Main] = "off" /\ l = "read"
                   \/ pc[Main] \in {"flash", "flash_lock"} /\ l \in {"flash_lock", "encode"}
    /\ p \in Clients /\ l \in {"resume", "start", "read"} => pc[p] \in {"resume", "start"}

\* A step that touches neither the tree nor a file nor a buffer.
Silent ==
    /\ UNCHANGED <<mem, cur, bak, snap, owed, serving>>
    /\ UNCHANGED pc \/ \E p \in Procs : \E l : Aside(p, l)

LEMMA SilentSteps ==
    ASSUME TypeOK,
           \/ Engage \/ TimerFires \/ TimerSaves \/ TimerSkips \/ DelayPasses
           \/ \E p \in Loaders : FlashBegin(p) \/ FlashLock(p)
           \/ \E c \in Clients : HandlerBegins(c) \/ GetBegins(c) \/ GetFails(c) \/ GetReturns(c)
           \/ \E c \in Clients : SysRamNotify(c) \/ HandlerReturns(c)
           \/ \E c \in Clients, b \in BOOLEAN : DisableWriting(c, b) \/ EnableFileSync(c, b)
           \/ \E c \in Clients : Reload(c) \/ ReloadResumes(c) \/ ReloadStarts(c) \/ SpawnReset(c)
           \/ ResetBegin \/ ResetStop
    PROVE  Silent
<1> USE DEF Step, At
<1>1. CASE Engage \/ DelayPasses
  <2>1. UNCHANGED <<mem, cur, bak, snap, owed, serving>>
    BY <1>1 DEF Engage, DelayPasses, files
  <2>2. UNCHANGED pc \/ Aside(Main, "read")
    BY <1>1, Identities DEF Engage, DelayPasses, Aside
  <2> QED BY <2>1, <2>2 DEF Silent, Procs
<1>2. CASE TimerFires \/ TimerSaves \/ TimerSkips
  <2>1. UNCHANGED <<mem, cur, bak, snap, owed, serving>>
    BY <1>2 DEF TimerFires, TimerSaves, TimerSkips, files
  <2>2. \E l : Aside(Timer, l)
    BY <1>2, Identities DEF TimerFires, TimerSaves, TimerSkips, Aside
  <2> QED BY <2>1, <2>2 DEF Silent, Procs
<1>3. ASSUME NEW p \in Loaders, FlashBegin(p) \/ FlashLock(p)
      PROVE  Silent
  <2>1. UNCHANGED <<mem, cur, bak, snap, owed, serving>>
    BY <1>3 DEF FlashBegin, FlashLock, files
  <2>2. \E l : Aside(p, l)
    BY <1>3 DEF FlashBegin, FlashLock, Aside
  <2> QED BY <2>1, <2>2 DEF Silent, Loaders, Procs
<1>4. ASSUME NEW c \in Clients,
             \/ HandlerBegins(c) \/ GetBegins(c) \/ GetFails(c) \/ GetReturns(c) \/ HandlerReturns(c)
             \/ SysRamNotify(c) \/ Reload(c) \/ ReloadResumes(c) \/ ReloadStarts(c)
             \/ \E b \in BOOLEAN : DisableWriting(c, b) \/ EnableFileSync(c, b)
      PROVE  Silent
  <2>1. UNCHANGED <<mem, cur, bak, snap, owed, serving>>
    BY <1>4 DEF HandlerBegins, GetBegins, GetFails, GetReturns, HandlerReturns, SysRamNotify, Reload,
       ReloadResumes, ReloadStarts, DisableWriting, EnableFileSync, files
  <2>2. \E l : Aside(c, l)
    BY <1>4, Identities DEF HandlerBegins, GetBegins, GetFails, GetReturns, HandlerReturns, SysRamNotify,
       Reload, ReloadResumes, ReloadStarts, DisableWriting, EnableFileSync, Aside
  <2> QED BY <2>1, <2>2 DEF Silent, Procs
<1>5. CASE ResetBegin \/ ResetStop \/ \E c \in Clients : SpawnReset(c)
  <2>1. UNCHANGED <<mem, cur, bak, snap, owed, serving>>
    BY <1>5 DEF ResetBegin, ResetStop, SpawnReset, files
  <2>2. \E l : Aside(Reset, l)
    BY <1>5, Identities DEF ResetBegin, ResetStop, SpawnReset, Aside
  <2> QED BY <2>1, <2>2 DEF Silent, Procs
<1> QED BY <1>1, <1>2, <1>3, <1>4, <1>5

\* Next, as far as the tree, the files and the buffers go.
LEMMA DataActions ==
    ASSUME TypeOK, Reliable, Next
    PROVE  \/ Silent
           \/ \E p \in Loaders : ReadCurConfig(p) \/ LoadSetting(p) \/ FlashDone(p)
           \/ \E p \in Savers : Encode(p) \/ SaveCurConfig(p)
           \/ Engaged \/ TimerDone \/ Term
           \/ \E c \in Clients, v \in Settings :
                  ChangeRecord(c, v) /\ (v = Absent => "delete" \in Ops)
           \/ UnlinkCur \/ UnlinkBak
           \/ Exit \/ Die \/ PowerLoss
<1>1. ASSUME NEW p PROVE ~ReadCurConfigFails(p)
  BY DEF Reliable, ReadCurConfigFails
<1> QED BY <1>1, NextActions, SilentSteps

\* What is left of a process is where the next one starts.
LEMMA GoneState ==
    ASSUME Gone
    PROVE  /\ pc' = Idle /\ mem' = Absent /\ ~serving' /\ ~bNeedFlush' /\ bNoSave'
           /\ snap' = [p \in Procs |-> Absent]
           /\ pc'[Main] = "off" /\ pc'[Timer] = "idle" /\ pc'[Reset] = "off"
           /\ \A c \in Clients : pc'[c] = "idle"
           /\ \A p \in Procs : pc'[p] \in {"off", "idle"}
<1>1. pc' = Idle
  BY DEF Gone, Idle
<1>2. \A p \in Procs : pc'[p] \in {"off", "idle"}
  BY <1>1 DEF Idle
<1> QED BY <1>1, <1>2, IdleType DEF Gone

\* Where the threads are, in one place.
LEMMA Threads ==
    /\ Main \in Procs /\ Timer \in Procs /\ Reset \in Procs
    /\ Main # Timer /\ Main # Reset /\ Timer # Reset
    /\ \A c \in Clients : c \in Procs /\ c # Main /\ c # Timer /\ c # Reset
    /\ \A p \in Loaders : p \in Procs /\ p # Timer /\ p # Reset /\ (p = Main \/ p \in Clients)
    /\ \A p \in Savers : p \in Procs /\ p # Reset /\ (p = Main \/ p = Timer \/ p \in Clients)
BY Identities DEF Procs, Loaders, Savers

-----------------------------------------------------------------------------
(* Before PSM serves                                                       *)

QuietBefore ==
    ~serving => /\ ~bNeedFlush /\ pc[Timer] = "idle" /\ pc[Reset] = "off"
                /\ \A c \in Clients : pc[c] = "idle"

LEMMA QuietBeforeStep ==
    ASSUME TypeOK, StartsAlone, QuietBefore, Reliable, Next
    PROVE  QuietBefore'
<1> USE DEF Step, At
<1>0. pc \in [Procs -> ClientPCs \cup MainPCs \cup TimerPCs \cup ResetPCs]
  BY DEF TypeOK, LabelsOK
<1>1. CASE Exit \/ Die \/ PowerLoss
  BY <1>1, GoneState DEF Exit, Die, PowerLoss, QuietBefore
<1>2. CASE serving /\ ~(Exit \/ Die \/ PowerLoss)
  <2>1. serving'
    BY <1>2, DataActions, Zenon DEF Silent, ReadCurConfig, LoadSetting, FlashDone, Encode,
       SaveCurConfig, Engaged, TimerDone, Term, ChangeRecord, UnlinkCur, UnlinkBak
  <2> QED BY <2>1 DEF QuietBefore
<1>3. CASE ~serving /\ ~(Exit \/ Die \/ PowerLoss)
  <2>1. /\ ~bNeedFlush /\ pc[Timer] = "idle" /\ pc[Reset] = "off"
        /\ \A c \in Clients : pc[c] = "idle"
    BY <1>3 DEF QuietBefore
  <2>2. \/ Engage \/ Engaged \/ DelayPasses \/ Term
        \/ ReadCurConfig(Main) \/ LoadSetting(Main)
        \/ Encode(Main) \/ SaveCurConfig(Main)
        \/ FlashBegin(Main) \/ FlashLock(Main) \/ FlashDone(Main)
    <3>1. ASSUME NEW c \in Clients
          PROVE  /\ ~ReadCurConfig(c) /\ ~LoadSetting(c) /\ ~Encode(c) /\ ~SaveCurConfig(c)
                 /\ ~FlashBegin(c) /\ ~FlashLock(c) /\ ~FlashDone(c)
                 /\ ~HandlerBegins(c) /\ ~GetBegins(c) /\ ~GetFails(c) /\ ~GetReturns(c)
                 /\ \A v \in Settings : ~ChangeRecord(c, v)
                 /\ ~SysRamNotify(c) /\ ~HandlerReturns(c)
                 /\ \A b \in BOOLEAN : ~DisableWriting(c, b) /\ ~EnableFileSync(c, b)
                 /\ ~Reload(c) /\ ~ReloadResumes(c) /\ ~ReloadStarts(c) /\ ~SpawnReset(c)
      BY <1>3, <2>1 DEF ReadCurConfig, LoadSetting, Encode, SaveCurConfig, FlashBegin, FlashLock,
         FlashDone, HandlerBegins, GetBegins, GetFails, GetReturns, ChangeRecord, SysRamNotify,
         HandlerReturns, DisableWriting, EnableFileSync, Reload, ReloadResumes, ReloadStarts, SpawnReset
    <3>2. /\ ~Encode(Timer) /\ ~SaveCurConfig(Timer)
          /\ ~(TimerFires \/ TimerSaves \/ TimerSkips \/ TimerDone)
          /\ ~(ResetBegin \/ ResetStop \/ UnlinkCur \/ UnlinkBak)
      BY <2>1 DEF Encode, SaveCurConfig, TimerFires, TimerSaves, TimerSkips, TimerDone,
         ResetBegin, ResetStop, UnlinkCur, UnlinkBak
    <3>3. \A p : ~ReadCurConfigFails(p)
      BY DEF Reliable, ReadCurConfigFails
    <3> QED BY <1>3, <3>1, <3>2, <3>3, NextActions DEF Loaders, Savers
  <2>3. UNCHANGED bNeedFlush \/ bNeedFlush' = FALSE \/ serving'
    <3>1. CASE LoadSetting(Main)
      <4>1. bNoSave
        BY <3>1 DEF LoadSetting, StartsAlone, StartPCs
      <4> QED BY <3>1, <4>1 DEF LoadSetting, Notified
    <3>2. CASE ~LoadSetting(Main)
      BY <2>2, <3>2, Zenon DEF Engage, Engaged, DelayPasses, Term, ReadCurConfig, Encode, SaveCurConfig,
         FlashBegin, FlashLock, FlashDone, SaveDone, flags
    <3> QED BY <3>1, <3>2
  <2>4. \A p \in Procs : p # Main => pc'[p] = pc[p]
    BY <1>0, <2>2, Threads DEF Goto, Engage, Engaged, DelayPasses, Term, ReadCurConfig, LoadSetting,
       Encode, SaveCurConfig, FlashBegin, FlashLock, FlashDone
  <2> QED BY <2>1, <2>3, <2>4, Threads DEF QuietBefore
<1> QED BY <1>1, <1>2, <1>3

-----------------------------------------------------------------------------
(* What the files hold, and what the buffers                               *)

LEMMA CurUsed ==
    ASSUME cur # Missing
    PROVE  FileValue = IF Hal /\ cur = Absent THEN 0 ELSE cur
BY DEF FileValue

\* A step that leaves the files alone leaves what a start would use alone.
LEMMA FilesKept == ASSUME UNCHANGED <<cur, bak>> PROVE UNCHANGED FileValue
BY DEF FileValue

\* So does reading them, although it writes them.
LEMMA ReadBackKeeps ==
    ASSUME SettingsOK, ReadBack
    PROVE  UNCHANGED FileValue /\ cur' # Missing /\ (Hal => FileValue # Absent)
<1>1. FileValue \in Settings /\ Absent # 0
  BY FileValueType, Identities
<1>2. Hal => FileValue # Absent
  BY <1>1 DEF FileValue
<1>3. cur' = FileValue /\ cur' # Missing
  BY <1>1, Identities DEF ReadBack
<1>4. FileValue' = IF Hal /\ cur' = Absent THEN 0 ELSE cur'
  BY <1>3 DEF FileValue
<1> QED BY <1>2, <1>3, <1>4

\* There is a current file from the first load on, until a factory reset.
FileThere ==
    (serving \/ pc[Main] \in {"load", "loaded"}) /\ pc[Reset] = "off" => cur # Missing

\* In the HAL build, no setting is ever absent after the first load.
NoAbsence ==
    Hal => /\ serving \/ pc[Main] = "loaded" => mem # Absent
           /\ \A p \in Procs : pc[p] = "load" => snap[p] # Absent
           /\ \A p \in Procs : serving /\ pc[p] = "write" => snap[p] # Absent

LEMMA FileThereStep ==
    ASSUME TypeOK, QuietBefore, FileThere, Reliable, Next
    PROVE  FileThere'
<1> USE DEF Step, At
<1>0. /\ pc \in [Procs -> ClientPCs \cup MainPCs \cup TimerPCs \cup ResetPCs]
      /\ snap \in [Procs -> Settings] /\ Missing \notin Settings
  BY Identities DEF TypeOK, LabelsOK, SettingsOK
<1>1. CASE Silent
  BY <1>0, <1>1, Threads DEF Silent, Aside, Goto, FileThere
<1>2. ASSUME NEW p \in Loaders, ReadCurConfig(p) PROVE FileThere'
  BY <1>2, ReadBackKeeps DEF ReadCurConfig, FileThere, TypeOK
<1>3. ASSUME NEW p \in Loaders, LoadSetting(p) \/ FlashDone(p) PROVE FileThere'
  BY <1>0, <1>3, Threads DEF LoadSetting, FlashDone, Goto, FileThere, files
<1>4. ASSUME NEW p \in Savers, Encode(p) PROVE FileThere'
  BY <1>0, <1>4, Threads DEF Encode, Goto, FileThere, files
<1>5. ASSUME NEW p \in Savers, SaveCurConfig(p) PROVE FileThere'
  <2>1. cur' \in Settings \/ UNCHANGED cur
    BY <1>0, <1>5, Threads DEF SaveCurConfig, Saved, SaveFails, files
  <2> QED BY <1>0, <1>5, <2>1, Threads DEF SaveCurConfig, Goto, FileThere
<1>6. CASE Engaged \/ TimerDone \/ Term
  BY <1>0, <1>6, Threads DEF Engaged, TimerDone, Term, Goto, FileThere, files
<1>7. ASSUME NEW c \in Clients, NEW v \in Settings, ChangeRecord(c, v) PROVE FileThere'
  BY <1>0, <1>7, Threads DEF ChangeRecord, Goto, FileThere, files
<1>8. CASE UnlinkCur \/ UnlinkBak
  BY <1>0, <1>8, Threads DEF UnlinkCur, UnlinkBak, Goto, FileThere
<1>9. CASE Exit \/ Die \/ PowerLoss
  BY <1>9, GoneState DEF Exit, Die, PowerLoss, FileThere
<1> QED BY <1>1, <1>2, <1>3, <1>4, <1>5, <1>6, <1>7, <1>8, <1>9, DataActions

LEMMA NoAbsenceStep ==
    ASSUME TypeOK, StartsAlone, QuietBefore, NoAbsence, Reliable, Next
    PROVE  NoAbsence'
<1> SUFFICES ASSUME Hal PROVE NoAbsence'
  BY DEF NoAbsence
<1> USE DEF Step, At
<1>0. /\ pc \in [Procs -> ClientPCs \cup MainPCs \cup TimerPCs \cup ResetPCs]
      /\ snap \in [Procs -> Settings]
  BY DEF TypeOK, LabelsOK, SettingsOK
<1>1. CASE Silent
  BY <1>0, <1>1, Threads DEF Silent, Aside, Goto, NoAbsence
<1>2. ASSUME NEW p \in Loaders, ReadCurConfig(p) PROVE NoAbsence'
  <2>1. FileValue # Absent
    BY <1>2, ReadBackKeeps DEF ReadCurConfig, TypeOK
  <2> QED BY <1>0, <1>2, <2>1, Threads DEF ReadCurConfig, Goto, NoAbsence
<1>3. ASSUME NEW p \in Loaders, LoadSetting(p) PROVE NoAbsence'
  BY <1>0, <1>3, Threads DEF LoadSetting, BufferFreed, Goto, NoAbsence
<1>4. ASSUME NEW p \in Loaders, FlashDone(p) PROVE NoAbsence'
  BY <1>0, <1>4, Threads DEF FlashDone, BufferFreed, Goto, NoAbsence
<1>5. ASSUME NEW p \in Savers, Encode(p) \/ SaveCurConfig(p) PROVE NoAbsence'
  BY <1>0, <1>5, Threads DEF Encode, SaveCurConfig, Goto, NoAbsence
<1>6. CASE Engaged \/ TimerDone \/ Term
  <2>1. CASE Engaged
    <3>1. \A p \in Procs : pc'[p] # "write"
      BY <1>0, <2>1, Threads DEF Engaged, Goto, QuietBefore, Procs, StartsAlone, StartPCs
    <3> QED BY <1>0, <2>1, <3>1, Threads DEF Engaged, Goto, NoAbsence
  <2>2. CASE TimerDone \/ Term
    BY <1>0, <2>2, Threads DEF TimerDone, Term, BufferFreed, Goto, NoAbsence
  <2> QED BY <1>6, <2>1, <2>2
<1>7. ASSUME NEW c \in Clients, NEW v \in Settings, ChangeRecord(c, v), v = Absent => "delete" \in Ops
      PROVE  NoAbsence'
  BY <1>0, <1>7, Threads DEF ChangeRecord, Goto, NoAbsence, Reliable
<1>8. CASE UnlinkCur \/ UnlinkBak
  BY <1>0, <1>8, Threads DEF UnlinkCur, UnlinkBak, Goto, NoAbsence
<1>9. CASE Exit \/ Die \/ PowerLoss
  BY <1>9, GoneState DEF Exit, Die, PowerLoss, NoAbsence
<1> QED BY <1>1, <1>2, <1>3, <1>4, <1>5, <1>6, <1>7, <1>8, <1>9, DataActions

\* A save that was let through leaves what it was to store, and a start will
\* find it.
LEMMA SaveStores ==
    ASSUME TypeOK, QuietBefore, FileThere, NoAbsence, Reliable,
           NEW p \in Savers, SaveCurConfig(p), serving, pc[Reset] = "off"
    PROVE  FileValue' = snap[p] /\ UNCHANGED snap
<1>1. p \in Procs /\ snap[p] \in Settings
  BY Threads DEF TypeOK, SettingsOK
<1>2. cur # Missing
  BY DEF FileThere
<1>3. cur' = snap[p] /\ snap' = snap
  BY <1>2 DEF SaveCurConfig, CanSave, Saved, Reliable
<1>4. snap[p] # Missing /\ (Hal => snap[p] # Absent)
  BY <1>1, Identities DEF NoAbsence, SaveCurConfig, Step, At
<1> QED BY <1>3, <1>4 DEF FileValue

-----------------------------------------------------------------------------
(* What the timer leaves in the files                                      *)

LEMMA OneSaves ==
    ASSUME LocksExclude, NEW p \in Procs, NEW q \in Procs, pc[p] \in SavePCs, pc[q] \in SavePCs
    PROVE  p = q
BY DEF LocksExclude, AccessLockHeld, WithAccessLock

LEMMA FlushStoresStep ==
    ASSUME TypeOK, LocksExclude, StartsAlone, TimerSavesTheTree, QuietBefore, FileThere, NoAbsence,
           FlushStores, Reliable, Next
    PROVE  FlushStores'
<1> USE DEF Step, At
<1>0. pc \in [Procs -> ClientPCs \cup MainPCs \cup TimerPCs \cup ResetPCs]
  BY DEF TypeOK, LabelsOK
<1>1. CASE Silent
  BY <1>0, <1>1, FilesKept, Threads DEF Silent, Aside, Goto, FlushStores
<1>2. ASSUME NEW p \in Loaders, ReadCurConfig(p) PROVE FlushStores'
  <2>1. UNCHANGED FileValue
    BY <1>2, ReadBackKeeps DEF ReadCurConfig, TypeOK
  <2> QED BY <1>0, <1>2, <2>1, Threads DEF ReadCurConfig, Goto, FlushStores
<1>3. ASSUME NEW p \in Loaders, LoadSetting(p) PROVE FlushStores'
  <2>1. pc[Timer] \notin SavePCs
    BY <1>3, TreeIsStill DEF LoadSetting, Loaders, StartPCs
  <2> QED BY <1>0, <1>3, <2>1, Threads DEF LoadSetting, Goto, FlushStores, SavePCs
<1>4. ASSUME NEW p \in Loaders, FlashDone(p) PROVE FlushStores'
  BY <1>0, <1>4, FilesKept, Threads DEF FlashDone, Goto, FlushStores, files
<1>5. ASSUME NEW p \in Savers, Encode(p) PROVE FlushStores'
  BY <1>0, <1>5, FilesKept, Threads DEF Encode, Goto, FlushStores, files
<1>6. CASE SaveCurConfig(Timer)
  <2>1. serving /\ snap[Timer] = mem
    BY <1>6 DEF SaveCurConfig, QuietBefore, TimerSavesTheTree
  <2>2. pc'[Reset] = pc[Reset] /\ mem' = mem
    BY <1>0, <1>6, Threads DEF SaveCurConfig, Goto
  <2>3. pc[Reset] = "off" => FileValue' = mem
    BY <1>6, <2>1, SaveStores DEF Savers
  <2> QED BY <2>2, <2>3 DEF FlushStores
<1>7. ASSUME NEW p \in Savers, p # Timer, SaveCurConfig(p) PROVE FlushStores'
  <2>1. pc[Timer] \notin SavePCs
    BY <1>7, Threads, OneSaves DEF SaveCurConfig, SavePCs
  <2> QED BY <1>0, <1>7, <2>1, Threads DEF SaveCurConfig, Goto, FlushStores, SavePCs
<1>8. CASE Engaged \/ TimerDone \/ Term
  BY <1>0, <1>8, FilesKept, Threads DEF Engaged, TimerDone, Term, Goto, FlushStores, files
<1>9. ASSUME NEW c \in Clients, NEW v \in Settings, ChangeRecord(c, v) PROVE FlushStores'
  <2>1. pc[Timer] \notin SavePCs
    BY <1>9, TreeIsStill DEF ChangeRecord
  <2> QED BY <1>0, <1>9, <2>1, Threads DEF ChangeRecord, Goto, FlushStores, SavePCs
<1>10. CASE UnlinkCur \/ UnlinkBak
  BY <1>0, <1>10, Threads DEF UnlinkCur, UnlinkBak, Goto, FlushStores
<1>11. CASE Exit \/ Die \/ PowerLoss
  BY <1>11, GoneState DEF Exit, Die, PowerLoss, FlushStores
<1> QED BY <1>1, <1>2, <1>3, <1>4, <1>5, <1>6, <1>7, <1>8, <1>9, <1>10, <1>11, DataActions

-----------------------------------------------------------------------------
(* The start, and a reload: while they load, bNoSave keeps changes from    *)
(* being flushed                                                           *)

\* What a start loads is what the files hold.
StartFollows ==
    /\ pc[Main] \in {"off", "read", "load"} => mem = Absent
    /\ pc[Main] = "load" => snap[Main] = FileValue
    /\ pc[Main] = "loaded" => mem = FileValue

LEMMA StartFollowsStep ==
    ASSUME TypeOK, StartsAlone, QuietBefore, StartFollows, Reliable, Next
    PROVE  StartFollows'
<1> USE DEF Step, At
<1>0. /\ pc \in [Procs -> ClientPCs \cup MainPCs \cup TimerPCs \cup ResetPCs]
      /\ snap \in [Procs -> Settings]
  BY DEF TypeOK, LabelsOK, SettingsOK
<1>1. CASE Exit \/ Die \/ PowerLoss
  BY <1>1, GoneState DEF Exit, Die, PowerLoss, StartFollows
<1>2. CASE pc[Main] \notin StartPCs /\ ~(Exit \/ Die \/ PowerLoss)
  BY <1>2, StartReached DEF StartFollows, StartPCs
<1>3. CASE pc[Main] \in StartPCs /\ ~(Exit \/ Die \/ PowerLoss)
  <2>1. pc[Reset] = "off"
    BY <1>3 DEF StartsAlone, QuietBefore
  <2>2. CASE Engage \/ DelayPasses
    BY <1>0, <2>2, FilesKept, Threads DEF Engage, DelayPasses, Goto, files, StartFollows
  <2>3. CASE Engaged \/ Term
    BY <1>0, <2>3, Threads DEF Engaged, Term, Goto, StartFollows
  <2>4. CASE ReadCurConfig(Main)
    <3>1. UNCHANGED FileValue
      BY <2>4, ReadBackKeeps DEF ReadCurConfig, TypeOK
    <3> QED BY <1>0, <2>4, <3>1, Threads DEF ReadCurConfig, Goto, StartFollows
  <2>5. CASE LoadSetting(Main)
    BY <1>0, <2>5, FilesKept, Threads DEF LoadSetting, Goto, files, StartFollows
  <2>6. ~(ReadCurConfigFails(Main) \/ ResetBegin \/ ResetStop \/ UnlinkCur \/ UnlinkBak)
    BY <2>1 DEF Reliable, ReadCurConfigFails, ResetBegin, ResetStop, UnlinkCur, UnlinkBak
  <2> QED BY <1>3, <2>2, <2>3, <2>4, <2>5, <2>6, StartActions
<1> QED BY <1>1, <1>2, <1>3

\* A reload suspends the flag until its save is over.
FlashPCs == {"flash_lock", "resume"} \cup SavePCs
FlashSuspends == \A c \in Clients : pc[c] \in FlashPCs => bNoSave

\* Only one handler is at work.
LEMMA OneHandles ==
    ASSUME LocksExclude, NEW c \in Clients, NEW d \in Clients,
           pc[c] \notin {"idle", "get_exit"}, pc[d] \notin {"idle", "get_exit"}
    PROVE  c = d
BY Threads DEF LocksExclude, ThreadLockHeld, WithThreadLock

\* A move that leaves the flag as it was.
LEMMA SuspendsKept ==
    ASSUME TypeOK, FlashSuspends, UNCHANGED bNoSave, NEW p \in Procs, NEW l, Goto(p, l),
           p \in Clients /\ l \in FlashPCs => pc[p] \in FlashPCs
    PROVE  FlashSuspends'
BY Threads DEF TypeOK, LabelsOK, Goto, FlashSuspends

LEMMA FlashSuspendsStep ==
    ASSUME TypeOK, LocksExclude, StartsAlone, FlashSuspends, Next
    PROVE  FlashSuspends'
<1> USE DEF Step, At, FlashPCs, SavePCs
<1>0. pc \in [Procs -> ClientPCs \cup MainPCs \cup TimerPCs \cup ResetPCs]
  BY DEF TypeOK, LabelsOK
<1>1. CASE bNoSave'
  BY <1>1 DEF FlashSuspends
<1>2. ASSUME NEW p \in Loaders, ReadCurConfig(p) \/ ReadCurConfigFails(p) \/ LoadSetting(p)
                                  \/ FlashLock(p) \/ FlashDone(p)
      PROVE  FlashSuspends'
  <2>1. /\ UNCHANGED bNoSave /\ p \in Procs
        /\ \E l : Goto(p, l) /\ (p \in Clients /\ l \in FlashPCs => pc[p] \in FlashPCs)
    BY <1>2, Threads DEF ReadCurConfig, ReadCurConfigFails, LoadSetting, FlashLock, FlashDone, flags
  <2> QED BY <2>1, SuspendsKept
<1>3. ASSUME NEW p \in Loaders, FlashBegin(p) PROVE bNoSave'
  BY <1>3 DEF FlashBegin
<1>4. ASSUME NEW p \in Savers, Encode(p) \/ SaveCurConfig(p) PROVE FlashSuspends'
  <2>1. /\ UNCHANGED bNoSave /\ p \in Procs
        /\ \E l : Goto(p, l) /\ (p \in Clients /\ l \in FlashPCs => pc[p] \in FlashPCs)
    BY <1>4, Threads DEF Encode, SaveCurConfig, flags
  <2> QED BY <2>1, SuspendsKept
<1>5. CASE \/ Engage \/ TimerFires \/ TimerSaves \/ TimerSkips \/ TimerDone
           \/ ResetStop \/ UnlinkCur \/ UnlinkBak \/ Term \/ \E c \in Clients : SpawnReset(c)
  <2>1. UNCHANGED bNoSave /\ \E p \in {Main, Timer, Reset} : \E l : Goto(p, l)
    BY <1>5 DEF Engage, TimerFires, TimerSaves, TimerSkips, TimerDone, ResetStop, UnlinkCur, UnlinkBak,
       Term, SpawnReset, flags
  <2> QED BY <2>1, SuspendsKept, Threads
<1>6. ASSUME NEW c \in Clients,
             \/ HandlerBegins(c) \/ GetBegins(c) \/ GetFails(c) \/ GetReturns(c) \/ HandlerReturns(c)
             \/ SysRamNotify(c) \/ Reload(c) \/ ReloadStarts(c)
             \/ \E v \in Settings : ChangeRecord(c, v)
             \/ \E b \in BOOLEAN : DisableWriting(c, b) \/ EnableFileSync(c, b)
      PROVE  FlashSuspends'
  <2>1. UNCHANGED bNoSave /\ \E l : Goto(c, l) /\ l \notin FlashPCs
    BY <1>6 DEF HandlerBegins, GetBegins, GetFails, GetReturns, HandlerReturns, SysRamNotify, Reload,
       ReloadStarts, ChangeRecord, DisableWriting, EnableFileSync, flags
  <2> QED BY <2>1, SuspendsKept, Threads
<1>7. ASSUME NEW c \in Clients, ReloadResumes(c) PROVE FlashSuspends'
  <2>1. \A d \in Clients : d # c => pc[d] \in {"idle", "get_exit"}
    BY <1>7, OneHandles DEF ReloadResumes
  <2> QED BY <1>0, <1>7, <2>1, Threads DEF ReloadResumes, Goto, FlashSuspends
<1>8. CASE Engaged
  <2>1. \A d \in Clients : pc[d] = "idle"
    BY <1>8 DEF Engaged, StartsAlone, StartPCs
  <2> QED BY <1>0, <1>8, <2>1, Threads DEF Engaged, Goto, FlashSuspends
<1>9. CASE DelayPasses
  BY <1>9 DEF DelayPasses, FlashSuspends
<1>10. CASE ResetBegin \/ Exit \/ Die \/ PowerLoss
  BY <1>1, <1>10, GoneState DEF ResetBegin, Exit, Die, PowerLoss
<1> QED BY <1>1, <1>2, <1>3, <1>4, <1>5, <1>6, <1>7, <1>8, <1>9, <1>10, NextActions

-----------------------------------------------------------------------------
(* No change is forgotten                                                  *)

Scheduled == bNeedFlush \/ \E c \in Clients : pc[c] \in {"notify", "start", "read", "load"}

\* A handler at work, with no shutdown under way, notifies into a flag that
\* nobody is about to clear.
LEMMA NotifiedSchedules ==
    ASSUME TypeOK, LocksExclude, NEW c \in Clients, pc[c] \in {"notify", "load"},
           pc[Main] = "serving", ~bNoSave, Notified
    PROVE  bNeedFlush'
<1>1. ASSUME NEW p \in Procs, pc[p] \in SavePCs PROVE FALSE
  <2>1. CASE p = Timer
    <3>1. ThreadLock = Timer /\ ThreadLock = c
      BY <1>1, <2>1, Threads DEF LocksExclude, ThreadLockHeld, WithThreadLock
    <3> QED BY <3>1, Threads
  <2>2. CASE p \in Clients
    BY <1>1, <2>2, OneHandles DEF SavePCs
  <2>3. CASE p = Main \/ p = Reset
    BY <1>1, <2>3 DEF TypeOK, LabelsOK, ResetPCs, SavePCs
  <2> QED BY <2>1, <2>2, <2>3 DEF Procs
<1>2. ~bSaveInProgress
  BY <1>1 DEF LocksExclude, SaveFlagExact
<1> QED BY <1>2 DEF Notified

\* A step with the flag as it was, or up.
LEMMA LagKept ==
    ASSUME TypeOK, LagIsScheduled, UNCHANGED <<mem, FileValue, bNoSave>>, bNeedFlush => bNeedFlush',
           NEW p \in Procs, NEW l, Goto(p, l),
           p = Main => l # "serving", p = Reset => l # "off",
           p \in Clients /\ pc[p] \in {"notify", "start", "read", "load"}
              => bNeedFlush' \/ bNoSave \/ l \in {"start", "read", "load"} \/ pc[Main] # "serving"
    PROVE  LagIsScheduled'
<1>1. pc \in [Procs -> ClientPCs \cup MainPCs \cup TimerPCs \cup ResetPCs]
  BY DEF TypeOK, LabelsOK
<1>2. SUFFICES ASSUME pc'[Main] = "serving", pc'[Reset] = "off", ~bNoSave, FileValue # mem
               PROVE  Scheduled'
  BY DEF LagIsScheduled, At, Scheduled
<1>3. pc[Main] = "serving" /\ pc[Reset] = "off"
  BY <1>1, <1>2, Threads DEF Goto
<1>4. Scheduled
  BY <1>2, <1>3 DEF LagIsScheduled, At, Scheduled
<1>5. CASE bNeedFlush
  BY <1>5 DEF Scheduled
<1>6. ASSUME NEW c \in Clients, pc[c] \in {"notify", "start", "read", "load"}
      PROVE  Scheduled'
  BY <1>1, <1>2, <1>3, <1>6, Threads DEF Goto, Scheduled
<1> QED BY <1>4, <1>5, <1>6 DEF Scheduled

LEMMA LagIsScheduledStep ==
    ASSUME TypeOK, LocksExclude, StartsAlone, QuietBefore, FlushStores, FlushStores',
           StartFollows, FlashSuspends, LagIsScheduled, Reliable, Next
    PROVE  LagIsScheduled'
<1> USE DEF Step, At
<1>0. pc \in [Procs -> ClientPCs \cup MainPCs \cup TimerPCs \cup ResetPCs]
  BY DEF TypeOK, LabelsOK
<1>1. ASSUME NEW c \in Clients, LoadSetting(c) \/ SysRamNotify(c) PROVE LagIsScheduled'
  <2>1. UNCHANGED <<pc[Main], pc[Reset], bNoSave>> /\ Notified
    BY <1>0, <1>1, Threads DEF LoadSetting, SysRamNotify, Goto
  <2>2. ~bNoSave /\ pc[Main] = "serving" => bNeedFlush'
    BY <1>1, <2>1, NotifiedSchedules DEF LoadSetting, SysRamNotify
  <2> QED BY <2>1, <2>2 DEF LagIsScheduled
<1>2. ASSUME LoadSetting(Main) \/ Engage \/ Term \/ ReadCurConfig(Main) \/ FlashBegin(Main)
             \/ FlashLock(Main) \/ FlashDone(Main)
      PROVE  LagIsScheduled'
  <2>1. pc'[Main] # "serving"
    BY <1>0, <1>2, Threads DEF LoadSetting, Engage, Term, ReadCurConfig, FlashBegin, FlashLock,
       FlashDone, Goto
  <2> QED BY <2>1 DEF LagIsScheduled
<1>3. ASSUME NEW c \in Clients, ReadCurConfig(c) PROVE LagIsScheduled'
  <2>1. UNCHANGED <<mem, FileValue, bNoSave, bNeedFlush>>
    BY <1>3, ReadBackKeeps DEF ReadCurConfig, TypeOK, flags
  <2> QED BY <1>3, <2>1, LagKept, Threads DEF ReadCurConfig
<1>4. ASSUME NEW p \in Savers, Encode(p) PROVE LagIsScheduled'
  <2>1. UNCHANGED <<mem, FileValue, bNoSave, bNeedFlush>>
    BY <1>4, FilesKept DEF Encode, flags, files
  <2> QED BY <1>4, <2>1, LagKept, Threads DEF Encode
<1>5. CASE SaveCurConfig(Timer)
  <2>1. pc'[Timer] = "saved"
    BY <1>0, <1>5, Threads DEF SaveCurConfig, Goto
  <2> QED BY <2>1 DEF FlushStores, LagIsScheduled
<1>6. ASSUME NEW p \in Loaders, SaveCurConfig(p) PROVE LagIsScheduled'
  <2>1. bNoSave' \/ pc'[Main] # "serving"
    BY <1>0, <1>6, Threads DEF SaveCurConfig, Goto, FlashSuspends, FlashPCs, SavePCs, flags
  <2> QED BY <2>1 DEF LagIsScheduled
<1>7. ASSUME NEW c \in Clients, FlashDone(c) \/ FlashBegin(c) PROVE LagIsScheduled'
  <2>1. bNoSave'
    BY <1>7 DEF FlashDone, FlashBegin, FlashSuspends, FlashPCs, SavePCs
  <2> QED BY <2>1 DEF LagIsScheduled
<1>8. CASE TimerDone
  <2>1. UNCHANGED <<pc[Main], pc[Reset], mem, FileValue>>
    BY <1>0, <1>8, FilesKept, Threads DEF TimerDone, Goto, files
  <2> QED BY <1>8, <2>1 DEF TimerDone, FlushStores, LagIsScheduled
<1>9. CASE TimerFires \/ TimerSaves \/ TimerSkips
  <2>1. UNCHANGED <<mem, FileValue, bNoSave, bNeedFlush>> /\ \E l : Goto(Timer, l)
    BY <1>9, FilesKept DEF TimerFires, TimerSaves, TimerSkips, flags, files
  <2> QED BY <2>1, LagKept, Threads
<1>10. CASE Engaged
  <2>1. mem = FileValue /\ UNCHANGED <<mem, FileValue>>
    BY <1>10, FilesKept DEF Engaged, StartFollows, files
  <2> QED BY <2>1 DEF LagIsScheduled
<1>11. ASSUME NEW c \in Clients, \/ \E v \in Settings : ChangeRecord(c, v)
                                 \/ ReloadResumes(c) \/ ReloadStarts(c)
       PROVE  LagIsScheduled'
  <2>1. pc'[c] \in {"notify", "start", "read"}
    BY <1>0, <1>11, Threads DEF ChangeRecord, ReloadResumes, ReloadStarts, Goto
  <2> QED BY <2>1 DEF LagIsScheduled
<1>12. ASSUME NEW c \in Clients,
              \/ HandlerBegins(c) \/ GetBegins(c) \/ GetFails(c) \/ GetReturns(c) \/ HandlerReturns(c)
              \/ Reload(c) \/ FlashLock(c)
              \/ \E b \in BOOLEAN : DisableWriting(c, b) \/ EnableFileSync(c, b)
       PROVE  LagIsScheduled'
  <2>1. UNCHANGED <<mem, FileValue, bNoSave, bNeedFlush>>
    BY <1>12, FilesKept DEF HandlerBegins, GetBegins, GetFails, GetReturns, HandlerReturns, Reload,
       FlashLock, DisableWriting, EnableFileSync, flags, files
  <2>2. pc[c] \notin {"notify", "start", "read", "load"} /\ \E l : Goto(c, l)
    BY <1>12 DEF HandlerBegins, GetBegins, GetFails, GetReturns, HandlerReturns, Reload,
       FlashLock, DisableWriting, EnableFileSync
  <2> QED BY <2>1, <2>2, LagKept, Threads
<1>13. CASE \/ ResetBegin \/ ResetStop \/ UnlinkCur \/ UnlinkBak
            \/ \E c \in Clients : SpawnReset(c)
  <2>1. pc'[Reset] # "off"
    BY <1>0, <1>13, Threads DEF ResetBegin, ResetStop, UnlinkCur, UnlinkBak, SpawnReset, Goto
  <2> QED BY <2>1 DEF LagIsScheduled
<1>14. CASE DelayPasses
  BY <1>14, FilesKept DEF DelayPasses, files, LagIsScheduled
<1>15. CASE Exit \/ Die \/ PowerLoss
  BY <1>15, GoneState DEF Exit, Die, PowerLoss, LagIsScheduled
<1>16. \A p : ~ReadCurConfigFails(p)
  BY DEF Reliable, ReadCurConfigFails
<1> QED BY <1>1, <1>2, <1>3, <1>4, <1>5, <1>6, <1>7, <1>8, <1>9, <1>10, <1>11, <1>12, <1>13, <1>14,
           <1>15, <1>16, NextActions DEF Loaders, Savers

-----------------------------------------------------------------------------
(* SIGTERM                                                                 *)

TermPCs == {"flash", "flash_lock", "exit"} \cup SavePCs

\* From the signal to the exit, the tree has a setting that may be left
\* behind; so has what the main thread writes, and what anybody writes after
\* it.
Owes ==
    serving /\ pc[Main] \in TermPCs =>
        /\ mem \in owed
        /\ pc[Main] = "write" => snap[Main] \in owed
        /\ pc[Main] = "exit" => \A p \in Procs : pc[p] = "write" => snap[p] \in owed
        /\ pc[Main] \in {"saved", "exit"} /\ pc[Reset] = "off" => FileValue \in owed

\* When the main thread saves or has saved, nobody else is half way.
LEMMA MainSavesAlone ==
    ASSUME LocksExclude, pc[Main] \in SavePCs, NEW p \in Procs, p # Main
    PROVE  pc[p] \notin SavePCs
BY Threads, OneSaves

LEMMA OwesStep ==
    ASSUME TypeOK, LocksExclude, StartsAlone, QuietBefore, FileThere, NoAbsence, Owes, Reliable, Next
    PROVE  Owes'
<1> USE DEF Step, At, TermPCs, SavePCs
<1>0. /\ pc \in [Procs -> ClientPCs \cup MainPCs \cup TimerPCs \cup ResetPCs]
      /\ snap \in [Procs -> Settings]
  BY DEF TypeOK, LabelsOK, SettingsOK
<1>1. CASE Silent
  BY <1>0, <1>1, FilesKept, Threads DEF Silent, Aside, Goto, Owes
<1>2. ASSUME NEW p \in Loaders, ReadCurConfig(p) PROVE Owes'
  <2>1. UNCHANGED FileValue
    BY <1>2, ReadBackKeeps DEF ReadCurConfig, TypeOK
  <2> QED BY <1>0, <1>2, <2>1, Threads DEF ReadCurConfig, Goto, Owes
<1>3. ASSUME NEW p \in Loaders, LoadSetting(p) PROVE Owes'
  BY <1>0, <1>3, FilesKept, Threads DEF LoadSetting, BufferFreed, Goto, Owes, files
<1>4. ASSUME NEW p \in Loaders, FlashDone(p) PROVE Owes'
  <2>1. p = Main => \A q \in Procs : q # Main => pc[q] # "write"
    BY <1>4, MainSavesAlone DEF FlashDone
  <2> QED BY <1>0, <1>4, <2>1, FilesKept, Threads DEF FlashDone, BufferFreed, Goto, Owes, files
<1>5. ASSUME NEW p \in Savers, Encode(p) PROVE Owes'
  BY <1>0, <1>5, FilesKept, Threads DEF Encode, Goto, Owes, files
<1>6. ASSUME NEW p \in Savers, SaveCurConfig(p) PROVE Owes'
  <2>1. serving' = serving /\ mem' = mem /\ owed' = owed /\ snap' = snap /\ pc'[Reset] = pc[Reset]
    BY <1>0, <1>6, Threads DEF SaveCurConfig, Goto
  <2>2. serving /\ pc[Reset] = "off" => FileValue' = snap[p]
    BY <1>6, SaveStores
  <2>3. pc'[Main] = "saved" => p = Main
    BY <1>0, <1>6, Threads, MainSavesAlone DEF SaveCurConfig, Goto
  <2> QED BY <1>0, <1>6, <2>1, <2>2, <2>3, Threads DEF SaveCurConfig, Goto, Owes
<1>7. CASE Term
  BY <1>0, <1>7, Threads DEF Term, Goto, Owes
<1>8. CASE Engaged \/ TimerDone
  <2>1. CASE Engaged
    BY <1>0, <2>1, Threads DEF Engaged, Goto, Owes
  <2>2. CASE TimerDone
    <3>1. UNCHANGED <<mem, FileValue, owed, serving>>
      BY <2>2, FilesKept DEF TimerDone, files
    <3>2. \A p \in Procs : p # Timer => pc'[p] = pc[p] /\ snap'[p] = snap[p]
      BY <1>0, <2>2, Threads DEF TimerDone, BufferFreed, Goto
    <3>3. pc'[Timer] = "idle"
      BY <1>0, <2>2, Threads DEF TimerDone, Goto
    <3> QED BY <3>1, <3>2, <3>3, Threads DEF Owes
  <2> QED BY <1>8, <2>1, <2>2
<1>9. ASSUME NEW c \in Clients, NEW v \in Settings, ChangeRecord(c, v) PROVE Owes'
  BY <1>0, <1>9, FilesKept, Threads DEF ChangeRecord, Goto, Owes, files
<1>10. CASE UnlinkCur \/ UnlinkBak
  <2>1. UNCHANGED <<mem, snap, owed, serving>>
    BY <1>10 DEF UnlinkCur, UnlinkBak
  <2>2. \A p \in Procs : p # Reset => pc'[p] = pc[p]
    BY <1>0, <1>10, Threads DEF UnlinkCur, UnlinkBak, Goto
  <2>3. pc'[Reset] \notin {"off", "write"}
    BY <1>0, <1>10, Threads DEF UnlinkCur, UnlinkBak, Goto
  <2> QED BY <2>1, <2>2, <2>3, Threads DEF Owes
<1>11. CASE Exit \/ Die \/ PowerLoss
  BY <1>11, GoneState DEF Exit, Die, PowerLoss, Owes
<1> QED BY <1>1, <1>2, <1>3, <1>4, <1>5, <1>6, <1>7, <1>8, <1>9, <1>10, <1>11, DataActions

-----------------------------------------------------------------------------
(* The theorems                                                            *)

FlushInv ==
    /\ LocksExclude /\ StartsAlone /\ TimerSavesTheTree
    /\ QuietBefore /\ FileThere /\ NoAbsence /\ FlushStores
    /\ StartFollows /\ FlashSuspends /\ LagIsScheduled /\ Owes

LEMMA FlushInit == Init => FlushInv
<1> SUFFICES ASSUME Init PROVE FlushInv
  OBVIOUS
<1>1. /\ pc[Main] = "off" /\ pc[Timer] = "idle" /\ pc[Reset] = "off"
      /\ \A c \in Clients : pc[c] = "idle"
      /\ \A p \in Procs : pc[p] \in {"off", "idle"}
      /\ ~serving /\ ~bNeedFlush /\ mem = Absent
  BY Threads DEF Init
<1>2. LocksExclude /\ StartsAlone
  BY LocksInit, AloneInit
<1>3. TimerSavesTheTree /\ QuietBefore /\ FileThere /\ NoAbsence /\ FlushStores
  BY <1>1 DEF TimerSavesTheTree, QuietBefore, FileThere, NoAbsence, FlushStores, At
<1>4. StartFollows /\ FlashSuspends /\ LagIsScheduled /\ Owes
  BY <1>1 DEF StartFollows, FlashSuspends, FlashPCs, SavePCs, LagIsScheduled, Owes, TermPCs, At
<1> QED BY <1>2, <1>3, <1>4 DEF FlushInv

LEMMA FlushNext ==
    ASSUME Reliable, TypeOK, FlushInv, [Next]_vars
    PROVE  FlushInv'
<1> USE DEF FlushInv
<1>1. CASE Next
  <2>1. LocksExclude' /\ StartsAlone' /\ TimerSavesTheTree'
    BY <1>1, ExclusionStep, AloneStep, TimerSavesTheTreeStep DEF Reliable
  <2>2. QuietBefore' /\ FileThere' /\ NoAbsence' /\ FlushStores'
    BY <1>1, QuietBeforeStep, FileThereStep, NoAbsenceStep, FlushStoresStep
  <2>3. StartFollows' /\ FlashSuspends'
    BY <1>1, StartFollowsStep, FlashSuspendsStep
  <2>4. LagIsScheduled' /\ Owes'
    BY <1>1, <2>2, LagIsScheduledStep, OwesStep
  <2> QED BY <2>1, <2>2, <2>3, <2>4
<1>2. CASE UNCHANGED vars
  <2>1. UNCHANGED <<mem, cur, bak, AccessLock, ThreadLock, bNoSave, bNeedFlush, bSaveInProgress,
                    serving, pc, snap, owed>>
    BY <1>2 DEF vars, files, locks, flags
  <2>2. LocksExclude' /\ StartsAlone' /\ TimerSavesTheTree'
    BY <2>1 DEF LocksExclude, AccessLockHeld, ThreadLockHeld, SaveFlagExact, StartsAlone, TimerSavesTheTree
  <2>3. QuietBefore' /\ FileThere' /\ NoAbsence' /\ FlushStores'
    BY <2>1, FilesKept DEF QuietBefore, FileThere, NoAbsence, FlushStores, At
  <2>4. StartFollows' /\ FlashSuspends' /\ LagIsScheduled' /\ Owes'
    BY <2>1, FilesKept DEF StartFollows, FlashSuspends, LagIsScheduled, Owes, At
  <2> QED BY <2>2, <2>3, <2>4
<1> QED BY <1>1, <1>2

LEMMA FlushInvariant == ASSUME Reliable PROVE Spec => []FlushInv
<1>1. TypeOK /\ FlushInv /\ [Next]_vars => FlushInv'
  BY FlushNext
<1> QED BY <1>1, FlushInit, TypeCorrect, PTL DEF Spec

\* When RegTimerInvoke clears bNeedFlush, a restart would load exactly the
\* tree: not an older one, in either build.
THEOREM FlushesStore == ASSUME Reliable PROVE Spec => []FlushStores
<1>1. FlushInv => FlushStores
  BY DEF FlushInv
<1> QED BY <1>1, FlushInvariant, PTL

\* However handlers, reloads, the timer and its failures to find the count at
\* zero are interleaved, a change that is not in the files is flagged, or
\* about to be.
THEOREM LagScheduled == ASSUME Reliable PROVE Spec => []LagIsScheduled
<1>1. FlushInv => LagIsScheduled
  BY DEF FlushInv
<1> QED BY <1>1, FlushInvariant, PTL

\* "So settings aren't lost" (the SIGTERM case of sig_handler): what a serving
\* PSM had in its tree when the signal came, or got later, is in the files
\* when it exits, although handlers go on changing and reloading meanwhile.
THEOREM TermSaves == ASSUME Reliable PROVE Spec => []TermSavesSettings
<1>1. FlushInv => TermSavesSettings
  BY DEF FlushInv, Owes, TermPCs, TermSavesSettings, At
<1> QED BY <1>1, FlushInvariant, PTL

-----------------------------------------------------------------------------
(* The write-back store: what else has to hold between the labels for every *)
(* step to be one of WriteBack                                             *)

\* A handler that reloads has in the files, and then in its buffer, what is in
\* the tree, which nobody changes meanwhile; if the main thread saves
\* then, it saves the same.
ReloadFollows ==
    \A c \in Clients :
        /\ pc[c] = "write" => snap[c] = mem
        /\ pc[Reset] = "off" =>
            /\ pc[c] \in {"saved", "resume", "start", "read"} => FileValue = mem
            /\ pc[c] = "load" => snap[c] = mem
            /\ pc[c] \in {"resume", "start", "read", "load"} /\ pc[Main] = "write" => snap[Main] = mem

\* Of two handlers, one has nothing to reload.
LEMMA OthersIdle ==
    ASSUME LocksExclude, NEW c \in Clients, pc[c] \notin {"idle", "get_exit"}
    PROVE  /\ \A d \in Clients : d # c => pc[d] \in {"idle", "get_exit"}
           /\ pc[Timer] \notin SavePCs
BY Threads, OneHandles DEF LocksExclude, ThreadLockHeld, WithThreadLock

LEMMA ReloadFollowsStep ==
    ASSUME TypeOK, LocksExclude, StartsAlone, QuietBefore, FileThere, NoAbsence, ReloadFollows,
           Reliable, Next
    PROVE  ReloadFollows'
<1> USE DEF Step, At
<1>0. /\ pc \in [Procs -> ClientPCs \cup MainPCs \cup TimerPCs \cup ResetPCs]
      /\ snap \in [Procs -> Settings]
  BY DEF TypeOK, LabelsOK, SettingsOK
<1>1. CASE Silent
  BY <1>0, <1>1, FilesKept, Threads DEF Silent, Aside, Goto, ReloadFollows
<1>2. ASSUME NEW p \in Loaders, ReadCurConfig(p) PROVE ReloadFollows'
  <2>1. UNCHANGED <<FileValue, mem>> /\ snap' = [snap EXCEPT ![p] = FileValue]
    BY <1>2, ReadBackKeeps DEF ReadCurConfig, TypeOK
  <2> QED BY <1>0, <1>2, <2>1, Threads DEF ReadCurConfig, Goto, ReloadFollows
<1>3. ASSUME NEW c \in Clients, LoadSetting(c) PROVE ReloadFollows'
  <2>1. \A d \in Clients : d # c => pc[d] \in {"idle", "get_exit"}
    BY <1>3, OthersIdle DEF LoadSetting
  <2>2. \A d \in Clients : pc'[d] \in {"idle", "get_exit", "param"}
    BY <1>0, <1>3, <2>1, Threads DEF LoadSetting, Goto
  <2> QED BY <2>2 DEF ReloadFollows
<1>4. CASE LoadSetting(Main) \/ Engaged
  <2>1. \A d \in Clients : pc'[d] = "idle"
    BY <1>0, <1>4, Threads DEF LoadSetting, Engaged, Goto, StartsAlone, StartPCs
  <2> QED BY <2>1 DEF ReloadFollows
<1>5. ASSUME NEW p \in Loaders, FlashDone(p) PROVE ReloadFollows'
  <2>1. \A q \in Procs : q # p => pc[q] \notin SavePCs
    BY <1>5, OneSaves, Threads DEF FlashDone, SavePCs
  <2>2. UNCHANGED <<FileValue, mem>>
    BY <1>5, FilesKept DEF FlashDone, files
  <2>3. \A q \in Procs : q # p => pc'[q] = pc[q] /\ snap'[q] = snap[q]
    BY <1>0, <1>5, Threads DEF FlashDone, BufferFreed, Goto
  <2>4. pc[p] = "saved" /\ pc'[p] \in {"resume", "exit"}
    BY <1>0, <1>5, Threads DEF FlashDone, Goto
  <2> QED BY <2>1, <2>2, <2>3, <2>4, Threads DEF ReloadFollows, SavePCs
<1>6. ASSUME NEW p \in Savers, Encode(p) PROVE ReloadFollows'
  BY <1>0, <1>6, FilesKept, Threads DEF Encode, Goto, ReloadFollows, files
<1>7. ASSUME NEW c \in Clients, SaveCurConfig(c) PROVE ReloadFollows'
  <2>1. serving /\ snap[c] = mem
    BY <1>7 DEF SaveCurConfig, QuietBefore, ReloadFollows
  <2>2. pc[Reset] = "off" => FileValue' = mem
    BY <1>7, <2>1, SaveStores DEF Savers
  <2>3. \A d \in Clients : d # c => pc[d] \in {"idle", "get_exit"}
    BY <1>7, OthersIdle DEF SaveCurConfig
  <2>4. UNCHANGED mem /\ pc'[c] = "saved" /\ \A q \in Procs : q # c => pc'[q] = pc[q]
    BY <1>0, <1>7, Threads DEF SaveCurConfig, Goto
  <2> QED BY <2>2, <2>3, <2>4, Threads DEF ReloadFollows
<1>8. CASE SaveCurConfig(Main)
  <2>1. pc[Main] = "write" /\ UNCHANGED <<mem, snap>>
    BY <1>8 DEF SaveCurConfig
  <2>2. \A q \in Procs : q # Main => pc'[q] = pc[q] /\ pc[q] \notin SavePCs
    BY <1>0, <1>8, OneSaves, Threads DEF SaveCurConfig, Goto, SavePCs
  <2>3. pc'[Main] = "saved"
    BY <1>0, <1>8, Threads DEF SaveCurConfig, Goto
  <2>4. serving /\ pc[Reset] = "off" => FileValue' = snap[Main]
    BY <1>8, SaveStores DEF Savers
  <2>5. \A c \in Clients : pc[c] # "idle" => serving
    BY DEF QuietBefore
  <2> QED BY <2>1, <2>2, <2>3, <2>4, <2>5, Threads DEF ReloadFollows, SavePCs
<1>9. CASE SaveCurConfig(Timer) \/ TimerDone
  <2>1. \A d \in Clients : pc[d] \in {"idle", "get_exit"}
    BY <1>9, OthersIdle DEF SaveCurConfig, TimerDone, SavePCs
  <2>2. \A d \in Clients : pc'[d] \in {"idle", "get_exit"}
    BY <1>0, <1>9, <2>1, Threads DEF SaveCurConfig, TimerDone, Goto
  <2> QED BY <2>2 DEF ReloadFollows
<1>10. CASE Term
  BY <1>0, <1>10, FilesKept, Threads DEF Term, Goto, ReloadFollows, files
<1>11. ASSUME NEW c \in Clients, NEW v \in Settings, ChangeRecord(c, v) PROVE ReloadFollows'
  <2>1. \A d \in Clients : d # c => pc[d] \in {"idle", "get_exit"}
    BY <1>11, OthersIdle DEF ChangeRecord
  <2>2. \A d \in Clients : pc'[d] \in {"idle", "get_exit", "notify"}
    BY <1>0, <1>11, <2>1, Threads DEF ChangeRecord, Goto
  <2> QED BY <2>2 DEF ReloadFollows
<1>12. CASE UnlinkCur \/ UnlinkBak
  <2>1. UNCHANGED <<mem, snap>> /\ pc'[Reset] # "off" /\ \A q \in Procs : q # Reset => pc'[q] = pc[q]
    BY <1>0, <1>12, Threads DEF UnlinkCur, UnlinkBak, Goto
  <2> QED BY <2>1, Threads DEF ReloadFollows
<1>13. CASE Exit \/ Die \/ PowerLoss
  BY <1>13, GoneState DEF Exit, Die, PowerLoss, ReloadFollows
<1> QED BY <1>1, <1>2, <1>3, <1>4, <1>5, <1>6, <1>7, <1>8, <1>9, <1>10, <1>11, <1>12, <1>13, DataActions
        DEF Loaders, Savers

\* The HAL build reads and writes both files, so that they differ only when a
\* reset came in between.
Paired ==
    Hal /\ (serving \/ pc[Main] \in {"load", "loaded"}) /\ pc[Reset] = "off" => bak = cur

LEMMA PairedStep ==
    ASSUME TypeOK, QuietBefore, Paired, Reliable, Next
    PROVE  Paired'
<1> USE DEF Step, At
<1>0. pc \in [Procs -> ClientPCs \cup MainPCs \cup TimerPCs \cup ResetPCs]
  BY DEF TypeOK, LabelsOK
<1>1. CASE Silent
  BY <1>0, <1>1, Threads DEF Silent, Aside, Goto, Paired
<1>2. ASSUME NEW p \in Loaders, ReadCurConfig(p) PROVE Paired'
  BY <1>2 DEF ReadCurConfig, ReadBack, Paired
<1>3. ASSUME NEW p \in Loaders, LoadSetting(p) \/ FlashDone(p) PROVE Paired'
  BY <1>0, <1>3, Threads DEF LoadSetting, FlashDone, Goto, Paired, files
<1>4. ASSUME NEW p \in Savers, Encode(p) PROVE Paired'
  BY <1>0, <1>4, Threads DEF Encode, Goto, Paired, files
<1>5. ASSUME NEW p \in Savers, SaveCurConfig(p) PROVE Paired'
  <2>1. Hal => cur' = bak'
    BY <1>5 DEF SaveCurConfig, CanSave, Saved, Reliable
  <2> QED BY <2>1 DEF Paired
<1>6. CASE Engaged \/ TimerDone \/ Term
  BY <1>0, <1>6, Threads DEF Engaged, TimerDone, Term, Goto, Paired, files
<1>7. ASSUME NEW c \in Clients, NEW v \in Settings, ChangeRecord(c, v) PROVE Paired'
  BY <1>0, <1>7, Threads DEF ChangeRecord, Goto, Paired, files
<1>8. CASE UnlinkCur \/ UnlinkBak
  BY <1>0, <1>8, Threads DEF UnlinkCur, UnlinkBak, Goto, Paired
<1>9. CASE Exit \/ Die \/ PowerLoss
  BY <1>9, GoneState DEF Exit, Die, PowerLoss, Paired
<1> QED BY <1>1, <1>2, <1>3, <1>4, <1>5, <1>6, <1>7, <1>8, <1>9, DataActions

\* The life of the process: the main thread serves when PSM does, nothing is
\* owed before a signal, and the save of a start that was broken off writes the
\* tree.
LivesOn ==
    /\ pc[Main] = "serving" => serving
    /\ pc[Main] \in StartPCs \cup {"serving"} => owed = {}
    /\ ~serving /\ pc[Main] = "write" => snap[Main] = mem

LEMMA LivesOnStep ==
    ASSUME TypeOK, LocksExclude, StartsAlone, QuietBefore, LivesOn, Reliable, Next
    PROVE  LivesOn'
<1> USE DEF Step, At, StartPCs
<1>0. /\ pc \in [Procs -> ClientPCs \cup MainPCs \cup TimerPCs \cup ResetPCs]
      /\ snap \in [Procs -> Settings]
  BY DEF TypeOK, LabelsOK, SettingsOK
<1>1. CASE Silent
  BY <1>0, <1>1, Threads DEF Silent, Aside, Goto, LivesOn
<1>2. ASSUME NEW p \in Loaders, ReadCurConfig(p) PROVE LivesOn'
  BY <1>0, <1>2, Threads DEF ReadCurConfig, Goto, LivesOn
<1>3. ASSUME NEW p \in Loaders, LoadSetting(p) PROVE LivesOn'
  <2>1. p # Main => serving
    BY <1>3, Threads DEF LoadSetting, QuietBefore
  <2> QED BY <1>0, <1>3, <2>1, Threads DEF LoadSetting, BufferFreed, Goto, LivesOn
<1>4. ASSUME NEW p \in Loaders, FlashDone(p) PROVE LivesOn'
  BY <1>0, <1>4, Threads DEF FlashDone, BufferFreed, Goto, LivesOn
<1>5. ASSUME NEW p \in Savers, Encode(p) \/ SaveCurConfig(p) PROVE LivesOn'
  BY <1>0, <1>5, Threads DEF Encode, SaveCurConfig, Goto, LivesOn
<1>6. CASE Engaged \/ TimerDone \/ Term
  BY <1>0, <1>6, Threads DEF Engaged, TimerDone, BufferFreed, Term, Goto, LivesOn
<1>7. ASSUME NEW c \in Clients, NEW v \in Settings, ChangeRecord(c, v) PROVE LivesOn'
  <2>1. serving
    BY <1>7 DEF ChangeRecord, QuietBefore
  <2> QED BY <1>0, <1>7, <2>1, Threads DEF ChangeRecord, Goto, LivesOn
<1>8. CASE UnlinkCur \/ UnlinkBak
  BY <1>0, <1>8, Threads DEF UnlinkCur, UnlinkBak, Goto, LivesOn
<1>9. CASE Exit \/ Die \/ PowerLoss
  BY <1>9, GoneState DEF Exit, Die, PowerLoss, Gone, LivesOn
<1> QED BY <1>1, <1>2, <1>3, <1>4, <1>5, <1>6, <1>7, <1>8, <1>9, DataActions

\* All this together, beside FlushInv.
StoreInv == ReloadFollows /\ Paired /\ LivesOn

LEMMA StoreInvInit == Init => StoreInv
<1> SUFFICES ASSUME Init PROVE StoreInv
  OBVIOUS
<1>1. /\ pc[Main] = "off" /\ ~serving /\ owed = {} /\ \A c \in Clients : pc[c] = "idle"
  BY Threads DEF Init
<1> QED BY <1>1 DEF StoreInv, ReloadFollows, Paired, LivesOn, StartPCs

LEMMA StoreInvNext ==
    ASSUME Reliable, TypeOK, FlushInv, StoreInv, [Next]_vars
    PROVE  StoreInv'
<1> USE DEF FlushInv, StoreInv
<1>1. CASE Next
  BY <1>1, ReloadFollowsStep, PairedStep, LivesOnStep
<1>2. CASE UNCHANGED vars
  <2>1. UNCHANGED <<mem, cur, bak, serving, pc, snap, owed>>
    BY <1>2 DEF vars, files
  <2> QED BY <2>1, FilesKept DEF ReloadFollows, Paired, LivesOn
<1> QED BY <1>1, <1>2

-----------------------------------------------------------------------------
(* The steps of WriteBack                                                  *)

\* What the mapping of WriteBack looks at, when a thread moves and changes
\* neither the setting nor what a start would load.
Sees == <<mem, FileValue, Changing, Life, Since, Unsettled>>

LEMMA StoreStutters ==
    ASSUME TypeOK, NEW p \in Procs, NEW l, Goto(p, l), p # Reset,
           UNCHANGED <<mem, FileValue, Since, serving, Unpaired>>,
           p = Main => UNCHANGED Life,
           p \in Clients => pc[p] # "notify" /\ l # "notify"
    PROVE  UNCHANGED Sees
<1>0. pc \in [Procs -> ClientPCs \cup MainPCs \cup TimerPCs \cup ResetPCs]
  BY DEF TypeOK, LabelsOK
<1>1. UNCHANGED Changing
  BY <1>0, Threads DEF Changing, At, Goto
<1>2. p # Main => UNCHANGED Life
  BY <1>0, Threads DEF Life, At, Goto
<1>3. UNCHANGED Unsettled
  BY <1>0, Threads DEF Unsettled, At, Goto
<1> QED BY <1>1, <1>2, <1>3 DEF Sees

LEMMA SeesStutter == UNCHANGED Sees => UNCHANGED W!vars
BY DEF Sees, W!vars

LEMMA UnpairedKept == UNCHANGED <<cur, bak>> => UNCHANGED Unpaired
BY DEF Unpaired

LEMMA SinceKept == UNCHANGED <<serving, owed>> => UNCHANGED Since
BY DEF Since

\* The steps of which a client sees nothing, as long as no reset is about.
LEMMA HiddenSteps ==
    ASSUME TypeOK,
           \/ TimerFires \/ TimerSaves \/ TimerSkips \/ TimerDone \/ DelayPasses
           \/ \E p \in Loaders : FlashBegin(p) \/ FlashLock(p) \/ FlashDone(p)
           \/ \E p \in Savers : Encode(p)
           \/ \E c \in Clients : HandlerBegins(c) \/ GetBegins(c) \/ GetFails(c) \/ GetReturns(c)
                                 \/ HandlerReturns(c) \/ Reload(c) \/ ReloadResumes(c) \/ ReloadStarts(c)
           \/ \E c \in Clients, b \in BOOLEAN : DisableWriting(c, b) \/ EnableFileSync(c, b)
    PROVE  UNCHANGED Sees
<1> USE DEF Step, At
<1>0. pc \in [Procs -> ClientPCs \cup MainPCs \cup TimerPCs \cup ResetPCs]
  BY DEF TypeOK, LabelsOK
<1>1. UNCHANGED <<mem, cur, bak, serving, owed>>
  BY Zenon DEF TimerFires, TimerSaves, TimerSkips, TimerDone, DelayPasses, FlashBegin, FlashLock, FlashDone, Encode,
     HandlerBegins, GetBegins, GetFails, GetReturns, HandlerReturns, Reload, ReloadResumes, ReloadStarts,
     DisableWriting, EnableFileSync, files
<1>2. UNCHANGED <<FileValue, Since, Unpaired>>
  BY <1>1, FilesKept, UnpairedKept, SinceKept
<1>3. CASE DelayPasses
  BY <1>1, <1>2, <1>3 DEF DelayPasses, Sees, Changing, Life, Unsettled
<1>4. CASE TimerFires \/ TimerSaves \/ TimerSkips \/ TimerDone
  <2>1. \E l : Goto(Timer, l)
    BY <1>4 DEF TimerFires, TimerSaves, TimerSkips, TimerDone
  <2> QED BY <1>1, <1>2, <2>1, StoreStutters, Threads
<1>5. ASSUME NEW p \in Savers, Encode(p) \/ (p # Timer /\ (FlashBegin(p) \/ FlashLock(p) \/ FlashDone(p)))
      PROVE  UNCHANGED Sees
  <2>1. \E l : Goto(p, l) /\ l # "notify"
    BY <1>5 DEF Encode, FlashBegin, FlashLock, FlashDone
  <2>2. pc[p] # "notify" /\ p \in Procs /\ p # Reset
    BY <1>5, Threads DEF Encode, FlashBegin, FlashLock, FlashDone
  <2>3. p = Main => UNCHANGED Life
    BY <1>0, <1>1, <1>5, Threads DEF Encode, FlashBegin, FlashLock, FlashDone, Goto, Life
  <2> QED BY <1>1, <1>2, <2>1, <2>2, <2>3, StoreStutters
<1>6. ASSUME NEW c \in Clients,
             \/ HandlerBegins(c) \/ GetBegins(c) \/ GetFails(c) \/ GetReturns(c) \/ HandlerReturns(c)
             \/ Reload(c) \/ ReloadResumes(c) \/ ReloadStarts(c)
             \/ \E b \in BOOLEAN : DisableWriting(c, b) \/ EnableFileSync(c, b)
      PROVE  UNCHANGED Sees
  <2>1. pc[c] # "notify" /\ \E l : Goto(c, l) /\ l # "notify"
    BY <1>6 DEF HandlerBegins, GetBegins, GetFails, GetReturns, HandlerReturns, Reload, ReloadResumes,
       ReloadStarts, DisableWriting, EnableFileSync
  <2> QED BY <1>1, <1>2, <2>1, StoreStutters, Threads
<1> QED BY <1>3, <1>4, <1>5, <1>6, Threads DEF Loaders, Savers

\* A client is served exactly while PSM serves or closes.
LEMMA ServesWhen ==
    ASSUME TypeOK, StartsAlone, LivesOn
    PROVE  /\ Life \in W!Lives
           /\ serving <=> Life \in {"serving", "closing"}
           /\ serving => (Life = "closing" <=> pc[Main] # "serving")
           /\ pc[Main] = "off" <=> Life = "down"
           /\ pc[Main] \in {"read", "load", "loaded"} <=> Life = "starting"
BY DEF StartsAlone, StartPCs, LivesOn, Life, At, W!Lives

\* A start.
LEMMA StartSteps ==
    ASSUME TypeOK, StartsAlone, QuietBefore, StartFollows, LivesOn, ~Unsettled,
           Engage \/ LoadSetting(Main) \/ Engaged
    PROVE  W!Next
<1> USE DEF Step, At
<1>0. /\ pc \in [Procs -> ClientPCs \cup MainPCs \cup TimerPCs \cup ResetPCs]
      /\ \A p \in Procs : p # Main => pc'[p] = pc[p]
  BY Threads DEF TypeOK, LabelsOK, Engage, LoadSetting, Engaged, Goto
<1>1. UNCHANGED <<cur, bak>>
  BY DEF Engage, LoadSetting, Engaged, files
<1>2. UNCHANGED <<FileValue, Unpaired, Changing, Unsettled>>
  BY <1>0, <1>1, FilesKept, UnpairedKept, Threads DEF Changing, Unsettled
<1>3. ~serving /\ owed = {} /\ owed' = {} /\ UNCHANGED Since
  BY DEF Engage, LoadSetting, Engaged, StartsAlone, StartPCs, LivesOn, Since
<1>4. CASE Engage
  <2>1. Life = "down" /\ Life' = "starting" /\ UNCHANGED mem
    BY <1>0, <1>4, Threads DEF Engage, Goto, Life
  <2> QED BY <1>2, <1>3, <2>1 DEF W!Next, W!Settled, W!Begin, W!Becomes
<1>5. CASE LoadSetting(Main)
  <2>1. Life = "starting" /\ Life' = "starting"
    BY <1>0, <1>5, Threads DEF LoadSetting, Goto, Life
  <2>2. mem' = FileValue
    BY <1>5 DEF LoadSetting, StartFollows
  <2> QED BY <1>2, <1>3, <2>1, <2>2 DEF W!Next, W!Settled, W!Load
<1>6. CASE Engaged
  <2>1. Life = "starting" /\ Life' = "serving" /\ UNCHANGED mem
    BY <1>0, <1>6, Threads DEF Engaged, Goto, Life
  <2>2. mem = FileValue
    BY <1>6 DEF Engaged, StartFollows
  <2> QED BY <1>2, <1>3, <2>1, <2>2 DEF W!Next, W!Settled, W!Serve, W!Becomes
<1> QED BY <1>4, <1>5, <1>6

\* Reading the files changes nothing that shows, nor does the load of a
\* reload.
LEMMA ReloadSteps ==
    ASSUME TypeOK, LocksExclude, StartsAlone, QuietBefore, ReloadFollows, LivesOn, Owes, ~Unsettled,
           \/ \E p \in Loaders : ReadCurConfig(p)
           \/ \E c \in Clients : LoadSetting(c)
    PROVE  UNCHANGED Sees
<1> USE DEF Step, At
<1>0. pc \in [Procs -> ClientPCs \cup MainPCs \cup TimerPCs \cup ResetPCs]
  BY DEF TypeOK, LabelsOK
<1>1. ASSUME NEW p \in Loaders, ReadCurConfig(p) PROVE UNCHANGED Sees
  <2>1. UNCHANGED <<mem, FileValue, serving, owed>>
    BY <1>1, ReadBackKeeps DEF ReadCurConfig, TypeOK
  <2>2. UNCHANGED Unpaired
    BY <1>1 DEF ReadCurConfig, ReadBack, Unpaired, Unsettled
  <2>3. p = Main => UNCHANGED Life
    BY <1>0, <1>1, Threads DEF ReadCurConfig, Goto, Life
  <2> QED BY <1>1, <2>1, <2>2, <2>3, SinceKept, StoreStutters, Threads DEF ReadCurConfig
<1>2. ASSUME NEW c \in Clients, LoadSetting(c) PROVE UNCHANGED Sees
  <2>1. pc[c] = "load" /\ serving /\ UNCHANGED <<cur, bak, serving>>
    BY <1>2 DEF LoadSetting, QuietBefore, files
  <2>2. mem' = mem
    BY <1>2, <2>1 DEF LoadSetting, ReloadFollows, Unsettled
  <2>3. owed' = owed
    <3>1. owed = {} \/ mem \in owed
      BY <2>1, <1>0, Threads DEF LivesOn, Owes, TermPCs, StartPCs, TypeOK, LabelsOK, MainPCs, SavePCs
    <3> QED BY <1>2, <2>2, <3>1 DEF LoadSetting
  <2>4. \E l : Goto(c, l) /\ l # "notify"
    BY <1>2 DEF LoadSetting
  <2> QED BY <2>1, <2>2, <2>3, <2>4, FilesKept, UnpairedKept, SinceKept, StoreStutters, Threads
<1> QED BY <1>1, <1>2

\* A client's change and its notification.
LEMMA ChangeSteps ==
    ASSUME TypeOK, LocksExclude, StartsAlone, QuietBefore, LivesOn, ~Unsettled,
           NEW c \in Clients,
           SysRamNotify(c) \/ \E v \in Settings : ChangeRecord(c, v)
    PROVE  W!Next
<1> USE DEF Step, At
<1>0. /\ pc \in [Procs -> ClientPCs \cup MainPCs \cup TimerPCs \cup ResetPCs]
      /\ \A p \in Procs : p # c => pc'[p] = pc[p]
  BY Threads DEF TypeOK, LabelsOK, SysRamNotify, ChangeRecord, Goto
<1>1. serving /\ UNCHANGED <<cur, bak, serving>>
  BY DEF SysRamNotify, ChangeRecord, QuietBefore, files
<1>2. UNCHANGED <<FileValue, Unpaired, Life, Unsettled>>
  BY <1>0, <1>1, FilesKept, UnpairedKept, Threads DEF Life, Unsettled
<1>3. \A d \in Clients : d # c => pc[d] \in {"idle", "get_exit"}
  BY OthersIdle DEF SysRamNotify, ChangeRecord
<1>4. CASE SysRamNotify(c)
  <2>1. Changing = {c} /\ Changing' = {}
    BY <1>0, <1>3, <1>4, Threads DEF SysRamNotify, Goto, Changing
  <2>2. UNCHANGED <<mem, Since>>
    BY <1>4 DEF SysRamNotify, Since
  <2> QED BY <1>2, <2>1, <2>2 DEF W!Next, W!Settled, W!Changed
<1>5. ASSUME NEW v \in Settings, ChangeRecord(c, v) PROVE W!Next
  <2>1. Changing = {} /\ Changing' = {c}
    BY <1>0, <1>3, <1>5, Threads DEF ChangeRecord, Goto, Changing
  <2>2. mem' = v /\ Since' = IF Since = {} THEN {} ELSE Since \cup {v}
    BY <1>1, <1>5 DEF ChangeRecord, Since
  <2>3. W!Change(c, v)
    BY <1>1, <1>2, <2>1, <2>2, ServesWhen DEF W!Change, W!Serves
  <2> QED BY <1>2, <2>3 DEF W!Next, W!Settled
<1> QED BY <1>4, <1>5

\* A save: the timer's and a reload's store the tree, the last one of a PSM that
\* closes something that was owed, and that of a PSM that never served what it
\* has.
LEMMA SaveSteps ==
    ASSUME TypeOK, TypeOK', StartsAlone, QuietBefore, FileThere, NoAbsence, TimerSavesTheTree, ReloadFollows,
           LivesOn, Owes, Reliable, ~Unsettled, NEW p \in Savers, SaveCurConfig(p)
    PROVE  W!Next \/ UNCHANGED Sees
<1> USE DEF Step, At
<1>0. /\ pc \in [Procs -> ClientPCs \cup MainPCs \cup TimerPCs \cup ResetPCs]
      /\ snap \in [Procs -> Settings] /\ p \in Procs /\ p # Reset /\ pc[p] = "write"
      /\ pc' = [pc EXCEPT ![p] = "saved"]
  BY Threads DEF TypeOK, LabelsOK, SettingsOK, SaveCurConfig, Goto
<1>1. UNCHANGED <<mem, serving, owed, Since, Changing, Life>>
  BY <1>0, Threads DEF SaveCurConfig, Since, Changing, Life
<1>2. ~Unpaired /\ ~Unpaired' /\ UNCHANGED Unsettled
  <2>1. ~Unpaired' \/ UNCHANGED Unpaired
    BY DEF SaveCurConfig, Saved, SaveFails, files, Unpaired
  <2> QED BY <1>0, <2>1, Threads DEF Unsettled
<1>3. ASSUME serving, p # Main PROVE W!Next
  <2>1. snap[p] = mem
    BY <1>0, <1>3, Threads DEF TimerSavesTheTree, ReloadFollows
  <2>2. FileValue' = mem
    BY <1>3, <2>1, SaveStores DEF Unsettled
  <2> QED BY <1>1, <1>2, <1>3, <2>2, ServesWhen DEF W!Next, W!Settled, W!Flush, W!Serves
<1>4. ASSUME serving, p = Main PROVE W!Next
  <2>1. Life = "closing" /\ Since = owed /\ snap[Main] \in owed
    BY <1>0, <1>4 DEF Life, Since, Owes, TermPCs, SavePCs
  <2>2. FileValue' = snap[Main]
    BY <1>4, SaveStores DEF Unsettled
  <2> QED BY <1>1, <1>2, <2>1, <2>2 DEF W!Next, W!Settled, W!LastFlush
<1>5. ASSUME ~serving PROVE W!Next \/ UNCHANGED Sees
  <2>1. p = Main
    BY <1>0, <1>5, Threads DEF QuietBefore
  <2>2. Life = "aborted" /\ snap[p] = mem
    BY <1>0, <1>5, <2>1 DEF Life, LivesOn
  <2>3. CASE UNCHANGED <<cur, bak>>
    BY <1>1, <1>2, <2>3, FilesKept DEF Sees
  <2>4. CASE cur' = snap[p]
    <3>1. cur' # Missing
      BY <1>0, <2>4, Identities
    <3>2. FileValue' \in {mem, 0}
      BY <2>2, <2>4, <3>1 DEF FileValue
    <3> QED BY <1>1, <1>2, <2>2, <3>2 DEF W!Next, W!Settled, W!AbortFlush
  <2> QED BY <2>3, <2>4 DEF SaveCurConfig, Saved, SaveFails, files
<1> QED BY <1>3, <1>4, <1>5

\* SIGTERM, and the end.
LEMMA EndSteps ==
    ASSUME TypeOK, StartsAlone, QuietBefore, LivesOn, ~Unsettled, Term \/ Exit \/ Die \/ PowerLoss
    PROVE  W!Next
<1> USE DEF Step, At
<1>1. CASE Term
  <2>0. /\ pc \in [Procs -> ClientPCs \cup MainPCs \cup TimerPCs \cup ResetPCs]
        /\ pc' = [pc EXCEPT ![Main] = "flash"]
        /\ UNCHANGED <<mem, cur, bak, serving>>
    BY <1>1 DEF TypeOK, LabelsOK, Term, Goto, files
  <2>1. UNCHANGED <<FileValue, Unpaired, Changing, Unsettled>>
    BY <2>0, FilesKept, UnpairedKept, Threads DEF Changing, Unsettled
  <2>2. CASE serving
    <3>1. Life = "serving" /\ Life' = "closing"
      BY <1>1, <2>0, <2>2, Threads DEF Term, StartsAlone, StartPCs, Life
    <3>2. Since' = {mem}
      BY <1>1, <2>0, <2>2 DEF Term, Since
    <3> QED BY <2>0, <2>1, <3>1, <3>2 DEF W!Next, W!Settled, W!Terminate, W!Becomes
  <2>3. CASE ~serving
    <3>1. Life = "starting" /\ Life' = "aborted"
      BY <1>1, <2>0, <2>3, Threads DEF Term, LivesOn, Life
    <3>2. UNCHANGED Since
      BY <2>0, <2>3 DEF Since
    <3> QED BY <2>0, <2>1, <3>1, <3>2 DEF W!Next, W!Settled, W!Abort, W!Becomes
  <2> QED BY <2>2, <2>3
<1>2. CASE Exit \/ Die \/ PowerLoss
  <2>1. Gone /\ pc[Main] # "off" /\ (UNCHANGED <<cur, bak>> \/ (Hal /\ cur' = Missing /\ bak' = bak))
    BY <1>2 DEF Exit, Die, PowerLoss, Up, files
  <2>2. Life # "down" /\ Life' = "down" /\ mem' = Absent /\ Changing' = {} /\ Since' = {}
    BY <2>1, GoneState, Threads DEF Life, Changing, Since
  <2>3. UNCHANGED FileValue /\ ~Unpaired'
    <3>1. CASE UNCHANGED <<cur, bak>>
      BY <3>1, FilesKept, UnpairedKept DEF Unsettled
    <3>2. CASE Hal /\ cur' = Missing /\ bak' = bak
      <4>1. cur = Missing \/ cur = bak
        BY <3>2 DEF Unsettled, Unpaired
      <4> QED BY <3>2, <4>1 DEF FileValue, Unpaired
    <3> QED BY <2>1, <3>1, <3>2
  <2>4. UNCHANGED Unsettled
    BY <2>1, <2>3, GoneState DEF Unsettled
  <2> QED BY <2>2, <2>3, <2>4 DEF W!Next, W!Settled, W!Stop
<1> QED BY <1>1, <1>2

\* A client asks for a factory reset.
LEMMA ResetStarts ==
    ASSUME TypeOK, StartsAlone, QuietBefore, LivesOn, ~Unsettled, NEW c \in Clients, SpawnReset(c)
    PROVE  W!Next
<1> USE DEF Step, At
<1>0. /\ pc \in [Procs -> ClientPCs \cup MainPCs \cup TimerPCs \cup ResetPCs]
      /\ pc' = [pc EXCEPT ![Reset] = "begin"] /\ pc[c] = "param"
      /\ UNCHANGED <<mem, cur, bak, serving, owed>>
  BY DEF TypeOK, LabelsOK, SpawnReset, Goto, files
<1>1. UNCHANGED <<FileValue, Changing, Life, Since>>
  BY <1>0, FilesKept, Threads DEF Changing, Life, Since
<1>2. ~Unsettled /\ Unsettled' = TRUE
  BY <1>0, Threads DEF Unsettled
<1>3. Life \in {"serving", "closing"}
  BY <1>0, ServesWhen DEF QuietBefore
<1> QED BY <1>0, <1>1, <1>2, <1>3 DEF W!Next, W!BeginReset, W!Serves

\* From a reset until the next load nothing is promised, but that a process
\* which serves has loaded since.
LEMMA UnsettledSteps ==
    ASSUME TypeOK, TypeOK', StartsAlone', QuietBefore, FileThere, Paired, LivesOn', Paired', FileThere',
           Reliable, Unsettled, Next
    PROVE  W!Next
<1> USE DEF Step, At
<1>0. pc \in [Procs -> ClientPCs \cup MainPCs \cup TimerPCs \cup ResetPCs]
  BY DEF TypeOK, LabelsOK
<1>1. Unsettled' \/ ~serving'
  <2>1. SUFFICES ASSUME pc'[Reset] = "off", serving' PROVE Unsettled'
    BY DEF Unsettled
  <2>2. ~(Exit \/ Die \/ PowerLoss)
    BY <2>1, GoneState DEF Exit, Die, PowerLoss
  <2>3. pc[Reset] = "off"
    BY <1>0, <2>1, <2>2, Threads, DataActions DEF Silent, Aside, Goto, ReadCurConfig, LoadSetting, FlashDone, Encode,
       SaveCurConfig, Engaged, TimerDone, Term, ChangeRecord, UnlinkCur, UnlinkBak
  <2>4. Unpaired /\ ~serving /\ pc[Main] # "loaded"
    BY <2>3 DEF Unsettled, Unpaired, Paired
  <2>5. ~serving'
    BY <2>2, <2>4, DataActions, Zenon DEF Silent, ReadCurConfig, LoadSetting, FlashDone, Encode,
       SaveCurConfig, Engaged, TimerDone, Term, ChangeRecord, UnlinkCur, UnlinkBak
  <2> QED BY <2>1, <2>5
<1>2. Life' \in W!Lives /\ (serving' <=> Life' \in {"serving", "closing"})
  BY DEF StartsAlone, StartPCs, LivesOn, Life, W!Lives
<1>3. mem' \in Settings /\ Since' \subseteq Settings /\ Changing' \subseteq Clients
  BY DEF TypeOK, SettingsOK, Since, Changing
<1>4. FileValue' \in Settings
  BY SysRegistryAssumption DEF TypeOK, SettingsOK, FileValue, Settings, Values
<1>5. Unsettled' \in BOOLEAN
  BY DEF Unsettled, Unpaired
<1> QED BY <1>1, <1>2, <1>3, <1>4, <1>5 DEF W!Next, W!Unsettled

LEMMA StoreStep ==
    ASSUME TypeOK, TypeOK', FlushInv, FlushInv', StoreInv, StoreInv', Reliable, Next
    PROVE  W!Next \/ UNCHANGED W!vars
<1> USE DEF FlushInv, StoreInv
<1>1. CASE Unsettled
  BY <1>1, UnsettledSteps
<1>2. CASE ~Unsettled
  <2>1. ASSUME NEW p PROVE ~ReadCurConfigFails(p)
    BY DEF Reliable, ReadCurConfigFails
  <2>2. ~(ResetBegin \/ ResetStop \/ UnlinkCur \/ UnlinkBak)
    BY <1>2 DEF Unsettled, ResetBegin, ResetStop, UnlinkCur, UnlinkBak, Step, At
  <2>3. CASE Engage \/ LoadSetting(Main) \/ Engaged
    BY <1>2, <2>3, StartSteps
  <2>4. CASE (\E p \in Loaders : ReadCurConfig(p)) \/ (\E c \in Clients : LoadSetting(c))
    BY <1>2, <2>4, ReloadSteps, SeesStutter
  <2>5. CASE \E c \in Clients : SysRamNotify(c) \/ \E v \in Settings : ChangeRecord(c, v)
    BY <1>2, <2>5, ChangeSteps
  <2>6. CASE \E p \in Savers : SaveCurConfig(p)
    BY <1>2, <2>6, SaveSteps, SeesStutter
  <2>7. CASE Term \/ Exit \/ Die \/ PowerLoss
    BY <1>2, <2>7, EndSteps
  <2>8. CASE \E c \in Clients : SpawnReset(c)
    BY <1>2, <2>8, ResetStarts
  <2>9. CASE \/ TimerFires \/ TimerSaves \/ TimerSkips \/ TimerDone \/ DelayPasses
             \/ \E p \in Loaders : FlashBegin(p) \/ FlashLock(p) \/ FlashDone(p)
             \/ \E p \in Savers : Encode(p)
             \/ \E c \in Clients : HandlerBegins(c) \/ GetBegins(c) \/ GetFails(c) \/ GetReturns(c)
                                   \/ HandlerReturns(c) \/ Reload(c) \/ ReloadResumes(c) \/ ReloadStarts(c)
             \/ \E c \in Clients, b \in BOOLEAN : DisableWriting(c, b) \/ EnableFileSync(c, b)
    BY <2>9, HiddenSteps, SeesStutter
  <2> QED BY <2>1, <2>2, <2>3, <2>4, <2>5, <2>6, <2>7, <2>8, <2>9, NextActions DEF Loaders
<1> QED BY <1>1, <1>2

LEMMA StoreInit == Init => W!Init
<1> SUFFICES ASSUME Init PROVE W!Init
  OBVIOUS
<1>1. pc[Main] = "off" /\ pc[Reset] = "off" /\ \A c \in Clients : pc[c] = "idle"
  BY Threads DEF Init
<1>2. FileValue = 0 /\ ~Unpaired
  BY Identities DEF Init, FileValue, Unpaired
<1>3. Changing = {} /\ Life = "down" /\ Since = {} /\ Unsettled = FALSE
  BY <1>1, <1>2 DEF Init, Changing, Life, Since, Unsettled, At
<1> QED BY <1>2, <1>3 DEF Init, W!Init

\* The registry implements the write-back store, in both builds and for any
\* number of handlers: the setting changes only when a client changes it, one at
\* a time; what the timer, a reload and SIGTERM write is the setting as it is or,
\* for SIGTERM, as it was since the signal; a reload changes nothing that a
\* client sees; and what is served after a start is what was stored last.
THEOREM Implements == ASSUME Reliable PROVE Spec => WritesBack
<1>1. TypeOK /\ FlushInv /\ StoreInv /\ [Next]_vars => StoreInv'
  BY StoreInvNext
<1>2. Spec => [](TypeOK /\ FlushInv /\ StoreInv)
  BY <1>1, StoreInvInit, FlushInvariant, TypeCorrect, PTL DEF Spec
<1>3. /\ TypeOK /\ FlushInv /\ StoreInv /\ (TypeOK /\ FlushInv /\ StoreInv)' /\ [Next]_vars
      => [W!Next]_(W!vars)
  <2>1. ASSUME UNCHANGED vars PROVE UNCHANGED W!vars
    <3>1. UNCHANGED <<mem, cur, bak, serving, pc, owed>>
      BY <2>1 DEF vars, files
    <3> QED BY <3>1, FilesKept DEF W!vars, Changing, Life, Since, Unsettled, Unpaired, At
  <2> QED BY <2>1, StoreStep
<1> QED BY <1>2, <1>3, StoreInit, PTL DEF Spec, WritesBack, W!Spec

=============================================================================
