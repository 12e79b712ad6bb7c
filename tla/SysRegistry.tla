----------------------------- MODULE SysRegistry -----------------------------
(***************************************************************************)
(* PsmSysRegistry with the file loader and the bus handlers above it: the  *)
(* threads of a running PSM, its two locks, its flags, and when the        *)
(* configuration in memory reaches the files.                              *)
(*                                                                         *)
(* The registry tree is represented by one setting.  Its value 0 is the    *)
(* factory default, Absent means that the tree (or a file) lacks it.  The  *)
(* files are read and written in one step: CfmBase takes that step apart.  *)
(* The tree's write lock is held for the whole encoding and for each       *)
(* change, so that encoding and changing are single steps too.             *)
(***************************************************************************)
EXTENDS Naturals, FiniteSets

CONSTANTS
    Clients,        \* bus handler threads (D-Bus and RBus)
    Ops,            \* which parameters and calls the clients use
    MaxValue,       \* the setting's values are 0..MaxValue
    RefModulus,     \* FileSyncRefCount is unsigned: 2^w
    Hal,            \* built with ssp_cfmif.c (USE_PLATFORM_SPECIFIC_HAL)?
    SaveFaults,     \* may SaveCurConfig fail?
    ForeignUnlock,  \* does RelThreadLock unlock another thread's lock?
    Absent, Missing, Free, Main, Timer, Reset

AllOps == {"set", "delete", "get", "sync", "reload", "reset"}

ASSUME SysRegistryAssumption ==
    /\ Ops \subseteq AllOps
    /\ MaxValue \in Nat \ {0} /\ RefModulus \in Nat \ {0, 1}
    /\ {Hal, SaveFaults, ForeignUnlock} \subseteq BOOLEAN
    /\ {Absent, Missing} \cap Nat = {} /\ Absent # Missing
    /\ Main # Timer /\ Main # Reset /\ Timer # Reset
    /\ {Main, Timer, Reset} \cap Clients = {}
    /\ Free \notin Clients \cup {Main, Timer, Reset}

Procs == Clients \cup {Main, Timer, Reset}
Values == 0..MaxValue
Settings == Values \cup {Absent}

VARIABLES
    mem,                \* the setting in the registry tree
    cur, bak,           \* the setting in the current and in the backup file
    AccessLock,         \* who holds the registry object's lock
    ThreadLock,         \* who holds the repository's thread lock
    bNoSave, bNeedFlush, bSaveInProgress,
    recent,             \* less than the flush delay since LastRegWriteAt
    timerOn,            \* is the registry timer started?
    FileSyncRefCount,
    serving,            \* g_psmHealth is green: the bus handlers work
    pc,                 \* where each thread is
    snap,               \* the setting in a thread's file buffer
    owed                \* history: what a terminating PSM may leave behind

files == <<cur, bak>>
locks == <<AccessLock, ThreadLock>>
flags == <<bNoSave, bNeedFlush, bSaveInProgress, recent, timerOn>>
vars == <<mem, files, locks, flags, FileSyncRefCount, serving, pc, snap, owed>>

At(p, l) == pc[p] = l
Goto(p, l) == pc' = [pc EXCEPT ![p] = l]
Step(p, from, to) == At(p, from) /\ Goto(p, to)

Up == ~At(Main, "off")

SavePCs == {"encode", "write", "saved"}

BufferFreed(p) == snap' = [snap EXCEPT ![p] = Absent]

-----------------------------------------------------------------------------
(* The files                                                               *)

\* Which file ReadCurConfig uses.  The HAL build merges the factory defaults
\* into what it read, so that a setting absent from the file is back.
FileValue ==
    LET found == IF cur # Missing THEN cur ELSE IF bak # Missing THEN bak ELSE 0
    IN  IF Hal /\ found = Absent THEN 0 ELSE found

\* SaveCurConfig.  Without the HAL, the current file has to be there and is
\* copied to the backup first; with it, both files get the new contents.
CanSave == Hal \/ cur # Missing

\* A slip: the backup is written instead of the current file.
SavedAside(v) == cur' = cur /\ bak' = v

Saved(v) == cur' = v /\ bak' = IF Hal THEN v ELSE cur

SaveFails == UNCHANGED files

\* ReadCurConfig leaves the current file with what it found; the HAL build
\* stores the merged records in both.
ReadBack == cur' = FileValue /\ bak' = IF Hal THEN FileValue ELSE bak

Init ==
    /\ mem = Absent /\ cur = Missing /\ bak = Missing
    /\ AccessLock = Free /\ ThreadLock = Free
    /\ bNoSave = TRUE /\ bNeedFlush = FALSE /\ bSaveInProgress = FALSE
    /\ recent = FALSE /\ timerOn = FALSE
    /\ FileSyncRefCount = 0 /\ serving = FALSE
    /\ pc = [p \in Procs |-> IF p \in Clients \cup {Timer} THEN "idle" ELSE "off"]
    /\ snap = [p \in Procs |-> Absent]
    /\ owed = {}

-----------------------------------------------------------------------------
(* Start: cmd_dispatch('e') and PsmSysroEngage on the main thread.  Also   *)
(* the second half of a reload, on a handler thread (LoadRegFile).         *)

\* PsmCreateSysRegistry, then Engage up to the file loader.
Engage ==
    /\ Step(Main, "off", "read")
    /\ timerOn' = TRUE
    /\ UNCHANGED <<mem, files, locks, bNoSave, bNeedFlush, bSaveInProgress, recent,
                   FileSyncRefCount, serving, snap, owed>>

ReadCurConfig(p) ==
    /\ Step(p, "read", "load")
    /\ snap' = [snap EXCEPT ![p] = FileValue]
    /\ ReadBack
    /\ UNCHANGED <<mem, locks, flags, FileSyncRefCount, serving, owed>>

\* PsmFloLoadRegFile gives up, and its callers do not look at its status.
ReadCurConfigFails(p) ==
    /\ Step(p, "read", IF p = Main THEN "loaded" ELSE "param")
    /\ SaveFaults
    /\ UNCHANGED <<mem, files, locks, flags, FileSyncRefCount, serving, snap, owed>>

\* Whoever changes the tree makes the repository call SysRamNotify.
Notified ==
    IF bNoSave \/ bSaveInProgress
    THEN UNCHANGED <<bNeedFlush, recent>>
    ELSE bNeedFlush' = TRUE /\ recent' = TRUE

\* PsmSysFolderFromXMLHandle reaches the setting, if the file has it: what
\* the file lacks stays as it is.  (Its other records are notified in any
\* case.)
LoadSetting(p) ==
    /\ Step(p, "load", IF p = Main THEN "loaded" ELSE "param")
    /\ mem' = IF snap[p] = Absent THEN mem ELSE snap[p]
    /\ Notified
    /\ owed' = IF owed = {} THEN {} ELSE owed \cup {mem'}
    /\ BufferFreed(p)
    /\ UNCHANGED <<files, locks, bNoSave, bSaveInProgress, timerOn,
                   FileSyncRefCount, serving>>

\* A slip: bNoSave stays up after the load.
EngagedNoSave ==
    /\ Step(Main, "loaded", "serving")
    /\ serving' = TRUE
    /\ UNCHANGED <<mem, files, locks, flags, FileSyncRefCount, snap, owed>>

\* The end of Engage; PsmDbusInit and PsmRbusInit follow.
Engaged ==
    /\ Step(Main, "loaded", "serving")
    /\ bNoSave' = FALSE /\ serving' = TRUE
    /\ UNCHANGED <<mem, files, locks, bNeedFlush, bSaveInProgress, recent, timerOn,
                   FileSyncRefCount, snap, owed>>

-----------------------------------------------------------------------------
(* PsmFloSaveRegFile, on whichever thread saves                            *)

Savers == Clients \cup {Main, Timer}

Encode(p) ==
    /\ Step(p, "encode", "write")
    /\ snap' = [snap EXCEPT ![p] = mem]
    /\ UNCHANGED <<mem, files, locks, flags, FileSyncRefCount, serving, owed>>

SaveCurConfig(p) ==
    /\ Step(p, "write", "saved")
    /\ \/ CanSave /\ Saved(snap[p])
       \/ (~CanSave \/ SaveFaults) /\ SaveFails
    /\ UNCHANGED <<mem, locks, flags, FileSyncRefCount, serving, snap, owed>>

\* The same end for RegTimerInvoke and SaveConfigToFlash, whatever the save
\* returned.
SaveDone == bNeedFlush' = FALSE /\ bSaveInProgress' = FALSE

-----------------------------------------------------------------------------
(* PsmSysroRegTimerInvoke, on the timer thread.  A firing that finds       *)
(* nothing to do, or a change that is too fresh, changes nothing.          *)

TimerFires ==
    /\ Step(Timer, "idle", "lock")
    /\ Up /\ timerOn /\ AccessLock = Free
    /\ bNeedFlush /\ ~recent
    /\ AccessLock' = Timer
    /\ UNCHANGED <<mem, files, ThreadLock, flags, FileSyncRefCount, serving, snap, owed>>

\* A slip: the timer saves without the thread lock.
TimerSavesUnlocked ==
    /\ Step(Timer, "lock", "encode")
    /\ FileSyncRefCount = 0
    /\ bSaveInProgress' = TRUE
    /\ UNCHANGED <<mem, files, locks, bNoSave, bNeedFlush, recent, timerOn,
                   FileSyncRefCount, serving, snap, owed>>

TimerSaves ==
    /\ Step(Timer, "lock", "encode")
    /\ ThreadLock = Free /\ FileSyncRefCount = 0
    /\ ThreadLock' = Timer /\ bSaveInProgress' = TRUE
    /\ UNCHANGED <<mem, files, AccessLock, bNoSave, bNeedFlush, recent, timerOn,
                   FileSyncRefCount, serving, snap, owed>>

\* Slips of the way out when writing is disabled: the lock stays taken, and
\* the flush flag is cleared with nothing saved.
TimerSkipsLocked ==
    /\ Step(Timer, "lock", "idle")
    /\ ThreadLock = Free /\ FileSyncRefCount > 0
    /\ UNCHANGED <<mem, files, locks, flags, FileSyncRefCount, serving, snap, owed>>

TimerSkipsClears ==
    /\ Step(Timer, "lock", "idle")
    /\ ThreadLock = Free /\ FileSyncRefCount > 0
    /\ AccessLock' = Free /\ bNeedFlush' = FALSE
    /\ UNCHANGED <<mem, files, ThreadLock, bNoSave, bSaveInProgress, recent, timerOn,
                   FileSyncRefCount, serving, snap, owed>>

TimerSkips ==
    /\ Step(Timer, "lock", "idle")
    /\ ThreadLock = Free /\ FileSyncRefCount > 0
    /\ AccessLock' = Free
    /\ UNCHANGED <<mem, files, ThreadLock, flags, FileSyncRefCount, serving, snap, owed>>

TimerDone ==
    /\ Step(Timer, "saved", "idle")
    /\ SaveDone
    /\ AccessLock' = Free /\ ThreadLock' = Free
    /\ BufferFreed(Timer)
    /\ UNCHANGED <<mem, files, bNoSave, recent, timerOn, FileSyncRefCount, serving, owed>>

TimerStep == TimerFires \/ TimerSaves \/ TimerSkips \/ TimerDone
             \/ Encode(Timer) \/ SaveCurConfig(Timer)

\* PSM_SYSRO_REG_FLUSH_DELAY seconds pass without a change.
DelayPasses ==
    /\ recent /\ recent' = FALSE
    /\ UNCHANGED <<mem, files, locks, bNoSave, bNeedFlush, bSaveInProgress, timerOn,
                   FileSyncRefCount, serving, pc, snap, owed>>

-----------------------------------------------------------------------------
(* PsmSysroSaveConfigToFlash, from the SIGTERM handler and from a reload   *)

\* A slip: nothing is saved unless the flush flag is up.
FlashIfNeeded(p) ==
    /\ Step(p, "flash", IF bNeedFlush THEN "flash_lock"
                        ELSE IF p = Main THEN "exit" ELSE "resume")
    /\ bNoSave' = TRUE
    /\ UNCHANGED <<mem, files, locks, bNeedFlush, bSaveInProgress, recent, timerOn,
                   FileSyncRefCount, serving, snap, owed>>

FlashBegin(p) ==
    /\ Step(p, "flash", "flash_lock")
    /\ bNoSave' = TRUE
    /\ UNCHANGED <<mem, files, locks, bNeedFlush, bSaveInProgress, recent, timerOn,
                   FileSyncRefCount, serving, snap, owed>>

\* A slip: no access lock.
FlashUnlocked(p) ==
    /\ Step(p, "flash_lock", "encode")
    /\ timerOn' = FALSE /\ bSaveInProgress' = TRUE
    /\ UNCHANGED <<mem, files, locks, bNoSave, bNeedFlush, recent,
                   FileSyncRefCount, serving, snap, owed>>

FlashLock(p) ==
    /\ Step(p, "flash_lock", "encode")
    /\ AccessLock = Free /\ AccessLock' = p
    /\ timerOn' = FALSE /\ bSaveInProgress' = TRUE
    /\ UNCHANGED <<mem, files, ThreadLock, bNoSave, bNeedFlush, recent,
                   FileSyncRefCount, serving, snap, owed>>

FlashDone(p) ==
    /\ p # Timer
    /\ Step(p, "saved", IF p = Main THEN "exit" ELSE "resume")
    /\ SaveDone
    /\ AccessLock' = Free
    /\ BufferFreed(p)
    /\ UNCHANGED <<mem, files, ThreadLock, bNoSave, recent, timerOn,
                   FileSyncRefCount, serving, owed>>

FlashStep(p) == FlashBegin(p) \/ FlashLock(p) \/ Encode(p) \/ SaveCurConfig(p) \/ FlashDone(p)

-----------------------------------------------------------------------------
(* The bus handlers.  setParameterValues and setParameterAttributes hold   *)
(* the thread lock while they work through their parameters; the RBus      *)
(* handlers call them.                                                     *)

HandlerBegins(c) ==
    /\ Step(c, "idle", "param")
    /\ serving
    /\ ThreadLock = Free /\ ThreadLock' = c
    /\ UNCHANGED <<mem, files, AccessLock, flags, FileSyncRefCount, serving, snap, owed>>

ChangeRecord(c, v) ==
    /\ Step(c, "param", "notify")
    /\ mem' = v
    /\ owed' = IF owed = {} THEN {} ELSE owed \cup {v}
    /\ UNCHANGED <<files, locks, flags, FileSyncRefCount, serving, snap>>

\* AddRecord2.  The GetRecord before it, which is to skip a value that is
\* there already, is given a size that was never initialised: it may miss
\* such a value, which is then added once more.  (Skipping changes nothing.)
AddRecord2(c, v) == "set" \in Ops /\ ChangeRecord(c, v)

\* setParameterAttributes deletes a record.
DelRecord(c) == "delete" \in Ops /\ mem # Absent /\ ChangeRecord(c, Absent)

\* A slip: the notification waits for the access lock.
SysRamNotifyLocked(c) ==
    /\ Step(c, "notify", "param")
    /\ AccessLock = Free
    /\ Notified
    /\ UNCHANGED <<mem, files, locks, bNoSave, bSaveInProgress, timerOn,
                   FileSyncRefCount, serving, snap, owed>>

SysRamNotify(c) ==
    /\ Step(c, "notify", "param")
    /\ Notified
    /\ UNCHANGED <<mem, files, locks, bNoSave, bSaveInProgress, timerOn,
                   FileSyncRefCount, serving, snap, owed>>

\* DisableWriting: TRUE and FALSE are handed on as they are.
DisableWriting(c, b) ==
    /\ "sync" \in Ops
    /\ Step(c, "param", IF b THEN "sync_on" ELSE "sync_off")
    /\ UNCHANGED <<mem, files, locks, flags, FileSyncRefCount, serving, snap, owed>>

\* A slip: a count that does not wrap.
EnableFileSyncWide(c, bEnabled) ==
    /\ Step(c, IF bEnabled THEN "sync_on" ELSE "sync_off", "param")
    /\ AccessLock = Free
    /\ FileSyncRefCount' = FileSyncRefCount + IF bEnabled THEN RefModulus - 1 ELSE 1
    /\ UNCHANGED <<mem, files, locks, flags, serving, snap, owed>>

\* PsmSysroSysRamEnableFileSync(bEnabled)
EnableFileSync(c, bEnabled) ==
    /\ Step(c, IF bEnabled THEN "sync_on" ELSE "sync_off", "param")
    /\ AccessLock = Free
    /\ FileSyncRefCount' = (FileSyncRefCount
                              + IF bEnabled THEN RefModulus - 1 ELSE 1) % RefModulus
    /\ UNCHANGED <<mem, files, locks, flags, serving, snap, owed>>

\* A slip: the files are loaded over a tree that was not saved.
ReloadUnsaved(c) ==
    /\ "reload" \in Ops
    /\ Step(c, "param", "resume")
    /\ UNCHANGED <<mem, files, locks, flags, FileSyncRefCount, serving, snap, owed>>

\* ReloadConfig: SaveConfigToFlash, bNoSave = FALSE, Start, LoadRegFile.
Reload(c) ==
    /\ "reload" \in Ops
    /\ Step(c, "param", "flash")
    /\ UNCHANGED <<mem, files, locks, flags, FileSyncRefCount, serving, snap, owed>>

ReloadResumes(c) ==
    /\ Step(c, "resume", "start")
    /\ bNoSave' = FALSE
    /\ UNCHANGED <<mem, files, locks, bNeedFlush, bSaveInProgress, recent, timerOn,
                   FileSyncRefCount, serving, snap, owed>>

ReloadStarts(c) ==
    /\ Step(c, "start", "read")
    /\ timerOn' = TRUE
    /\ UNCHANGED <<mem, files, locks, bNoSave, bNeedFlush, bSaveInProgress, recent,
                   FileSyncRefCount, serving, snap, owed>>

\* doFactoryReset spawns the reset task (one at a time here).
SpawnReset(c) ==
    /\ "reset" \in Ops
    /\ At(c, "param") /\ Step(Reset, "off", "begin")
    /\ UNCHANGED <<mem, files, locks, flags, FileSyncRefCount, serving, snap, owed>>

\* A slip: a way out of the handler that keeps the lock.
HandlerLeaves(c) ==
    /\ Step(c, "param", "idle")
    /\ UNCHANGED <<mem, files, locks, flags, FileSyncRefCount, serving, snap, owed>>

HandlerReturns(c) ==
    /\ Step(c, "param", "idle")
    /\ ThreadLock' = Free
    /\ UNCHANGED <<mem, files, AccessLock, flags, FileSyncRefCount, serving, snap, owed>>

\* getParameterValues.  A failed GetRecord releases the thread lock, and the
\* common exit then releases it once more.
GetBegins(c) ==
    /\ "get" \in Ops
    /\ Step(c, "idle", "get")
    /\ serving
    /\ ThreadLock = Free /\ ThreadLock' = c
    /\ UNCHANGED <<mem, files, AccessLock, flags, FileSyncRefCount, serving, snap, owed>>

RelThreadLock(c) == ThreadLock' = IF ThreadLock = c \/ ForeignUnlock THEN Free ELSE ThreadLock

GetFails(c) ==
    /\ Step(c, "get", "get_exit")
    /\ RelThreadLock(c)
    /\ UNCHANGED <<mem, files, AccessLock, flags, FileSyncRefCount, serving, snap, owed>>

GetReturns(c) ==
    /\ At(c, "get") \/ At(c, "get_exit")
    /\ Goto(c, "idle")
    /\ RelThreadLock(c)
    /\ UNCHANGED <<mem, files, AccessLock, flags, FileSyncRefCount, serving, snap, owed>>

Request(c) ==
    \/ HandlerBegins(c) \/ GetBegins(c)
    \/ DelRecord(c) \/ \E v \in Values : AddRecord2(c, v)
    \/ \E b \in BOOLEAN : DisableWriting(c, b)
    \/ Reload(c) \/ SpawnReset(c)

\* What a handler does once it was asked.
Handle(c) ==
    \/ SysRamNotify(c) \/ FlashStep(c)
    \/ \E b \in BOOLEAN : EnableFileSync(c, b)
    \/ ReloadResumes(c) \/ ReloadStarts(c)
    \/ ReadCurConfig(c) \/ ReadCurConfigFails(c) \/ LoadSetting(c)
    \/ GetFails(c) \/ GetReturns(c)

-----------------------------------------------------------------------------
(* doFactoryResetTask with PsmSysroResetToFactoryDefault                   *)

ResetBegin ==
    /\ Step(Reset, "begin", "stop")
    /\ bNoSave' = TRUE
    /\ UNCHANGED <<mem, files, locks, bNeedFlush, bSaveInProgress, recent, timerOn,
                   FileSyncRefCount, serving, snap, owed>>

ResetStop ==
    /\ Step(Reset, "stop", "unlink_cur")
    /\ timerOn' = FALSE
    /\ UNCHANGED <<mem, files, locks, bNoSave, bNeedFlush, bSaveInProgress, recent,
                   FileSyncRefCount, serving, snap, owed>>

UnlinkCur ==
    /\ Step(Reset, "unlink_cur", "unlink_bak")
    /\ cur' = Missing
    /\ UNCHANGED <<mem, bak, locks, flags, FileSyncRefCount, serving, snap, owed>>

\* The status is that of the second unlink, and only on success the task
\* asks for the reboot.
UnlinkBak ==
    /\ Step(Reset, "unlink_bak", IF bak # Missing THEN "reboot" ELSE "given_up")
    /\ bak' = Missing
    /\ UNCHANGED <<mem, cur, locks, flags, FileSyncRefCount, serving, snap, owed>>

ResetStep == ResetBegin \/ ResetStop \/ UnlinkCur \/ UnlinkBak

-----------------------------------------------------------------------------
(* The end of the process                                                  *)

\* SIGTERM interrupts the main thread, in its idle loop or in Engage.
Term ==
    /\ pc[Main] \in {"read", "load", "loaded", "serving"}
    /\ Goto(Main, "flash")
    /\ owed' = {IF serving THEN mem ELSE FileValue}
    /\ UNCHANGED <<mem, files, locks, flags, FileSyncRefCount, serving, snap>>

\* All that is left of a process: its files.
Gone ==
    /\ mem' = Absent
    /\ AccessLock' = Free /\ ThreadLock' = Free
    /\ bNoSave' = TRUE /\ bNeedFlush' = FALSE /\ bSaveInProgress' = FALSE
    /\ recent' = FALSE /\ timerOn' = FALSE
    /\ FileSyncRefCount' = 0 /\ serving' = FALSE
    /\ pc' = [p \in Procs |-> IF p \in Clients \cup {Timer} THEN "idle" ELSE "off"]
    /\ snap' = [p \in Procs |-> Absent]
    /\ owed' = {}

Exit == At(Main, "exit") /\ Gone /\ UNCHANGED files

\* SIGINT, SIGUSR2, a fatal signal: nothing is saved.
Die == Up /\ Gone /\ UNCHANGED files

\* A power loss also takes the current file of the HAL build (it is in /tmp).
PowerLoss ==
    /\ Up /\ Gone
    /\ cur' = IF Hal THEN Missing ELSE cur
    /\ UNCHANGED bak

MainStep ==
    \/ Engage \/ ReadCurConfig(Main) \/ ReadCurConfigFails(Main) \/ LoadSetting(Main)
    \/ Engaged \/ FlashStep(Main) \/ Exit

Next ==
    \/ MainStep \/ TimerStep \/ ResetStep \/ DelayPasses
    \/ \E c \in Clients : Request(c) \/ Handle(c) \/ HandlerReturns(c)
    \/ Term \/ Die \/ PowerLoss

Spec == Init /\ [][Next]_vars

\* The operating system runs the threads, a handler that was entered works
\* through its finite list of parameters, and the flush delay passes.  No
\* request, signal or power loss is ever owed.  A thread may overtake another
\* one at a lock again and again.
FairSpec ==
    /\ Spec
    /\ WF_vars(MainStep) /\ WF_vars(TimerStep) /\ WF_vars(ResetStep)
    /\ WF_vars(DelayPasses)
    /\ \A c \in Clients : WF_vars(Handle(c)) /\ SF_vars(HandlerReturns(c))

-----------------------------------------------------------------------------
(* Properties                                                              *)

ClientPCs == {"idle", "param", "notify", "sync_on", "sync_off", "flash", "flash_lock", "resume", "start",
              "read", "load", "get", "get_exit"} \cup SavePCs
MainPCs == {"off", "read", "load", "loaded", "serving", "flash", "flash_lock", "exit"}
             \cup SavePCs
TimerPCs == {"idle", "lock"} \cup SavePCs
ResetPCs == {"off", "begin", "stop", "unlink_cur", "unlink_bak", "reboot", "given_up"}

LabelsOK ==
    /\ pc \in [Procs -> ClientPCs \cup MainPCs \cup TimerPCs \cup ResetPCs]
    /\ pc[Main] \in MainPCs /\ pc[Timer] \in TimerPCs /\ pc[Reset] \in ResetPCs
    /\ \A c \in Clients : pc[c] \in ClientPCs

SettingsOK ==
    /\ mem \in Settings
    /\ cur \in Settings \cup {Missing} /\ bak \in Settings \cup {Missing}
    /\ snap \in [Procs -> Settings] /\ owed \subseteq Settings

FlagsOK ==
    /\ bNoSave \in BOOLEAN /\ bNeedFlush \in BOOLEAN /\ bSaveInProgress \in BOOLEAN
    /\ recent \in BOOLEAN /\ timerOn \in BOOLEAN /\ serving \in BOOLEAN

LocksOK == AccessLock \in Procs \cup {Free} /\ ThreadLock \in Procs \cup {Free}

TypeOK == LabelsOK /\ SettingsOK /\ FlagsOK /\ LocksOK /\ FileSyncRefCount \in 0..(RefModulus - 1)

\* The labels at which a thread runs with the lock in its hands.
WithAccessLock(p, l) == l \in SavePCs \/ (p = Timer /\ l = "lock")
WithThreadLock(p, l) == IF p \in Clients THEN l \notin {"idle", "get_exit"}
                        ELSE p = Timer /\ l \in SavePCs

AccessLockHeld == \A p \in Procs : WithAccessLock(p, pc[p]) <=> AccessLock = p
ThreadLockHeld == \A p \in Procs : WithThreadLock(p, pc[p]) <=> ThreadLock = p
SaveFlagExact == bSaveInProgress <=> \E p \in Procs : pc[p] \in SavePCs

\* At most one thread is between taking a snapshot of the tree and clearing
\* the flags after the save, and at most one handler or timer is inside the
\* thread lock; bSaveInProgress tells exactly whether a save is under way.
LocksExclude == AccessLockHeld /\ ThreadLockHeld /\ SaveFlagExact

\* The part of it that the access lock sees to.
SaveLockHeld == AccessLockHeld /\ SaveFlagExact

\* While PSM serves, a change that is not in the files yet will be: the flush
\* flag is up, or a thread is on the way to put it up or to load the files.
\* (bNoSave, during a shutdown, a reload or a reset, suspends this.)
LagIsScheduled ==
    At(Main, "serving") /\ At(Reset, "off") /\ ~bNoSave /\ FileValue # mem =>
        bNeedFlush \/ \E c \in Clients : pc[c] \in {"notify", "start", "read", "load"}

\* What the timer writes is the tree as it is when the write happens: no
\* change is flushed half, or lost by clearing the flag that it had set.
TimerSavesTheTree == pc[Timer] \in {"write", "saved"} => snap[Timer] = mem

\* When the timer clears the flush flag, the files have what the tree has.
FlushStores == At(Timer, "saved") /\ At(Reset, "off") => FileValue = mem

\* A PSM that was serving and gets SIGTERM leaves behind the settings it had
\* when the signal came, or what was set after that, unless a factory reset
\* is under way ("so settings aren't lost", the SIGTERM case of sig_handler).
TermSavesSettings ==
    At(Main, "exit") /\ serving /\ At(Reset, "off") => FileValue \in owed

\* The same for a SIGTERM during the start.
TermKeepsSettings == At(Main, "exit") /\ At(Reset, "off") => FileValue \in owed

\* A save that left the current file without what it was to store, or a start
\* that loaded nothing: both are only logged.
FaultSeen ==
    \/ \E p \in Savers : At(p, "saved") /\ cur # snap[p]
    \/ At(Main, "loaded") /\ mem = Absent

\* When PSM goes on serving and nobody uses it any more, the files and the
\* tree agree in the end and stay so: RegTimerInvoke tries a failed save no
\* second time, so this is for behaviours in which none failed.
Quiet ==
    /\ At(Main, "serving") /\ At(Reset, "off") /\ FileSyncRefCount = 0
    /\ \A c \in Clients : At(c, "idle")

QuietIsFlushed == <>[]Quiet => <>FaultSeen \/ <>[](FileValue = mem)

\* A handler that was entered returns, whatever fails meanwhile.
EveryRequestEnds == \A c \in Clients : ~At(c, "idle") ~> At(c, "idle")

\* What the threads amount to for a client, to whom only the setting and the
\* fate of the process show.
Life ==
    IF At(Main, "off") THEN "down"
    ELSE IF pc[Main] \in {"read", "load", "loaded"} THEN "starting"
    ELSE IF At(Main, "serving") THEN "serving"
    ELSE IF serving THEN "closing" ELSE "aborted"

Changing == {c \in Clients : At(c, "notify")}
Since == IF serving THEN owed ELSE {}

\* A reset that was cut short, or a save into the middle of one, leaves the HAL
\* build two different files until the next load.
Unpaired == Hal /\ cur # Missing /\ bak # cur
Unsettled == ~At(Reset, "off") \/ Unpaired

W == INSTANCE WriteBack WITH
    Default <- 0, Nothing <- Absent,
    value <- mem, stored <- FileValue, changing <- Changing,
    life <- Life, since <- Since, unsettled <- Unsettled

\* The registry writes back what its clients set: only they change the setting,
\* a reload is invisible, no flush brings an earlier setting back, whoever
\* makes it, and a start serves what was stored last.
WritesBack == W!Spec

\* Once a factory reset is complete, a restart finds the factory default.
ResetSticks == pc[Reset] \in {"reboot", "given_up"} => FileValue = 0

\* The lock a thread asks for at its label, and the thread it waits for there.
\* (A request may come at any time, and so may a firing of the timer.)
AsksAccessLock(p) == pc[p] \in {"flash_lock", "sync_on", "sync_off"} \/ (p = Timer /\ At(p, "idle"))
AsksThreadLock(p) == (p = Timer /\ At(p, "lock")) \/ (p \in Clients /\ At(p, "idle"))

WaitsFor(p, q) ==
    \/ AsksAccessLock(p) /\ AccessLock = q
    \/ AsksThreadLock(p) /\ ThreadLock = q

\* A thread that goes on by itself, to where it releases what it holds.
Works(p) ==
    /\ pc[p] \notin {"off", "serving", "reboot", "given_up"}
    /\ \A q \in Procs : ~WaitsFor(p, q)

LockCycle == \E c \in Clients : WaitsFor(c, Timer) /\ WaitsFor(Timer, c)

\* The timer and one handler that wait for each other are the only deadlock:
\* else whoever waits for a lock waits for a thread that works, or for one
\* that waits for such a thread.
OnlyLockCycle ==
    ~LockCycle => \A p, q \in Procs :
        WaitsFor(p, q) => Works(q) \/ \E r \in Procs : WaitsFor(q, r) /\ Works(r)

\* The timer, which takes the access lock first, and a handler, which takes
\* the thread lock first, never wait for each other.
NoLockCycle ==
    At(Timer, "lock") => \A c \in Clients : pc[c] \notin {"sync_on", "sync_off", "flash_lock"}

=============================================================================
