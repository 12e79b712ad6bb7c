------------------------------ MODULE CfmBase ------------------------------
(***************************************************************************)
(* The registry's own configuration-file interface (psm_sysro_cfmif.c):    *)
(* PsmSysroCfmReadCurConfig and PsmSysroCfmSaveCurConfig with backup_file, *)
(* one step per system call that changes a file, so that the process may   *)
(* stop between any two of them.  One call runs at a time (the registry's  *)
(* AccessLock, see SysRegistry).                                           *)
(***************************************************************************)
EXTENDS ConfigFiles

VARIABLES
    cur, bak,   \* contents of the current and of the backup file
    pc,         \* where the call in progress is; "off": no process
    attempt,    \* the loop counter i of ReadCurConfig
    buf,        \* pCfgBuffer: to be saved, or what was loaded
    status,     \* what the last call returned
    older       \* history: what a start would have loaded before the last save

vars == <<cur, bak, pc, attempt, buf, status, older>>

SavePCs == {"backup", "backup_write", "backup_rest", "open", "write", "write_rest"}
ReadPCs == {"test", "copy", "copy_write", "copy_rest"}
PCs == {"off", "ready", "reset"} \cup SavePCs \cup ReadPCs

\* What ReadCurConfig would find if the process started now.
Recovered == IF Intact(cur) THEN cur ELSE IF Intact(bak) THEN bak ELSE Default

Init ==
    /\ cur = Missing /\ bak = Missing
    /\ pc = "off" /\ attempt = 0
    /\ buf = Missing /\ status = "none"
    /\ older = Default

Goto(from, to) == pc = from /\ pc' = to

-----------------------------------------------------------------------------
(* PsmSysroCfmReadCurConfig                                                *)

\* The file the copy of this attempt is made from: the backup at i = 1, the
\* factory default at i = 2.
Source == IF attempt = 1 THEN bak ELSE Default

Start ==
    /\ Goto("off", "test")
    /\ attempt' = 0
    /\ UNCHANGED <<cur, bak, buf, status, older>>

ReadOk ==
    /\ Goto("test", "ready")
    /\ Intact(cur)
    /\ buf' = cur /\ status' = "success" /\ attempt' = 0
    /\ UNCHANGED <<cur, bak, older>>

\* Slips of ReadNext that a run must notice: the loop bound missing, and a
\* backup that is tried again after it failed.
ReadNextUnbounded ==
    /\ Goto("test", "copy")
    /\ ~Intact(cur)
    /\ attempt' = attempt + 1
    /\ UNCHANGED <<cur, bak, buf, status, older>>

ReadNextForever ==
    /\ Goto("test", "copy")
    /\ ~Intact(cur) \/ IoFaults
    /\ attempt' = IF bak # Missing THEN 1 ELSE 2
    /\ UNCHANGED <<cur, bak, buf, status, older>>

\* The current file is of no use: go on with the backup, or with the factory
\* default when the backup cannot even be opened.
ReadNext ==
    /\ Goto("test", "copy")
    /\ ~Intact(cur) \/ IoFaults
    /\ attempt < 2
    /\ \/ attempt = 0 /\ bak # Missing /\ attempt' = 1
       \/ (attempt = 1 \/ bak = Missing \/ IoFaults) /\ attempt' = 2
    /\ UNCHANGED <<cur, bak, buf, status, older>>

\* A slip: the loop ends before the factory default was tried.
ReadFailEarly ==
    /\ Goto("test", "ready")
    /\ ~Intact(cur)
    /\ attempt > 0
    /\ buf' = Missing /\ status' = "failure" /\ attempt' = 0
    /\ UNCHANGED <<cur, bak, older>>

\* All three attempts were in vain (i >= 3).
ReadFail ==
    /\ Goto("test", "ready")
    /\ ~Intact(cur) \/ IoFaults
    /\ attempt = 2
    /\ buf' = Missing /\ status' = "failure" /\ attempt' = 0
    /\ UNCHANGED <<cur, bak, older>>

\* A slip: source and destination of the copy exchanged.
CopyExchanged ==
    /\ Goto("copy", "copy_write")
    /\ bak' = Empty
    /\ UNCHANGED <<cur, attempt, buf, status, older>>

\* AnscCopyFile over the current file; its result is not looked at.
CopyTruncate ==
    /\ Goto("copy", "copy_write")
    /\ cur' = Empty
    /\ UNCHANGED <<bak, attempt, buf, status, older>>

CopyWrite ==
    /\ pc = "copy_write"
    /\ \/ Source # Empty /\ cur' = Torn /\ pc' = "copy_rest"
       \/ Source = Empty /\ UNCHANGED cur /\ pc' = "test"
    /\ UNCHANGED <<bak, attempt, buf, status, older>>

CopyRest ==
    /\ Goto("copy_rest", "test")
    /\ cur' = Source
    /\ UNCHANGED <<bak, attempt, buf, status, older>>

CopyFault ==
    /\ IoFaults
    /\ pc \in {"copy", "copy_write", "copy_rest"} /\ pc' = "test"
    /\ UNCHANGED <<cur, bak, attempt, buf, status, older>>

Read == Start \/ ReadOk \/ ReadNext \/ ReadFail
        \/ CopyTruncate \/ CopyWrite \/ CopyRest \/ CopyFault

-----------------------------------------------------------------------------
(* PsmSysroCfmSaveCurConfig; backup_file(bak, cur) comes first             *)

\* A slip: the backup comes after the write.
SaveUnbacked(c) ==
    /\ Goto("ready", "open")
    /\ buf' = c
    /\ UNCHANGED <<cur, bak, attempt, status, older>>

Save(c) ==
    /\ Goto("ready", "backup")
    /\ buf' = c
    /\ UNCHANGED <<cur, bak, attempt, status, older>>

\* backup_file returns before creat(); the caller only logs it.
BackupSkip ==
    /\ Goto("backup", "open")
    /\ ~Copyable(cur) \/ IoFaults
    /\ UNCHANGED <<cur, bak, attempt, buf, status, older>>

BackupTruncate ==
    /\ Goto("backup", "backup_write")
    /\ Copyable(cur)
    /\ bak' = Empty
    /\ UNCHANGED <<cur, attempt, buf, status, older>>

BackupWrite ==
    /\ Goto("backup_write", "backup_rest")
    /\ bak' = Torn
    /\ UNCHANGED <<cur, attempt, buf, status, older>>

BackupRest ==
    /\ Goto("backup_rest", "open")
    /\ bak' = cur
    /\ UNCHANGED <<cur, attempt, buf, status, older>>

\* A short write to the backup: logged, and the save goes on.
BackupFault ==
    /\ IoFaults
    /\ pc \in {"backup_write", "backup_rest"} /\ pc' = "open"
    /\ UNCHANGED <<cur, bak, attempt, buf, status, older>>

\* A slip: the current file is opened with the CREATE flag.
OpenCurCreate ==
    /\ Goto("open", "write")
    /\ cur' = Empty
    /\ UNCHANGED <<bak, attempt, buf, status, older>>

\* AnscOpenFile(WRITE | TRUNC), without the CREATE flag: it truncates the
\* file that is there and fails when there is none.
OpenCur ==
    /\ Goto("open", "write")
    /\ cur # Missing
    /\ cur' = Empty
    /\ UNCHANGED <<bak, attempt, buf, status, older>>

OpenFail ==
    /\ Goto("open", "ready")
    /\ cur = Missing \/ IoFaults
    /\ status' = "failure"
    /\ UNCHANGED <<cur, bak, attempt, buf, older>>

WriteCur ==
    /\ Goto("write", "write_rest")
    /\ cur' = Torn
    /\ UNCHANGED <<bak, attempt, buf, status, older>>

WriteRest ==
    /\ Goto("write_rest", "ready")
    /\ cur' = buf /\ status' = "success"
    /\ older' = Recovered
    /\ UNCHANGED <<bak, attempt, buf>>

\* A slip: the result of AnscWriteFile is dropped.
WriteFaultUnnoticed ==
    /\ IoFaults
    /\ pc \in {"write", "write_rest"} /\ pc' = "ready"
    /\ status' = "success"
    /\ UNCHANGED <<cur, bak, attempt, buf, older>>

WriteFault ==
    /\ IoFaults
    /\ pc \in {"write", "write_rest"} /\ pc' = "ready"
    /\ status' = "failure"
    /\ UNCHANGED <<cur, bak, attempt, buf, older>>

SaveStep == BackupSkip \/ BackupTruncate \/ BackupWrite \/ BackupRest \/ BackupFault
            \/ OpenCur \/ OpenFail \/ WriteCur \/ WriteRest \/ WriteFault

-----------------------------------------------------------------------------
(* PsmSysroResetToFactoryDefault: the two unlink calls.  (Here no save is  *)
(* under way; SysRegistry has the reset race with one.)  The status is     *)
(* that of the second unlink.                                              *)

UnlinkCur ==
    /\ Goto("ready", "reset")
    /\ cur' = Missing
    /\ UNCHANGED <<bak, attempt, buf, status, older>>

UnlinkBak ==
    /\ Goto("reset", "ready")
    /\ bak' = Missing
    /\ status' = IF bak = Missing THEN "failure" ELSE "success"
    /\ UNCHANGED <<cur, attempt, buf, older>>

\* Power loss, a kill, or an exit that does not save: memory is gone, the
\* files stay as the last completed system call left them.
Crash ==
    /\ pc # "off" /\ pc' = "off"
    /\ buf' = Missing /\ status' = "none" /\ attempt' = 0
    /\ UNCHANGED <<cur, bak, older>>

Next == Read \/ (\E c \in Config : Save(c)) \/ SaveStep
        \/ UnlinkCur \/ UnlinkBak \/ Crash

Spec == Init /\ [][Next]_vars

\* A call that was begun goes on; nothing obliges anyone to begin one.
FairSpec == Spec /\ WF_vars(Read) /\ WF_vars(SaveStep) /\ WF_vars(UnlinkBak)

-----------------------------------------------------------------------------
(* Properties                                                              *)

TypeOK ==
    /\ cur \in Content /\ bak \in Content
    /\ pc \in PCs /\ attempt \in 0..2
    /\ buf \in Config \cup {Missing}
    /\ status \in {"none", "success", "failure"}
    /\ older \in Config

\* Which of the two files can be relied on, phase by phase, when no I/O call
\* fails.  Together with TypeOK it is inductive (CfmBaseProofs).
FilesOK ==
    /\ pc = "ready" \/ pc = "backup" => Intact(cur) \/ (cur = Missing /\ bak = Missing)
    /\ pc = "backup_write" \/ pc = "backup_rest" => Intact(cur)
    /\ pc = "open" => cur = bak /\ (Intact(cur) \/ cur = Missing)
    /\ pc = "write" \/ pc = "write_rest" => ~Intact(cur) /\ Intact(bak)
    /\ pc = "reset" => cur = Missing

RecoveryOK ==
    /\ pc = "test" => \/ attempt = 0
                      \/ attempt = 1 /\ cur = bak
                      \/ attempt = 2 /\ Intact(cur) /\ cur = Default /\ ~Intact(bak)
    /\ pc \in {"copy", "copy_write", "copy_rest"} =>
            ~Intact(cur) /\ (attempt = 1 \/ (attempt = 2 /\ ~Intact(bak)))
    /\ pc = "copy_write" => cur = Empty

HistoryOK ==
    /\ pc \in SavePCs => buf \in Config
    /\ Intact(cur) /\ Intact(bak) => bak = cur \/ bak = older

IInv == TypeOK /\ FilesOK /\ RecoveryOK /\ HistoryOK

\* Without I/O faults the two files, written in place and one after the
\* other, are one crash-safe register: a save takes effect at one instant,
\* and a crash between any two system calls of a save or of a recovery
\* changes nothing that the next start will load (psm_sysro_cfmif.c's
\* backup-then-overwrite order).
D == INSTANCE DurableConfig WITH
        store     <- Recovered,
        request   <- IF pc \in SavePCs THEN buf ELSE Missing,
        previous  <- older,
        NoRequest <- Missing

Durable == D!Spec

\* As long as one of the two files is whole, one stays whole: only the two
\* unlinks of a factory reset may leave none (the counter-measures that
\* psm_sysro_cfmif.c describes in ReadCurConfig and in SaveCurConfig).
KeepsOneIntact ==
    [][(Intact(cur) \/ Intact(bak)) /\ pc \notin {"ready", "reset"}
            => (Intact(cur') \/ Intact(bak'))]_vars

\* What ReadCurConfig hands to the loader is what the files promised when
\* the process started, whatever crashed recoveries came before.
LoadsWhatSurvived ==
    [][(pc \in ReadPCs /\ pc' = "ready") => (buf' = Recovered)]_vars

\* After a factory reset no save of the same process brings a file back:
\* backup_file has nothing to copy, and the current file is opened without
\* the CREATE flag (PsmSysroResetToFactoryDefault asks for exactly that).
ResetStays ==
    [][(cur = Missing /\ bak = Missing /\ pc \in SavePCs \cup {"ready"})
            => (cur' = Missing /\ bak' = Missing)]_vars

\* Also with I/O faults, a save that returns success is what the next start
\* will load: a failed backup may be ignored, a failed write may not.
SuccessIsDurable ==
    [][(pc \in SavePCs /\ pc' = "ready" /\ status' = "success") => (Recovered' = buf)]_vars

\* Every call returns, with or without faults: the recovery loop does not
\* try the same file for ever.
EveryCallEnds == pc \in ReadPCs \cup SavePCs ~> pc \in {"ready", "off"}

=============================================================================
