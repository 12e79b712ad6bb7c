------------------------- MODULE SysRegistryProofs -------------------------
(***************************************************************************)
(* Theorems about SysRegistry, for every set of clients and operations,    *)
(* every range of values and both builds.  What the thread lock guards     *)
(* needs a thread lock that only its holder can release (ForeignUnlock =   *)
(* FALSE); what the access lock guards does not.                           *)
(***************************************************************************)
EXTENDS SysRegistry, TLAPS

Loaders == Clients \cup {Main}

\* Next, one disjunct per action.
LEMMA NextActions ==
    ASSUME Next
    PROVE  \/ Engage \/ Engaged \/ Exit
           \/ \E p \in Loaders : ReadCurConfig(p) \/ ReadCurConfigFails(p) \/ LoadSetting(p)
           \/ \E p \in Savers : Encode(p) \/ SaveCurConfig(p)
           \/ \E p \in Loaders : FlashBegin(p) \/ FlashLock(p) \/ FlashDone(p)
           \/ TimerFires \/ TimerSaves \/ TimerSkips \/ TimerDone \/ DelayPasses
           \/ \E c \in Clients : HandlerBegins(c) \/ GetBegins(c) \/ GetFails(c) \/ GetReturns(c)
           \/ \E c \in Clients, v \in Settings :
                  ChangeRecord(c, v) /\ (v = Absent => "delete" \in Ops)
           \/ \E c \in Clients : SysRamNotify(c) \/ HandlerReturns(c)
           \/ \E c \in Clients, b \in BOOLEAN : DisableWriting(c, b) \/ EnableFileSync(c, b)
           \/ \E c \in Clients : Reload(c) \/ ReloadResumes(c) \/ ReloadStarts(c) \/ SpawnReset(c)
           \/ ResetBegin \/ ResetStop \/ UnlinkCur \/ UnlinkBak
           \/ Term \/ Die \/ PowerLoss
<1>1. CASE MainStep
  BY <1>1 DEF MainStep, FlashStep, Loaders, Savers
<1>2. CASE TimerStep
  BY <1>2 DEF TimerStep, Savers
<1>3. CASE ResetStep
  BY <1>3 DEF ResetStep
<1>4. CASE \E c \in Clients : Request(c)
  <2>1. PICK c \in Clients : Request(c)
    BY <1>4
  <2>2. CASE DelRecord(c) \/ \E v \in Values : AddRecord2(c, v)
    <3>1. Absent \in Settings /\ Values \subseteq Settings /\ Absent \notin Values
      BY SysRegistryAssumption DEF Settings, Values
    <3>2. \E v \in Settings : ChangeRecord(c, v) /\ (v = Absent => "delete" \in Ops)
      BY <2>2, <3>1 DEF DelRecord, AddRecord2
    <3> QED BY <3>2
  <2>3. CASE ~(DelRecord(c) \/ \E v \in Values : AddRecord2(c, v))
    BY <2>1, <2>3 DEF Request
  <2> QED BY <2>2, <2>3
<1>5. CASE \E c \in Clients : Handle(c)
  <2>1. PICK c \in Clients : Handle(c)
    BY <1>5
  <2>2. c \in Loaders /\ c \in Savers
    BY DEF Loaders, Savers
  <2> QED BY <2>1, <2>2 DEF Handle, FlashStep
<1>6. CASE DelayPasses \/ (\E c \in Clients : HandlerReturns(c)) \/ Term \/ Die \/ PowerLoss
  BY <1>6
<1> QED BY <1>1, <1>2, <1>3, <1>4, <1>5, <1>6 DEF Next

-----------------------------------------------------------------------------
(* Types                                                                   *)

\* What the proofs need to know of the constants.
LEMMA Identities ==
    /\ Main # Timer /\ Main # Reset /\ Timer # Reset
    /\ Main \notin Clients /\ Timer \notin Clients /\ Reset \notin Clients
    /\ Free \notin Procs
    /\ Missing \notin Settings /\ Absent \notin Values
    /\ RefModulus \in Nat /\ RefModulus > 1 /\ 0 \in Values
BY SysRegistryAssumption DEF Procs, Settings, Values

\* The labels every thread has before a start and after the end.
Idle == [p \in Procs |-> IF p \in Clients \cup {Timer} THEN "idle" ELSE "off"]

LEMMA IdleType ==
    /\ Idle \in [Procs -> ClientPCs \cup MainPCs \cup TimerPCs \cup ResetPCs]
    /\ Idle[Main] = "off" /\ Idle[Timer] = "idle" /\ Idle[Reset] = "off"
    /\ \A c \in Clients : Idle[c] = "idle"
BY Identities DEF Idle, ClientPCs, MainPCs, TimerPCs, ResetPCs, Procs

LEMMA TypeInit == Init => TypeOK
<1> SUFFICES ASSUME Init PROVE TypeOK
  OBVIOUS
<1>1. pc = Idle
  BY DEF Init, Idle
<1>2. LabelsOK
  BY <1>1, IdleType DEF LabelsOK, ClientPCs, MainPCs, TimerPCs, ResetPCs
<1>3. SettingsOK
  BY DEF Init, SettingsOK, Settings
<1>4. LocksOK /\ FlagsOK
  BY Zenon DEF Init, LocksOK, FlagsOK
<1>5. FileSyncRefCount \in 0..(RefModulus - 1)
  BY Identities DEF Init
<1> QED BY <1>2, <1>3, <1>4, <1>5 DEF TypeOK

\* A step moves one thread, to a label of its own.
LEMMA GotoType ==
    ASSUME LabelsOK, NEW p \in Procs, NEW l, Goto(p, l),
           p \in Clients => l \in ClientPCs, p = Main => l \in MainPCs,
           p = Timer => l \in TimerPCs, p = Reset => l \in ResetPCs
    PROVE  LabelsOK'
<1>1. p \in Clients \/ p = Main \/ p = Timer \/ p = Reset
  BY DEF Procs
<1>2. l \in ClientPCs \cup MainPCs \cup TimerPCs \cup ResetPCs
  BY <1>1
<1> QED BY <1>1, <1>2, Identities DEF Goto, LabelsOK, Procs

LEMMA LabelsStep == ASSUME TypeOK, Next PROVE LabelsOK'
<1> USE DEF TypeOK, Step, SavePCs
<1>1. ASSUME NEW p \in Loaders,
             ReadCurConfig(p) \/ ReadCurConfigFails(p) \/ LoadSetting(p)
                \/ FlashBegin(p) \/ FlashLock(p) \/ FlashDone(p)
      PROVE  LabelsOK'
  <2>1. p \in Procs /\ p # Timer /\ p # Reset /\ (p = Main \/ p \in Clients)
    BY Identities DEF Loaders, Procs
  <2>2. \E l : /\ Goto(p, l)
               /\ p \in Clients => l \in ClientPCs
               /\ p = Main => l \in MainPCs
    BY <1>1, <2>1, Identities DEF ReadCurConfig, ReadCurConfigFails, LoadSetting, FlashBegin,
       FlashLock, FlashDone, ClientPCs, MainPCs
  <2> QED BY <2>1, <2>2, GotoType
<1>2. ASSUME NEW p \in Savers, Encode(p) \/ SaveCurConfig(p)
      PROVE  LabelsOK'
  <2>1. p \in Procs /\ p # Reset
    BY Identities DEF Savers, Procs
  <2>2. \E l \in {"write", "saved"} : Goto(p, l)
    BY <1>2 DEF Encode, SaveCurConfig
  <2> QED BY <2>1, <2>2, GotoType DEF ClientPCs, MainPCs, TimerPCs
<1>3. CASE TimerFires \/ TimerSaves \/ TimerSkips \/ TimerDone
  <2>1. \E l \in TimerPCs : Goto(Timer, l)
    BY <1>3 DEF TimerFires, TimerSaves, TimerSkips, TimerDone, TimerPCs
  <2> QED BY <2>1, GotoType, Identities DEF Procs
<1>4. CASE Engage \/ Engaged \/ Term
  <2>1. \E l \in MainPCs : Goto(Main, l)
    BY <1>4 DEF Engage, Engaged, Term, MainPCs
  <2> QED BY <2>1, GotoType, Identities DEF Procs
<1>5. CASE ResetBegin \/ ResetStop \/ UnlinkCur \/ UnlinkBak \/ \E c \in Clients : SpawnReset(c)
  <2>1. \E l \in ResetPCs : Goto(Reset, l)
    BY <1>5 DEF ResetBegin, ResetStop, UnlinkCur, UnlinkBak, SpawnReset, ResetPCs
  <2> QED BY <2>1, GotoType, Identities DEF Procs
<1>6. ASSUME NEW c \in Clients,
             \/ HandlerBegins(c) \/ GetBegins(c) \/ GetFails(c) \/ GetReturns(c)
             \/ \E v \in Settings : ChangeRecord(c, v)
             \/ SysRamNotify(c) \/ HandlerReturns(c)
             \/ \E b \in BOOLEAN : DisableWriting(c, b) \/ EnableFileSync(c, b)
             \/ Reload(c) \/ ReloadResumes(c) \/ ReloadStarts(c)
      PROVE  LabelsOK'
  <2>1. \E l \in ClientPCs : Goto(c, l)
    BY <1>6 DEF HandlerBegins, GetBegins, GetFails, GetReturns, ChangeRecord, SysRamNotify,
       HandlerReturns, DisableWriting, EnableFileSync, Reload, ReloadResumes, ReloadStarts, ClientPCs
  <2> QED BY <2>1, GotoType, Identities DEF Procs
<1>7. CASE Exit \/ Die \/ PowerLoss
  <2>1. pc' = Idle
    BY <1>7 DEF Exit, Die, PowerLoss, Gone, Idle
  <2> QED BY <2>1, IdleType DEF LabelsOK, ClientPCs, MainPCs, TimerPCs, ResetPCs
<1>8. CASE DelayPasses
  BY <1>8 DEF DelayPasses, LabelsOK
<1> QED BY <1>1, <1>2, <1>3, <1>4, <1>5, <1>6, <1>7, <1>8, NextActions

\* The file a start uses holds a setting, or the factory default is taken.
LEMMA FileValueType == SettingsOK => FileValue \in Settings
BY Identities DEF FileValue, SettingsOK, Settings

LEMMA SettingsStep == ASSUME TypeOK, Next PROVE SettingsOK'
<1> USE DEF TypeOK, SettingsOK
<1>1. ASSUME NEW p \in Loaders,
             ReadCurConfig(p) \/ ReadCurConfigFails(p) \/ LoadSetting(p)
      PROVE  SettingsOK'
  <2>1. p \in Procs /\ FileValue \in Settings /\ Absent \in Settings
    BY FileValueType DEF Loaders, Procs, Settings
  <2> QED BY <1>1, <2>1 DEF ReadCurConfig, ReadCurConfigFails, LoadSetting, ReadBack, BufferFreed, files
<1>2. ASSUME NEW p \in Savers, Encode(p) \/ SaveCurConfig(p)
      PROVE  SettingsOK'
  <2>1. p \in Procs
    BY DEF Savers, Procs
  <2> QED BY <1>2, <2>1 DEF Encode, SaveCurConfig, CanSave, Saved, SaveFails, files
<1>3. ASSUME NEW p \in Procs, FlashDone(p)
      PROVE  SettingsOK'
  BY <1>3 DEF FlashDone, BufferFreed, files, Settings
<1>4. ASSUME NEW c \in Clients, NEW v \in Settings, ChangeRecord(c, v)
      PROVE  SettingsOK'
  BY <1>4 DEF ChangeRecord, files
<1>5. CASE TimerDone
  BY <1>5, Identities DEF TimerDone, BufferFreed, files, Settings, Procs
<1>6. CASE UnlinkCur \/ UnlinkBak
  BY <1>6 DEF UnlinkCur, UnlinkBak
<1>7. CASE Term
  BY <1>7, FileValueType DEF Term, files
<1>8. CASE Exit \/ Die \/ PowerLoss
  BY <1>8 DEF Exit, Die, PowerLoss, Gone, files, Settings
<1>9. CASE UNCHANGED <<mem, files, snap, owed>>
  BY <1>9 DEF files
<1>10. ASSUME NEW p, FlashBegin(p) \/ FlashLock(p)
       PROVE  SettingsOK'
  BY <1>10, <1>9 DEF FlashBegin, FlashLock
<1>11. ASSUME \/ Engage \/ Engaged \/ DelayPasses \/ ResetBegin \/ ResetStop
              \/ TimerFires \/ TimerSaves \/ TimerSkips
       PROVE  SettingsOK'
  BY <1>11, <1>9 DEF Engage, Engaged, DelayPasses, ResetBegin, ResetStop, TimerFires, TimerSaves, TimerSkips
<1>12. ASSUME NEW c,
              \/ HandlerBegins(c) \/ GetBegins(c) \/ GetFails(c) \/ GetReturns(c)
              \/ SysRamNotify(c) \/ HandlerReturns(c)
              \/ \E b \in BOOLEAN : DisableWriting(c, b) \/ EnableFileSync(c, b)
              \/ Reload(c) \/ ReloadResumes(c) \/ ReloadStarts(c) \/ SpawnReset(c)
       PROVE  SettingsOK'
  BY <1>12, <1>9 DEF HandlerBegins, GetBegins, GetFails, GetReturns, SysRamNotify,
     HandlerReturns, DisableWriting, EnableFileSync, Reload, ReloadResumes, ReloadStarts, SpawnReset
<1>13. \A p \in Loaders : p \in Procs
  BY DEF Loaders, Procs
<1> QED BY <1>1, <1>2, <1>3, <1>4, <1>5, <1>6, <1>7, <1>8, <1>10, <1>11, <1>12, <1>13, NextActions

LEMMA FlagsStep == ASSUME TypeOK, Next PROVE FlagsOK'
<1> USE DEF TypeOK, FlagsOK
<1>1. ASSUME NEW p, FlashBegin(p) \/ FlashLock(p) \/ FlashDone(p)
      PROVE  FlagsOK'
  BY <1>1, Zenon DEF FlashBegin, FlashLock, FlashDone, SaveDone
<1>2. ASSUME NEW p, LoadSetting(p) \/ SysRamNotify(p)
      PROVE  FlagsOK'
  BY <1>2, Zenon DEF LoadSetting, SysRamNotify, Notified
<1>3. CASE Engage \/ Engaged \/ DelayPasses \/ ResetBegin \/ ResetStop \/ TimerSaves \/ TimerDone
  BY <1>3, Zenon DEF Engage, Engaged, DelayPasses, ResetBegin, ResetStop, TimerSaves, TimerDone, SaveDone
<1>4. ASSUME NEW c, ReloadResumes(c) \/ ReloadStarts(c)
      PROVE  FlagsOK'
  BY <1>4, Zenon DEF ReloadResumes, ReloadStarts
<1>5. CASE Exit \/ Die \/ PowerLoss
  BY <1>5, Zenon DEF Exit, Die, PowerLoss, Gone
<1>6. CASE UNCHANGED <<flags, serving>>
  BY <1>6, Zenon DEF flags
<1>7. CASE TimerFires \/ TimerSkips \/ UnlinkCur \/ UnlinkBak \/ Term
  BY <1>7, <1>6 DEF TimerFires, TimerSkips, UnlinkCur, UnlinkBak, Term
<1>8. ASSUME NEW p, ReadCurConfig(p) \/ ReadCurConfigFails(p) \/ Encode(p) \/ SaveCurConfig(p)
      PROVE  FlagsOK'
  BY <1>8, <1>6 DEF ReadCurConfig, ReadCurConfigFails, Encode, SaveCurConfig
<1>9. ASSUME NEW c,
             \/ HandlerBegins(c) \/ GetBegins(c) \/ GetFails(c) \/ GetReturns(c)
             \/ HandlerReturns(c) \/ Reload(c) \/ SpawnReset(c)
             \/ \E v \in Settings : ChangeRecord(c, v)
             \/ \E b \in BOOLEAN : DisableWriting(c, b) \/ EnableFileSync(c, b)
      PROVE  FlagsOK'
  BY <1>9, <1>6 DEF HandlerBegins, GetBegins, GetFails, GetReturns, HandlerReturns, Reload, SpawnReset,
     ChangeRecord, DisableWriting, EnableFileSync
<1> QED BY <1>1, <1>2, <1>3, <1>4, <1>5, <1>7, <1>8, <1>9, NextActions

LEMMA LocksStep == ASSUME TypeOK, Next PROVE LocksOK'
<1> USE DEF TypeOK, LocksOK
<1>1. ASSUME NEW p \in Loaders, FlashLock(p) \/ FlashDone(p)
      PROVE  LocksOK'
  BY <1>1 DEF FlashLock, FlashDone, Loaders, Procs
<1>2. CASE TimerFires \/ TimerSaves \/ TimerSkips \/ TimerDone
  BY <1>2 DEF TimerFires, TimerSaves, TimerSkips, TimerDone, Procs
<1>3. ASSUME NEW c \in Clients,
             HandlerBegins(c) \/ GetBegins(c) \/ GetFails(c) \/ GetReturns(c) \/ HandlerReturns(c)
      PROVE  LocksOK'
  BY <1>3 DEF HandlerBegins, GetBegins, GetFails, GetReturns, HandlerReturns, RelThreadLock, Procs
<1>4. CASE Exit \/ Die \/ PowerLoss
  BY <1>4 DEF Exit, Die, PowerLoss, Gone
<1>5. CASE UNCHANGED locks
  BY <1>5 DEF locks
<1>6. CASE Engage \/ Engaged \/ DelayPasses \/ ResetBegin \/ ResetStop \/ UnlinkCur \/ UnlinkBak \/ Term
  BY <1>6, <1>5 DEF Engage, Engaged, DelayPasses, ResetBegin, ResetStop, UnlinkCur, UnlinkBak, Term, locks
<1>7. ASSUME NEW p,
             \/ ReadCurConfig(p) \/ ReadCurConfigFails(p) \/ LoadSetting(p)
             \/ Encode(p) \/ SaveCurConfig(p) \/ FlashBegin(p)
      PROVE  LocksOK'
  BY <1>7, <1>5 DEF ReadCurConfig, ReadCurConfigFails, LoadSetting, Encode, SaveCurConfig, FlashBegin
<1>8. ASSUME NEW c,
             \/ SysRamNotify(c) \/ Reload(c) \/ SpawnReset(c) \/ ReloadResumes(c) \/ ReloadStarts(c)
             \/ \E v \in Settings : ChangeRecord(c, v)
             \/ \E b \in BOOLEAN : DisableWriting(c, b) \/ EnableFileSync(c, b)
      PROVE  LocksOK'
  BY <1>8, <1>5 DEF SysRamNotify, Reload, SpawnReset, ReloadResumes, ReloadStarts,
     ChangeRecord, DisableWriting, EnableFileSync
<1> QED BY <1>1, <1>2, <1>3, <1>4, <1>6, <1>7, <1>8, NextActions

\* The count is an unsigned word.
LEMMA WrapType ==
    ASSUME NEW n \in Nat
    PROVE  n % RefModulus \in 0..(RefModulus - 1)
BY Identities

LEMMA CountStep ==
    ASSUME TypeOK, Next
    PROVE  FileSyncRefCount' \in 0..(RefModulus - 1)
<1> USE DEF TypeOK
<1>1. ASSUME NEW c \in Clients, NEW b \in BOOLEAN, EnableFileSync(c, b)
      PROVE  FileSyncRefCount' \in 0..(RefModulus - 1)
  <2>1. FileSyncRefCount + (IF b THEN RefModulus - 1 ELSE 1) \in Nat
    BY Identities
  <2> QED BY <1>1, <2>1, WrapType DEF EnableFileSync
<1>2. CASE Exit \/ Die \/ PowerLoss
  BY <1>2, Identities DEF Exit, Die, PowerLoss, Gone
<1>3. CASE UNCHANGED FileSyncRefCount
  BY <1>3
<1>4. CASE \/ Engage \/ Engaged \/ DelayPasses \/ TimerFires \/ TimerSaves \/ TimerSkips \/ TimerDone
           \/ ResetBegin \/ ResetStop \/ UnlinkCur \/ UnlinkBak \/ Term
  BY <1>4, <1>3 DEF Engage, Engaged, DelayPasses, TimerFires, TimerSaves, TimerSkips, TimerDone,
     ResetBegin, ResetStop, UnlinkCur, UnlinkBak, Term
<1>5. ASSUME NEW p,
             \/ ReadCurConfig(p) \/ ReadCurConfigFails(p) \/ LoadSetting(p)
             \/ Encode(p) \/ SaveCurConfig(p)
             \/ FlashBegin(p) \/ FlashLock(p) \/ FlashDone(p)
      PROVE  FileSyncRefCount' \in 0..(RefModulus - 1)
  BY <1>5, <1>3 DEF ReadCurConfig, ReadCurConfigFails, LoadSetting, Encode, SaveCurConfig,
     FlashBegin, FlashLock, FlashDone
<1>6. ASSUME NEW c,
             \/ HandlerBegins(c) \/ GetBegins(c) \/ GetFails(c) \/ GetReturns(c) \/ HandlerReturns(c)
             \/ SysRamNotify(c) \/ Reload(c) \/ SpawnReset(c) \/ ReloadResumes(c) \/ ReloadStarts(c)
             \/ \E v \in Settings : ChangeRecord(c, v)
             \/ \E b \in BOOLEAN : DisableWriting(c, b)
      PROVE  FileSyncRefCount' \in 0..(RefModulus - 1)
  BY <1>6, <1>3 DEF HandlerBegins, GetBegins, GetFails, GetReturns, HandlerReturns, SysRamNotify, Reload,
     SpawnReset, ReloadResumes, ReloadStarts, ChangeRecord, DisableWriting
<1> QED BY <1>1, <1>2, <1>4, <1>5, <1>6, NextActions

LEMMA TypeStep == TypeOK /\ [Next]_vars => TypeOK'
<1>1. ASSUME TypeOK, Next PROVE TypeOK'
  BY <1>1, LabelsStep, SettingsStep, FlagsStep, LocksStep, CountStep DEF TypeOK
<1>2. ASSUME TypeOK, UNCHANGED vars PROVE TypeOK'
  <2>1. UNCHANGED <<pc, mem, files, snap, owed, flags, serving, locks, FileSyncRefCount>>
    BY <1>2 DEF vars
  <2>2. LabelsOK' /\ SettingsOK'
    BY <1>2, <2>1 DEF TypeOK, LabelsOK, SettingsOK, files
  <2>3. FlagsOK' /\ LocksOK'
    BY <1>2, <2>1, Zenon DEF TypeOK, FlagsOK, LocksOK, flags, locks
  <2> QED BY <1>2, <2>1, <2>2, <2>3 DEF TypeOK
<1> QED BY <1>1, <1>2

\* Every reachable state of the registry is well typed; the count of the
\* file sync stays inside its unsigned word.
THEOREM TypeCorrect == Spec => []TypeOK
BY TypeInit, TypeStep, PTL DEF Spec

-----------------------------------------------------------------------------
(* Mutual exclusion                                                        *)

\* What moving one thread does to the three parts of LocksExclude.
LEMMA AccessKept ==
    ASSUME LabelsOK, AccessLockHeld, NEW p \in Procs, NEW l, Goto(p, l), UNCHANGED AccessLock,
           WithAccessLock(p, pc[p]) <=> WithAccessLock(p, l)
    PROVE  AccessLockHeld'
BY DEF LabelsOK, AccessLockHeld, Goto, WithAccessLock

LEMMA AccessTaken ==
    ASSUME LabelsOK, AccessLockHeld, NEW p \in Procs, NEW l, Goto(p, l),
           AccessLock = Free, AccessLock' = p, WithAccessLock(p, l)
    PROVE  AccessLockHeld'
BY Identities DEF LabelsOK, AccessLockHeld, Goto, WithAccessLock

LEMMA AccessDropped ==
    ASSUME LabelsOK, AccessLockHeld, NEW p \in Procs, NEW l, Goto(p, l),
           WithAccessLock(p, pc[p]), AccessLock' = Free, ~WithAccessLock(p, l)
    PROVE  AccessLockHeld'
BY Identities DEF LabelsOK, AccessLockHeld, Goto, WithAccessLock

LEMMA ThreadKept ==
    ASSUME LabelsOK, ThreadLockHeld, NEW p \in Procs, NEW l, Goto(p, l), UNCHANGED ThreadLock,
           WithThreadLock(p, pc[p]) <=> WithThreadLock(p, l)
    PROVE  ThreadLockHeld'
BY DEF LabelsOK, ThreadLockHeld, Goto, WithThreadLock

LEMMA ThreadTaken ==
    ASSUME LabelsOK, ThreadLockHeld, NEW p \in Procs, NEW l, Goto(p, l),
           ThreadLock = Free, ThreadLock' = p, WithThreadLock(p, l)
    PROVE  ThreadLockHeld'
BY Identities DEF LabelsOK, ThreadLockHeld, Goto, WithThreadLock

LEMMA ThreadDropped ==
    ASSUME LabelsOK, ThreadLockHeld, NEW p \in Procs, NEW l, Goto(p, l),
           WithThreadLock(p, pc[p]), ThreadLock' = Free, ~WithThreadLock(p, l)
    PROVE  ThreadLockHeld'
BY Identities DEF LabelsOK, ThreadLockHeld, Goto, WithThreadLock

LEMMA SaveKept ==
    ASSUME LabelsOK, SaveFlagExact, NEW p \in Procs, NEW l, Goto(p, l), UNCHANGED bSaveInProgress,
           pc[p] \in SavePCs <=> l \in SavePCs
    PROVE  SaveFlagExact'
BY DEF LabelsOK, SaveFlagExact, Goto

LEMMA SaveBegun ==
    ASSUME LabelsOK, NEW p \in Procs, NEW l, Goto(p, l), bSaveInProgress' = TRUE, l \in SavePCs
    PROVE  SaveFlagExact'
BY DEF LabelsOK, SaveFlagExact, Goto

LEMMA SaveEnded ==
    ASSUME LabelsOK, AccessLockHeld, NEW p \in Procs, NEW l, Goto(p, l),
           pc[p] \in SavePCs, bSaveInProgress' = FALSE, l \notin SavePCs
    PROVE  SaveFlagExact'
<1>1. \A q \in Procs : pc[q] \in SavePCs => q = p
  BY DEF AccessLockHeld, WithAccessLock
<1> QED BY <1>1 DEF LabelsOK, SaveFlagExact, Goto

\* A step that neither takes nor releases the access lock, and begins or ends
\* no save.
LEMMA AllKept ==
    ASSUME LabelsOK, SaveLockHeld, NEW p \in Procs, NEW l, Goto(p, l),
           UNCHANGED <<AccessLock, bSaveInProgress>>,
           pc[p] \in SavePCs <=> l \in SavePCs,
           WithAccessLock(p, pc[p]) <=> WithAccessLock(p, l)
    PROVE  SaveLockHeld'
BY AccessKept, SaveKept DEF SaveLockHeld

LEMMA LocksInit == Init => LocksExclude
<1> SUFFICES ASSUME Init PROVE LocksExclude
  OBVIOUS
<1>1. \A p \in Procs : pc[p] \in {"idle", "off"} /\ (p \in Clients => pc[p] = "idle")
  BY DEF Init
<1>2. AccessLockHeld /\ ThreadLockHeld
  BY <1>1, Identities DEF Init, AccessLockHeld, ThreadLockHeld, WithAccessLock, WithThreadLock, SavePCs
<1>3. SaveFlagExact
  BY <1>1 DEF Init, SaveFlagExact, SavePCs
<1> QED BY <1>2, <1>3 DEF LocksExclude

\* The access lock and the save flag, whoever may release the thread lock.
LEMMA SaveLockStep == ASSUME TypeOK, SaveLockHeld, Next PROVE SaveLockHeld'
<1> USE DEF TypeOK, Step, At
<1> DEFINE Moves(p, l) == p \in Procs /\ Goto(p, l) /\ UNCHANGED <<AccessLock, bSaveInProgress>>
<1>1. ASSUME NEW p \in Loaders,
             ReadCurConfig(p) \/ ReadCurConfigFails(p) \/ LoadSetting(p) \/ FlashBegin(p)
      PROVE  SaveLockHeld'
  <2>1. \E l \in {"load", "loaded", "param", "flash_lock"} : Moves(p, l)
    BY <1>1 DEF ReadCurConfig, ReadCurConfigFails, LoadSetting, FlashBegin, Loaders, Procs, locks, flags
  <2>2. pc[p] \in {"read", "load", "flash"} /\ p # Timer
    BY <1>1, Identities DEF ReadCurConfig, ReadCurConfigFails, LoadSetting, FlashBegin, Loaders
  <2> QED BY <2>1, <2>2, AllKept DEF WithAccessLock, SavePCs
<1>2. ASSUME NEW p \in Loaders, FlashLock(p)
      PROVE  SaveLockHeld'
  <2>1. /\ p \in Procs /\ Goto(p, "encode")
        /\ AccessLock = Free /\ AccessLock' = p /\ bSaveInProgress' = TRUE
    BY <1>2 DEF FlashLock, Loaders, Procs
  <2> QED BY <2>1, AccessTaken, SaveBegun DEF SaveLockHeld, WithAccessLock, SavePCs
<1>3. ASSUME NEW p \in Loaders, FlashDone(p)
      PROVE  SaveLockHeld'
  <2>1. /\ p \in Procs /\ p # Timer /\ pc[p] = "saved" /\ \E l \in {"exit", "resume"} : Goto(p, l)
        /\ AccessLock' = Free /\ bSaveInProgress' = FALSE
    BY <1>3 DEF FlashDone, Loaders, Procs, SaveDone
  <2> QED BY <2>1, AccessDropped, SaveEnded DEF SaveLockHeld, WithAccessLock, SavePCs
<1>4. ASSUME NEW p \in Savers, Encode(p) \/ SaveCurConfig(p)
      PROVE  SaveLockHeld'
  <2>1. \E l \in {"write", "saved"} : Moves(p, l)
    BY <1>4 DEF Encode, SaveCurConfig, Savers, Procs, locks, flags
  <2>2. pc[p] \in {"encode", "write"}
    BY <1>4 DEF Encode, SaveCurConfig
  <2> QED BY <2>1, <2>2, AllKept DEF WithAccessLock, SavePCs
<1>5. CASE TimerFires
  <2>1. /\ Timer \in Procs /\ pc[Timer] = "idle" /\ Goto(Timer, "lock")
        /\ AccessLock = Free /\ AccessLock' = Timer /\ UNCHANGED bSaveInProgress
    BY <1>5 DEF TimerFires, Procs, flags
  <2> QED BY <2>1, AccessTaken, SaveKept DEF SaveLockHeld, WithAccessLock, SavePCs
<1>6. CASE TimerSaves
  <2>1. /\ Timer \in Procs /\ pc[Timer] = "lock" /\ Goto(Timer, "encode")
        /\ UNCHANGED AccessLock /\ bSaveInProgress' = TRUE
    BY <1>6 DEF TimerSaves, Procs
  <2> QED BY <2>1, AccessKept, SaveBegun DEF SaveLockHeld, WithAccessLock, SavePCs
<1>7. CASE TimerSkips
  <2>1. /\ Timer \in Procs /\ pc[Timer] = "lock" /\ Goto(Timer, "idle")
        /\ AccessLock' = Free /\ UNCHANGED bSaveInProgress
    BY <1>7 DEF TimerSkips, Procs, flags
  <2> QED BY <2>1, AccessDropped, SaveKept DEF SaveLockHeld, WithAccessLock, SavePCs
<1>8. CASE TimerDone
  <2>1. /\ Timer \in Procs /\ pc[Timer] = "saved" /\ Goto(Timer, "idle")
        /\ AccessLock' = Free /\ bSaveInProgress' = FALSE
    BY <1>8 DEF TimerDone, SaveDone, Procs
  <2> QED BY <2>1, AccessDropped, SaveEnded DEF SaveLockHeld, WithAccessLock, SavePCs
<1>9. ASSUME NEW c \in Clients,
             \/ HandlerBegins(c) \/ GetBegins(c) \/ HandlerReturns(c) \/ GetFails(c) \/ GetReturns(c)
             \/ \E v \in Settings : ChangeRecord(c, v)
             \/ \E b \in BOOLEAN : DisableWriting(c, b) \/ EnableFileSync(c, b)
             \/ SysRamNotify(c) \/ Reload(c) \/ ReloadResumes(c) \/ ReloadStarts(c)
      PROVE  SaveLockHeld'
  <2> DEFINE Aside == {"idle", "param", "notify", "sync_on", "sync_off", "flash", "resume", "start", "read",
                       "get", "get_exit"}
  <2>1. pc[c] \in Aside /\ c # Timer /\ \E l \in Aside : Moves(c, l)
    BY <1>9, Identities DEF HandlerBegins, GetBegins, HandlerReturns, GetFails, GetReturns, ChangeRecord,
       DisableWriting, EnableFileSync, SysRamNotify, Reload, ReloadResumes, ReloadStarts, Procs, locks, flags
  <2> QED BY <2>1, AllKept DEF WithAccessLock, SavePCs
<1>10. CASE \/ ResetBegin \/ ResetStop \/ UnlinkCur \/ UnlinkBak
            \/ \E c \in Clients : SpawnReset(c)
  <2>1. pc[Reset] \in ResetPCs /\ \E l \in ResetPCs : Moves(Reset, l)
    BY <1>10 DEF ResetBegin, ResetStop, UnlinkCur, UnlinkBak, SpawnReset, ResetPCs, Procs, locks, flags
  <2> QED BY <2>1, AllKept, Identities DEF ResetPCs, WithAccessLock, SavePCs
<1>11. CASE Engage \/ Engaged \/ Term
  <2> DEFINE Outside == {"off", "read", "load", "loaded", "serving", "flash"}
  <2>1. pc[Main] \in Outside /\ \E l \in Outside : Moves(Main, l)
    BY <1>11 DEF Engage, Engaged, Term, Procs, locks, flags
  <2> QED BY <2>1, AllKept, Identities DEF WithAccessLock, SavePCs
<1>12. CASE Exit \/ Die \/ PowerLoss
  <2>1. pc' = Idle /\ AccessLock' = Free /\ bSaveInProgress' = FALSE
    BY <1>12 DEF Exit, Die, PowerLoss, Gone, Idle
  <2>2. \A p \in Procs : pc'[p] \in {"idle", "off"}
    BY <2>1 DEF Idle
  <2> QED BY <2>1, <2>2, Identities DEF SaveLockHeld, AccessLockHeld, SaveFlagExact, WithAccessLock, SavePCs
<1>13. CASE DelayPasses
  BY <1>13 DEF DelayPasses, locks, SaveLockHeld, AccessLockHeld, SaveFlagExact
<1> QED BY <1>1, <1>2, <1>3, <1>4, <1>5, <1>6, <1>7, <1>8, <1>9, <1>10, <1>11, <1>12, <1>13, NextActions

\* The thread lock, if only its holder releases it.
LEMMA ThreadLockStep ==
    ASSUME TypeOK, ThreadLockHeld, ForeignUnlock = FALSE, Next
    PROVE  ThreadLockHeld'
<1> USE DEF TypeOK, Step, At
<1> DEFINE Moves(p, l) == p \in Procs /\ Goto(p, l) /\ UNCHANGED ThreadLock
<1>1. ASSUME NEW p \in Loaders,
             \/ ReadCurConfig(p) \/ ReadCurConfigFails(p) \/ LoadSetting(p)
             \/ FlashBegin(p) \/ FlashLock(p) \/ FlashDone(p)
      PROVE  ThreadLockHeld'
  <2>1. /\ pc[p] \notin {"idle", "get_exit"} /\ p # Timer
        /\ \E l : Moves(p, l) /\ l \notin {"idle", "get_exit"}
    BY <1>1, Identities DEF ReadCurConfig, ReadCurConfigFails, LoadSetting, FlashBegin, FlashLock,
       FlashDone, Loaders, Procs, locks
  <2> QED BY <2>1, ThreadKept DEF WithThreadLock
<1>2. ASSUME NEW p \in Savers, Encode(p) \/ SaveCurConfig(p)
      PROVE  ThreadLockHeld'
  <2>1. pc[p] \in {"encode", "write"} /\ \E l \in {"write", "saved"} : Moves(p, l)
    BY <1>2 DEF Encode, SaveCurConfig, Savers, Procs, locks
  <2> QED BY <2>1, ThreadKept DEF WithThreadLock, SavePCs
<1>3. CASE TimerFires \/ TimerSkips
  <2>1. pc[Timer] \in {"idle", "lock"} /\ \E l \in {"idle", "lock"} : Moves(Timer, l)
    BY <1>3 DEF TimerFires, TimerSkips, Procs
  <2> QED BY <2>1, ThreadKept, Identities DEF WithThreadLock, SavePCs
<1>4. CASE TimerSaves
  <2>1. /\ Timer \in Procs /\ pc[Timer] = "lock" /\ Goto(Timer, "encode")
        /\ ThreadLock = Free /\ ThreadLock' = Timer
    BY <1>4 DEF TimerSaves, Procs
  <2> QED BY <2>1, ThreadTaken, Identities DEF WithThreadLock, SavePCs
<1>5. CASE TimerDone
  <2>1. Timer \in Procs /\ pc[Timer] = "saved" /\ Goto(Timer, "idle") /\ ThreadLock' = Free
    BY <1>5 DEF TimerDone, Procs
  <2> QED BY <2>1, ThreadDropped, Identities DEF WithThreadLock, SavePCs
<1>6. ASSUME NEW c \in Clients, HandlerBegins(c) \/ GetBegins(c)
      PROVE  ThreadLockHeld'
  <2>1. /\ c \in Procs /\ pc[c] = "idle" /\ \E l \in {"param", "get"} : Goto(c, l)
        /\ ThreadLock = Free /\ ThreadLock' = c
    BY <1>6 DEF HandlerBegins, GetBegins, Procs
  <2> QED BY <2>1, ThreadTaken DEF WithThreadLock
<1>7. ASSUME NEW c \in Clients, HandlerReturns(c) \/ GetFails(c) \/ GetReturns(c)
      PROVE  ThreadLockHeld'
  <2>1. /\ c \in Procs /\ pc[c] \in {"param", "get", "get_exit"}
        /\ \E l \in {"idle", "get_exit"} : Goto(c, l)
    BY <1>7 DEF HandlerReturns, GetFails, GetReturns, Procs
  <2>2. CASE pc[c] # "get_exit"
    <3>1. WithThreadLock(c, pc[c])
      BY <2>1, <2>2 DEF WithThreadLock
    <3>2. ThreadLock = c
      BY <2>1, <3>1 DEF ThreadLockHeld
    <3>3. ThreadLock' = Free
      BY <1>7, <3>2 DEF HandlerReturns, GetFails, GetReturns, RelThreadLock
    <3> QED BY <2>1, <3>1, <3>3, ThreadDropped DEF WithThreadLock
  <2>3. CASE pc[c] = "get_exit"
    <3>1. ThreadLock # c
      BY <2>1, <2>3 DEF ThreadLockHeld, WithThreadLock
    <3>2. UNCHANGED ThreadLock /\ Goto(c, "idle")
      BY <1>7, <2>3, <3>1 DEF HandlerReturns, GetFails, GetReturns, RelThreadLock
    <3> QED BY <2>1, <2>3, <3>2, ThreadKept DEF WithThreadLock
  <2> QED BY <2>2, <2>3
<1>8. ASSUME NEW c \in Clients,
             \/ \E v \in Settings : ChangeRecord(c, v)
             \/ \E b \in BOOLEAN : DisableWriting(c, b) \/ EnableFileSync(c, b)
             \/ SysRamNotify(c) \/ Reload(c) \/ ReloadResumes(c) \/ ReloadStarts(c)
      PROVE  ThreadLockHeld'
  <2> DEFINE Inside == {"param", "notify", "sync_on", "sync_off", "flash", "resume", "start", "read"}
  <2>1. pc[c] \in Inside /\ \E l \in Inside : Moves(c, l)
    BY <1>8 DEF ChangeRecord, DisableWriting, EnableFileSync, SysRamNotify, Reload, ReloadResumes,
       ReloadStarts, Procs, locks
  <2> QED BY <2>1, ThreadKept DEF WithThreadLock
<1>9. CASE \/ ResetBegin \/ ResetStop \/ UnlinkCur \/ UnlinkBak
           \/ \E c \in Clients : SpawnReset(c)
  <2>1. \E l : Moves(Reset, l)
    BY <1>9 DEF ResetBegin, ResetStop, UnlinkCur, UnlinkBak, SpawnReset, Procs, locks
  <2> QED BY <2>1, ThreadKept, Identities DEF WithThreadLock
<1>10. CASE Engage \/ Engaged \/ Term
  <2>1. \E l : Moves(Main, l)
    BY <1>10 DEF Engage, Engaged, Term, Procs, locks
  <2> QED BY <2>1, ThreadKept, Identities DEF WithThreadLock
<1>11. CASE Exit \/ Die \/ PowerLoss
  <2>1. pc' = Idle /\ ThreadLock' = Free
    BY <1>11 DEF Exit, Die, PowerLoss, Gone, Idle
  <2> QED BY <2>1, IdleType, Identities DEF ThreadLockHeld, WithThreadLock, SavePCs
<1>12. CASE DelayPasses
  BY <1>12 DEF DelayPasses, locks, ThreadLockHeld
<1> QED BY <1>1, <1>2, <1>3, <1>4, <1>5, <1>6, <1>7, <1>8, <1>9, <1>10, <1>11, <1>12, NextActions

LEMMA ExclusionStep ==
    ASSUME TypeOK, LocksExclude, ForeignUnlock = FALSE, Next
    PROVE  LocksExclude'
BY SaveLockStep, ThreadLockStep DEF LocksExclude, SaveLockHeld

LEMMA LocksUnmoved ==
    ASSUME UNCHANGED vars
    PROVE  (SaveLockHeld => SaveLockHeld') /\ (LocksExclude => LocksExclude')
<1>1. UNCHANGED <<pc, AccessLock, ThreadLock, bSaveInProgress>>
  BY DEF vars, locks, flags
<1> QED BY <1>1 DEF SaveLockHeld, LocksExclude, AccessLockHeld, ThreadLockHeld, SaveFlagExact

\* One thread at a time is between taking a snapshot of the tree and clearing
\* the flags after the save, and bSaveInProgress tells when: also where a get
\* that failed releases a thread lock that another thread has taken since.
THEOREM SavesExclude == Spec => []SaveLockHeld
<1>1. Init => SaveLockHeld
  BY LocksInit DEF LocksExclude, SaveLockHeld
<1>2. TypeOK /\ SaveLockHeld /\ [Next]_vars => SaveLockHeld'
  BY SaveLockStep, LocksUnmoved
<1> QED BY <1>1, <1>2, TypeCorrect, PTL DEF Spec

\* With a thread lock that only its holder releases, the two locks exclude
\* what they guard, in every interleaving of any number of handlers, the
\* timer, the signals and the reset task.
THEOREM MutualExclusion ==
    ASSUME ForeignUnlock = FALSE
    PROVE  Spec => []LocksExclude
<1>1. TypeOK /\ LocksExclude /\ [Next]_vars => LocksExclude'
  BY ExclusionStep, LocksUnmoved
<1> QED BY <1>1, LocksInit, TypeCorrect, PTL DEF Spec

-----------------------------------------------------------------------------
(* Who waits for whom                                                      *)

\* Who holds a lock, and at which labels.
LEMMA Holders ==
    ASSUME TypeOK, LocksExclude, NEW p \in Procs
    PROVE  /\ AccessLock = p => \/ pc[p] \in SavePCs
                                \/ p = Timer /\ pc[p] = "lock"
           /\ ThreadLock = p => \/ p \in Clients /\ pc[p] \notin {"idle", "get_exit"}
                                \/ p = Timer /\ pc[p] \in SavePCs
BY DEF LocksExclude, AccessLockHeld, ThreadLockHeld, WithAccessLock, WithThreadLock

\* A thread that saves asks for no lock, and a thread at work in a handler asks
\* for the access lock at most.
LEMMA SaverWorks ==
    ASSUME TypeOK, NEW p \in Procs, pc[p] \in SavePCs
    PROVE  Works(p)
BY DEF Works, WaitsFor, AsksAccessLock, AsksThreadLock, SavePCs, At

LEMMA HandlerWorks ==
    ASSUME TypeOK, LocksExclude, NEW c \in Clients, pc[c] \notin {"idle", "get_exit"},
           AccessLock = Free \/ pc[c] \notin {"flash_lock", "sync_on", "sync_off"}
    PROVE  Works(c)
<1>1. pc[c] \in ClientPCs /\ c # Timer
  BY Identities DEF TypeOK, LabelsOK
<1>2. pc[c] \notin {"off", "serving", "reboot", "given_up"}
  BY <1>1 DEF ClientPCs, SavePCs
<1>3. \A q \in Procs : ~WaitsFor(c, q)
  BY <1>1, Identities DEF WaitsFor, AsksAccessLock, AsksThreadLock, At
<1> QED BY <1>2, <1>3 DEF Works

\* The timer asks for the thread lock with the access lock in its hands: all
\* of the time its holder is a handler that works, but for the cycle.
LEMMA TimerWaits ==
    ASSUME TypeOK, LocksExclude, ~LockCycle, NEW q \in Procs, pc[Timer] = "lock", ThreadLock = q
    PROVE  Works(q)
<1>1. AccessLock = Timer /\ Timer \in Procs
  BY DEF LocksExclude, AccessLockHeld, WithAccessLock, Procs
<1>2. q \in Clients /\ pc[q] \notin {"idle", "get_exit"}
  BY Holders DEF SavePCs
<1>3. WaitsFor(Timer, q)
  BY DEF WaitsFor, AsksThreadLock, At
<1>4. pc[q] \notin {"flash_lock", "sync_on", "sync_off"}
  BY <1>1, <1>2, <1>3 DEF LockCycle, WaitsFor, AsksAccessLock
<1> QED BY <1>2, <1>4, HandlerWorks

\* The access lock is held by a thread that works, or by the timer, which waits
\* for one that does.
LEMMA AccessWaits ==
    ASSUME TypeOK, LocksExclude, ~LockCycle, NEW q \in Procs, AccessLock = q
    PROVE  Works(q) \/ \E r \in Procs : WaitsFor(q, r) /\ Works(r)
<1>1. CASE pc[q] \in SavePCs
  BY <1>1, SaverWorks
<1>2. CASE q = Timer /\ pc[Timer] = "lock"
  <2>1. CASE ThreadLock = Free
    <3>1. \A r \in Procs : ~WaitsFor(Timer, r)
      BY <1>2, <2>1, Identities DEF WaitsFor, AsksAccessLock, At
    <3> QED BY <1>2, <3>1 DEF Works
  <2>2. CASE ThreadLock \in Procs
    <3>1. WaitsFor(Timer, ThreadLock) /\ Works(ThreadLock)
      BY <1>2, <2>2, TimerWaits DEF WaitsFor, AsksThreadLock, At
    <3> QED BY <1>2, <2>2, <3>1
  <2> QED BY <2>1, <2>2 DEF TypeOK, LocksOK
<1> QED BY <1>1, <1>2, Holders

\* The locks can stop PSM in one way only: the timer, which took the access lock
\* first, and a handler, which took the thread lock first, wait for each other.
\* Whoever else waits for a lock waits for a thread that works, or for one that
\* waits for such a thread: a notification under the thread lock, the save of a
\* reload and that of SIGTERM included.
THEOREM OneDeadlock == ASSUME ForeignUnlock = FALSE PROVE Spec => []OnlyLockCycle
<1>1. ASSUME TypeOK, LocksExclude PROVE OnlyLockCycle
  <2> SUFFICES ASSUME ~LockCycle, NEW p \in Procs, NEW q \in Procs, WaitsFor(p, q)
               PROVE  Works(q) \/ \E r \in Procs : WaitsFor(q, r) /\ Works(r)
    BY DEF OnlyLockCycle
  <2>1. CASE AccessLock = q
    BY <1>1, <2>1, AccessWaits
  <2>2. CASE ThreadLock = q /\ AccessLock # q
    <3>1. CASE q = Timer /\ pc[q] \in SavePCs
      BY <1>1, <3>1, SaverWorks
    <3>2. CASE q \in Clients /\ pc[q] \notin {"idle", "get_exit"}
      <4>1. CASE Works(q)
        BY <4>1
      <4>2. CASE ~Works(q)
        <5>1. pc[q] \in {"flash_lock", "sync_on", "sync_off"} /\ AccessLock # Free
          BY <1>1, <3>2, <4>2, HandlerWorks
        <5>2. AccessLock \in Procs /\ WaitsFor(q, AccessLock)
          BY <1>1, <5>1 DEF TypeOK, LocksOK, WaitsFor, AsksAccessLock
        <5>3. pc[AccessLock] \in SavePCs
          <6>1. ~(AccessLock = Timer /\ pc[Timer] = "lock")
            <7>1. AccessLock = Timer /\ pc[Timer] = "lock" => WaitsFor(Timer, q)
              BY <2>2 DEF WaitsFor, AsksThreadLock, At
            <7> QED BY <3>2, <5>2, <7>1 DEF LockCycle
          <6> QED BY <1>1, <5>2, <6>1, Holders
        <5> QED BY <1>1, <5>2, <5>3, SaverWorks
      <4> QED BY <4>1, <4>2
    <3> QED BY <1>1, <2>2, <3>1, <3>2, Holders
  <2> QED BY <2>1, <2>2 DEF WaitsFor
<1> QED BY <1>1, TypeCorrect, MutualExclusion, PTL

\* A handler that came to none of the two parameters that need the access lock.
AsksNone ==
    \A c \in Clients : pc[c] \notin {"sync_on", "sync_off", "flash", "flash_lock"}

LEMMA AsksNoneStep ==
    ASSUME TypeOK, AsksNone, "sync" \notin Ops, "reload" \notin Ops, [Next]_vars
    PROVE  AsksNone'
<1> USE DEF TypeOK, LabelsOK, Step, Goto, At
<1>1. CASE UNCHANGED pc
  BY <1>1 DEF AsksNone
<1>2. ASSUME NEW p \in Procs, NEW l, Goto(p, l),
             p \in Clients => l \notin {"sync_on", "sync_off", "flash", "flash_lock"}
      PROVE  AsksNone'
  BY <1>2 DEF AsksNone, Procs
<1>3. /\ Main \in Procs /\ Timer \in Procs /\ Reset \in Procs /\ Clients \subseteq Procs
      /\ Main \notin Clients /\ Timer \notin Clients /\ Reset \notin Clients
  BY Identities DEF Procs
<1>4. CASE Engage \/ Engaged \/ Term \/ TimerFires \/ TimerSaves \/ TimerSkips \/ TimerDone
           \/ ResetBegin \/ ResetStop \/ UnlinkCur \/ UnlinkBak \/ \E c \in Clients : SpawnReset(c)
  BY <1>2, <1>3, <1>4 DEF Engage, Engaged, Term, TimerFires, TimerSaves, TimerSkips, TimerDone,
     ResetBegin, ResetStop, UnlinkCur, UnlinkBak, SpawnReset
<1>5. ASSUME NEW p \in Loaders,
             ReadCurConfig(p) \/ ReadCurConfigFails(p) \/ LoadSetting(p) \/ FlashDone(p)
      PROVE  AsksNone'
  BY <1>2, <1>3, <1>5 DEF Loaders, ReadCurConfig, ReadCurConfigFails, LoadSetting, FlashDone
<1>6. ASSUME NEW p \in Loaders, FlashBegin(p) \/ FlashLock(p)
      PROVE  AsksNone'
  <2>1. p = Main
    BY <1>6 DEF Loaders, FlashBegin, FlashLock, AsksNone
  <2> QED BY <1>2, <1>3, <1>6, <2>1 DEF FlashBegin, FlashLock
<1>7. ASSUME NEW p \in Savers, Encode(p) \/ SaveCurConfig(p)
      PROVE  AsksNone'
  BY <1>2, <1>3, <1>7 DEF Savers, Encode, SaveCurConfig
<1>8. ASSUME NEW c \in Clients,
             \/ HandlerBegins(c) \/ GetBegins(c) \/ GetFails(c) \/ GetReturns(c) \/ HandlerReturns(c)
             \/ SysRamNotify(c) \/ ReloadResumes(c) \/ ReloadStarts(c)
             \/ \E v \in Settings : ChangeRecord(c, v)
             \/ \E b \in BOOLEAN : EnableFileSync(c, b)
      PROVE  AsksNone'
  BY <1>2, <1>3, <1>8 DEF HandlerBegins, GetBegins, GetFails, GetReturns, HandlerReturns, SysRamNotify,
     ReloadResumes, ReloadStarts, ChangeRecord, EnableFileSync
<1>9. ASSUME NEW c \in Clients, NEW b \in BOOLEAN PROVE ~Reload(c) /\ ~DisableWriting(c, b)
  BY DEF Reload, DisableWriting
<1>10. CASE Exit \/ Die \/ PowerLoss
  BY <1>10, IdleType DEF Exit, Die, PowerLoss, Gone, Idle, AsksNone
<1>11. CASE DelayPasses \/ UNCHANGED vars
  BY <1>1, <1>11 DEF DelayPasses, vars
<1> QED BY <1>4, <1>5, <1>6, <1>7, <1>8, <1>9, <1>10, <1>11, NextActions

\* The cycle takes a DisableWriting or a ReloadConfig: as long as clients set, get,
\* delete and reset only, the timer and a handler never wait for each other,
\* on whatever kind of mutex and with saves that fail.
THEOREM CycleTakesSwitch ==
    ASSUME "sync" \notin Ops, "reload" \notin Ops
    PROVE  Spec => []NoLockCycle
<1>1. Init => AsksNone
  BY IdleType DEF Init, Idle, AsksNone
<1>2. TypeOK /\ AsksNone /\ [Next]_vars => AsksNone'
  BY AsksNoneStep
<1>3. AsksNone => NoLockCycle
  BY DEF AsksNone, NoLockCycle
<1> QED BY <1>1, <1>2, <1>3, TypeCorrect, PTL DEF Spec

-----------------------------------------------------------------------------
(* The timer saves the tree                                                *)

\* While the main thread starts up, nobody else runs and nothing is saved:
\* the load may change the tree without a lock.
StartPCs == {"off", "read", "load", "loaded"}

StartsAlone ==
    pc[Main] \in StartPCs =>
        /\ ~serving /\ bNoSave /\ ~bNeedFlush
        /\ pc[Timer] = "idle" /\ \A c \in Clients : pc[c] = "idle"

LEMMA AloneInit == Init => StartsAlone
BY Identities DEF Init, StartsAlone, Procs

\* So few actions are possible during the start ...
LEMMA StartActions ==
    ASSUME TypeOK, StartsAlone, pc[Main] \in StartPCs, Next
    PROVE  \/ Engage \/ Engaged \/ Term \/ DelayPasses
           \/ ReadCurConfig(Main) \/ ReadCurConfigFails(Main) \/ LoadSetting(Main)
           \/ ResetBegin \/ ResetStop \/ UnlinkCur \/ UnlinkBak
           \/ Die \/ PowerLoss
<1> USE DEF Step, At
<1>1. /\ ~serving /\ ~bNeedFlush /\ pc[Timer] = "idle" /\ \A c \in Clients : pc[c] = "idle"
      /\ pc[Main] \in {"off", "read", "load", "loaded"}
  BY DEF StartsAlone, StartPCs
<1>2. ~(Exit \/ TimerFires \/ TimerSaves \/ TimerSkips \/ TimerDone)
  BY <1>1 DEF Exit, TimerFires, TimerSaves, TimerSkips, TimerDone
<1>3. ASSUME NEW p \in Savers PROVE ~Encode(p) /\ ~SaveCurConfig(p)
  BY <1>1 DEF Savers, Encode, SaveCurConfig
<1>4. ASSUME NEW p \in Loaders PROVE ~FlashBegin(p) /\ ~FlashLock(p) /\ ~FlashDone(p)
  BY <1>1 DEF Loaders, FlashBegin, FlashLock, FlashDone
<1>5. ASSUME NEW c \in Clients
      PROVE  /\ ~ReadCurConfig(c) /\ ~ReadCurConfigFails(c) /\ ~LoadSetting(c)
             /\ ~HandlerBegins(c) /\ ~GetBegins(c) /\ ~GetFails(c) /\ ~GetReturns(c)
             /\ \A v \in Settings : ~ChangeRecord(c, v)
             /\ ~SysRamNotify(c) /\ ~HandlerReturns(c)
             /\ \A b \in BOOLEAN : ~DisableWriting(c, b) /\ ~EnableFileSync(c, b)
             /\ ~Reload(c) /\ ~ReloadResumes(c) /\ ~ReloadStarts(c) /\ ~SpawnReset(c)
  BY <1>1 DEF ReadCurConfig, ReadCurConfigFails, LoadSetting, HandlerBegins, GetBegins, GetFails,
     GetReturns, ChangeRecord, SysRamNotify, HandlerReturns, DisableWriting, EnableFileSync, Reload,
     ReloadResumes, ReloadStarts, SpawnReset
<1> QED BY <1>2, <1>3, <1>4, <1>5, NextActions DEF Loaders

\* ... and only a new process gets there.
LEMMA StartReached ==
    ASSUME TypeOK, pc[Main] \notin StartPCs, Next, ~(Exit \/ Die \/ PowerLoss)
    PROVE  pc'[Main] \notin StartPCs
<1> USE DEF TypeOK, LabelsOK, Step, Goto, At, StartPCs
<1>1. ASSUME NEW p \in Procs, p # Main, NEW l, Goto(p, l)
      PROVE  pc'[Main] \notin StartPCs
  BY <1>1 DEF Procs
<1>2. Timer \in Procs /\ Reset \in Procs /\ Timer # Main /\ Reset # Main
  BY Identities DEF Procs
<1>3. ASSUME NEW p \in Loaders,
             \/ ReadCurConfig(p) \/ ReadCurConfigFails(p) \/ LoadSetting(p)
             \/ FlashBegin(p) \/ FlashLock(p) \/ FlashDone(p)
      PROVE  pc'[Main] \notin StartPCs
  <2>1. p \in Procs
    BY DEF Loaders, Procs
  <2>2. CASE p # Main
    BY <1>3, <2>1, <2>2, <1>1 DEF ReadCurConfig, ReadCurConfigFails, LoadSetting, FlashBegin,
       FlashLock, FlashDone
  <2>3. CASE p = Main
    BY <1>3, <2>1, <2>3 DEF ReadCurConfig, ReadCurConfigFails, LoadSetting, FlashBegin, FlashLock, FlashDone
  <2> QED BY <2>2, <2>3
<1>4. ASSUME NEW p \in Savers, Encode(p) \/ SaveCurConfig(p)
      PROVE  pc'[Main] \notin StartPCs
  BY <1>4 DEF Encode, SaveCurConfig, Savers, Procs
<1>5. CASE TimerFires \/ TimerSaves \/ TimerSkips \/ TimerDone
  BY <1>5, <1>1, <1>2 DEF TimerFires, TimerSaves, TimerSkips, TimerDone
<1>6. CASE ResetBegin \/ ResetStop \/ UnlinkCur \/ UnlinkBak \/ \E c \in Clients : SpawnReset(c)
  BY <1>6, <1>1, <1>2 DEF ResetBegin, ResetStop, UnlinkCur, UnlinkBak, SpawnReset
<1>7. CASE Engage \/ Engaged \/ Term \/ DelayPasses
  BY <1>7 DEF Engage, Engaged, Term, DelayPasses, Procs
<1>8. ASSUME NEW c \in Clients,
             \/ HandlerBegins(c) \/ GetBegins(c) \/ GetFails(c) \/ GetReturns(c) \/ HandlerReturns(c)
             \/ SysRamNotify(c) \/ Reload(c) \/ ReloadResumes(c) \/ ReloadStarts(c)
             \/ \E v \in Settings : ChangeRecord(c, v)
             \/ \E b \in BOOLEAN : DisableWriting(c, b) \/ EnableFileSync(c, b)
      PROVE  pc'[Main] \notin StartPCs
  <2>1. c \in Procs /\ c # Main
    BY Identities DEF Procs
  <2>2. \E l : Goto(c, l)
    BY <1>8 DEF HandlerBegins, GetBegins, GetFails, GetReturns, HandlerReturns, SysRamNotify, Reload,
       ReloadResumes, ReloadStarts, ChangeRecord, DisableWriting, EnableFileSync
  <2> QED BY <2>1, <2>2, <1>1
<1> QED BY <1>3, <1>4, <1>5, <1>6, <1>7, <1>8, NextActions

LEMMA AloneStep == ASSUME TypeOK, StartsAlone, Next PROVE StartsAlone'
<1> USE DEF TypeOK, LabelsOK, Step, Goto, At
<1>1. Main \in Procs /\ Timer \in Procs /\ Reset \in Procs /\ Clients \subseteq Procs
  BY DEF Procs
<1>2. CASE Exit \/ Die \/ PowerLoss
  BY <1>1, <1>2, Identities DEF StartsAlone, Exit, Die, PowerLoss, Gone
<1>3. CASE pc[Main] \notin StartPCs /\ ~(Exit \/ Die \/ PowerLoss)
  BY <1>3, StartReached DEF StartsAlone
<1>4. CASE pc[Main] \in StartPCs /\ ~(Die \/ PowerLoss)
  <2>1. /\ ~serving /\ bNoSave /\ ~bNeedFlush
        /\ pc[Timer] = "idle" /\ \A c \in Clients : pc[c] = "idle"
    BY <1>4 DEF StartsAlone
  <2>2. CASE Engaged \/ Term
    BY <1>1, <2>2 DEF Engaged, Term, StartsAlone, StartPCs
  <2>3. ASSUME \/ Engage \/ ReadCurConfig(Main) \/ ReadCurConfigFails(Main) \/ LoadSetting(Main)
               \/ DelayPasses \/ ResetBegin \/ ResetStop \/ UnlinkCur \/ UnlinkBak
        PROVE  StartsAlone'
    <3>1. UNCHANGED serving /\ bNoSave' /\ UNCHANGED bNeedFlush
      BY <2>1, <2>3, Zenon DEF Engage, ReadCurConfig, ReadCurConfigFails, LoadSetting, Notified,
         DelayPasses, ResetBegin, ResetStop, UnlinkCur, UnlinkBak, flags
    <3>2. pc'[Timer] = pc[Timer] /\ \A c \in Clients : pc'[c] = pc[c]
      BY <1>1, <2>3, Identities DEF Engage, ReadCurConfig, ReadCurConfigFails, LoadSetting,
         DelayPasses, ResetBegin, ResetStop, UnlinkCur, UnlinkBak
    <3> QED BY <2>1, <3>1, <3>2 DEF StartsAlone
  <2> QED BY <1>4, <2>2, <2>3, StartActions
<1> QED BY <1>2, <1>3, <1>4

\* Nobody changes the tree while the timer saves: a handler holds the thread
\* lock, and a load without a handler belongs to the start.
LEMMA TreeIsStill ==
    ASSUME TypeOK, LocksExclude, StartsAlone, pc[Timer] \in SavePCs
    PROVE  /\ pc[Main] \notin StartPCs
           /\ \A c \in Clients : pc[c] \in {"idle", "get_exit"}
<1>1. pc[Main] \notin StartPCs
  BY DEF StartsAlone, SavePCs
<1>2. Timer \in Procs /\ Timer \notin Clients /\ Clients \subseteq Procs
  BY Identities DEF Procs
<1>3. ThreadLock = Timer
  BY <1>2 DEF LocksExclude, ThreadLockHeld, WithThreadLock
<1>4. ASSUME NEW c \in Clients PROVE ~WithThreadLock(c, pc[c])
  BY <1>2, <1>3 DEF LocksExclude, ThreadLockHeld
<1> QED BY <1>1, <1>4 DEF WithThreadLock

\* A step of another thread, and what it may do beside the timer.
LEMMA TimerUnmoved ==
    ASSUME TypeOK, TimerSavesTheTree, NEW p \in Procs, p # Timer, NEW l, Goto(p, l),
           pc[Timer] \in SavePCs => mem' = mem /\ snap'[Timer] = snap[Timer]
    PROVE  TimerSavesTheTree'
<1>1. pc'[Timer] = pc[Timer]
  BY Identities DEF TypeOK, LabelsOK, Goto, Procs
<1> QED BY <1>1 DEF TimerSavesTheTree, SavePCs

LEMMA TimerSavesTheTreeStep ==
    ASSUME TypeOK, LocksExclude, StartsAlone, TimerSavesTheTree, Next
    PROVE  TimerSavesTheTree'
<1> USE DEF Step, At, SavePCs
<1>1. /\ Timer \in Procs /\ Main \in Procs /\ Reset \in Procs
      /\ Main # Timer /\ Reset # Timer
      /\ \A c \in Clients : c \in Procs /\ c # Timer
      /\ pc \in [Procs -> ClientPCs \cup MainPCs \cup TimerPCs \cup ResetPCs]
      /\ snap \in [Procs -> Settings]
  BY Identities DEF Procs, TypeOK, LabelsOK, SettingsOK
<1>2. CASE TimerFires \/ TimerSaves \/ TimerSkips \/ TimerDone
  <2>1. pc'[Timer] \in {"lock", "encode", "idle"}
    BY <1>1, <1>2 DEF TimerFires, TimerSaves, TimerSkips, TimerDone, Goto
  <2> QED BY <2>1 DEF TimerSavesTheTree
<1>3. CASE Exit \/ Die \/ PowerLoss
  <2>1. pc'[Timer] = "idle"
    BY <1>1, <1>3 DEF Exit, Die, PowerLoss, Gone
  <2> QED BY <2>1 DEF TimerSavesTheTree
<1>4. CASE Encode(Timer)
  BY <1>1, <1>4 DEF Encode, TimerSavesTheTree
<1>5. CASE SaveCurConfig(Timer)
  BY <1>1, <1>5 DEF SaveCurConfig, TimerSavesTheTree
<1>6. ASSUME NEW p \in Savers, p # Timer, Encode(p) \/ SaveCurConfig(p)
      PROVE  TimerSavesTheTree'
  <2>1. p \in Procs /\ \E l : Goto(p, l)
    BY <1>6 DEF Savers, Procs, Encode, SaveCurConfig
  <2>2. mem' = mem /\ snap'[Timer] = snap[Timer]
    BY <1>1, <1>6, <2>1 DEF Encode, SaveCurConfig
  <2> QED BY <1>6, <2>1, <2>2, TimerUnmoved
<1>7. ASSUME NEW p \in Loaders,
             ReadCurConfig(p) \/ ReadCurConfigFails(p) \/ FlashBegin(p) \/ FlashLock(p) \/ FlashDone(p)
      PROVE  TimerSavesTheTree'
  <2>1. p \in Procs /\ p # Timer
    BY <1>1 DEF Loaders
  <2>2. \E l : Goto(p, l)
    BY <1>7 DEF ReadCurConfig, ReadCurConfigFails, FlashBegin, FlashLock, FlashDone
  <2>3. mem' = mem /\ snap'[Timer] = snap[Timer]
    BY <1>1, <1>7, <2>1 DEF ReadCurConfig, ReadCurConfigFails, FlashBegin, FlashLock, FlashDone, BufferFreed
  <2> QED BY <2>1, <2>2, <2>3, TimerUnmoved
<1>8. ASSUME NEW p \in Loaders, LoadSetting(p)
      PROVE  TimerSavesTheTree'
  <2>1. p \in Procs /\ p # Timer /\ pc[p] = "load" /\ \E l : Goto(p, l)
    BY <1>1, <1>8 DEF Loaders, LoadSetting
  <2>2. pc[Timer] \notin SavePCs
    BY <2>1, TreeIsStill DEF Loaders, StartPCs
  <2> QED BY <2>1, <2>2, TimerUnmoved
<1>9. ASSUME NEW c \in Clients, NEW v \in Settings, ChangeRecord(c, v)
      PROVE  TimerSavesTheTree'
  <2>1. pc[c] = "param" /\ \E l : Goto(c, l)
    BY <1>9 DEF ChangeRecord
  <2>2. pc[Timer] \notin SavePCs
    BY <2>1, TreeIsStill
  <2> QED BY <1>1, <2>1, <2>2, TimerUnmoved
<1>10. ASSUME NEW c \in Clients,
              \/ HandlerBegins(c) \/ GetBegins(c) \/ GetFails(c) \/ GetReturns(c) \/ HandlerReturns(c)
              \/ SysRamNotify(c) \/ Reload(c) \/ ReloadResumes(c) \/ ReloadStarts(c)
              \/ \E b \in BOOLEAN : DisableWriting(c, b) \/ EnableFileSync(c, b)
       PROVE  TimerSavesTheTree'
  <2>1. \E l : Goto(c, l)
    BY <1>10 DEF HandlerBegins, GetBegins, GetFails, GetReturns, HandlerReturns, SysRamNotify, Reload,
       ReloadResumes, ReloadStarts, DisableWriting, EnableFileSync
  <2>2. mem' = mem /\ snap' = snap
    BY <1>10 DEF HandlerBegins, GetBegins, GetFails, GetReturns, HandlerReturns, SysRamNotify, Reload,
       ReloadResumes, ReloadStarts, DisableWriting, EnableFileSync
  <2> QED BY <1>1, <2>1, <2>2, TimerUnmoved
<1>11. CASE \/ Engage \/ Engaged \/ Term \/ ResetBegin \/ ResetStop \/ UnlinkCur \/ UnlinkBak
            \/ \E c \in Clients : SpawnReset(c)
  <2>1. \E p \in {Main, Reset}, l \in MainPCs \cup ResetPCs : Goto(p, l)
    BY <1>11 DEF Engage, Engaged, Term, ResetBegin, ResetStop, UnlinkCur, UnlinkBak, SpawnReset,
       MainPCs, ResetPCs
  <2>2. mem' = mem /\ snap' = snap
    BY <1>11 DEF Engage, Engaged, Term, ResetBegin, ResetStop, UnlinkCur, UnlinkBak, SpawnReset
  <2> QED BY <1>1, <2>1, <2>2, TimerUnmoved
<1>12. CASE DelayPasses
  BY <1>12 DEF DelayPasses, TimerSavesTheTree
<1> QED BY <1>2, <1>3, <1>4, <1>5, <1>6, <1>7, <1>8, <1>9, <1>10, <1>11, <1>12, NextActions

\* No change is lost by the flush: from the moment the timer has encoded the
\* tree until it clears bNeedFlush, the tree is what it writes.
THEOREM TimerSavesTree ==
    ASSUME ForeignUnlock = FALSE
    PROVE  Spec => []TimerSavesTheTree
<1> DEFINE Inv == LocksExclude /\ StartsAlone /\ TimerSavesTheTree
<1>1. Init => Inv
  BY LocksInit, AloneInit DEF Init, TimerSavesTheTree, Procs
<1>2. TypeOK /\ Inv /\ [Next]_vars => Inv'
  <2>1. CASE Next
    BY <2>1, ExclusionStep, AloneStep, TimerSavesTheTreeStep
  <2>2. CASE UNCHANGED vars
    BY <2>2 DEF vars, locks, flags, LocksExclude, AccessLockHeld, ThreadLockHeld, SaveFlagExact,
       StartsAlone, TimerSavesTheTree
  <2> QED BY <2>1, <2>2
<1> QED BY <1>1, <1>2, TypeCorrect, PTL DEF Spec

=============================================================================
