--------------------------- MODULE CfmBaseProofs ---------------------------
(***************************************************************************)
(* Proofs about CfmBase, for every set of configurations.  TypeCorrect,    *)
(* SuccessStored and ResetLasts allow for I/O faults; the rest holds when  *)
(* no I/O call fails.                                                      *)
(***************************************************************************)
EXTENDS CfmBase, TLAPS

USE DEF Goto

\* Every step keeps every variable in its range, I/O faults or not.
LEMMA TypeStep == TypeOK /\ [Next]_vars => TypeOK'
<1> SUFFICES ASSUME TypeOK, [Next]_vars PROVE TypeOK'
    OBVIOUS
<1> USE ConfigFilesAssumption DEF TypeOK, Content, PCs, SavePCs, ReadPCs
<1>1. CASE Read
    <2>1. Source \in Content
        BY DEF Source
    <2>2. CASE Start \/ ReadOk \/ ReadNext \/ ReadFail
        BY <2>2 DEF Start, ReadOk, ReadNext, ReadFail, Intact
    <2>3. CASE CopyTruncate \/ CopyWrite \/ CopyRest \/ CopyFault
        BY <2>1, <2>3 DEF CopyTruncate, CopyWrite, CopyRest, CopyFault
    <2> QED
        BY <1>1, <2>2, <2>3 DEF Read
<1>2. CASE \E c \in Config : Save(c)
    BY <1>2 DEF Save
<1>3. CASE SaveStep
    <2>1. Recovered \in Config
        BY DEF Recovered, Intact
    <2>2. CASE BackupSkip \/ BackupTruncate \/ BackupWrite \/ BackupRest \/ BackupFault
        BY <2>2 DEF BackupSkip, BackupTruncate, BackupWrite, BackupRest, BackupFault
    <2>3. CASE OpenCur \/ OpenFail \/ WriteCur \/ WriteRest \/ WriteFault
        BY <2>1, <2>3 DEF OpenCur, OpenFail, WriteCur, WriteRest, WriteFault
    <2> QED
        BY <1>3, <2>2, <2>3 DEF SaveStep
<1>4. CASE UnlinkCur \/ UnlinkBak \/ Crash
    BY <1>4 DEF UnlinkCur, UnlinkBak, Crash
<1>5. CASE UNCHANGED vars
    BY <1>5 DEF vars
<1> QED
    BY <1>1, <1>2, <1>3, <1>4, <1>5 DEF Next

LEMMA TypeInit == Init => TypeOK
BY ConfigFilesAssumption DEF Init, TypeOK, Content, PCs

\* Type correctness of the file interface, with and without I/O faults.
THEOREM TypeCorrect == Spec => []TypeOK
BY TypeInit, TypeStep, PTL DEF Spec

-----------------------------------------------------------------------------
(* The inductive invariant.                                                *)

LEMMA InvInit == Init => IInv
<1> SUFFICES ASSUME Init PROVE IInv
    OBVIOUS
<1>1. ~Intact(cur)
    BY ConfigFilesAssumption DEF Init, Intact
<1> QED
    BY <1>1, TypeInit DEF Init, IInv, FilesOK, RecoveryOK, HistoryOK, SavePCs

LEMMA InvStep ==
    ASSUME IoFaults = FALSE
    PROVE  IInv /\ [Next]_vars => IInv'
<1> SUFFICES ASSUME IInv, [Next]_vars PROVE IInv'
    OBVIOUS
<1> USE IoFaults = FALSE, ConfigFilesAssumption
    DEF IInv, FilesOK, RecoveryOK, HistoryOK, Intact, SavePCs
<1>1. TypeOK'
    BY TypeStep
<1>2. CASE Read
    <2>1. CASE Start \/ ReadOk \/ ReadNext
        BY <1>1, <2>1 DEF Start, ReadOk, ReadNext
    <2>2. CASE ReadFail
        BY <1>1, <2>2 DEF ReadFail
    <2>3. CASE CopyTruncate
        BY <1>1, <2>3 DEF CopyTruncate
    <2>4. CASE CopyWrite
        BY <1>1, <2>4 DEF CopyWrite, Source
    <2>5. CASE CopyRest
        BY <1>1, <2>5 DEF CopyRest, Source
    <2>6. ~CopyFault
        BY DEF CopyFault
    <2> QED
        BY <1>2, <2>1, <2>2, <2>3, <2>4, <2>5, <2>6 DEF Read
<1>3. CASE \E c \in Config : Save(c)
    BY <1>1, <1>3 DEF Save
<1>4. CASE SaveStep
    <2>1. CASE BackupSkip
        BY <1>1, <2>1 DEF BackupSkip, Copyable
    <2>2. CASE BackupTruncate \/ BackupWrite \/ BackupRest
        BY <1>1, <2>2 DEF BackupTruncate, BackupWrite, BackupRest, Copyable
    <2>3. CASE OpenCur \/ OpenFail \/ WriteCur
        BY <1>1, <2>3 DEF OpenCur, OpenFail, WriteCur
    <2>4. CASE WriteRest
        BY <1>1, <2>4 DEF WriteRest, Recovered
    <2>5. ~BackupFault /\ ~WriteFault
        BY DEF BackupFault, WriteFault
    <2> QED
        BY <1>4, <2>1, <2>2, <2>3, <2>4, <2>5 DEF SaveStep
<1>5. CASE UnlinkCur \/ UnlinkBak
    BY <1>1, <1>5 DEF UnlinkCur, UnlinkBak
<1>6. CASE Crash
    BY <1>1, <1>6 DEF Crash
<1>7. CASE UNCHANGED vars
    BY <1>1, <1>7 DEF vars
<1> QED
    BY <1>2, <1>3, <1>4, <1>5, <1>6, <1>7 DEF Next

\* In every phase of a call one file can be relied on, and which one.
THEOREM Invariance ==
    ASSUME IoFaults = FALSE
    PROVE  Spec => []IInv
BY InvInit, InvStep, PTL DEF Spec

-----------------------------------------------------------------------------
(* Action properties and the refinement.                                   *)

LEMMA KeepsStep ==
    ASSUME IoFaults = FALSE, IInv, [Next]_vars,
           Intact(cur) \/ Intact(bak), pc \notin {"ready", "reset"}
    PROVE  Intact(cur') \/ Intact(bak')
<1> USE ConfigFilesAssumption DEF IInv, FilesOK, RecoveryOK, Intact
<1>1. CASE Read
    BY <1>1 DEF Read, Start, ReadOk, ReadNext, ReadFail, CopyTruncate, CopyWrite,
                CopyRest, CopyFault, Source
<1>2. CASE SaveStep
    BY <1>2 DEF SaveStep, BackupSkip, BackupTruncate, BackupWrite, BackupRest,
                BackupFault, OpenCur, OpenFail, WriteCur, WriteRest, WriteFault
<1>3. CASE Crash \/ UNCHANGED vars
    BY <1>3 DEF Crash, vars
<1>4. ~UnlinkCur /\ ~UnlinkBak /\ ~(\E c \in Config : Save(c))
    BY DEF UnlinkCur, UnlinkBak, Save
<1> QED
    BY <1>1, <1>2, <1>3, <1>4 DEF Next

\* Only a factory reset can leave neither file whole.
THEOREM OneStaysIntact ==
    ASSUME IoFaults = FALSE
    PROVE  Spec => KeepsOneIntact
<1>1. IInv /\ [Next]_vars
        => [(Intact(cur) \/ Intact(bak)) /\ pc \notin {"ready", "reset"}
               => (Intact(cur') \/ Intact(bak'))]_vars
    BY KeepsStep
<1> QED
    BY <1>1, Invariance, PTL DEF Spec, KeepsOneIntact

LEMMA RefinesInit == Init => D!Init
BY ConfigFilesAssumption DEF Init, D!Init, Recovered, Intact, SavePCs

LEMMA RefinesStep ==
    ASSUME IoFaults = FALSE, IInv, [Next]_vars
    PROVE  [D!Next]_D!vars
<1> USE IoFaults = FALSE, ConfigFilesAssumption
    DEF IInv, TypeOK, FilesOK, RecoveryOK, HistoryOK, Intact, Recovered, SavePCs
<1> DEFINE request == IF pc \in SavePCs THEN buf ELSE Missing
<1> SUFFICES D!Next \/ (Recovered' = Recovered /\ request' = request /\ older' = older)
    BY DEF D!vars
<1>1. CASE Read
    <2>1. CASE Start \/ ReadOk \/ ReadNext \/ CopyTruncate \/ CopyWrite \/ CopyRest
        BY <2>1 DEF Start, ReadOk, ReadNext, CopyTruncate, CopyWrite, CopyRest, Source
    <2>2. ~ReadFail /\ ~CopyFault
        BY DEF ReadFail, CopyFault
    <2> QED
        BY <1>1, <2>1, <2>2 DEF Read
<1>2. ASSUME NEW c \in Config, Save(c) PROVE D!Request(c)
    BY <1>2 DEF Save, D!Request
<1>3. CASE SaveStep
    <2>1. CASE BackupSkip \/ BackupTruncate \/ BackupWrite \/ BackupRest \/ OpenCur \/ WriteCur
        BY <2>1 DEF BackupSkip, BackupTruncate, BackupWrite, BackupRest, OpenCur, WriteCur
    <2>2. CASE OpenFail
        BY <2>2 DEF OpenFail, D!Next, D!Abandon
    <2>3. CASE WriteRest
        BY <2>3 DEF WriteRest, D!Next, D!Commit
    <2>4. ~BackupFault /\ ~WriteFault
        BY DEF BackupFault, WriteFault
    <2> QED
        BY <1>3, <2>1, <2>2, <2>3, <2>4 DEF SaveStep
<1>4. CASE UnlinkCur
    BY <1>4 DEF UnlinkCur, D!Next, D!Reset
<1>5. CASE UnlinkBak
    BY <1>5 DEF UnlinkBak, D!Next, D!Reset
<1>6. CASE Crash
    BY <1>6 DEF Crash, D!Next, D!Abandon
<1>7. CASE UNCHANGED vars
    BY <1>7 DEF vars
<1> QED
    BY <1>1, <1>2, <1>3, <1>4, <1>5, <1>6, <1>7 DEF Next, D!Next

\* The two files implement one crash-safe register.
THEOREM Implementation ==
    ASSUME IoFaults = FALSE
    PROVE  Spec => Durable
<1>1. IInv /\ [Next]_vars => [D!Next]_D!vars
    BY RefinesStep
<1> QED
    BY <1>1, RefinesInit, Invariance, PTL DEF Spec, Durable, D!Spec

\* A start hands the loader exactly what the files promised.
THEOREM StartLoads ==
    ASSUME IoFaults = FALSE
    PROVE  Spec => LoadsWhatSurvived
<1>1. IInv /\ [Next]_vars
        => [(pc \in ReadPCs /\ pc' = "ready") => (buf' = Recovered)]_vars
    <2> SUFFICES ASSUME IInv, Next, pc \in ReadPCs, pc' = "ready" PROVE buf' = Recovered
        OBVIOUS
    <2> USE ConfigFilesAssumption DEF IInv, RecoveryOK, ReadPCs, Recovered, Intact
    <2>1. CASE Read
        BY <2>1 DEF Read, Start, ReadOk, ReadNext, ReadFail, CopyTruncate, CopyWrite,
                    CopyRest, CopyFault
    <2>2. ~SaveStep /\ ~UnlinkCur /\ ~UnlinkBak /\ ~Crash /\ ~(\E c \in Config : Save(c))
        BY DEF SaveStep, BackupSkip, BackupTruncate, BackupWrite, BackupRest, BackupFault,
               OpenCur, OpenFail, WriteCur, WriteRest, WriteFault, UnlinkCur, UnlinkBak,
               Crash, Save
    <2> QED
        BY <2>1, <2>2 DEF Next
<1> QED
    BY <1>1, Invariance, PTL DEF Spec, LoadsWhatSurvived

-----------------------------------------------------------------------------
(* What a save has in its hands, with and without I/O faults.              *)

InHand ==
    /\ pc \in SavePCs => buf \in Config
    /\ pc \in {"backup_write", "backup_rest", "write", "write_rest"} => cur # Missing

LEMMA InHandStep == TypeOK /\ InHand /\ [Next]_vars => InHand'
<1> SUFFICES ASSUME TypeOK, InHand, [Next]_vars PROVE InHand'
    OBVIOUS
<1> USE ConfigFilesAssumption DEF InHand, SavePCs
<1>1. CASE Read
    BY <1>1 DEF Read, Start, ReadOk, ReadNext, ReadFail, CopyTruncate, CopyWrite, CopyRest,
                CopyFault
<1>2. CASE \E c \in Config : Save(c)
    BY <1>2 DEF Save
<1>3. CASE SaveStep
    <2>1. CASE BackupSkip \/ BackupTruncate \/ BackupWrite \/ BackupRest \/ BackupFault
        BY <2>1 DEF BackupSkip, BackupTruncate, BackupWrite, BackupRest, BackupFault, Copyable
    <2>2. CASE OpenCur \/ OpenFail \/ WriteCur \/ WriteRest \/ WriteFault
        BY <2>2 DEF OpenCur, OpenFail, WriteCur, WriteRest, WriteFault
    <2> QED
        BY <1>3, <2>1, <2>2 DEF SaveStep
<1>4. CASE UnlinkCur \/ UnlinkBak \/ Crash \/ UNCHANGED vars
    BY <1>4 DEF UnlinkCur, UnlinkBak, Crash, vars
<1> QED
    BY <1>1, <1>2, <1>3, <1>4 DEF Next

LEMMA InHandAlways == Spec => []InHand
<1>1. Init => InHand
    BY DEF Init, InHand, SavePCs
<1> QED
    BY <1>1, InHandStep, TypeCorrect, PTL DEF Spec

\* A save that reports success has stored what it was given, however its
\* backup failed.
THEOREM SuccessStored == Spec => SuccessIsDurable
<1>1. InHand /\ [Next]_vars
        => [(pc \in SavePCs /\ pc' = "ready" /\ status' = "success") => (Recovered' = buf)]_vars
    <2> SUFFICES ASSUME InHand, Next, pc \in SavePCs, pc' = "ready", status' = "success"
                 PROVE  Recovered' = buf
        OBVIOUS
    <2> USE DEF SavePCs
    <2>1. ~Read /\ ~UnlinkCur /\ ~UnlinkBak /\ ~Crash /\ ~(\E c \in Config : Save(c))
        BY DEF Read, Start, ReadOk, ReadNext, ReadFail, CopyTruncate, CopyWrite, CopyRest,
               CopyFault, UnlinkCur, UnlinkBak, Crash, Save
    <2>2. WriteRest
        BY <2>1 DEF Next, SaveStep, BackupSkip, BackupTruncate, BackupWrite, BackupRest,
                    BackupFault, OpenCur, OpenFail, WriteCur, WriteFault
    <2>3. cur' = buf /\ buf \in Config
        BY <2>2 DEF WriteRest, InHand
    <2> QED
        BY <2>3 DEF Recovered, Intact
<1> QED
    BY <1>1, InHandAlways, PTL DEF Spec, SuccessIsDurable

\* Once both files are unlinked no save brings one back, with faults or
\* without: there is nothing to copy, and nothing that could be opened.
THEOREM ResetLasts == Spec => ResetStays
<1>1. InHand /\ [Next]_vars
        => [(cur = Missing /\ bak = Missing /\ pc \in SavePCs \cup {"ready"})
              => (cur' = Missing /\ bak' = Missing)]_vars
    <2> SUFFICES ASSUME InHand, Next, cur = Missing, bak = Missing, pc \in SavePCs \cup {"ready"}
                 PROVE  cur' = Missing /\ bak' = Missing
        OBVIOUS
    <2> USE DEF SavePCs, InHand
    <2>1. ~Read
        BY DEF Read, Start, ReadOk, ReadNext, ReadFail, CopyTruncate, CopyWrite, CopyRest,
               CopyFault
    <2>2. CASE SaveStep
        BY <2>2 DEF SaveStep, BackupSkip, BackupTruncate, BackupWrite, BackupRest, BackupFault,
                    OpenCur, OpenFail, WriteCur, WriteRest, WriteFault, Copyable
    <2>3. CASE UnlinkCur \/ UnlinkBak \/ Crash \/ \E c \in Config : Save(c)
        BY <2>3 DEF UnlinkCur, UnlinkBak, Crash, Save
    <2> QED
        BY <2>1, <2>2, <2>3 DEF Next
<1> QED
    BY <1>1, InHandAlways, PTL DEF Spec, ResetStays

=============================================================================
