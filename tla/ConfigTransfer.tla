--------------------------- MODULE ConfigTransfer ---------------------------
(***************************************************************************)
(* What replaces a whole configuration while PSM runs: the import of       *)
(* psm_sysro_storage.c (PsmSysroImportConfig), which takes no lock, beside *)
(* the saves of the registry, through another function than theirs         *)
(* (psm_sysro_cfmif.c); ssp_CfmUpdateConfigs and the default configuration *)
(* (ssp_CfmReadDefConfig), with the device's own parameters (ssp_cfmif.c). *)
(*                                                                         *)
(* A file holds a configuration, no text, a text that was not deciphered,  *)
(* or something put together of several texts or cut short.                *)
(***************************************************************************)
EXTENDS ConfigUpdate

CONSTANTS
    Docs,           \* configurations: sequences of records
    Factory,        \* the default configuration
    NewConfig,      \* the one that NewConfigPath names
    Fitted,         \* the devices: platform and factory data
    Faults,         \* may an open, a write or a read fail?
    Missing         \* no file, no configuration

VARIABLES
    cur, bak, tmp,  \* the current, the backup and the temporary file
    def,            \* the default configuration file
    device,
    tree,           \* what the registry holds; Missing: no process
    pc, buf,        \* where the two threads are, and what they store
    out,            \* what ReadDefConfig gave
    given, kept,    \* history: what an import is to store, and what it did
    former          \* history: the configuration that an import replaces

files == <<cur, bak, tmp>>
vars == <<files, def, device, tree, pc, buf, out, given, kept, former>>

\* The caller of ImportConfig, and whoever saves under the AccessLock.
Threads == {"owner", "saver"}

At(p, l) == pc[p] = l
Goto(p, l) == pc' = [pc EXCEPT ![p] = l]
Step(p, from, to) == At(p, from) /\ Goto(p, to)

Up == tree # Missing

\* The contents that are no configuration: Empty, one of which only so much
\* is known that it is legible, and a text that is not.
Empty == <<>>
Mixture == <<Bare>>
Illegible == <<Bare, Bare>>

Contents == Docs \cup {Empty, Mixture, Illegible}

ASSUME ConfigTransferAssumption ==
    /\ {Factory, NewConfig} \subseteq Docs
    /\ Docs \cap {Empty, Mixture, Illegible} = {} /\ Missing \notin Contents
    /\ Fitted \subseteq Devices /\ Faults \in BOOLEAN

Cut(g) == IF g = Illegible THEN Illegible ELSE Mixture

\* g is written over f, from the beginning: it covers f or it does not.
Overlaid(f, g) == IF g = Empty THEN {f}
                  ELSE IF f \in {Empty, g} THEN {g} ELSE {g, Mixture}

\* backup_file: what bak may be after f was to be copied to it.  A file that is
\* missing or empty cannot be mapped.
CopyOf(f) == IF f \in {Missing, Empty} THEN {bak}
             ELSE {f} \cup (IF Faults THEN {bak, Empty, Cut(f)} ELSE {})

Init ==
    /\ cur = Missing /\ bak = Missing /\ tmp = Missing
    /\ def = Factory /\ device \in Fitted
    /\ tree = Missing
    /\ pc = [p \in Threads |-> "idle"] /\ buf = [p \in Threads |-> Empty]
    /\ out = Missing
    /\ given = Missing /\ kept = Missing /\ former = Missing

\* The file that ReadCurConfig gets to open.
Opens(f) ==
    \/ f = cur /\ cur # Missing
    \/ f = bak /\ bak # Missing /\ (cur = Missing \/ Faults)
    \/ f = Missing /\ ({cur, bak} = {Missing} \/ Faults)

\* The records found in it, with the defaults, which may be unreadable, below.
Loaded(f) == IF f \in {Missing, Empty, Illegible}
             THEN {Factory} \cup (IF Faults THEN {Mixture} ELSE {}) ELSE {f}

\* ReadCurConfig stores what it found (CfmSsp has it step by step); when it
\* cannot, the registry starts with no record.
Start ==
    /\ ~Up
    /\ \E f \in {cur, bak, Missing} :
         /\ Opens(f)
         /\ \/ /\ tree' \in Loaded(f) /\ cur' = tree' /\ bak' \in CopyOf(tree')
               /\ kept' = IF f = cur THEN kept ELSE Missing
            \/ /\ Faults /\ tree' = Mixture /\ UNCHANGED bak
               /\ \/ UNCHANGED <<cur, kept>>
                  \/ cur' \in {Empty, Mixture} /\ kept' = Missing
    /\ former' = Missing
    /\ UNCHANGED <<tmp, def, device, pc, buf, out, given>>

Change(d) ==
    /\ Up /\ tree' = d
    /\ UNCHANGED <<files, def, device, pc, buf, out, given, kept, former>>

-----------------------------------------------------------------------------
(* The two saves: ssp_CfmSaveCurConfig (the saver) makes the current file  *)
(* if need be, writes it and then backs it up; PsmSysroCfmSaveCurConfig    *)
(* (an import) backs it up first, and needs it to be there.                *)

\* History: p truncates or writes the current file.
Touches(p) ==
    /\ kept' = Missing
    /\ given' = IF p = "saver" /\ pc["owner"] \in {"write", "saved"} THEN Missing ELSE given
    /\ former' = IF p = "saver" THEN Missing ELSE former

\* A slip: the current file is not truncated either.
OpenCurKeeps(p) ==
    /\ Step(p, "open", "write")
    /\ p = "owner" => cur # Missing
    /\ cur' = (IF cur = Missing THEN Empty ELSE cur)
    /\ Touches(p)
    /\ UNCHANGED <<bak, tmp, def, device, tree, buf, out>>

OpenCur(p) ==
    /\ Step(p, "open", "write")
    /\ p = "owner" => cur # Missing
    /\ cur' = Empty
    /\ Touches(p)
    /\ UNCHANGED <<bak, tmp, def, device, tree, buf, out>>

WriteCur(p) ==
    /\ Step(p, "write", IF p = "saver" THEN "backup" ELSE "saved")
    /\ cur' \in Overlaid(cur, buf[p])
    /\ Touches(p)
    /\ UNCHANGED <<bak, tmp, def, device, tree, buf, out>>

\* A backup that fails is only logged.
BackupCur(p) ==
    /\ Step(p, "backup", IF p = "saver" THEN "saved" ELSE "open")
    /\ bak' \in CopyOf(cur)
    /\ former' = IF p = "owner" /\ bak' = cur THEN former ELSE Missing
    /\ UNCHANGED <<cur, tmp, def, device, tree, buf, out, given, kept>>

SaveFails(p) ==
    /\ \/ Step(p, "open", "unsaved") /\ (Faults \/ (p = "owner" /\ cur = Missing))
          /\ UNCHANGED <<cur, given, kept, former>>
       \/ Step(p, "write", "unsaved") /\ Faults
          /\ cur' \in {cur} \cup Overlaid(cur, Cut(buf[p])) /\ Touches(p)
    /\ UNCHANGED <<bak, tmp, def, device, tree, buf, out>>

\* The timer, a reload or SIGTERM.
Save ==
    /\ Up /\ Step("saver", "idle", "open")
    /\ buf' = [buf EXCEPT !["saver"] = tree]
    /\ UNCHANGED <<files, def, device, tree, out, given, kept, former>>

Saved ==
    /\ Step("saver", "saved", "idle") \/ Step("saver", "unsaved", "idle")
    /\ buf' = [buf EXCEPT !["saver"] = Empty]
    /\ UNCHANGED <<files, def, device, tree, out, given, kept, former>>

-----------------------------------------------------------------------------
(* PsmSysroImportConfig                                                    *)

Returns ==
    /\ Goto("owner", "idle")
    /\ buf' = [buf EXCEPT !["owner"] = Empty] /\ given' = Missing

\* t is what the caller's text is when it was deciphered.  Without a key it is
\* not looked at, and what will be stored is a text of size zero.
Import(t, keyed, aligned) ==
    /\ Up /\ At("owner", "idle")
    /\ IF keyed /\ ~aligned THEN Returns /\ UNCHANGED former
       ELSE /\ Goto("owner", IF keyed THEN "tmp" ELSE "backup")
            /\ buf' = [buf EXCEPT !["owner"] = IF keyed THEN t ELSE Empty]
            /\ given' = IF keyed /\ tmp = Missing /\ t \in Docs THEN t ELSE Missing
            /\ former' = IF At("saver", "idle") /\ cur \in Docs THEN cur ELSE Missing
    /\ UNCHANGED <<files, def, device, tree, out, kept>>

TmpOver(f) == Overlaid(IF tmp = Missing THEN Empty ELSE tmp, f)

\* The temporary file is written without truncating what an import that did
\* not come to its end has left there, and read again.
WriteTmp ==
    /\ Step("owner", "tmp", "test")
    /\ tmp' \in TmpOver(buf["owner"])
    /\ buf' = [buf EXCEPT !["owner"] = tmp']
    /\ UNCHANGED <<cur, bak, def, device, tree, out, given, kept, former>>

\* It cannot be opened, written, or opened again: it stays behind.
WriteTmpFails ==
    /\ Faults /\ At("owner", "tmp")
    /\ tmp' \in {tmp} \cup TmpOver(Cut(buf["owner"])) \cup TmpOver(buf["owner"])
    /\ Returns /\ former' = Missing
    /\ UNCHANGED <<cur, bak, def, device, tree, out, kept>>

\* A slip: whatever was read is stored.
TestRegFileAny ==
    /\ Step("owner", "test", "backup")
    /\ UNCHANGED <<files, def, device, tree, buf, out, given, kept, former>>

\* A slip: the current file is opened before it is backed up.
TestRegFileNoBackup ==
    /\ Step("owner", "test", "open")
    /\ buf["owner"] \in Docs \cup {Mixture}
    /\ UNCHANGED <<files, def, device, tree, buf, out, given, kept, former>>

\* A mixture of texts may be accepted.
TestRegFile ==
    /\ Step("owner", "test", "backup")
    /\ buf["owner"] \in Docs \cup {Mixture}
    /\ UNCHANGED <<files, def, device, tree, buf, out, given, kept, former>>

\* The file is empty or cannot be read (FAILURE), or its text is refused
\* (BAD_MEDIA).
Refuse ==
    /\ At("owner", "test")
    /\ buf["owner"] \notin Docs \/ Faults
    /\ Returns /\ former' = Missing
    /\ tmp' = Missing
    /\ UNCHANGED <<cur, bak, def, device, tree, out, kept>>

Imported ==
    /\ \/ At("owner", "saved") /\ kept' = given       \* SUCCESS
       \/ At("owner", "unsaved") /\ UNCHANGED kept    \* FAILURE
    /\ Returns
    /\ tmp' = IF buf["owner"] = Empty THEN tmp ELSE Missing
    /\ UNCHANGED <<cur, bak, def, device, tree, out, former>>

ImportStep ==
    \/ \E t \in Docs \cup {Empty, Illegible}, k, a \in BOOLEAN : Import(t, k, a)
    \/ WriteTmp \/ WriteTmpFails \/ TestRegFile \/ Refuse \/ Imported

-----------------------------------------------------------------------------
(* The UpdateConfigs parameter, and the default configuration              *)

\* Any of the three documents may be unreadable, the new one also missing.
Update ==
    /\ Up
    /\ \/ /\ cur \in Docs
          /\ LET r == UpdateConfigs(NewConfig, cur, def, GetCustomParams(device))
             IN  cur' = r.cur /\ def' = r.def
       \/ UNCHANGED <<cur, def>>
    /\ UNCHANGED <<bak, tmp, device, tree, pc, buf, out, given, kept, former>>

\* A slip: the parameters that the file does not have are not added.
ReadDefConfigOfFile ==
    /\ Up /\ device.platform # "other"
    /\ LET names == {def[i].name : i \in DOMAIN def}
           custom == GetCustomParams(device)
       IN  out' = [p \in names |-> IF p \in DOMAIN custom THEN custom[p]
                                   ELSE (CHOOSE rec \in Range(def) : rec.name = p).value]
    /\ UNCHANGED <<files, def, device, tree, pc, buf, given, kept, former>>

\* It fails in a build that has no parameters of its own.
ReadDefConfig ==
    /\ Up /\ device.platform # "other"
    /\ LET names == {def[i].name : i \in DOMAIN def}
           custom == GetCustomParams(device)
       IN  out' = [p \in names \cup DOMAIN custom |->
                     IF p \in DOMAIN custom THEN custom[p]
                     ELSE (CHOOSE rec \in Range(def) : rec.name = p).value]
    /\ UNCHANGED <<files, def, device, tree, pc, buf, given, kept, former>>

-----------------------------------------------------------------------------
\* An import that had not yet copied the configuration it was to replace has
\* replaced none.
Stops ==
    /\ tree' = Missing
    /\ pc' = [p \in Threads |-> "idle"] /\ buf' = [p \in Threads |-> Empty]
    /\ out' = Missing /\ given' = Missing
    /\ former' = IF pc["owner"] \in {"tmp", "test", "backup"} THEN Missing ELSE former
    /\ UNCHANGED <<bak, def, device>>

\* SIGTERM has the tree saved (Save) before the process ends; any other
\* signal may end it at any point.
Kill == Up /\ Stops /\ UNCHANGED <<cur, tmp, kept>>

\* The current file is in /tmp, the backup in /nvram.
PowerLoss == Stops /\ cur' = Missing /\ tmp' \in {tmp, Missing} /\ kept' = Missing

Next ==
    \/ Start \/ (\E d \in Docs : Change(d))
    \/ \E p \in Threads : OpenCur(p) \/ WriteCur(p) \/ BackupCur(p) \/ SaveFails(p)
    \/ Save \/ Saved \/ ImportStep \/ Update \/ ReadDefConfig \/ Kill \/ PowerLoss

Spec == Init /\ [][Next]_vars

-----------------------------------------------------------------------------
(* Properties                                                              *)

TypeOK ==
    /\ {cur, bak, tmp} \subseteq Contents \cup {Missing}
    /\ def \in Contents /\ device \in Fitted /\ tree \in Docs \cup {Mixture, Missing}
    /\ pc \in [Threads -> {"idle", "open", "write", "backup", "saved", "unsaved", "tmp", "test"}]
    /\ buf \in [Threads -> Contents]
    /\ out = Missing \/ Params(device) \subseteq DOMAIN out
    /\ {given, kept, former} \subseteq Docs \cup {Missing}

\* An import that returned success is what a restart finds, through kills,
\* refused imports and updates, and although a save that had begun before it
\* comes to its backup only then, until something is written over it.  (It
\* claims nothing when a save wrote between the import's own truncating and
\* its return, or when an earlier import had left its temporary file.)
ImportLasts == kept # Missing => cur = kept

\* From the moment an import has the current file to write, the backup holds
\* the configuration that it replaces: whatever becomes of the import, and
\* wherever the process is killed or the power lost, which takes the current
\* file away, that configuration can be started from until the registry saves.
\* (It claims nothing when the copy failed or a save was under way.)
OldSurvives ==
    former # Missing =>
        former = (IF pc["owner"] \in {"tmp", "test", "backup"} THEN cur ELSE bak)

\* A text that was not deciphered does not get into a configuration file as
\* a whole, whatever the key and the caller's text.  (A mixture, from a
\* temporary file left behind or two writers of one file, may have a piece
\* of anything.)
NoCiphertext == Illegible \notin {cur, bak}

\* In the default configuration of a device no network gets the name or the
\* passphrase of another, although all are read through one buffer; but for
\* the public one, whose passphrase may be that of home security, which the
\* loop finds in the buffer.  The private passphrase is in no other's.
Own(network, field) ==
    IF field = "SSID"
    THEN CASE network = "private" -> {"24_SSID", "50_SSID", "60_SSID"}
           [] network = "xhs" -> {"xhs_SSID"}
           [] network = "xfinity" -> {"xfinitywifi", "xfinity public"}
    ELSE IF network = "private" THEN {"wifi_passwd"} ELSE {"xhs_passkey"}

SlotsKept ==
    out # Missing => \A p \in Params(device) :
        out[p].of \in Own(Network(p.ap), p.field) \cup {Network(p.ap)}

=============================================================================
