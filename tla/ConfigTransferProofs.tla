------------------------ MODULE ConfigTransferProofs ------------------------
(***************************************************************************)
(* Theorems about imports and updates, for every set of documents and      *)
(* devices, with and without I/O faults.                                   *)
(***************************************************************************)
EXTENDS ConfigTransfer, TLAPS

\* The contents that are no documents are four different things.
LEMMA Distinct ==
    /\ Empty # Mixture /\ Empty # Illegible /\ Mixture # Illegible
    /\ Missing \notin Docs /\ Missing \notin {Empty, Mixture, Illegible}
    /\ Empty \notin Docs /\ Mixture \notin Docs /\ Illegible \notin Docs
    /\ Factory \in Docs
<1>1. Len(Empty) = 0 /\ Len(Mixture) = 1 /\ Len(Illegible) = 2
  BY DEF Empty, Mixture, Illegible
<1> QED BY <1>1, ConfigTransferAssumption DEF Contents

\* Whatever UpdateConfigs makes of the documents, it gives back the files.
LEMMA UpdateGives ==
    ASSUME NEW new, NEW c, NEW d, NEW custom
    PROVE  UpdateConfigs(new, c, d, custom).cur = c /\ UpdateConfigs(new, c, d, custom).def = d
BY DEF UpdateConfigs, XmlToFile

LEMMA UpdateStep == Update => UNCHANGED vars
BY UpdateGives DEF Update, vars, files

-----------------------------------------------------------------------------
(* Types                                                                   *)

LEMMA Overlays ==
    ASSUME NEW f \in Contents, NEW g \in Contents
    PROVE  Overlaid(f, g) \subseteq Contents /\ Cut(g) \in Contents
BY DEF Overlaid, Cut, Contents

LEMMA TmpOvers ==
    ASSUME TypeOK, NEW g \in Contents
    PROVE  TmpOver(g) \subseteq Contents /\ TmpOver(Cut(g)) \subseteq Contents
<1>1. (IF tmp = Missing THEN Empty ELSE tmp) \in Contents
  BY DEF TypeOK, Contents
<1> QED BY <1>1, Overlays DEF TmpOver

LEMMA TypeInit == Init => TypeOK
BY Distinct DEF Init, TypeOK, Contents, Threads

LEMMA Copies ==
    ASSUME NEW f \in Contents \cup {Missing}, TypeOK
    PROVE  CopyOf(f) \subseteq Contents \cup {Missing}
BY Overlays DEF CopyOf, TypeOK, Contents, Cut

\* A step of a save or an import, by the thread p: where it goes, what it
\* has in its hands, and what becomes of the files.
LEMMA SaveTypes ==
    ASSUME TypeOK, NEW p \in Threads,
           OpenCur(p) \/ WriteCur(p) \/ BackupCur(p) \/ SaveFails(p)
    PROVE  TypeOK'
<1> USE DEF Step, At, Goto
<1>1. buf[p] \in Contents
  BY DEF TypeOK
<1>2. Touches(p) => {given', kept', former'} \subseteq Docs \cup {Missing}
  BY DEF Touches, TypeOK
<1>3. CASE OpenCur(p)
  <2>1. cur' \in Contents
    BY <1>3 DEF OpenCur, Contents
  <2> QED BY <1>2, <1>3, <2>1 DEF OpenCur, TypeOK
<1>4. CASE WriteCur(p)
  <2>1. cur = Missing => Overlaid(cur, buf[p]) \subseteq Contents \cup {Missing}
    BY <1>1 DEF Overlaid, Contents
  <2>2. cur' \in Contents \cup {Missing}
    BY <1>1, <1>4, <2>1, Overlays DEF WriteCur, TypeOK
  <2>3. \E l \in {"backup", "saved"} : pc' = [pc EXCEPT ![p] = l]
    BY <1>4 DEF WriteCur
  <2> QED BY <1>2, <1>4, <2>2, <2>3 DEF WriteCur, TypeOK
<1>5. CASE BackupCur(p)
  <2>1. bak' \in Contents \cup {Missing}
    BY <1>5, Copies DEF BackupCur, TypeOK
  <2>2. former' \in Docs \cup {Missing}
    BY <1>5 DEF BackupCur, TypeOK
  <2>3. \E l \in {"saved", "open"} : pc' = [pc EXCEPT ![p] = l]
    BY <1>5 DEF BackupCur
  <2> QED BY <1>5, <2>1, <2>2, <2>3 DEF BackupCur, TypeOK
<1>6. CASE SaveFails(p)
  <2>1. Cut(buf[p]) \in Contents
    BY <1>1 DEF Cut, Contents
  <2>2. Overlaid(cur, Cut(buf[p])) \subseteq Contents \cup {Missing}
    BY <2>1 DEF Overlaid, TypeOK, Contents
  <2>3. cur' \in Contents \cup {Missing} /\ {given', kept', former'} \subseteq Docs \cup {Missing}
    BY <1>2, <1>6, <2>2 DEF SaveFails, TypeOK
  <2>4. pc' = [pc EXCEPT ![p] = "unsaved"] /\ UNCHANGED <<bak, tmp, def, device, tree, buf, out>>
    BY <1>6 DEF SaveFails
  <2> QED BY <2>3, <2>4 DEF TypeOK
<1> QED BY <1>3, <1>4, <1>5, <1>6

LEMMA ImportTypes == ASSUME TypeOK, ImportStep PROVE TypeOK'
<1> USE DEF Step, At, Goto
<1>1. "owner" \in Threads /\ buf["owner"] \in Contents /\ Empty \in Contents
  BY DEF TypeOK, Threads, Contents
<1>2. ASSUME Returns, tmp' \in Contents \cup {Missing}, kept' \in {kept, given},
             former' \in {former, Missing}, UNCHANGED <<cur, bak, def, device, tree, out>>
      PROVE  TypeOK'
  BY <1>1, <1>2 DEF Returns, TypeOK
<1>3. ASSUME NEW t \in Docs \cup {Empty, Illegible}, NEW k \in BOOLEAN, NEW a \in BOOLEAN,
             Import(t, k, a)
      PROVE  TypeOK'
  <2>1. CASE k /\ ~a
    BY <1>2, <1>3, <2>1 DEF Import, files, TypeOK
  <2>2. CASE ~(k /\ ~a)
    <3>1. /\ pc' = [pc EXCEPT !["owner"] = IF k THEN "tmp" ELSE "backup"]
          /\ buf' = [buf EXCEPT !["owner"] = IF k THEN t ELSE Empty]
          /\ given' \in Docs \cup {Missing} /\ former' \in Docs \cup {Missing}
          /\ UNCHANGED <<files, def, device, tree, out, kept>>
      BY <1>3, <2>2 DEF Import
    <3>2. (IF k THEN t ELSE Empty) \in Contents
      BY DEF Contents
    <3> QED BY <3>1, <3>2 DEF files, TypeOK
  <2> QED BY <2>1, <2>2
<1>4. CASE WriteTmp
  <2>1. tmp' \in Contents
    BY <1>1, <1>4, TmpOvers DEF WriteTmp
  <2> QED BY <1>1, <1>4, <2>1 DEF WriteTmp, TypeOK
<1>5. CASE WriteTmpFails
  <2>1. tmp' \in Contents \cup {Missing}
    BY <1>1, <1>5, TmpOvers DEF WriteTmpFails, TypeOK
  <2> QED BY <1>2, <1>5, <2>1 DEF WriteTmpFails
<1>6. CASE TestRegFile
  BY <1>6 DEF TestRegFile, TypeOK, files
<1>7. CASE Refuse
  BY <1>2, <1>7 DEF Refuse
<1>8. CASE Imported
  <2>1. tmp' \in Contents \cup {Missing} /\ kept' \in {kept, given}
    BY <1>8 DEF Imported, TypeOK
  <2> QED BY <1>2, <1>8, <2>1 DEF Imported
<1> QED BY <1>3, <1>4, <1>5, <1>6, <1>7, <1>8 DEF ImportStep

LEMMA TypeNext == ASSUME TypeOK, [Next]_vars PROVE TypeOK'
<1>1. ASSUME UNCHANGED vars PROVE TypeOK'
  BY <1>1 DEF vars, files, TypeOK
<1>2. CASE Start
  <2>1. ASSUME NEW f \in {cur, bak, Missing}
        PROVE  Loaded(f) \subseteq Docs \cup {Mixture}
    BY <2>1, Distinct DEF Loaded, Contents, TypeOK
  <2>2. /\ tree' \in Docs \cup {Mixture} /\ cur' \in {cur, tree', Empty, Mixture}
        /\ bak' = bak \/ bak' \in CopyOf(tree')
        /\ kept' \in {kept, Missing} /\ former' = Missing
        /\ UNCHANGED <<tmp, def, device, pc, buf, out, given>>
    BY <1>2, <2>1 DEF Start
  <2>3. tree' \in Contents /\ {Empty, Mixture} \subseteq Contents
    BY <2>2 DEF Contents
  <2>4. bak' \in Contents \cup {Missing}
    BY <2>2, <2>3, Copies DEF TypeOK
  <2> QED BY <2>2, <2>3, <2>4 DEF TypeOK
<1>3. CASE \E d \in Docs : Change(d)
  BY <1>3 DEF Change, files, TypeOK
<1>4. CASE Save \/ Saved
  <2>1. \E b \in Contents : buf' = [buf EXCEPT !["saver"] = b]
    BY <1>4 DEF Save, Saved, Up, TypeOK, Contents
  <2>2. \E l \in {"open", "idle"} : pc' = [pc EXCEPT !["saver"] = l]
    BY <1>4 DEF Save, Saved, Step, Goto
  <2>3. UNCHANGED <<files, def, device, tree, out, given, kept, former>>
    BY <1>4 DEF Save, Saved
  <2> QED BY <2>1, <2>2, <2>3 DEF files, TypeOK
<1>5. CASE ReadDefConfig
  <2>1. Params(device) \subseteq DOMAIN out'
    BY <1>5 DEF ReadDefConfig, GetCustomParams
  <2> QED BY <1>5, <2>1 DEF ReadDefConfig, files, TypeOK
<1>6. CASE Kill \/ PowerLoss
  <2>1. Empty \in Contents
    BY DEF Contents
  <2>2. Stops /\ cur' \in {cur, Missing} /\ tmp' \in {tmp, Missing} /\ kept' \in {kept, Missing}
    BY <1>6 DEF Kill, PowerLoss
  <2> QED BY <2>1, <2>2 DEF Stops, TypeOK
<1> QED BY <1>1, <1>2, <1>3, <1>4, <1>5, <1>6, SaveTypes, ImportTypes, UpdateStep DEF Next

\* Every reachable state is well typed; in particular the default
\* configuration that a device answers has each parameter of its own.
THEOREM TypeCorrect == Spec => []TypeOK
<1>1. TypeOK /\ [Next]_vars => TypeOK'
  BY TypeNext
<1> QED BY <1>1, TypeInit, PTL DEF Spec

-----------------------------------------------------------------------------
(* Ciphertext stays out of the configuration files                         *)

\* A text that was not deciphered is in the temporary file only, and with the
\* import that has not tested it yet.
Deciphered ==
    /\ NoCiphertext /\ buf["saver"] # Illegible
    /\ pc["owner"] \notin {"tmp", "test"} => buf["owner"] # Illegible

LEMMA LegibleOver ==
    ASSUME NEW f, NEW g, f # Illegible, g # Illegible
    PROVE  Illegible \notin Overlaid(f, g) /\ Cut(g) = Mixture /\ Illegible \notin Overlaid(f, Cut(g))
BY Distinct DEF Overlaid, Cut

LEMMA LegibleCopy ==
    ASSUME NEW f, f # Illegible, bak # Illegible
    PROVE  Illegible \notin CopyOf(f)
BY Distinct, LegibleOver DEF CopyOf

LEMMA DecipheredNext == ASSUME TypeOK, Deciphered, [Next]_vars PROVE Deciphered'
<1> USE DEF Step, At, Goto
<1>a. "owner" \in Threads /\ "saver" \in Threads /\ Threads = {"owner", "saver"}
  BY DEF Threads
<1>1. ASSUME UNCHANGED vars PROVE Deciphered'
  BY <1>1 DEF vars, files, Deciphered, NoCiphertext
<1>2. CASE Start
  <2>1. cur # Illegible /\ bak # Illegible
    BY DEF Deciphered, NoCiphertext
  <2>2. \A f : Illegible \notin Loaded(f)
    BY Distinct DEF Loaded
  <2>3. tree' # Illegible
    BY <1>2, <2>2, Distinct DEF Start
  <2>4. cur' # Illegible /\ bak' # Illegible
    BY <1>2, <2>1, <2>3, LegibleCopy, Distinct DEF Start
  <2>5. UNCHANGED <<pc, buf>>
    BY <1>2 DEF Start
  <2> QED BY <2>4, <2>5 DEF Deciphered, NoCiphertext
<1>3. CASE \E d \in Docs : Change(d)
  BY <1>3 DEF Change, files, Deciphered, NoCiphertext
<1>4. CASE Save \/ Saved
  <2>1. tree \in Docs \cup {Mixture, Missing}
    BY DEF TypeOK
  <2>2. \E b : b # Illegible /\ buf' = [buf EXCEPT !["saver"] = b]
    BY <1>4, <2>1, Distinct DEF Save, Saved
  <2>3. \E l : pc' = [pc EXCEPT !["saver"] = l]
    BY <1>4 DEF Save, Saved
  <2> QED BY <1>4, <1>a, <2>2, <2>3 DEF Save, Saved, files, TypeOK, Deciphered, NoCiphertext
<1>5. CASE ReadDefConfig
  BY <1>5 DEF ReadDefConfig, files, Deciphered, NoCiphertext
<1>6. CASE Kill \/ PowerLoss
  BY <1>6, <1>a, Distinct DEF Kill, PowerLoss, Stops, Deciphered, NoCiphertext
<1>7. ASSUME NEW p \in Threads, OpenCur(p) \/ WriteCur(p) \/ BackupCur(p) \/ SaveFails(p)
      PROVE  Deciphered'
  <2>1. pc[p] \in {"open", "write", "backup"} /\ buf[p] # Illegible
    BY <1>7, <1>a DEF OpenCur, WriteCur, BackupCur, SaveFails, Deciphered
  <2>2. cur' # Illegible /\ bak' # Illegible
    BY <1>7, <2>1, LegibleOver, LegibleCopy, Distinct
    DEF OpenCur, WriteCur, BackupCur, SaveFails, Deciphered, NoCiphertext
  <2>3. buf' = buf /\ \E l \in {"open", "write", "backup", "saved", "unsaved"} : pc' = [pc EXCEPT ![p] = l]
    BY <1>7 DEF OpenCur, WriteCur, BackupCur, SaveFails
  <2> QED BY <1>a, <2>1, <2>2, <2>3 DEF TypeOK, Deciphered, NoCiphertext
<1>8. CASE ImportStep
  <2>1. Returns => buf'["owner"] # Illegible /\ buf'["saver"] = buf["saver"]
    BY <1>a, Distinct DEF Returns, TypeOK
  <2>2. ASSUME NEW t \in Docs \cup {Empty, Illegible}, NEW k \in BOOLEAN, NEW a \in BOOLEAN,
               Import(t, k, a)
        PROVE  Deciphered'
    BY <1>a, <2>1, <2>2, Distinct DEF Import, files, TypeOK, Deciphered, NoCiphertext
  <2>3. CASE WriteTmp
    BY <1>a, <2>3 DEF WriteTmp, TypeOK, Deciphered, NoCiphertext
  <2>4. CASE TestRegFile
    <3>1. buf["owner"] # Illegible
      BY <2>4, Distinct DEF TestRegFile
    <3> QED BY <1>a, <2>4, <3>1 DEF TestRegFile, files, TypeOK, Deciphered, NoCiphertext
  <2>5. CASE WriteTmpFails \/ Refuse \/ Imported
    BY <2>1, <2>5 DEF WriteTmpFails, Refuse, Imported, Deciphered, NoCiphertext
  <2> QED BY <1>8, <2>2, <2>3, <2>4, <2>5 DEF ImportStep
<1> QED BY <1>1, <1>2, <1>3, <1>4, <1>5, <1>6, <1>7, <1>8, UpdateStep DEF Next

\* What an import could not decipher never becomes, as a whole, the current
\* file or the backup: neither through the temporary file that an earlier import left, nor
\* by two writers of one file, nor when a write is cut.
THEOREM StaysOut == Spec => []NoCiphertext
<1>1. Init => Deciphered
  BY Distinct DEF Init, Deciphered, NoCiphertext, Threads
<1>2. TypeOK /\ Deciphered /\ [Next]_vars => Deciphered'
  BY DecipheredNext
<1>3. Deciphered => NoCiphertext
  BY DEF Deciphered
<1> QED BY <1>1, <1>2, <1>3, TypeCorrect, PTL DEF Spec

-----------------------------------------------------------------------------
(* An import lasts                                                         *)

\* What an import that nothing disturbed has in its hands and has done: the
\* caller's text until it is stored, and the file as it left it.
Follows ==
    given # Missing =>
        /\ pc["owner"] # "idle" /\ given \in Docs /\ Up
        /\ buf["owner"] = given
        /\ pc["owner"] = "tmp" => tmp = Missing
        /\ pc["owner"] = "write" => cur = Empty
        /\ pc["owner"] = "saved" => cur = given

\* What an import left stays there as long as nobody writes the file.
Stays == kept # Missing => kept \in Docs /\ cur = kept /\ pc["owner"] # "write"

\* Nobody is at work when PSM is not.
Rests == ~Up => \A p \in Threads : pc[p] = "idle"

Lasting == Follows /\ Stays /\ Rests

\* A document over an empty file is that document.
LEMMA OverEmpty == \A g \in Docs : Overlaid(Empty, g) = {g}
BY Distinct DEF Overlaid

LEMMA SaveLasts ==
    ASSUME TypeOK, Lasting, NEW p \in Threads,
           OpenCur(p) \/ WriteCur(p) \/ BackupCur(p) \/ SaveFails(p)
    PROVE  Lasting'
<1> USE DEF Step, At, Goto, Up
<1>a. Threads = {"owner", "saver"} /\ "owner" # "saver"
  BY DEF Threads
<1>b. pc \in [Threads -> {"idle", "open", "write", "backup", "saved", "unsaved", "tmp", "test"}]
  BY DEF TypeOK
<1>c. UNCHANGED <<tmp, tree, buf>>
  BY DEF OpenCur, WriteCur, BackupCur, SaveFails
<1>1. Rests'
  BY <1>a, <1>b, <1>c DEF Lasting, Rests, OpenCur, WriteCur, BackupCur, SaveFails
<1>2. ASSUME Touches(p), p = "saver", \E l \in {"write", "backup", "unsaved"} : pc' = [pc EXCEPT ![p] = l]
      PROVE  Lasting'
  <2>1. kept' = Missing /\ pc'["owner"] = pc["owner"]
    BY <1>2, <1>a, <1>b DEF Touches
  <2>2. given' # Missing => given' = given /\ pc["owner"] \notin {"write", "saved"}
    BY <1>2 DEF Touches
  <2> QED BY <1>1, <1>c, <2>1, <2>2 DEF Lasting, Follows, Stays
<1>3. CASE p = "owner" /\ OpenCur(p)
  BY <1>1, <1>3, <1>a, <1>b DEF OpenCur, Touches, Lasting, Follows, Stays
<1>4. CASE p = "owner" /\ WriteCur(p)
  <2>1. given # Missing => cur' = given
    BY <1>4, OverEmpty DEF WriteCur, Lasting, Follows
  <2> QED BY <1>1, <1>4, <1>a, <1>b, <2>1 DEF WriteCur, Touches, Lasting, Follows, Stays
<1>5. CASE BackupCur(p)
  <2>1. pc'["owner"] = pc["owner"] \/ (pc["owner"] = "backup" /\ pc'["owner"] = "open")
    BY <1>5, <1>a, <1>b DEF BackupCur
  <2> QED BY <1>1, <1>5, <1>c, <2>1 DEF BackupCur, Lasting, Follows, Stays
<1>6. CASE SaveFails(p)
  <2>1. pc' = [pc EXCEPT ![p] = "unsaved"]
    BY <1>6 DEF SaveFails
  <2>2. CASE pc[p] = "open"
    <3>1. UNCHANGED <<cur, given, kept>>
      BY <1>6, <2>2 DEF SaveFails
    <3>2. pc'["owner"] \in {pc["owner"], "unsaved"}
      BY <1>a, <1>b, <2>1
    <3>3. pc["owner"] # "idle" => pc'["owner"] # "idle"
      BY <3>2
    <3> QED BY <1>1, <1>c, <3>1, <3>2, <3>3 DEF Lasting, Follows, Stays
  <2>3. CASE pc[p] = "write" /\ p = "owner"
    BY <1>1, <1>6, <1>a, <1>b, <2>1, <2>3 DEF SaveFails, Touches, Lasting, Follows, Stays
  <2>4. CASE pc[p] = "write" /\ p = "saver"
    BY <1>2, <1>6, <2>1, <2>4 DEF SaveFails
  <2> QED BY <1>6, <1>a, <2>2, <2>3, <2>4 DEF SaveFails
<1>7. CASE p = "saver" /\ (OpenCur(p) \/ WriteCur(p))
  BY <1>2, <1>7 DEF OpenCur, WriteCur
<1> QED BY <1>a, <1>3, <1>4, <1>5, <1>6, <1>7

LEMMA ImportLastingStep == ASSUME TypeOK, Lasting, ImportStep PROVE Lasting'
<1> USE DEF Step, At, Goto, Up
<1>a. Threads = {"owner", "saver"} /\ "owner" # "saver"
  BY DEF Threads
<1>b. pc \in [Threads -> {"idle", "open", "write", "backup", "saved", "unsaved", "tmp", "test"}]
  BY DEF TypeOK
<1>c. buf \in [Threads -> Contents]
  BY DEF TypeOK
<1>1. ASSUME Returns, kept' = kept, UNCHANGED <<cur, tree>>
      PROVE  Lasting'
  BY <1>1, <1>a, <1>b DEF Returns, Lasting, Follows, Stays, Rests
<1>2. ASSUME NEW t \in Docs \cup {Empty, Illegible}, NEW k \in BOOLEAN, NEW a \in BOOLEAN,
             Import(t, k, a)
      PROVE  Lasting'
  <2>1. CASE k /\ ~a
    BY <1>1, <1>2, <2>1 DEF Import, files
  <2>2. CASE ~(k /\ ~a)
    <3>1. /\ pc' = [pc EXCEPT !["owner"] = IF k THEN "tmp" ELSE "backup"]
          /\ buf' = [buf EXCEPT !["owner"] = IF k THEN t ELSE Empty]
          /\ given' = IF k /\ tmp = Missing /\ t \in Docs THEN t ELSE Missing
          /\ UNCHANGED <<cur, tmp, tree, kept>> /\ Up
      BY <1>2, <2>2 DEF Import, files
    <3>2. Stays' /\ Rests'
      BY <1>a, <1>b, <3>1 DEF Lasting, Stays, Rests
    <3>3. Follows'
      BY <1>a, <1>b, <1>c, <3>1 DEF Follows
    <3> QED BY <3>2, <3>3 DEF Lasting
  <2> QED BY <2>1, <2>2
<1>3. CASE WriteTmp
  <2>1. given # Missing => tmp' = given
    BY <1>3, OverEmpty DEF WriteTmp, TmpOver, Lasting, Follows
  <2> QED BY <1>3, <1>a, <1>b, <1>c, <2>1 DEF WriteTmp, Lasting, Follows, Stays, Rests
<1>4. CASE TestRegFile
  BY <1>4, <1>a, <1>b DEF TestRegFile, files, Lasting, Follows, Stays, Rests
<1>5. CASE WriteTmpFails \/ Refuse
  BY <1>1, <1>5 DEF WriteTmpFails, Refuse
<1>6. CASE Imported
  <2>1. CASE pc["owner"] = "saved"
    <3>1. kept' = given /\ Returns /\ UNCHANGED <<cur, tree>>
      BY <1>6, <2>1 DEF Imported
    <3>2. given # Missing => given \in Docs /\ cur = given
      BY <2>1 DEF Lasting, Follows
    <3> QED BY <1>a, <1>b, <3>1, <3>2 DEF Returns, Lasting, Follows, Stays, Rests
  <2>2. CASE pc["owner"] = "unsaved"
    BY <1>1, <1>6, <2>2 DEF Imported
  <2> QED BY <1>6, <2>1, <2>2 DEF Imported
<1> QED BY <1>2, <1>3, <1>4, <1>5, <1>6 DEF ImportStep

LEMMA LastingNext == ASSUME TypeOK, Lasting, [Next]_vars PROVE Lasting'
<1> USE DEF Step, At, Goto, Up
<1>a. Threads = {"owner", "saver"} /\ "owner" # "saver"
  BY DEF Threads
<1>b. pc \in [Threads -> {"idle", "open", "write", "backup", "saved", "unsaved", "tmp", "test"}]
  BY DEF TypeOK
<1>1. ASSUME UNCHANGED vars PROVE Lasting'
  BY <1>1 DEF vars, files, Lasting, Follows, Stays, Rests
<1>2. CASE Start
  <2>1. kept' # Missing => kept' = kept /\ kept \in Docs /\ cur = kept
    BY <1>2 DEF Start, Lasting, Stays
  <2>2. kept' # Missing => cur' = kept'
    <3>1. ASSUME kept' # Missing, tree' \in Loaded(cur), cur' = tree'
          PROVE  cur' = kept'
      BY <2>1, <3>1, Distinct DEF Loaded
    <3> QED BY <1>2, <2>1, <3>1 DEF Start
  <2>3. pc["owner"] = "idle" /\ UNCHANGED <<pc, given>> /\ tree' # Missing
    <3>1. \A f : Missing \notin Loaded(f) \/ f \notin {cur, bak, Missing}
      BY Distinct DEF Loaded
    <3> QED BY <1>2, <1>a, <3>1, Distinct DEF Start, Lasting, Rests
  <2> QED BY <2>1, <2>2, <2>3 DEF Lasting, Follows, Stays, Rests
<1>3. CASE \E d \in Docs : Change(d)
  BY <1>3, Distinct DEF Change, files, Lasting, Follows, Stays, Rests
<1>4. CASE Save \/ Saved
  <2>1. \E b : buf' = [buf EXCEPT !["saver"] = b]
    BY <1>4 DEF Save, Saved
  <2>2. \E l \in {"open", "idle"} : pc' = [pc EXCEPT !["saver"] = l]
    BY <1>4 DEF Save, Saved
  <2>3. buf'["owner"] = buf["owner"] /\ pc'["owner"] = pc["owner"]
    BY <1>a, <1>b, <2>1, <2>2 DEF TypeOK
  <2>4. pc'["saver"] \in {"open", "idle"} /\ UNCHANGED <<cur, tmp, tree, given, kept>>
    BY <1>4, <1>a, <1>b, <2>2 DEF Save, Saved, files
  <2>5. Rests'
    BY <1>4, <1>a, <1>b, <2>3, <2>4 DEF Save, Saved, Lasting, Rests
  <2> QED BY <2>3, <2>4, <2>5 DEF Lasting, Follows, Stays
<1>5. CASE ReadDefConfig
  BY <1>5 DEF ReadDefConfig, files, Lasting, Follows, Stays, Rests
<1>6. CASE Kill \/ PowerLoss
  BY <1>6, <1>a DEF Kill, PowerLoss, Stops, Lasting, Follows, Stays, Rests
<1> QED BY <1>1, <1>2, <1>3, <1>4, <1>5, <1>6, SaveLasts, ImportLastingStep, UpdateStep DEF Next

\* An import that reported success is what a restart finds until something
\* is written over it, wherever PSM is killed, whatever imports and updates
\* come after it and fail or do nothing, and whatever save had begun before.
THEOREM Lasts == Spec => []ImportLasts
<1>1. Init => Lasting
  BY DEF Init, Lasting, Follows, Stays, Rests
<1>2. TypeOK /\ Lasting /\ [Next]_vars => Lasting'
  BY LastingNext
<1>3. Lasting => ImportLasts
  BY DEF Lasting, Stays, ImportLasts
<1> QED BY <1>1, <1>2, <1>3, TypeCorrect, PTL DEF Spec

-----------------------------------------------------------------------------
(* What an import replaces                                                 *)

Survives == former # Missing => former \in Docs /\ OldSurvives

LEMMA SurvivesNext == ASSUME TypeOK, Survives, [Next]_vars PROVE Survives'
<1> USE DEF Step, At, Goto
<1>a. Threads = {"owner", "saver"} /\ "owner" # "saver"
  BY DEF Threads
<1>b. pc \in [Threads -> {"idle", "open", "write", "backup", "saved", "unsaved", "tmp", "test"}]
  BY DEF TypeOK
<1>1. CASE UNCHANGED vars
  BY <1>1 DEF vars, files, Survives, OldSurvives
<1>2. CASE Start
  BY <1>2 DEF Start, Survives
<1>3. CASE (\E d \in Docs : Change(d)) \/ ReadDefConfig
  BY <1>3 DEF Change, ReadDefConfig, files, Survives, OldSurvives
<1>4. CASE Save \/ Saved
  <2>1. pc'["owner"] = pc["owner"] /\ UNCHANGED <<cur, bak, former>>
    BY <1>4, <1>a, <1>b DEF Save, Saved, files
  <2> QED BY <2>1 DEF Survives, OldSurvives
<1>5. CASE Kill \/ PowerLoss
  BY <1>5, <1>a DEF Kill, PowerLoss, Stops, Survives, OldSurvives
<1>6. ASSUME OpenCur("owner") \/ WriteCur("owner") \/ SaveFails("owner")
      PROVE  Survives'
  <2>1. pc["owner"] \in {"open", "write"} /\ pc'["owner"] \in {"write", "saved", "unsaved"}
    BY <1>6, <1>a, <1>b DEF OpenCur, WriteCur, SaveFails
  <2>2. UNCHANGED <<bak, former>>
    BY <1>6 DEF OpenCur, WriteCur, SaveFails, Touches
  <2> QED BY <2>1, <2>2 DEF Survives, OldSurvives
<1>7. ASSUME OpenCur("saver") \/ WriteCur("saver") \/ SaveFails("saver")
      PROVE  Survives'
  <2>1. pc'["owner"] = pc["owner"] /\ UNCHANGED bak /\ (former' = Missing \/ UNCHANGED <<cur, former>>)
    BY <1>7, <1>a, <1>b DEF OpenCur, WriteCur, SaveFails, Touches
  <2> QED BY <2>1 DEF Survives, OldSurvives
<1>8. ASSUME NEW p \in Threads, BackupCur(p)
      PROVE  Survives'
  BY <1>8, <1>a, <1>b DEF BackupCur, Survives, OldSurvives
<1>9. CASE ImportStep
  <2>1. ASSUME NEW t \in Docs \cup {Empty, Illegible}, NEW k \in BOOLEAN, NEW a \in BOOLEAN,
               Import(t, k, a)
        PROVE  Survives'
    BY <1>a, <1>b, <2>1 DEF Import, Returns, files, Survives, OldSurvives
  <2>2. CASE WriteTmp \/ TestRegFile
    BY <1>a, <1>b, <2>2 DEF WriteTmp, TestRegFile, files, Survives, OldSurvives
  <2>3. CASE WriteTmpFails \/ Refuse
    BY <2>3 DEF WriteTmpFails, Refuse, Survives
  <2>4. CASE Imported
    BY <1>a, <1>b, <2>4 DEF Imported, Returns, Survives, OldSurvives
  <2> QED BY <1>9, <2>1, <2>2, <2>3, <2>4 DEF ImportStep
<1> QED BY <1>1, <1>2, <1>3, <1>4, <1>5, <1>6, <1>7, <1>8, <1>9, <1>a, UpdateStep DEF Next

\* What an import replaces is in the backup from the moment that the import
\* writes the current file until the registry saves, wherever the import
\* fails, PSM is killed or the power lost.
THEOREM OldStays == Spec => []OldSurvives
<1>1. Init => Survives
  BY DEF Init, Survives
<1>2. TypeOK /\ Survives /\ [Next]_vars => Survives'
  BY SurvivesNext
<1>3. Survives => OldSurvives
  BY DEF Survives, OldSurvives
<1> QED BY <1>1, <1>2, <1>3, TypeCorrect, PTL DEF Spec

-----------------------------------------------------------------------------
(* The parameters of a device                                              *)

\* What a loop may leave in the buffer after each call.
IsBuffer(d, source, f) ==
    f = [ap \in 0 .. LastAp(d) |->
            IF ap = 0 \/ source[ap] # None THEN Read(d, source[ap]) ELSE f[ap - 1]]

LEMMA BufferEquation ==
    ASSUME NEW d, NEW source, NEW w, IsBuffer(d, source, w)
    PROVE  \A ap \in 0 .. LastAp(d) :
              Buffer(d, source)[ap]
                = IF ap = 0 \/ source[ap] # None THEN Read(d, source[ap])
                  ELSE Buffer(d, source)[ap - 1]
<1>1. Buffer(d, source) = CHOOSE f : IsBuffer(d, source, f)
  BY DEF Buffer, IsBuffer
<1>3. IsBuffer(d, source, CHOOSE f : IsBuffer(d, source, f))
  OBVIOUS
<1>4. PICK b : b = Buffer(d, source)
  OBVIOUS
<1>5. b = [ap \in 0 .. LastAp(d) |->
              IF ap = 0 \/ source[ap] # None THEN Read(d, source[ap]) ELSE b[ap - 1]]
  BY <1>1, <1>3, <1>4 DEF IsBuffer
<1>6. \A ap \in 0 .. LastAp(d) :
         b[ap] = IF ap = 0 \/ source[ap] # None THEN Read(d, source[ap]) ELSE b[ap - 1]
  BY <1>5
<1> QED BY <1>4, <1>6

\* A network's passphrase is read from its own source, but for the public one,
\* for which the buffer still has that of home security.
LEMMA PassphraseBuffer ==
    ASSUME NEW d, NEW ap \in 0 .. 5 \cup (IF d.platform = "XB8" THEN {16, 17} ELSE {})
    PROVE  Buffer(d, [n \in 0 .. LastAp(d) |-> PassphraseSource(d, n)])[ap]
             = Read(d, IF Network(ap) = "private" THEN "wifi_passwd" ELSE "xhs_passkey")
<1> DEFINE S == [n \in 0 .. LastAp(d) |-> PassphraseSource(d, n)]
           held(n) == Read(d, IF n \in {0, 1, 16} THEN "wifi_passwd" ELSE "xhs_passkey")
           w == [n \in 0 .. LastAp(d) |-> held(n)]
<1>1. LastAp(d) = IF d.platform = "XB8" THEN 17 ELSE 5
  BY DEF LastAp
<1>2. \A n \in 0 .. LastAp(d) :
         /\ n \in {0, 1, 16} => S[n] = "wifi_passwd"
         /\ n \in {2, 3, 17} => S[n] = "xhs_passkey"
         /\ n \notin {0, 1, 16, 2, 3, 17} => S[n] = None
  BY <1>1 DEF PassphraseSource
<1>3. None \notin {"wifi_passwd", "xhs_passkey"}
  BY DEF None
<1> HIDE DEF S
<1>4. ASSUME NEW n \in 0 .. LastAp(d)
      PROVE  held(n) = IF n = 0 \/ S[n] # None THEN Read(d, S[n]) ELSE w[n - 1]
  <2>1. CASE n \in {0, 1, 16}
    BY <1>2, <1>3, <2>1
  <2>2. CASE n \in {2, 3, 17}
    BY <1>2, <1>3, <2>2
  <2>3. CASE n \notin {0, 1, 16, 2, 3, 17}
    <3>1. n - 1 \in 0 .. LastAp(d) /\ n - 1 \notin {0, 1, 16} /\ n # 0
      BY <1>1, <2>3
    <3> QED BY <1>2, <2>3, <3>1
  <2> QED BY <2>1, <2>2, <2>3
<1>5. w = [n \in 0 .. LastAp(d) |-> IF n = 0 \/ S[n] # None THEN Read(d, S[n]) ELSE w[n - 1]]
  BY <1>4
<1>6. PICK b : b = Buffer(d, S)
  OBVIOUS
<1>7. \A n \in 0 .. LastAp(d) :
         b[n] = IF n = 0 \/ S[n] # None THEN Read(d, S[n]) ELSE b[n - 1]
  <2>1. PICK u, v : u = S /\ v = w
    OBVIOUS
  <2>2. IsBuffer(d, u, v)
    BY <1>5, <2>1 DEF IsBuffer
  <2>3. \A n \in 0 .. LastAp(d) :
           Buffer(d, u)[n] = IF n = 0 \/ u[n] # None THEN Read(d, u[n]) ELSE Buffer(d, u)[n - 1]
    BY <2>2, BufferEquation
  <2>4. b = Buffer(d, u)
    BY <1>6, <2>1
  <2> QED BY <2>1, <2>3, <2>4
<1>8. b[0] = held(0) /\ b[1] = held(1) /\ b[2] = held(2) /\ b[3] = held(3)
  BY <1>1, <1>2, <1>3, <1>7
<1>9. b[4] = held(4) /\ b[5] = held(5)
  <2>1. b[4] = b[3]
    BY <1>1, <1>2, <1>7
  <2>2. b[5] = b[4]
    BY <1>1, <1>2, <1>7
  <2> QED BY <1>8, <2>1, <2>2
<1>10. d.platform = "XB8" => b[16] = held(16) /\ b[17] = held(17)
  BY <1>1, <1>2, <1>3, <1>7
<1>11. ap \in {0, 1, 2, 3, 4, 5} \/ (d.platform = "XB8" /\ ap \in {16, 17})
  OBVIOUS
<1>12. b[ap] = held(ap)
  <2> HIDE DEF held
  <2> QED BY <1>8, <1>9, <1>10, <1>11
<1>13. Network(ap) = "private" <=> ap \in {0, 1, 16}
  BY <1>11 DEF Network
<1> QED BY <1>6, <1>12, <1>13 DEF S

LEMMA SsidSources ==
    ASSUME NEW d, NEW ap \in Nat
    PROVE  /\ ap = 0 => SsidSource(d, ap) = "24_SSID"
           /\ ap = 1 => SsidSource(d, ap) = "50_SSID"
           /\ ap = 16 /\ d.platform = "XB8" => SsidSource(d, ap) = "60_SSID"
           /\ ap \in {2, 3} \/ (ap = 17 /\ d.platform = "XB8") => SsidSource(d, ap) = "xhs_SSID"
           /\ ap \in {4, 5} => SsidSource(d, ap) = "xfinitywifi"
           /\ ap = 15 /\ d.platform = "CBR" => SsidSource(d, ap) = "xfinity public"
           /\ ap \in 6 .. 15 /\ ~(ap = 15 /\ d.platform = "CBR") => SsidSource(d, ap) = None
           /\ None \notin {"24_SSID", "50_SSID", "60_SSID", "xhs_SSID", "xfinitywifi", "xfinity public"}
<1>1. None \notin {"24_SSID", "50_SSID", "60_SSID", "xhs_SSID", "xfinitywifi", "xfinity public"}
  BY DEF None
<1>2. /\ ap = 0 => SsidSource(d, ap) = "24_SSID"
      /\ ap = 1 => SsidSource(d, ap) = "50_SSID"
  BY DEF SsidSource
<1>3. ap = 16 /\ d.platform = "XB8" => SsidSource(d, ap) = "60_SSID"
  BY DEF SsidSource
<1>4. ap \in {2, 3} => SsidSource(d, ap) = "xhs_SSID"
  BY DEF SsidSource
<1>5. ap = 17 /\ d.platform = "XB8" => SsidSource(d, ap) = "xhs_SSID"
  BY DEF SsidSource
<1>6. ap \in {4, 5} => SsidSource(d, ap) = "xfinitywifi"
  BY DEF SsidSource
<1>7. ap = 15 /\ d.platform = "CBR" => SsidSource(d, ap) = "xfinity public"
  BY DEF SsidSource
<1>8. ap \in 6 .. 15 /\ ~(ap = 15 /\ d.platform = "CBR") => SsidSource(d, ap) = None
  <2>1. SUFFICES ASSUME ap \in 6 .. 15, ~(ap = 15 /\ d.platform = "CBR")
                 PROVE  SsidSource(d, ap) = None
    OBVIOUS
  <2>2. ap # 0 /\ ap # 1 /\ ap # 16 /\ ap \notin {2, 3} /\ ap # 17 /\ ap \notin {4, 5}
    BY <2>1
  <2> QED BY <2>1, <2>2 DEF SsidSource
<1> QED BY <1>1, <1>2, <1>3, <1>4, <1>5, <1>6, <1>7, <1>8

LEMMA OwnNames ==
    /\ Own("private", "SSID") = {"24_SSID", "50_SSID", "60_SSID"}
    /\ Own("xhs", "SSID") = {"xhs_SSID"}
    /\ Own("xfinity", "SSID") = {"xfinitywifi", "xfinity public"}
    /\ Own("private", "Passphrase") = {"wifi_passwd"}
    /\ Own("xhs", "Passphrase") = {"xhs_passkey"} /\ Own("xfinity", "Passphrase") = {"xhs_passkey"}
BY DEF Own

\* A network's name is read from its own source.
LEMMA SsidBuffer ==
    ASSUME NEW d, NEW ap \in 0 .. 5 \cup (IF d.platform = "XB8" THEN {16, 17} ELSE {})
    PROVE  /\ Buffer(d, [n \in 0 .. LastAp(d) |-> SsidSource(d, n)])[ap] = Read(d, SsidSource(d, ap))
           /\ SsidSource(d, ap) \in Own(Network(ap), "SSID")
<1> DEFINE S == [n \in 0 .. LastAp(d) |-> SsidSource(d, n)]
           held(n) == IF n \in 4 .. 15 THEN Read(d, "xfinitywifi") ELSE Read(d, S[n])
           w == [n \in 0 .. LastAp(d) |-> held(n)]
<1>1. LastAp(d) = IF d.platform = "XB8" THEN 17 ELSE 5
  BY DEF LastAp
<1>2. \A n \in 0 .. LastAp(d) :
         /\ n \in {4, 5} => S[n] = "xfinitywifi"
         /\ n \in 6 .. 15 => S[n] = None
         /\ n \notin 4 .. 15 => S[n] # None
  <2>1. ASSUME NEW n \in 0 .. LastAp(d)
        PROVE  /\ n \in {4, 5} => SsidSource(d, n) = "xfinitywifi"
               /\ n \in 6 .. 15 => SsidSource(d, n) = None
               /\ n \notin 4 .. 15 => SsidSource(d, n) # None
    <3>0. n \in Nat
      OBVIOUS
    <3>1. n = 15 => d.platform # "CBR"
      BY <1>1
    <3>2. n \notin 4 .. 15 => n \in {0, 1, 2, 3} \/ (n \in {16, 17} /\ d.platform = "XB8")
      BY <1>1
    <3>3. CASE n \in {4, 5}
      BY <3>3, SsidSources
    <3>4. CASE n \in 6 .. 15
      <4>1. SsidSource(d, n) = None
        BY <3>0, <3>1, <3>4, SsidSources
      <4>2. n \notin {4, 5} /\ n \in 4 .. 15
        BY <3>4
      <4> QED BY <4>1, <4>2
    <3>5. CASE n \notin 4 .. 15
      <4>1. SsidSource(d, n) \in {"24_SSID", "50_SSID", "60_SSID", "xhs_SSID"}
        BY <3>0, <3>2, <3>5, SsidSources
      <4>2. n \notin {4, 5} /\ n \notin 6 .. 15
        BY <3>5
      <4>3. SsidSource(d, n) # None
        BY <4>1 DEF None
      <4> QED BY <4>2, <4>3
    <3> QED BY <3>3, <3>4, <3>5
  <2> QED BY <2>1
<1>3. None # "xfinitywifi"
  BY DEF None
<1>4. \A n \in 0 .. LastAp(d) : S[n] = SsidSource(d, n)
  OBVIOUS
<1> HIDE DEF S
<1>5. ASSUME NEW n \in 0 .. LastAp(d)
      PROVE  held(n) = IF n = 0 \/ S[n] # None THEN Read(d, S[n]) ELSE w[n - 1]
  <2>1. CASE n \in {4, 5} \/ n \notin 4 .. 15
    BY <1>2, <1>3, <2>1
  <2>2. CASE n \in 6 .. 15
    <3>1. n - 1 \in 0 .. LastAp(d) /\ n - 1 \in 4 .. 15 /\ n # 0
      BY <1>1, <2>2
    <3> QED BY <1>2, <2>2, <3>1
  <2> QED BY <2>1, <2>2
<1>6. w = [n \in 0 .. LastAp(d) |-> IF n = 0 \/ S[n] # None THEN Read(d, S[n]) ELSE w[n - 1]]
  BY <1>5
<1>7. PICK b : b = Buffer(d, S)
  OBVIOUS
<1>8. \A n \in 0 .. LastAp(d) :
         b[n] = IF n = 0 \/ S[n] # None THEN Read(d, S[n]) ELSE b[n - 1]
  <2>1. PICK u, v : u = S /\ v = w
    OBVIOUS
  <2>2. IsBuffer(d, u, v)
    BY <1>6, <2>1 DEF IsBuffer
  <2>3. \A n \in 0 .. LastAp(d) :
           Buffer(d, u)[n] = IF n = 0 \/ u[n] # None THEN Read(d, u[n]) ELSE Buffer(d, u)[n - 1]
    BY <2>2, BufferEquation
  <2>4. b = Buffer(d, u)
    BY <1>7, <2>1
  <2> QED BY <2>1, <2>3, <2>4
<1>9. ap \in {0, 1, 2, 3, 4, 5} \/ (d.platform = "XB8" /\ ap \in {16, 17})
  OBVIOUS
<1>0. ap \in Nat
  BY <1>9
<1>10. ap \in 0 .. LastAp(d) /\ S[ap] # None
  BY <1>1, <1>2, <1>3, <1>9
<1>11. b[ap] = Read(d, SsidSource(d, ap))
  BY <1>4, <1>8, <1>10
<1>12. SsidSource(d, ap) \in Own(Network(ap), "SSID")
  <2>1. CASE ap \in {0, 1} \/ (ap = 16 /\ d.platform = "XB8")
    <3>1. Network(ap) = "private"
      BY <2>1 DEF Network
    <3>2. SsidSource(d, ap) \in {"24_SSID", "50_SSID", "60_SSID"}
      BY <1>0, <2>1, SsidSources
    <3> QED BY <3>1, <3>2, OwnNames
  <2>2. CASE ap \in {2, 3} \/ (ap = 17 /\ d.platform = "XB8")
    <3>1. Network(ap) = "xhs"
      BY <2>2 DEF Network
    <3>2. SsidSource(d, ap) = "xhs_SSID"
      BY <1>0, <2>2, SsidSources
    <3> QED BY <3>1, <3>2, OwnNames
  <2>3. CASE ap \in {4, 5}
    <3>1. Network(ap) = "xfinity"
      BY <2>3 DEF Network
    <3>2. SsidSource(d, ap) = "xfinitywifi"
      BY <1>0, <2>3, SsidSources
    <3> QED BY <3>1, <3>2, OwnNames
  <2> QED BY <1>9, <2>1, <2>2, <2>3
<1> QED BY <1>7, <1>11, <1>12 DEF S

LEMMA TextOf == ASSUME NEW s, NEW c PROVE Text(s, c).of = s /\ Text(s, c).is = c
BY DEF Text

LEMMA ReadOf == ASSUME NEW d, NEW s PROVE Read(d, s).of = s
BY TextOf DEF Read

\* No parameter of a device is another network's, whatever its factory data
\* has and lacks.
LEMMA OwnParams ==
    ASSUME NEW d, NEW p \in Params(d)
    PROVE  GetCustomParams(d)[p].of \in Own(Network(p.ap), p.field) \cup {Network(p.ap)}
<1> DEFINE Aps == 0 .. 5 \cup (IF d.platform = "XB8" THEN {16, 17} ELSE {})
<1>1. GetCustomParams(d)[p] = IF p.field = "SSID" THEN Ssid(d, p.ap) ELSE Passphrase(d, p.ap)
  BY DEF GetCustomParams
<1>2. \/ p.ap \in Aps /\ p.field \in {"SSID", "Passphrase"}
      \/ p.ap = 15 /\ p.field = "SSID" /\ d.platform = "CBR"
  BY DEF Params
<1>3. Fallback(p.ap).of = Network(p.ap)
  BY TextOf DEF Fallback
<1>4. CASE p.field = "SSID"
  <2>1. PICK s : s = IF p.ap = 15 THEN Read(d, SsidSource(d, p.ap))
                     ELSE Buffer(d, [n \in 0 .. LastAp(d) |-> SsidSource(d, n)])[p.ap]
    OBVIOUS
  <2>2. Ssid(d, p.ap) \in {s, Fallback(p.ap)}
    BY <2>1 DEF Ssid
  <2>3. s = Read(d, SsidSource(d, p.ap)) /\ SsidSource(d, p.ap) \in Own(Network(p.ap), "SSID")
    <3>1. CASE p.ap = 15 /\ d.platform = "CBR"
      <4>1. Network(p.ap) = "xfinity"
        BY <3>1 DEF Network
      <4>2. SsidSource(d, p.ap) = "xfinity public"
        BY <3>1, SsidSources
      <4> QED BY <2>1, <3>1, <4>1, <4>2, OwnNames
    <3>2. CASE p.ap \in Aps
      <4>1. p.ap # 15
        BY <3>2
      <4> QED BY <2>1, <3>2, <4>1, SsidBuffer
    <3> QED BY <1>2, <3>1, <3>2
  <2>4. s.of \in Own(Network(p.ap), "SSID")
    BY <2>3, ReadOf
  <2> QED BY <1>1, <1>3, <1>4, <2>2, <2>4
<1>5. CASE p.field # "SSID"
  <2>1. p.ap \in Aps /\ p.field = "Passphrase"
    BY <1>2, <1>5
  <2>2. PICK s : s = Buffer(d, [n \in 0 .. LastAp(d) |-> PassphraseSource(d, n)])[p.ap]
    OBVIOUS
  <2>3. Passphrase(d, p.ap) \in {s, Fallback(p.ap)}
    BY <2>2 DEF Passphrase
  <2>4. s = Read(d, IF Network(p.ap) = "private" THEN "wifi_passwd" ELSE "xhs_passkey")
    BY <2>1, <2>2, PassphraseBuffer
  <2>5. s.of = IF Network(p.ap) = "private" THEN "wifi_passwd" ELSE "xhs_passkey"
    BY <2>4, ReadOf
  <2>6. s.of \in Own(Network(p.ap), p.field)
    BY <2>1, <2>5 DEF Own
  <2> QED BY <1>1, <1>3, <1>5, <2>3, <2>6
<1> QED BY <1>4, <1>5

\* What ReadDefConfig gave has the device's own parameters, unchanged.
Fitting == out # Missing => \A p \in Params(device) : out[p] = GetCustomParams(device)[p]

LEMMA FittingNext == ASSUME Fitting, [Next]_vars PROVE Fitting'
<1>1. CASE UNCHANGED <<out, device>>
  BY <1>1 DEF Fitting
<1>2. CASE ReadDefConfig
  <2>1. PICK custom, names : custom = GetCustomParams(device) /\ names = {def[i].name : i \in DOMAIN def}
    OBVIOUS
  <2>2. out' = [p \in names \cup DOMAIN custom |->
                  IF p \in DOMAIN custom THEN custom[p]
                  ELSE (CHOOSE rec \in Range(def) : rec.name = p).value]
    BY <1>2, <2>1 DEF ReadDefConfig
  <2>3. DOMAIN custom = Params(device)
    BY <2>1 DEF GetCustomParams
  <2>4. \A p \in Params(device) : out'[p] = custom[p]
    BY <2>2, <2>3
  <2>5. device' = device
    BY <1>2 DEF ReadDefConfig
  <2> QED BY <2>1, <2>4, <2>5 DEF Fitting
<1>3. CASE Kill \/ PowerLoss
  BY <1>3 DEF Kill, PowerLoss, Stops, Fitting
<1>4. Next => UNCHANGED <<out, device>> \/ ReadDefConfig \/ Kill \/ PowerLoss
  BY UpdateStep DEF Next, Start, Change, OpenCur, WriteCur, BackupCur, SaveFails, Save, Saved,
     ImportStep, Import, WriteTmp, WriteTmpFails, TestRegFile, Refuse, Imported, vars
<1> QED BY <1>1, <1>2, <1>3, <1>4 DEF vars

\* In the default configuration of any device, whatever its factory data has
\* and lacks, no network gets the name or the passphrase of another, but for
\* the public network that may get the passphrase of home security.
THEOREM SlotsStay == Spec => []SlotsKept
<1>1. Init => Fitting
  BY DEF Init, Fitting
<1>2. Fitting /\ [Next]_vars => Fitting'
  BY FittingNext
<1>3. Fitting => SlotsKept
  BY OwnParams DEF Fitting, SlotsKept
<1> QED BY <1>1, <1>2, <1>3, PTL DEF Spec

=============================================================================
