-------------------------- MODULE FileLoaderProofs --------------------------
(***************************************************************************)
(* Theorems about the file loader, for every document, any records and     *)
(* folders, failures of single elements, and kills.                        *)
(***************************************************************************)
EXTENDS FileLoader, SequenceTheorems, FiniteSetTheorems, WellFoundedInduction, TLAPS

-----------------------------------------------------------------------------
(* The conversions                                                         *)

LEMMA NamesOfContent ==
    /\ DOMAIN ContentNames = 1..15
    /\ ContentNames[1] = "int" /\ ContentNames[2] = "uint" /\ ContentNames[3] = "bool"
    /\ ContentNames[4] = "datetime" /\ ContentNames[5] = "base64" /\ ContentNames[6] = "long"
    /\ ContentNames[7] = "ulong" /\ ContentNames[8] = "float" /\ ContentNames[9] = "double"
    /\ ContentNames[10] = "byte" /\ ContentNames[11] = "none" /\ ContentNames[12] = "unknown1"
    /\ ContentNames[13] = "unknown2" /\ ContentNames[14] = "unknown3"
    /\ ContentNames[15] = "unknown4"
BY DEF ContentNames

LEMMA LegacyNamesOfContent ==
    /\ LegacyNames[1] = "mapped" /\ LegacyNames[2] = "ip4Addr" /\ LegacyNames[3] = "macAddr"
    /\ LegacyNames[4] = "ip4AddrList" /\ LegacyNames[5] = "port" /\ LegacyNames[6] = "seconds"
    /\ LegacyNames[7] = "minutes" /\ LegacyNames[8] = "hours" /\ LegacyNames[9] = "calendar"
    /\ LegacyNames[10] = "password" /\ LegacyNames[11] = "masked" /\ LegacyNames[12] = "button"
    /\ LegacyNames[13] = "switch" /\ LegacyNames[14] = "sintList" /\ LegacyNames[15] = "uintList"
BY DEF LegacyNames

LEMMA UpTo15 ==
    ASSUME NEW i \in 1..15
    PROVE  \/ i = 1 \/ i = 2 \/ i = 3 \/ i = 4 \/ i = 5 \/ i = 6 \/ i = 7 \/ i = 8
           \/ i = 9 \/ i = 10 \/ i = 11 \/ i = 12 \/ i = 13 \/ i = 14 \/ i = 15
OBVIOUS

\* No name stands for two codes, and none of them is empty.
LEMMA NamesDiffer ==
    ASSUME NEW i \in 1..15, NEW j \in 1..15, ContentNames[i] \in {ContentNames[j], LegacyNames[j]}
    PROVE  i = j
<1> USE NamesOfContent, LegacyNamesOfContent
<1>1. CASE i = 1 BY <1>1, UpTo15
<1>2. CASE i = 2 BY <1>2, UpTo15
<1>3. CASE i = 3 BY <1>3, UpTo15
<1>4. CASE i = 4 BY <1>4, UpTo15
<1>5. CASE i = 5 BY <1>5, UpTo15
<1>6. CASE i = 6 BY <1>6, UpTo15
<1>7. CASE i = 7 BY <1>7, UpTo15
<1>8. CASE i = 8 BY <1>8, UpTo15
<1>9. CASE i = 9 BY <1>9, UpTo15
<1>10. CASE i = 10 BY <1>10, UpTo15
<1>11. CASE i = 11 BY <1>11, UpTo15
<1>12. CASE i = 12 BY <1>12, UpTo15
<1>13. CASE i = 13 BY <1>13, UpTo15
<1>14. CASE i = 14 BY <1>14, UpTo15
<1>15. CASE i = 15 BY <1>15, UpTo15
<1> QED BY <1>1, <1>2, <1>3, <1>4, <1>5, <1>6, <1>7, <1>8, <1>9, <1>10, <1>11, <1>12, <1>13, <1>14, <1>15, UpTo15

LEMMA NamesNotEmpty ==
    ASSUME NEW i \in 1..15
    PROVE  "" \notin {ContentNames[i], LegacyNames[i]}
BY UpTo15, NamesOfContent, LegacyNamesOfContent

\* The codes that a name stands for: one or none.
CodesOf(s) == {i \in DOMAIN ContentNames : s \in {ContentNames[i], LegacyNames[i]}}

LEMMA CodeOf ==
    ASSUME NEW s
    PROVE  getRecordContentTypeFromString(s)
             = IF CodesOf(s) = {} THEN 0 ELSE CHOOSE i \in CodesOf(s) : TRUE
BY DEF getRecordContentTypeFromString, CodesOf

LEMMA IsCodeOf ==
    ASSUME NEW s, NEW i
    PROVE  i \in CodesOf(s) <=> i \in 1..15 /\ s \in {ContentNames[i], LegacyNames[i]}
BY NamesOfContent DEF CodesOf

\* The code of a content type survives being written as a name.
LEMMA ContentBack ==
    ASSUME NEW c \in 0 .. 15
    PROVE  getRecordContentTypeFromString(ContentName(c)) = c
<1>1. CASE c = 0
  <2>1. ContentName(c) = ""
    BY <1>1 DEF ContentName
  <2>2. \A i : i \notin CodesOf("")
    BY IsCodeOf, NamesNotEmpty
  <2>3. getRecordContentTypeFromString("") = 0
    <3>1. CodesOf("") = {}
      BY <2>2
    <3> QED BY <3>1, CodeOf
  <2> QED BY <1>1, <2>1, <2>3
<1>2. CASE c # 0
  <2>1. c \in 1 .. 15 /\ ContentName(c) = ContentNames[c]
    BY <1>2 DEF ContentName
  <2>2. c \in CodesOf(ContentNames[c])
    BY <2>1, IsCodeOf
  <2>3. \A i \in CodesOf(ContentNames[c]) : i = c
    BY <2>1, IsCodeOf, NamesDiffer
  <2>4. getRecordContentTypeFromString(ContentNames[c]) = c
    <3>1. CodesOf(ContentNames[c]) # {}
      BY <2>2
    <3>2. getRecordContentTypeFromString(ContentNames[c])
            = CHOOSE i \in CodesOf(ContentNames[c]) : TRUE
      BY <3>1, CodeOf
    <3>3. (CHOOSE i \in CodesOf(ContentNames[c]) : TRUE) \in CodesOf(ContentNames[c])
      BY <2>2
    <3> QED BY <2>3, <3>2, <3>3
  <2> QED BY <2>1, <2>4
<1> QED BY <1>1, <1>2

LEMMA ContentRange ==
    ASSUME NEW s
    PROVE  getRecordContentTypeFromString(s) \in 0 .. 15
<1>1. CASE CodesOf(s) = {}
  BY <1>1, CodeOf
<1>2. CASE CodesOf(s) # {}
  <2>1. (CHOOSE i \in CodesOf(s) : TRUE) \in CodesOf(s)
    BY <1>2
  <2> QED BY <1>2, <2>1, CodeOf, IsCodeOf
<1> QED BY <1>1, <1>2

\* What a value of a record looks like that is written in this form.
Fit(form, value) ==
    CASE form = "string" -> value \in Texts
      [] form = "binary" -> value \in Texts /\ value.form \in {"binary", "none"}
      [] form \in {"ints", "ips"} -> \E m \in Nat : value = Value(form, 4 * m)
      [] OTHER -> \E n \in Nat : value = Value(form, n)

LEMMA FormsOfTexts ==
    ASSUME NEW type \in RecordTypes, NEW content \in 0 .. 15
    PROVE  /\ TextForm(type, content) \in Forms
           /\ TextForm(type, content) = "string" => type = "astr"
BY DEF TextForm, Forms, RecordTypes, IP4_ADDR, MAC_ADDR, IP4_ADDR_LIST, CALENDAR_TIME, INT_LISTS

LEMMA TextsHave ==
    ASSUME NEW text \in Texts
    PROVE  /\ text = NoText \/ (text.form \in Forms /\ text.n \in Nat)
           /\ text = Value(text.form, text.n)
           /\ text \notin {Skip, Refuse}
           /\ text.form = "none" => text = NoText
BY DEF Texts, Forms, NoText, Value, Skip, Refuse

LEMMA ValuesDiffer ==
    ASSUME NEW f, NEW n, NEW g, NEW m, Value(f, n) = Value(g, m)
    PROVE  f = g /\ n = m
<1>1. Value(f, n).form = f /\ Value(g, m).form = g /\ Value(f, n).n = n /\ Value(g, m).n = m
  BY DEF Value
<1> QED BY <1>1

LEMMA NothingFits ==
    ASSUME NEW form \in Forms \ {"string"}, NEW value \in OfNothing[form] \ {Skip, Refuse}
    PROVE  Fit(form, value)
<1>1. CASE form = "ip"
  BY <1>1, WordAssumption DEF OfNothing, Fit, Skip, Refuse, Value, NoText, Texts
<1>2. CASE form = "mac"
  BY <1>2, WordAssumption DEF OfNothing, Fit, Skip, Refuse, Value, NoText, Texts
<1>3. CASE form = "ips"
  BY <1>3, WordAssumption DEF OfNothing, Fit, Skip, Refuse, Value, NoText, Texts
<1>4. CASE form = "date"
  BY <1>4, WordAssumption DEF OfNothing, Fit, Skip, Refuse, Value, NoText, Texts
<1>5. CASE form = "number"
  BY <1>5, WordAssumption DEF OfNothing, Fit, Skip, Refuse, Value, NoText, Texts
<1>6. CASE form = "boolean"
  BY <1>6, WordAssumption DEF OfNothing, Fit, Skip, Refuse, Value, NoText, Texts
<1>7. CASE form = "ints"
  <2>1. \E m \in Nat : value = Value("ints", 4 * m)
    <3>1. value = Value("ints", 4 * 0) \/ value = Value("ints", 4 * 1) \/ value = Value("ints", 4 * 2)
      BY <1>7, WordAssumption DEF OfNothing
    <3> QED BY <3>1
  <2> QED BY <1>7, <2>1 DEF Fit
<1>8. CASE form = "binary"
  BY <1>8, WordAssumption DEF OfNothing, Fit, Skip, Refuse, Value, NoText, Texts
<1> QED BY <1>1, <1>2, <1>3, <1>4, <1>5, <1>6, <1>7, <1>8 DEF Forms

LEMMA OtherFits ==
    ASSUME NEW form \in Forms \ {"string"}, NEW value \in OfOther[form] \ {Skip, Refuse}
    PROVE  Fit(form, value)
<1>1. CASE form = "ip"
  BY <1>1, WordAssumption DEF OfOther, Fit, Skip, Refuse, Value, NoText, Texts
<1>2. CASE form = "mac"
  BY <1>2, WordAssumption DEF OfOther, Fit, Skip, Refuse, Value, NoText, Texts
<1>3. CASE form = "ips"
  BY <1>3, WordAssumption DEF OfOther, Fit, Skip, Refuse, Value, NoText, Texts
<1>4. CASE form = "date"
  BY <1>4, WordAssumption DEF OfOther, Fit, Skip, Refuse, Value, NoText, Texts
<1>5. CASE form = "number"
  BY <1>5, WordAssumption DEF OfOther, Fit, Skip, Refuse, Value, NoText, Texts
<1>6. CASE form = "boolean"
  BY <1>6, WordAssumption DEF OfOther, Fit, Skip, Refuse, Value, NoText, Texts
<1>7. CASE form = "ints"
  <2>1. \E m \in Nat : value = Value("ints", 4 * m)
    <3>1. value = Value("ints", 4 * 0) \/ value = Value("ints", 4 * 1) \/ value = Value("ints", 4 * 2)
      BY <1>7, WordAssumption DEF OfOther
    <3> QED BY <3>1
  <2> QED BY <1>7, <2>1 DEF Fit
<1>8. CASE form = "binary"
  BY <1>8, WordAssumption DEF OfOther, Fit, Skip, Refuse, Value, NoText, Texts
<1> QED BY <1>1, <1>2, <1>3, <1>4, <1>5, <1>6, <1>7, <1>8 DEF Forms

\* Whatever a decoder makes of a text is a value of its form.
LEMMA DecodedFits ==
    ASSUME NEW form \in Forms, NEW text \in Texts,
           NEW value \in Decoded(form, text) \ {Skip, Refuse}
    PROVE  Fit(form, value)
<1>0. NoText.form = "none"
  BY DEF NoText, Value
<1>1. CASE form = "string"
  BY <1>1 DEF Decoded, Fit
<1>2. CASE form # "string" /\ text = NoText
  <2>0. "none" \notin Forms
    BY DEF Forms
  <2>1. value \in OfNothing[form]
    BY <1>0, <1>2, <2>0 DEF Decoded
  <2> QED BY <1>2, <2>1, NothingFits
<1>3. CASE form # "string" /\ text.form \notin {"none"} \cup Takes(form)
  <2>1. value \in OfOther[form]
    BY <1>0, <1>3 DEF Decoded, Takes
  <2> QED BY <1>3, <2>1, OtherFits
<1>4. CASE form = "ints" /\ text.form = form
  <2>1. value = Value(form, text.n * Word)
    BY <1>0, <1>4 DEF Decoded, decodeIntList, Takes
  <2>2. text.n \in Nat
    BY <1>0, <1>4, TextsHave
  <2>3. text.n * Word = 4 * text.n \/ text.n * Word = 4 * (2 * text.n)
    BY <2>2, WordAssumption
  <2> QED BY <1>4, <2>1, <2>2, <2>3 DEF Fit
<1>5. CASE form = "ips" /\ text.form \in {"ip", "ips"}
  <2>0. text.n \in Nat
    BY <1>0, <1>5, TextsHave
  <2>1. PICK m \in Nat : value = Value(form, m * Word)
    <3>1. value = Value("ips", (IF text.form = "ip" THEN 1 ELSE text.n) * Word)
      BY <1>0, <1>5 DEF Decoded, decodeIP4AddrList, Takes
    <3> QED BY <1>5, <2>0, <3>1
  <2>3. m * Word = 4 * m \/ m * Word = 4 * (2 * m)
    BY WordAssumption
  <2> QED BY <1>5, <2>1, <2>3 DEF Fit
<1>6. CASE form \notin {"string", "ints", "ips"} /\ text.form = form
  <2>1. value = text
    <3>1. "none" \notin Forms
      BY DEF Forms
    <3> QED BY <1>0, <1>6, <3>1 DEF Decoded, Takes
  <2>2. text.n \in Nat /\ text = Value(form, text.n)
    <3>1. "none" \notin Forms
      BY DEF Forms
    <3> QED BY <1>0, <1>6, <3>1, TextsHave
  <2> QED BY <1>6, <2>1, <2>2 DEF Fit
<1>7. text.form # "none" \/ text = NoText
  BY TextsHave
<1> QED BY <1>1, <1>2, <1>3, <1>4, <1>5, <1>6, <1>7 DEF Takes

\* A record as the tree may hold it.
Fits(rec) ==
    /\ rec.type \in RecordTypes /\ rec.content \in 0 .. 15
    /\ Fit(TextForm(rec.type, rec.content), rec.value)

LEMMA LoadedFits ==
    ASSUME NEW node, node.text \in Texts,
           NEW value \in loadRecordFromXML(node) \ {Skip, Refuse}
    PROVE  node.name # "" /\ Fits(RecordOf(node, value))
<1>1. node.name # "" /\ TypeOf(node) \in RecordTypes
  BY DEF loadRecordFromXML
<1>2. value \in Decoded(TextForm(TypeOf(node), getRecordContentTypeFromString(node.content)),
                        node.text)
  BY <1>1 DEF loadRecordFromXML
<1>3. Fit(TextForm(TypeOf(node), getRecordContentTypeFromString(node.content)), value)
  BY <1>1, <1>2, ContentRange, FormsOfTexts, DecodedFits
<1> QED BY <1>1, <1>3, ContentRange DEF Fits, RecordOf

\* What a load can make of the element that a save wrote for a record.
LEMMA LoadWritten ==
    ASSUME NEW rec, Fits(rec), NEW name, name # ""
    PROVE  LET node == addRecordToXMLHandle2(name, rec)
           IN  /\ TypeOf(node) = rec.type
               /\ getRecordContentTypeFromString(node.content) = rec.content
               /\ loadRecordFromXML(node) = Decoded(TextForm(rec.type, rec.content), Written(rec))
<1> DEFINE node == addRecordToXMLHandle2(name, rec)
<1>1. /\ node.type = rec.type /\ node.name = name /\ node.content = ContentName(rec.content)
      /\ node.text = Written(rec)
  BY DEF addRecordToXMLHandle2
<1>2. TypeOf(node) = rec.type /\ rec.type \in RecordTypes
  BY <1>1 DEF TypeOf, Fits, RecordTypes
<1>3. getRecordContentTypeFromString(node.content) = rec.content
  BY <1>1, ContentBack DEF Fits
<1>4. loadRecordFromXML(node) = Decoded(TextForm(rec.type, rec.content), Written(rec))
  <2> HIDE DEF node
  <2> QED BY <1>1, <1>2, <1>3 DEF loadRecordFromXML
<1> QED BY <1>2, <1>3, <1>4

LEMMA KeptDecodes ==
    ASSUME NEW rec, Fits(rec), Kept(rec)
    PROVE  Decoded(TextForm(rec.type, rec.content), Written(rec)) = {rec.value}
<1>f. PICK f : f = TextForm(rec.type, rec.content)
  OBVIOUS
<1>1. f \in Forms /\ Fit(f, rec.value) /\ rec.type # "enum"
  BY <1>f, FormsOfTexts DEF Fits, Kept
<1>2. f \in {"ints", "ips"} => Word = 4 /\ rec.value.n > 0
  BY <1>f DEF Kept
<1>3. f = "ints" => rec.value.n <= 64
  BY <1>f DEF Kept
<1>5. Written(rec) = CASE f = "ints" -> writeIntList(rec.value)
                       [] f = "ips" -> writeIP4AddrList(rec.value)
                       [] OTHER -> rec.value
  BY <1>f, <1>1 DEF Written
<1>0. NoText.form = "none" /\ "none" \notin Forms
  BY DEF NoText, Value, Forms
<1>6. CASE f \in {"string", "binary"}
  <2>1. rec.value \in Texts /\ Written(rec) = rec.value
    BY <1>1, <1>5, <1>6 DEF Fit
  <2>2. CASE f = "string"
    BY <1>f, <2>1, <2>2 DEF Decoded
  <2>3. CASE f = "binary"
    <3>1. rec.value = NoText \/ rec.value.form = "binary"
      BY <1>1, <2>1, <2>3, TextsHave DEF Fit
    <3> QED BY <1>f, <1>0, <2>1, <2>3, <3>1 DEF Decoded, OfNothing, Takes
  <2> QED BY <1>6, <2>2, <2>3
<1>7. CASE f \in {"ints", "ips"}
  <2>1. PICK m \in Nat : rec.value = Value(f, 4 * m)
    BY <1>1, <1>7 DEF Fit
  <2>2. rec.value.n = 4 * m /\ rec.value.form = f
    BY <2>1 DEF Value
  <2>3. m > 0 /\ Word = 4 /\ (f = "ints" => 4 * m \in 1 .. 64)
    BY <1>2, <1>3, <1>7, <2>2
  <2>4. (4 * m) \div 4 = m /\ m * Word = 4 * m
    BY <2>3
  <2>5. Written(rec) = Value(f, m)
    BY <1>5, <1>7, <2>2, <2>3, <2>4 DEF writeIntList, writeIP4AddrList
  <2>6. Decoded(f, Value(f, m)) = {Value(f, m * Word)}
    <3>1. Value(f, m).form = f /\ Value(f, m).n = m
      BY DEF Value
    <3>2. Value(f, m) # NoText
      BY <1>0, <1>1, <3>1
    <3> QED BY <1>7, <3>1, <3>2 DEF Decoded, decodeIntList, decodeIP4AddrList, Takes
  <2> QED BY <1>f, <2>1, <2>4, <2>5, <2>6
<1>8. CASE f \notin {"string", "binary", "ints", "ips"}
  <2>1. rec.value.form = f
    <3>1. PICK n : rec.value = Value(f, n)
      BY <1>1, <1>8 DEF Fit
    <3> QED BY <3>1 DEF Value
  <2> QED BY <1>f, <1>0, <1>1, <1>5, <1>8, <2>1 DEF Decoded, Takes
<1> QED BY <1>f, <1>6, <1>7, <1>8

\* A record that a save keeps (Kept) is loaded as it was: for every record type
\* and content type, what the encoder writes is what the decoder it is given to
\* makes the same value of (addRecordToXMLHandle2, loadRecordFromXML).
THEOREM RoundTrip ==
    ASSUME NEW rec, Fits(rec), Kept(rec), NEW name, name # ""
    PROVE  loadRecordFromXML(addRecordToXMLHandle2(name, rec)) = {rec.value}
BY LoadWritten, KeptDecodes

LEMMA RefusedDecodes ==
    ASSUME NEW rec, Fits(rec),
           Refuse \in Decoded(TextForm(rec.type, rec.content), Written(rec))
    PROVE  rec.type = "enum" \/ rec.value = Value("ips", 0)
<1>f. PICK f : f = TextForm(rec.type, rec.content)
  OBVIOUS
<1>0. NoText.form = "none" /\ "none" \notin Forms
  BY DEF NoText, Value, Forms
<1>1. f \in Forms /\ Fit(f, rec.value)
  BY <1>f, FormsOfTexts DEF Fits
<1>2. Refuse \in Decoded(f, Written(rec))
  BY <1>f
<1>3. SUFFICES ASSUME rec.type # "enum"
               PROVE  rec.value = Value("ips", 0)
  OBVIOUS
<1>5. Written(rec) = CASE f = "ints" -> writeIntList(rec.value)
                       [] f = "ips" -> writeIP4AddrList(rec.value)
                       [] OTHER -> rec.value
  BY <1>f, <1>3 DEF Written
<1>4. Refuse.form \notin Forms /\ Refuse.form # "none"
  BY DEF Refuse, Value, Forms
<1>6. CASE f \in {"string", "binary"}
  <2>1. rec.value \in Texts /\ Written(rec) = rec.value
    BY <1>1, <1>5, <1>6 DEF Fit
  <2>2. CASE f = "string"
    BY <1>2, <2>1, <2>2, TextsHave DEF Decoded
  <2>3. CASE f = "binary"
    <3>1. Decoded(f, rec.value) \in {{NoText}, {rec.value}}
      BY <1>0, <1>1, <2>3, <2>1, TextsHave DEF Decoded, OfNothing, Takes, Fit
    <3> QED BY <1>0, <1>2, <1>4, <2>1, <3>1, TextsHave
  <2> QED BY <1>6, <2>2, <2>3
<1>7. CASE f \in {"ints", "ips"}
  <2>1. PICK m \in Nat : rec.value = Value(f, 4 * m)
    BY <1>1, <1>7 DEF Fit
  <2>2. rec.value.n = 4 * m /\ rec.value.form = f
    BY <2>1 DEF Value
  <2>3. CASE Written(rec) = NoText
    <3>1. Refuse \in OfNothing[f]
      BY <1>0, <1>2, <1>7, <2>3 DEF Decoded
    <3>2. f = "ips"
      BY <1>7, <3>1, <1>4 DEF OfNothing, Refuse, Value
    <3>3. ~(rec.value.n > 0)
      <4>1. Value("ips", rec.value.n \div 4).form = "ips"
        BY DEF Value
      <4> QED BY <1>0, <1>5, <2>3, <3>2, <4>1 DEF writeIP4AddrList
    <3>4. m = 0
      BY <2>2, <3>3
    <3> QED BY <2>1, <3>2, <3>4
  <2>4. CASE Written(rec) # NoText
    <3>1. Written(rec).form = f
      BY <1>5, <1>7, <2>4 DEF writeIntList, writeIP4AddrList, Value
    <3>2. Decoded(f, Written(rec)) = {Value(f, Written(rec).n * Word)}
      BY <1>7, <2>4, <3>1 DEF Decoded, decodeIntList, decodeIP4AddrList, Takes
    <3>3. Value(f, Written(rec).n * Word).form = f
      BY DEF Value
    <3> QED BY <1>1, <1>2, <1>4, <3>2, <3>3
  <2> QED BY <2>3, <2>4
<1>8. CASE f \notin {"string", "binary", "ints", "ips"}
  <2>1. rec.value.form = f
    <3>1. PICK n : rec.value = Value(f, n)
      BY <1>1, <1>8 DEF Fit
    <3> QED BY <3>1 DEF Value
  <2>2. Decoded(f, Written(rec)) = {rec.value}
    BY <1>0, <1>1, <1>5, <1>8, <2>1 DEF Decoded, Takes
  <2> QED BY <1>1, <1>2, <1>4, <2>1, <2>2
<1> QED BY <1>6, <1>7, <1>8

\* A load refuses what a save wrote only of these records.
LEMMA RefusedWritten ==
    ASSUME NEW rec, Fits(rec), NEW name, name # "",
           Refuse \in loadRecordFromXML(addRecordToXMLHandle2(name, rec))
    PROVE  rec.type = "enum" \/ rec.value = Value("ips", 0)
BY LoadWritten, RefusedDecodes

\* A save writes a text for every record.
LEMMA WrittenIsText == ASSUME NEW rec, Fits(rec) PROVE Written(rec) \in Texts
<1>f. PICK f : f = TextForm(rec.type, rec.content)
  OBVIOUS
<1>0. NoText \in Texts
  BY DEF Texts
<1>1. f \in Forms /\ Fit(f, rec.value)
  BY <1>f, FormsOfTexts DEF Fits
<1>2. CASE f \in {"string", "binary"}
  BY <1>f, <1>0, <1>1, <1>2 DEF Fit, Written
<1>3. CASE f \in {"ints", "ips"}
  <2>1. PICK m \in Nat : rec.value = Value(f, 4 * m)
    BY <1>1, <1>3 DEF Fit
  <2>2. rec.value.n = 4 * m
    BY <2>1 DEF Value
  <2>3. Written(rec) \in {NoText, Value(f, (4 * m) \div 4)}
    BY <1>f, <1>3, <2>2 DEF Written, writeIntList, writeIP4AddrList
  <2>4. Value(f, (4 * m) \div 4) \in Texts
    BY <1>1 DEF Texts, Value
  <2> QED BY <1>0, <2>3, <2>4
<1>4. CASE f \notin {"string", "binary", "ints", "ips"}
  <2>1. PICK n \in Nat : rec.value = Value(f, n)
    BY <1>1, <1>4 DEF Fit
  <2>2. rec.value \in Texts
    BY <1>1, <2>1 DEF Texts, Value
  <2> QED BY <1>f, <1>0, <1>4, <2>2 DEF Written
<1> QED BY <1>2, <1>3, <1>4

-----------------------------------------------------------------------------
(* Sequences and trees                                                     *)

IsSeq(s) == \E S : s \in Seq(S)

LEMMA SeqEmpty == IsSeq(Root) /\ Len(Root) = 0 /\ Front(Root) = Root
<1>1. Root \in Seq({})
  BY DEF Root
<1>2. Front(Root) = Root
  BY <1>1, SubSeqEmpty DEF Front, Root
<1> QED BY <1>1, <1>2 DEF IsSeq, Root

LEMMA SeqAppend ==
    ASSUME NEW s, IsSeq(s), NEW e
    PROVE  /\ IsSeq(Append(s, e))
           /\ Len(s) \in Nat /\ Len(Append(s, e)) = Len(s) + 1
           /\ \A i \in 1 .. Len(s) : Append(s, e)[i] = s[i]
           /\ Append(s, e)[Len(s) + 1] = e
           /\ Append(s, e) # Root
<1>1. PICK S : s \in Seq(S)
  BY DEF IsSeq
<1>2. s \in Seq(S \cup {e}) /\ e \in S \cup {e}
  BY <1>1
<1>3. Append(s, e) \in Seq(S \cup {e})
  BY <1>2, AppendProperties
<1> QED BY <1>2, <1>3, AppendProperties DEF IsSeq, Root

LEMMA AppendPair ==
    ASSUME NEW s, IsSeq(s), NEW a, NEW b
    PROVE  s \o <<a, b>> = Append(Append(s, a), b)
<1>1. PICK S : s \in Seq(S)
  BY DEF IsSeq
<1>2. PICK T : T = S \cup {a, b}
  OBVIOUS
<1>3. s \in Seq(T) /\ <<a, b>> \in Seq(T) /\ a \in T /\ b \in T
  BY <1>1, <1>2
<1>4. PICK l, r : l = s \o <<a, b>> /\ r = Append(Append(s, a), b)
  OBVIOUS
<1>5. /\ l \in Seq(T) /\ Len(l) = Len(s) + 2
      /\ \A i \in 1 .. Len(l) : l[i] = IF i <= Len(s) THEN s[i] ELSE <<a, b>>[i - Len(s)]
  BY <1>3, <1>4, ConcatProperties
<1>6. /\ r \in Seq(T) /\ Len(r) = Len(s) + 2
      /\ \A i \in 1 .. Len(s) : r[i] = s[i]
      /\ r[Len(s) + 1] = a /\ r[Len(s) + 2] = b
  BY <1>3, <1>4, AppendProperties
<1>7. \A i \in 1 .. Len(s) + 2 : l[i] = r[i]
  BY <1>3, <1>5, <1>6
<1> QED BY <1>3, <1>4, <1>5, <1>6, <1>7

LEMMA SeqTail ==
    ASSUME NEW s, IsSeq(s), s # Root
    PROVE  /\ IsSeq(Tail(s))
           /\ Len(s) \in Nat \ {0} /\ Len(Tail(s)) = Len(s) - 1
           /\ \A i \in 1 .. Len(s) - 1 : Tail(s)[i] = s[i + 1]
           /\ Head(s) = s[1]
<1>1. PICK S : s \in Seq(S)
  BY DEF IsSeq
<1>2. Tail(s) \in Seq(S)
  BY <1>1 DEF Root
<1> QED BY <1>1, <1>2, HeadTailProperties DEF IsSeq, Root

\* A folder is its parent's and a name.
LEMMA SeqFront ==
    ASSUME NEW s, IsSeq(s), s # Root
    PROVE  /\ IsSeq(Front(s)) /\ Len(s) \in Nat \ {0} /\ Len(Front(s)) = Len(s) - 1
           /\ Append(Front(s), Last(s)) = s
<1>1. PICK S : s \in Seq(S)
  BY DEF IsSeq
<1>2. PICK t \in Seq(S), e \in S : s = Append(t, e)
  BY <1>1, SequenceEmptyOrAppend DEF Root
<1>3. Len(s) = Len(t) + 1 /\ s[Len(s)] = e /\ Len(t) \in Nat
  BY <1>2, AppendProperties
<1>4. SubSeq(s, 1, Len(t)) = t
  <2>1. SubSeq(s, 1, Len(t)) \in Seq(S) /\ Len(SubSeq(s, 1, Len(t))) = Len(t)
    BY <1>1, <1>3, SubSeqProperties
  <2>2. \A i \in 1 .. Len(t) : SubSeq(s, 1, Len(t))[i] = t[i]
    BY <1>1, <1>2, <1>3, AppendProperties, SubSeqProperties
  <2> QED BY <1>2, <2>1, <2>2
<1>5. Front(s) = t /\ Last(s) = e
  BY <1>3, <1>4 DEF Front, Last
<1> QED BY <1>2, <1>3, <1>5 DEF IsSeq

LEMMA FrontAppend ==
    ASSUME NEW s, IsSeq(s), NEW e
    PROVE  Front(Append(s, e)) = s /\ Last(Append(s, e)) = e
<1>1. PICK S : s \in Seq(S)
  BY DEF IsSeq
<1>2. PICK T : T = S \cup {e}
  OBVIOUS
<1>3. s \in Seq(T) /\ e \in T
  BY <1>1, <1>2
<1>4. PICK a : a = Append(s, e)
  OBVIOUS
<1>5. /\ a \in Seq(T) /\ Len(a) = Len(s) + 1 /\ a[Len(s) + 1] = e
      /\ \A i \in 1 .. Len(s) : a[i] = s[i]
  BY <1>3, <1>4, AppendProperties
<1>6. Len(s) \in Nat
  BY <1>3
<1>7. SubSeq(a, 1, Len(s)) = s
  <2>1. SubSeq(a, 1, Len(s)) \in Seq(T) /\ Len(SubSeq(a, 1, Len(s))) = Len(s)
    BY <1>5, <1>6, SubSeqProperties
  <2>2. \A i \in 1 .. Len(s) : SubSeq(a, 1, Len(s))[i] = s[i]
    BY <1>5, <1>6, SubSeqProperties
  <2> QED BY <1>3, <2>1, <2>2
<1> QED BY <1>4, <1>5, <1>6, <1>7 DEF Front, Last

Named(name) == name # ""

AttributesOK(a) ==
    /\ a = [type |-> a.type, permission |-> a.permission, content |-> a.content]
    /\ a.type \in FolderTypes /\ a.content \in FolderContents \cup {""} /\ Named(a.permission)

IsMap(f) == f = [x \in DOMAIN f |-> f[x]]

DirsOK(ds) ==
    /\ IsMap(ds)
    /\ \A p \in DOMAIN ds :
          /\ IsSeq(p) /\ p # Root /\ Named(Last(p))
          /\ Front(p) \in DOMAIN ds \cup {Root}
          /\ AttributesOK(ds[p])

RecsOK(rs, ds) ==
    /\ IsMap(rs)
    /\ \A k \in DOMAIN rs :
          /\ k = <<k[1], k[2]>> /\ Named(k[2])
          /\ k[1] \in DOMAIN ds \cup {Root}
          /\ Fits(rs[k])

\* A document that a load can be given, or that a save has written so far.
DocOK(doc) ==
    IsSeq(doc) /\ \A i \in 1 .. Len(doc) : doc[i].kind = "Record" => doc[i].text \in Texts

LEMMA EmptyTree == RecsOK(Empty, Empty) /\ DirsOK(Empty) /\ DOMAIN Empty = {}
BY DEF RecsOK, DirsOK, Empty, IsMap

LEMMA AddRecordOK ==
    ASSUME NEW rs, NEW ds, RecsOK(rs, ds), NEW p \in DOMAIN ds \cup {Root},
           NEW name, Named(name), NEW rec, Fits(rec)
    PROVE  RecsOK(With(rs, <<p, name>>, rec), ds)
<1>0. PICK k0 : k0 = <<p, name>>
  OBVIOUS
<1> DEFINE new == With(rs, k0, rec)
<1>1. k0 = <<k0[1], k0[2]>> /\ k0[1] = p /\ k0[2] = name
  BY <1>0
<1>2. /\ DOMAIN new = DOMAIN rs \cup {k0} /\ IsMap(new)
      /\ new[k0] = rec /\ \A j \in DOMAIN rs \ {k0} : new[j] = rs[j]
  BY DEF With, IsMap
<1> HIDE DEF new
<1>3. SUFFICES RecsOK(new, ds)
  BY <1>0 DEF new
<1> QED BY <1>1, <1>2 DEF RecsOK

LEMMA AddFolderOK ==
    ASSUME NEW rs, NEW ds, RecsOK(rs, ds), DirsOK(ds), NEW p \in DOMAIN ds \cup {Root},
           NEW name, Named(name), NEW a, AttributesOK(a)
    PROVE  /\ RecsOK(rs, With(ds, Append(p, name), a))
           /\ DirsOK(With(ds, Append(p, name), a))
<1>0. PICK q : q = Append(p, name)
  OBVIOUS
<1> DEFINE new == With(ds, q, a)
<1>1. IsSeq(p)
  BY SeqEmpty DEF DirsOK
<1>2. IsSeq(q) /\ q # Root /\ Front(q) = p /\ Last(q) = name
  BY <1>0, <1>1, SeqAppend, FrontAppend
<1>3. /\ DOMAIN new = DOMAIN ds \cup {q} /\ IsMap(new)
      /\ new[q] = a /\ \A j \in DOMAIN ds \ {q} : new[j] = ds[j]
  BY DEF With, IsMap
<1> HIDE DEF new
<1>4. SUFFICES RecsOK(rs, new) /\ DirsOK(new)
  BY <1>0 DEF new
<1>5. RecsOK(rs, new)
  BY <1>3 DEF RecsOK
<1>6. DirsOK(new)
  BY <1>2, <1>3 DEF DirsOK
<1> QED BY <1>5, <1>6

LEMMA TailOK ==
    ASSUME NEW doc, DocOK(doc), doc # Root
    PROVE  DocOK(Tail(doc)) /\ (Head(doc).kind = "Record" => Head(doc).text \in Texts)
BY SeqTail DEF DocOK

LEMMA AppendOK ==
    ASSUME NEW doc, DocOK(doc), NEW e, e.kind = "Record" => e.text \in Texts
    PROVE  DocOK(Append(doc, e))
<1>1. PICK d : d = Append(doc, e)
  OBVIOUS
<1>2. /\ IsSeq(d) /\ Len(doc) \in Nat /\ Len(d) = Len(doc) + 1 /\ d[Len(doc) + 1] = e
      /\ \A i \in 1 .. Len(doc) : d[i] = doc[i]
  BY <1>1, SeqAppend DEF DocOK
<1>3. ASSUME NEW i \in 1 .. Len(d), d[i].kind = "Record" PROVE d[i].text \in Texts
  <2>1. i \in 1 .. Len(doc) \/ i = Len(doc) + 1
    BY <1>2
  <2>2. CASE i \in 1 .. Len(doc)
    BY <1>2, <1>3, <2>2 DEF DocOK
  <2>3. CASE i = Len(doc) + 1
    BY <1>2, <1>3, <2>3
  <2> QED BY <2>1, <2>2, <2>3
<1> QED BY <1>1, <1>2, <1>3 DEF DocOK

-----------------------------------------------------------------------------
(* Types                                                                   *)

\* Type correctness needs the documents: what a load is given has texts that
\* the decoders know, and what a save has written has them too.
Typed ==
    /\ pc \in {"down", "loading", "serving", "saving"}
    /\ why \in {"start", "reload", "flush"}
    /\ RecsOK(recs, dirs) /\ DirsOK(dirs)
    /\ RecsOK(saved.recs, saved.dirs) /\ DirsOK(saved.dirs)
    /\ path \in DOMAIN dirs \cup {Root}
    /\ passed \subseteq DOMAIN recs /\ entered \subseteq DOMAIN dirs
    /\ pc # "saving" => passed = {} /\ entered = {}
    /\ cut \in {"no", "element", "fault"}
    /\ clean \in BOOLEAN /\ whole \in BOOLEAN /\ quiet \in BOOLEAN
    /\ DocOK(file) /\ DocOK(rest) /\ DocOK(out)

LEMMA TypedIsTypeOK == Typed => TypeOK
BY DEF Typed, TypeOK, RecsOK, DirsOK, Fits, AttributesOK

LEMMA NoDoc == DocOK(Root)
BY SeqEmpty DEF DocOK

LEMMA TypedInit == Init => Typed
<1> SUFFICES ASSUME Init PROVE Typed
  OBVIOUS
<1> USE DEF Init
<1>1. DocOK(file)
  <2>1. file \in Seq(Range(file)) /\ \A e \in Range(file) : e.kind = "Record" => e.text \in Texts
    BY FileLoaderAssumption
  <2> QED BY <2>1 DEF DocOK, IsSeq
<1>2. saved.recs = Empty /\ saved.dirs = Empty
  BY DEF NoTree
<1> QED BY <1>1, <1>2, EmptyTree, NoDoc DEF Typed

LEMMA TypedStart == ASSUME Typed, Start PROVE Typed'
BY EmptyTree DEF Typed, Start, BeginLoad

LEMMA TypedCut ==
    ASSUME Typed, pc = "loading", NEW reason \in {"element", "fault"}, CutLoad(reason),
           UNCHANGED <<file, recs, dirs, why, out, passed, entered, clean, whole, saved, quiet>>
    PROVE  Typed'
BY NoDoc DEF Typed, CutLoad

LEMMA TypedLoadRecord == ASSUME Typed, LoadRecord PROVE Typed'
<1> USE DEF LoadRecord
<1>1. pc = "loading" /\ rest # Root /\ Head(rest).kind = "Record"
  BY DEF Visiting
<1>2. DocOK(Tail(rest)) /\ Head(rest).text \in Texts
  BY <1>1, TailOK DEF Typed
<1>3. ASSUME NEW value \in loadRecordFromXML(Head(rest)) \ {Skip, Refuse},
             recs' = With(recs, Key(Head(rest).name), RecordOf(Head(rest), value)),
             rest' = Tail(rest), UNCHANGED <<pc, path, cut>>
      PROVE  Typed'
  <2>1. Named(Head(rest).name) /\ Fits(RecordOf(Head(rest), value))
    BY <1>2, LoadedFits DEF Named
  <2>2. RecsOK(recs', dirs)
    BY <1>3, <2>1, AddRecordOK DEF Key, Typed
  <2> QED BY <1>1, <1>2, <1>3, <2>2 DEF Typed
<1>4. CASE rest' = Tail(rest) /\ UNCHANGED <<recs, pc, path, cut>>
  BY <1>1, <1>2, <1>4 DEF Typed
<1>5. CASE CutLoad("element") /\ UNCHANGED recs
  BY <1>1, <1>5, TypedCut
<1> QED BY <1>3, <1>4, <1>5

LEMMA AttributesAfterOK ==
    ASSUME NEW old, AttributesOK(old), NEW node
    PROVE  AttributesOK(AttributesAfter(old, node))
BY DEF AttributesOK, AttributesAfter, Named

LEMMA NoAttributesOK == AttributesOK(NoAttributes)
BY DEF AttributesOK, NoAttributes, FolderTypes, Named

LEMMA TypedLoadFolder == ASSUME Typed, LoadFolder PROVE Typed'
<1> USE DEF LoadFolder
<1>1. pc = "loading" /\ rest # Root /\ Head(rest).kind = "Folder"
  BY DEF Visiting
<1>2. DocOK(Tail(rest))
  BY <1>1, TailOK DEF Typed
<1> DEFINE child == Append(path, Head(rest).name)
           old == IF child \in DOMAIN dirs THEN dirs[child] ELSE NoAttributes
<1>3. CASE /\ Head(rest).name # ""
           /\ dirs' = With(dirs, child, AttributesAfter(old, Head(rest)))
           /\ path' = child /\ rest' = Tail(rest) /\ UNCHANGED <<pc, cut>>
  <2>1. AttributesOK(AttributesAfter(old, Head(rest)))
    <3>1. AttributesOK(old)
      BY NoAttributesOK DEF Typed, DirsOK
    <3> HIDE DEF old
    <3> QED BY <3>1, AttributesAfterOK
  <2>2. RecsOK(recs, dirs') /\ DirsOK(dirs')
    <3> HIDE DEF old
    <3> QED BY <1>3, <2>1, AddFolderOK DEF Typed, Named
  <2>3. DOMAIN dirs' = DOMAIN dirs \cup {child}
    BY <1>3 DEF With
  <2> HIDE DEF child, old
  <2> QED BY <1>1, <1>2, <1>3, <2>2, <2>3 DEF Typed
<1>4. CASE CutLoad("element") /\ UNCHANGED dirs
  BY <1>1, <1>4, TypedCut
<1> QED BY <1>3, <1>4

LEMMA TypedFailAdd == ASSUME Typed, FailAdd PROVE Typed'
BY TypedCut DEF FailAdd, Visiting

LEMMA FrontIn ==
    ASSUME Typed
    PROVE  Front(path) \in DOMAIN dirs \cup {Root}
BY SeqEmpty DEF Typed, DirsOK

LEMMA TypedWalk == ASSUME Typed, EndFolder \/ LoadOther \/ EndLoad PROVE Typed'
<1>1. CASE EndFolder
  BY <1>1, FrontIn, TailOK DEF Typed, EndFolder, Visiting, history
<1>2. CASE LoadOther
  BY <1>2 DEF Typed, LoadOther, vars
<1>3. CASE EndLoad
  BY <1>3 DEF Typed, EndLoad, walk, history
<1> QED BY <1>1, <1>2, <1>3

\* A value from the bus is text, and its type is the one that any text fits.
LEMMA SetFits ==
    ASSUME NEW v \in BusValues
    PROVE  Fits([type |-> "astr", permission |-> "all", content |-> 0, value |-> v])
<1>1. v \in Texts
  BY FileLoaderAssumption
<1>2. PICK rec : rec = [type |-> "astr", permission |-> "all", content |-> 0, value |-> v]
  OBVIOUS
<1>3. rec.type = "astr" /\ rec.content = 0 /\ rec.value = v
  BY <1>2
<1>4. TextForm(rec.type, rec.content) = "string"
  BY <1>3 DEF TextForm
<1> QED BY <1>1, <1>2, <1>3, <1>4 DEF Fits, Fit, RecordTypes

LEMMA TypedSet == ASSUME Typed, NEW name \in Names, NEW v \in BusValues, SetRecord(name, v) PROVE Typed'
<1>1. RecsOK(recs', dirs)
  BY SetFits, AddRecordOK, FileLoaderAssumption DEF SetRecord, Typed, Named
<1> QED BY <1>1 DEF SetRecord, Typed, walk

LEMMA TypedDel == ASSUME Typed, NEW name \in Names, DelRecord(name) PROVE Typed'
<1>1. RecsOK(recs', dirs)
  BY DEF DelRecord, Typed, RecsOK, IsMap
<1> QED BY <1>1 DEF DelRecord, Typed, walk

LEMMA TypedBeginSave == ASSUME Typed, NEW reason, BeginSave(reason) PROVE Typed'
BY NoDoc DEF BeginSave, Typed

LEMMA TypedSaveRecord == ASSUME Typed, SaveRecord PROVE Typed'
<1>1. PICK k \in RecordsLeft :
          /\ passed' = passed \cup {k}
          /\ \/ out' = Append(out, addRecordToXMLHandle2(k[2], recs[k])) /\ UNCHANGED clean
             \/ clean' = FALSE /\ UNCHANGED out
  BY DEF SaveRecord
<1>2. k \in DOMAIN recs
  BY DEF RecordsLeft
<1>3. addRecordToXMLHandle2(k[2], recs[k]).text \in Texts
  BY <1>2, WrittenIsText DEF addRecordToXMLHandle2, Typed, RecsOK
<1>4. DocOK(out')
  BY <1>1, <1>3, AppendOK DEF Typed
<1> QED BY <1>1, <1>2, <1>4 DEF Typed, SaveRecord

LEMMA TypedSaveFolder == ASSUME Typed, SaveFolder PROVE Typed'
<1>1. PICK p \in FoldersLeft :
          \/ /\ path' = p /\ out' = Append(out, FolderElement(p))
             /\ entered' = entered \cup {p} /\ UNCHANGED <<passed, clean>>
          \/ /\ out' \in {out, out \o <<[FolderElement(p) EXCEPT !.content = "", !.permission = ""],
                                        EndElement>>}
             /\ passed' = passed \cup {k \in DOMAIN recs : IsPrefix(p, k[1])}
             /\ entered' = entered \cup {q \in DOMAIN dirs : IsPrefix(p, q)}
             /\ clean' = FALSE /\ UNCHANGED path
  BY DEF SaveFolder
<1>2. p \in DOMAIN dirs
  BY DEF FoldersLeft
<1>3. DocOK(out')
  <2>1. FolderElement(p).kind = "Folder"
    BY DEF FolderElement
  <2>2. DocOK(Append(out, FolderElement(p)))
    BY <2>1, AppendOK DEF Typed
  <2>3. DocOK(out \o <<[FolderElement(p) EXCEPT !.content = "", !.permission = ""], EndElement>>)
    <3>1. PICK e : e = [FolderElement(p) EXCEPT !.content = "", !.permission = ""]
      OBVIOUS
    <3>2. e.kind = "Folder" /\ EndElement.kind = "EndFolder"
      BY <2>1, <3>1 DEF EndElement, FolderElement
    <3>3. DocOK(Append(out, e))
      BY <3>2, AppendOK DEF Typed
    <3>4. DocOK(Append(Append(out, e), EndElement))
      BY <3>2, <3>3, AppendOK
    <3>5. out \o <<e, EndElement>> = Append(Append(out, e), EndElement)
      BY AppendPair DEF Typed, DocOK
    <3> QED BY <3>1, <3>4, <3>5
  <2> QED BY <1>1, <2>2, <2>3 DEF Typed
<1> QED BY <1>1, <1>2, <1>3 DEF Typed, SaveFolder

LEMMA TypedLeaveFolder == ASSUME Typed, LeaveFolder PROVE Typed'
<1>1. DocOK(out')
  BY AppendOK DEF LeaveFolder, Typed, EndElement
<1> QED BY <1>1, FrontIn DEF Typed, LeaveFolder, history

LEMMA TypedAfterSave ==
    ASSUME Typed, AfterSave, RecsOK(recs', dirs'), DirsOK(dirs'), UNCHANGED <<recs, dirs>>,
           saved' = saved \/ saved' = [recs |-> recs, dirs |-> dirs],
           DocOK(file'), {clean', whole', quiet'} \subseteq BOOLEAN
    PROVE  Typed'
<1>1. RecsOK(saved.recs, saved.dirs)' /\ DirsOK(saved.dirs)'
  BY DEF Typed
<1> QED BY <1>1, NoDoc DEF Typed, AfterSave, BeginLoad

LEMMA TypedEndSave == ASSUME Typed, EndSave PROVE Typed'
BY TypedAfterSave DEF EndSave, Typed

LEMMA TypedFailSave == ASSUME Typed, FailSave PROVE Typed'
BY TypedAfterSave DEF FailSave, Typed

LEMMA TypedStop == ASSUME Typed, Stop PROVE Typed'
BY EmptyTree, NoDoc DEF Stop, Typed

LEMMA TypedStep == ASSUME Typed, [Next]_vars PROVE Typed'
<1>1. CASE Next
  BY <1>1, TypedStart, TypedLoadRecord, TypedLoadFolder, TypedFailAdd, TypedWalk, TypedSet,
     TypedDel, TypedBeginSave, TypedSaveRecord, TypedSaveFolder, TypedLeaveFolder, TypedEndSave,
     TypedFailSave, TypedStop DEF Next
<1>2. CASE UNCHANGED vars
  BY <1>2 DEF Typed, vars
<1> QED BY <1>1, <1>2

LEMMA TypedAlways == Spec => []Typed
BY TypedInit, TypedStep, PTL DEF Spec

\* Every reachable state is well typed, whatever the documents hold: a record
\* of the tree has a type and a content type that the code knows and lies in a
\* folder of the tree, and a folder in another, wherever a load was cut.
THEOREM TypeCorrect == Spec => []TypeOK
BY TypedAlways, TypedIsTypeOK, PTL

-----------------------------------------------------------------------------
(* What a document says of a tree                                          *)

\* at[i] is the folder behind element i.
IsWalk(doc, at) ==
    /\ at[0] = Root
    /\ \A i \in 1 .. Len(doc) :
          /\ doc[i].kind = "Folder" => at[i] = Append(at[i - 1], doc[i].name)
          /\ doc[i].kind = "EndFolder" => at[i] = Front(at[i - 1])
          /\ doc[i].kind = "Record" => at[i] = at[i - 1]

\* Element e in folder p is what a save writes of a record of rs.
TellsRecord(e, p, rs) ==
    /\ e.kind = "Record" /\ Named(e.name) /\ <<p, e.name>> \in DOMAIN rs
    /\ e = addRecordToXMLHandle2(e.name, rs[<<p, e.name>>])

\* It is what a save writes of a folder of ds; full: with all its attributes.
TellsFolder(e, p, ds, full) ==
    /\ e.kind = "Folder" /\ Named(e.name) /\ e.type = ""
    /\ LET q == Append(p, e.name)
       IN  /\ q \in DOMAIN ds
           /\ e.permission = "" \/ e.permission = ds[q].permission
           /\ e.content = "" \/ e.content = ds[q].content
           /\ full => (e.permission = "" => ds[q].permission = "all") /\ e.content = ds[q].content

Tells(e, p, rs, ds, full) ==
    e.kind = "EndFolder" \/ TellsRecord(e, p, rs) \/ TellsFolder(e, p, ds, full)

Describes(doc, at, rs, ds, full) ==
    IsWalk(doc, at) /\ \A i \in 1 .. Len(doc) : Tells(doc[i], at[i - 1], rs, ds, full)

\* The records K and the folders P are in it.
Has(doc, at, K, P) ==
    /\ \A k \in K : \E i \in 1 .. Len(doc) : doc[i].kind = "Record" /\ k = <<at[i - 1], doc[i].name>>
    /\ \A p \in P : \E i \in 1 .. Len(doc) : doc[i].kind = "Folder" /\ p = at[i]

LEMMA EmptyDescribes ==
    ASSUME NEW rs, NEW ds, NEW full
    PROVE  \E at : Describes(Root, at, rs, ds, full) /\ at[Len(Root)] = Root /\ Has(Root, at, {}, {})
<1>1. PICK at : at = [i \in {0} |-> Root]
  OBVIOUS
<1>2. Describes(Root, at, rs, ds, full)
  BY <1>1, SeqEmpty DEF Describes, IsWalk
<1>3. at[Len(Root)] = Root
  BY <1>1, SeqEmpty
<1>4. Has(Root, at, {}, {})
  BY DEF Has
<1> QED BY <1>2, <1>3, <1>4

\* Where the walk is behind one more element.
Behind(p, e) ==
    CASE e.kind = "Folder" -> Append(p, e.name)
      [] e.kind = "EndFolder" -> Front(p)
      [] OTHER -> p

LEMMA Extend ==
    ASSUME NEW doc, IsSeq(doc), NEW at, NEW rs, NEW ds, NEW full,
           Describes(doc, at, rs, ds, full),
           NEW e, Tells(e, at[Len(doc)], rs, ds, full)
    PROVE  \E to : /\ Describes(Append(doc, e), to, rs, ds, full)
                   /\ to[Len(Append(doc, e))] = Behind(at[Len(doc)], e)
                   /\ \A i \in 0 .. Len(doc) : to[i] = at[i]
<1>1. PICK n, d : n = Len(doc) /\ d = Append(doc, e)
  OBVIOUS
<1>2. /\ n \in Nat /\ Len(d) = n + 1 /\ d[n + 1] = e
      /\ \A i \in 1 .. n : d[i] = doc[i]
  BY <1>1, SeqAppend
<1>3. PICK to : to = [i \in 0 .. n + 1 |-> IF i <= n THEN at[i] ELSE Behind(at[n], e)]
  OBVIOUS
<1>4. to[n + 1] = Behind(at[n], e) /\ \A i \in 0 .. n : to[i] = at[i]
  BY <1>2, <1>3
<1>5. ASSUME NEW i \in 1 .. n + 1
      PROVE  /\ d[i].kind = "Folder" => to[i] = Append(to[i - 1], d[i].name)
             /\ d[i].kind = "EndFolder" => to[i] = Front(to[i - 1])
             /\ d[i].kind = "Record" => to[i] = to[i - 1]
             /\ Tells(d[i], to[i - 1], rs, ds, full)
  <2>1. CASE i \in 1 .. n
    <3>1. d[i] = doc[i] /\ to[i] = at[i] /\ to[i - 1] = at[i - 1]
      BY <1>2, <1>4, <2>1
    <3> QED BY <1>1, <2>1, <3>1 DEF Describes, IsWalk
  <2>2. CASE i = n + 1
    <3>1. d[i] = e /\ to[i] = Behind(at[n], e) /\ to[i - 1] = at[n]
      BY <1>2, <1>4, <2>2
    <3> QED BY <1>1, <3>1 DEF Behind
  <2> QED BY <1>2, <2>1, <2>2
<1>6. to[0] = Root
  BY <1>2, <1>4 DEF Describes, IsWalk
<1>7. Describes(d, to, rs, ds, full)
  BY <1>2, <1>5, <1>6 DEF Describes, IsWalk
<1> QED BY <1>1, <1>2, <1>4, <1>7

LEMMA ExtendHas ==
    ASSUME NEW doc, IsSeq(doc), NEW at, NEW K, NEW P, Has(doc, at, K, P), NEW e, NEW to,
           \A i \in 0 .. Len(doc) : to[i] = at[i]
    PROVE  /\ Has(Append(doc, e), to, K, P)
           /\ e.kind = "Record" => Has(Append(doc, e), to, K \cup {<<at[Len(doc)], e.name>>}, P)
           /\ e.kind = "Folder" => Has(Append(doc, e), to, K, P \cup {to[Len(Append(doc, e))]})
<1>1. PICK n, d : n = Len(doc) /\ d = Append(doc, e)
  OBVIOUS
<1>2. /\ n \in Nat /\ Len(d) = n + 1 /\ d[n + 1] = e
      /\ \A i \in 1 .. n : d[i] = doc[i]
  BY <1>1, SeqAppend
<1>3. Has(d, to, K, P)
  <2>1. ASSUME NEW k \in K
        PROVE  \E i \in 1 .. n + 1 : d[i].kind = "Record" /\ k = <<to[i - 1], d[i].name>>
    <3>1. PICK i \in 1 .. n : doc[i].kind = "Record" /\ k = <<at[i - 1], doc[i].name>>
      BY <1>1 DEF Has
    <3>2. i \in 1 .. n + 1 /\ d[i] = doc[i] /\ to[i - 1] = at[i - 1]
      BY <1>1, <1>2
    <3> QED BY <3>1, <3>2
  <2>2. ASSUME NEW p \in P
        PROVE  \E i \in 1 .. n + 1 : d[i].kind = "Folder" /\ p = to[i]
    <3>1. PICK i \in 1 .. n : doc[i].kind = "Folder" /\ p = at[i]
      BY <1>1 DEF Has
    <3>2. i \in 1 .. n + 1 /\ d[i] = doc[i] /\ to[i] = at[i]
      BY <1>1, <1>2
    <3> QED BY <3>1, <3>2
  <2> QED BY <1>2, <2>1, <2>2 DEF Has
<1>4. n + 1 \in 1 .. Len(d) /\ to[(n + 1) - 1] = at[n]
  BY <1>1, <1>2
<1>5. e.kind = "Record" => Has(d, to, K \cup {<<at[n], e.name>>}, P)
  BY <1>2, <1>3, <1>4 DEF Has
<1>6. e.kind = "Folder" => Has(d, to, K, P \cup {to[n + 1]})
  BY <1>2, <1>3, <1>4 DEF Has
<1> QED BY <1>1, <1>2, <1>3, <1>5, <1>6

LEMMA Weaken ==
    ASSUME NEW doc, NEW at, NEW rs, NEW ds, NEW full, Describes(doc, at, rs, ds, full)
    PROVE  Describes(doc, at, rs, ds, FALSE)
<1>1. ASSUME NEW e, NEW p, Tells(e, p, rs, ds, full) PROVE Tells(e, p, rs, ds, FALSE)
  BY <1>1 DEF Tells, TellsFolder
<1> QED BY <1>1 DEF Describes

-----------------------------------------------------------------------------
(* Saving                                                                  *)

SavingFrom(at) ==
    /\ Describes(out, at, recs, dirs, clean) /\ at[Len(out)] = path
    /\ clean => Has(out, at, passed, entered)

\* What was written so far is what the tree has, and says where the walk is.
SaveInv == pc = "saving" => \E at : SavingFrom(at)

LEMMA SaveInvBegin == ASSUME NEW reason, BeginSave(reason) PROVE SaveInv'
<1>1. PICK at : Describes(Root, at, recs, dirs, TRUE) /\ at[Len(Root)] = Root /\ Has(Root, at, {}, {})
  BY EmptyDescribes
<1>2. SavingFrom(at)'
  BY <1>1 DEF BeginSave, SavingFrom
<1> QED BY <1>2 DEF SaveInv

\* Steps that write one element more.
LEMMA SaveElement ==
    ASSUME Typed, NEW at, SavingFrom(at), NEW e, NEW full,
           full => clean, Tells(e, path, recs, dirs, full)
    PROVE  \E to : /\ Describes(Append(out, e), to, recs, dirs, full)
                   /\ to[Len(Append(out, e))] = Behind(path, e)
                   /\ clean => /\ Has(Append(out, e), to, passed, entered)
                               /\ e.kind = "Record" =>
                                     Has(Append(out, e), to, passed \cup {<<path, e.name>>}, entered)
                               /\ e.kind = "Folder" =>
                                     Has(Append(out, e), to, passed, entered \cup {Behind(path, e)})
<1>1. IsSeq(out)
  BY DEF Typed, DocOK
<1>2. Describes(out, at, recs, dirs, clean) /\ at[Len(out)] = path
  BY DEF SavingFrom
<1>3. Describes(out, at, recs, dirs, full)
  <2>1. CASE clean = full
    BY <1>2, <2>1
  <2>2. CASE full = FALSE
    BY <1>2, <2>2, Weaken
  <2> QED BY <1>2, <2>1, <2>2, Weaken DEF Typed, Describes, Tells, TellsFolder
<1>4. PICK to : /\ Describes(Append(out, e), to, recs, dirs, full)
                /\ to[Len(Append(out, e))] = Behind(path, e)
                /\ \A i \in 0 .. Len(out) : to[i] = at[i]
  <2>1. Tells(e, at[Len(out)], recs, dirs, full)
    BY <1>2
  <2>2. \E to : /\ Describes(Append(out, e), to, recs, dirs, full)
                /\ to[Len(Append(out, e))] = Behind(at[Len(out)], e)
                /\ \A i \in 0 .. Len(out) : to[i] = at[i]
    BY <1>1, <1>3, <2>1, Extend
  <2> QED BY <1>2, <2>2
<1>5. ASSUME clean
      PROVE  /\ Has(Append(out, e), to, passed, entered)
             /\ e.kind = "Record" =>
                   Has(Append(out, e), to, passed \cup {<<path, e.name>>}, entered)
             /\ e.kind = "Folder" =>
                   Has(Append(out, e), to, passed, entered \cup {Behind(path, e)})
  <2>1. Has(out, at, passed, entered)
    BY <1>5 DEF SavingFrom
  <2>2. /\ Has(Append(out, e), to, passed, entered)
        /\ e.kind = "Record" => Has(Append(out, e), to, passed \cup {<<at[Len(out)], e.name>>}, entered)
        /\ e.kind = "Folder" => Has(Append(out, e), to, passed, entered \cup {to[Len(Append(out, e))]})
    BY <1>1, <1>4, <2>1, ExtendHas
  <2> QED BY <1>2, <1>4, <2>2
<1> QED BY <1>4, <1>5

LEMMA SaveInvRecord == ASSUME Typed, SaveInv, SaveRecord PROVE SaveInv'
<1>1. PICK k \in RecordsLeft :
          /\ passed' = passed \cup {k}
          /\ \/ out' = Append(out, addRecordToXMLHandle2(k[2], recs[k])) /\ UNCHANGED clean
             \/ clean' = FALSE /\ UNCHANGED out
  BY DEF SaveRecord
<1>2. PICK at : SavingFrom(at)
  BY DEF SaveInv, SaveRecord
<1>3. UNCHANGED <<recs, dirs, path, entered>>
  BY DEF SaveRecord
<1>4. CASE out' = Append(out, addRecordToXMLHandle2(k[2], recs[k])) /\ UNCHANGED clean
  <2>1. PICK e : e = addRecordToXMLHandle2(k[2], recs[k])
    OBVIOUS
  <2>2. e.kind = "Record" /\ e.name = k[2]
    BY <2>1 DEF addRecordToXMLHandle2
  <2>3. k \in DOMAIN recs /\ k = <<path, e.name>> /\ Named(e.name)
    BY <2>2 DEF RecordsLeft, Typed, RecsOK
  <2>4. TellsRecord(e, path, recs)
    BY <2>1, <2>2, <2>3 DEF TellsRecord
  <2>5. Tells(e, path, recs, dirs, clean)
    BY <2>4 DEF Tells
  <2>6. Behind(path, e) = path
    BY <2>2 DEF Behind
  <2>7. PICK to : /\ Describes(Append(out, e), to, recs, dirs, clean)
                  /\ to[Len(Append(out, e))] = path
                  /\ clean => Has(Append(out, e), to, passed \cup {<<path, e.name>>}, entered)
    BY <1>2, <2>2, <2>5, <2>6, SaveElement
  <2>8. SavingFrom(to)'
    BY <1>1, <1>3, <1>4, <2>1, <2>3, <2>7 DEF SavingFrom
  <2> QED BY <2>8 DEF SaveInv
<1>5. CASE clean' = FALSE /\ UNCHANGED out
  <2>1. SavingFrom(at)'
    BY <1>2, <1>3, <1>5, Weaken DEF SavingFrom
  <2> QED BY <2>1 DEF SaveInv
<1> QED BY <1>1, <1>4, <1>5

LEMMA TellsFolderElement ==
    ASSUME Typed, NEW p \in FoldersLeft, NEW full
    PROVE  /\ Tells(FolderElement(p), path, recs, dirs, full)
           /\ Tells([FolderElement(p) EXCEPT !.content = "", !.permission = ""], path, recs, dirs, FALSE)
           /\ Behind(path, FolderElement(p)) = p
           /\ Behind(path, [FolderElement(p) EXCEPT !.content = "", !.permission = ""]) = p
           /\ Front(p) = path
<1>1. p \in DOMAIN dirs /\ p # Root /\ Front(p) = path /\ Named(Last(p)) /\ IsSeq(p)
  BY DEF FoldersLeft, Typed, DirsOK
<1>2. Append(path, Last(p)) = p
  BY <1>1, SeqFront
<1>3. PICK e, f : /\ e = FolderElement(p)
                  /\ f = [FolderElement(p) EXCEPT !.content = "", !.permission = ""]
  OBVIOUS
<1>4. /\ e.kind = "Folder" /\ e.name = Last(p) /\ e.type = "" /\ e.content = dirs[p].content
      /\ e.permission = IF dirs[p].permission = "all" THEN "" ELSE dirs[p].permission
  BY <1>3 DEF FolderElement
<1>5. /\ f.kind = "Folder" /\ f.name = Last(p) /\ f.type = "" /\ f.content = ""
      /\ f.permission = ""
  BY <1>3 DEF FolderElement
<1>6. TellsFolder(e, path, dirs, full)
  <2>1. Append(path, e.name) = p
    BY <1>2, <1>4
  <2>2. e.permission = "" => dirs[p].permission = "all"
    BY <1>1, <1>4 DEF Typed, DirsOK, AttributesOK, Named
  <2> QED BY <1>1, <1>4, <2>1, <2>2 DEF TellsFolder
<1>7. TellsFolder(f, path, dirs, FALSE)
  BY <1>1, <1>2, <1>5 DEF TellsFolder
<1>8. Behind(path, e) = p /\ Behind(path, f) = p
  BY <1>2, <1>4, <1>5 DEF Behind
<1> QED BY <1>1, <1>3, <1>6, <1>7, <1>8 DEF Tells

LEMMA EndTells ==
    ASSUME NEW p, NEW rs, NEW ds, NEW full
    PROVE  Tells(EndElement, p, rs, ds, full) /\ Behind(p, EndElement) = Front(p)
BY DEF Tells, Behind, EndElement

LEMMA SaveInvFolder == ASSUME Typed, SaveInv, SaveFolder PROVE SaveInv'
<1>1. PICK p \in FoldersLeft :
          \/ /\ path' = p /\ out' = Append(out, FolderElement(p))
             /\ entered' = entered \cup {p} /\ UNCHANGED <<passed, clean>>
          \/ /\ out' \in {out, out \o <<[FolderElement(p) EXCEPT !.content = "", !.permission = ""],
                                        EndElement>>}
             /\ clean' = FALSE /\ UNCHANGED path
  BY DEF SaveFolder
<1>2. PICK at : SavingFrom(at)
  BY DEF SaveInv, SaveFolder
<1>3. UNCHANGED <<recs, dirs>>
  BY DEF SaveFolder
<1>4. CASE /\ path' = p /\ out' = Append(out, FolderElement(p))
           /\ entered' = entered \cup {p} /\ UNCHANGED <<passed, clean>>
  <2>1. PICK e : e = FolderElement(p)
    OBVIOUS
  <2>2. Tells(e, path, recs, dirs, clean) /\ Behind(path, e) = p /\ e.kind = "Folder"
    BY <2>1, TellsFolderElement DEF FolderElement
  <2>3. PICK to : /\ Describes(Append(out, e), to, recs, dirs, clean)
                  /\ to[Len(Append(out, e))] = p
                  /\ clean => Has(Append(out, e), to, passed, entered \cup {p})
    BY <1>2, <2>2, SaveElement
  <2>4. SavingFrom(to)'
    BY <1>3, <1>4, <2>1, <2>3 DEF SavingFrom
  <2> QED BY <2>4 DEF SaveInv
<1>5. CASE out' = out /\ clean' = FALSE /\ UNCHANGED path
  <2>1. SavingFrom(at)'
    BY <1>2, <1>3, <1>5, Weaken DEF SavingFrom
  <2> QED BY <2>1 DEF SaveInv
<1>6. CASE /\ out' = out \o <<[FolderElement(p) EXCEPT !.content = "", !.permission = ""], EndElement>>
           /\ clean' = FALSE /\ UNCHANGED path
  <2>1. PICK e : e = [FolderElement(p) EXCEPT !.content = "", !.permission = ""]
    OBVIOUS
  <2>2. Tells(e, path, recs, dirs, FALSE) /\ Behind(path, e) = p /\ Front(p) = path
    BY <2>1, TellsFolderElement
  <2>3. PICK to : /\ Describes(Append(out, e), to, recs, dirs, FALSE)
                  /\ to[Len(Append(out, e))] = p
    BY <1>2, <2>2, SaveElement
  <2>4. IsSeq(out) /\ IsSeq(Append(out, e))
    BY SeqAppend DEF Typed, DocOK
  <2>5. PICK fro : /\ Describes(Append(Append(out, e), EndElement), fro, recs, dirs, FALSE)
                   /\ fro[Len(Append(Append(out, e), EndElement))] = path
    <3>1. Tells(EndElement, to[Len(Append(out, e))], recs, dirs, FALSE)
      BY EndTells
    <3>2. Behind(to[Len(Append(out, e))], EndElement) = path
      BY <2>2, <2>3, EndTells
    <3>3. PICK d : d = Append(out, e)
      OBVIOUS
    <3>4. PICK full : full = FALSE
      OBVIOUS
    <3>5. IsSeq(d) /\ Describes(d, to, recs, dirs, full) /\ Tells(EndElement, to[Len(d)], recs, dirs, full)
      BY <2>3, <2>4, <3>1, <3>3, <3>4
    <3>6. \E fro : /\ Describes(Append(d, EndElement), fro, recs, dirs, full)
                   /\ fro[Len(Append(d, EndElement))] = Behind(to[Len(d)], EndElement)
                   /\ \A i \in 0 .. Len(d) : fro[i] = to[i]
      BY <3>5, Extend
    <3> QED BY <3>2, <3>3, <3>4, <3>6
  <2>6. out \o <<e, EndElement>> = Append(Append(out, e), EndElement)
    BY <2>4, AppendPair
  <2>7. SavingFrom(fro)'
    BY <1>3, <1>6, <2>1, <2>5, <2>6 DEF SavingFrom
  <2> QED BY <2>7 DEF SaveInv
<1> QED BY <1>1, <1>4, <1>5, <1>6

LEMMA SaveInvLeave == ASSUME Typed, SaveInv, LeaveFolder PROVE SaveInv'
<1>1. PICK at : SavingFrom(at)
  BY DEF SaveInv, LeaveFolder
<1>2. PICK to : /\ Describes(Append(out, EndElement), to, recs, dirs, clean)
                /\ to[Len(Append(out, EndElement))] = Front(path)
                /\ clean => Has(Append(out, EndElement), to, passed, entered)
  BY <1>1, EndTells, SaveElement
<1>3. SavingFrom(to)'
  BY <1>2 DEF SavingFrom, LeaveFolder, history
<1> QED BY <1>3 DEF SaveInv

\* The folders around the one that the walk is in, and itself.
Above(p) == {SubSeq(p, 1, n) : n \in 0 .. Len(p)}

LEMMA AboveRoot == Above(Root) = {Root}
<1>1. SubSeq(Root, 1, 0) = Root
  BY SubSeqEmpty DEF Root
<1>2. 0 .. Len(Root) = {0}
  BY SeqEmpty
<1>3. \A x : x \in Above(Root) <=> \E n \in 0 .. Len(Root) : x = SubSeq(Root, 1, n)
  BY DEF Above
<1> QED BY <1>1, <1>2, <1>3

LEMMA AboveAppend ==
    ASSUME NEW p, IsSeq(p), NEW name
    PROVE  Above(Append(p, name)) = Above(p) \cup {Append(p, name)}
<1>1. PICK S : p \in Seq(S)
  BY DEF IsSeq
<1>2. PICK T, q : T = S \cup {name} /\ q = Append(p, name)
  OBVIOUS
<1>3. /\ p \in Seq(T) /\ q \in Seq(T) /\ Len(q) = Len(p) + 1 /\ Len(p) \in Nat
      /\ \A i \in 1 .. Len(p) : q[i] = p[i]
  BY <1>1, <1>2, AppendProperties
<1>4. ASSUME NEW n \in 0 .. Len(p) PROVE SubSeq(q, 1, n) = SubSeq(p, 1, n)
  <2>1. /\ SubSeq(q, 1, n) \in Seq(T) /\ Len(SubSeq(q, 1, n)) = n
        /\ \A i \in 1 .. n : SubSeq(q, 1, n)[i] = p[i]
    BY <1>3, SubSeqProperties
  <2>2. /\ SubSeq(p, 1, n) \in Seq(T) /\ Len(SubSeq(p, 1, n)) = n
        /\ \A i \in 1 .. n : SubSeq(p, 1, n)[i] = p[i]
    BY <1>3, SubSeqProperties
  <2> QED BY <2>1, <2>2
<1>5. SubSeq(q, 1, Len(p) + 1) = q
  BY <1>3, SubSeqFull
<1>6. \A n \in 0 .. Len(p) + 1 : n \in 0 .. Len(p) \/ n = Len(p) + 1
  BY <1>3
<1>7. Above(q) = Above(p) \cup {q}
  <2>1. \A x : x \in Above(q) <=> \E n \in 0 .. Len(p) + 1 : x = SubSeq(q, 1, n)
    BY <1>3 DEF Above
  <2>2. \A x : x \in Above(p) <=> \E n \in 0 .. Len(p) : x = SubSeq(p, 1, n)
    BY DEF Above
  <2>3. \A x \in Above(q) : x \in Above(p) \cup {q}
    BY <1>4, <1>5, <1>6, <2>1, <2>2
  <2>4. \A x \in Above(p) : x \in Above(q)
    BY <1>3, <1>4, <2>1, <2>2
  <2>5. q \in Above(q)
    BY <1>3, <1>5, <2>1
  <2> QED BY <2>3, <2>4, <2>5
<1> QED BY <1>2, <1>7

\* Everything in folder p is in what was written.
NothingLeft(p) ==
    /\ \A k \in DOMAIN recs \ passed : k[1] # p
    /\ \A q \in DOMAIN dirs \ entered : Front(q) # p

\* The walk leaves a folder when nothing of it is left.
DoneInv ==
    pc = "saving" /\ clean => \A p \in entered \cup {Root} : NothingLeft(p) \/ p \in Above(path)

LEMMA DoneInvBegin == ASSUME NEW reason, BeginSave(reason) PROVE DoneInv'
BY AboveRoot DEF BeginSave, DoneInv

LEMMA DoneInvRecord == ASSUME DoneInv, Typed, SaveRecord PROVE DoneInv'
BY DEF SaveRecord, DoneInv, NothingLeft

LEMMA DoneInvFolder == ASSUME DoneInv, Typed, SaveFolder PROVE DoneInv'
<1> SUFFICES ASSUME clean' PROVE DoneInv'
  BY DEF DoneInv
<1>1. PICK p \in FoldersLeft :
          path' = p /\ entered' = entered \cup {p} /\ UNCHANGED <<passed, clean>>
  BY DEF SaveFolder
<1>2. UNCHANGED <<recs, dirs>> /\ pc = "saving"
  BY DEF SaveFolder
<1>3. IsSeq(path) /\ IsSeq(p) /\ Append(path, Last(p)) = p
  <2>1. p \in DOMAIN dirs /\ p # Root /\ Front(p) = path /\ IsSeq(p)
    BY DEF FoldersLeft, Typed, DirsOK
  <2> QED BY <2>1, SeqFront, SeqEmpty
<1>4. Above(p) = Above(path) \cup {p}
  BY <1>3, AboveAppend
<1>5. \A q : NothingLeft(q) => NothingLeft(q)'
  BY <1>1, <1>2 DEF NothingLeft
<1> QED BY <1>1, <1>2, <1>4, <1>5 DEF DoneInv

LEMMA LeftOfPath ==
    ASSUME Typed, RecordsLeft = {}, FoldersLeft = {}
    PROVE  NothingLeft(path)
BY DEF Typed, DirsOK, RecordsLeft, FoldersLeft, NothingLeft

LEMMA DoneInvLeave == ASSUME DoneInv, Typed, LeaveFolder PROVE DoneInv'
<1>1. NothingLeft(path)
  BY LeftOfPath DEF LeaveFolder
<1>2. IsSeq(path) /\ path # Root
  BY SeqEmpty DEF Typed, DirsOK, LeaveFolder
<1>3. IsSeq(Front(path)) /\ Append(Front(path), Last(path)) = path
  BY <1>2, SeqFront
<1>4. Above(path) = Above(Front(path)) \cup {path}
  BY <1>3, AboveAppend
<1>5. \A q : NothingLeft(q) => NothingLeft(q)'
  BY DEF NothingLeft, LeaveFolder
<1> QED BY <1>1, <1>4, <1>5 DEF DoneInv, LeaveFolder, history

\* When the walk is over it has been everywhere.
LEMMA AllWritten ==
    ASSUME Typed, DoneInv, pc = "saving", clean, path = Root,
           RecordsLeft = {}, FoldersLeft = {}
    PROVE  passed = DOMAIN recs /\ entered = DOMAIN dirs
<1>1. \A p \in entered \cup {Root} : NothingLeft(p) \/ p = Root
  BY AboveRoot DEF DoneInv
<1>2. \A p \in entered \cup {Root} : NothingLeft(p)
  BY <1>1, LeftOfPath
<1>3. DOMAIN dirs \subseteq entered
  <2>1. SUFFICES ASSUME NEW q \in DOMAIN dirs \ entered PROVE FALSE
    OBVIOUS
  <2> DEFINE L == {Len(r) : r \in DOMAIN dirs \ entered}
  <2>2. \A r \in DOMAIN dirs : Len(r) \in Nat /\ Len(Front(r)) = Len(r) - 1
    BY SeqFront DEF Typed, DirsOK
  <2>3. L \subseteq Nat /\ L # {}
    BY <2>1, <2>2
  <2>4. PICK m \in L : \A l \in L : m <= l
    <3> HIDE DEF L
    <3>1. IsWellFoundedOn(OpToRel(<, Nat), Nat)
      BY NatLessThanWellFounded
    <3>2. PICK m \in L : \A l \in L : ~(<<l, m>> \in OpToRel(<, Nat))
      BY <2>3, <3>1, WFMin
    <3>3. \A l \in L : ~(l < m)
      BY <2>3, <3>2 DEF OpToRel
    <3> QED BY <2>3, <3>3
  <2>5. PICK r \in DOMAIN dirs \ entered : m = Len(r)
    BY <2>4
  <2>6. Front(r) \in DOMAIN dirs \cup {Root}
    BY DEF Typed, DirsOK
  <2>7. Front(r) \in entered \cup {Root}
    <3>1. CASE Front(r) \in DOMAIN dirs \ entered
      <4>1. Len(Front(r)) \in L
        BY <3>1
      <4> QED BY <2>2, <2>4, <2>5, <4>1
    <3> QED BY <2>6, <3>1
  <2> QED BY <1>2, <2>7 DEF NothingLeft
<1>4. DOMAIN recs \subseteq passed
  <2>1. \A k \in DOMAIN recs : k[1] \in entered \cup {Root}
    BY <1>3 DEF Typed, RecsOK
  <2> QED BY <1>2, <2>1 DEF NothingLeft
<1> QED BY <1>3, <1>4 DEF Typed

-----------------------------------------------------------------------------
(* Loading what was saved                                                  *)

\* The file is from the save that saved is of.
FileIsFrom == whole \/ (why = "reload" /\ quiet /\ pc \in {"loading", "serving"})

FileFrom(at) ==
    /\ Describes(file, at, saved.recs, saved.dirs, whole)
    /\ whole => Has(file, at, DOMAIN saved.recs, DOMAIN saved.dirs)

\* n elements of the file are behind the walk.
AtElement(n) ==
    /\ n \in 0 .. Len(file) /\ Len(rest) = Len(file) - n
    /\ \A i \in 1 .. Len(rest) : rest[i] = file[n + i]

\* A start adds nothing that was not saved, and has added what is kept of the
\* first n elements.
NothingElse ==
    /\ \A k \in DOMAIN recs :
          k \in DOMAIN saved.recs /\ (Kept(saved.recs[k]) => Same(recs[k], saved.recs[k]))
    /\ \A p \in DOMAIN dirs : /\ p \in DOMAIN saved.dirs
                              /\ dirs[p].permission = saved.dirs[p].permission
                              /\ dirs[p].content = saved.dirs[p].content

AddedTo(n, at) ==
    /\ \A i \in 1 .. n :
          file[i].kind = "Record" /\ Kept(saved.recs[<<at[i - 1], file[i].name>>])
            => <<at[i - 1], file[i].name>> \in DOMAIN recs
    /\ \A i \in 1 .. n : file[i].kind = "Folder" => at[i] \in DOMAIN dirs

LoadingFrom(n, at) ==
    /\ AtElement(n) /\ path = at[n]
    /\ why = "start" /\ whole => NothingElse /\ AddedTo(n, at)

FileInv ==
    FileIsFrom => \E at : FileFrom(at) /\ (pc = "loading" => \E n : LoadingFrom(n, at))

\* Nothing has cut the load or save under way, and why it is under way.
UnderWay ==
    /\ pc \in {"loading", "saving"} => cut = "no"
    /\ pc = "loading" => why \in {"start", "reload"} /\ (why = "start" => quiet)
    /\ pc = "saving" => why # "start"

Loads == FileInv /\ UnderWay /\ SavedLoads /\ ReloadKeeps /\ SavesSurvive

LEMMA LoadsInit == Init => Loads
BY DEF Init, Loads, FileInv, FileIsFrom, UnderWay, SavedLoads, ReloadKeeps, SavesSurvive

LEMMA Advance ==
    ASSUME Typed, NEW n, AtElement(n), rest # Root
    PROVE  /\ n + 1 \in 1 .. Len(file) /\ Head(rest) = file[n + 1]
           /\ rest' = Tail(rest) /\ file' = file => AtElement(n + 1)'
<1>1. IsSeq(rest) /\ IsSeq(file)
  BY DEF Typed, DocOK
<1>2. PICK t : t = Tail(rest)
  OBVIOUS
<1>3. /\ Len(rest) \in Nat \ {0} /\ Len(t) = Len(rest) - 1 /\ Head(rest) = rest[1]
      /\ \A i \in 1 .. Len(rest) - 1 : t[i] = rest[i + 1]
  BY <1>1, <1>2, SeqTail
<1>4. Len(file) \in Nat
  BY <1>1, SeqAppend
<1>5. PICK l, r : l = Len(file) /\ r = Len(rest)
  OBVIOUS
<1>6. l \in Nat /\ r \in Nat \ {0} /\ n \in 0 .. l /\ r = l - n
  BY <1>3, <1>4, <1>5 DEF AtElement
<1>7. n + 1 \in 1 .. l /\ 1 \in 1 .. r
  BY <1>6
<1>8. Head(rest) = file[n + 1]
  BY <1>3, <1>5, <1>7 DEF AtElement
<1>9. ASSUME rest' = Tail(rest), file' = file PROVE AtElement(n + 1)'
  <2>1. Len(t) = l - (n + 1) /\ n + 1 \in 0 .. l
    BY <1>3, <1>5, <1>6
  <2>2. ASSUME NEW i \in 1 .. Len(t) PROVE t[i] = file[(n + 1) + i]
    <3>1. i + 1 \in 1 .. r /\ i \in 1 .. r - 1 /\ n + (i + 1) = (n + 1) + i
      BY <1>6, <2>1
    <3>2. t[i] = rest[i + 1] /\ rest[i + 1] = file[n + (i + 1)]
      BY <1>3, <1>5, <3>1 DEF AtElement
    <3> QED BY <3>1, <3>2
  <2> QED BY <1>2, <1>5, <1>9, <2>1, <2>2 DEF AtElement
<1> QED BY <1>5, <1>7, <1>8, <1>9

\* What a record of such a file is.
LEMMA SavedRecord ==
    ASSUME Typed, NEW at, FileFrom(at), NEW n, AtElement(n), path = at[n], Visiting("Record")
    PROVE  LET e == Head(rest)  k == Key(e.name)
           IN  /\ n + 1 \in 1 .. Len(file) /\ e = file[n + 1] /\ at[n + 1] = path /\ Named(e.name)
               /\ k = <<at[n], e.name>>
               /\ k \in DOMAIN saved.recs /\ Fits(saved.recs[k])
               /\ e = addRecordToXMLHandle2(e.name, saved.recs[k])
<1>1. PICK e : e = Head(rest)
  OBVIOUS
<1>2. e.kind = "Record" /\ rest # Root
  BY <1>1 DEF Visiting
<1>3. n + 1 \in 1 .. Len(file) /\ e = file[n + 1]
  BY <1>1, <1>2, Advance
<1>4. n \in Nat
  BY <1>3 DEF AtElement
<1>5. at[n + 1] = path
  <2>1. (n + 1) - 1 = n
    BY <1>4
  <2> QED BY <1>2, <1>3, <2>1 DEF FileFrom, Describes, IsWalk
<1>6. Tells(e, path, saved.recs, saved.dirs, whole)
  <2>1. (n + 1) - 1 = n
    BY <1>4
  <2> QED BY <1>3, <2>1 DEF FileFrom, Describes
<1>7. TellsRecord(e, path, saved.recs)
  BY <1>2, <1>6 DEF Tells, TellsFolder
<1>8. Fits(saved.recs[<<path, e.name>>])
  BY <1>7 DEF TellsRecord, Typed, RecsOK
<1> QED BY <1>1, <1>3, <1>5, <1>7, <1>8 DEF TellsRecord, Key

LEMMA KeptNotSkipped == ASSUME NEW rec, Fits(rec) PROVE rec.value \notin {Skip, Refuse}
<1>1. PICK f : f = TextForm(rec.type, rec.content)
  OBVIOUS
<1>2. f \in Forms /\ Fit(f, rec.value)
  BY <1>1, FormsOfTexts DEF Fits
<1>3. CASE f \in {"string", "binary"}
  BY <1>2, <1>3, TextsHave DEF Fit
<1>4. CASE f \notin {"string", "binary"}
  <2>1. PICK n : rec.value = Value(f, n)
    BY <1>2, <1>4 DEF Fit
  <2>2. rec.value.form \in Forms /\ Skip.form \notin Forms /\ Refuse.form \notin Forms
    BY <1>2, <2>1 DEF Value, Skip, Refuse, Forms
  <2> QED BY <2>2
<1> QED BY <1>3, <1>4

LEMMA LoadsSame ==
    ASSUME NEW rec, Fits(rec), Kept(rec), NEW name, Named(name),
           NEW value \in loadRecordFromXML(addRecordToXMLHandle2(name, rec))
    PROVE  /\ value \notin {Skip, Refuse}
           /\ Same(RecordOf(addRecordToXMLHandle2(name, rec), value), rec)
<1>1. value = rec.value
  <2>1. name # ""
    BY DEF Named
  <2>2. loadRecordFromXML(addRecordToXMLHandle2(name, rec)) = {rec.value}
    BY <2>1, RoundTrip
  <2> QED BY <2>2
<1>2. value \notin {Skip, Refuse}
  BY <1>1, KeptNotSkipped
<1>3. PICK node : node = addRecordToXMLHandle2(name, rec)
  OBVIOUS
<1>4. TypeOf(node) = rec.type /\ getRecordContentTypeFromString(node.content) = rec.content
  BY <1>3, LoadWritten DEF Named
<1>5. Same(RecordOf(node, value), rec)
  BY <1>1, <1>4 DEF Same, RecordOf
<1> QED BY <1>2, <1>3, <1>5

\* A load that is cut leaves what the file says, and what the tree has.
LEMMA LoadsCut ==
    ASSUME Loads, pc = "loading", NEW reason, CutLoad(reason), reason \in {"element", "fault"},
           UNCHANGED <<file, recs, dirs, why, whole, saved, quiet>>,
           reason = "element" /\ whole =>
               \E k \in DOMAIN saved.recs :
                   saved.recs[k].type = "enum" \/ saved.recs[k].value = Value("ips", 0)
    PROVE  Loads'
<1> USE DEF CutLoad
<1>1. FileInv'
  <2>1. \A at : FileFrom(at) => FileFrom(at)'
    BY DEF FileFrom
  <2>2. FileIsFrom' => FileIsFrom
    BY DEF FileIsFrom
  <2> QED BY <2>1, <2>2 DEF Loads, FileInv
<1>2. UnderWay' /\ SavesSurvive'
  BY DEF UnderWay, SavesSurvive
<1>3. SavedLoads'
  BY DEF SavedLoads
<1>4. ReloadKeeps'
  BY DEF Loads, ReloadKeeps, HasKept
<1> QED BY <1>1, <1>2, <1>3, <1>4 DEF Loads

LEMMA LoadsMove ==
    ASSUME Loads, pc = "loading", UNCHANGED <<pc, why, cut, quiet>>, FileInv', ReloadKeeps'
    PROVE  Loads'
BY DEF Loads, UnderWay, SavedLoads, SavesSurvive

\* Of a file that was saved, a record that is kept is neither passed over nor
\* refused, and is added where it was and as it was.
LEMMA LoadsRecord == ASSUME Typed, Loads, LoadRecord PROVE Loads'
<1>1. /\ pc = "loading" /\ rest # Root /\ Visiting("Record")
      /\ UNCHANGED <<file, dirs, why, out, passed, entered, clean, whole, saved, quiet>>
  BY DEF LoadRecord, Visiting
<1>2. PICK e, k : e = Head(rest) /\ k = Key(e.name)
  OBVIOUS
<1>3. ASSUME NEW at, FileFrom(at), NEW n, LoadingFrom(n, at)
      PROVE  /\ n + 1 \in 1 .. Len(file) /\ e = file[n + 1] /\ at[n + 1] = path /\ Named(e.name)
             /\ k = <<at[n], e.name>> /\ k \in DOMAIN saved.recs
             /\ e = addRecordToXMLHandle2(e.name, saved.recs[k]) /\ Fits(saved.recs[k])
             /\ Kept(saved.recs[k]) =>
                  \A value \in loadRecordFromXML(e) :
                      value \notin {Skip, Refuse} /\ Same(RecordOf(e, value), saved.recs[k])
  <2>1. /\ n + 1 \in 1 .. Len(file) /\ e = file[n + 1] /\ at[n + 1] = path /\ Named(e.name)
        /\ k = <<at[n], e.name>> /\ k \in DOMAIN saved.recs
        /\ e = addRecordToXMLHandle2(e.name, saved.recs[k]) /\ Fits(saved.recs[k])
    BY <1>1, <1>2, <1>3, SavedRecord DEF LoadingFrom
  <2>2. PICK rec, name : rec = saved.recs[k] /\ name = e.name
    OBVIOUS
  <2>3. ASSUME Kept(rec), NEW value \in loadRecordFromXML(e)
        PROVE  value \notin {Skip, Refuse} /\ Same(RecordOf(e, value), rec)
    <3>1. e = addRecordToXMLHandle2(name, rec) /\ Fits(rec) /\ Named(name)
      BY <2>1, <2>2
    <3> QED BY <2>3, <3>1, LoadsSame
  <2> QED BY <2>1, <2>2, <2>3
<1>4. ASSUME FileIsFrom PROVE \E at, n : FileFrom(at) /\ LoadingFrom(n, at)
  BY <1>1, <1>4 DEF Loads, FileInv
<1>5. \A at : FileFrom(at) => FileFrom(at)'
  BY <1>1 DEF FileFrom
<1>6. ASSUME NEW value \in loadRecordFromXML(e) \ {Skip, Refuse},
             recs' = With(recs, k, RecordOf(e, value)), rest' = Tail(rest), UNCHANGED <<pc, path, cut>>
      PROVE  Loads'
  <2>1. PICK new : new = RecordOf(e, value)
    OBVIOUS
  <2>2. /\ DOMAIN recs' = DOMAIN recs \cup {k} /\ recs'[k] = new
        /\ \A j \in DOMAIN recs \ {k} : recs'[j] = recs[j]
    BY <1>6, <2>1 DEF With
  <2>3. FileInv'
    <3>1. SUFFICES ASSUME FileIsFrom' PROVE \E at, n : (FileFrom(at) /\ LoadingFrom(n, at))'
      BY DEF FileInv
    <3>2. FileIsFrom
      BY <1>1, <1>6, <3>1 DEF FileIsFrom
    <3>3. PICK at, n : FileFrom(at) /\ LoadingFrom(n, at)
      BY <1>4, <3>2
    <3>4. AtElement(n + 1)' /\ path' = at[n + 1]
      BY <1>1, <1>3, <1>6, <3>3, Advance DEF LoadingFrom
    <3>5. ASSUME why' = "start", whole' PROVE NothingElse' /\ AddedTo(n + 1, at)'
      <4>1. NothingElse /\ AddedTo(n, at)
        BY <1>1, <3>3, <3>5 DEF LoadingFrom
      <4>2. Kept(saved.recs[k]) => Same(new, saved.recs[k])
        BY <1>3, <2>1, <3>3
      <4>3. NothingElse'
        BY <1>1, <1>3, <2>2, <3>3, <4>1, <4>2 DEF NothingElse
      <4>4. AddedTo(n + 1, at)'
        <5>1. n \in Nat /\ (n + 1) - 1 = n
          BY <3>3 DEF LoadingFrom, AtElement
        <5>2. \A i \in 1 .. n + 1 : i \in 1 .. n \/ i = n + 1
          BY <5>1
        <5>3. e.kind = "Record"
          BY <1>1, <1>2 DEF Visiting
        <5> QED BY <1>1, <1>3, <2>2, <3>3, <4>1, <5>1, <5>2, <5>3 DEF AddedTo
      <4> QED BY <4>3, <4>4
    <3>6. LoadingFrom(n + 1, at)'
      BY <3>4, <3>5 DEF LoadingFrom
    <3> QED BY <1>5, <3>3, <3>6
  <2>4. ReloadKeeps'
    <3>1. SUFFICES ASSUME why = "reload", quiet
                   PROVE  HasKept(recs') /\ DOMAIN recs' = DOMAIN saved.recs /\ dirs = saved.dirs
      BY <1>1, <1>6 DEF ReloadKeeps, HasKept
    <3>2. HasKept(recs) /\ DOMAIN recs = DOMAIN saved.recs /\ dirs = saved.dirs
      BY <1>1, <3>1 DEF Loads, ReloadKeeps
    <3>3. PICK at, n : FileFrom(at) /\ LoadingFrom(n, at)
      BY <1>1, <1>4, <3>1 DEF FileIsFrom
    <3>4. k \in DOMAIN saved.recs /\ (Kept(saved.recs[k]) => Same(new, saved.recs[k]))
      BY <1>3, <2>1, <3>3
    <3> QED BY <2>2, <3>2, <3>4 DEF HasKept
  <2> QED BY <1>1, <1>6, <2>3, <2>4, LoadsMove
<1>7. ASSUME Skip \in loadRecordFromXML(e), rest' = Tail(rest), UNCHANGED <<recs, pc, path, cut>>
      PROVE  Loads'
  <2>1. FileInv'
    <3>1. SUFFICES ASSUME FileIsFrom' PROVE \E at, n : (FileFrom(at) /\ LoadingFrom(n, at))'
      BY DEF FileInv
    <3>2. FileIsFrom
      BY <1>1, <1>7, <3>1 DEF FileIsFrom
    <3>3. PICK at, n : FileFrom(at) /\ LoadingFrom(n, at)
      BY <1>4, <3>2
    <3>4. AtElement(n + 1)' /\ path' = at[n + 1]
      BY <1>1, <1>3, <1>7, <3>3, Advance DEF LoadingFrom
    <3>5. ASSUME why' = "start", whole' PROVE NothingElse' /\ AddedTo(n + 1, at)'
      <4>1. NothingElse /\ AddedTo(n, at)
        BY <1>1, <3>3, <3>5 DEF LoadingFrom
      <4>2. ~Kept(saved.recs[k])
        BY <1>3, <1>7, <3>3
      <4>3. NothingElse'
        BY <1>1, <1>7, <4>1 DEF NothingElse
      <4>4. AddedTo(n + 1, at)'
        <5>1. n \in Nat /\ (n + 1) - 1 = n
          BY <3>3 DEF LoadingFrom, AtElement
        <5>2. \A i \in 1 .. n + 1 : i \in 1 .. n \/ i = n + 1
          BY <5>1
        <5>3. e.kind = "Record"
          BY <1>1, <1>2 DEF Visiting
        <5> QED BY <1>1, <1>3, <1>7, <3>3, <4>1, <4>2, <5>1, <5>2, <5>3 DEF AddedTo
      <4> QED BY <4>3, <4>4
    <3>6. LoadingFrom(n + 1, at)'
      BY <3>4, <3>5 DEF LoadingFrom
    <3> QED BY <1>5, <3>3, <3>6
  <2>2. ReloadKeeps'
    BY <1>1, <1>7 DEF Loads, ReloadKeeps, HasKept
  <2> QED BY <1>1, <1>7, <2>1, <2>2, LoadsMove
<1>8. ASSUME Refuse \in loadRecordFromXML(e), CutLoad("element"), UNCHANGED recs
      PROVE  Loads'
  <2>1. ASSUME whole
        PROVE  \E j \in DOMAIN saved.recs :
                   saved.recs[j].type = "enum" \/ saved.recs[j].value = Value("ips", 0)
    <3>1. PICK at, n : FileFrom(at) /\ LoadingFrom(n, at)
      BY <1>4, <2>1 DEF FileIsFrom
    <3>2. PICK rec, name : rec = saved.recs[k] /\ name = e.name
      OBVIOUS
    <3>3. e = addRecordToXMLHandle2(name, rec) /\ Fits(rec) /\ name # ""
      BY <1>3, <3>1, <3>2 DEF Named
    <3>4. rec.type = "enum" \/ rec.value = Value("ips", 0)
      BY <1>8, <3>3, RefusedWritten
    <3> QED BY <1>3, <3>1, <3>2, <3>4
  <2> QED BY <1>1, <1>8, <2>1, LoadsCut
<1> QED BY <1>2, <1>6, <1>7, <1>8 DEF LoadRecord

\* What a folder of such a file is.
LEMMA SavedFolder ==
    ASSUME Typed, NEW at, FileFrom(at), NEW n, AtElement(n), path = at[n], Visiting("Folder")
    PROVE  LET e == Head(rest)  q == Append(path, e.name)
           IN  /\ n + 1 \in 1 .. Len(file) /\ e = file[n + 1] /\ at[n + 1] = q
               /\ TellsFolder(e, path, saved.dirs, whole)
               /\ q \in DOMAIN saved.dirs /\ AttributesOK(saved.dirs[q]) /\ Named(e.name)
<1>1. PICK e : e = Head(rest)
  OBVIOUS
<1>2. e.kind = "Folder" /\ rest # Root
  BY <1>1 DEF Visiting
<1>3. n + 1 \in 1 .. Len(file) /\ e = file[n + 1]
  BY <1>1, <1>2, Advance
<1>4. (n + 1) - 1 = n
  BY <1>3 DEF AtElement
<1>5. at[n + 1] = Append(path, e.name)
  BY <1>2, <1>3, <1>4 DEF FileFrom, Describes, IsWalk
<1>6. Tells(e, path, saved.recs, saved.dirs, whole)
  BY <1>3, <1>4 DEF FileFrom, Describes
<1>7. TellsFolder(e, path, saved.dirs, whole)
  BY <1>2, <1>6 DEF Tells, TellsRecord
<1>8. Append(path, e.name) \in DOMAIN saved.dirs /\ Named(e.name)
  BY <1>7 DEF TellsFolder
<1>9. AttributesOK(saved.dirs[Append(path, e.name)])
  BY <1>8 DEF Typed, DirsOK
<1> QED BY <1>1, <1>3, <1>5, <1>7, <1>8, <1>9

\* The attributes of an element that a save wrote change nothing of a folder
\* that has them; when all were written, they make a new folder have them.
LEMMA AttributesStay ==
    ASSUME NEW e, NEW a, AttributesOK(a), e.type = "",
           e.permission = "" \/ e.permission = a.permission,
           e.content = "" \/ e.content = a.content
    PROVE  AttributesAfter(a, e) = a
<1>1. "" \notin FolderTypes /\ "" \notin FolderContents
  BY DEF FolderTypes, FolderContents
<1> QED BY <1>1 DEF AttributesAfter, AttributesOK

LEMMA AttributesMade ==
    ASSUME NEW e, NEW a, AttributesOK(a), NEW old,
           e.permission = "" \/ e.permission = a.permission, e.content = a.content,
           e.permission = "" => a.permission = "all",
           \/ old = NoAttributes
           \/ old.permission = a.permission /\ old.content = a.content
    PROVE  /\ AttributesAfter(old, e).permission = a.permission
           /\ AttributesAfter(old, e).content = a.content
<1>1. a.content \in FolderContents \/ a.content = ""
  BY DEF AttributesOK
<1>2. NoAttributes.permission = "all" /\ NoAttributes.content = ""
  BY DEF NoAttributes
<1>3. AttributesAfter(old, e).permission = IF e.permission = "" THEN old.permission ELSE e.permission
  BY DEF AttributesAfter
<1>4. AttributesAfter(old, e).content = IF e.content \in FolderContents THEN e.content ELSE old.content
  BY DEF AttributesAfter
<1>5. AttributesAfter(old, e).permission = a.permission
  BY <1>2, <1>3
<1>6. AttributesAfter(old, e).content = a.content
  BY <1>1, <1>2, <1>4
<1> QED BY <1>5, <1>6

LEMMA LoadsFolder == ASSUME Typed, Loads, LoadFolder PROVE Loads'
<1>1. /\ pc = "loading" /\ rest # Root /\ Visiting("Folder")
      /\ UNCHANGED <<file, recs, why, out, passed, entered, clean, whole, saved, quiet>>
  BY DEF LoadFolder, Visiting
<1>2. PICK e, q : e = Head(rest) /\ q = Append(path, e.name)
  OBVIOUS
<1>3. PICK old : old = IF q \in DOMAIN dirs THEN dirs[q] ELSE NoAttributes
  OBVIOUS
<1>4. ASSUME NEW at, FileFrom(at), NEW n, LoadingFrom(n, at)
      PROVE  /\ n + 1 \in 1 .. Len(file) /\ e = file[n + 1] /\ at[n + 1] = q /\ e.kind = "Folder"
             /\ Named(e.name) /\ q \in DOMAIN saved.dirs /\ AttributesOK(saved.dirs[q])
             /\ TellsFolder(e, path, saved.dirs, whole)
  BY <1>1, <1>2, <1>4, SavedFolder DEF LoadingFrom, Visiting
<1>5. ASSUME FileIsFrom PROVE \E at, n : FileFrom(at) /\ LoadingFrom(n, at)
  BY <1>1, <1>5 DEF Loads, FileInv
<1>6. \A at : FileFrom(at) => FileFrom(at)'
  BY <1>1 DEF FileFrom
<1>7. ASSUME e.name # "", dirs' = With(dirs, q, AttributesAfter(old, e)), path' = q,
             rest' = Tail(rest), UNCHANGED <<pc, cut>>
      PROVE  Loads'
  <2>1. PICK new : new = AttributesAfter(old, e)
    OBVIOUS
  <2>2. /\ DOMAIN dirs' = DOMAIN dirs \cup {q} /\ dirs'[q] = new
        /\ \A j \in DOMAIN dirs \ {q} : dirs'[j] = dirs[j]
        /\ IsMap(dirs')
    BY <1>7, <2>1 DEF With, IsMap
  <2>3. FileInv'
    <3>1. SUFFICES ASSUME FileIsFrom' PROVE \E at, n : (FileFrom(at) /\ LoadingFrom(n, at))'
      BY DEF FileInv
    <3>2. FileIsFrom
      BY <1>1, <1>7, <3>1 DEF FileIsFrom
    <3>3. PICK at, n : FileFrom(at) /\ LoadingFrom(n, at)
      BY <1>5, <3>2
    <3>4. AtElement(n + 1)' /\ path' = at[n + 1]
      BY <1>1, <1>4, <1>7, <3>3, Advance DEF LoadingFrom
    <3>5. ASSUME why' = "start", whole' PROVE NothingElse' /\ AddedTo(n + 1, at)'
      <4>1. NothingElse /\ AddedTo(n, at) /\ whole
        BY <1>1, <3>3, <3>5 DEF LoadingFrom
      <4>2. PICK a : a = saved.dirs[q]
        OBVIOUS
      <4>3. /\ AttributesOK(a) /\ (e.permission = "" \/ e.permission = a.permission)
            /\ e.content = a.content /\ (e.permission = "" => a.permission = "all")
        BY <1>2, <1>4, <3>3, <4>1, <4>2 DEF TellsFolder
      <4>4. old = NoAttributes \/ (old.permission = a.permission /\ old.content = a.content)
        BY <1>3, <4>1, <4>2 DEF NothingElse
      <4>5. new.permission = a.permission /\ new.content = a.content
        <5>1. /\ AttributesAfter(old, e).permission = a.permission
              /\ AttributesAfter(old, e).content = a.content
          BY <4>3, <4>4, AttributesMade
        <5> QED BY <2>1, <5>1
      <4>6. NothingElse'
        BY <1>1, <1>4, <2>2, <3>3, <4>1, <4>2, <4>5 DEF NothingElse
      <4>7. AddedTo(n + 1, at)'
        <5>1. n \in Nat /\ (n + 1) - 1 = n
          BY <3>3 DEF LoadingFrom, AtElement
        <5>2. \A i \in 1 .. n + 1 : i \in 1 .. n \/ i = n + 1
          BY <5>1
        <5>3. e = file[n + 1] /\ e.kind = "Folder" /\ at[n + 1] = q
          BY <1>4, <3>3
        <5>4. q \in DOMAIN dirs' /\ DOMAIN dirs \subseteq DOMAIN dirs'
          BY <2>2
        <5>5. \A i \in 1 .. n + 1 : file[i].kind = "Folder" => at[i] \in DOMAIN dirs'
          BY <4>1, <5>1, <5>2, <5>3, <5>4 DEF AddedTo
        <5>6. \A i \in 1 .. n + 1 : file[i].kind = "Record" => i \in 1 .. n
          BY <5>2, <5>3
        <5> QED BY <1>1, <4>1, <5>5, <5>6 DEF AddedTo
      <4> QED BY <4>6, <4>7
    <3>6. LoadingFrom(n + 1, at)'
      BY <3>4, <3>5 DEF LoadingFrom
    <3> QED BY <1>6, <3>3, <3>6
  <2>4. ReloadKeeps'
    <3>1. SUFFICES ASSUME why = "reload", quiet
                   PROVE  HasKept(recs) /\ DOMAIN recs = DOMAIN saved.recs /\ dirs' = saved.dirs
      BY <1>1, <1>7 DEF ReloadKeeps, HasKept
    <3>2. HasKept(recs) /\ DOMAIN recs = DOMAIN saved.recs /\ dirs = saved.dirs
      BY <1>1, <3>1 DEF Loads, ReloadKeeps
    <3>3. PICK at, n : FileFrom(at) /\ LoadingFrom(n, at)
      BY <1>1, <1>5, <3>1 DEF FileIsFrom
    <3>4. q \in DOMAIN dirs /\ AttributesOK(dirs[q]) /\ old = dirs[q]
      BY <1>3, <1>4, <3>2, <3>3
    <3>5. /\ e.type = "" /\ (e.permission = "" \/ e.permission = old.permission)
          /\ (e.content = "" \/ e.content = old.content)
      BY <1>2, <1>4, <3>2, <3>3, <3>4 DEF TellsFolder
    <3>6. new = old
      BY <2>1, <3>4, <3>5, AttributesStay
    <3>7. dirs' = dirs
      <4>1. IsMap(dirs) /\ DOMAIN dirs' = DOMAIN dirs /\ \A j \in DOMAIN dirs : dirs'[j] = dirs[j]
        BY <2>2, <3>4, <3>6 DEF Typed, DirsOK
      <4> QED BY <2>2, <4>1 DEF IsMap
    <3> QED BY <3>2, <3>7
  <2> QED BY <1>1, <1>7, <2>3, <2>4, LoadsMove
<1>8. ASSUME e.name = "", CutLoad("element"), UNCHANGED dirs
      PROVE  Loads'
  <2>1. ~whole
    <3>1. SUFFICES ASSUME whole PROVE FALSE
      OBVIOUS
    <3>2. PICK at, n : FileFrom(at) /\ LoadingFrom(n, at)
      BY <1>5, <3>1 DEF FileIsFrom
    <3> QED BY <1>4, <1>8, <3>2 DEF Named
  <2> QED BY <1>1, <1>8, <2>1, LoadsCut
<1> QED BY <1>2, <1>3, <1>7, <1>8 DEF LoadFolder

LEMMA LoadsFail == ASSUME Loads, FailAdd PROVE Loads'
BY LoadsCut DEF FailAdd, Visiting

LEMMA LoadsEndFolder == ASSUME Typed, Loads, EndFolder PROVE Loads'
<1>1. /\ pc = "loading" /\ rest # Root /\ Head(rest).kind = "EndFolder"
      /\ rest' = Tail(rest) /\ path' = Front(path)
      /\ UNCHANGED <<file, recs, dirs, pc, why, cut, whole, saved, quiet>>
  BY DEF EndFolder, Visiting, history
<1>2. FileInv'
  <2>1. SUFFICES ASSUME FileIsFrom' PROVE \E at, n : (FileFrom(at) /\ LoadingFrom(n, at))'
    BY DEF FileInv
  <2>2. PICK at, n : FileFrom(at) /\ LoadingFrom(n, at)
    BY <1>1, <2>1 DEF FileIsFrom, Loads, FileInv
  <2>3. FileFrom(at)'
    BY <1>1, <2>2 DEF FileFrom
  <2>4. AtElement(n + 1)' /\ n + 1 \in 1 .. Len(file) /\ Head(rest) = file[n + 1]
    BY <1>1, <2>2, Advance DEF LoadingFrom
  <2>5. n \in Nat /\ (n + 1) - 1 = n
    BY <2>2 DEF LoadingFrom, AtElement
  <2>6. path' = at[n + 1]
    BY <1>1, <2>2, <2>4, <2>5 DEF FileFrom, Describes, IsWalk, LoadingFrom
  <2>7. ASSUME why' = "start", whole' PROVE NothingElse' /\ AddedTo(n + 1, at)'
    <3>1. NothingElse /\ AddedTo(n, at)
      BY <1>1, <2>2, <2>7 DEF LoadingFrom
    <3>2. NothingElse'
      BY <1>1, <3>1 DEF NothingElse
    <3>3. \A i \in 1 .. n + 1 : i \in 1 .. n \/ i = n + 1
      BY <2>5
    <3> QED BY <1>1, <2>4, <3>1, <3>2, <3>3 DEF AddedTo
  <2> QED BY <2>3, <2>4, <2>6, <2>7 DEF LoadingFrom
<1>3. ReloadKeeps'
  BY <1>1 DEF Loads, ReloadKeeps, HasKept
<1> QED BY <1>1, <1>2, <1>3, LoadsMove

LEMMA LoadsEnd == ASSUME Typed, Loads, EndLoad PROVE Loads'
<1>1. /\ pc = "loading" /\ rest = Root /\ pc' = "serving"
      /\ UNCHANGED <<file, recs, dirs, why, cut, whole, saved, quiet>>
  BY DEF EndLoad, history
<1>2. FileInv'
  <2>1. \A at : FileFrom(at) => FileFrom(at)'
    BY <1>1 DEF FileFrom
  <2> QED BY <1>1, <2>1 DEF Loads, FileInv, FileIsFrom
<1>3. UnderWay' /\ SavedLoads' /\ ReloadKeeps'
  BY <1>1 DEF Loads, UnderWay, SavedLoads, ReloadKeeps, HasKept
<1>4. SavesSurvive'
  <2>1. SUFFICES ASSUME why = "start", whole
                 PROVE  /\ HasKept(recs) /\ DOMAIN recs \subseteq DOMAIN saved.recs
                        /\ DOMAIN dirs = DOMAIN saved.dirs
                        /\ \A p \in DOMAIN dirs : /\ dirs[p].permission = saved.dirs[p].permission
                                                  /\ dirs[p].content = saved.dirs[p].content
    BY <1>1 DEF SavesSurvive, HasKept
  <2>2. PICK at, n : FileFrom(at) /\ LoadingFrom(n, at)
    BY <1>1, <2>1 DEF FileIsFrom, Loads, FileInv
  <2>3. n = Len(file)
    <3>1. Len(rest) = 0 /\ Len(rest) = Len(file) - n /\ n \in 0 .. Len(file)
      BY <1>1, <2>2, SeqEmpty DEF LoadingFrom, AtElement
    <3>2. Len(file) \in Nat
      BY SeqAppend DEF Typed, DocOK
    <3> QED BY <3>1, <3>2
  <2>4. NothingElse /\ AddedTo(Len(file), at)
    BY <2>1, <2>2, <2>3 DEF LoadingFrom
  <2>5. Has(file, at, DOMAIN saved.recs, DOMAIN saved.dirs)
    BY <2>1, <2>2 DEF FileFrom
  <2>6. \A k \in DOMAIN saved.recs : Kept(saved.recs[k]) => k \in DOMAIN recs
    BY <2>4, <2>5 DEF AddedTo, Has
  <2>7. \A p \in DOMAIN saved.dirs : p \in DOMAIN dirs
    BY <2>4, <2>5 DEF AddedTo, Has
  <2> QED BY <2>4, <2>6, <2>7 DEF NothingElse, HasKept
<1> QED BY <1>2, <1>3, <1>4 DEF Loads

\* A walk that begins at the first element.
LEMMA BeginsAt ==
    ASSUME NEW at, FileFrom(at)', Typed', rest' = file', path' = Root,
           why' = "start" => DOMAIN recs' = {} /\ DOMAIN dirs' = {}
    PROVE  LoadingFrom(0, at)'
<1>1. at[0] = Root
  BY DEF FileFrom, Describes, IsWalk
<1>2. Len(file') \in Nat
  BY SeqAppend DEF Typed, DocOK
<1>3. AtElement(0)'
  BY <1>2 DEF AtElement
<1>4. why' = "start" => NothingElse' /\ AddedTo(0, at)'
  BY DEF NothingElse, AddedTo
<1> QED BY <1>1, <1>3, <1>4 DEF LoadingFrom

LEMMA LoadsStart == ASSUME Typed, Typed', Loads, Start PROVE Loads'
<1>1. /\ pc' = "loading" /\ why' = "start" /\ rest' = file /\ path' = Root /\ cut' = "no"
      /\ DOMAIN recs' = {} /\ DOMAIN dirs' = {} /\ quiet' = TRUE
      /\ UNCHANGED <<file, whole, saved>>
  BY EmptyTree DEF Start, BeginLoad
<1>2. FileInv'
  <2>1. SUFFICES ASSUME FileIsFrom' PROVE \E at, n : (FileFrom(at) /\ LoadingFrom(n, at))'
    BY DEF FileInv
  <2>2. PICK at : FileFrom(at)
    BY <1>1, <2>1 DEF FileIsFrom, Loads, FileInv
  <2>3. FileFrom(at)'
    BY <1>1, <2>2 DEF FileFrom
  <2> QED BY <1>1, <2>3, BeginsAt
<1>3. UnderWay' /\ SavedLoads' /\ ReloadKeeps' /\ SavesSurvive'
  BY <1>1 DEF UnderWay, SavedLoads, ReloadKeeps, SavesSurvive
<1> QED BY <1>2, <1>3 DEF Loads

\* Whatever leaves the file as it is, loads nothing, and does not claim that
\* the tree is what was loaded.
LEMMA LoadsElse ==
    ASSUME Loads, UNCHANGED <<file, whole, saved>>,
           cut' = cut \/ cut' = "no", pc' # "loading", pc' = "saving" => cut' = "no" /\ why' # "start",
           pc' # "serving" \/ ~quiet'
    PROVE  Loads'
<1>1. FileInv'
  <2>1. \A at : FileFrom(at) => FileFrom(at)'
    BY DEF FileFrom
  <2> QED BY <2>1 DEF Loads, FileInv, FileIsFrom
<1>2. UnderWay' /\ ReloadKeeps' /\ SavesSurvive'
  BY DEF UnderWay, ReloadKeeps, SavesSurvive
<1>3. SavedLoads'
  BY DEF Loads, SavedLoads
<1> QED BY <1>1, <1>2, <1>3 DEF Loads

LEMMA LoadsBus ==
    ASSUME Loads, NEW name \in Names,
           DelRecord(name) \/ \E v \in BusValues : SetRecord(name, v)
    PROVE  Loads'
BY LoadsElse DEF DelRecord, SetRecord, Loads

LEMMA LoadsSaving ==
    ASSUME Loads, (\E reason \in {"flush", "reload"} : BeginSave(reason)) \/ SaveRecord \/ SaveFolder
                  \/ LeaveFolder \/ Stop
    PROVE  Loads'
<1>1. pc = "saving" => cut = "no" /\ why # "start"
  BY DEF Loads, UnderWay
<1>2. CASE \E reason \in {"flush", "reload"} : BeginSave(reason)
  BY <1>2, LoadsElse DEF BeginSave
<1>3. CASE SaveRecord
  BY <1>1, <1>3, LoadsElse DEF SaveRecord
<1>4. CASE SaveFolder
  BY <1>1, <1>4, LoadsElse DEF SaveFolder
<1>5. CASE LeaveFolder
  BY <1>1, <1>5, LoadsElse DEF LeaveFolder, history
<1>6. CASE Stop
  BY <1>6, LoadsElse DEF Stop
<1> QED BY <1>2, <1>3, <1>4, <1>5, <1>6

\* What follows a save, whether the file is the new one or the old one.
LEMMA LoadsAfterSave ==
    ASSUME Typed, Typed', Loads, pc = "saving", AfterSave,
           FileIsFrom' => \E at : FileFrom(at)',
           quiet' => /\ saved' = [recs |-> recs, dirs |-> dirs]
                     /\ UNCHANGED <<recs, dirs>>
    PROVE  Loads'
<1>1. cut = "no" /\ why # "start"
  BY DEF Loads, UnderWay
<1>2. /\ cut' = "no" /\ path' = Root /\ why' = why
      /\ \/ why = "reload" /\ pc' = "loading" /\ rest' = file'
         \/ why # "reload" /\ pc' = "serving"
  BY <1>1 DEF AfterSave, BeginLoad
<1>3. FileInv'
  <2>1. SUFFICES ASSUME FileIsFrom' PROVE \E at : FileFrom(at)' /\ (pc' = "loading" => \E n : LoadingFrom(n, at)')
    BY DEF FileInv
  <2>2. PICK at : FileFrom(at)'
    BY <2>1
  <2>3. pc' = "loading" => LoadingFrom(0, at)'
    BY <1>2, <2>2, BeginsAt
  <2> QED BY <2>2, <2>3
<1>4. UnderWay' /\ SavedLoads'
  BY <1>2 DEF UnderWay, SavedLoads
<1>5. ReloadKeeps'
  BY <1>2 DEF ReloadKeeps, HasKept, Same
<1>6. SavesSurvive'
  BY <1>1, <1>2 DEF SavesSurvive
<1> QED BY <1>3, <1>4, <1>5, <1>6 DEF Loads

LEMMA LoadsEndSave == ASSUME Typed, Typed', Loads, SaveInv, DoneInv, EndSave PROVE Loads'
<1>1. /\ pc = "saving" /\ RecordsLeft = {} /\ FoldersLeft = {} /\ path = Root
      /\ file' = out /\ whole' = clean /\ saved' = [recs |-> recs, dirs |-> dirs]
      /\ UNCHANGED <<recs, dirs>> /\ AfterSave
  BY DEF EndSave
<1>2. PICK at : SavingFrom(at)
  BY <1>1 DEF SaveInv
<1>3. saved'.recs = recs /\ saved'.dirs = dirs
  BY <1>1
<1>4. clean => passed = DOMAIN recs /\ entered = DOMAIN dirs
  BY <1>1, AllWritten
<1>5. FileFrom(at)'
  BY <1>1, <1>2, <1>3, <1>4 DEF FileFrom, SavingFrom
<1> QED BY <1>1, <1>5, LoadsAfterSave

LEMMA LoadsFailSave == ASSUME Typed, Typed', Loads, FailSave PROVE Loads'
<1>1. /\ pc = "saving" /\ UNCHANGED <<file, whole, saved>> /\ quiet' = FALSE /\ AfterSave
  BY DEF FailSave
<1>2. \A at : FileFrom(at) => FileFrom(at)'
  BY <1>1 DEF FileFrom
<1>3. FileIsFrom' => FileIsFrom
  BY <1>1 DEF FileIsFrom
<1>4. FileIsFrom' => \E at : FileFrom(at)'
  BY <1>2, <1>3 DEF Loads, FileInv
<1> QED BY <1>1, <1>4, LoadsAfterSave

LEMMA LoadsStay == ASSUME Loads, UNCHANGED vars PROVE Loads'
<1>1. UNCHANGED <<file, recs, dirs, pc, why, rest, path, cut, whole, saved, quiet>>
  BY DEF vars
<1>2. \A at : FileFrom(at) => FileFrom(at)'
  BY <1>1 DEF FileFrom
<1>3. \A n, at : LoadingFrom(n, at) => LoadingFrom(n, at)'
  BY <1>1 DEF LoadingFrom, AtElement, NothingElse, AddedTo
<1>4. FileInv'
  BY <1>1, <1>2, <1>3 DEF Loads, FileInv, FileIsFrom
<1>5. UnderWay' /\ SavedLoads' /\ ReloadKeeps' /\ SavesSurvive'
  BY <1>1 DEF Loads, UnderWay, SavedLoads, ReloadKeeps, SavesSurvive, HasKept
<1> QED BY <1>4, <1>5 DEF Loads

-----------------------------------------------------------------------------
(* Theorems                                                                *)

Inv == Typed /\ SaveInv /\ DoneInv /\ Loads

LEMMA InvInit == Init => Inv
<1> SUFFICES ASSUME Init PROVE Inv
  OBVIOUS
<1>1. SaveInv /\ DoneInv
  BY DEF Init, SaveInv, DoneInv
<1> QED BY <1>1, TypedInit, LoadsInit DEF Inv

\* Steps that are not of a save.
LEMMA NotSaving == ASSUME pc' # "saving" PROVE SaveInv' /\ DoneInv'
BY DEF SaveInv, DoneInv

LEMMA InvStep == ASSUME Inv, [Next]_vars PROVE Inv'
<1>1. Typed /\ Typed' /\ SaveInv /\ DoneInv /\ Loads
  BY TypedStep DEF Inv
<1> SUFFICES SaveInv' /\ DoneInv' /\ Loads'
  BY <1>1 DEF Inv
<1>2. CASE Start
  <2>1. pc' # "saving"
    BY <1>2 DEF Start, BeginLoad
  <2> QED BY <1>1, <1>2, <2>1, NotSaving, LoadsStart
<1>3. CASE LoadRecord \/ LoadFolder \/ FailAdd \/ EndFolder \/ EndLoad
  <2>1. pc' # "saving"
    BY <1>3 DEF LoadRecord, LoadFolder, FailAdd, EndFolder, EndLoad, Visiting, CutLoad
  <2> QED BY <1>1, <1>3, <2>1, NotSaving, LoadsRecord, LoadsFolder, LoadsFail, LoadsEndFolder, LoadsEnd
<1>4. CASE \E name \in Names : DelRecord(name) \/ \E v \in BusValues : SetRecord(name, v)
  <2>1. pc' # "saving"
    BY <1>4 DEF DelRecord, SetRecord
  <2> QED BY <1>1, <1>4, <2>1, NotSaving, LoadsBus
<1>5. CASE \E reason \in {"flush", "reload"} : BeginSave(reason)
  BY <1>1, <1>5, SaveInvBegin, DoneInvBegin, LoadsSaving
<1>6. CASE SaveRecord
  BY <1>1, <1>6, SaveInvRecord, DoneInvRecord, LoadsSaving
<1>7. CASE SaveFolder
  BY <1>1, <1>7, SaveInvFolder, DoneInvFolder, LoadsSaving
<1>8. CASE LeaveFolder
  BY <1>1, <1>8, SaveInvLeave, DoneInvLeave, LoadsSaving
<1>9. CASE EndSave \/ FailSave
  <2>1. pc' # "saving"
    BY <1>9 DEF EndSave, FailSave, AfterSave, BeginLoad
  <2> QED BY <1>1, <1>9, <2>1, NotSaving, LoadsEndSave, LoadsFailSave
<1>10. CASE Stop
  <2>1. pc' # "saving"
    BY <1>10 DEF Stop
  <2> QED BY <1>1, <1>10, <2>1, NotSaving, LoadsSaving
<1>11. CASE UNCHANGED vars
  <2>1. SaveInv' /\ DoneInv'
    BY <1>1, <1>11 DEF SaveInv, DoneInv, SavingFrom, NothingLeft, vars
  <2> QED BY <1>1, <1>11, <2>1, LoadsStay
<1>12. CASE LoadOther
  BY <1>11, <1>12 DEF LoadOther
<1> QED BY <1>2, <1>3, <1>4, <1>5, <1>6, <1>7, <1>8, <1>9, <1>10, <1>11, <1>12 DEF Next

LEMMA Always == Spec => []Inv
BY InvInit, InvStep, PTL DEF Spec

\* What a save wrote without a failure is what the next start finds: every
\* record that a save keeps, in its folder, and nothing else; for trees of any
\* depth, whatever the names and the values.
THEOREM Survive == Spec => []SavesSurvive
<1>1. Inv => SavesSurvive
  BY DEF Inv, Loads
<1> QED BY <1>1, Always, PTL

\* Only an enum record or an empty list of addresses can stop the load of a
\* file that was saved without a failure.
THEOREM LoadsBack == Spec => []SavedLoads
<1>1. Inv => SavedLoads
  BY DEF Inv, Loads
<1> QED BY <1>1, Always, PTL

\* A reload changes nothing of the tree, wherever it is cut and whatever was
\* lost in its save.
THEOREM ReloadIsInert == Spec => []ReloadKeeps
<1>1. Inv => ReloadKeeps
  BY DEF Inv, Loads
<1> QED BY <1>1, Always, PTL

-----------------------------------------------------------------------------
(* The nesting of a document                                               *)

\* A count over one more element.
LEMMA CountStep ==
    ASSUME NEW doc, NEW kind, NEW o \in Nat, NEW m \in Nat, o <= m + 1
    PROVE  /\ Count(doc, kind, o, m) \in Nat
           /\ m < o => Count(doc, kind, o, m) = 0
           /\ Count(doc, kind, o, m + 1)
                = IF doc[m + 1].kind = kind THEN Count(doc, kind, o, m) + 1 ELSE Count(doc, kind, o, m)
<1> DEFINE Of(to) == {x \in o .. to : doc[x].kind = kind}
<1>1. IsFiniteSet(Of(m)) /\ Cardinality(Of(m)) \in Nat
  <2>1. IsFiniteSet(o .. m)
    BY FS_Interval
  <2>2. Of(m) \in SUBSET (o .. m)
    OBVIOUS
  <2> QED BY <2>1, <2>2, FS_Subset, FS_CardinalityType
<1>2. m < o => Of(m) = {}
  OBVIOUS
<1>3. doc[m + 1].kind = kind => Of(m + 1) = Of(m) \cup {m + 1}
  OBVIOUS
<1>4. doc[m + 1].kind # kind => Of(m + 1) = Of(m)
  OBVIOUS
<1>5. m + 1 \notin Of(m)
  OBVIOUS
<1>6. Count(doc, kind, o, m) = Cardinality(Of(m)) /\ Count(doc, kind, o, m + 1) = Cardinality(Of(m + 1))
  BY DEF Count
<1> HIDE DEF Of
<1>7. doc[m + 1].kind = kind => Cardinality(Of(m + 1)) = Cardinality(Of(m)) + 1
  BY <1>1, <1>3, <1>5, FS_AddElement
<1> QED BY <1>1, <1>2, <1>4, <1>6, <1>7, FS_EmptySet

Deeper(doc, o, m) == Count(doc, "Folder", o, m) > Count(doc, "EndFolder", o, m)

LEMMA OpenIs ==
    ASSUME NEW doc, NEW i, NEW o
    PROVE  o \in Open(doc, i)
             <=> /\ o \in 1 .. i - 1 /\ doc[o].kind = "Folder"
                 /\ \A m \in o .. i - 1 : Deeper(doc, o, m)
BY DEF Open, Deeper

LEMMA OwnCount ==
    ASSUME NEW doc, NEW i \in Nat \ {0}, doc[i].kind = "Folder"
    PROVE  Count(doc, "Folder", i, i) = 1 /\ Count(doc, "EndFolder", i, i) = 0
<1>1. PICK j \in Nat : j + 1 = i
  <2>1. i - 1 \in Nat /\ (i - 1) + 1 = i
    OBVIOUS
  <2> QED BY <2>1
<1>2. Count(doc, "Folder", i, j) = 0 /\ Count(doc, "EndFolder", i, j) = 0
  BY <1>1, CountStep
<1>3. Count(doc, "Folder", i, j + 1) = 1 /\ Count(doc, "EndFolder", i, j + 1) = 0
  BY <1>1, <1>2, CountStep
<1> QED BY <1>1, <1>3

\* The folders that are open behind element i are those that were open before
\* it and that it does not close, and itself if it is a folder.
LEMMA OpenNext ==
    ASSUME NEW doc, NEW i \in Nat \ {0}, NEW o
    PROVE  o \in Open(doc, i + 1)
             <=> \/ o = i /\ doc[i].kind = "Folder"
                 \/ o \in Open(doc, i) /\ Deeper(doc, o, i)
<1>1. ASSUME o \in Open(doc, i + 1), o # i
      PROVE  o \in Open(doc, i) /\ Deeper(doc, o, i)
  <2>1. /\ o \in 1 .. i /\ doc[o].kind = "Folder" /\ \A m \in o .. i : Deeper(doc, o, m)
    BY <1>1, OpenIs
  <2> QED BY <1>1, <2>1, OpenIs
<1>2. ASSUME o \in Open(doc, i + 1), o = i
      PROVE  doc[i].kind = "Folder"
  BY <1>2, OpenIs
<1>3. ASSUME o \in Open(doc, i), Deeper(doc, o, i)
      PROVE  o \in Open(doc, i + 1)
  <2>1. /\ o \in 1 .. i - 1 /\ doc[o].kind = "Folder" /\ \A m \in o .. i - 1 : Deeper(doc, o, m)
    BY <1>3, OpenIs
  <2>2. o \in 1 .. i /\ \A m \in o .. i : Deeper(doc, o, m)
    BY <1>3, <2>1
  <2> QED BY <2>1, <2>2, OpenIs
<1>4. ASSUME o = i, doc[i].kind = "Folder"
      PROVE  o \in Open(doc, i + 1)
  <2>1. Count(doc, "Folder", i, i) = 1 /\ Count(doc, "EndFolder", i, i) = 0
    BY <1>4, OwnCount
  <2>2. Deeper(doc, i, i)
    BY <2>1 DEF Deeper
  <2>3. i \in 1 .. i /\ \A m \in i .. i : m = i
    OBVIOUS
  <2> QED BY <1>4, <2>2, <2>3, OpenIs
<1> QED BY <1>1, <1>2, <1>3, <1>4

\* st has the folders that are open around element i, from the outermost, p
\* their names; and of each it is known how many are open in it.
Nested(doc, i, st, p) ==
    /\ \A k \in 1 .. Len(p) :
          /\ st[k] \in Open(doc, i) /\ doc[st[k]].name = p[k]
          /\ Count(doc, "Folder", st[k], i - 1)
               = Count(doc, "EndFolder", st[k], i - 1) + (Len(p) - k) + 1
    /\ \A k, j \in 1 .. Len(p) : k < j => st[k] < st[j]
    /\ \A o \in Open(doc, i) : \E k \in 1 .. Len(p) : o = st[k]

LEMMA NestedFirst ==
    ASSUME NEW doc, NEW st
    PROVE  Nested(doc, 1, st, Root)
<1>1. \A o : o \notin Open(doc, 1)
  BY DEF Open
<1>2. Len(Root) = 0
  BY SeqEmpty
<1> QED BY <1>1, <1>2 DEF Nested

\* How the counts of the folders that are open change with element i.
LEMMA NestedCounts ==
    ASSUME NEW doc, NEW i \in Nat \ {0}, NEW st, NEW p, IsSeq(p), Nested(doc, i, st, p),
           NEW k \in 1 .. Len(p)
    PROVE  /\ Len(p) \in Nat /\ st[k] \in 1 .. i - 1
           /\ \E f, e \in Nat :
                 /\ f = e + (Len(p) - k) + 1
                 /\ Count(doc, "Folder", st[k], i) = (IF doc[i].kind = "Folder" THEN f + 1 ELSE f)
                 /\ Count(doc, "EndFolder", st[k], i) = (IF doc[i].kind = "EndFolder" THEN e + 1 ELSE e)
<1>1. PICK j \in Nat : j + 1 = i /\ j = i - 1
  <2>1. i - 1 \in Nat /\ (i - 1) + 1 = i
    OBVIOUS
  <2> QED BY <2>1
<1>2. PICK o : o = st[k]
  OBVIOUS
<1>3. o \in 1 .. j /\ o \in Nat /\ o <= j + 1
  BY <1>1, <1>2, OpenIs DEF Nested
<1>4. PICK f, e : f = Count(doc, "Folder", o, j) /\ e = Count(doc, "EndFolder", o, j)
  OBVIOUS
<1>5. f \in Nat /\ e \in Nat
  BY <1>1, <1>3, <1>4, CountStep
<1>6. Count(doc, "Folder", o, j + 1) = IF doc[j + 1].kind = "Folder" THEN f + 1 ELSE f
  <2>1. Count(doc, "Folder", o, j + 1)
          = IF doc[j + 1].kind = "Folder" THEN Count(doc, "Folder", o, j) + 1 ELSE Count(doc, "Folder", o, j)
    BY <1>3, CountStep
  <2> QED BY <1>4, <2>1
<1>7. Count(doc, "EndFolder", o, j + 1) = IF doc[j + 1].kind = "EndFolder" THEN e + 1 ELSE e
  <2>1. Count(doc, "EndFolder", o, j + 1)
          = IF doc[j + 1].kind = "EndFolder" THEN Count(doc, "EndFolder", o, j) + 1 ELSE Count(doc, "EndFolder", o, j)
    BY <1>3, CountStep
  <2> QED BY <1>4, <2>1
<1>8. f = e + (Len(p) - k) + 1
  BY <1>1, <1>2, <1>4 DEF Nested
<1>9. Len(p) \in Nat
  BY SeqAppend
<1> QED BY <1>1, <1>2, <1>3, <1>5, <1>6, <1>7, <1>8, <1>9

LEMMA NestedElement ==
    ASSUME NEW doc, NEW i \in Nat \ {0}, NEW st, NEW p, IsSeq(p), Nested(doc, i, st, p),
           doc[i].kind \notin {"Folder", "EndFolder"}
    PROVE  Nested(doc, i + 1, st, p)
<1>1. \A k \in 1 .. Len(p) :
         /\ Deeper(doc, st[k], i)
         /\ Count(doc, "Folder", st[k], i) = Count(doc, "EndFolder", st[k], i) + (Len(p) - k) + 1
  BY NestedCounts DEF Deeper
<1>2. \A o : o \in Open(doc, i + 1) => o \in Open(doc, i)
  BY OpenNext
<1>3. \A k \in 1 .. Len(p) : st[k] \in Open(doc, i + 1)
  BY <1>1, OpenNext DEF Nested
<1>4. (i + 1) - 1 = i
  OBVIOUS
<1> QED BY <1>1, <1>2, <1>3, <1>4 DEF Nested

LEMMA NestedFolder ==
    ASSUME NEW doc, NEW i \in Nat \ {0}, NEW st, NEW p, IsSeq(p), Nested(doc, i, st, p),
           doc[i].kind = "Folder"
    PROVE  \E to : Nested(doc, i + 1, to, Append(p, doc[i].name))
<1>1. PICK q, l : q = Append(p, doc[i].name) /\ l = Len(p)
  OBVIOUS
<1>2. /\ l \in Nat /\ Len(q) = l + 1 /\ q[l + 1] = doc[i].name
      /\ \A k \in 1 .. l : q[k] = p[k]
  BY <1>1, SeqAppend
<1>3. PICK to : to = [k \in 1 .. l + 1 |-> IF k <= l THEN st[k] ELSE i]
  OBVIOUS
<1>4. to[l + 1] = i /\ \A k \in 1 .. l : to[k] = st[k]
  BY <1>2, <1>3
<1>5. ASSUME NEW k \in 1 .. l
      PROVE  /\ Deeper(doc, st[k], i) /\ st[k] < i
             /\ Count(doc, "Folder", st[k], i) = Count(doc, "EndFolder", st[k], i) + ((l + 1) - k) + 1
  <2>1. PICK f, e \in Nat :
           /\ f = e + (l - k) + 1
           /\ Count(doc, "Folder", st[k], i) = f + 1 /\ Count(doc, "EndFolder", st[k], i) = e
    <3>1. k \in 1 .. Len(p)
      BY <1>1
    <3>2. PICK f, e \in Nat :
             /\ f = e + (Len(p) - k) + 1
             /\ Count(doc, "Folder", st[k], i) = (IF doc[i].kind = "Folder" THEN f + 1 ELSE f)
             /\ Count(doc, "EndFolder", st[k], i) = (IF doc[i].kind = "EndFolder" THEN e + 1 ELSE e)
      BY <3>1, NestedCounts
    <3> QED BY <1>1, <3>2
  <2>2. st[k] \in 1 .. i - 1
    BY <1>1, NestedCounts
  <2>3. f + 1 > e /\ f + 1 = e + ((l + 1) - k) + 1
    BY <1>2, <2>1
  <2> QED BY <2>1, <2>2, <2>3 DEF Deeper
<1>6. Count(doc, "Folder", i, i) = 1 /\ Count(doc, "EndFolder", i, i) = 0
  BY OwnCount
<1>7. ASSUME NEW k \in 1 .. l + 1
      PROVE  /\ to[k] \in Open(doc, i + 1) /\ doc[to[k]].name = q[k]
             /\ Count(doc, "Folder", to[k], i) = Count(doc, "EndFolder", to[k], i) + ((l + 1) - k) + 1
  <2>1. CASE k \in 1 .. l
    <3>1. st[k] \in Open(doc, i) /\ doc[st[k]].name = p[k]
      BY <1>1, <2>1 DEF Nested
    <3> QED BY <1>2, <1>4, <1>5, <2>1, <3>1, OpenNext
  <2>2. CASE k = l + 1
    <3>1. to[k] = i /\ q[k] = doc[i].name /\ i \in Open(doc, i + 1)
      BY <1>2, <1>4, <2>2, OpenNext
    <3>2. 1 = 0 + ((l + 1) - k) + 1
      BY <1>2, <2>2
    <3> QED BY <1>6, <3>1, <3>2
  <2> QED BY <1>2, <2>1, <2>2
<1>8. ASSUME NEW k \in 1 .. l + 1, NEW j \in 1 .. l + 1, k < j
      PROVE  to[k] < to[j]
  <2>1. k \in 1 .. l /\ (j \in 1 .. l \/ j = l + 1)
    BY <1>2, <1>8
  <2>2. CASE j \in 1 .. l
    BY <1>1, <1>4, <1>8, <2>1, <2>2 DEF Nested
  <2>3. CASE j = l + 1
    BY <1>4, <1>5, <2>1, <2>3
  <2> QED BY <2>1, <2>2, <2>3
<1>9. ASSUME NEW o \in Open(doc, i + 1)
      PROVE  \E k \in 1 .. l + 1 : o = to[k]
  <2>1. CASE o = i
    BY <1>2, <1>4, <2>1
  <2>2. CASE o \in Open(doc, i)
    <3>1. PICK k \in 1 .. l : o = st[k]
      BY <1>1, <2>2 DEF Nested
    <3>2. k \in 1 .. l + 1 /\ o = to[k]
      BY <1>2, <1>4, <3>1
    <3> QED BY <3>2
  <2> QED BY <2>1, <2>2, OpenNext
<1>10. (i + 1) - 1 = i
  OBVIOUS
<1>11. Nested(doc, i + 1, to, q)
  BY <1>2, <1>7, <1>8, <1>9, <1>10 DEF Nested
<1> QED BY <1>1, <1>11

LEMMA NestedEnd ==
    ASSUME NEW doc, NEW i \in Nat \ {0}, NEW st, NEW p, IsSeq(p), Nested(doc, i, st, p),
           doc[i].kind = "EndFolder"
    PROVE  Nested(doc, i + 1, st, Front(p))
<1>1. \A k \in 1 .. Len(p) :
         /\ Count(doc, "Folder", st[k], i) = Count(doc, "EndFolder", st[k], i) + (Len(p) - k)
         /\ Deeper(doc, st[k], i) <=> k # Len(p)
  BY NestedCounts DEF Deeper
<1>2. PICK q, l : q = Front(p) /\ l = Len(q)
  OBVIOUS
<1>3. CASE p = Root
  <2>1. q = p /\ Len(p) = 0
    BY <1>2, <1>3, SeqEmpty
  <2>2. \A o : o \notin Open(doc, i)
    BY <2>1 DEF Nested
  <2>3. \A o : o \notin Open(doc, i + 1)
    BY <2>2, OpenNext
  <2> QED BY <1>2, <2>1, <2>3 DEF Nested
<1>4. CASE p # Root
  <2>1. /\ IsSeq(q) /\ Len(p) \in Nat \ {0} /\ l = Len(p) - 1 /\ Append(q, Last(p)) = p
    BY <1>2, <1>4, SeqFront
  <2>2. \A k \in 1 .. l : q[k] = p[k]
    BY <1>2, <2>1, SeqAppend
  <2>3. ASSUME NEW k \in 1 .. l
        PROVE  /\ st[k] \in Open(doc, i + 1) /\ doc[st[k]].name = q[k]
               /\ Count(doc, "Folder", st[k], i) = Count(doc, "EndFolder", st[k], i) + (l - k) + 1
    <3>1. k \in 1 .. Len(p) /\ k # Len(p)
      BY <2>1
    <3>2. st[k] \in Open(doc, i) /\ doc[st[k]].name = p[k]
      BY <3>1 DEF Nested
    <3>3. Count(doc, "EndFolder", st[k], i) \in Nat
      BY <3>1, NestedCounts
    <3> QED BY <1>1, <2>1, <2>2, <3>1, <3>2, <3>3, OpenNext
  <2>4. \A k, j \in 1 .. l : k < j => st[k] < st[j]
    <3>1. \A k \in 1 .. l : k \in 1 .. Len(p)
      BY <2>1
    <3> QED BY <3>1 DEF Nested
  <2>5. ASSUME NEW o \in Open(doc, i + 1)
        PROVE  \E k \in 1 .. l : o = st[k]
    <3>1. o \in Open(doc, i) /\ Deeper(doc, o, i)
      BY OpenNext
    <3>2. PICK k \in 1 .. Len(p) : o = st[k]
      BY <3>1 DEF Nested
    <3>3. k # Len(p)
      BY <1>1, <3>1, <3>2
    <3> QED BY <2>1, <3>2, <3>3
  <2>6. (i + 1) - 1 = i
    OBVIOUS
  <2> QED BY <1>2, <2>3, <2>4, <2>5, <2>6 DEF Nested
<1> QED BY <1>3, <1>4

\* The walk is where the nesting of the document says.
LEMMA NestedAround ==
    ASSUME NEW doc, NEW i \in Nat \ {0}, NEW st, NEW p, IsSeq(p), Nested(doc, i, st, p)
    PROVE  Around(doc, i) = p
<1>1. PICK l \in Nat : l = Len(p)
  BY SeqAppend
<1>2. /\ \A k \in 1 .. l : st[k] \in Open(doc, i) /\ doc[st[k]].name = p[k] /\ st[k] \in Nat
      /\ \A k, j \in 1 .. l : k < j => st[k] < st[j]
      /\ \A o \in Open(doc, i) : \E k \in 1 .. l : o = st[k]
  BY <1>1, OpenIs DEF Nested
<1>3. ASSUME NEW k \in 1 .. l, NEW j \in 1 .. l PROVE st[j] <= st[k] <=> j <= k
  BY <1>2
<1>4. ASSUME NEW n \in 0 .. l, NEW T,
             \A x : x \in T <=> \E k \in 1 .. n : x = st[k]
      PROVE  Cardinality(T) = n
  <2>1. PICK f : f = [k \in 1 .. n |-> st[k]]
    OBVIOUS
  <2>2. \A k \in 1 .. n : k \in 1 .. l /\ st[k] \in T
    BY <1>4
  <2>3. f \in [1 .. n -> T]
    BY <2>1, <2>2
  <2>4. \A k, j \in 1 .. n : f[k] = f[j] => k = j
    <3>1. \A k, j \in 1 .. n : st[k] = st[j] => k = j
      BY <1>2, <2>2
    <3> QED BY <2>1, <3>1
  <2>5. \A x \in T : \E k \in 1 .. n : f[k] = x
    BY <1>4, <2>1
  <2>6. f \in Bijection(1 .. n, T)
    BY <2>3, <2>4, <2>5 DEF Bijection, Injection, IsInjective, Surjection
  <2>7. ExistsBijection(1 .. n, T)
    BY <2>6 DEF ExistsBijection
  <2>8. IsFiniteSet(1 .. n) /\ Cardinality(1 .. n) = n
    BY FS_Interval
  <2> QED BY <2>7, <2>8, FS_Bijection
<1>5. Cardinality(Open(doc, i)) = l
  <2>1. \A x : x \in Open(doc, i) <=> \E k \in 1 .. l : x = st[k]
    BY <1>2
  <2> QED BY <1>4, <2>1
<1>6. ASSUME NEW k \in 1 .. l PROVE Rank(doc, i, st[k]) = k
  <2>1. PICK T : T = {x \in Open(doc, i) : x <= st[k]}
    OBVIOUS
  <2>2. \A x : x \in T <=> \E j \in 1 .. k : x = st[j]
    <3>1. \A j \in 1 .. l : st[j] \in T <=> j \in 1 .. k
      BY <1>2, <1>3, <2>1
    <3>2. \A x \in T : \E j \in 1 .. l : x = st[j]
      BY <1>2, <2>1
    <3>3. \A j \in 1 .. k : j \in 1 .. l
      OBVIOUS
    <3> QED BY <3>1, <3>2, <3>3
  <2>3. Cardinality(T) = k
    BY <1>4, <2>2
  <2> QED BY <2>1, <2>3 DEF Rank
<1>7. ASSUME NEW n \in 1 .. l
      PROVE  doc[CHOOSE o \in Open(doc, i) : Rank(doc, i, o) = n].name = p[n]
  <2>1. \E o \in Open(doc, i) : Rank(doc, i, o) = n
    BY <1>2, <1>6
  <2>2. PICK c : c = CHOOSE o \in Open(doc, i) : Rank(doc, i, o) = n
    OBVIOUS
  <2>3. c \in Open(doc, i) /\ Rank(doc, i, c) = n
    BY <2>1, <2>2
  <2>4. PICK k \in 1 .. l : c = st[k]
    BY <1>2, <2>3
  <2>5. k = n
    BY <1>6, <2>3, <2>4
  <2> QED BY <1>2, <2>2, <2>4, <2>5
<1>8. Around(doc, i) = [n \in 1 .. l |-> p[n]]
  BY <1>5, <1>7 DEF Around
<1>9. p = [n \in 1 .. l |-> p[n]]
  <2>1. PICK S : p \in Seq(S)
    BY DEF IsSeq
  <2> QED BY <1>1, <2>1
<1> QED BY <1>8, <1>9

-----------------------------------------------------------------------------
(* Loading any document                                                    *)

\* The tree holds what the first n elements of the file say.
SoFar(n) ==
    /\ \A i \in 1 .. n :
          /\ file[i].kind = "Record" /\ {Skip, Refuse} \cap loadRecordFromXML(file[i]) = {}
          /\ \A j \in 1 .. n : file[j].kind = "Record" /\ j > i => KeyOf(file, j) # KeyOf(file, i)
          => /\ KeyOf(file, i) \in DOMAIN recs
             /\ recs[KeyOf(file, i)].value \in loadRecordFromXML(file[i])
    /\ why = "start" =>
          \A k \in DOMAIN recs : \E i \in 1 .. n : file[i].kind = "Record" /\ KeyOf(file, i) = k

\* The walk is where the nesting of the file says.
LoadInv ==
    Loading \/ Loaded =>
        \E n : /\ AtElement(n) /\ SoFar(n)
               /\ Loading => \E st : Nested(file, n + 1, st, path)

LEMMA SoFarIsLoaded == ASSUME Typed, LoadInv PROVE LoadedSoFar
<1> SUFFICES ASSUME Loading \/ Loaded
             PROVE  /\ \A i \in Lasting(file, rest) :
                          /\ KeyOf(file, i) \in DOMAIN recs
                          /\ recs[KeyOf(file, i)].value \in loadRecordFromXML(file[i])
                    /\ why = "start" =>
                          \A k \in DOMAIN recs : \E i \in Records(file, rest) : KeyOf(file, i) = k
  BY DEF LoadedSoFar
<1>1. PICK n : AtElement(n) /\ SoFar(n)
  BY DEF LoadInv
<1>2. Len(file) \in Nat /\ n \in 0 .. Len(file) /\ Len(rest) = Len(file) - n
  BY <1>1, SeqAppend DEF Typed, DocOK, AtElement
<1>3. Len(file) - Len(rest) = n
  BY <1>2
<1>4. \A i : i \in Records(file, rest) <=> i \in 1 .. n /\ file[i].kind = "Record"
  BY <1>3 DEF Records
<1>5. \A i \in Lasting(file, rest) :
         /\ i \in Records(file, rest) /\ {Skip, Refuse} \cap loadRecordFromXML(file[i]) = {}
         /\ \A j \in Records(file, rest) : j > i => KeyOf(file, j) # KeyOf(file, i)
  BY DEF Lasting, Taken
<1>6. \A i \in Lasting(file, rest) :
         /\ KeyOf(file, i) \in DOMAIN recs
         /\ recs[KeyOf(file, i)].value \in loadRecordFromXML(file[i])
  BY <1>1, <1>4, <1>5 DEF SoFar
<1>7. why = "start" => \A k \in DOMAIN recs : \E i \in Records(file, rest) : KeyOf(file, i) = k
  BY <1>1, <1>4 DEF SoFar
<1> QED BY <1>6, <1>7

\* The walk moves over one element, which is not a record or is passed over.
LEMMA PassElement ==
    ASSUME NEW n \in Nat, SoFar(n), UNCHANGED <<file, recs, why>>,
           file[n + 1].kind # "Record" \/ Skip \in loadRecordFromXML(file[n + 1])
    PROVE  SoFar(n + 1)'
<1>1. ASSUME NEW i \in 1 .. n + 1, file[i].kind = "Record",
             {Skip, Refuse} \cap loadRecordFromXML(file[i]) = {},
             \A j \in 1 .. n + 1 : file[j].kind = "Record" /\ j > i => KeyOf(file, j) # KeyOf(file, i)
      PROVE  /\ KeyOf(file, i) \in DOMAIN recs
             /\ recs[KeyOf(file, i)].value \in loadRecordFromXML(file[i])
  <2>1. i # n + 1
    BY <1>1
  <2>2. i \in 1 .. n /\ \A j \in 1 .. n : j \in 1 .. n + 1
    BY <2>1
  <2> QED BY <1>1, <2>2 DEF SoFar
<1>2. ASSUME why = "start", NEW k \in DOMAIN recs
      PROVE  \E i \in 1 .. n + 1 : file[i].kind = "Record" /\ KeyOf(file, i) = k
  <2>1. PICK i \in 1 .. n : file[i].kind = "Record" /\ KeyOf(file, i) = k
    BY <1>2 DEF SoFar
  <2> QED BY <2>1
<1> QED BY <1>1, <1>2 DEF SoFar

\* It adds a record in the folder where the record is.
LEMMA AddElement ==
    ASSUME NEW n \in Nat, SoFar(n), UNCHANGED <<file, why>>, file[n + 1].kind = "Record",
           NEW value \in loadRecordFromXML(file[n + 1]),
           recs' = With(recs, KeyOf(file, n + 1), RecordOf(file[n + 1], value))
    PROVE  SoFar(n + 1)'
<1>1. PICK key : key = KeyOf(file, n + 1)
  OBVIOUS
<1>2. PICK rec : rec = RecordOf(file[n + 1], value)
  OBVIOUS
<1>3. rec.value = value
  BY <1>2 DEF RecordOf
<1>4. /\ DOMAIN recs' = DOMAIN recs \cup {key} /\ recs'[key] = rec
      /\ \A k \in DOMAIN recs : k # key => recs'[k] = recs[k]
  BY <1>1, <1>2 DEF With
<1>5. ASSUME NEW i \in 1 .. n + 1, file[i].kind = "Record",
             {Skip, Refuse} \cap loadRecordFromXML(file[i]) = {},
             \A j \in 1 .. n + 1 : file[j].kind = "Record" /\ j > i => KeyOf(file, j) # KeyOf(file, i)
      PROVE  /\ KeyOf(file, i) \in DOMAIN recs'
             /\ recs'[KeyOf(file, i)].value \in loadRecordFromXML(file[i])
  <2>1. CASE i = n + 1
    BY <1>1, <1>3, <1>4, <2>1
  <2>2. CASE i # n + 1
    <3>1. i \in 1 .. n /\ n + 1 \in 1 .. n + 1 /\ n + 1 > i /\ \A j \in 1 .. n : j \in 1 .. n + 1
      BY <2>2
    <3>2. KeyOf(file, i) # key
      BY <1>1, <1>5, <3>1
    <3>3. KeyOf(file, i) \in DOMAIN recs /\ recs[KeyOf(file, i)].value \in loadRecordFromXML(file[i])
      BY <1>5, <3>1 DEF SoFar
    <3> QED BY <1>4, <3>2, <3>3
  <2> QED BY <2>1, <2>2
<1>6. ASSUME why = "start", NEW k \in DOMAIN recs'
      PROVE  \E i \in 1 .. n + 1 : file[i].kind = "Record" /\ KeyOf(file, i) = k
  <2>1. CASE k = key
    BY <1>1, <2>1
  <2>2. CASE k # key
    <3>1. PICK i \in 1 .. n : file[i].kind = "Record" /\ KeyOf(file, i) = k
      BY <1>4, <1>6, <2>2 DEF SoFar
    <3> QED BY <3>1
  <2> QED BY <2>1, <2>2
<1> QED BY <1>5, <1>6 DEF SoFar

LEMMA Visits ==
    ASSUME Typed, LoadInv, NEW kind, Visiting(kind)
    PROVE  \E n, st :
              /\ n \in Nat /\ AtElement(n) /\ SoFar(n) /\ Nested(file, n + 1, st, path)
              /\ Head(rest) = file[n + 1] /\ file[n + 1].kind = kind
              /\ rest' = Tail(rest) /\ file' = file => AtElement(n + 1)'
              /\ n + 1 \in Nat \ {0} /\ IsSeq(path)
<1>1. Loading /\ rest # Root
  BY DEF Visiting, Loading
<1>2. PICK n, st : AtElement(n) /\ SoFar(n) /\ Nested(file, n + 1, st, path)
  BY <1>1 DEF LoadInv
<1>3. n \in Nat /\ n + 1 \in Nat \ {0}
  BY <1>2, SeqAppend DEF AtElement, Typed, DocOK
<1>4. /\ Head(rest) = file[n + 1]
      /\ rest' = Tail(rest) /\ file' = file => AtElement(n + 1)'
  BY <1>1, <1>2, Advance
<1>5. IsSeq(path)
  BY SeqEmpty DEF Typed, DirsOK
<1> QED BY <1>2, <1>3, <1>4, <1>5 DEF Visiting

LEMMA FollowsRecord == ASSUME Typed, LoadInv, LoadRecord PROVE LoadInv'
<1> USE DEF LoadRecord
<1>1. PICK n, st :
         /\ n \in Nat /\ AtElement(n) /\ SoFar(n) /\ Nested(file, n + 1, st, path)
         /\ Head(rest) = file[n + 1] /\ file[n + 1].kind = "Record"
         /\ rest' = Tail(rest) /\ file' = file => AtElement(n + 1)'
         /\ n + 1 \in Nat \ {0} /\ IsSeq(path)
  BY Visits
<1>2. UNCHANGED <<file, why>>
  OBVIOUS
<1>3. Nested(file, (n + 1) + 1, st, path)
  BY <1>1, NestedElement
<1>4. KeyOf(file, n + 1) = Key(Head(rest).name)
  BY <1>1, NestedAround DEF KeyOf, Key
<1>5. ASSUME NEW value \in loadRecordFromXML(Head(rest)) \ {Skip, Refuse},
             recs' = With(recs, Key(Head(rest).name), RecordOf(Head(rest), value)),
             rest' = Tail(rest), UNCHANGED <<pc, path, cut>>
      PROVE  LoadInv'
  <2>1. SoFar(n + 1)'
    BY <1>1, <1>2, <1>4, <1>5, AddElement
  <2> QED BY <1>1, <1>2, <1>3, <1>5, <2>1 DEF LoadInv
<1>6. CASE /\ Skip \in loadRecordFromXML(Head(rest)) /\ rest' = Tail(rest)
           /\ UNCHANGED <<recs, pc, path, cut>>
  <2>1. SoFar(n + 1)'
    BY <1>1, <1>2, <1>6, PassElement
  <2> QED BY <1>1, <1>2, <1>3, <1>6, <2>1 DEF LoadInv
<1>7. CASE CutLoad("element")
  BY <1>7 DEF CutLoad, LoadInv, Loading, Loaded
<1> QED BY <1>5, <1>6, <1>7

LEMMA FollowsFolder == ASSUME Typed, LoadInv, LoadFolder PROVE LoadInv'
<1> USE DEF LoadFolder
<1>1. PICK n, st :
         /\ n \in Nat /\ AtElement(n) /\ SoFar(n) /\ Nested(file, n + 1, st, path)
         /\ Head(rest) = file[n + 1] /\ file[n + 1].kind = "Folder"
         /\ rest' = Tail(rest) /\ file' = file => AtElement(n + 1)'
         /\ n + 1 \in Nat \ {0} /\ IsSeq(path)
  BY Visits
<1>2. UNCHANGED <<file, recs, why>>
  OBVIOUS
<1>3. CASE path' = Append(path, Head(rest).name) /\ rest' = Tail(rest)
  <2>1. SoFar(n + 1)'
    BY <1>1, <1>2, PassElement
  <2>2. PICK to : Nested(file, (n + 1) + 1, to, path')
    BY <1>1, <1>3, NestedFolder
  <2> QED BY <1>1, <1>2, <1>3, <2>1, <2>2 DEF LoadInv
<1>4. CASE CutLoad("element")
  BY <1>4 DEF CutLoad, LoadInv, Loading, Loaded
<1> QED BY <1>3, <1>4

LEMMA FollowsEnd == ASSUME Typed, LoadInv, EndFolder PROVE LoadInv'
<1> USE DEF EndFolder
<1>1. PICK n, st :
         /\ n \in Nat /\ AtElement(n) /\ SoFar(n) /\ Nested(file, n + 1, st, path)
         /\ Head(rest) = file[n + 1] /\ file[n + 1].kind = "EndFolder"
         /\ rest' = Tail(rest) /\ file' = file => AtElement(n + 1)'
         /\ n + 1 \in Nat \ {0} /\ IsSeq(path)
  BY Visits
<1>2. UNCHANGED <<file, recs, why>> /\ path' = Front(path) /\ rest' = Tail(rest)
  OBVIOUS
<1>3. SoFar(n + 1)'
  BY <1>1, <1>2, PassElement
<1>4. Nested(file, (n + 1) + 1, st, path')
  BY <1>1, <1>2, NestedEnd
<1> QED BY <1>1, <1>2, <1>3, <1>4 DEF LoadInv

\* A walk that begins, into an empty tree or for a reload.
LEMMA FollowsBegin ==
    ASSUME Typed', rest' = file', path' = Root, why' = "start" => DOMAIN recs' = {}
    PROVE  LoadInv'
<1>1. Len(file') \in Nat
  BY SeqAppend DEF Typed, DocOK
<1>2. AtElement(0)'
  BY <1>1 DEF AtElement
<1>3. SoFar(0)'
  BY DEF SoFar
<1>4. \A st : Nested(file', 0 + 1, st, path')
  BY NestedFirst
<1> QED BY <1>2, <1>3, <1>4 DEF LoadInv

LEMMA FollowsNext == ASSUME Typed, Typed', UnderWay, LoadInv, [Next]_vars PROVE LoadInv'
<1>1. CASE UNCHANGED <<file, recs, pc, why, rest, path, cut, quiet>>
  <2>1. \A n : AtElement(n) => AtElement(n)'
    BY <1>1 DEF AtElement
  <2>2. \A n : SoFar(n) => SoFar(n)'
    BY <1>1 DEF SoFar
  <2> QED BY <1>1, <2>1, <2>2 DEF LoadInv, Loading, Loaded
<1>2. CASE Start
  <2>1. rest' = file' /\ path' = Root /\ DOMAIN recs' = {}
    BY <1>2, EmptyTree DEF Start, BeginLoad
  <2> QED BY <2>1, FollowsBegin
<1>3. CASE LoadRecord \/ LoadFolder \/ EndFolder
  BY <1>3, FollowsRecord, FollowsFolder, FollowsEnd
<1>4. CASE FailAdd
  BY <1>4 DEF FailAdd, CutLoad, LoadInv, Loading, Loaded
<1>5. CASE EndLoad
  <2>1. pc = "loading" /\ pc' = "serving" /\ UNCHANGED <<file, recs, why, rest>>
    BY <1>5 DEF EndLoad, walk
  <2>2. \A n : AtElement(n) => AtElement(n)'
    BY <2>1 DEF AtElement
  <2>3. \A n : SoFar(n) => SoFar(n)'
    BY <2>1 DEF SoFar
  <2> QED BY <2>1, <2>2, <2>3 DEF LoadInv, Loading
<1>6. CASE \E name \in Names : DelRecord(name) \/ \E v \in BusValues : SetRecord(name, v)
  BY <1>6 DEF DelRecord, SetRecord, LoadInv, Loading, Loaded
<1>7. CASE \E reason \in {"flush", "reload"} : BeginSave(reason)
  BY <1>7 DEF BeginSave, LoadInv, Loading, Loaded
<1>8. CASE SaveRecord \/ SaveFolder \/ LeaveFolder
  BY <1>8 DEF SaveRecord, SaveFolder, LeaveFolder, LoadInv, Loading, Loaded
<1>9. CASE EndSave \/ FailSave
  <2>1. pc = "saving" /\ AfterSave
    BY <1>9 DEF EndSave, FailSave
  <2>2. CASE why = "reload"
    <3>1. rest' = file' /\ path' = Root /\ why' = "reload"
      BY <2>1, <2>2 DEF AfterSave, BeginLoad
    <3> QED BY <3>1, FollowsBegin
  <2>3. CASE why # "reload"
    <3>1. pc' = "serving" /\ why' \notin {"start", "reload"}
      BY <2>1, <2>3 DEF AfterSave, UnderWay
    <3> QED BY <3>1 DEF LoadInv, Loading, Loaded
  <2> QED BY <2>2, <2>3
<1>10. CASE Stop
  BY <1>10 DEF Stop, LoadInv, Loading, Loaded
<1>11. CASE UNCHANGED vars \/ LoadOther
  BY <1>1, <1>11 DEF vars, LoadOther
<1> QED BY <1>2, <1>3, <1>4, <1>5, <1>6, <1>7, <1>8, <1>9, <1>10, <1>11 DEF Next

\* A load adds what it has passed in the folders where the document has it, the
\* last of a name prevailing, and a start adds nothing else: for any document,
\* however its elements are nested, and at its end as well as on the way.
THEOREM FollowsDocument == Spec => []LoadedSoFar
<1>1. Init => LoadInv
  BY DEF Init, LoadInv, Loading, Loaded
<1>2. Inv => Typed /\ UnderWay
  BY DEF Inv, Loads
<1>3. Inv /\ Inv' /\ LoadInv /\ [Next]_vars => LoadInv'
  BY <1>2, FollowsNext DEF Inv
<1>4. Inv /\ LoadInv => LoadedSoFar
  BY <1>2, SoFarIsLoaded
<1> QED BY <1>1, <1>3, <1>4, Always, PTL DEF Spec

=============================================================================
