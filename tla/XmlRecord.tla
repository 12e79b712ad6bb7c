----------------------------- MODULE XmlRecord -----------------------------
(***************************************************************************)
(* A record as the repository holds it, a record as the XML file holds it, *)
(* and the two conversions (psm_flo_parse.c).                              *)
(*                                                                         *)
(* A value is a form and a number: the form says which decoder takes the   *)
(* text, the number tells values apart; for the two kinds of lists it is   *)
(* the number of members in a text and the size in bytes in the tree.      *)
(***************************************************************************)
EXTENDS Naturals, Sequences

\* sizeof(ULONG): 4 on the 32-bit builds, 8 on the 64-bit ones.
CONSTANT Word

ASSUME WordAssumption == Word \in {4, 8}

RecordTypes == {"sint", "uint", "bool", "astr", "bstr", "hcxt", "enum"}

ContentNames ==
    <<"int", "uint", "bool", "datetime", "base64", "long", "ulong", "float",
      "double", "byte", "none", "unknown1", "unknown2", "unknown3", "unknown4">>

LegacyNames ==
    <<"mapped", "ip4Addr", "macAddr", "ip4AddrList", "port", "seconds",
      "minutes", "hours", "calendar", "password", "masked", "button", "switch",
      "sintList", "uintList">>

\* The code of a content type's name, new or legacy; 0 is the default.
getRecordContentTypeFromString(s) ==
    LET hits == {i \in DOMAIN ContentNames : s \in {ContentNames[i], LegacyNames[i]}}
    IN  IF hits = {} THEN 0 ELSE CHOOSE i \in hits : TRUE

\* A slip: the name of the next code.
ContentNameOfNext(code) ==
    IF code = 0 THEN "" ELSE (ContentNames \o <<"unknown5">>)[code + 1]

\* The name a save gives to a code; no attribute for the default.
ContentName(code) == IF code = 0 THEN "" ELSE ContentNames[code]

Value(form, n) == [form |-> form, n |-> n]
NoText == Value("none", 0)

\* What a text or a value can be.
Forms == {"string", "ip", "mac", "ips", "date", "number", "boolean", "ints", "binary"}
Texts == [form : Forms, n : Nat] \cup {NoText}

\* What a decoder can say instead of a value: the record is passed over with
\* success, or the load fails.
Skip   == Value("skip", 0)
Refuse == Value("refuse", 0)

-----------------------------------------------------------------------------
\* The codes with a text form of their own.
IP4_ADDR == 2
MAC_ADDR == 3
IP4_ADDR_LIST == 4
CALENDAR_TIME == 9
INT_LISTS == {14, 15}

\* The form in which a record of this type and content type is written.
TextForm(type, content) ==
    CASE type = "astr" -> "string"
      [] type = "bool" -> "boolean"
      [] type \notin {"astr", "bool"} /\ content = IP4_ADDR -> "ip"
      [] type \notin {"astr", "bool", "bstr"} /\ content # IP4_ADDR -> "number"
      [] type = "bstr" /\ content = MAC_ADDR -> "mac"
      [] type = "bstr" /\ content = IP4_ADDR_LIST -> "ips"
      [] type = "bstr" /\ content = CALENDAR_TIME -> "date"
      [] type = "bstr" /\ content \in INT_LISTS -> "ints"
      [] OTHER -> "binary"

\* A node without text: strings, lists of numbers and binary data make do with
\* it (decodeIntList then sees what the buffer held before), the others return
\* the status of the XML library, with or without success.
OfNothing ==
    [ip |-> {Skip, Refuse}, mac |-> {Skip, Refuse}, ips |-> {Skip, Refuse},
     date |-> {Skip, Refuse}, number |-> {Refuse}, boolean |-> {Refuse},
     ints |-> {Value("ints", 0), Value("ints", Word)}, binary |-> {NoText}]

\* A text of another form: decodeIP4AddrList's failure makes an empty record,
\* decodeIntList and decodeCalendar take what atoi makes of it.
OfOther ==
    [ip |-> {Refuse}, mac |-> {Refuse}, ips |-> {Value("ips", 0)},
     date |-> {Value("date", 0)}, number |-> {Refuse}, boolean |-> {Refuse},
     ints |-> {Value("ints", Word)}, binary |-> {Refuse}]

\* A list takes sizeof(ULONG) bytes for each member; an address is a list.
decodeIntList(text) == Value("ints", text.n * Word)
decodeIP4AddrList(text) == Value("ips", (IF text.form = "ip" THEN 1 ELSE text.n) * Word)

\* The forms of text that the decoder for a form takes.
Takes(form) == IF form = "ips" THEN {"ip", "ips"} ELSE {form}

\* What the decoder for a form can make of a text.
Decoded(form, text) ==
    CASE form = "string" -> {text}
      [] form # "string" /\ text = NoText -> OfNothing[form]
      [] form # "string" /\ text.form \notin {"none"} \cup Takes(form) -> OfOther[form]
      [] form = "ints" /\ text.form = form -> {decodeIntList(text)}
      [] form = "ips" /\ text.form \in {"ip", "ips"} -> {decodeIP4AddrList(text)}
      [] OTHER -> {text}

\* A list is written member by member, one for each 4 bytes; one that is empty
\* or refused leaves the node without text.
writeIntList(value) ==
    IF value.n \in 1 .. 64 THEN Value("ints", value.n \div 4) ELSE NoText
writeIP4AddrList(value) ==
    IF value.n > 0 THEN Value("ips", value.n \div 4) ELSE NoText

\* A slip: an address in a number is written as a number.
WrittenAsNumber(rec) ==
    IF TextForm(rec.type, rec.content) = "ip" THEN Value("number", rec.value.n) ELSE rec.value

\* The text of a record's value; "enum" has no case in the code.
Written(rec) ==
    LET form == TextForm(rec.type, rec.content)
    IN  CASE rec.type = "enum" -> NoText
          [] rec.type # "enum" /\ form = "ints" -> writeIntList(rec.value)
          [] rec.type # "enum" /\ form = "ips" -> writeIP4AddrList(rec.value)
          [] OTHER -> rec.value

-----------------------------------------------------------------------------
\* The element a save writes for a record: its permission is left out.
addRecordToXMLHandle2(name, rec) ==
    [kind |-> "Record", name |-> name, type |-> rec.type, permission |-> "",
     content |-> ContentName(rec.content), text |-> Written(rec)]

\* The attributes of an element's record, defaults filled in: "type" is sint.
TypeOf(node) == IF node.type = "" THEN "sint" ELSE node.type
PermissionOf(node) == IF node.permission = "" THEN "all" ELSE node.permission

\* What a load can make of an element; "" stands for a missing name.
loadRecordFromXML(node) ==
    IF node.name = "" \/ TypeOf(node) \notin RecordTypes
    THEN {Refuse}
    ELSE Decoded(TextForm(TypeOf(node), getRecordContentTypeFromString(node.content)),
                 node.text)

\* The record that is added for a value that was read.
RecordOf(node, value) ==
    [type |-> TypeOf(node), permission |-> PermissionOf(node),
     content |-> getRecordContentTypeFromString(node.content), value |-> value]
=============================================================================
