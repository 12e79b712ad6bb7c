---------------------------- MODULE ConfigUpdate ----------------------------
(***************************************************************************)
(* ssp_CfmUpdateConfigs with its helpers (ssp_cfmif.c): a new firmware's   *)
(* configuration is to be merged into the current one, record by record,   *)
(* and to become the default.  A document is the sequence of the children  *)
(* of its root.  Three of the helpers lack braces around the last check or *)
(* the first one, and return what is meant for a failure in any case.      *)
(***************************************************************************)
EXTENDS Naturals, SequencesExt, HalParams

Failure == "failure"

NoText == Text(None, "empty")

\* A child without attributes and data, as AddChildByName makes it.
Bare == [name |-> [ap |-> 0, field |-> ""], value |-> NoText, overwrite |-> "never"]

\* CfgBufferToXml.  The record is filled in, and FAILURE is returned.
NodeGetRecord(node) == Failure

RecordSetNode(rec, i, xml) ==
    IF rec.value = NoText \/ rec.name = Bare.name THEN xml ELSE [xml EXCEPT ![i] = rec]

\* FAILURE is returned as soon as the child was added.
AddRecToXml(rec, xml) == Append(xml, Bare)

\* The children that are records of this name.
Named(name, xml) ==
    {i \in DOMAIN xml : NodeGetRecord(xml[i]) # Failure /\ NodeGetRecord(xml[i]).name = name}

First(name, xml) == CHOOSE i \in Named(name, xml) : \A j \in Named(name, xml) : i <= j

IsRecChangedFromXml(rec, xml) ==
    Named(rec.name, xml) # {} /\ NodeGetRecord(xml[First(rec.name, xml)]).value # rec.value

\* The device's own parameters are put over the document's, or only added.
ReadCfgXmlWithCustom(doc, custom, overwrite) ==
    LET Merged(xml, p) ==
            LET i == First(p, xml)
            IN  IF Named(p, xml) = {}
                THEN AddRecToXml([name |-> p, value |-> custom[p], overwrite |-> "never"], xml)
                ELSE IF overwrite
                THEN RecordSetNode([NodeGetRecord(xml[i]) EXCEPT !.value = custom[p]], i, xml)
                ELSE xml
    IN  FoldLeft(Merged, doc, SetToSeq(DOMAIN custom))

\* The new document's records go over those that the user may not keep, or
\* has not changed.
Updated(newXml, curXml, defXml) ==
    LET Merged(xml, node) ==
            LET new == NodeGetRecord(node)
                i == First(new.name, xml)
                cur == NodeGetRecord(xml[i])
            IN  IF new = Failure \/ new.name = Bare.name \/ new.value = NoText THEN xml
                ELSE IF Named(new.name, xml) = {} THEN AddRecToXml(new, xml)
                ELSE IF cur.overwrite = "always"
                          \/ (cur.overwrite = "cond" /\ ~IsRecChangedFromXml(cur, defXml))
                THEN RecordSetNode(new, i, xml)
                ELSE xml
    IN  FoldLeft(Merged, curXml, newXml)

\* The buffer with the text is freed, and FAILURE is returned.
XmlToFile(xml, file) == file

\* The current and the default file after an update that could read all
\* three documents.
UpdateConfigs(new, cur, def, custom) ==
    LET newXml == ReadCfgXmlWithCustom(new, custom, TRUE)
        curXml == ReadCfgXmlWithCustom(cur, custom, FALSE)
        defXml == ReadCfgXmlWithCustom(def, custom, TRUE)
    IN  [cur |-> XmlToFile(Updated(newXml, curXml, defXml), cur), def |-> XmlToFile(newXml, def)]

=============================================================================
