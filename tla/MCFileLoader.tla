--------------------------- MODULE MCFileLoader ---------------------------
(* A small instance of FileLoader: documents that mix the kinds of records. *)
EXTENDS FileLoader

Rec(name, type, content, text) ==
    [kind |-> "Record", name |-> name, type |-> type, permission |-> "",
     content |-> content, text |-> text]
Folder(name, permission, content) ==
    [kind |-> "Folder", name |-> name, type |-> "guarded", permission |-> permission,
     content |-> content]
Close == [kind |-> "EndFolder"]
Other == [kind |-> "Other"]

MCBusValues == {Value("string", 1)}

\* Records that a load takes as they are.
Text == Rec("x", "astr", "ip4Addr", Value("string", 2))
Mac == Rec("y", "bstr", "macAddr", Value("mac", 1))
Plain == {Text, Mac,
          Rec("y", "", "", Value("number", 1)),
          Rec("y", "bstr", "sintList", Value("ints", 2)),
          Rec("y", "bstr", "ip4AddrList", Value("ips", 2)),
          Rec("y", "uint", "ip4Addr", Value("ip", 1)),
          Rec("y", "bool", "bool", Value("boolean", 1))}

\* Records that are passed over, refused, or changed by a load or a save.
Odd == {Rec("x", "enum", "", Value("number", 1)),
        Rec("x", "bstr", "ip4AddrList", Value("ip", 1)),
        Rec("x", "bstr", "ip4AddrList", Value("string", 1)),
        Rec("x", "uint", "uint", Value("number", 1)),
        Rec("x", "bstr", "macAddr", NoText),
        Rec("x", "bstr", "uintList", Value("ints", 17)),
        Rec("x", "bstr", "calendar", Value("string", 1))}

\* A record before and in a folder, in two nested folders of one name, twice in
\* a folder that comes twice, and around an element of another name.
MCDocuments ==
    {<<a, Folder("f", "read", "graph"), b, Close>> : a \in Plain \cup Odd, b \in {Text, Mac}}
    \cup {<<Folder("f", "", ""), a, Folder("f", "read", ""), Close, Close, Text>> : a \in Odd}
    \cup {<<Folder("f", "", ""), a, Close, Folder("f", "read", "graph"), Text, Close>> : a \in Odd}
    \cup {<<Text, Other, Mac>>}
=============================================================================
