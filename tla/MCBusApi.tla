------------------------------ MODULE MCBusApi ------------------------------
(* BusApi on a small instance: lists of two, names of two levels. *)
EXTENDS BusApi, TLC

CONSTANTS c1, c2

MCSymmetry == Permutations({c1, c2})

ax == <<"a", ".", "x">>
ay == <<"a", ".", "y">>
MCNames == {ax, ay}
MCTypes == {"string", "none"}
MCValues == {"", "1"}

Str(v) == [val |-> v, type |-> "string"]

MCDefaults == [n \in MCNames |-> IF n = ay THEN Str("") ELSE Absent]

\* RBus can carry any text, and knows no value of type none.
MCConvertible == [val : STRING, type : {"string", "boolean", "unsignedInt"}]

To(n, v, t) == [name |-> n, val |-> v, type |-> t]
Set(via, vals) == [via |-> via, op |-> "set", vals |-> vals]
Del(via, names) == [via |-> via, op |-> "del", names |-> names]
Get(via, names) == [via |-> via, op |-> "get", names |-> names]
List(via, prefix, next) == [via |-> via, op |-> "names", prefix |-> prefix, nextLevel |-> next]

MCCalls ==
    {Set("dbus", <<To(ax, "1", "string"), To(ax, "", "none")>>),
     Set("dbus", <<To(ax, "1", "string"), To(ReloadConfig, "1", "boolean")>>),
     Set("dbus", <<To(LoggingEnable, "0", "boolean"), To(FactoryReset, "TRUE", "boolean"),
                   To(UpdateConfigs, "true", "boolean"), To(FactoryReset, "", "boolean")>>),
     Set("rbus", <<To(DisableWriting, "1", "boolean"), To(ax, "1", "string")>>),
     Get("dbus", <<ay, ax, NewConfigPath>>), Get("rbus", <<DisableWriting, LoggingEnable, ax>>),
     Del("dbus", <<ax, ay>>), Del("rbus", <<ay, ax>>),
     List("rbus", <<>>, TRUE), List("dbus", <<"a", ".">>, FALSE)}

=============================================================================
