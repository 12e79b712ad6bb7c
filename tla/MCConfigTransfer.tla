-------------------------- MODULE MCConfigTransfer --------------------------
(* ConfigTransfer with a user's and the factory configuration, which are   *)
(* also what is imported and what an update brings, on five devices.       *)
EXTENDS ConfigTransfer

ssid == [ap |-> 0, field |-> "SSID"]
mode == [ap |-> 0, field |-> "Mode"]

Rec(name, source, overwrite) ==
    [name |-> name, value |-> Text(source, "long"), overwrite |-> overwrite]

MCFactory == <<Rec(ssid, "factory", "never"), Rec(mode, "factory", "cond")>>
MCUser == <<Rec(ssid, "user", "never"), Rec(mode, "factory", "cond")>>
MCDocs == {MCFactory, MCUser}

\* What was not programmed in the factory, and what is too short.
Fit(platform, missing, short) ==
    [platform |-> platform,
     oem |-> [s \in Sources |-> IF s \in missing THEN "unprogrammed"
                                ELSE IF s \in short THEN "short" ELSE "long"]]

MCFitted ==
    {Fit("XB7", {}, {}),
     Fit("XB8", {"xhs_passkey", "60_SSID"}, {"wifi_passwd"}),
     Fit("XB8", {"wifi_passwd", "24_SSID", "xhs_SSID"}, {}),
     Fit("CBR", {}, {"xhs_passkey"}),
     Fit("other", {}, {})}

=============================================================================
