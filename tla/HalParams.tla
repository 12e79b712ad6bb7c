----------------------------- MODULE HalParams -----------------------------
(***************************************************************************)
(* PsmHal_GetCustomParams of the Broadcom builds (psm_hal_apis.c): the     *)
(* WiFi names and passphrases that a device was given in the factory, read *)
(* through one buffer that goes from call to call.                         *)
(***************************************************************************)
EXTENDS Naturals

\* "other": a build without parameters of its own.
Platforms == {"XB7", "CBR", "XB8", "other"}

\* What factory_info has for each of its functions: a text of at least eight
\* characters, a shorter one, or "Unprogrammed or unknown NVM parameter".
Sources == {"24_SSID", "50_SSID", "60_SSID", "xhs_SSID", "wifi_passwd", "xhs_passkey"}
Conditions == {"long", "short", "unprogrammed"}

Devices == [platform : Platforms, oem : [Sources -> Conditions]]

Text(source, condition) == [of |-> source, is |-> condition]

None == "none"

-----------------------------------------------------------------------------
(* The functions that read one value (SSID_Idx_enum numbers the networks)  *)

SsidSource(d, ap) ==
    CASE ap = 0 -> "24_SSID"
      [] ap = 1 -> "50_SSID"
      [] ap = 16 /\ d.platform = "XB8" -> "60_SSID"
      [] ap \in {2, 3} \/ (ap = 17 /\ d.platform = "XB8") -> "xhs_SSID"
      [] ap \in {4, 5} -> "xfinitywifi"
      [] ap = 15 /\ d.platform = "CBR" -> "xfinity public"
      [] OTHER -> None

\* A slip: the case labels of the home security network are missing.
PassphraseSourcePrivate(d, ap) ==
    CASE ap \in {0, 1} \/ (ap = 16 /\ d.platform = "XB8") -> "wifi_passwd"
      [] OTHER -> None

PassphraseSource(d, ap) ==
    CASE ap \in {0, 1} \/ (ap = 16 /\ d.platform = "XB8") -> "wifi_passwd"
      [] ap \in {2, 3} \/ (ap = 17 /\ d.platform = "XB8") -> "xhs_passkey"
      [] OTHER -> None

Read(d, source) == Text(source, IF source \in Sources THEN d.oem[source] ELSE "long")

\* The last network of the two loops.
LastAp(d) == IF d.platform = "XB8" THEN 17 ELSE 5

\* What the buffer holds after each call: a call without a case of its own
\* returns 0 too, and leaves it as it was.
Buffer(d, source) ==
    LET buff[ap \in 0..LastAp(d)] ==
            IF ap = 0 \/ source[ap] # None THEN Read(d, source[ap]) ELSE buff[ap - 1]
    IN  buff

-----------------------------------------------------------------------------
(* PsmHal_GetCustomParams                                                  *)

Network(ap) == CASE ap \in {0, 1, 16} -> "private"
                 [] ap \in {2, 3, 17} -> "xhs"
                 [] ap \in {4, 5, 15} -> "xfinity"

\* The RDKB default.
Fallback(ap) == Text(Network(ap), "default")

Passphrase(d, ap) ==
    LET psk == Buffer(d, [n \in 0..LastAp(d) |-> PassphraseSource(d, n)])[ap]
    IN  IF psk.is = "long" THEN psk ELSE Fallback(ap)

Ssid(d, ap) ==
    LET ssid == IF ap = 15 THEN Read(d, SsidSource(d, ap))
                ELSE Buffer(d, [n \in 0..LastAp(d) |-> SsidSource(d, n)])[ap]
    IN  IF ssid.is # "unprogrammed" THEN ssid ELSE Fallback(ap)

\* The parameters that are returned, by network and field.
Params(d) ==
    IF d.platform = "other" THEN {}
    ELSE [ap : 0..5 \cup (IF d.platform = "XB8" THEN {16, 17} ELSE {}),
          field : {"SSID", "Passphrase"}]
         \cup (IF d.platform = "CBR" THEN {[ap |-> 15, field |-> "SSID"]} ELSE {})

GetCustomParams(d) ==
    [p \in Params(d) |-> IF p.field = "SSID" THEN Ssid(d, p.ap) ELSE Passphrase(d, p.ap)]

=============================================================================
