------------------------------ MODULE MCCfmSsp ------------------------------
(* CfmSsp with a parameter of each kind. *)
EXTENDS CfmSsp, TLC

\* ssid has a custom value over a default, region is a name that only the
\* partner's defaults and bootstrap.json know.
CONSTANTS ssid, region

MCNames == {ssid, region}
MCValues == {0, 1}
MCFactory == ssid :> 0
MCCustom == ssid :> 1
MCBootstrap == region :> 0
MCOffers == region :> 1
MCOneTime == {region}

=============================================================================
