----------------------------- MODULE MCCfmBase -----------------------------
(* CfmBase on three configurations: enough for the default, the one that   *)
(* is in force, and the one being saved to differ.                         *)
EXTENDS CfmBase
=============================================================================
