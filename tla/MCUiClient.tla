---- MODULE MCUiClient ----
(***************************************************************************)
(* Instances of UiClient for TLC: the constants are numbers and sets the   *)
(* configurations give.                                                    *)
(***************************************************************************)
EXTENDS UiClient
====
