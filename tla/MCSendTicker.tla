---------------------------- MODULE MCSendTicker ----------------------------
(* The instance of SendTicker for TLC is given by its configuration. *)
EXTENDS SendTicker, TLC
=============================================================================
