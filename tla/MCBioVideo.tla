----------------------------- MODULE MCBioVideo -----------------------------
(* Instance of BioVideo for TLC: two devices, each with its serial number. *)
EXTENDS BioVideo, TLC

CONSTANTS d1, d2, v1, v2, s1, s2

OwnSns == (d1 :> s1) @@ (d2 :> s2)
=============================================================================
