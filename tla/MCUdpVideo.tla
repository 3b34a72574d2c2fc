----------------------------- MODULE MCUdpVideo -----------------------------
(* Instances of UdpVideo for TLC.  A channel is named by the first two bytes *)
(* of a serial number (six in the code).                                    *)
EXTENDS UdpVideo, TLC

CONSTANTS a, b, c, d

\* More serial numbers than channels: two that differ in their last byte only, of which one
\* ends like the buffer that was never written; one that is shorter than the name of a
\* channel; and one that is too long for the length byte.
OwnSns == (a :> <<1, 1>>) @@ (b :> <<1, 0>>) @@ (c :> <<1>>) @@ (d :> <<1, 1, 0>>)
=============================================================================
