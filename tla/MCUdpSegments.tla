--------------------------- MODULE MCUdpSegments ---------------------------
(* The instance of UdpSegments for TLC: two addresses, one for each queue, and a *)
(* third that gets no channel, in the queue of the first.  The first alone sends *)
(* enough for an overflow and two frames after it.                               *)
EXTENDS UdpSegments, TLC

Received(x, y, z) == (1 :> x) @@ (2 :> y) @@ (3 :> z)
LongOrMore == {Received(8, 0, 0), Received(2, 2, 0), Received(2, 0, 2)}
=============================================================================
