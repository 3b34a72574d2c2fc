----------------------------- MODULE MCStreamer -----------------------------
(* Instances of Streamer for TLC. *)
EXTENDS Streamer, TLC

CONSTANTS d1, p1, p2, c1, c2, w1, w2

OnePath == (d1 :> p1)
Asking == {[kind |-> "get", path |-> p1], [kind |-> "get", path |-> NoPath],
           [kind |-> "shutdown", path |-> p2]}
AskingLive == {[kind |-> "get", path |-> p1], [kind |-> "other", path |-> p1],
               [kind |-> "shutdown", path |-> p2], [kind |-> "half", path |-> p1]}
Symmetric == Permutations({c1, c2}) \union Permutations({w1, w2})
=============================================================================
