---------------------------- MODULE MCWebClient ----------------------------
(* An instance of WebClient for TLC: two tabs, two users, one page. *)
EXTENDS WebClient

CONSTANTS t1, t2, admin, editor, home, nobody
=============================================================================
