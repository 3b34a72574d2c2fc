----------------------------- MODULE MCTcp2Http -----------------------------
(* Instances of Tcp2Http for TLC.                                          *)
EXTENDS Tcp2Http

CONSTANTS d1, d2, s1, s2

\* Two devices with serial numbers of their own, or with the one that
\* rk3399/app/app/mssd.cpp:204 sends from every board.
OwnSn == [d \in {d1, d2} |-> IF d = d1 THEN s1 ELSE s2]
SharedSn == [d \in Devices |-> s1]

OneItemTexts == [1..1 -> SNs \cup Devices]
TwoItemTexts == UNION {[1..n -> SNs \cup Devices] : n \in 1..2}

\* Clients ask for both serial numbers; for the one that all devices share
\* and for a text that is none; for the text that is registered when a device's
\* first message was read together with its serial number.
Get(sn) == [kind |-> "sn", sn |-> sn]
Plain(kind) == [kind |-> kind, sn |-> NoSn]
OwnRequests == {Plain("all"), Plain("count"), Plain("other"), Get(<<s1>>), Get(<<s2>>)}
SharedRequests == {Plain("all"), Get(<<s1>>), Get(<<d1>>)}
LoneRequests == {Plain("all"), Plain("count"), Get(<<s1>>), Get(<<s1, d1>>)}
=============================================================================
