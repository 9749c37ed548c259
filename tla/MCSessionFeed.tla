---------------------------- MODULE MCSessionFeed ----------------------------
(* Small instances of SessionFeed: one host with one or two rooms, and two hosts    *)
(* between which a room moves.                                                      *)
EXTENDS SessionFeed, TLC

CONSTANTS h1, h2, c1, c2

OneHost == {h1}
TwoHosts == {h1, h2}
OneClient == {c1}
NoClients == {}
ServedByFirst == [c \in Clients |-> h1]
=============================================================================
