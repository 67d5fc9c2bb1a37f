---------------------------- MODULE MCClientWide ----------------------------
(* Two servers with two channels each: enough windows for the windows of one *)
(* server to lie in the front half of the children.                          *)
EXTENDS Client, TLC

CONSTANTS w1, w2, w3, w4, libera, oftc, lobby, dev

MCWindow == {Status, Overlay, w1, w2, w3, w4}
MCServer == {libera, oftc}
MCChannelName == {lobby, dev}
MCNick == {}
MCObject == [server : {libera, oftc}, name : {lobby, dev}, gen : {1}]

Addresses == Permutations({w1, w2, w3, w4})
=============================================================================
