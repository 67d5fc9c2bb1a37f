---------------------------- MODULE MCServerQueue ----------------------------
(* Two servers; two channels are asked for on one, one on the other.          *)
EXTENDS ServerQueue

CONSTANTS libera, oftc

MCServer == {libera, oftc}

MCRequest ==
  [server : {libera}, number : {1, 2}] \cup [server : {oftc}, number : {1}]
=============================================================================
