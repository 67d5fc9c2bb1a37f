------------------------------ MODULE MCClient ------------------------------
(* Two servers; on one of them a channel with two objects and a user, on the *)
(* other a channel of the same name.                                         *)
EXTENDS Client, TLC

CONSTANTS w1, w2, w3, libera, oftc, lobby, ann

MCWindow == {Status, Overlay, w1, w2, w3}
MCServer == {libera, oftc}
MCChannelName == {lobby}
MCNick == {ann}

MCObject ==
  [server : {libera}, name : {lobby}, gen : {1, 2}]
    \cup {[server |-> libera, name |-> ann, gen |-> 1], [server |-> oftc, name |-> lobby, gen |-> 1]}

Addresses == Permutations({w1, w2, w3})

\* Bound: windows change places while there are two conversations at most.
MCNext ==
  /\ ClientNext
  /\ Cardinality(Conversations(ui)) > 2 /\ Live(ui') = Live(ui) => ui'.children = ui.children
MCSpec == ClientInit /\ [][MCNext]_vars
=============================================================================
