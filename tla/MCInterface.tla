---------------------------- MODULE MCInterface ----------------------------
(* A small interface: the status window, the overlay and three more windows,  *)
(* for a channel and two objects of a user, one of which changes its nick.    *)
EXTENDS Interface, TLC

CONSTANTS w1, w2, w3, libera, lobby, ann, bob

MCWindow == {Status, Overlay, w1, w2, w3}
MCServer == {libera}
MCChannelName == {lobby}
MCNick == {ann, bob}
MCObject == [server : {libera}, name : {lobby}, gen : {1}] \cup
            [server : {libera}, name : {ann}, gen : {1, 2}]

\* Addresses of conversation windows are interchangeable.
Addresses == Permutations({w1, w2, w3})

\* Bound: who comes later keeps the nick.
MCNext == Next /\ \A o \in Object : o.gen > 1 => ui'.name[o] = ui.name[o]
MCSpec == Init /\ [][MCNext]_ui
=============================================================================
