-------------------------------- MODULE MCPanels --------------------------------
(* The status window, the overlay and two windows for a channel, which has    *)
(* two objects, a user or /gather, on one server.                             *)
EXTENDS Panels, TLC

CONSTANTS w1, w2, libera, lobby, ann, bob, old, new

MCWindow == {Status, Overlay, w1, w2}
MCServer == {libera}
MCChannelName == {lobby}
MCNick == {ann, bob}
MCObject == [server : {libera}, name : {lobby}, gen : {1, 2}] \cup
            {[server |-> libera, name |-> ann, gen |-> 1]}
MCSpoken == {Highlight}
MCPlace == {1}
MCTopic == {old, new}

\* Addresses of conversation windows are interchangeable.
Addresses == Permutations({w1, w2})

\* Bounds: the bar is watched with the first object of the channel, with no line
\* in the status window that counts, and with users who do not take an old nick
\* again; the panels with one nick of those who are in the channel.
First == {o \in Object : o.gen = 1}
MCNext ==
  /\ ScreenNext
  /\ watched = "bar" =>
       /\ joined' \cup {ui'.obj[w] : w \in Conversations(ui')} \subseteq First
       /\ unseen'[Status] = None
       /\ ui'.name # ui.name => \E o \in Object \ Channel : ui'.name[o] = bob
  /\ watched = "panels" => \A o \in Channel : DOMAIN room'[o].users \subseteq {ann}
MCSpec == ScreenInit /\ [][MCNext]_screenVars
=============================================================================
