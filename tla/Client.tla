-------------------------------- MODULE Client --------------------------------
(***************************************************************************)
(* The handlers of the IRC events: src/src/client/Events.cpp and            *)
(* Client::serverRemoved, over the windows of Interface.  The library calls *)
(* them on the reader threads of the servers while the person at the        *)
(* terminal presses keys; a handler is one step here.                       *)
(*                                                                          *)
(* What the library does is external: it hands the handlers one shared      *)
(* object for a channel as long as we are in it, and after a channel is     *)
(* left and joined again it may hand them another.                          *)
(***************************************************************************)
EXTENDS Interface

VARIABLES
  connected,  \* the servers that have not been quit
  joined      \* the channel objects of the channels we are in

vars == <<ui, connected, joined>>

\* Channels keep their names.
SameName(o, p) == o.server = p.server /\ o.name = p.name

\* Joins can be for any object that stands for no channel we are already in.
Joinable(o) ==
  /\ IsChannelObject(o)
  /\ o.server \in connected
  /\ \A p \in joined : ~SameName(o, p)

ClientInit ==
  /\ Init
  /\ connected = Server
  /\ joined = {}

-----------------------------------------------------------------------------
(* Events about ourselves.                                                  *)

\* Variant: a dead window stays dead.
ReviveNothing(u, w) == u

\* JoinEvent brings a window that was killed back to life.
Revive(u, w) == Resurrect(u, w)

\* JoinEvent, who is ourselves.
SelfJoin(o) ==
  /\ Running
  /\ Joinable(o)
  /\ \E fresh \in Allocation(ui, o) :
       LET u == Ensure(ui, o, fresh)
           w == Find(u, o)
           focused == Focus(Revive(u, w), w)
       IN ui' = IF focused.fault = "none" THEN UpdateStatusbar(focused)
                ELSE focused
  /\ joined' = joined \cup {o}
  /\ UNCHANGED connected

\* KickEvent, whom is ourselves.
SelfKick(o) ==
  /\ Running
  /\ o \in joined
  /\ LET w == Find(ui, o)
         u == Kill(ui, w)
     IN ui' = IF w = Null THEN ui
              ELSE IF w = ui.active THEN UpdateStatusbar(u)
              ELSE u
  /\ joined' = joined \ {o}
  /\ UNCHANGED connected

\* PartEvent, who is ourselves; close is the setting interface.close_on_part.
SelfPart(o, close) ==
  /\ Running
  /\ o \in joined
  /\ LET w == Find(ui, o)
         u == Kill(ui, w)
         left == IF close THEN RemoveWindow(u, w) ELSE u
     IN ui' = IF w = Null THEN ui
              ELSE IF left.fault = "none" THEN UpdateStatusbar(left)
              ELSE left
  /\ joined' = joined \ {o}
  /\ UNCHANGED connected

-----------------------------------------------------------------------------
(* Events about others.                                                     *)

\* PrivmsgEvent and NoticeEvent, and the JoinEvent of somebody else, need the
\* window of the channel or of the other user.
Message(o) ==
  /\ o.server \in connected
  /\ IsChannelObject(o) => o \in joined \/ Joinable(o)
  /\ OpenWindow(o)
  /\ UNCHANGED <<connected, joined>>

IsUser(u, w) == u.obj[w] # Null /\ ~IsChannelObject(u.obj[w])

\* windowsForUser: the windows of a user are found by value, with the nicks that
\* both have now; rooms are the channel windows whose channel has the user,
\* which is the library's to say.
WindowsForUser(u, who, rooms) ==
  rooms \cup {w \in Conversations(u) :
                IsUser(u, w) /\ FullName(u, u.obj[w]) = FullName(u, who)}

\* The status bar is redrawn when one of ws is the active window.
RedrawFor(u, ws) == IF u.active \in ws THEN UpdateStatusbar(u) ELSE u

\* QuitEvent: only the window that holds this very object is killed.
UserQuit(who, rooms) ==
  /\ Running
  /\ ~IsChannelObject(who) /\ who.server \in connected
  /\ LET gone == {w \in WindowsForUser(ui, who, rooms) : ui.obj[w] = who}
     IN ui' = RedrawFor([ui EXCEPT !.dead =
                [w \in Window |-> @[w] \/ w \in gone]], gone)
  /\ UNCHANGED <<connected, joined>>

\* UserAppearedEvent
UserAppeared(who, rooms) ==
  /\ Running
  /\ ~IsChannelObject(who) /\ who.server \in connected
  /\ LET here == WindowsForUser(ui, who, rooms)
     IN ui' = RedrawFor([ui EXCEPT !.dead =
                [w \in Window |-> @[w] /\ w \notin here]], here)
  /\ UNCHANGED <<connected, joined>>

\* NickEvent: the object of the user has the new name when it is raised.
NickChange(who, n) ==
  /\ who.server \in connected
  /\ Rename(who, n)
  /\ UNCHANGED <<connected, joined>>

\* ServerStatusEvent ends with the status bar, and with the overlay when it is
\* active.
ServerStatus == RefreshStatusbar /\ UNCHANGED <<connected, joined>>

-----------------------------------------------------------------------------
(* serverRemoved.                                                           *)

\* std::deque::erase at index i, seen in memory: slots from lo on hold the
\* elements.  The shorter side moves over: elements before i one slot back, or
\* elements behind it one slot forward.
EraseInPlace(d, i) ==
  LET p == d.lo + i - 1
      hi == d.lo + d.size - 1
  IN IF 2 * i <= d.size  \* the index i - 1 is below size / 2, rounded down
     THEN [lo |-> d.lo + 1, size |-> d.size - 1,
           slots |-> [j \in DOMAIN d.slots |->
             IF j \in (d.lo + 1)..p THEN d.slots[j - 1] ELSE d.slots[j]]]
     ELSE [lo |-> d.lo, size |-> d.size - 1,
           slots |-> [j \in DOMAIN d.slots |->
             IF j \in p..(hi - 1) THEN d.slots[j + 1] ELSE d.slots[j]]]

\* One turn of the loop, at slot i: the iterator keeps walking down memory
\* whatever erase has moved under it.
LoopTurn(st, i, server) ==
  LET w == st.deque.slots[i]
  IN IF st.ui.fault # "none" THEN st
     ELSE IF w \notin Live(st.ui) THEN [st EXCEPT !.ui = Faulty(@, "freed")]
     ELSE IF st.ui.obj[w] = Null \/ st.ui.obj[w].server # server THEN st
     ELSE [ui |-> RemoveWindow(st.ui, w),
           deque |-> EraseInPlace(st.deque, Position(st.ui.children, w))]

\* Variant: the children are dropped without a call of removeWindow.
WithoutChildren(u, server) ==
  [u EXCEPT !.children = SelectSeq(@, LAMBDA w :
     u.obj[w] = Null \/ u.obj[w].server # server)]

\* The windows after the loop over all children, last to first.
WithoutServer(u, server) ==
  LET n == Len(u.children)
      start == [ui |-> u,
                deque |-> [lo |-> 1, size |-> n, slots |-> u.children]]
      turn[k \in 0..n] ==
        IF k = 0 THEN start ELSE LoopTurn(turn[k - 1], n + 1 - k, server)
  IN turn[n].ui

\* CommandEvent of the QuitCommand that /disconnect sends, a command like every
\* other: the key that enters it has lifted the overlay.
ServerRemoved(server) ==
  /\ server \in connected
  /\ OnKey(LAMBDA u : WithoutServer(u, server))
  /\ connected' = connected \ {server}
  /\ joined' = {o \in joined : o.server # server}

-----------------------------------------------------------------------------

\* The person at the terminal: keys, /wc, /move, and clicks on a name.
Person ==
  /\ \/ KeyOverlay \/ KeyNext \/ KeyPrevious
     \/ \E n \in 0..Len(ui.children) : KeyIndex(n) \/ CommandMove(n)
     \/ CommandWindowClose
     \/ \E o \in Object : /\ ~IsChannelObject(o) /\ o.server \in connected
                          /\ OpenAndFocus(o)
  /\ UNCHANGED <<connected, joined>>

ChannelWindows(u) == {w \in Conversations(u) : IsChannel(u, w)}

Event ==
  \/ \E o \in Object :
       \/ SelfJoin(o) \/ SelfKick(o) \/ Message(o)
       \/ \E close \in BOOLEAN : SelfPart(o, close)
       \/ \E n \in Nick : NickChange(o, n)
       \/ \E rooms \in SUBSET ChannelWindows(ui) :
            UserQuit(o, rooms) \/ UserAppeared(o, rooms)
  \/ ServerStatus
  \/ \E server \in Server : ServerRemoved(server)

ClientNext == Person \/ Event

ClientSpec == ClientInit /\ [][ClientNext]_vars

-----------------------------------------------------------------------------
(* Properties.                                                              *)

\* Whatever was joined, left, killed, closed and joined again under another
\* object: a channel we are in has a window, and one that is not dead, so that
\* lines typed there are sent and /wc does not close it.
JoinedOpen ==
  Running => \A o \in joined : \E w \in Conversations(ui) :
               SameName(ui.obj[w], o) /\ ~ui.dead[w]

\* t is what is left of the list s: the windows that are still open, in the
\* order they had.
LeftOf(s, t) ==
  /\ ToSet(t) = ToSet(s) \cap Live(ui')
  /\ \A i, j \in DOMAIN t : i < j => Position(s, t[i]) < Position(s, t[j])

\* A channel or a server is left.
Leaving ==
  joined' \subseteq joined /\ <<connected, joined>>' # <<connected, joined>>

\* Leaving a channel or a server takes the person to another window only when
\* it closes the active one; then the window looked at last of those that are
\* left becomes active, however many are closed, and the order of the windows
\* left is as before in both lists.
FocusFollowsHistory ==
  [][Leaving /\ Running' =>
       LET u == IF connected' = connected THEN ui ELSE Dismiss(ui)
       IN /\ ui'.active = IF u.active \in Live(ui') THEN u.active
                          ELSE Head(ui'.windows)
          /\ LeftOf(u.windows, ui'.windows)
          /\ LeftOf(u.children, ui'.children)]_vars

\* "so that the correct window can be restored when the overlay is closed"
\* (Interface.h): the window the overlay covers stays open.  The code does not
\* keep this: closing the covered window leaves beforeOverlay pointing to it.
CoveredStaysOpen ==
  ui.active = Overlay => ui.beforeOverlay \in Live(ui)

\* serverRemoved leaves no window of the server.  The code does not keep this:
\* erase in the front half of the deque moves the next window to the slot the
\* loop has just looked at.
NoOrphans ==
  Running => \A w \in Conversations(ui) : ui.obj[w].server \in connected
=============================================================================
