---------------------------- MODULE Notifications ----------------------------
(***************************************************************************)
(* What the person is told of windows that are not on the screen: the       *)
(* notification level a Window keeps, the plugin that shows the levels in   *)
(* the status bar (src/src/plugins/notifications), /gather, and the bar     *)
(* itself, which is a copy: it says what was true when it was last drawn.   *)
(* The lines come from the handlers of the events, so this module composes  *)
(* Client with the lines its handlers write.                                *)
(***************************************************************************)
EXTENDS Client

CONSTANTS
  Spoken,  \* bound: the levels a message, a notice or a report can have
  Place    \* bound: the positions /move and Alt with a digit are given

\* NotificationType
None == 0
Info == 1
Talk == 2
Highlight == 3
Level == None..Highlight

ASSUME SpokenAssumption == Spoken \subseteq Level /\ Place \subseteq Nat

VARIABLES
  note,    \* what the windows, the status bar and the plugin hold
  unseen   \* the highest line a window got since it was last on the screen

allVars == <<vars, note, unseen>>

\* The state the handlers work on.
Now == [ui |-> ui, note |-> note, unseen |-> unseen]

Becomes(s) == ui' = s.ui /\ note' = s.note /\ unseen' = s.unseen

Unharmed(s) == s.ui.fault = "none"

-----------------------------------------------------------------------------
(* The status bar.                                                          *)

Shown(u) == IF u.active = Overlay THEN u.beforeOverlay ELSE u.active

\* getIndex of a window, counted from one as it is shown.
Digit(u, w) == Position(Indexed(u), w)

\* WindowInfoLeftWidget and WindowInfoRightWidget: the index, the name that the
\* channel or the user has now, the server, and whether the window is dead.  What
\* the right one says at the status window, the active server, is left out.
Label(u) ==
  LET w == Shown(u)
  IN IF w = Null THEN <<0, Null, FALSE>>
     ELSE IF u.obj[w] = Null THEN <<Digit(u, w), Null, u.dead[w]>>
     ELSE <<Digit(u, w), FullName(u, u.obj[w]), u.dead[w]>>

\* NotificationsWidget
Marks(s) ==
  {<<Digit(s.ui, w), s.note.level[w]>> : w \in
     {v \in ToSet(Indexed(s.ui)) \ {s.ui.active} : s.note.level[v] # None}}

\* The text of the bar with the widgets that are loaded.
Bar(s) == [label |-> Label(s.ui), marks |-> Marks(s)]

\* renderStatusbar and Interface::updateStatusbar
Redraw(s) ==
  LET u == UpdateStatusbar(s.ui)
  IN IF u.fault # "none" THEN [s EXCEPT !.ui = u]
     ELSE [s EXCEPT !.note.bar = Bar(s)]

-----------------------------------------------------------------------------
(* Lines and levels.                                                        *)

\* Window::notify, and what the plugin's listeners do meanwhile.
Notify(s, w, v) ==
  LET raised == [s EXCEPT !.note.level[w] = v]
  IN IF s.note.level[w] >= v THEN s
     ELSE IF w = s.ui.active THEN [raised EXCEPT !.note.level[w] = None]
     ELSE Redraw(raised)

\* operator+= for a line of level v.
AddLine(s, w, v) ==
  Notify([s EXCEPT !.unseen[w] =
            IF w = s.ui.active \/ @ > v THEN @ ELSE v], w, v)

\* A loop over windows, in the order in which windowsForUser returns them.
ForEach(Op(_, _), s, ws) ==
  LET order == s.ui.children
      after[i \in 0..Len(order)] ==
        IF i = 0 THEN s
        ELSE IF order[i] \in ws THEN Op(after[i - 1], order[i]) ELSE after[i - 1]
  IN after[Len(order)]

\* Variant: the level of the window stays when it is focused.
ShowKeepsLevel(s, u) ==
  IF u.active = s.ui.active THEN [s EXCEPT !.ui = u]
  ELSE Redraw([s EXCEPT !.ui = u, !.unseen[u.active] = None])

\* The end of an operation that went through focusWindow: when another window
\* became active its level is forgotten and the bar drawn.
Show(s, u) ==
  IF u.active = s.ui.active THEN [s EXCEPT !.ui = u]
  ELSE Redraw([s EXCEPT !.ui = u, !.note.level[u.active] = None,
                        !.unseen[u.active] = None])

FocusOn(s, w) == Show(s, Focus(s.ui, w))

\* Variant: the window stays in the recency list.
RemovedListed(s, w) ==
  [s EXCEPT !.ui = [RemoveWindow(@, w) EXCEPT !.windows = s.ui.windows],
            !.note.level[w] = None, !.unseen[w] = None]

\* removeWindow: unnotify tells the listener the window has a level still, and
\* the bar is drawn while it is among the children; nothing is drawn after.
Removed(s, w) ==
  LET rest == Erase(s.ui.windows, w)
      left == IF s.ui.active = w
              THEN FocusOn([s EXCEPT !.ui.windows = rest], Head(rest)) ELSE s
      told == IF left.note.level[w] # None THEN Redraw(left)
              ELSE left
  IN IF ~Unharmed(told) THEN told
     ELSE [told EXCEPT !.ui = RemoveWindow(s.ui, w), !.note.level[w] = None,
                       !.unseen[w] = None]

WithWindow(s, o, fresh) == [s EXCEPT !.ui = Ensure(s.ui, o, fresh)]

-----------------------------------------------------------------------------
(* The person at the terminal.                                              *)

\* A key or a command: the overlay is lifted before it is handled.
Typed(Handler(_)) ==
  LET s == Show(Now, Dismiss(ui))
  IN Becomes(IF Unharmed(s) THEN Handler(s) ELSE s)

\* Keys that focus another window, and a click on a name.
FocusKeys ==
  \/ Becomes(Show(Now, Toggle(ui)))
  \/ Typed(LAMBDA s : Show(s, NextWindow(s.ui)))
  \/ Typed(LAMBDA s : Show(s, PreviousWindow(s.ui)))
  \/ \E n \in Place : Typed(LAMBDA s : Show(s, FocusIndex(s.ui, n)))
  \/ \E o \in Object : /\ ~IsChannelObject(o) /\ o.server \in connected
                       /\ \E fresh \in Allocation(ui, o) :
                            LET s == WithWindow(Now, o, fresh)
                            IN Becomes(FocusOn(s, Find(s.ui, o)))

\* /move and /wc
WindowCommands ==
  \/ \E n \in Place :
       Typed(LAMBDA s :
         Redraw([s EXCEPT !.ui = MoveWindow(s.ui, s.ui.active, n)]))
  \/ Typed(LAMBDA s :
       IF CanRemove(s.ui, s.ui.active) THEN Removed(s, s.ui.active) ELSE s)

\* Window::operator+= of what a command or a thread reports in the status
\* window: log, success or warn, and error.
Report(v) == Becomes(AddLine(Now, Status, v))

\* The clock's tick on the heartbeat thread draws the bar.
Tick ==
  /\ Unharmed(Now)
  /\ Becomes(Redraw(Now))
  /\ UNCHANGED <<connected, joined>>

PersonActs ==
  /\ Unharmed(Now)
  /\ \/ FocusKeys \/ WindowCommands
     \/ \E v \in Spoken \cup {None} : Report(v)
  /\ UNCHANGED <<connected, joined>>

-----------------------------------------------------------------------------
(* The handlers of the events, with the lines they write.                   *)

\* JoinEvent, who is ourselves.
SelfJoins(o) ==
  /\ Joinable(o)
  /\ \E fresh \in Allocation(ui, o) :
       LET s == WithWindow(Now, o, fresh)
           w == Find(s.ui, o)
           said == AddLine(s, w, Info)
       IN Becomes(Redraw(FocusOn([said EXCEPT !.ui = Revive(@, w)], w)))
  /\ joined' = joined \cup {o}

\* updateStatusbar when the window is the active one.
RedrawIf(s, w) == IF w = s.ui.active THEN Redraw(s) ELSE s

\* KickEvent, whom is ourselves.
SelfKicked(o) ==
  /\ o \in joined
  /\ LET w == Find(ui, o)
     IN Becomes(IF w = Null THEN Now
                ELSE AddLine(RedrawIf([Now EXCEPT !.ui = Kill(@, w)], w), w, Highlight))
  /\ joined' = joined \ {o}

\* Variant: the bar is not drawn again.
SelfPartsUnseen(o, close) ==
  /\ o \in joined
  /\ LET w == Find(ui, o)
         said == AddLine(Now, w, Info)
         killed == [said EXCEPT !.ui = Kill(@, w)]
     IN Becomes(IF w = Null THEN AddLine(Now, Status, None)
                ELSE IF close THEN Removed(killed, w) ELSE killed)
  /\ joined' = joined \ {o}

\* PartEvent, who is ourselves.
SelfParts(o, close) ==
  /\ o \in joined
  /\ LET w == Find(ui, o)
         said == AddLine(Now, w, Info)
         killed == [said EXCEPT !.ui = Kill(@, w)]
     IN Becomes(IF w = Null THEN AddLine(Now, Status, None)
                ELSE Redraw(IF close THEN Removed(killed, w) ELSE killed))
  /\ joined' = joined \ {o}

\* PrivmsgEvent, NoticeEvent, and the JoinEvent of somebody else: the window
\* is made if there is none.
Says(o, v) ==
  /\ IsChannelObject(o) => o \in joined \/ Joinable(o)
  /\ v = Info => IsChannelObject(o)
  /\ \E fresh \in Allocation(ui, o) :
       LET s == WithWindow(Now, o, fresh) IN Becomes(AddLine(s, Find(s.ui, o), v))
  /\ UNCHANGED joined

\* A NoticeEvent without a speaker, in the window that is active.
ServerNotice == Becomes(AddLine(Now, ui.active, Highlight)) /\ UNCHANGED joined

\* PartEvent and KickEvent of somebody else, ModeEvent and TopicEvent: a line
\* in the channel's window if there is one.
Happens(o) ==
  /\ o \in joined
  /\ LET w == Find(ui, o)
     IN Becomes(IF w = Null THEN AddLine(Now, Status, None) ELSE AddLine(Now, w, Info))
  /\ UNCHANGED joined

\* getActiveUser: the overlay is nobody's.
ActiveUser(u) == IF IsUser(u, u.active) THEN u.obj[u.active] ELSE Null

\* A user has another nick: NickUpdatedEvent, for which the plugin of the widgets
\* draws the bar if the active window is the user's, and NickEvent, a line in
\* each window where the user is.
ChangesNick(who, n, rooms) ==
  /\ ~IsChannelObject(who)
  /\ LET renamed == [Now EXCEPT !.ui.name[who] = n]
         told == IF ActiveUser(renamed.ui) = who THEN Redraw(renamed) ELSE renamed
     IN Becomes(ForEach(LAMBDA s, w : AddLine(s, w, Info), told,
                        WindowsForUser(told.ui, who, rooms)))
  /\ UNCHANGED joined

\* QuitEvent
Quits(who, rooms) ==
  /\ ~IsChannelObject(who)
  /\ LET OneQuits(s, w) ==
           LET said == AddLine(s, w, Info)
           IN IF ui.obj[w] = who THEN RedrawIf([said EXCEPT !.ui = Kill(@, w)], w)
              ELSE said
     IN Becomes(ForEach(OneQuits, Now, WindowsForUser(ui, who, rooms)))
  /\ UNCHANGED joined

\* UserAppearedEvent
Appears(who, rooms) ==
  /\ ~IsChannelObject(who)
  /\ Becomes(ForEach(LAMBDA s, w : RedrawIf([s EXCEPT !.ui = Resurrect(@, w)], w),
                     Now, WindowsForUser(ui, who, rooms)))
  /\ UNCHANGED joined

\* ServerStatusEvent: the report when the server is ready, and the bar.
StatusReport(ready) ==
  /\ Becomes(Redraw(IF ready THEN AddLine(Now, Status, None) ELSE Now))
  /\ UNCHANGED joined

Happening ==
  /\ Unharmed(Now)
  /\ \/ \E o \in {p \in Object : p.server \in connected} :
          \/ SelfJoins(o) \/ SelfKicked(o) \/ Happens(o)
          \/ \E close \in BOOLEAN : SelfParts(o, close)
          \/ \E v \in Spoken \cup {Info} : Says(o, v)
          \/ \E rooms \in SUBSET ChannelWindows(ui) :
               \/ \E n \in Nick : ChangesNick(o, n, rooms)
               \/ Quits(o, rooms) \/ Appears(o, rooms)
     \/ ServerNotice \/ \E ready \in BOOLEAN : StatusReport(ready)
  /\ UNCHANGED connected

-----------------------------------------------------------------------------
(* serverRemoved.                                                           *)

\* One turn of the loop, as LoopTurn, with what removeWindow does to the bar.
Turn(st, i, server) ==
  LET w == st.deque.slots[i]
      u == st.screen.ui
  IN IF ~Unharmed(st.screen) THEN st
     ELSE IF w \notin Live(u) THEN [st EXCEPT !.screen.ui = Faulty(@, "freed")]
     ELSE IF u.obj[w] = Null \/ u.obj[w].server # server THEN st
     ELSE [screen |-> Removed(st.screen, w),
           deque |-> EraseInPlace(st.deque, Position(u.children, w))]

\* The loop over all children, last to first.
RemovedServer(s, server) ==
  LET n == Len(s.ui.children)
      start == [screen |-> s, deque |-> [lo |-> 1, size |-> n, slots |-> s.ui.children]]
      turn[k \in 0..n] ==
        IF k = 0 THEN start ELSE Turn(turn[k - 1], n + 1 - k, server)
  IN turn[n].screen

\* CommandEvent of the QuitCommand that /disconnect sends.
ServerQuits(server) ==
  /\ Unharmed(Now)
  /\ server \in connected
  /\ Typed(LAMBDA s : RemovedServer(s, server))
  /\ connected' = connected \ {server}
  /\ joined' = {o \in joined : o.server # server}
-----------------------------------------------------------------------------

NotesInit ==
  /\ ClientInit
  /\ note = [level |-> [w \in Window |-> None],
             bar |-> [label |-> Label(InitialUI), marks |-> {}]]
  /\ unseen = [w \in Window |-> None]

NotesNext ==
  \/ PersonActs
  \/ Happening
  \/ \E server \in Server : ServerQuits(server)
  \/ Tick

-----------------------------------------------------------------------------
(* Properties.                                                              *)

\* The bar tells the truth.
Current == note.bar = Bar(Now)

\* What the bar says when it is current is what the person has missed: Alt and
\* the digit of a mark show a window with a line of that level that nobody has
\* seen, and no other line above None is missing, whatever was focused, moved,
\* closed and covered.
MarksTellUnseen ==
  Unharmed(Now) /\ Current =>
    note.bar.marks =
      {<<n, unseen[FocusIndex([ui EXCEPT !.active = Overlay], n - 1).active]>> :
         n \in {k \in DOMAIN Indexed(ui) : unseen[Indexed(ui)[k]] # None}}

\* Between two ticks of the clock the bar goes out of date in three cases only:
\* a window is closed (removeWindow draws before it removes the child, if at
\* all), the covered window dies or comes back to life (the handlers compare with
\* activeWindow), or its user has another nick (getActiveUser does not look below
\* the overlay).
StaleInThreeCases ==
  [][Unharmed(Now) /\ Current /\ Unharmed(Now)' =>
       LET w == ui.beforeOverlay
       IN \/ Current'
          \/ Live(ui) \ Live(ui') # {}
          \/ /\ ui.active = Overlay
             /\ \/ ui.dead[w] # ui'.dead[w]
                \/ IsUser(ui, w) /\ ui.name[ui.obj[w]] # ui'.name[ui.obj[w]]]_allVars
=============================================================================
