------------------------------ MODULE Interface ------------------------------
(***************************************************************************)
(* The windows of the client: src/src/ui/Interface.cpp.                     *)
(*                                                                          *)
(* The interface keeps every window twice: in `windows`, a list ordered by  *)
(* when a window was last focused, and in the children of the swapbox,      *)
(* ordered as the person at the terminal arranged them.  One window is      *)
(* active.  While the overlay is active, beforeOverlay is a raw pointer to  *)
(* the window it hides.  Each operation of the class is an operator from    *)
(* the state of the interface to its state afterwards, so that handlers can *)
(* be composed of them the way the code composes the calls.                 *)
(***************************************************************************)
EXTENDS Naturals, SequencesExt

CONSTANTS
  Window,       \* addresses at which a window can live
  Status,       \* the address of statusWindow
  Overlay,      \* the address of the overlay
  Null,         \* the null pointer
  Server,       \* the servers of the client
  ChannelName,  \* names of channels, in lower case
  Nick,         \* names of users, in lower case
  Object        \* the shared channels and users of the IRC library

ASSUME WindowAssumption ==
  /\ {Status, Overlay} \subseteq Window
  /\ Status # Overlay
  /\ Null \notin Window

\* Names of channels begin with a sign that nicks have not.
ASSUME NameAssumption == ChannelName \cap Nick = {}

\* Full names: the id of a server, a slash, and a name in lower case.
FullNames == [server : Server, name : ChannelName \cup Nick]

\* A channel that is left and joined again is another object with the same
\* name: gen tells the two apart.  A user keeps its object when the nick is
\* changed; name is the one the library made it with.
ASSUME ObjectAssumption ==
  /\ Object \subseteq
       [server : Server, name : ChannelName \cup Nick, gen : Nat]
  /\ Null \notin Object \cup FullNames

IsChannelObject(o) == o.name \in ChannelName

Fault == {"none", "freed", "unlisted"}

VARIABLE
  ui  \* the state of the Interface object and of its Window objects, and the
      \* names that the library's objects have now

-----------------------------------------------------------------------------
(* Lists of windows.                                                        *)

\* The index at which std::find stops.
Position(s, w) ==
  CHOOSE i \in DOMAIN s : s[i] = w /\ \A j \in 1..(i - 1) : s[j] # w

\* std::find, then erase.
Erase(s, w) == IF w \in ToSet(s) THEN RemoveAt(s, Position(s, w)) ELSE s

\* The first window of s that is in S, or the null pointer.
FirstIn(s, S) ==
  LET hits == {i \in DOMAIN s : s[i] \in S}
  IN IF hits = {} THEN Null
     ELSE s[CHOOSE i \in hits : \A j \in hits : i <= j]

\* The windows Alt and a digit can reach: the overlay has no index.
Indexed(u) == Erase(u.children, Overlay)

Live(u) == ToSet(u.children)

\* A pointer is followed that no longer points to a window, or an exception
\* leaves the operation half done: the program does not go on.
Faulty(u, kind) == [u EXCEPT !.fault = kind]

-----------------------------------------------------------------------------
(* The operations of the class.                                             *)

\* updateStatusbar and updateOverlay look into the window the overlay hides.
UpdateStatusbar(u) ==
  LET shown == IF u.active = Overlay THEN u.beforeOverlay ELSE u.active
  IN IF shown \in Live(u) \cup {Null} THEN u ELSE Faulty(u, "freed")

\* Variant: the pointer to the hidden window is not cleared.
LiftKeepsPointer(u) == u

\* The overlay stops covering the window below it.
Lift(u) == IF u.active = Overlay THEN [u EXCEPT !.beforeOverlay = Null] ELSE u

\* Variant: push_back for push_front.
ToBack(s, w) == Erase(s, w) \o <<w>>

\* The window goes to the front of the recency list.
ToFront(s, w) == <<w>> \o Erase(s, w)

\* focusWindow(Window *): the null pointer stands for the status window.
Focus(u, win) ==
  LET w == IF win = Null THEN Status ELSE win
      shown == [Lift(u) EXCEPT !.active = w]
  IN IF w = u.active THEN Lift(u)
     ELSE IF w \notin Live(u) THEN Faulty(shown, "freed")
     ELSE IF w = Overlay THEN UpdateStatusbar(shown)
     ELSE IF w \notin ToSet(u.windows) THEN Faulty(shown, "unlisted")
     ELSE [shown EXCEPT !.windows = ToFront(@, w)]

\* toggleOverlay
Toggle(u) ==
  IF u.active = Overlay
  THEN Focus(u, u.beforeOverlay)
  ELSE Focus([u EXCEPT !.beforeOverlay = u.active], Overlay)

\* The overlay's keyFunction: whatever key is pressed, the overlay goes away
\* before the key is handled.
Dismiss(u) == IF u.active = Overlay THEN Toggle(u) ELSE u

\* focusWindow(size_t); Alt+1 is index 0.
FocusIndex(u, n) ==
  IF n < Len(Indexed(u)) THEN Focus(u, Indexed(u)[n + 1]) ELSE u

\* nextWindow and previousWindow go round the children and skip the overlay.
After(s, i) == IF i = Len(s) THEN 1 ELSE i + 1
BeforeOf(s, i) == IF i = 1 THEN Len(s) ELSE i - 1

\* Variant: the search starts again at the first child behind the overlay.
NextRestarts(u) ==
  LET s == u.children
      i == After(s, Position(s, u.active))
  IN Focus(u, s[IF s[i] = Overlay THEN 1 ELSE i])

NextWindow(u) ==
  LET s == u.children
      i == After(s, Position(s, u.active))
  IN Focus(u, s[IF s[i] = Overlay THEN After(s, i) ELSE i])

PreviousWindow(u) ==
  LET s == u.children
      i == BeforeOf(s, Position(s, u.active))
  IN Focus(u, s[IF s[i] = Overlay THEN BeforeOf(s, i) ELSE i])

\* Variant: the overlay keeps its place and counts like any other child.
MoveAmongAll(u, w, newpos) ==
  LET others == Erase(u.children, w)
      pos == IF newpos < Len(others) THEN newpos ELSE Len(others)
  IN [u EXCEPT !.children = InsertAt(others, pos + 1, w)]

\* moveWindow: an overlay that is not last is taken out first and put back at
\* the end; one that is last stays where it is.
MoveWindow(u, w, newpos) ==
  LET overlayLast == Last(u.children) = Overlay
      others == Erase(IF overlayLast THEN u.children ELSE Indexed(u), w)
      pos == IF newpos < Len(others) THEN newpos ELSE Len(others)
      moved == InsertAt(others, pos + 1, w)
  IN IF w \notin Live(u) THEN u
     ELSE UpdateStatusbar([u EXCEPT !.children =
            IF overlayLast THEN moved ELSE Append(moved, Overlay)])

\* What newWindow calls a window and what getWindow looks for: the object may
\* have another name by then.
FullName(u, o) == [server |-> o.server, name |-> u.name[o]]

\* Variant: the window is not added to the recency list.
NewWindowUnlisted(u, fresh, o) ==
  [u EXCEPT !.children = Append(@, fresh),
            !.obj[fresh] = o, !.windowName[fresh] = FullName(u, o)]

\* newWindow: `fresh` is the address the allocator returns.  The window keeps
\* the name that the object has now.
NewWindow(u, fresh, o) ==
  [u EXCEPT !.windows = Append(@, fresh),
            !.children = Append(@, fresh),
            !.obj[fresh] = o, !.windowName[fresh] = FullName(u, o)]

\* Variant: objects are compared, names are not.
FindByPointer(u, o) ==
  FirstIn(u.children, {w \in Live(u) : u.obj[w] = o})

\* getWindow(channel or user, false): the window that holds this object, else
\* one that is named as the object is now, which keeps its old object.
Find(u, o) ==
  LET holding == {w \in Live(u) : u.obj[w] = o}
      named == {w \in Live(u) : u.windowName[w] = FullName(u, o)}
  IN FirstIn(u.children, IF holding # {} THEN holding ELSE named)

\* getWindow(channel or user, true): the state once the window is there.
Ensure(u, o, fresh) == IF Find(u, o) # Null THEN u ELSE NewWindow(u, fresh, o)

\* Variant: the status window is focused in place of the window used last.
RemoveToStatus(u, w) ==
  LET left == IF u.active = w THEN Focus(u, Null) ELSE u
  IN [left EXCEPT !.windows = Erase(@, w), !.children = Erase(@, w),
                  !.obj[w] = Null, !.windowName[w] = Null, !.dead[w] = FALSE]

\* removeWindow: beforeOverlay is not looked at.
RemoveWindow(u, w) ==
  LET unlisted == [u EXCEPT !.windows = Erase(@, w)]
      left == IF u.active = w THEN Focus(unlisted, Head(unlisted.windows))
              ELSE unlisted
  IN IF w \notin Live(u) THEN Faulty(u, "freed")
     ELSE [left EXCEPT !.children = Erase(@, w),
                       !.obj[w] = Null, !.windowName[w] = Null,
                       !.dead[w] = FALSE]

IsChannel(u, w) == u.obj[w] # Null /\ IsChannelObject(u.obj[w])

\* canRemove
CanRemove(u, w) ==
  /\ w \notin {Status, Overlay}
  /\ IsChannel(u, w) => u.dead[w]

\* Window::kill and Window::resurrect
Kill(u, w) == [u EXCEPT !.dead[w] = TRUE]
Resurrect(u, w) == [u EXCEPT !.dead[w] = FALSE]

-----------------------------------------------------------------------------
(* The keys and the calls the rest of the client makes, in any order.       *)

InitialUI ==
  [windows |-> <<Status, Overlay>>,
   children |-> <<Status, Overlay>>,
   active |-> Status,
   beforeOverlay |-> Null,
   obj |-> [w \in Window |-> Null],
   windowName |-> [w \in Window |-> Null],
   name |-> [o \in Object |-> o.name],
   dead |-> [w \in Window |-> FALSE],
   fault |-> "none"]

Init == ui = InitialUI

Running == ui.fault = "none"

KeyOverlay == Running /\ ui' = Toggle(ui)

\* A key that is not the overlay's own: if following a stale beforeOverlay
\* ends the program, the key is never handled.
OnKey(Handler(_)) ==
  /\ Running
  /\ LET u == Dismiss(ui)
     IN ui' = IF u.fault = "none" THEN Handler(u) ELSE u

KeyNext == OnKey(NextWindow)

KeyPrevious == OnKey(PreviousWindow)

KeyIndex(n) == OnKey(LAMBDA u : FocusIndex(u, n))

\* /move, entered like every command by a key
CommandMove(n) == OnKey(LAMBDA u : MoveWindow(u, u.active, n))

\* /wc
CommandWindowClose ==
  OnKey(LAMBDA u :
    IF CanRemove(u, u.active) THEN RemoveWindow(u, u.active) ELSE u)

\* The addresses operator new can return when getWindow needs a window: any
\* that is free, one that belonged to a closed window among them.
Allocation(u, o) == IF Find(u, o) # Null THEN {Null} ELSE Window \ Live(u)

\* A click on the name in a message, and a channel that is joined, open the
\* window of the object and focus it.
OpenAndFocus(o) ==
  /\ Running
  /\ \E fresh \in Allocation(ui, o) :
       LET u == Ensure(ui, o, fresh) IN ui' = Focus(u, Find(u, o))

\* A message arrives for the object.
OpenWindow(o) ==
  Running /\ \E fresh \in Allocation(ui, o) : ui' = Ensure(ui, o, fresh)

\* What many handlers end with.
RefreshStatusbar == Running /\ ui' = UpdateStatusbar(ui)

KillWindow(w) == Running /\ ui' = Kill(ui, w)

ResurrectWindow(w) == Running /\ ui' = Resurrect(ui, w)

\* removeWindow as the handlers of the server's events call it.
CloseWindow(w) == Running /\ ui' = RemoveWindow(ui, w)

\* Of the library: a user's nick changes, in the object that windows hold.
Rename(o, n) ==
  /\ Running
  /\ ~IsChannelObject(o)
  /\ ui' = [ui EXCEPT !.name[o] = n]

Conversations(u) == Live(u) \ {Status, Overlay}

Next ==
  \/ KeyOverlay \/ KeyNext \/ KeyPrevious
  \/ \E n \in 0..Len(ui.children) : KeyIndex(n) \/ CommandMove(n)
  \/ CommandWindowClose \/ RefreshStatusbar
  \/ \E o \in Object : \/ OpenAndFocus(o) \/ OpenWindow(o)
                       \/ \E n \in Nick : Rename(o, n)
  \/ \E w \in Conversations(ui) :
       KillWindow(w) \/ ResurrectWindow(w) \/ CloseWindow(w)

Spec == Init /\ [][Next]_ui

-----------------------------------------------------------------------------
(* Properties.                                                              *)

\* The type of the state: the lists hold windows, each pointer is null or the
\* address of some window, open or not.
UIState ==
  [windows : Seq(Window), children : Seq(Window),
   active : Window, beforeOverlay : Window \cup {Null},
   obj : [Window -> Object \cup {Null}],
   windowName : [Window -> FullNames \cup {Null}],
   name : [Object -> ChannelName \cup Nick],
   dead : [Window -> BOOLEAN], fault : Fault]

TypeOK == ui \in UIState

\* The recency list and the children of the swapbox hold the same windows,
\* none of them twice, whatever was opened, moved and closed: the exceptions
\* "Window is inexplicably not in the windows list" (focusWindow) and "not a
\* child of swappo" (removeWindow) are never thrown.
SameWindows ==
  /\ IsInjective(ui.windows) /\ IsInjective(ui.children)
  /\ ToSet(ui.windows) = ToSet(ui.children)
  /\ {Status, Overlay} \subseteq Live(ui)
  /\ ui.fault # "unlisted"

\* The overlay is active exactly while it covers a window, and never covers
\* itself: otherwise the key that lifts it would show it again.
OverlayCovers ==
  Running => /\ (ui.active = Overlay) = (ui.beforeOverlay # Null)
             /\ ui.beforeOverlay # Overlay

\* No dangling pointer is in use and none is about to be.
Intact == Running /\ ui.beforeOverlay \in Live(ui) \cup {Null}

\* getWindow makes no second window for a conversation, not even when the
\* object it is asked about is a new one under an old name, or an old one under
\* a new name: no two windows hold one object, and none bears the name of
\* another.  (A user who changed the nick and is met again as another object is
\* given a window of the new name beside the old window, which bears the old
\* one; and whoever takes the old nick is shown in the old window.)
OneWindowPerName ==
  \A v, w \in Conversations(ui) :
    /\ ui.obj[v] # Null
    /\ ui.obj[v] = ui.obj[w] \/ ui.windowName[v] = ui.windowName[w] => v = w

\* Pressing the key for the next window as often as there are windows shows
\* each of them once and ends where it began, and the key for the previous
\* window undoes it, wherever the overlay sits among the children.
CycleVisitsAll ==
  Intact =>
    LET k == Len(Indexed(ui))
        press[n \in 0..k] == IF n = 0 THEN Dismiss(ui)
                             ELSE NextWindow(press[n - 1])
    IN /\ {press[n].active : n \in 1..k} = Live(ui) \ {Overlay}
       /\ press[k].active = press[0].active
       /\ PreviousWindow(press[1]).active = press[0].active

\* After "/move n" the window is the one that Alt and the digit n reach (or
\* the last, when there are fewer), and the order of the others is as before,
\* wherever the overlay sits among the children.
MovedWhereAsked ==
  Intact =>
    LET u == Dismiss(ui)
    IN \A n \in 0..Len(u.children) :
         LET m == MoveWindow(u, u.active, n)
             i == IF n < Len(Indexed(m)) THEN n ELSE Len(Indexed(m)) - 1
         IN /\ FocusIndex([m EXCEPT !.active = Overlay], i).active = u.active
            /\ Erase(Indexed(m), u.active) = Erase(Indexed(u), u.active)
            /\ m.fault = "none"

\* The window that was on top when the overlay came up has been closed.
CoveredLost ==
  Running => ui.active = Overlay /\ ui.beforeOverlay # Head(ui.windows)

\* The window list keeps the promise of FocusHistory: the windows in front of
\* the overlay in the recency list are the ones looked at, latest first.
History ==
  INSTANCE FocusHistory WITH
    Window <- Window \ {Overlay},
    open <- Live(ui) \ {Overlay},
    visited <- SubSeq(ui.windows, 1, Position(ui.windows, Overlay) - 1),
    screen <- ui.active,
    void <- CoveredLost

KeepsFocusHistory == History!Spec
=============================================================================
