---------------------------- MODULE FocusHistory ----------------------------
(***************************************************************************)
(* What the window list of the interface promises to the person at the     *)
(* terminal, without saying how it is kept.                                 *)
(*                                                                          *)
(* The windows that have been looked at are remembered, the latest first,   *)
(* and the latest one is what the screen shows, or what lies under the      *)
(* overlay.  Closing a window brings back the one looked at before it.      *)
(* Lifting the overlay brings back the window it covered.  The promise has  *)
(* one condition: nobody closes the window under the overlay.               *)
(***************************************************************************)
EXTENDS SequencesExt

CONSTANTS
  Window,   \* the windows, the overlay excepted
  Status,   \* the window that is always open
  Overlay   \* what the screen shows when it hides the window

VARIABLES
  open,     \* the windows there are
  visited,  \* those that have been looked at, the latest first
  screen,   \* what can be seen: the latest one, or the overlay above it
  void      \* whether the condition of the promise has been broken

vars == <<open, visited, screen, void>>

Covered == screen = Overlay

Init ==
  /\ open = {Status}
  /\ visited = <<Status>>
  /\ screen = Status
  /\ void = FALSE

\* A window appears behind the one that is shown.
Open(w) ==
  /\ w \notin open
  /\ open' = open \cup {w}
  /\ UNCHANGED <<visited, screen, void>>

\* A window is brought to the screen, above everything else.
Visit(w) ==
  /\ open' = open \cup {w}
  /\ visited' = <<w>> \o RemoveFirst(visited, w)
  /\ screen' = w
  /\ UNCHANGED void

Cover == ~Covered /\ screen' = Overlay /\ UNCHANGED <<open, visited, void>>

Uncover ==
  Covered /\ screen' = Head(visited) /\ UNCHANGED <<open, visited, void>>

Discard(w) ==
  /\ w \in open \ {Status}
  /\ open' = open \ {w}
  /\ visited' = RemoveFirst(visited, w)
  /\ UNCHANGED void

\* A window goes away.  The overlay stays if it was there.
Close(w) ==
  /\ Covered => w # Head(visited)
  /\ Discard(w)
  /\ screen' = IF Covered THEN Overlay ELSE Head(visited')

\* A command typed under the overlay lifts it, then closes the window.
UncoverAndClose ==
  Covered /\ Discard(Head(visited)) /\ screen' = Head(visited')

\* The window under the overlay is closed: nothing is promised any more.
Breach == Covered /\ Head(visited) \notin open' /\ void'

Next ==
  \/ /\ ~void
     /\ \/ \E w \in Window : Open(w) \/ Visit(w) \/ Close(w)
        \/ Cover \/ Uncover \/ UncoverAndClose \/ Breach
  \/ void

Spec == Init /\ [][Next]_vars
=============================================================================
