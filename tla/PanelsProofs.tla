---------------------------- MODULE PanelsProofs ----------------------------
(***************************************************************************)
(* Proofs about Notifications and Panels, for any number of windows,        *)
(* channels, users and lines: no line, level or drawing of the bar changes  *)
(* what Client does to the windows; the bar tells what nobody has seen and   *)
(* gets out of date in the cases that StaleInThreeCases names; the title is    *)
(* that of the window on the screen; and the list in the overlay goes wrong  *)
(* in the cases that ListedAsTheyAre names and in no other.                 *)
(***************************************************************************)
EXTENDS Panels, ClientProofs

-----------------------------------------------------------------------------
(* Levels of windows and the bar.                                           *)


\* The state the handlers work on, and what the bar can say.
Bars == [label : Nat \X (FullNames \cup {Null}) \X BOOLEAN, marks : SUBSET (Nat \X Level)]
Notes ==
  [ui : UIState, note : [level : [Window -> Level], bar : Bars], unseen : [Window -> Level]]

\* The bar tells the truth.
Fresh(s) == s.note.bar = Bar(s)

\* The window below the overlay is open.
Above(u) == u.active = Overlay => u.beforeOverlay \in Live(u)

\* What is needed of the windows to draw the bar.
CanDraw(u) ==
  /\ u \in UIState /\ u.fault = "none" /\ List(u.children)
  /\ Shown(u) \in Live(u) \ {Overlay}

\* Of each window the level is that of the highest line that nobody has seen.
Levels(s) ==
  /\ s.unseen = s.note.level
  /\ s.note.level[s.ui.active] = None
  /\ \A w \in Window \ Live(s.ui) : s.note.level[w] = None

Solid(s) ==
  s \in Notes /\ Kept(s.ui) /\ s.ui.fault = "none" /\ Above(s.ui) /\ Levels(s)

-----------------------------------------------------------------------------
(* The bar.                                                                 *)

\* With sound windows the bar can be drawn.
LEMMA SolidDraws ==
  ASSUME NEW u, Kept(u), u.fault = "none", Above(u)
  PROVE  CanDraw(u) /\ UpdateStatusbar(u) = u
<1>1. u \in UIState /\ List(u.children) /\ Focused(u)
  BY DEF Kept, Sound, Lists
<1>2. Shown(u) \in Live(u) \ {Overlay}
  BY <1>1, WindowAssumption DEF Shown, Focused, Above, Live
<1> QED
  BY <1>1, <1>2 DEF CanDraw, UpdateStatusbar, Shown

\* A window has a digit.
LEMMA DigitTyped ==
  ASSUME NEW u, List(u.children), NEW w \in Live(u) \ {Overlay}
  PROVE  Digit(u, w) \in Nat /\ w \in Window
<1> DEFINE t == Indexed(u)
<1>1. List(t) /\ ToSet(t) = Live(u) \ {Overlay}
  BY EraseList DEF Indexed, Live
<1> HIDE DEF t
<1>2. w \in ToSet(t) /\ t \in Seq(Window)
  BY <1>1 DEF List
<1>3. Position(t, w) \in 1..Len(t) /\ t[Position(t, w)] = w
  BY <1>1, <1>2, PositionFound
<1>4. Len(t) \in Nat /\ w \in Window
  BY <1>2, <1>3, LenProperties, ElementOfSeq
<1> QED
  BY <1>3, <1>4 DEF Digit, t

\* What the bar says has its type.
LEMMA BarTyped ==
  ASSUME NEW s, CanDraw(s.ui), s.note.level \in [Window -> Level]
  PROVE  Bar(s) \in Bars
<1> DEFINE u == s.ui
           w == Shown(u)
<1>1. u \in UIState /\ List(u.children) /\ w \in Live(u) \ {Overlay}
  BY DEF CanDraw
<1>2. w # Null /\ Digit(u, w) \in Nat /\ u.obj[w] \in Object \cup {Null} /\ u.dead[w] \in BOOLEAN
  <2>1. Digit(u, w) \in Nat /\ w \in Window
    BY <1>1, DigitTyped
  <2> QED
    BY <1>1, <2>1, WindowAssumption DEF UIState
<1>3. Label(u) \in Nat \X (FullNames \cup {Null}) \X BOOLEAN
  <2>1. u.obj[w] # Null => FullName(u, u.obj[w]) \in FullNames
    BY <1>1, <1>2, FullNameType
  <2> QED
    BY <1>2, <2>1 DEF Label
<1>4. Marks(s) \subseteq Nat \X Level
  <2> SUFFICES ASSUME NEW x \in ToSet(Indexed(u))
               PROVE  <<Digit(u, x), s.note.level[x]>> \in Nat \X Level
    BY DEF Marks
  <2>1. ToSet(Indexed(u)) = Live(u) \ {Overlay}
    BY <1>1, EraseList DEF Indexed, Live
  <2>2. x \in Live(u) \ {Overlay}
    BY <2>1
  <2>3. Digit(u, x) \in Nat /\ x \in Window
    BY <1>1, <2>2, DigitTyped
  <2> QED
    BY <2>3
<1> HIDE DEF u, w
<1> QED
  BY <1>3, <1>4 DEF Bar, Bars, u

\* The bar is made of the windows and the levels.
LEMMA BarSame ==
  ASSUME NEW s, NEW t, t.ui = s.ui, t.note.level = s.note.level
  PROVE  Bar(t) = Bar(s)
BY DEF Bar, Marks

\* Drawing the bar changes nothing else.
LEMMA RedrawIs ==
  ASSUME NEW s \in Notes, CanDraw(s.ui)
  PROVE  LET t == Redraw(s) IN
         /\ t \in Notes /\ t.ui = s.ui /\ t.note.level = s.note.level /\ t.unseen = s.unseen
         /\ Fresh(t)
<1> DEFINE t == [s EXCEPT !.note.bar = Bar(s)]
<1>1. UpdateStatusbar(s.ui) = s.ui /\ s.ui.fault = "none"
  BY DEF CanDraw, UpdateStatusbar, Shown
<1>2. Redraw(s) = t
  BY <1>1 DEF Redraw
<1>3. Bar(s) \in Bars
  BY BarTyped DEF Notes
<1> DEFINE b == Bar(s)
<1>4. b \in Bars /\ t = [s EXCEPT !.note.bar = b]
  BY <1>3
<1> HIDE DEF b, t
<1>5. /\ t \in Notes /\ t.ui = s.ui /\ t.note.level = s.note.level /\ t.unseen = s.unseen
      /\ t.note.bar = b
  BY <1>4 DEF Notes
<1>6. Bar(t) = Bar(s)
  BY <1>5, BarSame
<1> QED
  BY <1>2, <1>5, <1>6 DEF Fresh, b

\* In s the windows are u and the levels f, which are what nobody has seen.
Tells(s, u, f) == s \in Notes /\ s.ui = u /\ s.note.level = f /\ s.unseen = f

\* Drawing the bar leaves it so.
LEMMA RedrawTells ==
  ASSUME NEW s, NEW u, NEW f, Tells(s, u, f), CanDraw(u)
  PROVE  Tells(Redraw(s), u, f) /\ Fresh(Redraw(s))
BY RedrawIs DEF Tells

-----------------------------------------------------------------------------
(* Lines and windows.                                                       *)

\* One level changes.
LEMMA LevelSet ==
  ASSUME NEW f \in [Window -> Level], NEW w \in Window, NEW v \in Level
  PROVE  LET g == [f EXCEPT ![w] = v] IN
         /\ g \in [Window -> Level] /\ g[w] = v
         /\ \A x \in Window : x # w => g[x] = f[x]
OBVIOUS

\* What is neither activity nor a highlight is a level.
LEMMA NoneIsLevel == None \in Level
BY DEF None, Level, Highlight

\* An update of a field is one of the record.
LEMMA NotesFields ==
  ASSUME NEW s \in Notes
  PROVE  /\ s.ui \in UIState /\ s.note.level \in [Window -> Level] /\ s.unseen \in [Window -> Level]
         /\ \A f \in [Window -> Level] :
              /\ [s EXCEPT !.unseen = f] \in Notes
              /\ [s EXCEPT !.note.level = f] \in Notes
              /\ f = s.unseen => [s EXCEPT !.unseen = f] = s
              /\ f = s.note.level => [s EXCEPT !.note.level = f] = s
         /\ \A u \in UIState : [s EXCEPT !.ui = u] \in Notes
         /\ [s EXCEPT !.ui = s.ui] = s
BY DEF Notes

\* A line is in the window on the screen, or below the level, and then nothing
\* changes; or it raises the level, and the bar is drawn.
LEMMA AddLineIs ==
  ASSUME NEW s, Solid(s), NEW w \in Live(s.ui), NEW v \in Level
  PROVE  LET t == AddLine(s, w, v) IN
         /\ Solid(t) /\ t.ui = s.ui
         /\ t = s \/ Fresh(t)
<1> DEFINE f == s.note.level
           e == IF w = s.ui.active \/ f[w] > v THEN f[w] ELSE v
           x == [s EXCEPT !.unseen[w] = e]
           r == [x EXCEPT !.note.level[w] = v]
<1>1. /\ s \in Notes /\ s.unseen = f /\ f[s.ui.active] = None /\ CanDraw(s.ui)
      /\ f \in [Window -> Level] /\ w \in Window /\ f[w] \in Level
      /\ \A y \in Window \ Live(s.ui) : f[y] = None
  BY LiveWindows, SolidDraws, NotesFields DEF Solid, Levels
<1>2. AddLine(s, w, v) = Notify(x, w, v)
  BY <1>1 DEF AddLine
<1>3. CASE w = s.ui.active \/ f[w] >= v
  <2>1. e = f[w]
    BY <1>1, <1>3 DEF Level, None, Highlight
  <2>2. x = s
    BY <1>1, <2>1 DEF Notes
  <2> HIDE DEF x, e
  <2>3. Notify(s, w, v) = s
    <3>1. CASE f[w] >= v
      BY <3>1 DEF Notify
    <3>2. CASE w = s.ui.active /\ ~(f[w] >= v)
      <4> DEFINE raised == [s EXCEPT !.note.level[w] = v]
      <4>1. Notify(s, w, v) = [raised EXCEPT !.note.level[w] = None]
        BY <3>2 DEF Notify
      <4>2. [raised EXCEPT !.note.level[w] = None] = [s EXCEPT !.note.level[w] = None]
        BY <1>1 DEF Notes
      <4>3. f[w] = None
        BY <1>1, <3>2
      <4> HIDE DEF raised
      <4>4. [s EXCEPT !.note.level[w] = None] = s
        BY <1>1, <4>3 DEF Notes
      <4> QED
        BY <4>1, <4>2, <4>4
    <3> QED
      BY <1>3, <3>1, <3>2
  <2> QED
    BY <1>2, <2>2, <2>3
<1>4. CASE w # s.ui.active /\ ~(f[w] >= v)
  <2>1. e = v
    BY <1>1, <1>4 DEF Level, None, Highlight
  <2>2. Notify(x, w, v) = Redraw(r)
    BY <1>1, <1>4, <2>1 DEF Notify, Notes
  <2> DEFINE g == [f EXCEPT ![w] = v]
  <2>3. /\ r \in Notes /\ r.ui = s.ui /\ r.note.level = g /\ r.unseen = g
    <3>1. g \in [Window -> Level]
      BY <1>1
    <3> QED
      BY <1>1, <2>1, <3>1 DEF Notes
  <2>4. g[s.ui.active] = None /\ \A y \in Window \ Live(s.ui) : g[y] = None
    <3>1. s.ui.active \in Window
      BY <1>1 DEF CanDraw, UIState
    <3> QED
      BY <1>1, <1>4, <3>1
  <2> HIDE DEF r, g, x, e
  <2>5. LET t == Redraw(r) IN
        /\ t \in Notes /\ t.ui = s.ui /\ t.note.level = g /\ t.unseen = g
        /\ Fresh(t)
    BY <1>1, <2>3, RedrawIs
  <2>6. Solid(Redraw(r))
    BY <2>4, <2>5 DEF Solid, Levels
  <2> QED
    BY <1>2, <2>2, <2>5, <2>6
<1> QED
  BY <1>3, <1>4

\* What goes through focusWindow forgets the level of the window it comes to.
LEMMA ShowIs ==
  ASSUME NEW s, Solid(s), NEW u, Kept(u), u.fault = "none", Above(u), Live(s.ui) \subseteq Live(u)
  PROVE  LET t == Show(s, u) IN
         /\ Solid(t) /\ t.ui = u
         /\ IF u.active = s.ui.active THEN t = [s EXCEPT !.ui = u] ELSE Fresh(t)
<1> DEFINE f == s.note.level
<1>1. /\ s \in Notes /\ s.unseen = f /\ f \in [Window -> Level]
      /\ u \in UIState /\ u.active \in Window /\ CanDraw(u)
      /\ f[s.ui.active] = None /\ \A y \in Window \ Live(u) : f[y] = None
  BY SolidDraws, NotesFields DEF Solid, Levels, CanDraw, UIState
<1>2. CASE u.active = s.ui.active
  <2> DEFINE t == [s EXCEPT !.ui = u]
  <2>1. t \in Notes /\ t.ui = u /\ t.note = s.note /\ t.unseen = s.unseen
    BY <1>1 DEF Notes
  <2>2. Show(s, u) = t
    BY <1>2 DEF Show
  <2> HIDE DEF t
  <2>3. Solid(t)
    BY <1>1, <1>2, <2>1 DEF Solid, Levels
  <2> QED
    BY <1>2, <2>1, <2>2, <2>3 DEF t
<1>3. CASE u.active # s.ui.active
  <2> DEFINE r == [s EXCEPT !.ui = u, !.note.level[u.active] = None, !.unseen[u.active] = None]
             g == [f EXCEPT ![u.active] = None]
  <2>1. r \in Notes /\ r.ui = u /\ r.note.level = g /\ r.unseen = g
    <3>1. g \in [Window -> Level]
      BY <1>1 DEF Level, None, Highlight
    <3> QED
      BY <1>1, <3>1 DEF Notes
  <2>2. g[u.active] = None /\ \A y \in Window \ Live(u) : g[y] = None
    BY <1>1
  <2>3. Show(s, u) = Redraw(r)
    BY <1>3 DEF Show
  <2> HIDE DEF r, g
  <2>4. LET t == Redraw(r) IN
        /\ t \in Notes /\ t.ui = u /\ t.note.level = g /\ t.unseen = g
        /\ Fresh(t)
    BY <1>1, <2>1, RedrawIs
  <2>5. Solid(Redraw(r))
    BY <2>2, <2>4 DEF Solid, Levels
  <2> QED
    BY <1>3, <2>3, <2>4, <2>5
<1> QED
  BY <1>2, <1>3

\* Closing a window does to the windows what it does in Client, though the bar
\* is drawn in the middle of it.
LEMMA RemovedIs ==
  ASSUME NEW s, Solid(s), NEW w \in Live(s.ui), w \notin {Status, Overlay}
  PROVE  LET t == Removed(s, w) IN
         /\ t.ui = RemoveWindow(s.ui, w)
         /\ t \in Notes /\ Levels(t)
         /\ Above(t.ui) => Solid(t)
<1> DEFINE u == s.ui
           f == s.note.level
           r == RemoveWindow(u, w)
           rest == Erase(u.windows, w)
           h == Head(rest)
           s2 == [s EXCEPT !.ui.windows = rest]
           left == IF u.active = w THEN FocusOn(s2, h) ELSE s
           told == IF left.note.level[w] # None THEN Redraw(left) ELSE left
           last(x) == [x EXCEPT !.ui = r, !.note.level[w] = None, !.unseen[w] = None]
<1>1. /\ s \in Notes /\ s.unseen = f /\ f \in [Window -> Level] /\ w \in Window
      /\ f[u.active] = None /\ CanDraw(u) /\ Kept(u) /\ u.fault = "none" /\ u \in UIState
      /\ \A y \in Window \ Live(u) : f[y] = None
  BY LiveWindows, SolidDraws, NotesFields DEF Solid, Levels
<1>2. /\ Kept(r) /\ r.fault = "none" /\ Live(r) = Live(u) \ {w}
      /\ r.active = IF u.active = w THEN Head(r.windows) ELSE u.active
      /\ r.windows = rest
      /\ r \in UIState
  <2>1. /\ Kept(r) /\ r.fault = "none" /\ Live(r) = Live(u) \ {w}
        /\ r.active = IF u.active = w THEN Head(r.windows) ELSE u.active
        /\ r.windows = rest
    BY <1>1, RemoveOthers
  <2> QED
    BY <2>1, LiveWindows
<1> HIDE DEF r
<1>3. Removed(s, w) = IF told.ui.fault # "none" THEN told ELSE last(told)
  BY DEF Removed, Unharmed, r
<1>4. ASSUME u.active # w
      PROVE  \E v, g : /\ Tells(told, v, g) /\ v.fault = "none" /\ g \in [Window -> Level]
                       /\ g[r.active] = None /\ \A y \in Window \ Live(u) : g[y] = None
  <2>1. left = s
    BY <1>4
  <2>2. told \in {s, Redraw(s)}
    BY <2>1
  <2>3. Tells(s, u, f)
    BY <1>1 DEF Tells
  <2> HIDE DEF told, u, f
  <2>4. Tells(told, u, f)
    BY <1>1, <2>2, <2>3, RedrawTells
  <2> QED
    BY <1>1, <1>2, <1>4, <2>4
<1>5. ASSUME u.active = w
      PROVE  \E v, g : /\ Tells(told, v, g) /\ v.fault = "none" /\ g \in [Window -> Level]
                       /\ g[r.active] = None /\ \A y \in Window \ Live(u) : g[y] = None
  <2> DEFINE x == [u EXCEPT !.windows = rest]
             v == [x EXCEPT !.active = h, !.windows = ToFront(rest, h)]
             q == [s2 EXCEPT !.ui = v, !.note.level[h] = None, !.unseen[h] = None]
             g == [f EXCEPT ![h] = None]
  <2>1. /\ List(rest) /\ ToSet(rest) = Live(u) \ {w} /\ Precedes(rest, Status, Overlay)
        /\ List(u.children)
    <3>1. /\ List(u.windows) /\ List(u.children) /\ ToSet(u.windows) = Live(u)
          /\ Precedes(u.windows, Status, Overlay)
      BY <1>1 DEF Kept, Sound, Lists, Live
    <3> HIDE DEF u, rest
    <3>2. List(Erase(u.windows, w)) /\ ToSet(Erase(u.windows, w)) = ToSet(u.windows) \ {w}
      BY <3>1, EraseList
    <3>3. Precedes(Erase(u.windows, w), Status, Overlay)
      BY <3>1, EraseList
    <3> QED
      BY <3>1, <3>2, <3>3 DEF rest
  <2> HIDE DEF rest
  <2>2. h \in Live(u) \ {w, Overlay} /\ h \in Window /\ h # Null
    <3>1. h \in ToSet(rest) \ {Overlay}
      BY <2>1, VisitedHead
    <3>2. h \in Live(u) /\ h # w
      BY <2>1, <3>1
    <3> QED
      BY <1>1, <3>1, <3>2, LiveWindows, WindowAssumption
  <2>3. x \in UIState /\ s2 \in Notes /\ s2.ui = x /\ s2.note = s.note /\ s2.unseen = s.unseen
    <3>1. rest \in Seq(Window)
      BY <2>1 DEF List
    <3> QED
      BY <1>1, <3>1 DEF UIState, Notes
  <2>4. x.active = w /\ x.children = u.children /\ x.windows = rest /\ Live(x) = Live(u)
    BY <1>1, <1>5, <2>1 DEF UIState, Live
  <2> HIDE DEF h, s2
  <2>5. Focus(x, h) = v
    <3>1. Lift(x) = x
      BY <1>5, <2>4 DEF Lift
    <3>2. h \in ToSet(rest) /\ h \in Live(x) /\ h # x.active /\ h # Overlay /\ h # Null
      BY <2>1, <2>2, <2>4
    <3> HIDE DEF x
    <3> QED
      BY <2>4, <3>1, <3>2 DEF Focus
  <2>6. v \in UIState /\ v.active = h /\ v.children = u.children /\ v.fault = "none"
    <3>1. ToFront(rest, h) \in Seq(Window)
      <4>1. Erase(rest, h) \in Seq(Window) /\ <<h>> \in Seq(Window)
        BY <2>1, <2>2, EraseList DEF List
      <4> QED
        BY <4>1, ConcatProperties DEF ToFront
    <3> QED
      BY <1>1, <2>2, <2>3, <3>1 DEF UIState
  <2>7. CanDraw(v)
    BY <2>1, <2>2, <2>6 DEF CanDraw, Shown, Live
  <2>8. FocusOn(s2, h) = Redraw(q)
    BY <2>2, <2>3, <2>4, <2>5, <2>6 DEF FocusOn, Show
  <2>9. /\ g \in [Window -> Level] /\ g[h] = None
        /\ \A y \in Window : y # h => g[y] = f[y]
    BY <1>1, <2>2, LevelSet, NoneIsLevel
  <2>10. Tells(q, v, g)
    <3> HIDE DEF v
    <3> QED
      BY <1>1, <2>3, <2>6, <2>9 DEF Notes, Tells
  <2>11. g[w] = None /\ \A y \in Window \ Live(u) : g[y] = None
    BY <1>1, <1>5, <2>2, <2>9
  <2> HIDE DEF q, g, v
  <2>12. Tells(Redraw(q), v, g)
    BY <2>7, <2>10, RedrawTells
  <2>13. told = Redraw(q)
    BY <1>5, <2>8, <2>11, <2>12 DEF Tells
  <2>14. r.active = h
    BY <1>2, <1>5 DEF h
  <2> HIDE DEF told, u
  <2> QED
    BY <2>6, <2>9, <2>11, <2>12, <2>13, <2>14
<1> HIDE DEF told
<1>6. PICK v, g : /\ Tells(told, v, g) /\ v.fault = "none" /\ g \in [Window -> Level]
                  /\ g[r.active] = None /\ \A y \in Window \ Live(u) : g[y] = None
  <2> HIDE DEF u
  <2> QED
    BY <1>4, <1>5
<1> DEFINE t == last(told)
           k == [g EXCEPT ![w] = None]
<1>7. Removed(s, w) = t
  BY <1>3, <1>6 DEF Tells
<1>8. k \in [Window -> Level] /\ k[w] = None /\ \A y \in Window : y # w => k[y] = g[y]
  BY <1>1, <1>6, LevelSet, NoneIsLevel
<1>9. Tells(t, r, k)
  BY <1>2, <1>6, <1>8 DEF Notes, Tells
<1>10. k[r.active] = None /\ \A y \in Window \ Live(r) : k[y] = None
  <2>1. r.active \in Window
    BY <1>2 DEF UIState
  <2> QED
    BY <1>1, <1>2, <1>6, <1>8, <2>1
<1> HIDE DEF t, k
<1>11. Levels(t)
  BY <1>9, <1>10 DEF Levels, Tells
<1> QED
  BY <1>2, <1>7, <1>9, <1>11 DEF Solid, Tells, r

-----------------------------------------------------------------------------
(* The windows under the keys.                                              *)

\* The windows are sound and the one below the overlay is open.
Sane(u) == Kept(u) /\ u.fault = "none" /\ Above(u)

\* focusWindow of an open window.
LEMMA FocusSane ==
  ASSUME NEW u, Sane(u), NEW w \in Live(u) \ {Overlay}
  PROVE  LET v == Focus(u, w) IN
         /\ Sane(v) /\ Live(v) = Live(u) /\ v.active = w
         /\ v = u \/ v.active # u.active
<1> DEFINE v == Focus(u, w)
           z == ToFront(u.windows, w)
<1>1. /\ u \in UIState /\ Sound(u) /\ Recent(u) /\ u.fault = "none" /\ w \in Window
      /\ Focused(u)
  BY LiveWindows DEF Sane, Kept, Sound
<1>2. v = [u EXCEPT !.active = w, !.beforeOverlay = Null, !.windows = z]
  BY <1>1, FocusEffect
<1>3. Kept(v)
  BY <1>1, FocusKept DEF Sane
<1> HIDE DEF z
<1>4. v.active = w /\ v.fault = "none" /\ v.children = u.children
  BY <1>1, <1>2 DEF UIState
<1>5. v = u \/ v.active # u.active
  <2> SUFFICES ASSUME w = u.active
               PROVE  v = u
    BY <1>4
  <2>1. u.active # Overlay
    OBVIOUS
  <2> QED
    BY <1>1, <2>1, WindowAssumption DEF Focus, Lift
<1> HIDE DEF v
<1> QED
  BY <1>3, <1>4, <1>5 DEF Sane, Above, Live, v

\* The key of the overlay, and every other key that lifts it.
LEMMA KeySane ==
  ASSUME NEW u, Sane(u)
  PROVE  /\ Sane(Toggle(u)) /\ Live(Toggle(u)) = Live(u) /\ Toggle(u).active # u.active
         /\ Sane(Dismiss(u)) /\ Live(Dismiss(u)) = Live(u)
         /\ Dismiss(u).active \in Live(u) \ {Overlay}
         /\ Dismiss(u).children = u.children
         /\ Dismiss(u) = u \/ Dismiss(u).active # u.active
<1>1. /\ u \in UIState /\ Sound(u) /\ u.fault = "none" /\ Kept(u)
      /\ Lists(u) /\ Focused(u) /\ Above(u) /\ u.active \in Live(u)
  BY LiveWindows DEF Sane, Kept, Sound, Focused, Live
<1>2. CASE u.active = Overlay
  <2>1. u.beforeOverlay \in Live(u) \ {Overlay}
    BY <1>1, <1>2 DEF Above, Focused
  <2>2. Toggle(u) = Focus(u, u.beforeOverlay) /\ Dismiss(u) = Toggle(u)
    BY <1>2 DEF Toggle, Dismiss
  <2>3. Dismiss(u).children = u.children
    BY <1>1, <2>1, DismissIntact
  <2> QED
    BY <1>2, <2>1, <2>2, <2>3, FocusSane
<1>3. CASE u.active # Overlay
  <2> DEFINE v == Toggle(u)
  <2>1. v = [u EXCEPT !.beforeOverlay = u.active, !.active = Overlay]
    BY <1>1, <1>3, CoverEffect
  <2>2. /\ v.active = Overlay /\ v.beforeOverlay = u.active /\ v.children = u.children
        /\ v.fault = "none"
    BY <1>1, <2>1 DEF UIState
  <2>3. Kept(v)
    BY <1>1, ToggleKept
  <2>4. Dismiss(u) = u
    BY <1>3 DEF Dismiss
  <2> HIDE DEF v
  <2>5. Sane(v) /\ Live(v) = Live(u)
    BY <1>1, <2>2, <2>3 DEF Sane, Above, Live
  <2> QED
    BY <1>1, <1>3, <2>2, <2>4, <2>5 DEF Sane, v
<1> QED
  BY <1>2, <1>3

\* The keys that focus another window.
LEMMA CycleSane ==
  ASSUME NEW u, Sane(u), NEW v,
         v \in {NextWindow(u), PreviousWindow(u)} \/ \E n \in Nat : v = FocusIndex(u, n)
  PROVE  Sane(v) /\ Live(v) = Live(u) /\ (v = u \/ v.active # u.active)
<1>1. v = u \/ \E w \in Live(u) \ {Overlay} : v = Focus(u, w)
  BY CycleFocuses DEF Sane, Kept
<1> QED
  BY <1>1, FocusSane

\* /move
LEMMA MoveSane ==
  ASSUME NEW u, Sane(u), u.active # Overlay, NEW n \in Nat
  PROVE  LET v == MoveWindow(u, u.active, n)
         IN Sane(v) /\ Live(v) = Live(u) /\ v.active = u.active
<1>1. Sound(u) /\ u.fault = "none" /\ Kept(u) /\ u.active \in Window
  BY LiveWindows DEF Sane, Kept, UIState
<1> DEFINE v == MoveWindow(u, u.active, n)
<1>2. Kept(v) /\ v.fault = "none"
  BY <1>1, MoveKept, MoveFault
<1>3. Live(v) = Live(u) /\ v.active = u.active /\ v.beforeOverlay = u.beforeOverlay
  BY <1>1, MoveKeeps DEF Keeps
<1> HIDE DEF v
<1> QED
  BY <1>2, <1>3 DEF Sane, Above, v

\* getWindow
LEMMA EnsureSane ==
  ASSUME NEW u, Sane(u), NEW o \in Object, NEW fresh \in Allocation(u, o)
  PROVE  LET v == Ensure(u, o, fresh) IN
         /\ Sane(v) /\ Live(u) \subseteq Live(v) /\ v.active = u.active
         /\ Find(v, o) \in Live(v) \ {Overlay}
         /\ v = u \/ fresh \in Window \ Live(u)
<1> DEFINE v == Ensure(u, o, fresh)
<1>1. /\ Kept(v) /\ v.fault = "none" /\ v.active = u.active
      /\ v.beforeOverlay = u.beforeOverlay
      /\ Find(v, o) \in Live(v) \ {Overlay}
      /\ \A w \in Live(u) : w \in Live(v)
      /\ v = u \/ fresh \in Window \ Live(u)
  BY EnsureKept DEF Sane
<1> HIDE DEF v
<1> QED
  BY <1>1 DEF Sane, Above, v

\* Marks of windows.
LEMMA MarksSane ==
  ASSUME NEW u, Sane(u), NEW f \in [Window -> BOOLEAN]
  PROVE  LET v == [u EXCEPT !.dead = f] IN
         /\ Sane(v) /\ Live(v) = Live(u) /\ v.active = u.active /\ v.dead = f
<1> DEFINE v == [u EXCEPT !.dead = f]
<1>1. /\ Kept(v) /\ v.dead = f /\ v.fault = u.fault
      /\ v.active = u.active /\ v.beforeOverlay = u.beforeOverlay
      /\ Live(v) = Live(u)
  BY MarksKept DEF Sane
<1> HIDE DEF v
<1> QED
  BY <1>1 DEF Sane, Above, v

-----------------------------------------------------------------------------
(* States with other windows.                                               *)

\* The state that an action comes to.
LEMMA BecomesIs ==
  ASSUME NEW t \in Notes, Becomes(t)
  PROVE  Now' = t /\ ui' = t.ui
BY DEF Becomes, Now, Notes

\* The windows change, and not which of them is on the screen.
LEMMA SolidWith ==
  ASSUME NEW s, Solid(s), NEW u, Sane(u), Live(s.ui) \subseteq Live(u), u.active = s.ui.active
  PROVE  LET t == [s EXCEPT !.ui = u] IN Solid(t) /\ t.ui = u /\ t.note = s.note
<1>1. Show(s, u) = [s EXCEPT !.ui = u]
  BY DEF Show
<1>2. LET t == Show(s, u) IN Solid(t) /\ t.ui = u
  BY ShowIs DEF Sane
<1>3. [s EXCEPT !.ui = u].note = s.note
  BY DEF Solid, Notes
<1> QED
  BY <1>1, <1>2, <1>3

\* What the bar is made of.
LEMMA BarOf ==
  ASSUME NEW s, NEW t, t.note = s.note,
         t.ui.children = s.ui.children, t.ui.active = s.ui.active,
         t.ui.beforeOverlay = s.ui.beforeOverlay, t.ui.obj = s.ui.obj,
         t.ui.dead[Shown(s.ui)] = s.ui.dead[Shown(s.ui)],
         LET o == s.ui.obj[Shown(s.ui)] IN o # Null => t.ui.name[o] = s.ui.name[o]
  PROVE  Bar(t) = Bar(s) /\ (Fresh(t) <=> Fresh(s))
<1>1. Shown(t.ui) = Shown(s.ui) /\ \A w : Digit(t.ui, w) = Digit(s.ui, w)
  BY DEF Shown, Digit, Indexed
<1>2. Label(t.ui) = Label(s.ui)
  BY <1>1 DEF Label, FullName
<1>3. Marks(t) = Marks(s)
  BY <1>1 DEF Marks, Indexed
<1> QED
  BY <1>2, <1>3 DEF Bar, Fresh

\* A window that is added at the end has no level and takes nobody's digit.
LEMMA DigitsStay ==
  ASSUME NEW c, List(c), Overlay \in ToSet(c), NEW x \in Window, x \notin ToSet(c)
  PROVE  LET s == Erase(c, Overlay)
             t == Erase(Append(c, x), Overlay)
         IN /\ ToSet(t) = ToSet(s) \cup {x}
            /\ \A w \in ToSet(s) : Position(t, w) = Position(s, w)
<1> DEFINE d == Append(c, x)
           s == Erase(c, Overlay)
           t == Erase(d, Overlay)
           p == Position(c, Overlay)
<1>1. /\ c \in Seq(Window) /\ d \in Seq(Window) /\ List(d)
      /\ Len(c) \in Nat /\ Len(d) = Len(c) + 1 /\ ToSet(d) = ToSet(c) \cup {x}
      /\ \A i \in 1..Len(c) : d[i] = c[i]
      /\ x # Overlay
  <2>1. c \in Seq(Window)
    BY DEF List
  <2>2. List(d) /\ ToSet(d) = ToSet(c) \cup {x}
    BY AppendList
  <2>3. Len(c) \in Nat /\ Len(d) = Len(c) + 1 /\ \A i \in 1..Len(c) : d[i] = c[i]
    BY <2>1, AppendProperties, LenProperties
  <2> QED
    BY <2>1, <2>2, <2>3 DEF List
<1>2. /\ List(s) /\ ToSet(s) = ToSet(c) \ {Overlay}
      /\ p \in 1..Len(c) /\ c[p] = Overlay
      /\ Len(s) = Len(c) - 1
      /\ \A i \in 1..(Len(c) - 1) : s[i] = IF i < p THEN c[i] ELSE c[i + 1]
  BY EraseList, EraseElements
<1> HIDE DEF d
<1>3. Position(d, Overlay) = p
  <2>1. p \in 1..Len(d) /\ d[p] = Overlay
    BY <1>1, <1>2
  <2> HIDE DEF p
  <2> QED
    BY <1>1, <2>1, PositionIs
<1>4. /\ List(t) /\ ToSet(t) = ToSet(d) \ {Overlay} /\ Len(t) = Len(d) - 1
      /\ \A i \in 1..(Len(d) - 1) : t[i] = IF i < p THEN d[i] ELSE d[i + 1]
  <2>1. Overlay \in ToSet(d)
    BY <1>1
  <2> QED
    BY <1>1, <1>3, <2>1, EraseList, EraseElements
<1> HIDE DEF p, s, t
<1>5. ASSUME NEW w \in ToSet(s)
      PROVE  Position(t, w) = Position(s, w)
  <2> DEFINE q == Position(s, w)
  <2>1. q \in 1..Len(s) /\ s[q] = w
    BY <1>2, PositionFound
  <2> HIDE DEF q
  <2>2. q \in 1..Len(t) /\ q \in 1..(Len(d) - 1) /\ q \in 1..(Len(c) - 1)
    BY <1>1, <1>2, <1>4, <2>1
  <2>3. q \in 1..Len(c) /\ q + 1 \in 1..Len(c)
    BY <1>1, <2>2
  <2>4. t[q] = w
    BY <1>1, <1>2, <1>4, <2>1, <2>2, <2>3
  <2>5. Position(t, t[q]) = q
    BY <1>4, <2>2, PositionIs
  <2> QED
    BY <2>4, <2>5 DEF q
<1> QED
  BY <1>1, <1>2, <1>4, <1>5 DEF s, t, d

\* getWindow leaves the bar as true as it was.
LEMMA WithWindowIs ==
  ASSUME NEW s, Solid(s), NEW o \in Object, NEW fresh \in Allocation(s.ui, o)
  PROVE  LET t == WithWindow(s, o, fresh) IN
         /\ Solid(t) /\ t.ui = Ensure(s.ui, o, fresh) /\ t.ui.active = s.ui.active
         /\ Find(t.ui, o) \in Live(t.ui) \ {Overlay} /\ Live(s.ui) \subseteq Live(t.ui)
         /\ Fresh(s) => Fresh(t)
<1> DEFINE u == s.ui
           v == Ensure(u, o, fresh)
           t == [s EXCEPT !.ui = v]
<1>1. Sane(u) /\ s \in Notes /\ u \in UIState /\ Sound(u)
  BY LiveWindows DEF Solid, Sane, Kept
<1>2. /\ Sane(v) /\ Live(u) \subseteq Live(v) /\ v.active = u.active
      /\ Find(v, o) \in Live(v) \ {Overlay}
      /\ v = u \/ fresh \in Window \ Live(u)
  BY <1>1, EnsureSane
<1> HIDE DEF v
<1>3. Solid(t) /\ t.ui = v /\ t.note = s.note
  BY <1>2, SolidWith
<1>4. WithWindow(s, o, fresh) = t
  BY DEF WithWindow, v
<1>5. ASSUME Fresh(s)
      PROVE  Fresh(t)
  <2>1. CASE v = u
    BY <1>3, <1>5, <2>1, BarOf
  <2>2. CASE v # u
    <3> DEFINE c == u.children
               b == [u.obj EXCEPT ![fresh] = o]
               m == [u.windowName EXCEPT ![fresh] = FullName(u, o)]
               y == Append(c, fresh)
    <3>1. v = NewWindow(u, fresh, o) /\ fresh \in Window \ Live(u)
      BY <1>2, <2>2 DEF Ensure, v
    <3>2. v = [u EXCEPT !.windows = Append(u.windows, fresh), !.children = y, !.obj = b,
                        !.windowName = m]
      BY <1>1, <3>1 DEF NewWindow, UIState
    <3> HIDE DEF y, b, m
    <3>3. /\ v.children = y /\ v.obj = b /\ v.active = u.active
          /\ v.beforeOverlay = u.beforeOverlay /\ v.dead = u.dead /\ v.name = u.name
      BY <1>1, <3>2 DEF UIState
    <3>4. /\ List(c) /\ Overlay \in ToSet(c) /\ ToSet(c) = Live(u) /\ CanDraw(u)
      BY <1>1, SolidDraws DEF Sound, Lists, Live, Sane
    <3>5. /\ ToSet(Indexed(v)) = ToSet(Indexed(u)) \cup {fresh}
          /\ \A w \in ToSet(Indexed(u)) : Digit(v, w) = Digit(u, w)
          /\ ToSet(Indexed(u)) = Live(u) \ {Overlay}
      <4>1. /\ ToSet(Erase(y, Overlay)) = ToSet(Erase(c, Overlay)) \cup {fresh}
            /\ \A w \in ToSet(Erase(c, Overlay)) :
                 Position(Erase(y, Overlay), w) = Position(Erase(c, Overlay), w)
        BY <3>1, <3>4, DigitsStay DEF y
      <4>2. ToSet(Erase(c, Overlay)) = Live(u) \ {Overlay}
        BY <3>4, EraseList
      <4> QED
        BY <3>3, <4>1, <4>2 DEF Digit, Indexed
    <3>6. Shown(u) \in Live(u) \ {Overlay} /\ Shown(v) = Shown(u)
      BY <3>3, <3>4 DEF CanDraw, Shown
    <3>7. b[Shown(u)] = u.obj[Shown(u)]
      BY <1>1, <3>1, <3>6 DEF b, UIState
    <3>8. Label(v) = Label(u)
      BY <3>3, <3>5, <3>6, <3>7 DEF Label, FullName
    <3>9. Marks(t) = Marks(s)
      <4>1. s.note.level[fresh] = None
        BY <3>1 DEF Solid, Levels
      <4>2. {x \in ToSet(Indexed(v)) \ {v.active} : s.note.level[x] # None} =
            {x \in ToSet(Indexed(u)) \ {u.active} : s.note.level[x] # None}
        BY <3>3, <3>5, <4>1
      <4> QED
        BY <1>3, <3>5, <4>2 DEF Marks
    <3> QED
      BY <1>3, <1>5, <3>8, <3>9 DEF Fresh, Bar
  <2> QED
    BY <2>1, <2>2
<1> HIDE DEF t
<1> QED
  BY <1>2, <1>3, <1>4, <1>5 DEF v

-----------------------------------------------------------------------------
(* The person at the terminal.                                              *)

\* What is shown of each step: it is one of Client, it leaves sound windows
\* with true levels, and the bar gets out of date in three cases only.  Two are
\* about the window below the overlay.
Flipped(u, v) == u.active = Overlay /\ u.dead[u.beforeOverlay] # v.dead[u.beforeOverlay]
Renames(u, v) ==
  LET w == u.beforeOverlay
  IN u.active = Overlay /\ IsUser(u, w) /\ u.name[u.obj[w]] # v.name[u.obj[w]]
Excused(u, v) == Live(u) \ Live(v) # {} \/ Flipped(u, v) \/ Renames(u, v)

Done ==
  /\ ClientNext \/ UNCHANGED vars
  /\ Running' => Solid(Now')
  /\ Fresh(Now) /\ Running' => Fresh(Now') \/ Excused(ui, ui')

\* The invariant while the bar is looked at.
BInv == CInv /\ (Running => Solid(Now))

\* A step to a solid state.
LEMMA Arrives ==
  ASSUME NEW t, Solid(t), Becomes(t), ClientNext \/ UNCHANGED vars,
         Fresh(Now) => Fresh(t) \/ Excused(ui, t.ui)
  PROVE  Done
<1>1. Now' = t /\ ui' = t.ui
  BY BecomesIs DEF Solid
<1> QED
  BY <1>1 DEF Done

\* The state there is.
LEMMA NowSolid ==
  ASSUME BInv, Running
  PROVE  /\ Solid(Now) /\ Sane(ui) /\ Now.ui = ui /\ Now \in Notes /\ ui \in UIState
         /\ Kept(ui) /\ Now.unseen = unseen /\ ui.active \in Live(ui)
<1>1. Solid(Now) /\ Now.ui = ui /\ Now.unseen = unseen
  BY DEF BInv, Now
<1>2. Sane(ui) /\ Now \in Notes /\ Kept(ui)
  BY <1>1 DEF Solid, Sane
<1>3. ui.active \in Live(ui)
  BY <1>2 DEF Kept, Sound, Focused, Live, Sane
<1> QED
  BY <1>1, <1>2, <1>3, LiveWindows

\* Another window comes to the screen, or nothing happens.
LEMMA ShowTracks ==
  ASSUME NEW s, Solid(s), NEW u, Sane(u), Live(s.ui) \subseteq Live(u),
         u = s.ui \/ u.active # s.ui.active
  PROVE  LET t == Show(s, u) IN Solid(t) /\ t.ui = u /\ (Fresh(s) => Fresh(t))
<1>1. LET t == Show(s, u) IN
      /\ Solid(t) /\ t.ui = u
      /\ IF u.active = s.ui.active THEN t = [s EXCEPT !.ui = u] ELSE Fresh(t)
  BY ShowIs DEF Sane
<1>2. CASE u = s.ui
  <2>1. [s EXCEPT !.ui = s.ui] = s
    BY NotesFields DEF Solid
  <2> QED
    BY <1>1, <1>2, <2>1
<1> QED
  BY <1>1, <1>2

\* A key first lifts the overlay.
LEMMA TypedStarts ==
  ASSUME BInv, Running
  PROVE  LET d == Dismiss(ui)
             s == Show(Now, d)
         IN /\ Solid(s) /\ s.ui = d /\ Unharmed(s) /\ (Fresh(Now) => Fresh(s))
            /\ Sane(d) /\ Live(d) = Live(ui) /\ d.active \in Live(d) \ {Overlay}
            /\ d.children = ui.children
<1>1. Solid(Now) /\ Sane(ui) /\ Now.ui = ui
  BY NowSolid
<1> DEFINE d == Dismiss(ui)
           s == Show(Now, d)
<1>2. /\ Sane(d) /\ Live(d) = Live(ui) /\ d.active \in Live(ui) \ {Overlay}
      /\ d.children = ui.children /\ (d = ui \/ d.active # ui.active)
  BY <1>1, KeySane
<1> HIDE DEF d
<1>3. Solid(s) /\ s.ui = d /\ (Fresh(Now) => Fresh(s))
  BY <1>1, <1>2, ShowTracks
<1>4. Unharmed(s)
  BY <1>3 DEF Solid, Unharmed
<1> QED
  BY <1>2, <1>3, <1>4 DEF d

\* An index behind the last window is like that of the number of children.
LEMMA IndexBounded ==
  ASSUME NEW u, Kept(u), NEW n \in Nat
  PROVE  \E m \in 0..Len(u.children) :
           /\ FocusIndex(u, m) = FocusIndex(u, n)
           /\ \A w \in Live(u) : MoveWindow(u, w, m) = MoveWindow(u, w, n)
<1>1. /\ List(u.children) /\ Overlay \in ToSet(u.children) /\ ToSet(u.children) = Live(u)
      /\ Len(u.children) \in Nat
  BY LenProperties DEF Kept, Sound, Lists, List, Live
<1>2. CASE n \in 0..Len(u.children)
  BY <1>2
<1>3. CASE n \notin 0..Len(u.children)
  <2> DEFINE m == Len(u.children)
  <2>1. m \in 0..m /\ n > m
    BY <1>1, <1>3
  <2>2. Len(Indexed(u)) \in Nat /\ Len(Indexed(u)) <= m /\ List(Indexed(u))
    <3>1. Len(Indexed(u)) = m - 1 /\ List(Indexed(u))
      BY <1>1, EraseElements, EraseList DEF Indexed
    <3> QED
      BY <1>1, <3>1, LenProperties DEF List
  <2>3. FocusIndex(u, m) = FocusIndex(u, n)
    BY <1>1, <2>1, <2>2 DEF FocusIndex
  <2>4. ASSUME NEW w \in Live(u)
        PROVE  MoveWindow(u, w, m) = MoveWindow(u, w, n)
    <3> DEFINE c == IF Last(u.children) = Overlay THEN u.children ELSE Indexed(u)
               others == Erase(c, w)
    <3>1. List(c) /\ Len(c) \in Nat /\ Len(c) <= m
      BY <1>1, <2>2
    <3> HIDE DEF c
    <3>2. Len(others) \in Nat /\ Len(others) <= m
      <4>1. CASE w \in ToSet(c)
        <5>1. Len(others) = Len(c) - 1 /\ others \in Seq(Window)
          BY <3>1, <4>1, EraseElements
        <5> HIDE DEF others
        <5> QED
          BY <1>1, <3>1, <5>1, LenProperties
      <4>2. CASE w \notin ToSet(c)
        BY <3>1, <4>2 DEF Erase
      <4> QED
        BY <4>1, <4>2
    <3> HIDE DEF others
    <3>3. (IF m < Len(others) THEN m ELSE Len(others)) = (IF n < Len(others) THEN n ELSE Len(others))
      BY <1>1, <2>1, <3>2
    <3> HIDE DEF m
    <3> QED
      BY <3>3 DEF MoveWindow, others, c
  <2> QED
    BY <2>1, <2>3, <2>4
<1> QED
  BY <1>2, <1>3

\* What a key does is what Client says of it.
LEMMA KeySteps ==
  ASSUME BInv, Running, UNCHANGED <<connected, joined>>,
         \/ ui' = Toggle(ui)
         \/ ui' = NextWindow(Dismiss(ui)) \/ ui' = PreviousWindow(Dismiss(ui))
         \/ \E n \in Nat : ui' = FocusIndex(Dismiss(ui), n)
         \/ \E n \in Nat : ui' = MoveWindow(Dismiss(ui), Dismiss(ui).active, n)
         \/ ui' = IF CanRemove(Dismiss(ui), Dismiss(ui).active)
                  THEN RemoveWindow(Dismiss(ui), Dismiss(ui).active) ELSE Dismiss(ui)
  PROVE  ClientNext
<1> DEFINE d == Dismiss(ui)
<1>1. /\ d.fault = "none" /\ Kept(d) /\ d.children = ui.children
      /\ d.active \in Live(d)
  BY TypedStarts DEF Sane
<1> HIDE DEF d
<1>2. CASE ui' = Toggle(ui)
  BY <1>2 DEF KeyOverlay, Person, ClientNext
<1>3. CASE ui' = NextWindow(d)
  BY <1>1, <1>3 DEF KeyNext, OnKey, Person, ClientNext, d
<1>4. CASE ui' = PreviousWindow(d)
  BY <1>1, <1>4 DEF KeyPrevious, OnKey, Person, ClientNext, d
<1>5. ASSUME NEW n \in Nat, ui' = FocusIndex(d, n)
      PROVE  ClientNext
  <2>1. PICK m \in 0..Len(d.children) : FocusIndex(d, m) = FocusIndex(d, n)
    BY <1>1, IndexBounded
  <2>2. KeyIndex(m)
    BY <1>1, <1>5, <2>1 DEF KeyIndex, OnKey, d
  <2> QED
    BY <1>1, <2>1, <2>2 DEF Person, ClientNext
<1>6. ASSUME NEW n \in Nat, ui' = MoveWindow(d, d.active, n)
      PROVE  ClientNext
  <2>1. PICK m \in 0..Len(d.children) : MoveWindow(d, d.active, m) = MoveWindow(d, d.active, n)
    BY <1>1, IndexBounded
  <2>2. CommandMove(m)
    BY <1>1, <1>6, <2>1 DEF CommandMove, OnKey, d
  <2> QED
    BY <1>1, <2>1, <2>2 DEF Person, ClientNext
<1>7. CASE ui' = IF CanRemove(d, d.active) THEN RemoveWindow(d, d.active) ELSE d
  BY <1>1, <1>7 DEF CommandWindowClose, OnKey, Person, ClientNext, d
<1> QED
  BY <1>2, <1>3, <1>4, <1>5, <1>6, <1>7 DEF d

\* The keys that focus another window.
LEMMA FocusKeysDone ==
  ASSUME BInv, Running, UNCHANGED <<connected, joined>>, FocusKeys
  PROVE  Done
<1> DEFINE d == Dismiss(ui)
           s == Show(Now, d)
<1>1. /\ Solid(s) /\ s.ui = d /\ Unharmed(s) /\ (Fresh(Now) => Fresh(s)) /\ Sane(d)
  BY TypedStarts
<1>2. Solid(Now) /\ Sane(ui) /\ Now.ui = ui
  BY NowSolid
<1>3. CASE Becomes(Show(Now, Toggle(ui)))
  <2> DEFINE t == Show(Now, Toggle(ui))
  <2>1. Sane(Toggle(ui)) /\ Live(Toggle(ui)) = Live(ui) /\ Toggle(ui).active # ui.active
    BY <1>2, KeySane
  <2>2. Solid(t) /\ t.ui = Toggle(ui) /\ (Fresh(Now) => Fresh(t))
    BY <1>2, <2>1, ShowTracks
  <2> HIDE DEF t
  <2>3. ui' = Toggle(ui)
    BY <1>3, <2>2, BecomesIs DEF Solid, t
  <2> QED
    BY <1>3, <2>2, <2>3, KeySteps, Arrives DEF t
<1>4. ASSUME NEW v, Becomes(Show(s, v)),
             v \in {NextWindow(d), PreviousWindow(d)} \/ \E n \in Nat : v = FocusIndex(d, n)
      PROVE  Done
  <2> DEFINE t == Show(s, v)
  <2> HIDE DEF d, s
  <2>1. Sane(v) /\ Live(v) = Live(d) /\ (v = d \/ v.active # d.active)
    BY <1>1, <1>4, CycleSane
  <2>2. Solid(t) /\ t.ui = v /\ (Fresh(s) => Fresh(t))
    BY <1>1, <2>1, ShowTracks
  <2> HIDE DEF t
  <2>3. ui' = v
    BY <1>4, <2>2, BecomesIs DEF Solid, t
  <2>4. ClientNext
    BY <1>4, <2>3, KeySteps DEF d
  <2> QED
    BY <1>1, <1>4, <2>2, <2>4, Arrives DEF t
<1>5. CASE \/ Typed(LAMBDA x : Show(x, NextWindow(x.ui)))
           \/ Typed(LAMBDA x : Show(x, PreviousWindow(x.ui)))
           \/ \E n \in Place : Typed(LAMBDA x : Show(x, FocusIndex(x.ui, n)))
  <2>1. \/ Becomes(Show(s, NextWindow(s.ui)))
        \/ Becomes(Show(s, PreviousWindow(s.ui)))
        \/ \E n \in Place : Becomes(Show(s, FocusIndex(s.ui, n)))
    BY <1>1, <1>5 DEF Typed
  <2> HIDE DEF d, s
  <2> QED
    BY <1>1, <1>4, <2>1, SpokenAssumption
<1>6. ASSUME NEW o \in Object, ~IsChannelObject(o), o.server \in connected, NEW fresh \in Allocation(ui, o),
             LET q == WithWindow(Now, o, fresh) IN Becomes(FocusOn(q, Find(q.ui, o)))
      PROVE  Done
  <2> DEFINE q == WithWindow(Now, o, fresh)
             w == Find(q.ui, o)
             v == Focus(q.ui, w)
             t == Show(q, v)
  <2>1. /\ Solid(q) /\ q.ui = Ensure(ui, o, fresh) /\ w \in Live(q.ui) \ {Overlay}
        /\ Live(ui) \subseteq Live(q.ui) /\ (Fresh(Now) => Fresh(q))
    BY <1>2, WithWindowIs
  <2> HIDE DEF q, w
  <2>2. Sane(v) /\ Live(v) = Live(q.ui) /\ (v = q.ui \/ v.active # q.ui.active)
    BY <2>1, FocusSane DEF Solid, Sane
  <2> HIDE DEF v
  <2>3. Solid(t) /\ t.ui = v /\ (Fresh(q) => Fresh(t))
    BY <2>1, <2>2, ShowTracks
  <2>4. Becomes(t)
    BY <1>6 DEF FocusOn, q, w, v
  <2> HIDE DEF t
  <2>5. ui' = v
    BY <2>3, <2>4, BecomesIs DEF Solid
  <2>6. OpenAndFocus(o)
    BY <2>1, <2>5, <1>6 DEF OpenAndFocus, v, w
  <2>7. ClientNext
    BY <1>6, <2>6 DEF Person, ClientNext
  <2> QED
    BY <2>1, <2>3, <2>4, <2>7, Arrives
<1> QED
  BY <1>3, <1>5, <1>6 DEF FocusKeys

\* /move and /wc
LEMMA WindowCommandsDone ==
  ASSUME BInv, Running, UNCHANGED <<connected, joined>>, WindowCommands
  PROVE  Done
<1> DEFINE d == Dismiss(ui)
           s == Show(Now, d)
<1>1. /\ Solid(s) /\ s.ui = d /\ Unharmed(s) /\ (Fresh(Now) => Fresh(s)) /\ Sane(d)
      /\ Live(d) = Live(ui) /\ d.active \in Live(d) \ {Overlay}
  BY TypedStarts
<1>2. \/ \E n \in Place : Becomes(Redraw([s EXCEPT !.ui = MoveWindow(d, d.active, n)]))
      \/ Becomes(IF CanRemove(d, d.active) THEN Removed(s, d.active) ELSE s)
  <2>1. \/ \E n \in Place : Becomes(Redraw([s EXCEPT !.ui = MoveWindow(s.ui, s.ui.active, n)]))
        \/ Becomes(IF CanRemove(s.ui, s.ui.active) THEN Removed(s, s.ui.active) ELSE s)
    BY <1>1 DEF WindowCommands, Typed
  <2> HIDE DEF s, d
  <2> QED
    BY <1>1, <2>1
<1> HIDE DEF d, s
<1>3. ASSUME NEW n \in Place, Becomes(Redraw([s EXCEPT !.ui = MoveWindow(d, d.active, n)]))
      PROVE  Done
  <2> DEFINE v == MoveWindow(d, d.active, n)
             q == [s EXCEPT !.ui = v]
             t == Redraw(q)
  <2>1. n \in Nat
    BY SpokenAssumption
  <2>2. Sane(v) /\ Live(v) = Live(d) /\ v.active = d.active
    BY <1>1, <2>1, MoveSane
  <2> HIDE DEF v
  <2>3. Solid(q) /\ q.ui = v
    BY <1>1, <2>2, SolidWith
  <2> HIDE DEF q
  <2>4. Solid(t) /\ t.ui = v /\ Fresh(t)
    <3>1. CanDraw(q.ui)
      BY <2>2, <2>3, SolidDraws DEF Sane
    <3>2. t \in Notes /\ t.ui = q.ui /\ t.note.level = q.note.level /\ t.unseen = q.unseen
          /\ Fresh(t)
      BY <2>3, <3>1, RedrawIs DEF Solid
    <3> HIDE DEF t
    <3> QED
      BY <2>3, <3>2 DEF Solid, Levels
  <2>5. Becomes(t)
    BY <1>3 DEF q, v
  <2> HIDE DEF t
  <2>6. ui' = v
    BY <2>4, <2>5, BecomesIs DEF Solid
  <2>7. ClientNext
    BY <2>1, <2>6, KeySteps DEF v, d
  <2> QED
    BY <2>4, <2>5, <2>7, Arrives
<1>4. CASE Becomes(IF CanRemove(d, d.active) THEN Removed(s, d.active) ELSE s)
  <2>1. CASE ~CanRemove(d, d.active)
    <3>1. Becomes(s)
      BY <1>4, <2>1
    <3>2. ui' = d
      BY <1>1, <3>1, BecomesIs DEF Solid
    <3>3. ClientNext
      BY <2>1, <3>2, KeySteps DEF d
    <3> QED
      BY <1>1, <3>1, <3>3, Arrives
  <2>2. CASE CanRemove(d, d.active)
    <3> DEFINE w == d.active
               r == RemoveWindow(d, w)
               t == Removed(s, w)
    <3>1. w \in Live(d) /\ w \notin {Status, Overlay}
      BY <1>1, <2>2 DEF CanRemove
    <3>2. t.ui = r /\ t \in Notes /\ (Above(r) => Solid(t))
      BY <1>1, <3>1, RemovedIs
    <3>3. /\ r.fault = "none" /\ Live(r) = Live(d) \ {w}
          /\ r.active = Head(r.windows) /\ Kept(r)
      BY <1>1, <3>1, RemoveOthers DEF Sane
    <3> HIDE DEF t, r
    <3>4. Above(r)
      <4>1. List(r.windows) /\ Precedes(r.windows, Status, Overlay)
        BY <3>3 DEF Kept, Sound, Lists
      <4>2. Head(r.windows) # Overlay
        BY <4>1, VisitedHead
      <4> QED
        BY <3>3, <4>2 DEF Above
    <3>5. Becomes(t)
      BY <1>4, <2>2 DEF t
    <3>6. ui' = r
      BY <3>2, <3>5, BecomesIs
    <3>7. ClientNext
      BY <2>2, <3>6, KeySteps DEF d, r
    <3>8. Excused(ui, t.ui)
      BY <1>1, <3>1, <3>2, <3>3 DEF Excused
    <3> QED
      BY <3>2, <3>4, <3>5, <3>7, <3>8, Arrives
  <2> QED
    BY <2>1, <2>2
<1> QED
  BY <1>2, <1>3, <1>4

\* Drawing the bar of a solid state.
LEMMA RedrawSolid ==
  ASSUME NEW s, Solid(s)
  PROVE  LET t == Redraw(s) IN Solid(t) /\ t.ui = s.ui /\ Fresh(t)
<1> DEFINE t == Redraw(s)
<1>1. CanDraw(s.ui) /\ s \in Notes
  BY SolidDraws DEF Solid
<1>2. t \in Notes /\ t.ui = s.ui /\ t.note.level = s.note.level /\ t.unseen = s.unseen /\ Fresh(t)
  BY <1>1, RedrawIs
<1> HIDE DEF t
<1> QED
  BY <1>2 DEF Solid, Levels, t

\* Reports and the clock change no window.
LEMMA ReportDone ==
  ASSUME BInv, Running, UNCHANGED <<connected, joined>>,
         NEW t, Becomes(t), t = Redraw(Now) \/
           \E w \in Live(ui), v \in Level : t \in {AddLine(Now, w, v), Redraw(AddLine(Now, w, v))}
  PROVE  Done
<1>1. Solid(Now) /\ Now.ui = ui
  BY NowSolid
<1>2. Solid(t) /\ t.ui = ui /\ (t = Now \/ Fresh(t))
  <2>1. CASE t = Redraw(Now)
    BY <1>1, <2>1, RedrawSolid
  <2>2. ASSUME NEW w \in Live(ui), NEW v \in Level,
               t \in {AddLine(Now, w, v), Redraw(AddLine(Now, w, v))}
        PROVE  Solid(t) /\ t.ui = ui /\ (t = Now \/ Fresh(t))
    <3> DEFINE a == AddLine(Now, w, v)
    <3>1. Solid(a) /\ a.ui = ui /\ (a = Now \/ Fresh(a))
      BY <1>1, AddLineIs
    <3> HIDE DEF a
    <3>2. t \in {a, Redraw(a)}
      BY <2>2 DEF a
    <3> QED
      BY <3>1, <3>2, RedrawSolid
  <2> QED
    BY <2>1, <2>2
<1>3. ui' = ui
  BY <1>2, BecomesIs DEF Solid
<1> QED
  BY <1>2, <1>3, Arrives DEF vars

\* The status window is open, and so is the active one.
LEMMA StatusOpen ==
  ASSUME BInv
  PROVE  Status \in Live(ui) /\ (Running => ui.active \in Live(ui))
BY DEF BInv, CInv, Kept, Sound, Lists, Focused, Live, Running

\* What a person does: keys, /wc and /close, and commands that report.
LEMMA PersonActsDone ==
  ASSUME BInv, PersonActs
  PROVE  Done
<1>1. Running /\ UNCHANGED <<connected, joined>>
  BY DEF PersonActs, Unharmed, Now, Running
<1>2. CASE FocusKeys
  BY <1>1, <1>2, FocusKeysDone
<1>3. CASE WindowCommands
  BY <1>1, <1>3, WindowCommandsDone
<1>4. ASSUME NEW v \in Spoken \cup {None}, Report(v)
      PROVE  Done
  <2> DEFINE t == AddLine(Now, Status, v)
  <2>1. v \in Level /\ Status \in Live(ui)
    BY StatusOpen, SpokenAssumption, NoneIsLevel
  <2>2. Becomes(t)
    BY <1>4 DEF Report
  <2>3. \E w \in Live(ui), x \in Level : t \in {AddLine(Now, w, x), Redraw(AddLine(Now, w, x))}
    BY <2>1
  <2> HIDE DEF t
  <2> QED
    BY <1>1, <2>2, <2>3, ReportDone
<1> QED
  BY <1>2, <1>3, <1>4 DEF PersonActs

\* The clock draws the bar.
LEMMA TickDone ==
  ASSUME BInv, Tick
  PROVE  Done
<1>1. Running /\ UNCHANGED <<connected, joined>> /\ Becomes(Redraw(Now))
  BY DEF Tick, Unharmed, Now, Running
<1> QED
  BY <1>1, ReportDone

-----------------------------------------------------------------------------
(* The handlers of the events.                                              *)

\* JoinEvent, who is ourselves.
LEMMA SelfJoinsDone ==
  ASSUME BInv, Running, connected' = connected, NEW o \in Object, SelfJoins(o)
  PROVE  Done
<1>1. Solid(Now) /\ Sane(ui) /\ Now.ui = ui
  BY NowSolid
<1>2. PICK fresh \in Allocation(ui, o) :
        LET s == WithWindow(Now, o, fresh)
            w == Find(s.ui, o)
            said == AddLine(s, w, Info)
        IN Becomes(Redraw(FocusOn([said EXCEPT !.ui = Revive(said.ui, w)], w)))
  BY DEF SelfJoins
<1> DEFINE s == WithWindow(Now, o, fresh)
           u == s.ui
           w == Find(u, o)
           said == AddLine(s, w, Info)
           f == [u.dead EXCEPT ![w] = FALSE]
           v == Revive(u, w)
           q == [said EXCEPT !.ui = v]
           y == Focus(v, w)
           t == Show(q, y)
<1>3. /\ Solid(s) /\ u = Ensure(ui, o, fresh) /\ w \in Live(u) \ {Overlay}
  BY <1>1, <1>2, WithWindowIs
<1>4. Sane(u) /\ u.dead \in [Window -> BOOLEAN] /\ w \in Window /\ u \in UIState
  BY <1>3, LiveWindows DEF Solid, Sane, UIState
<1> HIDE DEF s, w
<1>5. Solid(said) /\ said.ui = u
  BY <1>3, AddLineIs DEF Level, Info, None, Highlight
<1> HIDE DEF said
<1>6. f \in [Window -> BOOLEAN] /\ v = [u EXCEPT !.dead = f]
  BY <1>4 DEF Revive, Resurrect, UIState
<1> HIDE DEF f
<1>7. Sane(v) /\ Live(v) = Live(u) /\ v.active = u.active
  BY <1>4, <1>6, MarksSane
<1> HIDE DEF v
<1>8. Solid(q) /\ q.ui = v
  BY <1>5, <1>7, SolidWith
<1> HIDE DEF q
<1>9. Sane(y) /\ Live(y) = Live(v) /\ (y = v \/ y.active # v.active)
  BY <1>3, <1>7, FocusSane
<1>10. Solid(t) /\ t.ui = y
  <2> HIDE DEF y
  <2> QED
    BY <1>8, <1>9, ShowTracks
<1>11. Becomes(Redraw(t))
  BY <1>2, <1>5, <1>8 DEF s, w, said, v, q, FocusOn
<1> HIDE DEF t
<1>12. LET r == Redraw(t) IN Solid(r) /\ r.ui = y /\ Fresh(r)
  BY <1>10, RedrawSolid
<1>13. ui' = y
  BY <1>11, <1>12, BecomesIs DEF Solid
<1>14. UpdateStatusbar(y) = y /\ y.fault = "none"
  BY <1>9, SolidDraws DEF Sane
<1>15. SelfJoin(o)
  BY <1>2, <1>3, <1>13, <1>14 DEF SelfJoins, SelfJoin, w, v
<1> QED
  BY <1>11, <1>12, <1>15, Arrives DEF ClientNext, Event

\* A window dies or comes back to life, and the bar is drawn when it is the
\* active one: it is out of date when the window is the covered one.
LEMMA MarkIs ==
  ASSUME NEW s, Solid(s), NEW w \in Live(s.ui), NEW b \in BOOLEAN
  PROVE  LET v == [s.ui EXCEPT !.dead[w] = b]
             x == [s EXCEPT !.ui = v]
             t == RedrawIf(x, w)
         IN /\ Sane(v) /\ Live(v) = Live(s.ui) /\ v.active = s.ui.active
            /\ v = [s.ui EXCEPT !.dead = [s.ui.dead EXCEPT ![w] = b]]
            /\ Solid(x) /\ x.ui = v /\ Solid(t) /\ t.ui = v
            /\ Fresh(s) => Fresh(t) \/ Flipped(s.ui, v)
<1> DEFINE u == s.ui
           f == [u.dead EXCEPT ![w] = b]
           v == [u EXCEPT !.dead[w] = b]
           x == [s EXCEPT !.ui = v]
           t == RedrawIf(x, w)
<1>1. /\ Sane(u) /\ u \in UIState /\ w \in Window /\ s \in Notes /\ CanDraw(u)
  BY LiveWindows, SolidDraws DEF Solid, Sane
<1>2. v = [u EXCEPT !.dead = f] /\ f \in [Window -> BOOLEAN]
  BY <1>1 DEF UIState
<1>3. /\ v.children = u.children /\ v.active = u.active /\ v.obj = u.obj
      /\ v.beforeOverlay = u.beforeOverlay /\ v.dead = f /\ v.name = u.name
  BY <1>1, <1>2 DEF UIState
<1>4. \A y \in Window : y # w => f[y] = u.dead[y]
  BY <1>1 DEF UIState
<1> HIDE DEF v
<1>5. Sane(v) /\ Live(v) = Live(u) /\ v.active = u.active
  BY <1>1, <1>2, MarksSane
<1>6. Solid(x) /\ x.ui = v /\ x.note = s.note
  BY <1>5, SolidWith
<1> HIDE DEF x
<1>7. Solid(t) /\ t.ui = v /\ t \in {x, Redraw(x)} /\ (w = u.active => Fresh(t))
  <2>1. CASE w = v.active
    BY <1>5, <1>6, <2>1, RedrawSolid DEF RedrawIf
  <2>2. CASE w # v.active
    BY <1>5, <1>6, <2>2 DEF RedrawIf
  <2> QED
    BY <2>1, <2>2
<1>8. ASSUME Fresh(s), ~Fresh(t)
      PROVE  Flipped(u, v)
  <2>1. t = x
    BY <1>6, <1>7, <1>8, RedrawSolid
  <2>2. f[Shown(u)] # u.dead[Shown(u)]
    BY <1>3, <1>6, <1>8, <2>1, BarOf
  <2>3. Shown(u) \in Window
    BY <1>1, LiveWindows DEF CanDraw, Sane
  <2>4. Shown(u) = w
    BY <1>4, <2>2, <2>3
  <2> QED
    BY <1>3, <1>7, <1>8, <2>2, <2>4 DEF Shown, Flipped
<1> HIDE DEF t
<1> QED
  BY <1>2, <1>3, <1>5, <1>6, <1>7, <1>8 DEF v, x, t

\* KickEvent, whom is ourselves.
LEMMA SelfKickedDone ==
  ASSUME BInv, Running, connected' = connected, NEW o \in Object, SelfKicked(o)
  PROVE  Done
<1> DEFINE w == Find(ui, o)
<1>1. Solid(Now) /\ Sane(ui) /\ Now.ui = ui /\ o \in joined /\ joined' = joined \ {o}
      /\ Becomes(IF w = Null THEN Now
                 ELSE AddLine(RedrawIf([Now EXCEPT !.ui = Kill(Now.ui, w)], w), w, Highlight))
  BY NowSolid DEF SelfKicked
<1>2. CASE w = Null
  <2>1. Becomes(Now)
    BY <1>1, <1>2
  <2>2. ui' = ui
    BY <1>1, <2>1, BecomesIs DEF Solid
  <2>3. SelfKick(o)
    BY <1>1, <1>2, <2>2 DEF SelfKick
  <2> QED
    BY <1>1, <2>1, <2>3, Arrives DEF ClientNext, Event
<1>3. CASE w # Null
  <2> DEFINE v == [ui EXCEPT !.dead[w] = TRUE]
             x == [Now EXCEPT !.ui = v]
             t == RedrawIf(x, w)
             z == AddLine(t, w, Highlight)
  <2>1. w \in Live(ui) /\ w \notin {Status, Overlay}
    BY <1>1, <1>3, KillOthers DEF Sane, BInv, CInv, Joined
  <2>2. /\ Sane(v) /\ Live(v) = Live(ui) /\ v.active = ui.active
        /\ Solid(t) /\ t.ui = v
        /\ Fresh(Now) => Fresh(t) \/ Flipped(ui, v)
    <3> HIDE DEF w
    <3>1. LET v1 == [Now.ui EXCEPT !.dead[w] = TRUE]
              x1 == [Now EXCEPT !.ui = v1]
              t1 == RedrawIf(x1, w)
          IN /\ Sane(v1) /\ Live(v1) = Live(Now.ui) /\ v1.active = Now.ui.active
             /\ Solid(t1) /\ t1.ui = v1
             /\ Fresh(Now) => Fresh(t1) \/ Flipped(Now.ui, v1)
      BY <1>1, <2>1, MarkIs
    <3> QED
      BY <1>1, <3>1
  <2>3. Becomes(z)
    BY <1>1, <1>3 DEF Kill
  <2>4. Kill(ui, w) = v
    BY DEF Kill
  <2> HIDE DEF v, t, w
  <2>5. Solid(z) /\ z.ui = v /\ (z = t \/ Fresh(z))
    BY <2>1, <2>2, AddLineIs DEF Level, None, Highlight
  <2> HIDE DEF z
  <2>6. ui' = v
    BY <2>3, <2>5, BecomesIs DEF Solid
  <2>7. UpdateStatusbar(v) = v
    BY <2>2, SolidDraws DEF Sane
  <2>8. SelfKick(o)
    BY <1>1, <1>3, <2>4, <2>6, <2>7 DEF SelfKicked, SelfKick, w
  <2> QED
    BY <2>2, <2>3, <2>5, <2>8, Arrives DEF ClientNext, Event, Excused
<1> QED
  BY <1>2, <1>3

\* Whether the bar can be drawn or not.
LEMMA DrawUi ==
  ASSUME NEW s \in Notes
  PROVE  Redraw(s).ui = UpdateStatusbar(s.ui)
<1> DEFINE u == UpdateStatusbar(s.ui)
<1>1. s.ui \in UIState
  BY DEF Notes
<1>2. u = s.ui \/ u.fault # "none"
  BY <1>1 DEF UpdateStatusbar, Faulty, UIState
<1>3. CASE u.fault # "none"
  <2>1. Redraw(s) = [s EXCEPT !.ui = u]
    BY <1>3 DEF Redraw
  <2> HIDE DEF u
  <2> QED
    BY <2>1 DEF Notes, u
<1>4. CASE u = s.ui /\ u.fault = "none"
  BY <1>4 DEF Redraw, Notes
<1> QED
  BY <1>2, <1>3, <1>4

\* PartEvent, who is ourselves.
LEMMA SelfPartsDone ==
  ASSUME BInv, Running, connected' = connected, NEW o \in Object, NEW close \in BOOLEAN,
         SelfParts(o, close)
  PROVE  Done
<1> DEFINE w == Find(ui, o)
           said == AddLine(Now, w, Info)
           k == Kill(ui, w)
           killed == [said EXCEPT !.ui = Kill(said.ui, w)]
<1>1. Solid(Now) /\ Sane(ui) /\ Now.ui = ui /\ o \in joined /\ joined' = joined \ {o}
      /\ Becomes(IF w = Null THEN AddLine(Now, Status, None)
                 ELSE Redraw(IF close THEN Removed(killed, w) ELSE killed))
  BY NowSolid DEF SelfParts
<1>2. CASE w = Null
  <2> DEFINE t == AddLine(Now, Status, None)
  <2>1. Solid(t) /\ t.ui = ui /\ (t = Now \/ Fresh(t))
    BY <1>1, StatusOpen, NoneIsLevel, AddLineIs
  <2>2. Becomes(t)
    BY <1>1, <1>2
  <2> HIDE DEF t
  <2>3. ui' = ui
    BY <2>1, <2>2, BecomesIs DEF Solid
  <2>4. SelfPart(o, close)
    BY <1>1, <1>2, <2>3 DEF SelfPart
  <2> QED
    BY <2>1, <2>2, <2>4, Arrives DEF ClientNext, Event
<1>3. CASE w # Null
  <2>1. w \in Live(ui) /\ w \notin {Status, Overlay}
    BY <1>1, <1>3, KillOthers DEF Sane, BInv, CInv, Joined
  <2>2. Solid(said) /\ said.ui = ui /\ (said = Now \/ Fresh(said))
    <3> HIDE DEF w
    <3> QED
      BY <1>1, <2>1, AddLineIs DEF Level, Info, None, Highlight
  <2> HIDE DEF w, said
  <2>3. /\ Sane(k) /\ Live(k) = Live(ui) /\ k.active = ui.active
        /\ Solid(killed) /\ killed.ui = k
    <3>1. LET v == [said.ui EXCEPT !.dead[w] = TRUE]
              x == [said EXCEPT !.ui = v]
          IN /\ Sane(v) /\ Live(v) = Live(said.ui) /\ v.active = said.ui.active
             /\ Solid(x) /\ x.ui = v
      BY <2>1, <2>2, MarkIs
    <3> QED
      BY <2>2, <3>1 DEF Kill
  <2> HIDE DEF killed, k
  <2>4. CASE ~close
    <3> DEFINE t == Redraw(killed)
    <3>1. Solid(t) /\ t.ui = k /\ Fresh(t)
      BY <2>3, RedrawSolid
    <3>2. Becomes(t)
      BY <1>1, <1>3, <2>4
    <3> HIDE DEF t
    <3>3. ui' = k
      BY <3>1, <3>2, BecomesIs DEF Solid
    <3>4. UpdateStatusbar(k) = k /\ k.fault = "none"
      BY <2>3, SolidDraws DEF Sane
    <3>5. SelfPart(o, close)
      BY <1>1, <1>3, <2>4, <3>3, <3>4 DEF SelfPart, w, k
    <3> QED
      BY <3>1, <3>2, <3>5, Arrives DEF ClientNext, Event
  <2>5. CASE close
    <3> DEFINE r == RemoveWindow(k, w)
               q == Removed(killed, w)
               t == Redraw(q)
    <3>1. q.ui = r /\ q \in Notes /\ (Above(r) => Solid(q))
      BY <2>1, <2>3, RemovedIs
    <3>2. Kept(r) /\ r.fault = "none" /\ Live(r) = Live(k) \ {w}
      BY <2>1, <2>3, RemoveOthers DEF Sane
    <3> HIDE DEF q
    <3>3. Becomes(t)
      BY <1>1, <1>3, <2>5 DEF q
    <3>4. ui' = UpdateStatusbar(r)
      BY <3>1, <3>3, DrawUi DEF Becomes
    <3> HIDE DEF t
    <3>5. SelfPart(o, close)
      BY <1>1, <1>3, <2>5, <3>2, <3>4 DEF SelfPart, w, k, r
    <3>6. CASE Above(r)
      <4>1. Solid(t) /\ t.ui = r /\ Fresh(t)
        BY <3>1, <3>6, RedrawSolid DEF t
      <4> QED
        BY <3>3, <3>5, <4>1, Arrives DEF ClientNext, Event
    <3>7. CASE ~Above(r)
      <4>1. ui'.fault # "none"
        <5>1. r \in UIState /\ Focused(r)
          BY <3>2, LiveWindows DEF Kept, Sound
        <5> HIDE DEF r
        <5> QED
          BY <3>4, <3>7, <5>1 DEF UpdateStatusbar, Faulty, Above, Focused, UIState
      <4> QED
        BY <3>5, <4>1 DEF Done, Running, ClientNext, Event
    <3> QED
      BY <3>6, <3>7
  <2> QED
    BY <2>4, <2>5
<1> QED
  BY <1>2, <1>3

\* PrivmsgEvent, NoticeEvent, and the JoinEvent of somebody else.
LEMMA SaysDone ==
  ASSUME BInv, Running, connected' = connected, NEW o \in Object,
         o.server \in connected, NEW v \in Level, Says(o, v)
  PROVE  Done
<1>1. Solid(Now) /\ Now.ui = ui
  BY NowSolid
<1>2. PICK fresh \in Allocation(ui, o) :
        LET s == WithWindow(Now, o, fresh) IN Becomes(AddLine(s, Find(s.ui, o), v))
  BY DEF Says
<1> DEFINE s == WithWindow(Now, o, fresh)
           w == Find(s.ui, o)
           t == AddLine(s, w, v)
<1>3. /\ Solid(s) /\ s.ui = Ensure(ui, o, fresh) /\ w \in Live(s.ui)
      /\ Fresh(Now) => Fresh(s)
  BY <1>1, <1>2, WithWindowIs
<1>4. Becomes(t)
  BY <1>2
<1> HIDE DEF s, w
<1>5. Solid(t) /\ t.ui = s.ui /\ (t = s \/ Fresh(t))
  BY <1>3, AddLineIs
<1> HIDE DEF t
<1>6. ui' = Ensure(ui, o, fresh)
  BY <1>3, <1>4, <1>5, BecomesIs DEF Solid
<1>7. Message(o)
  BY <1>2, <1>6 DEF Says, Message, OpenWindow
<1> QED
  BY <1>3, <1>4, <1>5, <1>7, Arrives DEF ClientNext, Event

\* PartEvent and KickEvent of somebody else, ModeEvent and TopicEvent.
LEMMA HappensDone ==
  ASSUME BInv, Running, connected' = connected, NEW o \in Object, Happens(o)
  PROVE  Done
<1> DEFINE w == Find(ui, o)
           t == IF w = Null THEN AddLine(Now, Status, None) ELSE AddLine(Now, w, Info)
<1>1. Becomes(t) /\ UNCHANGED <<connected, joined>>
  BY DEF Happens
<1>2. w # Null => w \in Live(ui)
  BY NowSolid, KillOthers DEF Sane, Happens, BInv, CInv, Joined
<1>3. Status \in Live(ui) /\ None \in Level /\ Info \in Level
  BY StatusOpen DEF Level, Info, None, Highlight
<1> HIDE DEF w
<1>4. \E x \in Live(ui), v \in Level : t \in {AddLine(Now, x, v), Redraw(AddLine(Now, x, v))}
  BY <1>2, <1>3
<1> HIDE DEF t
<1> QED
  BY <1>1, <1>4, ReportDone

\* A NoticeEvent without a speaker.
LEMMA ServerNoticeDone ==
  ASSUME BInv, Running, connected' = connected, ServerNotice
  PROVE  Done
<1> DEFINE t == AddLine(Now, ui.active, Highlight)
<1>1. Becomes(t) /\ UNCHANGED <<connected, joined>>
  BY DEF ServerNotice
<1>2. ui.active \in Live(ui) /\ Highlight \in Level
  BY StatusOpen DEF Level, None, Highlight
<1>3. \E x \in Live(ui), v \in Level : t \in {AddLine(Now, x, v), Redraw(AddLine(Now, x, v))}
  BY <1>2
<1> HIDE DEF t
<1> QED
  BY <1>1, <1>3, ReportDone

\* ServerStatusEvent
LEMMA StatusReportDone ==
  ASSUME BInv, Running, connected' = connected, NEW ready \in BOOLEAN, StatusReport(ready)
  PROVE  Done
<1> DEFINE t == Redraw(IF ready THEN AddLine(Now, Status, None) ELSE Now)
<1>1. Becomes(t) /\ UNCHANGED <<connected, joined>>
  BY DEF StatusReport
<1>2. Status \in Live(ui) /\ None \in Level
  BY StatusOpen, NoneIsLevel
<1>3. t = Redraw(Now) \/
      \E x \in Live(ui), v \in Level : t \in {AddLine(Now, x, v), Redraw(AddLine(Now, x, v))}
  BY <1>2
<1> HIDE DEF t
<1> QED
  BY <1>1, <1>3, ReportDone

-----------------------------------------------------------------------------
(* The loops over the windows of a user.                                    *)

\* The states in which the same windows are open as in z.
Unmoved(z) == {t \in Notes : Solid(t) /\ Live(t.ui) = Live(z.ui) /\ t.ui.obj = z.ui.obj}

\* One turn: the windows in marked get the mark b.
TurnOf(s, t, w, marked, b) ==
  /\ Solid(t)
  /\ t.ui = IF w \in marked THEN [s.ui EXCEPT !.dead = [s.ui.dead EXCEPT ![w] = b]] ELSE s.ui
  /\ Fresh(s) => Fresh(t) \/ Flipped(s.ui, t.ui)

\* The marks when the windows in marked have the mark b.
Marked(u, marked, b) == [w \in Window |-> IF w \in marked THEN b ELSE u.dead[w]]

\* A turn stays among these states.
LEMMA TurnUnmoved ==
  ASSUME NEW z, NEW s \in Unmoved(z), NEW t, NEW w, NEW marked, NEW b,
         TurnOf(s, t, w, marked, b)
  PROVE  t \in Unmoved(z)
<1>1. /\ s.ui \in UIState /\ t \in Notes
      /\ Live(s.ui) = Live(z.ui) /\ s.ui.obj = z.ui.obj
  BY DEF Unmoved, TurnOf, Solid, Notes
<1>2. t.ui.children = s.ui.children /\ t.ui.obj = s.ui.obj
  BY <1>1 DEF TurnOf, UIState
<1> QED
  BY <1>1, <1>2 DEF Unmoved, TurnOf, Live

\* The states a loop over ws comes through that starts in z.
Turned(f, z, ws, marked, b) ==
  /\ f[0] = z
  /\ \A n \in 1..Len(z.ui.children) : f[n - 1] \in Unmoved(z) =>
       IF z.ui.children[n] \in ws THEN TurnOf(f[n - 1], f[n], z.ui.children[n], marked, b)
       ELSE f[n] = f[n - 1]

\* After the loop every window in marked has the mark.
LEMMA LoopMarks ==
  ASSUME NEW z, Solid(z), NEW ws \in SUBSET Live(z.ui), NEW marked \in SUBSET ws,
         NEW b \in BOOLEAN, NEW f, Turned(f, z, ws, marked, b)
  PROVE  LET t == f[Len(z.ui.children)] IN
         /\ Solid(t) /\ t.ui = [z.ui EXCEPT !.dead = Marked(z.ui, marked, b)]
         /\ Fresh(z) => Fresh(t) \/ Flipped(z.ui, t.ui)
<1> DEFINE u == z.ui
           c == u.children
           k == Len(c)
           m(n) == {w \in marked : \E j \in 1..n : c[j] = w}
           G(n) == {t \in Unmoved(z) :
             /\ t.ui = [u EXCEPT !.dead = Marked(u, m(n), b)]
             /\ Fresh(z) => Fresh(t) \/ Flipped(u, t.ui)}
           F == [n \in 0..k |-> G(n)]
<1>1. /\ z \in Notes /\ u \in UIState /\ Sane(u) /\ Live(u) \subseteq Window
      /\ ToSet(c) = Live(u) /\ c \in Seq(Window) /\ k \in Nat
  BY LiveWindows, LenProperties DEF Live, UIState, Solid, Sane
<1>10. \A n \in 0..k : F[n] = G(n)
  <2> HIDE DEF G
  <2> QED
    OBVIOUS
<1>2. f[0] \in F[0]
  <2>0. f[0] = z
    BY DEF Turned
  <2>1. m(0) = {}
    OBVIOUS
  <2>2. Marked(u, {}, b) = u.dead /\ [u EXCEPT !.dead = u.dead] = u
    BY <1>1 DEF Marked, UIState
  <2>3. z \in Unmoved(z)
    BY <1>1 DEF Unmoved
  <2> HIDE DEF m
  <2>4. [u EXCEPT !.dead = Marked(u, m(0), b)] = z.ui
    BY <1>1, <2>1, <2>2
  <2>5. z \in G(0)
    BY <2>0, <2>3, <2>4
  <2>6. 0 \in 0..k
    BY <1>1
  <2> HIDE DEF F, G
  <2> QED
    BY <1>10, <2>0, <2>5, <2>6
<1>3. ASSUME NEW n \in 1..k, f[n - 1] \in F[n - 1]
      PROVE  f[n] \in F[n]
  <2> DEFINE s == f[n - 1]
             t == f[n]
             w == c[n]
             d0 == Marked(u, m(n - 1), b)
             d1 == Marked(u, m(n), b)
  <2>1. n \in 0..k /\ n - 1 \in 0..k /\ w \in Window /\ w \in Live(u)
    BY <1>1, ElementOfSeq DEF ToSet, Live
  <2>2. /\ s \in Unmoved(z) /\ s.ui = [u EXCEPT !.dead = d0]
        /\ Fresh(z) => Fresh(s) \/ Flipped(u, s.ui)
    <3>1. s \in G(n - 1)
      <4> HIDE DEF F, G
      <4> QED
        BY <1>3, <1>10, <2>1
    <3> QED
      BY <3>1
  <2>3. m(n) = m(n - 1) \cup (marked \cap {w})
    <3>1. \A x : (\E j \in 1..n : c[j] = x) <=> (\E j \in 1..(n - 1) : c[j] = x) \/ x = c[n]
      BY <1>1
    <3> QED
      BY <3>1
  <2>4. /\ s.ui.dead = d0 /\ s.ui.active = u.active
        /\ s.ui.beforeOverlay = u.beforeOverlay
        /\ \A g : [s.ui EXCEPT !.dead = g] = [u EXCEPT !.dead = g]
    BY <1>1, <2>2 DEF UIState
  <2> DEFINE m0 == m(n - 1)
             m1 == m(n)
  <2>5. m1 = m0 \cup (marked \cap {w})
    BY <2>3
  <2> HIDE DEF m0, m1
  <2>6. d1 = IF w \in marked THEN [d0 EXCEPT ![w] = b] ELSE d0
    BY <2>1, <2>5 DEF Marked, m0, m1
  <2>7. \A x \in Window : u.dead[x] # d0[x] => u.dead[x] # d1[x]
    BY <2>5 DEF Marked, m0, m1
  <2> HIDE DEF d0, d1, m, F
  <2>8. CASE w \in ws
    <3>1. TurnOf(s, t, w, marked, b)
      BY <2>2, <2>8 DEF Turned
    <3>2. t \in Unmoved(z)
      BY <2>2, <3>1, TurnUnmoved
    <3>3. t.ui = [u EXCEPT !.dead = d1]
      BY <1>1, <2>2, <2>4, <2>6, <3>1 DEF TurnOf
    <3>4. t.ui.dead = d1
      BY <1>1, <3>3 DEF UIState
    <3>5. Fresh(z) => Fresh(t) \/ Flipped(u, t.ui)
      <4>1. u.active = Overlay => u.beforeOverlay \in Window
        BY <1>1 DEF Sane, Above
      <4>2. Flipped(u, s.ui) => Flipped(u, t.ui)
        BY <2>4, <2>7, <3>4, <4>1 DEF Flipped
      <4>3. Flipped(s.ui, t.ui) => Flipped(u, s.ui) \/ Flipped(u, t.ui)
        BY <2>4 DEF Flipped
      <4> QED
        BY <2>2, <3>1, <4>2, <4>3 DEF TurnOf
    <3>6. t \in G(n)
      BY <3>2, <3>3, <3>5 DEF d1
    <3> QED
      BY <1>10, <2>1, <3>6
  <2>9. CASE w \notin ws
    <3>1. t = s /\ d1 = d0
      BY <2>2, <2>6, <2>9 DEF Turned
    <3>2. t \in G(n)
      BY <2>2, <3>1 DEF d1
    <3> QED
      BY <1>10, <2>1, <3>2
  <2> QED
    BY <2>8, <2>9
<1> HIDE DEF F
<1>4. f[k] \in F[k]
  <2>1. k \in Nat
    BY <1>1
  <2>2. \A n \in 1..k : f[n - 1] \in F[n - 1] => f[n] \in F[n]
    BY <1>3
  <2> HIDE DEF k
  <2>3. \A n \in 0..k : f[n] \in F[n]
    BY <1>2, <2>1, <2>2, Settles
  <2> QED
    BY <2>1, <2>3
<1>5. m(k) = marked
  BY <1>1 DEF ToSet
<1>6. f[k] \in G(k)
  <2> HIDE DEF G
  <2> QED
    BY <1>1, <1>4, <1>10
<1> HIDE DEF m
<1> QED
  BY <1>5, <1>6 DEF Unmoved

\* The windows of a user are open.
LEMMA RoomsOpen ==
  ASSUME NEW who, NEW rooms \in SUBSET ChannelWindows(ui)
  PROVE  WindowsForUser(ui, who, rooms) \subseteq Live(ui)
BY DEF WindowsForUser, ChannelWindows, Conversations

\* The loop can be run.
LEMMA LoopExists ==
  ASSUME NEW z, Solid(z), NEW ws, NEW op \in [Unmoved(z) \X Window -> Unmoved(z)]
  PROVE  \E f : Passes(f, Unmoved(z), z, z.ui.children, ws, op)
<1>1. z \in Unmoved(z)
  BY DEF Unmoved, Solid
<1>2. z.ui.children \in Seq(Window)
  BY DEF Solid, Notes, UIState
<1> QED
  BY <1>1, <1>2, LoopRuns

\* A mark and the bar.
LEMMA MarkTurn ==
  ASSUME NEW s, Solid(s), NEW w \in Live(s.ui), NEW b \in BOOLEAN, NEW marked, w \in marked
  PROVE  TurnOf(s, RedrawIf([s EXCEPT !.ui = [s.ui EXCEPT !.dead[w] = b]], w), w, marked, b)
<1> DEFINE v == [s.ui EXCEPT !.dead[w] = b]
           t == RedrawIf([s EXCEPT !.ui = v], w)
<1>1. /\ v = [s.ui EXCEPT !.dead = [s.ui.dead EXCEPT ![w] = b]]
      /\ Solid(t) /\ t.ui = v
      /\ Fresh(s) => Fresh(t) \/ Flipped(s.ui, v)
  BY MarkIs
<1> HIDE DEF t, v
<1>2. TurnOf(s, t, w, marked, b)
  BY <1>1 DEF TurnOf
<1> QED
  BY <1>2 DEF t, v

\* A user has another nick: the windows stay as they are, and the bar is out of
\* date when the user is the one of the covered window.
LEMMA RenamedIs ==
  ASSUME BInv, Running, NEW who \in Object, ~IsChannelObject(who), NEW n \in Nick
  PROVE  LET renamed == [Now EXCEPT !.ui.name[who] = n]
             told == IF ActiveUser(renamed.ui) = who THEN Redraw(renamed) ELSE renamed
         IN /\ Solid(told) /\ told.ui = [ui EXCEPT !.name[who] = n]
            /\ Live(told.ui) = Live(ui)
            /\ Fresh(Now) => Fresh(told) \/ Renames(ui, told.ui)
<1> DEFINE v == [ui EXCEPT !.name[who] = n]
           x == [Now EXCEPT !.ui = v]
           told == IF ActiveUser(v) = who THEN Redraw(x) ELSE x
<1>1. Solid(Now) /\ Sane(ui) /\ Now.ui = ui /\ ui \in UIState /\ Kept(ui) /\ CanDraw(ui)
  BY NowSolid, SolidDraws DEF Sane
<1>2. /\ v \in UIState /\ v.windows = ui.windows /\ v.children = ui.children
      /\ v.active = ui.active /\ v.beforeOverlay = ui.beforeOverlay
      /\ v.fault = ui.fault /\ v.obj = ui.obj /\ v.dead = ui.dead
  BY <1>1, RenameEffect
<1>3. /\ v.name[who] = n
      /\ \A o \in Object : o # who => v.name[o] = ui.name[o]
      /\ ui.name[who] = n => v = ui
  BY <1>1 DEF UIState
<1>4. [Now EXCEPT !.ui.name[who] = n] = x
  BY <1>1 DEF Now
<1>5. Kept(v)
  BY <1>1, RenameKept
<1> HIDE DEF v
<1>6. Sane(v) /\ Live(v) = Live(ui) /\ v.active = ui.active
  BY <1>1, <1>2, <1>5 DEF Sane, Above, Live
<1>7. Solid(x) /\ x.ui = v /\ x.note = Now.note
  BY <1>1, <1>6, SolidWith
<1> HIDE DEF x
<1>8. Solid(told) /\ told.ui = v /\ (ActiveUser(v) = who => Fresh(told))
  BY <1>7, RedrawSolid
<1>9. ASSUME Fresh(Now), ActiveUser(v) # who, ~Renames(ui, v)
      PROVE  Fresh(x)
  <2> DEFINE w == Shown(ui)
             o == ui.obj[w]
  <2>1. o # Null => o \in Object
    <3>1. w \in Window
      BY <1>1, LiveWindows DEF CanDraw
    <3> QED
      BY <1>1, <3>1 DEF UIState
  <2>2. o # Null => v.name[o] = ui.name[o]
    <3> SUFFICES ASSUME o = who, o # Null, n # ui.name[who]
                 PROVE  FALSE
      BY <1>3, <2>1
    <3>1. IsUser(ui, w)
      BY DEF IsUser
    <3>2. w # ui.active
      BY <1>2, <1>9, <3>1 DEF ActiveUser, IsUser
    <3> QED
      BY <1>3, <1>9, <3>1, <3>2 DEF Shown, Renames
  <2> QED
    BY <1>1, <1>2, <1>7, <1>9, <2>2, BarOf
<1> HIDE DEF told
<1> QED
  BY <1>4, <1>6, <1>7, <1>8, <1>9 DEF told, v, x

\* NickEvent
LEMMA ChangesNickDone ==
  ASSUME BInv, Running, connected' = connected, NEW who \in Object,
         who.server \in connected, NEW nick \in Nick,
         NEW rooms \in SUBSET ChannelWindows(ui), ChangesNick(who, nick, rooms)
  PROVE  Done
<1> DEFINE renamed == [Now EXCEPT !.ui.name[who] = nick]
           z == IF ActiveUser(renamed.ui) = who THEN Redraw(renamed) ELSE renamed
           ws == WindowsForUser(z.ui, who, rooms)
           c == z.ui.children
           k == Len(c)
           marked == {}
           Op(s, w) == AddLine(s, w, Info)
           Ran(f) == f = [i \in 0..k |->
                            IF i = 0 THEN z
                            ELSE IF c[i] \in ws THEN Op(f[i - 1], c[i]) ELSE f[i - 1]]
           g == CHOOSE f : Ran(f)
           t == g[k]
           op == [p \in Unmoved(z) \X Window |-> IF p[2] \in ws THEN Op(p[1], p[2]) ELSE p[1]]
           v == [z.ui EXCEPT !.dead = Marked(z.ui, marked, FALSE)]
<1>0. ~IsChannelObject(who) /\ UNCHANGED joined
  BY DEF ChangesNick
<1>1. Becomes(t)
  BY DEF ChangesNick, ForEach
<1>11. /\ Solid(z) /\ z.ui = [ui EXCEPT !.name[who] = nick] /\ Live(z.ui) = Live(ui)
       /\ Fresh(Now) => Fresh(z) \/ Renames(ui, z.ui)
  BY <1>0, RenamedIs
<1> HIDE DEF renamed, z
<1>12. z.ui \in UIState /\ Live(z.ui) \subseteq Window
  BY <1>11, LiveWindows DEF Solid
<1>2. /\ ws \subseteq Live(z.ui) /\ marked \subseteq ws
      /\ c \in Seq(Window) /\ k \in Nat
  BY <1>11, <1>12, LenProperties DEF WindowsForUser, ChannelWindows, Conversations, UIState
<1>3. ASSUME NEW s \in Unmoved(z), NEW w \in ws
      PROVE  TurnOf(s, Op(s, w), w, marked, FALSE) /\ Op(s, w) \in Unmoved(z)
  <2>1. Solid(s) /\ w \in Live(s.ui) /\ Info \in Level
    BY <1>2 DEF Unmoved, Level, Info, None, Highlight
  <2> DEFINE x == Op(s, w)
  <2>2. Solid(x) /\ x.ui = s.ui /\ (x = s \/ Fresh(x))
    BY <2>1, AddLineIs
  <2> HIDE DEF x
  <2>3. TurnOf(s, x, w, marked, FALSE)
    BY <2>2 DEF TurnOf
  <2> QED
    BY <2>3, TurnUnmoved DEF x
<1> HIDE DEF Op, ws, marked
<1>4. op \in [Unmoved(z) \X Window -> Unmoved(z)]
  BY <1>3
<1>5. PICK f : Passes(f, Unmoved(z), z, c, ws, op)
  <2> HIDE DEF op
  <2> QED
    BY <1>4, <1>11, LoopExists
<1>6. \A n \in 1..k : f[n] = IF c[n] \in ws THEN Op(f[n - 1], c[n]) ELSE f[n - 1]
  <2> SUFFICES ASSUME NEW n \in 1..k, c[n] \in ws
               PROVE  op[<<f[n - 1], c[n]>>] = Op(f[n - 1], c[n])
    BY <1>5 DEF Passes
  <2>1. n - 1 \in 0..k /\ c[n] \in Window
    BY <1>2
  <2>2. <<f[n - 1], c[n]>> \in Unmoved(z) \X Window
    BY <1>5, <2>1 DEF Passes
  <2> QED
    BY <2>2
<1>7. Ran(f)
  <2>1. \A n \in 0..k : f[n] = IF n = 0 THEN z
                               ELSE IF c[n] \in ws THEN Op(f[n - 1], c[n]) ELSE f[n - 1]
    BY <1>2, <1>5, <1>6 DEF Passes
  <2> QED
    BY <1>5, <2>1 DEF Passes
<1>8. Ran(g)
  <2> HIDE DEF Ran
  <2> QED
    BY <1>7
<1> HIDE DEF g
<1>9. g[0] = z /\ \A n \in 1..k : g[n] = IF c[n] \in ws THEN Op(g[n - 1], c[n]) ELSE g[n - 1]
  <2>1. \A n \in 0..k : g[n] = IF n = 0 THEN z
                               ELSE IF c[n] \in ws THEN Op(g[n - 1], c[n]) ELSE g[n - 1]
    BY <1>8
  <2> QED
    BY <1>2, <2>1
<1>10. /\ Solid(t) /\ t.ui = v
       /\ Fresh(z) => Fresh(t) \/ Flipped(z.ui, t.ui)
  <2>1. Turned(g, z, ws, marked, FALSE)
    BY <1>3, <1>9 DEF Turned
  <2>2. marked \in SUBSET ws /\ ws \in SUBSET Live(z.ui)
    BY <1>2
  <2> QED
    BY <1>11, <2>1, <2>2, LoopMarks
<1>13. v = z.ui
  BY <1>12 DEF marked, Marked, UIState
<1> HIDE DEF t, v
<1>14. t.ui = z.ui /\ (Fresh(z) => Fresh(t))
  BY <1>10, <1>13 DEF Flipped
<1>15. ui' = [ui EXCEPT !.name[who] = nick]
  BY <1>1, <1>10, <1>11, <1>14, BecomesIs DEF Solid
<1>16. NickChange(who, nick)
  BY <1>0, <1>15 DEF NickChange, Rename
<1> QED
  BY <1>1, <1>10, <1>11, <1>14, <1>16, Arrives DEF ClientNext, Event, Excused

\* QuitEvent
LEMMA QuitsDone ==
  ASSUME BInv, Running, connected' = connected, NEW who \in Object,
         who.server \in connected, NEW rooms \in SUBSET ChannelWindows(ui), Quits(who, rooms)
  PROVE  Done
<1> DEFINE ws == WindowsForUser(ui, who, rooms)
           c == ui.children
           k == Len(c)
           marked == {w \in ws : ui.obj[w] = who}
           Op(s, w) == LET said == AddLine(s, w, Info)
                       IN IF ui.obj[w] = who THEN RedrawIf([said EXCEPT !.ui = Kill(said.ui, w)], w)
                          ELSE said
           Ran(f) == f = [i \in 0..k |->
                            IF i = 0 THEN Now
                            ELSE IF c[i] \in ws THEN Op(f[i - 1], c[i]) ELSE f[i - 1]]
           g == CHOOSE f : Ran(f)
           t == g[k]
           op == [p \in Unmoved(Now) \X Window |-> IF p[2] \in ws THEN Op(p[1], p[2]) ELSE p[1]]
           v == [ui EXCEPT !.dead = Marked(ui, marked, TRUE)]
<1>0. Solid(Now) /\ Now.ui = ui
  BY NowSolid
<1>1. Becomes(t) /\ UNCHANGED joined
  BY DEF Quits, ForEach, Now
<1>2. /\ ws \subseteq Live(ui) /\ Live(ui) \subseteq Window /\ marked \subseteq ws
      /\ c \in Seq(Window) /\ k \in Nat
  BY RoomsOpen, NowSolid, LiveWindows, LenProperties DEF UIState
<1>3. ASSUME NEW s \in Unmoved(Now), NEW w \in ws
      PROVE  TurnOf(s, Op(s, w), w, marked, TRUE) /\ Op(s, w) \in Unmoved(Now)
  <2> DEFINE said == AddLine(s, w, Info)
             x == Op(s, w)
  <2>1. Solid(s) /\ w \in Live(s.ui) /\ Info \in Level
    BY <1>0, <1>2 DEF Unmoved, Level, Info, None, Highlight
  <2>2. Solid(said) /\ said.ui = s.ui /\ (said = s \/ Fresh(said))
    BY <2>1, AddLineIs
  <2>3. x = IF w \in marked THEN RedrawIf([said EXCEPT !.ui = [said.ui EXCEPT !.dead[w] = TRUE]], w)
            ELSE said
    BY DEF Kill
  <2> HIDE DEF said, x, marked
  <2>4. TurnOf(s, x, w, marked, TRUE)
    <3>1. CASE w \in marked
      <4>1. TurnOf(said, x, w, marked, TRUE)
        BY <2>1, <2>2, <2>3, <3>1, MarkTurn
      <4> QED
        BY <2>2, <4>1 DEF TurnOf
    <3>2. CASE w \notin marked
      BY <2>2, <2>3, <3>2 DEF TurnOf
    <3> QED
      BY <3>1, <3>2
  <2> QED
    BY <2>4, TurnUnmoved DEF x
<1> HIDE DEF Op, ws, marked
<1>4. op \in [Unmoved(Now) \X Window -> Unmoved(Now)]
  BY <1>3
<1>5. PICK f : Passes(f, Unmoved(Now), Now, c, ws, op)
  <2> HIDE DEF op
  <2> QED
    BY <1>0, <1>4, LoopExists
<1>6. \A n \in 1..k : f[n] = IF c[n] \in ws THEN Op(f[n - 1], c[n]) ELSE f[n - 1]
  <2> SUFFICES ASSUME NEW n \in 1..k, c[n] \in ws
               PROVE  op[<<f[n - 1], c[n]>>] = Op(f[n - 1], c[n])
    BY <1>5 DEF Passes
  <2>1. n - 1 \in 0..k /\ c[n] \in Window
    BY <1>2
  <2>2. <<f[n - 1], c[n]>> \in Unmoved(Now) \X Window
    BY <1>5, <2>1 DEF Passes
  <2> QED
    BY <2>2
<1>7. Ran(f)
  <2>1. \A n \in 0..k : f[n] = IF n = 0 THEN Now
                               ELSE IF c[n] \in ws THEN Op(f[n - 1], c[n]) ELSE f[n - 1]
    BY <1>2, <1>5, <1>6 DEF Passes
  <2> QED
    BY <1>5, <2>1 DEF Passes
<1>8. Ran(g)
  <2> HIDE DEF Ran
  <2> QED
    BY <1>7
<1> HIDE DEF g
<1>9. g[0] = Now /\ \A n \in 1..k : g[n] = IF c[n] \in ws THEN Op(g[n - 1], c[n]) ELSE g[n - 1]
  <2>1. \A n \in 0..k : g[n] = IF n = 0 THEN Now
                               ELSE IF c[n] \in ws THEN Op(g[n - 1], c[n]) ELSE g[n - 1]
    BY <1>8
  <2> QED
    BY <1>2, <2>1
<1>10. /\ Solid(t) /\ t.ui = v
       /\ Fresh(Now) => Fresh(t) \/ Flipped(ui, t.ui)
  <2>1. Turned(g, Now, ws, marked, TRUE)
    BY <1>0, <1>3, <1>9 DEF Turned
  <2>2. marked \in SUBSET ws /\ ws \in SUBSET Live(Now.ui)
    BY <1>0, <1>2
  <2> HIDE DEF v, t
  <2>3. LET x == g[Len(Now.ui.children)] IN
        /\ Solid(x) /\ x.ui = [Now.ui EXCEPT !.dead = Marked(Now.ui, marked, TRUE)]
        /\ Fresh(Now) => Fresh(x) \/ Flipped(Now.ui, x.ui)
    BY <1>0, <2>1, <2>2, LoopMarks
  <2> QED
    BY <1>0, <2>3 DEF v, t
<1> HIDE DEF t, v
<1>11. ui' = v
  BY <1>1, <1>10, BecomesIs DEF Solid
<1>12. UserQuit(who, rooms)
  <2>1. v = [ui EXCEPT !.dead = [w \in Window |-> ui.dead[w] \/ w \in marked]]
    <3>1. ui.dead \in [Window -> BOOLEAN]
      BY NowSolid DEF UIState
    <3>2. Marked(ui, marked, TRUE) = [w \in Window |-> ui.dead[w] \/ w \in marked]
      BY <3>1 DEF Marked
    <3> QED
      BY <3>2 DEF v
  <2>2. RedrawFor(v, marked) = v
    BY <1>10, SolidDraws DEF Solid, RedrawFor
  <2>3. who.server \in connected /\ ~IsChannelObject(who)
    BY DEF Quits
  <2> QED
    BY <1>1, <1>11, <2>1, <2>2, <2>3 DEF UserQuit, marked, ws
<1> QED
  BY <1>1, <1>10, <1>11, <1>12, Arrives DEF ClientNext, Event, Excused

\* UserAppearedEvent
LEMMA AppearsDone ==
  ASSUME BInv, Running, connected' = connected, NEW who \in Object,
         who.server \in connected, NEW rooms \in SUBSET ChannelWindows(ui), Appears(who, rooms)
  PROVE  Done
<1> DEFINE ws == WindowsForUser(ui, who, rooms)
           c == ui.children
           k == Len(c)
           marked == ws
           Op(s, w) == RedrawIf([s EXCEPT !.ui = Resurrect(s.ui, w)], w)
           Ran(f) == f = [i \in 0..k |->
                            IF i = 0 THEN Now
                            ELSE IF c[i] \in ws THEN Op(f[i - 1], c[i]) ELSE f[i - 1]]
           g == CHOOSE f : Ran(f)
           t == g[k]
           op == [p \in Unmoved(Now) \X Window |-> IF p[2] \in ws THEN Op(p[1], p[2]) ELSE p[1]]
           v == [ui EXCEPT !.dead = Marked(ui, marked, FALSE)]
<1>0. Solid(Now) /\ Now.ui = ui
  BY NowSolid
<1>1. Becomes(t) /\ UNCHANGED joined
  BY DEF Appears, ForEach, Now
<1>2. /\ ws \subseteq Live(ui) /\ Live(ui) \subseteq Window /\ marked \subseteq ws
      /\ c \in Seq(Window) /\ k \in Nat
  BY RoomsOpen, NowSolid, LiveWindows, LenProperties DEF UIState
<1>3. ASSUME NEW s \in Unmoved(Now), NEW w \in ws
      PROVE  TurnOf(s, Op(s, w), w, marked, FALSE) /\ Op(s, w) \in Unmoved(Now)
  <2> DEFINE x == Op(s, w)
  <2>1. Solid(s) /\ w \in Live(s.ui)
    BY <1>0, <1>2 DEF Unmoved
  <2>2. x = RedrawIf([s EXCEPT !.ui = [s.ui EXCEPT !.dead[w] = FALSE]], w)
    BY DEF Resurrect
  <2> HIDE DEF x
  <2>3. TurnOf(s, x, w, marked, FALSE)
    BY <2>1, <2>2, MarkTurn
  <2> QED
    BY <2>3, TurnUnmoved DEF x
<1> HIDE DEF Op, ws, marked
<1>4. op \in [Unmoved(Now) \X Window -> Unmoved(Now)]
  BY <1>3
<1>5. PICK f : Passes(f, Unmoved(Now), Now, c, ws, op)
  <2> HIDE DEF op
  <2> QED
    BY <1>0, <1>4, LoopExists
<1>6. \A n \in 1..k : f[n] = IF c[n] \in ws THEN Op(f[n - 1], c[n]) ELSE f[n - 1]
  <2> SUFFICES ASSUME NEW n \in 1..k, c[n] \in ws
               PROVE  op[<<f[n - 1], c[n]>>] = Op(f[n - 1], c[n])
    BY <1>5 DEF Passes
  <2>1. n - 1 \in 0..k /\ c[n] \in Window
    BY <1>2
  <2>2. <<f[n - 1], c[n]>> \in Unmoved(Now) \X Window
    BY <1>5, <2>1 DEF Passes
  <2> QED
    BY <2>2
<1>7. Ran(f)
  <2>1. \A n \in 0..k : f[n] = IF n = 0 THEN Now
                               ELSE IF c[n] \in ws THEN Op(f[n - 1], c[n]) ELSE f[n - 1]
    BY <1>2, <1>5, <1>6 DEF Passes
  <2> QED
    BY <1>5, <2>1 DEF Passes
<1>8. Ran(g)
  <2> HIDE DEF Ran
  <2> QED
    BY <1>7
<1> HIDE DEF g
<1>9. g[0] = Now /\ \A n \in 1..k : g[n] = IF c[n] \in ws THEN Op(g[n - 1], c[n]) ELSE g[n - 1]
  <2>1. \A n \in 0..k : g[n] = IF n = 0 THEN Now
                               ELSE IF c[n] \in ws THEN Op(g[n - 1], c[n]) ELSE g[n - 1]
    BY <1>8
  <2> QED
    BY <1>2, <2>1
<1>10. /\ Solid(t) /\ t.ui = v
       /\ Fresh(Now) => Fresh(t) \/ Flipped(ui, t.ui)
  <2>1. Turned(g, Now, ws, marked, FALSE)
    BY <1>0, <1>3, <1>9 DEF Turned
  <2>2. marked \in SUBSET ws /\ ws \in SUBSET Live(Now.ui)
    BY <1>0, <1>2
  <2> HIDE DEF v, t
  <2>3. LET x == g[Len(Now.ui.children)] IN
        /\ Solid(x) /\ x.ui = [Now.ui EXCEPT !.dead = Marked(Now.ui, marked, FALSE)]
        /\ Fresh(Now) => Fresh(x) \/ Flipped(Now.ui, x.ui)
    BY <1>0, <2>1, <2>2, LoopMarks
  <2> QED
    BY <1>0, <2>3 DEF v, t
<1> HIDE DEF t, v
<1>11. ui' = v
  BY <1>1, <1>10, BecomesIs DEF Solid
<1>12. UserAppeared(who, rooms)
  <2>1. v = [ui EXCEPT !.dead = [w \in Window |-> ui.dead[w] /\ w \notin ws]]
    <3>1. ui.dead \in [Window -> BOOLEAN]
      BY NowSolid DEF UIState
    <3>2. Marked(ui, ws, FALSE) = [w \in Window |-> ui.dead[w] /\ w \notin ws]
      BY <3>1 DEF Marked
    <3> QED
      BY <3>2 DEF v, marked
  <2>2. RedrawFor(v, ws) = v
    BY <1>10, SolidDraws DEF Solid, RedrawFor
  <2>3. who.server \in connected /\ ~IsChannelObject(who)
    BY DEF Appears
  <2> QED
    BY <1>1, <1>11, <2>1, <2>2, <2>3 DEF UserAppeared, ws
<1> QED
  BY <1>1, <1>10, <1>11, <1>12, Arrives DEF ClientNext, Event, Excused

\* All the handlers.
LEMMA HappeningDone ==
  ASSUME BInv, Happening
  PROVE  Done
<1>1. Running /\ connected' = connected
  BY DEF Happening, Unharmed, Now, Running
<1>2. Spoken \cup {Info} \subseteq Level
  BY SpokenAssumption DEF Level, Info, None, Highlight
<1>3. ASSUME NEW o \in Object, o.server \in connected,
             NEW rooms \in SUBSET ChannelWindows(ui),
             \/ \E n \in Nick : ChangesNick(o, n, rooms)
             \/ Quits(o, rooms) \/ Appears(o, rooms)
      PROVE  Done
  BY <1>1, <1>3, ChangesNickDone, QuitsDone, AppearsDone
<1>4. ASSUME NEW o \in Object, NEW close \in BOOLEAN, SelfParts(o, close)
      PROVE  Done
  BY <1>1, <1>4, SelfPartsDone
<1>5. ASSUME NEW o \in Object, o.server \in connected,
             NEW v \in Spoken \cup {Info}, Says(o, v)
      PROVE  Done
  BY <1>1, <1>2, <1>5, SaysDone
<1>6. ASSUME NEW o \in Object, SelfJoins(o) \/ SelfKicked(o) \/ Happens(o)
      PROVE  Done
  BY <1>1, <1>6, SelfJoinsDone, SelfKickedDone, HappensDone
<1>7. ASSUME ServerNotice \/ \E ready \in BOOLEAN : StatusReport(ready)
      PROVE  Done
  BY <1>1, <1>7, ServerNoticeDone, StatusReportDone
<1> QED
  BY <1>3, <1>4, <1>5, <1>6, <1>7 DEF Happening

-----------------------------------------------------------------------------
(* serverRemoved.                                                           *)

\* What LoopTurn sees of a turn.
Flat(st) == [ui |-> st.screen.ui, deque |-> st.deque]

\* The states of the loop that starts in s: until it ends the program the bar
\* can be drawn, and it is as true as it was or a window has been closed.
Drawn(s, n, server) ==
  {st \in [screen : Notes, deque : Deques(n)] :
     /\ Flat(st) \in Loops(s.ui, n, server)
     /\ st.screen.ui.fault = "none" =>
          /\ Solid(st.screen) /\ st.screen.ui.active # Overlay
          /\ Fresh(s) => Fresh(st.screen) \/ Live(s.ui) \ Live(st.screen.ui) # {}}

\* A turn with the bar does to the windows what it does without.
LEMMA TurnDraws ==
  ASSUME NEW s, NEW n \in Nat, NEW server, NEW st \in Drawn(s, n, server), NEW i \in 1..n
  PROVE  /\ Turn(st, i, server) \in Drawn(s, n, server)
         /\ Flat(Turn(st, i, server)) = LoopTurn(Flat(st), i, server)
<1> DEFINE x == st.screen
           d == st.deque
           v == x.ui
           w == d.slots[i]
           q == Removed(x, w)
           r == RemoveWindow(v, w)
           e == EraseInPlace(d, Position(v.children, w))
<1>1. /\ st = [screen |-> x, deque |-> d] /\ Flat(st) = [ui |-> v, deque |-> d]
      /\ x \in Notes /\ d \in Deques(n) /\ v \in UIState
      /\ Flat(st) \in Loops(s.ui, n, server)
      /\ v.fault = "none" => /\ Solid(x) /\ v.active # Overlay
                             /\ Fresh(s) => Fresh(x) \/ Live(s.ui) \ Live(v) # {}
  BY DEF Drawn, Flat, Notes
<1>2. LoopTurn(Flat(st), i, server) \in Loops(s.ui, n, server)
  BY <1>1, TurnLoops
<1> HIDE DEF x, d, v
<1>3. CASE v.fault # "none"
  <2>1. Turn(st, i, server) = st /\ LoopTurn(Flat(st), i, server) = Flat(st)
    BY <1>1, <1>3 DEF Turn, LoopTurn, Unharmed, x, d, v
  <2> QED
    BY <2>1
<1>4. CASE v.fault = "none" /\ w \notin Live(v)
  <2> DEFINE f == Faulty(v, "freed")
             y == [x EXCEPT !.ui = f]
             t == [screen |-> y, deque |-> d]
  <2>1. f \in UIState /\ f.fault = "freed"
    BY <1>1 DEF UIState, Fault, Faulty
  <2>2. Turn(st, i, server) = [st EXCEPT !.screen.ui = f]
    BY <1>1, <1>4 DEF Turn, Unharmed, x, d, v
  <2>3. LoopTurn(Flat(st), i, server) = [ui |-> f, deque |-> d]
    BY <1>1, <1>4 DEF LoopTurn
  <2> HIDE DEF f
  <2>4. y \in Notes /\ y.ui = f
    BY <1>1, <2>1 DEF Notes
  <2>5. [st EXCEPT !.screen.ui = f] = t
    BY <1>1
  <2> HIDE DEF y
  <2>6. Flat(t) = [ui |-> f, deque |-> d] /\ t.screen = y
    BY <2>4 DEF Flat
  <2>7. t \in Drawn(s, n, server)
    BY <1>1, <1>2, <2>1, <2>3, <2>4, <2>6 DEF Drawn
  <2> QED
    BY <2>2, <2>3, <2>5, <2>6, <2>7
<1>5. CASE v.fault = "none" /\ w \in Live(v)
           /\ (v.obj[w] = Null \/ v.obj[w].server # server)
  <2>1. Turn(st, i, server) = st /\ LoopTurn(Flat(st), i, server) = Flat(st)
    BY <1>1, <1>5 DEF Turn, LoopTurn, Unharmed, x, d, v
  <2> QED
    BY <2>1
<1>6. CASE v.fault = "none" /\ w \in Live(v)
           /\ ~(v.obj[w] = Null \/ v.obj[w].server # server)
  <2> DEFINE t == [screen |-> q, deque |-> e]
  <2>1. Kept(v) /\ Solid(x) /\ x.ui = v
    BY <1>1, <1>6 DEF Solid, v
  <2>2. w \notin {Status, Overlay}
    BY <1>6, <2>1 DEF Kept, Sound, Named
  <2>3. q.ui = r /\ q \in Notes /\ (Above(r) => Solid(q))
    BY <1>6, <2>1, <2>2, RemovedIs
  <2>4. /\ Kept(r) /\ r.fault = "none" /\ Live(r) = Live(v) \ {w}
        /\ r.active = IF v.active = w THEN Head(r.windows) ELSE v.active
    BY <1>6, <2>1, <2>2, RemoveOthers
  <2>5. Turn(st, i, server) = t
    BY <1>1, <1>6 DEF Turn, Unharmed, x, d, v
  <2>6. LoopTurn(Flat(st), i, server) = [ui |-> r, deque |-> e]
    BY <1>1, <1>6 DEF LoopTurn
  <2> HIDE DEF q, r, e
  <2>7. r.active # Overlay
    <3>1. List(r.windows) /\ Precedes(r.windows, Status, Overlay)
      BY <2>4 DEF Kept, Sound, Lists
    <3>2. Head(r.windows) # Overlay
      BY <3>1, VisitedHead
    <3> QED
      BY <1>1, <1>6, <2>4, <3>2
  <2>8. Solid(q)
    BY <2>3, <2>7 DEF Above
  <2>9. Live(s.ui) \ Live(r) # {}
    <3>1. Live(v) \subseteq Live(s.ui)
      BY <1>1, <1>6 DEF Loops, Shed, Left
    <3> QED
      BY <1>6, <2>4, <3>1
  <2>10. Flat(t) = [ui |-> r, deque |-> e] /\ e \in Deques(n)
    BY <1>2, <2>3, <2>6 DEF Flat, Loops
  <2>11. t \in Drawn(s, n, server)
    BY <1>2, <2>3, <2>6, <2>7, <2>8, <2>9, <2>10 DEF Drawn
  <2> QED
    BY <2>5, <2>6, <2>10, <2>11
<1> QED
  BY <1>3, <1>4, <1>5, <1>6

\* So does the whole loop.
LEMMA RemovedServerIs ==
  ASSUME NEW s, Solid(s), s.ui.active # Overlay, NEW server
  PROVE  LET t == RemovedServer(s, server) IN
         /\ t.ui = WithoutServer(s.ui, server) /\ t \in Notes
         /\ t.ui.fault = "none" =>
              /\ Solid(t)
              /\ Fresh(s) => Fresh(t) \/ Live(s.ui) \ Live(t.ui) # {}
<1> DEFINE u == s.ui
           n == Len(u.children)
           S == Drawn(s, n, server)
           deque == [lo |-> 1, size |-> n, slots |-> u.children]
           start == [screen |-> s, deque |-> deque]
           flat == [ui |-> u, deque |-> deque]
           step == [p \in Nat \X S |->
                      IF p[1] \in 1..n THEN Turn(p[2], n + 1 - p[1], server) ELSE p[2]]
           Turns(f) == f = [k \in 0..n |->
                              IF k = 0 THEN start
                              ELSE Turn(f[k - 1], n + 1 - k, server)]
           turn == CHOOSE f : Turns(f)
           Loop(f) == f = [k \in 0..n |->
                             IF k = 0 THEN flat
                             ELSE LoopTurn(f[k - 1], n + 1 - k, server)]
           loop == CHOOSE f : Loop(f)
<1>1. /\ Kept(u) /\ u.fault = "none" /\ s \in Notes
      /\ u \in UIState /\ u.children \in Seq(Window)
      /\ DOMAIN u.children = 1..n /\ n \in Nat
  BY LiveWindows, LenProperties DEF Solid, UIState
<1> HIDE DEF n
<1>2. start \in S /\ Flat(start) = flat
  <2>1. u.children \in [1..n -> Window]
    BY <1>1, LenProperties DEF n
  <2>2. deque \in Deques(n)
    BY <1>1, <2>1 DEF Deques
  <2>3. Shed(u, u) /\ Spares(u, u, server)
    BY <1>1, ShedNothing DEF Spares
  <2>4. flat \in Loops(u, n, server)
    BY <1>1, <2>2, <2>3 DEF Loops, n
  <2> HIDE DEF deque
  <2>5. Flat(start) = flat
    BY DEF Flat
  <2> HIDE DEF flat
  <2> QED
    BY <1>1, <2>2, <2>4, <2>5 DEF Drawn
<1> HIDE DEF start, flat
<1>3. \A st \in S : \A k \in 1..n :
        /\ Turn(st, n + 1 - k, server) \in S
        /\ Flat(Turn(st, n + 1 - k, server)) = LoopTurn(Flat(st), n + 1 - k, server)
  <2> SUFFICES ASSUME NEW st \in S, NEW k \in 1..n
               PROVE  /\ Turn(st, n + 1 - k, server) \in S
                      /\ Flat(Turn(st, n + 1 - k, server)) = LoopTurn(Flat(st), n + 1 - k, server)
    OBVIOUS
  <2>1. n + 1 - k \in 1..n
    BY <1>1
  <2> QED
    BY <1>1, <2>1, TurnDraws
<1> HIDE DEF S
<1>4. step \in [Nat \X S -> S]
  BY <1>3
<1>5. PICK f : Goes(f, S, start, step, n)
  <2> HIDE DEF step, Turns, turn
  <2> QED
    BY <1>1, <1>2, <1>4, Iterates
<1>6. \A k \in 1..n : f[k] = Turn(f[k - 1], n + 1 - k, server) /\ f[k - 1] \in S
  <2> SUFFICES ASSUME NEW k \in 1..n
               PROVE  f[k] = Turn(f[k - 1], n + 1 - k, server) /\ f[k - 1] \in S
    OBVIOUS
  <2>1. k - 1 \in 0..n /\ k \in Nat
    BY <1>1
  <2>2. <<k, f[k - 1]>> \in Nat \X S /\ f[k - 1] \in S
    BY <1>5, <2>1 DEF Goes
  <2> QED
    BY <1>5, <2>2 DEF Goes
<1>7. Turns(f)
  <2>1. \A k \in 0..n : f[k] = IF k = 0 THEN start
                               ELSE Turn(f[k - 1], n + 1 - k, server)
    BY <1>1, <1>5, <1>6 DEF Goes
  <2> QED
    BY <1>5, <2>1 DEF Goes
<1>8. Turns(turn)
  <2> HIDE DEF Turns
  <2> QED
    BY <1>7
<1> DEFINE h == [k \in 0..n |-> Flat(f[k])]
<1>9. Loop(h)
  <2>1. h[0] = flat
    BY <1>1, <1>2, <1>5 DEF Goes
  <2>2. ASSUME NEW k \in 1..n
        PROVE  h[k] = LoopTurn(h[k - 1], n + 1 - k, server)
    <3>1. k \in 0..n /\ k - 1 \in 0..n
      BY <1>1
    <3>2. h[k] = Flat(f[k]) /\ h[k - 1] = Flat(f[k - 1])
      BY <3>1
    <3> HIDE DEF h
    <3> QED
      BY <1>3, <1>6, <3>2
  <2>3. \A k \in 0..n : h[k] = IF k = 0 THEN flat
                               ELSE LoopTurn(h[k - 1], n + 1 - k, server)
    <3> HIDE DEF h
    <3> QED
      BY <1>1, <2>1, <2>2
  <2> QED
    BY <2>3
<1>10. Loop(loop)
  <2> HIDE DEF Loop, h
  <2> QED
    BY <1>9
<1> HIDE DEF turn, loop
<1>11. turn[0] = start /\ loop[0] = flat
       /\ \A k \in 1..n : /\ turn[k] = Turn(turn[k - 1], n + 1 - k, server)
                          /\ loop[k] = LoopTurn(loop[k - 1], n + 1 - k, server)
  <2>1. turn[0] = start /\ \A k \in 1..n : turn[k] = Turn(turn[k - 1], n + 1 - k, server)
    BY <1>1, <1>8
  <2>2. loop[0] = flat /\ \A k \in 1..n : loop[k] = LoopTurn(loop[k - 1], n + 1 - k, server)
    BY <1>1, <1>10
  <2> QED
    BY <2>1, <2>2
<1> DEFINE F == [k \in 0..n |-> {st \in S : Flat(st) = loop[k]}]
<1>12. turn[n] \in S /\ Flat(turn[n]) = loop[n]
  <2>1. turn[0] \in F[0]
    BY <1>1, <1>2, <1>11
  <2>2. \A k \in 1..n : turn[k - 1] \in F[k - 1] => turn[k] \in F[k]
    <3> SUFFICES ASSUME NEW k \in 1..n, turn[k - 1] \in F[k - 1]
                 PROVE  turn[k] \in F[k]
      OBVIOUS
    <3>1. k \in 0..n /\ k - 1 \in 0..n
      BY <1>1
    <3>2. turn[k - 1] \in S /\ Flat(turn[k - 1]) = loop[k - 1]
      BY <3>1
    <3>3. turn[k] \in S /\ Flat(turn[k]) = loop[k]
      BY <1>3, <1>11, <3>2
    <3> QED
      BY <3>1, <3>3
  <2>3. \A k \in 0..n : turn[k] \in F[k]
    <3> HIDE DEF F
    <3> QED
      BY <1>1, <2>1, <2>2, Settles
  <2>4. n \in 0..n
    BY <1>1
  <2> QED
    BY <2>3, <2>4
<1>13. WithoutServer(u, server) = loop[n].ui
  BY DEF WithoutServer, loop, flat, n
<1>14. RemovedServer(s, server) = turn[n].screen
  BY DEF RemovedServer, turn, start, n
<1>15. turn[n].screen.ui = loop[n].ui
  BY <1>12 DEF Flat
<1> QED
  BY <1>12, <1>13, <1>14, <1>15 DEF S, Drawn

\* /disconnect
LEMMA ServerQuitsDone ==
  ASSUME BInv, NEW server \in Server, ServerQuits(server)
  PROVE  Done
<1> DEFINE d == Dismiss(ui)
           s == Show(Now, d)
           t == RemovedServer(s, server)
<1>1. /\ Running /\ server \in connected /\ connected' = connected \ {server}
      /\ joined' = {o \in joined : o.server # server}
  BY DEF ServerQuits, Unharmed, Now, Running
<1>2. /\ Solid(s) /\ s.ui = d /\ Unharmed(s) /\ (Fresh(Now) => Fresh(s)) /\ Sane(d)
      /\ Live(d) = Live(ui) /\ d.active # Overlay
  BY <1>1, TypedStarts
<1>3. Becomes(t)
  BY <1>2 DEF ServerQuits, Typed
<1> HIDE DEF s, d
<1>4. /\ t.ui = WithoutServer(d, server) /\ t \in Notes
      /\ t.ui.fault = "none" =>
           /\ Solid(t)
           /\ Fresh(s) => Fresh(t) \/ Live(d) \ Live(t.ui) # {}
  BY <1>2, RemovedServerIs
<1> HIDE DEF t
<1>5. Now' = t /\ ui' = WithoutServer(d, server) /\ ui' = t.ui
  BY <1>3, <1>4, BecomesIs
<1>6. ServerRemoved(server)
  BY <1>1, <1>2, <1>5 DEF ServerRemoved, OnKey, Sane, d
<1>7. ClientNext
  BY <1>6 DEF ClientNext, Event
<1> QED
  BY <1>2, <1>4, <1>5, <1>7 DEF Done, Running, Excused

-----------------------------------------------------------------------------
(* The invariant and the properties.                                        *)

\* Every step with its lines.
LEMMA NotesStep ==
  ASSUME BInv, NotesNext
  PROVE  Done /\ BInv'
<1>1. Done
  BY PersonActsDone, HappeningDone, ServerQuitsDone, TickDone DEF NotesNext
<1>2. CInv'
  BY <1>1, ClientStep DEF BInv, Done
<1> QED
  BY <1>1, <1>2 DEF BInv, Done

\* At first nothing was said.
LEMMA NotesStart ==
  ASSUME NotesInit
  PROVE  BInv
<1>1. CInv
  BY ClientStart DEF NotesInit
<1>2. /\ Kept(ui) /\ ui.fault = "none" /\ ui.active = Status /\ ui \in UIState
  BY <1>1, LiveWindows DEF CInv, NotesInit, ClientInit, Init, InitialUI
<1>3. Sane(ui) /\ CanDraw(ui)
  BY <1>2, SolidDraws, WindowAssumption DEF Sane, Above
<1> DEFINE f == [w \in Window |-> None]
           s == [ui |-> ui, note |-> [level |-> f, bar |-> <<>>], unseen |-> f]
<1>4. f \in [Window -> Level] /\ \A w \in Window : f[w] = None
  BY NoneIsLevel
<1> HIDE DEF f
<1>5. s.ui = ui /\ s.note.level = f
  OBVIOUS
<1>6. Bar(s) \in Bars /\ Bar(s) = [label |-> Label(ui), marks |-> Marks(s)]
  <2> HIDE DEF s
  <2>1. Bar(s) = [label |-> Label(ui), marks |-> Marks(s)]
    BY <1>5 DEF Bar
  <2> QED
    BY <1>3, <1>4, <1>5, <2>1, BarTyped
<1>7. [label |-> Label(ui), marks |-> {}] \in Bars
  <2> HIDE DEF s
  <2> QED
    BY <1>6 DEF Bars
<1>8. note = [level |-> f, bar |-> [label |-> Label(ui), marks |-> {}]] /\ unseen = f
  BY DEF NotesInit, ClientInit, Init, f
<1>9. Now \in Notes
  BY <1>2, <1>4, <1>7, <1>8 DEF Now, Notes
<1>10. Levels(Now)
  BY <1>2, <1>4, <1>8, WindowAssumption DEF Now, Levels
<1>11. Now.ui = ui
  BY DEF Now
<1> QED
  BY <1>1, <1>2, <1>3, <1>9, <1>10, <1>11 DEF BInv, Solid, Sane

\* What holds of the bar, and of the panels while the bar is never drawn.
WInv ==
  /\ watched = "bar" => BInv
  /\ watched = "panels" => note.bar = <<>>
  /\ watched \in {"bar", "panels"}

\* The invariant is kept, and a step of the bar is done as it should be.
LEMMA WatchedStep ==
  ASSUME WInv, [ScreenNext]_screenVars
  PROVE  /\ WInv'
         /\ watched = "bar" => Done \/ UNCHANGED allVars
         /\ watched' = watched
<1>1. CASE UNCHANGED screenVars
  <2>1. UNCHANGED allVars /\ watched' = watched
    BY <1>1 DEF screenVars
  <2>2. UNCHANGED <<vars, note, unseen>> /\ note' = note
    BY <2>1 DEF allVars
  <2>3. BInv => BInv'
    <3>1. CInv => CInv'
      BY <2>2, ClientStep
    <3>2. (Running' <=> Running) /\ Now' = Now
      BY <2>2 DEF vars, Running, Now
    <3> QED
      BY <3>1, <3>2 DEF BInv
  <2> QED
    BY <2>1, <2>2, <2>3 DEF WInv
<1>2. CASE ScreenNext /\ watched = "bar"
  <2>1. NotesNext /\ watched' = watched
    BY <1>2 DEF ScreenNext
  <2> QED
    BY <1>2, <2>1, NotesStep DEF WInv
<1>3. CASE ScreenNext /\ watched = "panels"
  <2>1. note' = note /\ watched' = watched
    BY <1>3 DEF ScreenNext
  <2> QED
    BY <1>3, <2>1 DEF WInv
<1> QED
  BY <1>1, <1>2, <1>3 DEF WInv

\* A bar that was never drawn does not tell the truth.
LEMMA NeverDrawn ==
  ASSUME note.bar = <<>>
  PROVE  ~Current
<1>1. Bar(Now) # <<>>
  <2>1. DOMAIN Bar(Now) = {"label", "marks"}
    BY DEF Bar
  <2>2. DOMAIN <<>> = {}
    OBVIOUS
  <2> QED
    BY <2>1, <2>2
<1> QED
  BY <1>1 DEF Current

\* Whatever is said and typed, the windows are sound and the levels are those of
\* what nobody has seen.
THEOREM NotesKept == ScreenSpec => []WInv
<1>1. ScreenInit => WInv
  BY NotesStart DEF ScreenInit, WInv
<1>2. WInv /\ [ScreenNext]_screenVars => WInv'
  BY WatchedStep
<1> QED
  BY <1>1, <1>2, PTL DEF ScreenSpec

\* No line, level or drawing of the bar does anything to the windows but what
\* the handlers of Client do.
THEOREM KeepsClientAlways == ScreenSpec => KeepsClient
<1> DEFINE Step == watched = "bar" => UNCHANGED vars \/ ClientNext
<1>1. WInv /\ [ScreenNext]_screenVars => [Step]_vars
  BY WatchedStep DEF Done, allVars
<1> HIDE DEF Step
<1>2. ScreenSpec => [][Step]_vars
  BY <1>1, NotesKept, PTL DEF ScreenSpec
<1> QED
  BY <1>2 DEF Step, KeepsClient

\* A window under its digit.
LEMMA DigitFocuses ==
  ASSUME NEW u, Kept(u)
  PROVE  /\ \A n \in DOMAIN Indexed(u) :
              /\ Indexed(u)[n] \in Live(u)
              /\ Digit(u, Indexed(u)[n]) = n
              /\ FocusIndex([u EXCEPT !.active = Overlay], n - 1).active = Indexed(u)[n]
         /\ \A w \in ToSet(Indexed(u)) :
              Digit(u, w) \in DOMAIN Indexed(u) /\ Indexed(u)[Digit(u, w)] = w
<1> DEFINE t == Indexed(u)
           v == [u EXCEPT !.active = Overlay]
<1>1. /\ u \in UIState /\ List(u.children) /\ v \in UIState
      /\ v.children = u.children
  BY LiveWindows, WindowAssumption DEF Kept, Sound, Lists, UIState
<1>2. List(t) /\ ToSet(t) = Live(u) \ {Overlay} /\ Indexed(v) = t
  BY <1>1, EraseList DEF Indexed, Live
<1>3. DOMAIN t = 1..Len(t) /\ Len(t) \in Nat /\ \A n \in 1..Len(t) : t[n] \in Live(u) \ {Overlay}
  <2> HIDE DEF t
  <2>1. t \in Seq(Window)
    BY <1>2 DEF List
  <2>2. DOMAIN t = 1..Len(t) /\ Len(t) \in Nat
    BY <2>1, LenProperties
  <2>3. ToSet(t) = {t[n] : n \in DOMAIN t}
    BY DEF ToSet
  <2> QED
    BY <1>2, <2>2, <2>3
<1> HIDE DEF t, v
<1>4. ASSUME NEW n \in 1..Len(t)
      PROVE  FocusIndex(v, n - 1).active = t[n] /\ Position(t, t[n]) = n
  <2>1. n - 1 < Len(t) /\ (n - 1) + 1 = n
    BY <1>3
  <2>2. FocusIndex(v, n - 1) = Focus(v, t[n])
    BY <1>2, <2>1 DEF FocusIndex
  <2>3. t[n] # Null /\ t[n] # Overlay
    BY <1>1, <1>3, LiveWindows, WindowAssumption
  <2> QED
    BY <1>1, <1>2, <2>2, <2>3, FocusActive, PositionIs
<1>5. \A w \in ToSet(t) : Position(t, w) \in 1..Len(t) /\ t[Position(t, w)] = w
  BY <1>2, PositionFound
<1> QED
  BY <1>3, <1>4, <1>5 DEF Digit, t, v

\* A bar that is up to date has the digit of every window with something that
\* nobody has seen, with the level of it, and nothing else.
THEOREM MarksTellAlways == ScreenSpec => []MarksTellUnseen
<1>1. ASSUME Solid(Now), Current
      PROVE  MarksTellUnseen
  <2> DEFINE t == Indexed(ui)
             f == note.level
             At(n) == FocusIndex([ui EXCEPT !.active = Overlay], n - 1).active
  <2>1. Kept(ui) /\ unseen = f /\ f[ui.active] = None
    BY <1>1 DEF Solid, Levels, Now
  <2>2. /\ \A n \in DOMAIN t : t[n] \in ToSet(t) /\ Digit(ui, t[n]) = n /\ At(n) = t[n]
        /\ \A w \in ToSet(t) : Digit(ui, w) \in DOMAIN t /\ t[Digit(ui, w)] = w
    BY <2>1, DigitFocuses DEF ToSet
  <2>3. note.bar.marks = {<<Digit(ui, w), f[w]>> : w \in {x \in ToSet(t) \ {ui.active} : f[x] # None}}
    BY <1>1 DEF Current, Bar, Marks, Now
  <2> HIDE DEF t, f, At
  <2>4. {<<Digit(ui, w), f[w]>> : w \in {x \in ToSet(t) \ {ui.active} : f[x] # None}} =
        {<<n, f[At(n)]>> : n \in {k \in DOMAIN t : f[t[k]] # None}}
    <3>1. ASSUME NEW w \in ToSet(t), f[w] # None
          PROVE  \E n \in {k \in DOMAIN t : f[t[k]] # None} : <<Digit(ui, w), f[w]>> = <<n, f[At(n)]>>
      BY <2>2, <3>1
    <3>2. ASSUME NEW n \in DOMAIN t, f[t[n]] # None
          PROVE  \E w \in {x \in ToSet(t) \ {ui.active} : f[x] # None} :
                   <<n, f[At(n)]>> = <<Digit(ui, w), f[w]>>
      BY <2>1, <2>2, <3>2
    <3> QED
      BY <3>1, <3>2
  <2> QED
    BY <2>1, <2>3, <2>4 DEF MarksTellUnseen, t, f, At
<1>2. WInv => MarksTellUnseen
  <2>1. CASE watched = "bar"
    <3>1. Unharmed(Now) => Running
      BY DEF Unharmed, Now, Running
    <3>2. ~(Unharmed(Now) /\ Current) => MarksTellUnseen
      BY DEF MarksTellUnseen
    <3> QED
      BY <1>1, <2>1, <3>1, <3>2 DEF WInv, BInv
  <2>2. CASE watched = "panels"
    BY <2>2, NeverDrawn DEF WInv, MarksTellUnseen
  <2> QED
    BY <2>1, <2>2 DEF WInv
<1> QED
  BY <1>2, NotesKept, PTL

\* Whatever is said and typed in between, the bar that was up to date is so
\* again after every step but those that close a window and those that kill or
\* revive the window below the overlay or give its user another nick.
THEOREM StaleAlways == ScreenSpec => StaleInThreeCases
<1> DEFINE Step == Unharmed(Now) /\ Current /\ Unharmed(Now)' =>
                     LET w == ui.beforeOverlay
                     IN \/ Current'
                        \/ Live(ui) \ Live(ui') # {}
                        \/ /\ ui.active = Overlay
                           /\ \/ ui.dead[w] # ui'.dead[w]
                              \/ IsUser(ui, w) /\ ui.name[ui.obj[w]] # ui'.name[ui.obj[w]]
<1>1. WInv /\ [ScreenNext]_screenVars => [Step]_allVars
  <2> SUFFICES ASSUME WInv, [ScreenNext]_screenVars, ~(UNCHANGED allVars),
                      Current, Unharmed(Now)'
               PROVE  Current' \/ Excused(ui, ui')
    BY DEF Excused, Flipped, Renames
  <2>1. watched = "bar"
    BY NeverDrawn DEF WInv
  <2>2. Done
    BY <2>1, WatchedStep
  <2>3. Running' /\ Fresh(Now)
    BY DEF Unharmed, Now, Running, Fresh, Current
  <2>4. Fresh(Now') => Current'
    BY DEF Now, Fresh, Current
  <2> QED
    BY <2>2, <2>3, <2>4 DEF Done
<1> HIDE DEF Step
<1>2. ScreenSpec => [][Step]_allVars
  BY <1>1, NotesKept, PTL DEF ScreenSpec
<1> QED
  BY <1>2 DEF Step, StaleInThreeCases

-----------------------------------------------------------------------------
(* The title and the list in the overlay.                                   *)


\* What the library knows of a channel.
Users == UNION {[ns -> Hat] : ns \in SUBSET Nick}
RoomOK == room \in [Channel -> [topic : Topic, users : Users]]

\* TitleTells, of the panels' behaviours.
Titled ==
  Running /\ ui.active # Overlay =>
    title = IF IsChannel(ui, ui.active) THEN room[ui.obj[ui.active]].topic ELSE Null

PInv == watched = "panels" => CInv /\ RoomOK /\ Titled

-----------------------------------------------------------------------------
(* What a handler does to the window on the screen and to the one below.    *)

\* A window that stays on the screen holds what it held.
Stays(u, v) ==
  u.active # Overlay /\ v.active = u.active => v.obj[u.active] = u.obj[u.active]

\* The overlay comes up over an open window.
Opens(u, v) ==
  v.active = Overlay /\ u.active # Overlay => v.beforeOverlay \in Live(v)

\* The overlay goes away.
Lifts(u, v) == u.active = Overlay => v.active # Overlay

\* The window below the overlay stays, with what it holds.
Covers(u, v) ==
  u.active = Overlay /\ v.active = Overlay =>
    /\ v.beforeOverlay = u.beforeOverlay
    /\ u.beforeOverlay \in Live(u) =>
         /\ u.beforeOverlay \in Live(v)
         /\ v.obj[u.beforeOverlay] = u.obj[u.beforeOverlay]

\* An operation that leaves the pointers and what the open windows hold.
Same(u, v) ==
  /\ v.active = u.active /\ v.beforeOverlay = u.beforeOverlay
  /\ \A w \in Live(u) : w \in Live(v) /\ v.obj[w] = u.obj[w]

\* An operation that moves no pointer leaves both windows as they are.
LEMMA SameScreen ==
  ASSUME NEW u, NEW v, Kept(u), u.fault = "none", Same(u, v)
  PROVE  Stays(u, v) /\ Opens(u, v) /\ Covers(u, v)
BY DEF Same, Stays, Opens, Covers, Kept, Sound, Focused, Live

\* The end of a handler that brings a window to the screen.
LEMMA FocusScreen ==
  ASSUME NEW u, Kept(u), u.fault = "none", NEW w \in Live(u) \ {Overlay}
  PROVE  LET v == Focus(u, w) IN
         /\ v.active = w /\ v.beforeOverlay = Null /\ v.obj = u.obj
         /\ v.fault = "none" /\ Live(v) = Live(u)
<1>1. u \in UIState /\ w \in Window
  BY LiveWindows
<1>2. Focus(u, w) = [u EXCEPT !.active = w, !.beforeOverlay = Null,
                              !.windows = ToFront(u.windows, w)]
  BY FocusEffect DEF Kept
<1> QED
  BY <1>1, <1>2 DEF UIState, Live

\* Some windows are closed, or none.
LEMMA LeftScreen ==
  ASSUME NEW u, NEW v, Kept(u), u.fault = "none", Kept(v), v.fault = "none", Left(u, v)
  PROVE  /\ Stays(u, v)
         /\ u.active # Overlay => v.active # Overlay
<1>1. u.active \in Live(u) /\ v.active \in Live(v)
  BY DEF Kept, Sound, Focused, Live
<1>2. Head(v.windows) # Overlay
  BY VisitedHead DEF Kept, Sound, Lists
<1> QED
  BY <1>1, <1>2 DEF Left, Stays

-----------------------------------------------------------------------------
(* The keys and the handlers of Client.                                     *)

\* A key that is not the overlay's own finds the overlay gone.
LEMMA KeyScreen ==
  ASSUME CInv, Running, NEW v, v.active # Overlay, Stays(Dismiss(ui), v)
  PROVE  Stays(ui, v) /\ Opens(ui, v) /\ Lifts(ui, v)
BY DEF Stays, Opens, Lifts, Dismiss

\* The window below is open, or the program stops there.
LEMMA KeyFound ==
  ASSUME CInv, Running
  PROVE  LET d == Dismiss(ui)
         IN Kept(d) /\ (d.fault = "none" => d.active \in Live(d) \ {Overlay})
<1>1. Kept(ui) /\ ui.fault = "none"
  BY DEF CInv, Running
<1>2. Kept(Dismiss(ui))
  BY <1>1, ToggleKept
<1>3. Dismiss(ui).fault = "none" => Dismiss(ui).active \in Live(ui) \ {Overlay}
  BY <1>1, ToggleKept
<1>4. Live(Dismiss(ui)) = Live(ui)
  BY <1>1, DismissKeeps, LiveWindows DEF Keeps
<1> QED
  BY <1>2, <1>3, <1>4

\* A key that goes to another window, or nowhere.
LEMMA CycleScreen ==
  ASSUME CInv, Running, Dismiss(ui).fault = "none", NEW v,
         \/ v = Dismiss(ui)
         \/ \E w \in Live(Dismiss(ui)) \ {Overlay} : v = Focus(Dismiss(ui), w)
  PROVE  Stays(ui, v) /\ Opens(ui, v) /\ Lifts(ui, v)
<1> DEFINE d == Dismiss(ui)
<1>1. Kept(d) /\ d.active # Overlay
  BY ToggleKept DEF CInv, Running
<1> HIDE DEF d
<1>2. v.active # Overlay /\ v.obj = d.obj
  BY <1>1, FocusScreen DEF d
<1>3. Stays(d, v)
  BY <1>2 DEF Stays
<1> QED
  BY <1>2, <1>3, KeyScreen DEF d

\* The keys, /wc and the clicks.
LEMMA KeysScreen ==
  ASSUME CInv, Keys, Running'
  PROVE  Stays(ui, ui') /\ Opens(ui, ui') /\ Lifts(ui, ui')
<1> DEFINE d == Dismiss(ui)
<1>1. Running /\ Kept(ui) /\ ui \in UIState
  BY LiveWindows DEF Keys, KeyOverlay, KeyNext, KeyPrevious, KeyIndex, OnKey,
                     CommandWindowClose, OpenAndFocus, CInv
<1>2. Kept(d) /\ (d.fault = "none" => d.active \in Live(d) \ {Overlay})
  BY <1>1, KeyFound
<1>3. CASE KeyOverlay
  <2>1. ui' = Toggle(ui)
    BY <1>3 DEF KeyOverlay
  <2>2. CASE ui.active = Overlay
    <3>1. ui'.active # Overlay
      BY <1>1, <2>1, <2>2, ToggleSound DEF Kept, Running
    <3> QED
      BY <2>2, <3>1 DEF Stays, Opens, Lifts
  <2>3. CASE ui.active # Overlay
    <3>1. /\ Lists(ui) /\ ui.active \in Live(ui)
      BY <1>1 DEF Kept, Sound, Focused, Live, Running
    <3>2. ui' = [ui EXCEPT !.beforeOverlay = ui.active, !.active = Overlay]
      BY <1>1, <2>1, <2>3, <3>1, CoverEffect
    <3>3. ui'.active = Overlay /\ ui'.beforeOverlay = ui.active /\ Live(ui') = Live(ui)
      BY <1>1, <3>2 DEF UIState, Live
    <3> QED
      BY <2>3, <3>1, <3>3 DEF Stays, Opens, Lifts
  <2> QED
    BY <2>2, <2>3
<1> HIDE DEF d
<1>4. CASE KeyNext
  <2>1. ui' = IF d.fault = "none" THEN NextWindow(d) ELSE d
    BY <1>4 DEF KeyNext, OnKey, d
  <2>2. d.fault = "none"
    BY <2>1 DEF Running
  <2>3. \E w \in Live(d) \ {Overlay} : NextWindow(d) = Focus(d, w)
    BY <1>2, <2>2, CycleFocuses DEF Kept
  <2> QED
    BY <1>1, <2>1, <2>2, <2>3, CycleScreen DEF d
<1>5. CASE KeyPrevious
  <2>1. ui' = IF d.fault = "none" THEN PreviousWindow(d) ELSE d
    BY <1>5 DEF KeyPrevious, OnKey, d
  <2>2. d.fault = "none"
    BY <2>1 DEF Running
  <2>3. \E w \in Live(d) \ {Overlay} : PreviousWindow(d) = Focus(d, w)
    BY <1>2, <2>2, CycleFocuses DEF Kept
  <2> QED
    BY <1>1, <2>1, <2>2, <2>3, CycleScreen DEF d
<1>6. ASSUME NEW n \in 0..Len(ui.children), KeyIndex(n)
      PROVE  Stays(ui, ui') /\ Opens(ui, ui') /\ Lifts(ui, ui')
  <2>1. ui' = IF d.fault = "none" THEN FocusIndex(d, n) ELSE d
    BY <1>6 DEF KeyIndex, OnKey, d
  <2>2. d.fault = "none" /\ n \in Nat
    BY <1>1, <2>1, LenProperties DEF Running, Kept, Sound, Lists, List
  <2>3. \/ FocusIndex(d, n) = d
        \/ \E w \in Live(d) \ {Overlay} : FocusIndex(d, n) = Focus(d, w)
    BY <1>2, <2>2, CycleFocuses DEF Kept
  <2> QED
    BY <1>1, <2>1, <2>2, <2>3, CycleScreen DEF d
<1>7. CASE CommandWindowClose
  <2> DEFINE w == d.active
  <2>1. ui' = IF d.fault = "none"
              THEN IF CanRemove(d, w) THEN RemoveWindow(d, w) ELSE d ELSE d
    BY <1>7 DEF CommandWindowClose, OnKey, d
  <2>2. d.fault = "none" /\ w \in Live(d) \ {Overlay}
    <3>1. d.fault = "none"
      BY <2>1 DEF Running
    <3> QED
      BY <1>2, <3>1
  <2> HIDE DEF w
  <2>3. CASE CanRemove(d, w)
    <3>1. w \notin {Status, Overlay}
      BY <2>3 DEF CanRemove
    <3>2. Shed(d, RemoveWindow(d, w))
      BY <1>2, <2>2, <3>1, ShedNothing, ShedOne
    <3>3. Kept(RemoveWindow(d, w)) /\ RemoveWindow(d, w).fault = "none"
      BY <1>2, <2>2, <3>1, RemoveOthers
    <3>4. Stays(d, ui') /\ ui'.active # Overlay
      BY <1>2, <2>1, <2>2, <2>3, <3>2, <3>3, LeftScreen DEF Shed
    <3> QED
      BY <1>1, <3>4, KeyScreen DEF d
  <2>4. CASE ~CanRemove(d, w)
    BY <1>1, <2>1, <2>2, <2>4, CycleScreen DEF d
  <2> QED
    BY <2>3, <2>4
<1>8. ASSUME NEW o \in Object, OpenAndFocus(o)
      PROVE  Stays(ui, ui') /\ Opens(ui, ui') /\ Lifts(ui, ui')
  <2>1. PICK fresh \in Allocation(ui, o) :
          ui' = Focus(Ensure(ui, o, fresh), Find(Ensure(ui, o, fresh), o))
    BY <1>8 DEF OpenAndFocus
  <2> DEFINE u == Ensure(ui, o, fresh)
             w == Find(u, o)
  <2>2. /\ Kept(u) /\ u.fault = "none" /\ u.active = ui.active
        /\ w \in Live(u) \ {Overlay}
        /\ \A x \in Live(ui) : u.obj[x] = ui.obj[x]
    BY <1>1, EnsureKept DEF Running
  <2> HIDE DEF u, w
  <2>3. ui'.active # Overlay /\ ui'.obj = u.obj
    BY <2>1, <2>2, FocusScreen DEF u, w
  <2>4. ui.active \in Live(ui)
    BY <1>1 DEF Kept, Sound, Focused, Live, Running
  <2> QED
    BY <2>2, <2>3, <2>4 DEF Stays, Opens, Lifts
<1> QED
  BY <1>3, <1>4, <1>5, <1>6, <1>7, <1>8 DEF Keys

\* JoinEvent of ourselves shows the window of the channel.
LEMMA SelfJoinScreen ==
  ASSUME CInv, NEW o \in Object, SelfJoin(o), Running'
  PROVE  Stays(ui, ui') /\ Opens(ui, ui') /\ Lifts(ui, ui')
<1>1. Running /\ Kept(ui) /\ ui.active \in Live(ui)
  BY DEF SelfJoin, CInv, Kept, Sound, Focused, Live, Running
<1>2. PICK fresh \in Allocation(ui, o) :
        LET u == Ensure(ui, o, fresh)
            w == Find(u, o)
            focused == Focus(Revive(u, w), w)
        IN ui' = IF focused.fault = "none" THEN UpdateStatusbar(focused)
                 ELSE focused
  BY DEF SelfJoin
<1> DEFINE u == Ensure(ui, o, fresh)
           w == Find(u, o)
           r == Resurrect(u, w)
           f == Focus(r, w)
<1>3. /\ Kept(u) /\ u.fault = "none" /\ u.active = ui.active
      /\ w \in Live(u) \ {Overlay}
      /\ \A x \in Live(ui) : u.obj[x] = ui.obj[x]
  BY <1>1, EnsureKept DEF Running
<1>4. ui' = IF f.fault = "none" THEN UpdateStatusbar(f) ELSE f
  BY <1>2 DEF Revive
<1> HIDE DEF u, w
<1>5. w \in Window
  BY <1>3, LiveWindows
<1>6. Kept(r) /\ r.fault = "none" /\ r.obj = u.obj /\ Live(r) = Live(u)
  BY <1>3, <1>5, FlagMarks
<1> HIDE DEF r
<1>7. f.active = w /\ f.obj = r.obj /\ f.fault = "none"
  BY <1>3, <1>6, FocusScreen
<1>8. Kept(f)
  BY <1>3, <1>5, <1>6, FocusKept
<1> HIDE DEF f
<1>9. ui' = f
  BY <1>4, <1>8, Refreshed DEF Running
<1> QED
  BY <1>1, <1>3, <1>6, <1>7, <1>9 DEF Stays, Opens, Lifts

\* A message opens a window out of sight.
LEMMA MessageScreen ==
  ASSUME CInv, NEW o \in Object, Message(o)
  PROVE  Same(ui, ui')
<1>1. Running /\ Kept(ui)
  BY DEF Message, OpenWindow, CInv
<1>2. PICK fresh \in Allocation(ui, o) : ui' = Ensure(ui, o, fresh)
  BY DEF Message, OpenWindow
<1> QED
  BY <1>1, <1>2, EnsureKept DEF Running, Same

\* What changes the marks of windows and draws the status bar moves nothing.
LEMMA MarksScreen ==
  ASSUME CInv, Running', NEW f \in [Window -> BOOLEAN], NEW ws,
         ui' = RedrawFor([ui EXCEPT !.dead = f], ws)
  PROVE  Same(ui, ui')
<1> DEFINE v == [ui EXCEPT !.dead = f]
<1>1. /\ Kept(v) /\ v.active = ui.active /\ v.beforeOverlay = ui.beforeOverlay
      /\ v.obj = ui.obj /\ Live(v) = Live(ui)
  BY MarksKept DEF CInv
<1> HIDE DEF v
<1>2. ui' \in {v, UpdateStatusbar(v)}
  BY DEF RedrawFor, v
<1>3. ui' = v
  BY <1>1, <1>2, Refreshed DEF Running
<1> QED
  BY <1>1, <1>3 DEF Same

\* QuitEvent and UserAppearedEvent are such handlers.
LEMMA UsersScreen ==
  ASSUME CInv, NEW who \in Object, NEW rooms, Running',
         UserQuit(who, rooms) \/ UserAppeared(who, rooms)
  PROVE  Same(ui, ui')
<1>1. CASE UserQuit(who, rooms)
  <2> DEFINE gone == {w \in WindowsForUser(ui, who, rooms) : ui.obj[w] = who}
             f == [w \in Window |-> ui.dead[w] \/ w \in gone]
  <2>1. ui \in UIState
    BY LiveWindows DEF CInv
  <2>2. ui' = RedrawFor([ui EXCEPT !.dead = f], gone)
    BY <1>1, <2>1 DEF UserQuit, UIState
  <2>3. f \in [Window -> BOOLEAN]
    OBVIOUS
  <2> HIDE DEF f, gone
  <2> QED
    BY <2>2, <2>3, MarksScreen
<1>2. CASE UserAppeared(who, rooms)
  <2> DEFINE here == WindowsForUser(ui, who, rooms)
             f == [w \in Window |-> ui.dead[w] /\ w \notin here]
  <2>1. ui \in UIState
    BY LiveWindows DEF CInv
  <2>2. ui' = RedrawFor([ui EXCEPT !.dead = f], here)
    BY <1>2, <2>1 DEF UserAppeared, UIState
  <2>3. f \in [Window -> BOOLEAN]
    OBVIOUS
  <2> HIDE DEF f, here
  <2> QED
    BY <2>2, <2>3, MarksScreen
<1> QED
  BY <1>1, <1>2

\* What a step of the program does to both windows.
Shows ==
  /\ Stays(ui, ui') /\ Opens(ui, ui')
  /\ Covers(ui, ui') \/ joined' # joined

\* Nothing that is on the screen moves.
LEMMA SameShows ==
  ASSUME CInv, Running, Same(ui, ui')
  PROVE  Shows
BY SameScreen DEF Shows, CInv, Running

\* We leave a channel: the covered window may be closed.
LEMMA LeaveShows ==
  ASSUME CInv, NEW o \in Object, Running',
         SelfKick(o) \/ \E close \in BOOLEAN : SelfPart(o, close)
  PROVE  CInv' /\ Shows
<1>1. CInv' /\ Left(ui, ui') /\ Running /\ joined' # joined
  <2>1. CASE SelfKick(o)
    BY <2>1, SelfKickInv DEF SelfKick
  <2>2. ASSUME NEW close \in BOOLEAN, SelfPart(o, close)
        PROVE  CInv' /\ Left(ui, ui') /\ Running /\ joined' # joined
    BY <2>2, SelfPartInv DEF SelfPart
  <2> QED
    BY <2>1, <2>2
<1>2. Stays(ui, ui') /\ (ui.active # Overlay => ui'.active # Overlay)
  BY <1>1, LeftScreen DEF CInv, Running
<1> QED
  BY <1>1, <1>2 DEF Shows, Opens

\* The handlers that Moves takes from Client.
LEMMA MovesShow ==
  ASSUME CInv, Moves
  PROVE  CInv' /\ Running /\ (Running' => Shows)
<1>1. CASE Keys
  <2>1. Person
    BY <1>1 DEF Keys, Person
  <2>2. Running
    BY <1>1 DEF Keys, KeyOverlay, KeyNext, KeyPrevious, KeyIndex, OnKey,
                CommandWindowClose, OpenAndFocus
  <2>3. Running' => Stays(ui, ui') /\ Opens(ui, ui') /\ Lifts(ui, ui')
    BY <1>1, KeysScreen
  <2> QED
    BY <2>1, <2>2, <2>3, PersonInv DEF Shows, Lifts, Covers
<1>2. ASSUME NEW server \in Server, ServerRemoved(server)
      PROVE  CInv' /\ Running /\ (Running' => Shows)
  <2>1. CInv' /\ (Running' => Left(Dismiss(ui), ui')) /\ Running
    BY <1>2, ServerRemovedInv DEF ServerRemoved, OnKey
  <2>2. ASSUME Running'
        PROVE  Shows
    <3> DEFINE d == Dismiss(ui)
    <3>1. Dismiss(ui).fault = "none"
      BY <1>2, <2>2 DEF ServerRemoved, OnKey, Running
    <3>2. Kept(d) /\ d.active # Overlay
      BY <2>1, <3>1, KeyFound
    <3> HIDE DEF d
    <3>3. Stays(d, ui') /\ ui'.active # Overlay
      BY <2>1, <2>2, <3>1, <3>2, LeftScreen DEF d, CInv, Running
    <3> QED
      BY <2>1, <3>3, KeyScreen DEF d, Shows, Lifts, Covers
  <2> QED
    BY <2>1, <2>2
<1>3. ASSUME NEW o \in Object, SelfJoin(o)
      PROVE  CInv' /\ Running /\ (Running' => Shows)
  BY <1>3, SelfJoinInv, SelfJoinScreen DEF SelfJoin, Shows, Lifts, Covers
<1>4. ASSUME NEW o \in Object, Message(o)
      PROVE  CInv' /\ Running /\ (Running' => Shows)
  BY <1>4, MessageInv, MessageScreen, SameShows DEF Message, OpenWindow
<1>5. ASSUME NEW o \in Object, NEW close \in BOOLEAN, SelfPart(o, close)
      PROVE  CInv' /\ Running /\ (Running' => Shows)
  BY <1>5, SelfPartInv, LeaveShows DEF SelfPart
<1> QED
  BY <1>1, <1>2, <1>3, <1>4, <1>5 DEF Moves

-----------------------------------------------------------------------------
(* What the library knows.                                                  *)

\* What the library knows of a channel's users, spelled out.
LEMMA UsersAre ==
  ASSUME NEW us \in Users
  PROVE  /\ DOMAIN us \subseteq Nick /\ us = [n \in DOMAIN us |-> us[n]]
         /\ \A n \in DOMAIN us : us[n] \in Hat
<1>1. PICK ns \in SUBSET Nick : us \in [ns -> Hat]
  BY DEF Users
<1> QED
  BY <1>1

\* A hat for each of some names is something the library can know.
LEMMA UsersMade ==
  ASSUME NEW ns \in SUBSET Nick, NEW us \in [ns -> Hat]
  PROVE  us \in Users
BY DEF Users

\* Who comes and who goes.
LEMMA ComeAndGo ==
  ASSUME NEW us \in Users
  PROVE  /\ \A n : Without(us, n) \in Users /\ DOMAIN Without(us, n) = DOMAIN us \ {n}
         /\ \A n : n \notin DOMAIN us => Without(us, n) = us
         /\ \A others \in Users :
              /\ With(us, others) \in Users
              /\ DOMAIN With(us, others) = DOMAIN us \cup DOMAIN others
              /\ DOMAIN others = {} => With(us, others) = us
<1>1. /\ DOMAIN us \subseteq Nick /\ us = [n \in DOMAIN us |-> us[n]]
      /\ \A n \in DOMAIN us : us[n] \in Hat
  BY UsersAre
<1>2. ASSUME NEW n
      PROVE  /\ Without(us, n) \in Users /\ DOMAIN Without(us, n) = DOMAIN us \ {n}
             /\ n \notin DOMAIN us => Without(us, n) = us
  <2>1. Without(us, n) \in [DOMAIN us \ {n} -> Hat]
    BY <1>1 DEF Without
  <2>2. Without(us, n) \in Users
    BY <1>1, <2>1, UsersMade
  <2>3. ASSUME n \notin DOMAIN us
        PROVE  Without(us, n) = us
    <3>1. DOMAIN us \ {n} = DOMAIN us
      BY <2>3
    <3> QED
      BY <1>1, <3>1 DEF Without
  <2> QED
    BY <2>1, <2>2, <2>3
<1>3. ASSUME NEW others \in Users
      PROVE  /\ With(us, others) \in Users
             /\ DOMAIN With(us, others) = DOMAIN us \cup DOMAIN others
             /\ DOMAIN others = {} => With(us, others) = us
  <2>1. /\ DOMAIN others \subseteq Nick
        /\ \A n \in DOMAIN others : others[n] \in Hat
    BY UsersAre
  <2> DEFINE ns == DOMAIN us \cup DOMAIN others
  <2>2. With(us, others) \in [ns -> Hat]
    BY <1>1, <2>1 DEF With
  <2>3. With(us, others) \in Users
    BY <1>1, <2>1, <2>2, UsersMade
  <2>4. ASSUME DOMAIN others = {}
        PROVE  With(us, others) = us
    <3>1. ns = DOMAIN us
      BY <2>4
    <3>2. With(us, others) = [n \in DOMAIN us |-> us[n]]
      BY <3>1 DEF With
    <3> QED
      BY <1>1, <3>2
  <2> QED
    BY <2>2, <2>3, <2>4
<1> QED
  BY <1>2, <1>3

\* The library learns who is in a channel, or what its topic is.
LEMMA RoomLearns ==
  ASSUME RoomOK, NEW o \in Channel
  PROVE  /\ \A us \in Users :
              LET r == [room EXCEPT ![o].users = us] IN
              /\ r \in [Channel -> [topic : Topic, users : Users]]
              /\ \A p \in Channel : r[p].topic = room[p].topic
              /\ r[o].users = us
              /\ \A p \in Channel \ {o} : r[p].users = room[p].users
         /\ \A topic \in Topic :
              LET r == [room EXCEPT ![o].topic = topic] IN
              /\ r \in [Channel -> [topic : Topic, users : Users]]
              /\ r[o].topic = topic
              /\ \A p \in Channel \ {o} : r[p].topic = room[p].topic
              /\ \A p \in Channel : r[p].users = room[p].users
<1>1. /\ room \in [Channel -> [topic : Topic, users : Users]]
      /\ room[o] \in [topic : Topic, users : Users]
  BY DEF RoomOK
<1> HIDE DEF Channel, Users
<1>2. ASSUME NEW us \in Users
      PROVE  LET r == [room EXCEPT ![o].users = us] IN
             /\ r \in [Channel -> [topic : Topic, users : Users]]
             /\ \A p \in Channel : r[p].topic = room[p].topic
             /\ r[o].users = us
             /\ \A p \in Channel \ {o} : r[p].users = room[p].users
  <2> DEFINE x == [room[o] EXCEPT !.users = us]
             r == [room EXCEPT ![o] = x]
  <2>1. x \in [topic : Topic, users : Users] /\ x.topic = room[o].topic /\ x.users = us
    BY <1>1
  <2>2. [room EXCEPT ![o].users = us] = r
    OBVIOUS
  <2> HIDE DEF x
  <2>3. /\ r \in [Channel -> [topic : Topic, users : Users]]
        /\ r[o] = x /\ \A p \in Channel \ {o} : r[p] = room[p]
    BY <1>1, <2>1
  <2> HIDE DEF r
  <2>4. \A p \in Channel : r[p].topic = room[p].topic
    BY <2>1, <2>3
  <2> QED
    BY <2>1, <2>2, <2>3, <2>4
<1>3. ASSUME NEW topic \in Topic
      PROVE  LET r == [room EXCEPT ![o].topic = topic] IN
             /\ r \in [Channel -> [topic : Topic, users : Users]]
             /\ r[o].topic = topic
             /\ \A p \in Channel \ {o} : r[p].topic = room[p].topic
             /\ \A p \in Channel : r[p].users = room[p].users
  <2> DEFINE x == [room[o] EXCEPT !.topic = topic]
             r == [room EXCEPT ![o] = x]
  <2>1. x \in [topic : Topic, users : Users] /\ x.users = room[o].users /\ x.topic = topic
    BY <1>1
  <2>2. [room EXCEPT ![o].topic = topic] = r
    OBVIOUS
  <2> HIDE DEF x
  <2>3. /\ r \in [Channel -> [topic : Topic, users : Users]]
        /\ r[o] = x /\ \A p \in Channel \ {o} : r[p] = room[p]
    BY <1>1, <2>1
  <2> HIDE DEF r
  <2>4. \A p \in Channel : r[p].users = room[p].users
    BY <2>1, <2>3
  <2> QED
    BY <2>1, <2>2, <2>3, <2>4
<1> QED
  BY <1>2, <1>3

-----------------------------------------------------------------------------
(* The title.                                                               *)

\* What a window of a channel holds is a channel.
LEMMA HoldsChannel ==
  ASSUME NEW u, Kept(u), NEW w \in Window, IsChannel(u, w)
  PROVE  u.obj[w] \in Channel
<1>1. u \in UIState
  BY DEF Kept, Sound
<1> QED
  BY <1>1 DEF UIState, IsChannel, Channel, IsChannelObject

\* focusWindow has written the title, or the window was on the screen before.
LEMMA TitleFollows ==
  ASSUME CInv, Titled, Running, Running', Stays(ui, ui'),
         \A o \in Channel : room'[o].topic = room[o].topic,
         title' = IF ui'.active = ui.active THEN title ELSE TitleOf(ui')
  PROVE  Titled'
<1>1. CASE ui'.active = ui.active /\ ui'.active # Overlay
  <2>1. ui'.obj[ui'.active] = ui.obj[ui.active]
    BY <1>1 DEF Stays
  <2>2. ui.active \in Window
    BY LiveWindows DEF CInv, UIState
  <2>3. IsChannel(ui, ui.active) => ui.obj[ui.active] \in Channel
    BY <2>2, HoldsChannel DEF CInv
  <2>4. title = IF IsChannel(ui, ui.active) THEN room[ui.obj[ui.active]].topic ELSE Null
    BY <1>1 DEF Titled
  <2>5. IsChannel(ui', ui'.active) <=> IsChannel(ui, ui.active)
    BY <2>1 DEF IsChannel
  <2> QED
    BY <1>1, <2>1, <2>3, <2>4, <2>5 DEF Titled
<1>2. CASE ui'.active # ui.active
  BY <1>2 DEF Titled, TitleOf, TitleOfChannel
<1>3. CASE ui'.active = Overlay
  BY <1>3 DEF Titled
<1> QED
  BY <1>1, <1>2, <1>3

\* updateTitlebar has written it.
LEMMA TitleWritten ==
  ASSUME title' = TitleOf(ui')
  PROVE  Titled'
BY DEF Titled, TitleOf, TitleOfChannel

-----------------------------------------------------------------------------
(* The list.                                                                *)

\* What ListedAsTheyAre excepts, and what it says of a step.
Outdated == joined' # joined \/ There' # There \/ Replaced \/ IsUser(ui, ui.beforeOverlay)

ListedStep ==
  Covering' /\ (Covering => Accurate) => Accurate' \/ (Covering /\ Outdated)

\* updateOverlay lists the window below as the library knows it.
LEMMA WrittenAccurate ==
  ASSUME CInv', RoomOK', Covering', ui'.beforeOverlay \in Live(ui'), listed' = OverlayOf(ui')
  PROVE  Accurate'
<1> DEFINE b == ui'.beforeOverlay
           o == ui'.obj[b]
<1>1. /\ b \in Window /\ b \notin {Null, Overlay} /\ ui' \in UIState
      /\ joined' \subseteq Channel
  <2>1. Kept(ui') /\ joined' \subseteq Channel
    BY DEF CInv, Joined, Channel
  <2>2. Live(ui') \subseteq Window /\ ui' \in UIState
    BY <2>1, LiveWindows
  <2>3. b # Overlay
    BY <2>1 DEF Kept, Sound, Focused, Covering, Running
  <2> QED
    BY <2>1, <2>2, <2>3, WindowAssumption
<1>2. CASE b = Status
  BY <1>2 DEF Accurate, OverlayOf, Servers
<1>3. CASE b # Status
  <2>1. o # Null /\ o \in Object
    <3>1. o # Null
      BY <1>1, <1>3 DEF CInv, Kept, Named, Conversations
    <3> QED
      BY <1>1, <3>1 DEF UIState
  <2>2. CASE IsChannel(ui', b)
    <3>1. o \in Channel
      BY <2>1, <2>2 DEF IsChannel, Channel, IsChannelObject
    <3>2. listed'.of = o /\ listed'.rows = {UserlistLine(o, n) : n \in DOMAIN room'[o].users}
      BY <1>1, <1>3, <2>1, <2>2 DEF OverlayOf, People
    <3>3. Rows'[o] = {UserlistLine(o, n) : n \in DOMAIN room'[o].users}
      BY <3>1 DEF Rows, UserlistLine
    <3> QED
      BY <2>2, <3>2, <3>3 DEF Accurate, Covered
  <2>3. CASE ~IsChannel(ui', b)
    <3>1. IsUser(ui', b)
      BY <2>1, <2>3, ObjectAssumption DEF IsChannel, IsUser
    <3> DEFINE shared == {p \in joined' : p.server = o.server /\ o.name \in DOMAIN room'[p].users}
    <3>2. /\ listed'.of = o
          /\ listed'.rows = {<<p, room'[p].users[o.name]>> : p \in shared}
      BY <1>1, <1>3, <2>1, <2>3 DEF OverlayOf, Places, ChanlistLine
    <3>3. ASSUME NEW p \in joined'
          PROVE  /\ \A n \in DOMAIN room'[p].users : room'[p].users[n] \in Hat
                 /\ Rows'[p] = {<<n, room'[p].users[n]>> : n \in DOMAIN room'[p].users}
      <4>1. p \in Channel /\ room'[p].users \in Users
        BY <1>1 DEF RoomOK
      <4> QED
        BY <4>1, UsersAre DEF Rows
    <3>4. {<<p, room'[p].users[o.name]>> : p \in shared} =
            {line \in joined' \X Hat :
               line[1].server = o.server /\ <<o.name, line[2]>> \in Rows'[line[1]]}
      <4>1. ASSUME NEW p \in shared
            PROVE  /\ <<p, room'[p].users[o.name]>> \in joined' \X Hat
                   /\ p.server = o.server
                   /\ <<o.name, room'[p].users[o.name]>> \in Rows'[p]
        BY <3>3
      <4>2. ASSUME NEW p \in joined', NEW hat \in Hat, p.server = o.server,
                   <<o.name, hat>> \in Rows'[p]
            PROVE  p \in shared /\ hat = room'[p].users[o.name]
        BY <3>3, <4>2
      <4> HIDE DEF shared, o
      <4> QED
        BY <4>1, <4>2
    <3> QED
      BY <3>1, <3>2, <3>4 DEF Accurate, Covered
  <2> QED
    BY <2>2, <2>3
<1> QED
  BY <1>2, <1>3

\* Nothing changes for the window below, and nobody lists it anew.
LEMMA StillAccurate ==
  ASSUME Covering, Covering', Accurate, Covers(ui, ui'),
         listed' = listed, joined' = joined, Rows' = Rows
  PROVE  Accurate'
<1>1. /\ ui'.beforeOverlay = ui.beforeOverlay /\ ui.beforeOverlay \in Live(ui)
      /\ ui'.beforeOverlay \in Live(ui') /\ Covered' = Covered
  BY DEF Covers, Covering, Accurate, Covered
<1>2. /\ IsChannel(ui', ui'.beforeOverlay) <=> IsChannel(ui, ui.beforeOverlay)
      /\ IsUser(ui', ui'.beforeOverlay) <=> IsUser(ui, ui.beforeOverlay)
  BY <1>1 DEF IsChannel, IsUser, Covered
<1> QED
  BY <1>1, <1>2 DEF Accurate

\* focusWindow has listed what is below the overlay, or nobody has.
LEMMA FollowsListed ==
  ASSUME CInv', RoomOK', Running, watched' = watched, Running' => Shows,
         listed' = IF ui'.active = Overlay /\ ui.active # Overlay
                   THEN OverlayOf(ui') ELSE listed,
         Rows' = Rows \/ There' # There
  PROVE  ListedStep
<1> SUFFICES ASSUME Covering', Covering => Accurate
             PROVE  Accurate' \/ (Covering /\ Outdated)
  BY DEF ListedStep
<1>1. CASE ui.active # Overlay
  <2>1. ui'.beforeOverlay \in Live(ui')
    BY <1>1 DEF Covering, Shows, Opens
  <2>2. listed' = OverlayOf(ui')
    BY <1>1 DEF Covering
  <2> QED
    BY <2>1, <2>2, WrittenAccurate
<1>2. CASE ui.active = Overlay
  <2>1. Covering /\ Accurate
    BY <1>2 DEF Covering
  <2>2. listed' = listed
    BY <1>2
  <2>3. Covers(ui, ui') \/ joined' # joined
    BY DEF Covering, Shows
  <2>4. CASE joined' = joined /\ There' = There
    BY <2>1, <2>2, <2>3, <2>4, StillAccurate
  <2> QED
    BY <2>1, <2>4 DEF Outdated
<1> QED
  BY <1>1, <1>2

-----------------------------------------------------------------------------
(* Step by step.                                                            *)

Good == CInv /\ RoomOK /\ Titled
Right == CInv' /\ RoomOK' /\ Titled' /\ ListedStep

\* A step after which the program has stopped shows nothing.
LEMMA Stopped ==
  ASSUME ~Running'
  PROVE  Titled' /\ ListedStep
BY DEF Titled, ListedStep, Covering

\* A handler that ends in focusWindow, or with nothing at all.
LEMMA FollowKeeps ==
  ASSUME Good, CInv', RoomOK', Running, Running' => Shows, watched' = watched,
         \A o \in Channel : room'[o].topic = room[o].topic,
         Rows' = Rows \/ There' # There, Follow
  PROVE  Right
<1>1. CASE Running'
  <2>1. Titled'
    BY <1>1, TitleFollows DEF Good, Follow, Shows
  <2>2. ListedStep
    BY <1>1, FollowsListed DEF Follow
  <2> QED
    BY <2>1, <2>2 DEF Right
<1>2. CASE ~Running'
  BY <1>2, Stopped DEF Right
<1> QED
  BY <1>1, <1>2

\* A handler that does neither show the overlay nor lift it may write the title.
LEMMA RetitleKeeps ==
  ASSUME Good, CInv', RoomOK', Running, Running' => Shows, watched' = watched,
         Running' /\ ui.active # Overlay => ui'.active # Overlay,
         \A o \in Channel : room'[o].topic = room[o].topic,
         Rows' = Rows \/ There' # There, NEW ws, Retitle(ws)
  PROVE  Right
<1>1. CASE ui.active \notin ws
  BY <1>1, FollowKeeps DEF Retitle
<1>2. CASE ui.active \in ws /\ Running'
  <2>1. title' = TitleOf(ui') /\ listed' = listed
    BY <1>2 DEF Retitle
  <2>2. ListedStep
    BY <1>2, <2>1, FollowsListed
  <2> QED
    BY <2>1, <2>2, TitleWritten DEF Right
<1>3. CASE ~Running'
  BY <1>3, Stopped DEF Right
<1> QED
  BY <1>1, <1>2, <1>3

\* Nothing is said of the windows, or the status bar is drawn.
LEMMA StillInv ==
  ASSUME CInv, Running, joined' = joined,
         ui' \in {ui, UpdateStatusbar(ui)}
  PROVE  CInv' /\ (Running' => ui' = ui /\ Shows)
<1>1. /\ Kept(ui') /\ Keeps(ui, ui')
      /\ Running' => ui' = ui
  BY Refreshed DEF CInv, Running
<1>2. \A o : Open(ui, o) => Open(ui', o)
  BY <1>1, OpenKeeps
<1>3. CInv'
  BY <1>1, <1>2, JoinedStays DEF CInv
<1>4. ui' = ui => Same(ui, ui')
  BY DEF Same
<1> QED
  BY <1>1, <1>3, <1>4, SameShows

\* With the windows as they are a step that lists nothing keeps the list as
\* good as the library's knowledge of the channel stays.
LEMMA LearnKeeps ==
  ASSUME Good, Running, joined' = joined, watched' = watched,
         ui' \in {ui, UpdateStatusbar(ui)}, RoomOK',
         \A o \in Channel : room'[o].topic = room[o].topic,
         Rows' = Rows \/ There' # There,
         title' = title, listed' = listed
  PROVE  Right
<1>1. CInv' /\ (Running' => ui' = ui /\ Shows)
  BY StillInv DEF Good
<1>2. CASE Running'
  <2>1. Follow
    BY <1>1, <1>2 DEF Follow
  <2> QED
    BY <1>1, <1>2, <2>1, FollowKeeps
<1>3. CASE ~Running'
  BY <1>1, <1>3, Stopped DEF Right
<1> QED
  BY <1>2, <1>3

\* Nothing is learned.
LEMMA RoomSame ==
  ASSUME RoomOK, UNCHANGED room
  PROVE  RoomOK' /\ Rows' = Rows /\ \A o \in Channel : room'[o].topic = room[o].topic
BY DEF RoomOK, Rows

\* The users of one channel are others now.
LEMMA UsersChange ==
  ASSUME RoomOK, NEW o \in Channel, NEW us \in Users,
         room' = [room EXCEPT ![o].users = us],
         DOMAIN us = DOMAIN room[o].users => us = room[o].users
  PROVE  /\ RoomOK' /\ \A p \in Channel : room'[p].topic = room[p].topic
         /\ Rows' = Rows \/ There' # There
<1>1. /\ RoomOK' /\ \A p \in Channel : room'[p].topic = room[p].topic
      /\ room'[o].users = us
      /\ \A p \in Channel \ {o} : room'[p].users = room[p].users
  BY RoomLearns DEF RoomOK
<1>2. CASE DOMAIN us = DOMAIN room[o].users
  <2>1. \A p \in Channel : room'[p].users = room[p].users
    BY <1>1, <1>2
  <2> QED
    BY <1>1, <2>1 DEF Rows
<1>3. CASE DOMAIN us # DOMAIN room[o].users
  <2>1. There'[o] # There[o]
    BY <1>1, <1>3 DEF There
  <2> QED
    BY <1>1, <2>1
<1> QED
  BY <1>2, <1>3

\* The channels we are in are channels.
LEMMA JoinedChannels ==
  ASSUME CInv, RoomOK, NEW o \in joined
  PROVE  o \in Channel /\ room[o].users \in Users
BY DEF CInv, Joined, Channel, RoomOK

\* What focuses and closes windows, with the panels that follow.
LEMMA MovesKeep ==
  ASSUME Good, watched' = watched, Moves, UNCHANGED room, Follow
  PROVE  Right
BY MovesShow, RoomSame, FollowKeeps DEF Good

\* A kick writes the title when its window is on the screen.
LEMMA KickedKeeps ==
  ASSUME Good, watched' = watched, NEW o \in Object, Kicked(o)
  PROVE  Right
<1>1. SelfKick(o) /\ UNCHANGED room /\ Retitle({Find(ui, o)})
  BY DEF Kicked
<1>2. CInv' /\ Running /\ (Running' => Left(ui, ui'))
  BY <1>1, SelfKickInv DEF SelfKick, Good
<1>3. Running' => Shows
  BY <1>1, LeaveShows DEF Good
<1>4. Running' /\ ui.active # Overlay => ui'.active # Overlay
  BY <1>2, LeftScreen DEF Good, CInv, Running
<1>5. RoomOK' /\ Rows' = Rows /\ \A p \in Channel : room'[p].topic = room[p].topic
  BY <1>1, RoomSame DEF Good
<1> QED
  BY <1>1, <1>2, <1>3, <1>4, <1>5, RetitleKeeps

\* Reports list anew whatever is below the overlay.
LEMMA ReportedKeeps ==
  ASSUME Good, watched' = watched, Reported
  PROVE  Right
<1>1. /\ Running /\ joined' = joined /\ UNCHANGED <<room, title>>
      /\ ui' = UpdateStatusbar(ui)
      /\ listed' = IF ui.active = Overlay /\ ui'.fault = "none" THEN OverlayOf(ui') ELSE listed
  BY DEF Reported, ServerStatus, RefreshStatusbar
<1>2. CInv' /\ (Running' => ui' = ui /\ Shows)
  BY <1>1, StillInv DEF Good
<1>3. RoomOK' /\ Rows' = Rows /\ \A p \in Channel : room'[p].topic = room[p].topic
  BY <1>1, RoomSame DEF Good
<1>4. CASE Running'
  <2>1. Titled'
    BY <1>1, <1>2, <1>3, <1>4, TitleFollows DEF Good, Shows
  <2>2. ASSUME Covering', Covering => Accurate
        PROVE  Accurate'
    <3>1. Covering /\ Accurate /\ listed' = OverlayOf(ui') /\ ui' = ui
      BY <1>1, <1>2, <1>4, <2>2 DEF Covering, Running
    <3>2. ui'.beforeOverlay \in Live(ui')
      BY <3>1 DEF Accurate
    <3> QED
      BY <1>2, <1>3, <2>2, <3>1, <3>2, WrittenAccurate
  <2> QED
    BY <1>2, <1>3, <2>1, <2>2 DEF Right, ListedStep
<1>5. CASE ~Running'
  BY <1>2, <1>3, <1>5, Stopped DEF Right
<1> QED
  BY <1>4, <1>5

\* /overlay lifts the overlay and then clears the list.
LEMMA CommandOverlayKeeps ==
  ASSUME Good, watched' = watched, CommandOverlay
  PROVE  Right
<1>1. /\ Running /\ joined' = joined /\ UNCHANGED room
      /\ ui' = Dismiss(ui)
      /\ title' = IF ui'.active = ui.active THEN title ELSE TitleOf(ui')
  BY DEF CommandOverlay, OnKey
<1>2. /\ Kept(ui') /\ Keeps(ui, ui')
      /\ Running' => ui'.active # Overlay
  <2>1. Kept(ui) /\ ui \in UIState
    BY LiveWindows DEF Good, CInv
  <2>2. Keeps(ui, Dismiss(ui))
    BY <2>1, DismissKeeps
  <2>3. Kept(Dismiss(ui)) /\ (Dismiss(ui).fault = "none" => Dismiss(ui).active # Overlay)
    BY <1>1, KeyFound DEF Good
  <2> QED
    BY <1>1, <2>2, <2>3 DEF Running
<1>3. CInv'
  <2>1. \A o : Open(ui, o) => Open(ui', o)
    BY <1>2, OpenKeeps
  <2> QED
    BY <1>1, <1>2, <2>1, JoinedStays DEF Good, CInv
<1>4. RoomOK' /\ \A p \in Channel : room'[p].topic = room[p].topic
  BY <1>1, RoomSame DEF Good
<1>5. Stays(ui, ui')
  BY <1>1, <1>2 DEF Stays, Keeps
<1>6. CASE Running'
  <2>1. Titled'
    BY <1>1, <1>4, <1>5, <1>6, TitleFollows DEF Good
  <2> QED
    BY <1>2, <1>3, <1>4, <1>6, <2>1 DEF Right, ListedStep, Covering
<1>7. CASE ~Running'
  BY <1>3, <1>4, <1>7, Stopped DEF Right
<1> QED
  BY <1>6, <1>7

\* Somebody else joins.
LEMMA JoinsKeep ==
  ASSUME Good, watched' = watched, NEW o \in Object, NEW n \in Nick, Joins(o, n)
  PROVE  Right
<1> DEFINE ns == [m \in {n} |-> ""]
           us == With(room[o].users, ns)
<1>1. /\ o \in joined /\ n \notin DOMAIN room[o].users /\ Message(o) /\ Follow
      /\ room' = [room EXCEPT ![o].users = us]
  BY DEF Joins
<1>2. o \in Channel /\ room[o].users \in Users
  BY <1>1, JoinedChannels DEF Good
<1>3. ns \in Users
  <2>1. ns \in [{n} -> Hat]
    BY HatAssumption
  <2> QED
    BY <2>1, UsersMade
<1>4. us \in Users /\ DOMAIN us = DOMAIN room[o].users \cup {n}
  <2>1. DOMAIN ns = {n}
    OBVIOUS
  <2> HIDE DEF ns
  <2>2. With(room[o].users, ns) \in Users
    BY <1>2, <1>3, ComeAndGo
  <2>3. DOMAIN With(room[o].users, ns) = DOMAIN room[o].users \cup DOMAIN ns
    BY <1>2, <1>3, ComeAndGo
  <2> QED
    BY <2>1, <2>2, <2>3
<1> HIDE DEF us
<1>5. DOMAIN us # DOMAIN room[o].users
  BY <1>1, <1>4
<1>6. /\ RoomOK' /\ \A p \in Channel : room'[p].topic = room[p].topic
      /\ Rows' = Rows \/ There' # There
  BY <1>1, <1>2, <1>4, <1>5, UsersChange DEF Good
<1>7. CInv' /\ Running /\ Shows
  BY <1>1, MessageInv, MessageScreen, SameShows DEF Message, OpenWindow, Good
<1> QED
  BY <1>1, <1>6, <1>7, FollowKeeps

\* Somebody else leaves.
LEMMA LeavesKeep ==
  ASSUME Good, watched' = watched, NEW o \in Object, NEW n \in Nick, Leaves(o, n)
  PROVE  Right
<1> DEFINE us == Without(room[o].users, n)
<1>1. /\ Running /\ o \in joined /\ n \in DOMAIN room[o].users
      /\ room' = [room EXCEPT ![o].users = us]
      /\ ui' = ui /\ joined' = joined /\ title' = title /\ listed' = listed
  BY DEF Leaves, vars
<1>2. o \in Channel /\ room[o].users \in Users
  BY <1>1, JoinedChannels DEF Good
<1>3. us \in Users /\ DOMAIN us = DOMAIN room[o].users \ {n}
  BY <1>2, ComeAndGo
<1> HIDE DEF us
<1>4. DOMAIN us # DOMAIN room[o].users
  BY <1>1, <1>3
<1>5. /\ RoomOK' /\ \A p \in Channel : room'[p].topic = room[p].topic
      /\ Rows' = Rows \/ There' # There
  BY <1>1, <1>2, <1>3, <1>4, UsersChange DEF Good
<1> QED
  BY <1>1, <1>5, LearnKeeps

\* The server tells who else is in the channel; an overlay is not listed.
LEMMA NamesUpdatedKeeps ==
  ASSUME Good, watched' = watched, NEW o \in Object, NamesUpdated(o)
  PROVE  Right
<1>1. /\ Running /\ o \in joined
      /\ listed' = IF ui.obj[ui.active] = o THEN Nothing ELSE listed
      /\ ui' = ui /\ joined' = joined /\ title' = title
  BY DEF NamesUpdated, vars
<1>2. PICK others \in SUBSET (Nick \ DOMAIN room[o].users) :
        \E more \in [others -> Hat] :
          room' = [room EXCEPT ![o].users = With(@, more)]
  BY DEF NamesUpdated
<1>3. PICK more \in [others -> Hat] :
        room' = [room EXCEPT ![o].users = With(@, more)]
  BY <1>2
<1> DEFINE us == With(room[o].users, more)
<1>4. o \in Channel /\ room[o].users \in Users /\ more \in Users
  BY <1>1, JoinedChannels, UsersMade DEF Good
<1>5. /\ us \in Users /\ DOMAIN us = DOMAIN room[o].users \cup DOMAIN more
      /\ DOMAIN more = {} => us = room[o].users
  BY <1>4, ComeAndGo
<1>6. room' = [room EXCEPT ![o].users = us]
  BY <1>3
<1>7. DOMAIN more = others
  OBVIOUS
<1> HIDE DEF us
<1>8. DOMAIN us = DOMAIN room[o].users => us = room[o].users
  BY <1>5, <1>7
<1>9. /\ RoomOK' /\ \A p \in Channel : room'[p].topic = room[p].topic
      /\ Rows' = Rows \/ There' # There
  BY <1>4, <1>5, <1>6, <1>8, UsersChange DEF Good
<1>10. CASE ui.active = Overlay
  <2>1. ui.obj[ui.active] = Null
    BY <1>10 DEF Good, CInv, Kept, Sound
  <2>2. listed' = listed
    BY <1>1, <1>4, <2>1, ObjectAssumption DEF Channel
  <2> QED
    BY <1>1, <1>9, <2>2, LearnKeeps
<1>11. CASE ui.active # Overlay
  <2>1. CInv' /\ (Running' => Shows)
    BY <1>1, StillInv DEF Good
  <2>2. Titled'
    BY <1>1, <1>9, <2>1, TitleFollows, Stopped DEF Good, Shows
  <2>3. ListedStep
    BY <1>1, <1>11 DEF ListedStep, Covering
  <2> QED
    BY <1>9, <2>1, <2>2, <2>3 DEF Right
<1> QED
  BY <1>10, <1>11

\* A user is gone from every channel, or has just been made.
LEMMA QuitsOrAppearsKeeps ==
  ASSUME Good, watched' = watched, NEW who \in Object, NEW rooms, QuitsOrAppears(who, rooms)
  PROVE  Right
<1>1. CASE UserAppeared(who, rooms) /\ UNCHANGED room /\ Retitle(WindowsForUser(ui, who, rooms))
  <2>1. CInv' /\ Running
    BY <1>1, UserAppearedInv DEF Good, UserAppeared
  <2>2. Running' => Shows /\ Same(ui, ui')
    BY <1>1, <2>1, UsersScreen, SameShows DEF Good
  <2>3. RoomOK' /\ Rows' = Rows /\ \A p \in Channel : room'[p].topic = room[p].topic
    BY <1>1, RoomSame DEF Good
  <2>4. Running' /\ ui.active # Overlay => ui'.active # Overlay
    BY <2>2 DEF Same
  <2> QED
    BY <1>1, <2>1, <2>2, <2>3, <2>4, RetitleKeeps
<1>2. ASSUME UserQuit(who, rooms),
             room' = [o \in Channel |->
               IF o \in joined /\ o.server = who.server
               THEN [room[o] EXCEPT !.users = Without(@, who.name)] ELSE room[o]],
             NEW ws, Retitle(ws)
      PROVE  Right
  <2>1. CInv' /\ Running
    BY <1>2, UserQuitInv DEF Good, UserQuit
  <2>2. Running' => Shows /\ Same(ui, ui')
    BY <1>2, <2>1, UsersScreen, SameShows DEF Good
  <2>3. Running' /\ ui.active # Overlay => ui'.active # Overlay
    BY <2>2 DEF Same
  <2>4. ASSUME NEW p \in Channel
        PROVE  /\ room'[p] \in [topic : Topic, users : Users]
               /\ room'[p].topic = room[p].topic
               /\ DOMAIN room'[p].users = DOMAIN room[p].users =>
                    room'[p].users = room[p].users
    <3>1. room[p] \in [topic : Topic, users : Users]
      BY DEF Good, RoomOK
    <3> DEFINE us == Without(room[p].users, who.name)
               x == [room[p] EXCEPT !.users = us]
    <3>2. us \in Users /\ (DOMAIN us = DOMAIN room[p].users => us = room[p].users)
      <4>1. /\ us \in Users /\ DOMAIN us = DOMAIN room[p].users \ {who.name}
            /\ who.name \notin DOMAIN room[p].users => us = room[p].users
        BY <3>1, ComeAndGo
      <4> QED
        BY <4>1
    <3> HIDE DEF us
    <3>3. x \in [topic : Topic, users : Users] /\ x.topic = room[p].topic /\ x.users = us
      BY <3>1, <3>2
    <3>4. room'[p] = x \/ room'[p] = room[p]
      BY <1>2 DEF us
    <3> HIDE DEF x
    <3> QED
      BY <3>1, <3>2, <3>3, <3>4
  <2>5. RoomOK'
    <3>1. DOMAIN room' = Channel /\ room' = [p \in Channel |-> room'[p]]
      BY <1>2
    <3> QED
      BY <2>4, <3>1 DEF RoomOK
  <2>6. Rows' = Rows \/ There' # There
    <3>1. CASE \A p \in Channel : room'[p].users = room[p].users
      BY <3>1 DEF Rows
    <3>2. ASSUME NEW p \in Channel, room'[p].users # room[p].users
          PROVE  There' # There
      <4>1. There'[p] # There[p]
        BY <2>4, <3>2 DEF There
      <4> QED
        BY <4>1
    <3> QED
      BY <3>1, <3>2
  <2> QED
    BY <1>2, <2>1, <2>2, <2>3, <2>4, <2>5, <2>6, RetitleKeeps
<1> QED
  BY <1>1, <1>2 DEF QuitsOrAppears

\* Hats are listed for the window the channel is found in: it is the one below
\* the overlay, or the list is of something else, or the window holds another
\* object under the channel's name.
LEMMA HatsListed ==
  ASSUME Good, Covering, Accurate, ~Replaced, ~IsUser(ui, ui.beforeOverlay),
         NEW o \in joined,
         RoomOK', \A p \in Channel \ {o} : room'[p].users = room[p].users,
         ui' = ui, joined' = joined,
         listed' = IF IsActive(Find(ui, o)) THEN People(o) ELSE listed
  PROVE  Accurate'
<1> DEFINE b == ui.beforeOverlay
           c == Covered
           w == Find(ui, o)
<1>1. /\ Kept(ui) /\ ui.active = Overlay /\ b \in Live(ui) /\ b # Overlay /\ b \in Window
      /\ o \in Object /\ o \in Channel
  <2>1. Kept(ui) /\ joined \subseteq Channel
    BY DEF Good, CInv, Joined, Channel
  <2>2. Live(ui) \subseteq Window
    BY <2>1, LiveWindows
  <2> QED
    BY <2>1, <2>2 DEF Covering, Accurate, Kept, Sound, Focused, Running, Channel
<1>2. /\ Accurate' <=>
           \/ b = Status /\ listed'.of = Status /\ listed'.rows = joined
           \/ IsChannel(ui, b) /\ listed'.of = c /\ listed'.rows = Rows'[c]
           \/ /\ IsUser(ui, b) /\ listed'.of = c
              /\ listed'.rows = {line \in joined \X Hat :
                   /\ line[1].server = c.server
                   /\ <<c.name, line[2]>> \in Rows'[line[1]]}
      /\ \/ b = Status /\ listed.of = Status /\ listed.rows = joined
         \/ IsChannel(ui, b) /\ listed.of = c /\ listed.rows = Rows[c]
  BY <1>1 DEF Accurate, Covered, IsChannel, IsUser, Live
<1>3. /\ w # Null => w \in Conversations(ui) /\ For(ui, w, o)
      /\ w = Null => \A x \in Conversations(ui) : ~For(ui, x, o)
  <2>1. IsChannelObject(o) /\ Sound(ui) /\ Named(ui)
    BY <1>1 DEF Channel, Kept
  <2>2. \A x \in Live(ui) : Holds(ui, x, o) <=> x \in Conversations(ui) /\ For(ui, x, o)
    <3> SUFFICES ASSUME NEW x \in Live(ui)
                 PROVE  Holds(ui, x, o) <=> x \in Conversations(ui) /\ For(ui, x, o)
      OBVIOUS
    <3>1. Holds(ui, x, o) <=> /\ x \in Conversations(ui)
                              /\ ui.obj[x].server = o.server /\ ui.obj[x].name = o.name
      BY <1>1, <2>1, FoundByName
    <3>2. x \in Conversations(ui) => ui.obj[x] # Null
      BY <2>1 DEF Named
    <3> QED
      BY <3>1, <3>2 DEF For, SameName
  <2>3. w # Null => w \in Live(ui) /\ Holds(ui, w, o)
    BY <1>1, FindHolds DEF Kept
  <2>4. w = Null => \A x \in Live(ui) : ~Holds(ui, x, o)
    BY <1>1, FindHolds DEF Kept
  <2> QED
    BY <2>2, <2>3, <2>4 DEF Conversations
<1> HIDE DEF w
<1>4. IsActive(w) <=> w # Null /\ w = b
  BY <1>1, <1>3 DEF IsActive, Conversations
<1>5. listed' = IF w # Null /\ w = b THEN People(o) ELSE listed
  BY <1>4 DEF w
<1>6. CASE b = Status /\ listed.of = Status /\ listed.rows = joined
  <2>1. w # Null => w # Status
    BY <1>3 DEF Conversations
  <2> QED
    BY <1>2, <1>5, <1>6, <2>1
<1>7. CASE IsChannel(ui, b) /\ listed.of = c /\ listed.rows = Rows[c]
  <2>1. c \in Channel /\ c # Null /\ c = ui.obj[b]
    BY <1>1, <1>7, HoldsChannel DEF IsChannel, Covered
  <2>2. CASE o = c
    <3>1. b \in Conversations(ui) /\ For(ui, b, o)
      BY <1>1, <2>1, <2>2 DEF For, SameName, Kept, Named, Conversations
    <3>2. w # Null /\ w \in Conversations(ui) /\ For(ui, w, o)
      BY <1>3, <3>1
    <3>3. ui.windowName[b] = ui.windowName[w]
      <4>1. IsChannelObject(ui.obj[b]) /\ IsChannelObject(ui.obj[w])
        BY <1>1, <3>1, <3>2 DEF For, SameName, Channel, IsChannelObject
      <4>2. /\ ui.obj[b].server = ui.obj[w].server /\ ui.obj[b].name = ui.obj[w].name
        BY <3>1, <3>2 DEF For, SameName
      <4>3. WindowsNamed(ui)
        BY <1>1 DEF Kept, Named
      <4> QED
        BY <3>1, <3>2, <4>1, <4>2, <4>3 DEF WindowsNamed
    <3>6. w = b
      BY <1>1, <3>1, <3>2, <3>3 DEF Kept, Named
    <3>4. listed' = People(o)
      BY <1>5, <3>2, <3>6
    <3>5. Rows'[o] = People(o).rows /\ People(o).of = o
      BY <1>1 DEF Rows, People, UserlistLine
    <3> QED
      BY <1>2, <1>7, <2>2, <3>4, <3>5
  <2>3. CASE o # c
    <3>1. ~SameName(o, c)
      BY <2>1, <2>3 DEF Replaced, Covered
    <3>2. w # Null => w # b
      BY <1>3, <2>1, <3>1 DEF For, SameName
    <3>3. Rows'[c] = Rows[c]
      <4>1. c \in Channel /\ room'[c].users = room[c].users
        BY <2>1, <2>3
      <4> HIDE DEF c
      <4> QED
        BY <4>1 DEF Rows
    <3> QED
      BY <1>2, <1>5, <1>7, <3>2, <3>3
  <2> QED
    BY <2>2, <2>3
<1> QED
  BY <1>2, <1>6, <1>7

\* The hats of somebody change.
LEMMA HatsUpdatedKeeps ==
  ASSUME Good, watched' = watched, NEW o \in Object, NEW n \in Nick, NEW hat \in Hat,
         HatsUpdated(o, n, hat)
  PROVE  Right
<1> DEFINE us == [room[o].users EXCEPT ![n] = hat]
<1>1. /\ Running /\ o \in joined /\ n \in DOMAIN room[o].users
      /\ room' = [room EXCEPT ![o].users = us]
      /\ ui' = IF IsActive(Find(ui, o)) THEN UpdateStatusbar(ui) ELSE ui
      /\ listed' = IF IsActive(Find(ui, o)) THEN People(o) ELSE listed
      /\ joined' = joined /\ title' = title
  BY DEF HatsUpdated
<1>2. o \in Channel /\ room[o].users \in Users
  BY <1>1, JoinedChannels DEF Good
<1>3. us \in Users /\ DOMAIN us = DOMAIN room[o].users
  <2>1. us \in [DOMAIN room[o].users -> Hat] /\ DOMAIN room[o].users \in SUBSET Nick
    BY <1>2, UsersAre
  <2> QED
    BY <2>1, UsersMade
<1> HIDE DEF us
<1>4. /\ RoomOK' /\ \A p \in Channel : room'[p].topic = room[p].topic
      /\ room'[o].users = us
      /\ \A p \in Channel \ {o} : room'[p].users = room[p].users
  BY <1>1, <1>2, <1>3, RoomLearns DEF RoomOK, Good
<1>5. CInv' /\ (Running' => ui' = ui /\ Shows)
  BY <1>1, StillInv DEF Good
<1>6. CASE Running'
  <2>1. Titled'
    BY <1>1, <1>4, <1>5, <1>6, TitleFollows DEF Good, Shows
  <2>2. ASSUME Covering', Covering => Accurate
        PROVE  Accurate' \/ (Covering /\ Outdated)
    <3>1. Covering /\ Accurate /\ ui' = ui
      BY <1>1, <1>5, <1>6, <2>2 DEF Covering
    <3>2. CASE ~Replaced /\ ~IsUser(ui, ui.beforeOverlay)
      BY <1>1, <1>4, <3>1, <3>2, HatsListed
    <3> QED
      BY <3>1, <3>2 DEF Outdated
  <2> QED
    BY <1>4, <1>5, <2>1, <2>2 DEF Right, ListedStep
<1>7. CASE ~Running'
  BY <1>4, <1>5, <1>7, Stopped DEF Right
<1> QED
  BY <1>6, <1>7

\* The topic of a channel changes.
LEMMA TopicUpdatedKeeps ==
  ASSUME Good, watched' = watched, NEW o \in Object, NEW topic \in Topic,
         TopicUpdated(o, topic)
  PROVE  Right
<1>1. /\ Running /\ o \in joined
      /\ room' = [room EXCEPT ![o].topic = topic]
      /\ ui' = IF ActiveWindow \in Live(ui) THEN ui ELSE Faulty(ui, "freed")
      /\ title' = IF ui.obj[ActiveWindow] = o THEN TitleOfChannel(o) ELSE title
      /\ joined' = joined /\ listed' = listed
  BY DEF TopicUpdated
<1>2. o \in Channel
  BY <1>1, JoinedChannels DEF Good
<1>3. /\ RoomOK' /\ \A p \in Channel \ {o} : room'[p].topic = room[p].topic
      /\ \A p \in Channel : room'[p].users = room[p].users
  BY <1>1, <1>2, RoomLearns DEF RoomOK, Good
<1>4. Rows' = Rows
  BY <1>3 DEF Rows
<1>5. /\ Kept(ui) /\ Focused(ui) /\ ui.active \in Window
      /\ ActiveWindow = IF ui.active = Overlay THEN ui.beforeOverlay ELSE ui.active
      /\ ActiveWindow # Null
  <2>1. Kept(ui) /\ Focused(ui) /\ ui.active \in Window
    BY <1>1 DEF Good, CInv, Kept, Sound, Running, UIState
  <2> QED
    BY <2>1, WindowAssumption DEF Focused, ActiveWindow
<1>6. ui' \in {ui, UpdateStatusbar(ui)}
  BY <1>1, <1>5 DEF UpdateStatusbar
<1>7. CInv' /\ (Running' => ui' = ui /\ Shows)
  BY <1>1, <1>6, StillInv DEF Good
<1>8. CASE Running'
  <2>1. ListedStep
    BY <1>1, <1>3, <1>4, <1>7, <1>8, FollowsListed
  <2>2. ASSUME ui.active # Overlay
        PROVE  title' = IF IsChannel(ui, ui.active) THEN room'[ui.obj[ui.active]].topic ELSE Null
    <3>1. ActiveWindow = ui.active
      BY <1>5, <2>2
    <3>2. title = IF IsChannel(ui, ui.active) THEN room[ui.obj[ui.active]].topic ELSE Null
      BY <1>1, <2>2 DEF Good, Titled
    <3>3. CASE ui.obj[ui.active] = o
      <4>1. IsChannel(ui, ui.active)
        BY <1>2, <3>3, ObjectAssumption DEF IsChannel, Channel, IsChannelObject
      <4> QED
        BY <1>1, <3>1, <3>3, <4>1 DEF TitleOfChannel
    <3>4. CASE ui.obj[ui.active] # o
      <4>1. IsChannel(ui, ui.active) => ui.obj[ui.active] \in Channel
        BY <1>5, HoldsChannel
      <4> QED
        BY <1>1, <1>3, <3>1, <3>2, <3>4, <4>1
    <3> QED
      BY <3>3, <3>4
  <2>3. Titled'
    BY <1>7, <1>8, <2>2 DEF Titled
  <2> QED
    BY <1>3, <1>7, <2>1, <2>3 DEF Right
<1>9. CASE ~Running'
  BY <1>3, <1>7, <1>9, Stopped DEF Right
<1> QED
  BY <1>8, <1>9

-----------------------------------------------------------------------------
(* The theorems.                                                            *)

\* Each handler of the panels, and whatever moves the windows.
LEMMA PanelStep ==
  ASSUME Good, watched' = watched, PanelNext
  PROVE  Right
<1>1. CASE Moves
  BY <1>1, MovesKeep DEF Moves
<1>2. CASE Reported
  BY <1>2, ReportedKeeps
<1>3. CASE CommandOverlay
  BY <1>3, CommandOverlayKeeps
<1>4. CASE Learns
  <2>1. PICK o \in Object :
          \/ Kicked(o) \/ NamesUpdated(o)
          \/ \E n \in Nick :
               Joins(o, n) \/ Leaves(o, n) \/ \E hat \in Hat : HatsUpdated(o, n, hat)
          \/ \E topic \in Topic : TopicUpdated(o, topic)
          \/ \E rooms \in SUBSET ChannelWindows(ui) : QuitsOrAppears(o, rooms)
    BY <1>4 DEF Learns
  <2>2. CASE Kicked(o)
    BY <2>2, KickedKeeps
  <2>3. CASE NamesUpdated(o)
    BY <2>3, NamesUpdatedKeeps
  <2>4. ASSUME NEW n \in Nick, Joins(o, n)
        PROVE  Right
    BY <2>4, JoinsKeep
  <2>5. ASSUME NEW n \in Nick, Leaves(o, n)
        PROVE  Right
    BY <2>5, LeavesKeep
  <2>6. ASSUME NEW n \in Nick, NEW hat \in Hat, HatsUpdated(o, n, hat)
        PROVE  Right
    BY <2>6, HatsUpdatedKeeps
  <2>7. ASSUME NEW topic \in Topic, TopicUpdated(o, topic)
        PROVE  Right
    BY <2>7, TopicUpdatedKeeps
  <2>8. ASSUME NEW rooms \in SUBSET ChannelWindows(ui), QuitsOrAppears(o, rooms)
        PROVE  Right
    BY <2>8, QuitsOrAppearsKeeps
  <2> QED
    BY <2>1, <2>2, <2>3, <2>4, <2>5, <2>6, <2>7, <2>8
<1> QED
  BY <1>1, <1>2, <1>3, <1>4 DEF PanelNext

\* The library knows nothing of any channel, and the status window has no title.
LEMMA ScreenStart == ScreenInit => PInv
<1> SUFFICES ASSUME ScreenInit
             PROVE  CInv /\ RoomOK /\ Titled
  BY DEF PInv
<1>1. ClientInit /\ room = [o \in Channel |-> [topic |-> NoTopic, users |-> <<>>]] /\ title = Null
  BY DEF ScreenInit, PanelInit
<1>2. CInv
  BY <1>1, ClientStart
<1>3. RoomOK
  <2>1. <<>> \in [{} -> Hat] /\ {} \in SUBSET Nick
    OBVIOUS
  <2>2. <<>> \in Users
    BY <2>1 DEF Users
  <2> QED
    BY <1>1, <2>2, TopicAssumption DEF RoomOK
<1>4. Titled
  BY <1>1, WindowAssumption, ObjectAssumption
     DEF ClientInit, Init, InitialUI, Titled, IsChannel, IsChannelObject
<1> QED
  BY <1>2, <1>3, <1>4

\* A step in which nothing happens.
LEMMA ScreenStutter ==
  ASSUME PInv, UNCHANGED screenVars
  PROVE  PInv'
<1>1. UNCHANGED vars /\ room' = room /\ title' = title /\ watched' = watched
  BY DEF screenVars, allVars
<1>2. CInv => CInv'
  BY <1>1, ClientStep
<1>3. RoomOK => RoomOK'
  BY <1>1 DEF RoomOK
<1>4. Titled => Titled'
  BY <1>1 DEF Titled, Running, vars, IsChannel
<1> QED
  BY <1>1, <1>2, <1>3, <1>4 DEF PInv

\* A step of the panels, and one that is of none of the two.
LEMMA ScreenStep ==
  ASSUME PInv, [ScreenNext]_screenVars
  PROVE  PInv' /\ (watched = "panels" => [ListedStep]_screenVars)
<1>1. CASE UNCHANGED screenVars
  BY <1>1, ScreenStutter
<1>2. CASE ScreenNext /\ watched # "panels"
  BY <1>2 DEF ScreenNext, PInv
<1>3. CASE ScreenNext /\ watched = "panels"
  <2>1. Good /\ PanelNext /\ watched' = watched
    BY <1>3 DEF ScreenNext, PInv, Good
  <2>2. Right
    BY <2>1, PanelStep
  <2> QED
    BY <2>2 DEF Right, PInv
<1> QED
  BY <1>1, <1>2, <1>3

\* Whatever the servers send and whatever keys are pressed, in any order, the
\* windows are sound, the library's channels are what they can be, and the title
\* is right: what the handlers need of each other.
THEOREM PanelsKept == ScreenSpec => []PInv
<1>1. PInv /\ [ScreenNext]_screenVars => PInv'
  BY ScreenStep
<1> QED
  BY <1>1, ScreenStart, PTL DEF ScreenSpec

\* The title bar never has the topic of a window that is not on the screen, nor
\* an old one: through every order of topics, focus, closing and covering.
THEOREM TitleTellsAlways == ScreenSpec => []TitleTells
<1>1. PInv => TitleTells
  BY DEF PInv, Titled, TitleTells
<1> QED
  BY <1>1, PanelsKept, PTL

\* The overlay's list is right when it opens, and goes wrong only when somebody
\* comes or goes, when it is of a user, or when its channel was joined anew.
THEOREM ListedAlways == ScreenSpec => ListedAsTheyAre
<1> DEFINE Step == Covering' /\ (Covering => Accurate) =>
                     \/ Accurate'
                     \/ Covering /\ (joined' # joined \/ There' # There
                                       \/ Replaced \/ IsUser(ui, ui.beforeOverlay))
<1>1. PInv /\ [ScreenNext]_screenVars => [Step]_screenVars
  <2> SUFFICES ASSUME PInv, [ScreenNext]_screenVars, ~(UNCHANGED screenVars), Covering'
               PROVE  Step
    OBVIOUS
  <2>1. watched = "panels"
    BY DEF Covering, ScreenNext
  <2>2. ListedStep
    BY <2>1, ScreenStep
  <2> QED
    BY <2>2 DEF ListedStep, Outdated
<1> HIDE DEF Step
<1>2. ScreenSpec => [][Step]_screenVars
  BY <1>1, PanelsKept, PTL DEF ScreenSpec
<1> QED
  BY <1>2 DEF Step, ListedAsTheyAre
=============================================================================
