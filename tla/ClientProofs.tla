----------------------------- MODULE ClientProofs -----------------------------
(***************************************************************************)
(* Proofs about Client, for any number of windows, servers, channels and    *)
(* users: its handlers keep what InterfaceProofs shows of its operations, a *)
(* channel we are in has a living window, and leaving one or more channels  *)
(* leaves everything else in its order.                                     *)
(***************************************************************************)
EXTENDS Client, InterfaceProofs

\* The window w belongs to the channel of o.
For(u, w, o) == u.obj[w] # Null /\ SameName(u.obj[w], o)

\* u has a living window for the channel of o.
Open(u, o) == \E w \in Conversations(u) : For(u, w, o) /\ ~u.dead[w]

\* The channels we are in: one object for each, each with a living window.
Joined(u) ==
  /\ joined \subseteq Object
  /\ \A o \in joined : IsChannelObject(o)
  /\ \A o, p \in joined : SameName(o, p) => o = p
  /\ u.fault = "none" => \A o \in joined : Open(u, o)

CInv == Kept(ui) /\ Joined(ui)

-----------------------------------------------------------------------------
(* Dead and living windows.                                                 *)

\* All windows are open windows of Window.
LEMMA LiveWindows ==
  ASSUME NEW u, Kept(u)
  PROVE  Live(u) \subseteq Window /\ u \in UIState
BY LenProperties, ElementOfSeq DEF Kept, Sound, Lists, List, Live, ToSet

\* getWindow gives a window of the channel.
LEMMA HoldsFor ==
  ASSUME NEW u, Kept(u), NEW o \in Object, IsChannelObject(o),
         NEW w \in Live(u)
  PROVE  Holds(u, w, o) => For(u, w, o)
BY FoundByName DEF Kept, Named, For, SameName

\* Nothing but the marks of the windows depends on who is dead.
LEMMA MarksKept ==
  ASSUME NEW u, Kept(u), NEW f \in [Window -> BOOLEAN]
  PROVE  LET v == [u EXCEPT !.dead = f] IN
         /\ Kept(v) /\ v.dead = f /\ v.fault = u.fault
         /\ v.windows = u.windows /\ v.children = u.children
         /\ v.active = u.active /\ v.beforeOverlay = u.beforeOverlay
         /\ v.obj = u.obj /\ Live(v) = Live(u)
<1> DEFINE v == [u EXCEPT !.dead = f]
<1>1. u \in UIState
  BY DEF Kept, Sound
<1>2. /\ v \in UIState /\ v.windows = u.windows /\ v.children = u.children
      /\ v.active = u.active /\ v.beforeOverlay = u.beforeOverlay
      /\ v.fault = u.fault /\ v.obj = u.obj /\ v.dead = f
      /\ v.windowName = u.windowName /\ v.name = u.name
  BY <1>1 DEF UIState
<1> HIDE DEF v
<1>3. Sound(v) /\ Recent(v) /\ Live(v) = Live(u)
  BY <1>2 DEF Kept, Sound, Lists, Focused, Recent, Live
<1>4. Named(v)
  BY <1>2, <1>3, SameNamed DEF Kept
<1> QED
  BY <1>2, <1>3, <1>4 DEF Kept, v

\* kill and resurrect are such changes.
LEMMA FlagMarks ==
  ASSUME NEW u, Kept(u), NEW w \in Window
  PROVE  LET k == Kill(u, w)
             r == Resurrect(u, w)
         IN /\ Kept(k) /\ k.fault = u.fault /\ k.active = u.active
            /\ k.windows = u.windows /\ k.children = u.children
            /\ k.obj = u.obj /\ Live(k) = Live(u)
            /\ \A x \in Window : x # w => k.dead[x] = u.dead[x]
            /\ Kept(r) /\ r.fault = u.fault /\ r.active = u.active
            /\ r.obj = u.obj /\ Live(r) = Live(u)
            /\ \A x \in Window : x # w => r.dead[x] = u.dead[x]
            /\ r.dead[w] = FALSE
<1> DEFINE kills == [u.dead EXCEPT ![w] = TRUE]
           lives == [u.dead EXCEPT ![w] = FALSE]
<1>1. u \in UIState
  BY LiveWindows
<1>2. /\ Kill(u, w) = [u EXCEPT !.dead = kills]
      /\ Resurrect(u, w) = [u EXCEPT !.dead = lives]
  BY <1>1 DEF Kill, Resurrect, UIState
<1>3. kills \in [Window -> BOOLEAN] /\ lives \in [Window -> BOOLEAN]
  BY <1>1 DEF UIState
<1>4. /\ \A x \in Window : x # w => kills[x] = u.dead[x]
      /\ \A x \in Window : x # w => lives[x] = u.dead[x]
      /\ lives[w] = FALSE
  BY <1>1 DEF UIState
<1> HIDE DEF kills, lives
<1> QED
  BY <1>2, <1>3, <1>4, MarksKept

\* A living window lives on when its object and its mark stay.
LEMMA OpenStays ==
  ASSUME NEW u, NEW v, NEW o, Open(u, o),
         \A w \in Conversations(u) : For(u, w, o) /\ ~u.dead[w] =>
           w \in Live(v) /\ v.obj[w] = u.obj[w] /\ ~v.dead[w]
  PROVE  Open(v, o)
BY DEF Open, Conversations, For, SameName

\* It does after an operation that neither opens, closes nor kills a window.
LEMMA OpenKeeps ==
  ASSUME NEW u, NEW v, Keeps(u, v), NEW o, Open(u, o)
  PROVE  Open(v, o)
BY DEF Open, Conversations, For, SameName, Keeps

\* The window of another channel is another window.
LEMMA OtherWindow ==
  ASSUME NEW u, NEW w, NEW o, NEW p, For(u, w, o), ~SameName(o, p)
  PROVE  ~For(u, w, p)
BY DEF For, SameName

-----------------------------------------------------------------------------
(* The keys.                                                                *)

\* Keys neither open nor close a window, but for those of /wc.
LEMMA KeyKeeps ==
  ASSUME Kept(ui), Running,
         \/ KeyOverlay \/ KeyNext \/ KeyPrevious
         \/ \E n \in 0..Len(ui.children) : KeyIndex(n) \/ CommandMove(n)
  PROVE  Keeps(ui, ui')
<1> DEFINE d == Dismiss(ui)
<1>1. /\ Keeps(ui, d) /\ Keeps(ui, Toggle(ui)) /\ Keeps(ui, ui)
  BY DismissKeeps, LiveWindows DEF Keeps
<1>2. /\ Kept(d) /\ d \in UIState
      /\ d.fault = "none" => d.active \in Window /\ d.active # Overlay
  BY ToggleKept, LiveWindows DEF Running
<1>3. \A v : Keeps(d, v) => Keeps(ui, v)
  BY <1>1 DEF Keeps
<1> HIDE DEF d
<1>4. CASE KeyOverlay
  BY <1>1, <1>4 DEF KeyOverlay
<1>5. CASE KeyNext
  <2>1. ui' = IF d.fault = "none" THEN NextWindow(d) ELSE d
    BY <1>5 DEF KeyNext, OnKey, d
  <2> QED
    BY <1>1, <1>2, <1>3, <2>1, CycleKeeps
<1>6. CASE KeyPrevious
  <2>1. ui' = IF d.fault = "none" THEN PreviousWindow(d) ELSE d
    BY <1>6 DEF KeyPrevious, OnKey, d
  <2> QED
    BY <1>1, <1>2, <1>3, <2>1, CycleKeeps
<1>7. ASSUME NEW n \in 0..Len(ui.children), KeyIndex(n)
      PROVE  Keeps(ui, ui')
  <2>1. ui' = IF d.fault = "none" THEN FocusIndex(d, n) ELSE d
    BY <1>7 DEF KeyIndex, OnKey, d
  <2> QED
    BY <1>1, <1>2, <1>3, <2>1, CycleKeeps
<1>8. ASSUME NEW n \in 0..Len(ui.children), CommandMove(n)
      PROVE  Keeps(ui, ui')
  <2>1. ui' = IF d.fault = "none" THEN MoveWindow(d, d.active, n) ELSE d
    BY <1>8 DEF CommandMove, OnKey, d
  <2>2. n \in Nat
    BY LenProperties DEF Kept, Sound, Lists, List
  <2>3. d.fault = "none" => Keeps(d, MoveWindow(d, d.active, n))
    BY <1>2, <2>2, MoveKeeps DEF Kept
  <2> QED
    BY <1>1, <1>3, <2>1, <2>3
<1> QED
  BY <1>4, <1>5, <1>6, <1>7, <1>8

\* removeWindow: what becomes of the others.
LEMMA RemoveOthers ==
  ASSUME NEW u, Kept(u), u.fault = "none",
         NEW w \in Live(u), w \notin {Status, Overlay}
  PROVE  LET r == RemoveWindow(u, w) IN
         /\ Kept(r) /\ r.fault = "none" /\ Live(r) = Live(u) \ {w}
         /\ r.windows = Erase(u.windows, w)
         /\ r.children = Erase(u.children, w)
         /\ r.active = IF u.active = w THEN Head(r.windows) ELSE u.active
         /\ r.beforeOverlay = u.beforeOverlay
         /\ \A x \in Live(u) \ {w} :
              r.obj[x] = u.obj[x] /\ r.dead[x] = u.dead[x]
<1> DEFINE r == RemoveWindow(u, w)
           s == Erase(u.windows, w)
           c == Erase(u.children, w)
           a == IF u.active = w THEN Head(s) ELSE u.active
           os == [u.obj EXCEPT ![w] = Null]
           ns == [u.windowName EXCEPT ![w] = Null]
           ds == [u.dead EXCEPT ![w] = FALSE]
<1>1. u \in UIState /\ Live(u) \subseteq Window /\ Sound(u)
  BY LiveWindows DEF Kept
<1>2. Kept(r) /\ Live(r) = Live(u) \ {w}
  BY RemoveKept
<1>3. r = [u EXCEPT !.windows = s, !.children = c, !.active = a,
                    !.obj = os, !.windowName = ns, !.dead = ds]
  BY <1>1, RemoveEffect
<1>4. \A x \in Live(u) \ {w} : os[x] = u.obj[x] /\ ds[x] = u.dead[x]
  BY <1>1 DEF UIState
<1> HIDE DEF s, c, a, os, ns, ds, r
<1>5. /\ r.windows = s /\ r.children = c /\ r.active = a /\ r.obj = os
      /\ r.dead = ds /\ r.fault = "none" /\ r.beforeOverlay = u.beforeOverlay
  BY <1>1, <1>3 DEF UIState
<1> QED
  BY <1>2, <1>4, <1>5 DEF s, c, a, r

-----------------------------------------------------------------------------
(* serverRemoved.                                                           *)

\* t holds windows of s in the order of s.
Ordered(s, t) == \A x, y : Precedes(t, x, y) => Precedes(s, x, y)

\* Of u, the windows that v has are left, in their order and with what they
\* hold; the one on the screen gives way to the one looked at last only when it
\* is closed.
Left(u, v) ==
  /\ Live(v) \subseteq Live(u)
  /\ Ordered(u.windows, v.windows) /\ Ordered(u.children, v.children)
  /\ v.active = IF u.active \in Live(v) THEN u.active ELSE Head(v.windows)
  /\ \A w \in Live(v) : v.obj[w] = u.obj[w]

\* v is u after some windows have been closed one by one.
Shed(u, v) ==
  /\ Left(u, v)
  /\ \A w \in Live(v) : v.dead[w] = u.dead[w]

\* When no window has been closed yet everything is as it was.
LEMMA ShedNothing ==
  ASSUME NEW u, Kept(u), u.fault = "none"
  PROVE  Shed(u, u)
BY DEF Left, Shed, Ordered, Kept, Sound, Focused, Live

\* One more window is closed.  The window on the screen was looked at last.
LEMMA ShedOne ==
  ASSUME NEW u, NEW v, Kept(v), v.fault = "none", Shed(u, v),
         NEW w \in Live(v), w \notin {Status, Overlay}
  PROVE  Shed(u, RemoveWindow(v, w))
<1> DEFINE r == RemoveWindow(v, w)
<1>1. /\ Kept(r) /\ r.fault = "none" /\ Live(r) = Live(v) \ {w}
      /\ r.windows = Erase(v.windows, w)
      /\ r.children = Erase(v.children, w)
      /\ r.active = IF v.active = w THEN Head(r.windows) ELSE v.active
      /\ \A x \in Live(v) \ {w} :
           r.obj[x] = v.obj[x] /\ r.dead[x] = v.dead[x]
  BY RemoveOthers
<1> HIDE DEF r
<1>2. List(v.windows) /\ List(v.children) /\ v.active \in Live(v)
  BY DEF Kept, Sound, Lists, Focused, Live
<1>3. /\ \A x, y : Precedes(r.windows, x, y) => Precedes(v.windows, x, y)
      /\ \A x, y : Precedes(r.children, x, y) => Precedes(v.children, x, y)
  BY <1>1, <1>2, EraseOrder
<1>4. Ordered(u.windows, r.windows) /\ Ordered(u.children, r.children)
  BY <1>3 DEF Left, Shed, Ordered
<1>5. r.active = IF u.active \in Live(r) THEN u.active ELSE Head(r.windows)
  <2>1. CASE v.active = w
    BY <1>1, <2>1 DEF Left, Shed
  <2>2. CASE v.active # w /\ u.active \in Live(v)
    BY <1>1, <1>2, <2>2 DEF Left, Shed
  <2>3. CASE v.active # w /\ u.active \notin Live(v)
    <3>1. v.active = Head(v.windows) /\ v.windows # <<>>
      BY <1>2, <2>3, VisitedHead DEF Left, Shed, Kept, Sound, Lists
    <3>2. Head(r.windows) = Head(v.windows)
      BY <1>1, <1>2, <2>3, <3>1, EraseHead
    <3> QED
      BY <1>1, <2>3, <3>1, <3>2
  <2> QED
    BY <2>1, <2>2, <2>3
<1>6. /\ Live(r) \subseteq Live(u)
      /\ \A x \in Live(r) : r.obj[x] = u.obj[x] /\ r.dead[x] = u.dead[x]
  BY <1>1 DEF Left, Shed
<1> QED
  BY <1>4, <1>5, <1>6 DEF Left, Shed, r

\* The windows that serverRemoved has no reason to close are there.
Spares(u, v, server) ==
  \A w \in Live(u) :
    u.obj[w] = Null \/ u.obj[w].server # server => w \in Live(v)

\* The memory of a deque of at most n windows.
Deques(n) == [lo : Nat, size : Nat, slots : [1..n -> Window]]

\* The states of the loop over the n children of u.
Loops(u, n, server) ==
  {st \in [ui : UIState, deque : Deques(n)] :
     /\ 1 <= st.deque.lo /\ st.deque.lo + st.deque.size <= n + 1
     /\ st.deque.size = Len(st.ui.children)
     /\ Kept(st.ui)
     /\ st.ui.fault = "none" =>
          Shed(u, st.ui) /\ Spares(u, st.ui, server)}

\* Erasing stays inside the memory of the deque.
LEMMA EraseInside ==
  ASSUME NEW n \in Nat, NEW d \in Deques(n), NEW i \in 1..d.size,
         1 <= d.lo, d.lo + d.size <= n + 1
  PROVE  LET e == EraseInPlace(d, i) IN
         /\ e \in Deques(n)
         /\ 1 <= e.lo /\ e.size = d.size - 1
         /\ e.lo + e.size <= n + 1
<1> DEFINE p == d.lo + i - 1
           hi == d.lo + d.size - 1
           back == [j \in DOMAIN d.slots |->
             IF j \in (d.lo + 1)..p THEN d.slots[j - 1] ELSE d.slots[j]]
           forth == [j \in DOMAIN d.slots |->
             IF j \in p..(hi - 1) THEN d.slots[j + 1] ELSE d.slots[j]]
<1>1. /\ d.lo \in Nat /\ d.size \in Nat /\ d.slots \in [1..n -> Window]
      /\ i \in Nat /\ 1 <= i /\ i <= d.size
  BY DEF Deques
<1>2. d.size - 1 \in Nat /\ d.lo + 1 \in Nat
  BY <1>1
<1>3. back \in [1..n -> Window]
  <2>1. \A j \in 1..n : j \in (d.lo + 1)..p => j - 1 \in 1..n
    BY <1>1
  <2> QED
    BY <1>1, <2>1
<1>4. forth \in [1..n -> Window]
  <2>1. \A j \in 1..n : j \in p..(hi - 1) => j + 1 \in 1..n
    BY <1>1
  <2> QED
    BY <1>1, <2>1
<1> HIDE DEF back, forth
<1>5. EraseInPlace(d, i) =
        IF 2 * i <= d.size
        THEN [lo |-> d.lo + 1, size |-> d.size - 1, slots |-> back]
        ELSE [lo |-> d.lo, size |-> d.size - 1, slots |-> forth]
  BY DEF EraseInPlace, back, forth
<1>6. CASE 2 * i <= d.size
  BY <1>1, <1>2, <1>3, <1>5, <1>6 DEF Deques
<1>7. CASE ~(2 * i <= d.size)
  BY <1>1, <1>2, <1>4, <1>5, <1>7 DEF Deques
<1> QED
  BY <1>6, <1>7

\* One turn of the loop closes a window of the server or none.
LEMMA TurnLoops ==
  ASSUME NEW u, NEW n \in Nat, NEW server, NEW st \in Loops(u, n, server),
         NEW i \in 1..n
  PROVE  LoopTurn(st, i, server) \in Loops(u, n, server)
<1> DEFINE v == st.ui
           d == st.deque
           w == d.slots[i]
           r == RemoveWindow(v, w)
           e == EraseInPlace(d, Position(v.children, w))
<1>1. /\ st = [ui |-> v, deque |-> d]
      /\ v \in UIState /\ d \in Deques(n)
      /\ 1 <= d.lo /\ d.lo + d.size <= n + 1 /\ d.size = Len(v.children)
      /\ Kept(v) /\ w \in Window
      /\ v.fault = "none" => Shed(u, v) /\ Spares(u, v, server)
  BY DEF Loops, Deques
<1> HIDE DEF v, d
<1>2. CASE v.fault # "none"
  BY <1>2 DEF LoopTurn, v
<1>3. CASE v.fault = "none" /\ w \notin Live(v)
  <2> DEFINE f == [v EXCEPT !.fault = "freed"]
  <2>1. /\ f \in UIState /\ f.fault = "freed"
        /\ f.windows = v.windows /\ f.children = v.children /\ f.obj = v.obj
        /\ f.windowName = v.windowName /\ f.name = v.name
    BY <1>1 DEF UIState, Fault
  <2> HIDE DEF f
  <2>2. Kept(f)
    <3>1. Sound(f) /\ Recent(f)
      BY <1>1, <2>1 DEF Kept, Sound, Lists, Recent
    <3>2. Named(f)
      BY <1>1, <2>1, SameNamed DEF Kept, Live
    <3> QED
      BY <3>1, <3>2 DEF Kept
  <2>3. LoopTurn(st, i, server) = [ui |-> f, deque |-> d]
    BY <1>1, <1>3 DEF LoopTurn, Faulty, v, d, f
  <2> QED
    BY <1>1, <2>1, <2>2, <2>3 DEF Loops
<1>4. CASE v.fault = "none" /\ w \in Live(v)
           /\ (v.obj[w] = Null \/ v.obj[w].server # server)
  BY <1>4 DEF LoopTurn, v, d
<1>5. CASE v.fault = "none" /\ w \in Live(v)
           /\ ~(v.obj[w] = Null \/ v.obj[w].server # server)
  <2>1. w \notin {Status, Overlay}
    BY <1>1, <1>5 DEF Kept, Sound, Named
  <2>2. /\ Kept(r) /\ r.fault = "none" /\ Live(r) = Live(v) \ {w}
        /\ r.children = Erase(v.children, w)
    BY <1>1, <1>5, <2>1, RemoveOthers
  <2>3. Shed(u, r)
    BY <1>1, <1>5, <2>1, ShedOne
  <2>4. Spares(u, r, server)
    <3> SUFFICES ASSUME NEW x \in Live(u),
                        u.obj[x] = Null \/ u.obj[x].server # server
                 PROVE  x \in Live(r)
      BY DEF Spares
    <3>1. x \in Live(v) /\ v.obj[x] = u.obj[x]
      BY <1>1, <1>5 DEF Spares, Left, Shed
    <3> QED
      BY <1>5, <2>2, <3>1
  <2>5. /\ Position(v.children, w) \in 1..Len(v.children)
        /\ Len(r.children) = Len(v.children) - 1
    <3>1. List(v.children) /\ w \in ToSet(v.children)
      BY <1>1, <1>5 DEF Kept, Sound, Lists, Live
    <3> QED
      BY <2>2, <3>1, EraseElements
  <2>6. /\ e \in Deques(n) /\ 1 <= e.lo /\ e.size = d.size - 1
        /\ e.lo + e.size <= n + 1
    <3> HIDE DEF Position
    <3> QED
      BY <1>1, <2>5, EraseInside
  <2>7. r \in UIState
    BY <2>2, LiveWindows
  <2> HIDE DEF r, e
  <2>8. LoopTurn(st, i, server) = [ui |-> r, deque |-> e]
    BY <1>5 DEF LoopTurn, v, d, r, e
  <2> QED
    BY <1>1, <2>2, <2>3, <2>4, <2>5, <2>6, <2>7, <2>8 DEF Loops
<1> QED
  BY <1>2, <1>3, <1>4, <1>5

\* However many windows the loop closes, and whatever slots it looks at, it
\* ends in such a state.
LEMMA WithoutServerSheds ==
  ASSUME NEW u, Kept(u), u.fault = "none", NEW server
  PROVE  LET v == WithoutServer(u, server) IN
         /\ Kept(v)
         /\ v.fault = "none" => Shed(u, v) /\ Spares(u, v, server)
<1> DEFINE n == Len(u.children)
           S == Loops(u, n, server)
           start == [ui |-> u,
                     deque |-> [lo |-> 1, size |-> n, slots |-> u.children]]
           step == [p \in Nat \X S |->
                      IF p[1] \in 1..n
                      THEN LoopTurn(p[2], n + 1 - p[1], server) ELSE p[2]]
           Turns(f) == f = [k \in 0..n |->
                              IF k = 0 THEN start
                              ELSE LoopTurn(f[k - 1], n + 1 - k, server)]
           turn == CHOOSE f : Turns(f)
<1>1. u \in UIState /\ u.children \in Seq(Window)
      /\ DOMAIN u.children = 1..n /\ n \in Nat
  BY LiveWindows, LenProperties DEF UIState
<1> HIDE DEF n
<1>2. start \in S
  <2>1. u.children \in [1..n -> Window]
    BY <1>1, LenProperties DEF n
  <2>2. [lo |-> 1, size |-> n, slots |-> u.children] \in Deques(n)
    BY <1>1, <2>1 DEF Deques
  <2>3. Shed(u, u) /\ Spares(u, u, server)
    BY ShedNothing DEF Spares
  <2> QED
    BY <1>1, <2>2, <2>3 DEF Loops, n
<1> HIDE DEF start
<1>3. \A st \in S : \A k \in 1..n : LoopTurn(st, n + 1 - k, server) \in S
  <2> SUFFICES ASSUME NEW st \in S, NEW k \in 1..n
               PROVE  LoopTurn(st, n + 1 - k, server) \in S
    OBVIOUS
  <2>1. n + 1 - k \in 1..n
    BY <1>1
  <2> QED
    BY <1>1, <2>1, TurnLoops
<1> HIDE DEF S
<1>4. step \in [Nat \X S -> S]
  BY <1>3
<1>5. PICK f : Goes(f, S, start, step, n)
  <2> HIDE DEF step, Turns, turn
  <2> QED
    BY <1>1, <1>2, <1>4, Iterates
<1>6. \A k \in 1..n : f[k] = LoopTurn(f[k - 1], n + 1 - k, server)
  <2> SUFFICES ASSUME NEW k \in 1..n
               PROVE  f[k] = LoopTurn(f[k - 1], n + 1 - k, server)
    OBVIOUS
  <2>1. k - 1 \in 0..n /\ k \in Nat
    BY <1>1
  <2>2. <<k, f[k - 1]>> \in Nat \X S
    BY <1>5, <2>1 DEF Goes
  <2> QED
    BY <1>5, <2>2 DEF Goes
<1>7. Turns(f)
  <2>1. \A k \in 0..n : f[k] = IF k = 0 THEN start
                               ELSE LoopTurn(f[k - 1], n + 1 - k, server)
    BY <1>1, <1>5, <1>6 DEF Goes
  <2> QED
    BY <1>5, <2>1 DEF Goes
<1>8. Turns(turn)
  <2> HIDE DEF Turns
  <2> QED
    BY <1>7
<1> HIDE DEF turn
<1>9. turn[0] = start
      /\ \A k \in 1..n : turn[k] = LoopTurn(turn[k - 1], n + 1 - k, server)
  BY <1>1, <1>8
<1>10. turn[n] \in S
  <2> DEFINE T == {k \in Nat : k \in 0..n /\ turn[k] \notin S}
  <2> SUFFICES ASSUME T # {}
               PROVE  FALSE
    BY <1>1
  <2>1. PICK k \in T : \A j \in T : k <= j
    <3>1. T \subseteq Nat
      OBVIOUS
    <3> HIDE DEF T
    <3> QED
      BY <3>1, LeastNatural
  <2>2. k # 0
    BY <1>2, <1>9, <2>1
  <2>3. k \in 1..n /\ k - 1 \in 0..n /\ k - 1 \in Nat /\ k - 1 < k
    BY <1>1, <2>1, <2>2
  <2>4. k - 1 \notin T
    <3> HIDE DEF T
    <3>1. k \in Nat
      BY <1>1, <2>3
    <3> QED
      BY <2>1, <2>3, <3>1
  <2>5. turn[k - 1] \in S
    BY <2>3, <2>4
  <2> QED
    BY <1>3, <1>9, <2>1, <2>3, <2>5
<1>11. WithoutServer(u, server) = turn[n].ui
  BY DEF WithoutServer, turn, start, n
<1> QED
  BY <1>10, <1>11 DEF S, Loops

-----------------------------------------------------------------------------
(* The handlers keep the invariant.                                         *)

\* A step that joins nothing keeps the channels we are in.
LEMMA JoinedStays ==
  ASSUME Joined(ui), joined' \subseteq joined,
         Running' => Running /\ \A o \in joined' : Open(ui, o) => Open(ui', o)
  PROVE  Joined(ui)'
BY DEF Joined, Running

\* The keys.  /wc closes no living window of a channel.
LEMMA PersonInv ==
  ASSUME CInv, Person
  PROVE  CInv'
<1>1. Running /\ joined' = joined /\ Kept(ui) /\ Joined(ui)
  BY DEF Person, KeyOverlay, KeyNext, KeyPrevious, KeyIndex, CommandMove, OnKey,
         CommandWindowClose, OpenAndFocus, CInv
<1>2. Kept(ui')
  <2>1. Next
    BY DEF Person, Next
  <2> QED
    BY <1>1, <2>1, StepKept
<1>3. \A o \in joined : Open(ui, o) => Open(ui', o)
  <2> SUFFICES ASSUME NEW o \in joined, Open(ui, o)
               PROVE  Open(ui', o)
    OBVIOUS
  <2>1. CASE \/ KeyOverlay \/ KeyNext \/ KeyPrevious
             \/ \E n \in 0..Len(ui.children) : KeyIndex(n) \/ CommandMove(n)
    BY <1>1, <2>1, KeyKeeps, OpenKeeps
  <2>2. CASE CommandWindowClose
    <3> DEFINE d == Dismiss(ui)
    <3>1. Kept(d) /\ Keeps(ui, d)
      BY <1>1, ToggleKept, DismissKeeps, LiveWindows DEF Running
    <3>2. Open(d, o)
      BY <3>1, OpenKeeps
    <3> HIDE DEF d
    <3>3. ui' = IF d.fault = "none"
                THEN IF CanRemove(d, d.active) THEN RemoveWindow(d, d.active)
                     ELSE d
                ELSE d
      BY <2>2 DEF CommandWindowClose, OnKey, d
    <3>4. CASE d.fault = "none" /\ CanRemove(d, d.active)
      <4> DEFINE w == d.active
                 r == RemoveWindow(d, w)
      <4>1. w \in Live(d) /\ w \notin {Status, Overlay}
        BY <3>1, <3>4 DEF CanRemove, Kept, Sound, Focused, Live
      <4>2. /\ Live(r) = Live(d) \ {w}
            /\ \A x \in Live(d) \ {w} :
                 r.obj[x] = d.obj[x] /\ r.dead[x] = d.dead[x]
        BY <3>1, <3>4, <4>1, RemoveOthers
      <4>3. ~(For(d, w, o) /\ ~d.dead[w])
        BY <1>1, <3>4 DEF CanRemove, IsChannel, For, SameName, Joined,
                               IsChannelObject
      <4> HIDE DEF r, w
      <4>4. Open(r, o)
        BY <3>2, <4>2, <4>3, OpenStays DEF Conversations
      <4> QED
        BY <3>3, <3>4, <4>4 DEF r, w
    <3>5. CASE ~(d.fault = "none" /\ CanRemove(d, d.active))
      BY <3>2, <3>3, <3>5
    <3> QED
      BY <3>4, <3>5
  <2>3. ASSUME NEW p \in Object, OpenAndFocus(p)
        PROVE  Open(ui', o)
    <3>1. PICK fresh \in Allocation(ui, p) :
            ui' = Focus(Ensure(ui, p, fresh), Find(Ensure(ui, p, fresh), p))
      BY <2>3 DEF OpenAndFocus
    <3> DEFINE u == Ensure(ui, p, fresh)
    <3>2. /\ Kept(u) /\ u.dead = ui.dead
          /\ \A w \in Live(ui) : w \in Live(u) /\ u.obj[w] = ui.obj[w]
      BY <1>1, EnsureKept DEF Running
    <3> HIDE DEF u
    <3>3. Open(u, o)
      BY <3>2, OpenStays DEF Conversations
    <3>4. Keeps(u, ui')
      BY <3>1, <3>2, FocusKeeps, LiveWindows DEF u
    <3> QED
      BY <3>3, <3>4, OpenKeeps
  <2> QED
    BY <2>1, <2>2, <2>3 DEF Person
<1>4. Joined(ui)'
  BY <1>1, <1>3, JoinedStays
<1> QED
  BY <1>2, <1>4 DEF CInv

\* JoinEvent of ourselves opens the window of the channel, or brings it back
\* to life.
LEMMA SelfJoinInv ==
  ASSUME CInv, NEW o \in Object, SelfJoin(o)
  PROVE  CInv'
<1>1. /\ Running /\ Joinable(o) /\ joined' = joined \cup {o}
      /\ Kept(ui) /\ Joined(ui)
  BY DEF SelfJoin, CInv
<1>2. PICK fresh \in Allocation(ui, o) :
        LET u == Ensure(ui, o, fresh)
            w == Find(u, o)
            focused == Focus(Revive(u, w), w)
        IN ui' = IF focused.fault = "none" THEN UpdateStatusbar(focused)
                 ELSE focused
  BY DEF SelfJoin
<1> DEFINE u == Ensure(ui, o, fresh)
           w == Find(u, o)
           r == Resurrect(u, w)
           f == Focus(r, w)
<1>3. /\ Kept(u) /\ u.fault = "none" /\ u.dead = ui.dead
      /\ w \in Live(u) \ {Overlay} /\ For(u, w, o)
      /\ \A x \in Live(ui) : x \in Live(u) /\ u.obj[x] = ui.obj[x]
  BY <1>1, EnsureKept, HoldsFor DEF Running, Joinable
<1>4. ui' = IF f.fault = "none" THEN UpdateStatusbar(f) ELSE f
  BY <1>2 DEF Revive
<1> HIDE DEF u, w
<1>5. w \in Window /\ w # Status /\ Live(u) \subseteq Window
  <2>1. u.obj[Status] = Null
    BY <1>3 DEF Kept, Named
  <2> QED
    BY <1>3, <2>1, LiveWindows DEF For
<1>6. /\ Kept(r) /\ r.fault = "none" /\ r.obj = u.obj /\ Live(r) = Live(u)
      /\ \A x \in Window : x # w => r.dead[x] = u.dead[x]
      /\ r.dead[w] = FALSE
  BY <1>3, <1>5, FlagMarks
<1> HIDE DEF r
<1>7. Kept(f) /\ Keeps(r, f)
  BY <1>3, <1>5, <1>6, FocusKept, FocusKeeps, LiveWindows
<1> HIDE DEF f
<1>8. Kept(ui') /\ Keeps(r, ui')
  <2>1. Kept(UpdateStatusbar(f)) /\ Keeps(f, UpdateStatusbar(f))
    BY <1>7, RefreshKept, RefreshKeeps, LiveWindows
  <2> QED
    BY <1>4, <1>7, <2>1 DEF Keeps
<1>9. Open(ui', o)
  <2>1. Open(r, o)
    BY <1>3, <1>5, <1>6 DEF Open, Conversations, For, SameName
  <2> QED
    BY <1>8, <2>1, OpenKeeps
<1>10. ASSUME NEW p \in joined
       PROVE  Open(ui', p)
  <2>1. Open(ui, p) /\ ~SameName(o, p)
    BY <1>1 DEF Joined, Joinable, Running, SameName
  <2>2. Open(u, p)
    BY <1>3, <2>1, OpenStays DEF Conversations
  <2>3. ~For(u, w, p)
    BY <1>3, <2>1, OtherWindow
  <2>4. Open(r, p)
    BY <1>5, <1>6, <2>2, <2>3, OpenStays DEF Conversations
  <2> QED
    BY <1>8, <2>4, OpenKeeps
<1>11. Joined(ui)'
  <2>1. \A p, q \in joined' : SameName(p, q) => p = q
    BY <1>1 DEF Joined, Joinable, SameName
  <2>2. joined' \subseteq Object /\ \A p \in joined' : IsChannelObject(p)
    BY <1>1 DEF Joined, Joinable
  <2> QED
    BY <1>1, <1>9, <1>10, <2>1, <2>2 DEF Joined
<1> QED
  BY <1>8, <1>11 DEF CInv

\* What killing the window of o does to the windows of the other channels.
LEMMA KillOthers ==
  ASSUME NEW u, Kept(u), u.fault = "none",
         NEW o \in Object, IsChannelObject(o), Find(u, o) # Null
  PROVE  LET w == Find(u, o)
             k == Kill(u, w)
         IN /\ Kept(k) /\ k.fault = "none" /\ k.active = u.active
            /\ k.windows = u.windows /\ k.children = u.children
            /\ k.obj = u.obj /\ Live(k) = Live(u)
            /\ w \in Live(u) /\ For(u, w, o) /\ w \notin {Status, Overlay}
            /\ \A p : ~SameName(o, p) /\ Open(u, p) =>
                 Open(k, p) /\ ~For(k, w, p)
<1> DEFINE w == Find(u, o)
           k == Kill(u, w)
<1>1. w \in Live(u) /\ For(u, w, o) /\ w # Overlay
  BY FindHolds, HoldsFor DEF Kept
<1> HIDE DEF w
<1>2. w \in Window /\ w # Status /\ Live(u) \subseteq Window
  <2>1. u.obj[Status] = Null
    BY DEF Kept, Named
  <2> QED
    BY <1>1, <2>1, LiveWindows DEF For
<1>3. /\ Kept(k) /\ k.fault = "none" /\ k.active = u.active
      /\ k.windows = u.windows /\ k.children = u.children
      /\ k.obj = u.obj /\ Live(k) = Live(u)
      /\ \A x \in Window : x # w => k.dead[x] = u.dead[x]
  BY <1>2, FlagMarks
<1> HIDE DEF k
<1>4. ASSUME NEW p, ~SameName(o, p), Open(u, p)
      PROVE  Open(k, p) /\ ~For(k, w, p)
  <2>1. ~For(u, w, p)
    BY <1>1, <1>4, OtherWindow
  <2>2. Open(k, p)
    BY <1>2, <1>3, <1>4, <2>1, OpenStays DEF Conversations
  <2> QED
    BY <1>3, <2>1, <2>2 DEF For
<1> QED
  BY <1>1, <1>2, <1>3, <1>4 DEF w, k

\* The status bar is redrawn or the program stops there.
LEMMA Refreshed ==
  ASSUME NEW u, Kept(u), NEW v, v \in {u, UpdateStatusbar(u)}
  PROVE  /\ Kept(v) /\ Keeps(u, v)
         /\ v.fault = "none" => v = u
<1>1. Kept(UpdateStatusbar(u)) /\ Keeps(u, UpdateStatusbar(u)) /\ Keeps(u, u)
  BY RefreshKept, RefreshKeeps, LiveWindows DEF Keeps
<1>2. UpdateStatusbar(u).fault = "none" => UpdateStatusbar(u) = u
  <2>1. [u EXCEPT !.fault = "freed"].fault = "freed"
    BY LiveWindows DEF UIState
  <2> QED
    BY <2>1 DEF UpdateStatusbar, Faulty
<1> QED
  BY <1>1, <1>2

\* We leave one channel: its window may be killed and closed, every other
\* channel keeps its own.
LEMMA LeaveInv ==
  ASSUME CInv, Running, NEW o \in joined, joined' = joined \ {o},
         NEW v, Kept(v),
         v.fault = "none" => \A p : ~SameName(o, p) /\ Open(ui, p) => Open(v, p),
         ui' \in {v, UpdateStatusbar(v)}
  PROVE  CInv'
<1>1. Kept(ui') /\ Keeps(v, ui') /\ (Running' => ui' = v)
  BY Refreshed DEF Running
<1>2. \A p \in joined' : ~SameName(o, p)
  BY DEF CInv, Joined
<1>3. Joined(ui)'
  BY <1>1, <1>2, JoinedStays DEF CInv, Running
<1> QED
  BY <1>1, <1>3 DEF CInv

\* KickEvent of ourselves.
LEMMA SelfKickInv ==
  ASSUME CInv, NEW o \in Object, SelfKick(o)
  PROVE  CInv' /\ (Running' => Left(ui, ui'))
<1> DEFINE w == Find(ui, o)
           k == Kill(ui, w)
<1>1. /\ Running /\ o \in joined /\ joined' = joined \ {o} /\ Kept(ui)
      /\ ui' = IF w = Null THEN ui
               ELSE IF w = ui.active THEN UpdateStatusbar(k) ELSE k
  BY DEF SelfKick, CInv
<1>2. CASE w = Null
  <2>1. CInv'
    BY <1>1, <1>2, LeaveInv
  <2> QED
    BY <1>1, <1>2, <2>1, ShedNothing DEF Shed, Running
<1>3. CASE w # Null
  <2>1. /\ Kept(k) /\ k.fault = "none" /\ k.active = ui.active
        /\ k.windows = ui.windows /\ k.children = ui.children
        /\ k.obj = ui.obj /\ Live(k) = Live(ui)
        /\ \A p : ~SameName(o, p) /\ Open(ui, p) => Open(k, p)
    BY <1>1, <1>3, KillOthers DEF Running, CInv, Joined
  <2> HIDE DEF w, k
  <2>2. ui' \in {k, UpdateStatusbar(k)}
    BY <1>1, <1>3
  <2>3. CInv'
    BY <1>1, <2>1, <2>2, LeaveInv
  <2>4. Running' => ui' = k
    BY <2>1, <2>2, Refreshed DEF Running
  <2>5. Left(ui, k)
    <3>1. ui.active \in Live(ui)
      BY <1>1 DEF Kept, Sound, Focused, Live, Running
    <3> QED
      BY <2>1, <3>1 DEF Left, Ordered
  <2> QED
    BY <2>3, <2>4, <2>5
<1> QED
  BY <1>2, <1>3

\* PartEvent of ourselves, with the window closed or not.
LEMMA SelfPartInv ==
  ASSUME CInv, NEW o \in Object, NEW close \in BOOLEAN, SelfPart(o, close)
  PROVE  CInv' /\ (Running' => Left(ui, ui'))
<1> DEFINE w == Find(ui, o)
           k == Kill(ui, w)
           v == IF close THEN RemoveWindow(k, w) ELSE k
<1>1. /\ Running /\ o \in joined /\ joined' = joined \ {o} /\ Kept(ui)
      /\ ui' = IF w = Null THEN ui
               ELSE IF v.fault = "none" THEN UpdateStatusbar(v) ELSE v
  BY DEF SelfPart, CInv
<1>2. CASE w = Null
  <2>1. CInv'
    BY <1>1, <1>2, LeaveInv
  <2> QED
    BY <1>1, <1>2, <2>1, ShedNothing DEF Shed, Running
<1>3. CASE w # Null
  <2>1. /\ Kept(k) /\ k.fault = "none" /\ k.active = ui.active
        /\ k.windows = ui.windows /\ k.children = ui.children
        /\ k.obj = ui.obj /\ Live(k) = Live(ui)
        /\ w \in Live(ui) /\ w \notin {Status, Overlay}
        /\ \A p : ~SameName(o, p) /\ Open(ui, p) => Open(k, p) /\ ~For(k, w, p)
    BY <1>1, <1>3, KillOthers DEF Running, CInv, Joined
  <2> HIDE DEF w, k
  <2>2. /\ Kept(v) /\ v.fault = "none" /\ Shed(k, v)
        /\ \A x \in Live(k) \ {w} :
             /\ x \in Live(v)
             /\ v.obj[x] = k.obj[x] /\ v.dead[x] = k.dead[x]
    <3>1. CASE close
      <4>1. Shed(k, RemoveWindow(k, w))
        BY <2>1, ShedNothing, ShedOne
      <4> QED
        BY <2>1, <3>1, <4>1, RemoveOthers
    <3>2. CASE ~close
      BY <2>1, <3>2, ShedNothing
    <3> QED
      BY <3>1, <3>2
  <2> HIDE DEF v
  <2>3. ASSUME NEW p, ~SameName(o, p), Open(ui, p)
        PROVE  Open(v, p)
    <3>1. Open(k, p) /\ ~For(k, w, p)
      BY <2>1, <2>3
    <3> QED
      BY <2>2, <3>1, OpenStays DEF Conversations
  <2>4. ui' \in {v, UpdateStatusbar(v)}
    BY <1>1, <1>3
  <2>5. CInv'
    BY <1>1, <2>2, <2>3, <2>4, LeaveInv
  <2>6. Running' => ui' = v
    BY <2>2, <2>4, Refreshed DEF Running
  <2>7. Left(ui, v)
    BY <2>1, <2>2 DEF Shed, Left
  <2> QED
    BY <2>5, <2>6, <2>7
<1> QED
  BY <1>2, <1>3

\* /disconnect: the windows of the other servers stay, so every channel we are
\* still in keeps its own.
LEMMA ServerRemovedInv ==
  ASSUME CInv, NEW server \in Server, ServerRemoved(server)
  PROVE  CInv' /\ (Running' => Left(Dismiss(ui), ui'))
<1> DEFINE d == Dismiss(ui)
           v == WithoutServer(d, server)
<1>1. /\ Running /\ joined' = {o \in joined : o.server # server}
      /\ ui' = IF d.fault = "none" THEN v ELSE d
      /\ Kept(ui) /\ Joined(ui)
  BY DEF ServerRemoved, OnKey, CInv
<1>2. Kept(d) /\ Keeps(ui, d)
  BY <1>1, ToggleKept, DismissKeeps, LiveWindows DEF Running
<1> HIDE DEF d
<1>3. d.fault = "none" =>
        /\ Kept(v)
        /\ v.fault = "none" => Shed(d, v) /\ Spares(d, v, server)
  BY <1>2, WithoutServerSheds
<1> HIDE DEF v
<1>4. Kept(ui') /\ (Running' => Shed(d, ui') /\ Spares(d, ui', server))
  BY <1>1, <1>2, <1>3 DEF Running
<1>5. ASSUME Running', NEW o \in joined', Open(ui, o)
      PROVE  Open(ui', o)
  <2>1. Open(d, o) /\ o.server # server
    BY <1>1, <1>2, <1>5, OpenKeeps
  <2>2. \A w \in Conversations(d) : For(d, w, o) =>
          w \in Live(ui') /\ ui'.obj[w] = d.obj[w] /\ ui'.dead[w] = d.dead[w]
    BY <1>4, <1>5, <2>1 DEF Spares, Shed, Left, For, SameName, Conversations
  <2> QED
    BY <2>1, <2>2, OpenStays
<1>6. Joined(ui)'
  BY <1>1, <1>5, JoinedStays
<1> QED
  BY <1>4, <1>6 DEF CInv, Shed, d

\* A message opens the window of its conversation when there is none.
LEMMA MessageInv ==
  ASSUME CInv, NEW o \in Object, Message(o)
  PROVE  CInv'
<1>1. Running /\ joined' = joined /\ Kept(ui) /\ Joined(ui)
  BY DEF Message, OpenWindow, CInv
<1>2. PICK fresh \in Allocation(ui, o) : ui' = Ensure(ui, o, fresh)
  BY DEF Message, OpenWindow
<1>3. /\ Kept(ui') /\ ui'.dead = ui.dead
      /\ \A w \in Live(ui) : w \in Live(ui') /\ ui'.obj[w] = ui.obj[w]
  BY <1>1, <1>2, EnsureKept DEF Running
<1>4. \A p : Open(ui, p) => Open(ui', p)
  BY <1>3, OpenStays DEF Conversations
<1> QED
  BY <1>1, <1>3, <1>4, JoinedStays DEF CInv

\* The marks of users' windows are no concern of the channels.
LEMMA MarksInv ==
  ASSUME CInv, Running, joined' = joined,
         NEW f \in [Window -> BOOLEAN], NEW ws,
         \A w \in Conversations(ui) :
           IsChannel(ui, w) /\ ~ui.dead[w] => ~f[w],
         ui' = RedrawFor([ui EXCEPT !.dead = f], ws)
  PROVE  CInv'
<1> DEFINE v == [ui EXCEPT !.dead = f]
<1>1. Kept(ui) /\ Joined(ui)
  BY DEF CInv
<1>2. /\ Kept(v) /\ v.dead = f /\ v.obj = ui.obj /\ Live(v) = Live(ui)
  BY <1>1, MarksKept
<1> HIDE DEF v
<1>3. ui' \in {v, UpdateStatusbar(v)}
  BY DEF RedrawFor, v
<1>4. Kept(ui') /\ Keeps(v, ui')
  BY <1>2, <1>3, Refreshed
<1>5. ASSUME NEW o \in joined, Open(ui, o)
      PROVE  Open(ui', o)
  <2>1. \A w \in Conversations(ui) : For(ui, w, o) => IsChannel(ui, w)
    BY <1>1 DEF Joined, IsChannelObject, IsChannel, For, SameName
  <2>2. Open(v, o)
    BY <1>2, <1>5, <2>1, OpenStays DEF Conversations
  <2> QED
    BY <1>4, <2>2, OpenKeeps
<1> QED
  BY <1>1, <1>4, <1>5, JoinedStays DEF CInv

\* QuitEvent kills windows of users only.
LEMMA UserQuitInv ==
  ASSUME CInv, NEW who \in Object, NEW rooms, UserQuit(who, rooms)
  PROVE  CInv'
<1> DEFINE gone == {w \in WindowsForUser(ui, who, rooms) : ui.obj[w] = who}
           f == [w \in Window |-> ui.dead[w] \/ w \in gone]
<1>1. /\ Running /\ joined' = joined /\ ~IsChannelObject(who)
      /\ ui' = RedrawFor([ui EXCEPT !.dead = f], gone)
      /\ ui \in UIState /\ Live(ui) \subseteq Window
  BY LiveWindows DEF UserQuit, CInv, UIState
<1>2. f \in [Window -> BOOLEAN]
  OBVIOUS
<1>3. ASSUME NEW w \in Conversations(ui), IsChannel(ui, w), ~ui.dead[w]
      PROVE  ~f[w]
  <2>1. w \in Window /\ w \notin gone
    BY <1>1, <1>3 DEF Conversations, IsChannel, IsChannelObject
  <2> HIDE DEF gone
  <2>2. f[w] <=> (ui.dead[w] \/ w \in gone)
    BY <2>1
  <2> QED
    BY <1>3, <2>1, <2>2
<1> HIDE DEF f, gone
<1> QED
  BY <1>1, <1>2, <1>3, MarksInv

\* UserAppearedEvent kills nothing.
LEMMA UserAppearedInv ==
  ASSUME CInv, NEW who \in Object, NEW rooms, UserAppeared(who, rooms)
  PROVE  CInv'
<1> DEFINE here == WindowsForUser(ui, who, rooms)
           f == [w \in Window |-> ui.dead[w] /\ w \notin here]
<1>1. /\ Running /\ joined' = joined
      /\ ui' = RedrawFor([ui EXCEPT !.dead = f], here)
      /\ ui \in UIState /\ Live(ui) \subseteq Window
  BY LiveWindows DEF UserAppeared, CInv, UIState
<1> HIDE DEF here
<1>2. f \in [Window -> BOOLEAN]
  OBVIOUS
<1>3. ASSUME NEW w \in Conversations(ui), IsChannel(ui, w), ~ui.dead[w]
      PROVE  ~f[w]
  <2>1. w \in Window
    BY <1>1 DEF Conversations
  <2>2. f[w] <=> (ui.dead[w] /\ w \notin here)
    BY <2>1
  <2> QED
    BY <1>3, <2>2
<1> HIDE DEF f
<1> QED
  BY <1>1, <1>2, <1>3, MarksInv

\* NickEvent is no concern of the channels either.
LEMMA NickChangeInv ==
  ASSUME CInv, NEW who \in Object, NEW n \in Nick, NickChange(who, n)
  PROVE  CInv'
<1>1. /\ Running /\ joined' = joined /\ Kept(ui) /\ Rename(who, n)
      /\ ui' = [ui EXCEPT !.name[who] = n]
  BY DEF NickChange, Rename, CInv
<1>2. Kept(ui')
  BY <1>1, StepKept DEF Next
<1>3. ui'.children = ui.children /\ ui'.obj = ui.obj /\ ui'.dead = ui.dead
  BY <1>1, RenameEffect, LiveWindows
<1>4. \A o : Open(ui, o) => Open(ui', o)
  BY <1>3 DEF Open, Conversations, Live, For, SameName
<1> QED
  BY <1>1, <1>2, <1>4, JoinedStays DEF CInv

\* ServerStatusEvent changes no window.
LEMMA ServerStatusInv ==
  ASSUME CInv, ServerStatus
  PROVE  CInv'
<1>1. Running /\ joined' = joined /\ ui' = UpdateStatusbar(ui) /\ Kept(ui)
  BY DEF ServerStatus, RefreshStatusbar, CInv
<1>2. Kept(ui') /\ Keeps(ui, ui')
  BY <1>1, Refreshed
<1>3. \A o : Open(ui, o) => Open(ui', o)
  BY <1>2, OpenKeeps
<1> QED
  BY <1>1, <1>2, <1>3, JoinedStays DEF CInv

\* Every handler and every key keeps the invariant.
LEMMA ClientStep == CInv /\ [ClientNext]_vars => CInv'
<1>1. CASE UNCHANGED vars
  BY <1>1 DEF CInv, Kept, Sound, Recent, Named, WindowsNamed, Joined, Open,
              Conversations, Live, For, vars
<1>2. ASSUME CInv, ClientNext
      PROVE  CInv'
  <2>1. CASE Person
    BY <1>2, <2>1, PersonInv
  <2>2. ASSUME NEW o \in Object, SelfJoin(o) \/ SelfKick(o) \/ Message(o)
        PROVE  CInv'
    BY <1>2, <2>2, SelfJoinInv, SelfKickInv, MessageInv
  <2>3. ASSUME NEW o \in Object, NEW close \in BOOLEAN, SelfPart(o, close)
        PROVE  CInv'
    BY <1>2, <2>3, SelfPartInv
  <2>4. ASSUME NEW o \in Object, NEW rooms,
               UserQuit(o, rooms) \/ UserAppeared(o, rooms)
        PROVE  CInv'
    BY <1>2, <2>4, UserQuitInv, UserAppearedInv
  <2>5. CASE ServerStatus
    BY <1>2, <2>5, ServerStatusInv
  <2>6. ASSUME NEW server \in Server, ServerRemoved(server)
        PROVE  CInv'
    BY <1>2, <2>6, ServerRemovedInv
  <2>7. ASSUME NEW o \in Object, NEW n \in Nick, NickChange(o, n)
        PROVE  CInv'
    BY <1>2, <2>7, NickChangeInv
  <2> QED
    BY <1>2, <2>1, <2>2, <2>3, <2>4, <2>5, <2>6, <2>7 DEF ClientNext, Event
<1> QED
  BY <1>1, <1>2

\* The invariant holds before anything is joined.
LEMMA ClientStart == ClientInit => CInv
BY InitKept DEF ClientInit, CInv, Joined

-----------------------------------------------------------------------------
(* The theorems.                                                            *)

\* Whatever the servers send and whatever keys are pressed, in any order.
THEOREM ClientKept == ClientSpec => []CInv
<1> QED
  BY ClientStart, ClientStep, PTL DEF ClientSpec

\* Under the handlers too the recency list and the children never come apart.
THEOREM ClientListsAgree == ClientSpec => []SameWindows
<1>1. CInv => SameWindows
  BY DEF CInv, Kept, Sound, Lists, List, SameWindows, Live
<1> QED
  BY <1>1, ClientKept, PTL

\* A channel we are in has a window that is not dead, however often it was
\* joined, left, killed and closed, and however many servers were removed.
THEOREM JoinedOpenAlways == ClientSpec => []JoinedOpen
<1>1. CInv => JoinedOpen
  BY DEF CInv, Joined, Open, For, SameName, JoinedOpen, Running
<1> QED
  BY <1>1, ClientKept, PTL

\* What Left says is what FocusFollowsHistory asks for.
LEMMA LeftFollows ==
  ASSUME NEW u, Kept(u), Kept(ui'), Left(u, ui')
  PROVE  /\ LeftOf(u.windows, ui'.windows)
         /\ LeftOf(u.children, ui'.children)
<1>1. ASSUME NEW s, List(s), NEW t, List(t), Ordered(s, t),
             NEW i \in DOMAIN t, NEW j \in DOMAIN t, i < j
      PROVE  Position(s, t[i]) < Position(s, t[j])
  <2>1. Precedes(s, t[i], t[j])
    BY <1>1 DEF Ordered, Precedes
  <2>2. PICK k, l \in DOMAIN s : k < l /\ s[k] = t[i] /\ s[l] = t[j]
    BY <2>1 DEF Precedes
  <2>3. DOMAIN s = 1..Len(s)
    BY <1>1, LenProperties DEF List
  <2>4. Position(s, s[k]) = k /\ Position(s, s[l]) = l
    BY <1>1, <2>3, PositionIs
  <2> QED
    BY <2>2, <2>4
<1>2. /\ List(u.windows) /\ List(u.children)
      /\ ToSet(u.windows) = Live(u) /\ ToSet(u.children) = Live(u)
      /\ List(ui'.windows) /\ List(ui'.children)
      /\ ToSet(ui'.windows) = Live(ui') /\ ToSet(ui'.children) = Live(ui')
  BY DEF Kept, Sound, Lists, Live
<1> HIDE DEF Position
<1> QED
  BY <1>1, <1>2 DEF Left, LeftOf

\* However many windows are closed when a channel or a server is left, the
\* person is taken to the window looked at last of those that stay, and their
\* order does not change.
THEOREM FocusFollowsAlways == ClientSpec => FocusFollowsHistory
<1> DEFINE u == IF connected' = connected THEN ui ELSE Dismiss(ui)
           Follows == Leaving /\ Running' =>
                        /\ ui'.active = IF u.active \in Live(ui') THEN u.active
                                        ELSE Head(ui'.windows)
                        /\ LeftOf(u.windows, ui'.windows)
                        /\ LeftOf(u.children, ui'.children)
<1>1. CInv /\ [ClientNext]_vars => [Follows]_vars
  <2> SUFFICES ASSUME CInv, ClientNext, Leaving, Running'
               PROVE  /\ ui'.active = IF u.active \in Live(ui') THEN u.active
                                      ELSE Head(ui'.windows)
                      /\ LeftOf(u.windows, ui'.windows)
                      /\ LeftOf(u.children, ui'.children)
    OBVIOUS
  <2>1. CInv'
    BY ClientStep
  <2>2. Left(u, ui') /\ Kept(u)
    <3>1. ASSUME NEW o \in Object, SelfKick(o)
          PROVE  Left(u, ui') /\ Kept(u)
      BY <3>1, SelfKickInv DEF SelfKick, CInv
    <3>2. ASSUME NEW o \in Object, NEW close \in BOOLEAN, SelfPart(o, close)
          PROVE  Left(u, ui') /\ Kept(u)
      BY <3>2, SelfPartInv DEF SelfPart, CInv
    <3>3. ASSUME NEW server \in Server, ServerRemoved(server)
          PROVE  Left(u, ui') /\ Kept(u)
      <4>1. connected' # connected /\ Running
        BY <3>3 DEF ServerRemoved, OnKey
      <4>2. Kept(Dismiss(ui))
        BY <4>1, ToggleKept DEF CInv, Running
      <4> QED
        BY <3>3, <4>1, <4>2, ServerRemovedInv
    <3>4. ASSUME NEW o \in Object, SelfJoin(o)
          PROVE  FALSE
      <4>1. o \in joined' /\ o \notin joined
        BY <3>4 DEF SelfJoin, Joinable, SameName
      <4> QED
        BY <4>1 DEF Leaving
    <3>5. ASSUME UNCHANGED <<connected, joined>>
          PROVE  FALSE
      BY <3>5 DEF Leaving
    <3> QED
      BY <3>1, <3>2, <3>3, <3>4, <3>5
      DEF ClientNext, Event, Person, Message, UserQuit, UserAppeared,
          NickChange, ServerStatus
  <2> QED
    BY <2>1, <2>2, LeftFollows DEF CInv, Left
<1>2. [][Follows]_vars => FocusFollowsHistory
  BY DEF FocusFollowsHistory
<1> QED
  BY <1>1, <1>2, ClientKept, PTL DEF ClientSpec
=============================================================================
