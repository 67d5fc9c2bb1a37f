--------------------------- MODULE InterfaceProofs ---------------------------
(***************************************************************************)
(* Proofs about Interface, for any number of windows and conversations.     *)
(***************************************************************************)
EXTENDS Interface, ListFacts

\* Lists without repetitions, as the interface keeps them.
List(s) == s \in Seq(Window) /\ IsInjective(s)

\* In s, v stands somewhere in front of w.
Precedes(s, v, w) ==
  \E i, j \in DOMAIN s : i < j /\ s[i] = v /\ s[j] = w

-----------------------------------------------------------------------------
(* Facts about lists.                                                       *)

\* std::find finds a window that is in the list.
LEMMA PositionFound ==
  ASSUME NEW s, List(s), NEW w \in ToSet(s)
  PROVE  Position(s, w) \in 1..Len(s) /\ s[Position(s, w)] = w
<1>1. PICK i \in DOMAIN s : s[i] = w
  BY DEF ToSet
<1>2. DOMAIN s = 1..Len(s) /\ Len(s) \in Nat
  BY LenProperties DEF List
<1>3. \A j \in 1..(i - 1) : s[j] # w
  BY <1>1, <1>2 DEF List, IsInjective
<1> QED
  BY <1>1, <1>2, <1>3 DEF Position

\* In a list, a window has one position.
LEMMA PositionIs ==
  ASSUME NEW s, List(s), NEW i \in 1..Len(s)
  PROVE  Position(s, s[i]) = i
<1>1. DOMAIN s = 1..Len(s) /\ Len(s) \in Nat
  BY LenProperties DEF List
<1>2. s[i] \in ToSet(s)
  BY <1>1 DEF ToSet
<1>3. /\ Position(s, s[i]) \in 1..Len(s)
      /\ s[Position(s, s[i])] = s[i]
  BY <1>2, PositionFound
<1> HIDE DEF Position
<1> QED
  BY <1>1, <1>3 DEF List, IsInjective

\* The places of the windows that are left when w is erased.
LEMMA EraseElements ==
  ASSUME NEW s, List(s), NEW w \in ToSet(s)
  PROVE  /\ Position(s, w) \in 1..Len(s) /\ s[Position(s, w)] = w
         /\ Erase(s, w) \in Seq(Window)
         /\ Len(Erase(s, w)) = Len(s) - 1
         /\ \A i \in 1..(Len(s) - 1) :
              Erase(s, w)[i] = IF i < Position(s, w) THEN s[i] ELSE s[i + 1]
<1>1. Position(s, w) \in 1..Len(s) /\ s[Position(s, w)] = w
  BY PositionFound
<1>2. Erase(s, w) = RemoveAt(s, Position(s, w))
  BY DEF Erase
<1> HIDE DEF Position
<1> QED
  BY <1>1, <1>2, RemoveAtElements DEF List

\* Erasing a window leaves a list of all the others, in their order.
LEMMA EraseList ==
  ASSUME NEW s, List(s), NEW w
  PROVE  /\ List(Erase(s, w))
         /\ ToSet(Erase(s, w)) = ToSet(s) \ {w}
         /\ \A x, y : x # w /\ y # w /\ Precedes(s, x, y)
                        => Precedes(Erase(s, w), x, y)
<1> DEFINE t == Erase(s, w)
           p == Position(s, w)
<1>1. CASE w \notin ToSet(s)
  BY <1>1 DEF Erase
<1>2. CASE w \in ToSet(s)
  <2>1. p \in 1..Len(s) /\ s[p] = w
    BY <1>2, PositionFound
  <2>2. s \in Seq(Window) /\ DOMAIN s = 1..Len(s) /\ Len(s) \in Nat
    BY LenProperties DEF List
  <2>3. t = RemoveAt(s, p)
    BY <1>2 DEF Erase
  <2> HIDE DEF p, t
  <2>4. /\ t \in Seq(Window) /\ Len(t) = Len(s) - 1
        /\ \A i \in 1..(Len(s) - 1) : t[i] = IF i < p THEN s[i] ELSE s[i + 1]
    BY <2>1, <2>2, <2>3, RemoveAtElements
  <2>5. DOMAIN t = 1..(Len(s) - 1)
    BY <2>4, LenProperties
  <2>7. IsInjective(t) /\ ToSet(t) = ToSet(s) \ {w}
    BY <2>1, <2>2, <2>3, RemoveAtInjective DEF List
  <2>9. \A i \in 1..Len(s) : i # p =>
          /\ (IF i < p THEN i ELSE i - 1) \in 1..(Len(s) - 1)
          /\ t[IF i < p THEN i ELSE i - 1] = s[i]
    BY <2>1, <2>2, <2>4
  <2>11. ASSUME NEW x, NEW y, x # w, y # w, Precedes(s, x, y)
         PROVE  Precedes(t, x, y)
    <3>1. PICK i \in 1..Len(s), j \in 1..Len(s) :
            i < j /\ s[i] = x /\ s[j] = y
      BY <2>2, <2>11 DEF Precedes
    <3>2. i # p /\ j # p
      BY <2>1, <2>11, <3>1
    <3> DEFINE k == IF i < p THEN i ELSE i - 1
               l == IF j < p THEN j ELSE j - 1
    <3>3. k \in DOMAIN t /\ t[k] = x
      BY <2>5, <2>9, <3>1, <3>2
    <3>4. l \in DOMAIN t /\ t[l] = y
      BY <2>5, <2>9, <3>1, <3>2
    <3>5. k < l
      BY <2>1, <3>1, <3>2
    <3> QED
      BY <3>3, <3>4, <3>5 DEF Precedes
  <2> QED
    BY <2>4, <2>7, <2>11 DEF List, t
<1> QED
  BY <1>1, <1>2

\* push_front of a window that is not in the list.
LEMMA PrependList ==
  ASSUME NEW s, List(s), NEW w \in Window, w \notin ToSet(s)
  PROVE  /\ List(<<w>> \o s)
         /\ ToSet(<<w>> \o s) = ToSet(s) \cup {w}
         /\ \A x, y : Precedes(s, x, y) => Precedes(<<w>> \o s, x, y)
         /\ \A y \in ToSet(s) : Precedes(<<w>> \o s, w, y)
<1> DEFINE t == <<w>> \o s
<1>1. s \in Seq(Window) /\ DOMAIN s = 1..Len(s) /\ Len(s) \in Nat
  BY LenProperties DEF List
<1>2. /\ t \in Seq(Window) /\ Len(t) = Len(s) + 1
      /\ \A i \in 1..(Len(s) + 1) : t[i] = IF i = 1 THEN w ELSE s[i - 1]
  BY <1>1
<1> HIDE DEF t
<1>3. DOMAIN t = 1..(Len(s) + 1)
  BY <1>2, LenProperties
<1>4. \A i, j \in DOMAIN s : s[i] = s[j] => i = j
  BY DEF List, IsInjective
<1>5. \A i \in DOMAIN s : s[i] # w
  BY DEF ToSet
<1>6. t[1] = w /\ 1 \in DOMAIN t
  BY <1>1, <1>2, <1>3
<1>7. \A i \in DOMAIN s : i + 1 \in DOMAIN t /\ t[i + 1] = s[i] /\ 1 < i + 1
  BY <1>1, <1>2, <1>3
<1>8. \A i \in DOMAIN t : i = 1 \/ (i - 1 \in DOMAIN s /\ t[i] = s[i - 1])
  BY <1>1, <1>2, <1>3
<1>9. IsInjective(t)
  <2> SUFFICES ASSUME NEW i \in DOMAIN t, NEW j \in DOMAIN t, t[i] = t[j]
               PROVE  i = j
    BY DEF IsInjective
  <2>1. i \in Nat /\ j \in Nat
    BY <1>1, <1>3
  <2>2. CASE i = 1 \/ j = 1
    BY <1>5, <1>6, <1>8, <2>2
  <2>3. CASE i # 1 /\ j # 1
    BY <1>4, <1>8, <2>1, <2>3
  <2> QED
    BY <2>2, <2>3
<1>10. ToSet(t) = ToSet(s) \cup {w}
  <2>1. ToSet(t) \subseteq ToSet(s) \cup {w}
    BY <1>6, <1>8 DEF ToSet
  <2>2. ToSet(s) \subseteq ToSet(t)
    BY <1>7 DEF ToSet
  <2>3. w \in ToSet(t)
    BY <1>6 DEF ToSet
  <2> QED
    BY <2>1, <2>2, <2>3
<1>11. ASSUME NEW x, NEW y, Precedes(s, x, y)
       PROVE  Precedes(t, x, y)
  <2>1. PICK i, j \in DOMAIN s : i < j /\ s[i] = x /\ s[j] = y
    BY <1>11 DEF Precedes
  <2>2. i + 1 < j + 1
    BY <1>1, <2>1
  <2> QED
    BY <1>7, <2>1, <2>2 DEF Precedes
<1>12. ASSUME NEW y \in ToSet(s)
       PROVE  Precedes(t, w, y)
  <2>1. PICK j \in DOMAIN s : s[j] = y
    BY DEF ToSet
  <2> QED
    BY <1>6, <1>7, <2>1 DEF Precedes
<1> QED
  BY <1>2, <1>9, <1>10, <1>11, <1>12 DEF List, t

\* insert of a window that is not in the list, at place p.
LEMMA InsertList ==
  ASSUME NEW s, List(s), NEW w \in Window, w \notin ToSet(s),
         NEW p \in 1..(Len(s) + 1)
  PROVE  /\ List(InsertAt(s, p, w))
         /\ ToSet(InsertAt(s, p, w)) = ToSet(s) \cup {w}
         /\ \A x, y : Precedes(s, x, y) => Precedes(InsertAt(s, p, w), x, y)
<1> DEFINE t == InsertAt(s, p, w)
<1>1. s \in Seq(Window) /\ DOMAIN s = 1..Len(s) /\ Len(s) \in Nat
  BY LenProperties DEF List
<1>2. /\ t \in Seq(Window) /\ Len(t) = Len(s) + 1
      /\ \A i \in 1..(p - 1) : t[i] = s[i]
      /\ t[p] = w
      /\ \A i \in (p + 1)..(Len(s) + 1) : t[i] = s[i - 1]
  <2>1. InsertAt(s, p, w) \in Seq(Window)
    BY <1>1, InsertAtElements
  <2>2. Len(InsertAt(s, p, w)) = Len(s) + 1
    BY <1>1, InsertAtElements
  <2>3. \A i \in 1..(p - 1) : InsertAt(s, p, w)[i] = s[i]
    BY <1>1, InsertAtElements
  <2>4. InsertAt(s, p, w)[p] = w
    BY <1>1, InsertAtElements
  <2>5. \A i \in (p + 1)..(Len(s) + 1) : InsertAt(s, p, w)[i] = s[i - 1]
    BY <1>1, InsertAtElements
  <2> QED
    BY <2>1, <2>2, <2>3, <2>4, <2>5
<1> HIDE DEF t
<1>3. DOMAIN t = 1..(Len(s) + 1)
  BY <1>2, LenProperties
<1>4. \A i, j \in DOMAIN s : s[i] = s[j] => i = j
  BY DEF List, IsInjective
<1>5. \A i \in DOMAIN s : s[i] # w
  BY DEF ToSet
<1>6. \A i \in DOMAIN t :
         \/ i = p
         \/ i < p /\ i \in DOMAIN s /\ t[i] = s[i]
         \/ p < i /\ i - 1 \in DOMAIN s /\ t[i] = s[i - 1]
  BY <1>1, <1>2, <1>3
<1>7. IsInjective(t)
  <2> SUFFICES ASSUME NEW i \in DOMAIN t, NEW j \in DOMAIN t, t[i] = t[j]
               PROVE  i = j
    BY DEF IsInjective
  <2>1. i \in Nat /\ j \in Nat
    BY <1>1, <1>3
  <2>2. CASE i = p \/ j = p
    BY <1>2, <1>5, <1>6, <2>2
  <2>3. CASE i # p /\ j # p
    BY <1>4, <1>6, <2>1, <2>3
  <2> QED
    BY <2>2, <2>3
<1>8. ToSet(t) = ToSet(s) \cup {w}
  <2>1. ToSet(t) \subseteq ToSet(s) \cup {w}
    BY <1>2, <1>6 DEF ToSet
  <2>2. ASSUME NEW i \in DOMAIN s
        PROVE  s[i] \in ToSet(t)
    <3>1. CASE i < p
      BY <1>1, <1>2, <1>3, <3>1 DEF ToSet
    <3>2. CASE ~(i < p)
      <4>1. i + 1 \in (p + 1)..(Len(s) + 1) /\ (i + 1) - 1 = i
        BY <1>1, <3>2
      <4>2. t[i + 1] = s[i] /\ i + 1 \in DOMAIN t
        BY <1>1, <1>2, <1>3, <4>1
      <4> QED
        BY <4>2 DEF ToSet
    <3> QED
      BY <3>1, <3>2
  <2>3. w \in ToSet(t)
    BY <1>1, <1>2, <1>3 DEF ToSet
  <2> QED
    BY <2>1, <2>2, <2>3 DEF ToSet
<1>9. ASSUME NEW x, NEW y, Precedes(s, x, y)
      PROVE  Precedes(t, x, y)
  <2>1. PICK i, j \in DOMAIN s : i < j /\ s[i] = x /\ s[j] = y
    BY <1>9 DEF Precedes
  <2> DEFINE at(n) == IF n < p THEN n ELSE n + 1
  <2>2. \A n \in DOMAIN s : at(n) \in DOMAIN t /\ t[at(n)] = s[n]
    <3> SUFFICES ASSUME NEW n \in DOMAIN s
                 PROVE  at(n) \in DOMAIN t /\ t[at(n)] = s[n]
      OBVIOUS
    <3>1. CASE n < p
      BY <1>1, <1>2, <1>3, <3>1
    <3>2. CASE ~(n < p)
      <4>1. n + 1 \in (p + 1)..(Len(s) + 1) /\ (n + 1) - 1 = n
        BY <1>1, <3>2
      <4> QED
        BY <1>1, <1>2, <1>3, <3>2, <4>1
    <3> QED
      BY <3>1, <3>2
  <2>3. at(i) < at(j)
    BY <1>1, <2>1
  <2> HIDE DEF at
  <2> QED
    BY <2>1, <2>2, <2>3 DEF Precedes
<1> QED
  BY <1>2, <1>7, <1>8, <1>9 DEF List, t

\* push_back of a window that is not in the list.
LEMMA AppendList ==
  ASSUME NEW s, List(s), NEW w \in Window, w \notin ToSet(s)
  PROVE  /\ List(Append(s, w))
         /\ ToSet(Append(s, w)) = ToSet(s) \cup {w}
         /\ \A x, y : Precedes(s, x, y) => Precedes(Append(s, w), x, y)
<1> DEFINE t == Append(s, w)
<1>1. s \in Seq(Window) /\ DOMAIN s = 1..Len(s) /\ Len(s) \in Nat
  BY LenProperties DEF List
<1>2. List(t) /\ ToSet(t) = ToSet(s) \cup {w}
  BY AppendNew DEF List
<1>3. Len(t) = Len(s) + 1 /\ \A i \in 1..Len(s) : t[i] = s[i]
  BY <1>1, AppendProperties
<1> HIDE DEF t
<1>4. DOMAIN t = 1..(Len(s) + 1)
  BY <1>2, <1>3, LenProperties DEF List
<1>5. \A i \in DOMAIN s : i \in DOMAIN t /\ t[i] = s[i]
  BY <1>1, <1>3, <1>4
<1>6. \A x, y : Precedes(s, x, y) => Precedes(t, x, y)
  BY <1>5 DEF Precedes
<1> QED
  BY <1>2, <1>6 DEF t

\* A list is a total order of its windows.
LEMMA TotalOrder ==
  ASSUME NEW s, List(s)
  PROVE  /\ \A x, y \in ToSet(s) :
              x # y => Precedes(s, x, y) \/ Precedes(s, y, x)
         /\ \A x, y : Precedes(s, x, y) =>
              x \in ToSet(s) /\ y \in ToSet(s) /\ ~Precedes(s, y, x)
<1>1. DOMAIN s = 1..Len(s) /\ Len(s) \in Nat
  BY LenProperties DEF List
<1>2. \A i, j \in DOMAIN s : s[i] = s[j] => i = j
  BY DEF List, IsInjective
<1>3. ASSUME NEW x \in ToSet(s), NEW y \in ToSet(s), x # y
      PROVE  Precedes(s, x, y) \/ Precedes(s, y, x)
  <2>1. PICK i, j \in DOMAIN s : s[i] = x /\ s[j] = y
    BY DEF ToSet
  <2>2. i < j \/ j < i
    BY <1>1, <1>3, <2>1
  <2> QED
    BY <2>1, <2>2 DEF Precedes
<1>4. ASSUME NEW x, NEW y, Precedes(s, x, y)
      PROVE  x \in ToSet(s) /\ y \in ToSet(s) /\ ~Precedes(s, y, x)
  <2>1. PICK i, j \in DOMAIN s : i < j /\ s[i] = x /\ s[j] = y
    BY <1>4 DEF Precedes
  <2>2. ASSUME NEW k \in DOMAIN s, NEW l \in DOMAIN s,
               k < l, s[k] = y, s[l] = x
        PROVE  FALSE
    <3>1. k = j /\ l = i
      BY <1>2, <2>1, <2>2
    <3> QED
      BY <1>1, <2>1, <2>2, <3>1
  <2> QED
    BY <2>1, <2>2 DEF Precedes, ToSet
<1> QED
  BY <1>3, <1>4

\* Two lists of the same windows in the same order are the same list.
LEMMA SameOrder ==
  ASSUME NEW s, List(s), NEW t, List(t), ToSet(s) = ToSet(t),
         \A x, y : Precedes(s, x, y) => Precedes(t, x, y)
  PROVE  s = t
<1>1. /\ s \in Seq(Window) /\ DOMAIN s = 1..Len(s) /\ Len(s) \in Nat
      /\ t \in Seq(Window) /\ DOMAIN t = 1..Len(t) /\ Len(t) \in Nat
  BY LenProperties DEF List
<1>2. /\ \A i, j \in DOMAIN s : s[i] = s[j] => i = j
      /\ \A i, j \in DOMAIN t : t[i] = t[j] => i = j
  BY DEF List, IsInjective
<1> DEFINE T == {i \in Nat : /\ i \in DOMAIN s \cup DOMAIN t
                             /\ i \in DOMAIN s \cap DOMAIN t => s[i] # t[i]}
<1>3. T = {}
  <2> SUFFICES ASSUME T # {}
               PROVE  FALSE
    OBVIOUS
  <2>1. PICK n \in T : \A j \in T : n <= j
    <3>1. T \subseteq Nat
      OBVIOUS
    <3> HIDE DEF T
    <3> QED
      BY <3>1, LeastNatural
  <2>2. n \in Nat /\ 1 <= n
    BY <1>1
  <2>3. \A i \in Nat : i < n /\ i \in DOMAIN s \cup DOMAIN t =>
          i \in DOMAIN s /\ i \in DOMAIN t /\ s[i] = t[i]
    BY <2>1, <2>2
  <2>4. \A i \in DOMAIN s : n <= i =>
          \E j \in DOMAIN t : t[j] = s[i] /\ n <= j
    <3> SUFFICES ASSUME NEW i \in DOMAIN s, n <= i
                 PROVE  \E j \in DOMAIN t : t[j] = s[i] /\ n <= j
      OBVIOUS
    <3>1. PICK j \in DOMAIN t : t[j] = s[i]
      BY DEF ToSet
    <3>2. ASSUME j < n
          PROVE  FALSE
      <4>1. j \in DOMAIN s /\ s[j] = t[j]
        BY <1>1, <2>3, <3>2
      <4>2. j = i
        BY <1>2, <3>1, <4>1
      <4> QED
        BY <1>1, <2>2, <3>2, <4>2
    <3> QED
      BY <1>1, <2>2, <3>1, <3>2
  <2>5. \A i \in DOMAIN t : n <= i =>
          \E j \in DOMAIN s : s[j] = t[i] /\ n <= j
    <3> SUFFICES ASSUME NEW i \in DOMAIN t, n <= i
                 PROVE  \E j \in DOMAIN s : s[j] = t[i] /\ n <= j
      OBVIOUS
    <3>1. PICK j \in DOMAIN s : s[j] = t[i]
      BY DEF ToSet
    <3>2. ASSUME j < n
          PROVE  FALSE
      <4>1. j \in DOMAIN t /\ s[j] = t[j]
        BY <1>1, <2>3, <3>2
      <4>2. j = i
        BY <1>2, <3>1, <4>1
      <4> QED
        BY <1>1, <2>2, <3>2, <4>2
    <3> QED
      BY <1>1, <2>2, <3>1, <3>2
  <2>6. n \in DOMAIN s /\ n \in DOMAIN t
    <3>1. CASE n \in DOMAIN s
      <4>1. PICK j \in DOMAIN t : n <= j
        BY <2>2, <2>4, <3>1
      <4> QED
        BY <1>1, <2>2, <3>1, <4>1
    <3>2. CASE n \in DOMAIN t
      <4>1. PICK j \in DOMAIN s : n <= j
        BY <2>2, <2>5, <3>2
      <4> QED
        BY <1>1, <2>2, <3>2, <4>1
    <3> QED
      BY <2>1, <3>1, <3>2
  <2>7. s[n] # t[n]
    BY <2>1, <2>6
  <2>8. PICK j \in DOMAIN t : t[j] = s[n] /\ n <= j
    BY <2>2, <2>4, <2>6
  <2>9. PICK k \in DOMAIN s : s[k] = t[n] /\ n <= k
    BY <2>2, <2>5, <2>6
  <2>10. n < j /\ n < k
    <3>1. n # j /\ n # k
      BY <2>7, <2>8, <2>9
    <3> QED
      BY <1>1, <2>2, <2>8, <2>9, <3>1
  <2>11. Precedes(s, s[n], s[k])
    BY <2>6, <2>9, <2>10 DEF Precedes
  <2>12. Precedes(t, t[n], t[j])
    BY <2>6, <2>8, <2>10 DEF Precedes
  <2>13. Precedes(t, t[j], t[n])
    BY <2>8, <2>9, <2>11
  <2> QED
    BY <2>12, <2>13, TotalOrder
<1>4. \A i \in DOMAIN s \cup DOMAIN t :
        i \in DOMAIN s /\ i \in DOMAIN t /\ s[i] = t[i]
  BY <1>1, <1>3
<1>5. Len(s) = Len(t)
  <2>1. Len(s) \in DOMAIN s => Len(s) \in DOMAIN t
    BY <1>4
  <2>2. Len(t) \in DOMAIN t => Len(t) \in DOMAIN s
    BY <1>4
  <2> DEFINE m == Len(s)
             n == Len(t)
  <2>3. m \in Nat /\ n \in Nat /\ DOMAIN s = 1..m /\ DOMAIN t = 1..n
    BY <1>1
  <2> HIDE DEF m, n
  <2>4. m \in 1..m => m \in 1..n
    BY <2>1, <2>3 DEF m
  <2>5. n \in 1..n => n \in 1..m
    BY <2>2, <2>3 DEF n
  <2>6. m = n
    BY <2>3, <2>4, <2>5
  <2> QED
    BY <2>6 DEF m, n
<1> QED
  BY <1>1, <1>4, <1>5, SeqEqual

\* Erasing also loses nothing of the order.
LEMMA EraseOrder ==
  ASSUME NEW s, List(s), NEW w
  PROVE  \A x, y : Precedes(Erase(s, w), x, y) <=>
                     Precedes(s, x, y) /\ x # w /\ y # w
<1> DEFINE t == Erase(s, w)
<1>1. /\ List(t) /\ ToSet(t) = ToSet(s) \ {w}
      /\ \A x, y : x # w /\ y # w /\ Precedes(s, x, y) => Precedes(t, x, y)
  BY EraseList
<1> HIDE DEF t
<1>2. ASSUME NEW x, NEW y, Precedes(t, x, y)
      PROVE  Precedes(s, x, y) /\ x # w /\ y # w
  <2>1. /\ x \in ToSet(s) /\ y \in ToSet(s) /\ x # w /\ y # w
        /\ ~Precedes(t, y, x)
    BY <1>1, <1>2, TotalOrder
  <2>2. x # y
    BY <1>1, <1>2, TotalOrder
  <2>3. ~Precedes(s, y, x)
    BY <1>1, <2>1
  <2> QED
    BY <2>1, <2>2, <2>3, TotalOrder
<1> QED
  BY <1>1, <1>2 DEF t

\* Windows are erased in any order.
LEMMA EraseCommutes ==
  ASSUME NEW s, List(s), NEW v, NEW w
  PROVE  Erase(Erase(s, v), w) = Erase(Erase(s, w), v)
<1> DEFINE a == Erase(Erase(s, v), w)
           b == Erase(Erase(s, w), v)
<1>1. List(Erase(s, v)) /\ List(Erase(s, w))
  BY EraseList
<1>2. List(a) /\ List(b) /\ ToSet(a) = ToSet(b)
  <2>1. List(a) /\ ToSet(a) = (ToSet(s) \ {v}) \ {w}
    BY <1>1, EraseList
  <2>2. List(b) /\ ToSet(b) = (ToSet(s) \ {w}) \ {v}
    BY <1>1, EraseList
  <2> QED
    BY <2>1, <2>2
<1>3. \A x, y : Precedes(a, x, y) => Precedes(b, x, y)
  BY <1>1, EraseOrder
<1> HIDE DEF a, b
<1>4. a = b
  BY <1>2, <1>3, SameOrder
<1> QED
  BY <1>4 DEF a, b

\* What has been inserted can be taken out again.
LEMMA InsertErase ==
  ASSUME NEW s, List(s), NEW w \in Window, w \notin ToSet(s)
  PROVE  /\ \A p \in 1..(Len(s) + 1) : Erase(InsertAt(s, p, w), w) = s
         /\ Erase(Append(s, w), w) = s
<1>1. ASSUME NEW t, List(t), ToSet(t) = ToSet(s) \cup {w},
             \A x, y : Precedes(s, x, y) => Precedes(t, x, y)
      PROVE  Erase(t, w) = s
  <2> DEFINE e == Erase(t, w)
  <2>1. List(e) /\ ToSet(e) = ToSet(s)
    <3>1. List(e) /\ ToSet(e) = ToSet(t) \ {w}
      BY <1>1, EraseList
    <3> QED
      BY <1>1, <3>1
  <2>2. ASSUME NEW x, NEW y, Precedes(s, x, y)
        PROVE  Precedes(e, x, y)
    <3>1. x # w /\ y # w
      BY <2>2, TotalOrder
    <3> QED
      BY <1>1, <2>2, <3>1, EraseList
  <2> HIDE DEF e
  <2>3. s = e
    BY <2>1, <2>2, SameOrder
  <2> QED
    BY <2>3 DEF e
<1>2. \A p \in 1..(Len(s) + 1) : Erase(InsertAt(s, p, w), w) = s
  <2> SUFFICES ASSUME NEW p \in 1..(Len(s) + 1)
               PROVE  Erase(InsertAt(s, p, w), w) = s
    OBVIOUS
  <2>1. /\ List(InsertAt(s, p, w))
        /\ ToSet(InsertAt(s, p, w)) = ToSet(s) \cup {w}
        /\ \A x, y : Precedes(s, x, y) => Precedes(InsertAt(s, p, w), x, y)
    BY InsertList
  <2> QED
    BY <1>1, <2>1
<1>3. Erase(Append(s, w), w) = s
  <2>1. /\ List(Append(s, w))
        /\ ToSet(Append(s, w)) = ToSet(s) \cup {w}
        /\ \A x, y : Precedes(s, x, y) => Precedes(Append(s, w), x, y)
    BY AppendList
  <2> QED
    BY <1>1, <2>1
<1> QED
  BY <1>2, <1>3

\* A search through a list gives one of its windows or the null pointer.
LEMMA FirstInList ==
  ASSUME NEW s, List(s), NEW S
  PROVE  FirstIn(s, S) \in (ToSet(s) \cap S) \cup {Null}
<1> DEFINE hits == {i \in DOMAIN s : s[i] \in S}
<1>1. CASE hits = {}
  BY <1>1 DEF FirstIn
<1>2. CASE hits # {}
  <2>1. DOMAIN s = 1..Len(s) /\ Len(s) \in Nat
    BY LenProperties DEF List
  <2>2. hits \subseteq Nat
    BY <2>1
  <2>3. \E i \in hits : \A j \in hits : i <= j
    <3> HIDE DEF hits
    <3> QED
      BY <1>2, <2>2, LeastNatural
  <2> QED
    BY <1>2, <2>3 DEF FirstIn, ToSet
<1> QED
  BY <1>1, <1>2

-----------------------------------------------------------------------------
(* The inductive invariant.                                                 *)

\* Both lists hold the same windows.  The status window stands in front of
\* the overlay in the recency list: this is why the window that is focused
\* when the active one is closed is never the overlay.
Lists(u) ==
  /\ List(u.windows) /\ List(u.children)
  /\ ToSet(u.windows) = ToSet(u.children)
  /\ {Status, Overlay} \subseteq ToSet(u.children)
  /\ Precedes(u.windows, Status, Overlay)

\* The active window is open, and the overlay is active while it covers one.
Focused(u) ==
  /\ u.active \in ToSet(u.children)
  /\ (u.active = Overlay) = (u.beforeOverlay # Null)
  /\ u.beforeOverlay # Overlay

\* The overlay is nobody's conversation and has no name, so getWindow never finds it.
Sound(u) ==
  /\ u \in UIState
  /\ Lists(u)
  /\ u.obj[Overlay] = Null /\ u.windowName[Overlay] = Null
  /\ u.fault # "unlisted"
  /\ u.fault = "none" => Focused(u)

\* The name of a conversation is never null.
LEMMA FullNameType ==
  ASSUME NEW u \in UIState, NEW o \in Object
  PROVE  FullName(u, o) \in FullNames /\ FullName(u, o) # Null
<1>1. o.server \in Server
  BY ObjectAssumption
<1> QED
  BY <1>1, ObjectAssumption DEF FullName, FullNames, UIState

\* Moving a window to the front of the recency list.
LEMMA FrontList ==
  ASSUME NEW u, u \in UIState, Lists(u), NEW w \in ToSet(u.windows), w # Overlay
  PROVE  Lists([u EXCEPT !.windows = <<w>> \o Erase(u.windows, w)])
<1> DEFINE s == u.windows
           t == <<w>> \o Erase(s, w)
           v == [u EXCEPT !.windows = t]
<1>1. List(s) /\ w \in Window
  BY ElementOfSeq, LenProperties DEF Lists, List, ToSet
<1>2. /\ List(Erase(s, w))
      /\ ToSet(Erase(s, w)) = ToSet(s) \ {w}
      /\ \A x, y : x # w /\ y # w /\ Precedes(s, x, y)
                     => Precedes(Erase(s, w), x, y)
  BY <1>1, EraseList
<1>3. /\ List(t)
      /\ ToSet(t) = ToSet(s)
      /\ \A x, y : Precedes(Erase(s, w), x, y) => Precedes(t, x, y)
      /\ \A y \in ToSet(s) \ {w} : Precedes(t, w, y)
  <2> HIDE DEF t, s
  <2>1. w \notin ToSet(Erase(s, w))
    BY <1>2
  <2> QED
    BY <1>1, <1>2, <2>1, PrependList DEF t, s
<1>4. Precedes(t, Status, Overlay)
  <2>1. Overlay \in ToSet(s) /\ Precedes(s, Status, Overlay)
    BY DEF Lists
  <2> HIDE DEF t, s
  <2>2. CASE w = Status
    BY <1>3, <2>1, <2>2, WindowAssumption
  <2>3. CASE w # Status
    BY <1>2, <1>3, <2>1, <2>3
  <2> QED
    BY <2>2, <2>3
<1>5. v.windows = t /\ v.children = u.children
  BY DEF UIState
<1> HIDE DEF t, v, s
<1> QED
  BY <1>3, <1>4, <1>5 DEF Lists, v, t, s

\* focusWindow keeps the invariant, even when the window it is asked to show
\* is gone; when the window is there it becomes the active one.
LEMMA FocusSound ==
  ASSUME NEW u, Sound(u), u.fault = "none",
         NEW w \in Window \cup {Null}, w # Overlay
  PROVE  /\ Sound(Focus(u, w))
         /\ Focus(u, w).fault = "none" => Focus(u, w).active # Overlay
<1> DEFINE x == IF w = Null THEN Status ELSE w
           lifted == Lift(u)
           f == Focus(u, w)
           moved == [u EXCEPT !.windows = <<x>> \o Erase(u.windows, x)]
<1>1. x \in Window /\ x # Overlay
  BY WindowAssumption
<1>2. u \in UIState /\ Lists(u) /\ Focused(u)
  BY DEF Sound
<1>3. /\ lifted \in UIState
      /\ lifted.windows = u.windows /\ lifted.children = u.children
      /\ lifted.active = u.active /\ lifted.fault = "none"
      /\ lifted.beforeOverlay = Null /\ lifted.obj = u.obj
      /\ lifted.windowName = u.windowName
  BY <1>2 DEF UIState, Focused, Lift
<1>4. CASE x = u.active
  <2>1. f = lifted
    BY <1>4 DEF Focus
  <2>2. Lists(lifted)
    BY <1>2, <1>3 DEF Lists
  <2>3. Focused(lifted)
    BY <1>1, <1>2, <1>3, <1>4, WindowAssumption DEF Focused
  <2> QED
    BY <1>1, <1>3, <1>4, <2>1, <2>2, <2>3 DEF Sound
<1>5. CASE x # u.active /\ x \notin Live(u)
  <2>1. f = [[lifted EXCEPT !.active = x] EXCEPT !.fault = "freed"]
    BY <1>5 DEF Focus, Faulty
  <2>2. /\ f \in UIState /\ f.windows = u.windows /\ f.children = u.children
        /\ f.fault = "freed" /\ f.obj = u.obj
        /\ f.windowName = u.windowName
    BY <1>1, <1>3, <2>1 DEF UIState, Fault
  <2> QED
    BY <1>2, <2>2 DEF Sound, Lists
<1>6. CASE x # u.active /\ x \in Live(u)
  <2>1. x \in ToSet(u.windows)
    BY <1>2, <1>6 DEF Lists, Live
  <2>2. f = [[lifted EXCEPT !.active = x]
               EXCEPT !.windows = <<x>> \o Erase(u.windows, x)]
    BY <1>1, <1>3, <1>6, <2>1 DEF Focus, UIState, ToFront
  <2>3. Lists(moved)
    BY <1>1, <1>2, <2>1, FrontList
  <2>4. moved.windows = <<x>> \o Erase(u.windows, x)
        /\ moved.children = u.children
    BY <1>2 DEF UIState
  <2>5. <<x>> \o Erase(u.windows, x) \in Seq(Window)
    BY <2>3, <2>4 DEF Lists, List
  <2>6. /\ f \in UIState /\ f.windows = moved.windows
        /\ f.children = u.children /\ f.fault = "none" /\ f.active = x
        /\ f.beforeOverlay = Null /\ f.obj = u.obj
        /\ f.windowName = u.windowName
    BY <1>1, <1>3, <2>2, <2>4, <2>5 DEF UIState
  <2>7. Lists(f)
    BY <2>3, <2>4, <2>6 DEF Lists
  <2>8. Focused(f)
    BY <1>1, <1>6, <2>6, WindowAssumption DEF Focused, Live
  <2> QED
    BY <1>1, <2>6, <2>7, <2>8 DEF Sound
<1> QED
  BY <1>4, <1>5, <1>6

\* updateStatusbar changes nothing but the fault.
LEMMA UpdateStatusbarSound ==
  ASSUME NEW u, Sound(u)
  PROVE  Sound(UpdateStatusbar(u))
<1>1. CASE UpdateStatusbar(u) = u
  BY <1>1
<1>2. CASE UpdateStatusbar(u) = [u EXCEPT !.fault = "freed"]
  BY <1>2 DEF Sound, UIState, Fault, Lists
<1> QED
  BY <1>1, <1>2 DEF UpdateStatusbar, Faulty

\* toggleOverlay while the overlay is down brings it up above the active
\* window.
LEMMA CoverEffect ==
  ASSUME NEW u \in UIState, Lists(u), u.active \in Live(u), u.active # Overlay
  PROVE  Toggle(u) = [u EXCEPT !.beforeOverlay = u.active, !.active = Overlay]
<1> DEFINE v == [u EXCEPT !.beforeOverlay = u.active]
           f == [v EXCEPT !.active = Overlay]
<1>1. /\ v.active = u.active /\ v.children = u.children
      /\ f.children = u.children /\ f.beforeOverlay = u.active
      /\ f.active = Overlay
      /\ f = [u EXCEPT !.beforeOverlay = u.active, !.active = Overlay]
  BY DEF UIState
<1>2. Overlay \in Live(v) /\ Overlay # v.active /\ Overlay # Null
  BY <1>1, WindowAssumption DEF Live, Lists
<1>3. Toggle(u) = UpdateStatusbar(f)
  BY <1>1, <1>2 DEF Toggle, Focus, Lift
<1>4. u.active \in Live(f)
  BY <1>1 DEF Live
<1> QED
  BY <1>1, <1>3, <1>4 DEF UpdateStatusbar

\* toggleOverlay keeps the invariant, also when the window it should bring
\* back is gone.
LEMMA ToggleSound ==
  ASSUME NEW u, Sound(u), u.fault = "none"
  PROVE  /\ Sound(Toggle(u))
         /\ u.active = Overlay /\ Toggle(u).fault = "none"
              => Toggle(u).active # Overlay
<1>1. u \in UIState /\ Lists(u) /\ Focused(u)
  BY DEF Sound
<1>2. CASE u.active = Overlay
  <2>1. u.beforeOverlay \in Window \cup {Null} /\ u.beforeOverlay # Overlay
    BY <1>1 DEF UIState, Focused
  <2>2. Toggle(u) = Focus(u, u.beforeOverlay)
    BY <1>2 DEF Toggle
  <2> QED
    BY <2>1, <2>2, FocusSound
<1>3. CASE u.active # Overlay
  <2> DEFINE f == [u EXCEPT !.beforeOverlay = u.active, !.active = Overlay]
  <2>1. /\ f \in UIState /\ f.windows = u.windows /\ f.children = u.children
        /\ f.active = Overlay /\ f.beforeOverlay = u.active /\ f.fault = "none"
        /\ f.obj = u.obj
        /\ f.windowName = u.windowName
    BY <1>1, WindowAssumption DEF UIState
  <2>2. Lists(f)
    BY <1>1, <2>1 DEF Lists
  <2>3. u.active \in Window
    BY <1>1 DEF UIState
  <2>4. Focused(f)
    BY <1>1, <1>3, <2>1, <2>3, WindowAssumption DEF Focused, Lists
  <2>5. Toggle(u) = f
    BY <1>1, <1>3, CoverEffect DEF Focused, Live
  <2> QED
    BY <1>3, <2>1, <2>2, <2>4, <2>5 DEF Sound
<1> QED
  BY <1>2, <1>3

\* What a key finds after the overlay has gone away.
LEMMA DismissSound ==
  ASSUME NEW u, Sound(u), u.fault = "none"
  PROVE  /\ Sound(Dismiss(u))
         /\ Dismiss(u).fault = "none" => Dismiss(u).active # Overlay
BY ToggleSound DEF Dismiss

\* The next, the previous and the n-th window are open and not the overlay.
LEMMA CycleFocuses ==
  ASSUME NEW u, Sound(u), u.fault = "none"
  PROVE  /\ \E w \in Live(u) \ {Overlay} : NextWindow(u) = Focus(u, w)
         /\ \E w \in Live(u) \ {Overlay} : PreviousWindow(u) = Focus(u, w)
         /\ \A n \in Nat : \/ FocusIndex(u, n) = u
                           \/ \E w \in Live(u) \ {Overlay} :
                                FocusIndex(u, n) = Focus(u, w)
<1> DEFINE s == u.children
           p == Position(s, u.active)
<1>1. /\ List(s) /\ u.active \in ToSet(s)
      /\ Status \in ToSet(s) /\ Overlay \in ToSet(s)
  BY DEF Sound, Lists, Focused
<1>2. /\ s \in Seq(Window) /\ DOMAIN s = 1..Len(s) /\ Len(s) \in Nat
      /\ \A i \in 1..Len(s) : s[i] \in Live(u)
      /\ \A i, j \in 1..Len(s) : s[i] = s[j] => i = j
  BY <1>1, LenProperties DEF List, IsInjective, Live, ToSet
<1>3. p \in 1..Len(s)
  BY <1>1, PositionFound
<1>4. 2 <= Len(s)
  <2>1. PICK i \in 1..Len(s) : s[i] = Status
    BY <1>1, <1>2 DEF ToSet
  <2>2. PICK j \in 1..Len(s) : s[j] = Overlay
    BY <1>1, <1>2 DEF ToSet
  <2>3. i # j
    BY <2>1, <2>2, WindowAssumption
  <2> QED
    BY <1>2, <2>3
<1> HIDE DEF s, p
<1>5. \A i \in 1..Len(s) : /\ After(s, i) \in 1..Len(s) /\ After(s, i) # i
                            /\ BeforeOf(s, i) \in 1..Len(s) /\ BeforeOf(s, i) # i
  <2> SUFFICES ASSUME NEW i \in 1..Len(s)
               PROVE  /\ After(s, i) \in 1..Len(s) /\ After(s, i) # i
                      /\ BeforeOf(s, i) \in 1..Len(s) /\ BeforeOf(s, i) # i
    OBVIOUS
  <2>0. i \in 1..Len(s) /\ Len(s) \in Nat /\ 2 <= Len(s)
    BY <1>2, <1>4
  <2>1. After(s, i) \in 1..Len(s) /\ After(s, i) # i
    <3>1. CASE i = Len(s)
      BY <2>0, <3>1 DEF After
    <3>2. CASE i # Len(s)
      BY <2>0, <3>2 DEF After
    <3> QED
      BY <3>1, <3>2
  <2>2. BeforeOf(s, i) \in 1..Len(s) /\ BeforeOf(s, i) # i
    <3>1. CASE i = 1
      <4>1. BeforeOf(s, i) = Len(s)
        BY <3>1 DEF BeforeOf
      <4> QED
        BY <2>0, <3>1, <4>1
    <3>2. CASE i # 1
      <4>1. BeforeOf(s, i) = i - 1
        BY <3>2 DEF BeforeOf
      <4> QED
        BY <2>0, <3>2, <4>1
    <3> QED
      BY <3>1, <3>2
  <2> QED
    BY <2>1, <2>2
<1>6. \E w \in Live(u) \ {Overlay} : NextWindow(u) = Focus(u, w)
  <2> DEFINE i == After(s, p)
             k == IF s[i] = Overlay THEN After(s, i) ELSE i
  <2>1. k \in 1..Len(s) /\ s[k] # Overlay
    BY <1>2, <1>3, <1>5
  <2>2. NextWindow(u) = Focus(u, s[k])
    BY DEF NextWindow, s, p
  <2> QED
    BY <1>2, <2>1, <2>2
<1>7. \E w \in Live(u) \ {Overlay} : PreviousWindow(u) = Focus(u, w)
  <2> DEFINE i == BeforeOf(s, p)
             k == IF s[i] = Overlay THEN BeforeOf(s, i) ELSE i
  <2>1. k \in 1..Len(s) /\ s[k] # Overlay
    BY <1>2, <1>3, <1>5
  <2>2. PreviousWindow(u) = Focus(u, s[k])
    BY DEF PreviousWindow, s, p
  <2> QED
    BY <1>2, <2>1, <2>2
<1>8. ASSUME NEW n \in Nat, n < Len(Indexed(u))
      PROVE  Indexed(u)[n + 1] \in Live(u) \ {Overlay}
  <2> DEFINE t == Indexed(u)
  <2>1. List(t) /\ ToSet(t) = ToSet(s) \ {Overlay}
    BY <1>1, EraseList DEF Indexed, s
  <2>2. DOMAIN t = 1..Len(t) /\ Len(t) \in Nat
    BY <2>1, LenProperties DEF List
  <2> HIDE DEF t
  <2>3. t[n + 1] \in ToSet(t)
    BY <1>8, <2>2 DEF ToSet, t
  <2> QED
    BY <2>1, <2>3 DEF Live, s, t
<1> QED
  BY <1>6, <1>7, <1>8 DEF FocusIndex

\* nextWindow, previousWindow and focusWindow by index are calls of focusWindow.
LEMMA CycleSound ==
  ASSUME NEW u, Sound(u), u.fault = "none"
  PROVE  /\ Sound(NextWindow(u)) /\ Sound(PreviousWindow(u))
         /\ \A n \in Nat : Sound(FocusIndex(u, n))
<1>1. \A w \in Live(u) : w \in Window
  BY LenProperties, ElementOfSeq DEF Sound, Lists, List, Live, ToSet
<1>2. \A w \in Live(u) \ {Overlay} : Sound(Focus(u, w))
  BY <1>1, FocusSound
<1> QED
  BY <1>2, CycleFocuses

\* moveWindow only rearranges the children, wherever the overlay is.
LEMMA MoveWindowSound ==
  ASSUME NEW u, Sound(u), NEW w \in Window, w # Overlay, NEW n \in Nat
  PROVE  Sound(MoveWindow(u, w, n))
<1> DEFINE last == Last(u.children) = Overlay
           base == IF last THEN u.children ELSE Indexed(u)
           others == Erase(base, w)
           pos == IF n < Len(others) THEN n ELSE Len(others)
           moved == InsertAt(others, pos + 1, w)
           c == IF last THEN moved ELSE Append(moved, Overlay)
           v == [u EXCEPT !.children = c]
<1>1. CASE w \notin Live(u)
  BY <1>1 DEF MoveWindow
<1>2. CASE w \in Live(u)
  <2>1. /\ u \in UIState /\ List(u.children) /\ List(u.windows)
        /\ ToSet(u.windows) = ToSet(u.children)
        /\ {Status, Overlay} \subseteq ToSet(u.children)
        /\ Precedes(u.windows, Status, Overlay)
    BY DEF Sound, Lists
  <2>2. /\ List(base)
        /\ ToSet(base) = IF last THEN ToSet(u.children)
                         ELSE ToSet(u.children) \ {Overlay}
    BY <2>1, EraseList DEF Indexed
  <2> HIDE DEF base
  <2>3. List(others) /\ ToSet(others) = ToSet(base) \ {w}
    BY <2>2, EraseList
  <2> HIDE DEF others
  <2>4. Len(others) \in Nat
    BY <2>3, LenProperties DEF List
  <2>5. pos + 1 \in 1..(Len(others) + 1)
    BY <2>4
  <2> HIDE DEF pos
  <2>6. List(moved) /\ ToSet(moved) = ToSet(base) \cup {w}
    <3>1. w \notin ToSet(others)
      BY <2>3
    <3>2. /\ List(moved) /\ ToSet(moved) = ToSet(others) \cup {w}
      BY <2>3, <2>5, <3>1, InsertList
    <3> QED
      BY <2>3, <3>2
  <2> HIDE DEF moved
  <2>7. w \in ToSet(u.children)
    BY <1>2 DEF Live
  <2>8. List(c) /\ ToSet(c) = ToSet(u.children)
    <3>1. CASE last
      BY <2>2, <2>6, <2>7, <3>1
    <3>2. CASE ~last
      <4>1. Overlay \notin ToSet(moved)
        BY <2>2, <2>6, <3>2
      <4>2. /\ List(Append(moved, Overlay))
            /\ ToSet(Append(moved, Overlay)) = ToSet(moved) \cup {Overlay}
        BY <2>6, <4>1, AppendList, WindowAssumption
      <4> QED
        BY <2>1, <2>2, <2>6, <2>7, <3>2, <4>2
    <3> QED
      BY <3>1, <3>2
  <2> HIDE DEF c, last
  <2>9. /\ v \in UIState /\ v.children = c /\ v.windows = u.windows
        /\ v.active = u.active /\ v.beforeOverlay = u.beforeOverlay
        /\ v.fault = u.fault /\ v.obj = u.obj
        /\ v.windowName = u.windowName
    BY <2>1, <2>8 DEF UIState, List
  <2>10. Sound(v)
    BY <2>1, <2>8, <2>9 DEF Sound, Lists, Focused
  <2>11. MoveWindow(u, w, n) = UpdateStatusbar(v)
    BY <1>2 DEF MoveWindow, c, moved, pos, others, base, last
  <2> QED
    BY <2>10, <2>11, UpdateStatusbarSound
<1> QED
  BY <1>1, <1>2

\* removeWindow takes the window out of both lists; if it was the active one,
\* another open window takes its place.
LEMMA RemoveWindowSound ==
  ASSUME NEW u, Sound(u), u.fault = "none",
         NEW w \in Live(u), w \notin {Status, Overlay}
  PROVE  Sound(RemoveWindow(u, w))
<1> DEFINE s == Erase(u.windows, w)
           c == Erase(u.children, w)
           unlisted == [u EXCEPT !.windows = s]
           left == IF u.active = w THEN Focus(unlisted, Head(unlisted.windows))
                   ELSE unlisted
           r == RemoveWindow(u, w)
<1>1. u \in UIState /\ Lists(u) /\ Focused(u)
  BY DEF Sound
<1>2. w \in Window
  BY <1>1, LenProperties, ElementOfSeq DEF Live, ToSet, Lists, List
<1>3. /\ List(s) /\ ToSet(s) = ToSet(u.windows) \ {w}
      /\ Precedes(s, Status, Overlay)
  BY <1>1, EraseList DEF Lists
<1>4. List(c) /\ ToSet(c) = ToSet(u.children) \ {w}
  BY <1>1, EraseList DEF Lists
<1> HIDE DEF s, c
<1>5. /\ unlisted \in UIState /\ unlisted.windows = s
      /\ unlisted.children = u.children /\ unlisted.active = u.active
      /\ unlisted.beforeOverlay = u.beforeOverlay /\ unlisted.fault = "none"
      /\ unlisted.obj = u.obj
      /\ unlisted.windowName = u.windowName
  BY <1>1, <1>3 DEF UIState, List
<1> HIDE DEF unlisted
<1>6. /\ left \in UIState /\ left.children = u.children
      /\ left.fault = "none" /\ left.beforeOverlay = u.beforeOverlay
      /\ left.obj = u.obj
      /\ left.windowName = u.windowName
      /\ left.active \in ToSet(c)
      /\ (left.active = Overlay) = (u.active = Overlay)
      /\ List(left.windows) /\ ToSet(left.windows) = ToSet(s)
      /\ Precedes(left.windows, Status, Overlay)
  <2>1. CASE u.active # w
    BY <1>1, <1>3, <1>4, <1>5, <2>1 DEF Focused
  <2>2. CASE u.active = w
    <3> DEFINE h == Head(s)
    <3>1. s \in Seq(Window) /\ DOMAIN s = 1..Len(s) /\ Len(s) \in Nat
      BY <1>3, LenProperties DEF List
    <3>2. PICK i \in 1..Len(s), j \in 1..Len(s) :
            i < j /\ s[i] = Status /\ s[j] = Overlay
      BY <1>3, <3>1 DEF Precedes
    <3>3. 1 \in DOMAIN s /\ s[1] \in Window /\ h = s[1]
      BY <3>1, <3>2, ElementOfSeq
    <3>4. h \in ToSet(s) /\ h # Overlay
      BY <1>3, <3>1, <3>2, <3>3 DEF ToSet, List, IsInjective
    <3> HIDE DEF h
    <3>5. h # w /\ h \in Live(unlisted) /\ h # Null /\ h \in ToSet(c)
      BY <1>1, <1>3, <1>4, <1>5, <3>3, <3>4, WindowAssumption DEF Lists, Live
    <3> DEFINE t == <<h>> \o Erase(s, h)
    <3>6. left = [[unlisted EXCEPT !.active = h] EXCEPT !.windows = t]
      <4>1. left = Focus(unlisted, h)
        BY <1>5, <2>2 DEF h
      <4>2. [unlisted EXCEPT !.active = h].windows = s
        BY <1>5 DEF UIState
      <4> QED
        BY <1>5, <2>2, <3>4, <3>5, <4>1, <4>2 DEF Focus, Lift, ToFront
    <3>7. /\ List(t) /\ ToSet(t) = ToSet(s) /\ Precedes(t, Status, Overlay)
      <4>1. /\ List(Erase(s, h)) /\ ToSet(Erase(s, h)) = ToSet(s) \ {h}
            /\ \A x, y : x # h /\ y # h /\ Precedes(s, x, y)
                          => Precedes(Erase(s, h), x, y)
        BY <1>3, EraseList
      <4>2. /\ List(t) /\ ToSet(t) = ToSet(Erase(s, h)) \cup {h}
            /\ \A x, y : Precedes(Erase(s, h), x, y) => Precedes(t, x, y)
            /\ \A y \in ToSet(Erase(s, h)) : Precedes(t, h, y)
        <5>1. h \notin ToSet(Erase(s, h)) /\ h \in Window
          BY <3>3, <4>1
        <5> QED
          BY <4>1, <5>1, PrependList
      <4>3. Overlay \in ToSet(Erase(s, h))
        BY <3>1, <3>2, <3>4, <4>1 DEF ToSet
      <4>4. Precedes(t, Status, Overlay)
        <5>1. CASE h = Status
          BY <4>2, <4>3, <5>1
        <5>2. CASE h # Status
          BY <1>3, <3>4, <4>1, <4>2, <5>2
        <5> QED
          BY <5>1, <5>2
      <4> QED
        BY <3>4, <4>1, <4>2, <4>4
    <3> HIDE DEF t
    <3>8. h \in Window /\ t \in Seq(Window)
      BY <3>3, <3>7 DEF List
    <3>9. /\ left \in UIState /\ left.children = u.children
          /\ left.fault = "none" /\ left.beforeOverlay = u.beforeOverlay
          /\ left.active = h /\ left.windows = t /\ left.obj = u.obj
          /\ left.windowName = u.windowName
      BY <1>5, <3>6, <3>8 DEF UIState
    <3>10. u.active # Overlay
      BY <2>2
    <3> QED
      BY <3>4, <3>5, <3>7, <3>9, <3>10
  <2> QED
    BY <2>1, <2>2
<1> HIDE DEF left
<1>7. r = [left EXCEPT !.children = c, !.obj[w] = Null,
                       !.windowName[w] = Null, !.dead[w] = FALSE]
  <2>1. r = [left EXCEPT !.children = Erase(left.children, w), !.obj[w] = Null,
                         !.windowName[w] = Null, !.dead[w] = FALSE]
    BY DEF RemoveWindow, left, unlisted, s
  <2> QED
    BY <1>6, <2>1 DEF c
<1>8. /\ r \in UIState /\ r.windows = left.windows /\ r.children = c
      /\ r.active = left.active /\ r.beforeOverlay = u.beforeOverlay
      /\ r.fault = "none" /\ r.obj[Overlay] = Null
      /\ r.windowName[Overlay] = Null
  <2>1. c \in Seq(Window)
    BY <1>4 DEF List
  <2>2. /\ [left.obj EXCEPT ![w] = Null] \in [Window -> Object \cup {Null}]
        /\ [left.windowName EXCEPT ![w] = Null]
             \in [Window -> FullNames \cup {Null}]
        /\ [left.dead EXCEPT ![w] = FALSE] \in [Window -> BOOLEAN]
    BY <1>2, <1>6 DEF UIState
  <2>3. r = [left EXCEPT !.children = c,
                         !.obj = [left.obj EXCEPT ![w] = Null],
                         !.windowName = [left.windowName EXCEPT ![w] = Null],
                         !.dead = [left.dead EXCEPT ![w] = FALSE]]
    BY <1>6, <1>7 DEF UIState
  <2>4. /\ [left.obj EXCEPT ![w] = Null][Overlay] = Null
        /\ [left.windowName EXCEPT ![w] = Null][Overlay] = Null
    BY <1>2, <1>6, WindowAssumption DEF UIState, Sound
  <2> HIDE DEF r
  <2> QED
    BY <1>6, <2>1, <2>2, <2>3, <2>4 DEF UIState
<1>9. Lists(r)
  BY <1>1, <1>3, <1>4, <1>6, <1>8 DEF Lists
<1>10. Focused(r)
  BY <1>1, <1>6, <1>8 DEF Focused
<1> QED
  BY <1>8, <1>9, <1>10 DEF Sound

\* getWindow keeps the invariant and gives a window that is open.
LEMMA EnsureSound ==
  ASSUME NEW u, Sound(u), u.fault = "none", NEW o \in Object,
         NEW fresh \in Allocation(u, o)
  PROVE  /\ Sound(Ensure(u, o, fresh))
         /\ Ensure(u, o, fresh).fault = "none"
<1>1. CASE Find(u, o) # Null
  BY <1>1 DEF Ensure
<1>2. CASE Find(u, o) = Null
  <2> DEFINE v == NewWindow(u, fresh, o)
             s == Append(u.windows, fresh)
             c == Append(u.children, fresh)
  <2>1. fresh \in Window /\ fresh \notin ToSet(u.children)
    BY <1>2 DEF Allocation, Live
  <2>2. u \in UIState /\ Lists(u) /\ Focused(u)
    BY DEF Sound
  <2>3. /\ List(s) /\ ToSet(s) = ToSet(u.windows) \cup {fresh}
        /\ Precedes(s, Status, Overlay)
    BY <2>1, <2>2, AppendList DEF Lists
  <2>4. List(c) /\ ToSet(c) = ToSet(u.children) \cup {fresh}
    BY <2>1, <2>2, AppendList DEF Lists
  <2> DEFINE named == [u.windowName EXCEPT ![fresh] = FullName(u, o)]
  <2>5. /\ [u.obj EXCEPT ![fresh] = o] \in [Window -> Object \cup {Null}]
        /\ named \in [Window -> FullNames \cup {Null}]
    BY <2>1, <2>2, FullNameType DEF UIState
  <2>6. v = [u EXCEPT !.windows = s, !.children = c,
                      !.obj = [u.obj EXCEPT ![fresh] = o],
                      !.windowName = named]
    BY <2>2 DEF NewWindow, UIState
  <2>13. named[Overlay] = Null
    BY <2>1, <2>2 DEF UIState, Lists, Sound
  <2> HIDE DEF v, s, c, named
  <2>7. s \in Seq(Window) /\ c \in Seq(Window)
    BY <2>3, <2>4 DEF List
  <2>8. /\ v \in UIState /\ v.windows = s /\ v.children = c
        /\ v.active = u.active /\ v.beforeOverlay = u.beforeOverlay
        /\ v.fault = "none" /\ v.obj = [u.obj EXCEPT ![fresh] = o]
        /\ v.windowName = named
    BY <2>2, <2>5, <2>6, <2>7 DEF UIState
  <2>12. v.obj[Overlay] = Null /\ v.windowName[Overlay] = Null
    BY <2>1, <2>2, <2>8, <2>13 DEF UIState, Lists, Sound
  <2>9. Lists(v) /\ Focused(v)
    BY <2>2, <2>3, <2>4, <2>8 DEF Lists, Focused
  <2>10. Ensure(u, o, fresh) = v
    BY <1>2 DEF Ensure, v
  <2> QED
    BY <2>8, <2>9, <2>10, <2>12 DEF Sound
<1> QED
  BY <1>1, <1>2

\* getWindow never gives the overlay.
LEMMA FindSound ==
  ASSUME NEW u, Sound(u), NEW o \in Object
  PROVE  Find(u, o) \in Window \cup {Null} /\ Find(u, o) # Overlay
<1> DEFINE holding == {w \in Live(u) : u.obj[w] = o}
           named == {w \in Live(u) : u.windowName[w] = FullName(u, o)}
           S == IF holding # {} THEN holding ELSE named
<1>1. List(u.children)
  BY DEF Sound, Lists
<1>2. ToSet(u.children) \subseteq Window
  BY <1>1, LenProperties, ElementOfSeq DEF ToSet, List
<1>3. Overlay \notin S
  BY ObjectAssumption, FullNameType DEF Sound
<1>4. Find(u, o) = FirstIn(u.children, S)
  BY DEF Find
<1> HIDE DEF S
<1>5. FirstIn(u.children, S) \in (ToSet(u.children) \cap S) \cup {Null}
  BY <1>1, FirstInList
<1> QED
  BY <1>2, <1>3, <1>4, <1>5, WindowAssumption

\* Window::kill and Window::resurrect touch nothing but the flag.
LEMMA FlagSound ==
  ASSUME NEW u, Sound(u), NEW w \in Window
  PROVE  Sound(Kill(u, w)) /\ Sound(Resurrect(u, w))
<1>1. u \in UIState
  BY DEF Sound
<1>2. ASSUME NEW b \in BOOLEAN
      PROVE  Sound([u EXCEPT !.dead = [u.dead EXCEPT ![w] = b]])
  <2> DEFINE v == [u EXCEPT !.dead = [u.dead EXCEPT ![w] = b]]
  <2>1. [u.dead EXCEPT ![w] = b] \in [Window -> BOOLEAN]
    BY <1>1 DEF UIState
  <2>2. /\ v \in UIState /\ v.windows = u.windows /\ v.children = u.children
        /\ v.active = u.active /\ v.beforeOverlay = u.beforeOverlay
        /\ v.fault = u.fault /\ v.obj = u.obj
        /\ v.windowName = u.windowName
    BY <1>1, <2>1 DEF UIState
  <2> HIDE DEF v
  <2> QED
    BY <2>2 DEF Sound, Lists, Focused, v
<1>3. /\ Kill(u, w) = [u EXCEPT !.dead = [u.dead EXCEPT ![w] = TRUE]]
      /\ Resurrect(u, w) = [u EXCEPT !.dead = [u.dead EXCEPT ![w] = FALSE]]
  BY <1>1 DEF Kill, Resurrect, UIState
<1> QED
  BY <1>2, <1>3

\* Renaming a user touches nothing but the user's name.
LEMMA RenameEffect ==
  ASSUME NEW u \in UIState, NEW o \in Object, NEW n \in Nick
  PROVE  LET v == [u EXCEPT !.name[o] = n] IN
         /\ v \in UIState /\ v.windows = u.windows /\ v.children = u.children
         /\ v.active = u.active /\ v.beforeOverlay = u.beforeOverlay
         /\ v.fault = u.fault /\ v.obj = u.obj /\ v.windowName = u.windowName
         /\ v.dead = u.dead
<1> DEFINE m == [u.name EXCEPT ![o] = n]
<1>1. m \in [Object -> ChannelName \cup Nick]
  BY DEF UIState
<1>2. [u EXCEPT !.name[o] = n] = [u EXCEPT !.name = m]
  BY DEF UIState
<1> HIDE DEF m
<1> QED
  BY <1>1, <1>2 DEF UIState

-----------------------------------------------------------------------------
(* The theorems.                                                            *)

\* The invariant holds of the two windows the program starts with.
LEMMA InitSound == Init => Sound(ui)
<1> SUFFICES Sound(InitialUI)
  BY DEF Init
<1> DEFINE s == <<Status, Overlay>>
<1>1. /\ s \in Seq(Window) /\ Len(s) = 2 /\ DOMAIN s = 1..2
      /\ s[1] = Status /\ s[2] = Overlay
  BY WindowAssumption
<1> HIDE DEF s
<1>2. List(s)
  BY <1>1, WindowAssumption DEF List, IsInjective
<1>3. Precedes(s, Status, Overlay) /\ {Status, Overlay} \subseteq ToSet(s)
  BY <1>1 DEF Precedes, ToSet
<1>4. InitialUI \in UIState
  <2>1. [o \in Object |-> o.name] \in [Object -> ChannelName \cup Nick]
    BY ObjectAssumption
  <2> QED
    BY <1>1, <2>1, WindowAssumption DEF InitialUI, UIState, Fault, s
<1>5. Lists(InitialUI)
  BY <1>2, <1>3 DEF InitialUI, Lists, s
<1>6. Focused(InitialUI)
  BY <1>3, WindowAssumption DEF InitialUI, Focused, s
<1>7. /\ InitialUI.obj[Overlay] = Null /\ InitialUI.windowName[Overlay] = Null
      /\ InitialUI.fault = "none"
  BY WindowAssumption DEF InitialUI
<1> QED
  BY <1>4, <1>5, <1>6, <1>7 DEF Sound

\* A key whose handler keeps the invariant keeps it, even if the key finds
\* the overlay above a window that is gone.
LEMMA KeySound ==
  ASSUME Sound(ui), Running
  PROVE  /\ Sound(Dismiss(ui))
         /\ Dismiss(ui).fault = "none"
              => /\ Dismiss(ui).active \in Window \ {Overlay}
                 /\ Dismiss(ui).active \in Live(Dismiss(ui))
<1>1. Sound(Dismiss(ui))
  BY DismissSound DEF Running
<1>2. Dismiss(ui).fault = "none" => Dismiss(ui).active # Overlay
  BY DismissSound DEF Running
<1> QED
  BY <1>1, <1>2 DEF Sound, Focused, UIState, Live

\* Every operation keeps the invariant.
LEMMA StepSound == Sound(ui) /\ [Next]_ui => Sound(ui')
<1> SUFFICES ASSUME Sound(ui), Next
             PROVE  Sound(ui')
  BY DEF Sound, UIState
<1>1. Running
  BY DEF Next, KeyOverlay, KeyNext, KeyPrevious, KeyIndex, CommandMove, OnKey,
         CommandWindowClose, RefreshStatusbar, OpenAndFocus, OpenWindow,
         KillWindow, ResurrectWindow, CloseWindow, Rename
<1> DEFINE d == Dismiss(ui)
<1>2. /\ Sound(d)
      /\ d.fault = "none" => d.active \in Window \ {Overlay} /\ d.active \in Live(d)
  BY <1>1, KeySound
<1> HIDE DEF d
<1>3. Len(ui.children) \in Nat /\ ToSet(ui.children) \subseteq Window
  BY LenProperties, ElementOfSeq DEF Sound, Lists, List, ToSet
<1>4. CASE KeyOverlay
  BY <1>1, <1>4, ToggleSound DEF KeyOverlay, Running
<1>5. CASE KeyNext
  <2>1. ui' = IF d.fault = "none" THEN NextWindow(d) ELSE d
    BY <1>5 DEF KeyNext, OnKey, d
  <2> QED
    BY <1>2, <2>1, CycleSound
<1>6. CASE KeyPrevious
  <2>1. ui' = IF d.fault = "none" THEN PreviousWindow(d) ELSE d
    BY <1>6 DEF KeyPrevious, OnKey, d
  <2> QED
    BY <1>2, <2>1, CycleSound
<1>7. ASSUME NEW n \in 0..Len(ui.children), KeyIndex(n)
      PROVE  Sound(ui')
  <2>1. ui' = IF d.fault = "none" THEN FocusIndex(d, n) ELSE d
    BY <1>7 DEF KeyIndex, OnKey, d
  <2>2. n \in Nat
    BY <1>3
  <2> QED
    BY <1>2, <2>1, <2>2, CycleSound
<1>8. ASSUME NEW n \in 0..Len(ui.children), CommandMove(n)
      PROVE  Sound(ui')
  <2>1. ui' = IF d.fault = "none" THEN MoveWindow(d, d.active, n) ELSE d
    BY <1>8 DEF CommandMove, OnKey, d
  <2>2. n \in Nat
    BY <1>3
  <2> QED
    BY <1>2, <2>1, <2>2, MoveWindowSound
<1>9. CASE CommandWindowClose
  <2>1. ui' = IF d.fault = "none"
              THEN IF CanRemove(d, d.active) THEN RemoveWindow(d, d.active) ELSE d
              ELSE d
    BY <1>9 DEF CommandWindowClose, OnKey, d
  <2>2. CASE d.fault = "none" /\ CanRemove(d, d.active)
    <3>1. d.active \notin {Status, Overlay}
      BY <2>2 DEF CanRemove
    <3> QED
      BY <1>2, <2>1, <2>2, <3>1, RemoveWindowSound
  <2>3. CASE ~(d.fault = "none" /\ CanRemove(d, d.active))
    BY <1>2, <2>1, <2>3
  <2> QED
    BY <2>2, <2>3
<1>10. CASE RefreshStatusbar
  BY <1>10, UpdateStatusbarSound DEF RefreshStatusbar
<1>11. ASSUME NEW o \in Object, OpenAndFocus(o)
       PROVE  Sound(ui')
  <2>1. PICK fresh \in Allocation(ui, o) :
          ui' = Focus(Ensure(ui, o, fresh), Find(Ensure(ui, o, fresh), o))
    BY <1>11 DEF OpenAndFocus
  <2> DEFINE u == Ensure(ui, o, fresh)
  <2>2. Sound(u) /\ u.fault = "none"
    BY <1>1, EnsureSound DEF Running
  <2> HIDE DEF u
  <2>3. Find(u, o) \in Window \cup {Null} /\ Find(u, o) # Overlay
    BY <2>2, FindSound
  <2>4. ui' = Focus(u, Find(u, o))
    BY <2>1 DEF u
  <2> QED
    BY <2>2, <2>3, <2>4, FocusSound
<1>12. ASSUME NEW o \in Object, OpenWindow(o)
       PROVE  Sound(ui')
  BY <1>1, <1>12, EnsureSound DEF OpenWindow, Running
<1>13. ASSUME NEW w \in Conversations(ui),
              KillWindow(w) \/ ResurrectWindow(w) \/ CloseWindow(w)
       PROVE  Sound(ui')
  <2>1. w \in Live(ui) /\ w \in Window /\ w \notin {Status, Overlay}
    BY <1>3 DEF Conversations, Live
  <2>2. CASE CloseWindow(w)
    BY <1>1, <2>1, <2>2, RemoveWindowSound DEF CloseWindow, Running
  <2>3. CASE KillWindow(w) \/ ResurrectWindow(w)
    BY <2>1, <2>3, FlagSound DEF KillWindow, ResurrectWindow
  <2> QED
    BY <1>13, <2>2, <2>3
<1>14. ASSUME NEW o \in Object, NEW n \in Nick, Rename(o, n)
       PROVE  Sound(ui')
  <2>1. ui' = [ui EXCEPT !.name[o] = n] /\ ui \in UIState
    BY <1>14 DEF Rename, Sound
  <2> QED
    BY <2>1, RenameEffect DEF Sound, Lists, Focused
<1> QED
  BY <1>4, <1>5, <1>6, <1>7, <1>8, <1>9, <1>10, <1>11, <1>12, <1>13, <1>14
  DEF Next

IInv == Sound(ui)

\* Whatever keys are pressed and whatever the servers send, in any order.
THEOREM SoundAlways == Spec => []IInv
<1>1. Init => IInv
  BY InitSound DEF IInv
<1>2. IInv /\ [Next]_ui => IInv'
  BY StepSound DEF IInv
<1> QED
  BY <1>1, <1>2, PTL DEF Spec

\* The state of the interface always has its type: no operation leaves a
\* pointer that never was the address of a window.
THEOREM TypeCorrect == Spec => []TypeOK
<1>1. IInv => TypeOK
  BY DEF IInv, Sound, TypeOK
<1> QED
  BY <1>1, SoundAlways, PTL

\* The recency list and the children of the swapbox never come apart, so the
\* exceptions of focusWindow and removeWindow are never thrown.
THEOREM ListsAgree == Spec => []SameWindows
<1>1. IInv => SameWindows
  BY DEF IInv, Sound, Lists, List, SameWindows, Live
<1> QED
  BY <1>1, SoundAlways, PTL

\* The overlay is active exactly while it covers a window other than itself.
THEOREM OverlayCoversAlways == Spec => []OverlayCovers
<1>1. IInv => OverlayCovers
  BY DEF IInv, Sound, Focused, OverlayCovers, Running
<1> QED
  BY <1>1, SoundAlways, PTL

-----------------------------------------------------------------------------
(* The keys that go round the windows and the command that moves one.       *)

\* As long as the covered window is open, a key finds it on the screen, and
\* the children as they were.
LEMMA DismissIntact ==
  ASSUME NEW u, Sound(u), u.fault = "none",
         u.beforeOverlay \in Live(u) \cup {Null}
  PROVE  /\ Sound(Dismiss(u))
         /\ Dismiss(u).fault = "none"
         /\ Dismiss(u).active \in Live(u) \ {Overlay}
         /\ Dismiss(u).children = u.children
<1>1. u \in UIState /\ Lists(u) /\ Focused(u)
  BY DEF Sound
<1>2. CASE u.active # Overlay
  BY <1>1, <1>2 DEF Dismiss, Focused, Live
<1>3. CASE u.active = Overlay
  <2> DEFINE w == u.beforeOverlay
             l == [u EXCEPT !.beforeOverlay = Null]
             shown == [l EXCEPT !.active = w]
             f == [shown EXCEPT !.windows = ToFront(shown.windows, w)]
  <2>1. w # Null /\ w # Overlay /\ w \in Live(u)
    BY <1>1, <1>3 DEF Focused
  <2>2. Dismiss(u) = Focus(u, w)
    BY <1>3 DEF Dismiss, Toggle
  <2>3. w \in ToSet(u.windows)
    BY <1>1, <2>1 DEF Lists, Live
  <2>4. Lift(u) = l /\ shown.windows = u.windows
    BY <1>1, <1>3 DEF Lift, UIState
  <2>5. Focus(u, w) = f
    <3> HIDE DEF w, l
    <3> QED
      BY <1>3, <2>1, <2>3, <2>4 DEF Focus
  <2>6. f.fault = "none" /\ f.active = w /\ f.children = u.children
    BY <1>1 DEF UIState
  <2> QED
    BY <2>1, <2>2, <2>5, <2>6, DismissSound
<1> QED
  BY <1>2, <1>3

\* focusWindow puts the window it is asked for on the screen.
LEMMA FocusActive ==
  ASSUME NEW u \in UIState, NEW w, w # Null, w # Overlay
  PROVE  Focus(u, w).active = w
<1> DEFINE l == Lift(u)
           v == [l EXCEPT !.active = w]
<1>1. l \in UIState /\ l.active = u.active
  BY DEF Lift, UIState
<1>2. /\ v.active = w
      /\ \A f : [v EXCEPT !.fault = f].active = w
      /\ \A f : [v EXCEPT !.windows = f].active = w
  BY <1>1 DEF UIState
<1> HIDE DEF l, v
<1>3. \/ Focus(u, w) = l /\ w = u.active
      \/ \E f : Focus(u, w) = [v EXCEPT !.fault = f]
      \/ \E f : Focus(u, w) = [v EXCEPT !.windows = f]
  BY DEF Focus, Faulty, l, v
<1> QED
  BY <1>1, <1>2, <1>3

\* Where moveWindow leaves the active window among the indexed ones, and the
\* others, with the overlay last ...
LEMMA MoveBeforeOverlay ==
  ASSUME NEW s, List(s), NEW w \in ToSet(s), w # Overlay,
         Overlay \in ToSet(s), Last(s) = Overlay, NEW n \in Nat
  PROVE  LET others == Erase(s, w)
             pos == IF n < Len(others) THEN n ELSE Len(others)
             moved == InsertAt(others, pos + 1, w)
             t == Erase(moved, Overlay)
             i == IF n < Len(t) THEN n ELSE Len(t) - 1
         IN /\ Len(t) \in Nat /\ i \in 0..(Len(t) - 1) /\ t[i + 1] = w
            /\ Erase(t, w) = Erase(Erase(s, Overlay), w)
            /\ w \in ToSet(moved)
<1> DEFINE others == Erase(s, w)
           k == Len(others)
           pos == IF n < k THEN n ELSE k
           moved == InsertAt(others, pos + 1, w)
           t == Erase(moved, Overlay)
<1>1. s \in Seq(Window) /\ DOMAIN s = 1..Len(s) /\ Len(s) \in Nat
  BY LenProperties DEF List
<1>2. s[Len(s)] = Overlay /\ w \in Window
  <2>1. \A i \in 1..Len(s) : s[i] \in Window
    BY <1>1, ElementOfSeq
  <2> QED
    BY <1>1, <2>1 DEF Last, ToSet
<1>3. /\ Position(s, w) \in 1..Len(s) /\ s[Position(s, w)] = w
      /\ List(others) /\ ToSet(others) = ToSet(s) \ {w}
      /\ k = Len(s) - 1
      /\ \A i \in 1..(Len(s) - 1) :
           others[i] = IF i < Position(s, w) THEN s[i] ELSE s[i + 1]
  BY EraseElements, EraseList
<1> HIDE DEF Position, others
<1>4. Position(s, w) # Len(s)
  BY <1>2, <1>3
<1>5. k \in Nat /\ 1 <= k /\ others[k] = Overlay
  BY <1>1, <1>2, <1>3, <1>4
<1> HIDE DEF k
<1>6. pos \in 0..k /\ pos + 1 \in 1..(k + 1)
  BY <1>5
<1> HIDE DEF pos
<1>7. List(moved) /\ ToSet(moved) = ToSet(others) \cup {w}
  BY <1>2, <1>3, <1>6, InsertList DEF k
<1>8. /\ Len(moved) = k + 1
      /\ moved[pos + 1] = w
      /\ \A i \in 1..pos : moved[i] = others[i]
      /\ \A i \in (pos + 2)..(k + 1) : moved[i] = others[i - 1]
  <2>1. others \in Seq(Window) /\ pos + 1 \in 1..(Len(others) + 1)
    BY <1>3, <1>6 DEF List, k
  <2>2. (pos + 1) - 1 = pos /\ (pos + 1) + 1 = pos + 2
    BY <1>5, <1>6
  <2>3. Len(moved) = Len(others) + 1
    BY <1>2, <2>1, InsertAtElements
  <2>4. moved[pos + 1] = w
    BY <1>2, <2>1, InsertAtElements
  <2>5. \A i \in 1..((pos + 1) - 1) : moved[i] = others[i]
    BY <1>2, <2>1, InsertAtElements
  <2>6. \A i \in ((pos + 1) + 1)..(Len(others) + 1) : moved[i] = others[i - 1]
    <3> DEFINE p == pos + 1
    <3>1. p \in 1..(Len(others) + 1) /\ moved = InsertAt(others, p, w)
      BY <2>1
    <3> HIDE DEF p, moved
    <3>2. \A i \in (p + 1)..(Len(others) + 1) :
            InsertAt(others, p, w)[i] = others[i - 1]
      <4>1. \A x \in Seq(Window) : \A q \in 1..(Len(x) + 1) :
              \A i \in (q + 1)..(Len(x) + 1) : InsertAt(x, q, w)[i] = x[i - 1]
        BY <1>2, InsertAtElements
      <4> QED
        BY <2>1, <3>1, <4>1
    <3> QED
      BY <3>1, <3>2 DEF p
  <2> QED
    BY <2>2, <2>3, <2>4, <2>5, <2>6 DEF k
<1>9. Erase(moved, w) = others
  BY <1>2, <1>3, <1>6, InsertErase DEF k
<1> HIDE DEF moved
<1>10. Overlay \in ToSet(moved) /\ w \in ToSet(moved)
  BY <1>3, <1>7
<1>11. /\ Len(t) = k
       /\ \A i \in 1..k :
            t[i] = IF i < Position(moved, Overlay) THEN moved[i]
                   ELSE moved[i + 1]
  <2>1. Len(moved) - 1 = k
    BY <1>5, <1>8
  <2> QED
    BY <1>7, <1>10, <2>1, EraseElements
<1>12. Position(moved, Overlay) = IF n < k THEN k + 1 ELSE k
  <2>1. CASE n < k
    <3>1. moved[k + 1] = Overlay
      BY <1>5, <1>6, <1>8, <2>1 DEF pos
    <3> QED
      BY <1>5, <1>7, <1>8, <2>1, <3>1, PositionIs
  <2>2. CASE ~(n < k)
    <3>1. moved[k] = Overlay
      BY <1>5, <1>6, <1>8, <2>2 DEF pos
    <3> QED
      BY <1>5, <1>7, <1>8, <2>2, <3>1, PositionIs
  <2> QED
    BY <2>1, <2>2
<1> DEFINE i == IF n < k THEN n ELSE k - 1
<1>13. i \in 0..(k - 1) /\ t[i + 1] = w
  <2>1. CASE n < k
    BY <1>5, <1>8, <1>11, <1>12, <2>1 DEF pos
  <2>2. CASE ~(n < k)
    BY <1>5, <1>8, <1>11, <1>12, <2>2 DEF pos
  <2> QED
    BY <2>1, <2>2
<1>14. Erase(t, w) = Erase(Erase(s, Overlay), w)
  <2>1. Erase(t, w) = Erase(Erase(moved, w), Overlay)
    BY <1>7, EraseCommutes
  <2>2. Erase(Erase(s, w), Overlay) = Erase(Erase(s, Overlay), w)
    BY EraseCommutes
  <2> QED
    BY <1>9, <2>1, <2>2 DEF others
<1> HIDE DEF t
<1>15. /\ Len(t) \in Nat
       /\ (IF n < Len(t) THEN n ELSE Len(t) - 1) = i
       /\ i \in 0..(Len(t) - 1)
  BY <1>5, <1>11, <1>13
<1> QED
  BY <1>10, <1>13, <1>14, <1>15 DEF t, moved, pos, k, others

\* ... and with the overlay elsewhere.
LEMMA MoveAndAppend ==
  ASSUME NEW s, List(s), NEW w \in ToSet(s), w # Overlay,
         Overlay \in ToSet(s), NEW n \in Nat
  PROVE  LET others == Erase(Erase(s, Overlay), w)
             pos == IF n < Len(others) THEN n ELSE Len(others)
             moved == InsertAt(others, pos + 1, w)
             t == Erase(Append(moved, Overlay), Overlay)
             i == IF n < Len(t) THEN n ELSE Len(t) - 1
         IN /\ Len(t) \in Nat /\ i \in 0..(Len(t) - 1) /\ t[i + 1] = w
            /\ Erase(t, w) = Erase(Erase(s, Overlay), w)
            /\ w \in ToSet(Append(moved, Overlay))
<1> DEFINE base == Erase(s, Overlay)
           others == Erase(base, w)
           k == Len(others)
           pos == IF n < k THEN n ELSE k
           moved == InsertAt(others, pos + 1, w)
           t == Erase(Append(moved, Overlay), Overlay)
<1>1. w \in Window
  <2>1. \A i \in 1..Len(s) : s[i] \in Window
    BY ElementOfSeq DEF List
  <2> QED
    BY <2>1, LenProperties DEF List, ToSet
<1>2. List(base) /\ ToSet(base) = ToSet(s) \ {Overlay}
  BY EraseList
<1> HIDE DEF base
<1>3. List(others) /\ ToSet(others) = ToSet(base) \ {w}
  BY <1>2, EraseList
<1> HIDE DEF others
<1>4. k \in Nat
  BY <1>3, LenProperties DEF List
<1>5. pos \in 0..k /\ pos + 1 \in 1..(k + 1)
  BY <1>4
<1> HIDE DEF pos
<1>6. /\ List(moved) /\ ToSet(moved) = ToSet(others) \cup {w}
      /\ Len(moved) = k + 1 /\ moved[pos + 1] = w
      /\ Erase(moved, w) = others
  <2>1. /\ List(moved) /\ ToSet(moved) = ToSet(others) \cup {w}
        /\ Erase(moved, w) = others
    BY <1>1, <1>3, <1>5, InsertList, InsertErase DEF k
  <2>2. Len(moved) = k + 1
    BY <1>1, <1>3, <1>5, InsertAtElements DEF List, k
  <2>3. moved[pos + 1] = w
    BY <1>1, <1>3, <1>5, InsertAtElements DEF List, k
  <2> QED
    BY <2>1, <2>2, <2>3
<1> HIDE DEF moved
<1>7. Overlay \notin ToSet(moved)
  BY <1>2, <1>3, <1>6
<1>8. t = moved
  BY <1>6, <1>7, InsertErase, WindowAssumption
<1>9. w \in ToSet(Append(moved, Overlay))
  BY <1>6, <1>7, AppendList, WindowAssumption
<1>10. /\ Len(t) = k + 1 /\ t[pos + 1] = w /\ Erase(t, w) = others
  BY <1>6, <1>8
<1> HIDE DEF t, k
<1>11. /\ Len(t) \in Nat
       /\ (IF n < Len(t) THEN n ELSE Len(t) - 1) = pos
       /\ pos \in 0..(Len(t) - 1)
  BY <1>4, <1>10 DEF pos
<1> QED
  BY <1>9, <1>10, <1>11 DEF t, moved, pos, k, others, base

\* What "/move" does with the active window.
LEMMA MoveEffect ==
  ASSUME NEW u, Sound(u), u.fault = "none", u.active # Overlay, NEW n \in Nat
  PROVE  LET m == MoveWindow(u, u.active, n)
             i == IF n < Len(Indexed(m)) THEN n ELSE Len(Indexed(m)) - 1
         IN /\ m \in UIState /\ m.fault = "none"
            /\ i < Len(Indexed(m)) /\ Indexed(m)[i + 1] = u.active
            /\ Erase(Indexed(m), u.active) = Erase(Indexed(u), u.active)
<1> DEFINE w == u.active
           s == u.children
           m == MoveWindow(u, w, n)
           last == Last(s) = Overlay
           others == Erase(IF last THEN s ELSE Indexed(u), w)
           pos == IF n < Len(others) THEN n ELSE Len(others)
           moved == InsertAt(others, pos + 1, w)
           c == IF last THEN moved ELSE Append(moved, Overlay)
           v == [u EXCEPT !.children = c]
           t == Erase(c, Overlay)
           i == IF n < Len(t) THEN n ELSE Len(t) - 1
<1>1. u \in UIState /\ Lists(u) /\ Focused(u)
  BY DEF Sound
<1>2. List(s) /\ w \in ToSet(s) /\ w \in Live(u) /\ w # Overlay
      /\ Overlay \in ToSet(s) /\ w \in Window
  BY <1>1 DEF Lists, Focused, Live, UIState
<1>3. /\ Len(t) \in Nat /\ i \in 0..(Len(t) - 1) /\ t[i + 1] = w
      /\ Erase(t, w) = Erase(Erase(s, Overlay), w)
      /\ w \in ToSet(c)
  <2> HIDE DEF s, w
  <2>1. CASE last
    BY <1>2, <2>1, MoveBeforeOverlay
  <2>2. CASE ~last
    <3> DEFINE rest == Erase(Erase(s, Overlay), w)
               at == IF n < Len(rest) THEN n ELSE Len(rest)
               put == Append(InsertAt(rest, at + 1, w), Overlay)
    <3>1. Indexed(u) = Erase(s, Overlay)
      BY DEF Indexed, s
    <3>2. others = rest /\ pos = at /\ c = put
      <4>1. others = rest
        BY <2>2, <3>1
      <4> QED
        BY <2>2, <4>1
    <3>3. /\ Len(Erase(put, Overlay)) \in Nat
          /\ (IF n < Len(Erase(put, Overlay)) THEN n ELSE Len(Erase(put, Overlay)) - 1)
               \in 0..(Len(Erase(put, Overlay)) - 1)
          /\ Erase(put, Overlay)[(IF n < Len(Erase(put, Overlay))
                                  THEN n ELSE Len(Erase(put, Overlay)) - 1) + 1] = w
          /\ Erase(Erase(put, Overlay), w) = rest
          /\ w \in ToSet(put)
      BY <1>2, MoveAndAppend
    <3> HIDE DEF c, put, rest
    <3>4. t = Erase(put, Overlay) /\ c = put
      BY <3>2
    <3> HIDE DEF t
    <3> QED
      BY <3>3, <3>4 DEF rest
  <2> QED
    BY <2>1, <2>2
<1>4. m = UpdateStatusbar(v)
  BY <1>2 DEF MoveWindow
<1> HIDE DEF c
<1>5. v.children = c /\ v.active = w /\ v.fault = "none"
  BY <1>1 DEF UIState
<1>6. m = v
  BY <1>2, <1>3, <1>4, <1>5 DEF UpdateStatusbar, Live
<1>7. Sound(m)
  BY <1>2, MoveWindowSound
<1>8. Indexed(m) = t
  BY <1>5, <1>6 DEF Indexed
<1> HIDE DEF m, t, v
<1>9. i < Len(t)
  BY <1>3
<1> HIDE DEF i
<1> QED
  BY <1>3, <1>5, <1>6, <1>7, <1>8, <1>9 DEF Sound, Indexed, m, i

\* After "/move n" the window is the one that Alt and the digit n reach, and
\* no other window has changed places: wherever the overlay sits, and however
\* many windows there are.
THEOREM MovedAlways == Spec => []MovedWhereAsked
<1>1. IInv => MovedWhereAsked
  <2> SUFFICES ASSUME Sound(ui), Intact
               PROVE  MovedWhereAsked
    BY DEF IInv, MovedWhereAsked
  <2> DEFINE u == Dismiss(ui)
  <2>1. Sound(u) /\ u.fault = "none" /\ u.active # Overlay
    BY DismissIntact DEF Intact, Running
  <2> SUFFICES ASSUME NEW n \in 0..Len(u.children)
               PROVE  LET m == MoveWindow(u, u.active, n)
                          i == IF n < Len(Indexed(m)) THEN n
                               ELSE Len(Indexed(m)) - 1
                      IN /\ FocusIndex([m EXCEPT !.active = Overlay], i).active
                              = u.active
                         /\ Erase(Indexed(m), u.active) =
                              Erase(Indexed(u), u.active)
                         /\ m.fault = "none"
    BY DEF MovedWhereAsked
  <2> HIDE DEF u
  <2> DEFINE m == MoveWindow(u, u.active, n)
             i == IF n < Len(Indexed(m)) THEN n ELSE Len(Indexed(m)) - 1
             x == [m EXCEPT !.active = Overlay]
  <2>2. n \in Nat
    BY LenProperties, <2>1 DEF Sound, Lists, List
  <2>3. /\ m \in UIState /\ m.fault = "none"
        /\ i < Len(Indexed(m)) /\ Indexed(m)[i + 1] = u.active
        /\ Erase(Indexed(m), u.active) = Erase(Indexed(u), u.active)
    BY <2>1, <2>2, MoveEffect
  <2> HIDE DEF m, i
  <2>4. x \in UIState /\ x.children = m.children
    BY <2>3, WindowAssumption DEF UIState
  <2> HIDE DEF x
  <2>5. Indexed(x) = Indexed(m)
    BY <2>4 DEF Indexed
  <2>6. FocusIndex(x, i) = Focus(x, u.active)
    BY <2>3, <2>5 DEF FocusIndex
  <2>7. u.active # Null
    BY <2>1, WindowAssumption DEF Sound, UIState
  <2>8. FocusIndex(x, i).active = u.active
    BY <2>1, <2>4, <2>6, <2>7, FocusActive
  <2> QED
    BY <2>3, <2>8 DEF m, i, x
<1> QED
  BY <1>1, SoundAlways, PTL

\* The next window and the previous one by their places among the children
\* are its neighbours among the windows that have an index.
LEMMA Neighbours ==
  ASSUME NEW s, List(s), NEW w \in ToSet(s), w # Overlay, Overlay \in ToSet(s)
  PROVE  LET t == Erase(s, Overlay)
             p == Position(s, w)
             q == Position(t, w)
             i == After(s, p)
             j == BeforeOf(s, p)
         IN /\ Len(t) \in Nat \ {0} /\ q \in 1..Len(t) /\ t[q] = w
            /\ s[IF s[i] = Overlay THEN After(s, i) ELSE i] = t[After(t, q)]
            /\ s[IF s[j] = Overlay THEN BeforeOf(s, j) ELSE j] =
                 t[BeforeOf(t, q)]
<1> DEFINE t == Erase(s, Overlay)
           k == Len(t)
           o == Position(s, Overlay)
           p == Position(s, w)
           q == IF p < o THEN p ELSE p - 1
           i == After(s, p)
           j == BeforeOf(s, p)
           x == IF i = o THEN After(s, i) ELSE i
           y == IF j = o THEN BeforeOf(s, j) ELSE j
<1>1. /\ s \in Seq(Window) /\ DOMAIN s = 1..Len(s) /\ Len(s) \in Nat
      /\ \A a, b \in 1..Len(s) : s[a] = s[b] => a = b
  BY LenProperties DEF List, IsInjective
<1>2. /\ o \in 1..Len(s) /\ s[o] = Overlay
      /\ List(t) /\ k = Len(s) - 1
      /\ \A a \in 1..(Len(s) - 1) : t[a] = IF a < o THEN s[a] ELSE s[a + 1]
  BY EraseElements, EraseList
<1>3. p \in 1..Len(s) /\ s[p] = w
  BY PositionFound
<1> HIDE DEF t, k, o, p, Position
<1>4. p # o
  BY <1>2, <1>3
<1>5. k \in Nat \ {0} /\ Len(s) = k + 1
  BY <1>1, <1>2, <1>3, <1>4
<1>6. q \in 1..k /\ t[q] = w
  BY <1>2, <1>3, <1>4, <1>5
<1>7. Position(t, w) = q
  BY <1>2, <1>6, PositionIs DEF k
<1>8. \A a \in 1..(k + 1) : a # o =>
         s[a] = t[IF a < o THEN a ELSE a - 1]
  BY <1>2, <1>5
<1>9. i \in 1..(k + 1) /\ j \in 1..(k + 1)
  <2>1. CASE p = 1
    BY <1>3, <1>5, <2>1 DEF After, BeforeOf
  <2>2. CASE p # 1
    BY <1>3, <1>5, <2>2 DEF After, BeforeOf
  <2> QED
    BY <2>1, <2>2
<1>10. (s[i] = Overlay <=> i = o) /\ (s[j] = Overlay <=> j = o)
  BY <1>1, <1>2, <1>5, <1>9
<1>11. s[x] = t[After(t, q)]
  <2>1. x \in 1..(k + 1) /\ x # o
    BY <1>2, <1>3, <1>4, <1>5 DEF After
  <2>2. (IF x < o THEN x ELSE x - 1) = After(t, q)
    BY <1>2, <1>3, <1>4, <1>5 DEF After, k
  <2> HIDE DEF x, q
  <2> QED
    BY <1>8, <2>1, <2>2
<1>12. s[y] = t[BeforeOf(t, q)]
  <2>1. y \in 1..(k + 1) /\ y # o
    BY <1>2, <1>3, <1>4, <1>5 DEF BeforeOf
  <2>2. (IF y < o THEN y ELSE y - 1) = BeforeOf(t, q)
    BY <1>2, <1>3, <1>4, <1>5 DEF BeforeOf, k
  <2> HIDE DEF y, q
  <2> QED
    BY <1>8, <2>1, <2>2
<1> HIDE DEF i, j, q
<1> QED
  BY <1>5, <1>6, <1>7, <1>10, <1>11, <1>12 DEF t, k, p, i, j

\* The states in which the keys go round, with the children c.
Rounds(c) ==
  {u \in UIState : /\ Sound(u) /\ u.fault = "none"
                   /\ u.active # Overlay /\ u.children = c}

\* What the two keys show.
LEMMA RoundStep ==
  ASSUME NEW c, NEW u \in Rounds(c)
  PROVE  LET t == Erase(c, Overlay)
             q == Position(t, u.active)
         IN /\ List(t) /\ ToSet(t) = ToSet(c) \ {Overlay}
            /\ Len(t) \in Nat \ {0} /\ q \in 1..Len(t) /\ t[q] = u.active
            /\ NextWindow(u) \in Rounds(c)
            /\ NextWindow(u).active = t[After(t, q)]
            /\ PreviousWindow(u).active = t[BeforeOf(t, q)]
<1> DEFINE t == Erase(c, Overlay)
           q == Position(t, u.active)
<1>1. /\ u \in UIState /\ Sound(u) /\ u.fault = "none" /\ u.children = c
      /\ Lists(u) /\ Focused(u) /\ u.active # Overlay
  BY DEF Rounds, Sound
<1>2. List(c) /\ u.active \in ToSet(c) /\ Overlay \in ToSet(c)
  BY <1>1 DEF Lists, Focused
<1>3. List(t) /\ ToSet(t) = ToSet(c) \ {Overlay}
  BY <1>2, EraseList
<1>4. \A w \in Live(u) \ {Overlay} :
         Focus(u, w) \in Rounds(c) /\ Focus(u, w).active = w
  <2> SUFFICES ASSUME NEW w \in Live(u) \ {Overlay}
               PROVE  Focus(u, w) \in Rounds(c) /\ Focus(u, w).active = w
    OBVIOUS
  <2>1. w \in Window /\ w # Overlay /\ w # Null
    BY <1>1, LenProperties, ElementOfSeq, WindowAssumption
       DEF Lists, List, Live, ToSet
  <2>2. Sound(Focus(u, w)) /\ Focus(u, w).active = w
    BY <1>1, <2>1, FocusSound, FocusActive
  <2>3. Focus(u, w).fault = "none" /\ Focus(u, w).children = c
    <3> DEFINE l == Lift(u)
               v == [l EXCEPT !.active = w]
    <3>1. /\ l.fault = "none" /\ l.children = c
          /\ v.fault = "none" /\ v.children = c
          /\ \A f : /\ [v EXCEPT !.windows = f].fault = "none"
                    /\ [v EXCEPT !.windows = f].children = c
      BY <1>1 DEF Lift, UIState
    <3>2. w \in ToSet(u.windows)
      BY <1>1 DEF Lists, Live
    <3> HIDE DEF l, v
    <3>3. Focus(u, w) = l \/ Focus(u, w) = [v EXCEPT !.windows = ToFront(@, w)]
      <4>1. u.windows = v.windows
        BY <1>1 DEF Lift, UIState, l, v
      <4> QED
        BY <2>1, <3>2, <4>1 DEF Focus, l, v
    <3> QED
      BY <3>1, <3>3
  <2> QED
    BY <2>1, <2>2, <2>3 DEF Rounds, Sound
<1>5. PICK w \in Live(u) \ {Overlay} : NextWindow(u) = Focus(u, w)
  BY <1>1, CycleFocuses
<1>6. PICK v \in Live(u) \ {Overlay} : PreviousWindow(u) = Focus(u, v)
  BY <1>1, CycleFocuses
<1> DEFINE p == Position(c, u.active)
           i == After(c, p)
           j == BeforeOf(c, p)
           x == c[IF c[i] = Overlay THEN After(c, i) ELSE i]
           y == c[IF c[j] = Overlay THEN BeforeOf(c, j) ELSE j]
<1>7. /\ Len(t) \in Nat \ {0} /\ q \in 1..Len(t) /\ t[q] = u.active
      /\ x = t[After(t, q)] /\ y = t[BeforeOf(t, q)]
  BY <1>1, <1>2, Neighbours
<1>8. NextWindow(u) = Focus(u, x) /\ PreviousWindow(u) = Focus(u, y)
  BY <1>1 DEF NextWindow, PreviousWindow
<1>9. t[After(t, q)] \in Live(u) \ {Overlay}
      /\ t[BeforeOf(t, q)] \in Live(u) \ {Overlay}
  <2> HIDE DEF t, q
  <2>1. DOMAIN t = 1..Len(t)
    BY <1>3, LenProperties DEF List
  <2>2. After(t, q) \in 1..Len(t) /\ BeforeOf(t, q) \in 1..Len(t)
    <3>1. Len(t) \in Nat \ {0} /\ q \in 1..Len(t)
      BY <1>7
    <3> QED
      BY <3>1 DEF After, BeforeOf
  <2>3. \A a \in 1..Len(t) : t[a] \in ToSet(t)
    BY <2>1 DEF ToSet
  <2>4. ToSet(t) = Live(u) \ {Overlay}
    BY <1>1, <1>3 DEF Live
  <2> QED
    BY <2>2, <2>3, <2>4
<1> HIDE DEF t, q, x, y
<1> QED
  BY <1>3, <1>4, <1>7, <1>8, <1>9 DEF t, q

\* shown goes once round t and comes back to where it began, and a step back
\* from the first window leads there too.
RoundMade(t, k, shown, p0) ==
  /\ {shown[n] : n \in 1..k} = ToSet(t)
  /\ shown[k] = t[p0]
  /\ t[BeforeOf(t, Position(t, shown[1]))] = t[p0]

\* Going round a list of k windows from the place p0: the place after n steps.
LEMMA RoundTrip ==
  ASSUME NEW t, List(t), NEW k \in Nat \ {0}, Len(t) = k,
         NEW p0 \in 1..k, NEW shown \in [0..k -> Window],
         shown[0] = t[p0],
         \A n \in 1..k :
           shown[n] = t[After(t, Position(t, shown[n - 1]))]
  PROVE  RoundMade(t, k, shown, p0)
<1> DEFINE at(n) == IF p0 + n <= k THEN p0 + n ELSE p0 + n - k
           T == {n \in Nat : n \in 0..k /\ shown[n] # t[at(n)]}
<1>1. /\ k \in Nat \ {0} /\ p0 \in 1..k /\ DOMAIN t = 1..k
      /\ \A n \in 0..k : at(n) \in 1..k
  BY LenProperties DEF List
<1>2. ASSUME NEW n \in 1..k
      PROVE  After(t, at(n - 1)) = at(n)
  <2>1. at(n - 1) = k <=> p0 + n = k + 1
    BY <1>1
  <2>2. at(n) = IF p0 + n = k + 1 THEN 1 ELSE at(n - 1) + 1
    BY <1>1
  <2> HIDE DEF at
  <2> QED
    BY <2>1, <2>2 DEF After
<1>3. T = {}
  <2> SUFFICES ASSUME T # {}
               PROVE  FALSE
    OBVIOUS
  <2>1. PICK n \in T : \A j \in T : n <= j
    <3>1. T \subseteq Nat
      OBVIOUS
    <3> HIDE DEF T
    <3> QED
      BY <3>1, LeastNatural
  <2>2. n # 0
    BY <1>1, <2>1
  <2>3. n \in 1..k /\ n - 1 \in 0..k /\ n - 1 \notin T
    BY <1>1, <2>1, <2>2
  <2>4. shown[n - 1] = t[at(n - 1)]
    BY <2>3
  <2>5. Position(t, t[at(n - 1)]) = at(n - 1)
    BY <1>1, <2>3, PositionIs
  <2>6. shown[n] = t[After(t, at(n - 1))]
    BY <2>3, <2>4, <2>5
  <2> QED
    BY <1>2, <2>1, <2>3, <2>6
<1>4. ASSUME NEW n \in 0..k
      PROVE  shown[n] = t[at(n)]
  <2> HIDE DEF at
  <2>1. n \in Nat
    BY <1>1
  <2>2. n \notin T
    BY <1>3
  <2> QED
    BY <2>1, <2>2
<1>5. \A q \in 1..k : \E n \in 1..k : at(n) = q
  <2> SUFFICES ASSUME NEW q \in 1..k
               PROVE  \E n \in 1..k : at(n) = q
    OBVIOUS
  <2>1. CASE p0 < q
    <3>1. q - p0 \in 1..k /\ at(q - p0) = q
      BY <1>1, <2>1
    <3> QED
      BY <3>1
  <2>2. CASE ~(p0 < q)
    <3>1. q - p0 + k \in 1..k /\ at(q - p0 + k) = q
      BY <1>1, <2>2
    <3> QED
      BY <3>1
  <2> QED
    BY <2>1, <2>2
<1>6. at(k) = p0 /\ k \in 0..k /\ 1 \in 0..k
  BY <1>1
<1>7. BeforeOf(t, at(1)) = p0
  <2>1. CASE p0 + 1 <= k
    <3>1. at(1) = p0 + 1 /\ p0 + 1 # 1 /\ (p0 + 1) - 1 = p0
      BY <1>1, <2>1
    <3> HIDE DEF at
    <3> QED
      BY <3>1 DEF BeforeOf
  <2>2. CASE ~(p0 + 1 <= k)
    <3>1. at(1) = 1 /\ p0 = k
      BY <1>1, <2>2
    <3> HIDE DEF at
    <3> QED
      BY <3>1 DEF BeforeOf
  <2> QED
    BY <2>1, <2>2
<1> HIDE DEF at
<1>8. {shown[n] : n \in 1..k} = ToSet(t)
  <2>1. \A n \in 1..k : n \in 0..k
    BY <1>1
  <2> QED
    <3>1. {shown[n] : n \in 1..k} \subseteq ToSet(t)
      BY <1>1, <1>4, <2>1 DEF ToSet
    <3>2. ASSUME NEW q \in 1..k
          PROVE  t[q] \in {shown[n] : n \in 1..k}
      <4>1. PICK n \in 1..k : at(n) = q
        BY <1>5
      <4>2. shown[n] = t[q]
        BY <1>4, <2>1, <4>1
      <4> QED
        BY <4>2
    <3>3. ToSet(t) \subseteq {shown[n] : n \in 1..k}
      BY <1>1, <3>2 DEF ToSet
    <3> QED
      BY <3>1, <3>3
<1>9. Position(t, shown[1]) = at(1)
  BY <1>1, <1>4, <1>6, PositionIs
<1> QED
  BY <1>4, <1>6, <1>7, <1>8, <1>9 DEF RoundMade

\* Pressing the key for the next window again and again.
LEMMA Presses ==
  ASSUME NEW c, NEW a \in Rounds(c), NEW k \in Nat
  PROVE  LET press[n \in 0..k] == IF n = 0 THEN a ELSE NextWindow(press[n - 1])
         IN /\ press \in [0..k -> Rounds(c)]
            /\ press[0] = a
            /\ \A n \in 1..k : press[n] = NextWindow(press[n - 1])
<1> DEFINE S == Rounds(c)
           step == [p \in Nat \X S |-> NextWindow(p[2])]
           Pressed(f) == f = [n \in 0..k |->
                                IF n = 0 THEN a ELSE NextWindow(f[n - 1])]
           press == CHOOSE f : Pressed(f)
<1>1. \A u \in S : NextWindow(u) \in S
  BY RoundStep
<1> HIDE DEF S
<1>2. step \in [Nat \X S -> S]
  BY <1>1
<1>3. PICK f : Goes(f, S, a, step, k)
  <2>1. a \in S
    BY DEF S
  <2> HIDE DEF step
  <2> QED
    BY <1>2, <2>1, Iterates
<1>4. \A n \in 1..k : f[n] = NextWindow(f[n - 1])
  <2> SUFFICES ASSUME NEW n \in 1..k
               PROVE  f[n] = NextWindow(f[n - 1])
    OBVIOUS
  <2>1. n - 1 \in 0..k /\ n \in Nat
    OBVIOUS
  <2>2. <<n, f[n - 1]>> \in Nat \X S
    BY <1>3, <2>1 DEF Goes
  <2> QED
    BY <1>3, <2>2 DEF Goes
<1>5. Pressed(f)
  <2>1. \A n \in 0..k : f[n] = IF n = 0 THEN a ELSE NextWindow(f[n - 1])
    BY <1>3, <1>4 DEF Goes
  <2> QED
    BY <1>3, <2>1 DEF Goes
<1>6. Pressed(press)
  <2> HIDE DEF Pressed
  <2> QED
    BY <1>5
<1> HIDE DEF press
<1>7. /\ DOMAIN press = 0..k
      /\ \A n \in 0..k : press[n] = IF n = 0 THEN a ELSE NextWindow(press[n - 1])
  BY <1>6
<1>8. /\ press[0] = a
      /\ \A n \in 1..k : press[n] = NextWindow(press[n - 1])
  BY <1>7
<1>9. \A n \in 0..k : press[n] \in S
  <2> DEFINE T == {n \in Nat : n \in 0..k /\ press[n] \notin S}
  <2> SUFFICES ASSUME T # {}
               PROVE  FALSE
    OBVIOUS
  <2>1. PICK n \in T : \A j \in T : n <= j
    <3>1. T \subseteq Nat
      OBVIOUS
    <3> HIDE DEF T
    <3> QED
      BY <3>1, LeastNatural
  <2>2. n # 0
    BY <1>8, <2>1 DEF S
  <2>3. n \in 1..k /\ n - 1 \in 0..k /\ n - 1 \notin T
    BY <2>1, <2>2
  <2> QED
    BY <1>1, <1>8, <2>1, <2>3
<1>10. press \in [0..k -> S]
  BY <1>6, <1>9
<1> QED
  BY <1>8, <1>10 DEF press, S

\* The keys for the next and the previous window go round all windows, however
\* many there are and wherever the overlay sits among the children.
THEOREM CycleAlways == Spec => []CycleVisitsAll
<1>1. IInv => CycleVisitsAll
  <2> SUFFICES ASSUME Sound(ui), Intact
               PROVE  CycleVisitsAll
    <3>1. ~Intact => CycleVisitsAll
      BY DEF CycleVisitsAll
    <3> QED
      BY <3>1 DEF IInv
  <2> DEFINE c == ui.children
             a == Dismiss(ui)
             t == Indexed(ui)
             k == Len(t)
             press[n \in 0..k] ==
               IF n = 0 THEN a ELSE NextWindow(press[n - 1])
  <2>1. a \in Rounds(c)
    BY DismissIntact DEF Intact, Running, Rounds, Sound
  <2>2. t = Erase(c, Overlay)
    BY DEF Indexed
  <2> HIDE DEF a, c, t
  <2>3. /\ List(t) /\ ToSet(t) = ToSet(c) \ {Overlay}
        /\ k \in Nat \ {0} /\ Position(t, a.active) \in 1..k
        /\ t[Position(t, a.active)] = a.active
    BY <2>1, <2>2, RoundStep
  <2>4. k \in Nat
    BY <2>3
  <2>5. /\ press \in [0..k -> Rounds(c)] /\ press[0] = a
        /\ \A n \in 1..k : press[n] = NextWindow(press[n - 1])
    <3> HIDE DEF k
    <3> QED
      BY <2>1, <2>4, Presses
  <2> DEFINE shown == [n \in 0..k |-> press[n].active]
  <2> HIDE DEF press
  <2>6. shown \in [0..k -> Window]
    <3>1. \A n \in 0..k : press[n].active \in Window
      BY <2>5 DEF Rounds, UIState
    <3> QED
      BY <3>1
  <2>7. \A n \in 1..k : shown[n] = t[After(t, Position(t, shown[n - 1]))]
    <3> SUFFICES ASSUME NEW n \in 1..k
                 PROVE  shown[n] = t[After(t, Position(t, shown[n - 1]))]
      OBVIOUS
    <3>1. n \in 0..k /\ n - 1 \in 0..k
      BY <2>4
    <3>2. press[n - 1] \in Rounds(c) /\ press[n] = NextWindow(press[n - 1])
      BY <2>5, <3>1
    <3>3. press[n].active = t[After(t, Position(t, press[n - 1].active))]
      BY <2>2, <3>2, RoundStep
    <3> QED
      BY <3>1, <3>3
  <2>8. /\ 0 \in 0..k /\ 1 \in 0..k /\ k \in 0..k
        /\ \A n \in 1..k : n \in 0..k
    BY <2>3
  <2>9. /\ shown[0] = t[Position(t, a.active)] /\ shown[0] = a.active
        /\ shown[k] = press[k].active /\ shown[1] = press[1].active
        /\ {shown[n] : n \in 1..k} = {press[n].active : n \in 1..k}
    BY <2>3, <2>5, <2>8
  <2>10. PreviousWindow(press[1]).active =
           t[BeforeOf(t, Position(t, press[1].active))]
    BY <2>2, <2>5, <2>8, RoundStep
  <2> HIDE DEF shown
  <2> Len(t) = k
    OBVIOUS
  <2> HIDE DEF k
  <2>11. /\ {shown[n] : n \in 1..k} = ToSet(t)
         /\ shown[k] = t[Position(t, a.active)]
         /\ t[BeforeOf(t, Position(t, shown[1]))] = t[Position(t, a.active)]
    <3> DEFINE p == Position(t, a.active)
    <3>1. p \in 1..k /\ shown[0] = t[p]
      BY <2>3, <2>9
    <3> HIDE DEF p
    <3>2. RoundMade(t, k, shown, p)
      BY <2>3, <2>6, <2>7, <3>1, RoundTrip
    <3> QED
      BY <3>2 DEF RoundMade, p
  <2>12. ToSet(t) = Live(ui) \ {Overlay}
    BY <2>3 DEF Live, c
  <2>13. /\ {press[n].active : n \in 1..k} = Live(ui) \ {Overlay}
         /\ press[k].active = press[0].active
         /\ PreviousWindow(press[1]).active = press[0].active
    BY <2>3, <2>5, <2>9, <2>10, <2>11, <2>12
  <2> QED
    BY <2>13 DEF CycleVisitsAll, press, a, k, t
<1> QED
  BY <1>1, SoundAlways, PTL
-----------------------------------------------------------------------------
(* The windows keep the promise of FocusHistory, for any number of windows  *)
(* and conversations: every step of Interface is a step of FocusHistory or  *)
(* changes nothing that FocusHistory speaks of.                             *)

\* The windows in front of the overlay: those that have been looked at.
Visited(s) == SubSeq(s, 1, Position(s, Overlay) - 1)

-----------------------------------------------------------------------------
(* More facts about lists.                                                  *)

\* The part of a list up to some place is a list.
LEMMA PrefixList ==
  ASSUME NEW s, List(s), NEW n \in 0..Len(s)
  PROVE  /\ List(SubSeq(s, 1, n)) /\ Len(SubSeq(s, 1, n)) = n
         /\ \A i \in 1..n : SubSeq(s, 1, n)[i] = s[i]
<1> DEFINE t == SubSeq(s, 1, n)
<1>1. DOMAIN s = 1..Len(s) /\ Len(s) \in Nat /\ s \in Seq(Window)
  BY LenProperties DEF List
<1>2. \A i \in 1..n : s[i] \in Window
  BY <1>1, ElementOfSeq
<1>3. /\ t \in Seq(Window) /\ Len(t) = n
      /\ \A i \in 1..n : t[i] = s[i]
  BY <1>1, <1>2, SubSeqProperties
<1> HIDE DEF t
<1>4. DOMAIN t = 1..n
  BY <1>3, LenProperties
<1>5. IsInjective(t)
  BY <1>1, <1>3, <1>4 DEF List, IsInjective
<1> QED
  BY <1>3, <1>5 DEF List, t

\* RemoveFirst, in which FocusHistory is written, erases.
LEMMA RemoveFirstErases ==
  ASSUME NEW s, List(s), NEW w
  PROVE  History!RemoveFirst(s, w) = Erase(s, w)
<1>1. s \in Seq(Window) /\ DOMAIN s = 1..Len(s) /\ Len(s) \in Nat
  BY LenProperties DEF List
<1>2. CASE w \notin ToSet(s)
  BY <1>1, <1>2 DEF History!RemoveFirst, Erase, ToSet
<1>3. CASE w \in ToSet(s)
  <2> DEFINE p == Position(s, w)
             at == {i \in 1..Len(s) : s[i] = w}
  <2>1. p \in 1..Len(s) /\ s[p] = w
    BY <1>3, PositionFound
  <2> HIDE DEF p
  <2>2. at = {p}
    BY <1>1, <2>1 DEF List, IsInjective
  <2>3. History!RemoveFirst(s, w) =
          RemoveAt(s, CHOOSE x \in at : \A y \in at : x <= y)
    BY <1>3, <2>1
    DEF History!RemoveFirst, History!SelectInSeq, History!Min,
        History!RemoveAt, RemoveAt
  <2> HIDE DEF at
  <2>4. (CHOOSE x \in at : \A y \in at : x <= y) = p
    BY <2>1, <2>2
  <2> QED
    BY <1>3, <2>3, <2>4 DEF Erase, p
<1> QED
  BY <1>2, <1>3

\* Erasing a window other than the overlay erases it from the front as well.
LEMMA VisitedErase ==
  ASSUME NEW s, List(s), Overlay \in ToSet(s), NEW w, w # Overlay
  PROVE  /\ List(Visited(s))
         /\ Visited(Erase(s, w)) = Erase(Visited(s), w)
<1> DEFINE q == Position(s, Overlay)
           p == Position(s, w)
           t == Erase(s, w)
           f == Visited(s)
<1>1. s \in Seq(Window) /\ DOMAIN s = 1..Len(s) /\ Len(s) \in Nat
  BY LenProperties DEF List
<1>2. q \in 1..Len(s) /\ s[q] = Overlay
  BY PositionFound
<1>3. f = SubSeq(s, 1, q - 1)
  BY DEF Visited
<1> HIDE DEF q, f
<1>4. q - 1 \in 0..Len(s)
  BY <1>1, <1>2
<1>5. /\ List(f) /\ Len(f) = q - 1
      /\ \A i \in 1..(q - 1) : f[i] = s[i]
  BY <1>3, <1>4, PrefixList
<1>6. DOMAIN f = 1..(q - 1)
  BY <1>5, LenProperties DEF List
<1>7. CASE w \notin ToSet(s)
  <2>1. t = s
    BY <1>7 DEF Erase
  <2>2. w \notin ToSet(f)
    BY <1>1, <1>2, <1>5, <1>6, <1>7 DEF ToSet
  <2> QED
    BY <1>5, <2>1, <2>2 DEF Erase, f
<1>8. CASE w \in ToSet(s)
  <2>1. /\ p \in 1..Len(s) /\ s[p] = w
        /\ t \in Seq(Window) /\ Len(t) = Len(s) - 1
        /\ \A i \in 1..(Len(s) - 1) : t[i] = IF i < p THEN s[i] ELSE s[i + 1]
    BY <1>8, EraseElements
  <2>2. List(t)
    BY EraseList
  <2> HIDE DEF p, t
  <2>3. p # q
    BY <1>2, <2>1
  <2>4. CASE p < q
    <3>1. q - 1 \in 1..Len(t) /\ t[q - 1] = Overlay
      BY <1>1, <1>2, <2>1, <2>4
    <3>2. Position(t, Overlay) = q - 1
      BY <2>2, <3>1, PositionIs
    <3>3. q - 2 \in 0..Len(t)
      BY <1>1, <1>2, <2>1, <2>4
    <3>4. /\ List(SubSeq(t, 1, q - 2)) /\ Len(SubSeq(t, 1, q - 2)) = q - 2
          /\ \A i \in 1..(q - 2) : SubSeq(t, 1, q - 2)[i] = t[i]
      BY <2>2, <3>3, PrefixList
    <3>5. p \in 1..Len(f) /\ f[p] = w
      BY <1>1, <1>2, <1>5, <2>1, <2>4
    <3>6. Position(f, w) = p /\ w \in ToSet(f)
      BY <1>5, <1>6, <3>5, PositionIs DEF ToSet
    <3>7. /\ Erase(f, w) \in Seq(Window) /\ Len(Erase(f, w)) = q - 2
          /\ \A i \in 1..(q - 2) :
               Erase(f, w)[i] = IF i < p THEN f[i] ELSE f[i + 1]
      <4>1. Len(f) - 1 = q - 2
        BY <1>2, <1>5
      <4> QED
        BY <1>5, <3>6, <4>1, EraseElements
    <3>8. \A i \in 1..(q - 2) : SubSeq(t, 1, q - 2)[i] = Erase(f, w)[i]
      <4> SUFFICES ASSUME NEW i \in 1..(q - 2)
                   PROVE  SubSeq(t, 1, q - 2)[i] = Erase(f, w)[i]
        OBVIOUS
      <4>1. i \in 1..(Len(s) - 1) /\ i \in 1..(q - 1) /\ i + 1 \in 1..(q - 1)
        BY <1>1, <1>2
      <4>2. SubSeq(t, 1, q - 2)[i] = IF i < p THEN s[i] ELSE s[i + 1]
        BY <2>1, <3>4, <4>1
      <4> QED
        BY <1>5, <3>7, <4>1, <4>2
    <3>9. SubSeq(t, 1, q - 2) = Erase(f, w)
      BY <3>4, <3>7, <3>8, SeqEqual DEF List
    <3>10. (q - 1) - 1 = q - 2
      BY <1>2
    <3> QED
      BY <1>5, <3>2, <3>9, <3>10 DEF Visited, f, t
  <2>5. CASE q < p
    <3>1. q \in 1..Len(t) /\ t[q] = Overlay
      BY <1>1, <1>2, <2>1, <2>5
    <3>2. Position(t, Overlay) = q
      BY <2>2, <3>1, PositionIs
    <3>3. q - 1 \in 0..Len(t)
      BY <1>1, <1>2, <2>1, <2>5
    <3>4. /\ List(SubSeq(t, 1, q - 1)) /\ Len(SubSeq(t, 1, q - 1)) = q - 1
          /\ \A i \in 1..(q - 1) : SubSeq(t, 1, q - 1)[i] = t[i]
      BY <2>2, <3>3, PrefixList
    <3>5. \A i \in 1..(q - 1) : SubSeq(t, 1, q - 1)[i] = f[i]
      BY <1>1, <1>2, <1>5, <2>1, <2>5, <3>4
    <3>6. SubSeq(t, 1, q - 1) = f
      BY <1>5, <3>4, <3>5, SeqEqual DEF List
    <3>7. w \notin ToSet(f)
      <4>1. \A i \in 1..(q - 1) : s[i] # w
        BY <1>1, <1>2, <2>1, <2>5 DEF List, IsInjective
      <4> QED
        BY <1>5, <1>6, <4>1 DEF ToSet
    <3> QED
      BY <1>5, <3>2, <3>6, <3>7 DEF Visited, Erase, f, t
  <2> QED
    BY <1>2, <2>1, <2>3, <2>4, <2>5
<1> QED
  BY <1>7, <1>8

\* push_front adds the window to the front.
LEMMA VisitedPrepend ==
  ASSUME NEW s, List(s), Overlay \in ToSet(s),
         NEW w \in Window \ {Overlay}, w \notin ToSet(s)
  PROVE  Visited(<<w>> \o s) = <<w>> \o Visited(s)
<1> DEFINE q == Position(s, Overlay)
           t == <<w>> \o s
           f == Visited(s)
<1>1. s \in Seq(Window) /\ DOMAIN s = 1..Len(s) /\ Len(s) \in Nat
  BY LenProperties DEF List
<1>2. q \in 1..Len(s) /\ s[q] = Overlay
  BY PositionFound
<1>3. f = SubSeq(s, 1, q - 1)
  BY DEF Visited
<1>4. List(t)
  BY PrependList
<1>5. /\ Len(t) = Len(s) + 1
      /\ \A i \in 1..(Len(s) + 1) : t[i] = IF i = 1 THEN w ELSE s[i - 1]
  BY <1>1
<1> HIDE DEF q, f, t
<1>6. /\ List(f) /\ Len(f) = q - 1 /\ \A i \in 1..(q - 1) : f[i] = s[i]
  <2>1. q - 1 \in 0..Len(s)
    BY <1>1, <1>2
  <2> QED
    BY <1>3, <2>1, PrefixList
<1>7. Position(t, Overlay) = q + 1
  <2>1. q + 1 \in 1..Len(t) /\ t[q + 1] = Overlay
    BY <1>1, <1>2, <1>5
  <2> QED
    BY <1>4, <2>1, PositionIs
<1>8. /\ List(SubSeq(t, 1, q)) /\ Len(SubSeq(t, 1, q)) = q
      /\ \A i \in 1..q : SubSeq(t, 1, q)[i] = t[i]
  <2>1. q \in 0..Len(t)
    BY <1>1, <1>2, <1>5
  <2> QED
    BY <1>4, <2>1, PrefixList
<1>9. /\ <<w>> \o f \in Seq(Window) /\ Len(<<w>> \o f) = q
      /\ \A i \in 1..q : (<<w>> \o f)[i] = IF i = 1 THEN w ELSE f[i - 1]
  BY <1>2, <1>6 DEF List
<1>10. \A i \in 1..q : SubSeq(t, 1, q)[i] = (<<w>> \o f)[i]
  <2> SUFFICES ASSUME NEW i \in 1..q
               PROVE  SubSeq(t, 1, q)[i] = (<<w>> \o f)[i]
    OBVIOUS
  <2>1. i \in 1..(Len(s) + 1)
    BY <1>1, <1>2
  <2>2. CASE i = 1
    BY <1>5, <1>8, <1>9, <2>1, <2>2
  <2>3. CASE i # 1
    <3>1. i - 1 \in 1..(q - 1)
      BY <1>2, <2>3
    <3> QED
      BY <1>5, <1>6, <1>8, <1>9, <2>1, <2>3, <3>1
  <2> QED
    BY <2>2, <2>3
<1>11. SubSeq(t, 1, q) = <<w>> \o f
  BY <1>8, <1>9, <1>10, SeqEqual DEF List
<1>12. (q + 1) - 1 = q
  BY <1>2
<1> QED
  BY <1>7, <1>11, <1>12 DEF Visited, t, f

\* push_back adds nothing to the front.
LEMMA VisitedAppend ==
  ASSUME NEW s, List(s), Overlay \in ToSet(s),
         NEW w \in Window, w \notin ToSet(s)
  PROVE  Visited(Append(s, w)) = Visited(s)
<1> DEFINE q == Position(s, Overlay)
           t == Append(s, w)
<1>1. s \in Seq(Window) /\ DOMAIN s = 1..Len(s) /\ Len(s) \in Nat
  BY LenProperties DEF List
<1>2. q \in 1..Len(s) /\ s[q] = Overlay
  BY PositionFound
<1>3. List(t)
  BY AppendList
<1>4. Len(t) = Len(s) + 1 /\ \A i \in 1..Len(s) : t[i] = s[i]
  BY <1>1, AppendProperties
<1> HIDE DEF q, t
<1>5. Position(t, Overlay) = q
  <2>1. q \in 1..Len(t) /\ t[q] = Overlay
    BY <1>1, <1>2, <1>4
  <2> QED
    BY <1>3, <2>1, PositionIs
<1>6. /\ List(SubSeq(t, 1, q - 1)) /\ Len(SubSeq(t, 1, q - 1)) = q - 1
      /\ \A i \in 1..(q - 1) : SubSeq(t, 1, q - 1)[i] = t[i]
  <2>1. q - 1 \in 0..Len(t)
    BY <1>1, <1>2, <1>4
  <2> QED
    BY <1>3, <2>1, PrefixList
<1>7. /\ List(SubSeq(s, 1, q - 1)) /\ Len(SubSeq(s, 1, q - 1)) = q - 1
      /\ \A i \in 1..(q - 1) : SubSeq(s, 1, q - 1)[i] = s[i]
  <2>1. q - 1 \in 0..Len(s)
    BY <1>1, <1>2
  <2> QED
    BY <2>1, PrefixList
<1>8. \A i \in 1..(q - 1) : i \in 1..Len(s)
  BY <1>1, <1>2
<1>9. SubSeq(t, 1, q - 1) = SubSeq(s, 1, q - 1)
  BY <1>4, <1>6, <1>7, <1>8, SeqEqual DEF List
<1> QED
  BY <1>5, <1>9 DEF Visited, q, t

\* The head of the recency list: neither it nor the front is ever empty.
LEMMA VisitedHead ==
  ASSUME NEW s, List(s), Precedes(s, Status, Overlay)
  PROVE  /\ s # <<>> /\ Head(s) \in ToSet(s) \ {Overlay}
         /\ Visited(s) # <<>> /\ Head(Visited(s)) = Head(s)
         /\ Head(s) = s[1] /\ 1 \in 1..Len(s)
<1> DEFINE q == Position(s, Overlay)
           f == SubSeq(s, 1, q - 1)
<1>1. s \in Seq(Window) /\ DOMAIN s = 1..Len(s) /\ Len(s) \in Nat
  BY LenProperties DEF List
<1>2. PICK i \in 1..Len(s), j \in 1..Len(s) :
        i < j /\ s[i] = Status /\ s[j] = Overlay
  BY <1>1 DEF Precedes
<1>3. q = j
  BY <1>2, PositionIs
<1> HIDE DEF q
<1>4. 1 \in 1..Len(s) /\ 1 <= q - 1 /\ q - 1 \in 0..Len(s)
  BY <1>1, <1>2, <1>3
<1>5. /\ f \in Seq(Window) /\ Len(f) = q - 1
      /\ \A k \in 1..(q - 1) : f[k] = s[k]
  BY <1>4, PrefixList DEF List
<1> HIDE DEF f
<1>6. Head(s) = s[1] /\ s # <<>>
  BY <1>1, <1>4
<1>7. Head(f) = f[1] /\ f # <<>>
  BY <1>1, <1>4, <1>5
<1>8. f[1] = s[1]
  BY <1>4, <1>5
<1>9. s[1] \in ToSet(s)
  BY <1>1, <1>4 DEF ToSet
<1>10. s[1] # Overlay
  BY <1>1, <1>2, <1>4 DEF List, IsInjective
<1> QED
  BY <1>4, <1>6, <1>7, <1>8, <1>9, <1>10 DEF Visited, f, q

\* Moving the first window to the front changes nothing.
LEMMA MoveHead ==
  ASSUME NEW s, List(s), s # <<>>
  PROVE  ToFront(s, Head(s)) = s
<1> DEFINE h == s[1]
           t == Erase(s, h)
<1>1. s \in Seq(Window) /\ DOMAIN s = 1..Len(s) /\ Len(s) \in Nat
  BY LenProperties DEF List
<1>2. 1 \in 1..Len(s) /\ Head(s) = h
  <2>1. Len(s) # 0
    BY <1>1, EmptySeq
  <2> QED
    BY <1>1, <2>1
<1>3. h \in ToSet(s) /\ h \in Window
  BY <1>1, <1>2, ElementOfSeq DEF ToSet
<1>4. Position(s, h) = 1
  BY <1>2, PositionIs
<1> HIDE DEF h
<1>5. /\ t \in Seq(Window) /\ Len(t) = Len(s) - 1
      /\ \A i \in 1..(Len(s) - 1) : t[i] = IF i < 1 THEN s[i] ELSE s[i + 1]
  <2>1. /\ Erase(s, h) \in Seq(Window)
        /\ Len(Erase(s, h)) = Len(s) - 1
        /\ \A i \in 1..(Len(s) - 1) : Erase(s, h)[i] =
             IF i < Position(s, h) THEN s[i] ELSE s[i + 1]
    BY <1>3, EraseElements
  <2> QED
    BY <1>4, <2>1
<1> HIDE DEF t
<1>6. /\ <<h>> \o t \in Seq(Window) /\ Len(<<h>> \o t) = Len(s)
      /\ \A i \in 1..Len(s) : (<<h>> \o t)[i] = IF i = 1 THEN h ELSE t[i - 1]
  <2>1. t \in Seq(Window) /\ Len(t) + 1 = Len(s) /\ h \in Window
    BY <1>1, <1>3, <1>5
  <2>2. /\ <<h>> \o t \in Seq(Window) /\ Len(<<h>> \o t) = Len(t) + 1
        /\ \A i \in 1..(Len(t) + 1) :
             (<<h>> \o t)[i] = IF i = 1 THEN h ELSE t[i - 1]
    BY <2>1
  <2> QED
    BY <2>1, <2>2
<1>7. \A i \in 1..Len(s) : (<<h>> \o t)[i] = s[i]
  <2> SUFFICES ASSUME NEW i \in 1..Len(s)
               PROVE  (<<h>> \o t)[i] = s[i]
    OBVIOUS
  <2>1. CASE i = 1
    BY <1>6, <2>1 DEF h
  <2>2. CASE i # 1
    <3>1. i - 1 \in 1..(Len(s) - 1) /\ (i - 1) + 1 = i /\ ~(i - 1 < 1)
      BY <1>1, <2>2
    <3>2. t[i - 1] = s[(i - 1) + 1]
      BY <1>5, <3>1
    <3> QED
      BY <1>6, <2>2, <3>1, <3>2
  <2> QED
    BY <2>1, <2>2
<1>8. <<h>> \o t = s
  BY <1>1, <1>6, <1>7, SeqEqual
<1> QED
  BY <1>2, <1>8 DEF ToFront, t

\* Erasing a window that is not the first leaves the first where it is.
LEMMA EraseHead ==
  ASSUME NEW s, List(s), s # <<>>, NEW w, w # Head(s)
  PROVE  Erase(s, w) # <<>> /\ Head(Erase(s, w)) = Head(s)
<1> DEFINE t == Erase(s, w)
<1>1. /\ s \in Seq(Window) /\ DOMAIN s = 1..Len(s) /\ Len(s) \in Nat
      /\ Len(s) # 0 /\ Head(s) = s[1]
  BY LenProperties, EmptySeq DEF List
<1>2. CASE w \notin ToSet(s)
  BY <1>2 DEF Erase
<1>3. CASE w \in ToSet(s)
  <2>1. /\ Position(s, w) \in 1..Len(s) /\ s[Position(s, w)] = w
        /\ t \in Seq(Window) /\ Len(t) = Len(s) - 1
        /\ \A i \in 1..(Len(s) - 1) :
             t[i] = IF i < Position(s, w) THEN s[i] ELSE s[i + 1]
    BY <1>3, EraseElements
  <2> HIDE DEF t, Position
  <2>2. Position(s, w) # 1
    BY <1>1, <2>1
  <2>3. 1 \in 1..(Len(s) - 1) /\ 1 < Position(s, w)
    BY <1>1, <2>1, <2>2
  <2>4. t[1] = s[1] /\ Len(t) # 0
    BY <1>1, <2>1, <2>3
  <2> QED
    BY <1>1, <2>1, <2>4 DEF t
<1> QED
  BY <1>2, <1>3

\* What focusing a window does to the recency list and to its front.
LEMMA ToFrontVisited ==
  ASSUME NEW s, List(s), Precedes(s, Status, Overlay),
         NEW w \in ToSet(s) \ {Overlay}, Overlay \in ToSet(s)
  PROVE  /\ Head(ToFront(s, w)) = w
         /\ Visited(ToFront(s, w)) = <<w>> \o History!RemoveFirst(Visited(s), w)
<1> DEFINE t == Erase(s, w)
<1>1. w \in Window
  BY LenProperties, ElementOfSeq DEF List, ToSet
<1>2. List(t) /\ ToSet(t) = ToSet(s) \ {w}
  BY EraseList
<1>3. List(Visited(s)) /\ Visited(t) = Erase(Visited(s), w)
  BY VisitedErase
<1> HIDE DEF t
<1>4. Visited(<<w>> \o t) = <<w>> \o Visited(t)
  BY <1>1, <1>2, VisitedPrepend
<1>5. Head(<<w>> \o t) = w
  <2>1. t \in Seq(Window)
    BY <1>2 DEF List
  <2> QED
    BY <1>1, <2>1
<1> QED
  BY <1>3, <1>4, <1>5, RemoveFirstErases DEF ToFront, t

-----------------------------------------------------------------------------
(* What the operations do, as long as the window under the overlay is the   *)
(* one looked at last.                                                       *)

\* Unless the overlay hides it, the active window is the one looked at last.
Recent(u) ==
  u.fault = "none" /\ u.active # Overlay => u.active = Head(u.windows)

\* The condition of the promise: nobody has closed the covered window.
Promised(u) ==
  /\ u.fault = "none"
  /\ u.active = Overlay => u.beforeOverlay = Head(u.windows)

\* focusWindow of a window that is open.
LEMMA FocusEffect ==
  ASSUME NEW u, Sound(u), Recent(u), u.fault = "none",
         NEW w \in Live(u), w # Overlay
  PROVE  Focus(u, w) = [u EXCEPT !.active = w, !.beforeOverlay = Null,
                                 !.windows = ToFront(u.windows, w)]
<1>1. u \in UIState /\ Lists(u) /\ Focused(u)
  BY DEF Sound
<1>2. w # Null /\ w \in ToSet(u.windows)
  <2>1. ToSet(u.children) \subseteq Window
    BY <1>1, LenProperties, ElementOfSeq DEF Lists, List, ToSet
  <2> QED
    BY <1>1, <2>1, WindowAssumption DEF Lists, Live
<1>3. CASE w = u.active
  <2>1. Focus(u, w) = u
    BY <1>2, <1>3 DEF Focus, Lift
  <2>2. u.beforeOverlay = Null
    BY <1>1, <1>3 DEF Focused
  <2>3. ToFront(u.windows, w) = u.windows
    <3>1. w = Head(u.windows)
      BY <1>3 DEF Recent
    <3>2. List(u.windows) /\ u.windows # <<>>
      BY <1>1, VisitedHead DEF Lists
    <3> QED
      BY <3>1, <3>2, MoveHead
  <2> QED
    BY <1>1, <1>3, <2>1, <2>2, <2>3 DEF UIState
<1>4. CASE w # u.active
  <2> DEFINE lifted == Lift(u)
             shown == [lifted EXCEPT !.active = w]
  <2>1. lifted = [u EXCEPT !.beforeOverlay = Null]
    BY <1>1 DEF Lift, UIState, Focused
  <2>2. shown = [u EXCEPT !.active = w, !.beforeOverlay = Null]
    BY <1>1, <2>1 DEF UIState
  <2>3. shown.windows = u.windows
    BY <1>1, <2>2 DEF UIState
  <2>4. Focus(u, w) = [shown EXCEPT !.windows = ToFront(shown.windows, w)]
    BY <1>2, <1>4 DEF Focus
  <2> QED
    BY <1>1, <2>2, <2>3, <2>4 DEF UIState
<1> QED
  BY <1>3, <1>4

\* Whatever focusWindow is asked to show, the active window is the first one.
LEMMA FocusRecent ==
  ASSUME NEW u, Sound(u), Recent(u), u.fault = "none",
         NEW w \in Window \cup {Null}, w # Overlay
  PROVE  Recent(Focus(u, w))
<1> DEFINE x == IF w = Null THEN Status ELSE w
<1>1. u \in UIState /\ Lists(u)
  BY DEF Sound
<1>2. x \in Window /\ x # Overlay /\ x # Null
  BY WindowAssumption
<1>3. Focus(u, w) = Focus(u, x)
  BY <1>2 DEF Focus
<1> HIDE DEF x
<1>4. CASE x \in Live(u)
  <2>1. Focus(u, x) = [u EXCEPT !.active = x, !.beforeOverlay = Null,
                                !.windows = ToFront(u.windows, x)]
    BY <1>2, <1>4, FocusEffect
  <2>2. Head(ToFront(u.windows, x)) = x
    BY <1>1, <1>2, <1>4, ToFrontVisited DEF Lists, Live
  <2>3. /\ Focus(u, x).active = x
        /\ Focus(u, x).windows = ToFront(u.windows, x)
    BY <1>1, <2>1 DEF UIState
  <2> QED
    BY <1>3, <2>2, <2>3 DEF Recent
<1>5. CASE x \notin Live(u)
  <2>1. x # u.active
    BY <1>5 DEF Sound, Focused, Live
  <2>2. Focus(u, x) = Faulty([Lift(u) EXCEPT !.active = x], "freed")
    BY <1>2, <1>5, <2>1 DEF Focus
  <2>3. Focus(u, x).fault = "freed"
    BY <1>1, <2>2 DEF Faulty, Lift, UIState
  <2> QED
    BY <1>3, <2>3 DEF Recent
<1> QED
  BY <1>4, <1>5

\* toggleOverlay, with the window to bring back still open or not.
LEMMA ToggleRecent ==
  ASSUME NEW u, Sound(u), Recent(u), u.fault = "none"
  PROVE  Recent(Toggle(u)) /\ Recent(Dismiss(u))
<1>1. u \in UIState /\ Lists(u) /\ Focused(u)
  BY DEF Sound
<1>2. CASE u.active = Overlay
  <2>1. u.beforeOverlay \in Window \cup {Null} /\ u.beforeOverlay # Overlay
    BY <1>1 DEF UIState, Focused
  <2> QED
    BY <1>2, <2>1, FocusRecent DEF Toggle, Dismiss
<1>3. CASE u.active # Overlay
  <2>1. Toggle(u) = [u EXCEPT !.beforeOverlay = u.active, !.active = Overlay]
    BY <1>1, <1>3, CoverEffect DEF Focused, Live
  <2>2. Toggle(u).active = Overlay
    BY <1>1, <2>1 DEF UIState
  <2> QED
    BY <1>3, <2>2 DEF Recent, Dismiss
<1> QED
  BY <1>2, <1>3

\* Lifting the overlay brings back the window looked at last, and nothing
\* moves in the lists.
LEMMA DismissEffect ==
  ASSUME NEW u, Sound(u), Recent(u), Promised(u)
  PROVE  Dismiss(u) = [u EXCEPT !.active = Head(u.windows),
                                !.beforeOverlay = Null]
<1>1. u \in UIState /\ Lists(u) /\ Focused(u)
  BY DEF Sound, Promised
<1>2. List(u.windows) /\ u.windows # <<>>
      /\ Head(u.windows) \in ToSet(u.windows) \ {Overlay}
  BY <1>1, VisitedHead DEF Lists
<1>3. CASE u.active = Overlay
  <2>1. Dismiss(u) = Focus(u, Head(u.windows))
    BY <1>3 DEF Dismiss, Toggle, Promised
  <2>2. Head(u.windows) \in Live(u)
    BY <1>1, <1>2 DEF Live, Lists
  <2>3. ToFront(u.windows, Head(u.windows)) = u.windows
    BY <1>2, MoveHead
  <2>4. Focus(u, Head(u.windows)) =
          [u EXCEPT !.active = Head(u.windows), !.beforeOverlay = Null,
                    !.windows = u.windows]
    BY <1>2, <2>2, <2>3, FocusEffect DEF Promised
  <2> QED
    BY <1>1, <2>1, <2>4 DEF UIState
<1>4. CASE u.active # Overlay
  <2>1. Dismiss(u) = u /\ u.beforeOverlay = Null /\ u.active = Head(u.windows)
    BY <1>1, <1>4 DEF Dismiss, Focused, Promised, Recent
  <2> QED
    BY <1>1, <2>1 DEF UIState
<1> QED
  BY <1>3, <1>4

\* removeWindow brings back the window looked at before, and both lists keep
\* the order of the others.
LEMMA RemoveEffect ==
  ASSUME NEW u, Sound(u), u.fault = "none",
         NEW w \in Live(u), w \notin {Status, Overlay}
  PROVE  RemoveWindow(u, w) =
           [u EXCEPT !.windows = Erase(u.windows, w),
                     !.children = Erase(u.children, w),
                     !.active = IF u.active = w THEN Head(Erase(u.windows, w))
                                ELSE u.active,
                     !.obj = [u.obj EXCEPT ![w] = Null],
                     !.windowName = [u.windowName EXCEPT ![w] = Null],
                     !.dead = [u.dead EXCEPT ![w] = FALSE]]
<1> DEFINE s == Erase(u.windows, w)
           v == [u EXCEPT !.windows = s]
           left == IF u.active = w THEN Focus(v, Head(v.windows)) ELSE v
           a == IF u.active = w THEN Head(s) ELSE u.active
<1>1. u \in UIState /\ Lists(u)
  BY DEF Sound
<1>2. List(s) /\ ToSet(s) = ToSet(u.windows) \ {w}
      /\ Precedes(s, Status, Overlay)
  BY <1>1, EraseList DEF Lists
<1>3. s # <<>> /\ Head(s) \in ToSet(s) \ {Overlay}
  BY <1>2, VisitedHead
<1>4. v.windows = s /\ v.children = u.children /\ v.active = u.active
  BY <1>1 DEF UIState
<1>5. RemoveWindow(u, w) =
        [left EXCEPT !.children = Erase(left.children, w), !.obj[w] = Null,
                     !.windowName[w] = Null, !.dead[w] = FALSE]
  BY DEF RemoveWindow
<1>6. left = [u EXCEPT !.windows = s, !.active = a]
  <2>1. CASE u.active # w
    BY <1>1, <2>1 DEF UIState
  <2>2. CASE u.active = w
    <3> DEFINE h == Head(s)
    <3> HIDE DEF s
    <3>1. h # w /\ h # Overlay /\ h \in Live(v) /\ h \in ToSet(v.windows)
          /\ h # Null
      <4>1. h \in ToSet(u.children)
        BY <1>1, <1>2, <1>3 DEF Lists
      <4>2. Null \notin ToSet(u.children)
        BY <1>1, LenProperties, ElementOfSeq, WindowAssumption
        DEF Lists, List, ToSet
      <4> QED
        BY <1>2, <1>3, <1>4, <4>1, <4>2 DEF Live
    <3> HIDE DEF h
    <3>2. Lift(v) = v
      BY <1>4, <2>2 DEF Lift
    <3>3. [v EXCEPT !.active = h].windows = s
      BY <1>1 DEF UIState
    <3>4. Focus(v, h) = [[v EXCEPT !.active = h] EXCEPT !.windows = ToFront(s, h)]
      BY <1>4, <2>2, <3>1, <3>2, <3>3 DEF Focus
    <3>5. ToFront(s, h) = s
      BY <1>2, <1>3, MoveHead DEF h
    <3>6. left = Focus(v, h)
      BY <1>4, <2>2 DEF h
    <3> QED
      BY <1>1, <2>2, <3>4, <3>5, <3>6 DEF UIState, h
  <2> QED
    BY <2>1, <2>2
<1> HIDE DEF left, a, s
<1> QED
  BY <1>1, <1>5, <1>6 DEF UIState, a, s

-----------------------------------------------------------------------------
(* The objects of the windows.                                               *)

\* Same windows, holding the same objects under the same names, dead or alive
\* as before.
Keeps(u, v) ==
  /\ Live(v) = Live(u)
  /\ v.obj = u.obj /\ v.windowName = u.windowName /\ v.name = u.name
  /\ v.dead = u.dead

\* Channels keep their names, and so do their windows; users and their windows
\* bear nicks.
WindowsNamed(u) ==
  /\ \A o \in Object : IF IsChannelObject(o) THEN u.name[o] = o.name
                      ELSE u.name[o] \in Nick
  /\ \A w \in Conversations(u) :
       LET o == u.obj[w] IN
       IF IsChannelObject(o)
       THEN u.windowName[w] = [server |-> o.server, name |-> o.name]
       ELSE u.windowName[w].name \in Nick

\* No two conversations hold one object or bear one name; the status window is
\* no conversation.
Named(u) ==
  /\ WindowsNamed(u)
  /\ u.obj[Status] = Null /\ u.windowName[Status] = Null
  /\ \A v, w \in Conversations(u) :
       /\ u.obj[v] # Null
       /\ u.obj[v] = u.obj[w] \/ u.windowName[v] = u.windowName[w] => v = w

\* The window w is one that getWindow may give for o.
Holds(u, w, o) == u.obj[w] = o \/ u.windowName[w] = FullName(u, o)

\* Focusing opens, closes, renames and kills nothing.
LEMMA FocusKeeps ==
  ASSUME NEW u \in UIState, NEW w
  PROVE  Keeps(u, Focus(u, w))
<1> DEFINE x == IF w = Null THEN Status ELSE w
           l == Lift(u)
           v == [l EXCEPT !.active = x]
<1>1. l = u \/ l = [u EXCEPT !.beforeOverlay = Null]
  BY DEF Lift
<1> HIDE DEF x
<1>2. /\ l.children = u.children /\ l.obj = u.obj /\ l.dead = u.dead
      /\ l.windowName = u.windowName /\ l.name = u.name
      /\ v.windowName = u.windowName /\ v.name = u.name
      /\ v.children = u.children /\ v.obj = u.obj /\ v.dead = u.dead
      /\ v = [v EXCEPT !.active = x]
  BY <1>1 DEF UIState
<1>3. \A f : LET z == [v EXCEPT !.fault = f] IN
        /\ z.children = v.children /\ z.obj = v.obj /\ z.dead = v.dead
        /\ z.windowName = v.windowName /\ z.name = v.name
  BY <1>1 DEF UIState
<1>4. \A f : LET z == [v EXCEPT !.windows = f] IN
        /\ z.children = v.children /\ z.obj = v.obj /\ z.dead = v.dead
        /\ z.windowName = v.windowName /\ z.name = v.name
  BY <1>1 DEF UIState
<1> HIDE DEF v, l
<1>5. \/ Focus(u, w) = l \/ Focus(u, w) = v
      \/ \E f : Focus(u, w) = [v EXCEPT !.fault = f]
      \/ \E f : Focus(u, w) = [v EXCEPT !.windows = f]
  BY DEF Focus, Faulty, UpdateStatusbar, l, v, x
<1> QED
  <2>1. CASE Focus(u, w) = l \/ Focus(u, w) = v
    BY <1>2, <2>1 DEF Keeps, Live
  <2>2. CASE \E f : Focus(u, w) = [v EXCEPT !.fault = f]
    BY <1>2, <1>3, <2>2 DEF Keeps, Live
  <2>3. CASE \E f : Focus(u, w) = [v EXCEPT !.windows = f]
    BY <1>2, <1>4, <2>3 DEF Keeps, Live
  <2> QED
    BY <1>5, <2>1, <2>2, <2>3

\* Nor does showing the overlay or lifting it.
LEMMA DismissKeeps ==
  ASSUME NEW u \in UIState
  PROVE  Keeps(u, Toggle(u)) /\ Keeps(u, Dismiss(u))
<1>1. CASE u.active = Overlay
  BY <1>1, FocusKeeps DEF Toggle, Dismiss
<1>2. CASE u.active # Overlay
  <2> DEFINE v == [u EXCEPT !.beforeOverlay = u.active]
             f == [v EXCEPT !.active = Overlay]
  <2>1. Toggle(u) = Focus(v, Overlay)
    BY <1>2 DEF Toggle
  <2>2. v.active = u.active /\ Overlay # Null /\ Lift(v) = v
    BY <1>2, WindowAssumption DEF UIState, Lift
  <2>3. Focus(v, Overlay) = f \/ Focus(v, Overlay) = [f EXCEPT !.fault = "freed"]
    BY <1>2, <2>2 DEF Focus, UpdateStatusbar, Faulty
  <2>4. Keeps(u, Focus(v, Overlay))
    BY <2>3 DEF Keeps, Live, UIState
  <2> QED
    BY <1>2, <2>1, <2>4 DEF Dismiss, Keeps
<1> QED
  BY <1>1, <1>2

\* Nor do the keys that go from window to window.
LEMMA CycleKeeps ==
  ASSUME NEW u \in UIState
  PROVE  /\ Keeps(u, NextWindow(u)) /\ Keeps(u, PreviousWindow(u))
         /\ \A n : Keeps(u, FocusIndex(u, n))
<1>1. \A n : Keeps(u, FocusIndex(u, n))
  BY FocusKeeps DEF FocusIndex, Keeps
<1> QED
  BY <1>1, FocusKeeps DEF NextWindow, PreviousWindow

\* Nor does drawing the status bar.
LEMMA RefreshKeeps ==
  ASSUME NEW u \in UIState
  PROVE  Keeps(u, UpdateStatusbar(u))
BY DEF UpdateStatusbar, Faulty, Keeps, Live, UIState

\* Moving a window changes the order of the children alone.
LEMMA MoveKeeps ==
  ASSUME NEW u, Sound(u), NEW w \in Window, w # Overlay, NEW n \in Nat
  PROVE  /\ Keeps(u, MoveWindow(u, w, n))
         /\ MoveWindow(u, w, n).windows = u.windows
         /\ MoveWindow(u, w, n).active = u.active
         /\ MoveWindow(u, w, n).beforeOverlay = u.beforeOverlay
<1> DEFINE m == MoveWindow(u, w, n)
<1>1. u \in UIState /\ Lists(u)
  BY DEF Sound
<1>2. m = u \/ \E c : m = UpdateStatusbar([u EXCEPT !.children = c])
  BY DEF MoveWindow
<1>3. ASSUME NEW c
      PROVE  LET v == [u EXCEPT !.children = c]
                 z == [v EXCEPT !.fault = "freed"]
             IN /\ v.windows = u.windows /\ z.windows = u.windows
                /\ v.active = u.active /\ z.active = u.active
                /\ v.beforeOverlay = u.beforeOverlay
                /\ z.beforeOverlay = u.beforeOverlay
                /\ v.obj = u.obj /\ z.obj = u.obj
                /\ v.windowName = u.windowName /\ v.name = u.name
                /\ z.windowName = u.windowName /\ z.name = u.name
                /\ v.dead = u.dead /\ z.dead = u.dead
  BY <1>1 DEF UIState
<1>4. /\ m.windows = u.windows /\ m.active = u.active
      /\ m.beforeOverlay = u.beforeOverlay
      /\ m.obj = u.obj /\ m.dead = u.dead
      /\ m.windowName = u.windowName /\ m.name = u.name
  <2>1. \A v : UpdateStatusbar(v) = v
                 \/ UpdateStatusbar(v) = [v EXCEPT !.fault = "freed"]
    BY DEF UpdateStatusbar, Faulty
  <2>2. CASE m = u
    BY <2>2
  <2>3. CASE \E c : m = UpdateStatusbar([u EXCEPT !.children = c])
    <3>1. PICK c : m = UpdateStatusbar([u EXCEPT !.children = c])
      BY <2>3
    <3> HIDE DEF m
    <3> DEFINE v == [u EXCEPT !.children = c]
    <3>2. m = v \/ m = [v EXCEPT !.fault = "freed"]
      BY <2>1, <3>1
    <3>3. CASE m = v
      BY <1>3, <3>3
    <3>4. CASE m = [v EXCEPT !.fault = "freed"]
      BY <1>3, <3>4
    <3> QED
      BY <3>2, <3>3, <3>4
  <2> QED
    BY <1>2, <2>2, <2>3
<1>5. Sound(m)
  BY MoveWindowSound
<1>6. ToSet(m.children) = ToSet(u.children)
  BY <1>1, <1>4, <1>5 DEF Sound, Lists
<1> QED
  BY <1>4, <1>6 DEF Keeps, Live

\* moveWindow ends well when the window on the screen is open.
LEMMA MoveFault ==
  ASSUME NEW u, Sound(u), u.fault = "none",
         NEW w \in Window, w # Overlay, NEW n \in Nat, u.active # Overlay
  PROVE  MoveWindow(u, w, n).fault = "none"
<1> DEFINE m == MoveWindow(u, w, n)
<1>1. u \in UIState /\ u.active \in Live(u)
  BY DEF Sound, Focused, Live
<1>2. Keeps(u, m)
  BY MoveKeeps
<1>3. CASE m = u
  BY <1>3
<1>4. CASE \E c : m = UpdateStatusbar([u EXCEPT !.children = c])
  <2>1. PICK c : m = UpdateStatusbar([u EXCEPT !.children = c])
    BY <1>4
  <2> DEFINE v == [u EXCEPT !.children = c]
  <2>2. v.active = u.active /\ v.fault = "none" /\ v.children = c
        /\ [v EXCEPT !.fault = "freed"].children = c
    BY <1>1 DEF UIState
  <2> HIDE DEF m, v
  <2>3. m = v \/ m = [v EXCEPT !.fault = "freed"]
    BY <2>1 DEF UpdateStatusbar, Faulty, v
  <2>4. m.children = c
    BY <2>2, <2>3
  <2>5. u.active \in Live(v)
    BY <1>1, <1>2, <2>2, <2>4 DEF Keeps, Live
  <2>6. UpdateStatusbar(v) = v
    BY <2>2, <2>5 DEF UpdateStatusbar
  <2> QED
    BY <2>1, <2>2, <2>6 DEF m, v
<1> QED
  BY <1>3, <1>4 DEF MoveWindow

\* A search that can find something does.
LEMMA FirstInFound ==
  ASSUME NEW s, List(s), NEW S, NEW w \in ToSet(s) \cap S
  PROVE  FirstIn(s, S) \in ToSet(s) \cap S
<1> DEFINE hits == {i \in DOMAIN s : s[i] \in S}
<1>1. DOMAIN s = 1..Len(s) /\ Len(s) \in Nat
  BY LenProperties DEF List
<1>2. hits \subseteq Nat /\ hits # {}
  BY <1>1 DEF ToSet
<1>3. \E i \in hits : \A j \in hits : i <= j
  <2> HIDE DEF hits
  <2> QED
    BY <1>2, LeastNatural
<1> QED
  BY <1>2, <1>3 DEF FirstIn, ToSet

\* getWindow finds the window of the conversation if and only if there is one.
LEMMA FindHolds ==
  ASSUME NEW u, Sound(u), NEW o \in Object
  PROVE  /\ Find(u, o) # Null =>
              /\ Find(u, o) \in Live(u) /\ Holds(u, Find(u, o), o)
              /\ Find(u, o) # Overlay
         /\ Find(u, o) = Null => \A w \in Live(u) : ~Holds(u, w, o)
<1> DEFINE holding == {w \in Live(u) : u.obj[w] = o}
           named == {w \in Live(u) : u.windowName[w] = FullName(u, o)}
           S == IF holding # {} THEN holding ELSE named
<1>1. /\ List(u.children) /\ u.obj[Overlay] = Null
      /\ u.windowName[Overlay] = Null /\ FullName(u, o) # Null
  BY FullNameType DEF Sound, Lists
<1>2. ToSet(u.children) \subseteq Window /\ o # Null
  BY <1>1, LenProperties, ElementOfSeq, ObjectAssumption DEF ToSet, List
<1>3. Find(u, o) = FirstIn(u.children, S)
  BY DEF Find
<1>4. \A w \in S : w \in Live(u) /\ Holds(u, w, o) /\ w # Overlay
  BY <1>1, <1>2 DEF Holds
<1>5. \A w \in Live(u) : Holds(u, w, o) => S # {}
  BY DEF Holds
<1> HIDE DEF S
<1>6. CASE S = {}
  <2>1. FirstIn(u.children, S) \in (ToSet(u.children) \cap S) \cup {Null}
    BY <1>1, FirstInList
  <2> QED
    BY <1>3, <1>5, <1>6, <2>1
<1>7. CASE S # {}
  <2>1. PICK w \in S : w \in ToSet(u.children) \cap S
    BY <1>4, <1>7 DEF Live
  <2>2. FirstIn(u.children, S) \in ToSet(u.children) \cap S
    BY <1>1, <2>1, FirstInFound
  <2> QED
    BY <1>2, <1>3, <1>4, <2>2, WindowAssumption
<1> QED
  BY <1>6, <1>7

\* For a channel the window that getWindow gives is the one of its name.
LEMMA FoundByName ==
  ASSUME NEW u, Sound(u), Named(u), NEW o \in Object, IsChannelObject(o),
         NEW w \in Live(u)
  PROVE  Holds(u, w, o) <=> /\ w \in Conversations(u)
                            /\ u.obj[w].server = o.server
                            /\ u.obj[w].name = o.name
<1>1. FullName(u, o) = [server |-> o.server, name |-> o.name]
  BY DEF FullName, Named, WindowsNamed
<1>2. u \in UIState /\ FullName(u, o) # Null /\ o # Null
  BY FullNameType, ObjectAssumption DEF Sound
<1>3. CASE w \in {Status, Overlay}
  BY <1>2, <1>3 DEF Sound, Named, Holds, Conversations
<1>4. CASE w \notin {Status, Overlay}
  <2>1. w \in Conversations(u)
    BY <1>4 DEF Conversations
  <2>2. CASE IsChannelObject(u.obj[w])
    <3>1. u.windowName[w] = [server |-> u.obj[w].server, name |-> u.obj[w].name]
      BY <2>1, <2>2 DEF Named, WindowsNamed
    <3>2. u.windowName[w].server = u.obj[w].server
          /\ u.windowName[w].name = u.obj[w].name
          /\ FullName(u, o).server = o.server /\ FullName(u, o).name = o.name
      BY <1>1, <3>1
    <3> QED
      BY <1>1, <2>1, <3>1, <3>2 DEF Holds
  <2>3. CASE ~IsChannelObject(u.obj[w])
    <3>1. u.windowName[w].name \in Nick /\ u.obj[w].name # o.name
      BY <2>1, <2>3 DEF Named, WindowsNamed, IsChannelObject
    <3>2. FullName(u, o).name \notin Nick
      BY <1>1, NameAssumption DEF IsChannelObject
    <3> QED
      BY <2>3, <3>1, <3>2 DEF Holds
  <2> QED
    BY <2>2, <2>3
<1> QED
  BY <1>3, <1>4

-----------------------------------------------------------------------------
(* The inductive invariant.                                                 *)

Kept(u) == Sound(u) /\ Recent(u) /\ Named(u)

\* Operations that neither open nor close a window keep the names apart.
LEMMA SameNamed ==
  ASSUME NEW u, Named(u), NEW v, Live(v) = Live(u), v.obj = u.obj,
         v.windowName = u.windowName, v.name = u.name
  PROVE  Named(v)
BY DEF Named, WindowsNamed, Conversations

\* focusWindow keeps the whole invariant.
LEMMA FocusKept ==
  ASSUME NEW u, Kept(u), u.fault = "none",
         NEW w \in Window \cup {Null}, w # Overlay
  PROVE  Kept(Focus(u, w))
<1>1. Sound(Focus(u, w)) /\ Recent(Focus(u, w))
  BY FocusSound, FocusRecent DEF Kept
<1>2. Keeps(u, Focus(u, w))
  BY FocusKeeps DEF Kept, Sound
<1> QED
  BY <1>1, <1>2, SameNamed DEF Kept, Keeps

\* The overlay goes up or away.
LEMMA ToggleKept ==
  ASSUME NEW u, Kept(u), u.fault = "none"
  PROVE  /\ Kept(Toggle(u)) /\ Kept(Dismiss(u))
         /\ Dismiss(u).fault = "none"
              => Dismiss(u).active \in Live(u) \ {Overlay}
<1>1. Sound(Toggle(u)) /\ Sound(Dismiss(u))
  BY ToggleSound, DismissSound DEF Kept
<1>2. Recent(Toggle(u)) /\ Recent(Dismiss(u))
  BY ToggleRecent DEF Kept
<1>3. Keeps(u, Toggle(u)) /\ Keeps(u, Dismiss(u))
  BY DismissKeeps DEF Kept, Sound
<1>4. Dismiss(u).fault = "none" => Dismiss(u).active # Overlay
  BY DismissSound DEF Kept
<1>5. Dismiss(u).fault = "none" => Dismiss(u).active \in Live(Dismiss(u))
  BY <1>1 DEF Sound, Focused, Live
<1> QED
  BY <1>1, <1>2, <1>3, <1>4, <1>5, SameNamed DEF Kept, Keeps

\* So do nextWindow, previousWindow and focusWindow by index.
LEMMA CycleKept ==
  ASSUME NEW u, Kept(u), u.fault = "none"
  PROVE  /\ Kept(NextWindow(u)) /\ Kept(PreviousWindow(u))
         /\ \A n \in Nat : Kept(FocusIndex(u, n))
<1>1. Sound(u)
  BY DEF Kept
<1>2. \A w \in Live(u) : w \in Window
  BY <1>1, LenProperties, ElementOfSeq DEF Sound, Lists, List, Live, ToSet
<1>3. \A w \in Live(u) \ {Overlay} : Kept(Focus(u, w))
  BY <1>2, FocusKept
<1> QED
  BY <1>1, <1>3, CycleFocuses

\* So does moveWindow.
LEMMA MoveKept ==
  ASSUME NEW u, Kept(u), u.fault = "none",
         NEW w \in Window, w # Overlay, NEW n \in Nat
  PROVE  Kept(MoveWindow(u, w, n))
<1>1. Sound(MoveWindow(u, w, n))
  BY MoveWindowSound DEF Kept
<1>2. /\ Keeps(u, MoveWindow(u, w, n))
      /\ MoveWindow(u, w, n).windows = u.windows
      /\ MoveWindow(u, w, n).active = u.active
  BY MoveKeeps DEF Kept
<1> QED
  BY <1>1, <1>2, SameNamed DEF Kept, Keeps, Recent

\* So does updateStatusbar.
LEMMA RefreshKept ==
  ASSUME NEW u, Kept(u)
  PROVE  Kept(UpdateStatusbar(u))
<1>1. Sound(UpdateStatusbar(u)) /\ u \in UIState
  BY UpdateStatusbarSound DEF Kept, Sound
<1>2. Keeps(u, UpdateStatusbar(u))
  BY <1>1, RefreshKeeps
<1>3. Recent(UpdateStatusbar(u))
  BY <1>1 DEF UpdateStatusbar, Faulty, Recent, Kept, UIState
<1> QED
  BY <1>1, <1>2, <1>3, SameNamed DEF Kept, Keeps

\* So does removeWindow, which closes that window and no other.
LEMMA RemoveKept ==
  ASSUME NEW u, Kept(u), u.fault = "none",
         NEW w \in Live(u), w \notin {Status, Overlay}
  PROVE  /\ Kept(RemoveWindow(u, w))
         /\ Live(RemoveWindow(u, w)) = Live(u) \ {w}
<1> DEFINE r == RemoveWindow(u, w)
           s == Erase(u.windows, w)
           c == Erase(u.children, w)
<1>1. Sound(u) /\ u \in UIState /\ Lists(u) /\ Focused(u) /\ Sound(r)
  BY RemoveWindowSound DEF Kept, Sound
<1>2. ToSet(c) = ToSet(u.children) \ {w}
  BY <1>1, EraseList DEF Lists
<1>3. w \in Window
  BY <1>1, LenProperties, ElementOfSeq DEF Lists, List, Live, ToSet
<1>4. /\ r.children = c /\ r.windows = s
      /\ r.obj = [u.obj EXCEPT ![w] = Null]
      /\ r.windowName = [u.windowName EXCEPT ![w] = Null]
      /\ r.name = u.name
      /\ r.active = IF u.active = w THEN Head(s) ELSE u.active
  <2> HIDE DEF s, c, r
  <2>1. r = [u EXCEPT !.windows = s, !.children = c,
                      !.active = IF u.active = w THEN Head(s) ELSE u.active,
                      !.obj = [u.obj EXCEPT ![w] = Null],
                      !.windowName = [u.windowName EXCEPT ![w] = Null],
                      !.dead = [u.dead EXCEPT ![w] = FALSE]]
    BY <1>1, RemoveEffect DEF s, c, r
  <2> QED
    BY <1>1, <2>1 DEF UIState
<1> HIDE DEF r
<1>5. Live(r) = Live(u) \ {w}
  BY <1>2, <1>4 DEF Live
<1>6. Recent(r)
  <2>1. CASE u.active = w
    BY <1>4, <2>1 DEF Recent
  <2>2. CASE u.active # w /\ u.active # Overlay
    <3>1. u.active = Head(u.windows) /\ List(u.windows) /\ u.windows # <<>>
      BY <1>1, <2>2, VisitedHead DEF Kept, Recent, Lists
    <3>2. Head(s) = Head(u.windows)
      BY <2>2, <3>1, EraseHead
    <3> QED
      BY <1>4, <2>2, <3>1, <3>2 DEF Recent
  <2>3. CASE u.active = Overlay
    BY <1>4, <2>3 DEF Recent
  <2> QED
    BY <2>1, <2>2, <2>3
<1>7. Named(r)
  <2>1. /\ \A v \in Window : v # w => /\ r.obj[v] = u.obj[v]
                                      /\ r.windowName[v] = u.windowName[v]
        /\ r.obj[Status] = u.obj[Status]
        /\ r.windowName[Status] = u.windowName[Status]
    BY <1>1, <1>3, <1>4, WindowAssumption DEF UIState
  <2>2. \A v \in Conversations(r) : v \in Conversations(u) /\ v # w /\ v \in Window
    BY <1>1, <1>5, LenProperties, ElementOfSeq
    DEF Conversations, Lists, List, Live, ToSet
  <2>3. WindowsNamed(r)
    BY <1>4, <2>1, <2>2 DEF Named, WindowsNamed, Kept
  <2> QED
    BY <2>1, <2>2, <2>3 DEF Named, Kept
<1> QED
  BY <1>1, <1>5, <1>6, <1>7 DEF Kept, r

\* getWindow: what is the case when it has found or made the window.
LEMMA EnsureKept ==
  ASSUME NEW u, Kept(u), u.fault = "none", NEW o \in Object,
         NEW fresh \in Allocation(u, o)
  PROVE  LET v == Ensure(u, o, fresh) IN
         /\ Kept(v) /\ v.fault = "none"
         /\ v.active = u.active /\ v.beforeOverlay = u.beforeOverlay
         /\ v.dead = u.dead
         /\ Find(v, o) \in Live(v) \ {Overlay} /\ Holds(v, Find(v, o), o)
         /\ Head(v.windows) = Head(u.windows)
         /\ Visited(v.windows) = Visited(u.windows)
         /\ v.name = u.name
         /\ \A w \in Live(u) : /\ w \in Live(v) /\ v.obj[w] = u.obj[w]
                               /\ v.windowName[w] = u.windowName[w]
         /\ \/ v = u
            \/ /\ fresh \in Window \ Live(u) /\ Live(v) = Live(u) \cup {fresh}
               /\ Find(v, o) = fresh
<1> DEFINE v == Ensure(u, o, fresh)
<1>1. Sound(u) /\ u \in UIState /\ Lists(u) /\ Focused(u) /\ Named(u)
  BY DEF Kept, Sound
<1>2. Sound(v) /\ v.fault = "none"
  BY <1>1, EnsureSound
<1>3. CASE Find(u, o) # Null
  <2>1. v = u
    BY <1>3 DEF Ensure
  <2>2. Find(u, o) \in Live(u) \ {Overlay} /\ Holds(u, Find(u, o), o)
    BY <1>1, <1>3, FindHolds
  <2> QED
    BY <2>1, <2>2 DEF v
<1>4. CASE Find(u, o) = Null
  <2> DEFINE s == Append(u.windows, fresh)
             c == Append(u.children, fresh)
  <2>1. fresh \in Window /\ fresh \notin ToSet(u.children)
        /\ fresh \in Window \ Live(u)
    BY <1>4 DEF Allocation, Live
  <2>2. fresh \notin ToSet(u.windows) /\ fresh # Overlay /\ fresh # Status
    BY <1>1, <2>1 DEF Lists
  <2>3. /\ v.windows = s /\ v.children = c /\ v.active = u.active
        /\ v.beforeOverlay = u.beforeOverlay /\ v.dead = u.dead
        /\ v.obj = [u.obj EXCEPT ![fresh] = o]
        /\ v.windowName = [u.windowName EXCEPT ![fresh] = FullName(u, o)]
        /\ v.name = u.name
    BY <1>1, <1>4 DEF Ensure, NewWindow, UIState
  <2> HIDE DEF v
  <2>4. ToSet(c) = ToSet(u.children) \cup {fresh}
    BY <1>1, <2>1, AppendList DEF Lists
  <2>5. Visited(s) = Visited(u.windows)
    BY <1>1, <2>1, <2>2, VisitedAppend DEF Lists
  <2>6. Head(s) = Head(u.windows)
    <3>1. u.windows \in Seq(Window) /\ u.windows # <<>>
          /\ 1 \in 1..Len(u.windows) /\ Head(u.windows) = u.windows[1]
      BY <1>1, VisitedHead DEF Lists, List
    <3>2. s[1] = u.windows[1] /\ s \in Seq(Window) /\ Len(s) = Len(u.windows) + 1
      BY <2>1, <3>1, AppendProperties
    <3>3. Len(u.windows) \in Nat
      BY <3>1, LenProperties
    <3> HIDE DEF s
    <3>4. Head(s) = s[1]
      BY <3>1, <3>2, <3>3
    <3> QED
      BY <3>1, <3>2, <3>4
  <2> HIDE DEF s, c
  <2>7. Live(v) = Live(u) \cup {fresh}
    BY <2>3, <2>4 DEF Live
  <2>8. /\ v.obj[fresh] = o /\ v.windowName[fresh] = FullName(u, o)
        /\ \A w \in Window : w # fresh => /\ v.obj[w] = u.obj[w]
                                          /\ v.windowName[w] = u.windowName[w]
    BY <1>1, <2>1, <2>3 DEF UIState
  <2>17. FullName(v, o) = FullName(u, o)
    BY <2>3 DEF FullName
  <2>9. Live(u) \subseteq Window
    BY <1>1, LenProperties, ElementOfSeq DEF Lists, List, Live, ToSet
  <2>10. \A w \in Live(u) : /\ w # fresh /\ v.obj[w] = u.obj[w]
                              /\ v.windowName[w] = u.windowName[w]
    BY <2>1, <2>8, <2>9
  <2>11. Holds(v, fresh, o)
    BY <2>8 DEF Holds
  <2>12. Find(v, o) \in Live(v) \ {Overlay} /\ Holds(v, Find(v, o), o)
    BY <1>2, <2>7, <2>11, FindHolds
  <2>13. \A w \in Live(u) : ~Holds(u, w, o)
    BY <1>1, <1>4, FindHolds
  <2>14. Named(v)
    <3>1. v.obj[Status] = Null /\ v.windowName[Status] = Null
      BY <1>1, <2>2, <2>8, WindowAssumption DEF Named
    <3>2. Conversations(v) = Conversations(u) \cup {fresh}
      BY <2>2, <2>7 DEF Conversations
    <3>3. \A w \in Conversations(u) : /\ w # fresh /\ v.obj[w] = u.obj[w]
                                      /\ v.windowName[w] = u.windowName[w]
                                      /\ ~Holds(u, w, o) /\ u.obj[w] # Null
      BY <1>1, <2>10, <2>13 DEF Conversations, Named
    <3>4. WindowsNamed(v)
      <4>1. IF IsChannelObject(o)
            THEN FullName(u, o) = [server |-> o.server, name |-> o.name]
            ELSE FullName(u, o).name \in Nick
        BY <1>1 DEF FullName, Named, WindowsNamed
      <4> QED
        BY <1>1, <2>3, <2>8, <3>2, <3>3, <4>1 DEF Named, WindowsNamed
    <3> QED
      BY <1>1, <2>8, <3>1, <3>2, <3>3, <3>4, ObjectAssumption DEF Named, Holds
  <2>15. Recent(v)
    BY <2>3, <2>6 DEF Recent, Kept, s
  <2>16. Find(v, o) = fresh
    BY <2>7, <2>8, <2>10, <2>12, <2>13, <2>17 DEF Holds
  <2> QED
    BY <1>2, <2>1, <2>3, <2>5, <2>6, <2>7, <2>10, <2>12, <2>14, <2>15, <2>16
    DEF Kept, s, v
<1> QED
  BY <1>3, <1>4

\* So do kill and resurrect.
LEMMA FlagKept ==
  ASSUME NEW u, Kept(u), NEW w \in Window
  PROVE  Kept(Kill(u, w)) /\ Kept(Resurrect(u, w))
<1>1. Sound(Kill(u, w)) /\ Sound(Resurrect(u, w)) /\ u \in UIState
  BY FlagSound DEF Kept, Sound
<1>2. \A v \in {Kill(u, w), Resurrect(u, w)} :
        /\ v.windows = u.windows /\ v.children = u.children
        /\ v.active = u.active /\ v.obj = u.obj /\ v.fault = u.fault
        /\ v.windowName = u.windowName /\ v.name = u.name
        /\ v.beforeOverlay = u.beforeOverlay
  BY <1>1 DEF Kill, Resurrect, UIState
<1> QED
  BY <1>1, <1>2, SameNamed DEF Kept, Recent, Live

\* The invariant holds of the two windows the program starts with.
LEMMA InitKept == Init => Kept(ui)
<1> SUFFICES ASSUME Init
             PROVE  Kept(ui)
  OBVIOUS
<1>1. Sound(ui)
  BY InitSound
<1>2. /\ ui.active = Status /\ Head(ui.windows) = Status
      /\ ui.obj[Status] = Null /\ ui.windowName[Status] = Null
  BY WindowAssumption DEF Init, InitialUI
<1>3. Conversations(ui) = {}
  BY DEF Init, InitialUI, Conversations, Live, ToSet
<1>4. WindowsNamed(ui)
  BY <1>3, ObjectAssumption DEF WindowsNamed, Init, InitialUI, IsChannelObject
<1> QED
  BY <1>1, <1>2, <1>3, <1>4 DEF Kept, Recent, Named

\* A user has another nick: the windows keep the names they have.
LEMMA RenameKept ==
  ASSUME NEW u, Kept(u), NEW o \in Object, ~IsChannelObject(o), NEW n \in Nick
  PROVE  Kept([u EXCEPT !.name[o] = n])
<1> DEFINE v == [u EXCEPT !.name[o] = n]
<1>1. u \in UIState
  BY DEF Kept, Sound
<1>2. /\ v \in UIState /\ v.windows = u.windows /\ v.children = u.children
      /\ v.active = u.active /\ v.beforeOverlay = u.beforeOverlay
      /\ v.fault = u.fault /\ v.obj = u.obj /\ v.windowName = u.windowName
  BY <1>1, RenameEffect
<1>3. v.name[o] \in Nick /\ \A p \in Object : p # o => v.name[p] = u.name[p]
  BY <1>1 DEF UIState
<1> HIDE DEF v
<1>4. Sound(v) /\ Recent(v)
  BY <1>2 DEF Kept, Sound, Lists, Focused, Recent
<1>5. Conversations(v) = Conversations(u)
  BY <1>2 DEF Conversations, Live
<1>6. WindowsNamed(v)
  BY <1>2, <1>3, <1>5 DEF Kept, Named, WindowsNamed
<1>7. Named(v)
  BY <1>2, <1>5, <1>6 DEF Kept, Named
<1> QED
  BY <1>4, <1>7 DEF Kept, v

\* What each of the actions makes of the state, with what KeySound says of
\* the keys: they find the overlay gone.
LEMMA StepKept == Kept(ui) /\ [Next]_ui => Kept(ui')
<1> SUFFICES ASSUME Kept(ui), Next
             PROVE  Kept(ui')
  BY DEF Kept, Sound, Recent, Named, WindowsNamed, Conversations, Live
<1>1. Running
  BY DEF Next, KeyOverlay, KeyNext, KeyPrevious, KeyIndex, CommandMove, OnKey,
         CommandWindowClose, RefreshStatusbar, OpenAndFocus, OpenWindow,
         KillWindow, ResurrectWindow, CloseWindow, Rename
<1> DEFINE d == Dismiss(ui)
<1>2. /\ Kept(d)
      /\ d.fault = "none" => d.active \in Live(d) \ {Overlay}
  <2>1. Keeps(ui, d)
    BY DismissKeeps DEF Kept, Sound
  <2> QED
    BY <1>1, <2>1, ToggleKept DEF Running, Keeps
<1> HIDE DEF d
<1>3. /\ Len(ui.children) \in Nat
      /\ Live(ui) \subseteq Window /\ Live(d) \subseteq Window
  BY <1>2, LenProperties, ElementOfSeq DEF Kept, Sound, Lists, List, Live, ToSet
<1>4. CASE KeyOverlay
  BY <1>1, <1>4, ToggleKept DEF KeyOverlay, Running
<1>5. CASE KeyNext
  <2>1. ui' = IF d.fault = "none" THEN NextWindow(d) ELSE d
    BY <1>5 DEF KeyNext, OnKey, d
  <2> QED
    BY <1>2, <2>1, CycleKept
<1>6. CASE KeyPrevious
  <2>1. ui' = IF d.fault = "none" THEN PreviousWindow(d) ELSE d
    BY <1>6 DEF KeyPrevious, OnKey, d
  <2> QED
    BY <1>2, <2>1, CycleKept
<1>7. ASSUME NEW n \in 0..Len(ui.children), KeyIndex(n)
      PROVE  Kept(ui')
  <2>1. ui' = IF d.fault = "none" THEN FocusIndex(d, n) ELSE d
    BY <1>7 DEF KeyIndex, OnKey, d
  <2>2. n \in Nat
    BY <1>3
  <2> QED
    BY <1>2, <2>1, <2>2, CycleKept
<1>8. ASSUME NEW n \in 0..Len(ui.children), CommandMove(n)
      PROVE  Kept(ui')
  <2>1. ui' = IF d.fault = "none" THEN MoveWindow(d, d.active, n) ELSE d
    BY <1>8 DEF CommandMove, OnKey, d
  <2>2. n \in Nat
    BY <1>3
  <2> QED
    BY <1>2, <1>3, <2>1, <2>2, MoveKept
<1>9. CASE CommandWindowClose
  <2>1. ui' = IF d.fault = "none"
              THEN IF CanRemove(d, d.active) THEN RemoveWindow(d, d.active) ELSE d
              ELSE d
    BY <1>9 DEF CommandWindowClose, OnKey, d
  <2>2. CASE d.fault = "none" /\ CanRemove(d, d.active)
    <3>1. d.active \notin {Status, Overlay}
      BY <2>2 DEF CanRemove
    <3> QED
      BY <1>2, <2>1, <2>2, <3>1, RemoveKept
  <2>3. CASE ~(d.fault = "none" /\ CanRemove(d, d.active))
    BY <1>2, <2>1, <2>3
  <2> QED
    BY <2>2, <2>3
<1>10. CASE RefreshStatusbar
  BY <1>10, RefreshKept DEF RefreshStatusbar
<1>11. ASSUME NEW o \in Object, OpenAndFocus(o)
       PROVE  Kept(ui')
  <2>1. PICK fresh \in Allocation(ui, o) :
          ui' = Focus(Ensure(ui, o, fresh), Find(Ensure(ui, o, fresh), o))
    BY <1>11 DEF OpenAndFocus
  <2> DEFINE u == Ensure(ui, o, fresh)
  <2>2. Kept(u) /\ u.fault = "none" /\ Find(u, o) \in Live(u) \ {Overlay}
    BY <1>1, EnsureKept DEF Running
  <2> HIDE DEF u
  <2>3. Find(u, o) \in Window
    BY <2>2, LenProperties, ElementOfSeq DEF Kept, Sound, Lists, List, Live, ToSet
  <2>4. ui' = Focus(u, Find(u, o))
    BY <2>1 DEF u
  <2> QED
    BY <2>2, <2>3, <2>4, FocusKept
<1>12. ASSUME NEW o \in Object, OpenWindow(o)
       PROVE  Kept(ui')
  BY <1>1, <1>12, EnsureKept DEF OpenWindow, Running
<1>13. ASSUME NEW w \in Conversations(ui),
              KillWindow(w) \/ ResurrectWindow(w) \/ CloseWindow(w)
       PROVE  Kept(ui')
  <2>1. w \in Live(ui) /\ w \in Window /\ w \notin {Status, Overlay}
    BY <1>3 DEF Conversations
  <2>2. CASE CloseWindow(w)
    BY <1>1, <2>1, <2>2, RemoveKept DEF CloseWindow, Running
  <2>3. CASE KillWindow(w) \/ ResurrectWindow(w)
    BY <2>1, <2>3, FlagKept DEF KillWindow, ResurrectWindow
  <2> QED
    BY <1>13, <2>2, <2>3
<1>14. ASSUME NEW o \in Object, NEW n \in Nick, Rename(o, n)
       PROVE  Kept(ui')
  BY <1>14, RenameKept DEF Rename
<1> QED
  BY <1>4, <1>5, <1>6, <1>7, <1>8, <1>9, <1>10, <1>11, <1>12, <1>13, <1>14
  DEF Next

KInv == Kept(ui)

\* Whatever is opened, focused, moved and closed, the active window stays the
\* one looked at last, and the names stay apart.
THEOREM KeptAlways == Spec => []KInv
<1>1. Init => KInv
  BY InitKept DEF KInv
<1>2. KInv /\ [Next]_ui => KInv'
  BY StepKept DEF KInv
<1> QED
  BY <1>1, <1>2, PTL DEF Spec

\* getWindow never makes a second window for a conversation, although it is
\* asked with objects the windows do not hold.
THEOREM OneWindowAlways == Spec => []OneWindowPerName
<1>1. KInv => OneWindowPerName
  BY DEF KInv, Kept, Named, OneWindowPerName
<1> QED
  BY <1>1, KeptAlways, PTL

-----------------------------------------------------------------------------
(* The refinement, step by step.                                             *)

\* u and v look the same to FocusHistory, up to the screen.
Alike(u, v) ==
  Live(v) = Live(u) /\ Visited(v.windows) = Visited(u.windows)

\* The promise of FocusHistory is in force as long as the covered window is open.
LEMMA NotLost ==
  ASSUME Running
  PROVE  CoveredLost <=> ~Promised(ui)
BY DEF CoveredLost, Promised, Running

\* The same of the state after a step.
LEMMA NotLostNext == CoveredLost' <=> ~Promised(ui)'
BY DEF CoveredLost, Promised, Running

\* A step after which the window w is on the screen is a visit to it.
LEMMA VisitStep ==
  ASSUME Running, Promised(ui), Promised(ui'),
         NEW w \in Window \ {Overlay},
         Live(ui') = Live(ui) \cup {w},
         Visited(ui'.windows) =
           <<w>> \o History!RemoveFirst(Visited(ui.windows), w),
         ui'.active = w
  PROVE  History!Next
<1>1. ~CoveredLost /\ ~CoveredLost'
  BY NotLost, NotLostNext
<1>2. History!Visit(w)
  <2>1. Live(ui') \ {Overlay} = (Live(ui) \ {Overlay}) \cup {w}
    OBVIOUS
  <2>2. CoveredLost' = CoveredLost
    BY <1>1 DEF CoveredLost
  <2> QED
    BY <2>1, <2>2 DEF History!Visit, Visited
<1> QED
  BY <1>1, <1>2 DEF History!Next

\* Focusing an open window, after the overlay has been lifted and a window
\* may have been made, is a visit.
LEMMA FocusVisits ==
  ASSUME Running, Kept(ui), Promised(ui),
         NEW u, Kept(u), u.fault = "none", Visited(u.windows) = Visited(ui.windows),
         NEW w \in Live(u), w # Overlay, Live(u) = Live(ui) \cup {w},
         ui' = Focus(u, w)
  PROVE  History!Next
<1>1. u \in UIState /\ Lists(u)
  BY DEF Kept, Sound
<1>2. w \in Window /\ w \in ToSet(u.windows)
  <2>1. ToSet(u.windows) \subseteq Window
    BY <1>1, LenProperties, ElementOfSeq DEF Lists, List, ToSet
  <2> QED
    BY <1>1, <2>1 DEF Lists, Live
<1>3. Focus(u, w) = [u EXCEPT !.active = w, !.beforeOverlay = Null,
                              !.windows = ToFront(u.windows, w)]
  BY FocusEffect DEF Kept
<1>4. /\ ui'.active = w /\ ui'.windows = ToFront(u.windows, w)
      /\ ui'.children = u.children /\ ui'.fault = "none"
  BY <1>1, <1>3 DEF UIState
<1>5. Visited(ToFront(u.windows, w)) =
        <<w>> \o History!RemoveFirst(Visited(u.windows), w)
  BY <1>1, <1>2, ToFrontVisited DEF Lists
<1>6. Live(ui') = Live(ui) \cup {w}
  BY <1>4 DEF Live
<1>7. Promised(ui')
  BY <1>4 DEF Promised
<1> QED
  BY <1>2, <1>4, <1>5, <1>6, <1>7, VisitStep

\* A step after which the window looked at last is on the screen, and nothing
\* else has changed, lifts the overlay or does nothing.
LEMMA UncoverStep ==
  ASSUME Running, Kept(ui), Promised(ui), Promised(ui'), Alike(ui, ui'),
         ui'.active = Head(ui.windows)
  PROVE  History!Next \/ UNCHANGED History!vars
<1>1. ~CoveredLost /\ CoveredLost' = CoveredLost
  <2>1. ~CoveredLost /\ ~CoveredLost'
    BY NotLost, NotLostNext
  <2> QED
    BY <2>1 DEF CoveredLost
<1>2. Head(Visited(ui.windows)) = Head(ui.windows)
  BY VisitedHead DEF Kept, Sound, Lists
<1>3. CASE ui.active = Overlay
  <2>1. History!Uncover
    BY <1>1, <1>2, <1>3
    DEF History!Uncover, History!Covered, Visited, Alike
  <2> QED
    BY <1>1, <2>1 DEF History!Next
<1>4. CASE ui.active # Overlay
  <2>1. ui'.active = ui.active
    BY <1>4 DEF Kept, Recent, Running
  <2> QED
    BY <1>1, <2>1 DEF History!vars, Visited, Alike
<1> QED
  BY <1>3, <1>4

\* A step that changes nothing FocusHistory speaks of.
LEMMA StillStep ==
  ASSUME Running, Promised(ui), Promised(ui'), Alike(ui, ui'),
         ui'.active = ui.active
  PROVE  UNCHANGED History!vars
<1>1. CoveredLost' = CoveredLost
  <2>1. ~CoveredLost /\ ~CoveredLost'
    BY NotLost, NotLostNext
  <2> QED
    BY <2>1 DEF CoveredLost
<1> QED
  BY <1>1 DEF History!vars, Visited, Alike

\* removeWindow of an open window closes it in FocusHistory; under the overlay
\* it breaks the condition of the promise.
LEMMA CloseStep ==
  ASSUME Running, Kept(ui), Promised(ui),
         NEW w \in Live(ui), w \notin {Status, Overlay},
         ui' = RemoveWindow(ui, w)
  PROVE  History!Next
<1> DEFINE s == Erase(ui.windows, w)
<1>1. Sound(ui) /\ ui \in UIState /\ Lists(ui) /\ ui.fault = "none"
  BY DEF Kept, Sound, Running
<1>2. Kept(ui') /\ Live(ui') = Live(ui) \ {w}
  BY <1>1, RemoveKept
<1>3. /\ ui'.windows = s /\ ui'.fault = "none"
      /\ ui'.beforeOverlay = ui.beforeOverlay
      /\ ui'.active = IF ui.active = w THEN Head(s) ELSE ui.active
  <2> HIDE DEF s
  <2>1. RemoveWindow(ui, w) =
          [ui EXCEPT !.windows = s, !.children = Erase(ui.children, w),
                     !.active = IF ui.active = w THEN Head(s) ELSE ui.active,
                     !.obj = [ui.obj EXCEPT ![w] = Null],
                     !.windowName = [ui.windowName EXCEPT ![w] = Null],
                     !.dead = [ui.dead EXCEPT ![w] = FALSE]]
    BY <1>1, RemoveEffect DEF s
  <2> QED
    BY <1>1, <2>1 DEF UIState
<1>4. Visited(s) = History!RemoveFirst(Visited(ui.windows), w)
  BY <1>1, VisitedErase, RemoveFirstErases DEF Lists
<1>5. /\ Head(Visited(ui.windows)) = Head(ui.windows)
      /\ Head(Visited(s)) = Head(s) /\ Head(s) \in ToSet(s)
      /\ Head(s) # Overlay
  <2>1. Lists(ui')
    BY <1>2 DEF Kept, Sound
  <2> QED
    BY <1>1, <1>3, <2>1, VisitedHead DEF Lists
<1>6. ToSet(s) = ToSet(ui.windows) \ {w}
  BY <1>1, EraseList DEF Lists
<1>7. (ui'.active = Overlay) = (ui.active = Overlay)
  BY <1>3, <1>5
<1>8. ~CoveredLost
  BY NotLost
<1>9. w \in Window \ {Overlay}
  <2>1. Live(ui) \subseteq Window
    BY <1>1, LenProperties, ElementOfSeq DEF Lists, List, Live, ToSet
  <2> QED
    BY <2>1
<1> HIDE DEF s
<1>10. CASE ui.active = Overlay /\ w = Head(ui.windows)
  <2>1. ~Promised(ui')
    BY <1>3, <1>5, <1>6, <1>10 DEF Promised
  <2>2. History!Breach
    BY <1>2, <1>5, <1>10, <2>1, NotLostNext
    DEF History!Breach, History!Covered, Visited
  <2> QED
    BY <1>8, <2>2 DEF History!Next
<1>11. CASE ui.active = Overlay => w # Head(ui.windows)
  <2>1. Promised(ui')
    <3>1. CASE ui.active # Overlay
      BY <1>3, <1>7, <3>1 DEF Promised
    <3>2. CASE ui.active = Overlay
      <4>1. Head(s) = Head(ui.windows)
        BY <1>1, <1>11, <3>2, EraseHead, VisitedHead DEF Lists, s
      <4> QED
        BY <1>3, <3>2, <4>1 DEF Promised
    <3> QED
      BY <3>1, <3>2
  <2>2. CoveredLost' = CoveredLost
    <3>1. ~CoveredLost'
      BY <2>1, NotLostNext
    <3> QED
      BY <1>8, <3>1 DEF CoveredLost
  <2>3. ui'.active = IF ui.active = Overlay THEN Overlay ELSE Head(s)
    BY <1>2, <1>3, <1>7 DEF Kept, Recent
  <2>4. Live(ui') \ {Overlay} = (Live(ui) \ {Overlay}) \ {w}
    BY <1>2
  <2>5. History!Discard(w)
    BY <1>3, <1>4, <2>2, <2>4 DEF History!Discard, Visited
  <2>6. History!Close(w)
    BY <1>3, <1>5, <1>11, <2>3, <2>5
    DEF History!Close, History!Covered, Visited
  <2> QED
    BY <1>8, <1>9, <2>6 DEF History!Next
<1> QED
  BY <1>10, <1>11

\* /wc typed under the overlay lifts it and closes the window it covered.
LEMMA UncoverCloseStep ==
  ASSUME Running, Kept(ui), Promised(ui), ui.active = Overlay,
         NEW d, Kept(d), d.fault = "none",
         d.windows = ui.windows, Live(d) = Live(ui),
         d.active = Head(ui.windows), d.active \notin {Status, Overlay},
         d.active \in Live(d),
         ui' = RemoveWindow(d, d.active)
  PROVE  History!Next
<1> DEFINE w == d.active
           s == Erase(d.windows, w)
<1>1. Sound(d) /\ d \in UIState /\ Lists(d)
  BY DEF Kept, Sound
<1>2. Kept(ui') /\ Live(ui') = Live(ui) \ {w}
  BY RemoveKept
<1>3. /\ ui'.windows = s /\ ui'.fault = "none" /\ ui'.active = Head(s)
  <2> HIDE DEF s
  <2>1. RemoveWindow(d, w) =
          [d EXCEPT !.windows = s, !.children = Erase(d.children, w),
                    !.active = IF d.active = w THEN Head(s) ELSE d.active,
                    !.obj = [d.obj EXCEPT ![w] = Null],
                    !.windowName = [d.windowName EXCEPT ![w] = Null],
                    !.dead = [d.dead EXCEPT ![w] = FALSE]]
    BY <1>1, RemoveEffect DEF s
  <2> QED
    BY <1>1, <2>1 DEF UIState
<1>4. Visited(s) = History!RemoveFirst(Visited(ui.windows), w)
  BY <1>1, VisitedErase, RemoveFirstErases DEF Lists
<1>5. /\ Head(Visited(ui.windows)) = w
      /\ Head(Visited(s)) = Head(s) /\ Head(s) # Overlay
  <2>1. Lists(ui')
    BY <1>2 DEF Kept, Sound
  <2> QED
    BY <1>1, <1>3, <2>1, VisitedHead DEF Lists
<1> HIDE DEF s
<1>6. ~CoveredLost /\ CoveredLost' = CoveredLost
  <2>1. Promised(ui')
    BY <1>3, <1>5 DEF Promised
  <2>2. ~CoveredLost /\ ~CoveredLost'
    BY <2>1, NotLost, NotLostNext
  <2> QED
    BY <2>2 DEF CoveredLost
<1>7. History!Discard(w)
  <2>1. Live(ui') \ {Overlay} = (Live(ui) \ {Overlay}) \ {w}
    BY <1>2
  <2> QED
    BY <1>3, <1>4, <1>6, <2>1 DEF History!Discard, Visited
<1>8. History!UncoverAndClose
  BY <1>3, <1>5, <1>7 DEF History!UncoverAndClose, History!Covered, Visited
<1> QED
  BY <1>6, <1>8 DEF History!Next

\* Each action of Interface is a step of FocusHistory or a stutter.
LEMMA SimulateStep ==
  ASSUME Kept(ui), Next
  PROVE  History!Next \/ UNCHANGED History!vars
<1>1. Running
  BY DEF Next, KeyOverlay, KeyNext, KeyPrevious, KeyIndex, CommandMove, OnKey,
         CommandWindowClose, RefreshStatusbar, OpenAndFocus, OpenWindow,
         KillWindow, ResurrectWindow, CloseWindow, Rename
<1>2. CASE ~Promised(ui)
  BY <1>1, <1>2, NotLost DEF History!Next
<1>3. CASE Promised(ui)
  <2> DEFINE d == Dismiss(ui)
             h == Head(ui.windows)
  <2>1. /\ Sound(ui) /\ ui \in UIState /\ Lists(ui) /\ Focused(ui)
        /\ ui.fault = "none"
    BY <1>1 DEF Kept, Sound, Running
  <2>2. /\ d.windows = ui.windows /\ Live(d) = Live(ui) /\ d.active = h
        /\ d.beforeOverlay = Null /\ d.fault = "none"
        /\ d.children = ui.children
    <3>1. d = [ui EXCEPT !.active = h, !.beforeOverlay = Null]
      BY <1>3, DismissEffect DEF Kept
    <3> QED
      BY <2>1, <3>1 DEF UIState, Live
  <2>3. Kept(d) /\ h \in Live(ui) \ {Overlay}
    BY <2>1, <2>2, ToggleKept
  <2> HIDE DEF d, h
  <2>4. /\ Live(ui) \subseteq Window /\ Len(ui.children) \in Nat
    BY <2>1, LenProperties, ElementOfSeq DEF Lists, List, Live, ToSet
  <2>5. ASSUME NEW v, ui' = v, v.windows = d.windows, Live(v) = Live(d),
               v.active = d.active, v.beforeOverlay = Null, v.fault = "none"
        PROVE  History!Next \/ UNCHANGED History!vars
    <3>1. Promised(ui') /\ Alike(ui, ui') /\ ui'.active = Head(ui.windows)
      BY <2>2, <2>3, <2>5 DEF Promised, Alike, h
    <3> QED
      BY <1>1, <1>3, <3>1, UncoverStep
  <2>6. ASSUME NEW w \in Live(d) \ {Overlay}, ui' = Focus(d, w)
        PROVE  History!Next
    <3>1. Live(d) = Live(ui) \cup {w} /\ Visited(d.windows) = Visited(ui.windows)
      BY <2>2, <2>6
    <3> QED
      BY <1>1, <1>3, <2>2, <2>3, <2>6, <3>1, FocusVisits
  <2>7. CASE KeyOverlay
    <3>1. CASE ui.active = Overlay
      <4>1. ui' = d
        BY <2>7, <3>1 DEF KeyOverlay, Dismiss, d
      <4> QED
        BY <2>2, <2>5, <4>1
    <3>2. CASE ui.active # Overlay
      <4>1. ui' = [ui EXCEPT !.beforeOverlay = ui.active, !.active = Overlay]
        BY <2>1, <2>7, <3>2, CoverEffect DEF KeyOverlay, Focused, Live
      <4>2. /\ ui'.windows = ui.windows /\ Live(ui') = Live(ui)
            /\ ui'.active = Overlay /\ ui'.beforeOverlay = ui.active
            /\ ui'.fault = "none"
        BY <2>1, <4>1 DEF UIState, Live
      <4>3. Promised(ui')
        BY <2>1, <3>2, <4>2 DEF Promised, Kept, Recent
      <4>4. ~CoveredLost /\ CoveredLost' = CoveredLost
        <5>1. ~CoveredLost /\ ~CoveredLost'
          BY <1>1, <1>3, <4>3, NotLost, NotLostNext
        <5> QED
          BY <5>1 DEF CoveredLost
      <4>5. History!Cover
        BY <3>2, <4>2, <4>4 DEF History!Cover, History!Covered
      <4> QED
        BY <4>4, <4>5 DEF History!Next
    <3> QED
      BY <3>1, <3>2
  <2>8. CASE KeyNext
    <3>1. ui' = NextWindow(d)
      BY <2>2, <2>8 DEF KeyNext, OnKey, d
    <3> QED
      BY <2>2, <2>3, <2>6, <3>1, CycleFocuses DEF Kept
  <2>9. CASE KeyPrevious
    <3>1. ui' = PreviousWindow(d)
      BY <2>2, <2>9 DEF KeyPrevious, OnKey, d
    <3> QED
      BY <2>2, <2>3, <2>6, <3>1, CycleFocuses DEF Kept
  <2>10. ASSUME NEW n \in 0..Len(ui.children), KeyIndex(n)
         PROVE  History!Next \/ UNCHANGED History!vars
    <3>1. ui' = FocusIndex(d, n)
      BY <2>2, <2>10 DEF KeyIndex, OnKey, d
    <3>2. n \in Nat
      BY <2>4
    <3>3. CASE ui' = d
      BY <2>2, <2>5, <3>3
    <3> QED
      BY <2>2, <2>3, <2>6, <3>1, <3>2, <3>3, CycleFocuses DEF Kept
  <2>11. ASSUME NEW n \in 0..Len(ui.children), CommandMove(n)
         PROVE  History!Next \/ UNCHANGED History!vars
    <3> DEFINE m == MoveWindow(d, d.active, n)
    <3>1. ui' = m
      BY <2>2, <2>11 DEF CommandMove, OnKey, d
    <3>2. n \in Nat /\ d.active \in Window /\ d.active # Overlay
      BY <2>2, <2>3, <2>4
    <3>3. /\ Keeps(d, m) /\ m.windows = d.windows /\ m.active = d.active
          /\ m.beforeOverlay = d.beforeOverlay
      BY <2>3, <3>2, MoveKeeps DEF Kept
    <3>4. m.fault = "none"
      BY <2>2, <2>3, <3>2, MoveFault DEF Kept
    <3> QED
      BY <2>2, <2>5, <3>1, <3>3, <3>4 DEF Keeps
  <2>12. CASE CommandWindowClose
    <3>1. ui' = IF CanRemove(d, d.active) THEN RemoveWindow(d, d.active) ELSE d
      BY <2>2, <2>12 DEF CommandWindowClose, OnKey, d
    <3>2. CASE ~CanRemove(d, d.active)
      BY <2>2, <2>5, <3>1, <3>2
    <3>3. CASE CanRemove(d, d.active)
      <4>1. ui' = RemoveWindow(d, d.active) /\ d.active \notin {Status, Overlay}
            /\ d.active \in Live(d)
        BY <2>2, <2>3, <3>1, <3>3 DEF CanRemove
      <4>2. CASE ui.active = Overlay
        BY <1>1, <1>3, <2>2, <2>3, <4>1, <4>2, UncoverCloseStep DEF h
      <4>3. CASE ui.active # Overlay
        <5>1. d = ui
          BY <4>3 DEF Dismiss, d
        <5> QED
          BY <1>1, <1>3, <4>1, <5>1, CloseStep
      <4> QED
        BY <4>2, <4>3
    <3> QED
      BY <3>2, <3>3
  <2>13. CASE RefreshStatusbar
    <3>1. ui' = UpdateStatusbar(ui)
      BY <2>13 DEF RefreshStatusbar
    <3>2. (IF ui.active = Overlay THEN ui.beforeOverlay ELSE ui.active) \in Live(ui)
      BY <1>3, <2>1, <2>3 DEF Promised, Focused, Live, h
    <3>3. ui' = ui
      BY <3>1, <3>2 DEF UpdateStatusbar
    <3> QED
      BY <1>1, <1>3, <3>3, StillStep DEF Alike
  <2>14. ASSUME NEW o \in Object, OpenAndFocus(o)
         PROVE  History!Next
    <3>1. PICK fresh \in Allocation(ui, o) :
            ui' = Focus(Ensure(ui, o, fresh), Find(Ensure(ui, o, fresh), o))
      BY <2>14 DEF OpenAndFocus
    <3> DEFINE u == Ensure(ui, o, fresh)
               w == Find(u, o)
    <3>2. /\ Kept(u) /\ u.fault = "none" /\ w \in Live(u) \ {Overlay}
          /\ Visited(u.windows) = Visited(ui.windows) /\ Holds(u, w, o)
          /\ \/ u = ui
             \/ Live(u) = Live(ui) \cup {fresh} /\ w = fresh
      BY <2>1, EnsureKept
    <3> HIDE DEF u, w
    <3>3. Live(u) = Live(ui) \cup {w}
      BY <3>2
    <3> QED
      BY <1>1, <1>3, <3>1, <3>2, <3>3, FocusVisits DEF u, w
  <2>15. ASSUME NEW o \in Object, OpenWindow(o)
         PROVE  History!Next \/ UNCHANGED History!vars
    <3>1. PICK fresh \in Allocation(ui, o) : ui' = Ensure(ui, o, fresh)
      BY <2>15 DEF OpenWindow
    <3>2. /\ ui'.fault = "none" /\ ui'.active = ui.active
          /\ ui'.beforeOverlay = ui.beforeOverlay
          /\ Head(ui'.windows) = Head(ui.windows)
          /\ Visited(ui'.windows) = Visited(ui.windows)
          /\ \/ ui' = ui
             \/ fresh \in Window \ Live(ui) /\ Live(ui') = Live(ui) \cup {fresh}
      BY <2>1, <3>1, EnsureKept
    <3>3. Promised(ui')
      BY <1>3, <3>2 DEF Promised
    <3>4. CASE ui' = ui
      BY <1>1, <1>3, <3>4, StillStep DEF Alike
    <3>5. CASE fresh \in Window \ Live(ui) /\ Live(ui') = Live(ui) \cup {fresh}
      <4>1. ~CoveredLost /\ CoveredLost' = CoveredLost
        <5>1. ~CoveredLost /\ ~CoveredLost'
          BY <1>1, <1>3, <3>3, NotLost, NotLostNext
        <5> QED
          BY <5>1 DEF CoveredLost
      <4>2. fresh \in Window \ {Overlay}
        BY <2>1, <3>5 DEF Lists, Live
      <4>3. Live(ui') \ {Overlay} = (Live(ui) \ {Overlay}) \cup {fresh}
        BY <3>5, <4>2
      <4>4. History!Open(fresh)
        BY <3>2, <3>5, <4>1, <4>3 DEF History!Open, Visited
      <4> QED
        BY <4>1, <4>2, <4>4 DEF History!Next
    <3> QED
      BY <3>2, <3>4, <3>5
  <2>16. ASSUME NEW w \in Conversations(ui),
                KillWindow(w) \/ ResurrectWindow(w) \/ CloseWindow(w)
         PROVE  History!Next \/ UNCHANGED History!vars
    <3>1. w \in Live(ui) /\ w \notin {Status, Overlay}
      BY DEF Conversations
    <3>2. CASE CloseWindow(w)
      BY <1>1, <1>3, <3>1, <3>2, CloseStep DEF CloseWindow
    <3>3. CASE KillWindow(w) \/ ResurrectWindow(w)
      <4>1. /\ ui'.windows = ui.windows /\ ui'.children = ui.children
            /\ ui'.active = ui.active /\ ui'.fault = ui.fault
            /\ ui'.beforeOverlay = ui.beforeOverlay
        BY <2>1, <3>3 DEF KillWindow, ResurrectWindow, Kill, Resurrect, UIState
      <4>2. Promised(ui') /\ Alike(ui, ui')
        BY <1>3, <4>1 DEF Promised, Alike, Live
      <4> QED
        BY <1>1, <1>3, <4>1, <4>2, StillStep
    <3> QED
      BY <2>16, <3>2, <3>3
  <2>17. ASSUME NEW o \in Object, NEW n \in Nick, Rename(o, n)
         PROVE  History!Next \/ UNCHANGED History!vars
    <3>1. /\ ui'.windows = ui.windows /\ ui'.children = ui.children
          /\ ui'.active = ui.active /\ ui'.fault = ui.fault
          /\ ui'.beforeOverlay = ui.beforeOverlay
      BY <2>1, <2>17, RenameEffect DEF Rename
    <3>2. Promised(ui') /\ Alike(ui, ui')
      BY <1>3, <3>1 DEF Promised, Alike, Live
    <3> QED
      BY <1>1, <1>3, <3>1, <3>2, StillStep
  <2> QED
    BY <2>7, <2>8, <2>9, <2>10, <2>11, <2>12, <2>13, <2>14, <2>15, <2>16, <2>17
    DEF Next
<1> QED
  BY <1>2, <1>3

\* The program starts where FocusHistory starts.
LEMMA InitSimulates == Init => History!Init
<1> SUFFICES ASSUME Init
             PROVE  History!Init
  OBVIOUS
<1> DEFINE s == <<Status, Overlay>>
<1>1. /\ ui.windows = s /\ ui.children = s /\ ui.active = Status
      /\ ui.fault = "none"
  BY DEF Init, InitialUI
<1>2. /\ s \in Seq(Window) /\ Len(s) = 2 /\ s[1] = Status /\ s[2] = Overlay
      /\ DOMAIN s = 1..2
  BY WindowAssumption
<1> HIDE DEF s
<1>3. List(s)
  BY InitSound, <1>1 DEF Sound, Lists
<1>4. Position(s, Overlay) = 2
  <2>1. 2 \in 1..Len(s)
    BY <1>2
  <2> QED
    BY <1>2, <1>3, <2>1, PositionIs
<1>5. Visited(s) = <<Status>>
  <2>1. /\ List(SubSeq(s, 1, 1)) /\ Len(SubSeq(s, 1, 1)) = 1
        /\ SubSeq(s, 1, 1)[1] = s[1]
    <3>1. 1 \in 0..Len(s) /\ 1 \in 1..1
      BY <1>2
    <3> QED
      BY <1>3, <3>1, PrefixList
  <2> DEFINE t == SubSeq(s, 1, 1)
  <2> HIDE DEF t
  <2>2. t = <<Status>>
    <3>1. t \in Seq(Window) /\ Len(t) = 1 /\ t[1] = Status
      BY <1>2, <2>1 DEF List, t
    <3> QED
      BY <3>1
  <2> QED
    BY <1>4, <2>2 DEF Visited, t
<1>6. Live(ui) \ {Overlay} = {Status}
  BY <1>1, <1>2, WindowAssumption DEF Live, ToSet
<1>7. CoveredLost = FALSE
  BY <1>1, WindowAssumption DEF CoveredLost, Running
<1> QED
  BY <1>1, <1>5, <1>6, <1>7 DEF History!Init, Visited

\* The windows of the client keep the promise of FocusHistory: closing one
\* brings back the window looked at before it and lifting the overlay the one
\* it covered, unless somebody has closed the window under the overlay.
THEOREM RefinesFocusHistory == Spec => KeepsFocusHistory
<1>1. Init => History!Init
  BY InitSimulates
<1>2. KInv /\ [Next]_ui => [History!Next]_(History!vars)
  <2> SUFFICES ASSUME KInv, [Next]_ui
               PROVE  History!Next \/ UNCHANGED History!vars
    OBVIOUS
  <2>1. CASE Next
    BY <2>1, SimulateStep DEF KInv
  <2>2. CASE UNCHANGED ui
    BY <2>2 DEF History!vars, CoveredLost, Running, Live
  <2> QED
    BY <2>1, <2>2
<1> QED
  BY <1>1, <1>2, KeptAlways, PTL DEF Spec, KeepsFocusHistory, History!Spec
==============================================================================
