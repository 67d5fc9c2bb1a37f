------------------------------ MODULE ListFacts ------------------------------
(***************************************************************************)
(* Facts about sequences that the proofs about the windows, the queue of a  *)
(* server, the settings and the events of the client rest on: what taking   *)
(* out and putting in leave in place, and what a recursive function over    *)
(* the numbers comes to.                                                    *)
(***************************************************************************)
EXTENDS
  Naturals, SequencesExt, TLAPS, SequenceTheorems, WellFoundedInduction

\* What is left of a sequence of which one place is taken out.
LEMMA RemoveAtElements ==
  ASSUME NEW S, NEW s \in Seq(S), NEW p \in 1..Len(s)
  PROVE  /\ RemoveAt(s, p) \in Seq(S)
         /\ Len(RemoveAt(s, p)) = Len(s) - 1
         /\ \A i \in 1..(Len(s) - 1) :
              RemoveAt(s, p)[i] = IF i < p THEN s[i] ELSE s[i + 1]
<1> DEFINE front == SubSeq(s, 1, p - 1)
           back == SubSeq(s, p + 1, Len(s))
<1>1. Len(s) \in Nat /\ \A i \in 1..Len(s) : s[i] \in S
  BY LenProperties, ElementOfSeq
<1>2. /\ front \in Seq(S) /\ Len(front) = p - 1
      /\ \A i \in 1..(p - 1) : front[i] = s[i]
  BY <1>1, SubSeqProperties
<1>3. /\ back \in Seq(S) /\ Len(back) = Len(s) - p
      /\ \A i \in 1..(Len(s) - p) : back[i] = s[p + i]
  BY <1>1, SubSeqProperties
<1>4. RemoveAt(s, p) = front \o back
  BY DEF RemoveAt
<1> HIDE DEF front, back
<1>5. /\ front \o back \in Seq(S)
      /\ Len(front \o back) = Len(front) + Len(back)
      /\ \A i \in 1..(Len(front) + Len(back)) :
           (front \o back)[i] =
             IF i <= Len(front) THEN front[i] ELSE back[i - Len(front)]
  BY <1>2, <1>3, ConcatProperties
<1>6. Len(front) + Len(back) = Len(s) - 1
  BY <1>1, <1>2, <1>3
<1>7. ASSUME NEW i \in 1..(Len(s) - 1)
      PROVE  (front \o back)[i] = IF i < p THEN s[i] ELSE s[i + 1]
  <2>1. CASE i < p
    BY <1>1, <1>2, <1>5, <1>6, <2>1
  <2>2. CASE p <= i
    <3>1. i - (p - 1) \in 1..(Len(s) - p) /\ p + (i - (p - 1)) = i + 1
      BY <1>1, <2>2
    <3>2. (front \o back)[i] = back[i - (p - 1)]
      BY <1>1, <1>2, <1>5, <1>6, <2>2
    <3> QED
      BY <1>3, <2>2, <3>1, <3>2
  <2>3. i < p \/ p <= i
    BY <1>1
  <2> QED
    BY <2>1, <2>2, <2>3
<1> QED
  BY <1>4, <1>5, <1>6, <1>7

\* Taking out one place takes out its element and no other.
LEMMA RemoveAtInjective ==
  ASSUME NEW S, NEW s \in Seq(S), IsInjective(s), NEW p \in 1..Len(s)
  PROVE  /\ IsInjective(RemoveAt(s, p))
         /\ ToSet(RemoveAt(s, p)) = ToSet(s) \ {s[p]}
<1> DEFINE t == RemoveAt(s, p)
<1>1. DOMAIN s = 1..Len(s) /\ Len(s) \in Nat
  BY LenProperties
<1>2. /\ t \in Seq(S) /\ Len(t) = Len(s) - 1
      /\ \A i \in 1..(Len(s) - 1) : t[i] = IF i < p THEN s[i] ELSE s[i + 1]
  BY RemoveAtElements
<1> HIDE DEF t
<1>3. DOMAIN t = 1..(Len(s) - 1)
  BY <1>2, LenProperties
<1>4. \A i, j \in DOMAIN s : s[i] = s[j] => i = j
  BY DEF IsInjective
<1>5. IsInjective(t)
  <2> SUFFICES ASSUME NEW i \in 1..(Len(s) - 1), NEW j \in 1..(Len(s) - 1),
                      t[i] = t[j]
               PROVE  i = j
    BY <1>3 DEF IsInjective
  <2>1. i \in 1..Len(s) /\ i + 1 \in 1..Len(s)
    BY <1>1
  <2>2. j \in 1..Len(s) /\ j + 1 \in 1..Len(s)
    BY <1>1
  <2> QED
    BY <1>1, <1>2, <1>4, <2>1, <2>2
<1>6. ToSet(t) \subseteq ToSet(s) \ {s[p]}
  <2> SUFFICES ASSUME NEW i \in 1..(Len(s) - 1)
               PROVE  t[i] \in ToSet(s) \ {s[p]}
    BY <1>3 DEF ToSet
  <2>1. i \in 1..Len(s) /\ i + 1 \in 1..Len(s)
    BY <1>1
  <2> QED
    BY <1>1, <1>2, <1>4, <2>1 DEF ToSet
<1>7. \A i \in 1..Len(s) : i # p =>
        /\ (IF i < p THEN i ELSE i - 1) \in 1..(Len(s) - 1)
        /\ t[IF i < p THEN i ELSE i - 1] = s[i]
  BY <1>1, <1>2
<1>8. ToSet(s) \ {s[p]} \subseteq ToSet(t)
  <2> SUFFICES ASSUME NEW x \in ToSet(s), x # s[p]
               PROVE  x \in ToSet(t)
    OBVIOUS
  <2>1. PICK i \in 1..Len(s) : s[i] = x
    BY <1>1 DEF ToSet
  <2>2. i # p
    BY <2>1
  <2> QED
    BY <1>3, <1>7, <2>1, <2>2 DEF ToSet
<1> QED
  BY <1>5, <1>6, <1>8 DEF t

\* Appending an element that is not there yet.
LEMMA AppendNew ==
  ASSUME NEW S, NEW s \in Seq(S), IsInjective(s), NEW x \in S, x \notin ToSet(s)
  PROVE  /\ Append(s, x) \in Seq(S) /\ IsInjective(Append(s, x))
         /\ ToSet(Append(s, x)) = ToSet(s) \cup {x}
         /\ Last(Append(s, x)) = x
<1> DEFINE t == Append(s, x)
<1>1. DOMAIN s = 1..Len(s) /\ Len(s) \in Nat
  BY LenProperties
<1>2. /\ t \in Seq(S) /\ Len(t) = Len(s) + 1
      /\ \A i \in 1..Len(s) : t[i] = s[i]
      /\ t[Len(s) + 1] = x
  BY AppendProperties
<1>3. Last(t) = x
  BY <1>2 DEF Last
<1> HIDE DEF t
<1>4. DOMAIN t = 1..(Len(s) + 1)
  BY <1>2, LenProperties
<1>5. \A i, j \in DOMAIN s : s[i] = s[j] => i = j
  BY DEF IsInjective
<1>6. \A i \in DOMAIN s : s[i] # x
  BY DEF ToSet
<1>7. \A i \in DOMAIN t : i = Len(s) + 1 \/ i \in DOMAIN s
  BY <1>1, <1>4
<1>8. \A i \in DOMAIN s : i \in DOMAIN t /\ t[i] = s[i]
  BY <1>1, <1>2, <1>4
<1>9. IsInjective(t)
  BY <1>2, <1>5, <1>6, <1>7, <1>8 DEF IsInjective
<1>10. Len(s) + 1 \in DOMAIN t
  BY <1>1, <1>4
<1>11. ToSet(t) \subseteq ToSet(s) \cup {x}
  BY <1>2, <1>7, <1>8 DEF ToSet
<1>12. ToSet(s) \cup {x} \subseteq ToSet(t)
  BY <1>2, <1>8, <1>10 DEF ToSet
<1> QED
  BY <1>2, <1>3, <1>9, <1>11, <1>12 DEF t

\* Where the elements are when a new one is put in at place p.
LEMMA InsertAtElements ==
  ASSUME NEW S, NEW s \in Seq(S), NEW w \in S, NEW p \in 1..(Len(s) + 1)
  PROVE  /\ InsertAt(s, p, w) \in Seq(S)
         /\ Len(InsertAt(s, p, w)) = Len(s) + 1
         /\ \A i \in 1..(p - 1) : InsertAt(s, p, w)[i] = s[i]
         /\ InsertAt(s, p, w)[p] = w
         /\ \A i \in (p + 1)..(Len(s) + 1) : InsertAt(s, p, w)[i] = s[i - 1]
<1> DEFINE t == InsertAt(s, p, w)
           front == SubSeq(s, 1, p - 1)
           back == SubSeq(s, p, Len(s))
<1>1. /\ s \in Seq(S) /\ DOMAIN s = 1..Len(s) /\ Len(s) \in Nat
      /\ \A i \in 1..Len(s) : s[i] \in S
  BY LenProperties, ElementOfSeq
<1>2. /\ front \in Seq(S) /\ Len(front) = p - 1
      /\ \A i \in 1..(p - 1) : front[i] = s[i]
  BY <1>1, SubSeqProperties
<1>3. /\ back \in Seq(S) /\ Len(back) = Len(s) - p + 1
      /\ \A i \in 1..(Len(s) - p + 1) : back[i] = s[p + i - 1]
  BY <1>1, SubSeqProperties
<1>4. t = (front \o <<w>>) \o back
  BY DEF InsertAt
<1> HIDE DEF front, back, t
<1>5. /\ front \o <<w>> \in Seq(S) /\ Len(front \o <<w>>) = p
      /\ \A i \in 1..p :
           (front \o <<w>>)[i] = IF i < p THEN front[i] ELSE w
  BY <1>2
<1>6. /\ t \in Seq(S) /\ Len(t) = Len(s) + 1
      /\ \A i \in 1..(Len(s) + 1) :
           t[i] = IF i <= p THEN (front \o <<w>>)[i] ELSE back[i - p]
  <2> DEFINE a == front \o <<w>>
  <2>1. a \in Seq(S) /\ Len(a) = p /\ t = a \o back
    BY <1>4, <1>5
  <2> HIDE DEF a
  <2>2. /\ a \o back \in Seq(S) /\ Len(a \o back) = Len(a) + Len(back)
        /\ \A i \in 1..(Len(a) + Len(back)) :
             (a \o back)[i] = IF i <= Len(a) THEN a[i] ELSE back[i - Len(a)]
    BY <1>3, <2>1, ConcatProperties
  <2>3. Len(a) + Len(back) = Len(s) + 1
    BY <1>1, <1>3, <2>1
  <2> QED
    BY <2>1, <2>2, <2>3 DEF a
<1>7. DOMAIN t = 1..(Len(s) + 1)
  BY <1>6, LenProperties
<1>8. \A i \in 1..(p - 1) : t[i] = s[i]
  BY <1>1, <1>2, <1>5, <1>6
<1>9. t[p] = w
  BY <1>1, <1>5, <1>6
<1>10. \A i \in (p + 1)..(Len(s) + 1) : t[i] = s[i - 1]
  <2> SUFFICES ASSUME NEW i \in (p + 1)..(Len(s) + 1)
               PROVE  t[i] = s[i - 1]
    OBVIOUS
  <2>1. t[i] = back[i - p]
    BY <1>1, <1>6
  <2>2. i - p \in 1..(Len(s) - p + 1) /\ p + (i - p) - 1 = i - 1
    BY <1>1
  <2> QED
    BY <1>3, <2>1, <2>2
<1> QED
  BY <1>6, <1>8, <1>9, <1>10 DEF t

\* A set of natural numbers that is not empty has a least element.
LEMMA LeastNatural ==
  ASSUME NEW T, T \subseteq Nat, T # {}
  PROVE  \E i \in T : \A j \in T : i <= j
<1> DEFINE Less == {p \in Nat \X Nat : p[1] < p[2]}
<1>1. IsWellFoundedOn(Less, Nat)
  BY NatLessThanWellFounded, Zenon DEF OpToRel
<1>2. PICK i \in T : \A j \in T : <<j, i>> \notin Less
  <2> HIDE DEF Less
  <2> QED
    BY <1>1, WFMin
<1>3. \A j \in T : ~(j < i)
  BY <1>2
<1> QED
  BY <1>3

\* The elements f that k steps from a go through.
Goes(f, S, a, step, k) ==
  /\ f \in [0..k -> S]
  /\ f[0] = a
  /\ \A n \in 1..k : f[n] = step[<<n, f[n - 1]>>]

\* Any number of steps can be made from any element.
LEMMA Iterates ==
  ASSUME NEW S, NEW a \in S, NEW step \in [Nat \X S -> S], NEW k \in Nat
  PROVE  \E f : Goes(f, S, a, step, k)
<1> DEFINE Good(m) == \E f \in [0..m -> S] :
                        /\ f[0] = a
                        /\ \A n \in 1..m : f[n] = step[<<n, f[n - 1]>>]
           T == {m \in Nat : ~Good(m)}
<1>1. Good(0)
  <2> DEFINE f == [n \in 0..0 |-> a]
  <2>1. f \in [0..0 -> S] /\ f[0] = a /\ 1..0 = {}
    OBVIOUS
  <2> QED
    BY <2>1
<1>2. ASSUME NEW m \in Nat, Good(m)
      PROVE  Good(m + 1)
  <2>1. PICK f \in [0..m -> S] : /\ f[0] = a
                                 /\ \A n \in 1..m : f[n] = step[<<n, f[n - 1]>>]
    BY <1>2
  <2> DEFINE g == [n \in 0..(m + 1) |->
                     IF n = m + 1 THEN step[<<n, f[m]>>] ELSE f[n]]
  <2>2. f[m] \in S /\ \A n \in 0..m : f[n] \in S
    BY <2>1
  <2>3. step[<<m + 1, f[m]>>] \in S
    BY <2>2
  <2>4. g \in [0..(m + 1) -> S]
    BY <2>2, <2>3
  <2>5. g[0] = a /\ g[m + 1] = step[<<m + 1, f[m]>>] /\ \A n \in 0..m : g[n] = f[n]
    BY <2>1
  <2> HIDE DEF g
  <2>6. ASSUME NEW n \in 1..(m + 1)
        PROVE  g[n] = step[<<n, g[n - 1]>>]
    <3>1. CASE n = m + 1
      BY <2>5, <3>1
    <3>2. CASE n # m + 1
      <4>1. n \in 1..m /\ n \in 0..m /\ n - 1 \in 0..m
        BY <3>2
      <4> QED
        BY <2>1, <2>5, <4>1
    <3> QED
      BY <3>1, <3>2
  <2> QED
    BY <2>4, <2>5, <2>6
<1> HIDE DEF Good
<1>3. T = {}
  <2> SUFFICES ASSUME T # {}
               PROVE  FALSE
    OBVIOUS
  <2>1. PICK m \in T : \A j \in T : m <= j
    <3>1. T \subseteq Nat
      OBVIOUS
    <3> HIDE DEF T
    <3> QED
      BY <3>1, LeastNatural
  <2>2. m \in Nat /\ ~Good(m) /\ m # 0
    BY <1>1
  <2>3. m - 1 \in Nat /\ m - 1 \notin T /\ (m - 1) + 1 = m
    BY <2>1, <2>2
  <2>4. Good(m - 1)
    BY <2>3
  <2> QED
    BY <1>2, <2>2, <2>3, <2>4
<1>4. Good(k)
  BY <1>3
<1> QED
  BY <1>4 DEF Good, Goes

\* What holds at first and is kept by every step holds after any number of them.
LEMMA Settles ==
  ASSUME NEW k \in Nat, NEW F, NEW f, f[0] \in F[0],
         \A n \in 1..k : f[n - 1] \in F[n - 1] => f[n] \in F[n]
  PROVE  \A n \in 0..k : f[n] \in F[n]
<1> DEFINE T == {n \in Nat : n \in 0..k /\ f[n] \notin F[n]}
<1> SUFFICES ASSUME T # {}
             PROVE  FALSE
  OBVIOUS
<1>1. PICK n \in T : \A j \in T : n <= j
  <2>1. T \subseteq Nat
    OBVIOUS
  <2> HIDE DEF T
  <2> QED
    BY <2>1, LeastNatural
<1>2. n # 0
  BY <1>1
<1>3. n \in 1..k /\ n - 1 \in 0..k /\ n - 1 \notin T
  BY <1>1, <1>2
<1> QED
  BY <1>1, <1>3

\* What a loop over the list c comes through that does b to its elements in ws.
Passes(f, S, a, c, ws, b) ==
  /\ f \in [0..Len(c) -> S]
  /\ f[0] = a
  /\ \A n \in 1..Len(c) :
       f[n] = IF c[n] \in ws THEN b[<<f[n - 1], c[n]>>] ELSE f[n - 1]

\* Such a loop can be run.
LEMMA LoopRuns ==
  ASSUME NEW S, NEW a \in S, NEW E, NEW c \in Seq(E), NEW ws,
         NEW b \in [S \X E -> S]
  PROVE  \E f : Passes(f, S, a, c, ws, b)
<1> DEFINE k == Len(c)
           step == [p \in Nat \X S |->
                      IF p[1] \in 1..k /\ c[p[1]] \in ws THEN b[<<p[2], c[p[1]]>>] ELSE p[2]]
<1>1. k \in Nat /\ \A n \in 1..k : c[n] \in E
  BY LenProperties, ElementOfSeq
<1>2. step \in [Nat \X S -> S]
  BY <1>1
<1>3. PICK f : Goes(f, S, a, step, k)
  <2> HIDE DEF step, k
  <2> QED
    BY <1>1, <1>2, Iterates
<1>4. ASSUME NEW n \in 1..k
      PROVE  f[n] = IF c[n] \in ws THEN b[<<f[n - 1], c[n]>>] ELSE f[n - 1]
  <2>1. n - 1 \in 0..k /\ n \in Nat
    BY <1>1
  <2>2. <<n, f[n - 1]>> \in Nat \X S
    BY <1>3, <2>1 DEF Goes
  <2> QED
    BY <1>3, <2>2 DEF Goes
<1> QED
  BY <1>3, <1>4 DEF Goes, Passes
=============================================================================
