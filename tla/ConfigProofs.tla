----------------------------- MODULE ConfigProofs -----------------------------
(***************************************************************************)
(* What the settings keep for any keys, values, defaults, validators, files *)
(* and size of the buffer.                                                  *)
(*                                                                          *)
(* The first part does not depend on what a line of the file is or on how   *)
(* the stream finds it: readDB hands to insert only what the validator has  *)
(* accepted, and applies everything once more at its end.  The others do:   *)
(* what a file means, what the stream hands out of one that is rewritten    *)
(* under it, and what the lines read so far and those written back mean.    *)
(***************************************************************************)
EXTENDS Config, ListFacts

\* db is a record of three fields, which the updates of one of them need.
Shape == db = [settings |-> db.settings, effect |-> db.effect, file |-> db.file]

\* The induction hypothesis.  While the file is read the effects run ahead of
\* the defaults, so EffectFollowsSettings speaks only of a running program.
IInv == Shape /\ TypeOK /\ EffectFollowsSettings

-----------------------------------------------------------------------------

\* get returns a value that the validator accepts: of the map or the default.
LEMMA GetIsValid ==
  ASSUME NEW settings \in [Key -> Value \cup {Unset}],
         \A k \in Key : settings[k] \in Valid[k] \cup {Unset},
         NEW k \in Key
  PROVE  Get(settings, k) \in Valid[k] /\ Get(settings, k) \in Value
<1>1. Default[k] \in Valid[k] /\ Default[k] \in Value
  BY ValueAssumption
<1>2. settings[k] \in Value \cup {Unset} /\ settings[k] \in Valid[k] \cup {Unset}
  OBVIOUS
<1> QED
  BY <1>1, <1>2 DEF Get

\* insert of an accepted value, as readDB and /set call it: the map and what is
\* in effect get the same value, whose key is known.
LEMMA InsertKeeps ==
  ASSUME IInv, NEW k, NEW v, Accepted(k, v), db' = Insert(db, k, v),
         phase' = phase, registered' = registered, stream'.eof \in BOOLEAN
  PROVE  IInv'
<1>1. k \in registered /\ k \in Key /\ v \in Valid[k] /\ v \in Value /\ v # Unset
  BY ValueAssumption DEF Accepted, IInv, TypeOK
<1>2. /\ db'.settings = [db.settings EXCEPT ![k] = v]
      /\ db'.effect = [db.effect EXCEPT ![k] = v]
      /\ Shape'
  BY DEF Insert, Shape
<1>3. TypeOK'
  BY <1>1, <1>2 DEF IInv, TypeOK
<1>4. EffectFollowsSettings'
  <2> SUFFICES ASSUME phase' = "running", NEW j \in registered
               PROVE  \/ db'.effect[j] = Get(db'.settings, j)
                      \/ j \in PluginKey /\ db'.effect[j] = Raw
    BY DEF EffectFollowsSettings
  <2>1. j \in Key
    BY DEF IInv, TypeOK
  <2>2. CASE j = k
    BY <1>1, <1>2, <2>2 DEF Get, IInv, TypeOK
  <2>3. CASE j # k
    <3>1. db'.settings[j] = db.settings[j] /\ db'.effect[j] = db.effect[j]
      BY <1>1, <1>2, <2>1, <2>3 DEF IInv, TypeOK
    <3> QED
      BY <3>1 DEF Get, IInv, EffectFollowsSettings
  <2> QED
    BY <2>2, <2>3
<1> QED
  BY <1>2, <1>3, <1>4 DEF IInv

\* /set with "-": the default is put into effect for a key that is known, and
\* of the others, which no widget and no plugin asks for, nothing is said.
LEMMA DeleteKeeps ==
  ASSUME IInv, NEW k \in Key, db' = Delete(db, k),
         phase' = phase, registered' = registered, stream' = stream
  PROVE  IInv'
<1>1. CASE db.settings[k] = Unset
  <2>1. db' = db
    BY <1>1 DEF Delete
  <2> QED
    BY <2>1 DEF IInv, Shape, TypeOK, EffectFollowsSettings
<1>2. CASE db.settings[k] # Unset
  <2>1. /\ db'.settings = [db.settings EXCEPT ![k] = Unset]
        /\ db'.effect = [db.effect EXCEPT ![k] = IF k \in registered THEN Default[k] ELSE @]
        /\ Shape'
    BY <1>2 DEF Delete, Shape
  <2>2. Default[k] \in Valid[k] /\ Default[k] \in Value
    BY ValueAssumption
  <2>3. TypeOK'
    BY <2>1, <2>2 DEF IInv, TypeOK
  <2>4. ASSUME NEW j \in registered, phase = "running"
        PROVE  \/ db'.effect[j] = Get(db'.settings, j)
               \/ j \in PluginKey /\ db'.effect[j] = Raw
    <3>1. j \in Key
      BY <2>4 DEF IInv, TypeOK
    <3>2. CASE j = k
      BY <2>1, <2>4, <3>2 DEF Get, IInv, TypeOK
    <3>3. CASE j # k
      <4>1. db'.settings[j] = db.settings[j] /\ db'.effect[j] = db.effect[j]
        BY <2>1, <3>1, <3>3 DEF IInv, TypeOK
      <4> QED
        BY <2>4, <4>1 DEF Get, IInv, EffectFollowsSettings
    <3> QED
      BY <3>2, <3>3
  <2>5. EffectFollowsSettings'
    BY <2>4 DEF EffectFollowsSettings
  <2> QED
    BY <2>1, <2>3, <2>5 DEF IInv
<1> QED
  BY <1>1, <1>2

\* applyAll at the end of readDB: whatever the lines had put into effect, and
\* in whatever order, the defaults of the keys that no line names are there too.
LEMMA ApplyAllEstablishes ==
  ASSUME Shape, TypeOK, EndRead
  PROVE  IInv'
<1>1. /\ phase' = "running" /\ registered' = registered
      /\ db'.settings = db.settings
      /\ db'.effect = [k \in Key |-> IF k \in registered THEN Get(db.settings, k) ELSE db.effect[k]]
      /\ Shape'
      /\ stream'.eof \in BOOLEAN
  BY DEF EndRead, ApplyAll, Shape, Closed
<1>2. \A k \in Key : Get(db.settings, k) \in Valid[k] /\ Get(db.settings, k) \in Value
  BY GetIsValid DEF TypeOK
<1>3. \A k \in Key : /\ db'.effect[k] \in Valid[k] \cup {Raw}
                     /\ db'.effect[k] \in Value \cup {Raw}
  BY <1>1, <1>2 DEF TypeOK
<1>4. db'.effect \in [Key -> Value \cup {Raw}]
  BY <1>1, <1>3
<1>5. TypeOK'
  BY <1>1, <1>3, <1>4 DEF TypeOK
<1>6. EffectFollowsSettings'
  BY <1>1 DEF EffectFollowsSettings, TypeOK
<1> QED
  BY <1>1, <1>5, <1>6 DEF IInv

-----------------------------------------------------------------------------

\* Nothing is set or in effect before the first start.
LEMMA InitEstablishes == Init => IInv
BY DEF Init, IInv, Shape, TypeOK, EffectFollowsSettings, NoSettings, Closed

\* Each action keeps the induction hypothesis.
LEMMA StepKeeps == IInv /\ [Next]_vars => IInv'
<1> SUFFICES ASSUME IInv, [Next]_vars PROVE IInv'
  OBVIOUS
<1>1. ASSUME NEW file, Edit(file) PROVE IInv'
  <2>1. /\ phase' = "down" /\ registered' = registered /\ stream' = stream
        /\ db'.settings = db.settings /\ db'.effect = db.effect /\ Shape'
    BY <1>1 DEF Edit, IInv, Shape
  <2> QED
    BY <2>1 DEF IInv, TypeOK, EffectFollowsSettings
<1>2. ASSUME NEW plugins \in SUBSET PluginKey, Start(plugins) PROVE IInv'
  <2>1. /\ phase' = "reading" /\ registered' = (Key \ PluginKey) \cup plugins
        /\ db'.settings = NoSettings /\ db'.effect = [k \in Key |-> Raw] /\ Shape'
        /\ stream'.eof = FALSE
    BY <1>2 DEF Start, IInv, Shape, Closed
  <2>2. registered' \subseteq Key
    BY <2>1, KeyAssumption
  <2> QED
    BY <2>1, <2>2 DEF IInv, TypeOK, EffectFollowsSettings, NoSettings
<1>3. CASE ReadLine
  <2> DEFINE line == NextLine(stream, db.file)
  <2>1. /\ phase = "reading" /\ registered' = registered
        /\ stream'.eof \in BOOLEAN
    BY <1>3 DEF ReadLine, AfterLine, Handing
  <2>2. CASE UNCHANGED <<phase, db>>
    BY <2>1, <2>2 DEF IInv, Shape, TypeOK, EffectFollowsSettings
  <2>3. CASE phase' = "failed" /\ UNCHANGED db
    BY <2>1, <2>3 DEF IInv, Shape, TypeOK, EffectFollowsSettings
  <2>4. CASE /\ Accepted(line[1].key, Last(line).value)
             /\ db' = Insert(db, line[1].key, Last(line).value)
             /\ UNCHANGED phase
    <3> HIDE DEF line
    <3> QED
      BY <2>1, <2>4, InsertKeeps
  <2> HIDE DEF line
  <2>5. \/ UNCHANGED <<phase, db>>
        \/ phase' = "failed" /\ UNCHANGED db
        \/ /\ Accepted(line[1].key, Last(line).value)
           /\ db' = Insert(db, line[1].key, Last(line).value)
           /\ UNCHANGED phase
    BY <1>3, Zenon DEF ReadLine, line
  <2> QED
    BY <2>2, <2>3, <2>4, <2>5
<1>4. CASE EndRead
  BY <1>4, ApplyAllEstablishes DEF IInv
<1>5. ASSUME NEW k \in Key, NEW v \in Value, Set(k, v) PROVE IInv'
  BY <1>5, InsertKeeps DEF Set, IInv, TypeOK
<1>6. ASSUME NEW k \in Key, Reset(k) PROVE IInv'
  BY <1>6, DeleteKeeps DEF Reset
<1>7. ASSUME NEW k \in Key, LoadPlugin(k) PROVE IInv'
  <2>1. /\ k \in PluginKey
        /\ phase' = phase /\ registered' = registered \cup {k} /\ stream' = stream
        /\ db'.settings = db.settings /\ db'.effect = [db.effect EXCEPT ![k] = Raw]
        /\ Shape'
    BY <1>7 DEF LoadPlugin, IInv, Shape
  <2>2. TypeOK'
    BY <2>1 DEF IInv, TypeOK
  <2>3. EffectFollowsSettings'
    BY <2>1 DEF IInv, TypeOK, EffectFollowsSettings
  <2> QED
    BY <2>1, <2>2, <2>3 DEF IInv
<1>8. ASSUME NEW k \in Key, UnloadPlugin(k) PROVE IInv'
  BY <1>8 DEF UnloadPlugin, IInv, Shape, TypeOK, EffectFollowsSettings
<1>9. CASE Stop
  BY <1>9 DEF Stop, IInv, Shape, TypeOK, EffectFollowsSettings
<1>10. CASE StopInWrite
  <2>1. /\ phase' = "down" /\ registered' = registered /\ stream' = stream
        /\ db'.settings = db.settings /\ db'.effect = db.effect /\ Shape'
    BY <1>10 DEF StopInWrite, IInv, Shape
  <2> QED
    BY <2>1 DEF IInv, TypeOK, EffectFollowsSettings
<1>11. CASE UNCHANGED vars
  BY <1>11 DEF vars, IInv, Shape, TypeOK, EffectFollowsSettings
<1> QED
  BY <1>1, <1>2, <1>3, <1>4, <1>5, <1>6, <1>7, <1>8, <1>9, <1>10, <1>11 DEF Next

\* The inductive invariant holds throughout.
THEOREM ConfigInvariant == Spec => []IInv
BY InitEstablishes, StepKeeps, PTL DEF Spec

\* No value that a validator refuses gets into the map or to an applicator,
\* whether it comes from the file or from /set.
THEOREM OnlyValidValues == Spec => []TypeOK
<1>1. IInv => TypeOK
  BY DEF IInv
<1> QED
  BY <1>1, ConfigInvariant, PTL

\* While the program runs, what the applicators have put into effect is what
\* get returns, but for the keys of a plugin loaded late.
THEOREM EffectFollows == Spec => []EffectFollowsSettings
<1>1. IInv => EffectFollowsSettings
  BY DEF IInv
<1> QED
  BY <1>1, ConfigInvariant, PTL

-----------------------------------------------------------------------------
(* What a file means.                                                       *)

\* The line of the file that ends at i sets k.
Gives(file, i, k) ==
  /\ i \in DOMAIN file
  /\ \/ file[i].kind = "short" /\ file[i].key = k
     \/ file[i].kind = "second" /\ i > 1 /\ file[i - 1] = First(k)

\* A set of places in a file has a last one.
LEMMA LastPlace ==
  ASSUME NEW n \in Nat, NEW T \in SUBSET (1..n), T # {}
  PROVE  \E i \in T : \A j \in T : j <= i
<1> DEFINE U == {n - i : i \in T}
<1>1. U \subseteq Nat /\ U # {}
  <2>1. U \subseteq Nat
    OBVIOUS
  <2>2. PICK t \in T : TRUE
    OBVIOUS
  <2>3. n - t \in U
    OBVIOUS
  <2> QED
    BY <2>1, <2>3
<1> HIDE DEF U
<1>2. PICK d \in U : \A e \in U : d <= e
  BY <1>1, LeastNatural
<1>3. PICK i \in T : d = n - i
  BY <1>2 DEF U
<1>4. \A j \in T : n - i <= n - j
  BY <1>2, <1>3 DEF U
<1>5. \A j \in T : j <= i
  BY <1>4
<1> QED
  BY <1>5

\* What a file means for a key is the value of the last line that sets it.
LEMMA MeaningIs ==
  ASSUME NEW file \in Seq(Token), NEW k \in Key
  PROVE  /\ (\A i \in DOMAIN file : ~Gives(file, i, k)) => Meaning(file)[k] = Unset
         /\ \A i \in DOMAIN file :
              Gives(file, i, k) /\ (\A j \in DOMAIN file : Gives(file, j, k) => j <= i)
                => Meaning(file)[k] = file[i].value
         /\ \A i \in DOMAIN file :
              Gives(file, i, k) => \E l \in DOMAIN file :
                Gives(file, l, k) /\ \A j \in DOMAIN file : Gives(file, j, k) => j <= l
<1> DEFINE at == {i \in DOMAIN file :
                    \/ file[i].kind = "short" /\ file[i].key = k
                    \/ file[i].kind = "second" /\ i > 1 /\ file[i - 1] = First(k)}
<1>1. Meaning(file)[k] = IF at = {} THEN Unset ELSE file[Max(at)].value
  BY DEF Meaning
<1>2. at = {i \in DOMAIN file : Gives(file, i, k)}
  BY DEF Gives
<1> HIDE DEF at
<1>3. DOMAIN file = 1..Len(file) /\ Len(file) \in Nat
  BY LenProperties
<1>4. ASSUME NEW i \in DOMAIN file, Gives(file, i, k),
             \A j \in DOMAIN file : Gives(file, j, k) => j <= i
      PROVE  Max(at) = i
  <2>1. i \in at /\ \A j \in at : i >= j
    BY <1>2, <1>3, <1>4
  <2>2. \A x \in at : (\A y \in at : x >= y) => x = i
    BY <1>2, <1>3, <2>1
  <2> QED
    BY <2>1, <2>2 DEF Max
<1>5. ASSUME NEW i \in DOMAIN file, Gives(file, i, k)
      PROVE  \E l \in at : \A j \in at : j <= l
  <2>1. at # {} /\ at \in SUBSET (1..Len(file))
    BY <1>2, <1>3, <1>5
  <2> QED
    BY <1>3, <2>1, LastPlace
<1> QED
  BY <1>1, <1>2, <1>4, <1>5


\* What a part of a sequence is.
LEMMA Part ==
  ASSUME NEW S, NEW s \in Seq(S), NEW a \in Nat, NEW b \in Nat, a <= b, b <= Len(s)
  PROVE  /\ SubSeq(s, a + 1, b) \in Seq(S)
         /\ Len(SubSeq(s, a + 1, b)) = b - a
         /\ \A i \in 1..(b - a) : SubSeq(s, a + 1, b)[i] = s[a + i]
<1>1. Len(s) \in Nat /\ \A i \in 1..Len(s) : s[i] \in S
  BY LenProperties, ElementOfSeq
<1>2. a + 1 \in Int /\ b \in Int /\ \A i \in (a + 1)..b : s[i] \in S
  BY <1>1
<1>3. /\ SubSeq(s, a + 1, b) \in Seq(S)
      /\ Len(SubSeq(s, a + 1, b)) = IF a + 1 <= b THEN b - (a + 1) + 1 ELSE 0
      /\ \A i \in 1..(b - (a + 1) + 1) : SubSeq(s, a + 1, b)[i] = s[(a + 1) + i - 1]
  BY <1>2, SubSeqProperties
<1>4. b - (a + 1) + 1 = b - a /\ \A i \in 1..(b - a) : (a + 1) + i - 1 = a + i
  OBVIOUS
<1>5. (IF a + 1 <= b THEN b - a ELSE 0) = b - a
  OBVIOUS
<1> QED
  BY <1>3, <1>4, <1>5

\* A part that ends before it begins.
LEMMA NoPart ==
  ASSUME NEW s, NEW a \in Nat, NEW b \in Nat, b <= a
  PROVE  SubSeq(s, a + 1, b) = <<>>
<1>1. a + 1 \in Int /\ b \in Int /\ b < a + 1
  OBVIOUS
<1> QED
  BY <1>1, SubSeqEmpty

\* Two parts of a sequence that meet are a part of it.
LEMMA PartsJoin ==
  ASSUME NEW S, NEW s \in Seq(S), NEW a \in Nat, NEW b \in Nat, NEW c \in Nat,
         a <= b, b <= c, c <= Len(s)
  PROVE  SubSeq(s, a + 1, b) \o SubSeq(s, b + 1, c) = SubSeq(s, a + 1, c)
<1> DEFINE x == SubSeq(s, a + 1, b)
           y == SubSeq(s, b + 1, c)
           z == SubSeq(s, a + 1, c)
<1>0. Len(s) \in Nat /\ b <= Len(s) /\ a <= c
  BY LenProperties
<1>1. x \in Seq(S) /\ Len(x) = b - a /\ \A i \in 1..(b - a) : x[i] = s[a + i]
  BY <1>0, Part
<1>2. y \in Seq(S) /\ Len(y) = c - b /\ \A i \in 1..(c - b) : y[i] = s[b + i]
  BY <1>0, Part
<1>3. z \in Seq(S) /\ Len(z) = c - a /\ \A i \in 1..(c - a) : z[i] = s[a + i]
  BY <1>0, Part
<1> HIDE DEF x, y, z
<1>4. /\ x \o y \in Seq(S) /\ Len(x \o y) = c - a
      /\ \A i \in 1..(c - a) : (x \o y)[i] = IF i <= b - a THEN x[i] ELSE y[i - (b - a)]
  <2>1. x \o y \in Seq(S) /\ Len(x \o y) = Len(x) + Len(y)
    BY <1>1, <1>2, ConcatProperties
  <2>2. \A i \in 1..(Len(x) + Len(y)) : (x \o y)[i] = IF i <= Len(x) THEN x[i] ELSE y[i - Len(x)]
    BY <1>1, <1>2, ConcatProperties
  <2>3. Len(x) + Len(y) = c - a
    BY <1>1, <1>2
  <2> QED
    BY <1>1, <2>1, <2>2, <2>3
<1>5. \A i \in 1..(c - a) : (x \o y)[i] = z[i]
  <2> SUFFICES ASSUME NEW i \in 1..(c - a)
               PROVE  (x \o y)[i] = z[i]
    OBVIOUS
  <2>1. CASE i <= b - a
    BY <1>1, <1>3, <1>4, <2>1
  <2>2. CASE ~(i <= b - a)
    <3>1. i - (b - a) \in 1..(c - b) /\ b + (i - (b - a)) = a + i
      BY <2>2
    <3> QED
      BY <1>2, <1>3, <1>4, <2>2, <3>1
  <2> QED
    BY <2>1, <2>2
<1>6. x \o y = z
  BY <1>3, <1>4, <1>5, SeqEqual
<1> QED
  BY <1>6 DEF x, y, z

\* A part of a part of a sequence is a part of it.
LEMMA PartOfPart ==
  ASSUME NEW S, NEW s \in Seq(S), NEW a \in Nat, NEW b \in Nat, NEW c \in Nat,
         a <= b, b <= Len(s), c <= b - a
  PROVE  SubSeq(SubSeq(s, a + 1, b), c + 1, b - a) = SubSeq(s, (a + c) + 1, b)
<1> DEFINE x == SubSeq(s, a + 1, b)
           y == SubSeq(x, c + 1, b - a)
           z == SubSeq(s, (a + c) + 1, b)
<1>0. Len(s) \in Nat /\ a + c \in Nat /\ a + c <= b /\ b - a \in Nat /\ b - (a + c) = (b - a) - c
  BY LenProperties
<1>1. x \in Seq(S) /\ Len(x) = b - a /\ \A i \in 1..(b - a) : x[i] = s[a + i]
  BY Part
<1>2. z \in Seq(S) /\ Len(z) = b - (a + c) /\ \A i \in 1..(b - (a + c)) : z[i] = s[(a + c) + i]
  BY <1>0, Part
<1> HIDE DEF x
<1>3. y \in Seq(S) /\ Len(y) = (b - a) - c /\ \A i \in 1..((b - a) - c) : y[i] = x[c + i]
  BY <1>0, <1>1, Part
<1> HIDE DEF y, z
<1>4. \A i \in 1..Len(y) : y[i] = z[i]
  <2> SUFFICES ASSUME NEW i \in 1..((b - a) - c)
               PROVE  y[i] = z[i]
    BY <1>3
  <2>1. c + i \in 1..(b - a) /\ a + (c + i) = (a + c) + i
    OBVIOUS
  <2> QED
    BY <1>0, <1>1, <1>2, <1>3, <2>1
<1>5. y = z
  BY <1>0, <1>2, <1>3, <1>4, SeqEqual
<1> QED
  BY <1>5 DEF x, y, z

\* The beginning of a sequence.
LEMMA Prefix ==
  ASSUME NEW S, NEW s \in Seq(S), NEW n \in Nat, n <= Len(s)
  PROVE  /\ SubSeq(s, 1, n) \in Seq(S) /\ Len(SubSeq(s, 1, n)) = n
         /\ \A i \in 1..n : SubSeq(s, 1, n)[i] = s[i]
<1>1. 0 \in Nat /\ 0 <= n /\ 0 + 1 = 1 /\ n - 0 = n /\ \A i \in 1..n : 0 + i = i
  OBVIOUS
<1>2. SubSeq(s, 0 + 1, n) \in Seq(S) /\ Len(SubSeq(s, 0 + 1, n)) = n - 0
  BY <1>1, Part
<1>3. \A i \in 1..(n - 0) : SubSeq(s, 0 + 1, n)[i] = s[0 + i]
  BY <1>1, Part
<1> QED
  BY <1>1, <1>2, <1>3

-----------------------------------------------------------------------------
(* The stream.                                                              *)

\* A line of n tokens, the first of what is left.
Begins(line, rest, n) ==
  /\ n \in 0..Len(rest) /\ n \in Nat
  /\ line \in Seq(Token) /\ Len(line) = n
  /\ \A i \in 1..n : line[i] = rest[i]
  /\ n = 0 => rest = <<>>
  /\ \A i \in 1..(n - 1) : rest[i].kind = "first"
  /\ n > 0 /\ rest[n].kind = "first" => n = Len(rest)

\* A line is what is left of the file up to the first end of a line, or all.
LEMMA NextLineIs ==
  ASSUME NEW st, NEW file, Rest(st, file) \in Seq(Token)
  PROVE  Begins(NextLine(st, file), Rest(st, file), Len(NextLine(st, file)))
<1> DEFINE rest == Rest(st, file)
           ends == {i \in DOMAIN rest : rest[i].kind # "first"}
           line == NextLine(st, file)
<1>1. line = IF ends = {} THEN rest ELSE SubSeq(rest, 1, Min(ends))
  BY DEF NextLine
<1>2. rest \in Seq(Token)
  OBVIOUS
<1> HIDE DEF rest, line
<1>3. DOMAIN rest = 1..Len(rest) /\ Len(rest) \in Nat
  BY <1>2, LenProperties
<1>4. CASE ends = {}
  <2>1. line = rest
    BY <1>1, <1>4
  <2>2. \A i \in 1..Len(rest) : rest[i].kind = "first"
    BY <1>3, <1>4
  <2>3. Len(rest) = 0 => rest = <<>>
    BY <1>2, EmptySeq
  <2>4. Len(rest) \in 0..Len(rest) /\ \A i \in 1..(Len(rest) - 1) : i \in 1..Len(rest)
    BY <1>3
  <2>5. Begins(rest, rest, Len(rest))
    BY <1>2, <1>3, <2>2, <2>3, <2>4 DEF Begins
  <2> QED
    BY <2>1, <2>5 DEF rest, line
<1>5. CASE ends # {}
  <2>1. ends \subseteq Nat
    BY <1>3
  <2>2. PICK n \in ends : \A j \in ends : n <= j
    <3> HIDE DEF ends
    <3> QED
      BY <1>5, <2>1, LeastNatural
  <2>3. Min(ends) = n
    <3>1. \A x \in ends : (\A y \in ends : x =< y) => x = n
      BY <2>1, <2>2
    <3> HIDE DEF ends
    <3> QED
      BY <2>2, <3>1 DEF Min
  <2>4. n \in 1..Len(rest) /\ rest[n].kind # "first"
    BY <1>3, <2>2
  <2>5. \A i \in 1..(n - 1) : rest[i].kind = "first"
    <3> SUFFICES ASSUME NEW i \in 1..(n - 1), rest[i].kind # "first"
                 PROVE  FALSE
      OBVIOUS
    <3>1. i \in ends
      BY <1>3, <2>4
    <3> QED
      BY <2>2, <2>4, <3>1
  <2> HIDE DEF ends
  <2>6. n \in Nat /\ n # 0 /\ n \in 0..Len(rest)
    BY <1>3, <2>4
  <2>7. /\ SubSeq(rest, 1, n) \in Seq(Token) /\ Len(SubSeq(rest, 1, n)) = n
        /\ \A i \in 1..n : SubSeq(rest, 1, n)[i] = rest[i]
    BY <1>2, <2>4, <2>6, Prefix
  <2>8. line = SubSeq(rest, 1, n)
    BY <1>1, <1>5, <2>3
  <2>9. Len(line) = n
    BY <2>7, <2>8
  <2>10. Begins(line, rest, n)
    BY <2>4, <2>5, <2>6, <2>7, <2>8 DEF Begins
  <2> QED
    BY <2>9, <2>10 DEF rest, line
<1> QED
  BY <1>4, <1>5

\* The stream has handed out b tokens of the file and has the next in its buffer.
Handed(st, file, b) ==
  /\ b \in Nat /\ st.offset \in Nat /\ b <= st.offset
  /\ b < st.offset => st.offset <= Len(file)
  /\ st.buffer = SubSeq(file, b + 1, st.offset)

\* What such a stream has not handed out is what follows in the file.
LEMMA HandedRest ==
  ASSUME NEW st, NEW file \in Seq(Token), NEW b, Handed(st, file, b)
  PROVE  /\ Rest(st, file) = SubSeq(file, b + 1, Len(file))
         /\ b >= Len(file) => Rest(st, file) = <<>>
         /\ b < Len(file) => st.offset <= Len(file)
         /\ st.buffer \in Seq(Token) /\ Len(st.buffer) = st.offset - b
<1> DEFINE off == st.offset
           buffer == st.buffer
           rest == Rest(st, file)
<1>0. Len(file) \in Nat
  BY LenProperties
<1>1. /\ off \in Nat /\ b \in Nat /\ b <= off /\ buffer = SubSeq(file, b + 1, off)
      /\ b < off => off <= Len(file)
      /\ rest = buffer \o SubSeq(file, off + 1, Len(file))
  BY DEF Handed, Rest
<1> HIDE DEF off, buffer, rest
<1>2. b >= Len(file) => SubSeq(file, b + 1, Len(file)) = <<>>
  BY <1>0, <1>1, NoPart
<1>3. CASE off <= Len(file)
  <2>1. rest = SubSeq(file, b + 1, Len(file))
    <3>1. Len(file) <= Len(file)
      BY <1>0
    <3> QED
      BY <1>0, <1>1, <1>3, <3>1, PartsJoin
  <2>2. buffer \in Seq(Token) /\ Len(buffer) = off - b
    BY <1>1, <1>3, Part
  <2> QED
    BY <1>2, <1>3, <2>1, <2>2 DEF off, buffer, rest
<1>4. CASE ~(off <= Len(file))
  <2>1. b = off /\ b >= Len(file)
    BY <1>0, <1>1, <1>4
  <2>2. buffer = <<>>
    BY <1>1, <2>1, NoPart
  <2>3. SubSeq(file, off + 1, Len(file)) = <<>>
    BY <1>0, <1>1, <2>1, NoPart
  <2>4. <<>> \o <<>> = <<>>
    BY ConcatEmptySeq, EmptySeq
  <2>5. rest = <<>>
    BY <1>1, <2>2, <2>3, <2>4
  <2>6. buffer \in Seq(Token) /\ Len(buffer) = off - b
    BY <1>1, <2>1, <2>2, EmptySeq
  <2>7. ~(b < Len(file))
    BY <1>0, <1>1, <2>1
  <2> QED
    BY <1>2, <2>1, <2>5, <2>6, <2>7 DEF off, buffer, rest
<1> QED
  BY <1>3, <1>4

\* What a stream has not handed out, when its buffer has tokens.
LEMMA RestTyped ==
  ASSUME NEW st, NEW file \in Seq(Token), st.buffer \in Seq(Token), st.offset \in Nat
  PROVE  /\ Rest(st, file) \in Seq(Token)
         /\ Len(st.buffer) <= Len(Rest(st, file))
         /\ \A i \in 1..Len(st.buffer) : Rest(st, file)[i] = st.buffer[i]
<1> DEFINE off == st.offset
           buffer == st.buffer
           tail == SubSeq(file, off + 1, Len(file))
           rest == Rest(st, file)
<1>0. Len(file) \in Nat /\ off \in Nat /\ buffer \in Seq(Token) /\ rest = buffer \o tail
  BY LenProperties DEF Rest
<1> HIDE DEF off, buffer, rest
<1>1. tail \in Seq(Token)
  <2>1. CASE off <= Len(file)
    BY <1>0, <2>1, Part
  <2>2. CASE ~(off <= Len(file))
    <3>1. tail = <<>>
      BY <1>0, <2>2, NoPart
    <3> QED
      BY <3>1, EmptySeq
  <2> QED
    BY <2>1, <2>2
<1> HIDE DEF tail
<1>2. Len(tail) \in Nat /\ Len(buffer) \in Nat
  BY <1>0, <1>1, LenProperties
<1>3. rest \in Seq(Token) /\ Len(rest) = Len(buffer) + Len(tail)
  BY <1>0, <1>1, ConcatProperties
<1>4. \A i \in 1..(Len(buffer) + Len(tail)) :
        rest[i] = IF i <= Len(buffer) THEN buffer[i] ELSE tail[i - Len(buffer)]
  BY <1>0, <1>1, ConcatProperties
<1>5. Len(buffer) <= Len(rest) /\ \A i \in 1..Len(buffer) : rest[i] = buffer[i]
  BY <1>2, <1>3, <1>4
<1> QED
  BY <1>3, <1>5 DEF buffer, rest

\* Where nothing is left there is no line.
LEMMA NoLine ==
  ASSUME NEW st, NEW file, Rest(st, file) \in Seq(Token)
  PROVE  NextLine(st, file) = <<>> <=> Rest(st, file) = <<>>
<1> DEFINE line == NextLine(st, file)
           rest == Rest(st, file)
           n == Len(line)
<1>1. Begins(line, rest, n) /\ rest \in Seq(Token)
  BY NextLineIs
<1> HIDE DEF line, rest
<1>2. line \in Seq(Token) /\ n \in 0..Len(rest) /\ (n = 0 => rest = <<>>)
  BY <1>1 DEF Begins
<1>3. (line = <<>> => n = 0) /\ (n = 0 => line = <<>>) /\ (rest = <<>> => Len(rest) = 0)
  BY <1>2, EmptySeq
<1> QED
  BY <1>2, <1>3 DEF line, rest

\* How often a buffer is filled to have m more tokens.
LEMMA Fills ==
  ASSUME NEW m \in Nat, NEW B \in Nat \ {0}
  PROVE  /\ (m + B - 1) \div B \in Nat
         /\ ((m + B - 1) \div B) * B >= m
         /\ m = 0 => (m + B - 1) \div B = 0
         /\ 1 <= m /\ m <= B => (m + B - 1) \div B = 1
OBVIOUS

\* The greater and the lesser of two numbers.
LEMMA OfTwo ==
  ASSUME NEW a \in Nat, NEW b \in Nat
  PROVE  /\ Max({a, b}) = IF a <= b THEN b ELSE a
         /\ Min({a, b}) = IF a <= b THEN a ELSE b
<1>1. /\ \A x \in {a, b} : (\A y \in {a, b} : x >= y) => x = IF a <= b THEN b ELSE a
      /\ \A x \in {a, b} : (\A y \in {a, b} : x =< y) => x = IF a <= b THEN a ELSE b
  OBVIOUS
<1>2. /\ \E x \in {a, b} : \A y \in {a, b} : x >= y
      /\ \E x \in {a, b} : \A y \in {a, b} : x =< y
  OBVIOUS
<1> QED
  BY <1>1, <1>2 DEF Max, Min

\* A line that has its end.
EndedLine(line) == line # <<>> /\ Last(line).kind # "first"

\* How often the buffer is filled for a line, and how far the file is read.
Refills(st, file) ==
  LET n == Len(NextLine(st, file))
      m == Len(st.buffer)
  IN ((IF n > m THEN n - m ELSE 0) + Buffer - 1) \div Buffer

ReadTo(st, file) == Min({st.offset + Refills(st, file) * Buffer, Max({st.offset, Len(file)})})

\* A line that is in the buffer needs nothing, and of any other there is then
\* enough.
LEMMA Enough ==
  ASSUME NEW st, NEW file, Len(NextLine(st, file)) \in Nat, Len(st.buffer) \in Nat
  PROVE  /\ Refills(st, file) \in Nat
         /\ Refills(st, file) * Buffer \in Nat
         /\ Refills(st, file) * Buffer >= Len(NextLine(st, file)) - Len(st.buffer)
         /\ Len(NextLine(st, file)) <= Len(st.buffer) => Refills(st, file) = 0
         /\ Len(st.buffer) = 0 /\ Len(NextLine(st, file)) \in 1..Buffer => Refills(st, file) = 1
<1> DEFINE n == Len(NextLine(st, file))
           m == Len(st.buffer)
           missing == IF n > m THEN n - m ELSE 0
           k == (missing + Buffer - 1) \div Buffer
<1>1. Buffer \in Nat \ {0} /\ Refills(st, file) = k
  BY BufferAssumption DEF Refills
<1>2. n \in Nat /\ m \in Nat
  OBVIOUS
<1> HIDE DEF n, m
<1>3. missing \in Nat /\ missing >= n - m /\ (n <= m => missing = 0) /\ (n > m => missing = n - m)
  BY <1>2
<1> HIDE DEF missing
<1>4. k \in Nat /\ k * Buffer >= missing
  BY <1>1, <1>3, Fills
<1>5. missing = 0 => k = 0
  BY <1>1, <1>3, Fills
<1>6. 1 <= missing /\ missing <= Buffer => k = 1
  BY <1>1, <1>3, Fills
<1> HIDE DEF k
<1>7. k * Buffer \in Nat
  BY <1>1, <1>4
<1> DEFINE p == k * Buffer
<1>8. p \in Nat /\ p >= missing
  BY <1>4, <1>7
<1> HIDE DEF p
<1>9. p >= n - m
  BY <1>2, <1>3, <1>8
<1>10. m = 0 /\ n \in 1..Buffer => k = 1
  BY <1>1, <1>2, <1>3, <1>6
<1>11. n <= m => k = 0
  BY <1>3, <1>5
<1> QED
  BY <1>1, <1>4, <1>8, <1>9, <1>10, <1>11 DEF n, m, p

\* The stream after a line that has its end: how far it has read, and that it
\* has not met the end of the file.
LEMMA AfterLineIs ==
  ASSUME NEW st, NEW file, EndedLine(NextLine(st, file))
  PROVE  /\ AfterLine(st, file).offset = ReadTo(st, file)
         /\ AfterLine(st, file).eof = FALSE
         /\ AfterLine(st, file).buffer =
              SubSeq(st.buffer \o SubSeq(file, st.offset + 1, ReadTo(st, file)),
                     Len(NextLine(st, file)) + 1,
                     Len(st.buffer \o SubSeq(file, st.offset + 1, ReadTo(st, file))))
<1> DEFINE read == st.buffer \o SubSeq(file, st.offset + 1, ReadTo(st, file))
           part == SubSeq(read, Len(NextLine(st, file)) + 1, Len(read))
<1>1. (NextLine(st, file) # <<>> /\ Last(NextLine(st, file)).kind # "first") = TRUE
  BY DEF EndedLine
<1>2. AfterLine(st, file) = [buffer |-> part, offset |-> ReadTo(st, file), eof |-> FALSE]
  BY <1>1 DEF AfterLine, Handing, ReadTo, Refills
<1> HIDE DEF part
<1>3. /\ AfterLine(st, file).offset = ReadTo(st, file)
      /\ AfterLine(st, file).eof = FALSE
      /\ AfterLine(st, file).buffer = part
  BY <1>2
<1> QED
  BY <1>3 DEF part

\* What a line has stands in a file behind b tokens.
Copies(line, file, b) == \A i \in 1..Len(line) : line[i] = file[b + i]

\* The stream goes on through a file that stays as it is.
LEMMA HandedOn ==
  ASSUME NEW st, NEW file \in Seq(Token), NEW b, Handed(st, file, b),
         EndedLine(NextLine(st, file))
  PROVE  /\ Handed(AfterLine(st, file), file, b + Len(NextLine(st, file)))
         /\ AfterLine(st, file).eof = FALSE
         /\ Len(NextLine(st, file)) \in 1..(Len(file) - b)
         /\ NextLine(st, file) \in Seq(Token)
         /\ Copies(NextLine(st, file), file, b)
<1> DEFINE line == NextLine(st, file)
           n == Len(line)
           off == st.offset
           m == Len(st.buffer)
           rest == Rest(st, file)
           p == Refills(st, file) * Buffer
           to == ReadTo(st, file)
           after == AfterLine(st, file)
<1>0. /\ Len(file) \in Nat /\ b \in Nat /\ off \in Nat /\ b <= off
      /\ st.buffer = SubSeq(file, b + 1, off)
  BY LenProperties DEF Handed
<1>1. /\ rest = SubSeq(file, b + 1, Len(file))
      /\ b >= Len(file) => rest = <<>>
      /\ b < Len(file) => off <= Len(file)
      /\ m = off - b
  BY HandedRest
<1>2. rest \in Seq(Token)
  <2>1. CASE b <= Len(file)
    <3>1. Len(file) <= Len(file)
      BY <1>0
    <3> QED
      BY <1>0, <1>1, <2>1, <3>1, Part
  <2>2. CASE ~(b <= Len(file))
    BY <1>0, <1>1, <2>2, EmptySeq
  <2> QED
    BY <2>1, <2>2
<1>3. Begins(line, rest, n)
  BY <1>2, NextLineIs
<1>4. line # <<>> /\ (line = <<>> <=> rest = <<>>)
  BY <1>2, NoLine DEF EndedLine
<1>5. b < Len(file) /\ off <= Len(file)
  BY <1>0, <1>1, <1>4
<1>6. Len(rest) = Len(file) - b /\ \A i \in 1..(Len(file) - b) : rest[i] = file[b + i]
  <2>1. b <= Len(file) /\ Len(file) <= Len(file)
    BY <1>0, <1>5
  <2> QED
    BY <1>0, <1>1, <2>1, Part
<1>7. /\ after.offset = to /\ after.eof = FALSE
      /\ after.buffer = SubSeq(st.buffer \o SubSeq(file, off + 1, to), n + 1,
                               Len(st.buffer \o SubSeq(file, off + 1, to)))
  BY AfterLineIs
<1>8. to = Min({off + p, Max({off, Len(file)})})
  BY DEF ReadTo
<1>9. n \in Nat /\ line \in Seq(Token) /\ n >= 1 /\ n <= Len(file) - b
      /\ \A i \in 1..n : line[i] = file[b + i]
  <2> HIDE DEF line, rest
  <2>1. n \in 0..Len(rest) /\ n \in Nat /\ line \in Seq(Token) /\ \A i \in 1..n : line[i] = rest[i]
    BY <1>3 DEF Begins
  <2>2. n # 0
    BY <1>4, <2>1, EmptySeq
  <2> QED
    BY <1>0, <1>6, <2>1, <2>2
<1>10. p \in Nat /\ p >= n - m
  <2>1. m \in Nat
    BY <1>0, <1>1
  <2> QED
    BY <1>9, <2>1, Enough
<1> HIDE DEF line, n, off, m, rest, p, to, after
<1>11. to \in Nat /\ off <= to /\ to <= Len(file) /\ b + n <= to
  <2>1. Max({off, Len(file)}) = Len(file)
    BY <1>0, <1>5, OfTwo
  <2> DEFINE q == off + p
  <2>2. q \in Nat /\ to = Min({q, Len(file)})
    <3>1. to = Min({off + p, Len(file)})
      BY <1>8, <2>1, Zenon
    <3>2. off + p \in Nat
      BY <1>0, <1>10
    <3> QED
      BY <3>1, <3>2
  <2>4. b + n <= q /\ b + n <= Len(file) /\ off <= q
    BY <1>0, <1>1, <1>9, <1>10
  <2> HIDE DEF q
  <2>3. to = IF q <= Len(file) THEN q ELSE Len(file)
    BY <1>0, <2>2, OfTwo
  <2> QED
    BY <1>0, <1>5, <2>2, <2>3, <2>4
<1>12. st.buffer \o SubSeq(file, off + 1, to) = SubSeq(file, b + 1, to)
  BY <1>0, <1>11, PartsJoin
<1>13. b <= to /\ Len(SubSeq(file, b + 1, to)) = to - b
  <2>1. b <= to
    BY <1>0, <1>11
  <2> QED
    BY <1>0, <1>11, <2>1, Part
<1>14. after.buffer = SubSeq(file, (b + n) + 1, to)
  <2>1. after.buffer = SubSeq(SubSeq(file, b + 1, to), n + 1, to - b)
    BY <1>7, <1>12, <1>13
  <2>2. n <= to - b
    BY <1>0, <1>9, <1>11
  <2>3. n \in Nat /\ b \in Nat /\ to \in Nat /\ b <= to /\ to <= Len(file)
    BY <1>0, <1>9, <1>11, <1>13
  <2>4. SubSeq(SubSeq(file, b + 1, to), n + 1, to - b) = SubSeq(file, (b + n) + 1, to)
    BY <2>2, <2>3, PartOfPart
  <2> QED
    BY <2>1, <2>4
<1>15. Handed(after, file, b + n)
  <2>1. b + n \in Nat
    BY <1>0, <1>9
  <2> QED
    BY <1>7, <1>11, <1>14, <2>1 DEF Handed
<1>16. n \in 1..(Len(file) - b)
  BY <1>0, <1>9
<1>17. Copies(line, file, b)
  BY <1>9 DEF Copies, n
<1> QED
  BY <1>7, <1>9, <1>15, <1>16, <1>17 DEF line, n, after

\* A line whose end is in the buffer comes from there, and the stream does not
\* look at the file, whatever that has become.
LEMMA FromBuffer ==
  ASSUME NEW st, NEW file \in Seq(Token), NEW old \in Seq(Token), Whole(old), NEW a \in Nat,
         a < Len(old), st.buffer = SubSeq(old, a + 1, Len(old)), st.offset \in Nat
  PROVE  /\ EndedLine(NextLine(st, file))
         /\ Len(NextLine(st, file)) \in 1..(Len(old) - a)
         /\ NextLine(st, file) \in Seq(Token)
         /\ \A i \in 1..Len(NextLine(st, file)) : NextLine(st, file)[i] = old[a + i]
         /\ AfterLine(st, file).buffer = SubSeq(old, (a + Len(NextLine(st, file))) + 1, Len(old))
         /\ AfterLine(st, file).offset = st.offset
         /\ AfterLine(st, file).eof = FALSE
<1> DEFINE line == NextLine(st, file)
           n == Len(line)
           off == st.offset
           buffer == st.buffer
           m == Len(buffer)
           rest == Rest(st, file)
           to == ReadTo(st, file)
           after == AfterLine(st, file)
<1>0. Len(file) \in Nat /\ Len(old) \in Nat /\ off \in Nat /\ a <= Len(old) /\ Len(old) <= Len(old)
  BY LenProperties
<1>1. /\ buffer \in Seq(Token) /\ m = Len(old) - a
      /\ \A i \in 1..(Len(old) - a) : buffer[i] = old[a + i]
  BY <1>0, Part
<1>2. rest \in Seq(Token) /\ m <= Len(rest) /\ \A i \in 1..m : rest[i] = buffer[i]
  BY <1>1, RestTyped
<1>3. Begins(line, rest, n)
  BY <1>2, NextLineIs
<1>16. buffer = SubSeq(old, a + 1, Len(old))
  OBVIOUS
<1> HIDE DEF line, n, rest, buffer, m
<1>4. m \in Nat /\ m >= 1 /\ rest[m].kind # "first" /\ Len(rest) \in Nat
  <2>1. m \in Nat /\ m >= 1 /\ a + m = Len(old) /\ m \in 1..(Len(old) - a)
    BY <1>0, <1>1
  <2>2. rest[m] = old[Len(old)]
    BY <1>1, <1>2, <2>1
  <2>3. old # <<>>
    BY <1>0, <2>1, EmptySeq
  <2> QED
    BY <1>2, <2>1, <2>2, <2>3, LenProperties DEF Whole, Last
<1>5. /\ n \in Nat /\ line \in Seq(Token) /\ n <= Len(rest)
      /\ \A i \in 1..n : line[i] = rest[i]
      /\ n = 0 => rest = <<>>
      /\ \A i \in 1..(n - 1) : rest[i].kind = "first"
      /\ n > 0 /\ rest[n].kind = "first" => n = Len(rest)
  BY <1>3, <1>4 DEF Begins, n
<1>6. n >= 1 /\ n <= m /\ rest[n].kind # "first"
  <2>1. n # 0
    BY <1>2, <1>4, <1>5, EmptySeq
  <2>2. n <= m
    <3> SUFFICES ASSUME ~(n <= m) PROVE FALSE
      OBVIOUS
    <3>1. m \in 1..(n - 1)
      BY <1>4, <1>5
    <3> QED
      BY <1>4, <1>5, <3>1
  <2>3. rest[n].kind # "first"
    <3> SUFFICES ASSUME rest[n].kind = "first" PROVE FALSE
      OBVIOUS
    <3>1. n = Len(rest)
      BY <1>5, <2>1
    <3>2. n = m
      BY <1>2, <1>4, <1>5, <2>2, <3>1
    <3> QED
      BY <1>4, <3>2
  <2> QED
    BY <1>5, <2>1, <2>2, <2>3
<1>7. EndedLine(line)
  <2>1. line # <<>>
    BY <1>5, <1>6, EmptySeq DEF n
  <2>2. line[n] = rest[n]
    BY <1>5, <1>6
  <2> QED
    BY <1>6, <2>1, <2>2 DEF EndedLine, Last, n
<1>8. n \in 1..(Len(old) - a)
  BY <1>0, <1>1, <1>5, <1>6
<1>9. \A i \in 1..n : line[i] = old[a + i]
  <2> SUFFICES ASSUME NEW i \in 1..n PROVE line[i] = old[a + i]
    OBVIOUS
  <2>1. i \in 1..m /\ i \in 1..(Len(old) - a)
    BY <1>0, <1>1, <1>4, <1>5, <1>6
  <2> QED
    BY <1>1, <1>2, <1>5, <2>1
<1>10. /\ after.offset = to /\ after.eof = FALSE
       /\ after.buffer = SubSeq(buffer \o SubSeq(file, off + 1, to), n + 1,
                                Len(buffer \o SubSeq(file, off + 1, to)))
  BY <1>7, AfterLineIs DEF line, buffer, n
<1>11. Refills(st, file) = 0
  <2>1. Len(NextLine(st, file)) \in Nat /\ Len(st.buffer) \in Nat
        /\ Len(NextLine(st, file)) <= Len(st.buffer)
    BY <1>4, <1>5, <1>6 DEF n, m, line, buffer
  <2> QED
    BY <2>1, Enough
<1>12. to = off
  <2>1. to = Min({off + 0 * Buffer, Max({off, Len(file)})})
    BY <1>11 DEF ReadTo
  <2>2. off + 0 * Buffer = off
    BY <1>0, BufferAssumption
  <2> HIDE DEF off, to
  <2>3. Max({off, Len(file)}) \in Nat /\ off <= Max({off, Len(file)})
    BY <1>0, OfTwo
  <2> DEFINE x == Max({off, Len(file)})
  <2>4. x \in Nat /\ off <= x /\ to = Min({off, x})
    BY <2>1, <2>2, <2>3
  <2> HIDE DEF x
  <2>5. Min({off, x}) = off
    BY <1>0, <2>4, OfTwo
  <2> QED
    BY <2>4, <2>5
<1> HIDE DEF off, to, after
<1>13. buffer \o SubSeq(file, off + 1, to) = buffer
  <2>1. SubSeq(file, off + 1, to) = <<>>
    BY <1>0, <1>12, NoPart
  <2> QED
    BY <1>1, <2>1, ConcatEmptySeq
<1>14. after.buffer = SubSeq(old, (a + n) + 1, Len(old))
  <2>1. after.buffer = SubSeq(SubSeq(old, a + 1, Len(old)), n + 1, Len(old) - a)
    BY <1>1, <1>16, <1>10, <1>13 DEF m
  <2>2. n <= Len(old) - a
    BY <1>0, <1>8
  <2> QED
    BY <1>0, <1>5, <2>1, <2>2, PartOfPart
<1>15. after.offset = off /\ after.eof = FALSE
  BY <1>10, <1>12
<1> QED
  BY <1>5, <1>7, <1>8, <1>9, <1>14, <1>15 DEF n, line, off, after

\* The first line of a file that fits the buffer brings all of it there.
LEMMA FirstFill ==
  ASSUME NEW file \in Seq(Token), Whole(file), file # <<>>, Len(file) <= Buffer
  PROVE  /\ EndedLine(NextLine(Closed, file))
         /\ Len(NextLine(Closed, file)) \in 1..Len(file)
         /\ NextLine(Closed, file) \in Seq(Token)
         /\ \A i \in 1..Len(NextLine(Closed, file)) : NextLine(Closed, file)[i] = file[i]
         /\ AfterLine(Closed, file).buffer =
              SubSeq(file, Len(NextLine(Closed, file)) + 1, Len(file))
         /\ AfterLine(Closed, file).offset = Len(file)
         /\ AfterLine(Closed, file).eof = FALSE
<1> DEFINE line == NextLine(Closed, file)
           n == Len(line)
           rest == Rest(Closed, file)
           after == AfterLine(Closed, file)
<1>0. Len(file) \in Nat \ {0} /\ Buffer \in Nat \ {0}
  BY EmptySeq, BufferAssumption
<1>1. Handed(Closed, file, 0) /\ Closed.offset = 0 /\ Closed.buffer = <<>> /\ Len(Closed.buffer) = 0
  <2>1. SubSeq(file, 0 + 1, 0) = <<>>
    BY NoPart
  <2> QED
    BY <2>1, EmptySeq DEF Handed, Closed
<1>2. rest \in Seq(Token) /\ Len(rest) = Len(file) /\ \A i \in 1..Len(file) : rest[i] = file[i]
  <2>1. rest = SubSeq(file, 0 + 1, Len(file))
    BY <1>1, HandedRest
  <2>2. SubSeq(file, 0 + 1, Len(file)) = SubSeq(file, 1, Len(file)) /\ Len(file) <= Len(file)
    BY <1>0
  <2> HIDE DEF rest
  <2> QED
    BY <1>0, <2>1, <2>2, Prefix
<1>3. Begins(line, rest, n)
  BY <1>2, NextLineIs
<1>4. line # <<>>
  <2>1. rest # <<>>
    BY <1>0, <1>2, EmptySeq
  <2> QED
    BY <1>2, <2>1, NoLine
<1> HIDE DEF line, rest
<1>5. /\ n \in 1..Len(file) /\ n \in Nat /\ line \in Seq(Token)
      /\ \A i \in 1..n : line[i] = file[i]
      /\ rest[n].kind = "first" => n = Len(file)
  <2>1. /\ n \in 0..Len(file) /\ n \in Nat /\ line \in Seq(Token)
        /\ \A i \in 1..n : line[i] = rest[i]
        /\ n > 0 /\ rest[n].kind = "first" => n = Len(file)
    BY <1>2, <1>3 DEF Begins
  <2>2. n # 0
    BY <1>4, <2>1, EmptySeq
  <2> QED
    BY <1>0, <1>2, <2>1, <2>2
<1>6. EndedLine(line)
  <2>1. line[n] = file[n] /\ rest[n] = file[n]
    BY <1>2, <1>5
  <2>2. file[n].kind # "first"
    BY <1>5, <2>1 DEF Whole, Last
  <2> QED
    BY <1>4, <2>1, <2>2 DEF EndedLine, Last
<1>7. Handed(after, file, 0 + n) /\ after.eof = FALSE
  BY <1>1, <1>6, HandedOn DEF line
<1>8. Refills(Closed, file) = 1
  <2>1. Len(line) \in Nat /\ Len(line) \in 1..Buffer
    BY <1>0, <1>5
  <2> QED
    BY <1>1, <2>1, Enough DEF line
<1>9. after.offset = Len(file)
  <2>1. after.offset = Min({0 + 1 * Buffer, Max({0, Len(file)})})
    <3>1. after.offset = ReadTo(Closed, file)
      BY <1>6, AfterLineIs DEF line
    <3>2. ReadTo(Closed, file)
            = Min({Closed.offset + Refills(Closed, file) * Buffer, Max({Closed.offset, Len(file)})})
      BY DEF ReadTo
    <3> QED
      BY <1>1, <1>8, <3>1, <3>2
  <2>2. 0 + 1 * Buffer = Buffer /\ Buffer \in Nat
    BY <1>0
  <2>3. Max({0, Len(file)}) = Len(file)
    BY <1>0, OfTwo
  <2>4. Min({Buffer, Len(file)}) = Len(file)
    <3>1. Buffer \in Nat /\ Len(file) \in Nat
      BY <1>0
    <3>2. Min({Buffer, Len(file)}) = IF Buffer <= Len(file) THEN Buffer ELSE Len(file)
      BY <3>1, OfTwo
    <3> QED
      BY <3>1, <3>2
  <2> QED
    BY <2>1, <2>2, <2>3, <2>4
<1>10. after.buffer = SubSeq(file, n + 1, Len(file))
  <2>1. 0 + n = n
    BY <1>5
  <2> HIDE DEF n, after
  <2> QED
    BY <1>7, <1>9, <2>1 DEF Handed
<1> QED
  BY <1>5, <1>6, <1>7, <1>9, <1>10 DEF n, line

-----------------------------------------------------------------------------
(* What is written means what is in the map.                                *)

Settings == [Key -> Value \cup {Unset}]

\* A file of whole lines, each of which gives the value that the map has.
Pairs(file, settings) ==
  \A i \in 1..Len(file) :
    \E k \in Key :
      /\ settings[k] # Unset
      /\ \/ file[i] = First(k) /\ i < Len(file) /\ file[i + 1] = Second(settings[k])
         \/ file[i] = Second(settings[k]) /\ i > 1 /\ file[i - 1] = First(k)

\* There is a line for k.
HasLine(file, settings, k) ==
  settings[k] # Unset =>
    \E i \in 1..Len(file) : i > 1 /\ file[i] = Second(settings[k]) /\ file[i - 1] = First(k)

\* The tokens differ in their kinds.
LEMMA Kinds ==
  /\ \A k : First(k).kind = "first" /\ First(k).key = k
  /\ \A v : Second(v).kind = "second" /\ Second(v).value = v
  /\ \A k, v : Short(k, v).kind = "short" /\ Short(k, v).key = k /\ Short(k, v).value = v
  /\ Comment.kind = "comment"
BY DEF First, Second, Short, Comment

\* A file of lines that give what the map has, one for each of its keys, means
\* what the map has.
LEMMA MeaningOfPairs ==
  ASSUME NEW file \in Seq(Token), NEW settings \in Settings, Pairs(file, settings),
         \A k \in Key : HasLine(file, settings, k)
  PROVE  Meaning(file) = settings
<1>0. DOMAIN file = 1..Len(file) /\ Len(file) \in Nat
  BY LenProperties
<1>1. ASSUME NEW k \in Key, NEW i \in DOMAIN file, Gives(file, i, k)
      PROVE  settings[k] # Unset /\ file[i].value = settings[k]
  <2>1. PICK j \in Key :
          /\ settings[j] # Unset
          /\ \/ file[i] = First(j)
             \/ file[i] = Second(settings[j]) /\ i > 1 /\ file[i - 1] = First(j)
    BY <1>0, <1>1 DEF Pairs
  <2>2. file[i].kind \in {"short", "second"}
    BY <1>1 DEF Gives
  <2>3. file[i] # First(j)
    BY <2>2, Kinds
  <2>4. file[i] = Second(settings[j]) /\ file[i - 1] = First(j)
    BY <2>1, <2>3
  <2>5. file[i].kind = "second" /\ file[i].value = settings[j]
    BY <2>4, Kinds
  <2>6. file[i - 1] = First(k)
    BY <1>1, <2>5 DEF Gives
  <2>7. j = k
    <3>1. First(j).key = j /\ First(k).key = k
      BY Kinds
    <3> QED
      BY <2>4, <2>6, <3>1
  <2> QED
    BY <2>1, <2>5, <2>7
<1>2. ASSUME NEW k \in Key
      PROVE  Meaning(file)[k] = settings[k]
  <2>1. CASE settings[k] = Unset
    <3>1. \A i \in DOMAIN file : ~Gives(file, i, k)
      BY <1>1, <2>1
    <3> QED
      BY <2>1, <3>1, MeaningIs
  <2>2. CASE settings[k] # Unset
    <3>1. PICK i \in 1..Len(file) :
            i > 1 /\ file[i] = Second(settings[k]) /\ file[i - 1] = First(k)
      BY <2>2 DEF HasLine
    <3>2. i \in DOMAIN file /\ Gives(file, i, k)
      BY <1>0, <3>1, Kinds DEF Gives
    <3>3. PICK l \in DOMAIN file :
            Gives(file, l, k) /\ \A j \in DOMAIN file : Gives(file, j, k) => j <= l
      BY <3>2, MeaningIs
    <3>4. Meaning(file)[k] = file[l].value
      BY <3>3, MeaningIs
    <3> QED
      BY <1>1, <3>3, <3>4
  <2> QED
    BY <2>1, <2>2
<1>3. Meaning(file) = [k \in Key |-> Meaning(file)[k]]
  BY DEF Meaning
<1>4. settings = [k \in Key |-> settings[k]]
  BY DEF Settings
<1> QED
  BY <1>2, <1>3, <1>4

\* Writing one more line.
LEMMA LineAdds ==
  ASSUME NEW file \in Seq(Token), NEW settings \in Settings, NEW k \in Key, Pairs(file, settings)
  PROVE  /\ file \o LineFor(settings, k) \in Seq(Token)
         /\ Pairs(file \o LineFor(settings, k), settings)
         /\ HasLine(file \o LineFor(settings, k), settings, k)
         /\ \A j \in Key : HasLine(file, settings, j) => HasLine(file \o LineFor(settings, k), settings, j)
<1>0. Len(file) \in Nat
  BY LenProperties
<1>1. CASE settings[k] = Unset
  <2>1. file \o LineFor(settings, k) = file
    BY <1>1, ConcatEmptySeq DEF LineFor
  <2> QED
    BY <1>1, <2>1 DEF HasLine
<1>2. CASE settings[k] # Unset
  <2> DEFINE a == First(k)
             b == Second(settings[k])
             line == <<a, b>>
             out == file \o line
             n == Len(file)
  <2>1. LineFor(settings, k) = line
    BY <1>2 DEF LineFor
  <2>2. settings[k] \in Value
    BY <1>2 DEF Settings
  <2>3. a \in Token /\ b \in Token
    BY <2>2 DEF Token
  <2>4. line \in Seq(Token) /\ Len(line) = 2 /\ line[1] = a /\ line[2] = b
    <3> HIDE DEF a, b
    <3> QED
      BY <2>3
  <2> HIDE DEF line
  <2>5. out \in Seq(Token) /\ Len(out) = n + 2
    <3>1. file \o line \in Seq(Token) /\ Len(file \o line) = Len(file) + Len(line)
      BY <2>4, ConcatProperties
    <3> QED
      BY <2>4, <3>1
  <2>6. \A i \in 1..(n + 2) : out[i] = IF i <= n THEN file[i] ELSE line[i - n]
    <3>1. \A i \in 1..(Len(file) + Len(line)) :
            (file \o line)[i] = IF i <= Len(file) THEN file[i] ELSE line[i - Len(file)]
      BY <2>4, ConcatProperties
    <3> QED
      BY <2>4, <3>1
  <2>7. (\A i \in 1..n : out[i] = file[i]) /\ out[n + 1] = a /\ out[n + 2] = b
    <3>1. \A i \in 1..n : i \in 1..(n + 2) /\ i <= n
      BY <1>0
    <3>2. n + 1 \in 1..(n + 2) /\ n + 2 \in 1..(n + 2) /\ ~(n + 1 <= n) /\ ~(n + 2 <= n)
          /\ (n + 1) - n = 1 /\ (n + 2) - n = 2
      BY <1>0
    <3> QED
      BY <2>4, <2>6, <3>1, <3>2
  <2> HIDE DEF out, n
  <2>8. n \in Nat /\ n = Len(file)
    BY <1>0 DEF n
  <2>9. ASSUME NEW i \in 1..(n + 2)
        PROVE  \E j \in Key :
                 /\ settings[j] # Unset
                 /\ \/ out[i] = First(j) /\ i < n + 2 /\ out[i + 1] = Second(settings[j])
                    \/ out[i] = Second(settings[j]) /\ i > 1 /\ out[i - 1] = First(j)
    <3>1. CASE i \in 1..n
      <4>1. PICK j \in Key :
              /\ settings[j] # Unset
              /\ \/ file[i] = First(j) /\ i < n /\ file[i + 1] = Second(settings[j])
                 \/ file[i] = Second(settings[j]) /\ i > 1 /\ file[i - 1] = First(j)
        BY <2>8, <3>1 DEF Pairs
      <4>2. out[i] = file[i] /\ (i < n => out[i + 1] = file[i + 1]) /\ (i > 1 => out[i - 1] = file[i - 1])
        <5>1. i < n => i + 1 \in 1..n
          BY <2>8, <3>1
        <5>2. i > 1 => i - 1 \in 1..n
          BY <2>8, <3>1
        <5> QED
          BY <2>7, <3>1, <5>1, <5>2
      <4> QED
        BY <2>8, <4>1, <4>2
    <3>2. CASE i = n + 1
      BY <1>2, <2>7, <2>8, <3>2 DEF a, b
    <3>3. CASE i = n + 2
      <4>1. i > 1 /\ i - 1 = n + 1
        BY <2>8, <3>3
      <4> QED
        BY <1>2, <2>7, <3>3, <4>1 DEF a, b
    <3> QED
      BY <2>8, <3>1, <3>2, <3>3
  <2>10. Pairs(out, settings)
    BY <2>5, <2>9 DEF Pairs
  <2>11. HasLine(out, settings, k)
    <3>1. n + 2 \in 1..Len(out) /\ n + 2 > 1 /\ (n + 2) - 1 = n + 1
      BY <2>5, <2>8
    <3> QED
      BY <2>7, <3>1 DEF HasLine, a, b
  <2>12. ASSUME NEW j \in Key, HasLine(file, settings, j)
         PROVE  HasLine(out, settings, j)
    <3> SUFFICES ASSUME settings[j] # Unset
                 PROVE  \E i \in 1..Len(out) : i > 1 /\ out[i] = Second(settings[j]) /\ out[i - 1] = First(j)
      BY DEF HasLine
    <3>1. PICK i \in 1..n : i > 1 /\ file[i] = Second(settings[j]) /\ file[i - 1] = First(j)
      BY <2>8, <2>12 DEF HasLine
    <3>2. i \in 1..Len(out) /\ i - 1 \in 1..n
      BY <2>5, <2>8, <3>1
    <3> QED
      BY <2>7, <3>1, <3>2
  <2> QED
    BY <2>1, <2>5, <2>10, <2>11, <2>12 DEF out
<1> QED
  BY <1>1, <1>2

\* What operator std::string writes is a file of whole lines that means what is
\* in the map.
LEMMA WrittenIs ==
  ASSUME NEW settings \in Settings
  PROVE  /\ Written(settings) \in Seq(Token)
         /\ Pairs(Written(settings), settings)
         /\ Meaning(Written(settings)) = settings
         /\ Whole(Written(settings))
<1> DEFINE N == Len(KeyOrder)
           S == Seq(Token)
           step == [p \in Nat \X S |->
                     IF p[1] \in 1..N THEN p[2] \o LineFor(settings, KeyOrder[p[1]]) ELSE p[2]]
           Ran(f) == f = [i \in 0..N |-> IF i = 0 THEN <<>>
                                         ELSE f[i - 1] \o LineFor(settings, KeyOrder[i])]
           lines == CHOOSE f : Ran(f)
<1>0. /\ N \in Nat /\ \A i \in 1..N : KeyOrder[i] \in Key
      /\ \A k \in Key : \E i \in 1..N : k = KeyOrder[i]
  BY KeyAssumption, LenProperties, ElementOfSeq DEF ToSet
<1>1. \A k \in Key : LineFor(settings, k) \in S
  <2> SUFFICES ASSUME NEW k \in Key
               PROVE  LineFor(settings, k) \in Seq(Token)
    OBVIOUS
  <2>1. CASE settings[k] = Unset
    BY <2>1, EmptySeq DEF LineFor
  <2>2. CASE settings[k] # Unset
    <3> DEFINE a == First(k)
               b == Second(settings[k])
    <3>1. settings[k] \in Value
      BY <2>2 DEF Settings
    <3>2. a \in Token /\ b \in Token
      BY <3>1 DEF Token
    <3>3. <<a, b>> \in Seq(Token)
      <4> HIDE DEF a, b
      <4> QED
        BY <3>2
    <3> QED
      BY <2>2, <3>3 DEF LineFor
  <2> QED
    BY <2>1, <2>2
<1> HIDE DEF N
<1>2. step \in [Nat \X S -> S]
  <2>1. \A p \in Nat \X S : (IF p[1] \in 1..N THEN p[2] \o LineFor(settings, KeyOrder[p[1]]) ELSE p[2]) \in S
    <3> SUFFICES ASSUME NEW p \in Nat \X S, p[1] \in 1..N
                 PROVE  p[2] \o LineFor(settings, KeyOrder[p[1]]) \in S
      OBVIOUS
    <3>1. p[2] \in Seq(Token) /\ LineFor(settings, KeyOrder[p[1]]) \in Seq(Token)
      BY <1>0, <1>1
    <3> QED
      BY <3>1, ConcatProperties
  <2> QED
    BY <2>1
<1>3. PICK f : Goes(f, S, <<>>, step, N)
  <2>1. <<>> \in S
    BY EmptySeq
  <2> HIDE DEF step, S
  <2> QED
    BY <1>0, <1>2, <2>1, Iterates
<1>4. \A n \in 1..N : f[n] = f[n - 1] \o LineFor(settings, KeyOrder[n])
  <2> SUFFICES ASSUME NEW n \in 1..N
               PROVE  f[n] = f[n - 1] \o LineFor(settings, KeyOrder[n])
    OBVIOUS
  <2>1. n - 1 \in 0..N /\ n \in Nat
    BY <1>0
  <2>2. <<n, f[n - 1]>> \in Nat \X S
    BY <1>3, <2>1 DEF Goes
  <2>3. f[n] = step[<<n, f[n - 1]>>]
    BY <1>3 DEF Goes
  <2> QED
    BY <2>2, <2>3
<1>5. Ran(f)
  <2>1. \A n \in 0..N : f[n] = IF n = 0 THEN <<>> ELSE f[n - 1] \o LineFor(settings, KeyOrder[n])
    <3> SUFFICES ASSUME NEW n \in 0..N
                 PROVE  f[n] = IF n = 0 THEN <<>> ELSE f[n - 1] \o LineFor(settings, KeyOrder[n])
      OBVIOUS
    <3>1. f[0] = <<>>
      BY <1>3 DEF Goes
    <3>2. n # 0 => n \in 1..N
      BY <1>0
    <3> QED
      BY <1>4, <3>1, <3>2
  <2>2. f = [n \in 0..N |-> f[n]]
    BY <1>3 DEF Goes
  <2> QED
    BY <2>1, <2>2
<1>6. Ran(lines)
  <2> HIDE DEF Ran
  <2> QED
    BY <1>5
<1>7. Written(settings) = lines[N]
  BY DEF Written, N
<1> HIDE DEF lines
<1>8. /\ lines[0] = <<>>
      /\ \A i \in 1..N : lines[i] = lines[i - 1] \o LineFor(settings, KeyOrder[i])
  BY <1>0, <1>6
<1> HIDE DEF Ran, step, S
<1> DEFINE Good(i) == /\ lines[i] \in Seq(Token)
                      /\ Pairs(lines[i], settings)
                      /\ \A j \in 1..i : HasLine(lines[i], settings, KeyOrder[j])
           Bad == {i \in Nat : i \in 0..N /\ ~Good(i)}
<1>9. Good(0)
  <2>1. lines[0] \in Seq(Token) /\ Len(lines[0]) = 0
    BY <1>8, EmptySeq
  <2> QED
    BY <2>1 DEF Pairs
<1>10. ASSUME NEW i \in 1..N, Good(i - 1)
       PROVE  Good(i)
  <2> DEFINE before == lines[i - 1]
             k == KeyOrder[i]
  <2>1. before \in Seq(Token) /\ Pairs(before, settings) /\ k \in Key
        /\ \A j \in 1..(i - 1) : HasLine(before, settings, KeyOrder[j])
    BY <1>0, <1>10
  <2>2. lines[i] = before \o LineFor(settings, k)
    BY <1>8
  <2>3. \A j \in 1..(i - 1) : KeyOrder[j] \in Key
    BY <1>0
  <2> HIDE DEF before, k
  <2>4. lines[i] \in Seq(Token)
    BY <2>1, <2>2, LineAdds
  <2>5. Pairs(lines[i], settings)
    BY <2>1, <2>2, LineAdds
  <2>6. HasLine(lines[i], settings, k)
    BY <2>1, <2>2, LineAdds
  <2>7. \A j \in Key : HasLine(before, settings, j) => HasLine(lines[i], settings, j)
    BY <2>1, <2>2, LineAdds
  <2>8. \A j \in 1..(i - 1) : HasLine(lines[i], settings, KeyOrder[j])
    BY <2>1, <2>3, <2>7
  <2>9. \A j \in 1..i : j \in 1..(i - 1) \/ j = i
    BY <1>0
  <2> QED
    BY <2>4, <2>5, <2>6, <2>8, <2>9 DEF k
<1> HIDE DEF Good
<1>11. Good(N)
  <2> SUFFICES ASSUME ~Good(N)
               PROVE  FALSE
    OBVIOUS
  <2>1. Bad \subseteq Nat /\ Bad # {}
    <3>1. N \in Bad
      BY <1>0
    <3> QED
      BY <3>1
  <2>2. PICK i \in Bad : \A j \in Bad : i <= j
    <3> HIDE DEF Bad
    <3> QED
      BY <2>1, LeastNatural
  <2>3. i \in 0..N /\ ~Good(i) /\ i # 0
    BY <1>9, <2>2
  <2>4. i \in 1..N /\ i - 1 \in 0..N /\ i - 1 \in Nat
    BY <1>0, <2>3
  <2>5. Good(i - 1)
    BY <2>2, <2>4
  <2> QED
    BY <1>10, <2>3, <2>4, <2>5
<1> DEFINE w == Written(settings)
<1>12. /\ w \in Seq(Token) /\ Pairs(w, settings)
       /\ \A k \in Key : HasLine(w, settings, k)
  BY <1>0, <1>7, <1>11 DEF Good
<1>13. Meaning(w) = settings
  BY <1>12, MeaningOfPairs
<1>14. Whole(w)
  <2> SUFFICES ASSUME w # <<>>
               PROVE  w[Len(w)].kind # "first"
    BY DEF Whole, Last
  <2>1. Len(w) \in 1..Len(w) /\ Len(w) \in Nat
    BY <1>12, EmptySeq, LenProperties
  <2>2. PICK k \in Key : w[Len(w)] = Second(settings[k])
    BY <1>12, <2>1 DEF Pairs
  <2> QED
    BY <2>2, Kinds
<1> QED
  BY <1>12, <1>13, <1>14

-----------------------------------------------------------------------------
(* What the lines read so far mean.                                         *)

\* What the beginning of a file means, told by the places of the whole file.
LEMMA MeaningOfPart ==
  ASSUME NEW file \in Seq(Token), NEW m \in Nat, m <= Len(file), NEW k \in Key
  PROVE  /\ (\A i \in 1..m : ~Gives(file, i, k)) => Meaning(SubSeq(file, 1, m))[k] = Unset
         /\ \A i \in 1..m :
              Gives(file, i, k) /\ (\A j \in 1..m : Gives(file, j, k) => j <= i)
                => Meaning(SubSeq(file, 1, m))[k] = file[i].value
         /\ \A i \in 1..m :
              Gives(file, i, k) => \E l \in 1..m :
                Gives(file, l, k) /\ \A j \in 1..m : Gives(file, j, k) => j <= l
<1> DEFINE p == SubSeq(file, 1, m)
<1>1. /\ p \in Seq(Token) /\ Len(p) = m
      /\ \A i \in 1..m : p[i] = file[i]
  BY Prefix
<1> HIDE DEF p
<1>2. DOMAIN p = 1..m
  BY <1>1, LenProperties
<1>3. DOMAIN file = 1..Len(file) /\ Len(file) \in Nat
  BY LenProperties
<1>4. \A i \in 1..m : Gives(p, i, k) <=> Gives(file, i, k)
  <2> SUFFICES ASSUME NEW i \in 1..m
               PROVE  Gives(p, i, k) <=> Gives(file, i, k)
    OBVIOUS
  <2>1. p[i] = file[i] /\ i \in DOMAIN p /\ i \in DOMAIN file
    BY <1>1, <1>2, <1>3
  <2>2. i > 1 => p[i - 1] = file[i - 1]
    BY <1>1
  <2> QED
    BY <2>1, <2>2 DEF Gives
<1>5. (\A i \in 1..m : ~Gives(p, i, k)) => Meaning(p)[k] = Unset
  BY <1>1, <1>2, MeaningIs
<1>6. \A i \in 1..m : Gives(p, i, k) /\ (\A j \in 1..m : Gives(p, j, k) => j <= i)
                        => Meaning(p)[k] = p[i].value
  BY <1>1, <1>2, MeaningIs
<1>7. \A i \in 1..m : Gives(p, i, k) => \E l \in 1..m :
                        Gives(p, l, k) /\ \A j \in 1..m : Gives(p, j, k) => j <= l
  BY <1>1, <1>2, MeaningIs
<1> QED
  BY <1>1, <1>4, <1>5, <1>6, <1>7 DEF p

\* Lines that do not set a key leave what it means, and one that sets it counts.
LEMMA MeaningGoesOn ==
  ASSUME NEW file \in Seq(Token), NEW a \in Nat, NEW m \in Nat, a <= m, m <= Len(file), NEW k \in Key
  PROVE  /\ (\A i \in (a + 1)..m : ~Gives(file, i, k))
              => Meaning(SubSeq(file, 1, m))[k] = Meaning(SubSeq(file, 1, a))[k]
         /\ m > 0 /\ Gives(file, m, k) => Meaning(SubSeq(file, 1, m))[k] = file[m].value
<1>0. Len(file) \in Nat /\ a <= Len(file)
  BY LenProperties
<1>1. ASSUME \A i \in (a + 1)..m : ~Gives(file, i, k)
      PROVE  Meaning(SubSeq(file, 1, m))[k] = Meaning(SubSeq(file, 1, a))[k]
  <2>0. \A i \in 1..m : Gives(file, i, k) => i \in 1..a
    <3> SUFFICES ASSUME NEW i \in 1..m, Gives(file, i, k), ~(i \in 1..a)
                 PROVE  FALSE
      OBVIOUS
    <3>1. i \in (a + 1)..m
      OBVIOUS
    <3> QED
      BY <1>1, <3>1
  <2>1. CASE \A i \in 1..a : ~Gives(file, i, k)
    <3>1. \A i \in 1..m : ~Gives(file, i, k)
      BY <2>0, <2>1
    <3>2. Meaning(SubSeq(file, 1, m))[k] = Unset
      BY <3>1, MeaningOfPart
    <3>3. Meaning(SubSeq(file, 1, a))[k] = Unset
      BY <1>0, <2>1, MeaningOfPart
    <3> QED
      BY <3>2, <3>3
  <2>2. CASE \E i \in 1..a : Gives(file, i, k)
    <3>1. PICK l \in 1..a : Gives(file, l, k) /\ \A j \in 1..a : Gives(file, j, k) => j <= l
      BY <1>0, <2>2, MeaningOfPart
    <3>2. l \in 1..m /\ \A j \in 1..m : Gives(file, j, k) => j <= l
      BY <2>0, <3>1
    <3>3. Meaning(SubSeq(file, 1, m))[k] = file[l].value
      BY <3>1, <3>2, MeaningOfPart
    <3>4. Meaning(SubSeq(file, 1, a))[k] = file[l].value
      BY <1>0, <3>1, MeaningOfPart
    <3> QED
      BY <3>3, <3>4
  <2> QED
    BY <2>1, <2>2
<1>2. ASSUME m > 0, Gives(file, m, k)
      PROVE  Meaning(SubSeq(file, 1, m))[k] = file[m].value
  <2>1. m \in 1..m /\ \A j \in 1..m : Gives(file, j, k) => j <= m
    BY <1>2
  <2> QED
    BY <1>2, <2>1, MeaningOfPart
<1> QED
  BY <1>1, <1>2

\* A line that stands in a file behind a tokens.
Stands(line, file, a) ==
  /\ file \in Seq(Token) /\ a \in Nat /\ line \in Seq(Token)
  /\ Len(line) \in 1..(Len(file) - a)
  /\ \A i \in 1..Len(line) : line[i] = file[a + i]
  /\ \A i \in 1..(Len(line) - 1) : line[i].kind = "first"

\* Reading a comment or a line that sets a key.
LEMMA MeaningOfLine ==
  ASSUME NEW file, NEW a, NEW line, Stands(line, file, a)
  PROVE  /\ line = <<Comment>> =>
              Meaning(SubSeq(file, 1, a + Len(line))) = Meaning(SubSeq(file, 1, a))
         /\ Parsable(line) /\ line[1].key \in Key =>
              Meaning(SubSeq(file, 1, a + Len(line)))
                = [Meaning(SubSeq(file, 1, a)) EXCEPT ![line[1].key] = Last(line).value]
<1> DEFINE n == Len(line)
           before == Meaning(SubSeq(file, 1, a))
           after == Meaning(SubSeq(file, 1, a + n))
<1> USE DEF Stands
<1>0. /\ Len(file) \in Nat /\ n \in Nat /\ n >= 1 /\ a <= a + n /\ a + n <= Len(file)
      /\ a + n \in Nat /\ a + n > 0 /\ DOMAIN file = 1..Len(file)
  BY LenProperties
<1>1. /\ \A k \in Key : (\A i \in (a + 1)..(a + n) : ~Gives(file, i, k)) => after[k] = before[k]
      /\ \A k \in Key : Gives(file, a + n, k) => after[k] = file[a + n].value
  <2> HIDE DEF n
  <2> QED
    BY <1>0, MeaningGoesOn
<1>2. after = [k \in Key |-> after[k]] /\ before = [k \in Key |-> before[k]]
  BY DEF Meaning
<1> HIDE DEF before, after
<1>3. ASSUME line = <<Comment>>
      PROVE  after = before
  <2>1. n = 1 /\ file[a + 1] = Comment
    BY <1>3
  <2>2. \A k \in Key : \A i \in (a + 1)..(a + n) : ~Gives(file, i, k)
    <3>1. \A i \in (a + 1)..(a + n) : i = a + 1
      BY <2>1
    <3>2. \A k \in Key : ~Gives(file, a + 1, k)
      BY <2>1, Kinds DEF Gives
    <3> QED
      BY <3>1, <3>2
  <2>3. \A k \in Key : after[k] = before[k]
    BY <1>1, <2>2
  <2> QED
    BY <1>2, <2>3
<1>4. ASSUME Parsable(line), line[1].key \in Key
      PROVE  after = [before EXCEPT ![line[1].key] = Last(line).value]
  <2> DEFINE k == line[1].key
  <2>1. Last(line) = file[a + n]
    BY <1>0 DEF Last
  <2>2. CASE n = 2 /\ line[2].kind = "second"
    <3>1. line[1] = First(k)
      <4>1. line[1] \in Token /\ line[1].kind = "first"
        BY <2>2
      <4>2. \A t \in Token : t.kind = "first" => t = First(t.key)
        BY Kinds DEF Token
      <4> QED
        BY <4>1, <4>2
    <3>2. file[a + 1] = First(k) /\ file[a + 2].kind = "second" /\ (a + 2) - 1 = a + 1 /\ a + 2 > 1
      BY <2>2, <3>1
    <3>3. Gives(file, a + n, k)
      <4>1. a + 2 \in DOMAIN file
        BY <1>0, <2>2
      <4> QED
        BY <2>2, <3>2, <4>1 DEF Gives
    <3>4. ASSUME NEW j \in Key, j # k
          PROVE  \A i \in (a + 1)..(a + n) : ~Gives(file, i, j)
      <4>1. \A i \in (a + 1)..(a + n) : i = a + 1 \/ i = a + 2
        BY <2>2
      <4>2. ~Gives(file, a + 1, j)
        BY <3>2, Kinds DEF Gives
      <4>3. ~Gives(file, a + 2, j)
        BY <3>2, <3>4, Kinds DEF Gives
      <4> QED
        BY <4>1, <4>2, <4>3
    <3> HIDE DEF k
    <3>5. after[k] = Last(line).value /\ \A j \in Key : j # k => after[j] = before[j]
      BY <1>1, <1>4, <2>1, <3>3, <3>4 DEF k
    <3> QED
      BY <1>2, <1>4, <3>5 DEF k
  <2>3. CASE n = 1 /\ line[1].kind = "short"
    <3>1. file[a + 1] = line[1] /\ file[a + 1].kind = "short" /\ file[a + 1].key = k
      BY <2>3
    <3>2. Gives(file, a + n, k)
      <4>1. a + 1 \in DOMAIN file
        BY <1>0, <2>3
      <4> QED
        BY <2>3, <3>1, <4>1 DEF Gives
    <3>3. ASSUME NEW j \in Key, j # k
          PROVE  \A i \in (a + 1)..(a + n) : ~Gives(file, i, j)
      <4>1. \A i \in (a + 1)..(a + n) : i = a + 1
        BY <2>3
      <4>2. ~Gives(file, a + 1, j)
        BY <3>1, <3>3 DEF Gives
      <4> QED
        BY <4>1, <4>2
    <3> HIDE DEF k
    <3>4. after[k] = Last(line).value /\ \A j \in Key : j # k => after[j] = before[j]
      BY <1>1, <1>4, <2>1, <3>2, <3>3 DEF k
    <3> QED
      BY <1>2, <1>4, <3>4 DEF k
  <2>4. (n = 2 /\ line[2].kind = "second") \/ (n = 1 /\ line[1].kind = "short")
    BY <1>4 DEF Parsable
  <2> QED
    BY <2>2, <2>3, <2>4
<1> QED
  BY <1>3, <1>4 DEF n, before, after

\* Only the last token of a line ends one.
LEMMA Inside ==
  ASSUME NEW st, NEW file \in Seq(Token), st.buffer \in Seq(Token), st.offset \in Nat
  PROVE  /\ \A i \in 1..(Len(NextLine(st, file)) - 1) : NextLine(st, file)[i].kind = "first"
         /\ NextLine(st, file) \in Seq(Token)
         /\ NextLine(st, file) = <<>> => Rest(st, file) = <<>>
<1> DEFINE line == NextLine(st, file)
           rest == Rest(st, file)
           n == Len(line)
<1>1. rest \in Seq(Token)
  BY RestTyped
<1>2. Begins(line, rest, n) /\ (line = <<>> <=> rest = <<>>)
  BY <1>1, NextLineIs, NoLine
<1> HIDE DEF line, rest
<1>3. /\ n \in Nat /\ line \in Seq(Token)
      /\ \A i \in 1..n : line[i] = rest[i]
      /\ \A i \in 1..(n - 1) : rest[i].kind = "first"
  BY <1>2 DEF Begins
<1>4. \A i \in 1..(n - 1) : i \in 1..n
  BY <1>3
<1> QED
  BY <1>2, <1>3, <1>4 DEF line, rest

\* The buffer of a stream that goes through a file has tokens of it.
LEMMA HandedTyped ==
  ASSUME NEW st, NEW file \in Seq(Token), NEW b, Handed(st, file, b)
  PROVE  st.buffer \in Seq(Token) /\ st.offset \in Nat
BY HandedRest DEF Handed

-----------------------------------------------------------------------------
(* The file and the map.                                                    *)

\* Every file that is ever there consists of whole lines.
FilesTyped ==
  /\ db.file \in Seq(Token) /\ Whole(db.file)
  /\ loaded \in Seq(Token) /\ Whole(loaded)

\* The stream has handed out b tokens of the file, none of which set a key.
OnlyComments(st, file, b) ==
  /\ Handed(st, file, b)
  /\ \A i \in 1..b, k \in Key : ~Gives(file, i, k)

\* From the first line that sets a key on, what is read has been written back.
ReadSoFar ==
  /\ stream.eof = FALSE
  /\ \/ db.file = Written(db.settings)
     \/ db.settings = NoSettings /\ \E b : OnlyComments(stream, db.file, b)

\* The induction hypothesis for the file.
FInv ==
  /\ FilesTyped
  /\ phase = "reading" => ReadSoFar
  /\ FileHoldsSettings

\* The settings of the map have their type, also before any is set.
LEMMA SettingsTyped ==
  /\ TypeOK => db.settings \in Settings
  /\ NoSettings \in Settings
BY DEF TypeOK, Settings, NoSettings

\* A turn of the loop passes a comment, or inserts what is accepted, or throws.
LEMMA TurnIs ==
  ASSUME ReadLine, NEW line, line = NextLine(stream, db.file)
  PROVE  /\ phase = "reading" /\ line # <<>> /\ loaded' = loaded /\ registered' = registered
         /\ stream' = AfterLine(stream, db.file)
         /\ \/ line = <<Comment>> /\ phase' = phase /\ db' = db
            \/ /\ Parsable(line) /\ Accepted(line[1].key, Last(line).value)
               /\ db' = Insert(db, line[1].key, Last(line).value)
               /\ phase' = phase
            \/ phase' = "failed" /\ db' = db
BY Zenon DEF ReadLine

\* A comment and a line that can be parsed have their ends.
LEMMA EndsIt ==
  ASSUME NEW line \in Seq(Token), line # <<>>, line = <<Comment>> \/ Parsable(line)
  PROVE  EndedLine(line)
<1>1. CASE line = <<Comment>>
  <2>1. Last(line) = Comment
    <3> HIDE DEF Comment
    <3> QED
      BY <1>1 DEF Last
  <2> QED
    BY <2>1, Kinds DEF EndedLine
<1>2. CASE Parsable(line)
  BY <1>2 DEF Parsable, EndedLine, Last
<1> QED
  BY <1>1, <1>2

\* insert writes what it has put into the map.
LEMMA InsertWrites ==
  ASSUME TypeOK, NEW k, NEW v, Accepted(k, v), db' = Insert(db, k, v)
  PROVE  /\ k \in Key
         /\ db'.settings = [db.settings EXCEPT ![k] = v] /\ db'.settings \in Settings
         /\ db'.file = Written(db'.settings)
         /\ db'.file \in Seq(Token) /\ Whole(db'.file)
         /\ Meaning(db'.file) = db'.settings
<1>1. k \in Key /\ v \in Value
  BY ValueAssumption DEF Accepted, TypeOK
<1>2. db'.settings = [db.settings EXCEPT ![k] = v] /\ db'.file = Written(db'.settings)
  BY DEF Insert
<1>3. db'.settings \in Settings
  BY <1>1, <1>2, SettingsTyped DEF Settings
<1> QED
  BY <1>1, <1>2, <1>3, WrittenIs

\* A turn of the loop of readDB keeps what is said of the file.
LEMMA ReadLineHolds ==
  ASSUME TypeOK, FInv, ReadLine
  PROVE  FInv'
<1> DEFINE line == NextLine(stream, db.file)
<1>0. /\ phase = "reading" /\ line # <<>> /\ loaded' = loaded
      /\ stream' = AfterLine(stream, db.file)
      /\ \/ line = <<Comment>> /\ phase' = phase /\ db' = db
         \/ /\ Parsable(line) /\ Accepted(line[1].key, Last(line).value)
            /\ db' = Insert(db, line[1].key, Last(line).value)
            /\ phase' = phase
         \/ phase' = "failed" /\ db' = db
  BY TurnIs
<1> HIDE DEF line
<1>1. CASE phase' = "failed" /\ db' = db
  BY <1>0, <1>1 DEF FInv, FilesTyped, FileHoldsSettings
<1>2. CASE line = <<Comment>> /\ phase' = phase /\ db' = db
  <2>1. FilesTyped' /\ FileHoldsSettings'
    BY <1>0, <1>2 DEF FInv, FilesTyped, FileHoldsSettings
  <2>2. line \in Seq(Token)
    <3>1. Comment \in Token
      BY DEF Token
    <3> HIDE DEF Comment
    <3> QED
      BY <1>2, <3>1
  <2>3. EndedLine(NextLine(stream, db.file))
    BY <1>0, <1>2, <2>2, EndsIt DEF line
  <2>4. ReadSoFar'
    <3>1. stream'.eof = FALSE
      BY <1>0, <2>3 DEF AfterLine, Handing, EndedLine
    <3>2. CASE db.file = Written(db.settings)
      BY <1>2, <3>1, <3>2 DEF ReadSoFar
    <3>3. CASE db.settings = NoSettings /\ \E b : OnlyComments(stream, db.file, b)
      <4>1. PICK b : OnlyComments(stream, db.file, b)
        BY <3>3
      <4>2. db.file \in Seq(Token) /\ Handed(stream, db.file, b) /\ b \in Nat
        BY <4>1 DEF FInv, FilesTyped, OnlyComments, Handed
      <4>3. Handed(stream', db.file, b + Len(line))
        <5>1. Handed(AfterLine(stream, db.file), db.file, b + Len(NextLine(stream, db.file)))
          BY <2>3, <4>2, HandedOn
        <5> QED
          BY <1>0, <5>1 DEF line
      <4>4. Len(line) \in 1..(Len(db.file) - b) /\ \A i \in 1..Len(line) : line[i] = db.file[b + i]
        <5>1. Len(NextLine(stream, db.file)) \in 1..(Len(db.file) - b)
          BY <2>3, <4>2, HandedOn
        <5>2. Copies(NextLine(stream, db.file), db.file, b)
          BY <2>3, <4>2, HandedOn
        <5> QED
          BY <5>1, <5>2 DEF line, Copies
      <4>5. Len(line) = 1 /\ line[1] = Comment
        <5> HIDE DEF Comment
        <5> QED
          BY <1>2
      <4>6. db.file[b + 1] = Comment
        BY <4>4, <4>5
      <4>7. \A i \in 1..(b + 1), k \in Key : ~Gives(db.file, i, k)
        <5> SUFFICES ASSUME NEW i \in 1..(b + 1), NEW k \in Key
                     PROVE  ~Gives(db.file, i, k)
          OBVIOUS
        <5>1. CASE i \in 1..b
          BY <4>1, <5>1 DEF OnlyComments
        <5>2. CASE i = b + 1
          BY <4>6, <5>2, Kinds DEF Gives
        <5> QED
          BY <4>2, <5>1, <5>2
      <4>8. OnlyComments(stream', db.file, b + 1)
        BY <4>3, <4>5, <4>7 DEF OnlyComments
      <4> QED
        BY <1>2, <3>1, <3>3, <4>8 DEF ReadSoFar
    <3> QED
      BY <1>0, <3>2, <3>3 DEF FInv, ReadSoFar
  <2> QED
    BY <2>1, <2>4 DEF FInv
<1>3. CASE /\ Parsable(line) /\ Accepted(line[1].key, Last(line).value)
           /\ db' = Insert(db, line[1].key, Last(line).value)
           /\ phase' = phase
  <2> DEFINE k == line[1].key
             v == Last(line).value
  <2>1. /\ db'.file = Written(db'.settings)
        /\ db'.file \in Seq(Token) /\ Whole(db'.file)
    <3>1. Accepted(k, v) /\ db' = Insert(db, k, v)
      BY <1>3
    <3> HIDE DEF k, v
    <3> QED
      BY <3>1, InsertWrites
  <2>2. stream'.eof = FALSE
    <3>1. line # <<>> /\ Last(line).kind # "first"
      BY <1>0, <1>3 DEF Parsable, Last
    <3> QED
      BY <1>0, <3>1 DEF AfterLine, Handing, line
  <2>3. FilesTyped' /\ ReadSoFar'
    BY <1>0, <2>1, <2>2 DEF FInv, FilesTyped, ReadSoFar
  <2>4. FileHoldsSettings'
    BY <1>0, <1>3 DEF FileHoldsSettings
  <2> QED
    BY <2>3, <2>4 DEF FInv
<1> QED
  BY <1>0, <1>1, <1>2, <1>3

\* At the end of the file the map has what the file says.
LEMMA EndReadHolds ==
  ASSUME TypeOK, FInv, EndRead
  PROVE  FInv'
<1>1. /\ phase = "reading" /\ phase' = "running" /\ loaded' = loaded
      /\ stream.eof \/ NextLine(stream, db.file) = <<>>
      /\ db'.settings = db.settings /\ db'.file = db.file
  BY DEF EndRead, ApplyAll
<1>2. NextLine(stream, db.file) = <<>>
  BY <1>1 DEF FInv, ReadSoFar
<1>3. Meaning(db.file) = db.settings
  <2>1. CASE db.file = Written(db.settings)
    BY <2>1, SettingsTyped, WrittenIs
  <2>2. CASE db.settings = NoSettings /\ \E b : OnlyComments(stream, db.file, b)
    <3>1. PICK b : OnlyComments(stream, db.file, b)
      BY <2>2
    <3>2. db.file \in Seq(Token) /\ Handed(stream, db.file, b) /\ b \in Nat
      BY <3>1 DEF FInv, FilesTyped, OnlyComments, Handed
    <3>3. Rest(stream, db.file) = <<>>
      BY <1>2, <3>2, HandedTyped, Inside
    <3>4. b >= Len(db.file)
      <4> SUFFICES ASSUME ~(b >= Len(db.file))
                   PROVE  FALSE
        OBVIOUS
      <4>0. Len(db.file) \in Nat
        BY <3>2, LenProperties
      <4>1. b <= Len(db.file) /\ Len(db.file) <= Len(db.file) /\ Len(db.file) - b # 0
        BY <3>2, <4>0
      <4>2. Rest(stream, db.file) = SubSeq(db.file, b + 1, Len(db.file))
        BY <3>2, HandedRest
      <4>3. Len(SubSeq(db.file, b + 1, Len(db.file))) = Len(db.file) - b
        BY <3>2, <4>0, <4>1, Part
      <4> QED
        BY <3>3, <4>1, <4>2, <4>3, EmptySeq
    <3>5. \A k \in Key : \A i \in DOMAIN db.file : ~Gives(db.file, i, k)
      <4>1. DOMAIN db.file = 1..Len(db.file) /\ Len(db.file) \in Nat
        BY <3>2, LenProperties
      <4>2. \A i \in DOMAIN db.file : i \in 1..b
        BY <3>2, <3>4, <4>1
      <4> QED
        BY <3>1, <4>2 DEF OnlyComments
    <3>6. \A k \in Key : Meaning(db.file)[k] = Unset
      BY <3>2, <3>5, MeaningIs
    <3>7. Meaning(db.file) = [k \in Key |-> Meaning(db.file)[k]]
      BY DEF Meaning
    <3> QED
      BY <2>2, <3>6, <3>7 DEF NoSettings
  <2> QED
    BY <1>1, <2>1, <2>2 DEF FInv, ReadSoFar
<1> QED
  BY <1>1, <1>3 DEF FInv, FilesTyped, FileHoldsSettings

\* The file is empty at first.
LEMMA InitHolds == Init => FInv
<1>1. <<>> \in Seq(Token) /\ Whole(<<>>)
  BY EmptySeq DEF Whole
<1> QED
  BY <1>1 DEF Init, FInv, FilesTyped, FileHoldsSettings

\* Each action keeps what is said of the file: those that change the map write
\* it, and those of a person leave whole lines.
LEMMA StepHolds == TypeOK /\ FInv /\ [Next]_vars => FInv'
<1> SUFFICES ASSUME TypeOK, FInv, [Next]_vars PROVE FInv'
  OBVIOUS
<1>1. ASSUME NEW file \in Edited, Edit(file) PROVE FInv'
  <2>1. /\ phase' = "down" /\ loaded' = loaded /\ db'.file \in {file, db.file}
    BY <1>1 DEF Edit
  <2>2. file \in Seq(Token) /\ Whole(file)
    BY EditedAssumption
  <2> QED
    BY <2>1, <2>2 DEF FInv, FilesTyped, FileHoldsSettings
<1>2. ASSUME NEW plugins \in SUBSET PluginKey, Start(plugins) PROVE FInv'
  <2>1. /\ phase' = "reading" /\ loaded' = db.file /\ stream' = Closed
        /\ db'.settings = NoSettings /\ db'.file = db.file
    BY <1>2 DEF Start
  <2>2. OnlyComments(stream', db'.file, 0)
    <3>1. SubSeq(db'.file, 0 + 1, 0) = <<>>
      BY NoPart
    <3> QED
      BY <2>1, <3>1 DEF OnlyComments, Handed, Closed
  <2> QED
    BY <2>1, <2>2 DEF FInv, FilesTyped, FileHoldsSettings, ReadSoFar, Closed
<1>3. CASE ReadLine
  BY <1>3, ReadLineHolds
<1>4. CASE EndRead
  BY <1>4, EndReadHolds
<1>5. ASSUME NEW k \in Key, NEW v \in Value, Set(k, v) PROVE FInv'
  <2>1. phase = "running" /\ phase' = phase /\ loaded' = loaded /\ Accepted(k, v) /\ db' = Insert(db, k, v)
    BY <1>5 DEF Set
  <2> QED
    BY <2>1, InsertWrites DEF FInv, FilesTyped, FileHoldsSettings
<1>6. ASSUME NEW k \in Key, Reset(k) PROVE FInv'
  <2>1. phase = "running" /\ phase' = phase /\ loaded' = loaded /\ db' = Delete(db, k)
    BY <1>6 DEF Reset
  <2>2. CASE db.settings[k] = Unset
    <3>1. db' = db
      BY <2>1, <2>2 DEF Delete
    <3> QED
      BY <2>1, <3>1 DEF FInv, FilesTyped, FileHoldsSettings
  <2>3. CASE db.settings[k] # Unset
    <3>1. db'.settings = [db.settings EXCEPT ![k] = Unset] /\ db'.file = Written(db'.settings)
      BY <2>1, <2>3 DEF Delete
    <3>2. db'.settings \in Settings
      BY <3>1, SettingsTyped DEF Settings
    <3>3. db'.file \in Seq(Token) /\ Whole(db'.file) /\ Meaning(db'.file) = db'.settings
      BY <3>1, <3>2, WrittenIs
    <3> QED
      BY <2>1, <3>3 DEF FInv, FilesTyped, FileHoldsSettings
  <2> QED
    BY <2>2, <2>3
<1>7. ASSUME NEW k \in Key, LoadPlugin(k) PROVE FInv'
  <2>1. /\ phase = "running" /\ phase' = phase /\ loaded' = loaded
        /\ db'.settings = db.settings /\ db'.file = db.file
    BY <1>7 DEF LoadPlugin
  <2> QED
    BY <2>1 DEF FInv, FilesTyped, FileHoldsSettings
<1>8. ASSUME NEW k \in Key, UnloadPlugin(k) PROVE FInv'
  BY <1>8 DEF UnloadPlugin, FInv, FilesTyped, FileHoldsSettings
<1>9. CASE Stop
  BY <1>9 DEF Stop, FInv, FilesTyped, FileHoldsSettings
<1>10. CASE StopInWrite
  <2>1. phase' = "down" /\ loaded' = loaded /\ db'.file \in {<<>>, db.file}
    BY <1>10 DEF StopInWrite
  <2>2. <<>> \in Seq(Token) /\ Whole(<<>>)
    BY EmptySeq DEF Whole
  <2> QED
    BY <2>1, <2>2 DEF FInv, FilesTyped, FileHoldsSettings
<1>11. CASE UNCHANGED vars
  BY <1>11 DEF vars, FInv, FilesTyped, FileHoldsSettings, ReadSoFar
<1> QED
  BY <1>1, <1>2, <1>3, <1>4, <1>5, <1>6, <1>7, <1>8, <1>9, <1>10, <1>11 DEF Next

\* The induction hypothesis for the file holds throughout.
THEOREM FileInvariant == Spec => []FInv
BY InitHolds, StepHolds, OnlyValidValues, PTL DEF Spec

\* While the program runs the file says what the map has, for any keys, files
\* and size of the buffer: also after a start that rewrote what it was reading.
THEOREM FileHolds == Spec => []FileHoldsSettings
<1>1. FInv => FileHoldsSettings
  BY DEF FInv
<1> QED
  BY <1>1, FileInvariant, PTL

-----------------------------------------------------------------------------
(* What a start restores.                                                   *)

\* The whole of a file fits the buffer.  Nothing has been read of it; or a
\* tokens, and the rest is in the buffer; or all, and the stream goes through
\* what has been written behind the old end of the file.
Fresh == stream = Closed /\ db.file = loaded /\ db.settings = NoSettings

Midway(a) ==
  /\ a \in 0..Len(loaded)
  /\ stream.buffer = SubSeq(loaded, a + 1, Len(loaded))
  /\ stream.offset = Len(loaded)
  /\ db.settings = Meaning(SubSeq(loaded, 1, a))
  /\ db.file = loaded \/ db.file = Written(db.settings)

Beyond ==
  /\ db.settings = Meaning(loaded)
  /\ db.file = Written(db.settings)
  /\ \E b : Handed(stream, db.file, b)

Restoring ==
  phase = "reading" /\ Len(loaded) <= Buffer => Fresh \/ (\E a : Midway(a)) \/ Beyond

\* A file and an empty beginning of it.
LEMMA Ends ==
  ASSUME NEW file \in Seq(Token)
  PROVE  /\ SubSeq(file, 1, Len(file)) = file
         /\ SubSeq(file, 1, 0) = <<>>
         /\ SubSeq(file, Len(file) + 1, Len(file)) = <<>>
         /\ Meaning(<<>>) = NoSettings
<1>0. Len(file) \in Nat
  BY LenProperties
<1>1. SubSeq(file, 1, Len(file)) = file
  <2> DEFINE p == SubSeq(file, 1, Len(file))
  <2>1. p \in Seq(Token) /\ Len(p) = Len(file) /\ \A i \in 1..Len(file) : p[i] = file[i]
    <3>1. Len(file) <= Len(file)
      BY <1>0
    <3> QED
      BY <1>0, <3>1, Prefix
  <2> HIDE DEF p
  <2>2. p = file
    BY <2>1, SeqEqual
  <2> QED
    BY <2>2 DEF p
<1>2. SubSeq(file, 1, 0) = <<>>
  BY SubSeqEmpty
<1>3. SubSeq(file, Len(file) + 1, Len(file)) = <<>>
  <2>1. Len(file) <= Len(file)
    BY <1>0
  <2> QED
    BY <1>0, <2>1, NoPart
<1>4. Meaning(<<>>) = NoSettings
  <2>1. <<>> \in Seq(Token) /\ DOMAIN <<>> = {}
    BY EmptySeq
  <2>2. \A k \in Key : Meaning(<<>>)[k] = Unset
    <3> DEFINE e == <<>>
    <3>1. e \in Seq(Token) /\ \A k \in Key : \A i \in DOMAIN e : ~Gives(e, i, k)
      BY <2>1
    <3> HIDE DEF e
    <3>2. \A k \in Key : Meaning(e)[k] = Unset
      BY <3>1, MeaningIs
    <3> QED
      BY <3>2 DEF e
  <2>3. Meaning(<<>>) = [k \in Key |-> Meaning(<<>>)[k]]
    BY DEF Meaning
  <2> QED
    BY <2>2, <2>3 DEF NoSettings
<1> QED
  BY <1>1, <1>2, <1>3, <1>4

\* What inserting a line that was read, or passing a comment, makes of the map.
LEMMA TurnMeans ==
  ASSUME TypeOK, FilesTyped, ReadLine, phase' = "reading",
         NEW a, db.settings = Meaning(SubSeq(loaded, 1, a)),
         NEW line, line = NextLine(stream, db.file), Stands(line, loaded, a)
  PROVE  /\ db'.settings = Meaning(SubSeq(loaded, 1, a + Len(line)))
         /\ (db'.file = db.file /\ db'.settings = db.settings) \/ db'.file = Written(db'.settings)
         /\ EndedLine(line)
<1>1. line \in Seq(Token)
  BY DEF Stands
<1>2. \/ line = <<Comment>> /\ db' = db
      \/ /\ Parsable(line) /\ Accepted(line[1].key, Last(line).value)
         /\ db' = Insert(db, line[1].key, Last(line).value)
  BY TurnIs
<1>3. line # <<>>
  BY TurnIs
<1>4. EndedLine(line)
  BY <1>1, <1>2, <1>3, EndsIt
<1>5. CASE line = <<Comment>> /\ db' = db
  <2>1. Meaning(SubSeq(loaded, 1, a + Len(line))) = Meaning(SubSeq(loaded, 1, a))
    BY <1>5, MeaningOfLine
  <2> QED
    BY <1>4, <1>5, <2>1
<1>6. CASE /\ Parsable(line) /\ Accepted(line[1].key, Last(line).value)
           /\ db' = Insert(db, line[1].key, Last(line).value)
  <2> DEFINE k == line[1].key
             v == Last(line).value
  <2>1. k \in Key /\ db'.settings = [db.settings EXCEPT ![k] = v] /\ db'.file = Written(db'.settings)
    <3>1. Accepted(k, v) /\ db' = Insert(db, k, v)
      BY <1>6
    <3> HIDE DEF k, v
    <3> QED
      BY <3>1, InsertWrites
  <2>2. Meaning(SubSeq(loaded, 1, a + Len(line))) = [Meaning(SubSeq(loaded, 1, a)) EXCEPT ![k] = v]
    BY <1>6, <2>1, MeaningOfLine
  <2> QED
    BY <1>4, <2>1, <2>2
<1> QED
  BY <1>2, <1>5, <1>6

\* The lines behind the old end of the file are in the map already, or throw.
LEMMA BeyondKept ==
  ASSUME TypeOK, FilesTyped, Beyond, ReadLine, phase' = "reading"
  PROVE  Beyond'
<1> DEFINE line == NextLine(stream, db.file)
           w == db.file
<1>1. PICK b : Handed(stream, db.file, b)
  BY DEF Beyond
<1>2. /\ w \in Seq(Token) /\ Pairs(w, db.settings) /\ b \in Nat /\ Len(w) \in Nat
      /\ db.settings \in Settings
  <2>1. db.settings \in Settings /\ w = Written(db.settings)
    BY SettingsTyped DEF Beyond
  <2>2. w \in Seq(Token) /\ Pairs(w, db.settings)
    BY <2>1, WrittenIs
  <2> QED
    BY <1>1, <2>1, <2>2, LenProperties DEF Handed
<1>3. /\ line # <<>> /\ loaded' = loaded /\ stream' = AfterLine(stream, db.file)
      /\ \/ line = <<Comment>> /\ db' = db
         \/ /\ Parsable(line) /\ Accepted(line[1].key, Last(line).value)
            /\ db' = Insert(db, line[1].key, Last(line).value)
  BY TurnIs
<1>4. line \in Seq(Token)
  BY <1>1, <1>2, HandedTyped, Inside
<1> HIDE DEF line
<1>5. EndedLine(line)
  BY <1>3, <1>4, EndsIt
<1>6. /\ Handed(stream', db.file, b + Len(line))
      /\ Len(line) \in 1..(Len(w) - b)
      /\ \A i \in 1..Len(line) : line[i] = w[b + i]
  <2>1. EndedLine(NextLine(stream, db.file)) /\ db.file \in Seq(Token)
    BY <1>2, <1>5 DEF line
  <2>2. Handed(AfterLine(stream, db.file), db.file, b + Len(NextLine(stream, db.file)))
    BY <1>1, <2>1, HandedOn
  <2>3. Len(NextLine(stream, db.file)) \in 1..(Len(db.file) - b)
    BY <1>1, <2>1, HandedOn
  <2>4. Copies(NextLine(stream, db.file), db.file, b)
    BY <1>1, <2>1, HandedOn
  <2> QED
    BY <1>3, <2>2, <2>3, <2>4 DEF line, Copies
<1>7. db'.settings = db.settings /\ db'.file = db.file
  <2>1. CASE /\ Parsable(line)
             /\ db' = Insert(db, line[1].key, Last(line).value)
    <3>1. CASE Len(line) = 2 /\ line[2].kind = "second"
      <4>1. b + 2 \in 1..Len(w) /\ (b + 2) - 1 = b + 1 /\ w[b + 2] = line[2] /\ w[b + 1] = line[1]
        BY <1>2, <1>6, <3>1
      <4>2. PICK k \in Key :
              /\ db.settings[k] # Unset
              /\ \/ w[b + 2] = First(k)
                 \/ w[b + 2] = Second(db.settings[k]) /\ w[b + 1] = First(k)
        BY <1>2, <4>1 DEF Pairs
      <4>3. w[b + 2] # First(k)
        BY <3>1, <4>1, Kinds
      <4>4. line[2] = Second(db.settings[k]) /\ line[1] = First(k)
        BY <4>1, <4>2, <4>3
      <4>5. line[1].key = k /\ Last(line).value = db.settings[k]
        BY <3>1, <4>4, Kinds DEF Last
      <4>6. db' = Insert(db, k, db.settings[k])
        BY <2>1, <4>5
      <4>7. [db.settings EXCEPT ![k] = db.settings[k]] = db.settings
        BY <1>2 DEF Settings
      <4> QED
        BY <4>6, <4>7 DEF Insert, Beyond
    <3>2. CASE Len(line) = 1 /\ line[1].kind = "short"
      <4>1. b + 1 \in 1..Len(w) /\ w[b + 1] = line[1]
        BY <1>2, <1>6, <3>2
      <4>2. PICK k \in Key : w[b + 1] = First(k) \/ w[b + 1] = Second(db.settings[k])
        BY <1>2, <4>1 DEF Pairs
      <4> QED
        BY <3>2, <4>1, <4>2, Kinds
    <3> QED
      BY <2>1, <3>1, <3>2 DEF Parsable
  <2> QED
    BY <1>3, <2>1
<1> QED
  BY <1>3, <1>6, <1>7 DEF Beyond

\* A turn of the loop while what was in the file is restored.
LEMMA ReadLineRestores ==
  ASSUME TypeOK, FilesTyped, Restoring, ReadLine
  PROVE  Restoring'
<1> DEFINE line == NextLine(stream, db.file)
           n == Len(line)
<1>0. phase = "reading" /\ line # <<>> /\ loaded' = loaded /\ stream' = AfterLine(stream, db.file)
  BY TurnIs
<1> SUFFICES ASSUME phase' = "reading", Len(loaded) <= Buffer
             PROVE  (\E a : Midway(a)') \/ Beyond'
  BY <1>0 DEF Restoring
<1>1. loaded \in Seq(Token) /\ Whole(loaded) /\ db.file \in Seq(Token) /\ Len(loaded) \in Nat
  BY LenProperties DEF FilesTyped
<1>2. CASE Fresh
  <2>1. stream = Closed /\ db.file = loaded /\ db.settings = NoSettings
    BY <1>2 DEF Fresh
  <2>2. loaded # <<>>
    <3> SUFFICES ASSUME loaded = <<>>
                 PROVE  FALSE
      OBVIOUS
    <3>1. Handed(Closed, loaded, 0)
      <4>1. SubSeq(loaded, 0 + 1, 0) = <<>>
        BY NoPart
      <4> QED
        BY <4>1 DEF Handed, Closed
    <3>2. 0 >= Len(loaded)
      BY EmptySeq
    <3>3. Rest(stream, db.file) = <<>>
      BY <1>1, <2>1, <3>1, <3>2, HandedRest
    <3>4. Rest(stream, db.file) \in Seq(Token)
      BY <3>3, EmptySeq
    <3> QED
      BY <1>0, <3>3, <3>4, NoLine
  <2>3. /\ n \in 1..Len(loaded) /\ line \in Seq(Token)
        /\ \A i \in 1..n : line[i] = loaded[i]
        /\ stream'.buffer = SubSeq(loaded, n + 1, Len(loaded))
        /\ stream'.offset = Len(loaded)
    BY <1>0, <1>1, <2>1, <2>2, FirstFill
  <2>4. \A i \in 1..(n - 1) : line[i].kind = "first"
    <3>1. stream.buffer \in Seq(Token) /\ stream.offset \in Nat
      BY <2>1, EmptySeq DEF Closed
    <3> QED
      BY <1>1, <3>1, Inside
  <2>5. db.settings = Meaning(SubSeq(loaded, 1, 0))
    BY <1>1, <2>1, Ends
  <2>6. Stands(line, loaded, 0)
    <3>1. Len(line) \in 1..(Len(loaded) - 0) /\ \A i \in 1..Len(line) : 0 + i = i
      BY <1>1, <2>3
    <3> HIDE DEF line
    <3> QED
      BY <1>1, <2>3, <2>4, <3>1 DEF Stands
  <2>7. line = NextLine(stream, db.file)
    OBVIOUS
  <2> HIDE DEF line
  <2>8. /\ db'.settings = Meaning(SubSeq(loaded, 1, 0 + Len(line)))
        /\ (db'.file = db.file /\ db'.settings = db.settings) \/ db'.file = Written(db'.settings)
    BY <2>5, <2>6, <2>7, TurnMeans
  <2>9. PICK c \in 1..Len(loaded) : c = n
    BY <2>3
  <2>10. 0 + Len(line) = c /\ c \in 0..Len(loaded)
    BY <1>1, <2>9
  <2>11. db'.file = loaded \/ db'.file = Written(db'.settings)
    BY <2>1, <2>8
  <2>12. Midway(c)'
    BY <1>0, <2>3, <2>8, <2>9, <2>10, <2>11 DEF Midway
  <2> QED
    BY <2>12
<1>3. ASSUME NEW a, Midway(a)
      PROVE  (\E c : Midway(c)') \/ Beyond'
  <2>0. a \in Nat /\ a <= Len(loaded) /\ stream.offset = Len(loaded)
        /\ stream.buffer = SubSeq(loaded, a + 1, Len(loaded))
    BY <1>1, <1>3 DEF Midway
  <2>1. CASE a < Len(loaded)
    <3>1. /\ n \in 1..(Len(loaded) - a) /\ line \in Seq(Token)
          /\ \A i \in 1..n : line[i] = loaded[a + i]
          /\ stream'.buffer = SubSeq(loaded, (a + n) + 1, Len(loaded))
          /\ stream'.offset = Len(loaded)
      BY <1>0, <1>1, <2>0, <2>1, FromBuffer
    <3>2. \A i \in 1..(n - 1) : line[i].kind = "first"
      <4>1. stream.buffer \in Seq(Token) /\ stream.offset \in Nat
        <5>1. Len(loaded) <= Len(loaded)
          BY <1>1
        <5> QED
          BY <1>1, <2>0, <5>1, Part
      <4> QED
        BY <1>1, <4>1, Inside
    <3>3. line = NextLine(stream, db.file) /\ db.settings = Meaning(SubSeq(loaded, 1, a))
      BY <1>3 DEF Midway
    <3> HIDE DEF line
    <3>4. Stands(line, loaded, a)
      BY <1>1, <2>0, <3>1, <3>2 DEF Stands
    <3>5. /\ db'.settings = Meaning(SubSeq(loaded, 1, a + Len(line)))
          /\ (db'.file = db.file /\ db'.settings = db.settings) \/ db'.file = Written(db'.settings)
      BY <3>3, <3>4, TurnMeans
    <3>6. PICK c \in 0..Len(loaded) : c = a + n
      BY <1>1, <2>0, <3>1
    <3>7. db'.file = loaded \/ db'.file = Written(db'.settings)
      BY <1>3, <3>5 DEF Midway
    <3>8. Midway(c)'
      BY <1>0, <3>1, <3>5, <3>6, <3>7 DEF Midway
    <3> QED
      BY <3>8
  <2>2. CASE a = Len(loaded)
    <3>1. Handed(stream, db.file, Len(loaded))
      <4>1. stream.buffer = <<>>
        BY <1>1, <2>0, <2>2, Ends
      <4>2. Len(loaded) <= Len(loaded)
        BY <1>1
      <4>3. SubSeq(db.file, Len(loaded) + 1, Len(loaded)) = <<>>
        BY <1>1, <4>2, NoPart
      <4>4. ~(Len(loaded) < Len(loaded)) /\ Len(loaded) <= Len(loaded)
        BY <1>1
      <4> QED
        BY <1>1, <2>0, <4>1, <4>3, <4>4 DEF Handed
    <3>2. db.settings = Meaning(loaded)
      BY <1>1, <1>3, <2>2, Ends DEF Midway
    <3>3. CASE db.file = Written(db.settings)
      <4>1. Beyond
        BY <3>1, <3>2, <3>3 DEF Beyond
      <4> QED
        BY <4>1, BeyondKept
    <3>4. CASE db.file = loaded
      <4>1. Rest(stream, db.file) = <<>>
        <5>1. Len(loaded) >= Len(db.file)
          BY <1>1, <3>4
        <5> QED
          BY <1>1, <3>1, <5>1, HandedRest
      <4>2. Rest(stream, db.file) \in Seq(Token)
        BY <4>1, EmptySeq
      <4> QED
        BY <1>0, <4>1, <4>2, NoLine
    <3> QED
      BY <1>3, <3>3, <3>4 DEF Midway
  <2> QED
    BY <1>1, <2>0, <2>1, <2>2
<1>4. CASE Beyond
  BY <1>4, BeyondKept
<1> QED
  BY <1>0, <1>2, <1>3, <1>4 DEF Restoring

\* When there is no further line, the map has what the file said at the start.
LEMMA EndReadRestores ==
  ASSUME FInv, Restoring, EndRead, Len(loaded) <= Buffer
  PROVE  db'.settings = Meaning(loaded)
<1> DEFINE line == NextLine(stream, db.file)
<1>0. /\ phase = "reading" /\ line = <<>> /\ db'.settings = db.settings
      /\ loaded \in Seq(Token) /\ Whole(loaded) /\ db.file \in Seq(Token) /\ Len(loaded) \in Nat
  BY LenProperties DEF EndRead, ApplyAll, FInv, ReadSoFar, FilesTyped
<1>1. ~EndedLine(line)
  BY <1>0 DEF EndedLine
<1>2. CASE Fresh
  <2>1. loaded = <<>>
    BY <1>0, <1>1, <1>2, FirstFill DEF Fresh
  <2> QED
    BY <1>0, <1>2, <2>1, Ends DEF Fresh
<1>3. ASSUME NEW a, Midway(a)
      PROVE  db'.settings = Meaning(loaded)
  <2>1. a \in 0..Len(loaded) /\ a \in Nat /\ stream.offset \in Nat
        /\ stream.buffer = SubSeq(loaded, a + 1, Len(loaded))
    BY <1>0, <1>3 DEF Midway
  <2>2. ~(a < Len(loaded))
    BY <1>0, <1>1, <2>1, FromBuffer
  <2>3. a = Len(loaded)
    BY <1>0, <2>1, <2>2
  <2> QED
    BY <1>0, <1>3, <2>3, Ends DEF Midway
<1>4. CASE Beyond
  BY <1>0, <1>4 DEF Beyond
<1> QED
  BY <1>0, <1>2, <1>3, <1>4 DEF Restoring

\* A program that starts has read nothing yet; one that does not read has
\* nothing to restore.
LEMMA StepRestores == TypeOK /\ FInv /\ Restoring /\ [Next]_vars => Restoring'
<1> SUFFICES ASSUME TypeOK, FInv, Restoring, [Next]_vars PROVE Restoring'
  OBVIOUS
<1>1. ASSUME NEW plugins \in SUBSET PluginKey, Start(plugins) PROVE Restoring'
  <2>1. loaded' = db.file /\ stream' = Closed /\ db'.settings = NoSettings /\ db'.file = db.file
    BY <1>1 DEF Start
  <2>2. Fresh'
    BY <2>1 DEF Fresh, Closed
  <2> QED
    BY <2>2 DEF Restoring
<1>2. CASE ReadLine
  BY <1>2, ReadLineRestores DEF FInv
<1>3. CASE UNCHANGED vars
  BY <1>3 DEF vars, Restoring, Fresh, Midway, Beyond
<1>4. CASE phase' # "reading"
  BY <1>4 DEF Restoring
<1>5. phase' # "reading" \/ ReadLine \/ (UNCHANGED vars) \/ \E plugins \in SUBSET PluginKey : Start(plugins)
  <2>1. ASSUME NEW file \in Edited, Edit(file) PROVE phase' # "reading"
    BY <2>1 DEF Edit
  <2>2. CASE EndRead
    BY <2>2 DEF EndRead
  <2>3. ASSUME NEW k \in Key, \/ \E v \in Value : Set(k, v)
                              \/ Reset(k) \/ LoadPlugin(k) \/ UnloadPlugin(k)
        PROVE  phase' # "reading"
    BY <2>3 DEF Set, Reset, LoadPlugin, UnloadPlugin
  <2>4. CASE Stop \/ StopInWrite
    BY <2>4 DEF Stop, StopInWrite
  <2> QED
    BY <2>1, <2>2, <2>3, <2>4 DEF Next
<1> QED
  BY <1>1, <1>2, <1>3, <1>4, <1>5

\* Only the end of reading lets a program run that was reading.
LEMMA RunsAfterReading ==
  ASSUME [Next]_vars, phase = "reading", phase' = "running"
  PROVE  EndRead
<1>1. ASSUME NEW file \in Edited, Edit(file) PROVE FALSE
  BY <1>1 DEF Edit
<1>2. ASSUME NEW plugins \in SUBSET PluginKey, Start(plugins) PROVE FALSE
  BY <1>2 DEF Start
<1>3. ASSUME ReadLine PROVE FALSE
  BY <1>3, TurnIs
<1>4. ASSUME NEW k \in Key, \/ \E v \in Value : Set(k, v)
                            \/ Reset(k) \/ LoadPlugin(k) \/ UnloadPlugin(k)
      PROVE  FALSE
  BY <1>4 DEF Set, Reset, LoadPlugin, UnloadPlugin
<1>5. ASSUME Stop \/ StopInWrite PROVE FALSE
  BY <1>5 DEF Stop, StopInWrite
<1>6. ASSUME UNCHANGED vars PROVE FALSE
  BY <1>6 DEF vars
<1> QED
  BY <1>1, <1>2, <1>3, <1>4, <1>5, <1>6 DEF Next

\* While a file that fits the buffer is read, the map has what the lines handed
\* out so far say.
THEOREM RestoringAlways == Spec => []Restoring
<1>1. Init => Restoring
  BY DEF Init, Restoring
<1> QED
  BY <1>1, StepRestores, OnlyValidValues, FileInvariant, PTL DEF Spec

\* A start that gets as far as running has restored what the file held, however
\* the file was rewritten under the stream, if it fits the buffer: for any keys,
\* any file whose last line has its end, and any size of the buffer.
THEOREM StartRestoresAlways == Spec => StartRestores
<1>1. FInv /\ Restoring /\ [Next]_vars =>
        [phase = "reading" /\ phase' = "running" /\ Len(loaded) <= Buffer =>
           db'.settings = Meaning(loaded)]_vars
  BY RunsAfterReading, EndReadRestores
<1> QED
  BY <1>1, FileInvariant, RestoringAlways, PTL DEF Spec, StartRestores
=============================================================================
