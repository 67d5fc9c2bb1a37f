----------------------------- MODULE LogsProofs -----------------------------
(***************************************************************************)
(* Proofs about Logs, for any people, names and texts.                      *)
(***************************************************************************)
EXTENDS Logs, TLAPS

Window == User \cup {Channel, Status}
Name == Nick \cup {Server, NoOne, Channel}
Hat == {"@", ""}
Said == [form : {"plain", "action", "ctcp", "open", "raw"}, body : Body \cup {NoOne}]
Speaker == [name : Name, hats : Hat]
Change == {"+o", "-o", "+m", "+i"}
Verb == {"msg", "notice", "join", "part", "mode", "topic_is", "topic_set", "quit", "nick", "kick"}

\* What the lines of Lines are, by their kinds.
LineRecord ==
  [kind : {"msg", "notice"}, who : Name, hats : Hat, where : Name, text : Said] \cup
  [kind : {"join", "self_nick_change"}, who : Name] \cup
  [kind : {"part", "quit", "topic"}, who : Name, text : Said] \cup
  [kind : {"nick_change"}, who : Name, whom : Name] \cup
  [kind : {"kick"}, who : Name, whom : Name, text : Said, isSelf : BOOLEAN] \cup
  [kind : {"mode"}, modeSet : [type : {"channel", "self"}, change : Change, extra : Name],
   where : Name, who : Name, self : Name]

\* A line in the window that belonged to the log of `under`, and one of a log.
ShownLine(w) ==
  [line : LineRecord, stamp : Nat, under : IF w = Status THEN User \cup LogName \cup {Status} ELSE LogName]
Entries == [stamp : Nat, verb : Verb, words : Seq(Name \cup Speaker \cup Change),
            sign : {":", "*"}, text : Said]

\* The state has its type; who is in the channel is online.
PeopleOK(p) ==
  /\ p \in [nick : [User -> Nick], online : SUBSET User, room : SUBSET User, hats : SUBSET User]
  /\ p.room \subseteq p.online

ScreenOK(s) ==
  /\ DOMAIN s \subseteq Window /\ Status \in DOMAIN s
  /\ s = [w \in DOMAIN s |-> s[w]]
  /\ \A w \in DOMAIN s : s[w] \in Seq(ShownLine(w))

LogsTypeOK ==
  /\ PeopleOK(people)
  /\ ScreenOK(screen)
  /\ entries \in [LogName -> Seq(Entries)]
  /\ streams \subseteq LogName
  /\ events \in Nat

\* Once we are gone there are no streams.
Ended == Me \notin people.online => streams = {}

\* What the window w shows of s is in its log.
InLog(w, s, logs) ==
  Restorable(w, s) =>
    \E j \in DOMAIN logs[s.under] :
      /\ logs[s.under][j].stamp = s.stamp
      /\ Drawn(GetLine(s.under, logs[s.under][j])) = Drawn(s.line)

Told(windows, logs) ==
  \A w \in DOMAIN windows \ {Status} : \A i \in DOMAIN windows[w] : InLog(w, windows[w][i], logs)

LInv == LogsTypeOK /\ Ended /\ Told(screen, entries)

-----------------------------------------------------------------------------
(* What an event does to the windows and the logs.                          *)

Under(w, nick) == IF w \in User THEN nick[w] ELSE w
Made(w, line, nick) == [line |-> line, stamp |-> events + 1, under |-> Under(w, nick)]

\* A line that is shown comes behind what a window had, which stays.
LEMMA ShownBehind ==
  ASSUME ScreenOK(screen), events \in Nat, NEW ws \in SUBSET Window, NEW line \in LineRecord,
         NEW nick \in [User -> Nick]
  PROVE  LET s == ShownAs(ws, line, nick)
         IN /\ ScreenOK(s) /\ DOMAIN s = Open \cup ws
            /\ \A w \in DOMAIN s : \A i \in DOMAIN s[w] :
                 \/ w \in Open /\ i \in DOMAIN screen[w] /\ s[w][i] = screen[w][i]
                 \/ w \in ws /\ s[w][i] = Made(w, line, nick)
<1> DEFINE s == ShownAs(ws, line, nick)
           old(w) == IF w \in Open THEN screen[w] ELSE <<>>
           more(w) == IF w \in ws THEN <<Made(w, line, nick)>> ELSE <<>>
<1>1. s = [w \in Open \cup ws |-> old(w) \o more(w)]
  BY DEF ShownAs, Under, Made
<1>2. DOMAIN s = Open \cup ws /\ \A w \in DOMAIN s : s[w] = old(w) \o more(w)
  BY <1>1
<1> HIDE DEF s
<1>3. ASSUME NEW w \in Open \cup ws
      PROVE  Made(w, line, nick) \in ShownLine(w) /\ old(w) \in Seq(ShownLine(w))
  <2>1. w \in Window
    BY DEF ScreenOK, Open
  <2>2. Under(w, nick) \in IF w = Status THEN User \cup LogName \cup {Status} ELSE LogName
    BY <2>1, PeopleAssumption DEF Window, LogName, Under
  <2> QED
    BY <2>2 DEF ShownLine, ScreenOK, Open, Made
<1>4. ASSUME NEW w \in Open \cup ws
      PROVE  /\ s[w] \in Seq(ShownLine(w))
             /\ \A i \in DOMAIN s[w] :
                 \/ w \in Open /\ i \in DOMAIN screen[w] /\ s[w][i] = screen[w][i]
                 \/ w \in ws /\ s[w][i] = Made(w, line, nick)
  <2>1. CASE w \in ws
    <3>1. s[w] = old(w) \o <<Made(w, line, nick)>>
      BY <1>2, <2>1
    <3> QED
      BY <3>1, <1>3, <2>1
  <2>2. CASE w \notin ws
    <3>1. s[w] = old(w) \o <<>>
      BY <1>2, <2>2
    <3> QED
      BY <3>1, <1>3, <2>2
  <2> QED
    BY <2>1, <2>2
<1>5. ScreenOK(s)
  <2>1. Status \in DOMAIN s /\ DOMAIN s \subseteq Window
    BY <1>2 DEF ScreenOK, Open
  <2> QED
    BY <1>1, <1>2, <1>4, <2>1 DEF ScreenOK
<1> QED
  BY <1>2, <1>4, <1>5 DEF s

\* What is logged comes behind what a log had, which stays.
LEMMA LoggedBehind ==
  ASSUME entries \in [LogName -> Seq(Entries)], NEW names \in SUBSET LogName, NEW entry \in Entries
  PROVE  LET l == Logged(names, entry)
         IN /\ l \in [LogName -> Seq(Entries)]
            /\ \A f \in LogName :
                 /\ \A j \in DOMAIN entries[f] : j \in DOMAIN l[f] /\ l[f][j] = entries[f][j]
                 /\ f \in names => Len(l[f]) \in DOMAIN l[f] /\ Last(l[f]) = entry
<1> DEFINE l == Logged(names, entry)
<1>1. l = [f \in LogName |-> IF f \in names THEN Append(entries[f], entry) ELSE entries[f]]
  BY DEF Logged
<1> HIDE DEF l
<1>2. ASSUME NEW f \in LogName
      PROVE  /\ l[f] \in Seq(Entries)
             /\ \A j \in DOMAIN entries[f] : j \in DOMAIN l[f] /\ l[f][j] = entries[f][j]
             /\ f \in names => Len(l[f]) \in DOMAIN l[f] /\ Last(l[f]) = entry
  <2>1. entries[f] \in Seq(Entries)
    OBVIOUS
  <2>2. CASE f \in names
    <3>1. l[f] = Append(entries[f], entry)
      BY <1>1, <2>2
    <3> QED
      BY <2>1, <2>2, <3>1 DEF Last
  <2>3. CASE f \notin names
    BY <1>1, <2>1, <2>3
  <2> QED
    BY <2>2, <2>3
<1>3. l \in [LogName -> Seq(Entries)]
  BY <1>1, <1>2
<1> QED
  BY <1>2, <1>3 DEF l

\* What has come back as it was does so with more in the logs.
LEMMA StaysInLog ==
  ASSUME NEW w, NEW s, NEW logs, NEW more, s.under \in LogName,
         \A f \in LogName : \A j \in DOMAIN logs[f] : j \in DOMAIN more[f] /\ more[f][j] = logs[f][j],
         InLog(w, s, logs)
  PROVE  InLog(w, s, more)
BY DEF InLog

\* A line that a window shows and that names log is in the logs behind it, when
\* each window of a conversation has its log among them.
LEMMA BothTold ==
  ASSUME LogsTypeOK, Told(screen, entries),
         NEW ws \in SUBSET Window, NEW line \in LineRecord, NEW nick \in [User -> Nick],
         NEW names \in SUBSET LogName, NEW entry \in Entries,
         entry.stamp = events + 1,
         \A w \in ws \ {Status} : Restorable(w, Made(w, line, nick)) =>
           /\ Under(w, nick) \in names
           /\ Drawn(GetLine(Under(w, nick), entry)) = Drawn(line)
  PROVE  /\ ScreenOK(ShownAs(ws, line, nick))
         /\ Logged(names, entry) \in [LogName -> Seq(Entries)]
         /\ Told(ShownAs(ws, line, nick), Logged(names, entry))
<1> DEFINE s == ShownAs(ws, line, nick)
           l == Logged(names, entry)
<1>1. events \in Nat /\ ScreenOK(screen) /\ entries \in [LogName -> Seq(Entries)]
  BY DEF LogsTypeOK
<1>2. /\ ScreenOK(s) /\ DOMAIN s = Open \cup ws
      /\ \A w \in DOMAIN s : \A i \in DOMAIN s[w] :
           \/ w \in Open /\ i \in DOMAIN screen[w] /\ s[w][i] = screen[w][i]
           \/ w \in ws /\ s[w][i] = Made(w, line, nick)
  BY <1>1, ShownBehind
<1>3. /\ l \in [LogName -> Seq(Entries)]
      /\ \A f \in LogName :
           /\ \A j \in DOMAIN entries[f] : j \in DOMAIN l[f] /\ l[f][j] = entries[f][j]
           /\ f \in names => Len(l[f]) \in DOMAIN l[f] /\ Last(l[f]) = entry
  BY <1>1, LoggedBehind
<1> HIDE DEF s, l
<1>4. ASSUME NEW w \in DOMAIN s \ {Status}, NEW i \in DOMAIN s[w]
      PROVE  InLog(w, s[w][i], l)
  <2>1. CASE w \in Open /\ i \in DOMAIN screen[w] /\ s[w][i] = screen[w][i]
    <3>1. InLog(w, screen[w][i], entries)
      BY <2>1 DEF Told, Open
    <3>2. screen[w][i].under \in LogName
      <4>1. screen[w] \in Seq(ShownLine(w))
        BY <1>1, <2>1 DEF ScreenOK, Open
      <4>2. screen[w][i] \in ShownLine(w)
        BY <4>1, <2>1
      <4> QED
        BY <4>2 DEF ShownLine
    <3> QED
      BY <2>1, <3>1, <3>2, <1>3, StaysInLog
  <2>2. CASE w \in ws /\ s[w][i] = Made(w, line, nick)
    <3>1. s[w][i].under = Under(w, nick) /\ s[w][i].stamp = events + 1 /\ s[w][i].line = line
      BY <2>2 DEF Made
    <3>2. SUFFICES ASSUME Restorable(w, Made(w, line, nick))
                   PROVE  InLog(w, s[w][i], l)
      BY <2>2 DEF InLog
    <3> DEFINE u == Under(w, nick)
    <3>3. u \in names /\ Drawn(GetLine(u, entry)) = Drawn(line)
      BY <2>2, <3>2
    <3>4. Len(l[u]) \in DOMAIN l[u] /\ l[u][Len(l[u])] = entry
      BY <1>3, <3>3 DEF Last
    <3> HIDE DEF u
    <3>5. s[w][i].under = u
      BY <3>1 DEF u
    <3> QED
      BY <3>1, <3>3, <3>4, <3>5 DEF InLog
  <2> QED
    BY <1>2, <2>1, <2>2
<1>5. Told(s, l)
  BY <1>4 DEF Told
<1> QED
  BY <1>2, <1>3, <1>5 DEF s, l

-----------------------------------------------------------------------------
(* The events.                                                              *)

\* What an event leaves when it shows a line and logs an entry.
LEMMA BothKept ==
  ASSUME LInv, events' = events + 1, PeopleOK(people'), streams' \subseteq LogName, Ended',
         NEW ws \in SUBSET Window, NEW line \in LineRecord, NEW nick \in [User -> Nick],
         NEW names \in SUBSET LogName, NEW entry \in Entries,
         entry.stamp = events + 1,
         \A w \in ws \ {Status} : Restorable(w, Made(w, line, nick)) =>
           /\ Under(w, nick) \in names
           /\ Drawn(GetLine(Under(w, nick), entry)) = Drawn(line),
         screen' = ShownAs(ws, line, nick), entries' = Logged(names, entry)
  PROVE  LInv'
<1>1. LogsTypeOK /\ Told(screen, entries)
  BY DEF LInv
<1>2. /\ ScreenOK(ShownAs(ws, line, nick))
      /\ Logged(names, entry) \in [LogName -> Seq(Entries)]
      /\ Told(ShownAs(ws, line, nick), Logged(names, entry))
  BY <1>1, BothTold
<1>3. ScreenOK(screen') /\ entries' \in [LogName -> Seq(Entries)] /\ Told(screen', entries')
  BY <1>2
<1>4. events' \in Nat
  BY <1>1 DEF LogsTypeOK
<1> QED
  BY <1>3, <1>4 DEF LInv, LogsTypeOK

\* The words of an entry are a sequence.
LEMMA Sequences ==
  ASSUME NEW S, NEW a \in S, NEW b \in S, NEW c \in S, NEW d \in S
  PROVE  <<a>> \in Seq(S) /\ <<a, b>> \in Seq(S) /\ <<a, b, c, d>> \in Seq(S)
OBVIOUS

\* An entry has its type.
LEMMA EntryTyped ==
  ASSUME LogsTypeOK, NEW verb \in Verb, NEW words \in Seq(Name \cup Speaker \cup Change),
         NEW text \in Said
  PROVE  Entry(verb, words, text) \in Entries /\ Entry(verb, words, text).stamp = events + 1
BY DEF Entry, Entries, LogsTypeOK

\* A message and its entry have their types.
LEMMA MessageTyped ==
  ASSUME LogsTypeOK, NEW kind \in {"msg", "notice"}, NEW who \in Name,
         NEW hats \in Hat, NEW where \in Name, NEW text \in Said
  PROVE  LET line == MessageLine(kind, who, hats, where, text)
         IN /\ line \in LineRecord
            /\ MessageEntry(line) \in Entries
            /\ MessageEntry(line).stamp = events + 1
<1> DEFINE line == MessageLine(kind, who, hats, where, text)
<1>1. line \in [kind : {"msg", "notice"}, who : Name, hats : Hat, where : Name, text : Said]
  BY DEF MessageLine, Name
<1>2. line \in LineRecord
  BY <1>1 DEF LineRecord
<1>3. Trimmed(line.text) \in Said
  BY <1>1 DEF Trimmed, Said
<1>4. [name |-> line.who, hats |-> HatString(line)] \in Speaker /\ line.kind \in Verb
  <2>1. HatString(line) \in Hat /\ line.who \in Name
    BY <1>1 DEF HatString, Hat
  <2>2. [name |-> line.who, hats |-> HatString(line)] \in Speaker
    BY <2>1 DEF Speaker
  <2>3. line.kind \in Verb
    BY <1>1 DEF Verb
  <2> QED
    BY <2>2, <2>3
<1>5. NickOf(Me) \in Name
  BY PeopleAssumption DEF NickOf, Name, LogsTypeOK, PeopleOK
<1> HIDE DEF line
<1> DEFINE speaker == [name |-> line.who, hats |-> HatString(line)]
           words == <<speaker, NickOf(Me)>>
<1>6. words \in Seq(Name \cup Speaker \cup Change)
  <2> DEFINE Word == Name \cup Speaker \cup Change
  <2>1. speaker \in Word /\ NickOf(Me) \in Word
    BY <1>4, <1>5
  <2> HIDE DEF Word, speaker
  <2>2. words \in Seq(Word)
    BY <2>1, Sequences
  <2> QED
    BY <2>2 DEF Word
<1> HIDE DEF words
<1>7. Entry(line.kind, words, Trimmed(line.text)) \in Entries
  BY <1>3, <1>4, <1>6, EntryTyped
<1>8. MessageEntry(line) \in Entries
  BY <1>7 DEF MessageEntry, Entries, Entry, words
<1>9. MessageEntry(line).stamp = events + 1
  BY DEF MessageEntry, Entry
<1> QED
  BY <1>2, <1>8, <1>9 DEF line

\* A plain message comes back from its log when it is drawn with its hats there,
\* or when it has none.
LEMMA MessageBack ==
  ASSUME NEW kind \in {"msg", "notice"}, NEW who, NEW hats, NEW where, NEW text \in Said,
         NEW under, text.form = "plain",
         where = Channel => under = Channel, under = Channel => where = Channel
  PROVE  Drawn(GetLine(under, MessageEntry(MessageLine(kind, who, hats, where, text))))
           = Drawn(MessageLine(kind, who, hats, where, text))
<1> DEFINE line == MessageLine(kind, who, hats, where, text)
           entry == MessageEntry(line)
<1>1. line.kind = kind /\ line.who = who /\ line.hats = hats /\ line.where = where /\ line.text = text
  BY DEF MessageLine
<1>2. ~IsAction(text) /\ Trimmed(text) = text
  BY DEF IsAction, Trimmed
<1>3. /\ entry.verb = kind /\ entry.sign = ":" /\ entry.text = text
      /\ entry.words[1] = [name |-> who, hats |-> HatString(line)]
  BY <1>1, <1>2 DEF MessageEntry, Entry
<1> HIDE DEF entry
<1> DEFINE back == MessageLine(kind, who, HatString(line), under, text)
<1>4. GetLine(under, entry) = back
  <2>1. GetLine(under, entry) = Separated(entry.verb, entry.words[1], under, TextOf(entry))
    BY <1>3 DEF GetLine
  <2>2. TextOf(entry) = text
    BY <1>3 DEF TextOf
  <2> QED
    BY <1>3, <2>1, <2>2 DEF Separated
<1>5. back.kind = kind /\ back.who = who /\ back.hats = HatString(line) /\ back.where = under
      /\ back.text = text
  BY DEF MessageLine
<1> HIDE DEF back, line
<1>6. HatString(back) = HatString(line)
  BY <1>1, <1>5 DEF HatString
<1>7. Drawn(back) = <<FormatKey(back), back.who, HatString(back), back.text>>
  BY <1>5, <1>2 DEF Drawn, DrawnMessage
<1>8. Drawn(line) = <<FormatKey(line), line.who, HatString(line), line.text>>
  BY <1>1, <1>2 DEF Drawn, DrawnMessage
<1>9. FormatKey(back) = FormatKey(line)
  BY <1>1, <1>5 DEF FormatKey
<1> QED
  BY <1>1, <1>4, <1>5, <1>6, <1>7, <1>8, <1>9 DEF line, entry

\* What names, hats and texts are.
LEMMA Given ==
  ASSUME LogsTypeOK
  PROVE  /\ \A u \in User : NickOf(u) \in Nick /\ Hats(u) \in Hat
         /\ \A body \in Body : Plain(body) \in Said /\ Plain(body).form = "plain"
         /\ Nothing \in Said
         /\ Text \subseteq Said
         /\ Nick \subseteq LogName /\ Channel \in LogName /\ Dollar \in LogName
         /\ Nick \subseteq Name /\ Server \in Name /\ NoOne \in Name /\ Channel \in Name
         /\ User \subseteq Window /\ Channel \in Window /\ Status \in Window /\ Open \subseteq Window
         /\ people.nick \in [User -> Nick]
<1>1. \A u \in User : NickOf(u) \in Nick /\ Hats(u) \in Hat
  BY DEF LogsTypeOK, PeopleOK, NickOf, Hats, Hat
<1>2. \A body \in Body : Plain(body) \in Said /\ Plain(body).form = "plain"
  BY DEF Plain, Said
<1>3. Nothing \in Said
  BY DEF Nothing, Plain, Said
<1>4. Text \subseteq Said
  BY DEF Text, Said
<1>5. Nick \subseteq LogName /\ Channel \in LogName /\ Dollar \in LogName
  BY DEF LogName
<1>6. Nick \subseteq Name /\ Server \in Name /\ NoOne \in Name /\ Channel \in Name
  BY DEF Name
<1>7. User \subseteq Window /\ Channel \in Window /\ Status \in Window /\ Open \subseteq Window
  BY DEF Window, LogsTypeOK, ScreenOK, Open
<1>8. people.nick \in [User -> Nick]
  BY DEF LogsTypeOK, PeopleOK
<1> QED
  BY <1>1, <1>2, <1>3, <1>4, <1>5, <1>6, <1>7, <1>8

\* The log `name` is that of the window, when it is one of a conversation.
Meant(w, who, where, name) ==
  \/ w = Status \/ who = Server
  \/ /\ where = Channel <=> w = Channel
     /\ name = IF w \in User THEN who ELSE w

\* A message that is to come back is plain, and the log of the window it was
\* shown in gives it back.
LEMMA RecordBack ==
  ASSUME LogsTypeOK, NEW w \in Window, w # Status, NEW kind \in {"msg", "notice"}, NEW who,
         NEW hats, NEW where, NEW text \in Said, NEW name,
         Meant(w, who, where, name),
         Restorable(w, Made(w, MessageLine(kind, who, hats, where, text), people.nick))
  PROVE  /\ Under(w, people.nick) = name
         /\ Drawn(GetLine(Under(w, people.nick),
                          MessageEntry(MessageLine(kind, who, hats, where, text))))
              = Drawn(MessageLine(kind, who, hats, where, text))
<1> DEFINE line == MessageLine(kind, who, hats, where, text)
           under == Under(w, people.nick)
<1>1. line.kind = kind /\ line.who = who /\ line.text = text
  BY DEF MessageLine
<1>2. /\ text.form = "plain" /\ who # Server
      /\ w \in User => who = under
  BY <1>1 DEF Restorable, Made
<1>3. under = name /\ (where = Channel <=> w = Channel)
  BY <1>2 DEF Under, Meant
<1>4. under = Channel <=> w = Channel
  <2>1. w \in User => people.nick[w] \in Nick /\ w # Channel
    BY Given, PeopleAssumption DEF NickOf
  <2>2. w \notin User => w = Channel
    BY DEF Window
  <2> QED
    BY <2>1, <2>2, PeopleAssumption DEF Under
<1>5. (where = Channel => under = Channel) /\ (under = Channel => where = Channel)
  BY <1>3, <1>4
<1> HIDE DEF under
<1>6. Drawn(GetLine(under, MessageEntry(line))) = Drawn(line)
  BY <1>2, <1>5, MessageBack
<1> QED
  BY <1>3, <1>6 DEF under

\* A message is shown in one window and logged under one name.  If that window is
\* of a conversation and the message is to come back, it is plain, and the name is
\* that of the window.
LEMMA RecordKept ==
  ASSUME LInv, events' = events + 1, Me \in people.online,
         NEW w \in Window, NEW kind \in {"msg", "notice"}, NEW who \in Name,
         NEW hats \in Hat, NEW where \in Name, NEW text \in Said, NEW name \in LogName,
         Meant(w, who, where, name),
         Record({w}, MessageLine(kind, who, hats, where, text), name)
  PROVE  LInv'
<1> DEFINE line == MessageLine(kind, who, hats, where, text)
           entry == MessageEntry(line)
           nick == people.nick
<1>1. LogsTypeOK /\ Ended
  BY DEF LInv
<1>2. line \in LineRecord /\ entry \in Entries /\ entry.stamp = events + 1
  BY <1>1, MessageTyped
<1>3. screen' = ShownAs({w}, line, nick) /\ entries' = Logged({name}, entry)
      /\ streams' = streams \cup {name} /\ people' = people
  BY DEF Record, Shows
<1>4. PeopleOK(people') /\ streams' \subseteq LogName /\ Ended'
  BY <1>1, <1>3 DEF LogsTypeOK, Ended
<1>5. ASSUME w # Status, Restorable(w, Made(w, line, nick))
      PROVE  /\ Under(w, nick) = name
             /\ Drawn(GetLine(Under(w, nick), entry)) = Drawn(line)
  BY <1>1, <1>5, RecordBack
<1>6. nick \in [User -> Nick]
  BY <1>1, Given
<1>7. {w} \in SUBSET Window /\ {name} \in SUBSET LogName
  OBVIOUS
<1> HIDE DEF line, entry, nick
<1> DEFINE ws == {w}
           names == {name}
<1>8. \A x \in ws \ {Status} : Restorable(x, Made(x, line, nick)) =>
        /\ Under(x, nick) \in names
        /\ Drawn(GetLine(Under(x, nick), entry)) = Drawn(line)
  BY <1>5
<1> HIDE DEF ws, names
<1>9. ws \in SUBSET Window /\ names \in SUBSET LogName /\ screen' = ShownAs(ws, line, nick)
      /\ entries' = Logged(names, entry)
  BY <1>3, <1>7 DEF ws, names
<1> QED
  BY <1>2, <1>4, <1>6, <1>8, <1>9, BothKept

\* Messages.
LEMMA MessageKept ==
  ASSUME LInv, events' = events + 1, Message
  PROVE  LInv'
<1>1. LogsTypeOK /\ people.room \subseteq people.online
  BY DEF LInv, LogsTypeOK, PeopleOK
<1>2. ASSUME NEW u \in User, NEW kind \in {"msg", "notice"}, NEW text \in Said,
             ChannelMessage(u, kind, text)
      PROVE  LInv'
  <2>1. NickOf(u) \in Name /\ Hats(u) \in Hat /\ Channel \in Name /\ Channel \in LogName
        /\ Channel \in Window
    BY <1>1, Given
  <2>2. Me \in people.online
    BY <1>1, <1>2 DEF ChannelMessage
  <2>3. Channel \notin User
    BY PeopleAssumption
  <2>5. Meant(Channel, NickOf(u), Channel, Channel)
    BY <2>3 DEF Meant
  <2>4. Record({Channel}, MessageLine(kind, NickOf(u), Hats(u), Channel, text), Channel)
    BY <1>2 DEF ChannelMessage
  <2> QED
    BY <2>1, <2>2, <2>4, <2>5, RecordKept
<1>3. ASSUME NEW u \in User, NEW v \in User, NEW kind \in {"msg", "notice"}, NEW text \in Said,
             NEW inStatus \in BOOLEAN, PrivateMessage(u, v, kind, text, inStatus)
      PROVE  LInv'
  <2> DEFINE w == IF u = Me THEN v ELSE IF kind = "notice" /\ inStatus THEN Status ELSE u
  <2>1. NickOf(u) \in Name /\ NickOf(v) \in Nick /\ NickOf(v) \in Name /\ NickOf(u) \in LogName
        /\ w \in Window
    BY <1>1, Given
  <2>2. Me \in people.online
    BY <1>3 DEF PrivateMessage, Present
  <2>3. w = Status \/ (w \in User /\ w # Channel /\ NickOf(v) # Channel)
    BY <2>1, PeopleAssumption
  <2>5. Meant(w, NickOf(u), NickOf(v), NickOf(u))
    BY <2>3 DEF Meant
  <2>6. "" \in Hat
    BY DEF Hat
  <2>4. Record({w}, MessageLine(kind, NickOf(u), "", NickOf(v), text), NickOf(u))
    BY <1>3 DEF PrivateMessage
  <2> HIDE DEF w
  <2> QED
    BY <2>1, <2>2, <2>4, <2>5, <2>6, RecordKept
<1>4. ASSUME NEW w \in Open, NEW body \in Body, ServerNotice(w, body)
      PROVE  LInv'
  <2>1. w \in Window /\ Server \in Name /\ Plain(body) \in Said /\ Dollar \in LogName /\ NoOne \in Name
    BY <1>1, Given
  <2>2. Me \in people.online
    BY <1>4 DEF ServerNotice
  <2>4. Meant(w, Server, NoOne, Dollar) /\ "" \in Hat
    BY DEF Meant, Hat
  <2>3. Record({w}, MessageLine("notice", Server, "", NoOne, Plain(body)), Dollar)
    BY <1>4 DEF ServerNotice
  <2> QED
    BY <2>1, <2>2, <2>3, <2>4, RecordKept
<1>5. ASSUME NEW u \in User, NEW body \in Body, VersionRequested(u, body)
      PROVE  LInv'
  <2>1. [form |-> "ctcp", body |-> body] \in Said
    BY DEF Said
  <2>2. PrivateMessage(u, Me, "msg", [form |-> "ctcp", body |-> body], FALSE)
    BY <1>5 DEF VersionRequested
  <2> QED
    BY <2>1, <2>2, <1>3, PeopleAssumption
<1>6. Text \subseteq Said
  BY <1>1, Given
<1> QED
  BY <1>2, <1>3, <1>4, <1>5, <1>6 DEF Message

\* What is shown in the channel if it is open, and logged there always.
LEMMA ChannelKept ==
  ASSUME LInv, events' = events + 1, PeopleOK(people'), streams' \subseteq LogName, Ended',
         NEW ws \in SUBSET {Channel}, NEW line \in LineRecord, NEW entry \in Entries,
         entry.stamp = events + 1,
         Restorable(Channel, Made(Channel, line, people.nick)) =>
           Drawn(GetLine(Channel, entry)) = Drawn(line),
         screen' = Shows(ws, line), entries' = Logged({Channel}, entry)
  PROVE  LInv'
<1> DEFINE nick == people.nick
           names == {Channel}
<1>1. LogsTypeOK
  BY DEF LInv
<1>2. nick \in [User -> Nick] /\ names \in SUBSET LogName /\ ws \in SUBSET Window
  BY <1>1, Given
<1>3. \A w \in ws : w = Channel /\ Under(w, nick) = Channel
  BY PeopleAssumption DEF Under
<1>4. screen' = ShownAs(ws, line, nick)
  BY DEF Shows
<1> HIDE DEF nick
<1>5. \A w \in ws \ {Status} : Restorable(w, Made(w, line, nick)) =>
        /\ Under(w, nick) \in names
        /\ Drawn(GetLine(Under(w, nick), entry)) = Drawn(line)
  BY <1>3 DEF nick
<1> HIDE DEF names
<1>6. entries' = Logged(names, entry)
  BY DEF names
<1> QED
  BY <1>2, <1>4, <1>5, <1>6, BothKept

\* The entry of a verb and a few names has its type.
LEMMA NamesTyped ==
  ASSUME LogsTypeOK, NEW verb \in Verb, NEW a \in Name \cup Change, NEW b \in Name \cup Change,
         NEW c \in Name \cup Change, NEW d \in Name \cup Change, NEW text \in Said
  PROVE  /\ Entry(verb, <<>>, text) \in Entries
         /\ Entry(verb, <<a>>, text) \in Entries
         /\ Entry(verb, <<a, b>>, text) \in Entries
         /\ Entry(verb, <<a, b, c, d>>, text) \in Entries
<1> DEFINE Word == Name \cup Speaker \cup Change
<1>1. a \in Word /\ b \in Word /\ c \in Word /\ d \in Word
  OBVIOUS
<1>2. \A words \in Seq(Word) : Entry(verb, words, text) \in Entries
  BY EntryTyped
<1> HIDE DEF Word
<1>3. /\ <<a>> \in Seq(Word) /\ <<a, b>> \in Seq(Word) /\ <<>> \in Seq(Word)
      /\ <<a, b, c, d>> \in Seq(Word)
  BY <1>1, Sequences
<1> QED
  BY <1>2, <1>3

\* What the lines of a conversation come back as.
LEMMA JoinBack ==
  ASSUME LogsTypeOK, NEW who \in Name, NEW under
  PROVE  LET line == JoinLine(who)
             entry == Entry("join", <<who>>, Nothing)
         IN line \in LineRecord /\ entry \in Entries /\ Drawn(GetLine(under, entry)) = Drawn(line)
<1>1. JoinLine(who) \in LineRecord
  BY DEF JoinLine, LineRecord
<1>2. "join" \in Verb /\ Nothing \in Said
  BY Given DEF Verb
<1>3. Entry("join", <<who>>, Nothing) \in Entries
  BY <1>2, NamesTyped
<1>4. GetLine(under, Entry("join", <<who>>, Nothing)) = JoinLine(who)
  BY DEF GetLine, Entry
<1> QED
  BY <1>1, <1>3, <1>4

\* A line of PartEvent is drawn from its entry in the log as it was.
LEMMA PartBack ==
  ASSUME LogsTypeOK, NEW who \in Name, NEW text \in Said, NEW under
  PROVE  LET line == PartLine(who, text)
             entry == Entry("part", <<who>>, text)
         IN line \in LineRecord /\ entry \in Entries /\ Drawn(GetLine(under, entry)) = Drawn(line)
<1>1. PartLine(who, text) \in LineRecord
  BY DEF PartLine, LineRecord
<1>2. "part" \in Verb
  BY DEF Verb
<1>3. Entry("part", <<who>>, text) \in Entries
  BY <1>2, NamesTyped
<1>4. GetLine(under, Entry("part", <<who>>, text)) = PartLine(who, text)
  BY DEF GetLine, Entry
<1> QED
  BY <1>1, <1>3, <1>4

\* So is one of QuitEvent.
LEMMA QuitBack ==
  ASSUME LogsTypeOK, NEW who \in Name, NEW text \in Said, NEW under
  PROVE  LET line == QuitLine(who, text)
             entry == Entry("quit", <<who>>, text)
         IN line \in LineRecord /\ entry \in Entries /\ Drawn(GetLine(under, entry)) = Drawn(line)
<1>1. QuitLine(who, text) \in LineRecord
  BY DEF QuitLine, LineRecord
<1>2. "quit" \in Verb
  BY DEF Verb
<1>3. Entry("quit", <<who>>, text) \in Entries
  BY <1>2, NamesTyped
<1>4. GetLine(under, Entry("quit", <<who>>, text)) = QuitLine(who, text)
  BY DEF GetLine, Entry
<1> QED
  BY <1>1, <1>3, <1>4

\* So is one of NickEvent.
LEMMA NickBack ==
  ASSUME LogsTypeOK, NEW old \in Name, NEW new \in Name, NEW under
  PROVE  LET line == NickChangeLine(old, new)
             entry == Entry("nick", <<old, new>>, Nothing)
         IN line \in LineRecord /\ entry \in Entries /\ Drawn(GetLine(under, entry)) = Drawn(line)
<1>1. NickChangeLine(old, new) \in LineRecord
  BY DEF NickChangeLine, LineRecord
<1>2. "nick" \in Verb /\ Nothing \in Said
  BY Given DEF Verb
<1>3. Entry("nick", <<old, new>>, Nothing) \in Entries
  BY <1>2, NamesTyped
<1>4. GetLine(under, Entry("nick", <<old, new>>, Nothing)) = NickChangeLine(old, new)
  BY DEF GetLine, Entry
<1> QED
  BY <1>1, <1>3, <1>4

\* A kick comes back as that of somebody else.
LEMMA KickBack ==
  ASSUME LogsTypeOK, NEW who \in Name, NEW whom \in Name, NEW text \in Said, NEW isSelf \in BOOLEAN,
         NEW under
  PROVE  LET line == KickLine(who, whom, text, isSelf)
             entry == Entry("kick", <<who, whom>>, text)
         IN /\ line \in LineRecord /\ entry \in Entries
            /\ ~isSelf => Drawn(GetLine(under, entry)) = Drawn(line)
<1>1. KickLine(who, whom, text, isSelf) \in LineRecord
  BY DEF KickLine, LineRecord
<1>2. "kick" \in Verb
  BY DEF Verb
<1>3. Entry("kick", <<who, whom>>, text) \in Entries
  BY <1>2, NamesTyped
<1>4. GetLine(under, Entry("kick", <<who, whom>>, text)) = KickLine(who, whom, text, FALSE)
  BY DEF GetLine, Entry
<1>5. ~isSelf => KickLine(who, whom, text, isSelf) = KickLine(who, whom, text, FALSE)
  BY DEF KickLine
<1> QED
  BY <1>1, <1>3, <1>4, <1>5

\* A mode comes back with the name of the log as the place.
LEMMA ModeBack ==
  ASSUME LogsTypeOK, NEW type \in {"channel", "self"}, NEW where \in Name, NEW who \in Name,
         NEW self \in Name, NEW change \in Change, NEW extra \in Name
  PROVE  LET line == ModeLine([type |-> type, change |-> change, extra |-> extra], where, who, self)
             entry == Entry("mode", <<who, self, change, extra>>, Nothing)
         IN /\ line \in LineRecord /\ entry \in Entries
            /\ type = "channel" => Drawn(GetLine(where, entry)) = Drawn(line)
<1> DEFINE line == ModeLine([type |-> type, change |-> change, extra |-> extra], where, who, self)
           entry == Entry("mode", <<who, self, change, extra>>, Nothing)
<1>1. line \in LineRecord
  BY DEF ModeLine, LineRecord
<1>2. "mode" \in Verb /\ Nothing \in Said
  BY Given DEF Verb
<1>3. entry \in Entries
  BY <1>2, NamesTyped
<1>4. GetLine(where, entry)
        = ModeLine([type |-> "channel", change |-> change, extra |-> extra], where, who, self)
  BY DEF GetLine, Entry
<1> QED
  BY <1>1, <1>3, <1>4

\* Topics have their types.
LEMMA TopicTyped ==
  ASSUME LogsTypeOK, NEW who \in Name, NEW text \in Said
  PROVE  /\ TopicLine(who, text) \in LineRecord
         /\ Entry("topic_set", <<who>>, text) \in Entries
         /\ Entry("topic_is", <<>>, text) \in Entries
<1>1. TopicLine(who, text) \in LineRecord
  BY DEF TopicLine, LineRecord
<1>2. "topic_set" \in Verb /\ "topic_is" \in Verb
  BY DEF Verb
<1> QED
  BY <1>1, <1>2, NamesTyped

\* Windows that are closed take their lines with them.
LEMMA OnlyLogged ==
  ASSUME LInv, events' = events + 1, PeopleOK(people'), streams' \subseteq LogName, Ended',
         NEW S \in SUBSET Open, Status \in S, NEW names \in SUBSET LogName, NEW entry \in Entries,
         screen' = Restrict(screen, S), entries' = Logged(names, entry)
  PROVE  LInv'
<1> DEFINE s == Restrict(screen, S)
           l == Logged(names, entry)
<1>1. LogsTypeOK /\ Told(screen, entries) /\ ScreenOK(screen) /\ entries \in [LogName -> Seq(Entries)]
  BY DEF LInv, LogsTypeOK
<1>2. s = [w \in S |-> screen[w]]
  BY DEF Restrict
<1>3. DOMAIN s = S /\ \A w \in S : s[w] = screen[w]
  BY <1>2
<1>4. /\ l \in [LogName -> Seq(Entries)]
      /\ \A f \in LogName : \A j \in DOMAIN entries[f] : j \in DOMAIN l[f] /\ l[f][j] = entries[f][j]
  BY <1>1, LoggedBehind
<1> HIDE DEF s, l
<1>5. ScreenOK(s)
  BY <1>1, <1>2, <1>3 DEF ScreenOK, Open
<1>6. ASSUME NEW w \in DOMAIN s \ {Status}, NEW i \in DOMAIN s[w]
      PROVE  InLog(w, s[w][i], l)
  <2>1. w \in Open /\ w # Status /\ i \in DOMAIN screen[w] /\ s[w][i] = screen[w][i]
    BY <1>3, <1>6
  <2>2. InLog(w, screen[w][i], entries)
    BY <1>1, <2>1 DEF Told, Open
  <2>3. screen[w][i].under \in LogName
    <3>1. screen[w] \in Seq(ShownLine(w))
      BY <1>1, <2>1 DEF ScreenOK, Open
    <3>2. screen[w][i] \in ShownLine(w)
      BY <3>1, <2>1
    <3> QED
      BY <2>1, <3>2 DEF ShownLine
  <2> QED
    BY <1>4, <2>1, <2>2, <2>3, StaysInLog
<1>7. Told(s, l)
  BY <1>6 DEF Told
<1>8. events' \in Nat
  BY <1>1 DEF LogsTypeOK
<1>9. screen' = s /\ entries' = l
  BY DEF s, l
<1> QED
  BY <1>4, <1>5, <1>7, <1>8, <1>9 DEF LInv, LogsTypeOK

\* All windows stay, and no log changes.
LEMMA Unchanged ==
  ASSUME LogsTypeOK, NEW entry
  PROVE  /\ Restrict(screen, Open) = screen /\ Open \in SUBSET Open /\ Status \in Open
         /\ Logged({}, entry) = entries
<1>1. Restrict(screen, Open) = screen /\ Status \in Open
  BY DEF LogsTypeOK, ScreenOK, Restrict, Open
<1>2. Logged({}, entry) = entries
  BY DEF LogsTypeOK, Logged
<1> QED
  BY <1>1, <1>2

\* Who leaves, comes, or has other hats.
LEMMA PeopleKept ==
  ASSUME LInv, Me \in people.online, NEW room \in SUBSET people.online, NEW hats \in SUBSET User,
         people' = [people EXCEPT !.room = room, !.hats = hats]
  PROVE  PeopleOK(people') /\ Ended'
BY DEF LInv, LogsTypeOK, PeopleOK, Ended

\* A topic is not to come back.
LEMMA TopicShown ==
  ASSUME LInv, events' = events + 1, PeopleOK(people'), streams' \subseteq LogName, Ended',
         NEW ws \in SUBSET Window, NEW who \in Name, NEW text \in Said,
         NEW names \in SUBSET LogName, NEW entry \in Entries, entry.stamp = events + 1,
         screen' = Shows(ws, TopicLine(who, text)), entries' = Logged(names, entry)
  PROVE  LInv'
<1> DEFINE line == TopicLine(who, text)
           nick == people.nick
<1>1. LogsTypeOK
  BY DEF LInv
<1>2. line \in LineRecord /\ nick \in [User -> Nick]
  BY <1>1, TopicTyped, Given
<1>3. \A w \in ws \ {Status} : ~Restorable(w, Made(w, line, nick))
  BY DEF Restorable, Made, TopicLine
<1>4. screen' = ShownAs(ws, line, nick)
  BY DEF Shows
<1> HIDE DEF line, nick
<1>5. \A w \in ws \ {Status} : Restorable(w, Made(w, line, nick)) =>
        /\ Under(w, nick) \in names
        /\ Drawn(GetLine(Under(w, nick), entry)) = Drawn(line)
  BY <1>3
<1> QED
  BY <1>2, <1>4, <1>5, BothKept

\* What happens in the channel.
LEMMA InChannelKept ==
  ASSUME LInv, events' = events + 1, InChannel
  PROVE  LInv'
<1>1. /\ LogsTypeOK /\ PeopleOK(people) /\ people.room \subseteq people.online
      /\ people.online \subseteq User /\ people.hats \subseteq User /\ streams \subseteq LogName
      /\ entries \in [LogName -> Seq(Entries)] /\ Channel \in LogName /\ Status \in Window
      /\ people.room \subseteq User
  BY Given DEF LInv, LogsTypeOK, PeopleOK
<1>2. ({Channel} \cap Open) \in SUBSET {Channel} /\ {Channel} \in SUBSET {Channel}
      /\ {Channel} \in SUBSET LogName /\ {} \in SUBSET LogName
  BY <1>1
<1>3. ASSUME NEW u \in User, NEW v \in User, NEW reason \in Body, Kick(u, v, reason)
      PROVE  LInv'
  <2> DEFINE line == KickLine(NickOf(u), NickOf(v), Plain(reason), v = Me)
             entry == Entry("kick", <<NickOf(u), NickOf(v)>>, Plain(reason))
  <2>1. PeopleOK(people') /\ Ended'
    <3>1. Me \in people.online /\ people.room \ {v} \in SUBSET people.online
          /\ people.hats \ {v} \in SUBSET User
      BY <1>1, <1>3 DEF Kick
    <3>2. people' = [people EXCEPT !.room = people.room \ {v}, !.hats = people.hats \ {v}]
      BY <1>3 DEF Kick
    <3> QED
      BY <3>1, <3>2, PeopleKept
  <2>2. /\ line \in LineRecord /\ entry \in Entries
        /\ v # Me => Drawn(GetLine(Channel, entry)) = Drawn(line)
    <3>1. NickOf(u) \in Name /\ NickOf(v) \in Name /\ Plain(reason) \in Said /\ (v = Me) \in BOOLEAN
      BY <1>1, Given
    <3> QED
      BY <1>1, <3>1, KickBack
  <2>3. entry.stamp = events + 1
    BY DEF Entry
  <2>5. Restorable(Channel, Made(Channel, line, people.nick)) => Drawn(GetLine(Channel, entry)) = Drawn(line)
    <3>1. CASE v = Me
      BY <3>1 DEF Restorable, Made, KickLine
    <3>2. CASE v # Me
      BY <3>2, <2>2
    <3> QED
      BY <3>1, <3>2
  <2>6. screen' = Shows({Channel} \cap Open, line) /\ entries' = Logged({Channel}, entry)
        /\ streams' = streams \cup {Channel}
    BY <1>3 DEF Kick, Happens
  <2>7. streams' \subseteq LogName
    BY <1>1, <2>6
  <2> HIDE DEF line, entry
  <2> QED
    BY <1>2, <2>1, <2>2, <2>3, <2>5, <2>6, <2>7, ChannelKept
<1>4. ASSUME NEW u \in User, NEW v \in User, NEW change \in {"+o", "-o", "+m"}, Mode(u, change, v)
      PROVE  LInv'
  <2> DEFINE extra == IF change = "+m" THEN NoOne ELSE NickOf(v)
             set == [type |-> "channel", change |-> change, extra |-> extra]
             line == ModeLine(set, Channel, NickOf(u), NickOf(Me))
             entry == Entry("mode", <<NickOf(u), NickOf(Me), change, extra>>, Nothing)
  <2>1. PeopleOK(people') /\ Ended'
    <3> DEFINE hats == IF change = "+o" THEN people.hats \cup {v}
                       ELSE IF change = "-o" THEN people.hats \ {v} ELSE people.hats
    <3>1. Me \in people.online /\ people.room \in SUBSET people.online /\ hats \in SUBSET User
      BY <1>1, <1>4 DEF Mode
    <3>2. people' = [people EXCEPT !.hats = hats]
      BY <1>4 DEF Mode
    <3> HIDE DEF hats
    <3>3. people' = [people EXCEPT !.room = people.room, !.hats = hats]
      BY <1>1, <3>2 DEF PeopleOK
    <3> QED
      BY <3>1, <3>3, PeopleKept
  <2>2. line \in LineRecord /\ entry \in Entries /\ Drawn(GetLine(Channel, entry)) = Drawn(line)
    <3>1. NickOf(u) \in Name /\ NickOf(Me) \in Name /\ extra \in Name /\ change \in Change
          /\ Channel \in Name
      BY <1>1, Given, PeopleAssumption DEF Change
    <3> HIDE DEF extra
    <3> QED
      BY <1>1, <3>1, ModeBack
  <2>3. entry.stamp = events + 1
    BY DEF Entry
  <2>4. screen' = Shows({Channel} \cap Open, line) /\ entries' = Logged({Channel}, entry)
        /\ streams' = streams \cup {Channel}
    BY <1>4 DEF Mode, Happens
  <2>5. streams' \subseteq LogName
    BY <1>1, <2>4
  <2> HIDE DEF line, entry
  <2> QED
    BY <1>2, <2>1, <2>2, <2>3, <2>4, <2>5, ChannelKept
<1>5. ASSUME NEW u \in User, Join(u)
      PROVE  LInv'
  <2> DEFINE line == JoinLine(NickOf(u))
             entry == Entry("join", <<NickOf(u)>>, Nothing)
  <2>1. PeopleOK(people') /\ Ended'
    <3>1. Me \in people.online /\ people.room \cup {u} \in SUBSET people.online
      BY <1>1, <1>5 DEF Join, Present
    <3>2. people' = [people EXCEPT !.room = people.room \cup {u}]
      BY <1>5 DEF Join
    <3>3. people' = [people EXCEPT !.room = people.room \cup {u}, !.hats = people.hats]
      BY <1>1, <3>2 DEF PeopleOK
    <3> QED
      BY <1>1, <3>1, <3>3, PeopleKept
  <2>2. line \in LineRecord /\ entry \in Entries /\ Drawn(GetLine(Channel, entry)) = Drawn(line)
    <3>1. NickOf(u) \in Name
      BY <1>1, Given
    <3> QED
      BY <1>1, <3>1, JoinBack
  <2>3. entry.stamp = events + 1
    BY DEF Entry
  <2>4. screen' = Shows({Channel}, line) /\ entries' = Logged({Channel}, entry)
        /\ streams' = streams \cup {Channel}
    BY <1>5 DEF Join
  <2>5. streams' \subseteq LogName
    BY <1>1, <2>4
  <2> HIDE DEF line, entry
  <2> QED
    BY <1>2, <2>1, <2>2, <2>3, <2>4, <2>5, ChannelKept
<1>6. ASSUME NEW u \in User, NEW body \in Body, NEW kept \in BOOLEAN, NEW called \in BOOLEAN,
             Topic(u, body, kept, called)
      PROVE  LInv'
  <2> DEFINE names == IF called \/ Channel \notin Open THEN {Channel} ELSE {}
             entry == Entry("topic_set", <<NickOf(u)>>, Plain(body))
             ws == {Channel} \cap Open
  <2>1. NickOf(u) \in Name /\ Plain(body) \in Said
    BY <1>1, Given
  <2>2. entry \in Entries /\ entry.stamp = events + 1
    BY <1>1, <2>1, TopicTyped DEF Entry
  <2>3. PeopleOK(people') /\ Ended' /\ streams' \subseteq LogName
    BY <1>1, <1>6 DEF Topic, Ended
  <2>4. entries' = Logged(names, entry)
    BY <1>6 DEF Topic
  <2>5. names \in SUBSET LogName /\ ws \in SUBSET Window
    BY <1>1 DEF Window
  <2>6. kept => screen' = Shows(ws, TopicLine(NickOf(u), Plain(body)))
    BY <1>6 DEF Topic
  <2>7. ~kept => screen' = screen
    BY <1>6 DEF Topic
  <2> HIDE DEF names, entry, ws
  <2>8. CASE kept
    BY <2>1, <2>2, <2>3, <2>4, <2>5, <2>6, <2>8, TopicShown
  <2>9. CASE ~kept
    <3>1. Restrict(screen, Open) = screen /\ Open \in SUBSET Open /\ Status \in Open
      BY <1>1, Unchanged
    <3> QED
      BY <2>2, <2>3, <2>4, <2>5, <2>7, <2>9, <3>1, OnlyLogged
  <2> QED
    BY <2>8, <2>9
<1>7. ASSUME NEW w \in Open, NEW body \in Body, NEW kept \in BOOLEAN, AskTopic(w, body, kept)
      PROVE  LInv'
  <2> DEFINE entry == Entry("topic_is", <<>>, Plain(body))
             ws == {w}
             names == {}
  <2>1. NoOne \in Name /\ Plain(body) \in Said /\ w \in Window
    BY <1>1, Given
  <2>2. entry \in Entries /\ entry.stamp = events + 1
    BY <1>1, <2>1, TopicTyped DEF Entry
  <2>3. PeopleOK(people') /\ Ended' /\ streams' \subseteq LogName
    BY <1>1, <1>7 DEF AskTopic, Ended
  <2>4. Logged({}, entry) = entries
    BY <1>1, Unchanged
  <2>5. entries' = Logged(names, entry)
    BY <1>7, <2>4 DEF AskTopic
  <2>6. names \in SUBSET LogName /\ ws \in SUBSET Window
    BY <2>1
  <2>7. kept => screen' = Shows(ws, TopicLine(NoOne, Plain(body)))
    BY <1>7 DEF AskTopic
  <2>8. ~kept => screen' = screen
    BY <1>7 DEF AskTopic
  <2> HIDE DEF names, entry, ws
  <2>9. CASE kept
    BY <2>1, <2>2, <2>3, <2>5, <2>6, <2>7, <2>9, TopicShown
  <2>10. CASE ~kept
    <3>1. Restrict(screen, Open) = screen /\ Open \in SUBSET Open /\ Status \in Open
      BY <1>1, Unchanged
    <3> QED
      BY <2>2, <2>3, <2>5, <2>6, <2>8, <2>10, <3>1, OnlyLogged
  <2> QED
    BY <2>9, <2>10
<1>8. ASSUME NEW body \in Body, TopicUpdated(body)
      PROVE  LInv'
  <2> DEFINE entry == Entry("topic_is", <<>>, Plain(body))
             names == {Channel}
  <2>1. NoOne \in Name /\ Plain(body) \in Said
    BY <1>1, Given
  <2>2. entry \in Entries /\ entry.stamp = events + 1
    BY <1>1, <2>1, TopicTyped DEF Entry
  <2>3. PeopleOK(people') /\ Ended' /\ streams' \subseteq LogName
    BY <1>1, <1>8 DEF TopicUpdated, Ended
  <2>4. entries' = Logged(names, entry) /\ screen' = screen /\ names \in SUBSET LogName
    BY <1>1, <1>8 DEF TopicUpdated
  <2>5. Restrict(screen, Open) = screen /\ Open \in SUBSET Open /\ Status \in Open
    BY <1>1, Unchanged
  <2> HIDE DEF names, entry
  <2> QED
    BY <2>2, <2>3, <2>4, <2>5, OnlyLogged
<1>9. ASSUME NEW u \in User, NEW reason \in Body, NEW close \in BOOLEAN, NEW forgets \in BOOLEAN,
             Part(u, reason, close, forgets)
      PROVE  LInv'
  <2> DEFINE line == PartLine(NickOf(u), Plain(reason))
             entry == Entry("part", <<NickOf(u)>>, Plain(reason))
             names == {Channel}
             room == IF u = Me /\ forgets THEN {} ELSE people.room \ {u}
  <2>1. PeopleOK(people') /\ Ended'
    <3>1. Me \in people.online /\ room \in SUBSET people.online /\ people.hats \ {u} \in SUBSET User
      BY <1>1, <1>9 DEF Part
    <3>2. people' = [people EXCEPT !.room = room, !.hats = people.hats \ {u}]
      BY <1>9 DEF Part
    <3> HIDE DEF room
    <3> QED
      BY <3>1, <3>2, PeopleKept
  <2>2. line \in LineRecord /\ entry \in Entries /\ Drawn(GetLine(Channel, entry)) = Drawn(line)
    <3>1. NickOf(u) \in Name /\ Plain(reason) \in Said
      BY <1>1, Given
    <3> QED
      BY <1>1, <3>1, PartBack
  <2>3. entry.stamp = events + 1
    BY DEF Entry
  <2>4. streams' \subseteq LogName
    BY <1>1, <1>9 DEF Part, ClosedBehindPart
  <2>5. entries' = Logged(names, entry) /\ names \in SUBSET LogName
    BY <1>1, <1>9 DEF Part
  <2>6. CASE u = Me /\ close
    <3>1. screen' = Restrict(screen, Open \ {Channel})
      BY <1>9, <2>6 DEF Part
    <3>2. Status \in Open \ {Channel} /\ Open \ {Channel} \in SUBSET Open
      BY <1>1, Unchanged, PeopleAssumption
    <3> HIDE DEF line, entry, names
    <3> QED
      BY <2>1, <2>2, <2>3, <2>4, <2>5, <3>1, <3>2, OnlyLogged
  <2>7. CASE ~(u = Me /\ close)
    <3>1. screen' = Shows({Channel} \cap Open, line)
      BY <1>9, <2>7 DEF Part
    <3> HIDE DEF line, entry
    <3> QED
      BY <1>2, <2>1, <2>2, <2>3, <2>4, <2>5, <3>1, ChannelKept
  <2> QED
    BY <2>6, <2>7
<1> QED
  BY <1>3, <1>4, <1>5, <1>6, <1>7, <1>8, <1>9 DEF InChannel

\* The window of the status shows one line more.
LEMMA StatusMore ==
  ASSUME NEW s, NEW logs, ScreenOK(s), Told(s, logs), NEW more \in ShownLine(Status)
  PROVE  LET t == [s EXCEPT ![Status] = Append(@, more)]
         IN ScreenOK(t) /\ Told(t, logs)
<1> DEFINE t == [s EXCEPT ![Status] = Append(@, more)]
<1>1. DOMAIN t = DOMAIN s /\ \A w \in DOMAIN s \ {Status} : t[w] = s[w]
  OBVIOUS
<1>2. t[Status] \in Seq(ShownLine(Status))
  <2>1. s[Status] \in Seq(ShownLine(Status)) /\ Status \in DOMAIN s
    BY DEF ScreenOK
  <2>2. t[Status] = Append(s[Status], more)
    BY <2>1
  <2> HIDE DEF t
  <2> QED
    BY <2>1, <2>2
<1>3. t = [w \in DOMAIN t |-> t[w]]
  OBVIOUS
<1> HIDE DEF t
<1>4. ScreenOK(t)
  BY <1>1, <1>2, <1>3 DEF ScreenOK
<1>5. Told(t, logs)
  BY <1>1 DEF Told
<1> QED
  BY <1>4, <1>5 DEF t

\* The windows and the logs of a user.
LEMMA OfWhom ==
  ASSUME LogsTypeOK, NEW u \in User, NEW name \in Nick, NEW nick \in [User -> Nick], nick[u] = name
  PROVE  /\ WindowsForUser(u) \in SUBSET Window
         /\ NamesFor(u, name) \in SUBSET LogName
         /\ StreamsBehind(u, name) \subseteq LogName
         /\ \A w \in WindowsForUser(u) \ {Status} : Under(w, nick) \in NamesFor(u, name)
<1>1. \A w \in WindowsForUser(u) : w \in Open /\ (w = u \/ w = Channel)
  BY DEF WindowsForUser
<1>2. WindowsForUser(u) \in SUBSET Window
  BY <1>1, Given
<1>3. NamesFor(u, name) \in SUBSET LogName
  BY <1>1, Given DEF NamesFor
<1>4. StreamsBehind(u, name) \subseteq LogName
  BY <1>3 DEF StreamsBehind, LogsTypeOK
<1>5. ASSUME NEW w \in WindowsForUser(u)
      PROVE  Under(w, nick) \in NamesFor(u, name)
  <2>1. (IF w = u THEN name ELSE w) \in NamesFor(u, name)
    BY DEF NamesFor
  <2>2. Under(w, nick) = IF w = u THEN name ELSE w
    BY <1>1, PeopleAssumption DEF Under
  <2> QED
    BY <2>1, <2>2
<1> QED
  BY <1>2, <1>3, <1>4, <1>5

\* A user has another name.
LEMMA NickChangeKept ==
  ASSUME LInv, events' = events + 1, NEW u \in User, NEW name \in Nick, NickChange(u, name)
  PROVE  LInv'
<1>1. LogsTypeOK /\ PeopleOK(people) /\ Told(screen, entries) /\ Ended
  BY DEF LInv, LogsTypeOK
<1> DEFINE line == NickChangeLine(NickOf(u), name)
           entry == Entry("nick", <<NickOf(u), name>>, Nothing)
           ws == WindowsForUser(u)
           names == NamesFor(u, name)
           nick == people'.nick
           told == [line |-> SelfNickChange(name), stamp |-> events + 1, under |-> Status]
           shown == ShownAs(ws, line, nick)
<1>2. /\ nick \in [User -> Nick] /\ nick[u] = name
      /\ PeopleOK(people') /\ Ended' /\ Me \in people.online
  BY <1>1 DEF NickChange, PeopleOK, Ended, Present
<1>3. \A under : /\ line \in LineRecord /\ entry \in Entries
                 /\ Drawn(GetLine(under, entry)) = Drawn(line)
  <2>1. NickOf(u) \in Name /\ name \in Name
    BY <1>1, Given
  <2> QED
    BY <1>1, <2>1, NickBack
<1>4. entry.stamp = events + 1
  BY DEF Entry
<1>5. /\ ws \in SUBSET Window /\ names \in SUBSET LogName
      /\ StreamsBehind(u, name) \subseteq LogName
      /\ \A w \in ws \ {Status} : Under(w, nick) \in names
  <2> HIDE DEF nick
  <2> QED
    BY <1>1, <1>2, OfWhom
<1>6. /\ screen' = IF u = Me THEN [shown EXCEPT ![Status] = Append(@, told)] ELSE shown
      /\ entries' = Logged(names, entry) /\ streams' = StreamsBehind(u, name)
  BY DEF NickChange
<1>7. told \in ShownLine(Status)
  <2>1. SelfNickChange(name) \in LineRecord
    BY Given, <1>1 DEF SelfNickChange, LineRecord
  <2>2. events + 1 \in Nat
    BY <1>1 DEF LogsTypeOK
  <2> QED
    BY <2>1, <2>2 DEF ShownLine
<1> HIDE DEF line, entry, ws, names, nick, told
<1>8. /\ ScreenOK(shown) /\ Logged(names, entry) \in [LogName -> Seq(Entries)]
      /\ Told(shown, Logged(names, entry))
  <2>1. \A w \in ws \ {Status} : Restorable(w, Made(w, line, nick)) =>
          /\ Under(w, nick) \in names
          /\ Drawn(GetLine(Under(w, nick), entry)) = Drawn(line)
    BY <1>3, <1>5
  <2> QED
    BY <1>1, <1>2, <1>3, <1>4, <1>5, <2>1, BothTold
<1> HIDE DEF shown
<1>9. ScreenOK(screen') /\ Told(screen', entries') /\ entries' \in [LogName -> Seq(Entries)]
  <2>1. CASE u = Me
    BY <2>1, <1>6, <1>7, <1>8, StatusMore
  <2>2. CASE u # Me
    BY <2>2, <1>6, <1>8
  <2> QED
    BY <2>1, <2>2
<1>10. events' \in Nat /\ streams' \subseteq LogName
  BY <1>1, <1>5, <1>6 DEF LogsTypeOK
<1> QED
  BY <1>2, <1>9, <1>10 DEF LInv, LogsTypeOK

\* A user goes, we among them while our windows are open.
LEMMA GoneKept ==
  ASSUME LInv, events' = events + 1, NEW u \in User, NEW reason \in Body,
         people' = Gone(u), Ended', streams' \subseteq LogName,
         screen' = Shows(WindowsForUser(u), QuitLine(NickOf(u), Plain(reason))),
         entries' = Logged(NamesFor(u, NickOf(u)), Entry("quit", <<NickOf(u)>>, Plain(reason)))
  PROVE  LInv'
<1>1. LogsTypeOK /\ PeopleOK(people)
  BY DEF LInv, LogsTypeOK
<1> DEFINE line == QuitLine(NickOf(u), Plain(reason))
           entry == Entry("quit", <<NickOf(u)>>, Plain(reason))
           ws == WindowsForUser(u)
           names == NamesFor(u, NickOf(u))
           nick == people.nick
<1>2. PeopleOK(people')
  BY <1>1 DEF PeopleOK, Gone
<1>3. \A under : /\ line \in LineRecord /\ entry \in Entries
                 /\ Drawn(GetLine(under, entry)) = Drawn(line)
  <2>1. NickOf(u) \in Name /\ Plain(reason) \in Said
    BY <1>1, Given
  <2> QED
    BY <1>1, <2>1, QuitBack
<1>4. entry.stamp = events + 1
  BY DEF Entry
<1>5. nick \in [User -> Nick] /\ NickOf(u) \in Nick /\ nick[u] = NickOf(u)
  BY <1>1, Given DEF NickOf
<1>6. /\ ws \in SUBSET Window /\ names \in SUBSET LogName
      /\ \A w \in ws \ {Status} : Under(w, nick) \in names
  BY <1>1, <1>5, OfWhom
<1>7. screen' = ShownAs(ws, line, nick) /\ entries' = Logged(names, entry)
  BY DEF Shows
<1> HIDE DEF line, entry, ws, names, nick
<1> QED
  BY <1>2, <1>3, <1>4, <1>5, <1>6, <1>7, BothKept

\* A window that is opened by a click is empty.
LEMMA ClickKept ==
  ASSUME LInv, events' = events + 1, NEW u \in User, Click(u)
  PROVE  LInv'
<1>1. LogsTypeOK /\ Told(screen, entries) /\ Ended /\ ScreenOK(screen)
  BY DEF LInv, LogsTypeOK
<1>2. u \notin DOMAIN screen /\ people' = people /\ entries' = entries /\ streams' = streams
  BY DEF Click, Open
<1>3. screen' = [w \in DOMAIN screen \cup {u} |-> IF w \in DOMAIN screen THEN screen[w] ELSE <<>>]
  BY <1>2 DEF Click, Open
<1>4. ScreenOK(screen')
  <2>1. DOMAIN screen' = DOMAIN screen \cup {u}
    BY <1>3
  <2>2. \A w \in DOMAIN screen' : screen'[w] \in Seq(ShownLine(w))
    BY <1>1, <1>3 DEF ScreenOK
  <2>3. DOMAIN screen' \subseteq Window /\ Status \in DOMAIN screen'
    BY <1>1, <2>1 DEF ScreenOK, Window
  <2>4. screen' = [w \in DOMAIN screen' |-> screen'[w]]
    BY <1>3
  <2> QED
    BY <2>2, <2>3, <2>4 DEF ScreenOK
<1>5. Told(screen', entries')
  <2>1. ASSUME NEW w \in DOMAIN screen' \ {Status}, NEW i \in DOMAIN screen'[w]
        PROVE  InLog(w, screen'[w][i], entries')
    <3>1. w \in DOMAIN screen /\ screen'[w] = screen[w]
      BY <1>3, <2>1
    <3> QED
      BY <1>1, <1>2, <2>1, <3>1 DEF Told
  <2> QED
    BY <2>1 DEF Told
<1>6. events' \in Nat
  BY <1>1 DEF LogsTypeOK
<1> QED
  BY <1>1, <1>2, <1>4, <1>5, <1>6 DEF LInv, LogsTypeOK, Ended

\* What happens to users.
LEMMA OfUserKept ==
  ASSUME LInv, events' = events + 1, OfUser
  PROVE  LInv'
<1>1. /\ LogsTypeOK /\ PeopleOK(people) /\ Ended /\ streams \subseteq LogName
      /\ Restrict(screen, Open) = screen /\ Status \in Open /\ Me \in User /\ Status \notin User
  BY Unchanged, PeopleAssumption DEF LInv, LogsTypeOK
<1>2. ASSUME NEW u \in User, NEW reason \in Body, Quit(u, reason)
      PROVE  LInv'
  <2>1. people' = Gone(u) /\ streams' = StreamsBehind(u, NickOf(u)) /\ u # Me /\ Me \in people.online
    BY <1>2 DEF Quit, Present
  <2>2. Ended'
    BY <1>1, <2>1 DEF Ended, Gone, PeopleOK
  <2>3. streams' \subseteq LogName
    <3>1. NickOf(u) \in Nick /\ people.nick \in [User -> Nick] /\ people.nick[u] = NickOf(u)
      BY <1>1, Given DEF NickOf
    <3> QED
      BY <1>1, <2>1, <3>1, OfWhom
  <2>4. /\ screen' = Shows(WindowsForUser(u), QuitLine(NickOf(u), Plain(reason)))
        /\ entries' = Logged(NamesFor(u, NickOf(u)), Entry("quit", <<NickOf(u)>>, Plain(reason)))
    BY <1>2 DEF Quit
  <2> QED
    BY <2>1, <2>2, <2>3, <2>4, GoneKept
<1>3. ASSUME NEW u \in User, CloseWindow(u)
      PROVE  LInv'
  <2> DEFINE entry == Entry("topic_is", <<>>, Nothing)
             names == {}
             S == Open \ {u}
  <2>1. NoOne \in Name /\ Nothing \in Said
    BY <1>1, Given
  <2>2. entry \in Entries
    BY <1>1, <2>1, TopicTyped
  <2>3. Logged({}, entry) = entries
    BY <1>1, Unchanged
  <2>4. PeopleOK(people') /\ Ended' /\ streams' \subseteq LogName
    BY <1>1, <1>3 DEF CloseWindow, Ended
  <2>5. /\ screen' = Restrict(screen, S) /\ entries' = Logged(names, entry)
        /\ S \in SUBSET Open /\ Status \in S /\ names \in SUBSET LogName
    BY <1>1, <1>3, <2>3 DEF CloseWindow
  <2> HIDE DEF S, names, entry
  <2> QED
    BY <2>2, <2>4, <2>5, OnlyLogged
<1>4. ASSUME NEW reason \in Body, NEW removed \in BOOLEAN, SelfQuit(reason, removed)
      PROVE  LInv'
  <2>1. people' = Gone(Me) /\ streams' = {}
    BY <1>4 DEF SelfQuit
  <2>2. Ended' /\ streams' \subseteq LogName
    BY <2>1 DEF Ended
  <2>3. CASE ~removed
    <3>1. /\ screen' = Shows(WindowsForUser(Me), QuitLine(NickOf(Me), Plain(reason)))
          /\ entries' = Logged(NamesFor(Me, NickOf(Me)), Entry("quit", <<NickOf(Me)>>, Plain(reason)))
      BY <1>4, <2>3 DEF SelfQuit
    <3> QED
      BY <1>1, <2>1, <2>2, <3>1, GoneKept
  <2>4. CASE removed
    <3> DEFINE entry == Entry("topic_is", <<>>, Nothing)
               names == {}
               S == {Status}
    <3>1. NoOne \in Name /\ Nothing \in Said
      BY <1>1, Given
    <3>2. entry \in Entries
      BY <1>1, <3>1, TopicTyped
    <3>3. Logged({}, entry) = entries
      BY <1>1, Unchanged
    <3>4. PeopleOK(people')
      BY <1>1, <2>1 DEF Gone, PeopleOK
    <3>5. /\ screen' = Restrict(screen, S) /\ entries' = Logged(names, entry)
          /\ S \in SUBSET Open /\ Status \in S /\ names \in SUBSET LogName
      BY <1>1, <1>4, <2>4, <3>3 DEF SelfQuit
    <3> HIDE DEF S, names, entry
    <3> QED
      BY <2>2, <3>2, <3>4, <3>5, OnlyLogged
  <2> QED
    BY <2>3, <2>4
<1>5. ASSUME NEW who \in {Server, NickOf(Me)}, SelfMode(who)
      PROVE  LInv'
  <2> DEFINE set == [type |-> "self", change |-> "+i", extra |-> NoOne]
             line == ModeLine(set, NickOf(Me), who, NickOf(Me))
             entry == Entry("mode", <<who, NickOf(Me), "+i", NoOne>>, Nothing)
             names == IF who = NickOf(Me) THEN {} ELSE {NickOf(Me)}
             ws == {Status}
             nick == people.nick
  <2>1. NickOf(Me) \in LogName /\ NickOf(Me) \in Name /\ who \in Name /\ NoOne \in Name
        /\ Status \in Window /\ nick \in [User -> Nick]
    BY <1>1, Given
  <2>2. line \in LineRecord /\ entry \in Entries
    <3>1. "+i" \in Change
      BY DEF Change
    <3> QED
      BY <1>1, <2>1, <3>1, ModeBack
  <2>3. entry.stamp = events + 1
    BY DEF Entry
  <2>4. /\ screen' = ShownAs(ws, line, nick) /\ entries' = Logged(names, entry)
        /\ streams' = streams \cup names /\ people' = people /\ Me \in people.online
    BY <1>5 DEF SelfMode, Shows
  <2>5. names \in SUBSET LogName /\ ws \in SUBSET Window /\ ws \ {Status} = {}
    BY <2>1
  <2>6. PeopleOK(people') /\ Ended' /\ streams' \subseteq LogName
    BY <1>1, <2>4, <2>5 DEF Ended
  <2> HIDE DEF line, entry, names, ws, nick
  <2>7. \A w \in ws \ {Status} : Restorable(w, Made(w, line, nick)) =>
          /\ Under(w, nick) \in names
          /\ Drawn(GetLine(Under(w, nick), entry)) = Drawn(line)
    BY <2>5
  <2> QED
    BY <2>1, <2>2, <2>3, <2>4, <2>5, <2>6, <2>7, BothKept
<1> QED
  BY <1>2, <1>3, <1>4, <1>5, NickChangeKept, ClickKept DEF OfUser

-----------------------------------------------------------------------------
(* The theorems.                                                            *)

\* The invariant holds before anything is said.
LEMMA LogsStart == LogsInit => LInv
<1> SUFFICES ASSUME LogsInit PROVE LInv
  OBVIOUS
<1>1. /\ people = [nick |-> CHOOSE f \in [User -> Nick] : IsInjective(f),
                   online |-> User, room |-> {Me}, hats |-> {}]
      /\ screen = [w \in {Status, Channel} |-> <<>>]
      /\ entries = [f \in LogName |-> <<>>] /\ streams = {} /\ events = 0
  BY DEF LogsInit
<1>2. (CHOOSE f \in [User -> Nick] : IsInjective(f)) \in [User -> Nick]
  BY PeopleAssumption
<1>3. PeopleOK(people)
  BY <1>1, <1>2, PeopleAssumption DEF PeopleOK
<1>4. ScreenOK(screen)
  BY <1>1 DEF ScreenOK, Window
<1>5. Told(screen, entries)
  BY <1>1 DEF Told
<1> QED
  BY <1>1, <1>3, <1>4, <1>5 DEF LInv, LogsTypeOK, Ended

\* Every event, with both of its listeners, keeps the invariant.
LEMMA LogsStep == LInv /\ [LogsNext]_<<vars, book>> => LInv'
<1> SUFFICES ASSUME LInv, [LogsNext]_<<vars, book>> PROVE LInv'
  OBVIOUS
<1>1. CASE Event
  BY <1>1, MessageKept, InChannelKept, OfUserKept DEF Event
<1>2. CASE UNCHANGED book
  BY <1>2 DEF book, LInv, LogsTypeOK, Ended, Told, InLog
<1> QED
  BY <1>1, <1>2 DEF LogsNext

\* The invariant of the logs: names, windows and logs have their types, there is no
\* stream after we have gone, and what a window shows is in its log.
THEOREM LogsKept == LogsSpec => []LInv
BY LogsStart, LogsStep, PTL DEF LogsSpec

\* RestoredAsShown, for any people, names and texts and any number of events: what a
\* window of a conversation has shown and is to come back is in the log of the name
\* it had, and drawn from there as it was.
THEOREM RestoredAlways == LogsSpec => []RestoredAsShown
<1>1. LInv => RestoredAsShown
  BY DEF LInv, Told, InLog, RestoredAsShown, Open
<1> QED
  BY <1>1, LogsKept, PTL

\* Only quits take somebody offline, and only they, kicks and parts take us out of
\* the channel.
LEMMA WhoGoes ==
  ASSUME LInv, Event
  PROVE  \/ \E u \in User, reason \in Body : Quit(u, reason)
         \/ \E reason \in Body, removed \in BOOLEAN : SelfQuit(reason, removed)
         \/ /\ people'.online = people.online
            /\ \/ Me \in people.room => Me \in people'.room
               \/ \E u, v \in User, reason \in Body : Kick(u, v, reason)
               \/ \E u \in User, reason \in Body, close \in BOOLEAN, forgets \in BOOLEAN :
                    Part(u, reason, close, forgets)
<1>1. PeopleOK(people)
  BY DEF LInv, LogsTypeOK
<1>2. CASE Message
  BY <1>2 DEF Message, ChannelMessage, PrivateMessage, ServerNotice, VersionRequested, Record
<1>3. CASE InChannel
  <2>1. ASSUME NEW u \in User, NEW v \in User, NEW reason \in Body, Kick(u, v, reason)
        PROVE  people'.online = people.online
    BY <1>1, <2>1 DEF Kick, PeopleOK
  <2>2. ASSUME NEW u \in User, NEW v \in User, NEW change \in {"+o", "-o", "+m"}, Mode(u, change, v)
        PROVE  people'.online = people.online /\ people'.room = people.room
    BY <1>1, <2>2 DEF Mode, PeopleOK
  <2>3. ASSUME NEW u \in User, Join(u)
        PROVE  people'.online = people.online /\ people.room \subseteq people'.room
    BY <1>1, <2>3 DEF Join, PeopleOK
  <2>4. ASSUME NEW u \in User, NEW reason \in Body, NEW close \in BOOLEAN, NEW forgets \in BOOLEAN,
               Part(u, reason, close, forgets)
        PROVE  people'.online = people.online
    BY <1>1, <2>4 DEF Part, PeopleOK
  <2>5. ASSUME NEW u \in User, NEW body \in Body, NEW kept \in BOOLEAN, NEW called \in BOOLEAN,
               Topic(u, body, kept, called)
        PROVE  people' = people
    BY <2>5 DEF Topic
  <2>6. ASSUME NEW w \in Open, NEW body \in Body, NEW kept \in BOOLEAN, AskTopic(w, body, kept)
        PROVE  people' = people
    BY <2>6 DEF AskTopic
  <2>7. ASSUME NEW body \in Body, TopicUpdated(body)
        PROVE  people' = people
    BY <2>7 DEF TopicUpdated
  <2> QED
    BY <1>3, <2>1, <2>2, <2>3, <2>4, <2>5, <2>6, <2>7 DEF InChannel
<1>4. CASE OfUser
  <2>1. ASSUME NEW u \in User, NEW name \in Nick, NickChange(u, name)
        PROVE  people'.online = people.online /\ people'.room = people.room
    BY <1>1, <2>1 DEF NickChange, PeopleOK
  <2>2. ASSUME NEW u \in User, Click(u) \/ CloseWindow(u)
        PROVE  people' = people
    BY <2>2 DEF Click, CloseWindow
  <2>3. ASSUME NEW who \in {Server, NickOf(Me)}, SelfMode(who)
        PROVE  people' = people
    BY <2>3 DEF SelfMode
  <2> QED
    BY <1>4, <2>1, <2>2, <2>3 DEF OfUser
<1> QED
  BY <1>2, <1>3, <1>4 DEF Event

\* What StreamsEnd says of one step, handler by handler.
LEMMA StreamsStep ==
  ASSUME LInv, [LogsNext]_<<vars, book>>, UNCHANGED book => FALSE
  PROVE  /\ Me \notin people'.online => streams' = {}
         /\ \A u \in people.online \ people'.online : u \in Open => NickOf(u) \notin streams'
         /\ /\ Me \in people'.online /\ Me \in people.room \ people'.room
            /\ Last(entries'[Channel]).verb = "part"
            => Channel \notin streams'
<1>1. Event
  BY DEF LogsNext, book
<1>2. Me \notin people'.online => streams' = {}
  BY LogsStep DEF LInv, Ended
<1>3. PeopleOK(people) /\ entries \in [LogName -> Seq(Entries)] /\ Channel \in LogName
  BY DEF LInv, LogsTypeOK, LogName
<1>4. ASSUME NEW u \in User, NEW reason \in Body, Quit(u, reason)
      PROVE  /\ \A v \in people.online \ people'.online : v \in Open => NickOf(v) \notin streams'
             /\ Me \in people.room => Me \in people'.room
  <2>1. people' = Gone(u) /\ u # Me /\ streams' = StreamsBehind(u, NickOf(u))
    BY <1>4 DEF Quit
  <2>2. people'.online = people.online \ {u} /\ people'.room = people.room \ {u}
    BY <1>3, <2>1 DEF Gone, PeopleOK
  <2>3. u \in Open => NickOf(u) \notin streams'
    BY <2>1 DEF StreamsBehind
  <2> QED
    BY <2>1, <2>2, <2>3
<1>5. ASSUME NEW reason \in Body, NEW removed \in BOOLEAN, SelfQuit(reason, removed)
      PROVE  streams' = {}
  BY <1>5 DEF SelfQuit
<1>6. ASSUME NEW u \in User, NEW v \in User, NEW reason \in Body, Kick(u, v, reason)
      PROVE  Last(entries'[Channel]).verb # "part"
  <2> DEFINE entry == Entry("kick", <<NickOf(u), NickOf(v)>>, Plain(reason))
             names == {Channel}
  <2>1. entries' = Logged(names, entry)
    BY <1>6 DEF Kick, Happens
  <2>2. entries'[Channel] = Append(entries[Channel], entry)
    BY <1>3, <2>1 DEF Logged
  <2>3. entries[Channel] \in Seq(Entries)
    BY <1>3
  <2>4. entry.verb = "kick"
    BY DEF Entry
  <2>5. Last(entries'[Channel]) = entry
    <3>1. entry \in Entries
      <4>1. NickOf(u) \in Name /\ NickOf(v) \in Name /\ Plain(reason) \in Said /\ LogsTypeOK
            /\ FALSE \in BOOLEAN
        BY Given DEF LInv
      <4> QED
        BY <4>1, KickBack
    <3> HIDE DEF entry
    <3>2. /\ Len(Append(entries[Channel], entry)) = Len(entries[Channel]) + 1
          /\ Append(entries[Channel], entry)[Len(entries[Channel]) + 1] = entry
      BY <2>3, <3>1
    <3> QED
      BY <2>2, <3>2 DEF Last
  <2> QED
    BY <2>4, <2>5
<1>7. ASSUME NEW u \in User, NEW reason \in Body, NEW close \in BOOLEAN, NEW forgets \in BOOLEAN,
             Part(u, reason, close, forgets), Me \in people'.online, Me \in people.room \ people'.room
      PROVE  Channel \notin streams'
  <2>1. u = Me
    BY <1>3, <1>7 DEF Part, PeopleOK
  <2> QED
    BY <1>7, <2>1 DEF Part, ClosedBehindPart
<1> QED
  BY <1>1, <1>2, <1>4, <1>5, <1>6, <1>7, WhoGoes

\* Who goes leaves no stream behind: StreamsEnd, for any people and any number of
\* events.
THEOREM StreamsEndAlways == LogsSpec => StreamsEnd
<1>1. LInv /\ [LogsNext]_<<vars, book>> =>
        [/\ Me \notin people'.online => streams' = {}
         /\ \A u \in people.online \ people'.online : u \in Open => NickOf(u) \notin streams'
         /\ /\ Me \in people'.online /\ Me \in people.room \ people'.room
            /\ Last(entries'[Channel]).verb = "part"
            => Channel \notin streams']_book
  BY StreamsStep
<1> QED
  BY <1>1, LogsKept, PTL DEF LogsSpec, StreamsEnd
=============================================================================
