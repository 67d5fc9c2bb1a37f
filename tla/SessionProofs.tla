---------------------------- MODULE SessionProofs ----------------------------
(***************************************************************************)
(* Proofs about Session, for any files and any directory of plugins: what a *)
(* plugin gave is there once while the plugin is, and nothing but a command *)
(* outlives its code; and a run of the program crashes in the cases that    *)
(* CrashesKnown names.                                                      *)
(***************************************************************************)
EXTENDS Session, ListFacts, FiniteSetTheorems

\* The command that Notifications leaves.
GatherCommand == Gift("command", "gather")

\* What is held, in lists of gifts of one kind, each of the plugin that gave it.
Gifted == UNION {Gives(p) : p \in Plugin}
Record == [by : Plugin, what : Gifted, live : BOOLEAN, known : BOOLEAN]
Givens == [Kind -> Seq(Record)]
Hosts == [plugins : Seq(File), given : Givens, commands : BOOLEAN]

OwnedIn(held, k) == \A r \in ToSet(held) : r.what.kind = k /\ r.what \in Gives(r.by)
Owned(given) == \A k \in Kind : OwnedIn(given[k], k)

\* What a list has of p, and what of it leads to code that is mapped.
Of(held, p) == {r \in ToSet(held) : r.by = p}
Alive(given, p) == {g \in Gives(p) : \E r \in Of(given[g.kind], p) : r.what = g /\ r.live}

\* p gave nothing twice that is still alive, remembers all of it, and of what is
\* not alive there is only the command.
Single(held, p) ==
  \A i, j \in DOMAIN held :
    /\ held[i].by = p /\ held[i].live /\ held[j].by = p /\ held[j].live
    /\ held[i].what = held[j].what
    => i = j

Remembered(held, p) ==
  \A r \in Of(held, p) : IF r.live THEN r.known ELSE r.what = GatherCommand

Orderly(given, p) == \A k \in Kind : Single(given[k], p) /\ Remembered(given[k], p)

\* p is listed once at most.
Lone(plugins, p) ==
  \A i, j \in DOMAIN plugins : plugins[i].plugin = p /\ plugins[j].plugin = p => i = j

\* The plugin p while it is not mixed up.
Kept(p) ==
  /\ Lone(host.plugins, p) /\ Orderly(host.given, p)
  /\ ~IsLoaded(host, p) => Alive(host.given, p) = {} /\ p \notin past.started
  /\ term.file.plugin = p =>
       /\ Alive(host.given, p) \subseteq {GatherCommand}
       /\ term.task \in {"unload", "close"} \/ ~IsLoaded(host, p)
  /\ IsLoaded(host, p) /\ term.file.plugin # p =>
       /\ p \notin past.started => Alive(host.given, p) \subseteq ToSet(Shipped[p].setup)
       /\ ~term.quit => ToSet(Shipped[p].setup) \subseteq Alive(host.given, p)
       /\ ~term.quit /\ p \in past.started => Alive(host.given, p) = Gives(p)

Typed0 ==
  /\ host \in Hosts /\ Owned(host.given)
  /\ main \in [at : {"postinit", "returns", "join", "stop", "done"}, next : File \cup {NoFile}]
  /\ term \in [task : {"idle", "draw", "unload", "quit", "close", "ended"}, file : File \cup {NoFile}, quit : BOOLEAN]
  /\ beat \in [on : BOOLEAN, at : Nat, freed : BOOLEAN]
  /\ past \in [started : SUBSET Plugin, mixed : SUBSET Plugin]
  /\ walk \in [Thread -> {"off", "on", "torn"}]

IInv ==
  /\ Typed0
  /\ term.task \in {"unload", "close"} => HasPath(host, term.file)
  /\ term.task = "quit" => host.plugins # <<>>
  /\ \A p \in Plugin \ past.mixed : Kept(p)
  /\ past.mixed = {} /\ ~beat.freed => beat.at <= Len(host.given["beat"])

-----------------------------------------------------------------------------
(* The plugins: what they give and take back, each thing once.              *)

\* s lists the elements of G, each once.
Lists(s, G) == s \in Seq(G) /\ IsInjective(s) /\ ToSet(s) = G

\* Short lists.
LEMMA ListsFew ==
  /\ Lists(<<>>, {})
  /\ \A a : Lists(<<a>>, {a})
  /\ \A a, b : a # b => Lists(<<a, b>>, {a, b})
  /\ \A a, b, c : a # b /\ b # c /\ c # a => Lists(<<a, b, c>>, {a, b, c})
<1>1. Lists(<<>>, {})
  BY DEF Lists, IsInjective, ToSet
<1>2. ASSUME NEW a
      PROVE  Lists(<<a>>, {a})
  BY DEF Lists, IsInjective, ToSet
<1>3. ASSUME NEW a, NEW b, a # b
      PROVE  Lists(<<a, b>>, {a, b})
  BY <1>3 DEF Lists, IsInjective, ToSet
<1>4. ASSUME NEW a, NEW b, NEW c, a # b, b # c, c # a
      PROVE  Lists(<<a, b, c>>, {a, b, c})
  BY <1>4 DEF Lists, IsInjective, ToSet
<1> QED
  BY <1>1, <1>2, <1>3, <1>4

\* One list behind another.
LEMMA ListsBoth ==
  ASSUME NEW s, NEW A, Lists(s, A), NEW t, NEW B, Lists(t, B), A \cap B = {}
  PROVE  Lists(s \o t, A \cup B)
<1> DEFINE u == s \o t
<1>1. s \in Seq(A \cup B) /\ t \in Seq(A \cup B)
  BY DEF Lists
<1>2. Len(s) \in Nat /\ Len(t) \in Nat /\ DOMAIN s = 1..Len(s) /\ DOMAIN t = 1..Len(t)
  BY LenProperties DEF Lists
<1>3. /\ u \in Seq(A \cup B) /\ Len(u) = Len(s) + Len(t)
      /\ \A i \in 1..(Len(s) + Len(t)) : u[i] = IF i <= Len(s) THEN s[i] ELSE t[i - Len(s)]
  BY <1>1, ConcatProperties
<1> HIDE DEF u
<1>4. DOMAIN u = 1..(Len(s) + Len(t))
  BY <1>3, LenProperties
<1>5. /\ \A i \in DOMAIN s : i \in DOMAIN u /\ u[i] = s[i] /\ s[i] \in A
      /\ \A i \in DOMAIN t : i + Len(s) \in DOMAIN u /\ u[i + Len(s)] = t[i] /\ t[i] \in B
      /\ \A i \in DOMAIN u : i \in DOMAIN s \/ i - Len(s) \in DOMAIN t
  BY <1>2, <1>3, <1>4 DEF Lists, ToSet
<1>6. ToSet(u) = A \cup B
  <2>1. ToSet(u) \subseteq A \cup B
    BY <1>2, <1>3, <1>4, <1>5 DEF ToSet
  <2>2. A \subseteq ToSet(u)
    BY <1>5 DEF ToSet, Lists
  <2>3. B \subseteq ToSet(u)
    BY <1>5 DEF ToSet, Lists
  <2> QED
    BY <2>1, <2>2, <2>3
<1>7. IsInjective(u)
  <2> SUFFICES ASSUME NEW i \in DOMAIN u, NEW j \in DOMAIN u, u[i] = u[j]
               PROVE  i = j
    BY DEF IsInjective
  <2>1. CASE i \in DOMAIN s /\ j \in DOMAIN s
    BY <1>5, <2>1 DEF Lists, IsInjective
  <2>2. CASE i \notin DOMAIN s /\ j \notin DOMAIN s
    <3>1. /\ i - Len(s) \in DOMAIN t /\ t[i - Len(s)] = u[i]
          /\ j - Len(s) \in DOMAIN t /\ t[j - Len(s)] = u[j]
      BY <1>2, <1>4, <1>5, <2>2
    <3>2. i - Len(s) = j - Len(s)
      BY <3>1 DEF Lists, IsInjective
    <3> QED
      BY <1>2, <1>4, <3>2
  <2>3. ASSUME NEW m \in DOMAIN s, NEW n \in DOMAIN u, n \notin DOMAIN s, u[m] = u[n]
        PROVE  FALSE
    <3>1. n - Len(s) \in DOMAIN t /\ t[n - Len(s)] = u[n]
      BY <1>2, <1>4, <1>5, <2>3
    <3> QED
      BY <1>5, <2>3, <3>1
  <2> QED
    BY <2>1, <2>2, <2>3
<1> QED
  BY <1>3, <1>6, <1>7 DEF Lists, u

\* Gifts of one kind.
LEMMA ListsGifts ==
  ASSUME NEW kind, NEW names, NEW N, Lists(names, N)
  PROVE  Lists(Gifts(kind, names), {Gift(kind, n) : n \in N})
<1> DEFINE s == Gifts(kind, names)
           G == {Gift(kind, n) : n \in N}
<1>1. Len(names) \in Nat /\ DOMAIN names = 1..Len(names)
  BY LenProperties DEF Lists
<1>2. DOMAIN s = 1..Len(names) /\ \A i \in 1..Len(names) : s[i] = Gift(kind, names[i])
  BY <1>1 DEF Gifts
<1>3. \A i \in 1..Len(names) : names[i] \in N
  BY <1>1 DEF Lists, ToSet
<1>4. \A m, n : Gift(kind, m) = Gift(kind, n) => m = n
  BY DEF Gift
<1>5. s \in Seq(G)
  <2>1. s = [i \in 1..Len(names) |-> Gift(kind, names[i])]
    BY <1>1 DEF Gifts
  <2>2. \A i \in 1..Len(names) : Gift(kind, names[i]) \in G
    BY <1>3
  <2> HIDE DEF s, G
  <2> QED
    BY <1>1, <2>1, <2>2, IsASeq
<1> HIDE DEF s
<1>6. IsInjective(s)
  BY <1>1, <1>2, <1>4 DEF IsInjective, Lists
<1>7. ToSet(s) = G
  BY <1>1, <1>2 DEF ToSet, Lists
<1> QED
  BY <1>5, <1>6, <1>7 DEF Lists, s

\* A few gifts of one kind.
LEMMA GiftsFew ==
  /\ \A kind, a, b : a # b => Lists(Gifts(kind, <<a, b>>), {Gift(kind, a), Gift(kind, b)})
  /\ \A kind, a, b, c : a # b /\ b # c /\ c # a =>
       Lists(Gifts(kind, <<a, b, c>>), {Gift(kind, a), Gift(kind, b), Gift(kind, c)})
<1>1. ASSUME NEW kind, NEW a, NEW b, a # b
      PROVE  Lists(Gifts(kind, <<a, b>>), {Gift(kind, a), Gift(kind, b)})
  <2>1. Lists(<<a, b>>, {a, b})
    BY <1>1, ListsFew
  <2>2. Lists(Gifts(kind, <<a, b>>), {Gift(kind, n) : n \in {a, b}})
    BY <2>1, ListsGifts
  <2>3. {Gift(kind, n) : n \in {a, b}} = {Gift(kind, a), Gift(kind, b)}
    OBVIOUS
  <2> QED
    BY <2>2, <2>3
<1>2. ASSUME NEW kind, NEW a, NEW b, NEW c, a # b, b # c, c # a
      PROVE  Lists(Gifts(kind, <<a, b, c>>), {Gift(kind, a), Gift(kind, b), Gift(kind, c)})
  <2>1. Lists(<<a, b, c>>, {a, b, c})
    BY <1>2, ListsFew
  <2>2. Lists(Gifts(kind, <<a, b, c>>), {Gift(kind, n) : n \in {a, b, c}})
    BY <2>1, ListsGifts
  <2>3. {Gift(kind, n) : n \in {a, b, c}} = {Gift(kind, a), Gift(kind, b), Gift(kind, c)}
    OBVIOUS
  <2> QED
    BY <2>2, <2>3
<1> QED
  BY <1>1, <1>2

\* What p gives at first and then, and what cleanup takes back.
Plan(p, setup, start, undone) ==
  /\ Lists(Shipped[p].setup, setup) /\ Lists(Shipped[p].start, start)
  /\ Lists(Shipped[p].undone, undone)

\* A plugin that takes back all it gives.
LEMMA TidyPlan ==
  ASSUME NEW p, NEW setup, NEW start, NEW A, NEW B, Shipped[p] = Tidy(setup, start),
         Lists(setup, A), Lists(start, B), A \cap B = {}
  PROVE  Plan(p, A, B, A \cup B)
<1>1. Lists(setup \o start, A \cup B)
  BY ListsBoth
<1> QED
  BY <1>1 DEF Plan, Tidy, PluginOf, Lists

\* The clock gives a widget and a listener of the heartbeat and takes both back.
LEMMA ClockPlan == Plan("Clock", {}, {Gift("widget", "clock"), Gift("beat", "tick")},
                        {Gift("widget", "clock"), Gift("beat", "tick")})
<1>1. Shipped["Clock"] = Clock
  BY DEF Shipped
<1>2. Gift("widget", "clock") # Gift("beat", "tick")
  BY DEF Gift
<1> QED
  BY <1>1, <1>2, ListsFew, TidyPlan DEF Clock

\* The input history gives a handler of keys and one of lines and takes both back.
LEMMA HistoryPlan == Plan("History", {}, {Gift("key", "history"), Gift("input", "history")},
                          {Gift("key", "history"), Gift("input", "history")})
<1>1. Shipped["History"] = History
  BY DEF Shipped
<1>2. Gift("key", "history") # Gift("input", "history")
  BY DEF Gift
<1> QED
  BY <1>1, <1>2, ListsFew, TidyPlan DEF History

\* The notifications take back all they give but for the command /gather.
LEMMA NotificationsPlan ==
  LET S == {Gift("setting", "appearance.highlight_color"), Gift("setting", "appearance.highlight_bold")}
      E == {Gift("event", "notification"), Gift("event", "window_changed"),
            Gift("event", "window_notification")}
      W == {Gift("widget", "notifications")}
  IN Plan("Notifications", S, W \cup {GatherCommand} \cup E, S \cup E \cup W)
<1> DEFINE S == {Gift("setting", "appearance.highlight_color"), Gift("setting", "appearance.highlight_bold")}
           E == {Gift("event", "notification"), Gift("event", "window_changed"),
                 Gift("event", "window_notification")}
           W == {Gift("widget", "notifications")}
           C == {GatherCommand}
<1>1. Shipped["Notifications"] = Notifications
  BY DEF Shipped
<1>2. Lists(NotificationSettings, S)
  BY GiftsFew DEF NotificationSettings
<1>3. Lists(NotificationEvents, E)
  BY GiftsFew DEF NotificationEvents
<1>4. S \cap E = {} /\ (S \cup E) \cap W = {} /\ (W \cup C) \cap E = {}
  BY DEF Gift, GatherCommand
<1>5. Lists(<<Gift("widget", "notifications"), GatherCommand>>, W \cup C)
  <2>1. Gift("widget", "notifications") # GatherCommand
    BY DEF Gift, GatherCommand
  <2> QED
    BY <2>1, ListsFew
<1>6. Lists(<<Gift("widget", "notifications")>>, W)
  BY ListsFew
<1> HIDE DEF S, E, W, C
<1>7. Lists(<<Gift("widget", "notifications"), GatherCommand>> \o NotificationEvents, W \cup C \cup E)
  BY <1>3, <1>4, <1>5, ListsBoth
<1>8. Lists(NotificationSettings \o NotificationEvents, S \cup E)
  BY <1>2, <1>3, <1>4, ListsBoth
<1>9. Lists(NotificationSettings \o NotificationEvents \o <<Gift("widget", "notifications")>>, S \cup E \cup W)
  BY <1>4, <1>6, <1>8, ListsBoth
<1>10. Plan("Notifications", S, W \cup C \cup E, S \cup E \cup W)
  BY <1>1, <1>2, <1>7, <1>9 DEF Plan, Notifications, PluginOf, GatherCommand
<1> QED
  BY <1>10 DEF S, E, W, C

\* The window info gives two widgets and a listener and takes them back.
LEMMA WindowInfoPlan ==
  LET G == {Gift("widget", "window_left"), Gift("widget", "window_right"), Gift("event", "nick_updated")}
  IN Plan("WindowInfo", {}, G, G)
<1> DEFINE W == {Gift("widget", "window_left"), Gift("widget", "window_right")}
           E == {Gift("event", "nick_updated")}
<1>1. Shipped["WindowInfo"] = WindowInfo
  BY DEF Shipped
<1>2. Lists(Gifts("widget", <<"window_left", "window_right">>), W)
  BY GiftsFew
<1>3. Lists(<<Gift("event", "nick_updated")>>, E)
  BY ListsFew
<1>4. W \cap E = {}
  BY DEF Gift
<1> HIDE DEF W, E
<1>5. Lists(Gifts("widget", <<"window_left", "window_right">>) \o <<Gift("event", "nick_updated")>>, W \cup E)
  BY <1>2, <1>3, <1>4, ListsBoth
<1>6. Plan("WindowInfo", {}, W \cup E, {} \cup (W \cup E))
  BY <1>1, <1>5, ListsFew, TidyPlan DEF WindowInfo
<1>7. W \cup E = {Gift("widget", "window_left"), Gift("widget", "window_right"), Gift("event", "nick_updated")}
  BY DEF W, E
<1> QED
  BY <1>6, <1>7

\* The coloring gives two places' contents and a handler of keys and takes them back.
LEMMA ColoringPlan ==
  LET G == {Gift("place", "onInterrupt"), Gift("place", "characterRenderer"), Gift("key", "coloring")}
  IN Plan("Coloring", {}, G, G)
<1>1. Shipped["Coloring"] = Coloring
  BY DEF Shipped
<1>2. /\ Gift("place", "onInterrupt") # Gift("place", "characterRenderer")
      /\ Gift("place", "characterRenderer") # Gift("key", "coloring")
      /\ Gift("key", "coloring") # Gift("place", "onInterrupt")
  BY DEF Gift
<1> QED
  BY <1>1, <1>2, ListsFew, TidyPlan DEF Coloring

\* The nick colors give a setting and a place's content and take both back.
LEMMA NickColorPlan ==
  LET S == {Gift("setting", "appearance.nick_colors")}
      P == {Gift("place", "privmsg_nick")}
  IN Plan("NickColor", S, P, S \cup P)
<1>1. Shipped["NickColor"] = NickColor
  BY DEF Shipped
<1>2. {Gift("setting", "appearance.nick_colors")} \cap {Gift("place", "privmsg_nick")} = {}
  BY DEF Gift
<1> QED
  BY <1>1, <1>2, ListsFew, TidyPlan DEF NickColor

\* The trigger gives two settings and a listener and takes them back.
LEMMA TriggerPlan ==
  LET S == {Gift("setting", "trigger.active"), Gift("setting", "trigger.reason")}
      E == {Gift("event", "mode")}
  IN Plan("Trigger", S, E, S \cup E)
<1> DEFINE S == {Gift("setting", "trigger.active"), Gift("setting", "trigger.reason")}
           E == {Gift("event", "mode")}
<1>1. Shipped["Trigger"] = Trigger
  BY DEF Shipped
<1>2. Lists(Gifts("setting", <<"trigger.active", "trigger.reason">>), S)
  BY GiftsFew
<1>3. S \cap E = {} /\ Lists(<<Gift("event", "mode")>>, E)
  BY ListsFew DEF Gift
<1> HIDE DEF S, E
<1> QED
  BY <1>1, <1>2, <1>3, TidyPlan DEF Trigger, S, E

\* The commands of ExtraCmd.
LEMMA ExtraCommands ==
  LET N == {"rmraw", "_foo", "_bar", "_asc", "_args", "_dbg", "_info",
             "_sw", "_time", "_users", "_win", "_findemoji"}
  IN Lists(<<"rmraw", "_foo", "_bar", "_asc", "_args", "_dbg", "_info",
             "_sw", "_time", "_users", "_win", "_findemoji">>, N)
<1> DEFINE s == <<"rmraw", "_foo", "_bar", "_asc", "_args", "_dbg", "_info",
                   "_sw", "_time", "_users", "_win", "_findemoji">>
           N == {"rmraw", "_foo", "_bar", "_asc", "_args", "_dbg", "_info",
                  "_sw", "_time", "_users", "_win", "_findemoji"}
<1>1. s \in Seq(N) /\ DOMAIN s = 1..12
  OBVIOUS
<1>2. /\ s[1] = "rmraw" /\ s[2] = "_foo" /\ s[3] = "_bar" /\ s[4] = "_asc"
      /\ s[5] = "_args" /\ s[6] = "_dbg" /\ s[7] = "_info" /\ s[8] = "_sw"
      /\ s[9] = "_time" /\ s[10] = "_users" /\ s[11] = "_win" /\ s[12] = "_findemoji"
  OBVIOUS
<1> HIDE DEF s
<1>3. IsInjective(s)
  BY <1>1, <1>2 DEF IsInjective
<1>4. ToSet(s) = N
  BY <1>1, <1>2 DEF ToSet
<1> QED
  BY <1>1, <1>3, <1>4 DEF Lists, s

\* The events that Logs listens to.
LEMMA LogEvents ==
  LET N == {"join", "kick", "mode", "nick", "notice", "part", "privmsg",
             "quit", "topic", "topic_updated"}
  IN Lists(<<"join", "kick", "mode", "nick", "notice", "part", "privmsg",
             "quit", "topic", "topic_updated">>, N)
<1> DEFINE s == <<"join", "kick", "mode", "nick", "notice", "part", "privmsg",
                   "quit", "topic", "topic_updated">>
           N == {"join", "kick", "mode", "nick", "notice", "part", "privmsg",
                  "quit", "topic", "topic_updated"}
<1>1. s \in Seq(N) /\ DOMAIN s = 1..10
  OBVIOUS
<1>2. /\ s[1] = "join" /\ s[2] = "kick" /\ s[3] = "mode" /\ s[4] = "nick"
      /\ s[5] = "notice" /\ s[6] = "part" /\ s[7] = "privmsg" /\ s[8] = "quit"
      /\ s[9] = "topic" /\ s[10] = "topic_updated"
  OBVIOUS
<1> HIDE DEF s
<1>3. IsInjective(s)
  BY <1>1, <1>2 DEF IsInjective
<1>4. ToSet(s) = N
  BY <1>1, <1>2 DEF ToSet
<1> QED
  BY <1>1, <1>3, <1>4 DEF Lists, s

\* What ExtraCmd and Logs give.
ExtraGifts == {Gift("command", n) : n \in {"rmraw", "_foo", "_bar", "_asc", "_args", "_dbg", "_info",
                                            "_sw", "_time", "_users", "_win", "_findemoji"}}
LogSettings == {Gift("setting", "logs.autoclean"), Gift("setting", "logs.default_restore"), Gift("setting", "logs.enabled")}
LogCommands == {Gift("command", "clean"), Gift("command", "restore")}
LogListeners == {Gift("event", n) : n \in {"join", "kick", "mode", "nick", "notice", "part", "privmsg",
                                            "quit", "topic", "topic_updated"}}

\* The extra commands are all taken back.
LEMMA ExtraCmdPlan == Plan("ExtraCmd", {}, ExtraGifts, ExtraGifts)
<1>1. Shipped["ExtraCmd"] = ExtraCmd
  BY DEF Shipped
<1> DEFINE s == Gifts("command", <<"rmraw", "_foo", "_bar", "_asc", "_args", "_dbg", "_info",
                                     "_sw", "_time", "_users", "_win", "_findemoji">>)
<1>2. Lists(s, ExtraGifts)
  BY ExtraCommands, ListsGifts DEF ExtraGifts
<1>3. ExtraCmd = Tidy(<<>>, s)
  BY DEF ExtraCmd
<1> HIDE DEF s
<1>4. Plan("ExtraCmd", {}, ExtraGifts, {} \cup ExtraGifts)
  BY <1>1, <1>2, <1>3, ListsFew, TidyPlan
<1> QED
  BY <1>4

\* The logs take back their settings, their commands and their listeners.
LEMMA LogsPlan ==
  Plan("Logs", LogSettings, LogCommands \cup LogListeners, LogSettings \cup (LogCommands \cup LogListeners))
<1> DEFINE s == Gifts("setting", <<"logs.autoclean", "logs.default_restore", "logs.enabled">>)
           c == Gifts("command", <<"clean", "restore">>)
           e == Gifts("event", <<"join", "kick", "mode", "nick", "notice", "part", "privmsg",
                                   "quit", "topic", "topic_updated">>)
<1>1. Shipped["Logs"] = Logs
  BY DEF Shipped
<1>2. Lists(s, LogSettings) /\ Lists(c, LogCommands)
  BY GiftsFew DEF LogSettings, LogCommands
<1>3. Lists(e, LogListeners)
  BY LogEvents, ListsGifts DEF LogListeners
<1>4. Logs = Tidy(s, c \o e)
  BY DEF Logs
<1>5. LogCommands \cap LogListeners = {} /\ LogSettings \cap (LogCommands \cup LogListeners) = {}
  BY DEF LogSettings, LogCommands, LogListeners, Gift
<1> HIDE DEF s, c, e
<1>6. Lists(c \o e, LogCommands \cup LogListeners)
  BY <1>2, <1>3, <1>5, ListsBoth
<1> QED
  BY <1>1, <1>2, <1>4, <1>5, <1>6, TidyPlan

\* The plugin that gives things of this name which are no listeners of events.
OwnerOf(name) ==
  IF name \in {"clock", "tick"} THEN "Clock"
  ELSE IF name = "history" THEN "History"
  ELSE IF name \in {"appearance.highlight_color", "appearance.highlight_bold", "notifications", "gather"}
       THEN "Notifications"
  ELSE IF name \in {"window_left", "window_right"} THEN "WindowInfo"
  ELSE IF name \in {"onInterrupt", "characterRenderer", "coloring"} THEN "Coloring"
  ELSE IF name \in {"appearance.nick_colors", "privmsg_nick"} THEN "NickColor"
  ELSE IF name \in {"trigger.active", "trigger.reason"} THEN "Trigger"
  ELSE IF name \in {"logs.autoclean", "logs.default_restore", "logs.enabled", "clean", "restore"} THEN "Logs"
  ELSE "ExtraCmd"

\* What the proofs need of a plugin: nothing is given at first and then, nobody
\* else gives the same, all but the command is taken back, and the clock alone
\* is called by the heartbeat.
Fits(p, A, B, U) ==
  /\ A \cap B = {} /\ GatherCommand \notin A /\ U = (A \cup B) \ {GatherCommand}
  /\ \A g \in A \cup B :
       /\ g.kind \in Kind
       /\ g.kind # "event" => OwnerOf(g.name) = p
       /\ g.kind = "beat" => p = "Clock" /\ g = Gift("beat", "tick")

\* So it is of every plugin.
Planned(p) ==
  LET A == ToSet(Shipped[p].setup)
      B == ToSet(Shipped[p].start)
      U == ToSet(Shipped[p].undone)
  IN Plan(p, A, B, U) /\ Fits(p, A, B, U)

\* Every plugin that is shipped is planned.
LEMMA ShippedPlans ==
  ASSUME NEW p \in Plugin
  PROVE  Planned(p)
<1>1. Plugin = {"Clock", "History", "Notifications", "WindowInfo", "Coloring", "NickColor",
                "Trigger", "ExtraCmd", "Logs"}
  BY DEF Plugin, Shipped
<1>2. ASSUME NEW q, NEW A, NEW B, NEW U, Plan(q, A, B, U), Fits(q, A, B, U), p = q
      PROVE  Planned(p)
  <2>1. A = ToSet(Shipped[p].setup) /\ B = ToSet(Shipped[p].start) /\ U = ToSet(Shipped[p].undone)
    BY <1>2 DEF Plan, Lists
  <2> QED
    BY <1>2, <2>1 DEF Planned
<1>3. CASE p = "Clock"
  <2> DEFINE G == {Gift("widget", "clock"), Gift("beat", "tick")}
  <2>1. Fits("Clock", {}, G, G)
    BY DEF Fits, Gift, GatherCommand, OwnerOf, Kind
  <2> QED
    BY <1>2, <1>3, <2>1, ClockPlan
<1>4. CASE p = "History"
  <2> DEFINE G == {Gift("key", "history"), Gift("input", "history")}
  <2>1. Fits("History", {}, G, G)
    BY DEF Fits, Gift, GatherCommand, OwnerOf, Kind
  <2> QED
    BY <1>2, <1>4, <2>1, HistoryPlan
<1>5. CASE p = "Notifications"
  <2> DEFINE S == {Gift("setting", "appearance.highlight_color"), Gift("setting", "appearance.highlight_bold")}
             E == {Gift("event", "notification"), Gift("event", "window_changed"),
                   Gift("event", "window_notification")}
             W == {Gift("widget", "notifications")}
  <2>1. Fits("Notifications", S, W \cup {GatherCommand} \cup E, S \cup E \cup W)
    BY DEF Fits, Gift, GatherCommand, OwnerOf, Kind
  <2> QED
    BY <1>2, <1>5, <2>1, NotificationsPlan
<1>6. CASE p = "WindowInfo"
  <2> DEFINE G == {Gift("widget", "window_left"), Gift("widget", "window_right"), Gift("event", "nick_updated")}
  <2>1. Fits("WindowInfo", {}, G, G)
    BY DEF Fits, Gift, GatherCommand, OwnerOf, Kind
  <2> QED
    BY <1>2, <1>6, <2>1, WindowInfoPlan
<1>7. CASE p = "Coloring"
  <2> DEFINE G == {Gift("place", "onInterrupt"), Gift("place", "characterRenderer"), Gift("key", "coloring")}
  <2>1. Fits("Coloring", {}, G, G)
    BY DEF Fits, Gift, GatherCommand, OwnerOf, Kind
  <2> QED
    BY <1>2, <1>7, <2>1, ColoringPlan
<1>8. CASE p = "NickColor"
  <2> DEFINE S == {Gift("setting", "appearance.nick_colors")}
             P == {Gift("place", "privmsg_nick")}
  <2>1. Fits("NickColor", S, P, S \cup P)
    BY DEF Fits, Gift, GatherCommand, OwnerOf, Kind
  <2> QED
    BY <1>2, <1>8, <2>1, NickColorPlan
<1>9. CASE p = "Trigger"
  <2> DEFINE S == {Gift("setting", "trigger.active"), Gift("setting", "trigger.reason")}
             E == {Gift("event", "mode")}
  <2>1. Fits("Trigger", S, E, S \cup E)
    BY DEF Fits, Gift, GatherCommand, OwnerOf, Kind
  <2> QED
    BY <1>2, <1>9, <2>1, TriggerPlan
<1>10. CASE p = "ExtraCmd"
  <2>1. \A g \in ExtraGifts : g.kind = "command" /\ OwnerOf(g.name) = "ExtraCmd" /\ g.name # "gather"
    BY DEF ExtraGifts, Gift, OwnerOf
  <2>2. Fits("ExtraCmd", {}, ExtraGifts, ExtraGifts)
    BY <2>1 DEF Fits, Gift, GatherCommand, Kind
  <2> QED
    BY <1>2, <1>10, <2>2, ExtraCmdPlan
<1>11. CASE p = "Logs"
  <2> DEFINE A == LogSettings
             B == LogCommands \cup LogListeners
  <2>1. \A g \in A : g.kind = "setting" /\ OwnerOf(g.name) = "Logs"
    BY DEF LogSettings, Gift, OwnerOf
  <2>2. \A g \in LogCommands : g.kind = "command" /\ OwnerOf(g.name) = "Logs" /\ g.name # "gather"
    BY DEF LogCommands, Gift, OwnerOf
  <2>3. \A g \in LogListeners : g.kind = "event"
    BY DEF LogListeners, Gift
  <2> HIDE DEF A
  <2>4. Fits("Logs", A, B, A \cup B)
    BY <2>1, <2>2, <2>3 DEF Fits, Gift, GatherCommand, Kind
  <2> QED
    BY <1>2, <1>11, <2>4, LogsPlan DEF A
<1>12. \/ p = "Clock" \/ p = "History" \/ p = "Notifications" \/ p = "WindowInfo" \/ p = "Coloring"
       \/ p = "NickColor" \/ p = "Trigger" \/ p = "ExtraCmd" \/ p = "Logs"
  BY <1>1
<1> QED
  BY <1>3, <1>4, <1>5, <1>6, <1>7, <1>8, <1>9, <1>10, <1>11, <1>12

-----------------------------------------------------------------------------
(* Lists of what is held.                                                   *)

\* What the table says of a gift.
LEMMA GiftFits ==
  ASSUME NEW p \in Plugin, NEW g \in Gives(p)
  PROVE  /\ g.kind \in Kind /\ g \in Gifted
         /\ \A q \in Plugin : g \in Gives(q) /\ g.kind # "event" => q = p
         /\ g.kind = "beat" => p = "Clock" /\ g = Gift("beat", "tick")
<1>1. Planned(p) /\ \A q \in Plugin : Planned(q)
  BY ShippedPlans
<1>2. g.kind \in Kind /\ (g.kind = "beat" => p = "Clock" /\ g = Gift("beat", "tick"))
  BY <1>1 DEF Planned, Fits, Gives
<1>3. ASSUME NEW q \in Plugin, g \in Gives(q), g.kind # "event"
      PROVE  OwnerOf(g.name) = q
  BY <1>1, <1>3 DEF Planned, Fits, Gives
<1> QED
  BY <1>2, <1>3 DEF Gifted

\* The places of a list.
LEMMA Places ==
  ASSUME NEW S, NEW s \in Seq(S)
  PROVE  /\ Len(s) \in Nat /\ DOMAIN s = 1..Len(s)
         /\ \A i \in DOMAIN s : s[i] \in S /\ s[i] \in ToSet(s)
         /\ \A x \in ToSet(s) : x \in S /\ \E i \in DOMAIN s : s[i] = x
BY LenProperties, ElementOfSeq DEF ToSet

\* The list M has the same things of q as L, and none more than once.
Spares(L, M, q) == Of(M, q) = Of(L, q) /\ (Single(L, q) => Single(M, q))

\* One thing more in a list.
LEMMA AppendHeld ==
  ASSUME NEW L \in Seq(Record), NEW x \in Record
  PROVE  LET M == Append(L, x) IN
         /\ M \in Seq(Record) /\ Len(M) = Len(L) + 1
         /\ ToSet(M) = ToSet(L) \cup {x}
         /\ \A q \in Plugin \ {x.by} : Spares(L, M, q)
         /\ Of(M, x.by) = Of(L, x.by) \cup {x}
         /\ Single(L, x.by) /\ (\A r \in Of(L, x.by) : r.what = x.what => ~r.live) => Single(M, x.by)
<1> DEFINE M == Append(L, x)
           p == x.by
<1>1. Len(L) \in Nat /\ DOMAIN L = 1..Len(L) /\ \A i \in DOMAIN L : L[i] \in Record /\ L[i] \in ToSet(L)
  BY Places
<1>2. /\ M \in Seq(Record) /\ Len(M) = Len(L) + 1 /\ M[Len(L) + 1] = x
      /\ \A i \in 1..Len(L) : M[i] = L[i]
  BY AppendProperties
<1>3. DOMAIN M = 1..(Len(L) + 1)
  BY <1>2, LenProperties
<1> HIDE DEF M
<1>4. ToSet(M) = ToSet(L) \cup {x}
  <2>1. ToSet(M) \subseteq ToSet(L) \cup {x}
    BY <1>1, <1>2, <1>3 DEF ToSet
  <2>2. ToSet(L) \subseteq ToSet(M)
    BY <1>1, <1>2, <1>3 DEF ToSet
  <2>3. x \in ToSet(M)
    BY <1>1, <1>2, <1>3 DEF ToSet
  <2> QED
    BY <2>1, <2>2, <2>3
<1>5. ASSUME NEW q \in Plugin, Single(L, q),
             q = p => \A r \in Of(L, p) : r.what = x.what => ~r.live
      PROVE  Single(M, q)
  <2> SUFFICES ASSUME NEW i \in DOMAIN M, NEW j \in DOMAIN M,
                      M[i].by = q, M[i].live, M[j].by = q, M[j].live, M[i].what = M[j].what
               PROVE  i = j
    BY DEF Single
  <2>1. CASE i \in DOMAIN L /\ j \in DOMAIN L
    BY <1>1, <1>2, <1>5, <2>1 DEF Single
  <2>2. ASSUME NEW m \in DOMAIN L, M[m].by = q, M[m].live, q = p, M[m].what = x.what
        PROVE  FALSE
    BY <1>1, <1>2, <1>5, <2>2 DEF Of
  <2>3. \A m \in DOMAIN M : m \in DOMAIN L \/ m = Len(L) + 1
    BY <1>1, <1>3
  <2> QED
    BY <1>2, <2>1, <2>2, <2>3
<1>6. p \in Plugin
  BY DEF Record
<1>7. \A q \in Plugin \ {p} : Of(M, q) = Of(L, q)
  BY <1>4 DEF Of
<1>8. Of(M, p) = Of(L, p) \cup {x}
  BY <1>4 DEF Of
<1>9. \A q \in Plugin \ {p} : Spares(L, M, q)
  BY <1>5, <1>7 DEF Spares
<1>10. Single(L, p) /\ (\A r \in Of(L, p) : r.what = x.what => ~r.live) => Single(M, p)
  BY <1>5, <1>6
<1> QED
  BY <1>2, <1>4, <1>8, <1>9, <1>10 DEF M

\* A list from which some have been taken, the others in their order.
Shrinks(L, M) ==
  \E e \in [1..Len(M) -> 1..Len(L)] : IsInjective(e) /\ \A i \in 1..Len(M) : M[i] = L[e[i]]

\* What a shrunk list holds was held before, and what was in it once is so still.
LEMMA ShrunkHeld ==
  ASSUME NEW L \in Seq(Record), NEW M \in Seq(Record), Shrinks(L, M)
  PROVE  /\ ToSet(M) \subseteq ToSet(L)
         /\ \A q : Single(L, q) => Single(M, q)
<1>1. /\ Len(L) \in Nat /\ DOMAIN L = 1..Len(L) /\ Len(M) \in Nat /\ DOMAIN M = 1..Len(M)
  BY Places
<1>2. PICK e \in [1..Len(M) -> 1..Len(L)] : IsInjective(e) /\ \A i \in 1..Len(M) : M[i] = L[e[i]]
  BY DEF Shrinks
<1>3. \A i \in DOMAIN M : e[i] \in DOMAIN L /\ M[i] = L[e[i]]
  BY <1>1, <1>2
<1>4. \A i, j \in DOMAIN M : e[i] = e[j] => i = j
  BY <1>1, <1>2 DEF IsInjective
<1>5. ToSet(M) \subseteq ToSet(L)
  BY <1>3 DEF ToSet
<1>6. ASSUME NEW q, Single(L, q)
      PROVE  Single(M, q)
  <2> SUFFICES ASSUME NEW i \in DOMAIN M, NEW j \in DOMAIN M,
                      M[i].by = q, M[i].live, M[j].by = q, M[j].live, M[i].what = M[j].what
               PROVE  i = j
    BY DEF Single
  <2>1. e[i] = e[j]
    BY <1>3, <1>6 DEF Single
  <2> QED
    BY <1>4, <2>1
<1> QED
  BY <1>5, <1>6

\* Without keeps what is not in gone, in its order.
Keeping(f, held, gone) ==
  /\ f[0] = <<>>
  /\ \A n \in 1..Len(held) : f[n] = IF held[n] \in gone THEN f[n - 1] ELSE Append(f[n - 1], held[n])

\* Without is the last value of such a function.
LEMMA WithoutRuns ==
  ASSUME NEW L \in Seq(Record), NEW gone
  PROVE  \E f : Keeping(f, L, gone) /\ Without(L, gone) = f[Len(L)]
<1> DEFINE k == Len(L)
           b == [x \in Seq(Record) \X Record |->
                  IF x[2] \in gone THEN x[1] ELSE Append(x[1], x[2])]
           Def(f) == f = [n \in 0..k |->
                       IF n = 0 THEN <<>>
                       ELSE IF L[n] \in gone THEN f[n - 1] ELSE Append(f[n - 1], L[n])]
<1>1. k \in Nat /\ DOMAIN L = 1..k /\ \A i \in 1..k : L[i] \in Record
  BY Places
<1>2. b \in [Seq(Record) \X Record -> Seq(Record)]
  BY AppendProperties
<1>3. <<>> \in Seq(Record)
  OBVIOUS
<1>4. \E g : Passes(g, Seq(Record), <<>>, L, Record, b)
  <2> HIDE DEF b
  <2> QED
    BY <1>2, <1>3, LoopRuns
<1>5. PICK g : Passes(g, Seq(Record), <<>>, L, Record, b)
  BY <1>4
<1>6. ASSUME NEW n \in 1..k
      PROVE  g[n] = IF L[n] \in gone THEN g[n - 1] ELSE Append(g[n - 1], L[n])
  <2>1. g \in [0..k -> Seq(Record)] /\ n - 1 \in 0..k
    BY <1>1, <1>5 DEF Passes
  <2>2. <<g[n - 1], L[n]>> \in Seq(Record) \X Record
    BY <1>1, <2>1
  <2>3. g[n] = b[<<g[n - 1], L[n]>>]
    BY <1>1, <1>5 DEF Passes
  <2> QED
    BY <2>2, <2>3
<1>7. g \in [0..k -> Seq(Record)] /\ g[0] = <<>>
  BY <1>5 DEF Passes
<1>8. Def(g)
  <2>1. ASSUME NEW n \in 0..k
        PROVE  g[n] = IF n = 0 THEN <<>>
                      ELSE IF L[n] \in gone THEN g[n - 1] ELSE Append(g[n - 1], L[n])
    <3>1. CASE n = 0
      BY <1>7, <3>1
    <3>2. CASE n \in 1..k
      BY <1>1, <1>6, <3>2
    <3> QED
      BY <1>1, <3>1, <3>2
  <2> QED
    BY <1>7, <2>1
<1> DEFINE kept == CHOOSE f : Def(f)
<1>9. Def(kept)
  <2> HIDE DEF Def
  <2> QED
    BY <1>8
<1>10. Without(L, gone) = kept[k]
  BY DEF Without
<1> HIDE DEF kept
<1>11. \A n \in 0..k : kept[n] = IF n = 0 THEN <<>>
                                ELSE IF L[n] \in gone THEN kept[n - 1] ELSE Append(kept[n - 1], L[n])
  BY <1>9
<1>12. 0 \in 0..k /\ \A n \in 1..k : n \in 0..k /\ n # 0
  BY <1>1
<1>13. Keeping(kept, L, gone)
  BY <1>11, <1>12 DEF Keeping
<1> QED
  BY <1>10, <1>13

\* What is left of the first n of a list.
RestOf(L, gone, n, m) ==
  /\ m \in Seq(Record)
  /\ ToSet(m) = {L[i] : i \in 1..n} \ gone
  /\ \E e \in [1..Len(m) -> 1..n] : IsInjective(e) /\ \A i \in 1..Len(m) : m[i] = L[e[i]]

\* One more is looked at.
LEMMA WithoutStep ==
  ASSUME NEW L \in Seq(Record), NEW gone, NEW n \in 1..Len(L), NEW m, RestOf(L, gone, n - 1, m)
  PROVE  RestOf(L, gone, n, IF L[n] \in gone THEN m ELSE Append(m, L[n]))
<1> DEFINE k == Len(L)
           before == {L[i] : i \in 1..(n - 1)}
<1>1. k \in Nat /\ DOMAIN L = 1..k /\ \A i \in 1..k : L[i] \in Record
  BY Places
<1>2. m \in Seq(Record) /\ ToSet(m) = before \ gone
  BY DEF RestOf
<1>3. Len(m) \in Nat /\ DOMAIN m = 1..Len(m)
  BY <1>2, Places
<1>4. PICK e \in [1..Len(m) -> 1..(n - 1)] :
        IsInjective(e) /\ \A i \in 1..Len(m) : m[i] = L[e[i]]
  BY DEF RestOf
<1>5. {L[i] : i \in 1..n} = before \cup {L[n]}
  BY <1>1
<1> HIDE DEF before
<1>6. CASE L[n] \in gone
  <2>1. e \in [1..Len(m) -> 1..n]
    BY <1>1
  <2>2. ToSet(m) = {L[i] : i \in 1..n} \ gone
    BY <1>2, <1>5, <1>6
  <2>3. RestOf(L, gone, n, m)
    BY <1>2, <1>4, <2>1, <2>2 DEF RestOf
  <2> QED
    BY <1>6, <2>3
<1>7. CASE L[n] \notin gone
  <2> DEFINE M == Append(m, L[n])
             d == [i \in 1..(Len(m) + 1) |-> IF i \in 1..Len(m) THEN e[i] ELSE n]
  <2>1. /\ M \in Seq(Record) /\ Len(M) = Len(m) + 1 /\ M[Len(m) + 1] = L[n]
        /\ \A i \in 1..Len(m) : M[i] = m[i]
    BY <1>1, <1>2, AppendProperties
  <2>2. ToSet(M) = ToSet(m) \cup {L[n]}
    BY <1>1, <1>2, AppendHeld
  <2> HIDE DEF M
  <2>3. ToSet(M) = {L[i] : i \in 1..n} \ gone
    BY <1>2, <1>5, <1>7, <2>2
  <2>4. d \in [1..(Len(m) + 1) -> 1..n]
    BY <1>1, <1>4
  <2>5. \A i \in 1..(Len(m) + 1) : (i \in 1..Len(m) /\ d[i] = e[i]) \/ (i = Len(m) + 1 /\ d[i] = n)
    BY <1>3
  <2>6. \A i \in 1..Len(m) : e[i] \in 1..(n - 1) /\ e[i] # n
    BY <1>1, <1>4
  <2> HIDE DEF d
  <2>7. IsInjective(d)
    <3>1. DOMAIN d = 1..(Len(m) + 1) /\ DOMAIN e = 1..Len(m)
      BY <1>4, <2>4
    <3> SUFFICES ASSUME NEW i \in DOMAIN d, NEW j \in DOMAIN d, d[i] = d[j]
                 PROVE  i = j
      BY DEF IsInjective
    <3>2. \A x, y \in 1..Len(m) : e[x] = e[y] => x = y
      BY <1>4, <3>1 DEF IsInjective
    <3> QED
      BY <2>5, <2>6, <3>1, <3>2
  <2>8. \A i \in 1..(Len(m) + 1) : M[i] = L[d[i]]
    BY <1>4, <2>1, <2>5
  <2>9. RestOf(L, gone, n, M)
    BY <2>1, <2>3, <2>4, <2>7, <2>8 DEF RestOf
  <2> QED
    BY <1>7, <2>9 DEF M
<1> QED
  BY <1>6, <1>7

\* What Without returns: the others, in their order.
LEMMA WithoutKeeps ==
  ASSUME NEW L \in Seq(Record), NEW gone
  PROVE  LET M == Without(L, gone) IN
         /\ M \in Seq(Record) /\ ToSet(M) = ToSet(L) \ gone /\ Shrinks(L, M)
<1> DEFINE k == Len(L)
           M == Without(L, gone)
           G(n) == {m \in Seq(Record) : RestOf(L, gone, n, m)}
           F == [n \in 0..k |-> G(n)]
<1>1. k \in Nat /\ DOMAIN L = 1..k /\ \A i \in 1..k : L[i] \in Record
  BY Places
<1>2. PICK f : Keeping(f, L, gone) /\ M = f[k]
  BY WithoutRuns
<1> HIDE DEF M
<1>3. f[0] \in G(0)
  <2> DEFINE e == [i \in 1..0 |-> i]
  <2>1. f[0] = <<>> /\ <<>> \in Seq(Record) /\ Len(<<>>) = 0 /\ ToSet(<<>>) = {}
    BY <1>2 DEF Keeping, ToSet
  <2>2. 1..0 = {}
    OBVIOUS
  <2>3. e \in [1..0 -> 1..0] /\ IsInjective(e)
    BY <2>2 DEF IsInjective
  <2>4. {L[i] : i \in 1..0} \ gone = {}
    BY <2>2
  <2> HIDE DEF e
  <2> QED
    BY <2>1, <2>2, <2>3, <2>4 DEF RestOf
<1>4. ASSUME NEW n \in 1..k, f[n - 1] \in G(n - 1)
      PROVE  f[n] \in G(n)
  <2>1. RestOf(L, gone, n - 1, f[n - 1])
    BY <1>4
  <2>2. RestOf(L, gone, n, f[n])
    <3>1. f[n] = IF L[n] \in gone THEN f[n - 1] ELSE Append(f[n - 1], L[n])
      BY <1>2 DEF Keeping
    <3> QED
      BY <2>1, <3>1, WithoutStep
  <2> QED
    BY <2>2 DEF RestOf
<1> HIDE DEF G
<1>5. \A n \in 0..k : F[n] = G(n)
  OBVIOUS
<1>6. 0 \in 0..k /\ k \in 0..k /\ \A n \in 1..k : n \in 0..k /\ n - 1 \in 0..k
  BY <1>1
<1>7. f[0] \in F[0] /\ \A n \in 1..k : f[n - 1] \in F[n - 1] => f[n] \in F[n]
  BY <1>3, <1>4, <1>5, <1>6
<1> HIDE DEF F
<1>8. f[k] \in F[k]
  BY <1>1, <1>6, <1>7, Settles
<1>9. RestOf(L, gone, k, M)
  BY <1>2, <1>5, <1>6, <1>8 DEF G
<1>10. ToSet(L) = {L[i] : i \in 1..k}
  BY <1>1 DEF ToSet
<1> QED
  BY <1>9, <1>10 DEF RestOf, Shrinks, M

\* RemoveFirstMatch, for what one may name by a set.
LEMMA RemovedShrinks ==
  ASSUME NEW L \in Seq(Record), NEW m \in 1..Len(L)
  PROVE  /\ RemoveAt(L, m) \in Seq(Record) /\ Shrinks(L, RemoveAt(L, m))
         /\ \A i \in 1..Len(L) : i # m => L[i] \in ToSet(RemoveAt(L, m))
<1> DEFINE M == RemoveAt(L, m)
           e == [i \in 1..(Len(L) - 1) |-> IF i < m THEN i ELSE i + 1]
<1>1. Len(L) \in Nat /\ DOMAIN L = 1..Len(L)
  BY Places
<1>2. /\ M \in Seq(Record) /\ Len(M) = Len(L) - 1
      /\ \A i \in 1..(Len(L) - 1) : M[i] = IF i < m THEN L[i] ELSE L[i + 1]
  BY RemoveAtElements
<1> HIDE DEF M
<1>3. DOMAIN M = 1..(Len(L) - 1)
  BY <1>2, LenProperties
<1>4. e \in [1..(Len(L) - 1) -> 1..Len(L)] /\ IsInjective(e)
  BY <1>1 DEF IsInjective
<1>5. \A i \in 1..(Len(L) - 1) : M[i] = L[e[i]]
  BY <1>2
<1> HIDE DEF e
<1>6. Shrinks(L, M)
  BY <1>2, <1>4, <1>5 DEF Shrinks
<1>7. ASSUME NEW i \in 1..Len(L), i # m
      PROVE  L[i] \in ToSet(M)
  <2>1. CASE i < m
    <3>1. i \in DOMAIN M /\ M[i] = L[i]
      BY <1>1, <1>2, <1>3, <2>1
    <3> QED
      BY <3>1 DEF ToSet
  <2>2. CASE i > m
    <3>1. i - 1 \in DOMAIN M /\ M[i - 1] = L[i]
      BY <1>1, <1>2, <1>3, <2>2
    <3> QED
      BY <3>1 DEF ToSet
  <2> QED
    BY <1>1, <1>7, <2>1, <2>2
<1> QED
  BY <1>2, <1>6, <1>7 DEF M

-----------------------------------------------------------------------------
(* One gift, given and taken back.                                          *)

\* Of what p gives there is nothing yet, or a command whose code is gone.
Free(held, p, g) == \A r \in Of(held, p) : r.what = g => g.kind = "command" /\ ~r.live

\* p gives g.
LEMMA GiveOne ==
  ASSUME NEW L \in Seq(Record), NEW p \in Plugin, NEW g \in Gives(p)
  PROVE  LET M == Give(L, p, g) IN
         /\ M \in Seq(Record) /\ Len(M) >= Len(L)
         /\ OwnedIn(L, g.kind) => OwnedIn(M, g.kind)
         /\ \A q \in Plugin \ {p} : Spares(L, M, q)
         /\ OwnedIn(L, g.kind) /\ Free(L, p, g) =>
              /\ Of(M, p) = Of(L, p) \cup {Given(p, g)}
              /\ Single(L, p) => Single(M, p)
<1> DEFINE M == Give(L, p, g)
           x == Given(p, g)
           Has == g.kind \in {"setting", "place"} /\ \E r \in ToSet(L) : r.what = g
           Older(r) == IF r.by = p /\ r.what = g THEN [r EXCEPT !.known = FALSE] ELSE r
           N == IF g.kind = "widget" THEN [i \in DOMAIN L |-> Older(L[i])] ELSE L
<1>1. Len(L) \in Nat /\ DOMAIN L = 1..Len(L) /\ \A i \in DOMAIN L : L[i] \in Record /\ L[i] \in ToSet(L)
  BY Places
<1>2. x \in Record /\ x.by = p /\ x.what = g /\ x.live
  BY GiftFits DEF Given, Record
<1>3. M = IF Has THEN L ELSE Append(N, x)
  BY DEF Give
<1> HIDE DEF M
<1>4. CASE Has
  <2>1. OwnedIn(L, g.kind) => ~Free(L, p, g)
    <3> SUFFICES ASSUME OwnedIn(L, g.kind)
                 PROVE  ~Free(L, p, g)
      OBVIOUS
    <3>1. PICK r \in ToSet(L) : r.what = g
      BY <1>4
    <3>2. r \in Record
      BY <3>1, Places
    <3>3. r.by \in Plugin /\ g \in Gives(r.by)
      BY <3>1, <3>2 DEF OwnedIn, Record
    <3>4. r.by = p
      BY <1>4, <3>3, GiftFits
    <3> QED
      BY <1>4, <3>1, <3>4 DEF Free, Of
  <2>2. M = L
    BY <1>3, <1>4
  <2> QED
    BY <1>1, <2>1, <2>2 DEF Spares, M
<1>5. CASE ~Has
  <2>1. M = Append(N, x)
    BY <1>3, <1>5
  <2>2. /\ N \in Seq(Record) /\ Len(N) = Len(L)
        /\ \A i \in DOMAIN L : /\ N[i].by = L[i].by /\ N[i].what = L[i].what /\ N[i].live = L[i].live
                               /\ L[i].by # p => N[i] = L[i]
                               /\ Free(L, p, g) => N[i] = L[i]
    <3>1. CASE g.kind = "widget"
      <4>1. N = [i \in 1..Len(L) |-> Older(L[i])]
        BY <1>1, <3>1
      <4>2. \A r \in Record : /\ Older(r) \in Record /\ Older(r).by = r.by /\ Older(r).what = r.what
                              /\ Older(r).live = r.live
        BY DEF Record
      <4>3. \A i \in DOMAIN L : Free(L, p, g) => Older(L[i]) = L[i]
        BY <1>1, <3>1 DEF Free, Of
      <4>4. \A r \in Record : r.by # p => Older(r) = r
        OBVIOUS
      <4> HIDE DEF Older, N
      <4>5. N \in Seq(Record)
        BY <1>1, <4>1, <4>2, IsASeq
      <4>6. Len(N) = Len(L)
        BY <1>1, <4>1, <4>5, LenProperties
      <4> QED
        BY <1>1, <4>1, <4>2, <4>3, <4>4, <4>5, <4>6
    <3>2. CASE g.kind # "widget"
      BY <1>1, <3>2
    <3> QED
      BY <3>1, <3>2
  <2> HIDE DEF N, x
  <2>3. DOMAIN N = DOMAIN L
    BY <1>1, <2>2, LenProperties
  <2>4. /\ M \in Seq(Record) /\ Len(M) = Len(N) + 1
        /\ ToSet(M) = ToSet(N) \cup {x}
        /\ \A q \in Plugin \ {p} : Spares(N, M, q)
        /\ Of(M, p) = Of(N, p) \cup {x}
        /\ Single(N, p) /\ (\A r \in Of(N, p) : r.what = g => ~r.live) => Single(M, p)
    BY <1>2, <2>1, <2>2, AppendHeld
  <2>5. \A q \in Plugin : Single(L, q) => Single(N, q)
    BY <2>2, <2>3 DEF Single
  <2>6. \A q \in Plugin \ {p} : Of(N, q) = Of(L, q)
    BY <2>2, <2>3 DEF Of, ToSet
  <2>7. \A q \in Plugin \ {p} : Spares(L, M, q)
    BY <2>4, <2>5, <2>6 DEF Spares
  <2>8. ASSUME OwnedIn(L, g.kind)
        PROVE  OwnedIn(M, g.kind)
    <3>1. OwnedIn(N, g.kind)
      <4>1. \A i \in DOMAIN L : L[i].what.kind = g.kind /\ L[i].what \in Gives(L[i].by)
        BY <1>1, <2>8 DEF OwnedIn
      <4> QED
        BY <2>2, <2>3, <4>1 DEF OwnedIn, ToSet
    <3>2. x.what.kind = g.kind /\ x.what \in Gives(x.by)
      BY <1>2
    <3> QED
      BY <2>4, <3>1, <3>2 DEF OwnedIn
  <2>9. ASSUME Free(L, p, g)
        PROVE  Of(M, p) = Of(L, p) \cup {x} /\ (Single(L, p) => Single(M, p))
    <3>1. \A i \in DOMAIN L : N[i] = L[i]
      BY <2>2, <2>9
    <3>2. ToSet(N) = ToSet(L)
      BY <2>3, <3>1 DEF ToSet
    <3>3. Of(N, p) = Of(L, p)
      BY <3>2 DEF Of
    <3>4. \A r \in Of(N, p) : r.what = g => ~r.live
      BY <2>9, <3>3 DEF Free
    <3> QED
      BY <2>4, <2>5, <3>3, <3>4
  <2>10. Len(M) >= Len(L)
    BY <1>1, <2>2, <2>4
  <2> QED
    BY <2>4, <2>7, <2>8, <2>9, <2>10 DEF M, x
<1> QED
  BY <1>4, <1>5

\* RemoveFirstMatch, with what matches at the places in T.
LEMMA FirstRemoved ==
  ASSUME NEW L \in Seq(Record), NEW T, T \subseteq 1..Len(L), NEW M,
         M = IF T # {} THEN RemoveAt(L, Min(T)) ELSE L
  PROVE  /\ M \in Seq(Record) /\ Shrinks(L, M)
         /\ \A i \in 1..Len(L) : i \notin T => L[i] \in ToSet(M)
<1>1. Len(L) \in Nat /\ DOMAIN L = 1..Len(L)
  BY Places
<1>2. CASE T = {}
  <2> DEFINE e == [i \in 1..Len(L) |-> i]
  <2>1. e \in [1..Len(L) -> 1..Len(L)] /\ IsInjective(e)
    BY DEF IsInjective
  <2>2. Shrinks(L, L)
    BY <2>1 DEF Shrinks
  <2>3. \A i \in 1..Len(L) : L[i] \in ToSet(L)
    BY Places
  <2> QED
    BY <1>2, <2>2, <2>3
<1>3. CASE T # {}
  <2>1. \E i \in T : \A j \in T : i <= j
    <3>1. T \subseteq Nat
      BY <1>1
    <3> QED
      BY <1>3, <3>1, LeastNatural
  <2>2. Min(T) \in T
    BY <2>1 DEF Min
  <2> QED
    BY <1>3, <2>2, RemovedShrinks
<1> QED
  BY <1>2, <1>3

\* p takes g back.
LEMMA TakeOne ==
  ASSUME NEW L \in Seq(Record), NEW p \in Plugin, NEW g \in Gives(p)
  PROVE  LET M == Take(L, p, g) IN
         /\ M \in Seq(Record)
         /\ OwnedIn(L, g.kind) =>
              /\ OwnedIn(M, g.kind)
              /\ \A q \in Plugin \ {p} : Spares(L, M, q)
              /\ Single(L, p) /\ Remembered(L, p) /\ g # GatherCommand =>
                   /\ Of(M, p) = {r \in Of(L, p) : r.what # g}
                   /\ Single(M, p)
<1> DEFINE M == Take(L, p, g)
           gone == {r \in ToSet(L) : r.what = g /\ (g.kind = "event" => r.by = p)}
           T == {i \in 1..Len(L) : L[i].by = p /\ L[i].what = g /\ L[i].known}
           All == g.kind \in {"command", "event", "setting", "place"}
<1>1. Len(L) \in Nat /\ DOMAIN L = 1..Len(L) /\ \A i \in DOMAIN L : L[i] \in Record /\ L[i] \in ToSet(L)
  BY Places
<1>2. ASSUME NEW N \in Seq(Record), Shrinks(L, N), OwnedIn(L, g.kind),
             \A q \in Plugin \ {p} : Of(L, q) \subseteq ToSet(N)
      PROVE  /\ OwnedIn(N, g.kind)
             /\ \A q \in Plugin \ {p} : Spares(L, N, q)
             /\ Single(L, p) => Single(N, p)
  <2>1. ToSet(N) \subseteq ToSet(L) /\ \A q : Single(L, q) => Single(N, q)
    BY <1>2, ShrunkHeld
  <2>2. \A q \in Plugin \ {p} : Of(N, q) = Of(L, q)
    BY <1>2, <2>1 DEF Of
  <2> QED
    BY <1>2, <2>1, <2>2 DEF OwnedIn, Spares
<1>3. CASE All
  <2>1. M = Without(L, gone)
    BY <1>3 DEF Take
  <2> HIDE DEF M, gone
  <2>2. M \in Seq(Record) /\ ToSet(M) = ToSet(L) \ gone /\ Shrinks(L, M)
    BY <2>1, WithoutKeeps
  <2>3. ASSUME OwnedIn(L, g.kind)
        PROVE  \A r \in gone : r.by = p /\ r.what = g
    <3> SUFFICES ASSUME NEW r \in gone
                 PROVE  r.by = p /\ r.what = g
      OBVIOUS
    <3>1. r \in ToSet(L) /\ r.what = g /\ (g.kind = "event" => r.by = p)
      BY DEF gone
    <3>2. r \in Record
      BY <3>1, Places
    <3>3. r.by \in Plugin /\ g \in Gives(r.by)
      BY <2>3, <3>1, <3>2 DEF OwnedIn, Record
    <3> QED
      BY <3>1, <3>3, GiftFits
  <2>4. ASSUME OwnedIn(L, g.kind)
        PROVE  \A q \in Plugin \ {p} : Of(L, q) \subseteq ToSet(M)
    BY <2>2, <2>3, <2>4 DEF Of
  <2>5. ASSUME OwnedIn(L, g.kind)
        PROVE  Of(M, p) = {r \in Of(L, p) : r.what # g}
    BY <2>2, <2>3, <2>5 DEF Of, gone
  <2> QED
    BY <1>2, <2>2, <2>4, <2>5 DEF M
<1>4. CASE ~All
  <2>1. M = IF T # {} THEN RemoveAt(L, Min(T)) ELSE L
    <3>1. M = IF \E i \in 1..Len(L) : L[i].by = p /\ L[i].what = g /\ L[i].known
              THEN RemoveAt(L, IF T # {} THEN Min(T) ELSE 0) ELSE L
      BY <1>4 DEF Take, RemoveFirstMatch, SelectInSeq
    <3> QED
      BY <3>1
  <2> HIDE DEF M
  <2>2. M \in Seq(Record) /\ Shrinks(L, M) /\ \A i \in 1..Len(L) : i \notin T => L[i] \in ToSet(M)
    <3>1. T \subseteq 1..Len(L)
      OBVIOUS
    <3> HIDE DEF T
    <3> QED
      BY <2>1, <3>1, FirstRemoved
  <2>3. \A q \in Plugin \ {p} : Of(L, q) \subseteq ToSet(M)
    <3> SUFFICES ASSUME NEW q \in Plugin \ {p}, NEW r \in Of(L, q)
                 PROVE  r \in ToSet(M)
      OBVIOUS
    <3>1. r \in ToSet(L) /\ r.by = q
      BY DEF Of
    <3>2. PICK i \in DOMAIN L : L[i] = r
      BY <3>1, Places
    <3> QED
      BY <1>1, <2>2, <3>1, <3>2
  <2>4. ASSUME OwnedIn(L, g.kind), Single(L, p), Remembered(L, p), g # GatherCommand
        PROVE  Of(M, p) = {r \in Of(L, p) : r.what # g}
    <3>1. \A i \in DOMAIN L : L[i].by = p /\ L[i].what = g => i \in T /\ L[i].live
      BY <1>1, <2>4 DEF Remembered, Of, Record
    <3>2. \A i, j \in T : i = j
      BY <1>1, <2>4, <3>1 DEF Single
    <3>3. ToSet(M) \subseteq ToSet(L)
      BY <2>2, ShrunkHeld
    <3>4. ASSUME NEW r \in Of(L, p), r.what # g
          PROVE  r \in Of(M, p)
      <4>1. r \in ToSet(L) /\ r.by = p
        BY DEF Of
      <4>2. PICK i \in DOMAIN L : L[i] = r
        BY <4>1, Places
      <4> QED
        BY <1>1, <2>2, <3>4, <4>1, <4>2 DEF Of
    <3>5. ASSUME NEW r \in Of(M, p)
          PROVE  r \in Of(L, p) /\ r.what # g
      <4>1. r \in ToSet(L) /\ r \in ToSet(M) /\ r.by = p
        BY <3>3 DEF Of
      <4> SUFFICES ASSUME r.what = g
                   PROVE  FALSE
        BY <4>1 DEF Of
      <4>2. PICK n \in DOMAIN M : M[n] = r
        BY <2>2, <4>1, Places
      <4>3. PICK m \in DOMAIN L : L[m] = r
        BY <4>1, Places
      <4>4. m \in T
        BY <3>1, <4>1, <4>3
      <4>5. T = {m}
        BY <3>2, <4>4
      <4>6. Min(T) = m /\ m \in 1..Len(L)
        BY <1>1, <4>3, <4>5 DEF Min
      <4>7. M = RemoveAt(L, m)
        BY <2>1, <4>5, <4>6
      <4>8. /\ Len(M) = Len(L) - 1 /\ M \in Seq(Record)
            /\ \A i \in 1..(Len(L) - 1) : M[i] = IF i < m THEN L[i] ELSE L[i + 1]
        BY <4>6, <4>7, RemoveAtElements
      <4>9. n \in 1..(Len(L) - 1)
        BY <4>2, <4>8, LenProperties
      <4>10. ASSUME NEW i \in DOMAIN L, i # m
             PROVE  L[i] # r
        BY <3>1, <4>1, <4>5, <4>10
      <4> QED
        BY <1>1, <4>2, <4>6, <4>8, <4>9, <4>10
    <3> QED
      BY <3>4, <3>5
  <2> QED
    BY <1>2, <2>2, <2>3, <2>4 DEF M
<1> QED
  BY <1>3, <1>4

-----------------------------------------------------------------------------
(* What preinit, postinit and cleanup do: one gift after another.           *)

\* One gift after another is given.
GiveRun(f, given, p, gifts) ==
  /\ f \in [0..Len(gifts) -> Givens] /\ f[0] = given
  /\ \A n \in 1..Len(gifts) :
       f[n] = [f[n - 1] EXCEPT ![gifts[n].kind] = Give(f[n - 1][gifts[n].kind], p, gifts[n])]

\* So preinit and postinit run.
LEMMA GiveRuns ==
  ASSUME NEW h \in Hosts, NEW p \in Plugin, NEW gifts \in Seq(Gives(p))
  PROVE  \E f : /\ GiveRun(f, h.given, p, gifts)
                /\ Each(h, p, gifts, Give) = [h EXCEPT !.given = f[Len(gifts)]]
<1> DEFINE k == Len(gifts)
           G == Gives(p)
           b == [x \in Givens \X G |->
                  [x[1] EXCEPT ![x[2].kind] = Give(x[1][x[2].kind], p, x[2])]]
           Def(f) == f = [n \in 0..k |->
                       IF n = 0 THEN h.given
                       ELSE [f[n - 1] EXCEPT ![gifts[n].kind] = Give(@, p, gifts[n])]]
<1>1. k \in Nat /\ \A n \in 1..k : gifts[n] \in G
  BY LenProperties, ElementOfSeq
<1>2. h.given \in Givens
  BY DEF Hosts
<1>3. \A x \in Givens, g \in G : [x EXCEPT ![g.kind] = Give(x[g.kind], p, g)] \in Givens
  <2> SUFFICES ASSUME NEW x \in Givens, NEW g \in G
               PROVE  [x EXCEPT ![g.kind] = Give(x[g.kind], p, g)] \in Givens
    OBVIOUS
  <2>1. g.kind \in Kind
    BY GiftFits
  <2>2. x[g.kind] \in Seq(Record)
    BY <2>1 DEF Givens
  <2>3. Give(x[g.kind], p, g) \in Seq(Record)
    BY <2>2, GiveOne
  <2> QED
    BY <2>3 DEF Givens
<1>4. b \in [Givens \X G -> Givens]
  BY <1>3
<1>5. \E g : Passes(g, Givens, h.given, gifts, G, b)
  <2> HIDE DEF b
  <2> QED
    BY <1>2, <1>4, LoopRuns
<1>6. PICK g : Passes(g, Givens, h.given, gifts, G, b)
  BY <1>5
<1>7. g \in [0..k -> Givens] /\ g[0] = h.given
  BY <1>6 DEF Passes
<1>8. ASSUME NEW n \in 1..k
      PROVE  g[n] = [g[n - 1] EXCEPT ![gifts[n].kind] = Give(g[n - 1][gifts[n].kind], p, gifts[n])]
  <2>1. n - 1 \in 0..k
    BY <1>1
  <2>2. <<g[n - 1], gifts[n]>> \in Givens \X G
    BY <1>1, <1>7, <2>1
  <2>3. g[n] = b[<<g[n - 1], gifts[n]>>]
    BY <1>1, <1>6 DEF Passes
  <2> QED
    BY <2>2, <2>3
<1> HIDE DEF b
<1>9. Def(g)
  <2>1. ASSUME NEW n \in 0..k
        PROVE  g[n] = IF n = 0 THEN h.given
                      ELSE [g[n - 1] EXCEPT ![gifts[n].kind] = Give(g[n - 1][gifts[n].kind], p, gifts[n])]
    <3>1. CASE n = 0
      BY <1>7, <3>1
    <3>2. CASE n \in 1..k
      <4>1. n # 0
        BY <1>1, <3>2
      <4>2. g[n] = [g[n - 1] EXCEPT ![gifts[n].kind] = Give(g[n - 1][gifts[n].kind], p, gifts[n])]
        BY <1>8, <3>2
      <4> QED
        BY <4>1, <4>2, Zenon
    <3> QED
      BY <1>1, <3>1, <3>2
  <2> QED
    BY <1>7, <2>1
<1> DEFINE given == CHOOSE f : Def(f)
<1>10. Def(given)
  <2> HIDE DEF Def
  <2> QED
    BY <1>9
<1>11. Each(h, p, gifts, Give) = [h EXCEPT !.given = given[k]]
  BY DEF Each
<1> HIDE DEF given
<1>12. \A n \in 0..k : given[n] = IF n = 0 THEN h.given
                                  ELSE [given[n - 1] EXCEPT ![gifts[n].kind] =
                                          Give(given[n - 1][gifts[n].kind], p, gifts[n])]
  BY <1>10
<1>13. DOMAIN given = 0..k /\ given = [n \in 0..k |-> given[n]]
  BY <1>10
<1>14. 0 \in 0..k /\ \A n \in 1..k : n \in 0..k /\ n # 0 /\ n - 1 \in 0..k
  BY <1>1
<1>15. \A n \in 0..k : given[n] \in Givens
  <2> DEFINE F == [n \in 0..k |-> Givens]
  <2>1. given[0] \in F[0]
    BY <1>2, <1>12, <1>14
  <2>2. \A n \in 1..k : given[n - 1] \in F[n - 1] => given[n] \in F[n]
    <3> SUFFICES ASSUME NEW n \in 1..k, given[n - 1] \in Givens
                 PROVE  given[n] \in Givens
      BY <1>14
    <3>1. given[n] = [given[n - 1] EXCEPT ![gifts[n].kind] = Give(given[n - 1][gifts[n].kind], p, gifts[n])]
      BY <1>12, <1>14
    <3> QED
      BY <1>1, <1>3, <3>1
  <2> HIDE DEF F
  <2>3. \A n \in 0..k : given[n] \in F[n]
    BY <1>1, <2>1, <2>2, Settles
  <2> QED
    BY <2>3 DEF F
<1>16. GiveRun(given, h.given, p, gifts)
  BY <1>12, <1>13, <1>14, <1>15 DEF GiveRun
<1> QED
  BY <1>11, <1>16

\* One gift after another is taken back.
TakeRun(f, given, p, gifts) ==
  /\ f \in [0..Len(gifts) -> Givens] /\ f[0] = given
  /\ \A n \in 1..Len(gifts) :
       f[n] = [f[n - 1] EXCEPT ![gifts[n].kind] = Take(f[n - 1][gifts[n].kind], p, gifts[n])]

\* So cleanup runs.
LEMMA TakeRuns ==
  ASSUME NEW h \in Hosts, NEW p \in Plugin, NEW gifts \in Seq(Gives(p))
  PROVE  \E f : /\ TakeRun(f, h.given, p, gifts)
                /\ Each(h, p, gifts, Take) = [h EXCEPT !.given = f[Len(gifts)]]
<1> DEFINE k == Len(gifts)
           G == Gives(p)
           b == [x \in Givens \X G |->
                  [x[1] EXCEPT ![x[2].kind] = Take(x[1][x[2].kind], p, x[2])]]
           Def(f) == f = [n \in 0..k |->
                       IF n = 0 THEN h.given
                       ELSE [f[n - 1] EXCEPT ![gifts[n].kind] = Take(@, p, gifts[n])]]
<1>1. k \in Nat /\ \A n \in 1..k : gifts[n] \in G
  BY LenProperties, ElementOfSeq
<1>2. h.given \in Givens
  BY DEF Hosts
<1>3. \A x \in Givens, g \in G : [x EXCEPT ![g.kind] = Take(x[g.kind], p, g)] \in Givens
  <2> SUFFICES ASSUME NEW x \in Givens, NEW g \in G
               PROVE  [x EXCEPT ![g.kind] = Take(x[g.kind], p, g)] \in Givens
    OBVIOUS
  <2>1. g.kind \in Kind
    BY GiftFits
  <2>2. x[g.kind] \in Seq(Record)
    BY <2>1 DEF Givens
  <2>3. Take(x[g.kind], p, g) \in Seq(Record)
    BY <2>2, TakeOne
  <2> QED
    BY <2>3 DEF Givens
<1>4. b \in [Givens \X G -> Givens]
  BY <1>3
<1>5. \E g : Passes(g, Givens, h.given, gifts, G, b)
  <2> HIDE DEF b
  <2> QED
    BY <1>2, <1>4, LoopRuns
<1>6. PICK g : Passes(g, Givens, h.given, gifts, G, b)
  BY <1>5
<1>7. g \in [0..k -> Givens] /\ g[0] = h.given
  BY <1>6 DEF Passes
<1>8. ASSUME NEW n \in 1..k
      PROVE  g[n] = [g[n - 1] EXCEPT ![gifts[n].kind] = Take(g[n - 1][gifts[n].kind], p, gifts[n])]
  <2>1. n - 1 \in 0..k
    BY <1>1
  <2>2. <<g[n - 1], gifts[n]>> \in Givens \X G
    BY <1>1, <1>7, <2>1
  <2>3. g[n] = b[<<g[n - 1], gifts[n]>>]
    BY <1>1, <1>6 DEF Passes
  <2> QED
    BY <2>2, <2>3
<1> HIDE DEF b
<1>9. Def(g)
  <2>1. ASSUME NEW n \in 0..k
        PROVE  g[n] = IF n = 0 THEN h.given
                      ELSE [g[n - 1] EXCEPT ![gifts[n].kind] = Take(g[n - 1][gifts[n].kind], p, gifts[n])]
    <3>1. CASE n = 0
      BY <1>7, <3>1
    <3>2. CASE n \in 1..k
      <4>1. n # 0
        BY <1>1, <3>2
      <4>2. g[n] = [g[n - 1] EXCEPT ![gifts[n].kind] = Take(g[n - 1][gifts[n].kind], p, gifts[n])]
        BY <1>8, <3>2
      <4> QED
        BY <4>1, <4>2, Zenon
    <3> QED
      BY <1>1, <3>1, <3>2
  <2> QED
    BY <1>7, <2>1
<1> DEFINE given == CHOOSE f : Def(f)
<1>10. Def(given)
  <2> HIDE DEF Def
  <2> QED
    BY <1>9
<1>11. Each(h, p, gifts, Take) = [h EXCEPT !.given = given[k]]
  BY DEF Each
<1> HIDE DEF given
<1>12. \A n \in 0..k : given[n] = IF n = 0 THEN h.given
                                  ELSE [given[n - 1] EXCEPT ![gifts[n].kind] =
                                          Take(given[n - 1][gifts[n].kind], p, gifts[n])]
  BY <1>10
<1>13. DOMAIN given = 0..k /\ given = [n \in 0..k |-> given[n]]
  BY <1>10
<1>14. 0 \in 0..k /\ \A n \in 1..k : n \in 0..k /\ n # 0 /\ n - 1 \in 0..k
  BY <1>1
<1>15. \A n \in 0..k : given[n] \in Givens
  <2> DEFINE F == [n \in 0..k |-> Givens]
  <2>1. given[0] \in F[0]
    BY <1>2, <1>12, <1>14
  <2>2. \A n \in 1..k : given[n - 1] \in F[n - 1] => given[n] \in F[n]
    <3> SUFFICES ASSUME NEW n \in 1..k, given[n - 1] \in Givens
                 PROVE  given[n] \in Givens
      BY <1>14
    <3>1. given[n] = [given[n - 1] EXCEPT ![gifts[n].kind] = Take(given[n - 1][gifts[n].kind], p, gifts[n])]
      BY <1>12, <1>14
    <3> QED
      BY <1>1, <1>3, <3>1
  <2> HIDE DEF F
  <2>3. \A n \in 0..k : given[n] \in F[n]
    BY <1>1, <2>1, <2>2, Settles
  <2> QED
    BY <2>3 DEF F
<1>16. TakeRun(given, h.given, p, gifts)
  BY <1>12, <1>13, <1>14, <1>15 DEF TakeRun
<1> QED
  BY <1>11, <1>16

\* The lists Y are the lists X with more of p, of which the rest is as it was.
Gave(X, Y, p) ==
  /\ Y \in Givens /\ Owned(Y)
  /\ \A k \in Kind : Len(Y[k]) >= Len(X[k]) /\ \A q \in Plugin \ {p} : Spares(X[k], Y[k], q)

\* What p has more are the gifts in G.
GaveNew(X, Y, p, G) ==
  \A k \in Kind : /\ Of(Y[k], p) = Of(X[k], p) \cup {Given(p, g) : g \in {a \in G : a.kind = k}}
                  /\ Single(X[k], p) => Single(Y[k], p)

\* One gift more.
LEMMA GiveNext ==
  ASSUME NEW p \in Plugin, NEW X \in Givens, NEW Y, Gave(X, Y, p), NEW g \in Gives(p), NEW Z,
         Z = [Y EXCEPT ![g.kind] = Give(Y[g.kind], p, g)]
  PROVE  /\ Gave(X, Z, p)
         /\ \A G : GaveNew(X, Y, p, G) /\ g \notin G /\ Free(X[g.kind], p, g)
              => GaveNew(X, Z, p, G \cup {g})
<1> DEFINE j == g.kind
           M == Give(Y[j], p, g)
<1>1. j \in Kind
  BY GiftFits
<1>2. Y \in Givens /\ Owned(Y) /\ Y[j] \in Seq(Record) /\ OwnedIn(Y[j], j)
  BY <1>1 DEF Gave, Owned, Givens
<1>3. /\ M \in Seq(Record) /\ Len(M) >= Len(Y[j]) /\ OwnedIn(M, j)
      /\ \A q \in Plugin \ {p} : Spares(Y[j], M, q)
  BY <1>2, GiveOne
<1>4. ASSUME Free(Y[j], p, g)
      PROVE  Of(M, p) = Of(Y[j], p) \cup {Given(p, g)} /\ (Single(Y[j], p) => Single(M, p))
  BY <1>2, <1>4, GiveOne
<1> HIDE DEF M
<1>5. Z \in Givens /\ Z[j] = M /\ \A k \in Kind \ {j} : Z[k] = Y[k]
  BY <1>1, <1>2, <1>3 DEF Givens, M
<1>6. Owned(Z)
  BY <1>2, <1>3, <1>5 DEF Owned
<1>7. ASSUME NEW k \in Kind
      PROVE  Len(Z[k]) >= Len(X[k]) /\ \A q \in Plugin \ {p} : Spares(X[k], Z[k], q)
  <2>1. Len(Y[k]) >= Len(X[k]) /\ \A q \in Plugin \ {p} : Spares(X[k], Y[k], q)
    BY DEF Gave
  <2>2. Len(X[k]) \in Nat /\ Len(Y[k]) \in Nat /\ Len(M) \in Nat
    BY <1>2, <1>3, LenProperties DEF Givens
  <2>3. CASE k = j
    BY <1>3, <1>5, <2>1, <2>2, <2>3 DEF Spares
  <2>4. CASE k # j
    BY <1>5, <2>1, <2>4
  <2> QED
    BY <2>3, <2>4
<1>8. Gave(X, Z, p)
  BY <1>5, <1>6, <1>7 DEF Gave
<1>9. ASSUME NEW G, GaveNew(X, Y, p, G), g \notin G, Free(X[j], p, g)
      PROVE  GaveNew(X, Z, p, G \cup {g})
  <2>1. Free(Y[j], p, g)
    <3>1. Of(Y[j], p) = Of(X[j], p) \cup {Given(p, a) : a \in {b \in G : b.kind = j}}
      BY <1>1, <1>9 DEF GaveNew
    <3>2. \A a \in G : Given(p, a).what # g
      BY <1>9 DEF Given
    <3> QED
      BY <1>9, <3>1, <3>2 DEF Free
  <2>2. ASSUME NEW k \in Kind
        PROVE  /\ Of(Z[k], p) = Of(X[k], p) \cup {Given(p, a) : a \in {b \in G \cup {g} : b.kind = k}}
               /\ Single(X[k], p) => Single(Z[k], p)
    <3>1. /\ Of(Y[k], p) = Of(X[k], p) \cup {Given(p, a) : a \in {b \in G : b.kind = k}}
          /\ Single(X[k], p) => Single(Y[k], p)
      BY <1>9 DEF GaveNew
    <3>2. CASE k = j
      <4>1. {b \in G \cup {g} : b.kind = k} = {b \in G : b.kind = k} \cup {g}
        BY <3>2
      <4> QED
        BY <1>4, <1>5, <2>1, <3>1, <3>2, <4>1
    <3>3. CASE k # j
      <4>1. {b \in G \cup {g} : b.kind = k} = {b \in G : b.kind = k}
        BY <3>3
      <4> QED
        BY <1>5, <3>1, <3>3, <4>1
    <3> QED
      BY <3>2, <3>3
  <2> QED
    BY <2>2 DEF GaveNew
<1> QED
  BY <1>8, <1>9

\* All that p gives.
LEMMA GiveEach ==
  ASSUME NEW h \in Hosts, Owned(h.given), NEW p \in Plugin,
         NEW gifts \in Seq(Gives(p)), IsInjective(gifts)
  PROVE  LET e == Each(h, p, gifts, Give) IN
         /\ e = [h EXCEPT !.given = e.given]
         /\ Gave(h.given, e.given, p)
         /\ (\A g \in ToSet(gifts) : Free(h.given[g.kind], p, g))
              => GaveNew(h.given, e.given, p, ToSet(gifts))
<1> DEFINE k == Len(gifts)
           X == h.given
           e == Each(h, p, gifts, Give)
           AllFree == \A g \in ToSet(gifts) : Free(X[g.kind], p, g)
           G(n) == {Y \in Givens : Gave(X, Y, p) /\ (AllFree => GaveNew(X, Y, p, {gifts[i] : i \in 1..n}))}
           F == [n \in 0..k |-> G(n)]
<1>1. k \in Nat /\ DOMAIN gifts = 1..k /\ \A n \in 1..k : gifts[n] \in Gives(p) /\ gifts[n] \in ToSet(gifts)
  BY LenProperties, Places
<1>2. PICK f : GiveRun(f, X, p, gifts) /\ e = [h EXCEPT !.given = f[k]]
  BY GiveRuns
<1>3. X \in Givens
  BY DEF Hosts
<1> HIDE DEF e, X
<1>4. f[0] \in G(0)
  <2>1. Gave(X, X, p)
    <3>1. \A j \in Kind : Len(X[j]) \in Nat
      BY <1>3, LenProperties DEF Givens
    <3> QED
      BY <1>3, <3>1 DEF Gave, Spares, X
  <2>2. GaveNew(X, X, p, {gifts[i] : i \in 1..0})
    <3>1. {gifts[i] : i \in 1..0} = {}
      OBVIOUS
    <3> QED
      BY <3>1 DEF GaveNew
  <2>3. f[0] = X
    BY <1>2 DEF GiveRun
  <2> QED
    BY <1>3, <2>1, <2>2, <2>3
<1>5. ASSUME NEW n \in 1..k, f[n - 1] \in G(n - 1)
      PROVE  f[n] \in G(n)
  <2> DEFINE Y == f[n - 1]
             Z == f[n]
             g == gifts[n]
             S(m) == {gifts[i] : i \in 1..m}
  <2>1. g \in Gives(p) /\ g \in ToSet(gifts)
    BY <1>1
  <2>2. Gave(X, Y, p) /\ (AllFree => GaveNew(X, Y, p, S(n - 1)))
    BY <1>5
  <2>3. Z = [Y EXCEPT ![g.kind] = Give(Y[g.kind], p, g)]
    BY <1>2 DEF GiveRun
  <2>4. g \notin S(n - 1)
    <3>1. \A i \in 1..(n - 1) : i \in DOMAIN gifts /\ i # n
      BY <1>1
    <3> QED
      BY <1>1, <3>1 DEF IsInjective
  <2>5. S(n) = S(n - 1) \cup {g}
    BY <1>1
  <2> HIDE DEF Y, Z, g, S
  <2>6. Gave(X, Z, p)
    BY <1>3, <2>1, <2>2, <2>3, GiveNext
  <2>7. AllFree => GaveNew(X, Z, p, S(n))
    <3> SUFFICES ASSUME AllFree
                 PROVE  GaveNew(X, Z, p, S(n))
      OBVIOUS
    <3>1. Free(X[g.kind], p, g)
      BY <2>1
    <3>2. GaveNew(X, Z, p, S(n - 1) \cup {g})
      BY <1>3, <2>1, <2>2, <2>3, <2>4, <3>1, GiveNext
    <3> QED
      BY <2>5, <3>2
  <2>8. Z \in Givens
    BY <2>6 DEF Gave
  <2> QED
    BY <2>6, <2>7, <2>8 DEF Z, S
<1> HIDE DEF G
<1>6. \A n \in 0..k : F[n] = G(n)
  OBVIOUS
<1>7. 0 \in 0..k /\ k \in 0..k /\ \A n \in 1..k : n \in 0..k /\ n - 1 \in 0..k
  BY <1>1
<1>8. f[0] \in F[0] /\ \A n \in 1..k : f[n - 1] \in F[n - 1] => f[n] \in F[n]
  BY <1>4, <1>5, <1>6, <1>7
<1> HIDE DEF F
<1>9. f[k] \in F[k]
  BY <1>1, <1>7, <1>8, Settles
<1>10. f[k] \in G(k)
  BY <1>6, <1>7, <1>9
<1>11. e.given = f[k]
  BY <1>2 DEF Hosts
<1>12. ToSet(gifts) = {gifts[i] : i \in 1..k}
  BY <1>1 DEF ToSet
<1> QED
  BY <1>2, <1>10, <1>11, <1>12 DEF G, e, X

\* The lists Y are the lists X without those of p of the gifts in G, if p has
\* nothing twice.
Took(X, Y, p, G) ==
  /\ Y \in Givens /\ Owned(Y)
  /\ \A k \in Kind : \A q \in Plugin \ {p} : Spares(X[k], Y[k], q)
  /\ Orderly(X, p) =>
       \A k \in Kind : Of(Y[k], p) = {r \in Of(X[k], p) : r.what \notin G} /\ Single(Y[k], p)

\* One gift less.
LEMMA TakeNext ==
  ASSUME NEW p \in Plugin, NEW X \in Givens, NEW Y, NEW G, Took(X, Y, p, G),
         NEW g \in Gives(p), g # GatherCommand, NEW Z,
         Z = [Y EXCEPT ![g.kind] = Take(Y[g.kind], p, g)]
  PROVE  Took(X, Z, p, G \cup {g})
<1> DEFINE j == g.kind
           M == Take(Y[j], p, g)
<1>1. j \in Kind
  BY GiftFits
<1>2. Y \in Givens /\ Owned(Y) /\ Y[j] \in Seq(Record) /\ OwnedIn(Y[j], j)
  BY <1>1 DEF Took, Owned, Givens
<1>3. /\ M \in Seq(Record) /\ OwnedIn(M, j)
      /\ \A q \in Plugin \ {p} : Spares(Y[j], M, q)
  BY <1>2, TakeOne
<1>4. ASSUME Single(Y[j], p), Remembered(Y[j], p)
      PROVE  Of(M, p) = {r \in Of(Y[j], p) : r.what # g} /\ Single(M, p)
  BY <1>2, <1>4, TakeOne
<1> HIDE DEF M
<1>5. Z \in Givens /\ Z[j] = M /\ \A k \in Kind \ {j} : Z[k] = Y[k]
  BY <1>1, <1>2, <1>3 DEF Givens, M
<1>6. Owned(Z)
  BY <1>2, <1>3, <1>5 DEF Owned
<1>7. \A k \in Kind : \A q \in Plugin \ {p} : Spares(X[k], Z[k], q)
  <2>1. \A k \in Kind : \A q \in Plugin \ {p} : Spares(X[k], Y[k], q)
    BY DEF Took
  <2> QED
    BY <1>1, <1>3, <1>5, <2>1 DEF Spares
<1>8. ASSUME Orderly(X, p), NEW k \in Kind
      PROVE  Of(Z[k], p) = {r \in Of(X[k], p) : r.what \notin G \cup {g}} /\ Single(Z[k], p)
  <2>1. Of(Y[k], p) = {r \in Of(X[k], p) : r.what \notin G} /\ Single(Y[k], p)
    BY <1>8 DEF Took
  <2>2. Remembered(Y[k], p)
    BY <1>8, <2>1 DEF Orderly, Remembered
  <2>3. CASE k = j
    BY <1>4, <1>5, <2>1, <2>2, <2>3
  <2>4. CASE k # j
    <3>1. \A r \in Of(X[k], p) : r.what \notin G => r.what # g
      <4>1. X[k] \in Seq(Record) /\ OwnedIn(Y[k], k)
        BY <1>2 DEF Givens, Owned
      <4>2. \A r \in Of(Y[k], p) : r.what.kind = k
        BY <4>1 DEF OwnedIn, Of
      <4> QED
        BY <2>1, <2>4, <4>2
    <3> QED
      BY <1>5, <2>1, <2>4, <3>1
  <2> QED
    BY <2>3, <2>4
<1> QED
  BY <1>5, <1>6, <1>7, <1>8 DEF Took

\* All that p takes back.
LEMMA TakeEach ==
  ASSUME NEW h \in Hosts, Owned(h.given), NEW p \in Plugin,
         NEW gifts \in Seq(Gives(p)), GatherCommand \notin ToSet(gifts)
  PROVE  LET e == Each(h, p, gifts, Take) IN
         e = [h EXCEPT !.given = e.given] /\ Took(h.given, e.given, p, ToSet(gifts))
<1> DEFINE k == Len(gifts)
           X == h.given
           e == Each(h, p, gifts, Take)
           G(n) == {Y \in Givens : Took(X, Y, p, {gifts[i] : i \in 1..n})}
           F == [n \in 0..k |-> G(n)]
<1>1. k \in Nat /\ DOMAIN gifts = 1..k /\ \A n \in 1..k : gifts[n] \in Gives(p) /\ gifts[n] \in ToSet(gifts)
  BY LenProperties, Places
<1>2. PICK f : TakeRun(f, X, p, gifts) /\ e = [h EXCEPT !.given = f[k]]
  BY TakeRuns
<1>3. X \in Givens
  BY DEF Hosts
<1> HIDE DEF e
<1>4. f[0] \in G(0)
  <2>1. {gifts[i] : i \in 1..0} = {}
    OBVIOUS
  <2>2. Took(X, X, p, {})
    BY <1>3 DEF Took, Spares, Orderly
  <2>3. f[0] = X
    BY <1>2 DEF TakeRun
  <2> QED
    BY <1>3, <2>1, <2>2, <2>3
<1> HIDE DEF X
<1>5. ASSUME NEW n \in 1..k, f[n - 1] \in G(n - 1)
      PROVE  f[n] \in G(n)
  <2> DEFINE Y == f[n - 1]
             Z == f[n]
             g == gifts[n]
             S(m) == {gifts[i] : i \in 1..m}
  <2>1. g \in Gives(p) /\ g # GatherCommand
    BY <1>1
  <2>2. Took(X, Y, p, S(n - 1))
    BY <1>5
  <2>3. Z = [Y EXCEPT ![g.kind] = Take(Y[g.kind], p, g)]
    BY <1>2 DEF TakeRun
  <2>4. S(n) = S(n - 1) \cup {g}
    BY <1>1
  <2> HIDE DEF Y, Z, g, S
  <2>5. Took(X, Z, p, S(n - 1) \cup {g})
    BY <1>3, <2>1, <2>2, <2>3, TakeNext
  <2>6. Z \in Givens
    BY <2>5 DEF Took
  <2> QED
    BY <2>4, <2>5, <2>6 DEF Z, S
<1> HIDE DEF G
<1>6. \A n \in 0..k : F[n] = G(n)
  OBVIOUS
<1>7. 0 \in 0..k /\ k \in 0..k /\ \A n \in 1..k : n \in 0..k /\ n - 1 \in 0..k
  BY <1>1
<1>8. f[0] \in F[0] /\ \A n \in 1..k : f[n - 1] \in F[n - 1] => f[n] \in F[n]
  BY <1>4, <1>5, <1>6, <1>7
<1> HIDE DEF F
<1>9. f[k] \in F[k]
  BY <1>1, <1>7, <1>8, Settles
<1>10. f[k] \in G(k)
  BY <1>6, <1>7, <1>9
<1>11. e.given = f[k]
  BY <1>2 DEF Hosts
<1>12. ToSet(gifts) = {gifts[i] : i \in 1..k}
  BY <1>1 DEF ToSet
<1> QED
  BY <1>2, <1>10, <1>11, <1>12 DEF G, e, X

-----------------------------------------------------------------------------
(* What that makes of what a plugin has.                                    *)

\* For q, the lists X and Y are alike.
Alike(X, Y, q) == \A k \in Kind : Spares(X[k], Y[k], q)

\* Then it has the same.
LEMMA AlikeKept ==
  ASSUME NEW X, NEW Y, NEW q \in Plugin, Alike(X, Y, q)
  PROVE  Alive(Y, q) = Alive(X, q) /\ (Orderly(X, q) => Orderly(Y, q))
<1>1. \A k \in Kind : Of(Y[k], q) = Of(X[k], q) /\ (Single(X[k], q) => Single(Y[k], q))
  BY DEF Alike, Spares
<1>2. \A g \in Gives(q) : g.kind \in Kind
  BY GiftFits
<1> QED
  BY <1>1, <1>2 DEF Alive, Orderly, Remembered

\* The host after gifts have been given or taken back: the lists of other plugins
\* are alike.
Sound(h, e, p) ==
  /\ e \in Hosts /\ e.plugins = h.plugins /\ e.commands = h.commands /\ Owned(e.given)
  /\ \A q \in Plugin \ {p} : Alike(h.given, e.given, q)

\* An orderly p gives what it does not have.
LEMMA GiveKept ==
  ASSUME NEW h \in Hosts, Owned(h.given), NEW p \in Plugin, NEW gifts, NEW G, Lists(gifts, G),
         G \subseteq Gives(p)
  PROVE  LET e == Each(h, p, gifts, Give) IN
         /\ Sound(h, e, p) /\ Len(e.given["beat"]) >= Len(h.given["beat"])
         /\ Orderly(h.given, p) /\ Alive(h.given, p) \cap G = {} =>
              Orderly(e.given, p) /\ Alive(e.given, p) = Alive(h.given, p) \cup G
<1> DEFINE e == Each(h, p, gifts, Give)
           X == h.given
           Y == e.given
<1>1. ToSet(gifts) = G /\ IsInjective(gifts) /\ gifts \in Seq(Gives(p))
  BY SeqMonotonic DEF Lists
<1>2. /\ e = [h EXCEPT !.given = Y] /\ Gave(X, Y, p)
      /\ (\A g \in G : Free(X[g.kind], p, g)) => GaveNew(X, Y, p, G)
  BY <1>1, GiveEach
<1>3. X \in Givens /\ Y \in Givens /\ Owned(Y)
  BY <1>2 DEF Gave, Hosts
<1> HIDE DEF e
<1>4. Sound(h, e, p)
  <2>1. e \in Hosts /\ e.plugins = h.plugins /\ e.commands = h.commands
    BY <1>2, <1>3 DEF Hosts
  <2>2. \A q \in Plugin \ {p} : Alike(X, Y, q)
    BY <1>2 DEF Gave, Alike
  <2> QED
    BY <1>3, <2>1, <2>2 DEF Sound
<1>5. Len(Y["beat"]) >= Len(X["beat"])
  BY <1>2 DEF Gave, Kind
<1>6. ASSUME Orderly(X, p), Alive(X, p) \cap G = {}
      PROVE  Orderly(Y, p) /\ Alive(Y, p) = Alive(X, p) \cup G
  <2>1. \A g \in G : g.kind \in Kind /\ g \in Gives(p)
    BY GiftFits
  <2>2. ASSUME NEW g \in G
        PROVE  Free(X[g.kind], p, g)
    <3> SUFFICES ASSUME NEW r \in Of(X[g.kind], p), r.what = g
                 PROVE  g.kind = "command" /\ ~r.live
      BY DEF Free
    <3>1. ~r.live
      BY <1>6, <2>1 DEF Alive
    <3>2. g = GatherCommand
      BY <1>6, <2>1, <3>1 DEF Orderly, Remembered
    <3> QED
      BY <3>1, <3>2 DEF GatherCommand, Gift
  <2>3. \A k \in Kind : /\ Of(Y[k], p) = Of(X[k], p) \cup {Given(p, g) : g \in {a \in G : a.kind = k}}
                        /\ Single(X[k], p) => Single(Y[k], p)
    BY <1>2, <2>2 DEF GaveNew
  <2>4. \A g : Given(p, g).live /\ Given(p, g).known /\ Given(p, g).what = g
    BY DEF Given
  <2>5. Orderly(Y, p)
    <3> SUFFICES ASSUME NEW k \in Kind
                 PROVE  Single(Y[k], p) /\ Remembered(Y[k], p)
      BY DEF Orderly
    <3>1. Single(Y[k], p) /\ Remembered(X[k], p)
      BY <1>6, <2>3 DEF Orderly
    <3>2. Remembered(Y[k], p)
      BY <2>3, <2>4, <3>1 DEF Remembered
    <3> QED
      BY <3>1, <3>2
  <2>6. ASSUME NEW g \in Gives(p)
        PROVE  g \in Alive(Y, p) <=> g \in Alive(X, p) \cup G
    <3>1. g.kind \in Kind
      BY GiftFits
    <3>2. Of(Y[g.kind], p) = Of(X[g.kind], p) \cup {Given(p, b) : b \in {a \in G : a.kind = g.kind}}
      BY <2>3, <3>1
    <3>3. (\E r \in Of(Y[g.kind], p) : r.what = g /\ r.live)
            <=> (\E r \in Of(X[g.kind], p) : r.what = g /\ r.live) \/ g \in G
      BY <2>4, <3>2
    <3> QED
      BY <3>3 DEF Alive
  <2>7. Alive(Y, p) \subseteq Gives(p) /\ Alive(X, p) \subseteq Gives(p)
    BY DEF Alive
  <2> QED
    BY <2>5, <2>6, <2>7
<1> QED
  BY <1>4, <1>5, <1>6 DEF e

\* preinit.
LEMMA PreinitKept ==
  ASSUME NEW h \in Hosts, Owned(h.given), NEW p \in Plugin
  PROVE  LET e == Preinit(h, p)
             G == ToSet(Shipped[p].setup)
         IN /\ Sound(h, e, p) /\ Len(e.given["beat"]) >= Len(h.given["beat"])
            /\ Orderly(h.given, p) /\ Alive(h.given, p) \cap G = {} =>
                 Orderly(e.given, p) /\ Alive(e.given, p) = Alive(h.given, p) \cup G
<1>1. Lists(Shipped[p].setup, ToSet(Shipped[p].setup))
  BY ShippedPlans DEF Planned, Plan
<1>2. ToSet(Shipped[p].setup) \subseteq Gives(p)
  BY DEF Gives
<1> QED
  BY <1>1, <1>2, GiveKept DEF Preinit

\* postinit.
LEMMA PostinitKept ==
  ASSUME NEW h \in Hosts, Owned(h.given), NEW p \in Plugin
  PROVE  LET e == Postinit(h, p)
             G == ToSet(Shipped[p].start)
         IN /\ Sound(h, e, p) /\ Len(e.given["beat"]) >= Len(h.given["beat"])
            /\ Orderly(h.given, p) /\ Alive(h.given, p) \cap G = {} =>
                 Orderly(e.given, p) /\ Alive(e.given, p) = Alive(h.given, p) \cup G
<1>1. Lists(Shipped[p].start, ToSet(Shipped[p].start))
  BY ShippedPlans DEF Planned, Plan
<1>2. ToSet(Shipped[p].start) \subseteq Gives(p)
  BY DEF Gives
<1> QED
  BY <1>1, <1>2, GiveKept DEF Postinit

\* cleanup leaves the command.
LEMMA CleanupKept ==
  ASSUME NEW h \in Hosts, Owned(h.given), NEW p \in Plugin
  PROVE  LET e == Cleanup(h, p) IN
         /\ Sound(h, e, p)
         /\ Orderly(h.given, p) => Orderly(e.given, p) /\ Alive(e.given, p) \subseteq {GatherCommand}
<1> DEFINE gifts == Shipped[p].undone
           U == ToSet(gifts)
           e == Cleanup(h, p)
           X == h.given
           Y == e.given
<1>1. Lists(gifts, U) /\ U = Gives(p) \ {GatherCommand}
  BY ShippedPlans DEF Planned, Plan, Fits, Gives
<1>2. gifts \in Seq(Gives(p))
  BY <1>1, SeqMonotonic DEF Lists
<1>3. e = [h EXCEPT !.given = Y] /\ Took(X, Y, p, U)
  BY <1>1, <1>2, TakeEach DEF Cleanup
<1> HIDE DEF e, U
<1>4. Y \in Givens /\ Owned(Y)
  BY <1>3 DEF Took
<1>5. Sound(h, e, p)
  <2>1. e \in Hosts /\ e.plugins = h.plugins /\ e.commands = h.commands
    BY <1>3, <1>4 DEF Hosts
  <2>2. \A q \in Plugin \ {p} : Alike(X, Y, q)
    BY <1>3 DEF Took, Alike
  <2> QED
    BY <1>4, <2>1, <2>2 DEF Sound
<1>6. ASSUME Orderly(X, p)
      PROVE  Orderly(Y, p) /\ Alive(Y, p) \subseteq {GatherCommand}
  <2>1. \A k \in Kind : Of(Y[k], p) = {r \in Of(X[k], p) : r.what \notin U} /\ Single(Y[k], p)
    BY <1>3, <1>6 DEF Took
  <2>2. Orderly(Y, p)
    BY <1>6, <2>1 DEF Orderly, Remembered
  <2>3. Alive(Y, p) \subseteq {GatherCommand}
    <3> SUFFICES ASSUME NEW g \in Alive(Y, p)
                 PROVE  g = GatherCommand
      OBVIOUS
    <3>1. g \in Gives(p) /\ \E r \in Of(Y[g.kind], p) : r.what = g
      BY DEF Alive
    <3>2. g.kind \in Kind
      BY <3>1, GiftFits
    <3> QED
      BY <1>1, <2>1, <3>1, <3>2
  <2> QED
    BY <2>2, <2>3
<1> QED
  BY <1>5, <1>6 DEF e

\* The list of plugins with one file more.
LEMMA ListedMore ==
  ASSUME NEW s \in Seq(File), NEW f \in File
  PROVE  LET more == Append(s, f) IN
         /\ more \in Seq(File) /\ ToSet(more) = ToSet(s) \cup {f}
         /\ \A q : (q = f.plugin => \A t \in ToSet(s) : t.plugin # q) /\ Lone(s, q) => Lone(more, q)
<1> DEFINE more == Append(s, f)
           k == Len(s)
<1>1. k \in Nat /\ DOMAIN s = 1..k /\ \A i \in 1..k : s[i] \in ToSet(s)
  BY Places
<1>2. more \in Seq(File) /\ Len(more) = k + 1 /\ more[k + 1] = f /\ \A i \in 1..k : more[i] = s[i]
  BY AppendProperties
<1> HIDE DEF more
<1>3. DOMAIN more = 1..(k + 1)
  BY <1>2, LenProperties
<1>4. \A i \in DOMAIN more : i \in 1..k \/ i = k + 1
  BY <1>1, <1>3
<1>5. 1..k \subseteq DOMAIN more /\ k + 1 \in DOMAIN more
  BY <1>1, <1>3
<1>6. ToSet(more) = ToSet(s) \cup {f}
  BY <1>1, <1>2, <1>4, <1>5 DEF ToSet
<1>7. ASSUME NEW q, q = f.plugin => \A t \in ToSet(s) : t.plugin # q, Lone(s, q)
      PROVE  Lone(more, q)
  BY <1>1, <1>2, <1>4, <1>7 DEF Lone
<1> QED
  BY <1>2, <1>6, <1>7 DEF more

\* And with one less.
LEMMA ListedLess ==
  ASSUME NEW s \in Seq(File), NEW f \in ToSet(s)
  PROVE  LET rest == RemoveFirst(s, f) IN
         /\ rest \in Seq(File) /\ Len(rest) = Len(s) - 1 /\ ToSet(rest) \subseteq ToSet(s)
         /\ \A t \in ToSet(s) : t # f => t \in ToSet(rest)
         /\ \A q : Lone(s, q) => Lone(rest, q)
         /\ Lone(s, f.plugin) => \A t \in ToSet(rest) : t.plugin # f.plugin
<1> DEFINE rest == RemoveFirst(s, f)
           k == Len(s)
           I == {i \in 1..k : s[i] = f}
<1>1. k \in Nat /\ DOMAIN s = 1..k /\ (\A i \in 1..k : s[i] \in ToSet(s)) /\ \E i \in 1..k : s[i] = f
  BY Places
<1>2. rest = RemoveAt(s, Min(I))
  BY <1>1 DEF RemoveFirst, SelectInSeq
<1>3. Min(I) \in I
  <2>1. I \subseteq Nat /\ I # {}
    BY <1>1
  <2> HIDE DEF I
  <2>2. \E i \in I : \A j \in I : i <= j
    BY <2>1, LeastNatural
  <2> QED
    BY <2>2 DEF Min
<1> DEFINE m == Min(I)
<1>4. m \in 1..k /\ s[m] = f
  BY <1>3
<1> HIDE DEF I, m, rest
<1>5. /\ rest \in Seq(File) /\ Len(rest) = k - 1
      /\ \A i \in 1..(k - 1) : rest[i] = IF i < m THEN s[i] ELSE s[i + 1]
  BY <1>2, <1>4, RemoveAtElements DEF m
<1>6. DOMAIN rest = 1..(k - 1)
  BY <1>5, LenProperties
<1> DEFINE e == [i \in 1..(k - 1) |-> IF i < m THEN i ELSE i + 1]
<1>7. \A i \in 1..(k - 1) : e[i] \in 1..k /\ e[i] # m /\ rest[i] = s[e[i]]
  BY <1>1, <1>4, <1>5
<1>8. \A i, j \in 1..(k - 1) : e[i] = e[j] => i = j
  BY <1>1, <1>4
<1>9. ASSUME NEW i \in 1..k, i # m
      PROVE  s[i] \in ToSet(rest)
  <2>1. CASE i < m
    <3>1. i \in DOMAIN rest /\ rest[i] = s[i]
      BY <1>1, <1>4, <1>5, <1>6, <2>1
    <3> QED
      BY <3>1 DEF ToSet
  <2>2. CASE i > m
    <3>1. i - 1 \in DOMAIN rest /\ rest[i - 1] = s[i]
      BY <1>1, <1>4, <1>5, <1>6, <2>2
    <3> QED
      BY <3>1 DEF ToSet
  <2> QED
    BY <1>1, <1>4, <1>9, <2>1, <2>2
<1> HIDE DEF e
<1>10. ToSet(rest) \subseteq ToSet(s)
  <2> SUFFICES ASSUME NEW t \in ToSet(rest)
               PROVE  t \in ToSet(s)
    OBVIOUS
  <2>1. PICK i \in DOMAIN rest : rest[i] = t
    BY <1>5, Places
  <2> QED
    BY <1>1, <1>6, <1>7, <2>1
<1>11. \A t \in ToSet(s) : t # f => t \in ToSet(rest)
  <2> SUFFICES ASSUME NEW t \in ToSet(s), t # f
               PROVE  t \in ToSet(rest)
    OBVIOUS
  <2>1. PICK i \in DOMAIN s : s[i] = t
    BY Places
  <2> QED
    BY <1>1, <1>4, <1>9, <2>1
<1>12. \A q : Lone(s, q) => Lone(rest, q)
  BY <1>1, <1>6, <1>7, <1>8 DEF Lone
<1>13. ASSUME Lone(s, f.plugin), NEW t \in ToSet(rest)
       PROVE  t.plugin # f.plugin
  <2>1. PICK i \in DOMAIN rest : rest[i] = t
    BY <1>5, Places
  <2> QED
    BY <1>1, <1>4, <1>6, <1>7, <1>13, <2>1 DEF Lone
<1> QED
  BY <1>5, <1>10, <1>11, <1>12, <1>13 DEF rest

\* dlclose: when the code is gone nothing of p is alive.
LEMMA DlcloseKept ==
  ASSUME NEW h \in Hosts, Owned(h.given), NEW f \in ToSet(h.plugins)
  PROVE  LET e == Dlclose(h, f)
             p == f.plugin
         IN /\ e \in Hosts /\ Owned(e.given) /\ e.plugins = RemoveFirst(h.plugins, f)
            /\ Len(e.given["beat"]) = Len(h.given["beat"])
            /\ \A q \in Plugin \ {p} : Alike(h.given, e.given, q)
            /\ /\ \A t \in ToSet(e.plugins) : t.plugin # p
               /\ Orderly(h.given, p) /\ Alive(h.given, p) \subseteq {GatherCommand}
               => Orderly(e.given, p) /\ Alive(e.given, p) = {}
<1> DEFINE e == Dlclose(h, f)
           p == f.plugin
           X == h.given
           Y == e.given
           rest == RemoveFirst(h.plugins, f)
           gone == \A t \in ToSet(rest) : t.plugin # p
           Closed(r) == IF gone /\ r.by = p THEN [r EXCEPT !.live = FALSE] ELSE r
<1>1. /\ h.plugins \in Seq(File) /\ X \in Givens
      /\ h = [plugins |-> h.plugins, given |-> X, commands |-> h.commands] /\ h.commands \in BOOLEAN
  BY DEF Hosts
<1>2. rest \in Seq(File)
  BY <1>1, ListedLess
<1>3. e = [h EXCEPT !.plugins = rest, !.given = [k \in Kind |-> [i \in DOMAIN X[k] |-> Closed(X[k][i])]]]
  BY DEF Dlclose
<1> HIDE DEF e, rest
<1>4. e.plugins = rest /\ e.commands = h.commands /\ Y = [k \in Kind |-> [i \in DOMAIN X[k] |-> Closed(X[k][i])]]
  BY <1>1, <1>3
<1>5. \A r \in Record : /\ Closed(r) \in Record /\ Closed(r).by = r.by /\ Closed(r).what = r.what
                        /\ Closed(r).known = r.known
                        /\ r.by # p => Closed(r) = r
                        /\ gone /\ r.by = p => ~Closed(r).live
                        /\ Closed(r).live => r.live
  BY DEF Record
<1> HIDE DEF Closed
<1>6. ASSUME NEW k \in Kind
      PROVE  /\ Y[k] \in Seq(Record) /\ DOMAIN Y[k] = DOMAIN X[k] /\ Len(Y[k]) = Len(X[k])
             /\ \A i \in DOMAIN X[k] : X[k][i] \in Record /\ X[k][i] \in ToSet(X[k]) /\ Y[k][i] = Closed(X[k][i])
  <2>1. X[k] \in Seq(Record)
    BY <1>1 DEF Givens
  <2>2. Len(X[k]) \in Nat /\ DOMAIN X[k] = 1..Len(X[k])
        /\ \A i \in DOMAIN X[k] : X[k][i] \in Record /\ X[k][i] \in ToSet(X[k])
    BY <2>1, Places
  <2>3. Y[k] = [i \in 1..Len(X[k]) |-> Closed(X[k][i])]
    BY <1>4, <2>2
  <2>4. Y[k] \in Seq(Record)
    BY <1>5, <2>2, <2>3, IsASeq
  <2>5. Len(Y[k]) = Len(X[k])
    BY <2>2, <2>3, <2>4, LenProperties
  <2> QED
    BY <2>2, <2>3, <2>4, <2>5
<1>7. e \in Hosts
  <2>1. Y \in Givens
    BY <1>4, <1>6 DEF Givens
  <2> QED
    BY <1>1, <1>2, <1>3, <1>4, <2>1 DEF Hosts
<1>8. Owned(Y)
  <2> SUFFICES ASSUME NEW k \in Kind, NEW r \in ToSet(Y[k])
               PROVE  r.what.kind = k /\ r.what \in Gives(r.by)
    BY DEF Owned, OwnedIn
  <2>1. PICK i \in DOMAIN Y[k] : Y[k][i] = r
    BY <1>6, Places
  <2>2. X[k][i] \in ToSet(X[k]) /\ r.by = X[k][i].by /\ r.what = X[k][i].what
    BY <1>5, <1>6, <2>1
  <2> QED
    BY <2>2 DEF Owned, OwnedIn
<1>9. ASSUME NEW q \in Plugin, NEW k \in Kind, Single(X[k], q)
      PROVE  Single(Y[k], q)
  BY <1>5, <1>6, <1>9 DEF Single
<1>10. ASSUME NEW q \in Plugin \ {p}
       PROVE  Alike(X, Y, q)
  <2> SUFFICES ASSUME NEW k \in Kind
               PROVE  Of(Y[k], q) = Of(X[k], q)
    BY <1>9 DEF Alike, Spares
  <2>1. \A i \in DOMAIN X[k] : Y[k][i].by = X[k][i].by /\ (X[k][i].by = q => Y[k][i] = X[k][i])
    BY <1>5, <1>6
  <2> QED
    BY <1>6, <2>1 DEF Of, ToSet
<1>11. ASSUME gone, Orderly(X, p), Alive(X, p) \subseteq {GatherCommand}
       PROVE  Orderly(Y, p) /\ Alive(Y, p) = {}
  <2>1. p \in Plugin
    <3>1. f \in File
      BY <1>1, Places
    <3> QED
      BY <3>1, FileAssumption
  <2>2. ASSUME NEW k \in Kind, NEW r \in Of(Y[k], p)
        PROVE  ~r.live /\ r.what = GatherCommand
    <3>1. r \in ToSet(Y[k]) /\ r.by = p
      BY DEF Of
    <3>2. PICK i \in DOMAIN Y[k] : Y[k][i] = r
      BY <1>6, <3>1, Places
    <3> DEFINE x == X[k][i]
    <3>3. x \in Record /\ x \in ToSet(X[k]) /\ r = Closed(x)
      BY <1>6, <3>2
    <3> HIDE DEF x
    <3>4. x.by = p /\ x.what = r.what /\ ~r.live
      BY <1>5, <1>11, <3>1, <3>3
    <3>5. x \in Of(X[k], p)
      BY <3>3, <3>4 DEF Of
    <3>6. x.what.kind = k /\ x.what \in Gives(p)
      BY <3>3, <3>4 DEF Owned, OwnedIn
    <3>7. x.what = GatherCommand
      <4>1. CASE x.live
        <5>1. x.what \in Alive(X, p)
          BY <3>5, <3>6, <4>1 DEF Alive
        <5> QED
          BY <1>11, <5>1
      <4>2. CASE ~x.live
        BY <1>11, <3>5, <4>2 DEF Orderly, Remembered
      <4> QED
        BY <4>1, <4>2
    <3> QED
      BY <3>4, <3>7
  <2>3. Orderly(Y, p)
    BY <1>9, <1>11, <2>1, <2>2 DEF Orderly, Remembered
  <2>4. Alive(Y, p) = {}
    <3>1. \A g \in Gives(p) : g.kind \in Kind
      BY <2>1, GiftFits
    <3> QED
      BY <2>2, <3>1 DEF Alive
  <2> QED
    BY <2>3, <2>4
<1>12. Len(Y["beat"]) = Len(X["beat"])
  BY <1>6 DEF Kind
<1> QED
  BY <1>4, <1>7, <1>8, <1>10, <1>11, <1>12 DEF e, rest

-----------------------------------------------------------------------------
(* A step and what it leaves as it was.                                     *)

\* The plugin q is as it was, and the terminal does not begin or end to unload it.
SameOf(q) ==
  /\ Alike(host.given, host'.given, q)
  /\ Lone(host.plugins, q) => Lone(host'.plugins, q)
  /\ IsLoaded(host', q) = IsLoaded(host, q)
  /\ (q \in past'.started) = (q \in past.started)
  /\ term'.quit = term.quit
  /\ \/ term' = term
     \/ term'.file.plugin # q /\ (term.task \in {"unload", "close"} => term.file.plugin # q)
     \/ term'.file = term.file /\ term.task \notin {"unload", "close"}

\* Then it is kept.
LEMMA KeptSame ==
  ASSUME NEW q \in Plugin, Kept(q), SameOf(q)
  PROVE  Kept(q)'
<1>1. /\ Lone(host.plugins, q) /\ Orderly(host.given, q)
      /\ Alive(host'.given, q) = Alive(host.given, q) /\ Orderly(host'.given, q)
      /\ Lone(host'.plugins, q)
  BY AlikeKept DEF Kept, SameOf
<1> HIDE DEF Lone, Orderly, Alive, IsLoaded
<1>2. /\ ~IsLoaded(host, q) => Alive(host.given, q) = {} /\ q \notin past.started
      /\ term.file.plugin = q =>
           /\ Alive(host.given, q) \subseteq {GatherCommand}
           /\ term.task \in {"unload", "close"} \/ ~IsLoaded(host, q)
      /\ IsLoaded(host, q) /\ term.file.plugin # q =>
           /\ q \notin past.started => Alive(host.given, q) \subseteq ToSet(Shipped[q].setup)
           /\ ~term.quit => ToSet(Shipped[q].setup) \subseteq Alive(host.given, q)
           /\ ~term.quit /\ q \in past.started => Alive(host.given, q) = Gives(q)
  BY DEF Kept
<1>3. /\ IsLoaded(host', q) = IsLoaded(host, q)
      /\ (q \in past'.started) = (q \in past.started) /\ term'.quit = term.quit
      /\ \/ term' = term
         \/ term'.file.plugin # q /\ (term.task \in {"unload", "close"} => term.file.plugin # q)
         \/ term'.file = term.file /\ term.task \notin {"unload", "close"}
  BY DEF SameOf
<1>4. ~IsLoaded(host', q) => Alive(host'.given, q) = {} /\ q \notin past'.started
  BY <1>1, <1>2, <1>3
<1>5. term'.file.plugin = q =>
        /\ Alive(host'.given, q) \subseteq {GatherCommand}
        /\ term'.task \in {"unload", "close"} \/ ~IsLoaded(host', q)
  BY <1>1, <1>2, <1>3
<1>6. IsLoaded(host', q) /\ term'.file.plugin # q =>
        /\ q \notin past'.started => Alive(host'.given, q) \subseteq ToSet(Shipped[q].setup)
        /\ ~term'.quit => ToSet(Shipped[q].setup) \subseteq Alive(host'.given, q)
        /\ ~term'.quit /\ q \in past'.started => Alive(host'.given, q) = Gives(q)
  BY <1>1, <1>2, <1>3
<1> QED
  BY <1>1, <1>4, <1>5, <1>6 DEF Kept

\* While no plugin is mixed up, all that is held but commands leads to code that
\* is there, and the heartbeat has at most its one listener.
LEMMA NoneStale ==
  ASSUME IInv, past.mixed = {}
  PROVE  /\ ~Stale(host, "widget") /\ Len(host.given["beat"]) \in 0..1
         /\ host.given["beat"] # <<>> => IsLoaded(host, "Clock")
<1>1. host \in Hosts /\ Owned(host.given) /\ \A p \in Plugin : Kept(p)
  BY DEF IInv, Typed0
<1>2. "widget" \in Kind /\ "beat" \in Kind
  BY DEF Kind
<1>3. \A k \in Kind : host.given[k] \in Seq(Record) /\ OwnedIn(host.given[k], k)
  BY <1>1 DEF Hosts, Givens, Owned
<1>4. ASSUME NEW k \in Kind, k # "command", NEW r \in ToSet(host.given[k])
      PROVE  r.by \in Plugin /\ r.live /\ r.what \in Gives(r.by) /\ r.what.kind = k
  <2>1. r \in Record
    BY <1>3, Places
  <2>2. r.by \in Plugin /\ r.live \in BOOLEAN
    BY <2>1 DEF Record
  <2>3. r.what.kind = k /\ r.what \in Gives(r.by)
    BY <1>3 DEF OwnedIn
  <2>4. Remembered(host.given[k], r.by)
    BY <1>1, <2>2 DEF Kept, Orderly
  <2>5. r.what # GatherCommand
    BY <1>4, <2>3 DEF GatherCommand, Gift
  <2> QED
    BY <2>2, <2>3, <2>4, <2>5 DEF Remembered, Of
<1>5. ~Stale(host, "widget")
  BY <1>2, <1>4 DEF Stale
<1> DEFINE L == host.given["beat"]
<1>6. Len(L) \in Nat /\ DOMAIN L = 1..Len(L) /\ \A i \in DOMAIN L : L[i] \in ToSet(L)
  BY <1>2, <1>3, Places
<1>7. \A r \in ToSet(L) : r.by = "Clock" /\ r.live /\ r.what = Gift("beat", "tick") /\ r.what \in Gives("Clock")
  BY <1>2, <1>4, GiftFits
<1>8. "Clock" \in Plugin
  BY DEF Plugin, Shipped
<1>9. Single(L, "Clock") /\ (~IsLoaded(host, "Clock") => Alive(host.given, "Clock") = {})
  BY <1>1, <1>2, <1>8 DEF Kept, Orderly
<1> HIDE DEF L
<1>10. \A i, j \in DOMAIN L : i = j
  BY <1>6, <1>7, <1>9 DEF Single
<1>11. Len(L) \in 0..1
  BY <1>6, <1>10
<1>12. L # <<>> => IsLoaded(host, "Clock")
  <2> SUFFICES ASSUME L # <<>>
               PROVE  Alive(host.given, "Clock") # {}
    BY <1>9
  <2>1. Len(L) # 0
    BY <1>2, <1>3 DEF L
  <2>2. L[1] \in ToSet(L)
    BY <1>6, <2>1
  <2>3. Gift("beat", "tick").kind = "beat"
    BY DEF Gift
  <2> QED
    BY <1>7, <2>2, <2>3 DEF Alive, Of, L
<1> QED
  BY <1>5, <1>11, <1>12 DEF L

\* The heartbeat stays in a listener that is there, or has been freed.
LEMMA BeatKept ==
  ASSUME IInv, NEW next \in Hosts, past.mixed = {}
  PROVE  LET b == BeatIn(host, next) IN ~b.freed => b.at <= Len(next.given["beat"])
<1> DEFINE m == Len(host.given["beat"])
           n == Len(next.given["beat"])
           b == BeatIn(host, next)
<1>1. m \in 0..1
  BY NoneStale
<1>2. n \in Nat
  BY LenProperties DEF Hosts, Givens, Kind
<1>3. beat \in [on : BOOLEAN, at : Nat, freed : BOOLEAN] /\ (~beat.freed => beat.at <= m)
  BY DEF IInv, Typed0
<1>4. b = IF ~(m > n) \/ beat.at = 0 THEN beat
          ELSE IF beat.at = 1 THEN [beat EXCEPT !.freed = TRUE]
          ELSE [beat EXCEPT !.at = beat.at - 1]
  BY DEF BeatIn
<1> HIDE DEF m, n, b
<1>5. CASE ~(m > n) \/ beat.at = 0
  <2>1. b = beat
    BY <1>4, <1>5
  <2> QED
    BY <1>1, <1>2, <1>3, <1>5, <2>1 DEF n, b
<1>6. CASE m > n /\ beat.at = 1
  <2>1. b = [beat EXCEPT !.freed = TRUE]
    BY <1>2, <1>1, <1>4, <1>6
  <2>2. b.freed
    BY <1>3, <2>1
  <2> QED
    BY <2>2 DEF b
<1>7. CASE m > n /\ beat.at \notin {0, 1}
  <2>1. beat.freed
    BY <1>1, <1>3, <1>7
  <2>2. b = [beat EXCEPT !.at = beat.at - 1]
    BY <1>1, <1>2, <1>4, <1>7
  <2>3. b.freed = beat.freed
    BY <1>3, <2>2
  <2> QED
    BY <2>1, <2>3 DEF b
<1> QED
  BY <1>5, <1>6, <1>7

\* The heartbeat's state after that.
LEMMA BeatTyped ==
  ASSUME IInv, NEW next
  PROVE  BeatIn(host, next) \in [on : BOOLEAN, at : Nat, freed : BOOLEAN]
<1>1. beat \in [on : BOOLEAN, at : Nat, freed : BOOLEAN]
  BY DEF IInv, Typed0
<1>2. beat.at # 0 /\ beat.at # 1 => beat.at - 1 \in Nat
  BY <1>1
<1> QED
  BY <1>1, <1>2 DEF BeatIn

-----------------------------------------------------------------------------
(* Every step keeps IInv.                                                   *)

\* No file is none.
LEMMA NoneIsNone == NoFile.plugin \notin Plugin /\ NoFile \notin File
<1>1. NoFile.plugin = "none" /\ "none" \notin Plugin
  BY DEF NoFile, Plugin, Shipped
<1> QED
  BY <1>1, FileAssumption

\* A step that leaves the plugins and what is held as they are.
LEMMA QuietStep ==
  ASSUME IInv, host' = host, past' = past, Typed0',
         \/ term' = term
         \/ /\ term'.file = term.file /\ term'.quit = term.quit
            /\ term.task \in {"idle", "draw"} /\ term'.task \in {"idle", "draw"},
         past.mixed = {} /\ ~beat'.freed => beat'.at <= Len(host.given["beat"])
  PROVE  IInv'
<1>1. \A p \in Plugin \ past.mixed : Kept(p)'
  <2> SUFFICES ASSUME NEW p \in Plugin \ past.mixed
               PROVE  Kept(p)'
    OBVIOUS
  <2>1. Kept(p)
    BY DEF IInv
  <2>2. SameOf(p)
    BY DEF SameOf, Alike, Spares
  <2> QED
    BY <2>1, <2>2, KeptSame
<1>2. /\ term'.task \in {"unload", "close"} => HasPath(host', term'.file)
      /\ term'.task = "quit" => host'.plugins # <<>>
  BY DEF IInv
<1> QED
  BY <1>1, <1>2 DEF IInv

\* Where the threads are in the list of widgets.
LEMMA WalkTyped ==
  ASSUME walk \in [Thread -> {"off", "on", "torn"}]
  PROVE  /\ \A t \in Thread : EndsWalk(t) =>
              walk' \in [Thread -> {"off", "on", "torn"}] /\ walk'[t] = "off"
         /\ \A t, next, draws : Walks(t, next, draws) => walk' \in [Thread -> {"off", "on", "torn"}]
         /\ UNCHANGED walk => walk' \in [Thread -> {"off", "on", "torn"}]
<1>1. ASSUME NEW t \in Thread, EndsWalk(t)
      PROVE  walk' \in [Thread -> {"off", "on", "torn"}] /\ walk'[t] = "off"
  BY <1>1 DEF EndsWalk
<1>2. ASSUME NEW t, NEW next, NEW draws, Walks(t, next, draws)
      PROVE  walk' \in [Thread -> {"off", "on", "torn"}]
  BY <1>2 DEF Walks
<1> QED
  BY <1>1, <1>2

\* Where a thread is that walks.
LEMMA AThread == {"main", "term", "beat", "reader"} = Thread
  BY DEF Thread

\* The steps of the heartbeat and of a server's thread, the end of main, what is
\* drawn, and what is gathered.
LEMMA QuietSteps ==
  ASSUME IInv,
         \/ MainJoins \/ BeatCalls \/ BeatDraws \/ BeatReturns \/ KeyDraws \/ Drawn
         \/ (\E w \in TypedWord : Gather(w))
         \/ (\E p \in Plugin : ReaderCalls(p)) \/ ReaderDraws \/ ReaderReturns \/ Highlighted
  PROVE  IInv'
<1> USE DEF MainJoins, BeatCalls, BeatDraws, KeyDraws, Drawn, Gather, ReaderCalls, ReaderDraws,
            ReaderReturns, Highlighted
<1>0. /\ term \in [task : {"idle", "draw", "unload", "quit", "close", "ended"},
                    file : File \cup {NoFile}, quit : BOOLEAN]
      /\ walk \in [Thread -> {"off", "on", "torn"}]
  BY DEF IInv, Typed0
<1>1. /\ host' = host /\ past' = past
      /\ \/ term' = term
         \/ /\ term'.file = term.file /\ term'.quit = term.quit
            /\ term.task \in {"idle", "draw"} /\ term'.task \in {"idle", "draw"}
      /\ term' \in [task : {"idle", "draw", "unload", "quit", "close", "ended"},
                     file : File \cup {NoFile}, quit : BOOLEAN]
  <2>1. CASE KeyDraws \/ Drawn
    <3>1. host' = host /\ past' = past
          /\ \E task \in {"idle", "draw"} : term' = [term EXCEPT !.task = task]
          /\ term.task \in {"idle", "draw"}
      BY <2>1
    <3> QED
      BY <1>0, <3>1
  <2>2. CASE ~(KeyDraws \/ Drawn)
    <3>1. host' = host /\ past' = past /\ term' = term
      BY <2>2 DEF BeatReturns
    <3> QED
      BY <1>0, <3>1
  <2> QED
    BY <2>1, <2>2
<1>11. walk' \in [Thread -> {"off", "on", "torn"}]
  BY <1>0, WalkTyped, AThread DEF BeatReturns
<1>2. /\ Typed0
      /\ beat \in [on : BOOLEAN, at : Nat, freed : BOOLEAN]
      /\ main \in [at : {"postinit", "returns", "join", "stop", "done"}, next : File \cup {NoFile}]
  BY DEF IInv, Typed0
<1>3. main' \in [at : {"postinit", "returns", "join", "stop", "done"}, next : File \cup {NoFile}]
  BY <1>2 DEF BeatReturns
<1>4. /\ beat' \in [on : BOOLEAN, at : Nat, freed : BOOLEAN]
      /\ past.mixed = {} /\ ~beat'.freed => beat'.at <= Len(host.given["beat"])
  <2> DEFINE k == Len(host.given["beat"])
  <2>1. k \in Nat /\ (host.given["beat"] # <<>> => k > 0)
    <3>1. host.given["beat"] \in Seq(Record)
      BY <1>2 DEF Typed0, Hosts, Givens, Kind
    <3> QED
      BY <3>1, LenProperties
  <2>2. past.mixed = {} /\ ~beat.freed => beat.at <= k
    BY DEF IInv
  <2>3. CASE MainJoins
    BY <1>2, <2>2, <2>3
  <2>4. CASE BeatCalls
    BY <1>2, <2>1, <2>4
  <2>5. CASE BeatReturns
    <3>1. beat' = [beat EXCEPT !.freed = FALSE, !.at = IF ~beat.freed /\ beat.at < k THEN beat.at + 1 ELSE 0]
      BY <2>5 DEF BeatReturns
    <3> HIDE DEF k
    <3>2. PICK v \in 0..k : v = IF ~beat.freed /\ beat.at < k THEN beat.at + 1 ELSE 0
      BY <1>2, <2>1
    <3> DEFINE c == [beat EXCEPT !.freed = FALSE]
    <3>3. c \in [on : BOOLEAN, at : Nat, freed : BOOLEAN]
      BY <1>2
    <3>4. beat' = [c EXCEPT !.at = v]
      BY <3>1, <3>2
    <3> HIDE DEF k, c
    <3>5. beat'.at \in 0..k /\ beat' \in [on : BOOLEAN, at : Nat, freed : BOOLEAN]
      BY <2>1, <3>3, <3>4
    <3> QED
      BY <2>1, <3>5 DEF k
  <2>6. CASE \/ BeatDraws \/ KeyDraws \/ Drawn \/ (\E w \in TypedWord : Gather(w))
             \/ (\E p \in Plugin : ReaderCalls(p)) \/ ReaderDraws \/ ReaderReturns \/ Highlighted
    BY <1>2, <2>2, <2>6
  <2> QED
    BY <2>3, <2>4, <2>5, <2>6
<1>5. Typed0'
  BY <1>1, <1>2, <1>3, <1>4, <1>11 DEF Typed0
<1> QED
  BY <1>1, <1>4, <1>5, QuietStep

\* The step of postinitPlugins to the next plugin.
LEMMA ReturnsStep ==
  ASSUME IInv, MainReturns
  PROVE  IInv'
<1> DEFINE s == host.plugins
           I == {i \in 1..Len(s) : s[i] = main.next}
           here == IF I # {} THEN Min(I) ELSE 0
           behind == {f \in ToSet(s) : f.plugin \notin past.started}
           following == IF here = 0 THEN {NoFile} \cup behind
                        ELSE IF here = Len(s) THEN {NoFile} ELSE {s[here + 1]}
<1>1. host \in Hosts /\ s \in Seq(File) /\ walk \in [Thread -> {"off", "on", "torn"}]
  BY DEF IInv, Typed0, Hosts
<1>2. Len(s) \in Nat /\ DOMAIN s = 1..Len(s) /\ \A i \in DOMAIN s : s[i] \in File /\ s[i] \in ToSet(s)
  BY <1>1, Places
<1>3. here = 0 \/ here \in 1..Len(s)
  <2>1. CASE I = {}
    BY <2>1
  <2>2. CASE I # {}
    <3>1. I \subseteq Nat
      BY <1>2
    <3> HIDE DEF I
    <3>2. \E i \in I : \A j \in I : i <= j
      BY <2>2, <3>1, LeastNatural
    <3>3. here \in I
      BY <2>2, <3>2 DEF Min
    <3> QED
      BY <3>3 DEF I
  <2> QED
    BY <2>1, <2>2
<1>4. /\ \E next \in following :
           main' = [at |-> IF next = NoFile THEN "join" ELSE "postinit", next |-> next]
      /\ EndsWalk("main")
      /\ UNCHANGED <<host, term, beat, reader, gather, past>>
  BY DEF MainReturns, SelectInSeq
<1> HIDE DEF here
<1>5. main' \in [at : {"postinit", "returns", "join", "stop", "done"}, next : File \cup {NoFile}]
  <2>1. behind \subseteq File
    <3>1. ToSet(s) \subseteq File
      BY <1>1, Places
    <3> QED
      BY <3>1
  <2>2. following \subseteq File \cup {NoFile}
    BY <1>2, <1>3, <2>1
  <2> HIDE DEF following
  <2> QED
    BY <1>4, <2>2
<1>6. walk' \in [Thread -> {"off", "on", "torn"}]
  BY <1>1, <1>4, WalkTyped, AThread
<1>7. host' = host /\ term' = term /\ past' = past /\ beat' = beat
  BY <1>4
<1>8. Typed0'
  BY <1>5, <1>6, <1>7 DEF IInv, Typed0
<1> QED
  BY <1>7, <1>8, QuietStep DEF IInv

\* One turn of postinitPlugins.
LEMMA PostinitStep ==
  ASSUME IInv, MainStarts
  PROVE  IInv'
<1> DEFINE s == host.plugins
           here == HasPath(host, main.next)
<1>1. /\ host \in Hosts /\ Owned(host.given) /\ s \in Seq(File)
      /\ main \in [at : {"postinit", "returns", "join", "stop", "done"}, next : File \cup {NoFile}]
      /\ walk \in [Thread -> {"off", "on", "torn"}]
  BY DEF IInv, Typed0, Hosts
<1>2. \A f \in ToSet(s) : f \in File
  BY <1>1, Places
<1>3. here => main.next \in ToSet(s)
  BY DEF HasPath
<1>4. /\ main' = [main EXCEPT !.at = "returns"]
      /\ host' = IF here THEN Postinit(host, main.next.plugin) ELSE host
      /\ IF here THEN Started(main.next.plugin, main.next.plugin \in past.started) ELSE UNCHANGED past
      /\ \E next, draws : Walks("main", next, draws)
      /\ UNCHANGED <<term, beat, reader, gather>>
  BY DEF MainStarts
<1> HIDE DEF here
<1>5. /\ main' \in [at : {"postinit", "returns", "join", "stop", "done"}, next : File \cup {NoFile}]
      /\ walk' \in [Thread -> {"off", "on", "torn"}]
  BY <1>1, <1>4, WalkTyped
<1>6. CASE ~here
  <2>1. host' = host /\ term' = term /\ past' = past /\ beat' = beat
    BY <1>4, <1>6
  <2>2. Typed0'
    BY <1>5, <2>1 DEF IInv, Typed0
  <2> QED
    BY <2>1, <2>2, QuietStep DEF IInv
<1>7. CASE here
  <2>1. main.next \in ToSet(s) /\ main.next \in File
    BY <1>2, <1>3, <1>7
  <2>2. PICK p \in Plugin : p = main.next.plugin /\ IsLoaded(host, p)
    BY <2>1, FileAssumption DEF IsLoaded
  <2>3. host' = Postinit(host, p) /\ Started(p, p \in past.started)
    BY <1>4, <1>7, <2>2
  <2>4. term' = term /\ beat' = beat
    BY <1>4
  <2>5. /\ past' \in [started : SUBSET Plugin, mixed : SUBSET Plugin]
        /\ past'.started = past.started \cup {p}
        /\ past.mixed \subseteq past'.mixed
        /\ p \notin past'.mixed => p \notin past.started /\ term.file.plugin # p
    BY <2>3 DEF Started, IInv, Typed0
  <2> DEFINE B == ToSet(Shipped[p].start)
  <2>6. /\ Sound(host, host', p) /\ Len(host'.given["beat"]) >= Len(host.given["beat"])
        /\ Orderly(host.given, p) /\ Alive(host.given, p) \cap B = {} =>
             Orderly(host'.given, p) /\ Alive(host'.given, p) = Alive(host.given, p) \cup B
    BY <1>1, <2>2, <2>3, PostinitKept
  <2>7. host' \in Hosts /\ host'.plugins = s /\ Owned(host'.given)
        /\ \A q \in Plugin \ {p} : Alike(host.given, host'.given, q)
    BY <2>6 DEF Sound
  <2>8. Typed0'
    BY <1>5, <2>4, <2>5, <2>7 DEF IInv, Typed0
  <2>9. ASSUME NEW q \in Plugin \ past'.mixed, q # p
        PROVE  Kept(q)'
    <3>1. Kept(q)
      BY <2>5 DEF IInv
    <3>2. SameOf(q)
      BY <2>4, <2>5, <2>7, <2>9 DEF SameOf, IsLoaded
    <3> QED
      BY <3>1, <3>2, KeptSame
  <2>10. ASSUME p \notin past'.mixed
         PROVE  Kept(p)'
    <3> DEFINE A == ToSet(Shipped[p].setup)
    <3>1. Kept(p) /\ p \notin past.started /\ term.file.plugin # p
      BY <2>2, <2>5, <2>10 DEF IInv
    <3>2. /\ Orderly(host.given, p) /\ Alive(host.given, p) \subseteq A
          /\ ~term.quit => A \subseteq Alive(host.given, p)
      BY <2>2, <3>1 DEF Kept
    <3>3. A \cap B = {} /\ A \cup B = Gives(p)
      BY <2>2, ShippedPlans DEF Planned, Fits, Gives
    <3>4. Orderly(host'.given, p) /\ Alive(host'.given, p) = Alive(host.given, p) \cup B
      BY <2>6, <3>2, <3>3
    <3>5. ~term.quit => Alive(host'.given, p) = Gives(p)
      BY <3>2, <3>3, <3>4
    <3>6. IsLoaded(host', p) /\ Lone(host'.plugins, p) /\ p \in past'.started
      BY <2>2, <2>5, <2>7, <3>1 DEF IsLoaded, Kept
    <3>7. term'.file.plugin # p /\ term'.quit = term.quit
      BY <2>4, <3>1
    <3> QED
      BY <3>3, <3>4, <3>5, <3>6, <3>7 DEF Kept
  <2>11. \A q \in Plugin \ past'.mixed : Kept(q)'
    BY <2>9, <2>10
  <2>12. /\ term'.task \in {"unload", "close"} => HasPath(host', term'.file)
         /\ term'.task = "quit" => host'.plugins # <<>>
    BY <2>4, <2>7 DEF IInv, HasPath
  <2>13. past'.mixed = {} /\ ~beat'.freed => beat'.at <= Len(host'.given["beat"])
    <3> SUFFICES ASSUME past'.mixed = {}, ~beat.freed
                 PROVE  beat.at <= Len(host'.given["beat"])
      BY <2>4
    <3>1. beat.at <= Len(host.given["beat"]) /\ beat.at \in Nat
      BY <2>5 DEF IInv, Typed0
    <3>2. Len(host.given["beat"]) \in Nat /\ Len(host'.given["beat"]) \in Nat
      BY <1>1, <2>7, LenProperties DEF Hosts, Givens, Kind
    <3> QED
      BY <2>6, <3>1, <3>2
  <2> QED
    BY <2>8, <2>11, <2>12, <2>13 DEF IInv
<1> QED
  BY <1>6, <1>7

\* /plugin load.
LEMMA LoadStep ==
  ASSUME IInv, NEW word, NEW f \in File, Load(word, f)
  PROVE  IInv'
<1>1. PICK p \in Plugin : p = f.plugin
  BY FileAssumption
<1> DEFINE listed == [host EXCEPT !.plugins = Append(@, f)]
           middle == Preinit(listed, p)
           A == ToSet(Shipped[p].setup)
           B == ToSet(Shipped[p].start)
           X == host.given
           Y == middle.given
<1>2. /\ host \in Hosts /\ Owned(X) /\ host.plugins \in Seq(File)
      /\ term.task = "idle"
  BY DEF IInv, Typed0, Hosts, Load, Typing
<1>3. /\ host' = Postinit(middle, p) /\ Started(p, IsLoaded(host, p))
      /\ main' = main /\ beat' = beat
      /\ \E next, draws : Walks("term", next, draws)
      /\ \E task \in {"idle", "draw"} : term' = [term EXCEPT !.task = task]
  BY <1>1 DEF Load
<1>18. /\ term \in [task : {"idle", "draw", "unload", "quit", "close", "ended"},
                     file : File \cup {NoFile}, quit : BOOLEAN]
       /\ walk \in [Thread -> {"off", "on", "torn"}]
  BY DEF IInv, Typed0
<1>19. /\ term'.file = term.file /\ term'.quit = term.quit /\ term'.task \in {"idle", "draw"}
       /\ term' \in [task : {"idle", "draw", "unload", "quit", "close", "ended"},
                      file : File \cup {NoFile}, quit : BOOLEAN]
       /\ walk' \in [Thread -> {"off", "on", "torn"}]
  BY <1>3, <1>18, WalkTyped
<1>4. /\ past' \in [started : SUBSET Plugin, mixed : SUBSET Plugin]
      /\ past'.started = past.started \cup {p}
      /\ past.mixed \subseteq past'.mixed
      /\ p \notin past'.mixed => ~IsLoaded(host, p) /\ term.file.plugin # p
  BY <1>3 DEF Started, IInv, Typed0
<1>5. /\ Append(host.plugins, f) \in Seq(File)
      /\ ToSet(Append(host.plugins, f)) = ToSet(host.plugins) \cup {f}
      /\ \A q : (q = p => \A t \in ToSet(host.plugins) : t.plugin # q) /\ Lone(host.plugins, q)
           => Lone(Append(host.plugins, f), q)
  BY <1>1, <1>2, ListedMore
<1>6. listed \in Hosts /\ listed.given = X /\ listed.plugins = Append(host.plugins, f)
  BY <1>2, <1>5 DEF Hosts
<1> HIDE DEF listed
<1>7. /\ Sound(listed, middle, p) /\ Len(Y["beat"]) >= Len(X["beat"])
      /\ Orderly(X, p) /\ Alive(X, p) \cap A = {} =>
           Orderly(Y, p) /\ Alive(Y, p) = Alive(X, p) \cup A
  BY <1>2, <1>6, PreinitKept
<1> HIDE DEF middle
<1>8. middle \in Hosts /\ Owned(Y) /\ middle.plugins = listed.plugins
  BY <1>7 DEF Sound
<1>9. /\ Sound(middle, host', p) /\ Len(host'.given["beat"]) >= Len(Y["beat"])
      /\ Orderly(Y, p) /\ Alive(Y, p) \cap B = {} =>
           Orderly(host'.given, p) /\ Alive(host'.given, p) = Alive(Y, p) \cup B
  BY <1>3, <1>8, PostinitKept
<1>10. /\ host' \in Hosts /\ Owned(host'.given) /\ host'.plugins = Append(host.plugins, f)
  BY <1>6, <1>8, <1>9 DEF Sound
<1>11. \A q \in Plugin \ {p} : Alike(X, host'.given, q)
  BY <1>6, <1>7, <1>9 DEF Sound, Alike, Spares
<1>12. \A q : IsLoaded(host', q) = (IsLoaded(host, q) \/ q = p)
  BY <1>1, <1>5, <1>10 DEF IsLoaded
<1>13. Typed0'
  BY <1>3, <1>4, <1>10, <1>19 DEF IInv, Typed0
<1>14. ASSUME NEW q \in Plugin \ past'.mixed, q # p
       PROVE  Kept(q)'
  <2>1. Kept(q)
    BY <1>4 DEF IInv
  <2>2. IsLoaded(host', q) = IsLoaded(host, q)
    BY <1>12, <1>14 DEF IsLoaded
  <2>3. Lone(host.plugins, q) => Lone(host'.plugins, q)
    BY <1>5, <1>10, <1>14
  <2>4. SameOf(q)
    BY <1>2, <1>4, <1>11, <1>14, <1>19, <2>2, <2>3 DEF SameOf
  <2> QED
    BY <2>1, <2>4, KeptSame
<1>15. ASSUME p \notin past'.mixed
       PROVE  Kept(p)'
  <2>1. Kept(p) /\ ~IsLoaded(host, p) /\ term.file.plugin # p
    BY <1>4, <1>15 DEF IInv
  <2>2. Orderly(X, p) /\ Alive(X, p) = {} /\ Lone(host.plugins, p)
    BY <2>1 DEF Kept
  <2>3. A \cap B = {} /\ A \cup B = Gives(p)
    BY ShippedPlans DEF Planned, Fits, Gives
  <2>4. Orderly(Y, p) /\ Alive(Y, p) = A
    BY <1>7, <2>2
  <2>5. Orderly(host'.given, p) /\ Alive(host'.given, p) = Gives(p)
    BY <1>9, <2>3, <2>4
  <2>6. Lone(host'.plugins, p)
    BY <1>5, <1>10, <2>1, <2>2 DEF IsLoaded
  <2>7. IsLoaded(host', p) /\ p \in past'.started /\ term'.file.plugin # p
    BY <1>4, <1>12, <1>19, <2>1
  <2> QED
    BY <2>3, <2>5, <2>6, <2>7 DEF Kept
<1>16. \A q \in Plugin \ past'.mixed : Kept(q)'
  BY <1>14, <1>15
<1>17. past'.mixed = {} /\ ~beat'.freed => beat'.at <= Len(host'.given["beat"])
  <2> SUFFICES ASSUME past'.mixed = {}, ~beat.freed
               PROVE  beat.at <= Len(host'.given["beat"])
    BY <1>3
  <2>1. beat.at <= Len(X["beat"]) /\ beat.at \in Nat
    BY <1>4 DEF IInv, Typed0
  <2>2. Len(X["beat"]) \in Nat /\ Len(Y["beat"]) \in Nat /\ Len(host'.given["beat"]) \in Nat
    BY <1>2, <1>8, <1>10, LenProperties DEF Hosts, Givens, Kind
  <2> QED
    BY <1>7, <1>9, <2>1, <2>2
<1> QED
  BY <1>13, <1>16, <1>17, <1>19 DEF IInv

\* The first half of unloadPlugin.
LEMMA BeginStep ==
  ASSUME IInv, NEW f, f \in ToSet(host.plugins), NEW task \in {"unload", "close"},
         term.task \notin {"unload", "close"}, BeginUnload(f, task), main' = main
  PROVE  IInv'
<1>1. host \in Hosts /\ Owned(host.given) /\ host.plugins \in Seq(File)
  BY DEF IInv, Typed0, Hosts
<1>2. f \in File
  BY <1>1, Places
<1>3. PICK p \in Plugin : p = f.plugin
  BY <1>2, FileAssumption
<1>4. /\ host' = Cleanup(host, p) /\ beat' = BeatIn(host, host')
      /\ term' = [term EXCEPT !.task = task, !.file = f]
      /\ \E mixed \in {past.mixed, past.mixed \cup {p}} : past' = [past EXCEPT !.mixed = mixed]
      /\ \E next, draws : Walks("term", next, draws)
  BY <1>3 DEF BeginUnload
<1>15. /\ past \in [started : SUBSET Plugin, mixed : SUBSET Plugin]
       /\ walk \in [Thread -> {"off", "on", "torn"}]
  BY DEF IInv, Typed0
<1>16. /\ past' \in [started : SUBSET Plugin, mixed : SUBSET Plugin]
       /\ past'.started = past.started /\ past.mixed \subseteq past'.mixed
       /\ walk' \in [Thread -> {"off", "on", "torn"}]
  BY <1>4, <1>15, WalkTyped
<1>5. term \in [task : {"idle", "draw", "unload", "quit", "close", "ended"}, file : File \cup {NoFile}, quit : BOOLEAN]
  BY DEF IInv, Typed0
<1>6. /\ term'.task = task /\ term'.file = f /\ term'.quit = term.quit
      /\ term' \in [task : {"idle", "draw", "unload", "quit", "close", "ended"}, file : File \cup {NoFile}, quit : BOOLEAN]
  BY <1>2, <1>4, <1>5
<1>7. /\ Sound(host, host', p)
      /\ Orderly(host.given, p) => Orderly(host'.given, p) /\ Alive(host'.given, p) \subseteq {GatherCommand}
  BY <1>1, <1>4, CleanupKept
<1>8. /\ host' \in Hosts /\ Owned(host'.given) /\ host'.plugins = host.plugins
      /\ \A q \in Plugin \ {p} : Alike(host.given, host'.given, q)
  BY <1>7 DEF Sound
<1>9. Typed0'
  <2>1. beat' \in [on : BOOLEAN, at : Nat, freed : BOOLEAN]
    BY <1>4, BeatTyped
  <2> QED
    BY <1>4, <1>6, <1>8, <1>16, <2>1 DEF IInv, Typed0
<1>10. ASSUME NEW q \in Plugin \ past'.mixed, q # p
       PROVE  Kept(q)'
  <2>1. Kept(q)
    BY <1>16 DEF IInv
  <2>2. SameOf(q)
    BY <1>3, <1>6, <1>8, <1>10, <1>16 DEF SameOf, IsLoaded
  <2> QED
    BY <2>1, <2>2, KeptSame
<1>11. ASSUME p \notin past'.mixed
       PROVE  Kept(p)'
  <2>1. Kept(p)
    BY <1>11, <1>16 DEF IInv
  <2>2. Orderly(host'.given, p) /\ Alive(host'.given, p) \subseteq {GatherCommand}
    BY <1>7, <2>1 DEF Kept
  <2>3. Lone(host'.plugins, p) /\ IsLoaded(host', p)
    BY <1>3, <1>8, <2>1 DEF Kept, IsLoaded
  <2>4. term'.file.plugin = p /\ term'.task \in {"unload", "close"}
    BY <1>3, <1>6
  <2> QED
    BY <2>2, <2>3, <2>4 DEF Kept
<1>12. \A q \in Plugin \ past'.mixed : Kept(q)'
  BY <1>10, <1>11
<1>13. past'.mixed = {} /\ ~beat'.freed => beat'.at <= Len(host'.given["beat"])
  <2> SUFFICES ASSUME past'.mixed = {}
               PROVE  ~beat'.freed => beat'.at <= Len(host'.given["beat"])
    OBVIOUS
  <2>1. past.mixed = {}
    BY <1>16
  <2> QED
    BY <1>4, <1>8, <2>1, BeatKept
<1>14. HasPath(host', term'.file) /\ term'.task # "quit"
  BY <1>6, <1>8 DEF HasPath
<1> QED
  BY <1>9, <1>12, <1>13, <1>14 DEF IInv

\* The second half.
LEMMA EndStep ==
  ASSUME IInv, term.task \in {"unload", "close"}, EndUnload, main' = main, beat' = beat,
         term' \in [task : {"idle", "quit", "ended"}, file : {term.file, NoFile}, quit : {term.quit}],
         term'.task = "quit" => Len(host.plugins) # 1
  PROVE  IInv'
<1> DEFINE f == term.file
           X == host.given
<1>1. host \in Hosts /\ Owned(X) /\ host.plugins \in Seq(File) /\ f \in ToSet(host.plugins)
  BY DEF IInv, Typed0, Hosts, HasPath
<1>2. f \in File
  BY <1>1, Places
<1>3. PICK p \in Plugin : p = f.plugin
  BY <1>2, FileAssumption
<1>4. /\ host' = Dlclose(host, f) /\ past' = [past EXCEPT !.started = {q \in @ : IsLoaded(host', q)}]
      /\ EndsWalk("term")
  BY DEF EndUnload
<1>5. /\ past \in [started : SUBSET Plugin, mixed : SUBSET Plugin]
      /\ walk \in [Thread -> {"off", "on", "torn"}]
  BY DEF IInv, Typed0
<1>16. walk' \in [Thread -> {"off", "on", "torn"}]
  BY <1>4, <1>5, WalkTyped, AThread
<1>6. /\ past' \in [started : SUBSET Plugin, mixed : SUBSET Plugin] /\ past'.mixed = past.mixed
      /\ past'.started = {q \in past.started : IsLoaded(host', q)}
  BY <1>4, <1>5
<1> DEFINE rest == RemoveFirst(host.plugins, f)
<1>7. /\ rest \in Seq(File) /\ Len(rest) = Len(host.plugins) - 1 /\ ToSet(rest) \subseteq ToSet(host.plugins)
      /\ \A t \in ToSet(host.plugins) : t # f => t \in ToSet(rest)
      /\ \A q : Lone(host.plugins, q) => Lone(rest, q)
      /\ Lone(host.plugins, p) => \A t \in ToSet(rest) : t.plugin # p
  BY <1>1, <1>3, ListedLess
<1>8. /\ host' \in Hosts /\ Owned(host'.given) /\ host'.plugins = rest
      /\ Len(host'.given["beat"]) = Len(X["beat"])
      /\ \A q \in Plugin \ {p} : Alike(X, host'.given, q)
      /\ (\A t \in ToSet(rest) : t.plugin # p) /\ Orderly(X, p) /\ Alive(X, p) \subseteq {GatherCommand}
           => Orderly(host'.given, p) /\ Alive(host'.given, p) = {}
  BY <1>1, <1>3, <1>4, DlcloseKept
<1> HIDE DEF rest
<1>9. term'.file \in {f, NoFile} /\ term'.quit = term.quit /\ term'.task \notin {"unload", "close"}
  OBVIOUS
<1>10. Typed0'
  <2>1. term' \in [task : {"idle", "draw", "unload", "quit", "close", "ended"}, file : File \cup {NoFile}, quit : BOOLEAN]
    BY <1>2 DEF IInv, Typed0
  <2> QED
    BY <1>6, <1>8, <1>16, <2>1 DEF IInv, Typed0
<1>11. ASSUME NEW q \in Plugin \ past'.mixed, q # p
       PROVE  Kept(q)'
  <2>1. Kept(q)
    BY <1>6, <1>11 DEF IInv
  <2>2. IsLoaded(host', q) = IsLoaded(host, q)
    BY <1>3, <1>7, <1>8, <1>11 DEF IsLoaded
  <2>3. (q \in past'.started) = (q \in past.started)
    BY <1>6, <2>1, <2>2 DEF Kept
  <2>4. term'.file.plugin # q /\ f.plugin # q
    BY <1>3, <1>9, <1>11, NoneIsNone
  <2>5. SameOf(q)
    BY <1>7, <1>8, <1>9, <1>11, <2>2, <2>3, <2>4 DEF SameOf
  <2> QED
    BY <2>1, <2>5, KeptSame
<1>12. ASSUME p \notin past'.mixed
       PROVE  Kept(p)'
  <2>1. Kept(p)
    BY <1>6, <1>12 DEF IInv
  <2>2. Orderly(X, p) /\ Alive(X, p) \subseteq {GatherCommand} /\ Lone(host.plugins, p)
    BY <1>3, <2>1 DEF Kept
  <2>3. Orderly(host'.given, p) /\ Alive(host'.given, p) = {} /\ Lone(host'.plugins, p)
    BY <1>7, <1>8, <2>2
  <2>4. ~IsLoaded(host', p)
    BY <1>7, <1>8, <2>2 DEF IsLoaded
  <2>5. p \notin past'.started
    BY <1>6, <2>4
  <2> QED
    BY <2>3, <2>4, <2>5 DEF Kept
<1>13. \A q \in Plugin \ past'.mixed : Kept(q)'
  BY <1>11, <1>12
<1>14. past'.mixed = {} /\ ~beat'.freed => beat'.at <= Len(host'.given["beat"])
  BY <1>6, <1>8 DEF IInv
<1>15. term'.task = "quit" => host'.plugins # <<>>
  <2> SUFFICES ASSUME Len(host.plugins) # 1, rest = <<>>
               PROVE  FALSE
    BY <1>8
  <2>1. Len(rest) = 0
    OBVIOUS
  <2>2. Len(host.plugins) \in Nat
    BY <1>1, LenProperties
  <2> QED
    BY <1>7, <2>1, <2>2
<1> QED
  BY <1>9, <1>10, <1>13, <1>14, <1>15 DEF IInv

\* /quit.
LEMMA QuitStep ==
  ASSUME IInv, NEW word, Quit(word)
  PROVE  IInv'
<1> DEFINE X == host.given
           Y == host'.given
<1>1. /\ host \in Hosts /\ Owned(X) /\ X \in Givens
      /\ beat \in [on : BOOLEAN, at : Nat, freed : BOOLEAN]
      /\ term \in [task : {"idle", "draw", "unload", "quit", "close", "ended"}, file : File \cup {NoFile}, quit : BOOLEAN]
  BY DEF IInv, Typed0, Hosts
<1>2. /\ term.task = "idle" /\ host' = Cleared(host) /\ beat' = [beat EXCEPT !.freed = beat.at > 0]
      /\ term' = [term EXCEPT !.task = IF host.plugins = <<>> THEN "ended" ELSE "quit", !.quit = TRUE]
      /\ past' = past /\ main' = main
      /\ \E next, draws : Walks("term", next, draws)
  BY DEF Quit, Typing
<1>12. walk' \in [Thread -> {"off", "on", "torn"}]
  <2>1. walk \in [Thread -> {"off", "on", "torn"}]
    BY DEF IInv, Typed0
  <2> QED
    BY <1>2, <2>1, WalkTyped
<1>3. term'.task \in {"ended", "quit"} /\ (term'.task = "quit" => host.plugins # <<>>)
      /\ term'.file = term.file /\ term'.quit = TRUE
      /\ term' \in [task : {"idle", "draw", "unload", "quit", "close", "ended"}, file : File \cup {NoFile}, quit : BOOLEAN]
  BY <1>1, <1>2
<1>4. /\ host' \in Hosts /\ host'.plugins = host.plugins
      /\ \A k \in Kind : Y[k] = IF k \in {"command", "beat", "widget"} THEN <<>> ELSE X[k]
  <2> DEFINE G == [k \in Kind |-> IF k \in {"command", "beat", "widget"} THEN <<>> ELSE X[k]]
  <2>1. host' = [host EXCEPT !.commands = FALSE, !.given = G]
    BY <1>2 DEF Cleared
  <2>2. G \in Givens /\ \A k \in Kind : G[k] = IF k \in {"command", "beat", "widget"} THEN <<>> ELSE X[k]
    BY <1>1 DEF Givens
  <2> HIDE DEF G
  <2> QED
    BY <1>1, <2>1, <2>2 DEF Hosts
<1>5. \A k \in Kind : Y[k] = X[k] \/ Y[k] = <<>>
  BY <1>4
<1>6. ToSet(<<>>) = {} /\ DOMAIN <<>> = {}
  BY DEF ToSet
<1>7. Owned(Y)
  BY <1>1, <1>5, <1>6 DEF Owned, OwnedIn
<1>8. beat' \in [on : BOOLEAN, at : Nat, freed : BOOLEAN] /\ (~beat'.freed => beat'.at = 0)
  <2>1. CASE beat.at > 0
    <3>1. (beat.at > 0) = TRUE
      BY <2>1
    <3>2. beat' = [beat EXCEPT !.freed = TRUE]
      BY <1>2, <3>1
    <3> QED
      BY <1>1, <3>2
  <2>2. CASE ~(beat.at > 0)
    <3>1. (beat.at > 0) = FALSE
      BY <2>2
    <3>2. beat' = [beat EXCEPT !.freed = FALSE]
      BY <1>2, <3>1
    <3>3. beat.at \in Nat
      BY <1>1
    <3>4. beat.at = 0
      BY <2>2, <3>3
    <3> QED
      BY <1>1, <3>2, <3>4
  <2> QED
    BY <2>1, <2>2
<1>9. Typed0'
  BY <1>2, <1>3, <1>4, <1>7, <1>8, <1>12 DEF IInv, Typed0
<1>10. ASSUME NEW p \in Plugin \ past'.mixed
       PROVE  Kept(p)'
  <2>1. Kept(p)
    BY <1>2 DEF IInv
  <2>2. Orderly(Y, p)
    BY <1>5, <1>6, <2>1 DEF Kept, Orderly, Single, Remembered, Of
  <2>3. Alive(Y, p) \subseteq Alive(X, p)
    BY <1>5, <1>6, GiftFits DEF Alive, Of
  <2>4. Lone(host'.plugins, p) /\ IsLoaded(host', p) = IsLoaded(host, p)
    BY <1>4, <2>1 DEF Kept, IsLoaded
  <2>5. /\ ~IsLoaded(host, p) => Alive(X, p) = {} /\ p \notin past.started
        /\ term.file.plugin = p => Alive(X, p) \subseteq {GatherCommand} /\ ~IsLoaded(host, p)
        /\ IsLoaded(host, p) /\ term.file.plugin # p /\ p \notin past.started
             => Alive(X, p) \subseteq ToSet(Shipped[p].setup)
    BY <1>2, <2>1 DEF Kept
  <2> QED
    BY <1>2, <1>3, <2>2, <2>3, <2>4, <2>5 DEF Kept
<1>11. past'.mixed = {} /\ ~beat'.freed => beat'.at <= Len(host'.given["beat"])
  <2>1. Len(host'.given["beat"]) \in Nat
    BY <1>4, LenProperties DEF Hosts, Givens, Kind
  <2> QED
    BY <1>8, <2>1
<1> QED
  BY <1>3, <1>4, <1>9, <1>10, <1>11 DEF IInv

-----------------------------------------------------------------------------
(* The plugins of the directory are loaded before anything else happens.    *)

\* The host before preinitPlugins.
Empty == [plugins |-> InDirectory, given |-> [k \in Kind |-> <<>>], commands |-> TRUE]

\* The host after each of its turns.
Loading(f) ==
  /\ f \in [0..Len(InDirectory) -> Hosts] /\ f[0] = Empty
  /\ \A n \in 1..Len(InDirectory) : f[n] = Preinit(f[n - 1], InDirectory[n].plugin)

\* The plugins of the directory.
LEMMA Directory ==
  /\ InDirectory \in Seq(File) /\ Len(InDirectory) \in Nat
  /\ DOMAIN InDirectory = 1..Len(InDirectory)
  /\ \A i \in 1..Len(InDirectory) : /\ InDirectory[i] \in File /\ InDirectory[i] \in ToSet(InDirectory)
                                     /\ InDirectory[i].plugin \in Plugin
  /\ Empty \in Hosts
<1>1. InDirectory \in Seq(File)
  BY FileAssumption
<1>2. /\ Len(InDirectory) \in Nat /\ DOMAIN InDirectory = 1..Len(InDirectory)
      /\ \A i \in 1..Len(InDirectory) : InDirectory[i] \in File /\ InDirectory[i] \in ToSet(InDirectory)
  BY <1>1, Places
<1>3. [k \in Kind |-> <<>>] \in Givens
  BY DEF Givens
<1> QED
  BY <1>1, <1>2, <1>3, FileAssumption DEF Empty, Hosts

\* So preinitPlugins runs.
LEMMA LoadedRuns == \E f : Loading(f) /\ Loaded = f[Len(InDirectory)]
<1> DEFINE k == Len(InDirectory)
           b == [x \in Hosts \X File |-> Preinit(x[1], x[2].plugin)]
           Def(f) == f = [n \in 0..k |->
                       IF n = 0
                       THEN [plugins |-> InDirectory, given |-> [j \in Kind |-> <<>>], commands |-> TRUE]
                       ELSE Preinit(f[n - 1], InDirectory[n].plugin)]
<1>1. k \in Nat /\ \A n \in 1..k : InDirectory[n] \in File
  BY Directory
<1>2. \A h \in Hosts, t \in File : Preinit(h, t.plugin) \in Hosts
  <2> SUFFICES ASSUME NEW h \in Hosts, NEW t \in File
               PROVE  Preinit(h, t.plugin) \in Hosts
    OBVIOUS
  <2>1. PICK p \in Plugin : p = t.plugin
    BY FileAssumption
  <2> DEFINE gifts == Shipped[p].setup
  <2>2. gifts \in Seq(Gives(p))
    <3>1. gifts \in Seq(ToSet(gifts)) /\ ToSet(gifts) \subseteq Gives(p)
      BY ShippedPlans DEF Planned, Plan, Lists, Gives
    <3> QED
      BY <3>1, SeqMonotonic
  <2>3. Preinit(h, t.plugin) = Each(h, p, gifts, Give)
    BY <2>1 DEF Preinit
  <2> HIDE DEF gifts
  <2>4. PICK f : GiveRun(f, h.given, p, gifts) /\ Preinit(h, t.plugin) = [h EXCEPT !.given = f[Len(gifts)]]
    BY <2>2, <2>3, GiveRuns
  <2>5. f[Len(gifts)] \in Givens
    <3>1. Len(gifts) \in Nat
      BY <2>2, LenProperties
    <3> QED
      BY <2>4, <3>1 DEF GiveRun
  <2> QED
    BY <2>4, <2>5 DEF Hosts
<1>3. b \in [Hosts \X File -> Hosts]
  BY <1>2
<1>4. \E g : Passes(g, Hosts, Empty, InDirectory, File, b)
  <2> HIDE DEF b
  <2> QED
    BY <1>3, Directory, LoopRuns
<1>5. PICK g : Passes(g, Hosts, Empty, InDirectory, File, b)
  BY <1>4
<1>6. g \in [0..k -> Hosts] /\ g[0] = Empty
  BY <1>5 DEF Passes
<1>7. ASSUME NEW n \in 1..k
      PROVE  g[n] = Preinit(g[n - 1], InDirectory[n].plugin)
  <2>1. n - 1 \in 0..k
    BY <1>1
  <2>2. <<g[n - 1], InDirectory[n]>> \in Hosts \X File
    BY <1>1, <1>6, <2>1
  <2>3. g[n] = b[<<g[n - 1], InDirectory[n]>>]
    BY <1>1, <1>5 DEF Passes
  <2> QED
    BY <2>2, <2>3
<1> HIDE DEF b
<1>8. Def(g)
  <2>1. ASSUME NEW n \in 0..k
        PROVE  g[n] = IF n = 0
                      THEN [plugins |-> InDirectory, given |-> [j \in Kind |-> <<>>], commands |-> TRUE]
                      ELSE Preinit(g[n - 1], InDirectory[n].plugin)
    <3>1. CASE n = 0
      BY <1>6, <3>1 DEF Empty
    <3>2. CASE n \in 1..k
      <4>1. n # 0
        BY <1>1, <3>2
      <4>2. g[n] = Preinit(g[n - 1], InDirectory[n].plugin)
        BY <1>7, <3>2
      <4> QED
        BY <4>1, <4>2, Zenon
    <3> QED
      BY <1>1, <3>1, <3>2
  <2> QED
    BY <1>6, <2>1
<1> DEFINE after == CHOOSE f : Def(f)
<1>9. Def(after)
  <2> HIDE DEF Def
  <2> QED
    BY <1>8
<1>10. Loaded = after[k]
  BY DEF Loaded
<1> HIDE DEF after
<1>11. \A n \in 0..k : after[n] = IF n = 0 THEN Empty ELSE Preinit(after[n - 1], InDirectory[n].plugin)
  BY <1>9 DEF Empty
<1>12. DOMAIN after = 0..k /\ after = [n \in 0..k |-> after[n]]
  BY <1>9
<1>13. 0 \in 0..k /\ \A n \in 1..k : n \in 0..k /\ n # 0 /\ n - 1 \in 0..k
  BY <1>1
<1>14. \A n \in 0..k : after[n] \in Hosts
  <2> DEFINE F == [n \in 0..k |-> Hosts]
  <2>1. after[0] \in F[0]
    BY <1>11, <1>13, Directory
  <2>2. \A n \in 1..k : after[n - 1] \in F[n - 1] => after[n] \in F[n]
    <3> SUFFICES ASSUME NEW n \in 1..k, after[n - 1] \in Hosts
                 PROVE  after[n] \in Hosts
      BY <1>13
    <3>1. after[n] = Preinit(after[n - 1], InDirectory[n].plugin)
      BY <1>11, <1>13
    <3> QED
      BY <1>1, <1>2, <3>1
  <2> HIDE DEF F
  <2>3. \A n \in 0..k : after[n] \in F[n]
    BY <1>1, <2>1, <2>2, Settles
  <2> QED
    BY <2>3 DEF F
<1>15. Loading(after)
  BY <1>11, <1>12, <1>13, <1>14 DEF Loading
<1> QED
  BY <1>10, <1>15

\* After n turns: those that are listed once have given what preinit gives.
Preinited(h, n) ==
  /\ h \in Hosts /\ Owned(h.given) /\ h.plugins = InDirectory
  /\ \A p \in Plugin : Lone(InDirectory, p) =>
       /\ Orderly(h.given, p)
       /\ Alive(h.given, p) = IF \E i \in 1..n : InDirectory[i].plugin = p
                              THEN ToSet(Shipped[p].setup) ELSE {}

\* One more turn.
LEMMA PreinitedNext ==
  ASSUME NEW n \in 1..Len(InDirectory), NEW h, Preinited(h, n - 1), NEW e,
         e = Preinit(h, InDirectory[n].plugin)
  PROVE  Preinited(e, n)
<1>1. PICK p \in Plugin : p = InDirectory[n].plugin
  BY Directory
<1> DEFINE A == ToSet(Shipped[p].setup)
           k == Len(InDirectory)
<1>2. k \in Nat /\ DOMAIN InDirectory = 1..k
  BY Directory
<1>3. h \in Hosts /\ Owned(h.given) /\ h.plugins = InDirectory
  BY DEF Preinited
<1>4. /\ Sound(h, e, p)
      /\ Orderly(h.given, p) /\ Alive(h.given, p) \cap A = {} =>
           Orderly(e.given, p) /\ Alive(e.given, p) = Alive(h.given, p) \cup A
  BY <1>1, <1>3, PreinitKept
<1>5. e \in Hosts /\ Owned(e.given) /\ e.plugins = InDirectory
      /\ \A q \in Plugin \ {p} : Alike(h.given, e.given, q)
  BY <1>3, <1>4 DEF Sound
<1>6. ASSUME NEW q \in Plugin, Lone(InDirectory, q), q # p
      PROVE  /\ Orderly(e.given, q)
             /\ Alive(e.given, q) = IF \E i \in 1..n : InDirectory[i].plugin = q
                                    THEN ToSet(Shipped[q].setup) ELSE {}
  <2>1. /\ Orderly(h.given, q)
        /\ Alive(h.given, q) = IF \E i \in 1..(n - 1) : InDirectory[i].plugin = q
                               THEN ToSet(Shipped[q].setup) ELSE {}
    BY <1>6 DEF Preinited
  <2>2. Orderly(e.given, q) /\ Alive(e.given, q) = Alive(h.given, q)
    BY <1>5, <1>6, <2>1, AlikeKept
  <2>3. (\E i \in 1..n : InDirectory[i].plugin = q) <=> (\E i \in 1..(n - 1) : InDirectory[i].plugin = q)
    <3>1. \A i \in 1..n : i \in 1..(n - 1) \/ i = n
      BY <1>2
    <3>2. \A i \in 1..(n - 1) : i \in 1..n
      BY <1>2
    <3> QED
      BY <1>1, <1>6, <3>1, <3>2
  <2> QED
    BY <2>1, <2>2, <2>3
<1>7. ASSUME Lone(InDirectory, p)
      PROVE  /\ Orderly(e.given, p)
             /\ Alive(e.given, p) = IF \E i \in 1..n : InDirectory[i].plugin = p THEN A ELSE {}
  <2>1. ~ \E i \in 1..(n - 1) : InDirectory[i].plugin = p
    BY <1>1, <1>2, <1>7 DEF Lone
  <2>2. Orderly(h.given, p) /\ Alive(h.given, p) = {}
    BY <1>7, <2>1 DEF Preinited
  <2>3. n \in 1..n
    BY <1>2
  <2> HIDE DEF A
  <2> QED
    BY <1>1, <1>4, <2>2, <2>3
<1> QED
  BY <1>5, <1>6, <1>7 DEF Preinited

\* When the loop is through.
LEMMA LoadedKept == Preinited(Loaded, Len(InDirectory))
<1> DEFINE k == Len(InDirectory)
           G(n) == {h \in Hosts : Preinited(h, n)}
           F == [n \in 0..k |-> G(n)]
<1>1. k \in Nat
  BY Directory
<1>2. PICK f : Loading(f) /\ Loaded = f[k]
  BY LoadedRuns
<1>3. f[0] \in G(0)
  <2>1. /\ Empty \in Hosts /\ Empty.plugins = InDirectory
        /\ \A j \in Kind : Empty.given[j] = <<>>
    BY Directory DEF Empty
  <2>2. ToSet(<<>>) = {} /\ DOMAIN <<>> = {} /\ 1..0 = {}
    BY DEF ToSet
  <2>3. Owned(Empty.given)
    BY <2>1, <2>2 DEF Owned, OwnedIn
  <2>4. \A p \in Plugin : Orderly(Empty.given, p)
    BY <2>1, <2>2 DEF Orderly, Single, Remembered, Of
  <2>5. \A p \in Plugin : Alive(Empty.given, p) = {}
    BY <2>1, <2>2, GiftFits DEF Alive, Of
  <2>6. Preinited(Empty, 0)
    BY <2>1, <2>2, <2>3, <2>4, <2>5 DEF Preinited
  <2> QED
    BY <1>2, <2>1, <2>6 DEF Loading
<1>4. ASSUME NEW n \in 1..k, f[n - 1] \in G(n - 1)
      PROVE  f[n] \in G(n)
  <2>1. Preinited(f[n], n)
    BY <1>2, <1>4, PreinitedNext DEF Loading
  <2> QED
    BY <2>1 DEF Preinited
<1> HIDE DEF G
<1>5. \A n \in 0..k : F[n] = G(n)
  OBVIOUS
<1>6. 0 \in 0..k /\ k \in 0..k /\ \A n \in 1..k : n \in 0..k /\ n - 1 \in 0..k
  BY <1>1
<1>7. f[0] \in F[0] /\ \A n \in 1..k : f[n - 1] \in F[n - 1] => f[n] \in F[n]
  BY <1>3, <1>4, <1>5, <1>6
<1> HIDE DEF F
<1>8. f[k] \in F[k]
  BY <1>1, <1>6, <1>7, Settles
<1> QED
  BY <1>2, <1>5, <1>6, <1>8 DEF G

\* The program starts with it.
LEMMA InitKept ==
  ASSUME Init
  PROVE  IInv
<1>1. /\ host = Loaded
      /\ main = IF InDirectory = <<>> THEN [at |-> "join", next |-> NoFile]
                ELSE [at |-> "postinit", next |-> Head(InDirectory)]
      /\ term = [task |-> "idle", file |-> NoFile, quit |-> FALSE]
      /\ beat = [on |-> TRUE, at |-> 0, freed |-> FALSE]
      /\ past = [started |-> {}, mixed |-> {p \in Plugin : \E i, j \in DOMAIN InDirectory :
                   i # j /\ InDirectory[i].plugin = p /\ InDirectory[j].plugin = p}]
      /\ walk = [t \in Thread |-> "off"]
  BY DEF Init
<1>2. Preinited(host, Len(InDirectory))
  BY <1>1, LoadedKept
<1>3. host \in Hosts /\ Owned(host.given) /\ host.plugins = InDirectory
  BY <1>2 DEF Preinited
<1>4. main \in [at : {"postinit", "returns", "join", "stop", "done"}, next : File \cup {NoFile}]
  <2>1. CASE InDirectory = <<>>
    BY <1>1, <2>1
  <2>2. CASE InDirectory # <<>>
    <3>1. Head(InDirectory) \in File
      BY <2>2, Directory
    <3> QED
      BY <1>1, <2>2, <3>1
  <2> QED
    BY <2>1, <2>2
<1>5. Typed0
  <2>1. past \in [started : SUBSET Plugin, mixed : SUBSET Plugin]
    BY <1>1
  <2>2. beat \in [on : BOOLEAN, at : Nat, freed : BOOLEAN]
    BY <1>1
  <2>3. term \in [task : {"idle", "draw", "unload", "quit", "close", "ended"}, file : File \cup {NoFile}, quit : BOOLEAN]
    BY <1>1
  <2> QED
    <3>1. walk \in [Thread -> {"off", "on", "torn"}]
      BY <1>1
    <3> QED
      BY <1>3, <1>4, <2>1, <2>2, <2>3, <3>1 DEF Typed0
<1>6. ASSUME NEW p \in Plugin \ past.mixed
      PROVE  Kept(p)
  <2>1. Lone(InDirectory, p)
    BY <1>1, <1>6 DEF Lone
  <2>2. /\ Orderly(host.given, p)
        /\ Alive(host.given, p) = IF \E i \in 1..Len(InDirectory) : InDirectory[i].plugin = p
                                  THEN ToSet(Shipped[p].setup) ELSE {}
    BY <1>2, <2>1 DEF Preinited
  <2>3. IsLoaded(host, p) <=> \E i \in 1..Len(InDirectory) : InDirectory[i].plugin = p
    BY <1>3, Directory DEF IsLoaded, ToSet
  <2>4. p \notin past.started /\ term.file.plugin # p
    BY <1>1, NoneIsNone
  <2> QED
    BY <1>3, <2>1, <2>2, <2>3, <2>4 DEF Kept
<1>7. term.task = "idle" /\ beat.at = 0
  BY <1>1
<1>8. Len(host.given["beat"]) \in Nat
  BY <1>3, LenProperties DEF Hosts, Givens, Kind
<1> QED
  BY <1>5, <1>6, <1>7, <1>8 DEF IInv

\* And goes on with it.
LEMMA NextKept ==
  ASSUME IInv, [Next]_vars
  PROVE  IInv'
<1>1. CASE MainStarts \/ MainReturns
  BY <1>1, PostinitStep, ReturnsStep
<1>2. CASE \/ MainJoins \/ BeatCalls \/ BeatDraws \/ BeatReturns \/ KeyDraws \/ Drawn
           \/ (\E p \in Plugin : ReaderCalls(p)) \/ ReaderDraws \/ ReaderReturns \/ Highlighted
  BY <1>2, QuietSteps
<1>3. CASE TypedLine
  <2>1. PICK w \in TypedWord : Quit(w) \/ Gather(w) \/ \E f \in File : Load(w, f) \/ Unload(w, f)
    BY <1>3 DEF TypedLine
  <2>2. CASE Quit(w)
    BY <2>2, QuitStep
  <2>3. CASE Gather(w)
    BY <2>3, QuietSteps
  <2>4. ASSUME NEW f \in File, Load(w, f)
        PROVE  IInv'
    BY <2>4, LoadStep
  <2>5. ASSUME NEW f \in File, Unload(w, f)
        PROVE  IInv'
    <3>1. /\ term.task = "idle" /\ f \in ToSet(host.plugins)
          /\ BeginUnload(f, "unload") /\ main' = main
      BY <2>5 DEF Unload, Typing, HasPath
    <3> QED
      BY <3>1, BeginStep
  <2> QED
    BY <2>1, <2>2, <2>3, <2>4, <2>5
<1>4. CASE Unloaded \/ QuitUnloaded
  <2>1. /\ term.task \in {"unload", "close"} /\ EndUnload /\ main' = main /\ beat' = beat
        /\ \/ term' = [term EXCEPT !.task = "idle", !.file = NoFile]
           \/ term' = [term EXCEPT !.task = IF Len(host.plugins) = 1 THEN "ended" ELSE "quit"]
    BY <1>4 DEF Unloaded, QuitUnloaded
  <2>2. term \in [task : {"idle", "draw", "unload", "quit", "close", "ended"}, file : File \cup {NoFile}, quit : BOOLEAN]
    BY DEF IInv, Typed0
  <2>3. term' \in [task : {"idle", "quit", "ended"}, file : {term.file, NoFile}, quit : {term.quit}]
    BY <2>1, <2>2
  <2>4. term'.task = "quit" => Len(host.plugins) # 1
    BY <2>1, <2>2
  <2> QED
    BY <2>1, <2>3, <2>4, EndStep
<1>5. CASE QuitUnload
  <2>1. /\ term.task = "quit" /\ BeginUnload(Head(host.plugins), "close") /\ main' = main
        /\ host.plugins # <<>> /\ host.plugins \in Seq(File)
    BY <1>5 DEF QuitUnload, IInv, Typed0, Hosts
  <2>2. Head(host.plugins) \in ToSet(host.plugins)
    <3>1. 1 \in DOMAIN host.plugins /\ Head(host.plugins) = host.plugins[1]
      BY <2>1, LenProperties, EmptySeq
    <3> QED
      BY <3>1 DEF ToSet
  <2> QED
    BY <2>1, <2>2, BeginStep
<1>6. CASE UNCHANGED vars
  <2>1. host' = host /\ main' = main /\ term' = term /\ beat' = beat /\ past' = past /\ walk' = walk
    BY <1>6 DEF vars
  <2>2. Typed0'
    BY <2>1 DEF IInv, Typed0
  <2> QED
    BY <2>1, <2>2, QuietStep DEF IInv
<1> QED
  BY <1>1, <1>2, <1>3, <1>4, <1>5, <1>6 DEF Next

-----------------------------------------------------------------------------
(* What follows.                                                            *)

\* Whatever the threads do, a plugin that is not mixed up is listed once, has
\* given nothing twice, and has given what its stage says: what preinit gives
\* before main starts it, all of it then, and of what is being unloaded or gone
\* the command at most (PluginHost.cpp, Plugin.h).
THEOREM SessionKept == Spec => []IInv
<1>1. Init => IInv
  BY InitKept
<1>2. IInv /\ [Next]_vars => IInv'
  BY NextKept
<1> QED
  BY <1>1, <1>2, PTL DEF Spec

\* What is held of p that it gave.
LEMMA HeldOnce ==
  ASSUME IInv, NEW p \in Plugin \ past.mixed, p \in past.started, term.file.plugin # p, ~term.quit,
         NEW g \in Gives(p)
  PROVE  Held(p, g) = 1
<1> DEFINE L == host.given[g.kind]
           T == {i \in DOMAIN L : L[i].by = p /\ L[i].what = g /\ L[i].live}
<1>1. Kept(p)
  BY DEF IInv
<1>2. g.kind \in Kind
  BY GiftFits
<1>3. L \in Seq(Record)
  BY <1>2 DEF IInv, Typed0, Hosts, Givens
<1>4. IsLoaded(host, p)
  BY <1>1 DEF Kept
<1>5. g \in Alive(host.given, p)
  BY <1>1, <1>4 DEF Kept
<1>6. PICK r \in Of(L, p) : r.what = g /\ r.live
  BY <1>5 DEF Alive
<1>7. r \in ToSet(L) /\ r.by = p
  BY <1>6 DEF Of
<1> HIDE DEF L
<1>8. PICK i \in DOMAIN L : L[i] = r
  BY <1>3, <1>7, Places
<1>9. Single(L, p)
  BY <1>1, <1>2 DEF Kept, Orderly, L
<1>10. T = {i}
  BY <1>6, <1>7, <1>8, <1>9 DEF Single
<1>11. Cardinality({i}) = 1
  BY FS_Singleton
<1> QED
  BY <1>10, <1>11 DEF Held, L

\* For any files and any directory of plugins, and however the threads take
\* turns: a plugin leaves nothing behind but the command /gather, and has given
\* everything once while it is started.
THEOREM LeftoversAlways == Spec => []Leftovers
<1>1. IInv => Leftovers
  <2> SUFFICES ASSUME IInv
               PROVE  Leftovers
    OBVIOUS
  <2>1. ASSUME NEW p \in Plugin \ past.mixed, NEW k \in Kind, NEW r \in ToSet(host.given[k]),
               r.by = p, ~r.live
        PROVE  r.what = Gift("command", "gather")
    <3>1. Remembered(host.given[k], p)
      BY <2>1 DEF IInv, Kept, Orderly
    <3> QED
      BY <2>1, <3>1 DEF Remembered, Of, GatherCommand
  <2>2. {f.plugin : f \in File} \subseteq Plugin
    BY FileAssumption
  <2> QED
    BY <2>1, <2>2, HeldOnce DEF Leftovers
<1> QED
  BY <1>1, SessionKept, PTL

\* What may go wrong in one step.
Crash ==
  fault' # "none" =>
    \/ past.mixed # {}
    \/ fault' = "postinit" /\ ~HasPath(host, main.next)
    \/ fault' = "unload" /\ term'.file.plugin \notin past.started
    \/ (fault' = "beat" /\ beat.freed)
    \/ fault' = "bar" /\ \E t \in Thread : walk[t] = "torn" /\ walk'[t] = "off"
    \/ (fault' = "listener" /\ reader = "lost")
    \/ fault' = "gather" /\ gather.lines > 1
    \/ fault' \in {"gather", "quit"} /\ Stale(host, "command")

\* The steps of /plugin unload and /quit.
LEMMA UnloadCrash ==
  ASSUME NEW f, NEW task, BeginUnload(f, task),
         term \in [task : {"idle", "draw", "unload", "quit", "close", "ended"}, file : File \cup {NoFile}, quit : BOOLEAN]
  PROVE  Crash
<1>1. term'.file = f
  BY DEF BeginUnload
<1>2. fault' # "none" => fault' = "unload" /\ f.plugin \notin past.started
  BY DEF BeginUnload, Risk
<1> QED
  BY <1>1, <1>2 DEF Crash

\* A walk through the widgets ends.
LEMMA WalkCrash ==
  ASSUME NEW t \in Thread, walk \in [Thread -> {"off", "on", "torn"}], EndsWalk(t),
         ~Stale(host, "widget"), Lost(t), fault' = "bar"
  PROVE  Crash
<1>1. walk[t] = "torn"
  BY DEF Lost
<1>2. walk'[t] = "off"
  BY WalkTyped
<1> QED
  BY <1>1, <1>2 DEF Crash

\* However the threads take turns, memory that is freed or code that is unmapped
\* is used in the cases of CrashesKnown only.
THEOREM CrashesKnownAlways == Spec => CrashesKnown
<1>1. ASSUME IInv, [Next]_vars
      PROVE  [Crash]_vars
  <2> SUFFICES ASSUME Next, past.mixed = {}
               PROVE  Crash
    BY <1>1 DEF Crash
  <2>1. /\ ~Stale(host, "widget") /\ Len(host.given["beat"]) \in 0..1
        /\ host.given["beat"] # <<>> => IsLoaded(host, "Clock")
    BY <1>1, NoneStale
  <2>2. /\ term \in [task : {"idle", "draw", "unload", "quit", "close", "ended"}, file : File \cup {NoFile}, quit : BOOLEAN]
        /\ beat.at \in Nat /\ (~beat.freed => beat.at <= Len(host.given["beat"]))
        /\ host \in Hosts /\ walk \in [Thread -> {"off", "on", "torn"}]
    BY <1>1 DEF IInv, Typed0
  <2>3. CASE MainReturns
    <3> DEFINE s == host.plugins
               I == {i \in 1..Len(s) : s[i] = main.next}
               here == IF I # {} THEN Min(I) ELSE 0
    <3>1. /\ Risk(here = 0 \/ Lost("main"), IF here = 0 THEN "postinit" ELSE "bar")
          /\ EndsWalk("main")
      BY <2>3 DEF MainReturns, SelectInSeq
    <3>2. fault' # "none" => \/ here = 0 /\ fault' = "postinit"
                             \/ Lost("main") /\ fault' = "bar"
      BY <3>1 DEF Risk
    <3>3. HasPath(host, main.next) => here # 0
      <4> SUFFICES ASSUME HasPath(host, main.next)
                   PROVE  here # 0
        OBVIOUS
      <4>1. s \in Seq(File)
        BY <2>2 DEF Hosts
      <4>2. Len(s) \in Nat /\ DOMAIN s = 1..Len(s) /\ \E i \in DOMAIN s : s[i] = main.next
        BY <4>1, Places DEF HasPath
      <4>3. I # {} /\ I \subseteq 1..Len(s) /\ I \subseteq Nat
        BY <4>2
      <4> HIDE DEF I
      <4>4. \E i \in I : \A j \in I : i <= j
        BY <4>3, LeastNatural
      <4>5. Min(I) \in I
        BY <4>4 DEF Min
      <4> QED
        BY <4>2, <4>3, <4>5
    <3>4. CASE here = 0
      BY <3>1, <3>3, <3>4 DEF Crash, Risk
    <3>5. CASE here # 0
      <4> SUFFICES ASSUME fault' # "none"
                   PROVE  Crash
        BY DEF Crash
      <4>1. Lost("main") /\ fault' = "bar"
        BY <3>2, <3>5
      <4> QED
        BY <2>1, <2>2, <3>1, <4>1, WalkCrash, AThread
    <3> QED
      BY <3>4, <3>5
  <2>8. CASE MainStarts
    BY <2>8 DEF MainStarts, Risk, Crash
  <2>4. CASE \/ MainJoins \/ BeatCalls \/ BeatDraws \/ KeyDraws
             \/ (\E p \in Plugin : ReaderCalls(p)) \/ ReaderDraws \/ Highlighted
    <3>1. fault' = "none"
      BY <2>4 DEF MainJoins, BeatCalls, BeatDraws, KeyDraws, ReaderCalls, ReaderDraws, Highlighted
    <3> QED
      BY <3>1 DEF Crash
  <2>9. CASE Unloaded \/ QuitUnloaded \/ Drawn
    <3> SUFFICES ASSUME fault' # "none"
                 PROVE  Crash
      BY DEF Crash
    <3>1. EndsWalk("term") /\ Lost("term") /\ fault' = "bar"
      BY <2>9 DEF Unloaded, QuitUnloaded, Drawn, EndUnload, Risk
    <3> QED
      BY <2>1, <2>2, <3>1, WalkCrash, AThread
  <2>10. CASE ReaderReturns
    <3> SUFFICES ASSUME fault' # "none"
                 PROVE  Crash
      BY DEF Crash
    <3>1. CASE reader = "lost"
      BY <2>10, <3>1 DEF ReaderReturns, Risk, Crash
    <3>2. CASE reader # "lost"
      <4>1. EndsWalk("reader") /\ Lost("reader") /\ fault' = "bar"
        BY <2>10, <3>2 DEF ReaderReturns, Risk
      <4> QED
        BY <2>1, <2>2, <4>1, WalkCrash, AThread
    <3> QED
      BY <3>1, <3>2
  <2>5. CASE BeatReturns
    <3>1. /\ beat.at > 0 /\ EndsWalk("beat")
          /\ LET strays == beat.freed \/ ~IsLoaded(host, "Clock")
             IN Risk(strays \/ Lost("beat"), IF strays THEN "beat" ELSE "bar")
      BY <2>5 DEF BeatReturns
    <3>2. ~beat.freed => IsLoaded(host, "Clock")
      <4>1. host.given["beat"] \in Seq(Record)
        BY <2>2 DEF Hosts, Givens, Kind
      <4>2. ~beat.freed => Len(host.given["beat"]) # 0
        BY <2>1, <2>2, <3>1
      <4> QED
        BY <2>1, <4>1, <4>2
    <3>3. CASE beat.freed
      BY <3>1, <3>3 DEF Risk, Crash
    <3>4. CASE ~beat.freed
      <4> SUFFICES ASSUME fault' # "none"
                   PROVE  Crash
        BY DEF Crash
      <4>1. Lost("beat") /\ fault' = "bar"
        BY <3>1, <3>2, <3>4 DEF Risk
      <4> QED
        BY <2>1, <2>2, <3>1, <4>1, WalkCrash, AThread
    <3> QED
      BY <3>3, <3>4
  <2>6. CASE TypedLine
    <3>1. PICK w \in TypedWord : Quit(w) \/ Gather(w) \/ \E f \in File : Load(w, f) \/ Unload(w, f)
      BY <2>6 DEF TypedLine
    <3>2. CASE Quit(w)
      <4>1. fault' # "none" => fault' = "quit" /\ Stale(host, "command")
        BY <2>1, <3>2 DEF Quit, Risk
      <4> QED
        BY <4>1 DEF Crash
    <3>3. CASE Gather(w)
      <4> DEFINE held == host.given["command"]
                 known == {i \in DOMAIN held : held[i].what.name = "gather"}
                 mapped == {i \in known : held[i].live}
      <4>1. Risk(TogglesOnFreed(gather) \/ mapped # known, "gather")
        BY <3>3 DEF Gather
      <4>2. mapped # known => Stale(host, "command")
        <5>1. mapped # known => \E i \in DOMAIN held : ~held[i].live
          OBVIOUS
        <5>2. \A i \in DOMAIN held : held[i] \in ToSet(held)
          BY DEF ToSet
        <5> HIDE DEF mapped, known
        <5> QED
          BY <5>1, <5>2 DEF Stale
      <4>3. fault' # "none" => fault' = "gather" /\ (gather.lines > 1 \/ Stale(host, "command"))
        BY <4>1, <4>2 DEF Risk, TogglesOnFreed
      <4> QED
        BY <4>3 DEF Crash
    <3>4. ASSUME NEW f \in File, Load(w, f)
          PROVE  Crash
      <4>1. fault' = "none"
        BY <3>4 DEF Load, Typing
      <4> QED
        BY <4>1 DEF Crash
    <3>5. ASSUME NEW f \in File, Unload(w, f)
          PROVE  Crash
      BY <2>2, <3>5, UnloadCrash DEF Unload
    <3> QED
      BY <3>1, <3>2, <3>3, <3>4, <3>5
  <2>7. CASE QuitUnload
    BY <2>2, <2>7, UnloadCrash DEF QuitUnload
  <2> QED
    BY <2>3, <2>4, <2>5, <2>6, <2>7, <2>8, <2>9, <2>10 DEF Next
<1>2. IInv /\ [Next]_vars => [Crash]_vars
  BY <1>1
<1>3. Spec => [][Next]_vars
  BY PTL DEF Spec
<1>4. Spec => [][Crash]_vars
  BY <1>2, <1>3, SessionKept, PTL
<1> QED
  BY <1>4 DEF CrashesKnown, Crash

-----------------------------------------------------------------------------
(* The chain of handlers.                                                   *)

Stops == {"Kill", "Approve"}
Through == {"Enable", "Approve"}
Chain == [send : BOOLEAN, done : BOOLEAN]

\* The result at i, of the first n, is the one that counts.
Decisive(results, n, i) ==
  /\ i \in 1..n /\ results[i] \in Decides
  /\ \A j \in 1..n : j < i => results[j] \notin Stops
  /\ results[i] \in Stops \/ \A j \in 1..n : j > i => results[j] \notin Decides

\* What the loop has come to behind the first n results: it has stopped if one
\* of them stops it, and the last that decides before that has decided.
Reached(results, initial, n, state) ==
  /\ state \in Chain
  /\ state.done <=> \E j \in 1..n : results[j] \in Stops
  /\ \/ (\A i \in 1..n : results[i] \notin Decides) /\ (state.send <=> initial)
     \/ \E i \in 1..n : Decisive(results, n, i) /\ (state.send <=> results[i] \in Through)

\* One turn of the loop.
LEMMA ReachedNext ==
  ASSUME NEW results \in Seq(Result), NEW initial \in BOOLEAN, NEW n \in 1..Len(results),
         NEW state, Reached(results, initial, n - 1, state)
  PROVE  Reached(results, initial, n, OneResult(state, results[n]))
<1> DEFINE r == results[n]
           next == OneResult(state, r)
<1>1. /\ Len(results) \in Nat /\ n \in Nat /\ 1..n = (1..(n - 1)) \cup {n} /\ n \notin 1..(n - 1)
      /\ r \in Result /\ state \in Chain
  <2>1. Len(results) \in Nat /\ DOMAIN results = 1..Len(results) /\ \A i \in 1..Len(results) : results[i] \in Result
    BY Places
  <2> QED
    BY <2>1 DEF Reached
<1>2. Stops \subseteq Decides /\ (r \in {"Pass", "expired"} <=> r \notin Decides)
  BY <1>1 DEF Stops, Decides, Result
<1>3. CASE state.done
  <2>1. next = state
    BY <1>3 DEF OneResult
  <2>2. PICK j \in 1..(n - 1) : results[j] \in Stops
    BY <1>3 DEF Reached
  <2>3. PICK i \in 1..(n - 1) : Decisive(results, n - 1, i) /\ (state.send <=> results[i] \in Through)
    BY <1>2, <2>2 DEF Reached
  <2>4. results[i] \in Stops
    BY <1>1, <1>2, <2>2, <2>3 DEF Decisive
  <2>5. Decisive(results, n, i)
    BY <1>1, <2>3, <2>4 DEF Decisive
  <2> QED
    BY <1>1, <1>3, <2>1, <2>2, <2>3, <2>5 DEF Reached
<1>4. CASE ~state.done /\ r \notin Decides
  <2>1. next = state
    BY <1>2, <1>4 DEF OneResult
  <2>2. \A j \in 1..n : results[j] \notin Stops
    BY <1>1, <1>2, <1>4 DEF Reached
  <2>3. CASE \A i \in 1..(n - 1) : results[i] \notin Decides
    <3>1. \A i \in 1..n : results[i] \notin Decides
      BY <1>1, <1>4, <2>3
    <3>2. state.send <=> initial
      BY <2>3 DEF Reached, Decisive
    <3> QED
      BY <1>1, <1>4, <2>1, <2>2, <3>1, <3>2 DEF Reached
  <2>4. CASE ~\A i \in 1..(n - 1) : results[i] \notin Decides
    <3>1. PICK i \in 1..(n - 1) : Decisive(results, n - 1, i) /\ (state.send <=> results[i] \in Through)
      BY <2>4 DEF Reached
    <3>2. Decisive(results, n, i)
      BY <1>1, <1>4, <2>2, <3>1 DEF Decisive
    <3> QED
      BY <1>1, <1>4, <2>1, <2>2, <3>1, <3>2 DEF Reached
  <2> QED
    BY <2>3, <2>4
<1>5. CASE ~state.done /\ r \in Decides
  <2>1. next = [send |-> r \in Through, done |-> r \in Stops]
    BY <1>2, <1>5 DEF OneResult, Through, Stops
  <2>2. next \in Chain /\ (next.done <=> r \in Stops) /\ (next.send <=> r \in Through)
    <3>1. (r \in Through) \in BOOLEAN /\ (r \in Stops) \in BOOLEAN
      OBVIOUS
    <3>2. next.done = (r \in Stops) /\ next.send = (r \in Through)
      BY <2>1
    <3>3. next \in Chain
      BY <2>1, <3>1 DEF Chain
    <3> HIDE DEF next, r
    <3> QED
      BY <3>2, <3>3
  <2>3. \A j \in 1..(n - 1) : results[j] \notin Stops
    BY <1>5 DEF Reached
  <2>4. Decisive(results, n, n)
    BY <1>1, <1>5, <2>3 DEF Decisive
  <2>5. next.done <=> \E j \in 1..n : results[j] \in Stops
    BY <1>1, <2>2, <2>3
  <2>6. \E i \in 1..n : Decisive(results, n, i) /\ (next.send <=> results[i] \in Through)
    BY <1>1, <2>2, <2>4
  <2>7. Reached(results, initial, n, next)
    <3> HIDE DEF next
    <3> QED
      BY <2>2, <2>5, <2>6 DEF Reached
  <2> QED
    BY <2>7
<1> QED
  BY <1>3, <1>4, <1>5

\* beforeMulti comes to what Reached says of all the results.
LEMMA MultiReached ==
  ASSUME NEW results \in Seq(Result), NEW initial \in BOOLEAN
  PROVE  Reached(results, initial, Len(results), BeforeMulti(results, initial))
<1> DEFINE k == Len(results)
           b == [x \in Chain \X Result |-> OneResult(x[1], x[2])]
           a == [send |-> initial, done |-> FALSE]
           Def(f) == f = [n \in 0..k |-> IF n = 0 THEN a ELSE OneResult(f[n - 1], results[n])]
<1>1. k \in Nat /\ DOMAIN results = 1..k /\ \A i \in 1..k : results[i] \in Result
  BY Places
<1>2. b \in [Chain \X Result -> Chain]
  <2>1. ASSUME NEW s \in Chain, NEW r \in Result
        PROVE  OneResult(s, r) \in Chain
    BY DEF OneResult, Chain
  <2> QED
    BY <2>1
<1>3. a \in Chain
  BY DEF Chain
<1>4. \E g : Passes(g, Chain, a, results, Result, b)
  <2> HIDE DEF b, a
  <2> QED
    BY <1>2, <1>3, LoopRuns
<1>5. PICK g : Passes(g, Chain, a, results, Result, b)
  BY <1>4
<1>6. g \in [0..k -> Chain] /\ g[0] = a
  BY <1>5 DEF Passes
<1>7. ASSUME NEW n \in 1..k
      PROVE  g[n] = OneResult(g[n - 1], results[n])
  <2>1. n - 1 \in 0..k
    BY <1>1
  <2>2. <<g[n - 1], results[n]>> \in Chain \X Result
    BY <1>1, <1>6, <2>1
  <2>3. g[n] = b[<<g[n - 1], results[n]>>]
    BY <1>1, <1>5 DEF Passes
  <2> QED
    BY <2>2, <2>3
<1>8. Def(g)
  <2>1. ASSUME NEW n \in 0..k
        PROVE  g[n] = IF n = 0 THEN a ELSE OneResult(g[n - 1], results[n])
    <3>1. CASE n = 0
      BY <1>6, <3>1
    <3>2. CASE n \in 1..k
      BY <1>1, <1>7, <3>2
    <3> QED
      BY <1>1, <3>1, <3>2
  <2> QED
    BY <1>6, <2>1
<1> DEFINE after == CHOOSE f : Def(f)
<1>9. Def(after)
  <2> HIDE DEF Def
  <2> QED
    BY <1>8
<1>10. BeforeMulti(results, initial) = after[k]
  BY DEF BeforeMulti
<1> HIDE DEF after
<1> DEFINE F == [n \in 0..k |-> {s \in Chain : Reached(results, initial, n, s)}]
<1>11. after[0] = a /\ \A n \in 1..k : after[n] = OneResult(after[n - 1], results[n])
  <2>1. \A n \in 0..k : after[n] = IF n = 0 THEN a ELSE OneResult(after[n - 1], results[n])
    BY <1>9
  <2>2. 0 \in 0..k /\ \A n \in 1..k : n \in 0..k /\ n # 0
    BY <1>1
  <2> QED
    BY <2>1, <2>2
<1>12. Reached(results, initial, 0, a) /\ a \in Chain
  BY <1>3 DEF Reached
<1>13. ASSUME NEW n \in 1..k, after[n - 1] \in F[n - 1]
       PROVE  after[n] \in F[n]
  <2>1. n - 1 \in 0..k /\ n \in 0..k
    BY <1>1
  <2>2. Reached(results, initial, n - 1, after[n - 1])
    BY <1>13, <2>1
  <2>3. Reached(results, initial, n, after[n])
    BY <1>11, <2>2, ReachedNext
  <2>4. after[n] \in Chain
    BY <2>3 DEF Reached
  <2> QED
    BY <2>1, <2>3, <2>4
<1>14. after[0] \in F[0]
  BY <1>1, <1>11, <1>12
<1>15. \A n \in 0..k : after[n] \in F[n]
  <2> HIDE DEF F
  <2> QED
    BY <1>1, <1>13, <1>14, Settles
<1>16. after[k] \in F[k] /\ k \in 0..k
  BY <1>1, <1>15
<1> QED
  BY <1>10, <1>16

\* What is reached from TRUE is what Plugin.h says.
LEMMA ReachedVerdict ==
  ASSUME NEW results \in Seq(Result), NEW state, Reached(results, TRUE, Len(results), state)
  PROVE  state.send <=> Verdict(results)
<1> DEFINE n == Len(results)
           stops == {i \in DOMAIN results : results[i] \in {"Kill", "Approve"}}
           heard == {i \in DOMAIN results : results[i] \in Decides /\ \A j \in stops : i <= j}
<1>1. n \in Nat /\ DOMAIN results = 1..n
  BY Places
<1>2. Verdict(results) <=> heard = {} \/ results[Max(heard)] \in Through
  BY DEF Verdict, Through
<1>3. CASE \A i \in 1..n : results[i] \notin Decides
  <2>1. heard = {}
    BY <1>1, <1>3
  <2>2. state.send
    BY <1>3 DEF Reached, Decisive
  <2> QED
    BY <1>2, <2>1, <2>2
<1>4. CASE ~\A i \in 1..n : results[i] \notin Decides
  <2>1. PICK i \in 1..n : Decisive(results, n, i) /\ (state.send <=> results[i] \in Through)
    BY <1>4 DEF Reached
  <2>2. i \in heard
    BY <1>1, <2>1 DEF Decisive, Stops
  <2>3. \A j \in heard : i >= j
    BY <1>1, <2>1 DEF Decisive, Stops
  <2>4. \A x \in heard : (\A j \in heard : x >= j) => x = i
    BY <1>1, <2>2, <2>3
  <2>5. Max(heard) = i
    <3> HIDE DEF heard
    <3> QED
      BY <2>2, <2>3, <2>4 DEF Max
  <2> HIDE DEF heard
  <2> QED
    BY <1>2, <2>1, <2>2, <2>5
<1> QED
  BY <1>3, <1>4

\* A list behind another: it is not asked when the first has stopped, and begins
\* with what that came to otherwise.
LEMMA ReachedBoth ==
  ASSUME NEW a \in Seq(Result), NEW b \in Seq(Result), NEW initial \in BOOLEAN, NEW s, NEW t,
         Reached(a, initial, Len(a), s), Reached(b, s.send, Len(b), t)
  PROVE  Reached(a \o b, initial, Len(a \o b), IF s.done THEN s ELSE t)
<1> DEFINE m == Len(a)
           n == Len(b)
           c == a \o b
<1>1. /\ m \in Nat /\ n \in Nat /\ c \in Seq(Result) /\ Len(c) = m + n
      /\ \A i \in 1..m : i \in 1..(m + n) /\ c[i] = a[i]
      /\ \A i \in 1..n : m + i \in 1..(m + n) /\ c[m + i] = b[i]
      /\ \A i \in 1..(m + n) : i \in 1..m \/ (i - m \in 1..n /\ c[i] = b[i - m])
  BY ConcatProperties, LenProperties
<1>2. s \in Chain /\ t \in Chain /\ Stops \subseteq Decides
  BY DEF Reached, Stops, Decides
<1> HIDE DEF m, n, c
<1>3. CASE s.done
  <2>1. PICK j \in 1..m : a[j] \in Stops
    BY <1>3 DEF Reached, m
  <2>2. PICK i \in 1..m : Decisive(a, m, i) /\ (s.send <=> a[i] \in Through)
    BY <1>2, <2>1 DEF Reached, m
  <2>3. a[i] \in Stops
    BY <1>1, <1>2, <2>1, <2>2 DEF Decisive
  <2>4. Decisive(c, m + n, i)
    BY <1>1, <2>2, <2>3 DEF Decisive
  <2>5. \E k \in 1..(m + n) : c[k] \in Stops
    BY <1>1, <2>1
  <2>6. Reached(c, initial, m + n, s)
    BY <1>1, <1>2, <1>3, <2>2, <2>4, <2>5 DEF Reached
  <2> QED
    BY <1>1, <1>3, <2>6 DEF c
<1>4. CASE ~s.done
  <2>1. \A j \in 1..m : a[j] \notin Stops
    BY <1>4 DEF Reached, m
  <2>2. t.done <=> \E j \in 1..(m + n) : c[j] \in Stops
    <3>1. t.done <=> \E j \in 1..n : b[j] \in Stops
      BY DEF Reached, n
    <3> QED
      BY <1>1, <2>1, <3>1
  <2>3. CASE \A i \in 1..n : b[i] \notin Decides
    <3>1. t.send <=> s.send
      BY <2>3 DEF Reached, Decisive, n
    <3>2. CASE \A i \in 1..m : a[i] \notin Decides
      <4>1. s.send <=> initial
        BY <3>2 DEF Reached, Decisive, m
      <4>2. \A i \in 1..(m + n) : c[i] \notin Decides
        BY <1>1, <2>3, <3>2
      <4>3. Reached(c, initial, m + n, t)
        BY <1>2, <2>2, <3>1, <4>1, <4>2 DEF Reached
      <4> QED
        BY <1>1, <1>4, <4>3 DEF c
    <3>3. CASE ~\A i \in 1..m : a[i] \notin Decides
      <4>1. PICK i \in 1..m : Decisive(a, m, i) /\ (s.send <=> a[i] \in Through)
        BY <3>3 DEF Reached, m
      <4>2. \A j \in 1..m : j > i => a[j] \notin Decides
        BY <2>1, <4>1 DEF Decisive
      <4>3. \A j \in 1..(m + n) : j > i => c[j] \notin Decides
        BY <1>1, <2>3, <4>2
      <4>4. \A j \in 1..(m + n) : j < i => c[j] \notin Stops
        BY <1>1, <2>1
      <4>5. Decisive(c, m + n, i)
        BY <1>1, <4>1, <4>3, <4>4 DEF Decisive
      <4>6. Reached(c, initial, m + n, t)
        BY <1>1, <1>2, <2>2, <3>1, <4>1, <4>5 DEF Reached
      <4> QED
        BY <1>1, <1>4, <4>6 DEF c
    <3> QED
      BY <3>2, <3>3
  <2>4. CASE ~\A i \in 1..n : b[i] \notin Decides
    <3>1. PICK i \in 1..n : Decisive(b, n, i) /\ (t.send <=> b[i] \in Through)
      BY <2>4 DEF Reached, n
    <3>2. \A j \in 1..(m + n) : j < m + i => c[j] \notin Stops
      <4> SUFFICES ASSUME NEW j \in 1..(m + n), j < m + i
                   PROVE  c[j] \notin Stops
        OBVIOUS
      <4>1. CASE j \in 1..m
        BY <1>1, <2>1, <4>1
      <4>2. CASE j - m \in 1..n /\ c[j] = b[j - m]
        <5>1. j - m < i
          BY <1>1, <3>1
        <5> QED
          BY <3>1, <4>2, <5>1 DEF Decisive
      <4> QED
        BY <1>1, <4>1, <4>2
    <3>3. c[m + i] \in Stops \/ \A j \in 1..(m + n) : j > m + i => c[j] \notin Decides
      <4> SUFFICES ASSUME b[i] \notin Stops, NEW j \in 1..(m + n), j > m + i
                   PROVE  c[j] \notin Decides
        BY <1>1, <3>1
      <4>1. j - m \in 1..n /\ c[j] = b[j - m] /\ j - m > i
        BY <1>1, <3>1
      <4> QED
        BY <3>1, <4>1 DEF Decisive
    <3>4. Decisive(c, m + n, m + i)
      BY <1>1, <3>1, <3>2, <3>3 DEF Decisive
    <3>5. Reached(c, initial, m + n, t)
      BY <1>1, <1>2, <2>2, <3>1, <3>4 DEF Reached
    <3> QED
      BY <1>1, <1>4, <3>5 DEF c
  <2> QED
    BY <2>3, <2>4
<1> QED
  BY <1>3, <1>4

\* For any number of handlers in a list and whatever they answer, the event goes
\* through as Plugin.h says (before, in PluginHost.h).
THEOREM BeforeIsVerdict ==
  ASSUME NEW results \in Seq(Result)
  PROVE  Before(results) = Verdict(results)
<1>1. Reached(results, TRUE, Len(results), BeforeMulti(results, TRUE))
  BY MultiReached
<1>2. Before(results) <=> Verdict(results)
  BY <1>1, ReachedVerdict DEF Before
<1>3. Before(results) \in BOOLEAN /\ Verdict(results) \in BOOLEAN
  BY <1>1 DEF Reached, Chain, Before, Verdict
<1> QED
  BY <1>2, <1>3

\* And so does a message that is sent, for handlers of each priority: what counts
\* is the row of the high, the normal and the low (beforeSend, in PluginHost.cpp).
THEOREM SendIsVerdict ==
  ASSUME NEW high \in Seq(Result), NEW normal \in Seq(Result), NEW low \in Seq(Result)
  PROVE  BeforeSend(high, normal, low) = Verdict((high \o normal) \o low)
<1> DEFINE first == BeforeMulti(high, TRUE)
           then == BeforeMulti(normal, first.send)
           second == IF first.done THEN first ELSE then
           third == BeforeMulti(low, second.send)
           last == IF second.done THEN second ELSE third
<1>1. Reached(high, TRUE, Len(high), first)
  BY MultiReached
<1>2. first.send \in BOOLEAN
  BY <1>1 DEF Reached, Chain
<1>3. Reached(normal, first.send, Len(normal), then)
  BY <1>2, MultiReached
<1> HIDE DEF first, then
<1>4. Reached(high \o normal, TRUE, Len(high \o normal), second)
  BY <1>1, <1>3, ReachedBoth
<1> HIDE DEF second
<1>5. second.send \in BOOLEAN /\ high \o normal \in Seq(Result) /\ (high \o normal) \o low \in Seq(Result)
  BY <1>4 DEF Reached, Chain
<1>6. Reached(low, second.send, Len(low), third)
  BY <1>5, MultiReached
<1> HIDE DEF third
<1>7. Reached((high \o normal) \o low, TRUE, Len((high \o normal) \o low), last)
  BY <1>4, <1>5, <1>6, ReachedBoth
<1>8. BeforeSend(high, normal, low) = last.send
  BY DEF BeforeSend, first, then, second, third
<1>9. last.send \in BOOLEAN /\ Verdict((high \o normal) \o low) \in BOOLEAN
  BY <1>7 DEF Reached, Chain, Verdict
<1> HIDE DEF last
<1>10. last.send <=> Verdict((high \o normal) \o low)
  BY <1>5, <1>7, ReachedVerdict
<1> QED
  BY <1>8, <1>9, <1>10

\* A list that is cut in three.
LEMMA CutInThree ==
  ASSUME NEW n \in Nat, NEW results \in [1..n -> Result], NEW p \in 0..n, NEW q \in 0..n, p + q <= n
  PROVE  /\ results \in Seq(Result)
         /\ SubSeq(results, 1, p) \in Seq(Result)
         /\ SubSeq(results, p + 1, n - q) \in Seq(Result)
         /\ SubSeq(results, n - q + 1, n) \in Seq(Result)
         /\ (SubSeq(results, 1, p) \o SubSeq(results, p + 1, n - q)) \o SubSeq(results, n - q + 1, n) = results
<1>1. results \in Seq(Result) /\ Len(results) = n
  BY IsASeq, LenProperties
<1> DEFINE a == SubSeq(results, 1, p)
           b == SubSeq(results, p + 1, n - q)
           c == SubSeq(results, n - q + 1, n)
<1>2. a \in Seq(Result) /\ Len(a) = p /\ \A i \in 1..p : a[i] = results[i]
  BY <1>1, SubSeqProperties
<1>3. b \in Seq(Result) /\ Len(b) = n - q - p /\ \A i \in 1..(n - q - p) : b[i] = results[p + i]
  BY <1>1, SubSeqProperties
<1>4. c \in Seq(Result) /\ Len(c) = q /\ \A i \in 1..q : c[i] = results[n - q + i]
  BY <1>1, SubSeqProperties
<1> HIDE DEF a, b, c
<1>5. a \o b \in Seq(Result) /\ Len(a \o b) = n - q /\ \A i \in 1..(n - q) : (a \o b)[i] = results[i]
  <2>1. /\ a \o b \in Seq(Result) /\ Len(a \o b) = p + (n - q - p)
        /\ \A i \in 1..(p + (n - q - p)) : (a \o b)[i] = IF i <= p THEN a[i] ELSE b[i - p]
    <3>1. /\ a \o b \in Seq(Result) /\ Len(a \o b) = Len(a) + Len(b)
          /\ \A i \in 1..(Len(a) + Len(b)) : (a \o b)[i] = IF i <= Len(a) THEN a[i] ELSE b[i - Len(a)]
      BY <1>2, <1>3, ConcatProperties
    <3>2. Len(a) = p /\ Len(b) = n - q - p
      BY <1>2, <1>3
    <3> QED
      BY <3>1, <3>2
  <2>2. p + (n - q - p) = n - q
    OBVIOUS
  <2>3. ASSUME NEW i \in 1..(n - q)
        PROVE  (a \o b)[i] = results[i]
    <3>1. CASE i <= p
      BY <1>2, <2>1, <2>2, <3>1
    <3>2. CASE ~(i <= p)
      <4>1. i - p \in 1..(n - q - p) /\ p + (i - p) = i
        BY <3>2
      <4>2. (a \o b)[i] = b[i - p]
        BY <2>1, <2>2, <3>2
      <4> QED
        BY <1>3, <4>1, <4>2
    <3> QED
      BY <3>1, <3>2
  <2> QED
    BY <2>1, <2>2, <2>3
<1>6. (a \o b) \o c \in Seq(Result) /\ Len((a \o b) \o c) = n /\ \A i \in 1..n : ((a \o b) \o c)[i] = results[i]
  <2> DEFINE d == a \o b
  <2>1. d \in Seq(Result) /\ Len(d) = n - q /\ \A i \in 1..(n - q) : d[i] = results[i]
    BY <1>5
  <2> HIDE DEF d
  <2>2. /\ d \o c \in Seq(Result) /\ Len(d \o c) = (n - q) + q
        /\ \A i \in 1..((n - q) + q) : (d \o c)[i] = IF i <= n - q THEN d[i] ELSE c[i - (n - q)]
    BY <1>4, <2>1, ConcatProperties
  <2>3. (n - q) + q = n
    OBVIOUS
  <2>4. ASSUME NEW i \in 1..n
        PROVE  (d \o c)[i] = results[i]
    <3>1. CASE i <= n - q
      BY <2>1, <2>2, <2>3, <3>1
    <3>2. CASE ~(i <= n - q)
      <4>1. i - (n - q) \in 1..q /\ n - q + (i - (n - q)) = i
        BY <3>2
      <4>2. (d \o c)[i] = c[i - (n - q)]
        BY <2>2, <2>3, <3>2
      <4> QED
        BY <1>4, <4>1, <4>2
    <3> QED
      BY <3>1, <3>2
  <2>5. d \o c \in Seq(Result) /\ Len(d \o c) = n /\ \A i \in 1..n : (d \o c)[i] = results[i]
    BY <2>2, <2>3, <2>4
  <2> QED
    BY <2>5 DEF d
<1>7. (a \o b) \o c = results
  BY <1>1, <1>6, SeqEqual
<1> QED
  BY <1>1, <1>2, <1>3, <1>4, <1>7 DEF a, b, c

\* The property of the run, which holds of any number of handlers.
THEOREM VerdictAlways == Spec => []VerdictByPriority
<1>1. VerdictRight = 0..3
  <2>1. ASSUME NEW n \in 0..3, NEW results \in [1..n -> Result], NEW p \in 0..n, NEW q \in 0..n
        PROVE  /\ Before(results) = Verdict(results)
               /\ p + q <= n =>
                    BeforeSend(SubSeq(results, 1, p), SubSeq(results, p + 1, n - q),
                               SubSeq(results, n - q + 1, n)) = Verdict(results)
    <3>1. n \in Nat
      OBVIOUS
    <3>2. results \in Seq(Result)
      BY <3>1, IsASeq
    <3> QED
      <4> DEFINE a == SubSeq(results, 1, p)
                 b == SubSeq(results, p + 1, n - q)
                 c == SubSeq(results, n - q + 1, n)
      <4>1. Before(results) = Verdict(results)
        BY <3>2, BeforeIsVerdict
      <4>2. ASSUME p + q <= n
            PROVE  BeforeSend(a, b, c) = Verdict(results)
        <5>1. a \in Seq(Result) /\ b \in Seq(Result) /\ c \in Seq(Result) /\ (a \o b) \o c = results
          BY <3>1, <4>2, CutInThree
        <5> HIDE DEF a, b, c
        <5>2. BeforeSend(a, b, c) = Verdict((a \o b) \o c)
          BY <5>1, SendIsVerdict
        <5> QED
          BY <5>1, <5>2
      <4> QED
        BY <4>1, <4>2
  <2> QED
    BY <2>1 DEF VerdictRight
<1>2. IInv => VerdictByPriority
  <2> SUFFICES ASSUME IInv
               PROVE  VerdictByPriority
    OBVIOUS
  <2>1. Len(host.given["key"]) \in Nat
    <3>1. host.given["key"] \in Seq(Record)
      BY DEF IInv, Typed0, Hosts, Givens, Kind
    <3> QED
      BY <3>1, LenProperties
  <2> DEFINE k == Len(host.given["key"])
  <2>2. k <= 3 => k \in 0..3
    <3> HIDE DEF k
    <3>1. k \in Nat
      BY <2>1 DEF k
    <3> QED
      BY <3>1
  <2>3. k <= 3 => k \in VerdictRight
    BY <1>1, <2>2
  <2> QED
    BY <2>3 DEF VerdictByPriority
<1> QED
  BY <1>2, SessionKept, PTL

-----------------------------------------------------------------------------
(* The input history.                                                       *)

Shows(D) == D \cup {"draft"}
Heres(D) == [history : Seq(D), commandIndex : Nat, field : Shows(D)]
Saids(D) == [log : Seq(D), back : Nat, field : Shows(D)]

\* What is kept is the end of what was said, and the index is as far from its
\* end as the person has gone back.
Agree(h, s) ==
  LET k == Len(h.history)
      n == Len(s.log)
  IN /\ k = IF n <= MaxLength THEN n ELSE MaxLength
     /\ \A i \in 1..k : h.history[i] = s.log[n - k + i]
     /\ s.back <= k /\ h.commandIndex = k - s.back
     /\ h.field = s.field

Together(D) == {x \in [here : Heres(D), said : Saids(D)] : Agree(x.here, x.said)}

\* The up key goes back as far as was promised.
LEMMA UpAgrees ==
  ASSUME NEW D, NEW h \in Heres(D), NEW s \in Saids(D), Agree(h, s)
  PROVE  /\ Up(h) \in Heres(D) /\ Promised(s, "up") \in Saids(D)
         /\ Agree(Up(h), Promised(s, "up"))
<1> DEFINE k == Len(h.history)
           n == Len(s.log)
<1>1. /\ k \in Nat /\ n \in Nat /\ h.history \in Seq(D) /\ s.log \in Seq(D)
      /\ s.back \in Nat /\ h.commandIndex \in Nat /\ MaxLength \in Nat \ {0}
      /\ h.field \in Shows(D) /\ s.field \in Shows(D)
  BY LenProperties, MaxLengthAssumption DEF Heres, Saids
<1>2. /\ k = IF n <= MaxLength THEN n ELSE MaxLength
      /\ \A i \in 1..k : h.history[i] = s.log[n - k + i]
      /\ s.back <= k /\ h.commandIndex = k - s.back /\ h.field = s.field
  BY DEF Agree
<1>3. h.history = <<>> <=> k = 0
  BY <1>1, EmptySeq
<1>4. \A i \in 1..k : h.history[i] \in D
  BY <1>1, ElementOfSeq
<1> HIDE DEF k, n
<1>5. CASE h.commandIndex = 0
  <2>1. Up(h) = h
    BY <1>5 DEF Up
  <2>2. ~(s.back < n /\ s.back < MaxLength)
    BY <1>1, <1>2, <1>5
  <2>3. Promised(s, "up") = s
    BY <2>2 DEF Promised, n
  <2> QED
    BY <2>1, <2>3
<1>6. CASE h.commandIndex # 0
  <2> DEFINE i == h.commandIndex
             u == [history |-> h.history, commandIndex |-> i - 1, field |-> h.history[i]]
             p == [log |-> s.log, back |-> s.back + 1, field |-> s.log[n - s.back]]
  <2>1. i \in 1..k /\ i = k - s.back /\ s.back < n /\ s.back < MaxLength /\ n - k + i = n - s.back
    BY <1>1, <1>2, <1>6
  <2>2. Up(h) = u
    <3>1. h = [history |-> h.history, commandIndex |-> h.commandIndex, field |-> h.field]
      BY DEF Heres
    <3>2. Up(h) = [h EXCEPT !.commandIndex = h.commandIndex - 1, !.field = h.history[h.commandIndex]]
      BY <1>1, <1>3, <1>6, <2>1 DEF Up
    <3> QED
      BY <3>1, <3>2
  <2>3. Promised(s, "up") = p
    <3>1. s = [log |-> s.log, back |-> s.back, field |-> s.field]
      BY DEF Saids
    <3>2. Promised(s, "up") = Recall(s, s.back + 1)
      BY <2>1 DEF Promised, n
    <3>3. Recall(s, s.back + 1) = [s EXCEPT !.back = s.back + 1, !.field = s.log[n + 1 - (s.back + 1)]]
      BY DEF Recall, n
    <3>4. n + 1 - (s.back + 1) = n - s.back
      BY <1>1
    <3> QED
      BY <3>1, <3>2, <3>3, <3>4
  <2>4. h.history[i] = s.log[n - s.back] /\ h.history[i] \in Shows(D)
    BY <1>2, <1>4, <2>1 DEF Shows
  <2>5. u \in Heres(D) /\ p \in Saids(D)
    BY <1>1, <2>1, <2>4 DEF Heres, Saids
  <2>6. Agree(u, p)
    <3>1. i - 1 = k - (s.back + 1) /\ s.back + 1 <= k
      BY <1>1, <2>1
    <3> QED
      BY <1>2, <2>4, <3>1 DEF Agree, k, n
  <2> QED
    BY <2>2, <2>3, <2>5, <2>6
<1> QED
  BY <1>5, <1>6

\* So does the down key come forward.
LEMMA DownAgrees ==
  ASSUME NEW D, NEW h \in Heres(D), NEW s \in Saids(D), Agree(h, s)
  PROVE  /\ Down(h) \in Heres(D) /\ Promised(s, "down") \in Saids(D)
         /\ Agree(Down(h), Promised(s, "down"))
<1> DEFINE k == Len(h.history)
           n == Len(s.log)
<1>1. /\ k \in Nat /\ n \in Nat /\ h.history \in Seq(D) /\ s.log \in Seq(D)
      /\ s.back \in Nat /\ h.commandIndex \in Nat /\ MaxLength \in Nat \ {0}
      /\ h.field \in Shows(D) /\ s.field \in Shows(D)
  BY LenProperties, MaxLengthAssumption DEF Heres, Saids
<1>2. /\ k = IF n <= MaxLength THEN n ELSE MaxLength
      /\ \A i \in 1..k : h.history[i] = s.log[n - k + i]
      /\ s.back <= k /\ h.commandIndex = k - s.back /\ h.field = s.field
  BY DEF Agree
<1>4. \A i \in 1..k : h.history[i] \in D
  BY <1>1, ElementOfSeq
<1> HIDE DEF k, n
<1>5. CASE s.back <= 1
  <2>1. h.commandIndex + 1 >= k
    BY <1>1, <1>2, <1>5
  <2>2. Down(h) = h
    BY <2>1 DEF Down, k
  <2>3. ~(s.back > 1)
    BY <1>1, <1>5
  <2>4. Promised(s, "down") = s
    BY <2>3 DEF Promised
  <2> QED
    BY <2>2, <2>4
<1>6. CASE s.back > 1
  <2> DEFINE i == h.commandIndex
             u == [history |-> h.history, commandIndex |-> i + 1, field |-> h.history[i + 2]]
             p == [log |-> s.log, back |-> s.back - 1, field |-> s.log[n - s.back + 2]]
  <2>1. /\ i + 2 \in 1..k /\ i = k - s.back /\ ~(i + 1 >= k) /\ n - k + (i + 2) = n - s.back + 2
        /\ i + 1 \in Nat /\ s.back - 1 \in Nat
    <3>1. i \in Nat /\ s.back \in Nat /\ s.back > 1 /\ s.back <= k /\ i = k - s.back
      BY <1>1, <1>2, <1>6
    <3> HIDE DEF i
    <3>2. i + 2 \in 1..k /\ ~(i + 1 >= k) /\ i + 1 \in Nat /\ s.back - 1 \in Nat
      BY <1>1, <3>1
    <3>3. n - k + (i + 2) = n - s.back + 2
      BY <1>1, <3>1
    <3> QED
      BY <3>1, <3>2, <3>3
  <2>2. Down(h) = u
    <3>1. h = [history |-> h.history, commandIndex |-> h.commandIndex, field |-> h.field]
      BY DEF Heres
    <3>2. Down(h) = [h EXCEPT !.commandIndex = h.commandIndex + 1, !.field = h.history[h.commandIndex + 2]]
      BY <2>1 DEF Down, k
    <3> QED
      BY <3>1, <3>2
  <2>3. Promised(s, "down") = p
    <3>1. s = [log |-> s.log, back |-> s.back, field |-> s.field]
      BY DEF Saids
    <3>2. Promised(s, "down") = Recall(s, s.back - 1)
      BY <1>6 DEF Promised
    <3>3. Recall(s, s.back - 1) = [s EXCEPT !.back = s.back - 1, !.field = s.log[n + 1 - (s.back - 1)]]
      BY DEF Recall, n
    <3>4. n + 1 - (s.back - 1) = n - s.back + 2
      BY <1>1
    <3> QED
      BY <3>1, <3>2, <3>3, <3>4
  <2>4. h.history[i + 2] = s.log[n - s.back + 2] /\ h.history[i + 2] \in Shows(D)
    BY <1>2, <1>4, <2>1 DEF Shows
  <2>5. u \in Heres(D) /\ p \in Saids(D)
    BY <1>1, <2>1, <2>4 DEF Heres, Saids
  <2>6. Agree(u, p)
    <3>1. i + 1 = k - (s.back - 1) /\ s.back - 1 <= k
      BY <1>1, <1>2, <2>1
    <3> QED
      BY <1>2, <2>4, <3>1 DEF Agree, k, n
  <2> QED
    BY <2>2, <2>3, <2>5, <2>6
<1> QED
  BY <1>1, <1>5, <1>6

\* A line that is submitted is the last that is kept.
LEMMA SubmitAgrees ==
  ASSUME NEW D, NEW d \in D, NEW h \in Heres(D), NEW s \in Saids(D), Agree(h, s)
  PROVE  LET p == [log |-> Append(s.log, d), back |-> 0, field |-> "draft"]
         IN PostInput(h, d) \in Heres(D) /\ p \in Saids(D) /\ Agree(PostInput(h, d), p)
<1> DEFINE k == Len(h.history)
           n == Len(s.log)
           longer == Append(h.history, d)
           kept == IF MaxLength < Len(longer) THEN Tail(longer) ELSE longer
           log == Append(s.log, d)
           u == [history |-> kept, commandIndex |-> Len(kept), field |-> "draft"]
           p == [log |-> log, back |-> 0, field |-> "draft"]
<1>1. /\ k \in Nat /\ n \in Nat /\ h.history \in Seq(D) /\ s.log \in Seq(D)
      /\ MaxLength \in Nat \ {0} /\ "draft" \in Shows(D)
  BY LenProperties, MaxLengthAssumption DEF Heres, Saids, Shows
<1>2. /\ k = IF n <= MaxLength THEN n ELSE MaxLength
      /\ \A i \in 1..k : h.history[i] = s.log[n - k + i]
  BY DEF Agree
<1>3. /\ longer \in Seq(D) /\ Len(longer) = k + 1 /\ longer[k + 1] = d
      /\ \A i \in 1..k : longer[i] = h.history[i]
  BY <1>1, AppendProperties
<1>4. /\ log \in Seq(D) /\ Len(log) = n + 1 /\ log[n + 1] = d /\ \A i \in 1..n : log[i] = s.log[i]
  BY <1>1, AppendProperties
<1> HIDE DEF k, n, longer, log
<1>5. \A i \in 1..(k + 1) : longer[i] = log[n - k + i]
  <2> SUFFICES ASSUME NEW i \in 1..(k + 1)
               PROVE  longer[i] = log[n - k + i]
    OBVIOUS
  <2>1. CASE i = k + 1
    <3>1. n - k + i = n + 1
      BY <1>1, <2>1
    <3> QED
      BY <1>3, <1>4, <2>1, <3>1
  <2>2. CASE i \in 1..k
    <3>1. n - k + i \in 1..n
      BY <1>1, <1>2, <2>2
    <3> QED
      BY <1>2, <1>3, <1>4, <2>2, <3>1
  <2> QED
    BY <1>1, <2>1, <2>2
<1>6. /\ kept \in Seq(D) /\ Len(kept) = IF n + 1 <= MaxLength THEN n + 1 ELSE MaxLength
      /\ \A i \in 1..Len(kept) : kept[i] = log[n + 1 - Len(kept) + i]
  <2>1. CASE MaxLength < Len(longer)
    <3>1. /\ Tail(longer) \in Seq(D) /\ Len(Tail(longer)) = k
          /\ \A i \in 1..k : Tail(longer)[i] = longer[i + 1]
      <4>1. longer # <<>> /\ Len(longer) - 1 = k
        BY <1>1, <1>3, EmptySeq
      <4> QED
        BY <1>3, <4>1, HeadTailProperties
    <3>2. k = MaxLength /\ ~(n + 1 <= MaxLength)
      BY <1>1, <1>2, <1>3, <2>1
    <3>3. \A i \in 1..k : i + 1 \in 1..(k + 1) /\ n - k + (i + 1) = n + 1 - k + i
      BY <1>1
    <3>4. kept = Tail(longer)
      BY <2>1
    <3> HIDE DEF kept
    <3> QED
      BY <1>5, <3>1, <3>2, <3>3, <3>4
  <2>2. CASE ~(MaxLength < Len(longer))
    <3>1. kept = longer
      BY <2>2
    <3>2. k = n /\ n + 1 <= MaxLength
      BY <1>1, <1>2, <1>3, <2>2
    <3>3. \A i \in 1..(k + 1) : n - k + i = n + 1 - (k + 1) + i
      BY <1>1
    <3> HIDE DEF kept
    <3> QED
      BY <1>3, <1>5, <3>1, <3>2, <3>3
  <2> QED
    BY <2>1, <2>2
<1>7. PostInput(h, d) = u
  BY DEF PostInput, longer
<1> HIDE DEF kept
<1>8. Len(kept) \in Nat
  BY <1>6, LenProperties
<1>9. u \in Heres(D) /\ p \in Saids(D)
  BY <1>1, <1>4, <1>6, <1>8 DEF Heres, Saids
<1>10. Agree(u, p)
  <2> DEFINE l == Len(kept)
  <2>1. u.history = kept /\ p.log = log /\ u.commandIndex = l /\ p.back = 0 /\ u.field = p.field
    OBVIOUS
  <2>2. /\ l \in Nat /\ l = IF Len(log) <= MaxLength THEN Len(log) ELSE MaxLength
        /\ \A i \in 1..l : kept[i] = log[Len(log) - l + i]
    <3>1. l \in Nat /\ Len(log) = n + 1
      BY <1>4, <1>8
    <3>2. l = IF Len(log) <= MaxLength THEN Len(log) ELSE MaxLength
      <4>1. Len(log) <= MaxLength <=> n + 1 <= MaxLength
        BY <3>1
      <4>2. Len(kept) = IF n + 1 <= MaxLength THEN n + 1 ELSE MaxLength
        BY <1>6
      <4>3. CASE n + 1 <= MaxLength
        BY <3>1, <4>1, <4>2, <4>3
      <4>4. CASE ~(n + 1 <= MaxLength)
        BY <3>1, <4>1, <4>2, <4>4
      <4> QED
        BY <4>3, <4>4
    <3>3. \A i \in 1..l : kept[i] = log[Len(log) - l + i]
      <4>1. Len(log) - l = n + 1 - Len(kept)
        BY <1>1, <1>8, <3>1
      <4>2. \A i \in 1..Len(kept) : kept[i] = log[n + 1 - Len(kept) + i]
        BY <1>6
      <4> QED
        BY <4>1, <4>2
    <3> HIDE DEF l
    <3> QED
      BY <3>1, <3>2, <3>3
  <2> HIDE DEF u, p
  <2>3. p.back <= l /\ u.commandIndex = l - p.back
    BY <2>1, <2>2
  <2> QED
    BY <2>1, <2>2, <2>3 DEF Agree
<1> QED
  BY <1>7, <1>9, <1>10 DEF log

\* One deed.
LEMMA DeedAgrees ==
  ASSUME NEW D, NEW d \in D, NEW h \in Heres(D), NEW s \in Saids(D), Agree(h, s)
  PROVE  /\ Do(h, d) \in Heres(D) /\ Promised(s, d) \in Saids(D)
         /\ Agree(Do(h, d), Promised(s, d))
<1>1. CASE d = "up"
  <2>1. Do(h, "up") = Up(h)
    BY DEF Do
  <2> QED
    BY <1>1, <2>1, UpAgrees
<1>2. CASE d = "down"
  <2>1. Do(h, "down") = Down(h)
    BY DEF Do
  <2> QED
    BY <1>2, <2>1, DownAgrees
<1>3. CASE d \notin {"up", "down"}
  <2>1. Do(h, d) = PostInput(h, d)
    BY <1>3 DEF Do
  <2>2. Promised(s, d) = [log |-> Append(s.log, d), back |-> 0, field |-> "draft"]
    BY <1>3 DEF Promised
  <2> QED
    BY <2>1, <2>2, SubmitAgrees
<1> QED
  BY <1>1, <1>2, <1>3

\* However many lines are submitted and keys pressed in between, the input
\* field shows the line that is so many back as was asked for, of the last
\* MaxLength lines (History.cpp).
THEOREM HistoryRetraces ==
  ASSUME NEW D, NEW deeds \in Seq(D)
  PROVE  Retraces(deeds)
<1> DEFINE k == Len(deeds)
           S == Together(D)
           step(x, d) == [here |-> Do(x.here, d), said |-> Promised(x.said, d)]
           b == [y \in S \X D |-> step(y[1], y[2])]
           a == [here |-> NoHistory, said |-> NothingSaid]
           Def(f) == f = [n \in 0..k |-> IF n = 0 THEN a ELSE step(f[n - 1], deeds[n])]
<1>1. k \in Nat /\ DOMAIN deeds = 1..k /\ \A i \in 1..k : deeds[i] \in D
  BY Places
<1>2. a \in S
  <2>1. NoHistory \in Heres(D) /\ NothingSaid \in Saids(D)
    BY DEF NoHistory, NothingSaid, Heres, Saids, Shows
  <2>2. Agree(NoHistory, NothingSaid)
    BY MaxLengthAssumption DEF Agree, NoHistory, NothingSaid
  <2> QED
    BY <2>1, <2>2 DEF Together
<1>3. ASSUME NEW x \in S, NEW d \in D
      PROVE  step(x, d) \in S
  <2>1. x.here \in Heres(D) /\ x.said \in Saids(D) /\ Agree(x.here, x.said)
    BY DEF Together
  <2> QED
    BY <2>1, DeedAgrees DEF Together
<1> HIDE DEF S
<1>4. b \in [S \X D -> S]
  <2> HIDE DEF step
  <2> QED
    BY <1>3
<1> HIDE DEF step
<1>5. \E g : Passes(g, S, a, deeds, D, b)
  <2> HIDE DEF b, a
  <2> QED
    BY <1>2, <1>4, LoopRuns
<1>6. PICK g : Passes(g, S, a, deeds, D, b)
  BY <1>5
<1>7. g \in [0..k -> S] /\ g[0] = a
  BY <1>6 DEF Passes
<1>8. ASSUME NEW n \in 1..k
      PROVE  g[n] = step(g[n - 1], deeds[n])
  <2>1. n - 1 \in 0..k
    BY <1>1
  <2>2. <<g[n - 1], deeds[n]>> \in S \X D
    BY <1>1, <1>7, <2>1
  <2>3. g[n] = b[<<g[n - 1], deeds[n]>>]
    BY <1>1, <1>6 DEF Passes
  <2> QED
    BY <2>2, <2>3
<1>9. Def(g)
  <2>1. ASSUME NEW n \in 0..k
        PROVE  g[n] = IF n = 0 THEN a ELSE step(g[n - 1], deeds[n])
    <3>1. CASE n = 0
      BY <1>7, <3>1
    <3>2. CASE n \in 1..k
      BY <1>1, <1>8, <3>2
    <3> QED
      BY <1>1, <3>1, <3>2
  <2> QED
    BY <1>7, <2>1
<1> DEFINE after == CHOOSE f : Def(f)
<1>10. Def(after)
  <2> HIDE DEF Def
  <2> QED
    BY <1>9
<1>11. After(deeds) = after[k]
  BY DEF After, step
<1> HIDE DEF after
<1> DEFINE F == [n \in 0..k |-> S]
<1>12. after[0] = a /\ \A n \in 1..k : after[n] = step(after[n - 1], deeds[n])
  <2>1. \A n \in 0..k : after[n] = IF n = 0 THEN a ELSE step(after[n - 1], deeds[n])
    BY <1>10
  <2>2. 0 \in 0..k /\ \A n \in 1..k : n \in 0..k /\ n # 0
    BY <1>1
  <2> QED
    BY <2>1, <2>2
<1>13. ASSUME NEW n \in 1..k, after[n - 1] \in F[n - 1]
       PROVE  after[n] \in F[n]
  <2>1. n - 1 \in 0..k /\ n \in 0..k
    BY <1>1
  <2> QED
    BY <1>1, <1>3, <1>12, <1>13, <2>1
<1>14. after[0] \in F[0]
  BY <1>1, <1>2, <1>12
<1>15. \A n \in 0..k : after[n] \in F[n]
  <2> HIDE DEF F
  <2> QED
    BY <1>1, <1>13, <1>14, Settles
<1>16. after[k] \in S
  BY <1>1, <1>15
<1>17. Agree(After(deeds).here, After(deeds).said)
  BY <1>11, <1>16 DEF S, Together
<1> QED
  BY <1>17 DEF Retraces, Agree

\* The property of the run, which holds of deeds of any number.
THEOREM RetracesAlways == Spec => []UpRetraces
<1>1. RetracesAll
  <2> DEFINE D == {"up", "down", "one line", "another"}
  <2>1. ASSUME NEW deeds \in BoundedSeq(D, 5)
        PROVE  deeds \in Seq(D)
    <3> HIDE DEF D
    <3>1. \A m \in 0..5 : m \in Nat
      OBVIOUS
    <3>2. \E m \in 0..5 : deeds \in [1..m -> D]
      BY Zenon DEF BoundedSeq, SeqOf
    <3>3. PICK m \in Nat : deeds \in [1..m -> D]
      BY <3>1, <3>2
    <3> QED
      BY <3>3, IsASeq
  <2>2. \A deeds \in BoundedSeq(D, 5) : Retraces(deeds)
    <3> HIDE DEF D
    <3> QED
      BY <2>1, HistoryRetraces
  <2> QED
    BY <2>2 DEF RetracesAll
<1>2. UpRetraces
  BY <1>1 DEF UpRetraces
<1> QED
  BY <1>2, PTL
=============================================================================
