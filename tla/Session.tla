-------------------------------- MODULE Session --------------------------------
(***************************************************************************)
(* A run of the program from main to its end: src/src/core/main.cpp, the    *)
(* life of plugins under /plugin and /quit, /gather, and the heartbeat.     *)
(* Four threads: main starts the plugins one after another and waits for    *)
(* the others, the terminal's reads what is typed, the heartbeat's calls    *)
(* its listeners, and a server's reads what is received.  Nothing keeps     *)
(* them apart.  Each of them draws the status bar, walking through the list *)
(* of widgets, which another may change in the middle.  A change of a list  *)
(* is one step: two at once are left out.                                   *)
(*                                                                          *)
(* What C++ leaves undefined, the use of freed memory or of unmapped code,  *)
(* either goes unnoticed or is a fault, which ends the run.                 *)
(***************************************************************************)
EXTENDS PluginHost, Completion, InputHistory

CONSTANTS
  File,         \* the files a plugin can be loaded from: its plugin and a path
  InDirectory,  \* those in the directory of plugins, as it lists them
  TypedWord,    \* bound: the names and abbreviations of commands that are typed
  LoadedSets,   \* bound: the sets of files that are loaded at a time
  MaxLeft       \* bound: what plugins have left behind when another is loaded

ASSUME FileAssumption ==
  /\ \A f \in File : f.plugin \in Plugin
  /\ InDirectory \in Seq(File)

VARIABLES
  host,   \* the lists of PluginHost, and whether commands are there at all
  main,   \* the main thread, and the file whose plugin it starts next
  term,   \* the thread of the terminal, the file it unloads, and /quit
  beat,   \* the heartbeat: whether it goes on, the listener it is in, and more
  reader, \* the thread of a server: the plugin in whose listener it is, "none", or
          \* "lost" when that has been unmapped
  walk,   \* of each thread through the list of widgets: "off", "on", or "torn"
          \* when another thread has changed the list since it began
  gather, \* whether notifications are gathered, and how many there are, up to 2
  fault,
  past    \* the plugins that are started, and those that were mixed up: started
          \* again, loaded from two files, or started and unloaded at once

vars == <<host, main, term, beat, reader, walk, gather, fault, past>>

NoFile == [plugin |-> "none", path |-> "none"]

\* How many handlers commandHandlers has for each name.
Handlers ==
  [n \in ToSet(NameOrder) |->
    (IF host.commands /\ n \in DOMAIN BuiltIn THEN 1 ELSE 0)
    + Len(SelectSeq(host.given["command"], LAMBDA r : r.what.name = n))]

\* How many things are held that nobody can take back.
Left == Cardinality(UNION {{<<k, i>> : i \in {j \in DOMAIN host.given[k] :
  ~host.given[k][j].live \/ ~host.given[k][j].known}} : k \in Kind})

\* The next step does something undefined.
Risk(undefined, cause) ==
  IF undefined THEN fault' \in {"none", cause} ELSE fault' = "none"

\* When thread t has made the widgets of the host those of next, and goes on to
\* draw the bar or not.
Thread == {"main", "term", "beat", "reader"}

Walks(t, next, draws) ==
  walk' = [u \in Thread |->
    IF u = t THEN (IF draws THEN "on" ELSE "off")
    ELSE IF walk[u] = "off" \/ next.given["widget"] = host.given["widget"] THEN walk[u]
    ELSE "torn"]

Changed(next) == next.given["widget"] # host.given["widget"]

\* Drawing the status bar calls every widget.
Stale(h, kind) == \E r \in ToSet(h.given[kind]) : ~r.live

\* It stands at a freed element of the list, or calls unmapped code.
Lost(t) == walk[t] = "torn" \/ (walk[t] = "on" /\ Stale(host, "widget"))
EndsWalk(t) == walk' = [walk EXCEPT ![t] = "off"]

\* The heartbeat when the listeners of h have become those of next: the list
\* element it stands at may have been freed.
BeatIn(h, next) ==
  LET erased == Len(h.given["beat"]) > Len(next.given["beat"])
  IN IF ~erased \/ beat.at = 0 THEN beat
     ELSE IF beat.at = 1 THEN [beat EXCEPT !.freed = TRUE]
     ELSE [beat EXCEPT !.at = @ - 1]

-----------------------------------------------------------------------------

\* preinitPlugins, for all that are in the directory.
Loaded ==
  LET after[n \in 0..Len(InDirectory)] ==
        IF n = 0
        THEN [plugins |-> InDirectory, given |-> [k \in Kind |-> <<>>], commands |-> TRUE]
        ELSE Preinit(after[n - 1], InDirectory[n].plugin)
  IN after[Len(InDirectory)]

Init ==
  /\ host = Loaded
  /\ main = IF InDirectory = <<>> THEN [at |-> "join", next |-> NoFile]
            ELSE [at |-> "postinit", next |-> Head(InDirectory)]
  /\ term = [task |-> "idle", file |-> NoFile, quit |-> FALSE]
  /\ beat = [on |-> TRUE, at |-> 0, freed |-> FALSE]
  /\ reader = "none"
  /\ walk = [t \in Thread |-> "off"]
  /\ gather = [on |-> FALSE, lines |-> 0]
  /\ fault = "none"
  /\ past = [started |-> {}, mixed |-> {p \in Plugin : \E i, j \in DOMAIN InDirectory :
                                i # j /\ InDirectory[i].plugin = p /\ InDirectory[j].plugin = p}]

\* A plugin is started, again perhaps.
Started(p, again) ==
  past' = [started |-> past.started \cup {p},
           mixed |-> IF again \/ term.file.plugin = p THEN past.mixed \cup {p} ELSE past.mixed]

\* One turn of the loop in postinitPlugins: the plugin it has come to, whose
\* element may have been erased, gives what it does, and draws the bar.
MainStarts ==
  LET p == main.next.plugin
      here == HasPath(host, main.next)
      next == IF here THEN Postinit(host, p) ELSE host
  IN /\ fault = "none" /\ main.at = "postinit"
     /\ main' = [main EXCEPT !.at = "returns"]
     /\ host' = next
     /\ IF here THEN Started(p, p \in past.started) ELSE UNCHANGED past
     /\ Walks("main", next, Changed(next))
     /\ Risk(~here, "postinit")
     /\ UNCHANGED <<term, beat, reader, gather>>

\* The step to the next element: if the one it stands at has been erased, the
\* loop may end, or go on to one behind it.
MainReturns ==
  LET here == SelectInSeq(host.plugins, LAMBDA f : f = main.next)
      behind == {f \in ToSet(host.plugins) : f.plugin \notin past.started}
      following == IF here = 0 THEN {NoFile} \cup behind
                   ELSE IF here = Len(host.plugins) THEN {NoFile} ELSE {host.plugins[here + 1]}
  IN /\ fault = "none" /\ main.at = "returns"
     /\ \E next \in following :
          main' = [at |-> IF next = NoFile THEN "join" ELSE "postinit", next |-> next]
     /\ EndsWalk("main")
     /\ Risk(here = 0 \/ Lost("main"), IF here = 0 THEN "postinit" ELSE "bar")
     /\ UNCHANGED <<host, term, beat, reader, gather, past>>

\* join has waited for the terminal, and then for the heartbeat.
MainJoins ==
  /\ fault = "none"
  /\ \/ main.at = "join" /\ term.task = "ended" /\ main' = [main EXCEPT !.at = "stop"]
        /\ beat' = [beat EXCEPT !.on = FALSE]
     \/ main.at = "stop" /\ beat.at = 0 /\ main' = [main EXCEPT !.at = "done"]
        /\ UNCHANGED beat
  /\ UNCHANGED <<host, term, reader, walk, gather, fault, past>>

-----------------------------------------------------------------------------
(* The heartbeat.                                                           *)

\* heartbeatLoop begins to walk through the listeners.
BeatCalls ==
  /\ fault = "none" /\ beat.on /\ beat.at = 0 /\ host.given["beat"] # <<>>
  /\ beat' = [beat EXCEPT !.at = 1]
  /\ UNCHANGED <<host, main, term, reader, walk, gather, fault, past>>

\* ClockWidgetPlugin::tick, which draws the bar once in a second.
BeatDraws ==
  /\ fault = "none" /\ beat.at > 0 /\ walk["beat"] = "off" /\ IsLoaded(host, "Clock")
  /\ Walks("beat", host, TRUE)
  /\ UNCHANGED <<host, main, term, beat, reader, gather, fault, past>>

\* It returns to the loop, which steps to the next listener.
BeatReturns ==
  LET strays == beat.freed \/ ~IsLoaded(host, "Clock")
  IN /\ fault = "none" /\ beat.at > 0
     /\ Risk(strays \/ Lost("beat"), IF strays THEN "beat" ELSE "bar")
     /\ beat' = [beat EXCEPT !.freed = FALSE,
                             !.at = IF ~beat.freed /\ @ < Len(host.given["beat"]) THEN @ + 1 ELSE 0]
     /\ EndsWalk("beat")
     /\ UNCHANGED <<host, main, term, reader, gather, past>>

-----------------------------------------------------------------------------
(* What is received, on the thread of a server.                             *)

\* A line that is a highlight.
Highlighted ==
  LET listeners == SelectSeq(host.given["event"], LAMBDA r : r.what.name = "notification")
  IN /\ fault = "none" /\ main.at # "done" /\ gather.on /\ listeners # <<>>
     /\ gather' = [gather EXCEPT !.lines = Min({2, @ + Len(listeners)})]
     /\ UNCHANGED <<host, main, term, beat, reader, walk, fault, past>>

\* An event, for which a plugin listens.
ReaderCalls(p) ==
  /\ fault = "none" /\ main.at # "done" /\ reader = "none" /\ walk["reader"] = "off"
  /\ \E r \in ToSet(host.given["event"]) : r.by = p /\ r.live
  /\ reader' = p
  /\ UNCHANGED <<host, main, term, beat, walk, gather, fault, past>>

\* An event for which the client or a plugin draws the bar.
ReaderDraws ==
  /\ fault = "none" /\ main.at # "done" /\ reader # "lost" /\ walk["reader"] = "off"
  /\ Walks("reader", host, TRUE)
  /\ UNCHANGED <<host, main, term, beat, reader, gather, fault, past>>

\* It returns from both.
ReaderReturns ==
  /\ fault = "none" /\ (reader # "none" \/ walk["reader"] # "off")
  /\ Risk(reader = "lost" \/ Lost("reader"), IF reader = "lost" THEN "listener" ELSE "bar")
  /\ reader' = "none" /\ EndsWalk("reader")
  /\ UNCHANGED <<host, main, term, beat, gather, past>>

-----------------------------------------------------------------------------
(* What is typed.                                                           *)

Typing(word, name) ==
  fault = "none" /\ term.task = "idle" /\ Resolve(word, Handlers) = name

\* /plugin load: a path that is loaded already is refused.
Load(word, f) ==
  /\ Typing(word, "plugin")
  /\ ~HasPath(host, f) /\ ToSet(host.plugins) \cup {f} \in LoadedSets /\ Left <= MaxLeft
  /\ LET listed == [host EXCEPT !.plugins = Append(@, f)]
         next == Postinit(Preinit(listed, f.plugin), f.plugin)
     IN /\ host' = next
        /\ Walks("term", next, Changed(next))
        /\ term' = [term EXCEPT !.task = IF Changed(next) THEN "draw" ELSE "idle"]
  /\ Started(f.plugin, IsLoaded(host, f.plugin))
  /\ UNCHANGED <<main, beat, reader, gather, fault>>

\* A key that gives another window the focus.
KeyDraws ==
  /\ fault = "none" /\ term.task = "idle"
  /\ term' = [term EXCEPT !.task = "draw"]
  /\ Walks("term", host, TRUE)
  /\ UNCHANGED <<host, main, beat, reader, gather, fault, past>>

\* The bar has been drawn.
Drawn ==
  /\ fault = "none" /\ term.task = "draw"
  /\ term' = [term EXCEPT !.task = "idle"]
  /\ EndsWalk("term") /\ Risk(Lost("term"), "bar")
  /\ UNCHANGED <<host, main, beat, reader, gather, past>>

\* The first half of unloadPlugin.  A plugin that has not been started has no
\* parent yet, unless preinit set it.
BeginUnload(f, task) ==
  LET p == f.plugin
      next == Cleanup(host, p)
      orphan == p \notin past.started /\ Shipped[p].setup = <<>>
      starting == main.at = "returns" /\ main.next.plugin = p
  IN /\ host' = next
     /\ beat' = BeatIn(host, next)
     /\ Walks("term", next, Changed(next))
     /\ term' = [term EXCEPT !.task = task, !.file = f]
     /\ past' = [past EXCEPT !.mixed = IF starting THEN @ \cup {p} ELSE @]
     /\ Risk(orphan, "unload")

\* The second half, when the bar has been drawn.
EndUnload ==
  /\ host' = Dlclose(host, term.file)
  /\ past' = [past EXCEPT !.started = {p \in @ : IsLoaded(host', p)}]
  /\ gather' = IF IsLoaded(host', "Notifications") THEN gather ELSE [on |-> FALSE, lines |-> 0]
  /\ reader' = IF reader = term.file.plugin /\ ~IsLoaded(host', reader) THEN "lost" ELSE reader
  /\ EndsWalk("term") /\ Risk(Lost("term"), "bar")

\* /plugin unload by a path or by a name, which finds the first path.
Unload(word, f) ==
  /\ Typing(word, "plugin") /\ HasPath(host, f)
  /\ BeginUnload(f, "unload")
  /\ UNCHANGED <<main, reader, gather>>

Unloaded ==
  /\ fault = "none" /\ term.task = "unload"
  /\ EndUnload
  /\ term' = [term EXCEPT !.task = "idle", !.file = NoFile]
  /\ UNCHANGED <<main, beat>>

\* Client::cleanup clears these lists.
Cleared(h) ==
  [h EXCEPT !.commands = FALSE,
            !.given = [k \in Kind |-> IF k \in {"command", "beat", "widget"} THEN <<>> ELSE @[k]]]

\* /quit: the commands, listeners and widgets are destroyed first.
Quit(word) ==
  /\ Typing(word, "quit")
  /\ host' = Cleared(host)
  /\ beat' = [beat EXCEPT !.freed = beat.at > 0]
  /\ term' = [term EXCEPT !.task = IF host.plugins = <<>> THEN "ended" ELSE "quit", !.quit = TRUE]
  /\ Walks("term", Cleared(host), FALSE)
  /\ Risk(Stale(host, "command") \/ Stale(host, "widget"), "quit")
  /\ UNCHANGED <<main, reader, gather, past>>

\* unloadPlugins, from the first to the last; then terminal.alive is FALSE.
QuitUnload ==
  /\ fault = "none" /\ term.task = "quit"
  /\ BeginUnload(Head(host.plugins), "close")
  /\ UNCHANGED <<main, reader, gather>>

\* Variant: terminal.alive stays as it is.
QuitUnloadedStays ==
  /\ fault = "none" /\ term.task = "close"
  /\ EndUnload
  /\ term' = [term EXCEPT !.task = IF Len(host.plugins) = 1 THEN "idle" ELSE "quit"]
  /\ UNCHANGED <<main, beat>>

QuitUnloaded ==
  /\ fault = "none" /\ term.task = "close"
  /\ EndUnload
  /\ term' = [term EXCEPT !.task = IF Len(host.plugins) = 1 THEN "ended" ELSE "quit"]
  /\ UNCHANGED <<main, beat>>

\* startGathering and stopGathering.  Each line that is written to the window
\* is gathered again: behind the second, the loop reads freed memory.
TogglesOnFreed(g) == g.on /\ g.lines > 1

\* /gather, once for each of its handlers.
Gather(word) ==
  LET held == host.given["command"]
      known == {i \in DOMAIN held : held[i].what.name = "gather"}
      mapped == {i \in known : held[i].live}
      turns == Cardinality(mapped) % 2 = 1
  IN /\ Typing(word, "gather")
     /\ gather' = IF mapped = {} THEN gather ELSE [on |-> gather.on # turns, lines |-> 0]
     /\ Risk(TogglesOnFreed(gather) \/ mapped # known, "gather")
     /\ UNCHANGED <<host, main, term, beat, reader, walk, past>>

-----------------------------------------------------------------------------

TypedLine ==
  \E w \in TypedWord :
    Quit(w) \/ Gather(w) \/ (\E f \in File : Load(w, f) \/ Unload(w, f))

Next ==
  \/ MainStarts \/ MainReturns \/ MainJoins
  \/ BeatCalls \/ BeatDraws \/ BeatReturns
  \/ TypedLine \/ KeyDraws \/ Drawn
  \/ Unloaded \/ QuitUnload \/ QuitUnloaded
  \/ (\E p \in Plugin : ReaderCalls(p)) \/ ReaderDraws \/ ReaderReturns \/ Highlighted

\* Threads go on; what is typed and what is received need not come.
Spec ==
  /\ Init /\ [][Next]_vars
  /\ WF_vars(MainStarts \/ MainReturns \/ MainJoins) /\ WF_vars(BeatReturns)
  /\ WF_vars(Drawn \/ Unloaded \/ QuitUnload \/ QuitUnloaded)
-----------------------------------------------------------------------------
(* Plugins.                                                                 *)

Held(p, g) ==
  LET held == host.given[g.kind]
  IN Cardinality({i \in DOMAIN held : held[i].by = p /\ held[i].what = g /\ held[i].live})

\* What a plugin gave is there once while the plugin is, and nothing of it is
\* left when its code is gone, but for the command /gather, which cleanup of
\* Notifications does not remove.
Leftovers ==
  \A p \in {f.plugin : f \in File} \ past.mixed :
    /\ \A k \in Kind : \A r \in ToSet(host.given[k]) :
         r.by = p /\ ~r.live => r.what = Gift("command", "gather")
    /\ p \in past.started /\ term.file.plugin # p /\ ~term.quit
         => \A g \in Gives(p) : Held(p, g) = 1

\* While no plugin is mixed up, freed memory or unmapped code is used in these
\* cases only: main stands at a plugin that was unloaded; a plugin is unloaded
\* that main has not started; the heartbeat is in a listener that is removed; the
\* widgets are added to or removed while another thread draws the bar; the thread
\* of a server is in a listener of a plugin that is unloaded; more than one line
\* has been gathered; a command was left behind, and is called or destroyed.
CrashesKnown ==
  [][fault' # "none" =>
       \/ past.mixed # {}
       \/ fault' = "postinit" /\ ~HasPath(host, main.next)
       \/ fault' = "unload" /\ term'.file.plugin \notin past.started
       \/ (fault' = "beat" /\ beat.freed)
       \/ fault' = "bar" /\ \E t \in Thread : walk[t] = "torn" /\ walk'[t] = "off"
       \/ (fault' = "listener" /\ reader = "lost")
       \/ fault' = "gather" /\ gather.lines > 1
       \/ fault' \in {"gather", "quit"} /\ Stale(host, "command")]_vars

\* /quit ends the program, whatever the threads are doing, unless that is a
\* fault: join gets its thread of the terminal, and the heartbeat stops.
QuitEnds == term.quit ~> main.at = "done" \/ fault # "none"

-----------------------------------------------------------------------------
(* What is typed, with the plugins that are loaded.                         *)

\* All that a person may do in five deeds.
RetracesAll == \A deeds \in BoundedSeq({"up", "down", "one line", "another"}, 5) : Retraces(deeds)

\* With the handlers of the History plugin registered once, the up and down
\* keys go through the last MaxLength lines, whatever came before.
UpRetraces ==
  Len(host.given["key"]) = 1 /\ "History" \notin past.mixed => RetracesAll

Room == [users : {<<>>, <<"ann", "self", "amy">>}, user : {NoOne, "ann"},
         channels : {<<"#a", "#ab">>}, own : {"self", "ann"}]

\* Tab goes through all that can be said, and adds the suffix to nicks at the
\* beginning of a message.
NicksVisited ==
  \A at \in Room, word \in {"a", "s", "#", "#a"}, first \in BOOLEAN :
    LET items == OwnLast(Items(at, word, word), at.own)
        after == [k \in 1..3 |->
          FoldLeft(LAMBDA f, i : CompleteMessage(f, at, first), Plain(word), [i \in 1..k |-> i])]
    IN items # <<>> /\ Len(items) <= 3 =>
         /\ {after[k].word : k \in DOMAIN items} = ToSet(items)
         /\ \A k \in DOMAIN items : after[k].suffixed = (first /\ ~StartsWith(word, "#"))

Offered ==
  {g.name : g \in {h \in UNION {ToSet(Shipped[f.plugin].start) : f \in File} : h.kind = "command"}}

\* What can be in the table: whether the built-in commands are, and which ones
\* of plugins.
Tables == {<<builtIn, added>> : builtIn \in BOOLEAN, added \in SUBSET Offered}

HandlersWith(builtIn, added) ==
  [n \in ToSet(NameOrder) |->
    IF n \in added \/ (builtIn /\ n \in DOMAIN BuiltIn) THEN 1 ELSE 0]

\* Those with which tab goes through all commands.
CommandsVisited ==
  {t \in Tables :
    \A word \in TypedWord :
      LET handlers == HandlersWith(t[1], t[2])
          matches == CommandMatches(word, handlers)
      IN {Tabs(k, word, handlers).word : k \in DOMAIN matches} = ToSet(matches)}

TableNow == <<host.commands, {r.what.name : r \in ToSet(host.given["command"])}>>
NoneTwice == Len(host.given["command"]) = Cardinality(TableNow[2])

\* Tab goes through all commands that begin with what was typed, also when a
\* plugin has added some or taken them back, as long as none has two handlers.
TabVisitsAll == NicksVisited /\ (NoneTwice => TableNow \in CommandsVisited)

PluginSetting ==
  {g.name : g \in {h \in UNION {ToSet(Shipped[f.plugin].setup) : f \in File} : h.kind = "setting"}}

Settings(ofPlugins) ==
  SelectSeq(SettingOrder, LAMBDA k : k.full \in ofPlugins \/ k.full \notin PluginSetting)

\* What is typed first, how often tab is pressed behind it, and what is typed
\* then: tab leaves it or gives a setting that begins with it.
Heeds(keys, before, tabs, piece) ==
  LET first == FoldLeft(LAMBDA s, k : CompleteSet(s, keys), TypeKey(NoState, before),
                        [k \in 1..tabs |-> k])
      then == CompleteSet(TypeKey(first, piece), keys)
  IN then.piece = piece \/ \E k \in ToSet(KeysFrom(piece, keys)) : k.full = then.piece

\* The sets of settings of plugins for which it does.  Tab behind nothing is
\* left out: from then on it ignores what is typed.
Heeded ==
  {ofPlugins \in {s : s \in SUBSET PluginSetting} :
    \A before, piece \in {"", "ba", "highlight", "logs.", "no"}, tabs \in 0..2 :
      (before = "" /\ tabs > 0) \/ Heeds(Settings(ofPlugins), before, tabs, piece)}

\* Tab behind /set completes what is typed, with the settings that the plugins
\* have registered at the time, whatever was completed before.
TabHeedsTyped == {r.what.name : r \in ToSet(host.given["setting"])} \in Heeded

\* Results of n handlers, of which the first are of high priority and the last
\* of low priority.
VerdictRight ==
  {n \in 0..3 :
    \A results \in [1..n -> Result], high, low \in 0..n :
      /\ Before(results) = Verdict(results)
      /\ high + low <= n =>
           BeforeSend(SubSeq(results, 1, high), SubSeq(results, high + 1, n - low),
                      SubSeq(results, n - low + 1, n)) = Verdict(results)}

\* Whatever the handlers of keys that are registered answer, the event goes
\* through as Plugin.h says of their results, for each of their priorities.
VerdictByPriority == Len(host.given["key"]) <= 3 => Len(host.given["key"]) \in VerdictRight

-----------------------------------------------------------------------------
(* To whom something is sent.                                               *)

Bare == HandlersWith(TRUE, {})

\* What is typed for a command; the last is an alias.
Meant ==
  [part |-> "part", pa |-> "part", kick |-> "kick", k |-> "kick", ban |-> "ban",
   unb |-> "unban", mode |-> "mode", me |-> "me", cut |-> "part"]

Alias == [cut |-> Typed(TRUE, <<"part", "#b">>)]

\* The active window is of a channel, of a user, or of neither.
Place ==
  {[channel |-> w[1], user |-> w[2], dead |-> FALSE, known |-> {"#a", "#b"},
    server |-> IF w[1] = NoOne /\ w[2] = NoOne THEN NoOne ELSE "home",
    selected |-> "home", begin |-> "home", servers |-> <<[id |-> "home", host |-> "h"]>>] :
     w \in {<<"#a", NoOne>>, <<NoOne, "bob">>, <<NoOne, NoOne>>}}

\* The channel that is named, or else the active one, the active user, or
\* oneself.
Target(at, name, args) ==
  LET named == IF name = "mode" THEN SelectSeq(args, LAMBDA w : w \in ChannelWord)
               ELSE IF name \in {"part", "kick"} /\ Names(args) THEN <<args[1]>> ELSE <<>>
  IN IF named # <<>> THEN named[1]
     ELSE IF at.channel # NoOne THEN at.channel
     ELSE IF name = "me" THEN at.user ELSE Self

\* /ban and /unban, which are left out of Target, concern the active channel,
\* also when another is named.
TargetsRight ==
  {word \in DOMAIN Meant :
    \A at \in Place, rest \in BoundedSeq({"#a", "#b", "+b", "-x", "bob", Self}, 3), inStatus \in BOOLEAN :
      LET line == Expand(GetInputLine(Typed(~inStatus, <<word>> \o rest), inStatus), Alias)
          sent == Submitted(at, line, Bare)
          name == Meant[word]
      IN \/ sent = Nothing
         \/ inStatus /\ (at.channel # NoOne \/ at.user # NoOne)
         \/ sent[1].to = Target(at, name, line.args)}

\* Up to three servers, of which some may have one host, and one of which may
\* have the host of another as its id; and a place at each, in its window or not.
Servers ==
  {order \in BoundedSeq([id : {"home", "work", "h"}, host : {"h", "w"}], 3) :
     \A i, j \in DOMAIN order : order[i].id = order[j].id => i = j}

Ids(order) == {s.id : s \in ToSet(order)}

Networked ==
  UNION {{[at EXCEPT !.servers = order, !.selected = selected, !.begin = begin,
                     !.server = IF Status(at) THEN NoOne ELSE begin] :
            at \in Place, selected \in Ids(order) \cup {NoOne}, begin \in Ids(order)} :
         order \in Servers}

\* In the status window the key for it selects each server in turn, and
\* /disconnect quits the server with the id that is named, or else all of that
\* host, each once, or the one whose window it is, or else the selected one.
ServersRight ==
  \A at \in Networked :
    LET count == Len(at.servers)
        pressed[n \in 0..count] == IF n = 0 THEN at ELSE NextServer(pressed[n - 1])
        quit(args) == Submitted(at, InputLine(Typed(TRUE, <<"disc">> \o args)), Bare)
        hosted(word) == {s.id : s \in {t \in ToSet(at.servers) : t.host = word}}
        named(word) == IF word \in Ids(at.servers) THEN {word} ELSE hosted(word)
    IN /\ Status(at) => {pressed[n].selected : n \in 1..count} = Ids(at.servers)
       /\ at.selected = NoOne \/
            /\ \A word \in {"home", "work", "h", "w"} :
                 /\ {m.to : m \in ToSet(quit(<<word>>))} = named(word)
                 /\ Len(quit(<<word>>)) = Cardinality(named(word))
            /\ {m.to : m \in ToSet(quit(<<>>))} = {IF Status(at) THEN at.selected ELSE at.server}

SameCommand ==
  {t \in Tables :
    \A word \in DOMAIN Meant :
      Resolve(word, HandlersWith(t[1], t[2])) \in {"", Resolve(word, Bare)}}

\* What is typed, abbreviated or as an alias, concerns the channel or the server
\* that it names, or else the active one.  A plugin's commands may make
\* abbreviations ambiguous, and never lead to another one of these commands.
TargetAsNamed ==
  /\ TargetsRight = DOMAIN Meant /\ ServersRight
  /\ NoneTwice => TableNow \in SameCommand
=============================================================================
