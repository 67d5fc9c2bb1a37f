# Spjalla in TLA+

A verification project for [Spjalla](https://github.com/heimskr/spjalla), an IRC
client for the terminal written in C++. It contains TLA+ modules translated from
the sources, TLC configurations that check them on small instances, and theorems
that TLAPS proves for every value of the constants. Paths below are those of the
repository; `tla/` is this directory.

- `PROJECT.json` lists the components, the runs, the mutants, the source lines of
  every definition, the disagreements found, the hazards and the theorems.
- To check a run: `tlc -config Interface.cfg MCInterface`, and so on. To check the
  proofs: `tlapm InterfaceProofs.tla`, and so on.

## 1. The system

### Threads

| thread | started by | runs |
| --- | --- | --- |
| terminal | `haunted::terminal::start_input` | keys, clicks, `Input.cpp`, every command handler |
| reader, one per server | `pingpong::server` | parsing of lines, every event listener of `Events.cpp` |
| heartbeat | `Client::init` (`Heartbeat.cpp`) | the `heartbeat` function of plugins, once per period |
| main | `main.cpp` | `init`, which starts the two above; then `postinitPlugins`; then waits in `Client::join` |
| slashdot | a detached thread of an optional plugin | one HTTP request |

`Client::ircMutex` is declared and nothing locks it; there is no other lock in
`src/`. Whatever two of these threads share is shared without order.

### Components

| component | state it keeps | operations | what makes it correct | modelled |
| --- | --- | --- | --- | --- |
| windows (`ui/Interface`, `ui/Window`) | `windows`, ordered by last focus; the children of `swappo`, ordered by the person; `activeWindow`; `beforeOverlay`; each window's object, name and `dead` | focus, next/previous, by index, move, overlay, new, get, remove | the two lists agree; one window per conversation; closing goes back to the window used before; no pointer outlives a window; the title bar and the overlay tell what is there | `Interface`, `FocusHistory`, `Panels` |
| event handlers (`client/Events`, `Client::serverRemoved`) | none of their own: windows, the library's channels and servers | join, part, kick, quit, appear, message, status, removal of a server | a channel we are in has a live window; a server that is gone has none | `Client` |
| queue of a server's status (`waitForServer`, `callInQueue`) | `serverStatusQueue`: a list of functions for each server | push, walk and call, free | what waits is called once, when its server is ready | `ServerQueue` |
| configuration (`config/*`, `core/FlatDB`) | `db`, the file, the values in effect (`Cache`), `registered` keys | read, apply, insert, remove, save | the file, the map and the effects agree; a start restores | `Config` |
| aliases (`core/Aliases`) | `db`, the file | add, remove, expand, read, save | what is written is what is read | `Databases`, `Commands` |
| plugin host, heartbeat (`client/PluginHost`, `client/Heartbeat`, `main.cpp`) | `plugins`, handlers before and after each kind of event, commands, keys, widgets, listeners | load, unload, dispatch, tick, join | no call into unloaded code; a plugin takes back what it gave; the verdict of the chain; `/quit` ends the program | `PluginHost`, `Session` |
| logs (`plugins/logs`, `util/BackwardReader`) | streams, markers, position and buffer of the reader | open, close, write, read backwards, restore, clean | every line restored once, in order, as it was shown; no stream outlives whom it is about | `LogReader`, `Logs` |
| rendering, lines (`lines/*`, `ui/Renderer`) | nodes by key | make a line from an event or from a log, draw it | a line drawn from the log is the one that was drawn; each key has a node | `Lines`, in part |
| notifications, status bar (`plugins/notifications`, `client/StatusBar`, `ui/Window`) | `highestNotification`, the text of the bar, the list of widgets | notify, unnotify, draw | the bar shows the windows with unseen lines, and is not drawn from a list that changes | `Notifications`, `Session` |
| input history (`plugins/history`) | a list of lines and an index | up, down, add | the up key shows the line before | `InputHistory`, `Session` |
| input and commands (`core/InputLine`, `client/Input`, `client/Commands`, `commands/*`) | the table of commands | parse, expand, resolve, dispatch | what is typed reaches one handler, and concerns the channel, user or server that is meant | `Commands`, `Session` |
| tab completion (`client/TabCompletion`) | partial word and index, in a message and in `/set` | complete, reset | cycling goes through all candidates; what is typed is heeded | `Completion`, `Session`, in part |
| small plugins (coloring, extracmd, nickcolor, trigger, window_info, clock) | single values | one command or listener each | they take back what they gave | `PluginHost`: what they give and take only |
| slashdot | one thread | one HTTP request | | no |
| haunted, formicine, pingpong | terminal, colours, the IRC protocol | | | external: submodules without source here |

### How they interact

A key goes to the overlay first, which goes away whatever key it is, then to the
interface or to `Input`, which expands an alias, lets plugins veto the line, and
calls the handler of the command. A handler sends a command to a server
(`before`/`after` plugin handlers around it), or changes windows and settings
itself. The reader thread of a server raises events; `Events.cpp` turns them into
windows and lines, and plugins (logs, notifications) listen too. A setting is
applied by a function that the default registered with it, which writes the
`Cache` that the rest reads.

### What is hard

The hazards, each at its line, are in `PROJECT.json`. The main ones:

- two orders of the windows and three raw pointers into them, changed by keys and
  by events in any order (`Interface.cpp` 79-102, 361-392, 492-513);
- containers that are changed while they are walked (`Client.cpp` 115-125,
  `Events.cpp` 253-268);
- a test and the action it guards on different threads without a lock
  (`Events.cpp` 270-275);
- a file that is rewritten while it is being read (`FlatDB.cpp` 67-86);
- names that windows keep while those of their objects change (`Interface.cpp` 292-350);
- code of a plugin that is unloaded while a thread or a table still points to it
  (`Heartbeat.cpp`, `PluginHost.cpp`, `Notifications.cpp`), and the list of widgets that every thread
  walks (`StatusBar.cpp` 28-44);
- the terminal and the heartbeat, which run before `main` has started the plugins;
- two listeners of one event, the windows and the logs, each asking the library anew who
  is where and under which name (`Events.cpp`, `Logs.cpp`);
- tables of names that only running draws together: settings, `Cache`, nodes of the
  renderer, lines (`Defaults.cpp`, `Cache.h`, `Renderer.cpp`);
- the boundaries of chunks and files in `BackwardReader.cpp`.

## 2. The modules

| module | extends | models |
| --- | --- | --- |
| `FocusHistory` | | abstract: what the window list promises |
| `Interface` | | `Interface.cpp`, and the parts of `Window` that handlers change |
| `MCInterface` | `Interface` | instance: five addresses, a channel, and a user with two objects and two nicks |
| `Client` | `Interface` | `Events.cpp`, `serverRemoved` |
| `MCClient`, `MCClientWide` | `Client` | instances: two servers; three conversation addresses, or four |
| `ServerQueue` | | `waitForServer`, `callInQueue`, `serverRemoved`'s part of the queue |
| `MCServerQueue` | `ServerQueue` | instance: two servers, three requests |
| `Config` | | `FlatDB.cpp`, `config/Database.cpp`, `/set`, registration |
| `MCConfig` | `Config` | instance: three keys, four values, six files a person wrote |
| `Databases` | `Config`, `Values` | `Aliases.cpp`, `/alias`, the two files one after the other |
| `Values` | | `Value.cpp`, escaping, the types of texts, `Defaults.cpp`, `Cache.h` |
| `MCDatabases` | `MCConfig`, `Databases` | instance: three aliases, five files a person wrote, and texts of four characters out of nine |
| `LogReader` | | `BackwardReader.cpp`, `Restore.cpp`, `Clean.cpp`, the stream and the markers of one log |
| `MCLogReader` | `LogReader` | instance: chunks of three characters, lines of one, two and four |
| `Lines` | | `lines/*`, the nodes of `Renderer.cpp`, the placeholders of the formats |
| `Logs` | `LogReader`, `Lines` | `Logs.cpp`, `GetLine.cpp`, next to the windows of `Events.cpp` |
| `MCLogs` | `MCLogReader`, `Logs` | instance: two people, a channel, three names |
| `Notifications` | `Client` | levels of windows, the widgets of `Widget.cpp` and `WindowInfo.cpp`, the bar as a copy |
| `Panels` | `Notifications` | the title bar, the list in the overlay, and the handlers that keep them |
| `MCPanels` | `Panels` | instance, also of `Notifications`: two conversation addresses, one channel with two objects, one user with two nicks |
| `Commands` | | `InputLine.cpp`, `Input.cpp`, `Commands.cpp`, `Aliases::expand`, the commands that send |
| `Completion` | `Commands` | `TabCompletion.cpp` |
| `InputHistory` | | `History.cpp` |
| `PluginHost` | | `PluginHost.cpp`, `PluginHost.h`, what each shipped plugin gives and takes back |
| `Session` | `PluginHost`, `Completion`, `InputHistory` | `main.cpp`, `/plugin`, `/gather`, `/quit`, `Heartbeat.cpp`, `StatusBar.cpp`: four threads |
| `MCSession` | `Session` | instance: three plugins, one of them under two paths, two loaded at a time |
| `ListFacts` | | lemmas about sequences: lists without repetitions and their order, prefixes, iteration of a function, loops over a sequence; used by the other proofs |
| `InterfaceProofs` | `Interface`, `ListFacts` | theorems about the two lists, the pointers, `/move` and the keys that cycle; one window per conversation; `Interface` implements `FocusHistory` |
| `ClientProofs` | `Client`, `InterfaceProofs` | theorems about the handlers |
| `PanelsProofs` | `Panels`, `ClientProofs` | theorems about levels, the bar, and `Notifications` as `Client`; the title and the overlay's list |
| `SessionProofs` | `Session`, `ListFacts` | theorems about plugins, what they leave behind, and crashes; chains of handlers; the input history |
| `ServerQueueProofs`, `ConfigProofs`, `LogsProofs` | theirs | theorems about the queue; settings and their file; windows and logs |

A definition whose comment begins with "Variant:" is not part of a specification.
It is a plausible slip in the definition that follows it; `PROJECT.json` says
which property finds it.

### Interface

`ui` is one record: the members of the class (`windows`, `children`, `active`,
`beforeOverlay`) and of its windows (`obj`, `dead`). A window is its address, so
that an address the allocator hands out again is the same pointer. Each method is
an operator from a record to a record (`Focus`, `RemoveWindow`, `MoveWindow`,
`Find`, ...), because handlers compose methods; actions apply them to `ui`.
`fault` is where the C++ program stops having a meaning: `"freed"` when a pointer
to a window that is gone is followed, `"unlisted"` when an exception says that the
lists disagree. A faulty state has no successor, hence `CHECK_DEADLOCK FALSE`: the
runs say which faults cannot happen, and one run exhibits the one that can.
An object of the library has a `gen`: a channel that is left and joined again is
another object with the same name, which is what `getWindow`'s second search is for. That
search compares `windowName`, which a window gets when it is made and keeps, with the name
the object has now (`FullName`); `ui.name` has the names that the library gives its objects,
and `Rename` is a change of nick, in the object that windows hold. So a user who is renamed and
met again as another object gets a second window, and whoever takes the old nick is shown in the first.

`Spec` lets the keys, commands, clicks and every call that handlers make happen in
any order, more freely than the handlers do. What holds there holds for any caller.
Each call is atomic: what two threads do inside two methods at once is a data race
in `std::list` and `std::deque`, which the modules do not split.

### Client

Adds `connected` and `joined` (the channel objects we are in) and one action per
handler that touches windows or depends on names. `SelfJoin`, `SelfKick`, `SelfPart`, `Message`,
`UserQuit`, `UserAppeared`, `NickChange` and `ServerStatus` are the listeners of `Events.cpp`.
`rooms`, the channels a user is in, is the library's knowledge and arbitrary here.
`ServerRemoved` is the loop of `serverRemoved` over the children, down to the slots
of the `std::deque`: `EraseInPlace` moves the shorter side, as libstdc++ and libc++
do, and the iterator of the loop stays at its slot.

### ServerQueue

`status` is what `getStatus` returns, `queue` is `serverStatusQueue` with `Absent`
for a key that is not there, `reader` is the program counter of each reader thread
in `callInQueue` (with its iterator, `next`), `command` is the program counter of
`waitForServer` between its look at the status and its push. Steps are as small as
the looks at shared state: `Ask` reads the status, `Push` pushes, `StartWalk` looks
into the map, `Call` is one turn of the loop. `Quit` frees the list; if a reader
stands at an element its iterator dangles (`fault`).

### Config

`db` has the map, the file, and what the applicators have put into effect (`Raw`
is a cache no applicator has written). A line as `FlatDB` writes it is two tokens,
so that a buffer can end inside a line; a person may write a shorter line, which
the program makes longer when it saves. `stream` is the `std::ifstream` of
`readDB`: its buffer, the offset at which it is filled next, and end of file.
`ReadLine` is one turn of the loop with everything it calls: parse, validate,
insert, apply, save. It saves, because `insertAny`'s `save` defaults to true: the
file changes under the stream. `StopInWrite` is a kill between the truncation and
the writing of the file.

### LogReader

`file` is the log as a sequence of characters; a line is a character that stands for
its stamp and kind (`created`, `opened`, `closed`, or a message), as often as the line
is long, and a newline. `Load` is what a turn of `readline`'s loop reads, `Fill` the
loop, `Readline` and `Readlines` the methods with the reader's position, buffer and
`done`; each loop is a recursive function over its turns. `Restored` is `/restore`: the
search for a line before the top of the window and the lines read behind it. `Log` is
`log` with the markers `getStream` writes when it opens the file. `CallReadline` takes
the reader through the file line by line while `Log` appends, as the readers of the
servers do during a `/restore`.

### Databases

Composes `Config` with the aliases: `Client::init` reads one file and then the other, and
a throw in the first ends the program before the second. `aliases` is the map and its
file, `reader` the stream of `readDB`. The file consists of pieces of names and expansions and
of the characters that decide what becomes of it: the equals sign, the backslash, the end of
a line and the number sign. Writing doubles backslashes (`Escaped`) and reading does not halve them, so the
file grows under the stream, whose buffer was filled from the old one (`Handing` of `Config`, the buffer of the
library's `basic_filebuf`). `ReadAlias` takes what getline finds then: a piece of a line behind the old
end of the file is a line like any other, which `parseKVPair` throws at, or an alias that nobody has
made. `Applied` is `Aliases::applyLine`, which removes and inserts, and each of the two saves while
the file is read. `SpecBoth` adds weak fairness of reading the
settings and of the beginning of the aliases, as in `Config`.
`NextBoth` bounds which files of aliases there are beside settings: only one of the two maps is
looked at with all that can become of it.

### Values

What `Config` leaves out: a value is a text that gets a type. `GetValueType`, `ParseString`,
`EscapeText`, `UnescapeText` and the rest follow the functions of the same names over
sequences of characters, where a word is one character. `RegisterDefaults` is the table of
the settings (default, validator, applicator's type), `CacheReads` what `Cache` reads of it.
The module is pure: `SettingsReadBack` of `Databases` evaluates it over all texts.

### Logs, Lines

`Lines` has the classes of lines as records of what they keep, `Drawn` as what drawing
shows of one, and the renderer: `Nodes` are the keys that `initStrNodes` and
`moreStrNodes` insert, with the placeholders of their formats, and `Drawable` the keys all
of whose placeholders come to something. `Logs` has the channel, the people in it and
their names (`people`: the library's knowledge), the windows (`screen`: what each has
shown), and the logs (`entries`, `streams`). Each action is an event with both of its
listeners, `Events.cpp` first and the plugin second, in the order in which they were
registered. `GetLine` is the way back, from the text of a log to a line of a window. In `LogsSpec`
a behaviour is either one of events or one of `LogReader`, which looks at one log in detail.

### Notifications

`note` adds to the windows of `Client` the level of each window, and the status bar as
what it said when it was last drawn; `unseen` is a history variable, the highest line that
a window got since it was on the screen. Every handler of `Client` is taken over with the
lines it writes (`AddLine`) and the drawings it asks for (`Redraw`), in their order; `ServerQuits` is
`serverRemoved`, with what each `removeWindow` of its loop does to the bar. `Label` is what the widgets of `WindowInfo.cpp` say
of the window: its index, the name its channel or user has now, the server, and whether it is dead.
`ChangesNick` is a change of nick with both of its listeners: the widgets' asks `getActiveUser`, which the overlay has none of.

### Panels

`room` is what the library knows of a channel: its topic, and its people with their hats. `title` and
`listed` are the copies on the screen. `TitleOf` and `OverlayOf` are `updateTitlebar` and
`updateOverlay`; `Follow` is the end of `focusWindow`, through which every handler of `Client`
that changes the active window goes. `NamesUpdated`, `HatsUpdated` and `TopicUpdated` are the three handlers
that look whether the channel is on the screen, each in its own way: the active window's channel,
the window found by name, the channel of the window below the overlay.

`ScreenSpec` has both modules: none of the copies on the screen reads another and no handler of
windows reads any, so a behaviour looks either at the bar with the lines that are written or at the panels with
what the library learns (`watched`), and not at every pair of their states.

### PluginHost, Session

A plugin is what it gives the client (`Gifts`: handlers, commands, keys, widgets,
listeners) in `preinit` and `postinit`, and what `cleanup` takes back: `Shipped` has that of
each plugin. A gift whose code has been unloaded stays in `given` with `live` false.
`Session` has four program counters: `main` in `postinitPlugins`, between the two halves of a turn, and in `join`;
`beat`, the heartbeat with its iterator in `heartbeatListeners`; `term`, the terminal's thread, between
the two halves of `unloadPlugin`, in the drawing of the bar and through `/quit`; and `reader`, a server's thread, with the
plugin in whose listener it is. Each of the four draws the status bar, in two steps: it begins to walk
`statusWidgets` (`Walks`) and comes to the end (`EndsWalk`), and in between another may change the list, which tears the
walk (`walk`), or unmap the plugin whose listener draws. A change of the list is one step. What would use freed
memory or unmapped code may end the run (`Risk`, `fault`) or not.

`Commands`, `Completion` and `InputHistory` are pure: their operators take what is
registered at the moment from `Session`'s state, so that what is typed is checked against
every set of plugins that loading and unloading leads to.

## 3. The runs

| run | over | asks | answer |
| --- | --- | --- | --- |
| `interface` | all orders of all operations and changes of nick, five windows | do the two lists agree, does `getWindow` find every window it should, so that no object is held and no name borne by two, do the keys reach every window, does `/move` do what it says, is the order that of use | yes; the refinement of `FocusHistory` holds until a covered window is closed |
| `client` | two servers, every handler against every key | has a channel we are in a live window; is focus moved only by closing the active window, and then to the one used before | yes |
| `client_covered` | the same | does the window under the overlay stay open, as `Interface.h:48` says | **no** |
| `client_orphans` | two servers with two channels each | does a server that is removed leave no window | **no** |
| `server_queue` | all interleavings of terminal and two readers | is each request in one place, sent once, to a ready server; is what is queued in time sent | yes |
| `server_queue_lost` | the same | is each request for a server that is ready sent, as `Client.h:162` says | **no** |
| `config` | starts with every set of plugins, six files of settings, five of aliases, `/set`, `/alias`, edits by hand, kills; all texts of four characters | do file, map and effects agree, for both files; does a start restore; does reading end; does what `/set` accepts come back from the file, of the same type | yes, with the exceptions below |
| `config_read` | the same | does reading leave the file's settings in the file, as `FlatDB.h:55` says | **no** |
| `log_reader` | logs of up to five lines of every mix of lengths, closed, killed, cleaned, reopened; and every four events of two people | does `readline` return every line whole, in reverse order; does a window show messages in order and once; does what was shown come back as it was shown; can it be drawn; do streams end | yes, but that the first line may come twice, and for the lines `Restorable` leaves out |
| `log_restore` | one log | is the line before the top of the window restored, as `Restore.cpp:55` says | **no** |
| `screen` | every handler and key, lines of each level, nicks, topics, hats and people that change; two conversation windows | does an up-to-date status bar mark exactly the windows with unseen lines, and when does it go out of date; do lines leave the windows alone; is the title that of the window that is shown; is the list in the overlay right, and what makes it wrong | yes; the bar in three cases, the list in four |
| `session` | four threads, three plugins, all of what may be typed | does a plugin leave something behind; is freed memory used in known cases only; does `/quit` end the program; history, completion, verdicts and targets | yes, with the exceptions below |

### The five disagreements

- **`CoveredStaysOpen`.** The overlay is shown over a channel's window; the channel is
  left with `interface.close_on_part`; `removeWindow` closes the window and does not
  look at `beforeOverlay`. The next redraw of the status bar, or the next key, follows
  a pointer to freed memory. `KeepsFocusHistory` therefore promises nothing from the
  moment a covered window is closed (`CoveredLost`).
- **`NoOrphans`.** `serverRemoved` says that it walks in reverse because it removes.
  That is enough for a `std::vector`. In a `std::deque` an erase in the front half
  moves the front, so the next element comes to the slot just visited and is skipped:
  a window stays with a pointer to a server that is gone.
- **`AskedIsSent`.** `/join` looks at the status, the server becomes ready and its
  reader finds nothing to call, `/join` pushes: the request waits for ever.
- **`ReadKeepsFile`.** A start without a plugin whose setting is in the file throws
  when it reads that line; the lines behind it have been overwritten by the saves of
  the lines before it. A string with a double quote in it does the same: it is
  written unescaped and refused when read.
- **`RestoresNearest`.** `readlines` reads a line before it looks at its limit, so each
  call loses the line behind the last one it returns. `restore` calls it with the limit
  1 for every line it looks at, and once more for the rest: every other line near the
  top of the window, and one behind the line that was found, are not restored. Another
  slip shows in `ReadsBackwards`: when less than a chunk is left and the buffer then
  holds the first line alone, `readline` returns it, keeps the buffer, and returns it
  again. In a log that is the line "created", which `logs.autoclean` hides.

### Properties that pass, and why they could fail

- `SameWindows` relates two containers that six operations change one after the other.
- `KeepsFocusHistory` is a refinement: `visited` is the part of the recency list in
  front of the overlay, which focusing keeps in order and which `removeWindow` must
  consult before it erases.
- `CycleVisitsAll` and `MovedWhereAsked` evaluate the methods in every reachable
  state, with the overlay anywhere among the children: it starts second and
  `moveWindow` puts it last.
- `OneWindowPerName` relates the object that a window holds, the name it was opened with and the name the
  object has now, through changes of nick in any order: `getWindow` must look for both before a window
  is made. It says nothing of two windows of one person under two names, which there can be. `JoinedOpen`
  needs the search by name for a second object, and the revival of a killed window.
- `FocusFollowsHistory` constrains a step that removes several windows at once.
- `NoneLostNoneTwice` and `QueuedInTimeIsSent` need the erase in `callInQueue` to
  step neither back nor too far while the other thread appends.
- `FileHoldsSettings`, `EffectFollowsSettings` relate three copies of a setting.
- `StartRestores` holds although the file is truncated and rewritten under the
  stream, because a file that fits the buffer has been read before the first save.
  The hypothesis `Len(loaded) <= Buffer` is part of the property: longer files that a
  person has edited are really damaged. One of the files of `MCConfig` is longer.
- `AliasesKept` says the same of the aliases, whose file is rewritten twice for each line
  that is read, and that a start fails only at a line that is none. It needs a file that keeps its length, with no
  backslash (`Keeps`). Of all others it says that when the file has been read it holds what is written of the map, with
  backslashes doubled: also when the map has got an alias from behind the file's old end.
- `SettingsReadBack` composes `/set`, validation, writing and reading for every short text:
  the type is guessed from the text twice, once as typed and once as written. A string that
  holds a double quote before its last character is the exception (`Unreadable`): it is
  accepted, written bare, and ends the next start. It also compares the three tables of settings,
  validators and applicators, and `Cache`, type by type (`DefaultsFit`).
- `ReadsBackwards` compares the reader with `Backwards`, a reference that does not know
  of chunks, in files where chunks begin at every place of a line; `WindowInOrder`
  relates the window to itself over any number of restores of a growing log.
- `RestoredAsShown` compares two listeners of the same events, which ask the library
  separately who is where and under which name: each line of a window is in the log of the name
  the window had, and what `GetLine` makes of it is drawn as it was. `Restorable` names
  the lines for which it is not so: actions and other CTCP messages, our own private
  messages (logged under our own name), notices of the server, our being kicked (restored as
  anybody's), and topics.
- `DrawnButTopics`: of the formats that lines are drawn by, exactly `topic_is` and
  `topic_change` have no node. A topic change in a channel with a window, `/topic`, and
  the restoring of a topic throw.
- `StreamsEnd` needs each handler that logs a last line to close the stream behind it.
- `MarksTellUnseen` compares the bar, a copy drawn at times, with what a person has really
  missed, through focusing, closing, moving and covering; `StaleInThreeCases` says after which
  steps the copy may be old: a window is closed (`serverRemoved` closes several), or below the overlay the window
  dies or comes back, or its user's nick changes, which the window's own listener does not see there.
  `KeepsClient` is a refinement: `Notifications` implements `ClientNext`, step by step.
- `TitleTells` holds although four handlers and `focusWindow` write the title and ask three different
  questions before they do. `ListedAsTheyAre` says the same of the overlay, step by step: it is
  right when it opens, and stays right but when somebody comes or goes (`NamesUpdated` looks at the active
  window, which is the overlay, and no other handler looks), when we join or leave a channel, when it lists
  the channels of a user, and when the covered window holds an object that has been replaced.
  Each of the four exceptions is needed.
- `Leftovers`, `CrashesKnown` and `QuitEnds` are about four threads that change and walk the same lists.
  The known crashes are: `main` stands at a plugin that was unloaded before it was started, and
  a plugin that `main` has not started, and that has no parent yet, is unloaded; the heartbeat is in a listener that is
  taken away; the widgets change while another thread draws the bar from them, each of the four in turn; a server's thread is in
  a listener of a plugin that is unmapped; `/gather` ends
  with more than one line, because writing one appends to the vector that is walked; and the
  command `/gather`, which `cleanup` leaves in the table, is called or destroyed after
  its code is gone. That there is no other case is what could be wrong: no widget, listener or handler that is listed has
  lost its code, and who stands at an element that nobody took away stands well. `past.mixed` are plugins that are in the
  directory twice, that were started twice, or while they were unloaded, or unloaded while they were started (loaded from two
  paths, or loaded or unloaded before `main` had come to them or gone on): for those nothing is said.
- `UpRetraces`, `TabVisitsAll`, `TabHeedsTyped`, `VerdictByPriority` and `TargetAsNamed` state
  what a person expects of history, completion, chains of handlers and commands, over all
  short inputs. They are tables that TLC evaluates once, of which the state of the session chooses the entry: the
  commands, keys and settings that are registered then, with every set of plugins that is reached. They say nothing of
  a table that changes between two keys of one completion. Their exceptions: a command with
  two handlers; a completion behind the empty argument of `/set`, which is never forgotten; and `/ban` and
  `/unban`, which check the channel named and act on the active one.

Every property of a passing run is also shown to be breakable: a mutant of a mapped
definition violates it under the same configuration.

### Bounds

| run | bound | why it is enough |
| --- | --- | --- |
| `interface` | three conversation addresses; a channel and a user, who has a second object and, with the first, a second nick | one window to be active, one to be covered and closed, one to be allocated where another was freed; the second object asks for the window of the first under the name it bears, and after a change of nick a window is made for each; that the later object changes its nick too is left out |
| `client` | three addresses, two servers, a channel with two objects; windows change places while there are two conversations at most | leaving and joining again needs two objects; one server's windows among another's needs two servers |
| `client_orphans` | four addresses | two windows of a server side by side with the second in the front half, also with the status window first and the overlay last |
| `server_queue` | two requests for one server, one for another | one element behind the one that is erased; a request on another list |
| `config` | three keys, a buffer of five tokens | a buffer that ends inside a line, and lines before and behind it |
| `config`, aliases | three names, of which one ends with another; files of up to 20 pieces and characters and a buffer of 13; settings beside three of the files (`Beside`) | an end of a line behind the old end of the file that throws, and one that is an alias; a file longer than the buffer; the two files meet only in their order and in a start that fails, for which three files do |
| `config`, texts | four characters of nine, `MaxLong` 700, `MaxInt32` 70 | a quoted text of two characters, an escape at its end, numbers over each limit; five characters passed too |
| `screen` | two conversation addresses, one server with one channel and one user; messages of the highest level. For the panels the channel has two objects, two topics and two hats; for the bar one object, the user takes another nick once, and the status window gets no line that counts | a marked window that is moved, covered, closed behind another, or freed and allocated again; information is lower and is there through joins and modes; an old and a new object of a channel; a change of topic or hats, and one back; a nick that changes while its user's window is on the screen, elsewhere, or below the overlay |
| `session` | two plugins at once out of three, one of them under two paths, the history alone or beside the notifications; nothing left behind when another is loaded; history of two lines | a widget before and behind one that is erased or added; a listener of the heartbeat and one of a reader; a leftover and its caller |
| `log_reader`, events | four events, two people, three names, one channel | a name that passes from one to the other needs two events, and a message before and behind them two more |
| `log_reader` | five stamps, chunks of three | lines shorter than a chunk, as long as one with its newline, and longer; files that are a multiple of the chunk and not; a log that is opened twice |

`gen` bounds how often a channel is left and joined with a new object, `Request`
how often `/join` is entered, `Edited` and `EditedAliases` what files a person writes,
`MaxStamp` the lines of a log, `MaxEvents` the events of a conversation, `LoadedSets` and `MaxLeft` what is loaded
and left behind, `MaxAliases` the file of aliases that a start reads, `Beside` those with settings. `MCNext` of `MCClient`,
`MCInterface` and `MCPanels` has the bounds on moves, nicks and lines that the table names. No action counts anything else. Conversation addresses are symmetric: no operation orders them.

### Fairness

`Interface` and `Client` have none: nothing there must happen. `ServerQueue`'s
`ThreadsRun` says that a thread inside `waitForServer` or `callInQueue` goes on (weak
fairness of `Push`, and of the steps of each reader inside a report); both are
straight code without waiting. Nothing makes a server reach a stage or a person enter
a command. In `Config`, weak fairness of `ReadLine \/ EndRead` says that the loop of
`readDB` goes on, and in `Databases` that the second file is begun. `Session`'s `Spec` says
that threads go on where nothing they wait for is missing: `main` through `postinitPlugins` and
the two joins, the heartbeat out of a listener it has called, the terminal through `unloadPlugin` and
`/quit`, and each of the three out of a drawing of the bar, all straight code. Nothing is said of what is typed or received, nor that the heartbeat
calls its listeners, nor that a server's thread comes out of a plugin's listener. `CHECK_DEADLOCK FALSE` stands where a fault ends the program
(`interface`, `client*`, `screen`) and where everything may come to rest (`server_queue*`: all
servers dead and all requests entered; `session`: the program has ended; `log_reader`:
`MaxEvents` have happened, or we have quit). `config`, `config_read` and `log_restore` are checked
for deadlock. `LogReader`, `Logs`, `Notifications` and `Panels` need no fairness: nothing is said to
happen.

## 4. The proofs

| theorem | states |
| --- | --- |
| `InterfaceProofs!SoundAlways` | the inductive invariant `Sound` |
| `InterfaceProofs!TypeCorrect` | `TypeOK`, which no run repeats |
| `InterfaceProofs!ListsAgree` | `SameWindows` |
| `InterfaceProofs!OverlayCoversAlways` | `OverlayCovers` |
| `InterfaceProofs!MovedAlways` | `MovedWhereAsked` |
| `InterfaceProofs!CycleAlways` | `CycleVisitsAll` |
| `InterfaceProofs!KeptAlways` | the inductive invariant `Kept`: `Sound`, `Recent` and `Named` |
| `InterfaceProofs!OneWindowAlways` | `OneWindowPerName` |
| `InterfaceProofs!RefinesFocusHistory` | `KeepsFocusHistory`, the refinement of `FocusHistory` |
| `ClientProofs!ClientKept` | the inductive invariant `CInv`: `Kept` and `Joined` |
| `ClientProofs!ClientListsAgree` | `SameWindows`, of the handlers |
| `ClientProofs!JoinedOpenAlways` | `JoinedOpen` |
| `ClientProofs!FocusFollowsAlways` | the action property `FocusFollowsHistory` |
| `PanelsProofs!NotesKept` | the inductive invariant `WInv`: `CInv`, and the windows and levels `Solid` |
| `PanelsProofs!KeepsClientAlways` | `KeepsClient`, the refinement of `Client` |
| `PanelsProofs!MarksTellAlways` | `MarksTellUnseen` |
| `PanelsProofs!StaleAlways` | the action property `StaleInThreeCases` |
| `PanelsProofs!PanelsKept` | the inductive invariant `PInv`: `CInv`, the type of `room`, and the title |
| `PanelsProofs!TitleTellsAlways` | `TitleTells` |
| `PanelsProofs!ListedAlways` | the action property `ListedAsTheyAre` |
| `LogsProofs!LogsKept` | the inductive invariant `LInv` |
| `LogsProofs!RestoredAlways` | `RestoredAsShown` |
| `LogsProofs!StreamsEndAlways` | the action property `StreamsEnd` |
| `SessionProofs!SessionKept` | the inductive invariant `IInv` of plugins, threads and what is held |
| `SessionProofs!LeftoversAlways` | `Leftovers` |
| `SessionProofs!CrashesKnownAlways` | the action property `CrashesKnown` |
| `SessionProofs!BeforeIsVerdict`, `SendIsVerdict` | what chains of handlers of any length decide |
| `SessionProofs!VerdictAlways` | `VerdictByPriority` |
| `SessionProofs!HistoryRetraces` | what the up and down keys bring back, after any deeds |
| `SessionProofs!RetracesAlways` | `UpRetraces` |
| `ServerQueueProofs!QueueInvariant` | the inductive invariant `IInv` |
| `ServerQueueProofs!NoRequestLostOrRepeated` | `NoneLostNoneTwice` |
| `ServerQueueProofs!SentOnlyToReady` | the action property `OnlyToReady` |
| `ConfigProofs!ConfigInvariant` | the inductive invariant `IInv` of the map and the effects |
| `ConfigProofs!OnlyValidValues` | `TypeOK` |
| `ConfigProofs!EffectFollows` | `EffectFollowsSettings` |
| `ConfigProofs!FileInvariant` | the inductive invariant `FInv` of the file |
| `ConfigProofs!FileHolds` | `FileHoldsSettings` |
| `ConfigProofs!RestoringAlways` | the inductive invariant `Restoring` of a file that fits the buffer |
| `ConfigProofs!StartRestoresAlways` | `StartRestores` |

Assumptions are those the modules name. `WindowAssumption`, `ObjectAssumption`,
`RequestAssumption`, `KeyAssumption`, `ValueAssumption` and `PeopleAssumption` keep names and addresses of
different kinds apart. `BufferAssumption` says that a buffer has room. `EditedAssumption` says
that a file a person leaves does not end inside a line. `TopicAssumption` says that the topic of a channel whose
topic nobody has told is one a channel can have, and that no topic is the cleared title; `HatAssumption` that
somebody may have no hat, as who has just joined. `FileAssumption` says that what is loaded is one of the plugins
that `Shipped` tells of. None bounds a set: windows, servers, channels, users,
requests, keys, files and events may be infinitely many.

**Windows.** `SameWindows` is not inductive: to remove the active window,
`removeWindow` focuses `windows.front()` after it has erased the window, which needs a
window to be left and not to be the overlay, and `Focus` needs the active pointer to
be one of the lists. `Sound` adds that the status window stands before the overlay in
the recency list (so the front of it is never the overlay, whatever is erased), that
the overlay holds no object (so no search finds it), and, while the program runs,
that `active` is in the lists and agrees with `beforeOverlay`. Each method has a lemma
(`Sound(u) => Sound(Method(u))`), over lemmas about `Erase` and `ToFront` in terms of
`Precedes`, and each action is a short composition of them. `beforeOverlay` may dangle
in `Sound`, as it may in the program.

`MovedWhereAsked` and `CycleVisitsAll` speak of what a method would do in the present
state, so they need no more than `Sound`. A list without repetitions is given by its elements and
their order; a window that is erased and inserted again stands at the index and leaves
the order of the others. The cycle is an iteration of `nextWindow`: after `i` presses the window is the
one `i` places behind, around the overlay, and the previous key undoes the next. That the iteration
is what the recursive function computes is shown by the least counterexample (`Iterates`, `Goes`,
`LeastNatural` of `ListFacts`), because the library's induction theorem cannot be instantiated.

**One window per conversation, and the order of use.** `OneWindowPerName` needs that a conversation's window
holds an object (`Named`): `getWindow` looks for the object first and for the name it has now second, and `newWindow` makes one
only when neither is found, of that name; what an object is called later changes no window's name, so that two windows of a name or of an object could only come from one without. The
refinement needs that the window on the screen, unless it is the overlay, is the front of the
recency list (`Recent`). The map takes `visited` from the part of the list in front of the overlay. One lemma per method
says what it does to that part: `Focus` moves a window to its front or puts it there, `RemoveWindow` erases
it, whatever else is erased or stays behind the overlay. Each action is then a step of
`FocusHistory` or leaves what it speaks of alone, while `Promised` holds; when it does not
the abstract list is `void`, as `KeepsFocusHistory` says.

**Handlers.** `JoinedOpen` needs that we are in one object of a channel's name at most
(`SelfJoin` replaces the old one): leaving a channel kills or closes the window found by name, which must not be the
window of another channel we are in. The loop of `serverRemoved` is the difficult part. Its
iterator stands in the slots of a deque that it erases from, so which windows it removes
depends on places; the proof says only that every state of the loop has come from the first
by closing windows of that server one after the other (`Shed`): whatever it skips, what is
left is in its order, the lists agree, and the window on the screen is the front of those left. That is enough
for `FocusFollowsHistory`, which is stated over what has left (`Leaving`, `LeftOf`), and not for
`NoOrphans`, which is false.

**Lines and the bar.** Every handler of `Notifications` is a composition of methods, lines and drawings, in the order
of the code. `Solid` is what each of them keeps once the handler is at its end: the windows are `Kept`, the window
below the overlay is open (`Above`), and the level of each window is that of the highest line in it nobody has seen, none
for the active window and for those that are gone (`Levels`). Between a method and the line behind it `Levels` may be
false, so the lemmas of the handlers (`...Done`) go from `Solid` to `Solid` and say of the steps between what they leave alone.
That a handler does to the windows what it does in `Client` is the same composition with lines and drawings left out, which
change no window (`Arrives`); from that, `CInv` and the lemmas of `ClientProofs` come for nothing. `StaleInThreeCases` asks of each
handler that the bar it leaves is drawn after its last change, or that the change is one of the three (`Excused`). Where a
handler writes to every window of a server or of a user, the loop is a recursive function over its turns (`ForEach`),
and what it leaves is shown by the least turn at which it would be otherwise (`Settles`, `LoopRuns` of `ListFacts`).

**Title and list.** Of each handler two things are shown of the windows: a window that stays on the screen
holds what it held (`Stays`); and when the overlay comes up it covers an open window
(`Opens`), which stays below it with what it holds, unless we leave a channel (`Covers`). Then of each handler what it
writes. `TitleTells` follows where the handler changes the active window, when `focusWindow` has written it, and
where it does not, when the topic that was written is that of the window that stays. `TopicUpdated` compares the object
of the window below the overlay: if that is the channel the title may be written under the overlay, where `TitleTells` does not
look, and is written anew when the overlay goes. `ListedAsTheyAre` is a property of steps from `PInv`. A change of hats
lists the event's channel if its window is below; the window is found by name, so the channel it holds is the
event's, or was replaced, which is the exception of the property.

**Logs.** `RestoredAsShown` relates each line of a window to a line of a log. What is inductive is that for
every window and line (`Told`), with the name the window had when the line was shown (`under`). `Told` is kept when the
logs only grow, so a lemma takes what an event shows and what it logs, and asks for a log line
that `GetLine` makes the same picture of; there is one such lemma for each kind of line. `Restorable` is
needed in each: the kinds it leaves out are those for which the proof fails. `Ended` (no stream is open once we are off)
and that a channel has only people who are online are what `StreamsEnd` needs.

**Queue.** `NoneLostNoneTwice` needs that a reader that walks reports the stage its
server is in (`WalksItsStage`), that a list holds requests of its own server only
and none twice (`OwnRequests`, `RemoveAtInjective`), and that a server that was quit
gets no list any more (`QuitHasNoList`: `Quit` and `Push` are on one thread).
`OnlyToReady` is an action property: it follows from `IInv` in the state before.

**Plugins.** `Leftovers` counts what is held of one plugin, and is not inductive: `cleanup` takes what a plugin
remembers, once, and leaves the rest. `IInv` says for each plugin that is not mixed up (`Kept`) that it is listed
once; that of each kind nothing is held from it twice, that it remembers all of it, and that what has
lost its code is the command `/gather` alone (`Orderly`: `Single`, `Remembered`); and what of its gifts is alive (`Alive`)
by its stage: what `preinit` gives before `main` starts it, everything then, the command at most while it is
unloaded, nothing when it is gone. What each plugin gives and takes back is shown once to be lists without
repetition, apart from those of the others (`Planned`). Then one lemma for a gift given and one for a gift
taken back, each for a run of them by the least turn at which it would be otherwise (`LoopRuns`, `Settles`), and one lemma
for each step of the four threads: the plugin it is about, and all the others, of which nothing changes (`Spares`).
The heartbeat needs that it has one listener at most, the clock's: who is not `freed` stands at it. `CrashesKnown` follows
from `IInv` in the states before and behind a step: no widget in the list is stale, so a walk that draws the bar is at risk only when
it is torn.

**Handlers' results and history.** The runs try three handlers and five deeds; the theorems are about
any number. The loop of `beforeMulti` is at each turn at what `Reached` says of the results so far: one of them
stopped it or none, and the last that decided before that is what it would send. Two lists one behind the other
reach what their concatenation does (`ReachedBoth`), which is `beforeSend`. Of the history, `Agree` relates what
`History.cpp` keeps to all that was ever submitted: the lines kept are the end of those, and the index is as far from the
end as the person went back.

**Settings.** `EffectFollowsSettings` says nothing while the file is read: then the
effects of the lines are there and those of the defaults are not. It is established
by `EndRead` (`applyAll`) and kept by what happens after, with `TypeOK` for the
validity of what `get` returns. Nothing in that proof looks into a line or the stream.

The proof of `FileHoldsSettings` does. A file means, for each key, the value of its last line with that key;
`ConfigProofs` has what a file of one more line means, and that what `operator std::string` writes
of a map means the map, by the least key at which it would not. While the file is read the invariant is `ReadSoFar`: the file is what was inserted so
far, written back, or no line has been inserted yet. `StartRestores` needs more: the stream goes on to hand out the old
text from its buffer while the file is another. For a file that fits the buffer, what has been handed out is
a beginning of what was `loaded` (`Midway`), and the map has the meaning of that beginning; when the buffer is used up the stream reads on behind
the old end of the new file, and the lines found there are in the map already (`Beyond`), so that
inserting them again, each a save, changes nothing.

### Only model-checked

- Liveness (`QueuedInTimeIsSent`, `ReadEnds`, `QuitEnds`): the prover does no fairness or
  `ENABLED`.
- `AliasesKept`, `SettingsReadBack`, `ReadsBackwards`, `WindowInOrder`, `TabVisitsAll`, `TabHeedsTyped`
  and `TargetAsNamed`: what recursive functions and folds over texts, logs and typed
  lines compute. An argument by least counterexample, as for the cycle of windows and the files of
  settings, needs lemmas for each fold; those of `Config` alone are a third of its proofs.
- `DrawnButTopics` is a property of one finite table, written with `:>` and `@@`, and TLC evaluates all of it.

## 5. What is not modelled

About a third of the repository's lines of code are a vendored HTTP library
(`src/include/lib/httplib.h`), and another part tests and a generator of boilerplate
(`src/new.js`): none of them is the program's own logic. Of the rest:

- Handlers are atomic in `Interface`, `Client`, `Notifications`, `Panels` and `Logs`; two threads inside two
  methods at once are a data race in a container, whose outcomes are not enumerated.
- The library: `joined`, `rooms`, `people`, `Advance` and the objects' generations are what the
  handlers see of it; that listeners are called in the order of their registration too. A server
  that is quit does not come back under the same id. How the library takes a quit server out of
  the list that `/quit` and `/disconnect` walk is not known here.
- Scrolling, selection, the mouse but for a click on a name; windows opened by a plain name; colours, wrapping and continuation; the text of
  formats. That a placeholder is looked up among the nodes below its own node, and then among the pieces
  that are given, is how `src/` uses Strender, which is a submodule.
- In `Config`: edits by hand while the program runs, a disk that is full, and the second read that `/set` asks for with
  `readIfEmpty`, which finds an empty map and the file of an empty map. In `Values`:
  doubles, which no setting takes; zero bytes, which cannot be typed; which names colours have.
- `ServerQueue` has `/join`, the only caller of `waitForServer`.
- In `LogReader` and `Logs`: the sanitising of names (two may share a file); empty lines in a
  log, which the program never writes (`Strip` is translated all the same); a file that
  cannot be opened; `reset`, which nothing calls; `/restore` in a window without lines.
- In `Notifications`: the active server's name that the right widget shows at the status window.
- In `Databases`: expansions with an equals sign, and tabs, which are written as two characters too.
- In `Panels`: the order of a list, modes and headings; changes of nick, in the list of a channel; `/move`; a user's expired
  channel, which `updateOverlay` would follow: whether the library leaves any is not known here.
- In `Commands`: `/connect`, `/clear` and `/spam`, which call the library or write
  lines only; commands whose name begins with an underscore, for debugging; an alias without words.
- In `Completion`: the text behind the cursor and where in a word it stands; a place
  without a server (`completeMessage` then follows a null pointer).
- In `PluginHost` and `Session`: what the handlers of the small plugins do; slashdot; that `dlclose`
  keeps a library mapped that has other references. It is taken to unmap. Two changes of one list at once; the order of widgets; and what the library does
  when a listener is taken out while it runs: it is taken to return.

### Disagreements without a run

Met while modelling, and visible in the exceptions of the properties above or in the source alone:

- `Notifications::cleanup` leaves `/gather`; the comment in `Client.h:107` says that `cleanup` joins
  threads and unloads plugins, and it joins none. The terminal and the heartbeat run before `main`
  has started the plugins.
- `hasPlugin` compares paths as they are spelt.
- `TabCompletion.h:64` says that `reset` resets the partial string and index; it returns early on an
  empty partial.
- `/ban #channel nick` acts on the active channel; `/topic` with two or more words does nothing.
- `Aliases::readDB` rewrites what it reads, twice a line, and each writing doubles the backslashes, so that the
  file is longer than when the stream read it: at its old end getline finds the end of the longer last line and
  hands it out as a line, where `FlatDB.h:55` has "Reads the database from the cached file path." One
  backslash is enough: what is found is a bare newline, `parseKVPair` throws at the empty line, and this start and the
  next ones end there. Four backslashes in `bye` make an alias `ls` of the end of `cls`. An alias is lost
  by a kill between the two saves of a replacement; `expand` does not lower the case of the
  command it puts in.
- Of an open overlay nobody tells who comes and goes: `NamesUpdated` calls `updateOverlay` when the active
  window is the channel's, and then there is no overlay to update. `/overlay` clears the list, because the key that
  begins a line lifts the overlay. A channel that is left and joined again keeps its window's old object, so its title
  and its list are the old channel's, until a change of hats lists the new one.
- A draft that was being typed cannot be reached again with the down key.
- `topic_is` and `topic_change` have a format and no node; `bang`, `bad`, `good` and `warn` of the
  renderer ask for keys that no node has, and nothing calls them; `Renderer::nick` takes the bright
  format for the plain one and the other way round.
- `Value::operator==` is false for two equal booleans; a dot alone is a double that `stod` refuses; `\0` is lost
  by `unescape`; a word like `123` or `yes` must be quoted to be a string.
- `logs.autoclean` hides that a first line is read twice; `logs.enabled` is registered and never read;
  renaming a user leaves the stream of the old name open until we quit.

## 6. Plan

What is left is mostly proof:

1. `AliasesKept`, with the lemmas of `ConfigProofs` about files that are rewritten under the stream.

A model of two threads inside one container, step by step, would be the next to add.
