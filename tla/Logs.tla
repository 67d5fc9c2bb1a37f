-------------------------------- MODULE Logs --------------------------------
(***************************************************************************)
(* What the windows of a server show and what its logs keep of it: the      *)
(* listeners of LogsPlugin (src/src/plugins/logs/Logs.cpp) next to those of *)
(* Client (Events.cpp), which are called for the same events, the table of  *)
(* streams, and getLine, which makes a line of a window of one of a log.    *)
(* LogReader has one log in detail, how it is written and read back.        *)
(*                                                                          *)
(* The library is external: it says who is in the channel and under which   *)
(* name, and hands us what we send as it hands us what others send.         *)
(***************************************************************************)
EXTENDS LogReader, Lines

CONSTANTS
  User,       \* the people, ourselves among them
  Me,
  Nick,
  Server,     \* the name of the server
  Body,       \* what is said
  MaxEvents   \* bounds the events

\* The window that is always open, and the log of what a server says.
Status == "status"
Dollar == "$"

\* Everybody has a name of their own.
ASSUME PeopleAssumption ==
  /\ Me \in User /\ Channel \notin User \cup Nick
  /\ NoOne \notin Nick /\ Server \notin Nick
  /\ Status \notin User \cup {Channel}
  /\ \E f \in [User -> Nick] : IsInjective(f)

\* The names of logs.
LogName == Nick \cup {Channel, Server, Dollar}

VARIABLES
  people,   \* names, who is online, in the channel and has a hat
  screen,   \* the windows that are open and their lines
  entries,  \* the lines of the logs
  streams,  \* the logs in filemap
  events    \* how many events there were

book == <<people, screen, entries, streams, events>>

Open == DOMAIN screen
NickOf(u) == people.nick[u]
Hats(u) == IF u \in people.hats THEN "@" ELSE ""

LogsInit ==
  /\ Init
  /\ people = [nick |-> CHOOSE f \in [User -> Nick] : IsInjective(f),
               online |-> User, room |-> {Me}, hats |-> {}]
  /\ screen = [w \in {Status, Channel} |-> <<>>]
  /\ entries = [f \in LogName |-> <<>>]
  /\ streams = {}
  /\ events = 0

Text == [form : {"plain", "action"}, body : Body]
Plain(body) == [form |-> "plain", body |-> body]
Nothing == Plain(NoOne)

-----------------------------------------------------------------------------
(* The windows and the logs.                                                *)

\* The windows with line added at the end of each of ws, which are named by
\* nick; getWindow opens those that are not open yet.
ShownAs(ws, line, nick) ==
  [w \in Open \cup ws |->
     (IF w \in Open THEN screen[w] ELSE <<>>) \o
     (IF w \in ws THEN <<[line |-> line, stamp |-> events + 1,
                          under |-> IF w \in User THEN nick[w] ELSE w]>> ELSE <<>>)]

Shows(ws, line) == ShownAs(ws, line, people.nick)

\* A line of a log: its stamp and verb, the words behind it and the text behind
\* the sign.
Entry(verb, words, text) ==
  [stamp |-> events + 1, verb |-> verb, words |-> words, sign |-> ":", text |-> text]

\* log, for each of names.
Logged(names, entry) ==
  [f \in LogName |-> IF f \in names THEN Append(entries[f], entry) ELSE entries[f]]

\* windowsForUser
WindowsForUser(u) ==
  {w \in Open : w = u \/ (w = Channel /\ u \in people.room)}

\* log for a user: the names its windows have, once `name` is the user's, and
\* the streams; that of the user is closed behind the line.
NamesFor(u, name) == {IF w = u THEN name ELSE w : w \in WindowsForUser(u)}

\* Variant: the stream stays open.
StreamsLeftOpen(u, name) == streams \cup NamesFor(u, name)

StreamsBehind(u, name) == (streams \cup NamesFor(u, name)) \ (IF u \in Open THEN {name} ELSE {})

-----------------------------------------------------------------------------
(* getLine.                                                                 *)

\* The text is looked for behind the first colon of the line; a line with
\* another sign gives all of itself.
TextOf(entry) == IF entry.sign = ":" THEN entry.text ELSE [entry.text EXCEPT !.form = "raw"]

GetLine(name, e) ==
  CASE e.verb \in {"msg", "notice"} -> Separated(e.verb, e.words[1], name, TextOf(e))
    [] e.verb = "join" -> JoinLine(e.words[1])
    [] e.verb = "part" -> PartLine(e.words[1], e.text)
    [] e.verb = "mode" -> ModeLine([type |-> "channel", change |-> e.words[3], extra |-> e.words[4]],
                                   name, e.words[1], e.words[2])
    [] e.verb = "topic_is" -> TopicLine(NoOne, e.text)
    [] e.verb = "topic_set" -> TopicLine(e.words[1], e.text)
    [] e.verb = "quit" -> QuitLine(e.words[1], e.text)
    [] e.verb = "nick" -> NickChangeLine(e.words[1], e.words[2])
    [] e.verb = "kick" -> KickLine(e.words[1], e.words[2], e.text, FALSE)

-----------------------------------------------------------------------------
(* Messages.                                                                *)

\* Variant: the hats are not logged.
MessageEntryBare(line) ==
  [Entry(line.kind, <<[name |-> line.who, hats |-> ""], NickOf(Me)>>, Trimmed(line.text))
     EXCEPT !.sign = IF IsAction(line.text) THEN "*" ELSE ":"]

\* The entry of a message: the name behind its hats, our nick, the text.
MessageEntry(line) ==
  [Entry(line.kind, <<[name |-> line.who, hats |-> HatString(line)], NickOf(Me)>>, Trimmed(line.text))
     EXCEPT !.sign = IF IsAction(line.text) THEN "*" ELSE ":"]

Record(ws, line, name) ==
  /\ screen' = Shows(ws, line)
  /\ entries' = Logged({name}, MessageEntry(line))
  /\ streams' = streams \cup {name}
  /\ UNCHANGED people

Present(u) == u \in people.online /\ Me \in people.online

\* PrivmsgEvent and NoticeEvent in the channel.
ChannelMessage(u, kind, text) ==
  /\ {u, Me} \subseteq people.room
  /\ Record({Channel}, MessageLine(kind, NickOf(u), Hats(u), Channel, text), Channel)

\* In private a message is shown in the window of the other one, and logged
\* under the name of the one who speaks.  `inStatus` is notices_in_status.
PrivateMessage(u, v, kind, text, inStatus) ==
  /\ Present(u) /\ v \in User /\ u # v /\ Me \in {u, v}
  /\ LET line == MessageLine(kind, NickOf(u), "", NickOf(v), text)
         w == IF u = Me THEN v ELSE IF kind = "notice" /\ inStatus THEN Status ELSE u
     IN Record({w}, line, NickOf(u))

\* VersionRequestedEvent, which is shown as a message unless it is hidden.
VersionRequested(u, body) ==
  u # Me /\ PrivateMessage(u, Me, "msg", [form |-> "ctcp", body |-> body], FALSE)

\* A notice of the server is in the active window, or in that of the status.
ServerNotice(w, body) ==
  /\ Me \in people.online /\ w \in Open
  /\ Record({w}, MessageLine("notice", Server, "", NoOne, Plain(body)), Dollar)

-----------------------------------------------------------------------------
(* What happens in the channel.                                             *)

\* A line in the window of the channel if it is open, and in its log always.
Happens(line, entry) ==
  /\ screen' = Shows({Channel} \cap Open, line)
  /\ entries' = Logged({Channel}, entry)
  /\ streams' = streams \cup {Channel}

Join(u) ==
  /\ Present(u) /\ u \notin people.room /\ Me \in people.room \cup {u}
  /\ people' = [people EXCEPT !.room = @ \cup {u}]
  /\ screen' = Shows({Channel}, JoinLine(NickOf(u)))
  /\ entries' = Logged({Channel}, Entry("join", <<NickOf(u)>>, Nothing))
  /\ streams' = streams \cup {Channel}

Kick(u, v, reason) ==
  /\ {u, v, Me} \subseteq people.room
  /\ people' = [people EXCEPT !.room = @ \ {v}, !.hats = @ \ {v}]
  /\ Happens(KickLine(NickOf(u), NickOf(v), Plain(reason), v = Me),
             Entry("kick", <<NickOf(u), NickOf(v)>>, Plain(reason)))

\* +m has no argument, +o and -o have the name of who gets or loses the hat.
Mode(u, change, v) ==
  /\ {u, v, Me} \subseteq people.room
  /\ people' = [people EXCEPT !.hats = IF change = "+o" THEN @ \cup {v}
                                       ELSE IF change = "-o" THEN @ \ {v} ELSE @]
  /\ LET extra == IF change = "+m" THEN NoOne ELSE NickOf(v)
     IN Happens(ModeLine([type |-> "channel", change |-> change, extra |-> extra],
                         Channel, NickOf(u), NickOf(Me)),
                Entry("mode", <<NickOf(u), NickOf(Me), change, extra>>, Nothing))

\* A mode of our own is in the status window, and logged unless we set it.
SelfMode(who) ==
  /\ Me \in people.online /\ UNCHANGED people
  /\ screen' = Shows({Status}, ModeLine([type |-> "self", change |-> "+i", extra |-> NoOne],
                                        NickOf(Me), who, NickOf(Me)))
  /\ LET names == IF who = NickOf(Me) THEN {} ELSE {NickOf(Me)}
     IN /\ entries' = Logged(names, Entry("mode", <<who, NickOf(Me), "+i", NoOne>>, Nothing))
        /\ streams' = streams \cup names

\* A line of a topic cannot be drawn: what is thrown, before or after the line
\* is `kept`, leaves the listener of Client, and whether that of the log is still
\* called is up to the library.
Topic(u, body, kept, called) ==
  /\ {u, Me} \subseteq people.room /\ UNCHANGED people
  /\ screen' = IF kept THEN Shows({Channel} \cap Open, TopicLine(NickOf(u), Plain(body))) ELSE screen
  /\ LET names == IF called \/ Channel \notin Open THEN {Channel} ELSE {}
     IN /\ entries' = Logged(names, Entry("topic_set", <<NickOf(u)>>, Plain(body)))
        /\ streams' = streams \cup names

\* /topic, in the window of the channel or else in the active one.
AskTopic(w, body, kept) ==
  /\ Me \in people.room /\ w \in Open /\ (Channel \in Open => w = Channel)
  /\ screen' = IF kept THEN Shows({w}, TopicLine(NoOne, Plain(body))) ELSE screen
  /\ UNCHANGED <<people, entries, streams>>

\* TopicUpdatedEvent is logged and not shown.
TopicUpdated(body) ==
  /\ Me \in people.room /\ UNCHANGED people
  /\ screen' = screen
  /\ entries' = Logged({Channel}, Entry("topic_is", <<>>, Plain(body)))
  /\ streams' = streams \cup {Channel}

\* Behind our own part the stream is closed.
ClosedBehindPart(u, before) == IF u = Me THEN before \ {Channel} ELSE before \cup {Channel}

\* The window of a channel we leave goes when `close`, close_on_part.  Whether
\* the library forgets who else is in it is external.
Part(u, reason, close, forgets) ==
  /\ {u, Me} \subseteq people.room
  /\ people' = [people EXCEPT !.room = IF u = Me /\ forgets THEN {} ELSE @ \ {u}, !.hats = @ \ {u}]
  /\ screen' = IF u = Me /\ close THEN Restrict(screen, Open \ {Channel})
               ELSE Shows({Channel} \cap Open, PartLine(NickOf(u), Plain(reason)))
  /\ entries' = Logged({Channel}, Entry("part", <<NickOf(u)>>, Plain(reason)))
  /\ streams' = ClosedBehindPart(u, streams)

-----------------------------------------------------------------------------
(* What happens to a user.                                                  *)

\* The name is the new one by the time the listeners are called.
NickChange(u, name) ==
  /\ Present(u) /\ \A v \in User : NickOf(v) # name
  /\ people' = [people EXCEPT !.nick[u] = name]
  /\ LET shown == ShownAs(WindowsForUser(u), NickChangeLine(NickOf(u), name), people'.nick)
         told == [line |-> SelfNickChange(name), stamp |-> events + 1, under |-> Status]
     IN screen' = IF u = Me THEN [shown EXCEPT ![Status] = Append(@, told)] ELSE shown
  /\ entries' = Logged(NamesFor(u, name), Entry("nick", <<NickOf(u), name>>, Nothing))
  /\ streams' = StreamsBehind(u, name)

Gone(u) == [people EXCEPT !.online = @ \ {u}, !.room = @ \ {u}, !.hats = @ \ {u}]

Quit(u, reason) ==
  /\ Present(u) /\ u # Me
  /\ people' = Gone(u)
  /\ screen' = Shows(WindowsForUser(u), QuitLine(NickOf(u), Plain(reason)))
  /\ entries' = Logged(NamesFor(u, NickOf(u)), Entry("quit", <<NickOf(u)>>, Plain(reason)))
  /\ streams' = StreamsBehind(u, NickOf(u))

\* Our own, behind which all streams are closed.  serverRemoved has closed the
\* windows before when the command has `removed` them.
SelfQuit(reason, removed) ==
  /\ Me \in people.online
  /\ people' = Gone(Me)
  /\ screen' = IF removed THEN Restrict(screen, {Status})
               ELSE Shows(WindowsForUser(Me), QuitLine(NickOf(Me), Plain(reason)))
  /\ entries' = IF removed THEN entries
                ELSE Logged(NamesFor(Me, NickOf(Me)), Entry("quit", <<NickOf(Me)>>, Plain(reason)))
  /\ streams' = {}

\* A click on the name in a message opens the window of its user; /wc closes it.
Click(u) ==
  /\ Me \in people.online /\ u \notin Open
  /\ screen' = [w \in Open \cup {u} |-> IF w = u THEN <<>> ELSE screen[w]]
  /\ UNCHANGED <<people, entries, streams>>

CloseWindow(u) ==
  /\ u \in Open
  /\ screen' = Restrict(screen, Open \ {u})
  /\ UNCHANGED <<people, entries, streams>>

-----------------------------------------------------------------------------

Message ==
  \/ \E u \in User, kind \in {"msg", "notice"}, text \in Text :
       \/ ChannelMessage(u, kind, text)
       \/ \E v \in User, inStatus \in BOOLEAN : PrivateMessage(u, v, kind, text, inStatus)
  \/ \E u \in User, body \in Body : VersionRequested(u, body)
  \/ \E w \in Open, body \in Body : ServerNotice(w, body)

InChannel ==
  \/ \E u, v \in User :
       \/ \E reason \in Body : Kick(u, v, reason)
       \/ \E change \in {"+o", "-o", "+m"} : Mode(u, change, v)
  \/ \E u \in User, body \in Body :
       \/ Join(u)
       \/ \E kept, called \in BOOLEAN : Topic(u, body, kept, called)
       \/ \E close, forgets \in BOOLEAN : Part(u, body, close, forgets)
  \/ \E w \in Open, body \in Body, kept \in BOOLEAN : AskTopic(w, body, kept)
  \/ \E body \in Body : TopicUpdated(body)

OfUser ==
  \/ \E u \in User :
       \/ \E name \in Nick : NickChange(u, name)
       \/ \E reason \in Body : Quit(u, reason)
       \/ Click(u) \/ CloseWindow(u)
  \/ \E reason \in Body, removed \in BOOLEAN : SelfQuit(reason, removed)
  \/ \E who \in {Server, NickOf(Me)} : SelfMode(who)

Event ==
  /\ events < MaxEvents
  /\ events' = events + 1
  /\ Message \/ InChannel \/ OfUser

\* The log that LogReader has is none of these.  Bound: a behaviour has either
\* events or steps of that log.
LogsNext ==
  \/ clock = 0 /\ ~over /\ Event /\ UNCHANGED vars
  \/ events = 0 /\ Next /\ UNCHANGED book

LogsSpec == LogsInit /\ [][LogsNext]_<<vars, book>>

-----------------------------------------------------------------------------
(* Properties.                                                              *)

\* What getLine gives back as it was: not an action nor another CTCP message,
\* nor what we ourselves say in private, which is in the log of our own name,
\* nor what the server says; of a kick not that it was ours; and no topic, which
\* cannot be drawn.
Restorable(w, s) ==
  /\ s.line.kind \in {"msg", "notice"} =>
       /\ s.line.text.form = "plain"
       /\ s.line.who # Server
       /\ w \in User => s.line.who = s.under
  /\ s.line.kind = "kick" => ~s.line.isSelf
  /\ s.line.kind # "topic"

\* "Converts a line of log text into a textline for a window" (Logs.h:59): each
\* line a conversation's window has shown is in the log of the name the window
\* then had, and the line getLine makes of it is drawn as that one was, with the
\* names and hats of the time, whoever has been renamed, gone or come since.
RestoredAsShown ==
  \A w \in Open \ {Status} : \A i \in DOMAIN screen[w] :
    LET s == screen[w][i]
    IN Restorable(w, s) =>
         \E j \in DOMAIN entries[s.under] :
           /\ entries[s.under][j].stamp = s.stamp
           /\ Drawn(GetLine(s.under, entries[s.under][j])) = Drawn(s.line)

\* What is in a window can be drawn, whatever has happened to whom: the renderer
\* has a node for each format the line asks for, and a node or a piece the line
\* gives for all that the formats mention.  The exception are topics: "topic_is"
\* and "topic_change" are registered and have no node, so that every window with
\* such a line throws when it is drawn.
DrawnButTopics ==
  \A w \in Open : \A i \in DOMAIN screen[w] :
    LET line == screen[w][i].line
    IN Keys(line) \subseteq Drawable <=> line.kind # "topic"

\* Who goes leaves no stream behind, though the last line is logged as they go:
\* a user who quits while a window is open for them, the channel we part from,
\* and every log when it is we who quit.
StreamsEnd ==
  [][/\ Me \notin people'.online => streams' = {}
     /\ \A u \in people.online \ people'.online : u \in Open => NickOf(u) \notin streams'
     /\ /\ Me \in people'.online /\ Me \in people.room \ people'.room
        /\ Last(entries'[Channel]).verb = "part"
        => Channel \notin streams']_book
=============================================================================
