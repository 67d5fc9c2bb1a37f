------------------------------- MODULE Commands -------------------------------
(***************************************************************************)
(* From a typed line to what is sent: src/src/core/InputLine.cpp,           *)
(* src/src/client/Input.cpp and Commands.cpp, and src/src/commands.  A line *)
(* is a sequence of words; how many spaces stand between them is left out.  *)
(***************************************************************************)
EXTENDS Naturals, SequencesExt

CONSTANTS
  NoOne,        \* no channel, no user, no recipient
  ChannelWord,  \* words that begin with a number sign
  FlagWord,     \* words that begin with a plus or a minus
  InvalidFlags, \* those with characters that are no flags
  Self          \* the own nick

\* A line as it is typed, and as the handlers see it.  Words that name commands
\* are strings.
Typed(slash, words) == [slash |-> slash, words |-> words]

InputLine(typed) ==
  IF typed.slash
  THEN [isCommand |-> TRUE,
        command |-> IF typed.words = <<>> THEN "" ELSE Head(typed.words),
        args |-> IF typed.words = <<>> THEN <<>> ELSE Tail(typed.words),
        original |-> typed]
  ELSE [isCommand |-> FALSE, command |-> "", args |-> typed.words, original |-> typed]

\* In the status window what is typed is a command.
GetInputLine(typed, inStatus) ==
  InputLine(IF inStatus /\ typed.words # <<>> THEN [typed EXCEPT !.slash = TRUE] ELSE typed)

\* Aliases::expand, for the aliases as a function from names to typed lines.
Expand(line, aliases) ==
  IF ~line.isCommand \/ line.command \notin DOMAIN aliases THEN line
  ELSE LET meant == InputLine(aliases[line.command])
       IN [meant EXCEPT !.args = @ \o line.args, !.original = line.original]

-----------------------------------------------------------------------------
(* The table of commands.                                                   *)

Takes(least, most, server) == [min |-> least, max |-> most, needsServer |-> server]

Unlimited == 1000 \* a maximum of -1

BuiltIn ==
  [_fake |-> Takes(0, Unlimited, TRUE), _front |-> Takes(1, 1, TRUE),
   _lines |-> Takes(0, 0, FALSE), _order |-> Takes(0, 0, FALSE),
   _recalc |-> Takes(0, 0, FALSE), alias |-> Takes(0, Unlimited, FALSE),
   ban |-> Takes(1, 2, TRUE), clear |-> Takes(0, 0, FALSE),
   connect |-> Takes(1, 2, FALSE), disconnect |-> Takes(0, Unlimited, TRUE),
   join |-> Takes(1, 1, TRUE), kick |-> Takes(1, Unlimited, TRUE),
   me |-> Takes(1, Unlimited, TRUE), mode |-> Takes(1, Unlimited, TRUE),
   move |-> Takes(1, 1, FALSE), msg |-> Takes(2, Unlimited, TRUE),
   nick |-> Takes(0, 1, TRUE), overlay |-> Takes(0, 0, FALSE),
   part |-> Takes(0, Unlimited, TRUE), plugin |-> Takes(0, Unlimited, FALSE),
   quit |-> Takes(0, Unlimited, FALSE), quote |-> Takes(1, Unlimited, TRUE),
   set |-> Takes(0, Unlimited, FALSE), spam |-> Takes(0, 1, FALSE),
   topic |-> Takes(0, Unlimited, TRUE), unban |-> Takes(1, 2, TRUE),
   wc |-> Takes(0, 0, FALSE), whois |-> Takes(1, 1, TRUE)]

\* What plugins add.
Added ==
  [_args |-> Takes(0, Unlimited, FALSE), _asc |-> Takes(0, 0, FALSE),
   _bar |-> Takes(0, 0, FALSE), _dbg |-> Takes(0, 0, FALSE),
   _findemoji |-> Takes(0, 0, FALSE), _foo |-> Takes(0, 0, FALSE),
   _info |-> Takes(0, 1, FALSE), _sw |-> Takes(0, 0, FALSE),
   _time |-> Takes(0, 0, FALSE), _users |-> Takes(0, 0, TRUE),
   _win |-> Takes(0, 0, FALSE), clean |-> Takes(0, 1, TRUE),
   gather |-> Takes(0, 0, FALSE), restore |-> Takes(0, 1, TRUE),
   rmraw |-> Takes(0, 0, FALSE)]

Table == BuiltIn @@ Added

\* The names in the order of the multimap.
NameOrder ==
  <<"_args", "_asc", "_bar", "_dbg", "_fake", "_findemoji", "_foo", "_front",
    "_info", "_lines", "_order", "_recalc", "_sw", "_time", "_users", "_win",
    "alias", "ban", "clean", "clear", "connect", "disconnect", "gather",
    "join", "kick", "me", "mode", "move", "msg", "nick", "overlay", "part",
    "plugin", "quit", "quote", "restore", "rmraw", "set", "spam", "topic",
    "unban", "wc", "whois">>

StartsWith(word, start) ==
  Len(start) <= Len(word) /\ SubSeq(word, 1, Len(start)) = start

\* commandMatches, where handlers counts the handlers of each name.
CommandMatches(start, handlers) ==
  FlattenSeq([i \in DOMAIN NameOrder |->
    IF StartsWith(NameOrder[i], start)
    THEN [n \in 1..handlers[NameOrder[i]] |-> NameOrder[i]]
    ELSE <<>>])

\* The name under which handlers are looked up: the one typed, or else the only
\* match of it.
Resolve(command, handlers) ==
  LET matches == CommandMatches(command, handlers)
  IN IF command \in DOMAIN handlers /\ handlers[command] > 0 THEN command
     ELSE IF Len(matches) = 1 THEN matches[1] ELSE ""

\* What handleLine asks before it calls a handler.
Allowed(name, args, connected) ==
  LET takes == Table[name]
  IN /\ takes.min <= Len(args) /\ Len(args) <= takes.max
     /\ takes.needsServer => connected

-----------------------------------------------------------------------------
(* What the commands send.  The place at which they are typed has the       *)
(* active window's channel, user and server, and whether it is dead; the    *)
(* selected server; the servers in their order, each with its id and host,  *)
(* and the one that the map of them begins with; and the channels known.    *)

Status(at) == at.channel = NoOne /\ at.user = NoOne

\* Client::activeServer
ActiveServer(at) == IF at.server # NoOne THEN at.server ELSE at.selected

\* nextServer
NextServer(at) ==
  LET here == SelectInSeq(at.servers, LAMBDA s : s.id = ActiveServer(at))
  IN CASE ~Status(at) -> at
       [] Status(at) /\ ActiveServer(at) = NoOne /\ at.servers # <<>> ->
            [at EXCEPT !.selected = at.begin]
       [] Status(at) /\ ActiveServer(at) # NoOne /\ Len(at.servers) > 1 ->
            [at EXCEPT !.selected = at.servers[IF here = Len(at.servers) THEN 1 ELSE here + 1].id]
       [] OTHER -> at

Message(to, verb, rest) == <<[to |-> to, verb |-> verb, rest |-> rest]>>
Nothing == <<>>

Names(args) == args # <<>> /\ args[1] \in ChannelWord

\* doPart
Part(at, args) ==
  IF Names(args)
  THEN IF args[1] \in at.known THEN Message(args[1], "PART", Tail(args)) ELSE Nothing
  ELSE IF at.channel = NoOne THEN Nothing ELSE Message(at.channel, "PART", args)

\* Variant: the channel of the window comes before the one that is named.
KickShown(at, args) ==
  IF at.channel # NoOne THEN Message(at.channel, "KICK", args)
  ELSE IF Names(args) THEN Message(args[1], "KICK", Tail(args)) ELSE Nothing

\* tripleCommand of a KickCommand
Kick(at, args) ==
  IF Names(args) THEN Message(args[1], "KICK", Tail(args))
  ELSE IF at.channel = NoOne THEN Nothing ELSE Message(at.channel, "KICK", args)

\* ban, of which unban is the other sign
Ban(at, args) ==
  LET refused == Len(args) = 2 /\ ~(Names(args) /\ args[1] \in at.known)
  IN IF refused \/ at.channel = NoOne THEN Nothing
     ELSE Message(at.channel, "MODE", <<Last(args)>>)

\* doMode
Mode(at, args) ==
  LET channels == SelectSeq(args, LAMBDA w : w \in ChannelWord)
      flags == SelectSeq(args, LAMBDA w : w \in FlagWord)
      extra == SelectSeq(args, LAMBDA w : w \notin ChannelWord \cup FlagWord)
      where == IF channels # <<>> THEN channels[1] ELSE at.channel
  IN IF Len(args) = 1 /\ flags = args
     THEN Message(IF at.channel = NoOne THEN Self ELSE at.channel, "MODE", flags)
     ELSE IF \/ Len(channels) > 1 \/ Len(flags) # 1 \/ Len(extra) > 1
             \/ flags[1] \in InvalidFlags
     THEN Nothing
     ELSE IF where # NoOne THEN Message(where, "MODE", flags \o extra)
     ELSE IF extra = <<Self>> THEN Message(Self, "MODE", flags)
     ELSE Nothing

\* doMe, and a line that is no command
Say(at, verb, args) ==
  IF at.dead THEN Nothing
  ELSE IF at.channel # NoOne THEN Message(at.channel, verb, args)
  ELSE IF at.user # NoOne THEN Message(at.user, verb, args)
  ELSE Nothing

\* doDisconnect
Disconnect(at, args) ==
  LET named(field) == SelectSeq(at.servers, LAMBDA s : s[field] = args[1])
      quit(servers) == FlattenSeq([i \in DOMAIN servers |->
                                     Message(servers[i].id, "QUIT", Tail(args))])
  IN IF args = <<>> THEN Message(ActiveServer(at), "QUIT", <<>>)
     ELSE IF named("id") # <<>> THEN quit(<<named("id")[1]>>)
     ELSE quit(named("host"))

\* doNick
Nick(at, args) == IF args = <<>> THEN Nothing ELSE Message(ActiveServer(at), "NICK", args)

\* Commands that are given whom they concern, or that concern the server.
Tell(at, name, args) ==
  CASE name = "msg" -> Message(args[1], "PRIVMSG", Tail(args))
    [] name = "join" -> Message(args[1], "JOIN", <<>>)
    [] name = "whois" -> Message(args[1], "WHOIS", <<>>)
    [] name = "quote" -> Message(ActiveServer(at), "QUOTE", args)
    [] OTHER -> Nothing

\* The handler of a name.  /topic only shows the topic.
Handle(at, name, args) ==
  CASE name = "part" -> Part(at, args)
    [] name = "kick" -> Kick(at, args)
    [] name \in {"ban", "unban"} -> Ban(at, args)
    [] name = "mode" -> Mode(at, args)
    [] name = "me" -> Say(at, "ACTION", args)
    [] name = "disconnect" -> Disconnect(at, args)
    [] name = "nick" -> Nick(at, args)
    [] OTHER -> Tell(at, name, args)

\* The listener of Submit, from the line to what is sent.
Submitted(at, line, handlers) ==
  IF ~line.isCommand THEN Say(at, "PRIVMSG", line.args)
  ELSE LET name == Resolve(line.command, handlers)
       IN IF name # "" /\ Allowed(name, line.args, at.selected # NoOne)
          THEN Handle(at, name, line.args) ELSE Nothing
=============================================================================
