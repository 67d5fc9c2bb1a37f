------------------------------- MODULE Lines -------------------------------
(***************************************************************************)
(* The lines of a window (src/src/lines): what each of them keeps of what   *)
(* it was made from, and which part of that is drawn.  How a line looks is  *)
(* left out: Drawn is the key of the format and what is put into it.  Of a   *)
(* format (Defaults.cpp) matter the placeholders between its dollars, and of *)
(* the renderer (src/src/ui/Renderer.cpp) the nodes it has to fill them.     *)
(***************************************************************************)
EXTENDS Naturals, TLC

CONSTANTS
  Channel,  \* the name of a channel
  NoOne     \* an empty name

-----------------------------------------------------------------------------
(* Messages.  A text is [form, body]: "plain"; between two bytes 1, as an     *)
(* "action" or another "ctcp"; "open", which has lost the byte 1 at its end;   *)
(* "raw", which is a line of a log.                                         *)

IsAction(text) == text.form = "action"

\* trimmed drops the verb of an action, but only the closing byte of others.
Trimmed(text) ==
  CASE text.form = "action" -> [text EXCEPT !.form = "plain"]
    [] text.form = "ctcp" -> [text EXCEPT !.form = "open"]
    [] OTHER -> text

MessageLine(kind, name, hats, where, text) ==
  [kind |-> kind, who |-> name, hats |-> hats, where |-> where, text |-> text]

\* A name behind its hats, as a log has it; hats are for channels.
HatString(line) == IF line.where = Channel THEN line.hats ELSE ""

\* HatSet::separate
Separated(kind, combined, where, text) ==
  MessageLine(kind, combined.name, combined.hats, where, text)

\* getFormatKey
FormatKey(line) ==
  IF line.kind = "notice" THEN "notice" ELSE IF IsAction(line.text) THEN "action" ELSE "privmsg"

DrawnMessage(line) ==
  <<FormatKey(line), line.who, HatString(line),
    IF IsAction(line.text) THEN Trimmed(line.text) ELSE line.text>>

-----------------------------------------------------------------------------
(* The other lines.                                                         *)

JoinLine(name) == [kind |-> "join", who |-> name]
PartLine(name, reason) == [kind |-> "part", who |-> name, text |-> reason]
QuitLine(name, message) == [kind |-> "quit", who |-> name, text |-> message]
NickChangeLine(old, new) == [kind |-> "nick_change", who |-> old, whom |-> new]
SelfNickChange(new) == [kind |-> "self_nick_change", who |-> new]
TopicLine(who, topic) == [kind |-> "topic", who |-> who, text |-> topic]

KickLine(who, whom, reason, isSelf) ==
  [kind |-> "kick", who |-> who, whom |-> whom, text |-> reason, isSelf |-> isSelf]

\* A mode set is [type, change, extra]; `self` is our nick at the time.
ModeLine(modeSet, where, who, self) ==
  [kind |-> "mode", modeSet |-> modeSet, where |-> where, who |-> who, self |-> self]

DrawnKick(line) ==
  <<IF line.isSelf THEN "kick_self" ELSE "kick", line.who, line.whom, line.text>>

DrawnTopic(line) ==
  IF line.who = NoOne THEN <<"topic_is", line.text>> ELSE <<"topic_change", line.who, line.text>>

\* The changes that have a verb of their own.
Verbs == {"+b", "-b", "+h", "-h", "+o", "-o", "+v", "-v"}

NamesOne(set) == set.extra # NoOne /\ set.change \in Verbs

\* A change of somebody's mode has a verb, with a red sign when it is ours.
DrawnMode(line) ==
  LET set == line.modeSet
  IN CASE set.type = "self" /\ line.where # Channel -> <<"usermodes", set.change>>
       [] NamesOne(set) /\ set.extra = line.self -> <<"verb_red", line.who, set.change, set.extra>>
       [] NamesOne(set) -> <<"verb", line.who, set.change, set.extra>>
       [] OTHER -> <<"set_modes", line.who, line.where, set.change, set.extra>>

\* What is drawn of a line, whatever its kind.
Drawn(line) ==
  CASE line.kind \in {"msg", "notice"} -> DrawnMessage(line)
    [] line.kind = "kick" -> DrawnKick(line)
    [] line.kind = "topic" -> DrawnTopic(line)
    [] line.kind = "mode" -> DrawnMode(line)
    [] line.kind \in {"join", "self_nick_change"} -> <<line.kind, line.who>>
    [] line.kind = "nick_change" -> <<"nick_change", line.who, line.whom>>
    [] OTHER -> <<line.kind, line.who, line.text>>

-----------------------------------------------------------------------------
(* The renderer.                                                            *)

Spoken == {"action", "notice", "privmsg"}

\* registerFormat: the placeholders of each format.
FormatOf ==
  [action |-> {"header", "message"}, notice |-> {"header", "message"},
   privmsg |-> {"header", "message"}, channel |-> {"raw_channel"}, reason |-> {"raw_reason"},
   timestamp |-> {}, bang |-> {}, bang_bad |-> {}, bang_good |-> {}, bang_warn |-> {},
   nick_general |-> {"raw_nick"}, nick_general_bright |-> {"raw_nick"},
   join |-> {"!", "who", "channel"}, part |-> {"!", "who", "channel", "reason"},
   quit |-> {"!", "who", "reason"}, kick |-> {"!", "whom", "channel", "who", "reason"},
   kick_self |-> {"bad!", "channel", "who", "reason"},
   nick_change |-> {"old", "new"}, self_nick_change |-> {"new"},
   topic_is |-> {"!", "channel", "topic"}, topic_change |-> {"!", "who", "channel", "topic"}]

\* The same of the parts of what is spoken: header_action, message_notice, ...
PartOf == [header |-> {"hats", "nick"}, message |-> {"raw_message"}, nick |-> {"raw_nick"}]

\* A node is <<key>> or, below it, <<key, placeholder>>; it has the placeholders
\* of its own format.  The formats that are nodes of their own:
Alone ==
  Spoken \cup {"channel", "reason", "timestamp", "nick_general", "nick_general_bright",
               "bang", "bang_bad", "bang_good", "bang_warn"}

InitStrNodes ==
  [n \in {<<k>> : k \in Alone} |-> FormatOf[n[1]]] @@
  [n \in Spoken \X DOMAIN PartOf |-> PartOf[n[2]]]

\* Variant: no bangs but the neutral one.
SimpleNeutral(name) ==
  (<<name>> :> FormatOf[name]) @@
  [n \in {name} \X {"who", "whom"} |-> {IF n[2] = "who" THEN "raw_who" ELSE "raw_whom"}] @@
  (<<name, "channel">> :> FormatOf["channel"]) @@ (<<name, "!">> :> {})

\* simple
Simple(name) ==
  (<<name>> :> FormatOf[name]) @@
  [n \in {name} \X {"who", "whom"} |-> {IF n[2] = "who" THEN "raw_who" ELSE "raw_whom"}] @@
  (<<name, "channel">> :> FormatOf["channel"]) @@
  [n \in {name} \X {"!", "bad!", "good!", "warn!"} |-> {}]

MoreStrNodes ==
  Simple("quit") @@ Simple("kick") @@ Simple("kick_self") @@ Simple("join") @@ Simple("part") @@
  [n \in {"quit", "kick", "kick_self", "part"} \X {"reason"} |-> FormatOf["reason"]] @@
  [n \in {<<"nick_change">>, <<"self_nick_change">>} |-> FormatOf[n[1]]] @@
  [n \in {"nick_change", "self_nick_change"} \X {"new"} |-> {"raw_new"}] @@
  (<<"nick_change", "old">> :> {"raw_old"})

\* insert leaves a node that is there.
Nodes == InitStrNodes @@ MoreStrNodes

\* What the lines hand to the renderer with a key.
GivenTo ==
  [k \in Spoken |-> {"raw_nick", "hats", "raw_message"}] @@
  [channel |-> {"raw_channel"}, nick_general_bright |-> {"raw_nick"},
   join |-> {"raw_who", "raw_channel"}, part |-> {"raw_who", "raw_channel", "raw_reason"},
   quit |-> {"raw_who", "raw_reason"}, nick_change |-> {"raw_new", "raw_old"},
   self_nick_change |-> {"raw_new"}, topic_is |-> {"raw_channel", "raw_topic"},
   topic_change |-> {"raw_who", "raw_channel", "raw_topic"}] @@
  [k \in {"kick", "kick_self"} |-> {"raw_who", "raw_whom", "raw_channel", "raw_reason"}]

\* The placeholders that drawing key comes to, through the nodes below it.
Below(key, names) == UNION {Nodes[<<key, n>>] : n \in {m \in names : <<key, m>> \in DOMAIN Nodes}}
Reached(key) ==
  LET first == Nodes[<<key>>]
      second == first \cup Below(key, first)
  IN second \cup Below(key, second)

\* The keys with a node, each of whose placeholders is a node below it or given.
Drawable ==
  {k \in DOMAIN GivenTo :
     /\ <<k>> \in DOMAIN Nodes
     /\ \A n \in Reached(k) : n \in GivenTo[k] \/ <<k, n>> \in DOMAIN Nodes}

\* The keys that drawing a line asks the renderer for.
Keys(line) ==
  LET format == Drawn(line)[1]
  IN CASE format = "usermodes" -> {}
       [] format \in {"verb", "verb_red"} -> {"nick_general_bright"}
       [] format = "set_modes" -> {"nick_general_bright", "channel"}
       [] OTHER -> {format}
=============================================================================
