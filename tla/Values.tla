------------------------------- MODULE Values -------------------------------
(***************************************************************************)
(* What a setting is as it is typed, as it is kept and as it is written     *)
(* (Value.cpp, Database.cpp, FlatDB.cpp, Util.cpp, commands/Set.cpp), and    *)
(* the settings that there are (Defaults.cpp, Cache.h).  Config has how the  *)
(* file is read and written, with values that are not looked into.          *)
(*                                                                          *)
(* A text is a sequence of characters; a word of letters and underscores is *)
(* one character here, and "NL", "CR" and "TAB" are those of their names.   *)
(***************************************************************************)
EXTENDS Naturals, FiniteSets, SequencesExt, TLC

CONSTANTS
  Alphabet,  \* the characters that are typed
  MaxChars,  \* bound: how many at once
  MaxLong,   \* the greatest long, of which strtol makes whatever is greater
  MaxInt32   \* INT32_MAX

ASSUME LimitsAssumption == MaxLong \in Nat /\ MaxInt32 \in 0..MaxLong

Digit == <<"0", "1", "2", "3", "4", "5", "6", "7", "8", "9">>
IsDigit(c) == c \in ToSet(Digit)

\* formicine::util::trim, of spaces
Trim(text) ==
  LET kept == {i \in DOMAIN text : text[i] # " "}
  IN IF kept = {} THEN <<>> ELSE SubSeq(text, Min(kept), Max(kept))

-----------------------------------------------------------------------------
(* Values.                                                                  *)

LongValue(n) == [type |-> "Long", longValue |-> n]
DoubleValue(text) == [type |-> "Double", doubleValue |-> text]
BoolValue(b) == [type |-> "Bool", boolValue |-> b]
StringValue(text) == [type |-> "String", stringValue |-> text]
Refused == [type |-> "Invalid"]

\* long_, bool_, string_ throw for another type.
Yields(value, accessor) ==
  value.type = CASE accessor = "long_" -> "Long"
                 [] accessor = "bool_" -> "Bool"
                 [] accessor = "string_" -> "String"

\* operator std::string of a long
Decimal(n) ==
  LET size == CHOOSE s \in 1..Len(Digit) : n < 10^s /\ (s = 1 \/ n >= 10^(s - 1))
  IN [i \in 1..size |-> Digit[((n \div 10^(size - i)) % 10) + 1]]

\* operator std::string.  No setting takes a double.
AsText(value) ==
  CASE value.type = "Long" -> Decimal(value.longValue)
    [] value.type = "Bool" -> <<IF value.boolValue THEN "true" ELSE "false">>
    [] value.type = "String" -> value.stringValue

-----------------------------------------------------------------------------
(* escape and unescape.                                                     *)

\* A double quote stays as it is.
EscapeChar(c) ==
  CASE c = "\\" -> <<"\\", "\\">>
    [] c = "NL" -> <<"\\", "n">>
    [] c = "CR" -> <<"\\", "r">>
    [] c = "TAB" -> <<"\\", "t">>
    [] OTHER -> <<c>>

\* Variant: backslashes stay as they are.
EscapeControls(text) ==
  FlattenSeq([i \in DOMAIN text |-> IF text[i] = "\\" THEN <<"\\">> ELSE EscapeChar(text[i])])

EscapeText(text) == FlattenSeq([i \in DOMAIN text |-> EscapeChar(text[i])])

\* What a backslash and another character stand for; the zero is lost.
Meant ==
  ("\\" :> <<"\\">>) @@ ("n" :> <<"NL">>) @@ ("r" :> <<"CR">>) @@ ("t" :> <<"TAB">>) @@
  ("0" :> <<>>) @@ ("\"" :> <<"\"">>)

\* One turn of the loop: a backslash before any other character is dropped, and
\* a double quote throws unless it is the last character.
UnescapeTurn(text, state, i) ==
  CASE state.skip -> [state EXCEPT !.skip = FALSE]
    [] ~state.skip /\ (i = Len(text) \/ text[i] \notin {"\\", "\""}) ->
         [state EXCEPT !.out = Append(@, text[i])]
    [] ~state.skip /\ i < Len(text) /\ text[i] = "\"" -> [state EXCEPT !.throws = TRUE]
    [] ~state.skip /\ i < Len(text) /\ text[i] = "\\" ->
         IF text[i + 1] \in DOMAIN Meant
         THEN [state EXCEPT !.out = @ \o Meant[text[i + 1]], !.skip = TRUE]
         ELSE state

UnescapeText(text) ==
  LET end == FoldLeft(LAMBDA state, i : UnescapeTurn(text, state, i),
                      [out |-> <<>>, skip |-> FALSE, throws |-> FALSE],
                      [i \in DOMAIN text |-> i])
  IN IF end.throws THEN Refused ELSE StringValue(end.out)

-----------------------------------------------------------------------------
(* From a text to a value.                                                  *)

IsQuoted(text) == Len(text) >= 2 /\ Head(text) = "\"" /\ Last(text) = "\""

ParseString(text) ==
  LET value == Trim(text)
  IN CASE value = <<>> -> StringValue(<<>>)
       [] IsQuoted(value) -> UnescapeText(SubSeq(value, 2, Len(value) - 1))
       [] OTHER -> Refused

True == {<<"true">>, <<"on">>, <<"yes">>}
False == {<<"false">>, <<"off">>, <<"no">>}

GetValueType(text) ==
  LET value == Trim(text)
      dots == {i \in DOMAIN value : value[i] = "."}
  IN CASE value = <<>> -> "String"
       [] value # <<>> /\ \A i \in DOMAIN value : IsDigit(value[i]) -> "Long"
       [] dots # {} /\ \A i \in DOMAIN value \ dots : IsDigit(value[i]) ->
            IF Cardinality(dots) = 1 THEN "Double" ELSE "Invalid"
       [] value \in True \cup False -> "Bool"
       [] IsQuoted(value) -> "String"
       [] OTHER -> "Invalid"

\* strtol
Strtol(text) ==
  LET number == FoldLeft(LAMBDA n, c : 10 * n + (CHOOSE d \in 0..9 : Digit[d + 1] = c),
                         0, Trim(text))
  IN IF number > MaxLong THEN MaxLong ELSE number

\* insertAny; std::stod throws for a dot alone.
AnyValue(text) ==
  LET type == GetValueType(text)
  IN CASE type = "Long" -> LongValue(Strtol(text))
       [] type = "Double" -> IF Trim(text) = <<".">> THEN Refused ELSE DoubleValue(Trim(text))
       [] type = "Bool" -> BoolValue(text \in True)
       [] type = "String" -> ParseString(text)
       [] type = "Invalid" -> Refused

\* /set takes for a string, as it is typed, what has no type.
TypedValue(text) ==
  IF GetValueType(text) = "Invalid" THEN StringValue(text) ELSE AnyValue(text)

-----------------------------------------------------------------------------
(* A line of the file.                                                      *)

\* Variant: a string is written without its quotes.
EscapedUnquoted(value) ==
  IF value.type = "String" THEN EscapeText(value.stringValue) ELSE AsText(value)

\* Value::escaped
EscapedValue(value) ==
  IF value.type = "String" THEN <<"\"">> \o EscapeText(value.stringValue) \o <<"\"">>
  ELSE AsText(value)

LineOf(name, value) == name \o <<"=">> \o EscapedValue(value)

NoPair == <<>>

\* The characters a key is made of.
KeyChar(c) == c \notin {"\"", "\\", " ", "=", "-", "#", "NL", "CR", "TAB"}

\* parseKVPair
ParseKVPair(line) ==
  LET equals == SelectInSeq(line, LAMBDA c : c = "=")
      key == Trim(SubSeq(line, 1, equals - 1))
  IN IF equals = 0 \/ key = <<>> \/ \E i \in DOMAIN key : ~KeyChar(key[i]) THEN NoPair
     ELSE <<key, Trim(SubSeq(line, equals + 1, Len(line)))>>

\* parsePair: exactly one dot, and not at an end
ParsePair(name) ==
  LET dots == {i \in DOMAIN name : name[i] = "."}
      dot == Min(dots)
  IN IF Cardinality(dots) # 1 \/ dots \cap {1, Len(name)} # {} THEN NoPair
     ELSE <<SubSeq(name, 1, dot - 1), SubSeq(name, dot + 1, Len(name))>>

\* applyLine, of a line that is no comment: what it sets to what.
ReadSetting(line) ==
  LET pair == ParseKVPair(line)
      name == IF pair = NoPair THEN NoPair ELSE ParsePair(pair[1])
  IN IF name = NoPair THEN [name |-> NoPair, value |-> Refused]
     ELSE [name |-> name, value |-> AnyValue(pair[2])]

-----------------------------------------------------------------------------
(* The settings.  Any colour stands for all of them.                        *)

ColorNames == {<<"blood">>}

Validates(validator, value) ==
  CASE validator = "Long" -> value.type = "Long"
    [] validator = "Int32nn" -> value.type = "Long" /\ value.longValue <= MaxInt32
    [] validator = "Bool" -> value.type = "Bool"
    [] validator = "String" -> value.type = "String"
    [] validator = "Color" -> value.type = "String" /\ value.stringValue \in ColorNames

\* A DefaultKey: the accessor is that of its applicator.
DefaultKey(default, validator, accessor) ==
  [default |-> default, validator |-> validator, accessor |-> accessor]

ColorKey == DefaultKey(StringValue(<<"blood">>), "Color", "string_")
BoolKey == DefaultKey(BoolValue(TRUE), "Bool", "bool_")
StringKey(default) == DefaultKey(StringValue(default), "String", "string_")

RegisterAppearance ==
  [k \in {"appearance"} \X {"bar_background", "bar_foreground", "overlay_background",
                            "overlay_foreground", "input_background", "input_foreground",
                            "notice_foreground"} |-> ColorKey] @@
  (<<"appearance", "allow_empty_hats">> :> BoolKey)

RegisterFormat ==
  [k \in {"format"} \X
     ({"action", "bang", "bang_bad", "bang_good", "bang_warn", "channel", "join", "kick",
       "kick_self", "notice", "nick_change", "nick_general_bright", "nick_general", "part",
       "privmsg", "reason", "quit", "self_nick_change", "timestamp", "topic", "topic_is",
       "topic_change"} \cup
      {"header_action", "header_privmsg", "header_notice", "message_action", "message_privmsg",
       "message_notice", "nick_action", "nick_privmsg", "nick_notice"}) |->
     StringKey(<<"$message$">>)]

RegisterDefaults ==
  RegisterAppearance @@ RegisterFormat @@
  [k \in {<<"behavior", "answer_version_requests">>, <<"behavior", "hide_version_requests">>,
          <<"debug", "show_raw">>, <<"interface", "close_on_part">>, <<"interface", "show_motds">>,
          <<"messages", "direct_only">>, <<"messages", "highlight_notices">>,
          <<"messages", "notices_in_status">>} |-> BoolKey] @@
  (<<"completion", "ping_suffix">> :> StringKey(<<":">>)) @@
  [k \in {"server"} \X {"default_nick", "default_real", "default_user"} |-> StringKey(<<"nick">>)] @@
  (<<"interface", "scroll_buffer">> :> DefaultKey(LongValue(0), "Int32nn", "long_"))

\* What Cache reads of the defaults as it is made, and how.
CacheReads ==
  [k \in {"appearance"} \X {"bar_background", "bar_foreground", "overlay_background",
                            "overlay_foreground", "input_background", "input_foreground",
                            "notice_foreground"} |-> "string_"] @@
  [k \in {<<"appearance", "allow_empty_hats">>, <<"behavior", "answer_version_requests">>,
          <<"behavior", "hide_version_requests">>, <<"debug", "show_raw">>,
          <<"interface", "close_on_part">>, <<"interface", "show_motds">>,
          <<"messages", "direct_only">>, <<"messages", "highlight_notices">>,
          <<"messages", "notices_in_status">>} |-> "bool_"] @@
  [k \in {<<"completion", "ping_suffix">>} \cup
         {"server"} \X {"default_nick", "default_real", "default_user"} |-> "string_"] @@
  [k \in {"format"} \X
     {"action", "bang", "bang_bad", "bang_good", "bang_warn", "channel", "header_action",
      "header_privmsg", "header_notice", "join", "kick", "kick_self", "message_action",
      "message_privmsg", "message_notice", "nick_action", "nick_change", "nick_general",
      "nick_general_bright", "nick_privmsg", "nick_notice", "notice", "part", "privmsg",
      "quit", "reason", "self_nick_change", "timestamp", "topic", "topic_is", "topic_change"}
   |-> "string_"] @@
  (<<"interface", "scroll_buffer">> :> "long_")

-----------------------------------------------------------------------------
(* What Databases says of them.                                             *)

\* What may stand behind the name of a setting in /set: words between which
\* there is one space.
Typable ==
  {text \in UNION {[1..n -> Alphabet] : n \in 1..MaxChars} :
     \A i \in DOMAIN text : text[i] = " " => 1 < i /\ i < Len(text) /\ text[i + 1] # " "}

\* A string is written as it is but for backslashes and ends of lines, and one
\* with a double quote before its last character is not accepted any more.
Unreadable(value) ==
  value.type = "String" /\ \E i \in DOMAIN value.stringValue :
                             i < Len(value.stringValue) /\ value.stringValue[i] = "\""

\* Each default is of the type that its validator, its applicator and Cache ask for.
DefaultsFit ==
  /\ \A k \in DOMAIN RegisterDefaults :
       LET key == RegisterDefaults[k]
       IN Validates(key.validator, key.default) /\ Yields(key.default, key.accessor)
  /\ \A k \in DOMAIN CacheReads :
       k \in DOMAIN RegisterDefaults /\ Yields(RegisterDefaults[k].default, CacheReads[k])

\* A text that /set takes can be put into effect and is read from its line as it
\* was, or is refused when it is read because it is Unreadable.
AllReadBack ==
  /\ DefaultsFit
  /\ \A text \in Typable :
       LET value == TypedValue(text)
           keys == {k \in DOMAIN RegisterDefaults : Validates(RegisterDefaults[k].validator, value)}
           name == CHOOSE k \in keys : TRUE
       IN keys # {} =>
            /\ \A k \in keys : Yields(value, RegisterDefaults[k].accessor)
            /\ ReadSetting(LineOf(<<name[1], ".", name[2]>>, value)) =
                 [name |-> <<<<name[1]>>, <<name[2]>>>>,
                  value |-> IF Unreadable(value) THEN Refused ELSE value]
=============================================================================
