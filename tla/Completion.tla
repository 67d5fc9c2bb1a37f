------------------------------ MODULE Completion ------------------------------
(***************************************************************************)
(* What the tab key does to a line: src/src/client/TabCompletion.cpp.  It   *)
(* completes the name of a command, a nick or a channel in a message, or    *)
(* the first argument of /set; what stands behind the cursor is left alone. *)
(***************************************************************************)
EXTENDS Commands

\* A CommandCompleter has the first word of the line, whether the cursor is in
\* it, and what was typed before the first tab.  A key other than tab makes
\* onKey forget that; the word is then what has been typed.
Type(word) == [word |-> word, inWord |-> TRUE, partial |-> "", hasPartial |-> FALSE]

\* Variant: the partial is what the word is now.
CompleteFromWord(f, handlers) ==
  LET matches == CommandMatches(f.word, handlers)
      here == SelectInSeq(matches, LAMBDA m : m = f.word)
      next == IF here = 0 \/ here = Len(matches) THEN 1 ELSE here + 1
      noted == [f EXCEPT !.partial = f.word, !.hasPartial = TRUE]
  IN IF ~f.inWord \/ matches = <<>> THEN noted
     ELSE [noted EXCEPT !.word = matches[next], !.inWord = Len(matches) > 1]

\* complete: the word after the one that is there, among those that match what
\* was typed.  Behind a single match the cursor is moved out of the word.
Complete(f, handlers) ==
  LET partial == IF f.hasPartial THEN f.partial ELSE f.word
      matches == CommandMatches(partial, handlers)
      here == SelectInSeq(matches, LAMBDA m : m = f.word)
      next == IF here = 0 \/ here = Len(matches) THEN 1 ELSE here + 1
      noted == [f EXCEPT !.partial = partial, !.hasPartial = TRUE]
  IN IF ~f.inWord THEN f
     ELSE IF matches = <<>> THEN noted
     ELSE [noted EXCEPT !.word = matches[next], !.inWord = Len(matches) > 1]

Tabs(n, word, handlers) ==
  FoldLeft(LAMBDA f, k : Complete(f, handlers), Type(word), [k \in 1..n |-> k])

-----------------------------------------------------------------------------
(* A nick or a channel in a message.                                        *)

\* A word, whether the suffix stands behind it, and what was typed.
Plain(word) == [word |-> word, suffixed |-> FALSE, partial |-> ""]

\* One's own nick goes to the end.
OwnLast(items, own) ==
  IF Len(items) > 1 /\ Contains(items, own)
  THEN Append(RemoveFirst(items, own), own) ELSE items

\* What can be said in the window at, whose lists are in the order they are
\* shown in.
Items(at, partial, word) ==
  IF StartsWith(word, "#")
  THEN SelectSeq(at.channels, LAMBDA c : StartsWith(c, partial))
  ELSE IF at.users # <<>> THEN SelectSeq(at.users, LAMBDA u : StartsWith(u, partial))
  ELSE IF at.user # NoOne THEN <<at.user, at.own>> ELSE <<>>

\* completeMessage, at the first word of a message (first) or at another.
CompleteMessage(f, at, first) ==
  LET noted == [f EXCEPT !.partial = IF f.partial = "" THEN f.word ELSE f.partial]
      items == OwnLast(Items(at, noted.partial, f.word), at.own)
      here == SelectInSeq(items, LAMBDA m : m = f.word)
      next == items[IF here = 0 \/ here = Len(items) THEN 1 ELSE here + 1]
  IN IF f.word = "" \/ items = <<>> THEN noted
     ELSE [noted EXCEPT !.word = next, !.suffixed = first /\ ~StartsWith(next, "#")]

-----------------------------------------------------------------------------
(* The first argument of /set.  The state of its completion outlives the    *)
(* line.                                                                    *)

Keys(group, names) ==
  [i \in DOMAIN names |-> [full |-> group \o "." \o names[i], key |-> names[i]]]

\* The settings there can be, those of plugins too, as completeSet sorts them.
SettingOrder ==
  Keys("appearance",
       <<"allow_empty_hats", "bar_background", "bar_foreground", "highlight_bold",
         "highlight_color", "input_background", "input_foreground", "nick_colors",
         "notice_foreground", "overlay_background", "overlay_foreground">>) \o
  Keys("behavior", <<"answer_version_requests", "hide_version_requests">>) \o
  Keys("completion", <<"ping_suffix">>) \o Keys("debug", <<"show_raw">>) \o
  Keys("format",
       <<"action", "bang", "bang_bad", "bang_good", "bang_warn", "channel",
         "header_action", "header_notice", "header_privmsg", "join", "kick", "kick_self",
         "message_action", "message_notice", "message_privmsg", "nick_action",
         "nick_change", "nick_general", "nick_general_bright", "nick_notice",
         "nick_privmsg", "notice", "part", "privmsg", "quit", "reason",
         "self_nick_change", "timestamp", "topic", "topic_change", "topic_is">>) \o
  Keys("interface", <<"close_on_part", "scroll_buffer", "show_motds">>) \o
  Keys("logs", <<"autoclean", "default_restore", "enabled">>) \o
  Keys("messages", <<"direct_only", "highlight_notices", "notices_in_status">>) \o
  Keys("server", <<"default_nick", "default_real", "default_user">>) \o
  Keys("trigger", <<"active", "reason">>)

NoState == [partial |-> "", partialIndex |-> FALSE, piece |-> ""]

\* CompletionState::reset, which does nothing when the partial is empty, and
\* the key that was typed.
TypeKey(s, piece) ==
  [IF s.partial = "" THEN s ELSE [s EXCEPT !.partial = "", !.partialIndex = FALSE]
   EXCEPT !.piece = piece]

\* Config::startsWith: keys by their own name or with the name of their group,
\* in the order of the list.
KeysFrom(start, keys) ==
  SelectSeq(keys, LAMBDA k : StartsWith(k.key, start) \/ StartsWith(k.full, start))

\* Variant: what was typed is not asked for again.
CompleteSetOnce(s, keys) ==
  LET found == KeysFrom("", keys)
      here == SelectInSeq(found, LAMBDA k : k.full = s.piece)
      next == IF here = 0 \/ here = Len(found) THEN 1 ELSE here + 1
  IN IF found = <<>> THEN s ELSE [s EXCEPT !.piece = found[next].full]

\* completeSet, where the cursor is at the end of the argument.
CompleteSet(s, keys) ==
  LET noted == IF s.partialIndex THEN s ELSE [s EXCEPT !.partial = s.piece, !.partialIndex = TRUE]
      found == KeysFrom(noted.partial, keys)
      here == SelectInSeq(found, LAMBDA k : k.full = s.piece)
      next == IF here = 0 \/ here = Len(found) THEN 1 ELSE here + 1
  IN IF found = <<>> THEN noted ELSE [noted EXCEPT !.piece = found[next].full]
=============================================================================
