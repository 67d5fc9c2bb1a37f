------------------------------ MODULE PluginHost ------------------------------
(***************************************************************************)
(* The plugins that are loaded, what they have given the client, and the    *)
(* chains of handlers they form: src/src/client/PluginHost.cpp,             *)
(* src/include/spjalla/core/PluginHost.h and src/src/plugins.               *)
(***************************************************************************)
EXTENDS Naturals, SequencesExt

\* Something a plugin gives: a command, a status widget, a heartbeat listener,
\* a handler of keys or of lines, a setting, a listener of events, or what it
\* puts into a place that holds one thing.
Gift(kind, name) == [kind |-> kind, name |-> name]
Gifts(kind, names) == [i \in DOMAIN names |-> Gift(kind, names[i])]

\* A plugin: what preinit and postinit give and what cleanup takes back.  What
\* is of different kinds does not meet, so the order of cleanup is left out.
PluginOf(setup, start, undone) == [setup |-> setup, start |-> start, undone |-> undone]
Tidy(setup, start) == PluginOf(setup, start, setup \o start)

\* Variant: cleanup leaves the listener of the heartbeat.
ClockKeepsTicking ==
  PluginOf(<<>>, <<Gift("widget", "clock"), Gift("beat", "tick")>>, <<Gift("widget", "clock")>>)

Clock == Tidy(<<>>, <<Gift("widget", "clock"), Gift("beat", "tick")>>)

History == Tidy(<<>>, <<Gift("key", "history"), Gift("input", "history")>>)

NotificationSettings ==
  Gifts("setting", <<"appearance.highlight_color", "appearance.highlight_bold">>)
NotificationEvents ==
  Gifts("event", <<"notification", "window_changed", "window_notification">>)

\* Variant: cleanup leaves a widget.
NotificationsLeavesWidget ==
  PluginOf(NotificationSettings,
           <<Gift("widget", "notifications"), Gift("command", "gather")>> \o NotificationEvents,
           NotificationSettings \o NotificationEvents)

\* cleanup does not remove the command.
Notifications ==
  PluginOf(NotificationSettings,
           <<Gift("widget", "notifications"), Gift("command", "gather")>> \o NotificationEvents,
           NotificationSettings \o NotificationEvents \o <<Gift("widget", "notifications")>>)

WindowInfo ==
  Tidy(<<>>, Gifts("widget", <<"window_left", "window_right">>) \o <<Gift("event", "nick_updated")>>)

Coloring ==
  Tidy(<<>>, <<Gift("place", "onInterrupt"), Gift("place", "characterRenderer"),
               Gift("key", "coloring")>>)

NickColor ==
  Tidy(<<Gift("setting", "appearance.nick_colors")>>, <<Gift("place", "privmsg_nick")>>)

Trigger ==
  Tidy(Gifts("setting", <<"trigger.active", "trigger.reason">>), <<Gift("event", "mode")>>)

ExtraCmd ==
  Tidy(<<>>, Gifts("command", <<"rmraw", "_foo", "_bar", "_asc", "_args", "_dbg", "_info",
                                "_sw", "_time", "_users", "_win", "_findemoji">>))

Logs ==
  Tidy(Gifts("setting", <<"logs.autoclean", "logs.default_restore", "logs.enabled">>),
       Gifts("command", <<"clean", "restore">>) \o
       Gifts("event", <<"join", "kick", "mode", "nick", "notice", "part", "privmsg",
                        "quit", "topic", "topic_updated">>))

Shipped ==
  [Clock |-> Clock, History |-> History, Notifications |-> Notifications,
   WindowInfo |-> WindowInfo, Coloring |-> Coloring, NickColor |-> NickColor,
   Trigger |-> Trigger, ExtraCmd |-> ExtraCmd, Logs |-> Logs]

Plugin == DOMAIN Shipped

\* All that a plugin gives.
Gives(p) == ToSet(Shipped[p].setup) \cup ToSet(Shipped[p].start)

Kind == {"widget", "beat", "key", "input", "setting", "place", "event", "command"}

-----------------------------------------------------------------------------
(* The host h: the list of loaded plugins, each with the path it was loaded *)
(* from, and what the client holds of each kind, oldest first.              *)

\* A gift in the client's lists: whose it is, whether the code it leads to is
\* mapped, and whether the plugin remembers it (of widgets it made before, it
\* does not).
Given(p, g) == [by |-> p, what |-> g, live |-> TRUE, known |-> TRUE]

HasPath(h, tuple) == tuple \in ToSet(h.plugins)

IsLoaded(h, p) == \E t \in ToSet(h.plugins) : t.plugin = p

\* What is held of the gift's kind when p gives it.  RegisterKey refuses what is
\* registered; another object takes the place of the widget p made before.
Give(held, p, g) ==
  LET Older(r) == IF r.by = p /\ r.what = g THEN [r EXCEPT !.known = FALSE] ELSE r
  IN CASE g.kind = "widget" -> Append([i \in DOMAIN held |-> Older(held[i])], Given(p, g))
       [] g.kind \in {"setting", "place"} /\ (\E r \in ToSet(held) : r.what = g) -> held
       [] OTHER -> Append(held, Given(p, g))

\* The list without what is in gone: SelectSeq as a recursive function.
Without(held, gone) ==
  LET kept[n \in 0..Len(held)] ==
        IF n = 0 THEN <<>>
        ELSE IF held[n] \in gone THEN kept[n - 1] ELSE Append(kept[n - 1], held[n])
  IN kept[Len(held)]

\* And when it takes it back: removeCommand and unregister remove all of the
\* name, and unlisten all that p has of it; what is held by a pointer is removed
\* once.
Take(held, p, g) ==
  IF g.kind \in {"command", "event", "setting", "place"}
  THEN Without(held, {r \in ToSet(held) : r.what = g /\ (g.kind = "event" => r.by = p)})
  ELSE RemoveFirstMatch(held, LAMBDA r : r.by = p /\ r.what = g /\ r.known)

\* One gift after another.
Each(h, p, gifts, Change(_, _, _)) ==
  LET given[n \in 0..Len(gifts)] ==
        IF n = 0 THEN h.given
        ELSE [given[n - 1] EXCEPT ![gifts[n].kind] = Change(@, p, gifts[n])]
  IN [h EXCEPT !.given = given[Len(gifts)]]

Preinit(h, p) == Each(h, p, Shipped[p].setup, Give)
Postinit(h, p) == Each(h, p, Shipped[p].start, Give)
Cleanup(h, p) == Each(h, p, Shipped[p].undone, Take)

\* dlclose and the removal from the list.  The code is unmapped with the last
\* path it was loaded from.
Dlclose(h, tuple) ==
  LET rest == RemoveFirst(h.plugins, tuple)
      gone == \A t \in ToSet(rest) : t.plugin # tuple.plugin
  IN [h EXCEPT !.plugins = rest,
               !.given = [k \in Kind |-> [i \in DOMAIN @[k] |->
                 IF gone /\ @[k][i].by = tuple.plugin
                 THEN [@[k][i] EXCEPT !.live = FALSE] ELSE @[k][i]]]]

-----------------------------------------------------------------------------
(* The chain of handlers of a cancelable event.                             *)

Decides == {"Kill", "Disable", "Enable", "Approve"}
Result == Decides \cup {"Pass", "expired"}

\* Variant: every result ends the chain of its list.
OneResultFirst(state, result) ==
  IF state.done \/ result \in {"Pass", "expired"} THEN state
  ELSE [send |-> result \in {"Enable", "Approve"}, done |-> TRUE]

\* One turn of the loop in beforeMulti.
OneResult(state, result) ==
  IF state.done \/ result \in {"Pass", "expired"} THEN state
  ELSE [send |-> result \in {"Enable", "Approve"}, done |-> result \in {"Kill", "Approve"}]

\* beforeMulti and before
BeforeMulti(results, initial) ==
  LET after[n \in 0..Len(results)] ==
        IF n = 0 THEN [send |-> initial, done |-> FALSE]
        ELSE OneResult(after[n - 1], results[n])
  IN after[Len(results)]

Before(results) == BeforeMulti(results, TRUE).send

\* beforeSend, with the handlers of each priority in a list
BeforeSend(high, normal, low) ==
  LET first == BeforeMulti(high, TRUE)
      second == IF first.done THEN first ELSE BeforeMulti(normal, first.send)
  IN (IF second.done THEN second ELSE BeforeMulti(low, second.send)).send

\* What Plugin.h says of it: propagation stops at the first Kill or Approve,
\* and the last result that says whether the event goes through counts.
Verdict(results) ==
  LET stops == {i \in DOMAIN results : results[i] \in {"Kill", "Approve"}}
      heard == {i \in DOMAIN results : results[i] \in Decides /\ \A j \in stops : i <= j}
  IN heard = {} \/ results[Max(heard)] \in {"Enable", "Approve"}
=============================================================================
