------------------------------ MODULE MCSession ------------------------------
(* Two files of the clock, one of the notifications, and one of the history of *)
(* the input, which is loaded alone or beside the notifications.               *)
EXTENDS Session

FileOf(p, path) == [plugin |-> p, path |-> path]
MCInDirectory == <<FileOf("Clock", "plugins"), FileOf("Notifications", "plugins")>>
WidgetFiles == ToSet(MCInDirectory) \cup {FileOf("Clock", "elsewhere")}
HistoryFile == FileOf("History", "plugins")
MCFile == WidgetFiles \cup {HistoryFile}
MCLoadedSets ==
  {S \in SUBSET WidgetFiles : Cardinality(S) < 3} \cup
    {{HistoryFile}, {HistoryFile, FileOf("Notifications", "plugins")}}
==============================================================================
