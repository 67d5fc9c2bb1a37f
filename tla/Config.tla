-------------------------------- MODULE Config --------------------------------
(***************************************************************************)
(* The settings, kept in memory and in a file: src/src/core/FlatDB.cpp and  *)
(* src/src/config/Database.cpp, as Client::init and /set use them.          *)
(*                                                                          *)
(* readDB applies a line as soon as it has read it, and applying a line     *)
(* saves: the file is rewritten, with the lines read so far, while it is    *)
(* being read.  The stream that reads it keeps a buffer and an offset.      *)
(***************************************************************************)
EXTENDS Naturals, SequencesExt

CONSTANTS
  Key,        \* group and key of a setting
  PluginKey,  \* those that a plugin registers
  KeyOrder,   \* the keys in the order of the map, in which they are written
  Value,
  Unset,      \* a setting that is not in the map
  Raw,        \* what is in effect before a value has been applied
  Default,    \* the default value of each key
  Valid,      \* the values the validator of each key accepts
  Quoted,     \* strings with a double quote in them
  Edited,     \* files a person may have written
  Buffer      \* how much of a file the stream reads at once

ASSUME KeyAssumption ==
  /\ PluginKey \subseteq Key
  /\ KeyOrder \in Seq(Key) /\ ToSet(KeyOrder) = Key

ASSUME ValueAssumption ==
  /\ {Unset, Raw} \cap Value = {} /\ Unset # Raw
  /\ Quoted \subseteq Value
  /\ Valid \in [Key -> SUBSET Value]
  /\ Default \in [Key -> Value] /\ \A k \in Key : Default[k] \in Valid[k]

ASSUME BufferAssumption == Buffer \in Nat \ {0}

\* What a file consists of.  A line as the program writes it has two halves.
\* A person may spell a setting shorter ("no" for "false") and leave comments.
First(k) == [kind |-> "first", key |-> k]
Second(v) == [kind |-> "second", value |-> v]
Short(k, v) == [kind |-> "short", key |-> k, value |-> v]
Comment == [kind |-> "comment"]

Token ==
  {First(k) : k \in Key} \cup {Second(v) : v \in Value} \cup
  {Short(k, v) : k \in Key, v \in Value} \cup {Comment}

\* A person leaves whole lines, whatever is in them.
Whole(file) == file # <<>> => Last(file).kind # "first"

ASSUME EditedAssumption == Edited \subseteq Seq(Token) /\ \A file \in Edited : Whole(file)

VARIABLES
  phase,       \* "down", "reading", "running", or "failed": ended by a throw
  registered,  \* the keys with a DefaultKey
  db,          \* the map, what its applicators have put into effect, the file
  stream,      \* the ifstream of readDB
  loaded       \* the file as it was at the latest start

vars == <<phase, registered, db, stream, loaded>>

-----------------------------------------------------------------------------
(* The file.                                                                *)

\* operator std::string: the line of each key that is set, if it is.
LineFor(settings, k) ==
  IF settings[k] = Unset THEN <<>> ELSE <<First(k), Second(settings[k])>>

Written(settings) ==
  LET lines[i \in 0..Len(KeyOrder)] ==
        IF i = 0 THEN <<>> ELSE lines[i - 1] \o LineFor(settings, KeyOrder[i])
  IN lines[Len(KeyOrder)]

\* The settings a file holds: where a key occurs twice, the last line counts.
Meaning(file) ==
  [k \in Key |->
    LET at == {i \in DOMAIN file :
                 \/ file[i].kind = "short" /\ file[i].key = k
                 \/ file[i].kind = "second" /\ i > 1 /\ file[i - 1] = First(k)}
    IN IF at = {} THEN Unset ELSE file[Max(at)].value]

Closed == [buffer |-> <<>>, offset |-> 0, eof |-> FALSE]

\* The tokens of the file that the stream has not handed out.
Rest(st, file) == st.buffer \o SubSeq(file, st.offset + 1, Len(file))

\* The line std::getline returns: up to the next end of a line.
NextLine(st, file) ==
  LET rest == Rest(st, file)
      ends == {i \in DOMAIN rest : rest[i].kind # "first"}
  IN IF ends = {} THEN rest ELSE SubSeq(rest, 1, Min(ends))

\* Variant: each time the buffer is empty it is filled from the beginning.
AfterLineRewound(st, file) ==
  LET line == NextLine(st, file)
      ended == line # <<>> /\ Last(line).kind # "first"
      filled == IF Len(line) <= Len(st.buffer) THEN st.buffer
                ELSE SubSeq(file, 1, Min({Buffer, Len(file)}))
  IN [buffer |-> SubSeq(filled, Len(line) + 1, Len(filled)),
      offset |-> 0,
      eof |-> ~ended]

\* The stream when it has handed out the next n tokens of the file and, if it
\* has not ended with them, come to the end of the file, which it remembers.  It
\* fills its buffer, with so many tokens and from where it is in the file, as
\* often as that takes.
Handing(st, file, n, ended, size) ==
  LET missing == IF n > Len(st.buffer) THEN n - Len(st.buffer) ELSE 0
      fills == (missing + size - 1) \div size
      offset == IF ended THEN Min({st.offset + fills * size, Max({st.offset, Len(file)})})
                ELSE Max({st.offset, Len(file)})
      read == st.buffer \o SubSeq(file, st.offset + 1, offset)
  IN [buffer |-> SubSeq(read, n + 1, Len(read)),
      offset |-> offset,
      eof |-> ~ended]

\* The stream after a line of the settings.
AfterLine(st, file) ==
  LET line == NextLine(st, file)
  IN Handing(st, file, Len(line), line # <<>> /\ Last(line).kind # "first", Buffer)

-----------------------------------------------------------------------------
(* The map.                                                                 *)

\* get: the value of a key, or else its default.
Get(settings, k) == IF settings[k] = Unset THEN Default[k] ELSE settings[k]

\* Variant: the validator is not asked.
AcceptedUnvalidated(k, v) == k \in registered

Accepted(k, v) == k \in registered /\ v \in Valid[k]

\* Variant: the value that was there is not erased, so that the new one is not
\* inserted; it is applied all the same.
InsertKeepsOld(d, k, v) ==
  LET settings == [d.settings EXCEPT ![k] = IF @ = Unset THEN v ELSE @]
  IN [settings |-> settings, file |-> Written(settings), effect |-> [d.effect EXCEPT ![k] = v]]

\* insert of a known key and an accepted value, save as everywhere TRUE.
Insert(d, k, v) ==
  LET settings == [d.settings EXCEPT ![k] = v]
  IN [settings |-> settings,
      file |-> Written(settings),
      effect |-> [d.effect EXCEPT ![k] = v]]

\* Variant: the file is not rewritten.
DeleteUnsaved(d, k) ==
  [d EXCEPT !.settings[k] = Unset,
            !.effect[k] = IF k \in registered THEN Default[k] ELSE @]

\* remove, apply_default and save TRUE as /set calls it.
Delete(d, k) ==
  LET settings == [d.settings EXCEPT ![k] = Unset]
  IN IF d.settings[k] = Unset THEN d
     ELSE [settings |-> settings,
           file |-> Written(settings),
           effect |-> [d.effect EXCEPT ![k] = IF k \in registered THEN Default[k] ELSE @]]

\* applyAll, with the defaults where nothing is set.
ApplyAll(d) ==
  [d EXCEPT !.effect =
    [k \in Key |-> IF k \in registered THEN Get(d.settings, k) ELSE @[k]]]

-----------------------------------------------------------------------------
(* The life of the program.                                                 *)

NoSettings == [k \in Key |-> Unset]

Init ==
  /\ phase = "down"
  /\ registered = {}
  /\ db = [settings |-> NoSettings, effect |-> [k \in Key |-> Raw], file |-> <<>>]
  /\ stream = Closed
  /\ loaded = <<>>

\* A person edits the file, when the program is not running.
Edit(file) ==
  /\ phase \in {"down", "failed"}
  /\ phase' = "down"
  /\ db' = [db EXCEPT !.file = file]
  /\ UNCHANGED <<registered, stream, loaded>>

\* The plugins that are found register their keys; then init opens the file.
Start(plugins) ==
  /\ phase \in {"down", "failed"}
  /\ phase' = "reading"
  /\ registered' = (Key \ PluginKey) \cup plugins
  /\ db' = [db EXCEPT !.settings = NoSettings, !.effect = [k \in Key |-> Raw]]
  /\ stream' = Closed
  /\ loaded' = db.file

\* The key and the value of a line that can be parsed.  The program writes the
\* quotes inside a string as they are and refuses them when it reads.
Parsable(line) ==
  /\ \/ Len(line) = 2 /\ line[2].kind = "second"
     \/ Len(line) = 1 /\ line[1].kind = "short"
  /\ Last(line).value \notin Quoted

\* One turn of the loop in readDB: a line that is not accepted ends the program,
\* since nothing above catches what applyLine throws.
ReadLine ==
  LET line == NextLine(stream, db.file)
  IN /\ phase = "reading" /\ ~stream.eof /\ line # <<>>
     /\ stream' = AfterLine(stream, db.file)
     /\ \/ line = <<Comment>> /\ UNCHANGED <<phase, db>>
        \/ /\ Parsable(line) /\ Accepted(line[1].key, Last(line).value)
           /\ db' = Insert(db, line[1].key, Last(line).value)
           /\ UNCHANGED phase
        \/ /\ line # <<Comment>>
           /\ ~(Parsable(line) /\ Accepted(line[1].key, Last(line).value))
           /\ phase' = "failed" /\ UNCHANGED db
     /\ UNCHANGED <<registered, loaded>>

\* There is no further line; then everything is applied.
EndRead ==
  /\ phase = "reading" /\ (stream.eof \/ NextLine(stream, db.file) = <<>>)
  /\ phase' = "running"
  /\ db' = ApplyAll(db)
  /\ stream' = Closed
  /\ UNCHANGED <<registered, loaded>>

\* /set with a value.  What is not accepted is reported and changes nothing.
Set(k, v) ==
  /\ phase = "running" /\ Accepted(k, v)
  /\ db' = Insert(db, k, v)
  /\ UNCHANGED <<phase, registered, stream, loaded>>

\* /set with "-".
Reset(k) ==
  /\ phase = "running"
  /\ db' = Delete(db, k)
  /\ UNCHANGED <<phase, registered, stream, loaded>>

\* /plugin load registers keys and applies nothing; /plugin unload takes them
\* out and leaves their values in the map.
LoadPlugin(k) ==
  /\ phase = "running" /\ k \in PluginKey \ registered
  /\ registered' = registered \cup {k}
  /\ db' = [db EXCEPT !.effect[k] = Raw]
  /\ UNCHANGED <<phase, stream, loaded>>

UnloadPlugin(k) ==
  /\ phase = "running" /\ k \in PluginKey \cap registered
  /\ registered' = registered \ {k}
  /\ UNCHANGED <<phase, db, stream, loaded>>

\* The program ends, of itself or killed.
Stop ==
  /\ phase \in {"reading", "running"}
  /\ phase' = "down"
  /\ UNCHANGED <<registered, db, stream, loaded>>

\* It is killed after writeDB has opened the file, which empties it, and before
\* it has closed it, which writes.
StopInWrite ==
  /\ phase = "running" \/ (phase = "reading" /\ stream # Closed)
  /\ phase' = "down"
  /\ db' = [db EXCEPT !.file = <<>>]
  /\ UNCHANGED <<registered, stream, loaded>>

Next ==
  \/ \E file \in Edited : Edit(file)
  \/ \E plugins \in SUBSET PluginKey : Start(plugins)
  \/ ReadLine \/ EndRead
  \/ \E k \in Key : \/ \E v \in Value : Set(k, v)
                    \/ Reset(k) \/ LoadPlugin(k) \/ UnloadPlugin(k)
  \/ Stop \/ StopInWrite

\* The loop of readDB goes on.
Spec == Init /\ [][Next]_vars /\ WF_vars(ReadLine \/ EndRead)

-----------------------------------------------------------------------------
(* Properties.                                                              *)

\* The type of the state: a value that the validator of its key refuses is
\* never in the map and never handed to an applicator, which would throw.
TypeOK ==
  /\ phase \in {"down", "reading", "running", "failed"}
  /\ registered \subseteq Key
  /\ db.settings \in [Key -> Value \cup {Unset}]
  /\ db.effect \in [Key -> Value \cup {Raw}]
  /\ \A k \in Key : /\ db.settings[k] \in Valid[k] \cup {Unset}
                    /\ db.effect[k] \in Valid[k] \cup {Raw}
  /\ stream.eof \in BOOLEAN

\* While the program runs the file holds the settings of the map: nothing that
\* was set or reset is lost, or comes back, when it stops at any moment that is
\* not inside writeDB.
FileHoldsSettings == phase = "running" => Meaning(db.file) = db.settings

\* What is in effect is what get returns, through a start, /set, /set to "-"
\* and plugins that come and go.  The one exception are the keys of a plugin
\* loaded while the program runs, to which nothing has been applied yet.
EffectFollowsSettings ==
  phase = "running" =>
    \A k \in registered :
      \/ db.effect[k] = Get(db.settings, k)
      \/ k \in PluginKey /\ db.effect[k] = Raw

\* A start that gets as far as running has restored what the file held, although
\* the file was rewritten under the stream, if it fits the buffer of the stream.
StartRestores ==
  [][phase = "reading" /\ phase' = "running" /\ Len(loaded) <= Buffer =>
       db'.settings = Meaning(loaded)]_vars

\* readDB does not chase the end of the file that it keeps rewriting.
ReadEnds == phase = "reading" ~> phase # "reading"

\* "Reads the database from the cached file path" (FlatDB.h): reading leaves in
\* the file what was there, also when it fails.  The code does not keep this:
\* the lines behind the one that throws have been overwritten.
ReadKeepsFile ==
  phase = "failed" => Meaning(db.file) = Meaning(loaded)
=============================================================================
