------------------------------- MODULE Databases -------------------------------
(***************************************************************************)
(* The two files of the program together: the settings of Config, and the   *)
(* aliases of src/src/core/Aliases.cpp and src/src/commands/Alias.cpp.      *)
(* Client::init reads one after the other.  A file of aliases consists of   *)
(* pieces of names and of expansions and of the characters that matter to   *)
(* who reads it: writing doubles a backslash and reading leaves it double,  *)
(* so that the file grows under the stream.  Expansions hold no equals      *)
(* sign, and no tab, which is written as two characters as well.            *)
(***************************************************************************)
EXTENDS Config, Values

CONSTANTS
  AliasOrder,    \* the names that are typed or read, each of some pieces, in
                 \* the order of the map
  Expansion,     \* what is typed for them
  EditedAliases, \* files of aliases a person may have written
  AliasBuffer,   \* how much of such a file the stream reads at once
  MaxAliases,    \* bound: the program is not started with a longer one
  Beside         \* bound: the files of aliases beside which there are settings

VARIABLES
  aliases,  \* the map and the file
  reader    \* of the file: "down", "reading" or "ready"; stream, and file loaded

both == <<vars, aliases, reader>>

Equals == "="
Backslash == "\\"
EndOfLine == "\n"
Hash == "#"

Name == ToSet(AliasOrder)
NoAliases == [k \in Name |-> Unset]

\* Util::escape, as far as it lengthens.  What is read is not unescaped.
Escaped(e) ==
  FlattenSeq([i \in DOMAIN e |-> IF e[i] = Backslash THEN <<e[i], e[i]>> ELSE <<e[i]>>])

\* operator std::string
AliasLines(map) ==
  FlattenSeq([i \in DOMAIN AliasOrder |->
    LET k == AliasOrder[i]
    IN IF map[k] = Unset THEN <<>> ELSE k \o <<Equals>> \o Escaped(map[k]) \o <<EndOfLine>>])

\* Up to the first t, and behind it.
Before(s, t) == IF t \in ToSet(s) THEN SubSeq(s, 1, SelectInSeq(s, LAMBDA x : x = t) - 1) ELSE s
Behind(s, t) == SubSeq(s, Len(Before(s, t)) + 2, Len(s))

\* Lines without the end of a line: comments, and what parseKVPair can part,
\* with a key in front of the first equals sign that has no other characters
\* than a key may have.
Commented(line) == line # <<>> /\ line[1] = Hash
Parts(line) ==
  LET key == Before(line, Equals)
  IN Equals \in ToSet(line) /\ key # <<>> /\ {Backslash, Hash} \cap ToSet(key) = {}

\* remove and insert, which save.
Without(map, k) == [map EXCEPT ![k] = Unset]
With(map, k, e) == [map EXCEPT ![k] = e]

\* Variant: what is there is not removed, so that nothing is inserted.
AppliedOnce(map, line) ==
  LET k == Before(line, Equals)
  IN IF Commented(line) \/ map[k] # Unset THEN map ELSE With(map, k, Behind(line, Equals))

\* applyLine, for a line that can be parsed.
Applied(map, line) ==
  LET k == Before(line, Equals)
  IN IF Commented(line) THEN map ELSE With(Without(map, k), k, Behind(line, Equals))

Save(map) == aliases' = [map |-> map, file |-> AliasLines(map)]

-----------------------------------------------------------------------------

InitBoth ==
  /\ Init
  /\ aliases = [map |-> NoAliases, file |-> <<>>]
  /\ reader = [at |-> "down", stream |-> Closed, loaded |-> <<>>]

Halt == reader' = [at |-> "down", stream |-> Closed, loaded |-> <<>>]

EditAliases(file) ==
  /\ phase \in {"down", "failed"}
  /\ aliases' = [aliases EXCEPT !.file = file]
  /\ UNCHANGED <<vars, reader>>

\* Client::init: the settings, then the aliases.
Begin(plugins) ==
  /\ Len(aliases.file) <= MaxAliases
  /\ Start(plugins)
  /\ aliases' = [aliases EXCEPT !.map = NoAliases]
  /\ Halt

BeginAliases ==
  /\ EndRead
  /\ reader' = [at |-> "reading", stream |-> Closed, loaded |-> aliases.file]
  /\ UNCHANGED aliases

\* One turn of the loop in readDB: the line is what the stream has not handed
\* out of the file as it is now.  One that is no alias ends the program.
ReadAlias ==
  LET rest == Rest(reader.stream, aliases.file)
      line == Before(rest, EndOfLine)
      ended == EndOfLine \in ToSet(rest)
      taken == IF ended THEN Len(line) + 1 ELSE Len(line)
  IN /\ reader.at = "reading" /\ ~reader.stream.eof /\ rest # <<>>
     /\ \/ /\ Commented(line) \/ Parts(line)
           /\ IF Commented(line) THEN UNCHANGED aliases ELSE Save(Applied(aliases.map, line))
           /\ reader' =
                [reader EXCEPT !.stream = Handing(@, aliases.file, taken, ended, AliasBuffer)]
           /\ UNCHANGED vars
        \/ /\ ~(Commented(line) \/ Parts(line))
           /\ phase' = "failed" /\ Halt
           /\ UNCHANGED <<registered, db, stream, loaded, aliases>>

EndAliases ==
  /\ reader.at = "reading"
  /\ reader.stream.eof \/ Rest(reader.stream, aliases.file) = <<>>
  /\ reader' = [at |-> "ready", stream |-> Closed, loaded |-> <<>>]
  /\ UNCHANGED <<vars, aliases>>

\* /set, /plugin
Configure ==
  /\ reader.at = "ready"
  /\ \E k \in Key : \/ \E v \in Value : Set(k, v)
                    \/ Reset(k) \/ LoadPlugin(k) \/ UnloadPlugin(k)
  /\ UNCHANGED <<aliases, reader>>

\* /alias with a name and an expansion.
Alias(k, e) ==
  /\ reader.at = "ready"
  /\ Save(Applied(aliases.map, k \o <<Equals>> \o e))
  /\ UNCHANGED <<vars, reader>>

\* /alias with "-".
Unalias(k) ==
  /\ reader.at = "ready" /\ aliases.map[k] # Unset
  /\ Save(Without(aliases.map, k))
  /\ UNCHANGED <<vars, reader>>

\* The program ends; or it is killed while it writes the settings.
End == (Stop \/ StopInWrite) /\ Halt /\ UNCHANGED aliases

\* It is killed while it writes the aliases, or between the two saves of an
\* alias that is replaced.
EndInAliases ==
  /\ reader.at = "ready" \/ reader.stream # Closed
  /\ Stop /\ Halt
  /\ \/ aliases' = [aliases EXCEPT !.file = <<>>]
     \/ \E k \in Name : aliases.map[k] # Unset /\ Save(Without(aliases.map, k))

Acts ==
  \/ \E file \in Edited : Edit(file) /\ UNCHANGED <<aliases, reader>>
  \/ \E file \in EditedAliases : EditAliases(file)
  \/ \E plugins \in SUBSET PluginKey : Begin(plugins)
  \/ ReadLine /\ UNCHANGED <<aliases, reader>>
  \/ BeginAliases \/ ReadAlias \/ EndAliases \/ Configure
  \/ \E k \in Name : Unalias(k) \/ \E e \in Expansion : Alias(k, e)
  \/ End \/ EndInAliases

\* The two files share nothing but the order in which they are read: settings are
\* looked at beside a few files of aliases, and all of those without settings.
NextBoth == Acts /\ (db'.file = <<>> \/ aliases'.file \in Beside)

SpecBoth ==
  /\ InitBoth /\ [][NextBoth]_both
  /\ WF_both((ReadLine /\ UNCHANGED <<aliases, reader>>) \/ BeginAliases)

-----------------------------------------------------------------------------

\* The lines of a file, each at where it begins.
LinesOf(file) ==
  [i \in {1} \cup {j + 1 : j \in {j \in DOMAIN file : file[j] = EndOfLine}} |->
    Before(SubSeq(file, i, Len(file)), EndOfLine)]

\* The aliases a file holds: the last line of a name counts.
AliasMeaning(file) ==
  [k \in Name |->
    LET lines == LinesOf(file)
        at == {i \in DOMAIN lines : Parts(lines[i]) /\ Before(lines[i], Equals) = k}
    IN IF at = {} THEN Unset ELSE Behind(lines[Max(at)], Equals)]

\* Each line of the file is one that can be applied.
WellFormed(file) ==
  LET lines == LinesOf(file)
  IN \A i \in DOMAIN lines :
       i <= Len(file) => Commented(lines[i]) \/ Parts(lines[i])

\* No line of it is longer when it is written than it was when it was read, and
\* it fits the buffer of the stream.
Keeps(file) == Backslash \notin ToSet(file) /\ Len(file) <= AliasBuffer

\* A start gives back the aliases that the file held, although each line of it
\* has the file rewritten, and it fails only at a line that cannot be applied, if
\* the file fits the buffer of the stream and no backslash is in it.  With every
\* file, whatever has been read behind its end: when it has been read it holds
\* the aliases that are in the map, with their backslashes doubled.
AliasesKept ==
  [][/\ reader.at = "reading" /\ reader'.at = "ready" /\ Keeps(reader.loaded) =>
          aliases'.map = AliasMeaning(reader.loaded)
     /\ reader.at = "reading" /\ phase' = "failed" /\ Keeps(reader.loaded) =>
          ~WellFormed(reader.loaded)
     /\ reader'.at = "ready" =>
          AliasMeaning(aliases'.file) =
            [k \in Name |-> IF aliases'.map[k] = Unset THEN Unset ELSE Escaped(aliases'.map[k])]]_both

\* Whenever /set may be typed: what it accepts for a setting can be put into
\* effect, and the line that is written of it sets the same setting to the same
\* value, of the same type, when it is read at the next start, unless it is
\* Unreadable: then reading throws, and the start ends.
SettingsReadBack == reader.at = "ready" => AllReadBack
=============================================================================
