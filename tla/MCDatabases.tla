----------------------------- MODULE MCDatabases -----------------------------
EXTENDS MCConfig, Databases

\* Digits that are dropped, kept and too many; what is escaped, ends a string or
\* is dropped in it; a bool and a colour.
MCAlphabet == {"0", "7", ".", "\"", "\\", "n", " ", "true", "blood"}

\* The end of a name is a name.
MCAliasOrder == <<<<"bye">>, <<"c", "ls">>, <<"ls">>>>
MCExpansion == {<<"plain">>, <<"slash", Backslash>>}

\* A comment and a name twice; no end to the last line; a line that is none; and
\* so many backslashes that what is behind the end of the file is an alias.
MCEditedAliases ==
  {<<Hash, EndOfLine, "bye", Equals, "plain">>,
   <<Hash, "ls", Equals, EndOfLine, "bye", Equals, "plain", EndOfLine,
     "bye", Equals, "a", "b", EndOfLine>>,
   <<"ls", Equals, "plain", EndOfLine, "c", "ls", Equals, "a", "b">>,
   <<"ls", Equals, "slash", Backslash, EndOfLine, "plain", EndOfLine>>,
   <<"bye", Equals, Backslash, Backslash, Backslash, Backslash, EndOfLine,
     "c", "ls", Equals, "plain", EndOfLine>>}

\* No alias, one, and one behind a comment.
MCBeside ==
  {<<>>, <<"bye", Equals, "plain", EndOfLine>>, <<Hash, EndOfLine, "bye", Equals, "plain">>}
==============================================================================
