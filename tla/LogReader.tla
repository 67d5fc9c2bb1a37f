------------------------------ MODULE LogReader ------------------------------
(***************************************************************************)
(* A log and its way back to the screen: LogsPlugin::log, getStream, close   *)
(* and restore (src/src/plugins/logs), and Util::BackwardReader, which reads *)
(* the lines of a file from the last to the first, a chunk at a time.        *)
(*                                                                          *)
(* A line is a character, which stands for its stamp and kind, as often as   *)
(* the line is long, so that a chunk can begin anywhere in it.               *)
(***************************************************************************)
EXTENDS Integers, SequencesExt

CONSTANTS
  ChunkSize,
  Width,      \* how long lines are
  Count,      \* the arguments of /restore
  MaxStamp    \* bounds the lines of a log

ASSUME SizeAssumption ==
  /\ ChunkSize \in Nat \ {0}
  /\ Width \subseteq Nat \ {0}
  /\ Count \subseteq Int

Newline == [kind |-> "newline", stamp |-> 0]
Char(kind, stamp) == [kind |-> kind, stamp |-> stamp]

VARIABLES
  file,     \* the characters of the log
  clock,    \* the latest stamp
  open,     \* whether filemap has a stream for the log
  window,   \* the lines of the window of the log, the oldest first
  reader,   \* a BackwardReader
  end,      \* the length of the file when it was made
  read,     \* the lines readline has returned since
  over      \* whether it has returned false

vars == <<file, clock, open, window, reader, end, read, over>>

-----------------------------------------------------------------------------
(* BackwardReader.                                                          *)

\* find_last_of('\n'), counted from 1; 0 stands for npos.
LastNewline(s) ==
  IF \E i \in DOMAIN s : s[i] = Newline
  THEN CHOOSE i \in DOMAIN s : s[i] = Newline /\ \A j \in (i + 1)..Len(s) : s[j] # Newline
  ELSE 0

\* removeLastNewline
RemoveLastNewline(s) == IF s # <<>> /\ Last(s) = Newline THEN Front(s) ELSE s

\* The constructor.
NewReader(f) == [pos |-> Len(f), buffer |-> <<>>, done |-> FALSE]

\* What a turn of the loop in readline reads: a chunk, or the rest of the file.
Load(f, r) ==
  LET size == IF r.pos < ChunkSize THEN r.pos ELSE ChunkSize
  IN [r EXCEPT !.pos = r.pos - size,
               !.buffer = RemoveLastNewline(SubSeq(f, r.pos - size + 1, r.pos) \o @)]

\* Variant: one turn, whether or not there is a newline.
FillOnce(f, r) ==
  IF LastNewline(r.buffer) # 0 THEN [reader |-> r, start |-> -1]
  ELSE [reader |-> Load(f, r), start |-> r.pos]

\* The loop goes on until there is a newline or less than a chunk was left.
\* `start` is the position before the latest turn, -1 when there was none.
FillTurn(f, t) ==
  IF LastNewline(t.reader.buffer) # 0 \/ t.start \in 0..(ChunkSize - 1) THEN t
  ELSE [reader |-> Load(f, t.reader), start |-> t.reader.pos]

Fill(f, r) ==
  LET turn[k \in 0..(r.pos \div ChunkSize + 1)] ==
        IF k = 0 THEN [reader |-> r, start |-> -1] ELSE FillTurn(f, turn[k - 1])
  IN turn[r.pos \div ChunkSize + 1]

\* The newlines at the end go, unless the buffer is but one of them.
Strip(s) ==
  LET text == {i \in DOMAIN s : s[i] # Newline}
  IN IF s = <<Newline>> THEN s
     ELSE IF text = {} THEN <<>> ELSE SubSeq(s, 1, Max(text))

\* What is behind the last newline of s is returned.  A buffer that holds one
\* line and no newline is returned and not cleared.
Split(s, filled) ==
  LET nl == LastNewline(s)
  IN [ok |-> s # <<>>,
      line |-> SubSeq(s, nl + 1, Len(s)),
      reader |-> [filled.reader EXCEPT
                    !.done = filled.start = 0,
                    !.buffer = IF nl = 0 THEN s ELSE SubSeq(s, 1, nl - 1)]]

TakeLine(filled) == Split(Strip(filled.reader.buffer), filled)

\* readline: what it returns, the line, and the reader afterwards.
Readline(f, r) ==
  IF r.done THEN [ok |-> FALSE, line |-> <<>>, reader |-> r] ELSE TakeLine(Fill(f, r))

\* The loop of readlines: a line has been read before the limit is looked at.
\* A limit below zero, converted to size_t, is none.
TakeLines(t, got, n) ==
  IF got.ok /\ (n < 0 \/ Len(t.lines) < n)
  THEN [reader |-> got.reader, lines |-> Append(t.lines, got.line), going |-> TRUE]
  ELSE [reader |-> got.reader, lines |-> t.lines, going |-> FALSE]

ReadlinesTurn(f, t, n) == IF t.going THEN TakeLines(t, Readline(f, t.reader), n) ELSE t

Readlines(f, r, n) ==
  LET turn[k \in 0..(Len(f) + 2)] ==
        IF k = 0 THEN [reader |-> r, lines |-> <<>>, going |-> TRUE]
        ELSE ReadlinesTurn(f, turn[k - 1], n)
  IN turn[Len(f) + 2]

-----------------------------------------------------------------------------
(* /restore.                                                                *)

\* Variant: a line with the stamp of the top counts as one before it.
MatchOffByOne(next, top) ==
  [reader |-> next.reader,
   lines |-> SelectSeq(next.lines, LAMBDA l : l[1].stamp <= top),
   going |-> next.lines # <<>> /\ next.lines[1][1].stamp > top]

\* The loop that looks for a line before the top of the window ends with that
\* line, or with none.
Match(next, top) ==
  [reader |-> next.reader,
   lines |-> SelectSeq(next.lines, LAMBDA l : l[1].stamp < top),
   going |-> next.lines # <<>> /\ next.lines[1][1].stamp >= top]

SearchTurn(f, t, top) == IF t.going THEN Match(Readlines(f, t.reader, 1), top) ELSE t

Search(f, top) ==
  LET turn[k \in 0..(Len(f) + 2)] ==
        IF k = 0 THEN [reader |-> NewReader(f), lines |-> <<>>, going |-> TRUE]
        ELSE SearchTurn(f, turn[k - 1], top)
  IN turn[Len(f) + 2]

\* getLine drops what says that the log was created, opened or closed.
Shown(line, autoclean) == ~autoclean \/ line[1].kind = "message"

\* Each line that was read is pushed to the front of the window.
PushFront(w, lines, autoclean) ==
  LET kept == SelectSeq(lines, LAMBDA l : Shown(l, autoclean))
  IN Reverse([i \in DOMAIN kept |-> kept[i][1]]) \o w

\* The line that was found, and then more of them up to n.
ReadBehind(f, found, n) == found.lines \o Readlines(f, found.reader, n - 1).lines

Restored(f, w, n, autoclean) ==
  PushFront(w, ReadBehind(f, Search(f, w[1].stamp), n), autoclean)

-----------------------------------------------------------------------------
(* The log.                                                                 *)

Line(char, width) == Append([i \in 1..width |-> char], Newline)

\* What getStream writes when the log has no stream yet.
Opening(width) ==
  IF open THEN <<>>
  ELSE IF file = <<>>
  THEN Line(Char("created", clock + 1), width) \o Line(Char("opened", clock + 2), width)
  ELSE Line(Char("opened", clock + 1), width)

Init ==
  /\ file = <<>>
  /\ clock = 0
  /\ open = FALSE
  /\ window = <<>>
  /\ reader = NewReader(<<>>) /\ end = 0 /\ read = <<>> /\ over = FALSE

\* A message comes: a line in the log and one in the window.
Log(width, marker) ==
  LET stamp == clock + 1 + (IF open THEN 0 ELSE IF file = <<>> THEN 2 ELSE 1)
  IN /\ stamp <= MaxStamp
     /\ file' = file \o Opening(marker) \o Line(Char("message", stamp), width)
     /\ window' = Append(window, Char("message", stamp))
     /\ clock' = stamp
     /\ open' = TRUE
     /\ UNCHANGED <<reader, end, read, over>>

\* close: we leave the channel, or the user has quit; the window may stay.
Close(width, stays) ==
  /\ open /\ clock < MaxStamp
  /\ file' = file \o Line(Char("closed", clock + 1), width)
  /\ clock' = clock + 1
  /\ open' = FALSE
  /\ window' = IF stays THEN window ELSE <<>>
  /\ UNCHANGED <<reader, end, read, over>>

\* The program is killed, or ends without an open log, and is started again.
Restart ==
  /\ open' = FALSE
  /\ window' = <<>>
  /\ UNCHANGED <<file, clock, reader, end, read, over>>

\* /restore when the log has a stream.  In a window without lines the stamp to
\* look for is -1, and no line of the log is before it.
Restore(n, autoclean) ==
  /\ open
  /\ window' = IF window = <<>> THEN window ELSE Restored(file, window, n, autoclean)
  /\ UNCHANGED <<file, clock, open, reader, end, read, over>>

\* /clean takes away what says that the log was created, opened or closed.
Clean ==
  /\ window' = SelectSeq(window, LAMBDA l : l.kind = "message")
  /\ UNCHANGED <<file, clock, open, reader, end, read, over>>

\* /wc closes the window of a user, and it comes back without lines; the stream
\* stays open.
Reopen ==
  /\ window' = <<>>
  /\ UNCHANGED <<file, clock, open, reader, end, read, over>>

\* A reader as restore uses it, a line at a time while the log grows: restore
\* runs on the thread of the terminal, the messages come on another.
OpenReader ==
  /\ reader' = NewReader(file)
  /\ end' = Len(file) /\ read' = <<>> /\ over' = FALSE
  /\ UNCHANGED <<file, clock, open, window>>

TakeResult(got) ==
  /\ reader' = got.reader
  /\ read' = IF got.ok THEN Append(read, got.line) ELSE read
  /\ over' = ~got.ok

CallReadline ==
  /\ ~over
  /\ TakeResult(Readline(file, reader))
  /\ UNCHANGED <<file, clock, open, window, end>>

Next ==
  \/ \E width, marker \in Width : Log(width, marker)
  \/ \E width \in Width, stays \in BOOLEAN : Close(width, stays)
  \/ Restart
  \/ \E n \in Count, autoclean \in BOOLEAN : Restore(n, autoclean)
  \/ Clean \/ Reopen
  \/ OpenReader \/ CallReadline

Spec == Init /\ [][Next]_vars

-----------------------------------------------------------------------------
(* Properties.                                                              *)

\* The lines of a file from the last to the first: the reference for readline.
Backwards(f) ==
  LET starts == SetToSortSeq({i \in DOMAIN f : f[i] # Newline /\ (i = 1 \/ f[i - 1] = Newline)}, >)
      stop(i) == CHOOSE j \in i..Len(f) : f[j + 1] = Newline /\ \A k \in i..j : f[k] # Newline
  IN [n \in DOMAIN starts |-> SubSeq(f, starts[n], stop(starts[n]))]

\* The type of the state; the reader never goes before the start of the file
\* and keeps no more than it has read.
TypeOK ==
  /\ clock \in 0..MaxStamp /\ end \in 0..Len(file)
  /\ open \in BOOLEAN /\ over \in BOOLEAN
  /\ reader.pos \in 0..end /\ reader.done \in BOOLEAN
  /\ Len(reader.buffer) <= end - reader.pos
  /\ \A i \in DOMAIN window : window[i].stamp \in 1..clock

\* Whatever the chunks cut, and whatever is logged meanwhile, readline returns
\* the lines the file had, whole and in reverse order, and says that nothing is
\* left only after all of them.  The first line of the file may come twice.
ReadsBackwards ==
  LET all == Backwards(SubSeq(file, 1, end))
  IN /\ \/ IsPrefix(read, all)
        \/ all # <<>> /\ read = Append(all, Last(all))
     /\ over => IsPrefix(all, read)

\* However often lines are restored, a window shows messages in the order of
\* their stamps and none twice, and the markers in their places.
WindowInOrder ==
  \A i, j \in DOMAIN window : i < j =>
    /\ window[i].stamp <= window[j].stamp
    /\ window[i].kind = "message" => window[i].stamp < window[j].stamp

\* "Look for the last line in the log before the top of the scrollback"
\* (Restore.cpp): what is restored ends with the line before the top.  The code
\* does not keep this: each turn of the loop reads two lines and keeps one.
RestoresNearest ==
  [][\A n \in Count : Restore(n, FALSE) /\ window # <<>> =>
       LET lines == Backwards(file)
           older == {lines[i][1].stamp : i \in {j \in DOMAIN lines : lines[j][1].stamp < window[1].stamp}}
       IN older # {} => \E i \in DOMAIN window' : window'[i].stamp = Max(older)]_vars
=============================================================================
