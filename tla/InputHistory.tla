----------------------------- MODULE InputHistory -----------------------------
(***************************************************************************)
(* The lines that the up and down keys bring back:                          *)
(* src/src/plugins/history/History.cpp.                                     *)
(***************************************************************************)
EXTENDS Naturals, SequencesExt

CONSTANT MaxLength  \* how many lines are kept

ASSUME MaxLengthAssumption == MaxLength \in Nat \ {0}

\* The lines, the index of the one that was brought back, and the input field.
NoHistory == [history |-> <<>>, commandIndex |-> 0, field |-> "draft"]

\* prekey, which leaves other cases to the input field.  Indices count from 0.
Up(h) ==
  IF h.history = <<>> \/ h.commandIndex = 0 THEN h
  ELSE [h EXCEPT !.commandIndex = @ - 1, !.field = h.history[h.commandIndex]]

Down(h) ==
  IF h.commandIndex + 1 >= Len(h.history) THEN h
  ELSE [h EXCEPT !.commandIndex = @ + 1, !.field = h.history[h.commandIndex + 2]]

\* Variant: the index is that of the last line.
PostInputAtLast(h, original) ==
  LET longer == Append(h.history, original)
      kept == IF MaxLength < Len(longer) THEN Tail(longer) ELSE longer
  IN [history |-> kept, commandIndex |-> Len(kept) - 1, field |-> "draft"]

\* postinput, after the field has been cleared and the line handled.
PostInput(h, original) ==
  LET longer == Append(h.history, original)
      kept == IF MaxLength < Len(longer) THEN Tail(longer) ELSE longer
  IN [history |-> kept, commandIndex |-> Len(kept), field |-> "draft"]

\* What a person does: a key, or a line that is submitted.
Do(h, deed) ==
  CASE deed = "up" -> Up(h) [] deed = "down" -> Down(h) [] OTHER -> PostInput(h, deed)

-----------------------------------------------------------------------------
(* What it promises: all lines that were ever submitted, and how far back   *)
(* the person has gone.                                                     *)

NothingSaid == [log |-> <<>>, back |-> 0, field |-> "draft"]

Recall(s, back) == [s EXCEPT !.back = back, !.field = s.log[Len(s.log) + 1 - back]]

Promised(s, deed) ==
  CASE deed = "up" /\ s.back < Len(s.log) /\ s.back < MaxLength -> Recall(s, s.back + 1)
    [] deed = "down" /\ s.back > 1 -> Recall(s, s.back - 1)
    [] deed \notin {"up", "down"} -> [log |-> Append(s.log, deed), back |-> 0, field |-> "draft"]
    [] OTHER -> s

\* What is there, and what was promised, after some deeds.
After(deeds) ==
  LET after[n \in 0..Len(deeds)] ==
        IF n = 0 THEN [here |-> NoHistory, said |-> NothingSaid]
        ELSE [here |-> Do(after[n - 1].here, deeds[n]), said |-> Promised(after[n - 1].said, deeds[n])]
  IN after[Len(deeds)]

\* After any deeds the field shows what was promised.
Retraces(deeds) == After(deeds).here.field = After(deeds).said.field
=============================================================================
