----------------------------- MODULE MCLogReader -----------------------------
(* Lines shorter than a chunk, as long as one with its newline, and longer.   *)
EXTENDS LogReader

MCWidth == {1, 2, 4}
MCCount == {0, 1, 3}
=============================================================================
