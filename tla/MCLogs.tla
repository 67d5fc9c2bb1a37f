------------------------------- MODULE MCLogs -------------------------------
(* Lines shorter than a chunk, as long as one with its newline, and longer;   *)
(* two people and a name that is free.                                       *)
EXTENDS Logs

CONSTANTS me, ann, ours, hers, free

MCWidth == {1, 2, 4}
MCCount == {0, 1, 3}

MCUser == {me, ann}
MCNick == {ours, hers, free}
MCBody == {"hello"}
=============================================================================
