----------------------------- MODULE MCFetchUnit -----------------------------
(* Small instances of FetchUnit for TLC. *)
EXTENDS FetchUnit

\* Jumps into the first and the last byte of words of both halves: the last
\* byte is where the crossing into the next word follows at once.
MCTargets == {[word |-> 0, byte |-> 0], [word |-> 1, byte |-> 3],
              [word |-> 2, byte |-> 2]}
\* For two threads: a short loop across the word boundary.
MCFewTargets == {[word |-> 0, byte |-> 3]}

\* Every kind of access, at an address that is no opcode word.
MCLsRequests == [addr : {10}, wr : BOOLEAN, split : BOOLEAN]
\* The longest one only.
MCFewLsRequests == {[addr |-> 10, wr |-> TRUE, split |-> TRUE]}
=============================================================================
