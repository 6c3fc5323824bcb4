------------------------------ MODULE MCFsRead ------------------------------
(* Small instances of FsRead for TLC: with a cap of 14 bytes of which 4 are  *)
(* reserved, 7 bytes fit one response.  A newline is the escaped byte.       *)
EXTENDS FsRead

Text(n, newlines) == [length |-> n, bytes |-> "text", escapes |-> newlines]
Binary(n) == [length |-> n, bytes |-> "binary", escapes |-> {}]

\* Without escapes, with one in a page, with one more than fit, and all of them.
Contents ==
  {Text(n, {}) : n \in {0, 1, 7, 15}} \cup {Binary(n) : n \in {6, 7, 8, 15}}
    \cup {Text(8, {0, 7}), Text(7, {0, 2, 5}), Text(15, 0..14)}

Newlines == {Text(1, {0}), Text(7, 0..6)}

\* Offsets and lengths below zero, within a page, at its end and past any file.
SomeOffsets == {-1, 0, 1, 7, 16}
SomeWants == {-1, 0, 1, 7, 8}
=============================================================================
