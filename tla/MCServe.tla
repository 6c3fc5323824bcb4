------------------------------ MODULE MCServe ------------------------------
(* A small instance of Serve for TLC: a reader's buffer of 3 bytes, frames   *)
(* of up to 9 bytes around a limit of 5, and a response cap of 5.            *)
EXTENDS Serve

F(kind, length, id) == [kind |-> kind, length |-> length, id |-> id]

AllFrames ==
  {F("blank", n, 0) : n \in {0, 3, 6}}
  \cup {F("garbage", n, 0) : n \in 1..9}
  \cup {F(k, n, 0) : k \in {"writeTool", "list"}, n \in {4, 6}}
  \cup {F(k, 4, 1) : k \in Kinds \ {"blank", "garbage"}}
  \cup {F("writeTool", 6, 1)}
=============================================================================
