------------------------------ MODULE MCSearch ------------------------------
(* Small instances of Search for TLC: three files of up to two matching      *)
(* lines, a listing that holds two of them, and one response that does not   *)
(* hold all three.                                                           *)
EXTENDS Search

Lines == {<<>>, <<"bytes", "text">>, <<"huge", "text">>}
ThreeItems == <<3, 6, 2>>
=============================================================================
