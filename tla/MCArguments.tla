---------------------------- MODULE MCArguments ----------------------------
(* Small instances of Arguments for TLC: every batch of up to two edits over *)
(* files of up to three characters and two of four, and globs of a few       *)
(* characters and groups, nested up to twice.                                *)
EXTENDS Arguments

Letters == {"a", "b"}
Edit == [find: BoundedSeq(Letters, 2), replace: BoundedSeq(Letters, 1) \cup {Missing}, all: BOOLEAN]
Files == BoundedSeq(Letters, 3) \cup {<<"a", "b", "a", "b">>, <<"a", "a", "a", "a">>}
AllBatches == [file: Files, edits: BoundedSeq(Edit, 2)]

Single(c) == [char |-> c, alts |-> <<>>]
Group(alts) == [char |-> "{", alts |-> alts]

AllCharacters == {"/", ".", "{", ",", "}", "NUL"}
Chars == {Single(c) : c \in {"/", "."}}
Short == BoundedSeq(Chars, 1)
Groups == {Group(alts) : alts \in [1..1 -> Short] \cup [1..2 -> Short]}
Flat == BoundedSeq(Chars \cup Groups, 3)

Pairs == {Group(alts) : alts \in [1..2 -> Short]}
Inside == Short \cup [1..1 -> Pairs] \cup {<<Single("."), g>> : g \in Pairs}
Nested == {before \o <<Group(alts)>> \o after :
             before \in {<<>>, <<Single(".")>>, <<Single("}"), Single(",")>>}, alts \in [1..2 -> Inside],
             after \in {<<>>, <<Single("/")>>, <<Single(".")>>}}

AllGlobs == [syntax: Flat \cup Nested, tail: {<<>>, <<"{">>, <<"}", "/">>, <<"NUL">>}]
=============================================================================
