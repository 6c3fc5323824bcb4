----------------------------- MODULE Arguments -----------------------------
(***************************************************************************)
(* The two arguments that handlers work out in memory: the edits of        *)
(* fs_replace (ApplyEdits) and the glob of fs_grep and fs_glob (rg.go,     *)
(* validateGlobArg and expandBraces).  A job is one such argument; a       *)
(* pattern is a sequence of characters.                                    *)
(*                                                                         *)
(* The algorithm takes a pattern apart from the left, as the code does;    *)
(* the property says which patterns the syntax of a glob stands for.       *)
(***************************************************************************)
EXTENDS ApplyEdits

CONSTANTS
  Characters,         \* what a pattern is made of
  Globs,              \* the jobs of a search: the syntax of a pattern, and what follows it
  MaxNesting,         \* how deep the groups of a syntax nest
  maxBraceExpansions

Patterns == Seq(Characters)
Open == "{"
Close == "}"
Comma == ","
Nul == "NUL"
-----------------------------------------------------------------------------
(* The code *)

\* How deep position i of the text is, counted from position from.
Depth(text, from, i) ==
  Cardinality({j \in from..i : text[j] = Open}) - Cardinality({j \in from..i : text[j] = Close})

\* 0 for none, where the code has -1.
MatchingBrace(text, start) ==
  LET closed == {i \in start..Len(text) : Depth(text, start, i) = 0}
  IN  IF closed = {} THEN 0 ELSE Min(closed)

SplitTopLevel(text) ==
  LET scan[i \in 0..Len(text)] ==
        IF i = 0 THEN [parts |-> <<>>, last |-> 0]
        ELSE LET so == scan[i - 1] IN
             IF text[i] = Comma /\ Depth(text, 1, i) = 0
             THEN [parts |-> Append(so.parts, SubSeq(text, so.last + 1, i - 1)), last |-> i]
             ELSE so
      end == scan[Len(text)]
  IN  Append(end.parts, SubSeq(text, end.last + 1, Len(text)))

Opening(text) == SelectInSeq(text, LAMBDA c : c = Open)
Closing(text) == IF Opening(text) = 0 THEN 0 ELSE MatchingBrace(text, Opening(text))

TooMany == [ok |-> FALSE, alts |-> <<>>]
Expanded(alts) == [ok |-> TRUE, alts |-> alts]

\* The results of the rounds of a loop, taken together until there are too many.
Gather(rounds, result) ==
  LET soFar[k \in 0..rounds] ==
        IF k = 0 THEN Expanded(<<>>)
        ELSE LET so == soFar[k - 1]  more == result[k]
             IN  IF ~so.ok \/ ~more.ok \/ Len(so.alts) + Len(more.alts) > maxBraceExpansions
                 THEN TooMany ELSE Expanded(so.alts \o more.alts)
  IN  soFar[rounds]

\* Variant: what a group's parts become is not looked at again.
ExpansionOnce(text, expand) ==
  IF Closing(text) = 0 THEN Expanded(<<text>>)
  ELSE LET prefix == SubSeq(text, 1, Opening(text) - 1)
           parts == SplitTopLevel(SubSeq(text, Opening(text) + 1, Closing(text) - 1))
           suffixes == expand[SubSeq(text, Closing(text) + 1, Len(text))]
       IN  IF ~suffixes.ok THEN TooMany
           ELSE Gather(Len(parts), [k \in 1..Len(parts) |->
                  Gather(Len(suffixes.alts), [j \in 1..Len(suffixes.alts) |->
                    Expanded(<<prefix \o parts[k] \o suffixes.alts[j]>>)])])

\* The body of expandBraces, where expand is the function itself.
Expansion(text, expand) ==
  IF Closing(text) = 0 THEN Expanded(<<text>>)
  ELSE LET prefix == SubSeq(text, 1, Opening(text) - 1)
           parts == SplitTopLevel(SubSeq(text, Opening(text) + 1, Closing(text) - 1))
           suffixes == expand[SubSeq(text, Closing(text) + 1, Len(text))]
       IN  IF ~suffixes.ok THEN TooMany
           ELSE Gather(Len(parts), [k \in 1..Len(parts) |->
                  Gather(Len(suffixes.alts), [j \in 1..Len(suffixes.alts) |->
                    expand[prefix \o parts[k] \o suffixes.alts[j]]])])

ExpandBraces[text \in Patterns] == Expansion(text, ExpandBraces)
-----------------------------------------------------------------------------
(* The syntax *)

\* What a pattern is written from: characters, and groups of alternatives.  Inside a
\* group a comma and a closing brace are not characters.
Char(chars) == [char: chars, alts: {<<>>}]
Inner[n \in 0..MaxNesting] ==
  Char(Characters \ {Open, Close, Comma}) \cup
    IF n = 0 THEN {} ELSE [char: {Open}, alts: Seq(Seq(Inner[n - 1])) \ {<<>>}]
Outer(n) == Char(Characters \ {Open}) \cup Inner[n]

Text(nodes, written) ==
  LET from[i \in 1..(Len(nodes) + 1)] ==
        IF i > Len(nodes) THEN <<>> ELSE written[nodes[i]] \o from[i + 1]
  IN  from[1]

Written[n \in 0..MaxNesting] ==
  [node \in Outer(n) |->
    IF node.alts = <<>> THEN <<node.char>>
    ELSE FlattenSeq([k \in 1..Len(node.alts) |->
           (IF k = 1 THEN <<Open>> ELSE <<Comma>>) \o Text(node.alts[k], Written[n - 1])])
         \o <<Close>>]

ASSUME ArgumentsAssumption ==
  /\ maxBraceExpansions \in Nat \ {0}
  /\ MaxNesting \in Nat
  /\ {Open, Close, Comma} \subseteq Characters
  /\ \A glob \in Globs : /\ glob \in [syntax: Seq(Outer(MaxNesting)), tail: Patterns]
                         /\ Closing(glob.tail) = 0

Pattern == Text(job.syntax, Written[MaxNesting]) \o job.tail
-----------------------------------------------------------------------------
\* The components of a path, as strings.Split gives them.
Components(path) ==
  LET cuts == SetToSortSeq({0, Len(path) + 1} \cup {i \in 1..Len(path) : path[i] = "/"}, <)
  IN  {SubSeq(path, cuts[k] + 1, cuts[k + 1] - 1) : k \in 1..(Len(cuts) - 1)}

Escapes(path) == (path # <<>> /\ path[1] = "/") \/ <<".", ".">> \in Components(path)

ValidateGlobArg ==
  /\ outcome = "unseen"
  /\ LET expanded == ExpandBraces[Pattern]
     IN  Refuse(IF Contains(Pattern, Nul) THEN "invalid_argument"
                ELSE IF expanded.ok /\ ~\E k \in DOMAIN expanded.alts : Escapes(expanded.alts[k])
                THEN "ok" ELSE "outside_root")
  /\ UNCHANGED job

GlobInit == job \in Globs /\ out = <<>> /\ counts = <<>> /\ outcome = "unseen"

Init == BatchInit \/ GlobInit

Next == BatchNext \/ ValidateGlobArg

Spec == Init /\ [][Next]_vars
-----------------------------------------------------------------------------
(* Properties. *)

\* All of heads followed by all of tails.
Joined(heads, tails) ==
  FlattenSeq([i \in 1..Len(heads) |-> [j \in 1..Len(tails) |-> heads[i] \o tails[j]]])

\* What nodes stand for, one after another.
Readings(nodes, denoted) ==
  LET from[i \in 1..(Len(nodes) + 1)] ==
        IF i > Len(nodes) THEN << <<>> >> ELSE Joined(denoted[nodes[i]], from[i + 1])
  IN  from[1]

\* The patterns a node stands for, one alternative of each group at a time.
Denoted[n \in 0..MaxNesting] ==
  [node \in Outer(n) |->
    IF node.alts = <<>> THEN << <<node.char>> >>
    ELSE FlattenSeq([k \in 1..Len(node.alts) |-> Readings(node.alts[k], Denoted[n - 1])])]

\* validateGlobArg lets a pattern without NUL through exactly when every pattern it
\* stands for stays inside the root and there are not too many: no nesting of groups
\* hides a slash at the front or a "..", and nothing else is refused.
GlobVerdictExact ==
  outcome \notin {"going", "unseen"} /\ ~IsBatch =>
    LET alts == Readings(job.syntax, Denoted[MaxNesting])
        nul == Contains(Pattern, Nul)
    IN  /\ outcome = "invalid_argument" <=> nul
        /\ outcome = "ok" <=>
             /\ ~nul /\ Len(alts) <= maxBraceExpansions
             /\ \A k \in DOMAIN alts : ~Escapes(alts[k] \o job.tail)
=============================================================================
