----------------------------- MODULE TreeProofs -----------------------------
(***************************************************************************)
(* What fs_mkdir and fs_delete promise of trees of any depth, whatever the *)
(* names and however many servers.  The first part is about paths and      *)
(* trees: an entry has a directory above it, so below a name that is empty *)
(* or not there is nothing.  The second is the inductive invariant, which  *)
(* says of each call what it may rely on in each world.                    *)
(***************************************************************************)
EXTENDS Tree, SequenceTheorems, WellFoundedInduction, TLAPS

\* A set of natural numbers that is not empty has a least element.
LEMMA LeastNumber ==
  ASSUME NEW T, T \subseteq Nat, T # {}
  PROVE  \E x \in T : \A y \in T : x <= y
<1> DEFINE R == OpToRel(<, Nat)
<1>1. IsWellFoundedOn(R, Nat)
  BY NatLessThanWellFounded
<1> HIDE DEF R
<1>2. PICK x \in T : \A y \in T : ~(<<y, x>> \in R)
  BY <1>1, WFMin
<1>3. \A y \in T : y < x => <<y, x>> \in R
  BY DEF R, OpToRel
<1>4. ASSUME NEW y \in T PROVE x <= y
  <2>1. ~(y < x)
    BY <1>2, <1>3
  <2>2. x \in Nat /\ y \in Nat
    OBVIOUS
  <2> QED
    BY <2>1, <2>2
<1> QED
  BY <1>4
-----------------------------------------------------------------------------
(* Paths *)

LEMMA PathType ==
  ASSUME NEW p \in Paths
  PROVE  p \in Seq(Names) /\ Len(p) \in 1..Depth
<1>1. PICK n \in 1..Depth : p \in [1..n -> Names]
  BY DEF Paths
<1>2. p \in Seq(Names)
  BY <1>1, TreeAssumption, SeqDef
<1> QED
  BY <1>1, <1>2, LenProperties

LEMMA PathMade ==
  ASSUME NEW p \in Seq(Names), Len(p) \in 1..Depth
  PROVE  p \in Paths
BY LenProperties DEF Paths

LEMMA PrefixType ==
  ASSUME NEW p \in Paths, NEW n \in 1..Len(p)
  PROVE  SubSeq(p, 1, n) \in Paths /\ Len(SubSeq(p, 1, n)) = n
<1>1. p \in Seq(Names) /\ Len(p) \in 1..Depth
  BY PathType
<1>2. \A i \in 1..n : p[i] \in Names
  BY <1>1, ElementOfSeq
<1>3. SubSeq(p, 1, n) \in Seq(Names) /\ Len(SubSeq(p, 1, n)) = n
  BY <1>1, <1>2, SubSeqProperties
<1>4. n \in 1..Depth
  BY <1>1, TreeAssumption
<1> QED
  BY <1>3, <1>4, PathMade

LEMMA WholePrefix ==
  ASSUME NEW p \in Paths
  PROVE  SubSeq(p, 1, Len(p)) = p
BY PathType, SubSeqFull

LEMMA ParentType ==
  ASSUME NEW p \in Paths, Parent(p) # Root
  PROVE  Len(p) > 1 /\ Parent(p) \in Paths /\ Len(Parent(p)) = Len(p) - 1
<1>1. Len(p) \in 1..Depth
  BY PathType
<1>2. Len(p) > 1
  BY <1>1, SubSeqEmpty DEF Parent, Root
<1> QED
  BY <1>1, <1>2, TreeAssumption, PrefixType DEF Parent

LEMMA RootIsNoPath == Root \notin Paths
BY PathType, EmptySeq DEF Root

\* What is below q is an entry of q, or below q still without its last component.
LEMMA BelowParent ==
  ASSUME NEW p \in Paths, NEW q \in Paths, Below(p, q)
  PROVE  /\ Parent(p) \in Paths /\ Len(Parent(p)) = Len(p) - 1
         /\ Parent(p) = q \/ Below(Parent(p), q)
<1>1. /\ Len(p) \in 1..Depth /\ Len(q) \in 1..Depth /\ p \in Seq(Names)
      /\ Len(q) < Len(p) /\ SubSeq(p, 1, Len(q)) = q
  BY PathType DEF Below
<1>2. Parent(p) \in Paths /\ Len(Parent(p)) = Len(p) - 1
  BY <1>1, TreeAssumption, PrefixType DEF Parent
<1>3. CASE Len(q) = Len(p) - 1
  BY <1>1, <1>2, <1>3 DEF Parent
<1>4. CASE Len(q) # Len(p) - 1
  <2>1. SubSeq(Parent(p), 1, Len(q)) = SubSeq(p, 1, Len(q))
    BY <1>1, <1>2, <1>4, TreeAssumption, SubSeqOfSubSeq DEF Parent
  <2> QED
    BY <1>1, <1>2, <1>4, <2>1, TreeAssumption DEF Below
<1> QED
  BY <1>2, <1>3, <1>4
-----------------------------------------------------------------------------
(* Trees *)

TreeType == kind \in [Paths -> {"none", "dir", "file"}] /\ Rooted

\* What lies below q lies in an entry of q.
LEMMA BelowHasEntry ==
  ASSUME TreeType, NEW p \in Paths, NEW q \in Paths, Below(p, q), kind[p] # "none"
  PROVE  \E c \in Paths : Parent(c) = q /\ kind[c] # "none"
<1> DEFINE There == {r \in Paths : Below(r, q) /\ kind[r] # "none"}
           Lengths == {Len(r) : r \in There}
<1>1. \A r \in There : Len(r) \in Nat
  BY PathType, TreeAssumption
<1>2. Lengths \subseteq Nat /\ Lengths # {}
  BY <1>1
<1>3. PICK c \in There : \A r \in There : Len(c) <= Len(r)
  <2> HIDE DEF There
  <2>1. PICK least \in Lengths : \A length \in Lengths : least <= length
    <3> HIDE DEF Lengths
    <3> QED
      BY <1>2, LeastNumber
  <2> QED
    BY <2>1
<1>4. /\ Parent(c) \in Paths /\ Len(Parent(c)) = Len(c) - 1
      /\ Parent(c) = q \/ Below(Parent(c), q)
  BY <1>3, BelowParent
<1>5. kind[Parent(c)] = "dir"
  BY <1>3, <1>4, RootIsNoPath DEF TreeType, Rooted, IsDir
<1>6. Parent(c) \notin There
  BY <1>1, <1>3, <1>4
<1> QED
  BY <1>3, <1>4, <1>5, <1>6

LEMMA NothingBelowEmpty ==
  ASSUME TreeType, NEW p \in Paths, NEW q \in Paths, Below(p, q), Empty(q)
  PROVE  kind[p] = "none"
BY BelowHasEntry DEF Empty

LEMMA NothingBelowNone ==
  ASSUME TreeType, NEW p \in Paths, NEW q \in Paths, Below(p, q), kind[q] = "none"
  PROVE  kind[p] = "none"
<1> SUFFICES ASSUME kind[p] # "none" PROVE FALSE
  OBVIOUS
<1>1. PICK c \in Paths : Parent(c) = q /\ kind[c] # "none"
  BY BelowHasEntry
<1> QED
  BY <1>1, RootIsNoPath DEF TreeType, Rooted, IsDir

\* An entry made in a directory.
Makes(p, k) ==
  /\ kind[p] = "none" /\ IsDir(Parent(p)) /\ k \in {"dir", "file"}
  /\ kind' = [kind EXCEPT ![p] = k]

\* An entry with none of its own removed.
Removes(p) == Empty(p) /\ kind' = [kind EXCEPT ![p] = "none"]

LEMMA MakesKeeps ==
  ASSUME TreeType, NEW p \in Paths, NEW k, Makes(p, k)
  PROVE  TreeType'
<1>1. kind' \in [Paths -> {"none", "dir", "file"}]
  BY DEF TreeType, Makes
<1>2. ASSUME NEW q \in Paths, kind'[q] # "none" PROVE IsDir(Parent(q))'
  <2>1. IsDir(Parent(q))
    BY <1>2 DEF TreeType, Makes, Rooted
  <2> QED
    BY <2>1, ParentType DEF TreeType, Makes, IsDir
<1> QED
  BY <1>1, <1>2 DEF TreeType, Rooted

LEMMA RemovesKeeps ==
  ASSUME TreeType, NEW p \in Paths, Removes(p)
  PROVE  TreeType'
<1>1. kind' \in [Paths -> {"none", "dir", "file"}]
  BY DEF TreeType, Removes
<1>2. ASSUME NEW q \in Paths, kind'[q] # "none" PROVE IsDir(Parent(q))'
  <2>1. kind[q] # "none" /\ IsDir(Parent(q)) /\ Parent(q) # p
    BY <1>2 DEF TreeType, Removes, Rooted, Empty
  <2> QED
    BY <2>1, ParentType DEF TreeType, Removes, IsDir
<1> QED
  BY <1>1, <1>2 DEF TreeType, Rooted
-----------------------------------------------------------------------------
(* The invariant *)

Dirs == {p \in Paths : kind[p] = "dir"}

Making == {"lstat", "mkdir"}
Deleting == {"deleteLstat", "readDir", "remove", "removeAll"}

\* Every component before the nth of what s is to make is a directory.
MadeBefore(s, n) == \A i \in 1..(n - 1) : SubSeq(target[s], 1, i) \in Dirs

\* What the call of s is, and what it may rely on: while nothing is deleted, that
\* what it found or made is still there; while it is alone, that what it saw empty is
\* empty and what it removed is gone.
Mine(s) ==
  /\ pc[s] \in Making => op[s] = "mkdir"
  /\ pc[s] \in Deleting => op[s] # "mkdir"
  /\ world = "making" /\ pc[s] # "idle" => op[s] = "mkdir" /\ Created(s) \subseteq Dirs
  /\ world \in {"alone", "making"} =>
       /\ pc[s] \in Making => MadeBefore(s, at[s])
       /\ pc[s] = "done" /\ result[s] = "ok" /\ op[s] = "mkdir" =>
            MadeBefore(s, Len(target[s]) + 1)
  /\ world = "alone" =>
       /\ pc[s] = "removeAll" /\ op[s] = "delete" => Empty(target[s])
       /\ pc[s] = "done" /\ result[s] = "ok" /\ op[s] # "mkdir" => kind[target[s]] = "none"

OneAtATime == world = "alone" => \A s, t \in Servers : s # t => pc[s] = "idle" \/ pc[t] = "idle"

FunctionsType == at \in [Servers -> Nat] /\ created \in [Servers -> Seq(Paths)]

TreeInv == TypeOK /\ FunctionsType /\ OneAtATime /\ CreatedOnce /\ \A s \in Servers : Mine(s)

\* A step of s changes what is its own, and the tree.
LocalStep(s) ==
  /\ world' = world
  /\ \A t \in Servers \ {s} :
       /\ pc'[t] = pc[t] /\ op'[t] = op[t] /\ target'[t] = target[t]
       /\ at'[t] = at[t] /\ created'[t] = created[t] /\ result'[t] = result[t]

OthersIdle(s) == world = "alone" => \A t \in Servers \ {s} : pc[t] = "idle"

\* Where nothing is deleted, directories stay.
DirsStay == world = "making" => Dirs \subseteq Dirs'

LEMMA OthersKept ==
  ASSUME TreeInv, NEW s \in Servers, LocalStep(s), OthersIdle(s), DirsStay,
         NEW t \in Servers \ {s}
  PROVE  Mine(t)'
<1>1. Mine(t)
  BY DEF TreeInv
<1>2. CASE world = "alone"
  <2>1. pc[t] = "idle" /\ pc'[t] = "idle" /\ world' = "alone"
    BY <1>2 DEF OthersIdle, LocalStep
  <2> QED
    BY <2>1 DEF Mine, Making, Deleting
<1>3. CASE world # "alone"
  <2>1. /\ world' = world /\ pc'[t] = pc[t] /\ op'[t] = op[t] /\ target'[t] = target[t]
        /\ at'[t] = at[t] /\ created'[t] = created[t] /\ result'[t] = result[t]
    BY DEF LocalStep
  <2>2. world = "making" => Dirs \subseteq Dirs'
    BY DEF DirsStay
  <2>3. Created(t)' = Created(t)
    BY <2>1 DEF Created
  <2>4. world = "making" => \A n : MadeBefore(t, n) => MadeBefore(t, n)'
    BY <2>1, <2>2 DEF MadeBefore
  <2> QED
    BY <1>1, <1>3, <2>1, <2>2, <2>3, <2>4 DEF Mine
<1> QED
  BY <1>2, <1>3

\* So a step of s keeps the invariant when it keeps the types and what is said of s.
LEMMA StepKeeps ==
  ASSUME TreeInv, NEW s \in Servers, LocalStep(s), OthersIdle(s), DirsStay,
         TypeOK', FunctionsType', Mine(s)',
         \/ Created(s)' = {}
         \/ pc[s] # "idle" /\ (Created(s)' \ Created(s)) \cap Dirs = {}
  PROVE  TreeInv'
<1>1. \A t \in Servers : Mine(t)'
  BY OthersKept
<1>2. OneAtATime'
  BY DEF OneAtATime, OthersIdle, LocalStep
<1>3. CreatedOnce'
  <2> SUFFICES ASSUME world' = "making", NEW t \in Servers, NEW u \in Servers, t # u,
                      pc'[t] # "idle", pc'[u] # "idle"
               PROVE  Created(t)' \cap Created(u)' = {}
    BY DEF CreatedOnce
  <2>0. world = "making"
    BY DEF LocalStep
  <2>1. \A r \in Servers \ {s} : Created(r)' = Created(r) /\ pc'[r] = pc[r]
    BY DEF LocalStep, Created
  <2>2. \A r \in Servers \ {s} : pc[r] # "idle" => Created(r) \subseteq Dirs
    BY <2>0 DEF TreeInv, Mine
  <2>3. \A r \in Servers \ {s} : pc[r] # "idle" => Created(s)' \cap Created(r) = {}
    <3> SUFFICES ASSUME NEW r \in Servers \ {s}, pc[r] # "idle"
                 PROVE  Created(s)' \cap Created(r) = {}
      OBVIOUS
    <3>1. pc[s] # "idle" => Created(s) \cap Created(r) = {}
      BY <2>0 DEF TreeInv, CreatedOnce
    <3> QED
      BY <2>2, <3>1
  <2>4. \A r, v \in Servers \ {s} : r # v /\ pc[r] # "idle" /\ pc[v] # "idle" =>
          Created(r) \cap Created(v) = {}
    BY <2>0 DEF TreeInv, CreatedOnce
  <2> QED
    BY <2>1, <2>3, <2>4
<1> QED
  BY <1>1, <1>2, <1>3 DEF TreeInv

Stages == {"idle", "done"} \cup Making \cup Deleting
Results == {"none", "ok", "exists", "not_found", "not_a_dir", "invalid_argument", "failed"}

\* The same for a step in the middle of a call.
LEMMA CallKeeps ==
  ASSUME TreeInv, NEW s \in Servers, pc[s] # "idle",
         world' = world, UNCHANGED <<op, target>>, TreeType', DirsStay,
         pc' \in [Servers -> Stages], result' \in [Servers -> Results],
         at' \in [Servers -> Nat], created' \in [Servers -> Seq(Paths)],
         at'[s] \in 1..Len(target[s]),
         \A t \in Servers \ {s} : /\ pc'[t] = pc[t] /\ result'[t] = result[t]
                                  /\ at'[t] = at[t] /\ created'[t] = created[t],
         (Created(s)' \ Created(s)) \cap Dirs = {},
         Mine(s)'
  PROVE  TreeInv'
<1>1. LocalStep(s)
  BY DEF LocalStep
<1>2. OthersIdle(s)
  BY DEF OthersIdle, TreeInv, OneAtATime
<1>3. \A t \in Servers : at'[t] \in 1..Len(target[t]) /\ created'[t] \in Seq(Paths)
  BY DEF TreeInv, TypeOK
<1>4. TypeOK' /\ FunctionsType'
  BY <1>3 DEF TreeInv, TypeOK, FunctionsType, TreeType, Stages, Making, Deleting, Results
<1> QED
  BY <1>1, <1>2, <1>4, StepKeeps

LEMMA KindStays ==
  ASSUME TreeInv, kind' = kind
  PROVE  TreeType' /\ DirsStay /\ Dirs' = Dirs
BY DEF TreeInv, TypeOK, TreeType, Rooted, IsDir, DirsStay, Dirs

LEMMA GotoEffect ==
  ASSUME TreeInv, NEW s \in Servers, NEW stage \in Stages, Goto(s, stage)
  PROVE  /\ pc' \in [Servers -> Stages] /\ result' \in [Servers -> Results]
         /\ world' = world /\ pc'[s] = stage /\ result' = result
         /\ \A t \in Servers \ {s} : pc'[t] = pc[t] /\ result'[t] = result[t]
BY DEF Goto, TreeInv, TypeOK, Stages, Making, Deleting, Results

LEMMA FinishEffect ==
  ASSUME TreeInv, NEW s \in Servers, NEW outcome \in Results, Finish(s, outcome)
  PROVE  /\ pc' \in [Servers -> Stages] /\ result' \in [Servers -> Results]
         /\ world' = world /\ pc'[s] = "done" /\ result'[s] = outcome
         /\ \A t \in Servers \ {s} : pc'[t] = pc[t] /\ result'[t] = result[t]
BY DEF Finish, TreeInv, TypeOK, Stages, Making, Deleting, Results

LEMMA NextPartEffect ==
  ASSUME TreeInv, NEW s \in Servers, NextPart(s)
  PROVE  /\ pc' \in [Servers -> Stages] /\ result' \in [Servers -> Results]
         /\ world' = world /\ at' \in [Servers -> Nat] /\ at'[s] \in 1..Len(target[s])
         /\ \/ pc'[s] = "done" /\ at[s] = Len(target[s])
            \/ pc'[s] = "lstat" /\ at'[s] = at[s] + 1
         /\ \A t \in Servers \ {s} :
              pc'[t] = pc[t] /\ result'[t] = result[t] /\ at'[t] = at[t]
<1>1. at[s] \in 1..Len(target[s]) /\ at \in [Servers -> Nat] /\ Len(target[s]) \in Nat
  BY PathType, TreeAssumption DEF TreeInv, TypeOK, FunctionsType
<1>2. CASE at[s] = Len(target[s])
  BY <1>1, <1>2, FinishEffect DEF NextPart, Results
<1>3. CASE at[s] # Len(target[s])
  <2>1. Goto(s, "lstat") /\ at' = [at EXCEPT ![s] = @ + 1]
    BY <1>3 DEF NextPart
  <2>2. "lstat" \in Stages
    BY DEF Stages, Making
  <2> QED
    BY <1>1, <1>3, <2>1, <2>2, GotoEffect
<1> QED
  BY <1>2, <1>3

LEMMA NoEntryType == \A q : NoEntry(q) \in {"not_a_dir", "not_found"}
BY DEF NoEntry

\* What a call may be sure of once it has finished with an error.
LEMMA FailedMine ==
  ASSUME TreeInv, NEW s \in Servers, pc[s] # "idle", NEW outcome \in Results, outcome # "ok",
         Finish(s, outcome), UNCHANGED <<kind, op, target, at, created>>
  PROVE  TreeInv'
<1>1. /\ pc' \in [Servers -> Stages] /\ result' \in [Servers -> Results]
      /\ world' = world /\ pc'[s] = "done" /\ result'[s] = outcome
      /\ \A t \in Servers \ {s} : pc'[t] = pc[t] /\ result'[t] = result[t]
  BY FinishEffect
<1>2. Mine(s)'
  <2>1. Mine(s)
    BY DEF TreeInv
  <2>2. Created(s)' = Created(s) /\ Dirs' = Dirs
    BY DEF Created, Dirs
  <2> QED
    BY <1>1, <2>1, <2>2 DEF Mine, Making, Deleting
<1>3. at \in [Servers -> Nat] /\ created \in [Servers -> Seq(Paths)] /\ at[s] \in 1..Len(target[s])
  BY DEF TreeInv, TypeOK, FunctionsType
<1>4. Created(s)' = Created(s)
  BY DEF Created
<1> QED
  BY <1>1, <1>2, <1>3, <1>4, KindStays, CallKeeps
-----------------------------------------------------------------------------
(* The steps of a call *)

\* Those that leave the tree as it is.
LEMMA LookKeeps ==
  ASSUME TreeInv, NEW s \in Servers, pc[s] # "idle",
         world' = world, UNCHANGED <<kind, op, target, created>>,
         pc' \in [Servers -> Stages], result' \in [Servers -> Results],
         at' \in [Servers -> Nat], at'[s] \in 1..Len(target[s]),
         \A t \in Servers \ {s} : pc'[t] = pc[t] /\ result'[t] = result[t] /\ at'[t] = at[t],
         Mine(s)'
  PROVE  TreeInv'
<1>1. created \in [Servers -> Seq(Paths)]
  BY DEF TreeInv, FunctionsType
<1>2. Created(s)' = Created(s)
  BY DEF Created
<1> QED
  BY <1>1, <1>2, KindStays, CallKeeps

LEMMA ServerType ==
  ASSUME TreeInv, NEW s \in Servers
  PROVE  /\ target[s] \in Paths /\ Len(target[s]) \in Nat \ {0}
         /\ at \in [Servers -> Nat] /\ created \in [Servers -> Seq(Paths)]
         /\ at[s] \in 1..Len(target[s]) /\ created[s] \in Seq(Paths)
         /\ Cur(s) \in Paths /\ Mine(s) /\ TreeType
<1>1. target[s] \in Paths /\ at[s] \in 1..Len(target[s])
  BY DEF TreeInv, TypeOK
<1>2. Len(target[s]) \in Nat \ {0}
  BY <1>1, PathType, TreeAssumption
<1>3. Cur(s) \in Paths
  BY <1>1, PrefixType DEF Cur
<1> QED
  BY <1>1, <1>2, <1>3 DEF TreeInv, TypeOK, FunctionsType, TreeType

LEMMA LstatStep == ASSUME TreeInv, NEW s \in Servers, Lstat(s) PROVE TreeInv'
<1>1. /\ pc[s] = "lstat" /\ UNCHANGED <<kind, op, target, created>>
      /\ target[s] \in Paths /\ Len(target[s]) \in Nat \ {0} /\ at \in [Servers -> Nat]
      /\ at[s] \in 1..Len(target[s]) /\ Mine(s) /\ Cur(s) \in Paths
  BY ServerType DEF Lstat
<1>2. CASE kind[Cur(s)] = "dir" /\ NextPart(s)
  <2>1. world \in {"alone", "making"} => MadeBefore(s, at[s] + 1)
    BY <1>1, <1>2 DEF Mine, Making, MadeBefore, Dirs, Cur
  <2>2. \A n : MadeBefore(s, n)' <=> MadeBefore(s, n)
    BY <1>1 DEF MadeBefore, Dirs
  <2>3. Created(s)' = Created(s) /\ Dirs' = Dirs
    BY <1>1 DEF Created, Dirs
  <2>4. Mine(s)'
    BY <1>1, <1>2, <2>1, <2>2, <2>3, NextPartEffect DEF Mine, Making, Deleting
  <2> QED
    BY <1>1, <1>2, <2>4, NextPartEffect, LookKeeps
<1>3. CASE Goto(s, "mkdir") /\ UNCHANGED at
  <2>1. "mkdir" \in Stages
    BY DEF Stages, Making
  <2>2. Mine(s)'
    BY <1>1, <1>3, <2>1, GotoEffect DEF Mine, Making, Deleting, MadeBefore, Dirs, Created
  <2> QED
    BY <1>1, <1>3, <2>1, <2>2, GotoEffect, LookKeeps
<1>4. ASSUME NEW outcome \in {"not_a_dir", "failed"}, Finish(s, outcome), UNCHANGED at
      PROVE  TreeInv'
  BY <1>1, <1>4, FailedMine DEF Results
<1> QED
  BY <1>2, <1>3, <1>4 DEF Lstat

LEMMA MkdirStepKeeps == ASSUME TreeInv, NEW s \in Servers, Mkdir(s) PROVE TreeInv'
<1>1. /\ pc[s] = "mkdir" /\ UNCHANGED <<op, target>>
      /\ target[s] \in Paths /\ Len(target[s]) \in Nat \ {0} /\ at \in [Servers -> Nat]
      /\ created \in [Servers -> Seq(Paths)] /\ created[s] \in Seq(Paths)
      /\ at[s] \in 1..Len(target[s]) /\ Mine(s) /\ Cur(s) \in Paths /\ TreeType
  BY ServerType DEF Mkdir
<1>2. CASE /\ kind[Cur(s)] = "none" /\ IsDir(Parent(Cur(s)))
           /\ kind' = [kind EXCEPT ![Cur(s)] = "dir"]
           /\ created' = [created EXCEPT ![s] = Append(@, Cur(s))]
           /\ NextPart(s)
  <2>1. TreeType'
    BY <1>1, <1>2, MakesKeeps DEF Makes
  <2>2. Dirs' = Dirs \cup {Cur(s)} /\ Cur(s) \notin Dirs
    BY <1>1, <1>2 DEF Dirs, TreeType
  <2>3. created'[s] = Append(created[s], Cur(s)) /\ created' \in [Servers -> Seq(Paths)]
    BY <1>1, <1>2, AppendProperties
  <2>4. Created(s)' \subseteq Created(s) \cup {Cur(s)}
    <3>1. Len(created[s]) \in Nat /\ Len(created'[s]) = Len(created[s]) + 1
      BY <1>1, <2>3, AppendProperties, LenProperties
    <3>2. \A i \in 1..Len(created'[s]) :
            IF i <= Len(created[s]) THEN created'[s][i] = created[s][i] ELSE created'[s][i] = Cur(s)
      BY <1>1, <2>3, <3>1, AppendProperties
    <3> QED
      BY <3>1, <3>2 DEF Created
  <2>5. world \in {"alone", "making"} => \A i \in 1..at[s] : SubSeq(target[s], 1, i) \in Dirs'
    BY <1>1, <2>2 DEF Mine, Making, MadeBefore, Cur
  <2>6. Mine(s)'
    <3>1. world = "making" => op[s] = "mkdir" /\ Created(s)' \subseteq Dirs'
      BY <1>1, <2>2, <2>4 DEF Mine, Making
    <3>2. op[s] = "mkdir"
      BY <1>1 DEF Mine, Making
    <3>3. world \in {"alone", "making"} =>
            /\ pc'[s] \in Making => MadeBefore(s, at[s])'
            /\ pc'[s] = "done" => MadeBefore(s, Len(target[s]) + 1)'
      BY <1>1, <1>2, <2>5, NextPartEffect DEF Making, MadeBefore
    <3> QED
      BY <1>1, <1>2, <3>1, <3>2, <3>3, NextPartEffect DEF Mine, Making, Deleting
  <2>7. DirsStay
    BY <2>2 DEF DirsStay
  <2>8. (Created(s)' \ Created(s)) \cap Dirs = {}
    BY <2>2, <2>4
  <2>9. \A t \in Servers \ {s} : created'[t] = created[t]
    BY <1>1, <1>2
  <2> QED
    BY <1>1, <1>2, <2>1, <2>3, <2>6, <2>7, <2>8, <2>9, NextPartEffect, CallKeeps
<1>3. CASE /\ \/ kind[Cur(s)] # "none" /\ Finish(s, "exists")
              \/ kind[Cur(s)] = "none" /\ ~IsDir(Parent(Cur(s))) /\ Finish(s, NoEntry(Cur(s)))
              \/ IOFaults /\ Finish(s, "failed")
           /\ UNCHANGED <<kind, at, created>>
  BY <1>1, <1>3, NoEntryType, FailedMine DEF Results
<1> QED
  BY <1>2, <1>3 DEF Mkdir

LEMMA DeleteLstatStep == ASSUME TreeInv, NEW s \in Servers, DeleteLstat(s) PROVE TreeInv'
<1>1. /\ pc[s] = "deleteLstat" /\ UNCHANGED <<kind, op, target, at, created>>
      /\ at \in [Servers -> Nat] /\ at[s] \in 1..Len(target[s]) /\ Mine(s)
  BY ServerType DEF DeleteLstat, call
<1>2. ASSUME NEW stage \in {"remove", "removeAll", "readDir"}, Goto(s, stage),
             stage = "removeAll" => op[s] = "recursive"
      PROVE  TreeInv'
  <2>1. stage \in Stages
    BY DEF Stages, Deleting
  <2>2. Created(s)' = Created(s) /\ Dirs' = Dirs
    BY <1>1 DEF Created, Dirs
  <2>3. Mine(s)'
    BY <1>1, <1>2, <2>1, <2>2, GotoEffect DEF Mine, Making, Deleting
  <2> QED
    BY <1>1, <1>2, <2>1, <2>3, GotoEffect, LookKeeps
<1>3. ASSUME NEW outcome \in Results, outcome # "ok", Finish(s, outcome)
      PROVE  TreeInv'
  BY <1>1, <1>3, FailedMine
<1> QED
  BY <1>1, <1>2, <1>3, NoEntryType DEF DeleteLstat, Results

LEMMA ReadDirStep == ASSUME TreeInv, NEW s \in Servers, ReadDir(s) PROVE TreeInv'
<1>1. /\ pc[s] = "readDir" /\ UNCHANGED <<kind, op, target, at, created>>
      /\ at \in [Servers -> Nat] /\ at[s] \in 1..Len(target[s]) /\ Mine(s)
  BY ServerType DEF ReadDir, call
<1>2. CASE Empty(target[s]) /\ Goto(s, "removeAll")
  <2>1. "removeAll" \in Stages
    BY DEF Stages, Deleting
  <2>2. Created(s)' = Created(s) /\ Dirs' = Dirs /\ Empty(target[s])'
    BY <1>1, <1>2 DEF Created, Dirs, Empty
  <2>3. Mine(s)'
    BY <1>1, <1>2, <2>1, <2>2, GotoEffect DEF Mine, Making, Deleting
  <2> QED
    BY <1>1, <1>2, <2>1, <2>3, GotoEffect, LookKeeps
<1>3. ASSUME NEW outcome \in Results, outcome # "ok", Finish(s, outcome)
      PROVE  TreeInv'
  BY <1>1, <1>3, FailedMine
<1> QED
  BY <1>1, <1>2, <1>3, NoEntryType DEF ReadDir, Results

\* An entry removed by s, which may be the end of its call.
LEMMA RemoveKeeps ==
  ASSUME TreeInv, NEW s \in Servers, pc[s] \in Deleting, NEW p \in Paths, Removes(p),
         UNCHANGED call,
         \/ p = target[s] /\ Finish(s, "ok")
         \/ UNCHANGED <<world, pc, result>>
  PROVE  TreeInv'
<1>1. /\ UNCHANGED <<op, target, at, created>> /\ Mine(s) /\ TreeType
      /\ at \in [Servers -> Nat] /\ created \in [Servers -> Seq(Paths)]
      /\ at[s] \in 1..Len(target[s]) /\ op[s] # "mkdir" /\ world # "making" /\ pc[s] # "idle"
  BY ServerType DEF call, Mine, Deleting
<1>2. TreeType' /\ DirsStay
  BY <1>1, RemovesKeeps DEF DirsStay
<1>3. \A q : Empty(q) => Empty(q)'
  BY <1>1 DEF Empty, Removes, TreeType
<1>4. Created(s)' = Created(s)
  BY <1>1 DEF Created
<1>5. CASE p = target[s] /\ Finish(s, "ok")
  <2>1. "ok" \in Results
    BY DEF Results
  <2>2. kind'[target[s]] = "none"
    BY <1>1, <1>5 DEF Removes, TreeType
  <2>3. Mine(s)'
    BY <1>1, <1>5, <2>1, <2>2, FinishEffect DEF Mine, Making, Deleting
  <2> QED
    BY <1>1, <1>2, <1>4, <1>5, <2>1, <2>3, FinishEffect, CallKeeps
<1>6. CASE UNCHANGED <<world, pc, result>>
  <2>1. pc \in [Servers -> Stages] /\ result \in [Servers -> Results]
    BY DEF TreeInv, TypeOK, Stages, Making, Deleting, Results
  <2>2. Mine(s)'
    BY <1>1, <1>3, <1>6 DEF Mine, Making, Deleting
  <2> QED
    BY <1>1, <1>2, <1>4, <1>6, <2>1, <2>2, CallKeeps
<1> QED
  BY <1>5, <1>6

LEMMA RemoveStep == ASSUME TreeInv, NEW s \in Servers, Remove(s) PROVE TreeInv'
<1>1. pc[s] = "remove" /\ UNCHANGED call /\ target[s] \in Paths
  BY ServerType DEF Remove
<1>2. CASE Removes(target[s]) /\ Finish(s, "ok")
  BY <1>1, <1>2, RemoveKeeps DEF Deleting
<1>3. ASSUME NEW outcome \in Results, outcome # "ok", Finish(s, outcome), UNCHANGED kind
      PROVE  TreeInv'
  BY <1>1, <1>3, FailedMine DEF call
<1> QED
  BY <1>2, <1>3, NoEntryType DEF Remove, Removes, Results

LEMMA RemoveAllStep == ASSUME TreeInv, NEW s \in Servers, RemoveAll(s) PROVE TreeInv'
<1>1. /\ pc[s] = "removeAll" /\ UNCHANGED call
      /\ at \in [Servers -> Nat] /\ at[s] \in 1..Len(target[s]) /\ Mine(s)
  BY ServerType DEF RemoveAll
<1>2. ASSUME NEW p \in Paths, Removes(p), UNCHANGED <<world, pc, result>>
      PROVE  TreeInv'
  BY <1>1, <1>2, RemoveKeeps DEF Deleting
<1>3. CASE kind[target[s]] = "none" /\ Finish(s, "ok") /\ UNCHANGED kind
  <2>1. "ok" \in Results
    BY DEF Results
  <2>2. Created(s)' = Created(s) /\ Dirs' = Dirs
    BY <1>1, <1>3 DEF Created, Dirs, call
  <2>3. Mine(s)'
    BY <1>1, <1>3, <2>1, <2>2, FinishEffect DEF Mine, Making, Deleting, call
  <2> QED
    BY <1>1, <1>3, <2>1, <2>3, FinishEffect, LookKeeps DEF call
<1>4. CASE Finish(s, "failed") /\ UNCHANGED kind
  BY <1>1, <1>4, FailedMine DEF Results, call
<1> QED
  BY <1>2, <1>3, <1>4 DEF RemoveAll, Removes

LEMMA ReplyStep == ASSUME TreeInv, NEW s \in Servers, Reply(s) PROVE TreeInv'
<1>1. /\ UNCHANGED <<world, kind, op, target, at, created>> /\ pc[s] = "done"
      /\ at \in [Servers -> Nat] /\ at[s] \in 1..Len(target[s])
  BY ServerType DEF Reply, call
<1>2. /\ pc' \in [Servers -> Stages] /\ result' \in [Servers -> Results] /\ pc'[s] = "idle"
      /\ \A t \in Servers \ {s} : pc'[t] = pc[t] /\ result'[t] = result[t]
  BY DEF Reply, TreeInv, TypeOK, Stages, Making, Deleting, Results
<1>3. Mine(s)'
  BY <1>2 DEF Mine, Making, Deleting
<1> QED
  BY <1>1, <1>2, <1>3, LookKeeps

LEMMA CallStep ==
  ASSUME TreeInv, NEW s \in Servers, NEW o \in {"mkdir", "delete", "recursive"},
         NEW p \in Paths, Call(s, o, p)
  PROVE  TreeInv'
<1> DEFINE stage == IF o = "mkdir" THEN "lstat" ELSE "deleteLstat"
<1>1. stage \in Stages /\ Goto(s, stage)
  BY DEF Call, Stages, Making, Deleting
<1>2. /\ op' \in [Servers -> {"mkdir", "delete", "recursive"}] /\ op'[s] = o
      /\ target' \in [Servers -> Paths] /\ target'[s] = p
      /\ at' \in [Servers -> Nat] /\ at'[s] = 1
      /\ created' \in [Servers -> Seq(Paths)] /\ created'[s] = <<>>
      /\ \A t \in Servers \ {s} : /\ op'[t] = op[t] /\ target'[t] = target[t]
                                  /\ at'[t] = at[t] /\ created'[t] = created[t]
  BY EmptySeq DEF Call, TreeInv, TypeOK, FunctionsType
<1>3. LocalStep(s)
  BY <1>1, <1>2, GotoEffect DEF LocalStep
<1>4. OthersIdle(s)
  BY DEF Call, OthersIdle
<1>5. kind' = kind
  BY DEF Call
<1>6. \A t \in Servers : at'[t] \in 1..Len(target'[t]) /\ created'[t] \in Seq(Paths)
  <2>1. Len(p) \in Nat \ {0}
    BY PathType, TreeAssumption
  <2>2. \A t \in Servers : at[t] \in 1..Len(target[t])
    BY DEF TreeInv, TypeOK
  <2>3. at'[s] \in 1..Len(target'[s])
    BY <1>2, <2>1
  <2>4. \A t \in Servers \ {s} : at'[t] \in 1..Len(target'[t])
    BY <1>2, <2>2
  <2> QED
    BY <1>2, <2>3, <2>4
<1>7. TypeOK' /\ FunctionsType'
  BY <1>1, <1>2, <1>5, <1>6, GotoEffect, KindStays
     DEF TreeInv, TypeOK, FunctionsType, TreeType, Stages, Making, Deleting, Results
<1>8. Created(s)' = {}
  BY <1>2, EmptySeq DEF Created
<1>9. Mine(s)'
  <2>1. MadeBefore(s, at[s])'
    BY <1>2 DEF MadeBefore
  <2>2. world = "making" => o = "mkdir"
    BY DEF Call
  <2> QED
    BY <1>1, <1>2, <1>8, <2>1, <2>2, GotoEffect DEF Mine, Making, Deleting
<1> QED
  BY <1>3, <1>4, <1>5, <1>7, <1>8, <1>9, KindStays, StepKeeps

LEMMA ExternalStep == ASSUME TreeInv, NEW p \in Paths, External(p) PROVE TreeInv'
<1>1. world = "shared" /\ UNCHANGED <<world, pc, op, target, at, created, result>>
  BY DEF External, call
<1>2. TreeType
  BY DEF TreeInv, TypeOK, TreeType
<1>3. (\E k \in {"dir", "file"} : Makes(p, k)) \/ Removes(p)
  BY DEF External, Makes, Removes
<1>4. TreeType'
  BY <1>2, <1>3, MakesKeeps, RemovesKeeps
<1>5. TypeOK' /\ FunctionsType'
  BY <1>1, <1>4 DEF TreeInv, TypeOK, FunctionsType, TreeType
<1>6. \A s \in Servers : Mine(s)'
  BY <1>1 DEF TreeInv, Mine
<1> QED
  BY <1>1, <1>5, <1>6 DEF TreeInv, OneAtATime, CreatedOnce

LEMMA TreeInit == Init => TreeInv
<1> SUFFICES ASSUME Init PROVE TreeInv
  OBVIOUS
<1>1. \E p \in Paths : TRUE
  <2>1. PICK n \in Names : TRUE
    BY TreeAssumption
  <2>2. [i \in 1..1 |-> n] \in [1..1 -> Names] /\ 1 \in 1..Depth
    BY TreeAssumption
  <2> QED
    BY <2>2 DEF Paths
<1>2. \A s \in Servers : target[s] \in Paths
  BY <1>1 DEF Init
<1>3. \A s \in Servers : at[s] \in 1..Len(target[s]) /\ created[s] \in Seq(Paths)
  BY <1>2, PathType, EmptySeq DEF Init
<1>4. target \in [Servers -> Paths]
  BY <1>1 DEF Init
<1>5. TypeOK /\ FunctionsType
  BY <1>3, <1>4, WorldsAssumption, EmptySeq DEF Init, TypeOK, FunctionsType
<1>6. \A s \in Servers : Mine(s)
  BY DEF Init, Mine, Making, Deleting
<1> QED
  BY <1>5, <1>6 DEF Init, TreeInv, OneAtATime, CreatedOnce

LEMMA TreeStep == TreeInv /\ [Next]_vars => TreeInv'
<1> SUFFICES ASSUME TreeInv, [Next]_vars PROVE TreeInv'
  OBVIOUS
<1>1. CASE UNCHANGED vars
  <2>1. UNCHANGED <<world, kind, pc, op, target, at, created, result>>
    BY <1>1 DEF vars, call
  <2>2. /\ TypeOK' <=> TypeOK
        /\ FunctionsType' <=> FunctionsType
        /\ OneAtATime' <=> OneAtATime
        /\ CreatedOnce' <=> CreatedOnce
    BY <2>1 DEF TypeOK, Rooted, IsDir, FunctionsType, OneAtATime, CreatedOnce, Created
  <2>3. \A s \in Servers : Mine(s)' <=> Mine(s)
    <3> SUFFICES ASSUME NEW s \in Servers PROVE Mine(s)' <=> Mine(s)
      OBVIOUS
    <3>1. /\ Created(s)' = Created(s) /\ Dirs' = Dirs
          /\ \A n : MadeBefore(s, n)' <=> MadeBefore(s, n)
          /\ Empty(target[s])' <=> Empty(target[s])
      BY <2>1 DEF Created, Dirs, MadeBefore, Empty
    <3> QED
      BY <2>1, <3>1 DEF Mine
  <2> QED
    BY <2>2, <2>3 DEF TreeInv
<1>2. ASSUME NEW s \in Servers,
             \/ \E o \in {"mkdir", "delete", "recursive"}, p \in Paths : Call(s, o, p)
             \/ MkdirStep(s) \/ DeleteStep(s) \/ Reply(s)
      PROVE  TreeInv'
  BY <1>2, CallStep, LstatStep, MkdirStepKeeps, DeleteLstatStep, ReadDirStep, RemoveStep,
     RemoveAllStep, ReplyStep DEF MkdirStep, DeleteStep
<1> QED
  BY <1>1, <1>2, ExternalStep DEF Next
-----------------------------------------------------------------------------
(* The theorems *)

\* The inductive invariant holds.
THEOREM TreeInvariance == Spec => []TreeInv
<1> QED
  BY TreeInit, TreeStep, PTL DEF Spec

\* The variables of Tree keep their types, and no entry is left without a directory
\* above it by any call, part of a call, or other program.
THEOREM TreeTypeCorrect == Spec => []TypeOK
<1>1. TreeInv => TypeOK
  BY DEF TreeInv
<1> QED
  BY <1>1, TreeInvariance, PTL

\* mkdirAll: while nothing is deleted, no two calls report one directory as created,
\* for any number of servers and paths of any depth.
THEOREM NoDirectoryClaimedTwice == Spec => []CreatedOnce
<1>1. TreeInv => CreatedOnce
  BY DEF TreeInv
<1> QED
  BY <1>1, TreeInvariance, PTL

\* An "ok" of fs_mkdir means that every component is there, and one of fs_delete that
\* the entry is gone with everything below it.
THEOREM OkIsDone == Spec => []OkMeansDone
<1>1. TreeInv => OkMeansDone
  <2> SUFFICES ASSUME TreeInv, NEW s \in Servers, pc[s] = "done", result[s] = "ok"
               PROVE  IF op[s] = "mkdir"
                      THEN world \in {"alone", "making"} =>
                             \A n \in 1..Len(target[s]) : IsDir(SubSeq(target[s], 1, n))
                      ELSE world = "alone" =>
                             \A p \in Paths : p = target[s] \/ Below(p, target[s]) => kind[p] = "none"
    BY DEF OkMeansDone
  <2>1. Mine(s) /\ target[s] \in Paths /\ Len(target[s]) \in Nat \ {0} /\ TreeType
    BY ServerType
  <2>2. CASE op[s] = "mkdir"
    BY <2>1, <2>2 DEF Mine, MadeBefore, Dirs, IsDir
  <2>3. CASE op[s] # "mkdir"
    BY <2>1, <2>3, NothingBelowNone DEF Mine
  <2> QED
    BY <2>2, <2>3
<1> QED
  BY <1>1, TreeInvariance, PTL

\* fs_delete without recursive removes what it names and nothing else, on a tree
\* nobody else changes.
THEOREM DeletesWhatIsNamed == Spec => DeletedAsAskedAlone
<1>1. TreeInv /\ [Next]_vars => [world = "alone" => RemovesAsAsked]_vars
  <2> SUFFICES ASSUME TreeInv, world = "alone", NEW s \in Servers, DeleteStep(s),
                      NEW p \in Paths, kind[p] # "none", kind'[p] = "none"
               PROVE  p = target[s] \/ (op[s] = "recursive" /\ Below(p, target[s]))
    BY DEF RemovesAsAsked
  <2>1. Mine(s) /\ target[s] \in Paths /\ TreeType /\ op[s] \in {"mkdir", "delete", "recursive"}
    BY ServerType DEF TreeInv, TypeOK
  <2>2. CASE Remove(s)
    BY <2>1, <2>2 DEF Remove, TreeType
  <2>3. CASE RemoveAll(s)
    <3>1. pc[s] = "removeAll"
      BY <2>3 DEF RemoveAll
    <3>2. p = target[s] \/ Below(p, target[s])
      BY <2>1, <2>3 DEF RemoveAll, TreeType
    <3>3. op[s] = "recursive" \/ Empty(target[s])
      BY <2>1, <3>1 DEF Mine, Deleting
    <3> QED
      BY <2>1, <3>2, <3>3, NothingBelowEmpty
  <2>4. CASE DeleteLstat(s) \/ ReadDir(s)
    BY <2>4 DEF DeleteLstat, ReadDir
  <2> QED
    BY <2>2, <2>3, <2>4 DEF DeleteStep
<1> QED
  BY <1>1, TreeInvariance, PTL DEF Spec, DeletedAsAskedAlone
=============================================================================
