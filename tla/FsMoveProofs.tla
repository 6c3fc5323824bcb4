---------------------------- MODULE FsMoveProofs ----------------------------
(***************************************************************************)
(* What fs_move guarantees for any number of servers, names and inodes,    *)
(* with other programs at work: it replaces only what it never looked at.  *)
(* The invariant that carries it is what handleMove knows when it renames: *)
(* the destination was absent, or was the source's own inode.  Alone in    *)
(* the directory it knows more, and a move destroys nothing at all.        *)
(***************************************************************************)
EXTENDS FsMove, TLAPS

MoveInv ==
  /\ TypeOK
  /\ \A s \in Servers : pc[s] = "rename" => met[s] \in {NoInode, found[s]}

LEMMA FoldLemma == \A n \in Names : Fold(n) \in Keys
BY FoldAssumption DEF Keys

LEMMA MoveInit == Init => MoveInv
<1> SUFFICES ASSUME Init PROVE MoveInv
  OBVIOUS
<1>1. \A k \in Keys : k \in Names
  BY FoldAssumption DEF Keys
<1>2. spelling \in [Keys -> Names]
  BY <1>1 DEF Init
<1>3. src \in [Servers -> Names]
  BY NamesAssumption DEF Init
<1>4. shared \in BOOLEAN
  BY Zenon, SwitchesAssumption DEF Init
<1> QED
  BY <1>2, <1>3, <1>4 DEF Init, MoveInv, TypeOK, Stages, Results

LEMMA CallStep ==
  ASSUME MoveInv, NEW s \in Servers, NEW from \in Names, NEW to \in Names, Call(s, from, to)
  PROVE  MoveInv'
<1>1. TypeOK'
  BY DEF MoveInv, TypeOK, Call, Goto, directory, Stages
<1> QED
  BY <1>1 DEF MoveInv, TypeOK, Call, Goto, directory

LEMMA LstatSourceStep ==
  ASSUME MoveInv, NEW s \in Servers, LstatSource(s)
  PROVE  MoveInv'
<1>1. At(src[s]) \in Inodes \cup {NoInode}
  BY FoldLemma DEF MoveInv, TypeOK, At
<1>2. TypeOK'
  <2>1. found' \in [Servers -> Inodes \cup {NoInode}]
    BY <1>1 DEF MoveInv, TypeOK, LstatSource, Looked
  <2>2. pc' \in [Servers -> Stages] /\ result' \in [Servers -> Results]
    BY DEF MoveInv, TypeOK, LstatSource, Goto, Finish, Stages, Results
  <2> QED
    BY <2>1, <2>2 DEF MoveInv, TypeOK, LstatSource, Goto, Finish, directory
<1>3. pc'[s] # "rename"
  BY DEF MoveInv, TypeOK, LstatSource, Looked, Goto, Finish
<1>4. \A o \in Servers \ {s} : pc'[o] = pc[o] /\ found'[o] = found[o] /\ met'[o] = met[o]
  BY DEF MoveInv, TypeOK, LstatSource, Looked, Goto, Finish
<1> QED
  BY <1>2, <1>3, <1>4 DEF MoveInv

LEMMA LstatDestinationStep ==
  ASSUME MoveInv, NEW s \in Servers, LstatDestination(s)
  PROVE  MoveInv'
<1>1. At(dst[s]) \in Inodes \cup {NoInode}
  BY FoldLemma DEF MoveInv, TypeOK, At
<1>2. TypeOK'
  BY <1>1 DEF MoveInv, TypeOK, LstatDestination, Goto, Finish, directory, Stages, Results
<1>3. pc'[s] = "rename" => met'[s] \in {NoInode, found'[s]}
  BY DEF MoveInv, TypeOK, LstatDestination, Goto, Finish, Exists, SameEntry
<1>4. \A o \in Servers \ {s} : pc'[o] = pc[o] /\ found'[o] = found[o] /\ met'[o] = met[o]
  BY DEF MoveInv, TypeOK, LstatDestination, Goto, Finish
<1> QED
  BY <1>2, <1>3, <1>4 DEF MoveInv

LEMMA RenameStep ==
  ASSUME MoveInv, NEW s \in Servers, Rename(s)
  PROVE  MoveInv'
<1>1. node' \in [Keys -> Inodes \cup {NoInode}] /\ spelling' \in [Keys -> Names]
  BY FoldLemma DEF MoveInv, TypeOK, Rename, RenameEntry, directory
<1>2. TypeOK'
  BY <1>1 DEF MoveInv, TypeOK, Rename, Finish, call, Stages, Results
<1> QED
  BY <1>2 DEF MoveInv, TypeOK, Rename, Finish, call

LEMMA ReplyStep ==
  ASSUME MoveInv, NEW s \in Servers, Reply(s)
  PROVE  MoveInv'
<1>1. TypeOK'
  BY DEF MoveInv, TypeOK, Reply, directory, Stages, Results
<1> QED
  BY <1>1 DEF MoveInv, TypeOK, Reply

LEMMA ExternalStep ==
  ASSUME MoveInv, NEW n \in Names, External(n)
  PROVE  MoveInv'
<1>1. node' \in [Keys -> Inodes \cup {NoInode}] /\ spelling' \in [Keys -> Names]
  BY FoldLemma DEF MoveInv, TypeOK, External
<1> QED
  BY <1>1 DEF MoveInv, TypeOK, External, call

LEMMA MoveNext == MoveInv /\ [Next]_vars => MoveInv'
<1> SUFFICES ASSUME MoveInv, [Next]_vars PROVE MoveInv'
  OBVIOUS
<1>1. CASE UNCHANGED vars
  BY <1>1 DEF MoveInv, TypeOK, vars, directory, call
<1> QED
  BY <1>1, CallStep, LstatSourceStep, LstatDestinationStep, RenameStep, ReplyStep,
     ExternalStep DEF Next, Step

\* The variables of FsMove keep their types.
THEOREM MoveTypeCorrect == Spec => []TypeOK
<1>1. MoveInv => TypeOK
  BY DEF MoveInv
<1> QED
  BY <1>1, MoveInit, MoveNext, PTL DEF Spec

-----------------------------------------------------------------------------
(* What a step of a move destroys. *)

\* A step that takes an inode's last name is a rename of something whose source or
\* destination is not what the Lstats reported.
LEMMA DestroysLemma ==
  ASSUME MoveInv, NEW s \in Servers, Step(s), NEW i \in Inodes, Named(i), ~Named(i)'
  PROVE  pc[s] = "rename" /\ (At(dst[s]) # met[s] \/ At(src[s]) # found[s])
<1>1. i # NoInode /\ node' # node
  BY InodeAssumption DEF Named
<1>2. Rename(s) /\ Exists(src[s]) /\ RenameEntry(src[s], dst[s])
  BY <1>1 DEF Step, LstatSource, LstatDestination, Rename, Reply, directory
<1>3. SUFFICES ASSUME At(dst[s]) = met[s], At(src[s]) = found[s] PROVE FALSE
  BY <1>2 DEF Rename
<1> DEFINE f == Fold(src[s])
           t == Fold(dst[s])
<1>4. f \in Keys /\ t \in Keys
  BY FoldLemma DEF MoveInv, TypeOK
<1>5. /\ node' = [k \in Keys |-> IF k = t THEN node[f]
                                 ELSE IF k = f THEN NoInode ELSE node[k]]
      /\ ~(f # t /\ node[f] = node[t])
  BY <1>1, <1>2 DEF RenameEntry, directory
<1>6. node[t] \in {NoInode, node[f]}
  BY <1>2, <1>3 DEF MoveInv, Rename, At
<1>7. PICK k \in Keys : node[k] = i
  BY DEF Named
<1>8. k = t => node'[t] = i
  BY <1>1, <1>4, <1>5, <1>6, <1>7
<1>9. k = f => node'[t] = i
  BY <1>4, <1>5, <1>7
<1>10. k # t /\ k # f => node'[k] = i
  BY <1>5, <1>7
<1> QED
  BY <1>4, <1>7, <1>8, <1>9, <1>10 DEF Named

\* A move's rename takes the last name from an inode only if the source or the
\* destination changed after handleMove looked at it.
THEOREM MoveDestroysOnlyIfRaced == Spec => DestroysOnlyIfRaced
<1> DEFINE Safe(s) ==
      Step(s) => \A i \in Inodes : Named(i) /\ ~Named(i)' =>
                   At(dst[s]) # met[s] \/ At(src[s]) # found[s]
<1>1. MoveInv /\ [Next]_vars => [\A s \in Servers : Safe(s)]_vars
  BY DestroysLemma
<1> QED
  BY <1>1, MoveInit, MoveNext, PTL DEF Spec, DestroysOnlyIfRaced
-----------------------------------------------------------------------------
(* A directory nobody else changes: one move at a time, and what it knows is *)
(* still so when it acts.                                                    *)

Busy(s) == pc[s] # "idle"

\* What server s knows at each of its system calls, and what its answer says.
Knows(s) ==
  /\ pc[s] # "done" => result[s] = "none"
  /\ pc[s] \in {"lstatSource", "lstatDestination", "rename"} => node = before[s]
  /\ pc[s] \in {"lstatDestination", "rename"} => found[s] = At(src[s])
  /\ pc[s] = "rename" => met[s] = At(dst[s])
  /\ pc[s] = "done" /\ result[s] # "ok" => node = before[s]
  /\ pc[s] = "done" /\ result[s] \in {"exists", "invalid_argument"} =>
       (Fold(src[s]) = Fold(dst[s]) => src[s] = dst[s])
  /\ pc[s] = "done" /\ result[s] = "ok" =>
       ((\A k \in Keys : before[s][k] = found[s] => k = Fold(src[s])) => MovedAsAsked(s))

AloneInv ==
  /\ MoveInv
  /\ ~shared => /\ \A s, o \in Servers : Busy(s) /\ Busy(o) => s = o
                /\ \A s \in Servers : Knows(s)

LEMMA AloneInit == Init => AloneInv
BY MoveInit DEF Init, AloneInv, Busy, Knows

\* A step of s is a step of nobody else, and what it leaves alone the others keep.
\* Nobody else is under way, so there is nothing they know of the directory.
LEMMA AloneFrame ==
  ASSUME AloneInv, ~shared, NEW s \in Servers,
         \A o \in Servers \ {s} : pc[o] = "idle",
         \A o \in Servers \ {s} : pc'[o] = pc[o] /\ result'[o] = result[o]
  PROVE  /\ \A a, o \in Servers : Busy(a)' /\ Busy(o)' => a = o
         /\ \A o \in Servers \ {s} : Knows(o)'
BY DEF AloneInv, Busy, Knows

LEMMA AloneCall ==
  ASSUME AloneInv, ~shared, NEW s \in Servers, NEW from \in Names, NEW to \in Names,
         Call(s, from, to)
  PROVE  AloneInv'
<1>1. MoveInv'
  BY CallStep DEF AloneInv
<1>2. /\ \A o \in Servers \ {s} : pc[o] = "idle"
      /\ \A o \in Servers \ {s} : pc'[o] = pc[o] /\ result'[o] = result[o]
  BY DEF Call, Goto, AloneInv, MoveInv, TypeOK
<1>3. pc'[s] = "lstatSource" /\ before'[s] = node /\ node' = node /\ result'[s] = result[s]
      /\ pc[s] = "idle"
  BY DEF Call, Goto, directory, AloneInv, MoveInv, TypeOK
<1>4. Knows(s)'
  BY <1>3 DEF Knows, AloneInv
<1> QED
  BY <1>1, <1>2, <1>4, AloneFrame DEF AloneInv

\* Alone, the other servers are idle while s takes a step.
LEMMA OthersIdle ==
  ASSUME AloneInv, ~shared, NEW s \in Servers, pc[s] # "idle"
  PROVE  \A o \in Servers \ {s} : pc[o] = "idle"
BY DEF AloneInv, Busy

LEMMA AloneLstatSource ==
  ASSUME AloneInv, ~shared, NEW s \in Servers, LstatSource(s)
  PROVE  AloneInv'
<1>1. MoveInv'
  BY LstatSourceStep DEF AloneInv
<1>2. /\ \A o \in Servers \ {s} : pc[o] = "idle"
      /\ \A o \in Servers \ {s} : pc'[o] = pc[o] /\ result'[o] = result[o]
  BY OthersIdle DEF LstatSource, Goto, Finish, AloneInv, MoveInv, TypeOK
<1>3. /\ node' = node /\ before' = before /\ src' = src /\ dst' = dst
      /\ node = before[s] /\ result[s] = "none"
  BY DEF LstatSource, directory, AloneInv, MoveInv, TypeOK, Knows
<1>4. \/ pc'[s] = "done" /\ result'[s] \in {"not_found", "failed"}
      \/ pc'[s] = "done" /\ result'[s] = "invalid_argument" /\ src[s] = dst[s]
      \/ pc'[s] = "lstatDestination" /\ result'[s] = result[s] /\ found'[s] = At(src[s])
  BY DEF LstatSource, Looked, Goto, Finish, AloneInv, MoveInv, TypeOK
<1>5. Knows(s)'
  BY <1>3, <1>4 DEF Knows, At
<1> QED
  BY <1>1, <1>2, <1>5, AloneFrame DEF AloneInv

LEMMA AloneLstatDestination ==
  ASSUME AloneInv, ~shared, NEW s \in Servers, LstatDestination(s)
  PROVE  AloneInv'
<1>1. MoveInv'
  BY LstatDestinationStep DEF AloneInv
<1>2. /\ \A o \in Servers \ {s} : pc[o] = "idle"
      /\ \A o \in Servers \ {s} : pc'[o] = pc[o] /\ result'[o] = result[o]
  BY OthersIdle DEF LstatDestination, Goto, Finish, AloneInv, MoveInv, TypeOK
<1>3. /\ node' = node /\ before' = before /\ src' = src /\ dst' = dst /\ found' = found
      /\ node = before[s] /\ result[s] = "none"
      /\ found[s] = At(src[s])
  BY DEF LstatDestination, directory, AloneInv, MoveInv, TypeOK, Knows
<1>4. \/ pc'[s] = "done" /\ result'[s] = "exists" /\ At(dst[s]) # found[s]
      \/ pc'[s] = "rename" /\ result'[s] = result[s] /\ met'[s] = At(dst[s])
      \/ pc'[s] = "done" /\ result'[s] = "failed"
  BY DEF LstatDestination, SameEntry, Goto, Finish, AloneInv, MoveInv, TypeOK
<1>5. Knows(s)'
  BY <1>3, <1>4 DEF Knows, At
<1> QED
  BY <1>1, <1>2, <1>5, AloneFrame DEF AloneInv

LEMMA AloneRename ==
  ASSUME AloneInv, ~shared, NEW s \in Servers, Rename(s)
  PROVE  AloneInv'
<1>1. MoveInv'
  BY RenameStep DEF AloneInv
<1>2. /\ \A o \in Servers \ {s} : pc[o] = "idle"
      /\ \A o \in Servers \ {s} : pc'[o] = pc[o] /\ result'[o] = result[o]
  BY OthersIdle DEF Rename, Finish, AloneInv, MoveInv, TypeOK
<1>3. /\ before' = before /\ src' = src /\ dst' = dst /\ found' = found
      /\ node = before[s] /\ found[s] = At(src[s]) /\ pc'[s] = "done"
  BY DEF Rename, Finish, call, AloneInv, MoveInv, TypeOK, Knows
<1>4. CASE Exists(src[s]) /\ RenameEntry(src[s], dst[s]) /\ Finish(s, "ok")
  <2> DEFINE f == Fold(src[s])
             t == Fold(dst[s])
  <2>1. result'[s] = "ok"
    BY <1>4 DEF Finish, AloneInv, MoveInv, TypeOK
  <2>2. f \in Keys /\ t \in Keys
    BY FoldLemma DEF AloneInv, MoveInv, TypeOK
  <2>3. SUFFICES ASSUME \A k \in Keys : before[s][k] = found[s] => k = f
                 PROVE  MovedAsAsked(s)'
    BY <1>1, <1>2, <1>3, <2>1, AloneFrame DEF AloneInv, Knows
  <2>4. ~(f # t /\ node[f] = node[t])
    BY <1>3, <2>2, <2>3 DEF At
  <2>5. /\ node' = [k \in Keys |-> IF k = t THEN node[f]
                                   ELSE IF k = f THEN NoInode ELSE node[k]]
        /\ spelling' = [spelling EXCEPT ![t] = dst[s]]
    BY <1>4, <2>4 DEF RenameEntry
  <2>6. node'[t] = found[s] /\ spelling'[t] = dst[s] /\ (f # t => node'[f] = NoInode)
    BY <1>3, <2>2, <2>5 DEF At, AloneInv, MoveInv, TypeOK
  <2> QED
    BY <1>3, <2>6 DEF MovedAsAsked, At, Exists
<1>5. CASE Finish(s, "failed") /\ UNCHANGED directory
  <2>1. result'[s] = "failed" /\ node' = node
    BY <1>5 DEF Finish, directory, AloneInv, MoveInv, TypeOK
  <2>2. Knows(s)'
    BY <1>3, <2>1 DEF Knows
  <2> QED
    BY <1>1, <1>2, <2>2, AloneFrame DEF AloneInv
<1> QED
  BY <1>4, <1>5 DEF Rename

LEMMA AloneReply ==
  ASSUME AloneInv, ~shared, NEW s \in Servers, Reply(s)
  PROVE  AloneInv'
<1>1. MoveInv'
  BY ReplyStep DEF AloneInv
<1>2. /\ \A o \in Servers \ {s} : pc[o] = "idle"
      /\ \A o \in Servers \ {s} : pc'[o] = pc[o] /\ result'[o] = result[o]
  BY OthersIdle DEF Reply, AloneInv, MoveInv, TypeOK
<1>3. pc'[s] = "idle" /\ result'[s] = "none"
  BY DEF Reply, AloneInv, MoveInv, TypeOK
<1>4. Knows(s)'
  BY <1>3 DEF Knows
<1> QED
  BY <1>1, <1>2, <1>4, AloneFrame DEF AloneInv

LEMMA AloneNext == AloneInv /\ [Next]_vars => AloneInv'
<1> SUFFICES ASSUME AloneInv, [Next]_vars PROVE AloneInv'
  OBVIOUS
<1>1. MoveInv'
  BY MoveNext DEF AloneInv
<1>2. shared' = shared
  BY DEF Next, Step, Call, LstatSource, LstatDestination, Rename, Reply, External, Goto,
         Finish, vars
<1>3. CASE shared
  BY <1>1, <1>2, <1>3 DEF AloneInv
<1>4. CASE ~shared /\ Next
  BY <1>4, AloneCall, AloneLstatSource, AloneLstatDestination, AloneRename, AloneReply
     DEF Next, Step, External
<1>5. CASE ~shared /\ UNCHANGED vars
  <2>1. \A s \in Servers : Knows(s)' = Knows(s)
    BY <1>5 DEF vars, directory, call, Knows, MovedAsAsked, At, Exists
  <2> QED
    BY <1>1, <1>2, <1>5, <2>1 DEF AloneInv, Busy, vars
<1> QED
  BY <1>3, <1>4, <1>5

\* Alone, whatever had a name before a step of a move has one after it: when
\* handleMove renames, the directory is still as its two Lstats saw it.
THEOREM MoveNeverDestroys == Spec => NeverDestroys
<1>1. ASSUME AloneInv, ~shared, NEW s \in Servers, Step(s), NEW i \in Inodes, Named(i)
      PROVE  Named(i)'
  <2> SUFFICES ASSUME ~Named(i)' PROVE FALSE
    OBVIOUS
  <2>1. pc[s] = "rename" /\ (At(dst[s]) # met[s] \/ At(src[s]) # found[s])
    BY <1>1, DestroysLemma DEF AloneInv
  <2> QED
    BY <1>1, <2>1 DEF AloneInv, Knows
<1>2. AloneInv /\ [Next]_vars =>
        [~shared /\ (\E s \in Servers : Step(s)) => \A i \in Inodes : Named(i) => Named(i)']_vars
  BY <1>1
<1> QED
  BY <1>2, AloneInit, AloneNext, PTL DEF Spec, NeverDestroys

\* A move that is refused or fails leaves every entry as it was when it began.
THEOREM RefusalChangesNothing == Spec => []RefusedUnchanged
<1>1. AloneInv => RefusedUnchanged
  BY DEF AloneInv, Knows, RefusedUnchanged
<1> QED
  BY <1>1, AloneInit, AloneNext, PTL DEF Spec

\* Another spelling of the source is never taken for a conflict or a self-move.
THEOREM CaseOnlyRename == Spec => []CaseRenameAllowed
<1>1. AloneInv => CaseRenameAllowed
  <2> SUFFICES ASSUME AloneInv, NEW s \in Servers, ~shared,
                      result[s] \in {"exists", "invalid_argument"}, Fold(src[s]) = Fold(dst[s])
               PROVE  src[s] = dst[s]
    BY DEF CaseRenameAllowed
  <2> QED
    BY DEF AloneInv, Knows
<1> QED
  BY <1>1, AloneInit, AloneNext, PTL DEF Spec

\* After "ok" for a source without a second name, the destination is what the source
\* was, spelled as asked, and the source is gone.
THEOREM OkIsMoved == Spec => []OkMeansMovedUnlinked
<1>1. AloneInv => OkMeansMovedUnlinked
  BY DEF AloneInv, Knows, OkMeansMovedUnlinked
<1> QED
  BY <1>1, AloneInit, AloneNext, PTL DEF Spec
=============================================================================
