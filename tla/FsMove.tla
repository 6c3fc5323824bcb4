------------------------------- MODULE FsMove -------------------------------
(***************************************************************************)
(* fs_move (move.go, handleMove): Lstat the source, Lstat the destination, *)
(* compare (dev, ino), rename(2).  Each is a system call of its own, and   *)
(* the directory may change between any two.                               *)
(*                                                                         *)
(* The directory is case-preserving and, when Fold is not the identity,    *)
(* case-insensitive: Fold(n) stands for every spelling of n, at most one   *)
(* entry exists for it, and that entry has the spelling it was given.  Two *)
(* entries may be hard links to one inode.  What an inode holds does not   *)
(* matter here, nor whether it is a file or a directory: no step opens it. *)
(***************************************************************************)
EXTENDS Naturals

CONSTANTS
  Names,       \* spellings
  Fold(_),     \* the spelling the volume looks a name up by
  Inodes,
  NoInode,
  Servers,
  IOFaults,    \* whether a call can fail for reasons of its own
  Sharing      \* whether the directory is shared: FALSE, TRUE or either

ASSUME NamesAssumption == Names # {}
ASSUME FoldAssumption == \A n \in Names : Fold(n) \in Names /\ Fold(Fold(n)) = Fold(n)
ASSUME InodeAssumption == NoInode \notin Inodes
ASSUME SwitchesAssumption == IOFaults \in BOOLEAN /\ Sharing \subseteq BOOLEAN

Keys == {Fold(n) : n \in Names}

VARIABLES
  shared,    \* whether calls overlap and other programs are at work
  node,      \* the inode each looked-up name denotes
  spelling,  \* how that entry is spelled
  pc,        \* the system call of handleMove server s makes next
  src, dst,  \* its normalised operands
  found,     \* sourceInfo: the inode Lstat reported for the source
  met,       \* destInfo: the inode Lstat reported for the destination, if any
  result,
  before     \* history: the directory when the move began

directory == <<node, spelling>>
call == <<src, dst, found, met, before>>
vars == <<shared, directory, pc, call, result>>

Results == {"none", "ok", "not_found", "invalid_argument", "exists", "failed"}
Stages == {"idle", "lstatSource", "lstatDestination", "rename", "done"}

\* The variables keep their types; a result's code is one of the taxonomy's.
TypeOK ==
  /\ shared \in BOOLEAN
  /\ node \in [Keys -> Inodes \cup {NoInode}]
  /\ spelling \in [Keys -> Names]
  /\ pc \in [Servers -> Stages]
  /\ src \in [Servers -> Names] /\ dst \in [Servers -> Names]
  /\ found \in [Servers -> Inodes \cup {NoInode}]
  /\ met \in [Servers -> Inodes \cup {NoInode}]
  /\ result \in [Servers -> Results]
  /\ before \in [Servers -> [Keys -> Inodes \cup {NoInode}]]

Init ==
  /\ shared \in Sharing
  /\ node \in [Keys -> Inodes \cup {NoInode}]
  /\ spelling = [k \in Keys |-> k]
  /\ pc = [s \in Servers |-> "idle"]
  /\ src = [s \in Servers |-> CHOOSE n \in Names : TRUE]
  /\ dst = src
  /\ found = [s \in Servers |-> NoInode]
  /\ met = found
  /\ result = [s \in Servers |-> "none"]
  /\ before = [s \in Servers |-> [k \in Keys |-> NoInode]]

At(n) == node[Fold(n)]
Exists(n) == At(n) # NoInode

Goto(s, stage) == pc' = [pc EXCEPT ![s] = stage] /\ UNCHANGED <<shared, result>>

Finish(s, outcome) ==
  /\ pc' = [pc EXCEPT ![s] = "done"]
  /\ result' = [result EXCEPT ![s] = outcome]
  /\ UNCHANGED shared
-----------------------------------------------------------------------------
Call(s, from, to) ==
  /\ pc[s] = "idle"
  /\ shared \/ \A other \in Servers : pc[other] = "idle"
  /\ src' = [src EXCEPT ![s] = from]
  /\ dst' = [dst EXCEPT ![s] = to]
  /\ before' = [before EXCEPT ![s] = node]
  /\ Goto(s, "lstatSource")
  /\ UNCHANGED <<directory, found, met>>

Looked(s) == found' = [found EXCEPT ![s] = At(src[s])]

\* Variant: the self-move is refused with a code of its own.
LstatSourceOwnCode(s) ==
  /\ pc[s] = "lstatSource"
  /\ \/ ~Exists(src[s]) /\ Finish(s, "not_found") /\ Looked(s)
     \/ Exists(src[s]) /\ src[s] = dst[s] /\ Finish(s, "self_move") /\ Looked(s)
     \/ Exists(src[s]) /\ src[s] # dst[s] /\ Goto(s, "lstatDestination") /\ Looked(s)
     \/ IOFaults /\ Finish(s, "failed") /\ UNCHANGED found
  /\ UNCHANGED <<directory, src, dst, met, before>>

\* The source must exist; a literal self-move is refused by its spelling.
LstatSource(s) ==
  /\ pc[s] = "lstatSource"
  /\ \/ ~Exists(src[s]) /\ Finish(s, "not_found") /\ Looked(s)
     \/ Exists(src[s]) /\ src[s] = dst[s] /\ Finish(s, "invalid_argument") /\ Looked(s)
     \/ Exists(src[s]) /\ src[s] # dst[s] /\ Goto(s, "lstatDestination") /\ Looked(s)
     \/ IOFaults /\ Finish(s, "failed") /\ UNCHANGED found
  /\ UNCHANGED <<directory, src, dst, met, before>>

\* Variant: operands are compared by name alone.
SameEntryByName(s) == src[s] = dst[s]

\* Variant: nothing is compared; whatever is there is replaced.
SameEntryAlways(s) == TRUE

\* sameEntry: the inode the destination denotes now against the one the source
\* denoted a moment ago.
SameEntry(s) == At(dst[s]) = found[s]

LstatDestination(s) ==
  /\ pc[s] = "lstatDestination"
  /\ \/ /\ IF Exists(dst[s]) /\ ~SameEntry(s) THEN Finish(s, "exists") ELSE Goto(s, "rename")
        /\ met' = [met EXCEPT ![s] = At(dst[s])]
     \/ IOFaults /\ Finish(s, "failed") /\ UNCHANGED met
  /\ UNCHANGED <<directory, src, dst, found, before>>

\* rename(2).  Onto another spelling of the same entry it respells the entry;
\* onto a second hard link to the same inode it does nothing and succeeds
\* (POSIX); onto anything else it replaces what is there.
RenameEntry(from, to) ==
  LET f == Fold(from)  t == Fold(to) IN
  IF f # t /\ node[f] = node[t]
    THEN UNCHANGED directory
    ELSE /\ node' = [k \in Keys |-> IF k = t THEN node[f]
                                    ELSE IF k = f THEN NoInode ELSE node[k]]
         /\ spelling' = [spelling EXCEPT ![t] = to]

\* Variant: the destination is removed first, and the rename may still fail.
RenameAfterRemove(s) ==
  /\ pc[s] = "rename"
  /\ \/ Exists(src[s]) /\ RenameEntry(src[s], dst[s]) /\ Finish(s, "ok")
     \/ /\ ~Exists(src[s]) \/ IOFaults
        /\ node' = [node EXCEPT ![Fold(dst[s])] = NoInode]
        /\ UNCHANGED spelling
        /\ Finish(s, "failed")
  /\ UNCHANGED call

\* Variant: two names of one entry need no rename.
RenameUnlessSame(s) ==
  /\ pc[s] = "rename"
  /\ \/ met[s] = found[s] /\ Finish(s, "ok") /\ UNCHANGED directory
     \/ met[s] # found[s] /\ Exists(src[s]) /\ RenameEntry(src[s], dst[s]) /\ Finish(s, "ok")
     \/ (~Exists(src[s]) \/ IOFaults) /\ Finish(s, "failed") /\ UNCHANGED directory
  /\ UNCHANGED call

Rename(s) ==
  /\ pc[s] = "rename"
  /\ \/ Exists(src[s]) /\ RenameEntry(src[s], dst[s]) /\ Finish(s, "ok")
     \/ (~Exists(src[s]) \/ IOFaults) /\ Finish(s, "failed") /\ UNCHANGED directory
  /\ UNCHANGED call

Reply(s) ==
  /\ pc[s] = "done"
  /\ pc' = [pc EXCEPT ![s] = "idle"]
  /\ result' = [result EXCEPT ![s] = "none"]
  /\ found' = [found EXCEPT ![s] = NoInode]
  /\ met' = [met EXCEPT ![s] = NoInode]
  /\ before' = [before EXCEPT ![s] = [k \in Keys |-> NoInode]]
  /\ UNCHANGED <<shared, directory, src, dst>>

\* Another program creates a file, removes an entry or makes a hard link.
External(n) ==
  /\ shared
  /\ \/ /\ ~Exists(n)
        /\ \E i \in Inodes : node' = [node EXCEPT ![Fold(n)] = i]
        /\ spelling' = [spelling EXCEPT ![Fold(n)] = n]
     \/ /\ Exists(n)
        /\ node' = [node EXCEPT ![Fold(n)] = NoInode]
        /\ UNCHANGED spelling
  /\ UNCHANGED <<shared, pc, call, result>>

Step(s) == LstatSource(s) \/ LstatDestination(s) \/ Rename(s) \/ Reply(s)

Next ==
  \/ \E s \in Servers : (\E from, to \in Names : Call(s, from, to)) \/ Step(s)
  \/ \E n \in Names : External(n)

Spec == Init /\ [][Next]_vars
-----------------------------------------------------------------------------
(* Properties. *)

Named(i) == \E k \in Keys : node[k] = i

\* "Move never destroys": on a directory nobody else changes, whatever had a name
\* before a step of a move has one after it.
NeverDestroys ==
  [][~shared /\ (\E s \in Servers : Step(s)) => \A i \in Inodes : Named(i) => Named(i)']_vars

\* On a shared one a move can replace what it never looked at.  It takes a change
\* behind its back: the directory is not as either Lstat saw it.
DestroysOnlyIfRaced ==
  [][\A s \in Servers : Step(s) =>
       \A i \in Inodes : Named(i) /\ ~Named(i)' =>
         At(dst[s]) # met[s] \/ At(src[s]) # found[s]]_vars

\* ACCEPTANCE B6: a move that is refused or fails leaves source and destination as
\* they were.
RefusedUnchanged ==
  \A s \in Servers : ~shared /\ pc[s] = "done" /\ result[s] # "ok" => node = before[s]

\* ACCEPTANCE B1: changing nothing but the case of a name is a move like any other;
\* it is not mistaken for a conflict with itself or for a self-move.
CaseRenameAllowed ==
  \A s \in Servers :
    ~shared /\ result[s] \in {"exists", "invalid_argument"} /\ Fold(src[s]) = Fold(dst[s])
      => src[s] = dst[s]

\* After "ok" the destination is spelled as asked and denotes what the source
\* denoted, and the source's spelling is gone.
MovedAsAsked(s) ==
  /\ At(dst[s]) = found[s] /\ spelling[Fold(dst[s])] = dst[s]
  /\ Fold(src[s]) # Fold(dst[s]) => ~Exists(src[s])

\* So it is after every "ok" for a source that has no second name.  Of two hard links
\* to one file rename(2) removes neither.
OkMeansMovedUnlinked ==
  \A s \in Servers :
    /\ ~shared /\ pc[s] = "done" /\ result[s] = "ok"
    /\ \A k \in Keys : before[s][k] = found[s] => k = Fold(src[s])
    => MovedAsAsked(s)
=============================================================================
