------------------------- MODULE AtomicReplaceProofs -------------------------
(***************************************************************************)
(* Theorems about AtomicReplace, for any number of servers, paths, temp    *)
(* names, inodes and contents, whatever faults happen and whatever other   *)
(* programs do.                                                            *)
(*                                                                         *)
(* NeverTorn alone is not inductive: a rename makes a temp file visible,   *)
(* so what temp files hold matters, and a loss of power brings back the    *)
(* directory of the last checkpoint, so what that one denotes matters too. *)
(* IInv adds: both directories show whole, synced files only; a temp       *)
(* file's inode has no second name that a write could tear; two calls      *)
(* never share a temp name; and a call about to rename has written and     *)
(* synced all of it.                                                       *)
(*                                                                         *)
(* TempInv adds when a temp file may be left behind: no temp file carries  *)
(* a BSD flag (cp -N), and once its ACL is cleared discardTemp's second    *)
(* Remove cannot fail for the temp file's own sake, only on an error of    *)
(* its own.                                                                *)
(*                                                                         *)
(* Two more invariants are about a server alone on its directory.          *)
(* CarriedInv follows what AtomicReplace learns of its target from the     *)
(* Stat to the rename.  AloneInv carries to the commit, the one step that  *)
(* CasFile sees change a file, what the precondition's check found, and    *)
(* that the temp file is a file that holds the new content.                *)
(***************************************************************************)
EXTENDS AtomicReplaceRefinement, TLAPS

VisibleSaved ==
  \A p \in Paths :
    /\ dir[p] # NoInode => data[dir[p]] \in Contents /\ synced[dir[p]]
    /\ durable[p] # NoInode => data[durable[p]] \in Contents /\ synced[durable[p]]

TempsPrivate ==
  \A t \in TempNames :
    /\ \A n \in Names \ {t} :
         /\ dir[t] # NoInode => dir[n] # dir[t]
         /\ durable[t] # NoInode => durable[n] # durable[t]
    /\ \A p \in Paths : dir[t] # NoInode => durable[p] # dir[t]

VolumeInv == VolumeTypeOK /\ VisibleSaved /\ TempsPrivate

Committed == {"lstat", "probe", "reserve"} \cup Filling

CallInv(s) ==
  /\ pc[s] \in Holding => tmp[s] \in TempNames
  /\ pc[s] \in {"check", "hash"} => req[s].new # Absent
  /\ pc[s] \in Committed => req[s].new \in Contents
  /\ pc[s] \in Filling \ {"copy"} => dir[tmp[s]] # NoInode
  /\ pc[s] \in {"sync", "rename"} => data[dir[tmp[s]]] \in Contents
  /\ pc[s] = "rename" => synced[dir[tmp[s]]]

TempsDistinct ==
  \A s, other \in Servers : s # other /\ tmp[s] # NoName => tmp[s] # tmp[other]

LocalsTypeOK ==
  /\ pc \in [Servers -> Stages]
  /\ req \in [Servers -> Requests]
  /\ exists \in [Servers -> BOOLEAN]
  /\ perm \in [Servers -> SUBSET Bits]
  /\ tmp \in [Servers -> TempNames \cup {NoName}]
  /\ result \in [Servers -> Results]
  /\ doubt \in [Servers -> BOOLEAN]
  /\ orphans \subseteq TempNames

IInv ==
  /\ VolumeInv
  /\ LocalsTypeOK
  /\ TempsDistinct
  /\ \A s \in Servers : CallInv(s)
-----------------------------------------------------------------------------
(* What one step may do to the temp files of the other calls: nothing. *)

Untouched(t) ==
  /\ dir'[t] = dir[t]
  /\ dir[t] # NoInode => data'[dir[t]] = data[dir[t]] /\ synced'[dir[t]] = synced[dir[t]]

\* Making a temp file leaves the rest of the volume as it was.
LEMMA CreateLemma ==
  ASSUME VolumeInv, NEW t \in TempNames, NEW bytes \in Contents \cup {Partial},
         NEW a \in Attributes, CreateAs(t, bytes, a)
  PROVE  VolumeInv' /\ dir'[t] # NoInode /\ \A u \in TempNames \ {t} : Untouched(u)
<1>1. PICK i \in Inodes :
        /\ Free(i)
        /\ dir' = [dir EXCEPT ![t] = i]
        /\ data' = [data EXCEPT ![i] = bytes]
        /\ synced' = [synced EXCEPT ![i] = FALSE]
        /\ attr' = [attr EXCEPT ![i] = a]
        /\ durable' = durable
  BY DEF CreateAs
<1>2. VolumeTypeOK'
  BY <1>1 DEF VolumeInv, VolumeTypeOK, Names
<1>3. \A n \in Names : dir[n] # i /\ durable[n] # i
  BY <1>1 DEF Free
<1>4. VisibleSaved'
  BY <1>1, <1>3, NamesAssumption DEF VolumeInv, VolumeTypeOK, VisibleSaved, Names
<1>5. TempsPrivate'
  BY <1>1, <1>3, NamesAssumption DEF VolumeInv, VolumeTypeOK, TempsPrivate, Names
<1>6. dir'[t] # NoInode
  BY <1>1, InodeAssumption DEF VolumeInv, VolumeTypeOK, Names
<1>7. ASSUME NEW u \in TempNames \ {t} PROVE Untouched(u)
  BY <1>1, <1>3 DEF Untouched, VolumeInv, VolumeTypeOK, Names
<1> QED
  BY <1>2, <1>4, <1>5, <1>6, <1>7 DEF VolumeInv

\* So does writing to one: its inode has no other name.
LEMMA WriteLemma ==
  ASSUME VolumeInv, NEW t \in TempNames, NEW bytes \in Contents \cup {Partial},
         dir[t] # NoInode, WriteData(t, bytes)
  PROVE  /\ VolumeInv' /\ dir' = dir /\ data'[dir[t]] = bytes
         /\ \A u \in TempNames \ {t} : Untouched(u)
<1>1. VolumeTypeOK' /\ dir' = dir /\ data'[dir[t]] = bytes
  BY DEF WriteData, VolumeInv, VolumeTypeOK, Names
<1>2. VisibleSaved'
  BY NamesAssumption DEF WriteData, VolumeInv, VolumeTypeOK, VisibleSaved, TempsPrivate, Names
<1>3. TempsPrivate'
  BY DEF WriteData, VolumeInv, TempsPrivate
<1>4. ASSUME NEW u \in TempNames \ {t} PROVE Untouched(u)
  BY DEF WriteData, VolumeInv, VolumeTypeOK, TempsPrivate, Untouched, Names
<1> QED
  BY <1>1, <1>2, <1>3, <1>4 DEF VolumeInv

LEMMA SetAttrLemma ==
  ASSUME VolumeInv, NEW n \in Names, dir[n] # NoInode, NEW a \in Attributes, SetAttr(n, a)
  PROVE  VolumeInv' /\ dir' = dir /\ data' = data /\ synced' = synced
<1>1. VolumeTypeOK'
  BY DEF SetAttr, VolumeInv, VolumeTypeOK
<1> QED
  BY <1>1 DEF SetAttr, VolumeInv, VisibleSaved, TempsPrivate

LEMMA UnlinkLemma ==
  ASSUME VolumeInv, NEW n \in Names, Unlink(n)
  PROVE  VolumeInv' /\ \A u \in TempNames \ {n} : Untouched(u)
<1>1. VolumeTypeOK'
  BY DEF Unlink, VolumeInv, VolumeTypeOK
<1>2. VisibleSaved'
  BY DEF Unlink, VolumeInv, VolumeTypeOK, VisibleSaved, Names
<1>3. TempsPrivate'
  BY DEF Unlink, VolumeInv, VolumeTypeOK, TempsPrivate, Names
<1>4. ASSUME NEW u \in TempNames \ {n} PROVE Untouched(u)
  BY DEF Unlink, Untouched, VolumeInv, VolumeTypeOK, Names
<1> QED
  BY <1>1, <1>2, <1>3, <1>4 DEF VolumeInv

\* The commit: a temp file that is whole and synced becomes visible.
LEMMA RenameLemma ==
  ASSUME VolumeInv, NEW t \in TempNames, NEW p \in Paths, dir[t] # NoInode,
         data[dir[t]] \in Contents, synced[dir[t]], RenameEntry(t, p)
  PROVE  VolumeInv' /\ \A u \in TempNames \ {t} : Untouched(u)
<1>1. t # p /\ t \in Names /\ p \in Names
  BY NamesAssumption DEF Names
<1>2. dir' = [dir EXCEPT ![p] = dir[t], ![t] = NoInode]
  BY DEF RenameEntry
<1>3. /\ dir'[p] = dir[t]
      /\ dir'[t] = NoInode
      /\ \A n \in Names \ {t, p} : dir'[n] = dir[n]
  BY <1>1, <1>2 DEF VolumeInv, VolumeTypeOK
<1>4. durable' = durable /\ data' = data /\ synced' = synced /\ attr' = attr
  BY DEF RenameEntry
<1>5. VolumeTypeOK'
  BY <1>1, <1>2, <1>4 DEF VolumeInv, VolumeTypeOK
<1>6. VisibleSaved'
  BY <1>1, <1>3, <1>4 DEF VolumeInv, VolumeTypeOK, VisibleSaved, Names
<1>7. TempsPrivate'
  BY <1>1, <1>3, <1>4, NamesAssumption DEF VolumeInv, VolumeTypeOK, TempsPrivate, Names
<1>8. ASSUME NEW u \in TempNames \ {t} PROVE Untouched(u)
  BY <1>1, <1>3, <1>4, NamesAssumption DEF Untouched, Names
<1> QED
  BY <1>5, <1>6, <1>7, <1>8 DEF VolumeInv
-----------------------------------------------------------------------------
(* What a step of one call means for the calls of the other servers. *)

OthersKeep(s) ==
  \A o \in Servers \ {s} :
    /\ pc'[o] = pc[o] /\ req'[o] = req[o] /\ tmp'[o] = tmp[o]
    /\ tmp[o] \in TempNames => Untouched(tmp[o])

LEMMA OthersLemma ==
  ASSUME IInv, NEW s \in Servers, OthersKeep(s), VolumeInv', LocalsTypeOK', CallInv(s)'
  PROVE  \A o \in Servers : CallInv(o)'
<1> SUFFICES ASSUME NEW o \in Servers, o # s PROVE CallInv(o)'
  OBVIOUS
<1>1. pc[o] \in Filling => pc[o] \in Holding
  BY DEF Holding
<1>2. pc'[o] = pc[o] /\ req'[o] = req[o] /\ tmp'[o] = tmp[o]
  BY DEF OthersKeep
<1>3. pc[o] \in Filling => Untouched(tmp[o])
  BY <1>1 DEF OthersKeep, IInv, CallInv
<1> QED
  BY <1>1, <1>2, <1>3 DEF IInv, CallInv, Untouched, Filling

\* A step that only moves the program counter on and settles the result.
LEMMA QuietLemma ==
  ASSUME IInv, NEW s \in Servers, UNCHANGED volume, UNCHANGED <<req, tmp>>,
         LocalsTypeOK', \A o \in Servers \ {s} : pc'[o] = pc[o], CallInv(s)'
  PROVE  IInv'
<1>1. VolumeInv'
  BY DEF IInv, VolumeInv, VolumeTypeOK, VisibleSaved, TempsPrivate, volume
<1>2. OthersKeep(s)
  BY DEF OthersKeep, Untouched, volume
<1>3. TempsDistinct'
  BY DEF IInv, TempsDistinct
<1> QED
  BY <1>1, <1>2, <1>3, OthersLemma DEF IInv

\* A step that works on this call's temp file or on visible paths.
LEMMA WorkLemma ==
  ASSUME IInv, NEW s \in Servers, VolumeInv', UNCHANGED <<req, tmp>>, LocalsTypeOK',
         \A o \in Servers \ {s} : pc'[o] = pc[o], CallInv(s)',
         \A u \in TempNames \ {tmp[s]} : Untouched(u)
  PROVE  IInv'
<1>1. OthersKeep(s)
  BY MarkersAssumption DEF OthersKeep, IInv, TempsDistinct
<1>2. TempsDistinct'
  BY DEF IInv, TempsDistinct
<1> QED
  BY <1>1, <1>2, OthersLemma DEF IInv

\* Where a call goes next, in terms of its own row alone.
LEMMA GotoLemma ==
  ASSUME IInv, NEW s \in Servers, NEW stage \in Stages, Goto(s, stage)
  PROVE  /\ pc' \in [Servers -> Stages] /\ pc'[s] = stage
         /\ result' \in [Servers -> Results] /\ orphans' \subseteq TempNames
         /\ \A o \in Servers \ {s} : pc'[o] = pc[o]
BY DEF IInv, LocalsTypeOK, Goto

LEMMA FinishLemma ==
  ASSUME IInv, NEW s \in Servers, NEW outcome \in Results, Finish(s, outcome)
  PROVE  /\ pc' \in [Servers -> Stages] /\ pc'[s] = "done"
         /\ result' \in [Servers -> Results] /\ orphans' \subseteq TempNames
         /\ \A o \in Servers \ {s} : pc'[o] = pc[o]
BY DEF IInv, LocalsTypeOK, Finish, Stages

LEMMA AbandonLemma ==
  ASSUME IInv, NEW s \in Servers, NEW outcome \in Results, Abandon(s, outcome)
  PROVE  /\ pc' \in [Servers -> Stages] /\ pc'[s] = "discard"
         /\ result' \in [Servers -> Results] /\ orphans' \subseteq TempNames
         /\ \A o \in Servers \ {s} : pc'[o] = pc[o]
BY DEF IInv, LocalsTypeOK, Abandon, Stages, Holding, Discarding
-----------------------------------------------------------------------------
(* The steps, one lemma for each group of actions that moves the same state. *)

LEMMA CallStep ==
  ASSUME IInv, NEW s \in Servers, NEW r \in Requests, Call(s, r)
  PROVE  IInv'
<1>1. /\ pc' \in [Servers -> Stages] /\ pc'[s] = "decode"
      /\ \A o \in Servers \ {s} : pc'[o] = pc[o]
      /\ result' \in [Servers -> Results] /\ orphans' \subseteq TempNames
  BY GotoLemma DEF Call, Stages
<1>2. LocalsTypeOK'
  BY <1>1 DEF Call, IInv, LocalsTypeOK
<1>3. VolumeInv'
  BY DEF Call, IInv, VolumeInv, VolumeTypeOK, VisibleSaved, TempsPrivate, volume
<1>4. OthersKeep(s)
  BY <1>1 DEF Call, OthersKeep, Untouched, volume, IInv, LocalsTypeOK
<1>5. CallInv(s)'
  BY <1>1 DEF CallInv, Committed, Filling, Holding, Discarding
<1>6. TempsDistinct'
  BY DEF Call, IInv, TempsDistinct
<1> QED
  BY <1>2, <1>3, <1>4, <1>5, <1>6, OthersLemma DEF IInv

\* The handlers' checks before AtomicReplace: nothing is touched, and a call
\* goes on to AtomicReplace with a content to write.
LEMMA CheckStep ==
  ASSUME IInv, NEW s \in Servers,
         Decode(s) \/ CheckLstat(s) \/ CheckHash(s) \/ DeleteLstat(s) \/ DeleteHash(s)
  PROVE  IInv'
<1> DEFINE Quiet == {"deleteLstat", "deleteHash", "remove", "done"}
<1>1. UNCHANGED volume /\ UNCHANGED locals
  BY DEF Decode, CheckLstat, CheckHash, DeleteLstat, DeleteHash
<1>2. /\ req[s] \in Requests
      /\ pc[s] \in {"check", "hash"} => req[s].new # Absent
  BY DEF IInv, LocalsTypeOK, CallInv
<1>3. \/ \E stage \in Quiet : Goto(s, stage)
      \/ \E outcome \in Results : Finish(s, outcome)
      \/ \E stage \in {"check", "hash"} : Goto(s, stage) /\ req[s].new # Absent
      \/ Goto(s, "lstat") /\ req[s].new \in Contents
  <2>1. CASE Decode(s)
    BY <2>1 DEF Decode, Results
  <2>2. CASE CheckLstat(s)
    BY <1>2, <2>2 DEF CheckLstat, Proceed, Results, Requests
  <2>3. CASE CheckHash(s)
    BY <1>2, <2>3 DEF CheckHash, Proceed, Results, Requests
  <2>4. CASE DeleteLstat(s)
    BY <2>4 DEF DeleteLstat, Results
  <2>5. CASE DeleteHash(s)
    BY <2>5 DEF DeleteHash, Results
  <2> QED
    BY <2>1, <2>2, <2>3, <2>4, <2>5
<1>4. /\ pc' \in [Servers -> Stages] /\ result' \in [Servers -> Results]
      /\ orphans' \subseteq TempNames
      /\ \A o \in Servers \ {s} : pc'[o] = pc[o]
      /\ \/ pc'[s] \in Quiet
         \/ pc'[s] \in {"check", "hash"} /\ req[s].new # Absent
         \/ pc'[s] = "lstat" /\ req[s].new \in Contents
  <2>1. ASSUME NEW stage \in Quiet \cup {"check", "hash", "lstat"} PROVE stage \in Stages
    BY DEF Stages
  <2> QED
    BY <1>3, <2>1, GotoLemma, FinishLemma
<1>5. LocalsTypeOK'
  BY <1>1, <1>4 DEF IInv, LocalsTypeOK, locals
<1>6. CallInv(s)'
  BY <1>1, <1>4 DEF CallInv, Committed, Filling, Holding, Discarding, locals
<1> QED
  BY <1>1, <1>4, <1>5, <1>6, QuietLemma DEF locals

\* fs_delete's Remove.
LEMMA DeleteRemoveStep ==
  ASSUME IInv, NEW s \in Servers, DeleteRemove(s)
  PROVE  IInv'
<1>1. UNCHANGED <<req, tmp, exists, perm, doubt>> /\ \E outcome \in Results : Finish(s, outcome)
  BY DEF DeleteRemove, locals, Results
<1>2. /\ LocalsTypeOK' /\ pc'[s] = "done"
      /\ \A o \in Servers \ {s} : pc'[o] = pc[o]
  BY <1>1, FinishLemma DEF IInv, LocalsTypeOK
<1>3. CallInv(s)'
  BY <1>2 DEF CallInv, Committed, Filling, Holding, Discarding
<1>4. CASE UNCHANGED volume
  BY <1>1, <1>2, <1>3, <1>4, QuietLemma
<1>5. CASE Unlink(Path(s))
  <2>1. Path(s) \in Paths /\ Path(s) \in Names /\ Path(s) \notin TempNames
    BY NamesAssumption DEF Path, IInv, LocalsTypeOK, Requests, Names
  <2>2. VolumeInv' /\ \A u \in TempNames : Untouched(u)
    BY <1>5, <2>1, UnlinkLemma DEF IInv
  <2> QED
    BY <1>1, <1>2, <1>3, <2>2, WorkLemma
<1> QED
  BY <1>4, <1>5 DEF DeleteRemove

\* AtomicReplace up to the draw of a temp name.
LEMMA LookStep ==
  ASSUME IInv, NEW s \in Servers, Lstat(s) \/ ProbeWritable(s) \/ ReserveFails(s)
  PROVE  IInv'
<1>1. UNCHANGED volume /\ UNCHANGED <<req, tmp>>
  BY DEF Lstat, ProbeWritable, ReserveFails, locals
<1>2. pc[s] \in {"lstat", "probe", "reserve"}
  BY DEF Lstat, ProbeWritable, ReserveFails
<1>3. req[s].new \in Contents
  BY <1>2 DEF IInv, CallInv, Committed
<1>4. /\ exists' \in [Servers -> BOOLEAN] /\ perm' \in [Servers -> SUBSET Bits]
      /\ doubt' \in [Servers -> BOOLEAN]
  <2>1. CASE Lstat(s)
    <3>1. ASSUME IsFile(Path(s)) PROVE attr[dir[Path(s)]].mode \ {"s"} \in SUBSET Bits
      <4>1. dir[Path(s)] \in Inodes
        BY <3>1 DEF IsFile, Exists, Path, IInv, LocalsTypeOK, Requests, VolumeInv, VolumeTypeOK, Names
      <4> QED
        BY <4>1 DEF IInv, VolumeInv, VolumeTypeOK, Attributes
    <3> QED
      BY <2>1, <3>1 DEF Lstat, IInv, LocalsTypeOK
  <2>2. CASE ProbeWritable(s) \/ ReserveFails(s)
    BY <2>2 DEF ProbeWritable, ReserveFails, locals, IInv, LocalsTypeOK
  <2> QED
    BY <2>1, <2>2
<1>5. \/ \E stage \in {"probe", "reserve"} : Goto(s, stage)
      \/ \E outcome \in Results : Finish(s, outcome)
  BY DEF Lstat, ProbeWritable, ReserveFails, Results
<1>6. /\ pc' \in [Servers -> Stages] /\ result' \in [Servers -> Results]
      /\ orphans' \subseteq TempNames /\ pc'[s] \in {"probe", "reserve", "done"}
      /\ \A o \in Servers \ {s} : pc'[o] = pc[o]
  <2>1. "probe" \in Stages /\ "reserve" \in Stages
    BY DEF Stages
  <2> QED
    BY <1>5, <2>1, GotoLemma, FinishLemma
<1>7. LocalsTypeOK'
  BY <1>1, <1>4, <1>6 DEF IInv, LocalsTypeOK
<1>8. CallInv(s)'
  BY <1>1, <1>3, <1>6 DEF CallInv, Committed, Filling, Holding, Discarding
<1> QED
  BY <1>1, <1>6, <1>7, <1>8, QuietLemma

\* The draw of a temp name, created here when there is no target to copy.
LEMMA ReserveStep ==
  ASSUME IInv, NEW s \in Servers, Reserve(s)
  PROVE  IInv'
<1>1. PICK t \in TempNames :
        /\ dir[t] = NoInode
        /\ \A other \in Servers : tmp[other] # t
        /\ tmp' = [tmp EXCEPT ![s] = t]
        /\ IF exists[s] THEN Goto(s, "copy") /\ UNCHANGED volume
           ELSE Goto(s, "write") /\ CreateAs(t, Partial, Fresh)
  BY DEF Reserve, Exists
<1>2. UNCHANGED <<req, exists, perm, doubt>> /\ pc[s] = "reserve"
  BY DEF Reserve
<1>3. tmp'[s] = t /\ \A o \in Servers \ {s} : tmp'[o] = tmp[o]
  BY <1>1 DEF IInv, LocalsTypeOK
<1>4. /\ pc' \in [Servers -> Stages] /\ result' \in [Servers -> Results]
      /\ orphans' \subseteq TempNames
      /\ pc'[s] = IF exists[s] THEN "copy" ELSE "write"
      /\ \A o \in Servers \ {s} : pc'[o] = pc[o]
  <2>1. "copy" \in Stages /\ "write" \in Stages
    BY DEF Stages, Holding, Filling
  <2> QED
    BY <1>1, <2>1, GotoLemma
<1>5. VolumeInv' /\ (~exists[s] => dir'[t] # NoInode) /\ \A u \in TempNames \ {t} : Untouched(u)
  <2>1. CASE exists[s]
    <3>1. UNCHANGED volume
      BY <1>1, <2>1
    <3> QED
      BY <2>1, <3>1 DEF IInv, VolumeInv, VolumeTypeOK, VisibleSaved, TempsPrivate, Untouched, volume
  <2>2. CASE ~exists[s]
    <3>1. Fresh \in Attributes
      BY DEF Fresh, Attributes, Bits
    <3> QED
      BY <1>1, <2>2, <3>1, CreateLemma DEF IInv
  <2> QED
    BY <2>1, <2>2
<1>6. LocalsTypeOK'
  BY <1>1, <1>2, <1>4 DEF IInv, LocalsTypeOK
<1>7. CallInv(s)'
  BY <1>2, <1>3, <1>4, <1>5 DEF IInv, CallInv, Committed, Filling, Holding, Discarding
<1>8. OthersKeep(s)
  BY <1>1, <1>2, <1>3, <1>4, <1>5 DEF OthersKeep
<1>9. TempsDistinct'
  BY <1>1, <1>3 DEF IInv, TempsDistinct
<1> QED
  BY <1>5, <1>6, <1>7, <1>8, <1>9, OthersLemma DEF IInv

\* The copy of the target and the work on it.
LEMMA CopyStep ==
  ASSUME IInv, NEW s \in Servers, Copy(s)
  PROVE  IInv'
<1> DEFINE target == dir[Path(s)]
<1>1. UNCHANGED <<req, exists, perm, tmp, doubt>> /\ pc[s] = "copy"
  BY DEF Copy, locals
<1>2. tmp[s] \in TempNames /\ req[s].new \in Contents
  BY <1>1 DEF IInv, CallInv, Committed, Holding, Filling
<1>3. ASSUME CanHash(s)
      PROVE  /\ data[target] \in Contents \cup {Partial}
             /\ Copied(attr[target]) \in Attributes
  <2>1. target \in Inodes
    BY <1>3 DEF CanHash, IsFile, Exists, Path, IInv, LocalsTypeOK, Requests, VolumeInv, VolumeTypeOK, Names
  <2> QED
    BY <2>1 DEF Copied, Attributes, IInv, VolumeInv, VolumeTypeOK
<1>4. \/ /\ Goto(s, "chmod")
         /\ CanHash(s) /\ CreateAs(tmp[s], data[target], Copied(attr[target]))
      \/ /\ Abandon(s, "attrs_unpreservable")
         /\ CanHash(s) /\ CreateAs(tmp[s], Partial, Copied(attr[target]))
      \/ /\ Abandon(s, "attrs_unpreservable")
         /\ UNCHANGED volume
  BY DEF Copy
<1>5. /\ pc' \in [Servers -> Stages] /\ result' \in [Servers -> Results]
      /\ orphans' \subseteq TempNames
      /\ \/ pc'[s] = "chmod" /\ CanHash(s) /\ CreateAs(tmp[s], data[target], Copied(attr[target]))
         \/ pc'[s] = "discard"
      /\ \A o \in Servers \ {s} : pc'[o] = pc[o]
  <2>1. "chmod" \in Stages /\ "attrs_unpreservable" \in Results
    BY DEF Stages, Holding, Filling, Results
  <2> QED
    BY <1>4, <2>1, GotoLemma, AbandonLemma
<1>6. /\ VolumeInv'
      /\ pc'[s] = "chmod" => dir'[tmp[s]] # NoInode
      /\ \A u \in TempNames \ {tmp[s]} : Untouched(u)
  <2>1. CASE UNCHANGED volume
    BY <2>1, <1>2, <1>5, <1>3, CreateLemma
       DEF IInv, VolumeInv, VolumeTypeOK, VisibleSaved, TempsPrivate, Untouched, volume
  <2>2. CASE \E bytes \in Contents \cup {Partial} :
               CanHash(s) /\ CreateAs(tmp[s], bytes, Copied(attr[target]))
    BY <2>2, <1>2, <1>3, CreateLemma DEF IInv
  <2> QED
    BY <2>1, <2>2, <1>3, <1>4
<1>7. LocalsTypeOK'
  BY <1>1, <1>5 DEF IInv, LocalsTypeOK
<1>8. CallInv(s)'
  BY <1>1, <1>2, <1>5, <1>6 DEF CallInv, Committed, Filling, Holding, Discarding
<1> QED
  BY <1>1, <1>5, <1>6, <1>7, <1>8, WorkLemma

LEMMA FillStep ==
  ASSUME IInv, NEW s \in Servers, Chmod(s) \/ Truncate(s) \/ Write(s) \/ Sync(s)
  PROVE  IInv'
<1> DEFINE t == tmp[s]
           Working == {"truncate", "write", "sync", "rename"}
<1>1. UNCHANGED <<req, exists, perm, tmp, doubt>> /\ pc[s] \in {"chmod", "truncate", "write", "sync"}
  BY DEF Chmod, Truncate, Write, Sync, locals
<1>2. t \in TempNames /\ dir[t] # NoInode /\ req[s].new \in Contents
  BY <1>1 DEF IInv, CallInv, Committed, Holding, Filling
<1>3. t \in Names /\ dir[t] \in Inodes
  BY <1>2 DEF IInv, VolumeInv, VolumeTypeOK, Names
<1>4. \/ pc[s] = "chmod" /\ Goto(s, "truncate")
           /\ SetAttr(t, [attr[dir[t]] EXCEPT !.mode = perm[s]])
      \/ pc[s] = "truncate" /\ Goto(s, "write") /\ WriteData(t, Partial)
      \/ pc[s] = "write" /\ Goto(s, "sync") /\ WriteData(t, req[s].new)
      \/ pc[s] = "sync" /\ Goto(s, "rename") /\ UNCHANGED <<dir, durable, data, attr>>
           /\ synced' = [synced EXCEPT ![dir[t]] = TRUE]
      \/ (\E outcome \in Results : Abandon(s, outcome)) /\ UNCHANGED volume
  BY DEF Chmod, Truncate, Write, Sync, Results
<1>5. /\ pc' \in [Servers -> Stages] /\ result' \in [Servers -> Results]
      /\ orphans' \subseteq TempNames
      /\ \A o \in Servers \ {s} : pc'[o] = pc[o]
  <2>1. Working \subseteq Stages
    BY DEF Stages, Holding, Filling
  <2> QED
    BY <1>4, <2>1, GotoLemma, AbandonLemma
<1>6. LocalsTypeOK'
  BY <1>1, <1>5 DEF IInv, LocalsTypeOK
<1>7. /\ VolumeInv' /\ CallInv(s)'
      /\ \A u \in TempNames \ {t} : Untouched(u)
  <2>1. CASE pc[s] = "chmod" /\ Goto(s, "truncate")
                /\ SetAttr(t, [attr[dir[t]] EXCEPT !.mode = perm[s]])
    <3>1. [attr[dir[t]] EXCEPT !.mode = perm[s]] \in Attributes
      <4>1. attr[dir[t]] \in Attributes /\ perm[s] \in SUBSET Bits
        BY <1>3 DEF IInv, VolumeInv, VolumeTypeOK, LocalsTypeOK
      <4> QED
        BY <4>1 DEF Attributes
    <3>2. VolumeInv' /\ dir' = dir /\ data' = data /\ synced' = synced
      BY <1>2, <1>3, <2>1, <3>1, SetAttrLemma DEF IInv
    <3>3. pc'[s] = "truncate"
      BY <2>1, GotoLemma DEF Stages, Holding, Filling
    <3> QED
      BY <1>1, <1>2, <3>2, <3>3
         DEF CallInv, Committed, Filling, Holding, Discarding, Untouched
  <2>2. CASE pc[s] = "truncate" /\ Goto(s, "write") /\ WriteData(t, Partial)
    <3>1. pc'[s] = "write"
      BY <2>2, GotoLemma DEF Stages, Holding, Filling
    <3>2. VolumeInv' /\ dir' = dir /\ \A u \in TempNames \ {t} : Untouched(u)
      BY <1>2, <2>2, WriteLemma DEF IInv
    <3> QED
      BY <1>1, <1>2, <3>1, <3>2 DEF CallInv, Committed, Filling, Holding, Discarding
  <2>3. CASE pc[s] = "write" /\ Goto(s, "sync") /\ WriteData(t, req[s].new)
    <3>1. pc'[s] = "sync"
      BY <2>3, GotoLemma DEF Stages, Holding, Filling
    <3>2. /\ VolumeInv' /\ dir' = dir /\ data'[dir[t]] = req[s].new
          /\ \A u \in TempNames \ {t} : Untouched(u)
      BY <1>2, <2>3, WriteLemma DEF IInv
    <3> QED
      BY <1>1, <1>2, <3>1, <3>2 DEF CallInv, Committed, Filling, Holding, Discarding
  <2>4. CASE pc[s] = "sync" /\ Goto(s, "rename") /\ UNCHANGED <<dir, durable, data, attr>>
               /\ synced' = [synced EXCEPT ![dir[t]] = TRUE]
    <3>1. pc'[s] = "rename"
      BY <2>4, GotoLemma DEF Stages, Holding, Filling
    <3>2. VolumeInv'
      BY <2>4 DEF IInv, VolumeInv, VolumeTypeOK, VisibleSaved, TempsPrivate, Names
    <3>3. \A u \in TempNames \ {t} : Untouched(u)
      BY <1>2, <2>4 DEF Untouched, IInv, VolumeInv, VolumeTypeOK, TempsPrivate, Names
    <3>4. data[dir[t]] \in Contents /\ synced'[dir[t]]
      BY <1>3, <2>4 DEF IInv, CallInv, VolumeInv, VolumeTypeOK
    <3> QED
      BY <1>1, <1>2, <2>4, <3>1, <3>2, <3>3, <3>4
         DEF CallInv, Committed, Filling, Holding, Discarding
  <2>5. CASE (\E outcome \in Results : Abandon(s, outcome)) /\ UNCHANGED volume
    <3>1. pc'[s] = "discard"
      BY <2>5, AbandonLemma
    <3> QED
      BY <1>1, <1>2, <2>5, <3>1
         DEF IInv, VolumeInv, VolumeTypeOK, VisibleSaved, TempsPrivate, Untouched, volume,
             CallInv, Committed, Filling, Holding, Discarding
  <2> QED
    BY <1>4, <2>1, <2>2, <2>3, <2>4, <2>5
<1> QED
  BY <1>1, <1>5, <1>6, <1>7, WorkLemma

\* The commit, and what becomes of one that is denied.
LEMMA RenameStep ==
  ASSUME IInv, NEW s \in Servers, Rename(s)
  PROVE  IInv'
<1>1. /\ UNCHANGED <<req, exists, perm, tmp>> /\ pc[s] = "rename"
      /\ doubt' \in [Servers -> BOOLEAN]
  BY DEF Rename, Misled, locals, IInv, LocalsTypeOK
<1>2. /\ tmp[s] \in TempNames /\ dir[tmp[s]] # NoInode
      /\ data[dir[tmp[s]]] \in Contents /\ synced[dir[tmp[s]]]
  BY <1>1 DEF IInv, CallInv, Holding, Filling
<1>3. Path(s) \in Paths
  BY DEF Path, IInv, LocalsTypeOK, Requests
<1>4. /\ pc' \in [Servers -> Stages] /\ result' \in [Servers -> Results]
      /\ orphans' \subseteq TempNames /\ pc'[s] \in {"done", "classify", "discard"}
      /\ \A o \in Servers \ {s} : pc'[o] = pc[o]
  <2>1. "classify" \in Stages /\ "ok" \in Results /\ "failed" \in Results
    BY DEF Stages, Holding, Results
  <2> QED
    BY <2>1, GotoLemma, FinishLemma, AbandonLemma DEF Rename
<1>5. LocalsTypeOK'
  BY <1>1, <1>4 DEF IInv, LocalsTypeOK
<1>6. CallInv(s)'
  BY <1>1, <1>2, <1>4 DEF CallInv, Committed, Filling, Holding, Discarding
<1>7. CASE RenameEntry(tmp[s], Path(s))
  <2>1. VolumeInv' /\ \A u \in TempNames \ {tmp[s]} : Untouched(u)
    BY <1>2, <1>3, <1>7, RenameLemma DEF IInv
  <2> QED
    BY <1>1, <1>4, <1>5, <1>6, <2>1, WorkLemma
<1>8. CASE UNCHANGED volume
  BY <1>1, <1>4, <1>5, <1>6, <1>8, QuietLemma
<1> QED
  BY <1>7, <1>8 DEF Rename

\* The clean-up of a call that was not committed, and its reply.
LEMMA DiscardStep ==
  ASSUME IInv, NEW s \in Servers,
         Classify(s) \/ Discard(s) \/ StripACL(s) \/ DiscardAgain(s)
  PROVE  IInv'
<1>1. /\ UNCHANGED <<req, exists, perm, tmp>> /\ doubt' \in [Servers -> BOOLEAN]
      /\ pc[s] \in {"classify", "discard", "strip", "rediscard"}
  BY DEF Classify, Misled, Discard, StripACL, DiscardAgain, locals, IInv, LocalsTypeOK
<1>2. tmp[s] \in TempNames /\ tmp[s] \in Names
  BY <1>1 DEF IInv, CallInv, Holding, Discarding, Names
<1>3. /\ pc' \in [Servers -> Stages] /\ result' \in [Servers -> Results]
      /\ orphans' \subseteq TempNames
      /\ pc'[s] \in {"discard", "strip", "rediscard", "done"}
      /\ \A o \in Servers \ {s} : pc'[o] = pc[o]
  <2>1. {"strip", "rediscard"} \subseteq Stages /\ {"flagged", "undeletable"} \subseteq Results
    BY DEF Stages, Holding, Discarding, Results
  <2>2. result[s] \in Results
    BY DEF IInv, LocalsTypeOK
  <2>3. CASE Classify(s)
    BY <2>1, <2>3, AbandonLemma DEF Classify
  <2>4. CASE Discard(s)
    BY <2>1, <2>2, <2>4, GotoLemma, FinishLemma DEF Discard
  <2>5. CASE StripACL(s) \/ DiscardAgain(s)
    BY <2>1, <2>5 DEF StripACL, DiscardAgain, Strand, IInv, LocalsTypeOK, Stages
  <2> QED
    BY <2>3, <2>4, <2>5
<1>4. LocalsTypeOK'
  BY <1>1, <1>3 DEF IInv, LocalsTypeOK
<1>5. CallInv(s)'
  BY <1>1, <1>2, <1>3 DEF CallInv, Committed, Filling, Holding, Discarding
<1>6. CASE UNCHANGED volume
  BY <1>1, <1>3, <1>4, <1>5, <1>6, QuietLemma
<1>7. CASE Unlink(tmp[s])
  <2>1. VolumeInv' /\ \A u \in TempNames \ {tmp[s]} : Untouched(u)
    BY <1>2, <1>7, UnlinkLemma DEF IInv
  <2> QED
    BY <1>1, <1>3, <1>4, <1>5, <2>1, WorkLemma
<1>8. CASE /\ dir[tmp[s]] # NoInode
           /\ SetAttr(tmp[s], [attr[dir[tmp[s]]] EXCEPT !.ext = @ \ {"denyDelete"}])
  <2>1. dir[tmp[s]] \in Inodes
    BY <1>2, <1>8 DEF IInv, VolumeInv, VolumeTypeOK
  <2>2. [attr[dir[tmp[s]]] EXCEPT !.ext = @ \ {"denyDelete"}] \in Attributes
    BY <2>1 DEF IInv, VolumeInv, VolumeTypeOK, Attributes
  <2>3. VolumeInv' /\ dir' = dir /\ data' = data /\ synced' = synced
    BY <1>2, <1>8, <2>2, SetAttrLemma DEF IInv
  <2>4. \A u \in TempNames : Untouched(u)
    BY <2>3 DEF Untouched
  <2> QED
    BY <1>1, <1>3, <1>4, <1>5, <2>3, <2>4, WorkLemma
<1> QED
  BY <1>6, <1>7, <1>8 DEF Classify, Discard, StripACL, DiscardAgain, Exists

\* A call that is over, replied to or lost, leaves nothing to the next.
LEMMA ForgetLemma ==
  ASSUME IInv, NEW S \in SUBSET Servers, Forget(S), orphans' \subseteq TempNames,
         VolumeInv', \A o \in Servers \ S : tmp[o] \in TempNames => Untouched(tmp[o])
  PROVE  IInv'
<1>1. LocalsTypeOK'
  BY DEF Forget, IInv, LocalsTypeOK, Stages, Results
<1>2. TempsDistinct'
  BY DEF Forget, IInv, LocalsTypeOK, TempsDistinct
<1>3. ASSUME NEW o \in Servers PROVE CallInv(o)'
  <2>1. CASE o \in S
    <3>1. pc'[o] = "idle"
      BY <2>1 DEF Forget
    <3> QED
      BY <3>1 DEF CallInv, Committed, Filling, Holding, Discarding
  <2>2. CASE o \notin S
    <3>1. pc'[o] = pc[o] /\ req'[o] = req[o] /\ tmp'[o] = tmp[o]
      BY <2>2 DEF Forget
    <3>2. pc[o] \in Filling => tmp[o] \in TempNames /\ Untouched(tmp[o])
      BY <2>2 DEF IInv, CallInv, Holding
    <3> QED
      BY <3>1, <3>2 DEF IInv, CallInv, Untouched, Filling, Holding
  <2> QED
    BY <2>1, <2>2
<1> QED
  BY <1>1, <1>2, <1>3 DEF IInv

LEMMA ReplyStep ==
  ASSUME IInv, NEW s \in Servers, Reply(s)
  PROVE  IInv'
<1>1. Forget({s}) /\ orphans' = orphans /\ UNCHANGED volume
  BY DEF Reply, Forget, IInv, LocalsTypeOK
<1>2. VolumeInv'
  BY <1>1 DEF IInv, VolumeInv, VolumeTypeOK, VisibleSaved, TempsPrivate, volume
<1> QED
  BY <1>1, <1>2, ForgetLemma DEF Untouched, volume, IInv, LocalsTypeOK

LEMMA CrashStep ==
  ASSUME IInv, NEW s \in Servers, Crash(s)
  PROVE  IInv'
<1>1. Forget({s}) /\ orphans' \subseteq TempNames /\ UNCHANGED volume
  BY DEF Crash, Strand, IInv, LocalsTypeOK
<1>2. VolumeInv'
  BY <1>1 DEF IInv, VolumeInv, VolumeTypeOK, VisibleSaved, TempsPrivate, volume
<1> QED
  BY <1>1, <1>2, ForgetLemma DEF Untouched, volume

\* Power is lost: the durable directory showed whole, synced files only, so what
\* it brings back lost nothing.
LEMMA PowerLossStep ==
  ASSUME IInv, PowerLoss
  PROVE  IInv'
<1>1. /\ dir' = durable /\ durable' = durable /\ synced' = synced /\ attr' = attr
      /\ data' = [i \in Inodes |-> IF synced[i] THEN data[i] ELSE Partial]
  BY DEF PowerLoss, VolumePowerLoss
<1>2. VolumeTypeOK'
  BY <1>1 DEF IInv, VolumeInv, VolumeTypeOK
<1>3. VisibleSaved'
  BY <1>1 DEF IInv, VolumeInv, VolumeTypeOK, VisibleSaved, Names
<1>4. TempsPrivate'
  BY <1>1, NamesAssumption DEF IInv, VolumeInv, TempsPrivate, Names
<1>5. Forget(Servers) /\ orphans' \subseteq TempNames
  BY DEF PowerLoss
<1> QED
  BY <1>2, <1>3, <1>4, <1>5, ForgetLemma DEF VolumeInv

\* Nothing but the volume moves when the environment does.
LEMMA EnvironmentLemma ==
  ASSUME IInv, UNCHANGED <<pc, locals, result, orphans>>, VolumeInv',
         \A u \in TempNames : Untouched(u)
  PROVE  IInv'
<1>1. ASSUME NEW o \in Servers PROVE CallInv(o)'
  BY DEF IInv, CallInv, Untouched, locals, Filling, Holding
<1> QED
  BY <1>1 DEF IInv, LocalsTypeOK, TempsDistinct, locals

LEMMA ExternalStep ==
  ASSUME IInv, External
  PROVE  IInv'
<1>1. PICK p \in Paths : ExternalPut(p) \/ ExternalRemove(p) \/ ExternalChattr(p)
  BY DEF External
<1>2. p \in Names /\ p \notin TempNames
  BY NamesAssumption DEF Names
<1>3. CASE ExternalPut(p)
  <2>1. PICK i \in Inodes, c \in Contents, a \in Attrs :
          /\ Free(i)
          /\ dir' = [dir EXCEPT ![p] = i]
          /\ data' = [data EXCEPT ![i] = c]
          /\ synced' = [synced EXCEPT ![i] = TRUE]
          /\ attr' = [attr EXCEPT ![i] = a]
          /\ durable' = durable
    BY <1>3 DEF ExternalPut
  <2>2. \A n \in Names : dir[n] # i /\ durable[n] # i
    BY <2>1 DEF Free
  <2>3. VolumeTypeOK'
    BY <2>1, AttrsAssumption DEF IInv, VolumeInv, VolumeTypeOK
  <2>4. VisibleSaved'
    BY <2>1, <2>2 DEF IInv, VolumeInv, VolumeTypeOK, VisibleSaved, Names
  <2>5. TempsPrivate'
    BY <1>2, <2>1, <2>2 DEF IInv, VolumeInv, VolumeTypeOK, TempsPrivate, Names
  <2>6. \A u \in TempNames : Untouched(u)
    BY <1>2, <2>1, <2>2 DEF Untouched, IInv, VolumeInv, VolumeTypeOK, Names
  <2> QED
    BY <2>3, <2>4, <2>5, <2>6, EnvironmentLemma DEF VolumeInv, External
<1>4. CASE ExternalRemove(p)
  <2>1. VolumeInv' /\ \A u \in TempNames : Untouched(u)
    BY <1>2, <1>4, UnlinkLemma DEF ExternalRemove, IInv
  <2> QED
    BY <2>1, EnvironmentLemma DEF External
<1>5. CASE ExternalChattr(p)
  <2>1. VolumeInv' /\ dir' = dir /\ data' = data /\ synced' = synced
    BY <1>2, <1>5, AttrsAssumption, SetAttrLemma DEF ExternalChattr, Exists, IInv
  <2> QED
    BY <2>1, EnvironmentLemma DEF External, Untouched
<1> QED
  BY <1>1, <1>3, <1>4, <1>5

LEMMA CheckpointStep ==
  ASSUME IInv, VolumeCheckpoint
  PROVE  IInv'
<1>1. durable' = dir /\ UNCHANGED <<dir, data, synced, attr>>
  BY DEF VolumeCheckpoint, Checkpoint
<1>2. VolumeInv'
  BY <1>1, NamesAssumption
     DEF IInv, VolumeInv, VolumeTypeOK, VisibleSaved, TempsPrivate, Names
<1> QED
  BY <1>1, <1>2, EnvironmentLemma DEF VolumeCheckpoint, Untouched

LEMMA StutterStep ==
  ASSUME IInv, UNCHANGED vars
  PROVE  IInv'
<1>1. VolumeInv' /\ \A u \in TempNames : Untouched(u)
  BY DEF IInv, VolumeInv, VolumeTypeOK, VisibleSaved, TempsPrivate, Untouched, vars, volume
<1> QED
  BY <1>1, EnvironmentLemma DEF vars
-----------------------------------------------------------------------------
LEMMA InitLemma == Init => IInv
<1> SUFFICES ASSUME Init PROVE IInv
  OBVIOUS
<1>1. PICK used \in SUBSET Inodes :
        /\ dir \in [Names -> used \cup {NoInode}]
        /\ data \in [Inodes -> Contents \cup {Partial}]
        /\ \A i \in Inodes : data[i] = Partial <=> i \notin used
        /\ attr \in [Inodes -> Attrs \cup {Fresh}]
  BY DEF Init, VolumeInit
<1>2. durable = dir /\ synced = [i \in Inodes |-> TRUE] /\ \A t \in TempNames : dir[t] = NoInode
  BY DEF Init, VolumeInit
<1>3. VolumeTypeOK
  <2>1. Fresh \in Attributes
    BY DEF Fresh, Attributes, Bits
  <2> QED
    BY <1>1, <1>2, <2>1, AttrsAssumption DEF VolumeTypeOK
<1>4. VisibleSaved
  BY <1>1, <1>2 DEF VisibleSaved, Names
<1>5. TempsPrivate
  BY <1>2 DEF TempsPrivate
<1>6. LocalsTypeOK
  BY DEF Init, LocalsTypeOK, Stages, Results
<1>7. TempsDistinct /\ \A s \in Servers : CallInv(s)
  BY DEF Init, TempsDistinct, CallInv, Committed, Filling, Holding, Discarding
<1> QED
  BY <1>3, <1>4, <1>5, <1>6, <1>7 DEF IInv, VolumeInv

LEMMA NextLemma == IInv /\ [Next]_vars => IInv'
<1> SUFFICES ASSUME IInv, [Next]_vars PROVE IInv'
  OBVIOUS
<1>1. ASSUME NEW s \in Servers, NEW r \in Requests, Call(s, r) PROVE IInv'
  BY <1>1, CallStep
<1>2. ASSUME NEW s \in Servers, Step(s) PROVE IInv'
  BY <1>2, CheckStep, DeleteRemoveStep, LookStep, ReserveStep, CopyStep, FillStep,
     RenameStep, DiscardStep, ReplyStep DEF Step
<1>3. ASSUME NEW s \in Servers, Crash(s) PROVE IInv'
  BY <1>3, CrashStep
<1>4. CASE External
  BY <1>4, ExternalStep
<1>5. CASE VolumeCheckpoint
  BY <1>5, CheckpointStep
<1>6. CASE PowerLoss
  BY <1>6, PowerLossStep
<1>7. CASE UNCHANGED vars
  BY <1>7, StutterStep
<1> QED
  BY <1>1, <1>2, <1>3, <1>4, <1>5, <1>6, <1>7 DEF Next

THEOREM Invariance == Spec => []IInv
<1>1. Init => IInv
  BY InitLemma
<1>2. IInv /\ [Next]_vars => IInv'
  BY NextLemma
<1> QED
  BY <1>1, <1>2, PTL DEF Spec

\* Every variable keeps to its type.
THEOREM TypeCorrect == Spec => []TypeOK
<1>1. IInv => TypeOK
  BY DEF IInv, VolumeInv, LocalsTypeOK, TypeOK
<1> QED
  BY <1>1, Invariance, PTL

\* No path ever holds part of a file: with any number of servers working on the
\* same paths, whichever of them are killed, whenever power is lost, and
\* whatever other programs put in place (atomic.go's AtomicReplace).
THEOREM NeverTornTheorem == Spec => []NeverTorn
<1>1. IInv => NeverTorn
  BY DEF IInv, VolumeInv, VisibleSaved, NeverTorn, Exists
<1> QED
  BY <1>1, Invariance, PTL
-----------------------------------------------------------------------------
(* What becomes of temp files, and of the bytes of files in place. *)

Clean(s) ==
  pc[s] \in Holding /\ dir[tmp[s]] # NoInode =>
    /\ attr[dir[tmp[s]]].flags = {}
    /\ pc[s] = "rediscard" =>
         tmp[s] \in orphans \/ "denyDelete" \notin attr[dir[tmp[s]]].ext

TempInv ==
  /\ IInv
  /\ TempAccounted
  /\ \A s \in Servers : Clean(s)

\* A temp file's entry and attributes are left as they are.
Sealed(t) == dir'[t] = dir[t] /\ (dir[t] # NoInode => attr'[dir[t]] = attr[dir[t]])

LEMMA CreateSeals ==
  ASSUME VolumeInv, NEW t \in TempNames, NEW bytes, NEW a \in Attributes,
         CreateAs(t, bytes, a)
  PROVE  /\ \A u \in TempNames \ {t} : Sealed(u)
         /\ dir'[t] # NoInode => attr'[dir'[t]] = a
<1>1. PICK i \in Inodes :
        /\ Free(i)
        /\ dir' = [dir EXCEPT ![t] = i]
        /\ attr' = [attr EXCEPT ![i] = a]
  BY DEF CreateAs
<1>2. dir'[t] = i /\ attr'[i] = a
  BY <1>1 DEF VolumeInv, VolumeTypeOK, Names
<1>3. \A u \in TempNames \ {t} : dir'[u] = dir[u] /\ dir[u] # i
  BY <1>1 DEF VolumeInv, VolumeTypeOK, Names, Free
<1> QED
  BY <1>1, <1>2, <1>3 DEF Sealed, VolumeInv, VolumeTypeOK

LEMMA SetAttrSeals ==
  ASSUME VolumeInv, NEW t \in TempNames, dir[t] # NoInode, NEW a, SetAttr(t, a)
  PROVE  /\ dir' = dir /\ attr'[dir[t]] = a
         /\ \A u \in TempNames \ {t} : Sealed(u)
<1>1. \A u \in TempNames \ {t} : dir[u] # dir[t]
  BY DEF VolumeInv, TempsPrivate, Names
<1>2. dir[t] \in Inodes
  BY DEF VolumeInv, VolumeTypeOK, Names
<1> QED
  BY <1>1, <1>2 DEF SetAttr, Sealed, VolumeInv, VolumeTypeOK

LEMMA UnlinkSeals ==
  ASSUME VolumeInv, NEW n \in Names, Unlink(n)
  PROVE  dir'[n] = NoInode /\ \A u \in TempNames \ {n} : Sealed(u)
BY DEF Unlink, Sealed, VolumeInv, VolumeTypeOK, Names

LEMMA RenameSeals ==
  ASSUME VolumeInv, NEW t \in TempNames, NEW p \in Paths, RenameEntry(t, p)
  PROVE  dir'[t] = NoInode /\ \A u \in TempNames \ {t} : Sealed(u)
<1>1. t \in Names /\ p \in Names /\ t # p /\ p \notin TempNames
  BY NamesAssumption DEF Names
<1> QED
  BY <1>1 DEF RenameEntry, Sealed, VolumeInv, VolumeTypeOK, Names
-----------------------------------------------------------------------------
\* A step of s on its own temp file: the other calls' stay, and s's own is
\* accounted for.
LEMMA SealLemma ==
  ASSUME TempInv, IInv', NEW s \in Servers,
         \A o \in Servers \ {s} : pc'[o] = pc[o] /\ tmp'[o] = tmp[o],
         \A u \in TempNames \ {tmp'[s]} : Sealed(u),
         tmp'[s] = tmp[s] \/ pc[s] \notin Holding,
         orphans \ {tmp'[s]} \subseteq orphans',
         tmp'[s] \in TempNames /\ dir'[tmp'[s]] # NoInode =>
           tmp'[s] \in orphans' \/ pc'[s] \in Holding,
         Clean(s)'
  PROVE  TempInv'
<1>1. ASSUME NEW o \in Servers \ {s} PROVE Clean(o)'
  <2>1. SUFFICES ASSUME pc'[o] \in Holding, dir'[tmp'[o]] # NoInode PROVE Clean(o)'
    BY DEF Clean
  <2>2. tmp'[o] \in TempNames /\ tmp'[o] # tmp'[s]
    BY <2>1, MarkersAssumption DEF IInv, CallInv, TempsDistinct
  <2>3. Sealed(tmp'[o])
    BY <2>2
  <2>4. pc'[o] = pc[o] /\ tmp'[o] = tmp[o] /\ (tmp[o] \in orphans => tmp'[o] \in orphans')
    BY <2>2
  <2>5. Clean(o)
    BY DEF TempInv
  <2> QED
    BY <2>1, <2>3, <2>4, <2>5 DEF Clean, Sealed
<1>2. ASSUME NEW t \in TempNames, dir'[t] # NoInode
      PROVE  t \in orphans' \/ \E o \in Servers : tmp'[o] = t /\ pc'[o] \in Holding
  <2>1. CASE t = tmp'[s]
    BY <1>2, <2>1
  <2>2. CASE t # tmp'[s]
    <3>1. dir[t] # NoInode
      BY <1>2, <2>2 DEF Sealed
    <3>2. t \in orphans \/ \E o \in Servers : tmp[o] = t /\ pc[o] \in Holding
      BY <3>1 DEF TempInv, TempAccounted, Exists
    <3> QED
      BY <2>2, <3>2
  <2> QED
    BY <2>1, <2>2
<1>3. TempAccounted'
  BY <1>2 DEF TempAccounted, Exists
<1> QED
  BY <1>1, <1>3 DEF TempInv

\* A step that leaves the volume's temp files alone, outside Holding before and after.
LEMMA AsideLemma ==
  ASSUME TempInv, IInv', NEW s \in Servers,
         \A o \in Servers \ {s} : pc'[o] = pc[o] /\ tmp'[o] = tmp[o],
         \A u \in TempNames : Sealed(u), orphans' = orphans,
         pc[s] \notin Holding, pc'[s] \notin Holding
  PROVE  TempInv'
<1>1. tmp'[s] \in TempNames /\ dir'[tmp'[s]] # NoInode => tmp'[s] \in orphans \/ pc'[s] \in Holding
      \/ \E o \in Servers \ {s} : tmp[o] = tmp'[s] /\ pc[o] \in Holding
  BY DEF Sealed, TempInv, TempAccounted, Exists
<1>2. \A o \in Servers \ {s} : tmp[o] \in TempNames => tmp'[o] # tmp'[s]
  BY MarkersAssumption DEF IInv, TempsDistinct
<1>3. tmp'[s] \in TempNames /\ dir'[tmp'[s]] # NoInode => tmp'[s] \in orphans \/ pc'[s] \in Holding
  BY <1>1, <1>2
<1>4. Clean(s)'
  BY DEF Clean
<1> QED
  BY <1>3, <1>4, SealLemma

LEMMA AsideStep ==
  ASSUME TempInv, IInv', NEW s \in Servers,
         \/ \E r \in Requests : Call(s, r)
         \/ Decode(s) \/ CheckLstat(s) \/ CheckHash(s) \/ DeleteLstat(s) \/ DeleteHash(s)
         \/ DeleteRemove(s) \/ Lstat(s) \/ ProbeWritable(s) \/ ReserveFails(s) \/ Reply(s)
  PROVE  TempInv'
<1> DEFINE Outside == {"idle", "decode", "check", "hash", "deleteLstat", "deleteHash",
                       "remove", "lstat", "probe", "reserve", "done"}
<1>1. \A stage \in Outside : stage \notin Holding
  BY DEF Holding, Filling, Discarding
<1>2. pc[s] \in Outside /\ pc'[s] \in Outside /\ orphans' = orphans
      /\ \A o \in Servers \ {s} : pc'[o] = pc[o] /\ tmp'[o] = tmp[o]
  <2>1. pc \in [Servers -> Stages] /\ tmp \in [Servers -> TempNames \cup {NoName}]
    BY DEF TempInv, IInv, LocalsTypeOK
  <2>2. CASE \E r \in Requests : Call(s, r)
    BY <2>1, <2>2 DEF Call, Goto
  <2>3. CASE Decode(s) \/ CheckLstat(s) \/ CheckHash(s)
    BY <2>1, <2>3 DEF Decode, CheckLstat, CheckHash, Proceed, Goto, Finish, locals
  <2>4. CASE DeleteLstat(s) \/ DeleteHash(s) \/ DeleteRemove(s)
    BY <2>1, <2>4 DEF DeleteLstat, DeleteHash, DeleteRemove, Goto, Finish, locals
  <2>5. CASE Lstat(s) \/ ProbeWritable(s) \/ ReserveFails(s)
    BY <2>1, <2>5 DEF Lstat, ProbeWritable, ReserveFails, Goto, Finish, locals
  <2>6. CASE Reply(s)
    BY <2>1, <2>6 DEF Reply
  <2> QED
    BY <2>2, <2>3, <2>4, <2>5, <2>6
<1>3. \A u \in TempNames : Sealed(u)
  <2>1. CASE UNCHANGED volume
    BY <2>1 DEF Sealed, volume
  <2>2. CASE Unlink(Path(s))
    <3>1. Path(s) \in Names /\ Path(s) \notin TempNames
      BY NamesAssumption DEF Path, TempInv, IInv, LocalsTypeOK, Requests, Names
    <3> QED
      BY <2>2, <3>1, UnlinkSeals DEF TempInv, IInv
  <2> QED
    BY <2>1, <2>2 DEF Call, Decode, CheckLstat, CheckHash, DeleteLstat, DeleteHash,
       DeleteRemove, Lstat, ProbeWritable, ReserveFails, Reply
<1> QED
  BY <1>1, <1>2, <1>3, AsideLemma

LEMMA ReserveKeeps ==
  ASSUME TempInv, IInv', NEW s \in Servers, Reserve(s)
  PROVE  TempInv'
<1>1. PICK t \in TempNames :
        /\ dir[t] = NoInode
        /\ tmp' = [tmp EXCEPT ![s] = t]
        /\ IF exists[s] THEN Goto(s, "copy") /\ UNCHANGED volume
           ELSE Goto(s, "write") /\ CreateAs(t, Partial, Fresh)
  BY DEF Reserve, Exists
<1>2. /\ tmp'[s] = t /\ pc[s] \notin Holding /\ orphans' = orphans
      /\ pc'[s] \in {"copy", "write"}
      /\ \A o \in Servers \ {s} : pc'[o] = pc[o] /\ tmp'[o] = tmp[o]
  BY <1>1 DEF Reserve, Goto, TempInv, IInv, LocalsTypeOK, Holding, Filling, Discarding
<1>3. pc'[s] \in Holding /\ pc'[s] # "rediscard"
  BY <1>2 DEF Holding, Filling
<1>4. Fresh \in Attributes /\ Fresh.flags = {}
  BY DEF Fresh, Attributes, Bits
<1>5. \A u \in TempNames \ {t} : Sealed(u)
  BY <1>1, <1>4, CreateSeals DEF TempInv, IInv, Sealed, volume
<1>6. dir'[t] # NoInode => attr'[dir'[t]] = Fresh
  BY <1>1, <1>4, CreateSeals DEF TempInv, IInv, volume
<1>7. Clean(s)'
  BY <1>2, <1>3, <1>4, <1>6 DEF Clean
<1> QED
  BY <1>2, <1>3, <1>5, <1>7, SealLemma

\* The copy, the work on it, and everything up to the last Remove: s keeps its
\* temp file, and the attributes it may have.
LEMMA WorkKeeps ==
  ASSUME TempInv, IInv', NEW s \in Servers,
         Copy(s) \/ Chmod(s) \/ Truncate(s) \/ Write(s) \/ Sync(s) \/ Classify(s)
  PROVE  TempInv'
<1> DEFINE t == tmp[s]
<1>1. /\ tmp' = tmp /\ orphans' = orphans /\ pc[s] \in Filling \cup {"classify"}
      /\ pc'[s] \in {"chmod", "truncate", "write", "sync", "rename", "discard"}
      /\ \A o \in Servers \ {s} : pc'[o] = pc[o]
  BY DEF Copy, Chmod, Truncate, Write, Sync, Classify, Misled, Goto, Abandon, locals, TempInv, IInv,
     LocalsTypeOK, Filling
<1>2. pc[s] \in Holding /\ pc'[s] \in Holding /\ pc'[s] # "rediscard"
  BY <1>1 DEF Holding, Filling, Discarding
<1>3. t \in TempNames /\ t \in Names
  BY <1>2 DEF TempInv, IInv, CallInv, Names
<1>4. dir[t] # NoInode => dir[t] \in Inodes /\ attr[dir[t]] \in Attributes /\ attr[dir[t]].flags = {}
  BY <1>2, <1>3 DEF TempInv, IInv, VolumeInv, VolumeTypeOK, Clean
<1>5. /\ \A u \in TempNames \ {t} : Sealed(u)
      /\ dir'[t] # NoInode => attr'[dir'[t]].flags = {}
  <2>1. CASE UNCHANGED <<dir, attr>>
    BY <1>4, <2>1 DEF Sealed
  <2>2. CASE \E bytes \in Contents \cup {Partial} :
               CanHash(s) /\ CreateAs(t, bytes, Copied(attr[dir[Path(s)]]))
    <3>1. dir[Path(s)] \in Inodes
      BY <2>2 DEF CanHash, IsFile, Exists, Path, TempInv, IInv, LocalsTypeOK, Requests,
         VolumeInv, VolumeTypeOK, Names
    <3> DEFINE a == Copied(attr[dir[Path(s)]])
    <3>2. a \in Attributes /\ a.flags = {}
      <4>1. attr[dir[Path(s)]] \in Attributes
        BY <3>1 DEF TempInv, IInv, VolumeInv, VolumeTypeOK
      <4> QED
        BY <4>1 DEF Copied, Attributes
    <3>3. PICK bytes \in Contents \cup {Partial} : CreateAs(t, bytes, Copied(attr[dir[Path(s)]]))
      BY Zenon, <2>2
    <3> HIDE DEF a
    <3>4. (\A u \in TempNames \ {t} : Sealed(u)) /\ (dir'[t] # NoInode => attr'[dir'[t]] = a)
      BY <1>3, <3>2, <3>3, CreateSeals DEF TempInv, IInv, a
    <3> QED
      BY <3>2, <3>4
  <2>3. CASE dir[t] # NoInode /\ SetAttr(t, [attr[dir[t]] EXCEPT !.mode = perm[s]])
    <3> DEFINE a == [attr[dir[t]] EXCEPT !.mode = perm[s]]
    <3>1. a.flags = {} /\ SetAttr(t, a)
      BY <1>4, <2>3 DEF Attributes
    <3> HIDE DEF a
    <3>2. dir' = dir /\ attr'[dir[t]] = a /\ \A u \in TempNames \ {t} : Sealed(u)
      BY <1>3, <2>3, <3>1, SetAttrSeals DEF TempInv, IInv
    <3> QED
      BY <3>1, <3>2
  <2>4. Copy(s) => \/ UNCHANGED volume
                   \/ \E bytes \in Contents \cup {Partial} :
                        CanHash(s) /\ CreateAs(t, bytes, Copied(attr[dir[Path(s)]]))
    <3>1. CanHash(s) => data[dir[Path(s)]] \in Contents \cup {Partial}
      BY DEF CanHash, IsFile, Exists, Path, TempInv, IInv, LocalsTypeOK, Requests,
         VolumeInv, VolumeTypeOK, Names
    <3> QED
      BY <3>1 DEF Copy
  <2>5. Chmod(s) => dir[t] # NoInode
    BY DEF Chmod, TempInv, IInv, CallInv, Filling
  <2> QED
    BY <2>1, <2>2, <2>3, <2>4, <2>5
       DEF Chmod, Truncate, Write, Sync, Classify, WriteData, volume
<1>6. Clean(s)'
  BY <1>1, <1>2, <1>5 DEF Clean
<1> QED
  BY <1>1, <1>2, <1>5, <1>6, SealLemma

LEMMA RenameKeeps ==
  ASSUME TempInv, IInv', NEW s \in Servers, Rename(s)
  PROVE  TempInv'
<1>1. /\ tmp' = tmp /\ orphans' = orphans /\ pc[s] = "rename"
      /\ \A o \in Servers \ {s} : pc'[o] = pc[o]
      /\ \/ pc'[s] = "done" /\ RenameEntry(tmp[s], Path(s))
         \/ pc'[s] \in {"classify", "discard"} /\ UNCHANGED volume
  BY DEF Rename, Misled, Goto, Finish, Abandon, locals, TempInv, IInv, LocalsTypeOK
<1>2. tmp[s] \in TempNames /\ Path(s) \in Paths /\ pc[s] \in Holding
  BY <1>1 DEF Path, TempInv, IInv, CallInv, LocalsTypeOK, Requests, Holding, Filling
<1>3. CASE pc'[s] = "done" /\ RenameEntry(tmp[s], Path(s))
  <2>1. dir'[tmp[s]] = NoInode /\ \A u \in TempNames \ {tmp[s]} : Sealed(u)
    BY <1>2, <1>3, RenameSeals DEF TempInv, IInv
  <2>2. Clean(s)'
    BY <1>1, <2>1 DEF Clean
  <2> QED
    BY <1>1, <2>1, <2>2, SealLemma
<1>4. CASE pc'[s] \in {"classify", "discard"} /\ UNCHANGED volume
  <2>1. pc'[s] \in Holding /\ \A u \in TempNames : Sealed(u)
    BY <1>4 DEF Holding, Discarding, Sealed, volume
  <2>2. Clean(s)'
    BY <1>1, <1>2, <1>4 DEF Clean, TempInv, volume
  <2> QED
    BY <1>1, <2>1, <2>2, SealLemma
<1> QED
  BY <1>1, <1>3, <1>4

\* discardTemp: the call lets go of its temp file once it is gone, or once the strip
\* or the second Remove has met an error.
LEMMA DiscardKeeps ==
  ASSUME TempInv, IInv', NEW s \in Servers, Discard(s) \/ StripACL(s) \/ DiscardAgain(s)
  PROVE  TempInv'
<1> DEFINE t == tmp[s]
           Stranded == UNCHANGED volume /\ Strand(s)
<1>1. /\ tmp' = tmp /\ orphans \ {t} \subseteq orphans' /\ pc[s] \in Discarding
      /\ \A o \in Servers \ {s} : pc'[o] = pc[o]
  BY DEF Discard, StripACL, DiscardAgain, Strand, Goto, Finish, locals, TempInv, IInv,
     LocalsTypeOK, Discarding
<1>2. pc[s] \in Holding /\ t \in TempNames /\ t \in Names
  BY <1>1 DEF TempInv, IInv, CallInv, Holding, Names
<1>3. dir[t] # NoInode => dir[t] \in Inodes /\ attr[dir[t]] \in Attributes /\ attr[dir[t]].flags = {}
  BY <1>2 DEF TempInv, IInv, VolumeInv, VolumeTypeOK, Clean
<1>4. CASE Unlink(t)
  <2>1. dir'[t] = NoInode /\ \A u \in TempNames \ {t} : Sealed(u)
    BY <1>2, <1>4, UnlinkSeals DEF TempInv, IInv
  <2>2. Clean(s)'
    BY <1>1, <2>1 DEF Clean
  <2> QED
    BY <1>1, <2>1, <2>2, SealLemma
<1>5. CASE Discard(s) /\ UNCHANGED volume /\ Goto(s, "strip")
  <2>1. pc'[s] = "strip" /\ \A u \in TempNames : Sealed(u)
    BY <1>5 DEF Goto, TempInv, IInv, LocalsTypeOK, Sealed, volume
  <2>2. Clean(s)'
    BY <1>1, <1>3, <1>5, <2>1 DEF Clean, volume
  <2> QED
    BY <1>1, <2>1, <2>2, SealLemma DEF Holding, Discarding
<1>6. CASE Stranded
  <2>1. /\ dir'[t] = dir[t] /\ attr' = attr
        /\ \A u \in TempNames : Sealed(u)
        /\ dir[t] # NoInode => t \in orphans'
    BY <1>2, <1>6 DEF Sealed, volume, Strand, Exists
  <2>2. Clean(s)'
    BY <1>1, <1>3, <2>1 DEF Clean
  <2> QED
    BY <1>1, <2>1, <2>2, SealLemma
<1>7. CASE StripACL(s) /\ ~Stranded
  <2>1. pc'[s] = "rediscard"
    BY <1>7 DEF StripACL, TempInv, IInv, LocalsTypeOK
  <2>2. CASE dir[t] = NoInode
    <3>1. UNCHANGED volume
      BY <1>7, <2>2 DEF StripACL, Exists
    <3>2. Clean(s)' /\ \A u \in TempNames : Sealed(u)
      BY <1>1, <2>2, <3>1 DEF Clean, Sealed, volume
    <3> QED
      BY <1>1, <2>1, <3>2, SealLemma DEF Holding, Discarding
  <2>3. CASE dir[t] # NoInode
    <3> DEFINE a == [attr[dir[t]] EXCEPT !.ext = @ \ {"denyDelete"}]
    <3>1. SetAttr(t, a)
      BY <1>7, <2>3 DEF StripACL, Exists
    <3>2. a.flags = {} /\ "denyDelete" \notin a.ext
      BY <1>3, <2>3 DEF Attributes
    <3> HIDE DEF a
    <3>3. dir' = dir /\ attr'[dir[t]] = a /\ \A u \in TempNames \ {t} : Sealed(u)
      BY <1>2, <2>3, <3>1, SetAttrSeals DEF TempInv, IInv
    <3>4. Clean(s)'
      BY <1>1, <3>2, <3>3 DEF Clean
    <3> QED
      BY <1>1, <2>1, <3>3, <3>4, SealLemma DEF Holding, Discarding
  <2> QED
    BY <2>2, <2>3
<1>8. CASE DiscardAgain(s) /\ UNCHANGED <<volume, orphans>> /\ ~Removable(t)
  <2>1. pc[s] = "rediscard" /\ pc'[s] = "done"
    BY <1>8 DEF DiscardAgain, TempInv, IInv, LocalsTypeOK
  <2>2. dir[t] # NoInode => t \in orphans
    BY <1>2, <1>3, <1>8, <2>1 DEF Removable, Protected, Exists, TempInv, Clean
  <2>3. dir'[t] = dir[t] /\ orphans' = orphans /\ \A u \in TempNames : Sealed(u)
    BY <1>8 DEF Sealed, volume
  <2>4. Clean(s)'
    BY <2>1 DEF Clean, Holding, Filling, Discarding
  <2> QED
    BY <1>1, <2>2, <2>3, <2>4, SealLemma
<1> QED
  BY <1>4, <1>5, <1>6, <1>7, <1>8 DEF Discard, DiscardAgain
-----------------------------------------------------------------------------
(* Crashes, and the environment. *)

LEMMA CrashKeeps ==
  ASSUME TempInv, IInv', NEW s \in Servers, Crash(s)
  PROVE  TempInv'
<1>1. /\ UNCHANGED volume
      /\ orphans' = orphans \cup {t \in TempNames : t = tmp[s] /\ dir[t] # NoInode}
      /\ pc'[s] = "idle"
      /\ \A o \in Servers \ {s} : pc'[o] = pc[o] /\ tmp'[o] = tmp[o]
  BY DEF Crash, Strand, Forget, Exists
<1>2. ASSUME NEW o \in Servers PROVE Clean(o)'
  BY <1>1 DEF TempInv, Clean, volume, Holding, Filling, Discarding
<1>3. TempAccounted'
  BY <1>1 DEF TempInv, TempAccounted, Exists, volume
<1> QED
  BY <1>2, <1>3 DEF TempInv

LEMMA PowerLossKeeps ==
  ASSUME TempInv, IInv', PowerLoss
  PROVE  TempInv'
<1>1. dir' = durable /\ orphans' = {t \in TempNames : durable[t] # NoInode}
      /\ \A s \in Servers : pc'[s] = "idle"
  BY DEF PowerLoss, VolumePowerLoss, Forget
<1>2. TempAccounted'
  BY <1>1 DEF TempAccounted, Exists
<1>3. \A s \in Servers : Clean(s)'
  BY <1>1 DEF Clean, Holding, Filling, Discarding
<1> QED
  BY <1>2, <1>3 DEF TempInv

\* Other programs leave temp files alone, and no path is a second name of one.
LEMMA EnvironmentSeals ==
  ASSUME TempInv, External \/ VolumeCheckpoint \/ UNCHANGED vars
  PROVE  \A u \in TempNames : Sealed(u)
<1>1. CASE VolumeCheckpoint \/ UNCHANGED vars
  BY <1>1 DEF VolumeCheckpoint, Checkpoint, Sealed, vars, volume
<1>2. CASE External
  <2>1. PICK p \in Paths : ExternalPut(p) \/ ExternalRemove(p) \/ ExternalChattr(p)
    BY <1>2 DEF External
  <2>2. p \in Names /\ p \notin TempNames
    BY NamesAssumption DEF Names
  <2>3. CASE ExternalPut(p)
    <3>1. PICK i \in Inodes, a \in Attrs :
            Free(i) /\ dir' = [dir EXCEPT ![p] = i] /\ attr' = [attr EXCEPT ![i] = a]
      BY <2>3 DEF ExternalPut
    <3>2. \A u \in TempNames : dir'[u] = dir[u] /\ dir[u] # i
      BY <2>2, <3>1 DEF Free, TempInv, IInv, VolumeInv, VolumeTypeOK, Names
    <3> QED
      BY <3>1, <3>2 DEF Sealed, TempInv, IInv, VolumeInv, VolumeTypeOK
  <2>4. CASE ExternalRemove(p)
    BY <2>2, <2>4, UnlinkSeals DEF ExternalRemove, TempInv, IInv
  <2>5. CASE ExternalChattr(p)
    <3>1. \A u \in TempNames : dir[u] # NoInode => dir[p] # dir[u]
      BY <2>2 DEF TempInv, IInv, VolumeInv, TempsPrivate
    <3> QED
      BY <2>5, <3>1 DEF ExternalChattr, SetAttr, Sealed, TempInv, IInv, VolumeInv, VolumeTypeOK
  <2> QED
    BY <2>1, <2>3, <2>4, <2>5
<1> QED
  BY <1>1, <1>2

LEMMA EnvironmentKeeps ==
  ASSUME TempInv, IInv', External \/ VolumeCheckpoint \/ UNCHANGED vars
  PROVE  TempInv'
<1>1. pc' = pc /\ tmp' = tmp /\ orphans' = orphans
  BY DEF External, VolumeCheckpoint, vars, locals
<1>2. \A u \in TempNames : Sealed(u)
  BY EnvironmentSeals
<1>3. ASSUME NEW s \in Servers PROVE Clean(s)'
  <2>1. pc[s] \in Holding => Sealed(tmp[s])
    BY <1>2 DEF TempInv, IInv, CallInv
  <2> QED
    BY <1>1, <2>1 DEF Clean, TempInv, Sealed
<1>4. TempAccounted'
  BY <1>1, <1>2 DEF TempInv, TempAccounted, Exists, Sealed
<1> QED
  BY <1>3, <1>4 DEF TempInv

LEMMA TempNext == TempInv /\ [Next]_vars => TempInv'
<1> SUFFICES ASSUME TempInv, [Next]_vars PROVE TempInv'
  OBVIOUS
<1>1. IInv'
  BY NextLemma DEF TempInv
<1>2. ASSUME NEW s \in Servers, Step(s) PROVE TempInv'
  BY <1>1, <1>2, AsideStep, ReserveKeeps, WorkKeeps, RenameKeeps, DiscardKeeps DEF Step
<1>3. ASSUME NEW s \in Servers, NEW r \in Requests, Call(s, r) PROVE TempInv'
  BY <1>1, <1>3, AsideStep
<1> QED
  BY <1>1, <1>2, <1>3, CrashKeeps, PowerLossKeeps, EnvironmentKeeps DEF Next

LEMMA TempInit == Init => TempInv
<1> SUFFICES ASSUME Init PROVE TempInv
  OBVIOUS
<1>1. (\A t \in TempNames : dir[t] = NoInode) /\ \A s \in Servers : pc[s] = "idle"
  BY DEF Init, VolumeInit
<1>2. TempAccounted
  BY <1>1 DEF TempAccounted, Exists
<1>3. \A s \in Servers : Clean(s)
  BY <1>1 DEF Clean, Holding, Filling, Discarding
<1> QED
  BY <1>2, <1>3, InitLemma DEF TempInv

\* A temp file left in the directory belongs to a call under way, to a process that
\* died, or to a call whose discardTemp met an error after its first Remove had
\* failed; any other failure of a call leaves none behind.
THEOREM NoTempLeftBehind == Spec => []TempAccounted
<1>1. TempInv => TempAccounted
  BY DEF TempInv
<1> QED
  BY <1>1, TempInit, TempNext, PTL DEF Spec
-----------------------------------------------------------------------------
(* The bytes of a file that is in place. *)

\* The bytes of every inode some path denotes stay as they are.
BytesKept == \A p \in Paths : dir[p] # NoInode => data'[dir[p]] = data[dir[p]]

\* A step of the server writes to an inode nobody has a name for, or to its own
\* temp file, whose inode no path denotes.
LEMMA StepKeepsBytes ==
  ASSUME IInv, NEW s \in Servers, Step(s)
  PROVE  BytesKept
<1>1. CASE data' = data
  BY <1>1 DEF BytesKept
<1>2. ASSUME NEW i \in Inodes, Free(i), NEW bytes, data' = [data EXCEPT ![i] = bytes]
      PROVE  BytesKept
  <2>1. \A p \in Paths : dir[p] # i
    BY <1>2 DEF Free, Names
  <2> QED
    BY <1>2, <2>1 DEF BytesKept, IInv, VolumeInv, VolumeTypeOK, Names
<1>3. ASSUME NEW t \in TempNames, NEW bytes, dir[t] # NoInode, WriteData(t, bytes)
      PROVE  BytesKept
  <2>1. \A p \in Paths : dir[p] # dir[t]
    BY <1>3, NamesAssumption DEF IInv, VolumeInv, TempsPrivate, Names
  <2> QED
    BY <1>3, <2>1 DEF WriteData, BytesKept, IInv, VolumeInv, VolumeTypeOK, Names
<1>4. CASE Reserve(s) \/ Copy(s)
  <2>1. \/ UNCHANGED volume
        \/ \E n, bytes, a : CreateAs(n, bytes, a)
    BY <1>4 DEF Reserve, Copy
  <2> QED
    BY <1>1, <1>2, <2>1 DEF CreateAs, volume
<1>5. CASE Truncate(s) \/ Write(s)
  <2>1. tmp[s] \in TempNames /\ dir[tmp[s]] # NoInode
    BY <1>5 DEF Truncate, Write, IInv, CallInv, Holding, Filling
  <2>2. UNCHANGED volume \/ \E bytes : WriteData(tmp[s], bytes)
    BY <1>5 DEF Truncate, Write
  <2> QED
    BY <1>1, <1>3, <2>1, <2>2 DEF volume
<1>6. CASE DeleteRemove(s) \/ Chmod(s) \/ Sync(s) \/ Rename(s)
  BY <1>1, <1>6 DEF DeleteRemove, Chmod, Sync, Rename, Unlink, SetAttr, RenameEntry, volume
<1>7. CASE Discard(s) \/ StripACL(s) \/ DiscardAgain(s)
  BY <1>1, <1>7 DEF Discard, StripACL, DiscardAgain, Unlink, SetAttr, volume
<1>8. CASE \/ Decode(s) \/ CheckLstat(s) \/ CheckHash(s) \/ DeleteLstat(s) \/ DeleteHash(s)
           \/ Lstat(s) \/ ProbeWritable(s) \/ ReserveFails(s) \/ Classify(s) \/ Reply(s)
  BY <1>1, <1>8 DEF Decode, CheckLstat, CheckHash, DeleteLstat, DeleteHash, Lstat,
     ProbeWritable, ReserveFails, Classify, Reply, volume
<1> QED
  BY <1>4, <1>5, <1>6, <1>7, <1>8 DEF Step

LEMMA EnvironmentKeepsBytes ==
  ASSUME IInv, External \/ VolumeCheckpoint \/ PowerLoss \/ UNCHANGED volume
  PROVE  BytesKept
<1>1. CASE data' = data
  BY <1>1 DEF BytesKept
<1>2. CASE PowerLoss
  <2>1. \A p \in Paths : dir[p] # NoInode => dir[p] \in Inodes /\ synced[dir[p]]
    BY DEF IInv, VolumeInv, VolumeTypeOK, VisibleSaved, Names
  <2> QED
    BY <1>2, <2>1 DEF PowerLoss, VolumePowerLoss, BytesKept
<1>3. ASSUME NEW p \in Paths, ExternalPut(p) PROVE BytesKept
  <2>1. PICK i \in Inodes, c \in Contents : Free(i) /\ data' = [data EXCEPT ![i] = c]
    BY <1>3 DEF ExternalPut
  <2>2. \A q \in Paths : dir[q] # i
    BY <2>1 DEF Free, Names
  <2> QED
    BY <2>1, <2>2 DEF BytesKept, IInv, VolumeInv, VolumeTypeOK, Names
<1> QED
  BY <1>1, <1>2, <1>3 DEF External, ExternalRemove, ExternalChattr, Unlink, SetAttr,
     VolumeCheckpoint, Checkpoint, volume

\* Nothing rewrites a file in place: a reader, or a second hard link, keeps the bytes
\* it had, whatever happens to the path (atomic.go's AtomicReplace).
THEOREM FilesNeverRewritten == Spec => VisibleImmutable
<1>1. IInv /\ [Next]_vars => BytesKept
  <2> SUFFICES ASSUME IInv, [Next]_vars PROVE BytesKept
    OBVIOUS
  <2>1. ASSUME NEW s \in Servers, (\E r \in Requests : Call(s, r)) \/ Crash(s)
        PROVE  BytesKept
    BY <2>1, EnvironmentKeepsBytes DEF Call, Crash
  <2>2. UNCHANGED vars => UNCHANGED volume
    BY DEF vars
  <2> QED
    BY <2>1, <2>2, StepKeepsBytes, EnvironmentKeepsBytes DEF Next
<1>2. IInv /\ [Next]_vars => [\A p \in Paths : Exists(p) => data'[dir[p]] = data[dir[p]]]_vars
  BY <1>1 DEF BytesKept, Exists
<1> QED
  BY <1>2, InitLemma, NextLemma, PTL DEF Spec, VisibleImmutable
-----------------------------------------------------------------------------
(* A server alone on its directory: what replaces a file has its attributes, *)
(* and a refusal names what stands in the way.                               *)

\* One server, and no other program writes to the directory.
Alone == ExternalOps = {} /\ \A s, other \in Servers : s = other

Looked == {"probe", "reserve", "classify"} \cup Filling

Blamed(s) == result[s] \in {"flagged", "undeletable"}

\* What AtomicReplace knows of its target, and what the temp file has of it, by stage.
Carried(s) ==
  /\ pc[s] \in Looked => exists[s] = IsFile(Path(s))
  /\ pc[s] \in Looked /\ exists[s] => perm[s] = attr[dir[Path(s)]].mode \ {"s"}
  /\ pc[s] \in {"reserve"} \cup Filling /\ exists[s] => MayWrite(Path(s)) \/ Locked(Path(s))
  /\ pc[s] \in Filling \ {"copy"} /\ exists[s] =>
       attr[dir[tmp[s]]].ext = attr[dir[Path(s)]].ext
  /\ pc[s] \in Filling \ {"copy", "chmod"} /\ exists[s] => attr[dir[tmp[s]]].mode = perm[s]
  /\ pc[s] = "classify" => doubt[s] \/ Protected(Path(s))
  /\ Blamed(s) => pc[s] \in Discarding \cup {"done"}
  /\ result[s] = "flagged" => Locked(Path(s))
  /\ result[s] = "undeletable" /\ ~doubt[s] => Protected(Path(s)) /\ ~Locked(Path(s))

CarriedInv == TempInv /\ \A s \in Servers : Carried(s)

\* Work on a temp file leaves the entries at paths, and their attributes, alone.
LEMMA PathsSealed ==
  ASSUME VolumeInv, NEW p \in Paths, NEW t \in TempNames,
         \/ UNCHANGED volume
         \/ \E bytes, a : CreateAs(t, bytes, a)
         \/ \E bytes : WriteData(t, bytes)
         \/ dir[t] # NoInode /\ \E a : SetAttr(t, a)
         \/ Unlink(t)
  PROVE  Sealed(p)
<1>1. p \in Names /\ t \in Names /\ p # t
  BY NamesAssumption DEF Names
<1>2. ASSUME NEW bytes, NEW a, CreateAs(t, bytes, a) PROVE Sealed(p)
  <2>1. PICK i \in Inodes :
          Free(i) /\ dir' = [dir EXCEPT ![t] = i] /\ attr' = [attr EXCEPT ![i] = a]
    BY <1>2 DEF CreateAs
  <2>2. dir'[p] = dir[p] /\ dir[p] # i
    BY <1>1, <2>1 DEF Free, VolumeInv, VolumeTypeOK
  <2> QED
    BY <1>1, <2>1, <2>2 DEF Sealed, VolumeInv, VolumeTypeOK
<1>3. ASSUME dir[t] # NoInode, NEW a, SetAttr(t, a) PROVE Sealed(p)
  <2>1. dir[p] # dir[t]
    BY <1>1, <1>3 DEF VolumeInv, TempsPrivate
  <2> QED
    BY <1>1, <1>3, <2>1 DEF SetAttr, Sealed, VolumeInv, VolumeTypeOK
<1>4. UNCHANGED volume => Sealed(p)
  BY DEF volume, Sealed
<1>5. ASSUME Unlink(t) PROVE Sealed(p)
  BY <1>1, <1>5 DEF Unlink, Sealed, VolumeInv, VolumeTypeOK
<1>6. ASSUME NEW bytes, WriteData(t, bytes) PROVE Sealed(p)
  BY <1>6 DEF WriteData, Sealed
<1> QED
  BY <1>2, <1>3, <1>4, <1>5, <1>6

\* So what is known of a target stays known.
LEMMA SameTarget ==
  ASSUME NEW s \in Servers, Sealed(Path(s)), req' = req
  PROVE  /\ Path(s)' = Path(s)
         /\ IsFile(Path(s))' = IsFile(Path(s)) /\ Locked(Path(s))' = Locked(Path(s))
         /\ Protected(Path(s))' = Protected(Path(s))
         /\ Exists(Path(s)) =>
              /\ attr'[dir'[Path(s)]] = attr[dir[Path(s)]]
              /\ MayWrite(Path(s))' = MayWrite(Path(s))
BY DEF Path, Sealed, IsFile, Locked, Protected, Exists, MayWrite

\* A call that is over, or has not looked at its target yet, knows nothing of it.
LEMMA NothingCarried ==
  ASSUME NEW s \in Servers, pc'[s] \notin Looked, ~Blamed(s)'
  PROVE  Carried(s)'
BY DEF Carried, Looked, Blamed

LEMMA Ending ==
  ASSUME CarriedInv, NEW s \in Servers, NEW outcome
  PROVE  /\ \A stage : Goto(s, stage) => pc'[s] = stage /\ result'[s] = result[s]
         /\ Finish(s, outcome) => pc'[s] = "done" /\ result'[s] = outcome
         /\ Abandon(s, outcome) => pc'[s] = "discard" /\ result'[s] = outcome
BY DEF CarriedInv, TempInv, IInv, LocalsTypeOK, Goto, Finish, Abandon

LEMMA CarriedAside ==
  ASSUME CarriedInv, NEW s \in Servers,
         \/ \E r \in Requests : Call(s, r)
         \/ Decode(s) \/ CheckLstat(s) \/ CheckHash(s) \/ DeleteLstat(s) \/ DeleteHash(s)
         \/ DeleteRemove(s) \/ ReserveFails(s) \/ Reply(s) \/ Crash(s)
  PROVE  Carried(s)'
<1>1. pc[s] \notin Discarding \cup {"done"} => ~Blamed(s)
  BY DEF CarriedInv, Carried
<1>2. pc'[s] \notin Looked /\ ~Blamed(s)'
  <2>1. CASE Reply(s) \/ Crash(s)
    BY <2>1 DEF Reply, Crash, Forget, CarriedInv, TempInv, IInv, LocalsTypeOK, Looked, Filling,
       Blamed
  <2>2. CASE \E r \in Requests : Call(s, r)
    <3>1. pc[s] = "idle" /\ Goto(s, "decode")
      BY <2>2 DEF Call
    <3> QED
      BY <1>1, <3>1, Ending DEF Looked, Filling, Discarding, Blamed
  <2>3. CASE Decode(s) \/ CheckLstat(s) \/ CheckHash(s)
    <3>1. /\ pc[s] \in {"decode", "check", "hash"}
          /\ \/ \E stage \in {"deleteLstat", "check", "hash", "lstat"} : Goto(s, stage)
             \/ \E outcome \in Results \ {"flagged", "undeletable"} : Finish(s, outcome)
      BY <2>3 DEF Decode, CheckLstat, CheckHash, Proceed, Results
    <3> QED
      BY <1>1, <3>1, Ending DEF Looked, Filling, Discarding, Blamed
  <2>4. CASE DeleteLstat(s) \/ DeleteHash(s) \/ DeleteRemove(s) \/ ReserveFails(s)
    <3>1. /\ pc[s] \in {"deleteLstat", "deleteHash", "remove", "reserve"}
          /\ \/ \E stage \in {"deleteHash", "remove"} : Goto(s, stage)
             \/ \E outcome \in Results \ {"flagged", "undeletable"} : Finish(s, outcome)
      BY <2>4 DEF DeleteLstat, DeleteHash, DeleteRemove, ReserveFails, Results
    <3> QED
      BY <1>1, <3>1, Ending DEF Looked, Filling, Discarding, Blamed
  <2> QED
    BY <2>1, <2>2, <2>3, <2>4
<1> QED
  BY <1>2, NothingCarried

LEMMA CarriedLook ==
  ASSUME CarriedInv, NEW s \in Servers, Lstat(s) \/ ProbeWritable(s)
  PROVE  Carried(s)'
<1>1. UNCHANGED volume /\ req' = req /\ tmp' = tmp /\ ~Blamed(s)
  BY DEF Lstat, ProbeWritable, locals, CarriedInv, Carried, Discarding
<1>2. /\ IsFile(Path(s))' = IsFile(Path(s)) /\ MayWrite(Path(s))' = MayWrite(Path(s))
      /\ Locked(Path(s))' = Locked(Path(s)) /\ attr' = attr /\ dir' = dir /\ Path(s)' = Path(s)
  BY <1>1 DEF volume, IsFile, MayWrite, Locked, Exists, Path
<1>3. CASE Lstat(s)
  <2>1. \/ /\ IsFile(Path(s)) /\ pc'[s] = "probe" /\ exists'[s] = TRUE
           /\ perm'[s] = attr[dir[Path(s)]].mode \ {"s"} /\ result'[s] = result[s]
        \/ ~Exists(Path(s)) /\ pc'[s] = "reserve" /\ exists'[s] = FALSE /\ result'[s] = result[s]
        \/ pc'[s] = "done" /\ result'[s] \in {"not_a_file", "failed"}
    BY <1>3, Ending DEF Lstat, CarriedInv, TempInv, IInv, LocalsTypeOK
  <2> QED
    BY <1>1, <1>2, <2>1 DEF Carried, Looked, Filling, Blamed, IsFile
<1>4. CASE ProbeWritable(s)
  <2>1. /\ pc[s] = "probe" /\ exists' = exists /\ perm' = perm
        /\ \/ /\ pc'[s] = "reserve" /\ result'[s] = result[s]
              /\ MayWrite(Path(s)) \/ Locked(Path(s))
           \/ pc'[s] = "done" /\ result'[s] \in {"not_writable", "failed"}
    BY <1>4, Ending DEF ProbeWritable, locals
  <2>2. exists[s] = IsFile(Path(s)) /\ (exists[s] => perm[s] = attr[dir[Path(s)]].mode \ {"s"})
    BY <2>1 DEF CarriedInv, Carried, Looked
  <2> QED
    BY <1>1, <1>2, <2>1, <2>2 DEF Carried, Looked, Filling, Blamed
<1> QED
  BY <1>3, <1>4

\* A step on the temp file: what was known of the target stays so, and the step shows
\* what it made of the temp file.
LEMMA CarriedFilling ==
  ASSUME CarriedInv, NEW s \in Servers, Sealed(Path(s)), req' = req, exists' = exists,
         perm' = perm, pc[s] \in {"reserve"} \cup Filling, ~Blamed(s)',
         \/ pc'[s] = "discard"
         \/ /\ pc'[s] \in Filling
            /\ pc'[s] # "copy" /\ exists[s] =>
                 attr'[dir'[tmp'[s]]].ext = attr[dir[Path(s)]].ext
            /\ pc'[s] \notin {"copy", "chmod"} /\ exists[s] => attr'[dir'[tmp'[s]]].mode = perm[s]
  PROVE  Carried(s)'
<1>1. CASE pc'[s] = "discard"
  BY <1>1, NothingCarried DEF Looked, Filling
<1>2. CASE pc'[s] \in Filling
  <2>1. /\ exists[s] = IsFile(Path(s))
        /\ exists[s] => perm[s] = attr[dir[Path(s)]].mode \ {"s"}
        /\ exists[s] => MayWrite(Path(s)) \/ Locked(Path(s))
    BY DEF CarriedInv, Carried, Looked
  <2>2. pc'[s] # "classify" /\ pc'[s] # "discard"
    BY <1>2 DEF Filling
  <2> QED
    BY <1>2, <2>1, <2>2, SameTarget DEF Carried, Looked, Blamed, IsFile
<1> QED
  BY <1>1, <1>2

LEMMA CarriedReserve ==
  ASSUME CarriedInv, NEW s \in Servers, Reserve(s)
  PROVE  Carried(s)'
<1>1. PICK t \in TempNames :
        IF exists[s] THEN Goto(s, "copy") /\ UNCHANGED volume
        ELSE Goto(s, "write") /\ CreateAs(t, Partial, Fresh)
  BY DEF Reserve
<1>2. /\ req' = req /\ exists' = exists /\ perm' = perm /\ pc[s] = "reserve" /\ ~Blamed(s)
      /\ Path(s) \in Paths
  BY DEF Reserve, CarriedInv, Carried, Discarding, Path, TempInv, IInv, LocalsTypeOK, Requests
<1>3. Sealed(Path(s))
  BY <1>1, <1>2, PathsSealed DEF CarriedInv, TempInv, IInv
<1>4. pc'[s] = (IF exists[s] THEN "copy" ELSE "write") /\ result'[s] = result[s]
  BY <1>1, Ending
<1> QED
  BY <1>2, <1>3, <1>4, CarriedFilling DEF Filling, Blamed

LEMMA CarriedCopy ==
  ASSUME CarriedInv, NEW s \in Servers, Copy(s)
  PROVE  Carried(s)'
<1> DEFINE target == dir[Path(s)]
<1>1. /\ req' = req /\ exists' = exists /\ perm' = perm /\ tmp' = tmp /\ pc[s] = "copy"
      /\ ~Blamed(s) /\ Path(s) \in Paths /\ tmp[s] \in TempNames
  BY DEF Copy, locals, CarriedInv, Carried, Discarding, Path, TempInv, IInv, CallInv,
     LocalsTypeOK, Requests, Holding, Filling
<1>2. \/ /\ Goto(s, "chmod") \/ Abandon(s, "attrs_unpreservable")
         /\ CanHash(s) /\ \E bytes : CreateAs(tmp[s], bytes, Copied(attr[target]))
      \/ Abandon(s, "attrs_unpreservable") /\ UNCHANGED volume
  BY Zenon DEF Copy
<1>3. Sealed(Path(s))
  BY <1>1, <1>2, PathsSealed DEF CarriedInv, TempInv, IInv
<1>4. CASE Abandon(s, "attrs_unpreservable")
  BY <1>1, <1>3, <1>4, Ending, CarriedFilling DEF Filling, Blamed
<1>5. CASE Goto(s, "chmod") /\ CanHash(s) /\ \E bytes : CreateAs(tmp[s], bytes, Copied(attr[target]))
  <2>1. attr[target] \in Attributes
    BY <1>1, <1>5 DEF CanHash, IsFile, Exists, CarriedInv, TempInv, IInv, VolumeInv,
       VolumeTypeOK, Names
  <2> DEFINE a == Copied(attr[target])
  <2>2. a \in Attributes /\ a.ext = attr[target].ext
    BY <2>1 DEF Copied, Attributes
  <2>3. PICK bytes : CreateAs(tmp[s], bytes, a)
    BY <1>5
  <2> HIDE DEF a
  <2>4. dir'[tmp[s]] # NoInode => attr'[dir'[tmp[s]]] = a
    BY <1>1, <2>2, <2>3, CreateSeals DEF CarriedInv, TempInv, IInv
  <2>5. dir'[tmp[s]] # NoInode
    BY <1>1, <2>3, InodeAssumption DEF CreateAs, CarriedInv, TempInv, IInv, VolumeInv,
       VolumeTypeOK, Names
  <2>6. pc'[s] = "chmod" /\ result'[s] = result[s]
    BY <1>5, Ending
  <2> QED
    BY <1>1, <1>3, <2>2, <2>4, <2>5, <2>6, CarriedFilling DEF Filling, Blamed
<1> QED
  BY <1>2, <1>4, <1>5

LEMMA CarriedFill ==
  ASSUME CarriedInv, NEW s \in Servers, Chmod(s) \/ Truncate(s) \/ Write(s) \/ Sync(s)
  PROVE  Carried(s)'
<1> DEFINE t == tmp[s]
<1>1. /\ req' = req /\ exists' = exists /\ perm' = perm /\ tmp' = tmp /\ ~Blamed(s)
      /\ pc[s] \in {"chmod", "truncate", "write", "sync"}
      /\ Path(s) \in Paths /\ t \in TempNames /\ dir[t] # NoInode
  BY DEF Chmod, Truncate, Write, Sync, locals, CarriedInv, Carried, Discarding, Path, TempInv,
     IInv, CallInv, LocalsTypeOK, Requests, Holding, Filling
<1>2. /\ exists[s] => attr[dir[t]].ext = attr[dir[Path(s)]].ext
      /\ pc[s] # "chmod" /\ exists[s] => attr[dir[t]].mode = perm[s]
  BY <1>1 DEF CarriedInv, Carried, Filling
<1>3. CASE Chmod(s) /\ Goto(s, "truncate")
  <2> DEFINE a == [attr[dir[t]] EXCEPT !.mode = perm[s]]
  <2>1. attr[dir[t]] \in Attributes
    BY <1>1 DEF CarriedInv, TempInv, IInv, VolumeInv, VolumeTypeOK, Names
  <2>2. SetAttr(t, a) \/ UNCHANGED volume
    BY <1>3 DEF Chmod
  <2>3. a.ext = attr[dir[t]].ext /\ a.mode = perm[s]
    BY <2>1 DEF Attributes
  <2>4. pc'[s] = "truncate" /\ result'[s] = result[s]
    BY <1>3, Ending
  <2>5. SetAttr(t, a)
    BY <1>3, <2>4, Ending DEF Chmod
  <2> HIDE DEF a
  <2>6. dir' = dir /\ attr'[dir[t]] = a
    BY <1>1, <2>5, SetAttrSeals DEF CarriedInv, TempInv, IInv
  <2>7. Sealed(Path(s))
    BY <1>1, <2>5, PathsSealed DEF CarriedInv, TempInv, IInv
  <2> QED
    BY <1>1, <1>2, <2>3, <2>4, <2>6, <2>7, CarriedFilling DEF Filling, Blamed
<1>4. CASE (\E outcome \in {"attrs_unpreservable", "failed"} : Abandon(s, outcome)) /\ UNCHANGED volume
  <2>1. Sealed(Path(s))
    BY <1>1, <1>4, PathsSealed DEF CarriedInv, TempInv, IInv
  <2>2. pc'[s] = "discard" /\ ~Blamed(s)'
    BY <1>4, Ending DEF Blamed
  <2> QED
    BY <1>1, <2>1, <2>2, CarriedFilling DEF Filling
<1>5. CASE /\ pc[s] # "chmod" /\ UNCHANGED <<dir, attr>>
           /\ \E stage \in {"write", "sync", "rename"} : Goto(s, stage)
  <2>1. Sealed(Path(s))
    BY <1>5 DEF Sealed
  <2>2. pc'[s] \in {"write", "sync", "rename"} /\ result'[s] = result[s]
    BY <1>5, Ending
  <2> QED
    BY <1>1, <1>2, <1>5, <2>1, <2>2, CarriedFilling DEF Filling, Blamed
<1> QED
  BY <1>3, <1>4, <1>5 DEF Chmod, Truncate, Write, Sync, WriteData

\* The temp file carries no flag, so what forbids the rename is the target's, or an ACL
\* the temp file has from the target.
LEMMA CarriedRename ==
  ASSUME CarriedInv, NEW s \in Servers, Rename(s)
  PROVE  Carried(s)'
<1>1. /\ req' = req /\ exists' = exists /\ perm' = perm /\ tmp' = tmp /\ pc[s] = "rename"
      /\ ~Blamed(s) /\ Path(s) \in Paths /\ tmp[s] \in TempNames /\ dir[tmp[s]] # NoInode
  BY DEF Rename, Misled, locals, CarriedInv, Carried, Discarding, Path, TempInv, IInv, CallInv,
     LocalsTypeOK, Requests, Holding, Filling
<1>2. CASE Finish(s, "ok") \/ Abandon(s, "failed")
  BY <1>2, Ending, NothingCarried DEF Looked, Filling, Blamed
<1>3. CASE /\ Protected(tmp[s]) \/ Protected(Path(s)) \/ doubt'[s]
           /\ exists[s] /\ Goto(s, "classify") /\ UNCHANGED volume
  <2>1. /\ attr[dir[tmp[s]]].flags = {} /\ IsFile(Path(s))
        /\ attr[dir[tmp[s]]].ext = attr[dir[Path(s)]].ext
        /\ perm[s] = attr[dir[Path(s)]].mode \ {"s"}
    BY <1>1, <1>3 DEF CarriedInv, TempInv, Clean, Carried, Holding, Filling, Looked
  <2>2. Protected(Path(s)) \/ doubt'[s]
    BY <1>3, <2>1 DEF Protected, IsFile
  <2>3. Sealed(Path(s))
    BY <1>3 DEF Sealed, volume
  <2>4. pc'[s] = "classify" /\ result'[s] = result[s]
    BY <1>3, Ending
  <2>5. "classify" \notin {"reserve"} \cup Filling
    BY DEF Filling
  <2> QED
    BY <1>1, <1>3, <2>1, <2>2, <2>3, <2>4, <2>5, SameTarget DEF Carried, Looked, Blamed, IsFile
<1>4. Misled(s) => doubt'[s]
  BY DEF Misled, CarriedInv, TempInv, IInv, LocalsTypeOK
<1> QED
  BY <1>2, <1>3, <1>4 DEF Rename

LEMMA CarriedDiscard ==
  ASSUME CarriedInv, NEW s \in Servers,
         Classify(s) \/ Discard(s) \/ StripACL(s) \/ DiscardAgain(s)
  PROVE  Carried(s)'
<1>1. req' = req /\ Path(s) \in Paths /\ tmp[s] \in TempNames
  BY DEF Classify, Misled, Discard, StripACL, DiscardAgain, locals, CarriedInv, Path, TempInv, IInv,
     CallInv, LocalsTypeOK, Requests, Holding, Discarding
<1>2. Sealed(Path(s))
  <2>1. \/ UNCHANGED volume \/ Unlink(tmp[s])
        \/ dir[tmp[s]] # NoInode /\ \E a : SetAttr(tmp[s], a)
    BY Zenon DEF Classify, Discard, StripACL, DiscardAgain, Exists
  <2> QED
    BY <1>1, <2>1, PathsSealed DEF CarriedInv, TempInv, IInv
<1>3. /\ pc'[s] \in Discarding \cup {"done"}
      /\ \/ result'[s] = result[s] /\ doubt'[s] = doubt[s]
         \/ Locked(Path(s)) /\ result'[s] = "flagged"
         \/ Classify(s) /\ ~Locked(Path(s)) /\ doubt' = doubt /\ result'[s] = "undeletable"
         \/ result'[s] = "undeletable" /\ doubt'[s]
  <2>1. CASE Classify(s)
    BY <2>1, Ending DEF Classify, Misled, locals, CarriedInv, TempInv, IInv, LocalsTypeOK,
       Discarding
  <2>2. CASE Discard(s)
    BY <2>2, Ending DEF Discard, locals, Discarding
  <2>3. CASE StripACL(s) \/ DiscardAgain(s)
    BY <2>3 DEF StripACL, DiscardAgain, locals, CarriedInv, TempInv, IInv, LocalsTypeOK,
       Discarding
  <2> QED
    BY <2>1, <2>2, <2>3
<1>4. Classify(s) => doubt[s] \/ Protected(Path(s))
  BY DEF Classify, CarriedInv, Carried
<1>5. /\ result[s] = "flagged" => Locked(Path(s))
      /\ result[s] = "undeletable" /\ ~doubt[s] => Protected(Path(s)) /\ ~Locked(Path(s))
  BY DEF CarriedInv, Carried
<1>6. pc'[s] \notin Looked
  BY <1>3 DEF Looked, Filling, Discarding
<1> QED
  BY <1>1, <1>2, <1>3, <1>4, <1>5, <1>6, SameTarget DEF Carried, Blamed, Looked

LEMMA CarriedNext == Alone /\ CarriedInv /\ [Next]_vars => CarriedInv'
<1> SUFFICES ASSUME Alone, CarriedInv, [Next]_vars PROVE CarriedInv'
  OBVIOUS
<1>1. TempInv'
  BY TempNext DEF CarriedInv
<1>2. ASSUME NEW s \in Servers, Step(s) \/ Crash(s) \/ \E r \in Requests : Call(s, r)
      PROVE  Carried(s)'
  BY <1>2, CarriedAside, CarriedLook, CarriedReserve, CarriedCopy, CarriedFill, CarriedRename,
     CarriedDiscard DEF Step
<1>3. CASE PowerLoss
  <2>1. \A s \in Servers : pc'[s] = "idle" /\ result'[s] = "none"
    BY <1>3 DEF PowerLoss, Forget
  <2> QED
    BY <1>1, <2>1, NothingCarried DEF CarriedInv, Looked, Filling, Blamed
<1>4. CASE VolumeCheckpoint \/ UNCHANGED vars
  <2>1. dir' = dir /\ attr' = attr /\ UNCHANGED <<pc, req, exists, perm, tmp, result, doubt>>
    BY <1>4 DEF VolumeCheckpoint, Checkpoint, vars, volume, locals
  <2>2. \A s \in Servers : Carried(s)' = Carried(s)
    BY <2>1 DEF Carried, Blamed, IsFile, Exists, Path, MayWrite, Locked, Protected
  <2> QED
    BY <1>1, <2>2 DEF CarriedInv
<1>5. ~External
  BY DEF Alone, External
<1>6. CASE \E s \in Servers : Step(s) \/ Crash(s) \/ \E r \in Requests : Call(s, r)
  BY <1>1, <1>2, <1>6 DEF Alone, CarriedInv
<1> QED
  BY <1>3, <1>4, <1>5, <1>6 DEF Next

LEMMA CarriedInit == Init => CarriedInv
<1> SUFFICES ASSUME Init PROVE CarriedInv
  OBVIOUS
<1>1. \A s \in Servers : pc[s] = "idle" /\ result[s] = "none"
  BY DEF Init
<1>2. \A s \in Servers : Carried(s)
  BY <1>1 DEF Carried, Looked, Filling, Blamed
<1> QED
  BY <1>2, TempInit DEF CarriedInv

\* A refused commit names a flag only of a target that has one, whatever fails, and the
\* ACL only of a target that is denied deletion and has none, unless the directory
\* forbade the rename or the look at the flags failed (hasReplaceForbiddingFlag).
THEOREM RefusalsAreRight == ASSUME Alone PROVE Spec => []RefusalNamesCause
<1>1. CarriedInv => RefusalNamesCause
  BY DEF CarriedInv, Carried, RefusalNamesCause
<1>2. CarriedInv /\ [Next]_vars => CarriedInv'
  BY CarriedNext
<1> QED
  BY <1>1, <1>2, CarriedInit, PTL DEF Spec

\* What commits: the target may be written, and the temp file has its mode and
\* extended attributes.
LEMMA CommitCarries ==
  ASSUME CarriedInv, [Next]_vars, NEW s \in Servers, Committing(s), Exists(Path(s))
  PROVE  /\ MayWrite(Path(s))
         /\ attr'[dir'[Path(s)]].mode = attr[dir[Path(s)]].mode \ {"s"}
         /\ attr'[dir'[Path(s)]].ext = attr[dir[Path(s)]].ext
<1>1. pc[s] = "rename" /\ pc'[s] = "done" /\ pc \in [Servers -> Stages]
      /\ result \in [Servers -> Results]
  BY DEF Committing, CarriedInv, TempInv, IInv, LocalsTypeOK
<1>2. Rename(s)
  <2>1. ~UNCHANGED vars /\ ~External /\ ~VolumeCheckpoint
    BY <1>1 DEF vars, External, VolumeCheckpoint
  <2>2. ~PowerLoss /\ \A o \in Servers : ~Crash(o)
    BY <1>1 DEF PowerLoss, Crash, Forget
  <2>3. \A o \in Servers, r \in Requests : ~Call(o, r)
    BY <1>1 DEF Call, Goto
  <2>4. PICK o \in Servers : Step(o)
    BY <2>1, <2>2, <2>3 DEF Next
  <2>5. \/ \E stage : Goto(o, stage) \/ pc' = [pc EXCEPT ![o] = stage]
        \/ \E outcome : Finish(o, outcome) \/ Abandon(o, outcome)
        \/ Reply(o)
    <3>1. CASE Decode(o) \/ CheckLstat(o) \/ CheckHash(o) \/ DeleteLstat(o) \/ DeleteHash(o)
      BY <3>1 DEF Decode, CheckLstat, CheckHash, Proceed, DeleteLstat, DeleteHash
    <3>2. CASE DeleteRemove(o) \/ Lstat(o) \/ ProbeWritable(o) \/ Reserve(o) \/ ReserveFails(o)
      BY <3>2 DEF DeleteRemove, Lstat, ProbeWritable, Reserve, ReserveFails
    <3>3. CASE Copy(o) \/ Chmod(o) \/ Truncate(o) \/ Write(o) \/ Sync(o)
      BY <3>3 DEF Copy, Chmod, Truncate, Write, Sync
    <3>4. CASE Rename(o) \/ Classify(o) \/ Discard(o) \/ StripACL(o) \/ DiscardAgain(o)
      BY <3>4 DEF Rename, Classify, Discard, StripACL, DiscardAgain
    <3> QED
      BY <2>4, <3>1, <3>2, <3>3, <3>4 DEF Step
  <2>6. \A other \in Servers \ {o} : pc'[other] = pc[other]
    BY <1>1, <2>5 DEF Goto, Finish, Abandon, Reply
  <2>7. Step(s)
    BY <1>1, <2>4, <2>6
  <2>8. CASE Decode(s) \/ CheckLstat(s) \/ CheckHash(s) \/ DeleteLstat(s) \/ DeleteHash(s)
    BY <1>1, <2>8 DEF Decode, CheckLstat, CheckHash, DeleteLstat, DeleteHash
  <2>9. CASE DeleteRemove(s) \/ Lstat(s) \/ ProbeWritable(s) \/ Reserve(s) \/ ReserveFails(s)
    BY <1>1, <2>9 DEF DeleteRemove, Lstat, ProbeWritable, Reserve, ReserveFails
  <2>10. CASE Copy(s) \/ Chmod(s) \/ Truncate(s) \/ Write(s) \/ Sync(s)
    BY <1>1, <2>10 DEF Copy, Chmod, Truncate, Write, Sync
  <2>11. CASE Classify(s) \/ Discard(s) \/ StripACL(s) \/ DiscardAgain(s) \/ Reply(s)
    BY <1>1, <2>11 DEF Classify, Discard, StripACL, DiscardAgain, Reply
  <2> QED
    BY <2>7, <2>8, <2>9, <2>10, <2>11 DEF Step
<1>3. CanRename(tmp[s], Path(s)) /\ RenameEntry(tmp[s], Path(s))
  BY <1>1, <1>2, Ending DEF Rename
<1>4. Path(s) \in Names /\ tmp[s] \in Names /\ Path(s) # tmp[s]
  BY <1>1, NamesAssumption DEF CarriedInv, TempInv, IInv, CallInv, LocalsTypeOK, Requests, Path,
     Holding, Filling, Names
<1>5. attr' = attr /\ dir'[Path(s)] = dir[tmp[s]]
  BY <1>3, <1>4 DEF RenameEntry, CarriedInv, TempInv, IInv, VolumeInv, VolumeTypeOK
<1>6. IsFile(Path(s)) /\ ~Locked(Path(s))
  BY <1>3 DEF CanRename, Protected, Locked
<1>7. /\ exists[s] /\ MayWrite(Path(s))
      /\ attr[dir[tmp[s]]].ext = attr[dir[Path(s)]].ext
      /\ attr[dir[tmp[s]]].mode = attr[dir[Path(s)]].mode \ {"s"}
  BY <1>1, <1>6 DEF CarriedInv, Carried, Looked, Filling
<1> QED
  BY <1>5, <1>7

\* A file that may not be written is never replaced (AtomicReplace's probe).
THEOREM ReadOnlyIsKept == ASSUME Alone PROVE Spec => ReadOnlyKept
<1>1. CarriedInv /\ [Next]_vars =>
        [\A s \in Servers : Committing(s) /\ Exists(Path(s)) => MayWrite(Path(s))]_vars
  BY CommitCarries
<1>2. CarriedInv /\ [Next]_vars => CarriedInv'
  BY CarriedNext
<1> QED
  BY <1>1, <1>2, CarriedInit, PTL DEF Spec, ReadOnlyKept

\* What replaces a file has its mode, less set-id and sticky, and its extended
\* attributes and ACL (atomic.go's preserveAttributes).
THEOREM AttributesArePreserved == ASSUME Alone PROVE Spec => AttrsPreserved
<1>1. CarriedInv /\ [Next]_vars =>
        [\A s \in Servers : Committing(s) /\ Exists(Path(s)) =>
           LET old == attr[dir[Path(s)]]  new == attr'[dir'[Path(s)]]
           IN  new.mode = old.mode \ {"s"} /\ new.ext = old.ext]_vars
  BY CommitCarries
<1>2. CarriedInv /\ [Next]_vars => CarriedInv'
  BY CarriedNext
<1> QED
  BY <1>1, <1>2, CarriedInit, PTL DEF Spec, AttrsPreserved
-----------------------------------------------------------------------------
(* A server alone on its directory implements CasFile. *)

Files == [p \in Paths |-> Holds(dir[p])]
Saved == [p \in Paths |-> Holds(durable[p])]
Statuses == [s \in Servers |-> Status(s)]

\* What the call of s relies on when it takes effect.
Sure(s) ==
  /\ pc[s] \in {"deleteLstat", "deleteHash", "remove"} => req[s].new = Absent
  /\ pc[s] \in Committed =>
       req[s].pre = Holds(dir[Path(s)]) /\ Holds(dir[Path(s)]) # NotAFile
  /\ pc[s] = "remove" /\ req[s].pre \in Contents => req[s].pre = Holds(dir[Path(s)])
  /\ pc[s] \in Filling \ {"copy"} => attr[dir[tmp[s]]].kind = "file"
  /\ pc[s] \in {"sync", "rename"} => data[dir[tmp[s]]] = req[s].new
  /\ result[s] = "ok" => pc[s] = "done"

AloneInv == IInv /\ \A s \in Servers : Sure(s)

CasStep == Cas!Next \/ UNCHANGED Cas!vars
-----------------------------------------------------------------------------
(* What the volume's operations do to what paths hold. *)

FilesKept == Files' = Files /\ Saved' = Saved

\* An inode no path denotes may change, and temp names may come and go.
LEMMA HiddenChange ==
  ASSUME VolumeInv, durable' = durable, \A p \in Paths : dir'[p] = dir[p],
         NEW i, \A p \in Paths : dir[p] # i /\ durable[p] # i,
         \A j \in Inodes \ {i} : data'[j] = data[j] /\ attr'[j] = attr[j]
  PROVE  FilesKept
<1>1. \A p \in Paths : dir[p] \in Inodes \cup {NoInode} /\ durable[p] \in Inodes \cup {NoInode}
  BY DEF VolumeInv, VolumeTypeOK, Names
<1>2. \A p \in Paths : Holds(dir[p])' = Holds(dir[p]) /\ Holds(durable[p])' = Holds(durable[p])
  BY <1>1 DEF Holds
<1> QED
  BY <1>2 DEF FilesKept, Files, Saved

LEMMA CreateHidden ==
  ASSUME VolumeInv, NEW t \in TempNames, NEW bytes, NEW a, CreateAs(t, bytes, a)
  PROVE  FilesKept /\ dir'[t] # NoInode /\ attr'[dir'[t]] = a
<1>1. PICK i \in Inodes :
        /\ Free(i)
        /\ dir' = [dir EXCEPT ![t] = i]
        /\ data' = [data EXCEPT ![i] = bytes]
        /\ attr' = [attr EXCEPT ![i] = a]
        /\ durable' = durable
  BY DEF CreateAs
<1>2. \A p \in Paths : dir'[p] = dir[p] /\ dir[p] # i /\ durable[p] # i
  BY <1>1, NamesAssumption DEF VolumeInv, VolumeTypeOK, Names, Free
<1>3. \A j \in Inodes \ {i} : data'[j] = data[j] /\ attr'[j] = attr[j]
  BY <1>1 DEF VolumeInv, VolumeTypeOK
<1>4. dir'[t] = i /\ attr'[i] = a /\ i # NoInode
  BY <1>1, InodeAssumption DEF VolumeInv, VolumeTypeOK, Names
<1> QED
  BY <1>1, <1>2, <1>3, <1>4, HiddenChange

\* So may a temp file's own inode.
LEMMA TempHidden ==
  ASSUME VolumeInv, NEW t \in TempNames, dir[t] # NoInode, dir' = dir, durable' = durable,
         \A j \in Inodes \ {dir[t]} : data'[j] = data[j] /\ attr'[j] = attr[j]
  PROVE  FilesKept
<1>1. \A p \in Paths : dir[p] # dir[t] /\ durable[p] # dir[t]
  BY NamesAssumption DEF VolumeInv, TempsPrivate, Names
<1> QED
  BY <1>1, HiddenChange

LEMMA WriteHidden ==
  ASSUME VolumeInv, NEW t \in TempNames, dir[t] # NoInode, NEW bytes, WriteData(t, bytes)
  PROVE  FilesKept /\ dir' = dir /\ attr' = attr /\ data'[dir[t]] = bytes
<1>1. dir[t] \in Inodes
  BY DEF VolumeInv, VolumeTypeOK, Names
<1>2. dir' = dir /\ durable' = durable /\ attr' = attr /\ data'[dir[t]] = bytes
      /\ \A j \in Inodes \ {dir[t]} : data'[j] = data[j]
  BY <1>1 DEF WriteData, VolumeInv, VolumeTypeOK
<1> QED
  BY <1>2, TempHidden

LEMMA SetAttrHidden ==
  ASSUME VolumeInv, NEW t \in TempNames, dir[t] # NoInode, NEW a, SetAttr(t, a)
  PROVE  FilesKept /\ dir' = dir /\ data' = data /\ attr'[dir[t]] = a
<1>1. dir[t] \in Inodes
  BY DEF VolumeInv, VolumeTypeOK, Names
<1>2. dir' = dir /\ durable' = durable /\ data' = data /\ attr'[dir[t]] = a
      /\ \A j \in Inodes \ {dir[t]} : attr'[j] = attr[j]
  BY <1>1 DEF SetAttr, VolumeInv, VolumeTypeOK
<1> QED
  BY <1>2, TempHidden

LEMMA UnlinkHidden ==
  ASSUME VolumeInv, NEW t \in TempNames, Unlink(t)
  PROVE  FilesKept
<1>1. /\ durable' = durable /\ data' = data /\ attr' = attr
      /\ \A p \in Paths : dir'[p] = dir[p]
  BY NamesAssumption DEF Unlink, VolumeInv, VolumeTypeOK, Names
<1>2. \A p \in Paths : Holds(dir[p])' = Holds(dir[p]) /\ Holds(durable[p])' = Holds(durable[p])
  BY <1>1 DEF Holds
<1> QED
  BY <1>2 DEF FilesKept, Files, Saved

LEMMA UnlinkVisible ==
  ASSUME VolumeInv, NEW p \in Paths, Unlink(p)
  PROVE  Files' = [Files EXCEPT ![p] = Absent] /\ Saved' = Saved
<1>1. /\ durable' = durable /\ data' = data /\ attr' = attr /\ dir'[p] = NoInode
      /\ \A q \in Paths \ {p} : dir'[q] = dir[q]
  BY DEF Unlink, VolumeInv, VolumeTypeOK, Names
<1>2. /\ Holds(dir[p])' = Absent
      /\ \A q \in Paths \ {p} : Holds(dir[q])' = Holds(dir[q])
      /\ \A q \in Paths : Holds(durable[q])' = Holds(durable[q])
  BY <1>1 DEF Holds
<1> QED
  BY <1>2 DEF Files, Saved

LEMMA RenameVisible ==
  ASSUME VolumeInv, NEW t \in TempNames, NEW p \in Paths, dir[t] # NoInode,
         attr[dir[t]].kind = "file", RenameEntry(t, p)
  PROVE  Files' = [Files EXCEPT ![p] = data[dir[t]]] /\ Saved' = Saved
<1>1. t \in Names /\ p \in Names /\ t \notin Paths
  BY NamesAssumption DEF Names
<1>2. /\ durable' = durable /\ data' = data /\ attr' = attr /\ dir'[p] = dir[t]
      /\ \A q \in Paths \ {p} : dir'[q] = dir[q]
  BY <1>1 DEF RenameEntry, VolumeInv, VolumeTypeOK, Names
<1>3. /\ Holds(dir[p])' = data[dir[t]]
      /\ \A q \in Paths \ {p} : Holds(dir[q])' = Holds(dir[q])
      /\ \A q \in Paths : Holds(durable[q])' = Holds(durable[q])
  BY <1>2 DEF Holds
<1> QED
  BY <1>3 DEF Files, Saved

LEMMA VolumeKept ==
  ASSUME UNCHANGED volume
  PROVE  FilesKept
<1>1. \A p \in Paths : Holds(dir[p])' = Holds(dir[p]) /\ Holds(durable[p])' = Holds(durable[p])
  BY DEF Holds, volume
<1> QED
  BY <1>1 DEF FilesKept, Files, Saved
-----------------------------------------------------------------------------
(* Steps of a call that CasFile sees, or does not see. *)

UnderWay(s) == pc[s] \notin {"idle", "done"}

LEMMA HiddenStep ==
  ASSUME Alone, NEW s \in Servers, FilesKept, req' = req, UnderWay(s), UnderWay(s)'
  PROVE  CasStep
<1>1. Statuses' = Statuses
  BY DEF Alone, Statuses, Status, UnderWay
<1> QED
  BY <1>1 DEF CasStep, Cas!vars, FilesKept, Files, Saved, Statuses

LEMMA RefuseStep ==
  ASSUME Alone, NEW s \in Servers, FilesKept, req' = req, UnderWay(s),
         pc'[s] = "done", result'[s] # "ok"
  PROVE  CasStep
<1>1. Statuses[s] = "pending" /\ Statuses' = [Statuses EXCEPT ![s] = "refused"]
  BY DEF Alone, Statuses, Status, UnderWay
<1>2. Cas!Refuse(s)
  BY <1>1 DEF Cas!Refuse, FilesKept, Files, Saved, Statuses
<1> QED
  BY <1>2 DEF CasStep, Cas!Next

LEMMA CommitStep ==
  ASSUME Alone, NEW s \in Servers, req' = req, UnderWay(s), pc'[s] = "done", result'[s] = "ok",
         req[s] \in Requests, Cas!Accepts(req[s], Files[req[s].path]),
         Files' = [Files EXCEPT ![req[s].path] = req[s].new], Saved' = Saved
  PROVE  CasStep
<1>1. Statuses[s] = "pending" /\ Statuses' = [Statuses EXCEPT ![s] = "ok"]
  BY DEF Alone, Statuses, Status, UnderWay
<1>2. Cas!Commit(s)
  BY <1>1 DEF Cas!Commit, Files, Saved, Statuses
<1> QED
  BY <1>2 DEF CasStep, Cas!Next

LEMMA OverStep ==
  ASSUME Alone, NEW s \in Servers, FilesKept, req' = req, pc[s] # "idle", pc'[s] = "idle"
  PROVE  CasStep
<1>1. Statuses[s] # "idle" /\ Statuses' = [Statuses EXCEPT ![s] = "idle"]
  BY DEF Alone, Statuses, Status
<1>2. Cas!Finish(s)
  BY <1>1 DEF Cas!Finish, FilesKept, Files, Saved, Statuses
<1> QED
  BY <1>2 DEF CasStep, Cas!Next
-----------------------------------------------------------------------------
(* The steps.  A group of actions that looks and decides changes no file. *)

LEMMA Outcome ==
  ASSUME AloneInv, NEW s \in Servers, NEW outcome
  PROVE  /\ \A stage : Goto(s, stage) => pc'[s] = stage /\ result'[s] = result[s]
         /\ Finish(s, outcome) => pc'[s] = "done" /\ result'[s] = outcome
         /\ Abandon(s, outcome) => pc'[s] = "discard" /\ result'[s] = outcome
BY DEF AloneInv, IInv, LocalsTypeOK, Goto, Finish, Abandon

\* The call ends with an error.
Refused(s) == pc'[s] = "done" /\ result'[s] # "ok"

LEMMA CasCall ==
  ASSUME Alone, AloneInv, NEW s \in Servers, NEW r \in Requests, Call(s, r)
  PROVE  Sure(s)' /\ CasStep
<1>1. /\ pc[s] = "idle" /\ pc'[s] = "decode" /\ result'[s] = result[s] /\ UNCHANGED volume
      /\ req' = [req EXCEPT ![s] = r]
  BY DEF Call, Goto, AloneInv, IInv, LocalsTypeOK
<1>2. Sure(s)'
  BY <1>1 DEF AloneInv, Sure, Committed, Filling
<1>3. Statuses[s] = "idle" /\ Statuses' = [Statuses EXCEPT ![s] = "pending"]
  BY <1>1 DEF Alone, Statuses, Status
<1>4. Cas!Request(s, r)
  BY <1>1, <1>3, VolumeKept DEF Cas!Request, FilesKept, Files, Saved, Statuses
<1> QED
  BY <1>2, <1>4 DEF CasStep, Cas!Next

LEMMA CasCheck ==
  ASSUME Alone, AloneInv, NEW s \in Servers,
         Decode(s) \/ CheckLstat(s) \/ CheckHash(s) \/ DeleteLstat(s) \/ DeleteHash(s)
  PROVE  Sure(s)' /\ CasStep
<1> DEFINE now == Holds(dir[Path(s)])
<1>1. UNCHANGED volume /\ UNCHANGED locals
  BY DEF Decode, CheckLstat, CheckHash, DeleteLstat, DeleteHash
<1>2. UnderWay(s) /\ result[s] # "ok"
  BY DEF UnderWay, Decode, CheckLstat, CheckHash, DeleteLstat, DeleteHash, AloneInv, Sure
<1>3. Path(s) \in Paths
  BY DEF Path, AloneInv, IInv, LocalsTypeOK, Requests
<1>4. /\ ~Exists(Path(s)) => now = Absent
      /\ IsFile(Path(s)) => now = data[dir[Path(s)]] /\ now \in Contents
  BY <1>3 DEF Holds, Exists, IsFile, AloneInv, IInv, VolumeInv, VisibleSaved
<1>5. \/ Refused(s)
      \/ pc'[s] \in {"check", "hash"} /\ result'[s] = result[s]
      \/ /\ pc'[s] \in {"deleteLstat", "deleteHash", "remove"} /\ result'[s] = result[s]
         /\ req[s].new = Absent
         /\ pc'[s] = "remove" /\ req[s].pre \in Contents => req[s].pre = now
      \/ pc'[s] = "lstat" /\ result'[s] = result[s] /\ req[s].pre = now /\ now # NotAFile
  <2>1. CASE Decode(s)
    BY <2>1, Outcome DEF Decode, Refused
  <2>2. CASE CheckLstat(s)
    BY <1>4, <2>2, Outcome, NotAFileAssumption DEF CheckLstat, Proceed, Refused
  <2>3. CASE CheckHash(s)
    BY <1>4, <2>3, Outcome, NotAFileAssumption DEF CheckHash, CanHash, HashMatches, Proceed, Refused
  <2>4. CASE DeleteLstat(s)
    BY <1>4, <2>4, Outcome DEF DeleteLstat, Refused, AloneInv, Sure
  <2>5. CASE DeleteHash(s)
    BY <1>4, <2>5, Outcome DEF DeleteHash, CanHash, HashMatches, Refused, AloneInv, Sure
  <2> QED
    BY <2>1, <2>2, <2>3, <2>4, <2>5
<1>6. Holds(dir[Path(s)])' = now
  BY <1>1 DEF Holds, volume, locals, Path
<1>7. Sure(s)'
  BY <1>1, <1>2, <1>5, <1>6 DEF Refused, Sure, Committed, Filling, locals
<1>8. CasStep
  BY <1>1, <1>2, <1>5, VolumeKept, HiddenStep, RefuseStep DEF Refused, UnderWay, locals
<1> QED
  BY <1>7, <1>8

LEMMA CasDelete ==
  ASSUME Alone, AloneInv, NEW s \in Servers, DeleteRemove(s)
  PROVE  Sure(s)' /\ CasStep
<1>1. pc[s] = "remove" /\ UnderWay(s) /\ req' = req /\ Path(s) \in Paths /\ req[s] \in Requests
  BY DEF DeleteRemove, UnderWay, locals, Path, AloneInv, IInv, LocalsTypeOK, Requests
<1>2. pc'[s] = "done"
  BY Outcome DEF DeleteRemove
<1>3. Sure(s)'
  BY <1>2 DEF Sure, Committed, Filling
<1>4. CASE Exists(Path(s)) /\ Unlink(Path(s)) /\ Finish(s, "ok")
  <2>1. Holds(dir[Path(s)]) # Absent
    BY <1>1, <1>4, MarkersAssumption, NotAFileAssumption
       DEF Holds, Exists, AloneInv, IInv, VolumeInv, VisibleSaved
  <2>2. req[s].new = Absent /\ (req[s].pre \in Contents => req[s].pre = Holds(dir[Path(s)]))
    BY <1>1 DEF AloneInv, Sure
  <2>3. Cas!Accepts(req[s], Files[req[s].path])
    BY <1>1, <2>1, <2>2 DEF Cas!Accepts, Files, Path
  <2>4. Files' = [Files EXCEPT ![req[s].path] = req[s].new] /\ Saved' = Saved
    BY <1>1, <1>4, <2>2, UnlinkVisible DEF AloneInv, IInv, Path
  <2>5. result'[s] = "ok"
    BY <1>4, Outcome
  <2> QED
    BY <1>1, <1>2, <1>3, <2>3, <2>4, <2>5, CommitStep
<1>5. CASE Finish(s, "failed") /\ UNCHANGED volume
  <2>1. result'[s] # "ok"
    BY <1>5, Outcome
  <2> QED
    BY <1>1, <1>2, <1>3, <1>5, <2>1, VolumeKept, RefuseStep
<1> QED
  BY <1>4, <1>5 DEF DeleteRemove

LEMMA CasLook ==
  ASSUME Alone, AloneInv, NEW s \in Servers, Lstat(s) \/ ProbeWritable(s) \/ ReserveFails(s)
  PROVE  Sure(s)' /\ CasStep
<1>1. /\ UNCHANGED volume /\ req' = req /\ UnderWay(s) /\ pc[s] \in Committed
      /\ result[s] # "ok"
  BY DEF Lstat, ProbeWritable, ReserveFails, locals, UnderWay, Committed, AloneInv, Sure
<1>2. Refused(s) \/ (pc'[s] \in {"probe", "reserve"} /\ result'[s] = result[s])
  BY Outcome DEF Lstat, ProbeWritable, ReserveFails, Refused
<1>3. Holds(dir[Path(s)])' = Holds(dir[Path(s)])
  BY <1>1 DEF Holds, volume, Path
<1>4. Sure(s)'
  BY <1>1, <1>2, <1>3 DEF AloneInv, Sure, Refused, Committed, Filling
<1>5. CasStep
  BY <1>1, <1>2, VolumeKept, HiddenStep, RefuseStep DEF Refused, UnderWay
<1> QED
  BY <1>4, <1>5

\* What a step of AtomicReplace on its temp file must show: files are kept, and the
\* temp file is a file with the bytes its stage says.
LEMMA CasFilling ==
  ASSUME Alone, AloneInv, NEW s \in Servers, FilesKept, req' = req, pc[s] \in Committed,
         result'[s] # "ok",
         \/ pc'[s] \in Discarding \cup {"classify"}
         \/ /\ pc'[s] \in Filling
            /\ pc'[s] # "copy" => attr'[dir'[tmp'[s]]].kind = "file"
            /\ pc'[s] \in {"sync", "rename"} => data'[dir'[tmp'[s]]] = req[s].new
  PROVE  Sure(s)' /\ CasStep
<1>1. Path(s) \in Paths /\ Path(s)' = Path(s)
  BY DEF Path, AloneInv, IInv, LocalsTypeOK, Requests
<1>2. Holds(dir[Path(s)])' = Holds(dir[Path(s)])
  <2>1. Files'[Path(s)] = Files[Path(s)]
    BY DEF FilesKept
  <2> QED
    BY <1>1, <2>1 DEF Files
<1>3. Sure(s)'
  BY <1>2 DEF AloneInv, Sure, Committed, Filling, Discarding
<1>4. UnderWay(s) /\ UnderWay(s)'
  BY DEF UnderWay, Committed, Filling, Discarding
<1> QED
  BY <1>3, <1>4, HiddenStep

LEMMA CasReserve ==
  ASSUME Alone, AloneInv, NEW s \in Servers, Reserve(s)
  PROVE  Sure(s)' /\ CasStep
<1>1. PICK t \in TempNames :
        /\ tmp' = [tmp EXCEPT ![s] = t]
        /\ IF exists[s] THEN Goto(s, "copy") /\ UNCHANGED volume
           ELSE Goto(s, "write") /\ CreateAs(t, Partial, Fresh)
  BY DEF Reserve
<1>2. tmp'[s] = t /\ req' = req /\ pc[s] \in Committed /\ result[s] # "ok"
  BY <1>1 DEF Reserve, AloneInv, IInv, LocalsTypeOK, Committed, Sure
<1>3. CASE exists[s]
  BY <1>1, <1>2, <1>3, VolumeKept, Outcome, CasFilling DEF Filling
<1>4. CASE ~exists[s]
  <2>1. FilesKept /\ attr'[dir'[t]] = Fresh
    BY <1>1, <1>4, CreateHidden DEF AloneInv, IInv
  <2>2. pc'[s] = "write" /\ result'[s] = result[s]
    BY <1>1, <1>4, Outcome
  <2>3. Fresh.kind = "file"
    BY DEF Fresh
  <2> QED
    BY <1>2, <2>1, <2>2, <2>3, CasFilling DEF Filling
<1> QED
  BY <1>3, <1>4

LEMMA CasCopy ==
  ASSUME Alone, AloneInv, NEW s \in Servers, Copy(s)
  PROVE  Sure(s)' /\ CasStep
<1> DEFINE target == dir[Path(s)]
           a == Copied(attr[target])
<1>1. /\ req' = req /\ tmp' = tmp /\ pc[s] \in Committed /\ result[s] # "ok"
      /\ tmp[s] \in TempNames
  BY DEF Copy, locals, Committed, Filling, Holding, AloneInv, Sure, IInv, CallInv
<1>2. ASSUME CanHash(s) PROVE a.kind = "file"
  <2>1. attr[target] \in Attributes /\ attr[target].kind = "file"
    BY <1>2 DEF CanHash, IsFile, Exists, Path, AloneInv, IInv, LocalsTypeOK, Requests,
       VolumeInv, VolumeTypeOK, Names
  <2> QED
    BY <2>1 DEF Copied, Attributes
<1>3. \/ /\ Goto(s, "chmod") \/ Abandon(s, "attrs_unpreservable")
         /\ CanHash(s) /\ \E bytes : CreateAs(tmp[s], bytes, Copied(attr[target]))
      \/ Abandon(s, "attrs_unpreservable") /\ UNCHANGED volume
  BY Zenon DEF Copy
<1>4. CASE Abandon(s, "attrs_unpreservable") /\ UNCHANGED volume
  BY <1>1, <1>4, VolumeKept, Outcome, CasFilling DEF Discarding
<1>5. CASE /\ Goto(s, "chmod") \/ Abandon(s, "attrs_unpreservable")
           /\ CanHash(s) /\ \E bytes : CreateAs(tmp[s], bytes, Copied(attr[target]))
  <2>1. PICK bytes : CreateAs(tmp[s], bytes, Copied(attr[target]))
    BY <1>5
  <2>2. a.kind = "file"
    BY <1>2, <1>5
  <2>3. CreateAs(tmp[s], bytes, a)
    BY <2>1
  <2> HIDE DEF a
  <2>4. FilesKept /\ attr'[dir'[tmp[s]]] = a
    BY <1>1, <2>3, CreateHidden DEF AloneInv, IInv
  <2>5. pc'[s] \in {"chmod", "discard"} /\ result'[s] # "ok"
    BY <1>1, <1>5, Outcome
  <2> QED
    BY <1>1, <2>2, <2>4, <2>5, CasFilling DEF Filling, Discarding
<1> QED
  BY <1>3, <1>4, <1>5

LEMMA CasFill ==
  ASSUME Alone, AloneInv, NEW s \in Servers, Chmod(s) \/ Truncate(s) \/ Write(s) \/ Sync(s)
  PROVE  Sure(s)' /\ CasStep
<1> DEFINE t == tmp[s]
<1>1. /\ req' = req /\ tmp' = tmp /\ pc[s] \in Committed /\ result[s] # "ok"
      /\ t \in TempNames /\ dir[t] # NoInode /\ attr[dir[t]].kind = "file"
      /\ pc[s] = "sync" => data[dir[t]] = req[s].new
      /\ pc[s] \in {"chmod", "truncate", "write", "sync"}
  BY DEF Chmod, Truncate, Write, Sync, locals, Committed, Filling, Holding, AloneInv, Sure,
     IInv, CallInv
<1>2. attr[dir[t]] \in Attributes
  BY <1>1 DEF AloneInv, IInv, VolumeInv, VolumeTypeOK, Names
<1>3. \/ Goto(s, "truncate") /\ SetAttr(t, [attr[dir[t]] EXCEPT !.mode = perm[s]])
      \/ Goto(s, "write") /\ WriteData(t, Partial)
      \/ Goto(s, "sync") /\ WriteData(t, req[s].new)
      \/ pc[s] = "sync" /\ Goto(s, "rename") /\ UNCHANGED <<dir, durable, data, attr>>
      \/ (\E outcome \in Results \ {"ok"} : Abandon(s, outcome)) /\ UNCHANGED volume
  BY DEF Chmod, Truncate, Write, Sync, Results
<1>4. CASE Goto(s, "truncate") /\ SetAttr(t, [attr[dir[t]] EXCEPT !.mode = perm[s]])
  <2> DEFINE a == [attr[dir[t]] EXCEPT !.mode = perm[s]]
  <2>1. a.kind = "file" /\ SetAttr(t, a)
    BY <1>1, <1>2, <1>4 DEF Attributes
  <2> HIDE DEF a
  <2>2. FilesKept /\ dir' = dir /\ attr'[dir[t]] = a
    BY <1>1, <2>1, SetAttrHidden DEF AloneInv, IInv
  <2>3. pc'[s] = "truncate" /\ result'[s] = result[s]
    BY <1>4, Outcome
  <2> QED
    BY <1>1, <2>1, <2>2, <2>3, CasFilling DEF Filling
<1>5. ASSUME NEW bytes, NEW stage \in {"write", "sync"}, Goto(s, stage), WriteData(t, bytes),
             stage = "sync" => bytes = req[s].new
      PROVE  Sure(s)' /\ CasStep
  <2>1. FilesKept /\ dir' = dir /\ attr' = attr /\ data'[dir[t]] = bytes
    BY <1>1, <1>5, WriteHidden DEF AloneInv, IInv
  <2>2. pc'[s] = stage /\ result'[s] = result[s]
    BY <1>5, Outcome
  <2> QED
    BY <1>1, <1>5, <2>1, <2>2, CasFilling DEF Filling
<1>6. CASE pc[s] = "sync" /\ Goto(s, "rename") /\ UNCHANGED <<dir, durable, data, attr>>
  <2>1. FilesKept
    BY <1>1, <1>6, TempHidden DEF AloneInv, IInv
  <2>2. pc'[s] = "rename" /\ result'[s] = result[s]
    BY <1>6, Outcome
  <2> QED
    BY <1>1, <1>6, <2>1, <2>2, CasFilling DEF Filling
<1>7. CASE (\E outcome \in Results \ {"ok"} : Abandon(s, outcome)) /\ UNCHANGED volume
  <2>1. pc'[s] = "discard" /\ result'[s] # "ok"
    BY <1>7, Outcome
  <2> QED
    BY <1>1, <1>7, <2>1, VolumeKept, CasFilling DEF Discarding
<1> QED
  BY <1>3, <1>4, <1>5, <1>6, <1>7

\* The commit: what the path holds is still what the precondition names.
LEMMA CasRename ==
  ASSUME Alone, AloneInv, NEW s \in Servers, Rename(s)
  PROVE  Sure(s)' /\ CasStep
<1>1. /\ req' = req /\ tmp' = tmp /\ pc[s] = "rename" /\ pc[s] \in Committed /\ UnderWay(s)
      /\ result[s] # "ok" /\ tmp[s] \in TempNames /\ dir[tmp[s]] # NoInode
      /\ req[s] \in Requests /\ Path(s) \in Paths /\ req[s].new \in Contents
  BY DEF Rename, Misled, locals, Committed, Filling, Holding, UnderWay, AloneInv, Sure, IInv, CallInv,
     LocalsTypeOK, Requests, Path
<1>2. /\ attr[dir[tmp[s]]].kind = "file" /\ data[dir[tmp[s]]] = req[s].new
      /\ req[s].pre = Holds(dir[Path(s)]) /\ Holds(dir[Path(s)]) # NotAFile
  BY <1>1 DEF AloneInv, Sure, Filling
<1>3. CASE RenameEntry(tmp[s], Path(s)) /\ Finish(s, "ok")
  <2>1. Cas!Accepts(req[s], Files[req[s].path])
    BY <1>1, <1>2, MarkersAssumption DEF Cas!Accepts, Files, Path
  <2>2. Files' = [Files EXCEPT ![req[s].path] = req[s].new] /\ Saved' = Saved
    BY <1>1, <1>2, <1>3, RenameVisible DEF AloneInv, IInv, Path
  <2>3. pc'[s] = "done" /\ result'[s] = "ok"
    BY <1>3, Outcome
  <2>4. Sure(s)'
    BY <2>3 DEF Sure, Committed, Filling
  <2> QED
    BY <1>1, <2>1, <2>2, <2>3, <2>4, CommitStep
<1>4. CASE UNCHANGED volume /\ (Goto(s, "classify") \/ Abandon(s, "failed"))
  <2>1. pc'[s] \in {"classify", "discard"} /\ result'[s] # "ok"
    BY <1>1, <1>4, Outcome
  <2> QED
    BY <1>1, <1>4, <2>1, VolumeKept, CasFilling DEF Discarding
<1> QED
  BY <1>3, <1>4 DEF Rename

LEMMA CasDiscard ==
  ASSUME Alone, AloneInv, NEW s \in Servers,
         Classify(s) \/ Discard(s) \/ StripACL(s) \/ DiscardAgain(s)
  PROVE  Sure(s)' /\ CasStep
<1>1. /\ req' = req /\ UnderWay(s) /\ result[s] # "ok" /\ tmp[s] \in TempNames
  BY DEF Classify, Misled, Discard, StripACL, DiscardAgain, locals, UnderWay, Holding, Discarding,
     AloneInv, Sure, IInv, CallInv
<1>2. FilesKept
  <2>1. CASE UNCHANGED volume
    BY <2>1, VolumeKept
  <2>2. CASE Unlink(tmp[s])
    BY <1>1, <2>2, UnlinkHidden DEF AloneInv, IInv
  <2>3. CASE StripACL(s) /\ ~UNCHANGED volume
    <3> DEFINE a == [attr[dir[tmp[s]]] EXCEPT !.ext = @ \ {"denyDelete"}]
    <3>1. dir[tmp[s]] # NoInode /\ SetAttr(tmp[s], a)
      BY <2>3 DEF StripACL, Exists
    <3> HIDE DEF a
    <3> QED
      BY <1>1, <3>1, SetAttrHidden DEF AloneInv, IInv
  <2> QED
    BY <2>1, <2>2, <2>3 DEF Classify, Discard, StripACL, DiscardAgain
<1>3. Refused(s) \/ (pc'[s] \in Discarding /\ result'[s] # "ok")
  <2>1. CASE Classify(s) \/ Discard(s)
    BY <1>1, <2>1, Outcome DEF Classify, Discard, Refused, Discarding
  <2>2. CASE StripACL(s) \/ DiscardAgain(s)
    BY <1>1, <2>2 DEF StripACL, DiscardAgain, Refused, Discarding, AloneInv, IInv, LocalsTypeOK
  <2> QED
    BY <2>1, <2>2
<1>4. Sure(s)'
  BY <1>3 DEF Sure, Refused, Committed, Filling, Discarding
<1> QED
  BY <1>1, <1>2, <1>3, <1>4, HiddenStep, RefuseStep DEF Refused, UnderWay, Discarding

LEMMA CasOver ==
  ASSUME Alone, AloneInv, NEW s \in Servers, Reply(s) \/ Crash(s)
  PROVE  Sure(s)' /\ CasStep
<1>1. pc[s] # "idle" /\ pc'[s] = "idle" /\ result'[s] = "none" /\ req' = req /\ UNCHANGED volume
  BY DEF Reply, Crash, Forget, AloneInv, IInv, LocalsTypeOK
<1>2. Sure(s)'
  BY <1>1 DEF Sure, Committed, Filling
<1> QED
  BY <1>1, <1>2, VolumeKept, OverStep

LEMMA CasEnvironment ==
  ASSUME Alone, AloneInv, External \/ VolumeCheckpoint \/ PowerLoss \/ UNCHANGED vars
  PROVE  (\A s \in Servers : Sure(s)') /\ CasStep
<1>1. ~External
  BY DEF Alone, External
<1>2. CASE VolumeCheckpoint
  <2>1. /\ durable' = dir /\ dir' = dir /\ data' = data /\ attr' = attr
        /\ pc' = pc /\ req' = req /\ tmp' = tmp /\ result' = result
    BY <1>2 DEF VolumeCheckpoint, Checkpoint, locals
  <2>2. \A p \in Paths : Holds(dir[p])' = Holds(dir[p]) /\ Holds(durable[p])' = Holds(dir[p])
    BY <2>1 DEF Holds
  <2>3. Files' = Files /\ Saved' = Files /\ Statuses' = Statuses
    BY <2>1, <2>2 DEF Files, Saved, Statuses, Status
  <2>4. Cas!Save
    BY <2>1, <2>3 DEF Cas!Save, Files, Saved, Statuses
  <2>5. \A s \in Servers : Sure(s)' = Sure(s)
    BY <2>1 DEF Sure, Holds, Path
  <2> QED
    BY <2>4, <2>5 DEF CasStep, Cas!Next, AloneInv
<1>3. CASE PowerLoss
  <2>1. /\ dir' = durable /\ durable' = durable /\ attr' = attr /\ req' = req
        /\ data' = [i \in Inodes |-> IF synced[i] THEN data[i] ELSE Partial]
        /\ \A s \in Servers : pc'[s] = "idle" /\ result'[s] = "none"
    BY <1>3 DEF PowerLoss, VolumePowerLoss, Forget
  <2>2. \A p \in Paths : durable[p] # NoInode => durable[p] \in Inodes /\ synced[durable[p]]
    BY DEF AloneInv, IInv, VolumeInv, VolumeTypeOK, VisibleSaved, Names
  <2>3. \A p \in Paths : Holds(dir[p])' = Holds(durable[p]) /\ Holds(durable[p])' = Holds(durable[p])
    BY <2>1, <2>2 DEF Holds
  <2>4. Files' = Saved /\ Saved' = Saved /\ Statuses' = [s \in Servers |-> "idle"]
    BY <2>1, <2>3 DEF Files, Saved, Statuses, Status
  <2>5. Cas!PowerLoss
    BY <2>1, <2>4 DEF Cas!PowerLoss, Files, Saved, Statuses
  <2>6. \A s \in Servers : Sure(s)'
    BY <2>1 DEF Sure, Committed, Filling
  <2> QED
    BY <2>5, <2>6 DEF CasStep, Cas!Next
<1>4. CASE UNCHANGED vars
  <2>1. UNCHANGED volume /\ pc' = pc /\ req' = req /\ tmp' = tmp /\ result' = result
    BY <1>4 DEF vars, locals
  <2>2. Statuses' = Statuses
    BY <2>1 DEF Statuses, Status
  <2>3. UNCHANGED Cas!vars
    BY <2>1, <2>2, VolumeKept DEF Cas!vars, FilesKept, Files, Saved, Statuses
  <2>4. \A s \in Servers : Sure(s)' = Sure(s)
    BY <2>1 DEF Sure, Holds, Path, volume
  <2> QED
    BY <2>3, <2>4 DEF CasStep, AloneInv
<1> QED
  BY <1>1, <1>2, <1>3, <1>4

LEMMA CasNext == Alone /\ AloneInv /\ [Next]_vars => AloneInv' /\ CasStep
<1> SUFFICES ASSUME Alone, AloneInv, [Next]_vars PROVE AloneInv' /\ CasStep
  OBVIOUS
<1>1. IInv'
  BY NextLemma DEF AloneInv
<1>2. ASSUME NEW s \in Servers, Step(s) \/ Crash(s) \/ \E r \in Requests : Call(s, r)
      PROVE  Sure(s)' /\ CasStep
  BY <1>2, CasCall, CasCheck, CasDelete, CasLook, CasReserve, CasCopy, CasFill, CasRename,
     CasDiscard, CasOver DEF Step
<1>3. (\A s \in Servers : Sure(s)') /\ CasStep
  <2>1. CASE External \/ VolumeCheckpoint \/ PowerLoss \/ UNCHANGED vars
    BY <2>1, CasEnvironment
  <2>2. CASE \E s \in Servers : Step(s) \/ Crash(s) \/ \E r \in Requests : Call(s, r)
    BY <1>2, <2>2 DEF Alone
  <2> QED
    BY <2>1, <2>2 DEF Next
<1> QED
  BY <1>1, <1>3 DEF AloneInv

LEMMA CasInit == Init => AloneInv /\ Cas!Init
<1> SUFFICES ASSUME Init PROVE AloneInv /\ Cas!Init
  OBVIOUS
<1>1. IInv
  BY InitLemma
<1>2. \A s \in Servers : pc[s] = "idle" /\ result[s] = "none"
  BY DEF Init
<1>3. \A s \in Servers : Sure(s)
  BY <1>2 DEF Sure, Committed, Filling
<1>4. \A p \in Paths : Holds(dir[p]) \in Cas!Holdings
  BY <1>1 DEF Holds, Cas!Holdings, IInv, VolumeInv, VisibleSaved
<1>5. durable = dir /\ Statuses = [s \in Servers |-> "idle"]
  BY <1>2 DEF Init, VolumeInit, Statuses, Status
<1>6. req \in [Servers -> Requests]
  BY DEF Init
<1> QED
  BY <1>1, <1>3, <1>4, <1>5, <1>6 DEF AloneInv, Cas!Init, Statuses

\* Alone on its directory the server implements compare-and-swap: each call changes
\* its path in one instant, from what if_sha256 names to the new content, or changes
\* nothing; a loss of power leaves one or the other (write.go, replace.go, delete.go).
THEOREM CasImplemented == ASSUME Alone PROVE Spec => ImplementsCasFile
<1>1. AloneInv /\ [Next]_vars => AloneInv' /\ [Cas!Next]_(Cas!vars)
  BY CasNext DEF CasStep
<1> QED
  BY <1>1, CasInit, PTL DEF Spec, ImplementsCasFile, Cas!Spec
=============================================================================
