-------------------------------- MODULE Tree --------------------------------
(***************************************************************************)
(* fs_mkdir (mkdir.go, mkdirAll) and fs_delete of directories (delete.go): *)
(* calls that are several system calls over a tree of names.  A path is    *)
(* the sequence of its components; the root is the empty one and is always *)
(* a directory.  No step opens a file, so a file is any entry that is not  *)
(* a directory, a symlink included: Lstat and RemoveAll take it as that.   *)
(***************************************************************************)
EXTENDS Naturals, Sequences

CONSTANTS
  Names,    \* components
  Depth,    \* bound: the components of a path
  Servers,
  IOFaults, \* whether a system call can fail for reasons of its own
  Worlds    \* which of the worlds below are looked at

ASSUME TreeAssumption == Depth \in Nat \ {0} /\ Names # {}
ASSUME WorldsAssumption ==
  /\ Worlds \subseteq {"alone", "making", "servers", "shared"}
  /\ IOFaults \in BOOLEAN

Paths == UNION {[1..n -> Names] : n \in 1..Depth}
Root == <<>>

\* Who changes the tree during a call.  alone: nobody else.  making: other calls of
\* fs_mkdir.  servers: other calls of any kind.  shared: any program.
VARIABLES
  world,
  kind,     \* what each path names: "none", "dir" or "file"
  pc,       \* the system call server s makes next
  op, target,
  at,       \* mkdirAll's loop: the number of components in cur
  created,  \* mkdirAll's result so far
  result

call == <<op, target, at, created>>
vars == <<world, kind, pc, call, result>>

IsDir(p) == IF p = Root THEN TRUE ELSE kind[p] = "dir"
Parent(p) == SubSeq(p, 1, Len(p) - 1)
Below(p, q) == Len(q) < Len(p) /\ SubSeq(p, 1, Len(q)) = q
Empty(p) == \A c \in Paths : Parent(c) = p => kind[c] = "none"

\* An entry has a directory above it.
Rooted == \A p \in Paths : kind[p] # "none" => IsDir(Parent(p))

Init ==
  /\ world \in Worlds
  /\ kind \in [Paths -> {"none", "dir", "file"}]
  /\ Rooted
  /\ pc = [s \in Servers |-> "idle"]
  /\ op = [s \in Servers |-> "mkdir"]
  /\ target = [s \in Servers |-> CHOOSE p \in Paths : TRUE]
  /\ at = [s \in Servers |-> 1]
  /\ created = [s \in Servers |-> <<>>]
  /\ result = [s \in Servers |-> "none"]

Goto(s, stage) == pc' = [pc EXCEPT ![s] = stage] /\ UNCHANGED <<world, result>>

Finish(s, outcome) ==
  /\ pc' = [pc EXCEPT ![s] = "done"]
  /\ result' = [result EXCEPT ![s] = outcome]
  /\ UNCHANGED world

\* What a system call on p says when there is no such entry: an ancestor may be gone
\* too, or be a file by now.
NoEntry(p) ==
  IF \E n \in 1..(Len(p) - 1) : kind[SubSeq(p, 1, n)] = "file" THEN "not_a_dir" ELSE "not_found"

Call(s, o, p) ==
  /\ pc[s] = "idle"
  /\ world = "alone" => \A other \in Servers : pc[other] = "idle"
  /\ world = "making" => o = "mkdir"
  /\ op' = [op EXCEPT ![s] = o]
  /\ target' = [target EXCEPT ![s] = p]
  /\ at' = [at EXCEPT ![s] = 1]
  /\ created' = [created EXCEPT ![s] = <<>>]
  /\ Goto(s, IF o = "mkdir" THEN "lstat" ELSE "deleteLstat")
  /\ UNCHANGED kind
-----------------------------------------------------------------------------
(* fs_mkdir *)

Cur(s) == SubSeq(target[s], 1, at[s])

\* Variant: the loop runs one component too far.
NextPartPast(s) ==
  IF at[s] > Len(target[s])
  THEN Finish(s, "ok") /\ UNCHANGED at
  ELSE Goto(s, "lstat") /\ at' = [at EXCEPT ![s] = @ + 1]

\* The loop goes on to the next component, or is through.
NextPart(s) ==
  IF at[s] = Len(target[s])
  THEN Finish(s, "ok") /\ UNCHANGED at
  ELSE Goto(s, "lstat") /\ at' = [at EXCEPT ![s] = @ + 1]

Lstat(s) ==
  /\ pc[s] = "lstat"
  /\ \/ kind[Cur(s)] = "dir" /\ NextPart(s)
     \/ kind[Cur(s)] = "file" /\ Finish(s, "not_a_dir") /\ UNCHANGED at
     \/ kind[Cur(s)] = "none" /\ NoEntry(Cur(s)) = "not_found" /\ Goto(s, "mkdir") /\ UNCHANGED at
     \/ kind[Cur(s)] = "none" /\ NoEntry(Cur(s)) = "not_a_dir"
          /\ Finish(s, "not_a_dir") /\ UNCHANGED at
     \/ IOFaults /\ Finish(s, "failed") /\ UNCHANGED at
  /\ UNCHANGED <<kind, op, target, created>>

\* Variant: EEXIST is taken for success.
MkdirOrExists(s) ==
  /\ pc[s] = "mkdir"
  /\ \/ /\ IsDir(Parent(Cur(s)))
        /\ kind' = [kind EXCEPT ![Cur(s)] = "dir"]
        /\ created' = [created EXCEPT ![s] = Append(@, Cur(s))]
        /\ NextPart(s)
     \/ /\ ~IsDir(Parent(Cur(s))) \/ IOFaults
        /\ Finish(s, "failed") /\ UNCHANGED <<kind, at, created>>
  /\ UNCHANGED <<op, target>>

\* mkdir(2) makes the directory or says why it cannot; what was made before stays.
Mkdir(s) ==
  /\ pc[s] = "mkdir"
  /\ \/ /\ kind[Cur(s)] = "none" /\ IsDir(Parent(Cur(s)))
        /\ kind' = [kind EXCEPT ![Cur(s)] = "dir"]
        /\ created' = [created EXCEPT ![s] = Append(@, Cur(s))]
        /\ NextPart(s)
     \/ /\ \/ kind[Cur(s)] # "none" /\ Finish(s, "exists")
           \/ kind[Cur(s)] = "none" /\ ~IsDir(Parent(Cur(s))) /\ Finish(s, NoEntry(Cur(s)))
           \/ IOFaults /\ Finish(s, "failed")
        /\ UNCHANGED <<kind, at, created>>
  /\ UNCHANGED <<op, target>>
-----------------------------------------------------------------------------
(* fs_delete *)

DeleteLstat(s) ==
  /\ pc[s] = "deleteLstat"
  /\ \/ kind[target[s]] = "none" /\ Finish(s, NoEntry(target[s]))
     \/ kind[target[s]] = "file" /\ Goto(s, "remove")
     \/ kind[target[s]] = "dir" /\ Goto(s, IF op[s] = "recursive" THEN "removeAll" ELSE "readDir")
     \/ IOFaults /\ Finish(s, "failed")
  /\ UNCHANGED <<kind, call>>

\* Variant: a directory is removed whatever it holds.
ReadDirNothing(s) ==
  /\ pc[s] = "readDir"
  /\ Goto(s, "removeAll")
  /\ UNCHANGED <<kind, call>>

\* isEmptyDir: without recursive, only a directory with no entries is removed.
ReadDir(s) ==
  /\ pc[s] = "readDir"
  /\ \/ IsDir(target[s]) /\ Empty(target[s]) /\ Goto(s, "removeAll")
     \/ IsDir(target[s]) /\ ~Empty(target[s]) /\ Finish(s, "invalid_argument")
     \/ kind[target[s]] = "file" /\ Finish(s, "not_a_dir")
     \/ kind[target[s]] = "none" /\ Finish(s, NoEntry(target[s]))
     \/ IOFaults /\ Finish(s, "failed")
  /\ UNCHANGED <<kind, call>>

\* Root.Remove takes a file or an empty directory.
Remove(s) ==
  /\ pc[s] = "remove"
  /\ \/ /\ kind[target[s]] # "none" /\ Empty(target[s])
        /\ kind' = [kind EXCEPT ![target[s]] = "none"]
        /\ Finish(s, "ok")
     \/ /\ \/ kind[target[s]] = "none" /\ Finish(s, NoEntry(target[s]))
           \/ (~Empty(target[s]) \/ IOFaults) /\ Finish(s, "failed")
        /\ UNCHANGED kind
  /\ UNCHANGED call

\* Variant: RemoveAll's error is not looked at.
RemoveAllRegardless(s) ==
  /\ pc[s] = "removeAll"
  /\ \/ \E p \in Paths :
          /\ p = target[s] \/ Below(p, target[s])
          /\ kind[p] # "none" /\ Empty(p)
          /\ kind' = [kind EXCEPT ![p] = "none"]
          /\ UNCHANGED <<world, pc, result>>
     \/ (kind[target[s]] = "none" \/ IOFaults) /\ Finish(s, "ok") /\ UNCHANGED kind
  /\ UNCHANGED call

\* RemoveAll unlinks one entry after another, children before parents, whatever
\* comes under the target meanwhile included; it is done when the target is gone
\* (before it starts, too), and gives up on an entry that will not go.
RemoveAll(s) ==
  /\ pc[s] = "removeAll"
  /\ \/ \E p \in Paths :
          /\ p = target[s] \/ Below(p, target[s])
          /\ kind[p] # "none" /\ Empty(p)
          /\ kind' = [kind EXCEPT ![p] = "none"]
          /\ UNCHANGED <<world, pc, result>>
     \/ kind[target[s]] = "none" /\ Finish(s, "ok") /\ UNCHANGED kind
     \/ kind[target[s]] # "none" /\ IOFaults /\ Finish(s, "failed") /\ UNCHANGED kind
  /\ UNCHANGED call

Reply(s) ==
  /\ pc[s] = "done"
  /\ pc' = [pc EXCEPT ![s] = "idle"]
  /\ result' = [result EXCEPT ![s] = "none"]
  /\ UNCHANGED <<world, kind, call>>

\* Another program makes or removes an entry.
External(p) ==
  /\ world = "shared"
  /\ \/ kind[p] = "none" /\ IsDir(Parent(p)) /\ \E k \in {"dir", "file"} : kind' = [kind EXCEPT ![p] = k]
     \/ kind[p] # "none" /\ Empty(p) /\ kind' = [kind EXCEPT ![p] = "none"]
  /\ UNCHANGED <<world, pc, call, result>>

MkdirStep(s) == Lstat(s) \/ Mkdir(s)
DeleteStep(s) == DeleteLstat(s) \/ ReadDir(s) \/ Remove(s) \/ RemoveAll(s)

Next ==
  \/ \E s \in Servers :
       \/ \E o \in {"mkdir", "delete", "recursive"}, p \in Paths : Call(s, o, p)
       \/ MkdirStep(s) \/ DeleteStep(s) \/ Reply(s)
  \/ \E p \in Paths : External(p)

Spec == Init /\ [][Next]_vars
-----------------------------------------------------------------------------
(* Properties. *)

\* The variables keep their types, and no entry is ever left without a directory
\* above it, whoever removes what.
TypeOK ==
  /\ world \in {"alone", "making", "servers", "shared"}
  /\ kind \in [Paths -> {"none", "dir", "file"}] /\ Rooted
  /\ pc \in [Servers -> {"idle", "lstat", "mkdir", "deleteLstat", "readDir", "remove",
                         "removeAll", "done"}]
  /\ op \in [Servers -> {"mkdir", "delete", "recursive"}]
  /\ target \in [Servers -> Paths]
  /\ \A s \in Servers : at[s] \in 1..Len(target[s]) /\ created[s] \in Seq(Paths)
  /\ result \in [Servers -> {"none", "ok", "exists", "not_found", "not_a_dir",
                             "invalid_argument", "failed"}]

Created(s) == {created[s][i] : i \in 1..Len(created[s])}

\* "created" names the directories the call itself made: while nothing is deleted,
\* no two calls claim one directory, however they interleave.
CreatedOnce ==
  world = "making" =>
    \A s, t \in Servers :
      s # t /\ pc[s] # "idle" /\ pc[t] # "idle" => Created(s) \cap Created(t) = {}

\* After an "ok" of fs_mkdir every component of the path is a directory, while nothing
\* is deleted; after an "ok" of fs_delete the entry is gone with all that was below
\* it, while nobody else makes entries.
OkMeansDone ==
  \A s \in Servers :
    pc[s] = "done" /\ result[s] = "ok" =>
      IF op[s] = "mkdir"
      THEN world \in {"alone", "making"} => \A n \in 1..Len(target[s]) : IsDir(SubSeq(target[s], 1, n))
      ELSE world = "alone" =>
             \A p \in Paths : p = target[s] \/ Below(p, target[s]) => kind[p] = "none"

\* Without recursive, a step of a delete removes the entry it names and no other.
RemovesAsAsked ==
  \A s \in Servers : DeleteStep(s) =>
    \A p \in Paths : kind[p] # "none" /\ kind'[p] = "none" =>
      p = target[s] \/ (op[s] = "recursive" /\ Below(p, target[s]))

\* So it is when nobody adds to the directory during the call.  On a shared tree it is
\* not: what comes after ReadDir looked is removed too.
DeletedAsAskedAlone == [][world = "alone" => RemovesAsAsked]_vars
=============================================================================
