---------------------------- MODULE AtomicReplace ----------------------------
(***************************************************************************)
(* fs_write, fs_replace and fs_delete of a file, from the precondition to  *)
(* the reply: handleWrite (write.go), handleReplace (replace.go),          *)
(* handleDelete (delete.go) and the protocol they share in atomic.go.      *)
(*                                                                         *)
(* Each server is one fsmcp process; it runs one call at a time, and one   *)
(* action is one system call (or one helper program) of that call.  pc[s]  *)
(* names the call about to be made.  Several servers, and other programs,  *)
(* may work on the same directory.                                         *)
(*                                                                         *)
(* A request is (path, pre, new).  pre is if_sha256: a content stands for  *)
(* its hash, Absent for null, Missing for a key that was not sent.  new is *)
(* what the file is to become: the content fs_write sends, what applyEdits *)
(* makes of the content whose hash fs_replace sends, NoMatch when          *)
(* applyEdits refuses (it always does when there is no file), and Absent   *)
(* for fs_delete.                                                          *)
(***************************************************************************)
EXTENDS Volume

CONSTANTS
  Servers,
  Absent, Missing, NoMatch,
  NoName,        \* the temp name of a call that has none
  Faults,        \* which of "io" (a call or a helper program fails for a reason the
                 \* model does not track: an I/O error, or the permissions of the
                 \* directory itself), "crash", "power" can happen
  ExternalOps    \* which of "put", "remove", "chattr" other programs do

ASSUME MarkersAssumption ==
  /\ {Absent, Missing, NoMatch, Partial} \cap Contents = {}
  /\ Absent # Missing /\ Absent # NoMatch
  /\ NoName \notin TempNames
ASSUME FaultsAssumption ==
  /\ Faults \subseteq {"io", "crash", "power"}
  /\ ExternalOps \subseteq {"put", "remove", "chattr"}

Requests == [path: Paths, pre: Contents \cup {Absent, Missing},
             new: Contents \cup {Absent, NoMatch}]

VARIABLES
  pc,       \* the system call server s makes next
  req,      \* the request it is serving
  exists,   \* AtomicReplace's local exists
  perm,     \* AtomicReplace's fi.Mode().Perm()
  tmp,      \* AtomicReplace's tmpPath
  result,   \* the outcome the reply will carry
  doubt,    \* history: something else than the target had a part in the refusal
  orphans   \* history: temp files whose server died before removing them, or whose
            \* discardTemp met an error it ignores

locals == <<req, exists, perm, tmp, doubt>>
vars == <<volume, pc, locals, result, orphans>>

Results ==
  {"none", "ok", "invalid_argument", "not_a_file", "exists", "not_found",
   "precondition_failed", "no_match", "not_writable", "attrs_unpreservable",
   "flagged", "undeletable", "failed"}

\* The stages of AtomicReplace at which the call holds a temp name.
Filling == {"copy", "chmod", "truncate", "write", "sync", "rename"}
Discarding == {"discard", "strip", "rediscard"}
Holding == Filling \cup {"classify"} \cup Discarding

Stages ==
  {"idle", "decode", "check", "hash", "lstat", "probe", "reserve", "done",
   "deleteLstat", "deleteHash", "remove"} \cup Holding

Init ==
  /\ VolumeInit
  /\ pc = [s \in Servers |-> "idle"]
  /\ req \in [Servers -> Requests]
  /\ \A s \in Servers : req[s] = CHOOSE r \in Requests : TRUE
  /\ exists = [s \in Servers |-> FALSE]
  /\ perm = [s \in Servers |-> {}]
  /\ tmp = [s \in Servers |-> NoName]
  /\ doubt = [s \in Servers |-> FALSE]
  /\ result = [s \in Servers |-> "none"]
  /\ orphans = {}
-----------------------------------------------------------------------------
Goto(s, stage) ==
  /\ pc' = [pc EXCEPT ![s] = stage]
  /\ UNCHANGED <<result, orphans>>

\* The handler returns: an error result, or the success result.
Finish(s, outcome) ==
  /\ pc' = [pc EXCEPT ![s] = "done"]
  /\ result' = [result EXCEPT ![s] = outcome]
  /\ UNCHANGED orphans

\* AtomicReplace returns an error while it holds a temp name: the deferred
\* discardTemp runs before the error reaches the handler.
Abandon(s, outcome) ==
  /\ pc' = [pc EXCEPT ![s] = "discard"]
  /\ result' = [result EXCEPT ![s] = outcome]
  /\ UNCHANGED orphans

IOError == "io" \in Faults

Path(s) == req[s].path
-----------------------------------------------------------------------------
(* The handlers, up to AtomicReplace. *)

Call(s, r) ==
  /\ pc[s] = "idle"
  /\ req' = [req EXCEPT ![s] = r]
  /\ Goto(s, "decode")
  /\ UNCHANGED <<volume, exists, perm, tmp, doubt>>

\* Variant: a missing if_sha256 is no precondition, for a write as for a delete.
DecodeAnything(s) ==
  /\ pc[s] = "decode"
  /\ Goto(s, IF req[s].new = Absent THEN "deleteLstat"
             ELSE IF req[s].pre = Missing THEN "lstat" ELSE "check")
  /\ UNCHANGED <<volume, locals>>

\* parsePrecondition classifies if_sha256: a write must not omit it.
Decode(s) ==
  /\ pc[s] = "decode"
  /\ \/ req[s].new = Absent /\ Goto(s, "deleteLstat")
     \/ req[s].new # Absent /\ req[s].pre = Missing /\ Finish(s, "invalid_argument")
     \/ req[s].new # Absent /\ req[s].pre # Missing /\ Goto(s, "check")
  /\ UNCHANGED <<volume, locals>>

\* Variant: the error of applyEdits is not looked at.
ProceedRegardless(s) == Goto(s, "lstat")

\* What follows a satisfied precondition: fs_replace applies its edits.
Proceed(s) ==
  IF req[s].new = NoMatch THEN Finish(s, "no_match") ELSE Goto(s, "lstat")

\* resolvePrecondition: the Lstat and what it settles alone.
CheckLstat(s) ==
  /\ pc[s] = "check"
  /\ \/ IsFile(Path(s)) /\ req[s].pre = Absent /\ Finish(s, "exists")
     \/ IsFile(Path(s)) /\ req[s].pre # Absent /\ Goto(s, "hash")
     \/ Exists(Path(s)) /\ ~IsFile(Path(s)) /\ Finish(s, "not_a_file")
     \/ ~Exists(Path(s)) /\ req[s].pre # Absent /\ Finish(s, "not_found")
     \/ ~Exists(Path(s)) /\ req[s].pre = Absent /\ Proceed(s)
     \/ IOError /\ Finish(s, "failed")
  /\ UNCHANGED <<volume, locals>>

\* hashFile or ReadFile opens the path anew; it must still be a readable file.
CanHash(s) == IsFile(Path(s)) /\ MayRead(Path(s))

HashMatches(s) == data[dir[Path(s)]] = req[s].pre

\* resolvePrecondition: the hash of the content against if_sha256.
CheckHash(s) ==
  /\ pc[s] = "hash"
  /\ \/ CanHash(s) /\ HashMatches(s) /\ Proceed(s)
     \/ CanHash(s) /\ ~HashMatches(s) /\ Finish(s, "precondition_failed")
     \/ (~CanHash(s) \/ IOError) /\ Finish(s, "failed")
  /\ UNCHANGED <<volume, locals>>

\* handleDelete: Lstat, then verifyDeleteHash when a hash was sent (null and a
\* missing key both mean no precondition).
DeleteLstat(s) ==
  /\ pc[s] = "deleteLstat"
  /\ \/ ~Exists(Path(s)) /\ Finish(s, "not_found")
     \/ Exists(Path(s)) /\ req[s].pre \notin Contents /\ Goto(s, "remove")
     \/ IsFile(Path(s)) /\ req[s].pre \in Contents /\ Goto(s, "deleteHash")
     \/ Exists(Path(s)) /\ ~IsFile(Path(s)) /\ req[s].pre \in Contents
          /\ Finish(s, "not_a_file")
     \/ IOError /\ Finish(s, "failed")
  /\ UNCHANGED <<volume, locals>>

DeleteHash(s) ==
  /\ pc[s] = "deleteHash"
  /\ \/ CanHash(s) /\ HashMatches(s) /\ Goto(s, "remove")
     \/ CanHash(s) /\ ~HashMatches(s) /\ Finish(s, "precondition_failed")
     \/ (~CanHash(s) \/ IOError) /\ Finish(s, "failed")
  /\ UNCHANGED <<volume, locals>>

\* handleDelete's Remove (or RemoveAll, of a directory taken to be empty).
DeleteRemove(s) ==
  /\ pc[s] = "remove"
  /\ \/ Exists(Path(s)) /\ ~Protected(Path(s)) /\ Unlink(Path(s)) /\ Finish(s, "ok")
     \/ (~Exists(Path(s)) \/ Protected(Path(s)) \/ IOError)
          /\ Finish(s, "failed") /\ UNCHANGED volume
  /\ UNCHANGED locals
-----------------------------------------------------------------------------
(* AtomicReplace. *)

\* The second Lstat: exists and the permission bits come from here.
Lstat(s) ==
  /\ pc[s] = "lstat"
  /\ \/ /\ IsFile(Path(s))
        /\ exists' = [exists EXCEPT ![s] = TRUE]
        /\ perm' = [perm EXCEPT ![s] = attr[dir[Path(s)]].mode \ {"s"}]
        /\ Goto(s, "probe")
     \/ /\ ~Exists(Path(s))
        /\ exists' = [exists EXCEPT ![s] = FALSE]
        /\ Goto(s, "reserve")
        /\ UNCHANGED perm
     \/ /\ Exists(Path(s)) /\ ~IsFile(Path(s))
        /\ Finish(s, "not_a_file")
        /\ UNCHANGED <<exists, perm>>
     \/ IOError /\ Finish(s, "failed") /\ UNCHANGED <<exists, perm>>
  /\ UNCHANGED <<volume, req, tmp, doubt>>

Locked(n) == Exists(n) /\ "locked" \in attr[dir[n]].flags

\* Variant: no probe; rename(2) is trusted to ask.
ProbeNothing(s) ==
  /\ pc[s] = "probe"
  /\ Goto(s, "reserve")
  /\ UNCHANGED <<volume, locals>>

\* The O_WRONLY open that asks whether a plain write would be allowed.  EACCES
\* refuses; EPERM (a file flag) is left to the rename; anything else fails.
ProbeWritable(s) ==
  /\ pc[s] = "probe"
  /\ \/ IsFile(Path(s)) /\ MayWrite(Path(s)) /\ Goto(s, "reserve")
     \/ IsFile(Path(s)) /\ Locked(Path(s)) /\ Goto(s, "reserve")
     \/ IsFile(Path(s)) /\ ~MayWrite(Path(s)) /\ Finish(s, "not_writable")
     \/ (~IsFile(Path(s)) \/ IOError) /\ Finish(s, "failed")
  /\ UNCHANGED <<volume, locals>>

\* Variant: one fixed temp name for every call, truncated if it is there.
ReserveFixed(s) ==
  /\ pc[s] = "reserve"
  /\ LET t == CHOOSE t \in TempNames : TRUE IN
       /\ tmp' = [tmp EXCEPT ![s] = t]
       /\ IF exists[s] THEN Goto(s, "copy") /\ UNCHANGED volume
          ELSE /\ Goto(s, "write")
               /\ IF Exists(t) THEN WriteData(t, Partial) ELSE CreateAs(t, Partial, Fresh)
  /\ UNCHANGED <<req, exists, perm, doubt>>

\* reserveTempName.  A draw is random: two calls in flight never draw the same
\* name.  With no target to copy, the file is created here (O_EXCL).
Reserve(s) ==
  /\ pc[s] = "reserve"
  /\ \E t \in TempNames :
       /\ ~Exists(t)
       /\ \A other \in Servers : tmp[other] # t
       /\ tmp' = [tmp EXCEPT ![s] = t]
       /\ IF exists[s] THEN Goto(s, "copy") /\ UNCHANGED volume
          ELSE Goto(s, "write") /\ CreateAs(t, Partial, Fresh)
  /\ UNCHANGED <<req, exists, perm, doubt>>

\* Eight draws hit existing names, or a system call failed.
ReserveFails(s) ==
  /\ pc[s] = "reserve"
  /\ (\E t \in TempNames : Exists(t)) \/ IOError
  /\ Finish(s, "failed")
  /\ UNCHANGED <<volume, locals>>

\* cp without -N: the BSD flags come along.
CopiedWithFlags(a) == [a EXCEPT !.owner = "self"]

\* What cp -pN carries over: mode (set-id included), extended attributes and
\* ACL, but no BSD flag, and not the owner.
Copied(a) == [a EXCEPT !.owner = "self", !.flags = {}]

\* /bin/cp -pN creates the temp file from the one file it opened, or fails with
\* nothing created, or fails partway.  When it returns an error,
\* preserveAttributes does not look for what it left.
Copy(s) ==
  /\ pc[s] = "copy"
  /\ \/ /\ CanHash(s)
        /\ CreateAs(tmp[s], data[dir[Path(s)]], Copied(attr[dir[Path(s)]]))
        /\ Goto(s, "chmod")
     \/ /\ CanHash(s) /\ IOError
        /\ CreateAs(tmp[s], Partial, Copied(attr[dir[Path(s)]]))
        /\ Abandon(s, "attrs_unpreservable")
     \/ (~CanHash(s) \/ IOError) /\ Abandon(s, "attrs_unpreservable") /\ UNCHANGED volume
  /\ UNCHANGED locals

\* Variant: the mode is left as cp set it.
ChmodNothing(s) ==
  /\ pc[s] = "chmod"
  /\ Goto(s, "truncate")
  /\ UNCHANGED <<volume, locals>>

\* chmod(2) re-asserts the permission bits alone.
Chmod(s) ==
  /\ pc[s] = "chmod"
  /\ \/ /\ SetAttr(tmp[s], [attr[dir[tmp[s]]] EXCEPT !.mode = perm[s]])
        /\ Goto(s, "truncate")
     \/ IOError /\ Abandon(s, "attrs_unpreservable") /\ UNCHANGED volume
  /\ UNCHANGED locals

\* overwriteTempContent: O_WRONLY|O_TRUNC on a file that carries the target's
\* own permissions by now.
Truncate(s) ==
  /\ pc[s] = "truncate"
  /\ \/ MayWrite(tmp[s]) /\ WriteData(tmp[s], Partial) /\ Goto(s, "write")
     \/ (~MayWrite(tmp[s]) \/ IOError) /\ Abandon(s, "failed") /\ UNCHANGED volume
  /\ UNCHANGED locals

\* Variant: an existing file is rewritten where it is.
WriteInPlace(s) ==
  /\ pc[s] = "write"
  /\ WriteData(IF Exists(Path(s)) THEN Path(s) ELSE tmp[s], req[s].new)
  /\ Goto(s, "sync")
  /\ UNCHANGED locals

\* writeAndClose: the write, then the fsync, then the close.
Write(s) ==
  /\ pc[s] = "write"
  /\ \/ WriteData(tmp[s], req[s].new) /\ Goto(s, "sync")
     \/ IOError /\ Abandon(s, "failed") /\ UNCHANGED volume
  /\ UNCHANGED locals

\* Variant: the file is closed without fsync.
SyncNothing(s) ==
  /\ pc[s] = "sync"
  /\ Goto(s, "rename")
  /\ UNCHANGED <<volume, locals>>

Sync(s) ==
  /\ pc[s] = "sync"
  /\ \/ /\ synced' = [synced EXCEPT ![dir[tmp[s]]] = TRUE]
        /\ Goto(s, "rename")
        /\ UNCHANGED <<dir, durable, data, attr>>
     \/ IOError /\ Abandon(s, "failed") /\ UNCHANGED volume
  /\ UNCHANGED locals

\* What decides about the refusal is not the state of the target.
Misled(s) ==
  /\ doubt' = [doubt EXCEPT ![s] = TRUE]
  /\ UNCHANGED <<req, exists, perm, tmp>>

\* The commit.  EACCES or EPERM on an existing target is classified before the
\* refusal, whether the target or the temp file is protected or the directory
\* forbids it (no write permission, or sticky and somebody else's).
Rename(s) ==
  /\ pc[s] = "rename"
  /\ \/ /\ CanRename(tmp[s], Path(s))
        /\ RenameEntry(tmp[s], Path(s))
        /\ Finish(s, "ok")
        /\ UNCHANGED locals
     \/ /\ Protected(tmp[s]) \/ Protected(Path(s))
        /\ IF exists[s] THEN Goto(s, "classify") ELSE Abandon(s, "failed")
        /\ UNCHANGED <<volume, locals>>
     \/ /\ IOError /\ exists[s]
        /\ Goto(s, "classify")
        /\ Misled(s)
        /\ UNCHANGED volume
     \/ /\ (Exists(Path(s)) /\ ~IsFile(Path(s))) \/ IOError
        /\ Abandon(s, "failed")
        /\ UNCHANGED <<volume, locals>>

\* Variant: every EPERM is put down to the ACL.
ClassifyNothing(s) ==
  /\ pc[s] = "classify"
  /\ Abandon(s, "undeletable")
  /\ UNCHANGED <<volume, locals>>

\* hasReplaceForbiddingFlag: a fresh Lstat decides which cause is named; one
\* that fails counts as no flag.
Classify(s) ==
  /\ pc[s] = "classify"
  /\ \/ Locked(Path(s)) /\ Abandon(s, "flagged") /\ UNCHANGED locals
     \/ ~Locked(Path(s)) /\ Abandon(s, "undeletable") /\ UNCHANGED locals
     \/ IOError /\ Abandon(s, "undeletable") /\ Misled(s)
  /\ UNCHANGED volume
-----------------------------------------------------------------------------
(* discardTemp.  It ignores the error of each of its three calls. *)

\* A Remove succeeds, or the entry is absent or protected, or it fails for
\* another reason.
Removable(n) == Exists(n) /\ ~Protected(n)

\* Nobody will remove the temp file any more.
Strand(s) == orphans' = orphans \cup {t \in TempNames : t = tmp[s] /\ Exists(t)}

\* Variant: a Remove that fails is left at that.
DiscardOnce(s) ==
  /\ pc[s] = "discard"
  /\ IF Removable(tmp[s]) THEN Unlink(tmp[s]) ELSE UNCHANGED volume
  /\ Finish(s, result[s])
  /\ UNCHANGED locals

Discard(s) ==
  /\ pc[s] = "discard"
  /\ \/ Removable(tmp[s]) /\ Unlink(tmp[s]) /\ Finish(s, result[s])
     \/ (~Removable(tmp[s]) \/ IOError) /\ Goto(s, "strip") /\ UNCHANGED volume
  /\ UNCHANGED locals

\* /bin/chmod -N clears the ACL of the temp file, if there is one; or it cannot
\* be run, or fails.
StripACL(s) ==
  /\ pc[s] = "strip"
  /\ \/ /\ Exists(tmp[s])
        /\ SetAttr(tmp[s], [attr[dir[tmp[s]]] EXCEPT !.ext = @ \ {"denyDelete"}])
        /\ UNCHANGED orphans
     \/ ~Exists(tmp[s]) /\ UNCHANGED <<volume, orphans>>
     \/ IOError /\ Strand(s) /\ UNCHANGED volume
  /\ pc' = [pc EXCEPT ![s] = "rediscard"]
  /\ UNCHANGED <<locals, result>>

\* Variant: the temp file is removed again until it is gone.
DiscardUntilGone(s) ==
  /\ pc[s] = "rediscard"
  /\ IF Removable(tmp[s]) THEN Unlink(tmp[s]) /\ Finish(s, result[s])
     ELSE UNCHANGED volume /\ Goto(s, "strip")
  /\ UNCHANGED locals

DiscardAgain(s) ==
  /\ pc[s] = "rediscard"
  /\ \/ Removable(tmp[s]) /\ Unlink(tmp[s]) /\ orphans' = orphans \ {tmp[s]}
     \/ ~Removable(tmp[s]) /\ UNCHANGED <<volume, orphans>>
     \/ IOError /\ Strand(s) /\ UNCHANGED volume
  /\ pc' = [pc EXCEPT ![s] = "done"]
  /\ UNCHANGED <<locals, result>>

\* The reply is written and the handler's locals are gone.
Reply(s) ==
  /\ pc[s] = "done"
  /\ pc' = [pc EXCEPT ![s] = "idle"]
  /\ result' = [result EXCEPT ![s] = "none"]
  /\ exists' = [exists EXCEPT ![s] = FALSE]
  /\ perm' = [perm EXCEPT ![s] = {}]
  /\ tmp' = [tmp EXCEPT ![s] = NoName]
  /\ doubt' = [doubt EXCEPT ![s] = FALSE]
  /\ UNCHANGED <<volume, req, orphans>>

-----------------------------------------------------------------------------
(* The environment. *)

Forget(S) ==
  /\ pc' = [s \in Servers |-> IF s \in S THEN "idle" ELSE pc[s]]
  /\ exists' = [s \in Servers |-> IF s \in S THEN FALSE ELSE exists[s]]
  /\ perm' = [s \in Servers |-> IF s \in S THEN {} ELSE perm[s]]
  /\ tmp' = [s \in Servers |-> IF s \in S THEN NoName ELSE tmp[s]]
  /\ doubt' = [s \in Servers |-> IF s \in S THEN FALSE ELSE doubt[s]]
  /\ result' = [s \in Servers |-> IF s \in S THEN "none" ELSE result[s]]
  /\ UNCHANGED req

\* A server process is killed; what it created stays.
Crash(s) ==
  /\ "crash" \in Faults
  /\ pc[s] # "idle"
  /\ Forget({s})
  /\ Strand(s)
  /\ UNCHANGED volume

PowerLoss ==
  /\ "power" \in Faults
  /\ VolumePowerLoss
  /\ Forget(Servers)
  /\ orphans' = {t \in TempNames : durable[t] # NoInode}

External ==
  /\ \E p \in Paths :
       \/ "put" \in ExternalOps /\ ExternalPut(p)
       \/ "remove" \in ExternalOps /\ ExternalRemove(p)
       \/ "chattr" \in ExternalOps /\ ExternalChattr(p)
  /\ UNCHANGED <<pc, locals, result, orphans>>

VolumeCheckpoint ==
  /\ "power" \in Faults
  /\ Checkpoint
  /\ UNCHANGED <<pc, locals, result, orphans>>

Step(s) ==
  \/ Decode(s) \/ CheckLstat(s) \/ CheckHash(s)
  \/ DeleteLstat(s) \/ DeleteHash(s) \/ DeleteRemove(s)
  \/ Lstat(s) \/ ProbeWritable(s) \/ Reserve(s) \/ ReserveFails(s)
  \/ Copy(s) \/ Chmod(s) \/ Truncate(s) \/ Write(s) \/ Sync(s)
  \/ Rename(s) \/ Classify(s)
  \/ Discard(s) \/ StripACL(s) \/ DiscardAgain(s)
  \/ Reply(s)

Next ==
  \/ \E s \in Servers : (\E r \in Requests : Call(s, r)) \/ Step(s) \/ Crash(s)
  \/ External
  \/ VolumeCheckpoint
  \/ PowerLoss

Spec == Init /\ [][Next]_vars

\* A handler runs to its reply: main.go's serve loop is a single goroutine and
\* nothing in a handler waits for another call.
Fairness == \A s \in Servers : WF_vars(Step(s))

FairSpec == Spec /\ Fairness
-----------------------------------------------------------------------------
(* Properties. *)

\* The variables keep their types; every outcome is one the handlers map to a code.
TypeOK ==
  /\ VolumeTypeOK
  /\ pc \in [Servers -> Stages]
  /\ req \in [Servers -> Requests]
  /\ exists \in [Servers -> BOOLEAN]
  /\ perm \in [Servers -> SUBSET Bits]
  /\ tmp \in [Servers -> TempNames \cup {NoName}]
  /\ result \in [Servers -> Results]
  /\ doubt \in [Servers -> BOOLEAN]
  /\ orphans \subseteq TempNames

\* A path a caller can name never holds half of a file: not while any number of
\* calls are in flight, not after a process is killed, not after power is lost
\* between any two steps (atomic.go: temp file, fsync, rename).
NeverTorn == \A p \in Paths : Exists(p) => data[dir[p]] \in Contents

\* No step ever changes the bytes of a file some path denotes: whoever has it
\* open, or holds another hard link to it, keeps what they had.  A commit is a
\* new inode, never a rewrite of the old one.
VisibleImmutable ==
  [][\A p \in Paths : Exists(p) => data'[dir[p]] = data[dir[p]]]_vars

\* A temp file left in the directory belongs to a call still in progress, to a
\* process that died, or to a call whose discardTemp failed twice: its first
\* Remove, and then the chmod -N or the second Remove met an error of their own.
\* Every other way a call can fail removes its temp file, one that carries a
\* "deny delete" entry included (discardTemp, cp -N).
TempAccounted ==
  \A t \in TempNames : Exists(t) =>
    t \in orphans \/ \E s \in Servers : tmp[s] = t /\ pc[s] \in Holding

Committing(s) == pc[s] = "rename" /\ pc'[s] = "done"

\* A commit over an existing file keeps its permission bits (less set-id and
\* sticky), its extended attributes and its ACL, whatever failed on the way.
AttrsPreserved ==
  [][\A s \in Servers : Committing(s) /\ Exists(Path(s)) =>
       LET old == attr[dir[Path(s)]]  new == attr'[dir'[Path(s)]]
       IN  new.mode = old.mode \ {"s"} /\ new.ext = old.ext]_vars

\* rename(2) asks nothing of the target itself, yet a file that may not be
\* written is never replaced (the O_WRONLY probe).
ReadOnlyKept ==
  [][\A s \in Servers : Committing(s) /\ Exists(Path(s)) => MayWrite(Path(s))]_vars

\* A refused commit names its cause.  chflags is suggested only for a file that
\* carries a flag, whatever fails on the way.  The ACL is suggested only for a
\* file that is denied deletion and carries none, unless the directory forbade
\* the rename or the look at the flags failed: in these two cases the message
\* names the ACL without knowing (write.go: "most likely").
RefusalNamesCause ==
  \A s \in Servers :
    /\ result[s] = "flagged" => Locked(Path(s))
    /\ result[s] = "undeletable" /\ ~doubt[s] => Protected(Path(s)) /\ ~Locked(Path(s))

\* What if_sha256 says of the path, as the callers' documentation states it.
PreconditionHolds(s) ==
  IF req[s].pre = Absent THEN ~Exists(Path(s))
  ELSE Exists(Path(s)) /\ data[dir[Path(s)]] = req[s].pre

\* A commit replaces a file only if it is the one the precondition named: none
\* when if_sha256 was null, the one that was hashed when it was not.
CommitMatchesPrecondition ==
  [][\A s \in Servers : Committing(s) /\ Exists(Path(s)) => PreconditionHolds(s)]_vars

\* Every call is answered, unless its process dies.
CallsFinish == \A s \in Servers : pc[s] # "idle" ~> pc[s] = "idle"
=============================================================================
