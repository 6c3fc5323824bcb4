------------------------------- MODULE Volume -------------------------------
(***************************************************************************)
(* The volume the server works on, as far as the code in internal/fsapi    *)
(* relies on it: one directory, the inodes its entries denote, and what of *)
(* both has reached the disk.  All of this is external: it is the kernel   *)
(* (through os.Root), /bin/cp and /bin/chmod, modelled from how atomic.go, *)
(* write.go, replace.go and delete.go call them.                           *)
(*                                                                         *)
(* Bytes are abstract.  Contents are the byte strings somebody meant to    *)
(* write; Partial stands for anything else an inode can hold while it is   *)
(* being written (nothing yet, a prefix, a copy cut short).                *)
(***************************************************************************)
EXTENDS Naturals

CONSTANTS
  Paths,      \* the names callers use
  TempNames,  \* the names ".fsmcp-tmp-<hex>" the server draws from
  Inodes,
  Contents,   \* whole file contents
  Partial,    \* any incomplete content
  NoInode,    \* what an absent entry denotes
  Attrs       \* the attributes a file can be given by other programs

Names == Paths \cup TempNames

Bits == {"r", "w", "s"}          \* readable, writable, set-id or sticky
Exts == {"xattr", "denyDelete"}  \* an extended attribute, a "deny delete" ACE
Flags == {"hidden", "locked"}    \* BSD flags: harmless, forbidding replacement

Attributes ==
  [kind: {"file", "dir"}, owner: {"self", "other"}, mode: SUBSET Bits,
   ext: SUBSET Exts, flags: SUBSET Flags]

\* What open(2) with O_CREATE and mode 0o666 gives a new file.
Fresh == [kind |-> "file", owner |-> "self", mode |-> {"r", "w"},
          ext |-> {}, flags |-> {}]

ASSUME NamesAssumption == Paths \cap TempNames = {}
ASSUME InodeAssumption == NoInode \notin Inodes
ASSUME PartialAssumption == Partial \notin Contents
ASSUME AttrsAssumption == Attrs \subseteq Attributes

VARIABLES
  dir,      \* the directory: the inode each name denotes
  durable,  \* the directory as the last checkpoint left it on disk
  data,     \* the bytes of each inode
  synced,   \* whether those bytes are on disk
  attr      \* kind, owner, mode, extended attributes and ACL, BSD flags

volume == <<dir, durable, data, synced, attr>>

VolumeTypeOK ==
  /\ dir \in [Names -> Inodes \cup {NoInode}]
  /\ durable \in [Names -> Inodes \cup {NoInode}]
  /\ data \in [Inodes -> Contents \cup {Partial}]
  /\ synced \in [Inodes -> BOOLEAN]
  /\ attr \in [Inodes -> Attributes]

\* Any arrangement of whole, saved files: absent paths, directories and hard
\* links included.  No temp file is left over.
VolumeInit ==
  /\ \E used \in SUBSET Inodes :
       /\ dir \in [Names -> used \cup {NoInode}]
       /\ data \in [Inodes -> Contents \cup {Partial}]
       /\ \A i \in Inodes : data[i] = Partial <=> i \notin used
       /\ attr \in [Inodes -> Attrs \cup {Fresh}]
       /\ \A i \in Inodes \ used : attr[i] = Fresh
       /\ \A i \in used : \E p \in Paths : dir[p] = i
  /\ \A t \in TempNames : dir[t] = NoInode
  /\ durable = dir
  /\ synced = [i \in Inodes |-> TRUE]
-----------------------------------------------------------------------------
Exists(n) == dir[n] # NoInode

IsFile(n) == Exists(n) /\ attr[dir[n]].kind = "file"

\* What open(2) asks before it lets the server read or write.
MayRead(n) == "r" \in attr[dir[n]].mode
MayWrite(n) == "w" \in attr[dir[n]].mode /\ attr[dir[n]].owner = "self"

\* An entry the kernel will neither unlink nor rename, nor rename over.
Protected(n) ==
  /\ Exists(n)
  /\ "denyDelete" \in attr[dir[n]].ext \/ "locked" \in attr[dir[n]].flags

\* An inode may be allocated once no entry, current or on disk, denotes it.
Free(i) == \A n \in Names : dir[n] # i /\ durable[n] # i

\* A new inode under a new name, with nothing of it on disk yet.
CreateAs(n, bytes, a) ==
  \E i \in Inodes :
    /\ Free(i)
    /\ dir' = [dir EXCEPT ![n] = i]
    /\ data' = [data EXCEPT ![i] = bytes]
    /\ synced' = [synced EXCEPT ![i] = FALSE]
    /\ attr' = [attr EXCEPT ![i] = a]
    /\ UNCHANGED durable

\* Bytes written through an open file: in the cache, not on disk.
WriteData(n, bytes) ==
  /\ data' = [data EXCEPT ![dir[n]] = bytes]
  /\ synced' = [synced EXCEPT ![dir[n]] = FALSE]
  /\ UNCHANGED <<dir, durable, attr>>

SetAttr(n, a) ==
  /\ attr' = [attr EXCEPT ![dir[n]] = a]
  /\ UNCHANGED <<dir, durable, data, synced>>

Unlink(n) ==
  /\ dir' = [dir EXCEPT ![n] = NoInode]
  /\ UNCHANGED <<durable, data, synced, attr>>

\* rename(2) onto to, whose old entry is replaced in the same instant.
RenameEntry(from, to) ==
  /\ dir' = [dir EXCEPT ![to] = dir[from], ![from] = NoInode]
  /\ UNCHANGED <<durable, data, synced, attr>>

CanRename(from, to) ==
  /\ Exists(from)
  /\ ~Protected(from)
  /\ ~Protected(to)
  /\ Exists(to) => IsFile(to)
-----------------------------------------------------------------------------
\* The volume commits its metadata whenever it likes; nothing in the code
\* fsyncs the directory.
Checkpoint ==
  /\ durable # dir
  /\ durable' = dir
  /\ UNCHANGED <<dir, data, synced, attr>>

\* Power is lost: entries go back to the last checkpoint, and bytes that were
\* never synced are not to be relied on.
VolumePowerLoss ==
  /\ dir' = durable
  /\ data' = [i \in Inodes |-> IF synced[i] THEN data[i] ELSE Partial]
  /\ UNCHANGED <<durable, synced, attr>>

\* Other programs working on the same directory.  They replace files whole, as
\* editors do, and never touch the server's temp names.
ExternalPut(p) ==
  \E i \in Inodes, c \in Contents, a \in Attrs :
    /\ Free(i)
    /\ ~Protected(p)
    /\ dir' = [dir EXCEPT ![p] = i]
    /\ data' = [data EXCEPT ![i] = c]
    /\ synced' = [synced EXCEPT ![i] = TRUE]
    /\ attr' = [attr EXCEPT ![i] = a]
    /\ UNCHANGED durable

ExternalRemove(p) == Exists(p) /\ ~Protected(p) /\ Unlink(p)

ExternalChattr(p) == Exists(p) /\ \E a \in Attrs : SetAttr(p, a)
=============================================================================
