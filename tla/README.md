# A verification project for fsMCP

fsMCP is a small server: one process, one thread, one directory. Its clients
(agents, through Relay) send JSON-RPC lines on stdin; the server reads, writes,
moves and deletes files under `--root` and answers each on stdout. What makes it
hard is not its own concurrency, for it has none, but that

- every mutation is a sequence of system calls and helper programs (`/bin/cp`,
  `/bin/chmod`), any of which may fail, and between any two of which the process
  may die or the machine lose power;
- the directory is shared: a deployment runs several servers, and editors and
  sync programs work on the same files. What a handler looked at is stale when
  it acts;
- callers rely on exact promises (a precondition, an eof, a whole-file hash, one
  reply per request) over sequences of calls.

This directory holds TLA+ modules of those parts, TLC runs on small instances of
them, and proofs, checked by TLAPS, for all instances. `PROJECT.json` lists the
runs, the source lines each definition models, the hazards, and the places where
the code and its documents disagree.

## Inventory

| component | state | operations | hard behaviour | what makes it correct |
|---|---|---|---|---|
| Session loop (`main.go`) | the stream's position, the frame being read, the output | read a frame in chunks, dispatch, answer, stop | frames cut anywhere, limits, notifications, a client that hangs up | framing is exact, memory bounded, one reply per frame that is due one, effects only of what was asked |
| Registry (`registry.go`) | the tools registered | register, list, call | panic after an effect, `--read-only` | nothing unregistered runs; a panic is one failed call |
| Atomic replace, preconditions (`atomic.go`), `fs_write`, `fs_replace` | the target, a temp file | check `if_sha256`, probe, copy attributes, write, fsync, rename, clean up | faults at each step, those of cleaning up included, crash, power loss, two servers, deny-delete ACLs, BSD flags | never torn, all or nothing, attributes kept, no stray temp file it could have removed, the refusal names the cause it knows |
| `fs_delete` (`delete.go`) | an entry or a tree | compare a hash, look if empty, remove | a directory filled or a file replaced after the look | removes what was named and no more |
| `fs_move` (`move.go`) | two entries | look at both, rename | case-insensitive names, hard links, an entry that appears | destroys nothing, a case change is a move |
| `fs_mkdir` (`mkdir.go`) | a path | per component: look, make | two servers on overlapping paths, a failure half way | `created` is what this call made, ok means it is there |
| `fs_read`, `fs_stat` (`read.go`, `stat.go`) | none of its own | look at the size, then read or hash | the file changes between the looks; page and budget boundaries | pages are full, eof and hashes are true, so reading on until eof reads it all |
| `fs_list` (`list.go`) | none | read entries, look at each, up to a budget | entries that come and go between the two, truncation | a listing is of what stayed, and a bounded one says so |
| `fs_grep`, `fs_glob`, ripgrep runner (`grep.go`, `glob.go`, `rg.go`) | a subprocess | validate, run with a deadline, parse, diagnose | timeout against completion, a directory that changes, skipped events, nested brace groups | no partial result passes for a whole one, a refusal names its cause, no group hides a way out of the root |
| Root (`root.go`) | the `os.Root` | normalise, map errors | containment | kernel resolution; not modelled |
| Decoding, protocol types (`decode.go`, `proto.go`) | none | decode, encode | none over time | not modelled but for ids and sizes |

Components interact in one way: the session loop calls the registry, the
registry calls one handler, the handler makes system calls. Between processes
the only thing shared is the directory.

## Modules

    Volume                 the directory, inodes, disk (external)
      AtomicReplace        fs_write, fs_replace, fs_delete of a file
        AtomicReplaceRefinement   ... implements CasFile
        AtomicReplaceProofs       theorems: never torn, temp files, attributes,
                                  refusals, the refinement
    CasFile                compare-and-swap files: the abstract promise
    FsMove                 fs_move          FsMoveProofs   theorems
    FsRead                 fs_read, fs_stat    FsReadProofs   theorems
    Tree                   fs_mkdir, fs_delete of directories   TreeProofs   theorems
    Search                 fs_list, fs_grep, fs_glob and the rg process   SearchProofs   theorems
    ApplyEdits             the edits of fs_replace
      Arguments            ... and the globs of a search   ArgumentsProofs   theorems
    NatRecursion           theorems: induction and recursion on the naturals
    Serve                  session loop and registry   ServeProofs  theorems
    MC<Module>             instances for TLC; MC<Module>_<run>.cfg

In every module of a handler one action is one system call, or one run of a
helper program, and `pc[s]` names the call that server `s` makes next. A handler
that returns sets `result` and goes to `done`; `Reply` ends the call. Each early
return of the Go code is a disjunct with its own result; results are the codes
of `proto.go` and the sentinels of `atomic.go`, or `failed` for the errors that
all become `io_error`. `IOFaults` or `"io" \in Faults` lets any call, and any
helper program, fail for a reason the model does not track: an I/O error, or the
permissions of the directory itself. What the code does with the error is then
modelled, also where it ignores it.

**Volume** is the kernel's side: entries to inodes (hard links included), the
bytes and attributes of inodes, and what of both is on disk. A directory change
reaches the disk at any later time (`Checkpoint`; the code never fsyncs a
directory), bytes only by fsync. After a loss of power, entries are those of the
last checkpoint and unsynced bytes are `Partial`. This is harsher than most file
systems and the code has to live with it. Bytes are abstract: a content is a
value, and its hash is itself.

**AtomicReplace** follows `atomic.go`: `CheckLstat`, `CheckHash`
(resolvePrecondition), `Lstat`, `ProbeWritable`, `Reserve`, `Copy`, `Chmod`,
`Truncate`, `Write`, `Sync`, `Rename`, `Classify`, and `Discard`, `StripACL`,
`DiscardAgain` (discardTemp). A file that does not exist skips `Copy` to
`Truncate`, as in the code. A request is the path, the precondition, and what
the file is to become, so fs_write and fs_replace are one protocol: fs_replace
differs in that `applyEdits` may refuse (`NoMatch`). An error of `Rename` that
may be one of permission goes to `Classify`, whatever it was that forbade the
rename, and a `Classify` whose Lstat fails answers "undeletable"; the history
variable `doubt` remembers these two. The three calls of `discardTemp` may each
fail and none of them is checked: `orphans` remembers the temp files that stay
because of it (`Strand`), or because their server died. `Crash` kills a server,
`PowerLoss` all of them, `External` is anyone else. Temp names are drawn at
random from 2^128; two calls drawing one name at once is left out, and names
that already exist are not.

**CasFile** is what a client may believe of these tools when the server has the
directory to itself: a call changes its path in one instant from what its
precondition names, or not at all, through any crash; after a loss of power the
path holds what it held at the last save. The refinement maps a path to the
bytes of the inode its entry denotes, and a call that is cleaning up to one that
is still pending.

**FsMove** has names, a folding of spellings and inodes. `rename(2)` respells
an entry, does nothing between two hard links, or replaces. `shared`, chosen at
the start, says whether calls overlap and other programs are at work; what is
promised of a directory nobody else changes is stated under `~shared`.

**FsRead** has one path whose whole content may be replaced at any time. A
version is a length, whether it is UTF-8, and the positions of the bytes that
JSON escapes; a hash is the range of the version it covers. `Carried` is what a
page takes on the response line, where an escaped byte takes `Escaped` bytes (3
for a newline, 4 for a quote, 7 for a `<`). Every answer goes through `Backstop`,
as every line goes through writeResponse. Text is UTF-8 wherever it is cut: a
page that splits a character is sent as base64, which is the binary case.
Positions and lengths are unbounded integers: the offsets clients give are far
from 2^63. `shared` is as in FsMove.

**Tree** has every path up to a depth. `RemoveAll` is one unlink after another,
children first, until the target is gone. `world`, chosen at the start, says who
else changes the tree: nobody, other calls of fs_mkdir, other calls, or anyone.

**Search** has one directory of names, each a file with the kinds of its matching
lines, or a file rg may not open, or nothing; the directory itself is open,
unreadable, unsearchable, a file or gone. `ListReadDir` and one `Info` per entry
are fs_list. A search looks at the directory (`LstatDir`, `CheckReadDir`),
starts rg (`Start`), waits, and then takes rg's exit (`RunReturns`) or looks at
the directory once more to say what went wrong. rg is a process of its own, from
how rg.go and grep.go use it: it visits the names it found in any order, writes
the events of each (a line that is not UTF-8 comes as `bytes`, one too long for
the scanner is `huge`), notes what it cannot open, and exits with 2 if there was
any. `Expire` is the deadline; it may come when rg has just exited. `Changes`
bounds what others do to the directory during one call. Which lines match a
pattern, and which names a glob, is data.

**ApplyEdits** and **Arguments** are algorithms over characters. `ApplyEdit` is
one round of `applyEdits`, with `bytes.Count` and `bytes.ReplaceAll` as the one
scan from left to right they both make (`Scanned`); `ValidateGlobArg` is
`validateGlobArg` with `expandBraces`, `matchingBrace` and `splitTopLevel`. The
properties define the same things without scanning: the places a find takes as
the one set of its occurrences in which none overlaps an earlier one (`Places`),
and what the replaced file says as the text between them (`Exchanged`); a glob
by the syntax it was written from (`Written`), so that what it stands for
(`Denoted`) needs no parsing. A glob is its syntax, with groups nested up to
`MaxNesting` deep, and a `tail` from the first brace that nothing closes, which
the code leaves alone. The code's recursion is the recursive function
`ExpandBraces` on patterns, and its loops are functions of the round, so that
proofs can reach them. The batches of edits are a specification of their own,
which Arguments takes up unchanged.

**Serve** has frames of a kind, a length and an id size. `ReadChunk` is one
round of `readFrame`; `Dispatch` is the switches of `serve` and `handleLine` and
the checks of `Registry.Call`; `Run` is the handler with a possible panic. `readOnly`
is `--read-only`. `out` and `effects` name the frame they belong to. The time between reading a frame
and its effect is the handler modules' subject; Serve has it as one step,
because one thread runs it.

Definitions marked `Variant` are not part of any specification. Each is a
plausible mistake in the definition that follows it; put in its place it makes
the property beside it in `PROJECT.json` fail.

## Runs

A run of a module looks at all its worlds at once: the quiet one, where the
strong promises hold, and the shared one, where the weaker ones must still hold
and every step of the others fires. All runs finish in well under five minutes
on two workers. Symmetry is over values that are only compared (inodes, temp
names, servers, components), and never used with a liveness property. The views
forget what nothing reads again: inodes without an entry, and what an answered
call was asked. No property of a run with a view looks at either, but for
its type.

| run | what it shows | bounds |
|---|---|---|
| `solo` | a write, replace or delete that fails, dies or loses power at any step leaves the path whole, the attributes kept, no temp file but after a crash or two failures of its removal, and a refusal that names the cause it knows; no visible file is ever rewritten; read-only files stay; and all of it implements CasFile | 1 server, 1 path, 2 temp names, 3 inodes, 2 contents, 6 kinds of file |
| `rivals` | never torn and no stray temp file between two servers with crashes and power loss | 2 servers, 1 path, 3 inodes, 2 kinds of file |
| `live` | every call is answered while I/O fails and other programs replace, remove and change the file | 1 server, 1 path |
| `moves` | calls that do not overlap destroy nothing, change nothing when they refuse, and rename by case; with two servers and other programs, only what changed after the look can be replaced | 3 names of which two are spellings of one, 2 inodes, 2 servers |
| `read` | pages that add up, eof and hashes of a file nobody changes; of one replaced or removed at any step, no whole-file hash when it was cut short; nothing but JSON's escapes exceeds the budget; any call may fail | a page of 7 bytes; lengths 0, 1, 6, 7, 8, 15; none, 1 in a page, 3 and all bytes newlines |
| `session` | exact and bounded framing, one reply each in order, effects as asked and none under `--read-only`, every answer written | 2 frames of every kind, lengths 0 to 9, a buffer of 3, a limit of 5, results around a cap of 5 |
| `tree` | created once, ok means there (gone), a delete removes what it named, every call ends in a known result, nothing orphaned | 2 names to depth 2, 2 servers |
| `search` | an answer not marked truncated misses nothing of what stayed, nothing is invented, truncated means more and a listing's first names, a refusal is true, every call is answered even if rg hangs | 3 names, files of 0 and 2 matching lines, max_matches and globMaxPaths of up to 2, 1 change by others per call |
| `text` | a batch of edits does what its edits do one after another, each where it matches and nowhere else, and is refused for what is so; a glob is let through exactly when it has no NUL and all it stands for stays inside the root | files of up to 3 characters of two and two of 4, 2 edits, finds of up to 2; globs of 3 characters or groups, groups in groups (`MaxNesting` 2), unbalanced tails, a NUL, a cap of 4 expansions |

Why these are enough: a call to AtomicReplace uses one target inode, one temp
inode, and one more is needed for somebody else's; two contents tell old from
new; two servers are every race of a check against a commit. In `rivals` one
content suffices, because tearing is about whole or partial. A second path adds
hard links between targets; no step of a call touches another path than its own,
and `NeverTornTheorem` covers any number of them. In `moves` the third name is
the other directory entry a move can hit; two servers and External are every
change behind its back. A page of seven bytes with lengths 6, 7, 8 and 15 meets
each boundary of paging, base64 and the offset, and three newlines in a full page
are one more than fit. In `session`, frames of 1 to 9
bytes cross the buffer zero to three times and the limit at every alignment to
it, and the second frame is read in the state the first one left. In
`search` one name more than every cap shows truncation, two lines in a file show
one that is cut in the middle, and one change at any of a call's steps is every
race of a look with a use: a second change could only undo or hide the first.
In `text` a find of two characters meets files in which it overlaps itself, a
second edit meets what the first one made, and four expansions are exceeded by
three groups, by nesting and by a suffix. `Depth`, `MaxFrames` and `Changes` are
the only bounds put on states and `MaxNesting` on what a job of Arguments is; all
are constants of the modules, and the proofs hold for all their values.

Runs that show a disagreement between the code and its documents (each refutes
one property, and its finding quotes the sentence):

| run | property | what happens |
|---|---|---|
| `lost` | CommitMatchesPrecondition | two servers create one path with `if_sha256: null`; both commit, and the second replaces what the first made |
| `read_escaped` | NeverOverBudget | a default page of newlines is over the budget |
| `search_bytes` | MarkedIfPartial | a match on a line that is not UTF-8 is left out, and truncated is false |

The first is the price of checking and acting in two system calls (two servers
that hold one hash of one file meet it as well, in a longer behaviour), and the code
accepts such a window for its writability probe (DESIGN, "non-goal"); the
documents make no exception where this property states their sentence.

Other places where the models follow the code and a document says otherwise:

- A destination created after the second Lstat of a move is replaced. DESIGN:325
  says "Move never destroys"; `NeverDestroys` holds of a quiet directory only,
  and `DestroysOnlyIfRaced` is what is left of it on a shared one.
- Two hard links to one file: a move of one onto the other answers ok and moves
  nothing, because rename(2) does nothing then. move.go:86 says of an equal (dev,
  ino) that "both names already denote one entry". `OkMeansMovedUnlinked` is
  therefore about names without a second link.
- A file that grows between fs_read's Stat and the open is hashed in part, and
  the hash is sent as `sha256`; read.go:16 has it "present only when the read
  covered the whole file" (ACCEPTANCE D8 too). `AloneHashIsWhole` is about a
  file nobody changes; `CutShortNeverWhole` is what holds of any: one that shrank
  gets no such hash.
- discardTemp ignores the errors of all three calls it makes (atomic.go:169), so a
  Remove that fails twice, or a chmod -N that fails under a deny-delete entry,
  leaves the temp file. DESIGN:397 has it cleaned up "on every failure path",
  ACCEPTANCE C8 says that "no temp file survives any failure path", and C6 the
  same of a write that fails partway. `TempAccounted` says which do.
- "Undeletable" suggests the ACL also for a file that has none, when the directory
  forbade the rename, and for one that carries a flag, when the look at its flags
  failed (atomic.go:66, atomic.go:150). The message has "most likely"
  (write.go:147), and ACCEPTANCE C9 has a flagged file's refusal name `chflags`,
  "never a deny-delete ACL entry". `RefusalNamesCause` excepts these two.
- A file replaced by another program between AtomicReplace's Lstat and its probe or
  cp may be read-only, or of another mode, and the replacement then has the mode
  of the first file. `ReadOnlyKept` and `AttrsPreserved` are about a server alone.
- A directory filled between isEmptyDir and RemoveAll goes with what it holds,
  without `recursive`, which DESIGN:336 requires "for a non-empty directory".
  `DeletedAsAskedAlone` is about a tree nobody adds to.
- rg exits with 2 when it could not open one of the files, and then the whole
  search is answered with "rg rejected the pattern", whatever the pattern was;
  the comment at rg.go:163 has it that the pattern is at fault when nothing is
  wrong with the directory. `RefusalIsTrue` says what a rejected pattern means.
- A directory that may be read but not searched (r without x) lists as empty and
  complete: every Info fails and is skipped (list.go:86). `NothingMissing` counts
  no name of such a directory.
- A listing, or a search, can be replaced by the "response exceeds" error. DESIGN:428
  has each tool bound "its own payload" against the cap; fs_list counts its
  entries' JSON before it is escaped once more (list.go:43 reserves 4096 bytes
  for it, whatever their number), and fs_grep and fs_glob count items, not bytes.
- fs_replace counts matches that do not overlap: in "aaa", "aa" occurs once and is
  replaced without `all`. `EditsExact` has it so.
- An edit without `replace` is refused with io_error (replace.go:194).
- DESIGN:328 refuses a move whose two names have one (dev, ino); the code, and
  ACCEPTANCE B1, let it go on to the rename (`LstatDestination`).
- Two calls of fs_mkdir on one directory: the second gets `exists` from the
  mkdir after its Lstat saw nothing. The tool description (mkdir.go:12) says it
  "succeeds without change when the directory already exists".
- writeResponse counts the newline against `--max-response-bytes`, where
  DESIGN:46 measures without it, and the error that replaces a line over the cap
  repeats the request's id and is not measured, where DESIGN:428 bounds the line
  (`Capped`).

## Fairness

`FairSpec` of AtomicReplace assumes weak fairness of each server's own steps: a
handler is straight-line code on one thread, and no step waits for another call.
It assumes nothing of crashes, other programs or new calls, and a step that fails
is a step: a call may fail wherever it can, but ends. `FairSpec` of Serve assumes
weak fairness of the loop, that is, that stdin delivers what was sent or closes,
and that handlers return (which is what `CallsFinish` shows for the hardest of
them). `FairSpec` of Search assumes it of the handler and of the
deadline's timer, and of nothing else: rg may stop for ever at any point, other
programs may do nothing. None assumes that a step which can fail succeeds.

## Proofs

TLAPS checks the following for any number of servers, names, inodes, contents,
frames and limits. The assumptions are those the modules name about their
constants, and one hypothesis that theorems state themselves: `Alone` (one
server, no other programs).

- **AtomicReplaceProofs.** `NeverTornTheorem`: no path ever holds part of a
  file. The property is not inductive: a rename makes a temp file's inode
  visible, and a loss of power brings back the directory of the last checkpoint.
  `IInv` adds what makes both harmless: paths denote whole, synced files in the
  current directory and in the one on disk (`VisibleSaved`); a temp file's inode
  has no second name (`TempsPrivate`); two calls never share a temp name
  (`TempsDistinct`); and a call at `rename` has written and synced all of its
  temp file (`CallInv`). The volume's operations have a lemma each (what they
  keep, and that they leave other calls' temp files alone, `Untouched`); the
  steps of a call then follow by group. `TypeCorrect` comes from the same
  invariant. `NoTempLeftBehind`: a call that fails removes its temp
  file, unless discardTemp met an error it ignores, because nothing the code did
  to the file can make the second Remove fail for the file's own sake: `cp -N`
  gives it no flag, and the first failure was answered by stripping its ACL
  (`Clean`). `FilesNeverRewritten` follows from
  `TempsPrivate`: the only inode a call writes to is one no path denotes. Under
  `Alone`, what Lstat, the probe and cp found is carried to the rename or to
  `Classify` (`Carried`), which gives `RefusalsAreRight`, `ReadOnlyIsKept` and
  `AttributesArePreserved`. They are about every fault and crash, failures of the
  look at the flags and of the directory included (`doubt`); without `Alone` they
  do not hold, and are not claimed. `CasImplemented`: under `Alone` the module implements
  CasFile. A step maps to a step of CasFile exactly when it is a call's start,
  its effect, its reply, a crash, a checkpoint or a loss of power, and to a
  stutter otherwise. `Sure` holds what the effect needs: the precondition still
  names what the path holds, and the temp file holds the new content.
- **FsMoveProofs.** `MoveDestroysOnlyIfRaced`: what a move replaces without
  knowing, somebody changed after it looked. It rests on what handleMove knows
  when it renames: the destination was absent or was the source's own inode.
  When calls do not overlap that knowledge is about the directory as it is
  (`Knows` in `AloneInv`), and `MoveNeverDestroys`, `RefusalChangesNothing`,
  `CaseOnlyRename` and `OkIsMoved` follow.
- **TreeProofs.** An entry has a directory above it at every depth, so below a
  name that is not there, or an empty directory, there is nothing. That is a
  statement about prefixes of any length; it is shown with the least one that
  fails, which the library's well-foundedness of the naturals provides, and not
  by induction. `TreeInv` adds what each call may rely on in each world
  (`Mine`): the components already made are there, the subtree it removes is
  the one it named. `NoDirectoryClaimedTwice`, `OkIsDone`, `DeletesWhatIsNamed`
  and `TreeTypeCorrect` follow.
- **SearchProofs.** `RefusalsAreTrue` follows rg's exit code back to its cause
  (`RgTrue`, `CodeTrue`): 2 means a rejected pattern or a name it could not
  open, and a name it visits is there, so that one is locked or in a directory
  that may not be entered. `HandlerTrue` keeps what each look at the directory
  found until it is used. `UnmarkedIsComplete`,
  `AnswersAreTrue` and `CutOnlyWhenFull` (`NothingMissing`, `NothingInvented` and
  `TruncatedMeansMore`) are about the names no other program has touched. A step
  of another program takes a name out of them, so the invariant has to say what
  holds of those that remain: rg's output tells in order, once, what is so of
  each it has visited, and all of it unless rg met an error (`OutputTrue`); the
  entries listed and those to come are in order, and none is left out
  (`ListingTrue`). An answer is a selection of rg's events (`Selects`, for the
  filter in `Texts`) cut at a limit (`CappedIs`), or as many items as `Used`, a
  sum, has room for. `SearchTypeCorrect` needs that sum too: a listing stays
  within its share of a response.
- **ArgumentsProofs.** `EditsApplyExactly`: one scan from the left counts the
  places `Places` names and writes what `Exchanged` says (`ScanIs`, with what
  the scan has after each byte as the induction's hypothesis), and the places a
  find takes are one set (`PlacesAreTaken`). `BatchInv` keeps the file that each
  edit left, so that the counts, and a refusal of a later edit, are held against
  what the earlier ones made of the file.

  `GlobsAreJudgedExactly`: the verdict is right for any characters, nesting and
  cap. `expandBraces` cuts at the first brace, expands the suffix, joins, and
  expands again what it has joined, so that it never sees the syntax. The
  argument puts it back. The text of a group's alternative ends at the depth it
  began at, never goes below it and has no bare comma (`Closed`); hence the first brace of
  a text finds the end of its own group (`GroupFound`) and `splitTopLevel` finds
  its alternatives (`PartsAre`). The equation of `expandBraces` asks of itself
  only what concerns shorter texts, so it has exactly one solution
  (`ExpandBracesIs`). By induction on the nesting, and within it from the end of
  a list of nodes to its front, what it makes of prefix, text and tail is what
  the list denotes between them, or too many, exactly when there are too many
  (`Yields`, `FaithfulStep`): the counts of the loops add up whatever the order
  in which they overflow (`Made`). Joining twice makes the same alternatives in
  another order, so the sets are compared and the numbers, not the sequences.
  The assumption on the constants is that a job is a syntax of at most
  `MaxNesting` with a tail that begins no group. `EveryPatternIsAGlob` shows that
  this leaves no pattern out: one of length at most `MaxNesting` is the text of
  such a job. A level text is taken apart from its end, where it has a character
  or a group (`LevelEnds`, `LevelIsTold`), and a pattern from its front, until
  the first brace that nothing closes (`GroupStarts`).
- **NatRecursion.** The library's induction and recursion theorems take an
  operator as a parameter, which no installed prover can instantiate. The same
  facts are stated here of sets, and follow from the least number that is not in
  a set: one with 0 and every successor of a member holds all numbers
  (`Induction`), and what is computed step by step from a base exists
  (`Recursion`).
- **FsReadProofs.** `ReadsAddUp`, `HashIsWhole` and `ShortenedIsNotWhole`, from
  `ReadInv`: on a file nobody changes, the size of the first look is still the
  file's when its bytes are read (`SizeKnown`); the rest is what `readRange` does
  with a range of that size (`PageType`, `ResultStep`). `ReadsInBudget` is the
  arithmetic of `maxReadLength` for every cap, range and content: base64 of the
  longest page fits (`Base64Fits`), and text leaves a quarter of the budget to its
  escapes (`PageFits`); `read_escaped` shows text that needs more.
- **ServeProofs.** `FramingExact`, `MemoryBounded`, `RepliesMatchRequests` and
  `OnlyAskedTakesEffect`, from one invariant: while a frame is read, what is
  kept is what was taken, up to the limit (`Reading`); once read, that is exact
  (`Read`); what is being run or written belongs to the frame at hand
  (`InHand`); and effects and lines are of frames already read.

Only model-checked: the liveness properties `CallsFinish`, `AllAnswered` and
`SearchesEnd` (reasoning under fairness and about ENABLED is beyond these
provers). Every other property of the passing runs is a theorem.

## Not modelled

- **Containment.** `os.Root` resolves with `openat` in the standard library and
  the kernel; the code contributes no step to it. Symlinks appear as entries
  that are neither file nor directory.
- **What bytes are.** base64, hashing, MIME, the matching of patterns and globs
  (rg's), rg's own escapes and character classes inside a glob, which
  validateGlobArg does not look at; decode.go, which refuses a call before it
  reaches any state.
- **Startup checks, testkit, guards, CI, documents.**
- fs_stat's and fs_list's times, modes and sizes of symlinks.
- rg's own detection of binary files: it stops at a NUL byte, and matching lines
  after it are missing from the events and so from the answer of fs_grep, which
  says nothing of it. In Search every line of a file is text, or not UTF-8.
- rg runs in the directory at `--root`'s path while everything else goes through
  the directory opened at startup (rg.go:94). Here they are one directory: a root
  that is renamed away during a session is left out.
- Rewrites of a file in place by other programs: they replace whole files here,
  as the precondition scheme supposes.

## Plan

1. Done: AtomicReplace with Volume and CasFile, FsMove, FsRead, Tree, Serve;
   proofs of NeverTorn, the move and the session.
2. Done: Search, Arguments; proofs of every safety and action property of
   AtomicReplace (the refinement among them), FsMove, FsRead, Tree and Serve,
   and of Search's refusals, under the hypotheses named above.
3. A composed module: a session over a handler and the volume, for a crash
   between an effect and its reply and a client that retries.
4. Done: proofs of NothingMissing, NothingInvented, TruncatedMeansMore and the
   types of Search, of the edits, and of the globs, whatever the pattern.
