------------------------------- MODULE Search -------------------------------
(***************************************************************************)
(* fs_list (list.go), fs_grep (grep.go) and fs_glob (glob.go) of one       *)
(* directory, and the ripgrep process the last two run (rg.go).  A name in *)
(* the directory stands for a file, with the sequence of its lines that    *)
(* match the pattern; every name matches the glob.  An item is what a      *)
(* result lists: a name, and for fs_grep the line.                         *)
(*                                                                         *)
(* One action of the handler is one system call or what follows rg's exit; *)
(* rg and the deadline timer run beside it, and in a shared world other    *)
(* programs change the directory.                                          *)
(***************************************************************************)
EXTENDS Naturals, SequencesExt

CONSTANTS
  N,           \* the names are 1..N, in the order sort.Slice gives them
  Contents,    \* the matching lines a file can have: sequences of kinds of line
  None,        \* there is no such entry
  Locked,      \* an entry that rg may not open
  Maxes,       \* the max_matches callers give
  GlobMax,     \* globMaxPaths
  ItemBytes,   \* what the item of a name takes in the result's JSON
  Quotes,      \* what it takes more when that becomes a string of the response
  MaxResponse, \* --max-response-bytes
  Reserve,     \* listEnvelopeReserve
  Envelope,    \* what the reply's other fields take of one response line
  Changes,     \* bound: changes by other programs during a call
  Worlds       \* which of the worlds below are looked at

Names == 1..N

\* text: a line of UTF-8; bytes: not UTF-8; huge: over the scanner's 64 MiB as JSON.
ASSUME SearchAssumption ==
  /\ N \in Nat /\ GlobMax \in Nat /\ Maxes \subseteq Nat /\ Changes \in Nat
  /\ Contents \subseteq Seq({"text", "bytes", "huge"})
  /\ None # Locked /\ {None, Locked} \cap Contents = {}
  /\ ItemBytes \in [Names -> Nat] /\ Quotes \in Nat
  /\ MaxResponse \in Nat /\ Reserve \in Nat /\ Envelope \in Nat
  /\ Worlds \subseteq {"quiet", "shared"}

VARIABLES
  world,    \* quiet: nothing changes meanwhile and rg can be started
  dir,      \* the path: "open" (a directory), "noread", "noexec", "file" or "absent"
  entry,    \* what each name in it is
  pc,       \* what the handler does next
  request,  \* the call: op, and pattern and max for a search
  todo,     \* listDirectory: the entries Info was not called on yet
  rg,       \* the process, as in NoRun
  expired,  \* ctx.Err() is set
  reply,
  steady,   \* the names whose entry has not changed since the call began
  changes

run == <<rg, expired>>
vars == <<world, dir, entry, pc, request, todo, run, reply, steady, changes>>

Unread == {0}
Killed == 3

\* What a search asks for: a pattern rg takes, one it rejects, a glob that leads outside
\* the root, and one of either with a NUL byte.
Patterns == {"good", "bad", "outside", "nul"}

NoRequest == [op |-> "none", pattern |-> "good", max |-> 0]
NoReply == [kind |-> "none", items |-> <<>>, truncated |-> FALSE]
Refusal(why) == [NoReply EXCEPT !.kind = why]
Result(items, truncated) == [kind |-> "ok", items |-> items, truncated |-> truncated]

Item(name, line) == [name |-> name, line |-> line]

Present == {f \in Names : entry[f] # None}

Finish(r) == pc' = "done" /\ reply' = r
Goto(stage) == pc' = stage /\ UNCHANGED reply
ThisCall == <<world, dir, entry, request, steady, changes>>

\* The names rg has still to visit, whether it met an error, the events it has
\* written, and its exit code.
NoRun == [state |-> "off", walk |-> Unread, trouble |-> FALSE, output |-> <<>>, code |-> 0]

Init ==
  /\ world \in Worlds
  /\ dir \in {"open", "noread", "noexec", "file", "absent"}
  /\ entry \in [Names -> Contents \cup {None, Locked}]
  /\ pc = "idle" /\ request = NoRequest /\ reply = NoReply
  /\ todo = <<>> /\ rg = NoRun /\ expired = FALSE
  /\ steady = {} /\ changes = 0

\* What the items take in the result's JSON.
Used(items) ==
  LET sum[n \in 0..Len(items)] == IF n = 0 THEN 0 ELSE sum[n - 1] + ItemBytes[items[n].name]
  IN  sum[Len(items)]

\* What writeResponse makes of a result too long for one line.
Backstop(r) ==
  IF Envelope + Used(r.items) + Quotes * Len(r.items) > MaxResponse THEN Refusal("over_budget") ELSE r

Begin(op, pattern, max) ==
  /\ pc = "idle"
  /\ request' = [op |-> op, pattern |-> pattern, max |-> max]
  /\ steady' = IF dir = "open" THEN Names ELSE {}
  /\ UNCHANGED <<world, dir, entry, todo, run, changes>>
-----------------------------------------------------------------------------
(* fs_list *)

CallList == Begin("list", "good", 0) /\ Goto("listDir")

\* What opening the path as a directory says when it is none that can be read.
NotReadable ==
  CASE dir = "absent" -> "not_found" [] dir = "file" -> "not_a_dir" [] OTHER -> "io_error"

Readable == dir \in {"open", "noexec"}

ByName(order) == \A i, j \in DOMAIN order : i < j => order[i] < order[j]

\* Variant: the entries stay in the order of the directory.
ListReadDirUnsorted ==
  /\ pc = "listDir"
  /\ IF Readable THEN Goto("info") /\ todo' \in SetToSeqs(Present)
     ELSE Finish(Refusal(NotReadable)) /\ UNCHANGED todo
  /\ UNCHANGED <<ThisCall, run>>

ListReadDir ==
  /\ pc = "listDir"
  /\ IF Readable THEN Goto("info") /\ todo' \in SetToSeqs(Present) /\ ByName(todo')
     ELSE Finish(Refusal(NotReadable)) /\ UNCHANGED todo
  /\ UNCHANGED <<ThisCall, run>>

ListBudget == IF MaxResponse > Reserve THEN MaxResponse - Reserve ELSE 0

\* Variant: an entry is listed when there is room before it.
FitsPast(name) == Used(reply.items) <= ListBudget

Fits(name) == Used(reply.items) + ItemBytes[name] <= ListBudget

\* One round of listDirectory's loop.  An entry that Info does not find is skipped;
\* whether it is found once the directory has been moved away is left open.
Info ==
  /\ pc = "info" /\ todo # <<>>
  /\ LET name == Head(todo) IN
     \/ /\ entry[name] = None \/ dir # "open"
        /\ todo' = Tail(todo) /\ UNCHANGED <<pc, reply>>
     \/ /\ entry[name] # None /\ dir # "noexec" /\ Fits(name)
        /\ todo' = Tail(todo)
        /\ reply' = [reply EXCEPT !.items = Append(@, Item(name, 0))]
        /\ UNCHANGED pc
     \/ /\ entry[name] # None /\ dir # "noexec" /\ ~Fits(name)
        /\ todo' = <<>>
        /\ Finish(Backstop(Result(reply.items, TRUE)))
  /\ UNCHANGED <<ThisCall, run>>

Listed ==
  /\ pc = "info" /\ todo = <<>>
  /\ Finish(Backstop(Result(reply.items, FALSE)))
  /\ UNCHANGED <<ThisCall, todo, run>>
-----------------------------------------------------------------------------
(* fs_grep and fs_glob: from the arguments to rg's exit *)

\* handleGrep refuses a pattern with a NUL byte, a max_matches of zero, and a glob
\* that names something outside the root, in that order, before it looks at anything.
CallGrep(pattern, max) ==
  /\ Begin("grep", pattern, max)
  /\ \/ pattern = "nul" /\ Finish(Refusal("invalid_argument"))
     \/ pattern # "nul" /\ max = 0 /\ Finish(Refusal("invalid_argument"))
     \/ pattern = "outside" /\ max > 0 /\ Finish(Refusal("outside_root"))
     \/ pattern \in {"good", "bad"} /\ max > 0 /\ Goto("lstat")

CallGlob(pattern) ==
  /\ Begin("glob", pattern, 0)
  /\ \/ pattern = "nul" /\ Finish(Refusal("invalid_argument"))
     \/ pattern = "outside" /\ Finish(Refusal("outside_root"))
     \/ pattern \in {"good", "bad"} /\ Goto("lstat")

\* checkSearchDir, before rg and, to find out why it failed, after it.
LstatDir(here, next) ==
  /\ pc = here
  /\ IF dir \in {"absent", "file"} THEN Finish(Refusal(NotReadable)) ELSE Goto(next)
  /\ UNCHANGED <<ThisCall, todo, run>>

CheckReadDir ==
  /\ \/ pc = "readDir" /\ IF Readable THEN Goto("start") ELSE Finish(Refusal(NotReadable))
     \/ /\ pc = "readDirAgain"
        /\ Finish(Refusal(IF Readable THEN "pattern_rejected" ELSE NotReadable))
  /\ UNCHANGED <<ThisCall, todo, run>>

\* rg is started with its deadline, or cannot be.
Start ==
  /\ pc = "start"
  /\ \/ rg' = [rg EXCEPT !.state = "running"] /\ Goto("wait")
     \/ world = "shared" /\ Goto("lstatAgain") /\ UNCHANGED rg
  /\ UNCHANGED <<ThisCall, todo, expired>>

\* Variant: the deadline is noted, and rg left to run.
ExpireWithoutKill ==
  /\ pc = "wait" /\ ~expired
  /\ expired' = TRUE
  /\ UNCHANGED <<ThisCall, pc, reply, todo, rg>>

\* rgTimeout is over: rg is killed, unless it has just exited.
Expire ==
  /\ pc = "wait" /\ ~expired
  /\ expired' = TRUE
  /\ rg' = IF rg.state = "running" THEN [rg EXCEPT !.state = "exited", !.code = Killed] ELSE rg
  /\ UNCHANGED <<ThisCall, pc, reply, todo>>

\* The events the scanner yields: it stops at a line over its buffer, and nobody asks
\* it why.
Scanned ==
  LET stop == SelectInSeq(rg.output, LAMBDA e : e.kind = "huge")
  IN  IF stop = 0 THEN rg.output ELSE SubSeq(rg.output, 1, stop - 1)

Capped(events, max) ==
  LET items == [i \in DOMAIN events |-> Item(events[i].name, events[i].line)]
  IN  Result(SubSeq(items, 1, IF Len(items) > max THEN max ELSE Len(items)), Len(items) > max)

\* The lines of the events of type "match" whose text is UTF-8, which parseMatches keeps.
Texts(events) ==
  LET kept[n \in 0..Len(events)] ==
        IF n = 0 THEN <<>>
        ELSE IF events[n].kind = "text" THEN Append(kept[n - 1], events[n]) ELSE kept[n - 1]
  IN  kept[Len(events)]

\* Variant: a result that just fits is called truncated.
ParsedEarly ==
  LET whole == IF request.op = "grep" THEN Texts(Scanned) ELSE rg.output
      max == IF request.op = "grep" THEN request.max ELSE GlobMax
  IN  [Capped(whole, max) EXCEPT !.truncated = Len(whole) >= max]

\* parseMatches: text events up to the cap; parseFileList: paths up to the cap.
Parsed ==
  IF request.op = "grep"
  THEN Capped(Texts(Scanned), request.max)
  ELSE Capped(rg.output, GlobMax)

\* Variant: at the deadline, what has come so far is the result.
RunReturnsEarly ==
  /\ pc = "wait" /\ rg.state = "exited"
  /\ \/ (expired \/ rg.code \in {0, 1}) /\ Finish(Backstop(Parsed))
     \/ ~expired /\ rg.code \notin {0, 1} /\ Goto("lstatAgain")
  /\ UNCHANGED <<ThisCall, todo, run>>

\* Variant: nobody asks whether it was the deadline that ended rg.
RunReturnsUntimed ==
  /\ pc = "wait" /\ rg.state = "exited"
  /\ \/ rg.code \in {0, 1} /\ Finish(Backstop(Parsed))
     \/ rg.code \notin {0, 1} /\ Goto("lstatAgain")
  /\ UNCHANGED <<ThisCall, todo, run>>

\* runRG after Run: the deadline comes first, even for an rg that finished.
RunReturns ==
  /\ pc = "wait" /\ rg.state = "exited"
  /\ \/ expired /\ Finish(Refusal("timed_out"))
     \/ ~expired /\ rg.code \in {0, 1} /\ Finish(Backstop(Parsed))
     \/ ~expired /\ rg.code \notin {0, 1} /\ Goto("lstatAgain")
  /\ UNCHANGED <<ThisCall, todo, run>>
-----------------------------------------------------------------------------
(* ripgrep *)

Running == rg.state = "running" /\ UNCHANGED <<ThisCall, pc, reply, todo, expired>>
Exit(c) == rg' = [rg EXCEPT !.state = "exited", !.code = c]

\* A pattern it rejects ends it at once.  Otherwise it reads the directory; a file
\* that has taken its place holds no match.
RgOpens ==
  /\ Running /\ rg.walk = Unread
  /\ \/ request.pattern = "bad" /\ Exit(2)
     \/ request.pattern = "good" /\ Readable /\ rg' = [rg EXCEPT !.walk = Present]
     \/ request.pattern = "good" /\ dir = "file" /\ Exit(1)
     \/ request.pattern = "good" /\ dir \in {"noread", "absent"} /\ Exit(2)

Events(name) ==
  IF request.op = "glob" THEN <<[name |-> name, line |-> 0, kind |-> "text"]>>
  ELSE [i \in DOMAIN entry[name] |-> [name |-> name, line |-> i, kind |-> entry[name][i]]]

\* It visits the names in any order.  To list a name takes no look at it; to search
\* it, it must be there and open.
RgVisits(name) ==
  /\ Running /\ rg.walk # Unread /\ name \in rg.walk
  /\ rg' = IF request.op = "glob" \/ (entry[name] \in Contents /\ dir \in {"open", "noread"})
           THEN [rg EXCEPT !.walk = @ \ {name}, !.output = @ \o Events(name)]
           ELSE [rg EXCEPT !.walk = @ \ {name}, !.trouble = TRUE]

\* Any error makes it exit with 2, whatever it found.
RgExits ==
  /\ Running /\ rg.walk = {}
  /\ Exit(IF rg.trouble THEN 2 ELSE IF rg.output # <<>> THEN 0 ELSE 1)
-----------------------------------------------------------------------------
Reply ==
  /\ pc = "done"
  /\ pc' = "idle" /\ request' = NoRequest /\ reply' = NoReply
  /\ todo' = <<>> /\ rg' = NoRun /\ expired' = FALSE
  /\ steady' = {} /\ changes' = 0
  /\ UNCHANGED <<world, dir, entry>>

\* Other programs make, change and remove entries, and do what they like with the
\* directory.
External ==
  /\ world = "shared" /\ changes < Changes /\ pc \notin {"idle", "done"}
  /\ changes' = changes + 1
  /\ \/ \E f \in Names, e \in Contents \cup {None, Locked} :
          /\ dir \in {"open", "noread"} /\ entry[f] # e
          /\ entry' = [entry EXCEPT ![f] = e]
          /\ steady' = steady \ {f}
          /\ UNCHANGED dir
     \/ /\ dir' \in {"open", "noread", "noexec", "file", "absent"} \ {dir}
        /\ steady' = {}
        /\ UNCHANGED entry
  /\ UNCHANGED <<world, pc, request, todo, run, reply>>

Handler ==
  \/ ListReadDir \/ Info \/ Listed
  \/ LstatDir("lstat", "readDir") \/ CheckReadDir \/ Start \/ RunReturns
  \/ LstatDir("lstatAgain", "readDirAgain")
  \/ Reply

Next ==
  \/ CallList
  \/ \E pattern \in Patterns : CallGlob(pattern) \/ \E max \in Maxes : CallGrep(pattern, max)
  \/ Handler \/ Expire
  \/ RgOpens \/ RgExits \/ \E name \in Names : RgVisits(name)
  \/ External

Spec == Init /\ [][Next]_vars

\* The handler's thread and the timer run on; rg may hang for ever.
FairSpec == Spec /\ WF_vars(Handler) /\ WF_vars(Expire)
-----------------------------------------------------------------------------
(* Properties. *)

Items == [name: Names, line: Nat]

\* The variables keep their types, and a listing its budget.
TypeOK ==
  /\ world \in Worlds
  /\ dir \in {"open", "noread", "noexec", "file", "absent"}
  /\ entry \in [Names -> Contents \cup {None, Locked}]
  /\ pc \in {"idle", "listDir", "info", "lstat", "readDir", "start", "wait", "lstatAgain",
             "readDirAgain", "done"}
  /\ request \in [op: {"none", "list", "grep", "glob"},
                  pattern: Patterns, max: Maxes \cup {0}]
  /\ todo \in Seq(Names)
  /\ rg \in [state: {"off", "running", "exited"}, walk: (SUBSET Names) \cup {Unread},
             trouble: BOOLEAN, code: 0..Killed,
             output: Seq([name: Names, line: Nat, kind: {"text", "bytes", "huge"}])]
  /\ expired \in BOOLEAN
  /\ reply.kind \in {"none", "ok", "over_budget", "invalid_argument", "outside_root", "not_found",
                     "not_a_dir", "io_error", "timed_out", "pattern_rejected"}
  /\ reply.items \in Seq(Items) /\ reply.truncated \in BOOLEAN
  /\ request.op = "list" => Used(reply.items) <= ListBudget
  /\ steady \subseteq Names
  /\ changes \in 0..Changes

Answered == pc = "done" /\ reply.kind = "ok"

\* What a whole answer would hold of the files that stayed as they were.
DueLines(kinds) ==
  UNION {{Item(f, i) : i \in {j \in DOMAIN entry[f] : entry[f][j] \in kinds}} :
           f \in {g \in steady : entry[g] \in Contents}}
DueNames == {Item(f, 0) : f \in steady \cap Present}
Due == IF request.op = "grep" THEN DueLines({"text"}) ELSE DueNames

\* ACCEPTANCE F9, for lines of UTF-8 the scanner can hold: an answer that is not
\* marked truncated misses nothing of a file nobody touched, whatever happens to the
\* others, to rg and to the deadline.
NothingMissing ==
  Answered /\ ~reply.truncated /\ (\A i \in DOMAIN rg.output : rg.output[i].kind # "huge")
    => Due \subseteq ToSet(reply.items)

\* F9 as it stands: no unmarked partial result.
MarkedIfPartial ==
  Answered /\ ~reply.truncated /\ request.op = "grep"
    => DueLines({"text", "bytes", "huge"}) \subseteq ToSet(reply.items)

Before(a, b) == a.name < b.name \/ (a.name = b.name /\ a.line < b.line)

\* What is answered of a file nobody touched is there, once; the entries of a listing
\* come by name, the lines of a file in order.
NothingInvented ==
  Answered =>
    /\ \A item \in ToSet(reply.items) : item.name \in steady => item \in Due
    /\ \A i, j \in DOMAIN reply.items :
         i < j /\ (request.op = "list" \/ reply.items[i].name = reply.items[j].name) =>
           Before(reply.items[i], reply.items[j])

\* "truncated" is said of a full result only, when there is more; a truncated listing is
\* of the first names, with none left out.
TruncatedMeansMore ==
  Answered /\ reply.truncated =>
    /\ request.op = "grep" => Len(reply.items) = request.max
    /\ request.op = "glob" => Len(reply.items) = GlobMax
    /\ world = "quiet" /\ dir = "open" => \E item \in Due : item \notin ToSet(reply.items)
    /\ request.op = "list" =>
         \A told \in ToSet(reply.items), due \in Due :
           Before(due, told) => due \in ToSet(reply.items)

\* While nothing changes, an answer means that the directory could be read and rg took
\* the pattern, and a refusal names what is the matter (ACCEPTANCE F11, F12).  The
\* pattern is blamed only if it is bad or if there was something rg could not open:
\* diagnoseSearchFailure does not tell the two apart.
RefusalIsTrue ==
  pc = "done" /\ world = "quiet" =>
    /\ reply.kind = "ok" => Readable /\ request.pattern = "good"
    /\ reply.kind = "not_found" => dir = "absent"
    /\ reply.kind = "not_a_dir" => dir = "file"
    /\ reply.kind = "io_error" => dir = "noread"
    /\ reply.kind = "timed_out" <=> expired
    /\ reply.kind = "pattern_rejected" =>
         request.pattern = "bad" \/ dir = "noexec" \/ \E f \in Names : entry[f] = Locked

\* Every call is answered, though rg may hang.
SearchesEnd == pc # "idle" ~> pc = "idle"
=============================================================================
