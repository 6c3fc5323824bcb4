---------------------------- MODULE SearchProofs ----------------------------
(***************************************************************************)
(* What fs_list, fs_grep and fs_glob say, for any number of names,         *)
(* contents, limits, orders of rg's steps and changes by other programs.   *)
(*                                                                         *)
(* Of a directory nobody changes: an answer means it could be read and the *)
(* pattern was taken, and a refusal names what is the matter.  The         *)
(* invariant follows rg's exit code back to its cause, and keeps what each *)
(* check found until it is used.                                           *)
(*                                                                         *)
(* Of the names nobody changes: an answer misses nothing it does not admit *)
(* to, invents nothing, and is cut only where there is more.  The          *)
(* invariant says of rg's output, and of the listing as it grows, what the *)
(* answer made of them has to say; what Used and Texts compute is proved   *)
(* with NatRecursion.                                                      *)
(***************************************************************************)
EXTENDS Search, NatRecursion, SequenceTheorems, FiniteSetTheorems, TLAPS

\* Why rg, or the handler for it, may give up a search in a directory it can read.
Cause == request.pattern = "bad" \/ dir = "noexec" \/ \E f \in Names : entry[f] = Locked

\* What rg's exit code means.
CodeTrue ==
  rg.state = "exited" =>
    \/ rg.code \in {0, 1} /\ request.pattern = "good"
    \/ rg.code = 2 /\ Cause
    \/ rg.code = Killed /\ expired

\* What rg knows: it visits names that are there, for a pattern it took.
RgTrue ==
  /\ rg = [state |-> rg.state, walk |-> rg.walk, trouble |-> rg.trouble,
           output |-> rg.output, code |-> rg.code]
  /\ rg.state # "off" => pc \in {"wait", "lstatAgain", "readDirAgain", "done"}
  /\ rg.state = "running" => pc = "wait"
  /\ rg.state = "off" => rg = NoRun
  /\ rg.walk # Unread => rg.walk \subseteq Present /\ request.pattern = "good"
  /\ rg.trouble => Cause
  /\ CodeTrue

\* What the handler knows at each of its stages.
HandlerTrue ==
  /\ pc \in {"info", "start", "wait", "lstatAgain", "readDirAgain"} => Readable
  /\ pc \in {"listDir", "info"} => request.pattern = "good"
  /\ pc \in {"lstat", "readDir", "start", "wait"} => request.pattern \in {"good", "bad"}
  /\ pc = "readDir" => dir \notin {"absent", "file"}
  /\ pc \in {"lstatAgain", "readDirAgain"} => Cause
  /\ pc \notin {"wait", "done"} => ~expired

QuietInv ==
  /\ dir \in {"open", "noread", "noexec", "file", "absent"}
  /\ entry \in [Names -> Contents \cup {None, Locked}]
  /\ world = "quiet" => RgTrue /\ HandlerTrue /\ RefusalIsTrue

LEMMA NoReplyKind ==
  /\ NoReply.kind = "none"
  /\ \A why : Refusal(why).kind = why
  /\ \A items, truncated : Result(items, truncated).kind = "ok"
  /\ \A r : Backstop(r).kind \in {r.kind, "over_budget"}
BY DEF NoReply, Refusal, Result, Backstop

LEMMA CappedKind == \A events, max : Capped(events, max).kind = "ok"
BY NoReplyKind DEF Capped

LEMMA ParsedKind == Backstop(Parsed).kind \in {"ok", "over_budget"}
BY NoReplyKind, CappedKind DEF Parsed

\* What a directory that is none says is true of it.
LEMMA NotReadableTrue ==
  ASSUME dir \in {"open", "noread", "noexec", "file", "absent"}, ~Readable
  PROVE  /\ NotReadable \in {"not_found", "not_a_dir", "io_error"}
         /\ NotReadable = "not_found" => dir = "absent"
         /\ NotReadable = "not_a_dir" => dir = "file"
         /\ NotReadable = "io_error" => dir = "noread"
BY DEF Readable, NotReadable
-----------------------------------------------------------------------------
(* The steps, in a directory nobody changes. *)

\* Nothing of what is said of the directory and the request changes.
Still == dir' = dir /\ entry' = entry /\ world' = world /\ request' = request

LEMMA StillFacts ==
  ASSUME Still
  PROVE  /\ Present' = Present /\ Cause' = Cause /\ Readable' = Readable
BY DEF Still, Present, Cause, Readable

\* A step of the handler that leaves rg alone and goes on.
LEMMA GoOn ==
  ASSUME Still, run' = run, RgTrue, HandlerTrue, pc' # "done", rg.state # "running",
         rg.state # "off" => pc' \in {"wait", "lstatAgain", "readDirAgain", "done"}
  PROVE  RgTrue' /\ RefusalIsTrue'
BY StillFacts DEF Still, run, CodeTrue, RgTrue, RefusalIsTrue

\* A step that ends the call: what is left to show is what it says.
LEMMA End ==
  ASSUME Still, rg' = rg, expired' = expired, RgTrue, pc' = "done", RefusalIsTrue',
         rg.state # "running"
  PROVE  RgTrue' /\ HandlerTrue' /\ RefusalIsTrue'
BY StillFacts DEF Still, CodeTrue, RgTrue, HandlerTrue

\* The answer is one of these, and true.
LEMMA Truth ==
  ASSUME Still, NEW r, Finish(r), expired' = expired,
         r.kind = "ok" => Readable /\ request.pattern = "good" /\ ~expired,
         r.kind = "not_found" => dir = "absent" /\ ~expired,
         r.kind = "not_a_dir" => dir = "file" /\ ~expired,
         r.kind = "io_error" => dir = "noread" /\ ~expired,
         r.kind = "timed_out" => expired,
         r.kind = "pattern_rejected" => Cause /\ ~expired,
         r.kind \in {"over_budget", "invalid_argument", "outside_root"} => ~expired,
         r.kind \in {"ok", "not_found", "not_a_dir", "io_error", "timed_out",
                     "pattern_rejected", "over_budget", "invalid_argument", "outside_root"}
  PROVE  pc' = "done" /\ RefusalIsTrue'
BY StillFacts DEF Still, Finish, RefusalIsTrue, Cause

QuietNow == QuietInv /\ world = "quiet"
QuietNext == Still /\ RgTrue' /\ HandlerTrue' /\ RefusalIsTrue'

LEMMA ListStep ==
  ASSUME QuietNow, ListReadDir \/ Info \/ Listed
  PROVE  QuietNext
<1>1. Still /\ run' = run /\ RgTrue /\ HandlerTrue
  BY DEF ListReadDir, Info, Listed, ThisCall, Still, QuietNow, QuietInv
<1>2. ~expired /\ rg.state = "off" /\ request.pattern = "good" /\ expired' = expired /\ rg' = rg
  BY <1>1 DEF ListReadDir, Info, Listed, HandlerTrue, CodeTrue, RgTrue, run
<1>3. ASSUME NEW r, Finish(r), r.kind \in {"ok", "over_budget"}, Readable PROVE QuietNext
  BY <1>1, <1>2, <1>3, Truth, End DEF QuietNext
<1>4. CASE ListReadDir /\ Readable
  <2>1. pc' = "info"
    BY <1>4 DEF ListReadDir, Goto
  <2> QED
    BY <1>1, <1>2, <1>4, <2>1, GoOn, StillFacts DEF QuietNext, HandlerTrue, Still
<1>5. CASE ListReadDir /\ ~Readable
  <2>1. Finish(Refusal(NotReadable))
    BY <1>5 DEF ListReadDir
  <2>2. RefusalIsTrue' /\ pc' = "done"
    BY <1>1, <1>2, <1>5, <2>1, NotReadableTrue, NoReplyKind, Truth DEF QuietNow, QuietInv
  <2> QED
    BY <1>1, <1>2, <2>2, End DEF QuietNext
<1>6. CASE Info /\ pc' = pc
  BY <1>1, <1>2, <1>6, GoOn, StillFacts DEF Info, QuietNext, HandlerTrue, Still
<1>7. CASE Info /\ Finish(Backstop(Result(reply.items, TRUE)))
  <2>1. Readable
    BY <1>1, <1>7 DEF Info, HandlerTrue
  <2>2. Backstop(Result(reply.items, TRUE)).kind \in {"ok", "over_budget"}
    BY NoReplyKind
  <2> QED
    BY <1>3, <1>7, <2>1, <2>2
<1>8. CASE Listed
  <2>1. Readable
    BY <1>1, <1>8 DEF Listed, HandlerTrue
  <2>2. Backstop(Result(reply.items, FALSE)).kind \in {"ok", "over_budget"}
    BY NoReplyKind
  <2> QED
    BY <1>3, <1>8, <2>1, <2>2 DEF Listed
<1> QED
  BY <1>4, <1>5, <1>6, <1>7, <1>8 DEF Info

\* checkSearchDir's two looks, before rg and after it.
LEMMA CheckStep ==
  ASSUME QuietNow,
         LstatDir("lstat", "readDir") \/ LstatDir("lstatAgain", "readDirAgain") \/ CheckReadDir
  PROVE  QuietNext
<1>1. /\ Still /\ run' = run /\ RgTrue /\ HandlerTrue
      /\ pc \in {"lstat", "lstatAgain", "readDir", "readDirAgain"}
  BY DEF LstatDir, CheckReadDir, ThisCall, Still, QuietNow, QuietInv
<1>2. ~expired /\ expired' = expired /\ rg' = rg /\ rg.state # "running"
  BY <1>1 DEF HandlerTrue, CodeTrue, RgTrue, run
<1>3. ASSUME NEW r, Finish(r), r.kind = "pattern_rejected", Cause PROVE QuietNext
  BY <1>1, <1>2, <1>3, Truth, End DEF QuietNext
<1>4. ASSUME Finish(Refusal(NotReadable)), ~Readable PROVE QuietNext
  <2>1. RefusalIsTrue' /\ pc' = "done"
    BY <1>1, <1>2, <1>4, NotReadableTrue, NoReplyKind, Truth DEF QuietNow, QuietInv
  <2> QED
    BY <1>1, <1>2, <2>1, End DEF QuietNext
<1>5. CASE Goto("readDir") /\ pc = "lstat" /\ dir \notin {"absent", "file"}
  BY <1>1, <1>2, <1>5, GoOn, StillFacts DEF Goto, QuietNext, HandlerTrue, Still, CodeTrue, RgTrue
<1>6. CASE Goto("readDirAgain") /\ pc = "lstatAgain"
  BY <1>1, <1>2, <1>6, GoOn, StillFacts DEF Goto, QuietNext, HandlerTrue, Still
<1>7. CASE Goto("start") /\ pc = "readDir" /\ Readable
  BY <1>1, <1>2, <1>7, GoOn, StillFacts DEF Goto, QuietNext, HandlerTrue, Still, CodeTrue, RgTrue
<1>8. CASE Finish(Refusal(NotReadable)) /\ dir \in {"absent", "file"}
  BY <1>4, <1>8 DEF Readable
<1>9. CASE Finish(Refusal("pattern_rejected")) /\ pc = "readDirAgain"
  BY <1>1, <1>3, <1>9, NoReplyKind DEF HandlerTrue
<1>10. CheckReadDir /\ pc = "readDirAgain" => Readable
  BY <1>1 DEF HandlerTrue
<1> QED
  BY <1>4, <1>5, <1>6, <1>7, <1>8, <1>9, <1>10 DEF LstatDir, CheckReadDir

LEMMA BeginStep ==
  ASSUME QuietNow,
         \/ CallList
         \/ \E pattern \in Patterns : CallGlob(pattern) \/ \E max \in Maxes : CallGrep(pattern, max)
  PROVE  /\ dir' = dir /\ entry' = entry /\ world' = world
         /\ RgTrue' /\ HandlerTrue' /\ RefusalIsTrue'
<1>1. /\ pc = "idle" /\ dir' = dir /\ entry' = entry /\ world' = world /\ run' = run
      /\ \/ pc' = "listDir" /\ request'.pattern = "good"
         \/ pc' = "lstat" /\ request'.pattern \in {"good", "bad"}
         \/ pc' = "done" /\ reply'.kind \in {"invalid_argument", "outside_root"}
  BY NoReplyKind DEF CallList, CallGlob, CallGrep, Begin, Goto, Finish
<1>2. rg = NoRun /\ rg' = NoRun /\ ~expired /\ ~expired'
  BY <1>1 DEF QuietNow, QuietInv, CodeTrue, RgTrue, HandlerTrue, run
<1>3. RgTrue'
  BY <1>2 DEF CodeTrue, RgTrue, NoRun
<1> QED
  BY <1>1, <1>2, <1>3 DEF HandlerTrue, RefusalIsTrue

LEMMA StartStep ==
  ASSUME QuietNow, Start
  PROVE  QuietNext
<1>1. /\ Still /\ expired' = expired /\ rg = NoRun /\ HandlerTrue /\ pc = "start" /\ pc' = "wait"
      /\ rg' = [rg EXCEPT !.state = "running"]
  BY DEF Start, Goto, ThisCall, Still, QuietNow, QuietInv, CodeTrue, RgTrue, HandlerTrue
<1>2. RgTrue'
  BY <1>1 DEF CodeTrue, RgTrue, NoRun
<1> QED
  BY <1>1, <1>2, StillFacts DEF HandlerTrue, RefusalIsTrue, QuietNext, Still

\* What follows rg: its deadline, its answer, or a search for what was the matter.
LEMMA ReturnStep ==
  ASSUME QuietNow, RunReturns
  PROVE  QuietNext
<1>1. /\ Still /\ run' = run /\ RgTrue /\ HandlerTrue /\ pc = "wait" /\ rg.state = "exited"
      /\ expired' = expired /\ rg' = rg /\ Readable
  BY DEF RunReturns, ThisCall, Still, QuietNow, QuietInv, HandlerTrue, run
<1>2. CASE expired /\ Finish(Refusal("timed_out"))
  BY <1>1, <1>2, NoReplyKind, Truth, End DEF QuietNext
<1>3. CASE ~expired /\ rg.code \in {0, 1} /\ Finish(Backstop(Parsed))
  <2>1. request.pattern = "good"
    BY <1>1, <1>3 DEF CodeTrue, RgTrue, Killed
  <2> QED
    BY <1>1, <1>3, <2>1, ParsedKind, Truth, End DEF QuietNext
<1>4. CASE ~expired /\ rg.code \notin {0, 1} /\ Goto("lstatAgain")
  <2>1. Cause
    BY <1>1, <1>4 DEF CodeTrue, RgTrue
  <2> QED
    BY <1>1, <1>4, <2>1, GoOn, StillFacts DEF Goto, QuietNext, HandlerTrue, Still
<1> QED
  BY <1>2, <1>3, <1>4 DEF RunReturns

LEMMA ExpireStep ==
  ASSUME QuietNow, Expire
  PROVE  QuietNext
<1>1. /\ Still /\ RgTrue /\ HandlerTrue /\ pc = "wait" /\ pc' = "wait" /\ expired'
  BY DEF Expire, ThisCall, Still, QuietNow, QuietInv
<1>2. ASSUME rg' = rg PROVE RgTrue'
  BY <1>1, <1>2, StillFacts DEF CodeTrue, RgTrue, Still
<1>3. ASSUME rg.state = "running", rg' = [rg EXCEPT !.state = "exited", !.code = Killed]
      PROVE  RgTrue'
  <2>1. rg' = [state |-> "exited", walk |-> rg.walk, trouble |-> rg.trouble,
               output |-> rg.output, code |-> Killed]
    BY <1>1, <1>3 DEF RgTrue
  <2> QED
    BY <1>1, <2>1, StillFacts DEF CodeTrue, RgTrue, Still
<1>4. RgTrue'
  BY <1>2, <1>3 DEF Expire
<1> QED
  BY <1>1, <1>4, StillFacts DEF QuietNext, HandlerTrue, RefusalIsTrue, Still
-----------------------------------------------------------------------------
(* rg's own steps *)

\* rg leaves the handler where it is.
LEMMA RgAside ==
  ASSUME QuietNow, Running, RgTrue'
  PROVE  QuietNext
<1>1. Still /\ pc' = pc /\ reply' = reply /\ expired' = expired
  BY DEF Running, ThisCall, Still
<1> QED
  BY <1>1, StillFacts DEF QuietNow, QuietInv, QuietNext, HandlerTrue, RefusalIsTrue, Still

\* What holds whenever rg takes a step.
LEMMA RgRuns ==
  ASSUME QuietNow, Running
  PROVE  /\ Still /\ pc' = pc /\ expired' = expired
         /\ RgTrue /\ rg.state = "running" /\ pc = "wait" /\ Readable
BY DEF Running, ThisCall, Still, QuietNow, QuietInv, CodeTrue, RgTrue, HandlerTrue

\* An exit whose code tells the truth.
LEMMA ExitTrue ==
  ASSUME QuietNow, Running, NEW c, Exit(c),
         c \in {0, 1} => request.pattern = "good",
         c \notin {0, 1} => c = 2 /\ Cause
  PROVE  QuietNext
<1>1. rg' = [state |-> "exited", walk |-> rg.walk, trouble |-> rg.trouble,
             output |-> rg.output, code |-> c]
  BY RgRuns DEF Exit, CodeTrue, RgTrue
<1>2. RgTrue'
  BY <1>1, RgRuns, StillFacts DEF CodeTrue, RgTrue, Still
<1> QED
  BY <1>2, RgAside

LEMMA RgOpensStep ==
  ASSUME QuietNow, RgOpens
  PROVE  QuietNext
<1>1. Running
  BY DEF RgOpens
<1>2. CASE request.pattern = "bad" /\ Exit(2)
  BY <1>1, <1>2, ExitTrue DEF Cause
<1>3. CASE request.pattern = "good" /\ rg' = [rg EXCEPT !.walk = Present]
  <2>1. rg' = [state |-> rg.state, walk |-> Present, trouble |-> rg.trouble,
               output |-> rg.output, code |-> rg.code]
    BY <1>1, <1>3, RgRuns DEF CodeTrue, RgTrue
  <2>2. RgTrue'
    BY <1>1, <1>3, <2>1, RgRuns, StillFacts DEF CodeTrue, RgTrue, Still
  <2> QED
    BY <1>1, <2>2, RgAside
<1>4. CASE request.pattern = "good" /\ Exit(1)
  <2>1. 1 \in {0, 1}
    OBVIOUS
  <2> QED
    BY <1>1, <1>4, <2>1, ExitTrue
<1>5. CASE dir \in {"noread", "absent"}
  BY <1>1, <1>5, RgRuns DEF Readable
<1> QED
  BY <1>2, <1>3, <1>4, <1>5 DEF RgOpens

\* What rg cannot search is locked, or in a directory it may not enter.
LEMMA RgVisitsStep ==
  ASSUME QuietNow, NEW name \in Names, RgVisits(name)
  PROVE  QuietNext
<1>1. Running /\ rg.walk # Unread /\ name \in rg.walk
  BY DEF RgVisits
<1>2. rg.walk \subseteq Present /\ request.pattern = "good"
  BY <1>1, RgRuns DEF CodeTrue, RgTrue
<1>3. CASE rg' = [rg EXCEPT !.walk = @ \ {name}, !.output = @ \o Events(name)]
  <2>1. rg' = [state |-> rg.state, walk |-> rg.walk \ {name}, trouble |-> rg.trouble,
               output |-> rg.output \o Events(name), code |-> rg.code]
    BY <1>1, <1>3, RgRuns DEF CodeTrue, RgTrue
  <2>2. RgTrue'
    BY <1>1, <1>2, <2>1, RgRuns, StillFacts DEF CodeTrue, RgTrue, Still
  <2> QED
    BY <1>1, <2>2, RgAside
<1>4. CASE /\ ~(entry[name] \in Contents /\ dir \in {"open", "noread"})
           /\ rg' = [rg EXCEPT !.walk = @ \ {name}, !.trouble = TRUE]
  <2>1. entry[name] \in Contents \cup {Locked}
    BY <1>1, <1>2 DEF QuietNow, QuietInv, Present
  <2>2. Cause
    BY <1>1, <1>4, <2>1, RgRuns DEF Cause, Readable
  <2>3. rg' = [state |-> rg.state, walk |-> rg.walk \ {name}, trouble |-> TRUE,
               output |-> rg.output, code |-> rg.code]
    BY <1>1, <1>4, RgRuns DEF CodeTrue, RgTrue
  <2>4. RgTrue'
    BY <1>1, <1>2, <2>2, <2>3, RgRuns, StillFacts DEF CodeTrue, RgTrue, Still
  <2> QED
    BY <1>1, <2>4, RgAside
<1> QED
  BY <1>3, <1>4 DEF RgVisits

LEMMA RgExitsStep ==
  ASSUME QuietNow, RgExits
  PROVE  QuietNext
<1>1. Running /\ rg.walk = {}
  BY DEF RgExits
<1>2. request.pattern = "good"
  BY <1>1, RgRuns DEF CodeTrue, RgTrue, Unread
<1>3. CASE rg.trouble /\ Exit(2)
  BY <1>1, <1>3, RgRuns, ExitTrue DEF CodeTrue, RgTrue
<1>4. CASE Exit(0) \/ Exit(1)
  <2>1. 0 \in {0, 1} /\ 1 \in {0, 1}
    OBVIOUS
  <2> QED
    BY <1>1, <1>2, <1>4, <2>1, ExitTrue
<1> QED
  BY <1>3, <1>4 DEF RgExits

\* The next call starts from nothing.
LEMMA ReplyStep ==
  ASSUME QuietNow, Reply
  PROVE  /\ dir' = dir /\ entry' = entry /\ world' = world
         /\ RgTrue' /\ HandlerTrue' /\ RefusalIsTrue'
BY DEF Reply, CodeTrue, RgTrue, HandlerTrue, RefusalIsTrue, NoRun, NoRequest, Unread
-----------------------------------------------------------------------------
(* The whole system *)

LEMMA QuietInit == Init => QuietInv
BY DEF Init, QuietInv, CodeTrue, RgTrue, HandlerTrue, RefusalIsTrue, NoRun, NoRequest, Unread

LEMMA QuietStep ==
  ASSUME QuietInv, [Next]_vars
  PROVE  QuietInv'
<1>1. CASE External
  <2>1. world' = world /\ world # "quiet"
    BY <1>1, SearchAssumption DEF External
  <2> QED
    BY <1>1, <2>1 DEF External, QuietInv
<1>2. CASE UNCHANGED vars
  <2>1. Still /\ pc' = pc /\ reply' = reply /\ rg' = rg /\ expired' = expired
    BY <1>2 DEF vars, run, Still
  <2> QED
    BY <2>1, StillFacts DEF QuietInv, CodeTrue, RgTrue, HandlerTrue, RefusalIsTrue, Still
<1>3. CASE Next /\ ~External
  <2>1. dir' = dir /\ entry' = entry /\ world' = world
    BY <1>3 DEF Next, Handler, CallList, CallGlob, CallGrep, Begin, ListReadDir, Info, Listed,
      LstatDir, CheckReadDir, Start, RunReturns, Reply, Expire, RgOpens, RgExits, RgVisits,
      Running, ThisCall
  <2>2. ASSUME world = "quiet" PROVE RgTrue' /\ HandlerTrue' /\ RefusalIsTrue'
    <3>1. QuietNow
      BY <2>2 DEF QuietNow
    <3>2. CASE Handler
      BY <3>1, <3>2, ListStep, CheckStep, StartStep, ReturnStep, ReplyStep
      DEF Handler, QuietNext
    <3>3. CASE Expire \/ RgOpens \/ RgExits
      BY <3>1, <3>3, ExpireStep, RgOpensStep, RgExitsStep DEF QuietNext
    <3>4. CASE \E name \in Names : RgVisits(name)
      BY <3>1, <3>4, RgVisitsStep, Zenon DEF QuietNext
    <3>5. CASE CallList \/ \E pattern \in Patterns :
                              CallGlob(pattern) \/ \E max \in Maxes : CallGrep(pattern, max)
      BY <3>1, <3>5, BeginStep
    <3> QED
      BY <1>3, <3>2, <3>3, <3>4, <3>5 DEF Next
  <2> QED
    BY <2>1, <2>2 DEF QuietInv
<1> QED
  BY <1>1, <1>2, <1>3

\* While nothing changes, an answer means that the directory could be read and rg took
\* the pattern, and a refusal names what is the matter: whatever the directory holds, in
\* whatever order rg visits it, and whenever the deadline falls (rg.go, list.go).
THEOREM RefusalsAreTrue == Spec => []RefusalIsTrue
<1>1. Spec => []QuietInv
  BY QuietInit, QuietStep, PTL DEF Spec
<1>2. QuietInv => RefusalIsTrue
  BY DEF QuietInv, RefusalIsTrue
<1> QED
  BY <1>1, <1>2, PTL
-----------------------------------------------------------------------------
(* What the items of a listing take. *)

\* The sums of the items before and at each place.
Sums(items, f) ==
  /\ f[0] = 0
  /\ \A n \in 1..Len(items) : f[n] = f[n - 1] + ItemBytes[items[n].name]

LEMMA UsedIsSum ==
  ASSUME NEW items \in Seq(Items)
  PROVE  \E f \in [0..Len(items) -> Nat] : Sums(items, f) /\ Used(items) = f[Len(items)]
<1> DEFINE m == Len(items)
           step == [x \in (1..m) \X Nat |-> x[2] + ItemBytes[items[x[1]].name]]
           Eq(g) == g = [n \in 0..m |-> IF n = 0 THEN 0 ELSE g[n - 1] + ItemBytes[items[n].name]]
<1>1. m \in Nat
  OBVIOUS
<1>2. ASSUME NEW n \in 1..m PROVE ItemBytes[items[n].name] \in Nat
  <2>1. items[n] \in Items
    BY ElementOfSeq
  <2> QED
    BY <2>1, SearchAssumption DEF Items
<1>3. step \in [(1..m) \X Nat -> Nat]
  BY <1>1, <1>2
<1>4. \A n \in 1..m, v \in Nat : step[<<n, v>>] = v + ItemBytes[items[n].name]
  OBVIOUS
<1> HIDE DEF step
<1>5. PICK g \in [0..m -> Nat] : Solves(g, 0, step, m)
  <2> HIDE DEF m
  <2> QED
    BY <1>1, <1>3, Recursion
<1>6. Eq(g)
  <2>1. g[0] = 0 /\ \A n \in 1..m : g[n] = g[n - 1] + ItemBytes[items[n].name]
    BY <1>1, <1>4, <1>5 DEF Solves
  <2>2. g = [n \in 0..m |-> g[n]]
    OBVIOUS
  <2>3. \A n \in 0..m : n = 0 \/ n \in 1..m
    BY <1>1
  <2> QED
    BY <2>1, <2>2, <2>3
<1> DEFINE h == CHOOSE f : Eq(f)
<1>7. Eq(h)
  BY <1>6
<1>8. Used(items) = h[m]
  BY DEF Used
<1> HIDE DEF h
<1>9. Sums(items, h)
  <2>1. \A n \in 0..m : h[n] = IF n = 0 THEN 0 ELSE h[n - 1] + ItemBytes[items[n].name]
    BY <1>7, Zenon
  <2>2. 0 \in 0..m /\ \A n \in 1..m : n \in 0..m /\ n # 0
    BY <1>1
  <2> QED
    BY <2>1, <2>2 DEF Sums
<1> DEFINE T == {n \in Nat : n <= m => h[n] \in Nat}
<1>10. ASSUME NEW n \in Nat, n \in T PROVE n + 1 \in T
  <2>1. SUFFICES ASSUME n + 1 <= m PROVE h[n + 1] \in Nat
    OBVIOUS
  <2>2. n + 1 \in 1..m /\ h[n] \in Nat /\ (n + 1) - 1 = n
    BY <1>1, <1>10, <2>1
  <2>3. h[n + 1] = h[n] + ItemBytes[items[n + 1].name]
    BY <1>9, <2>2 DEF Sums
  <2> QED
    BY <1>2, <2>2, <2>3
<1>11. 0 \in T
  BY <1>9 DEF Sums
<1> HIDE DEF T
<1>12. Nat \subseteq T
  BY <1>10, <1>11, Induction
<1>13. h \in [0..m -> Nat]
  <2>1. \A n \in 0..m : h[n] \in Nat
    BY <1>1, <1>12 DEF T
  <2>2. ASSUME NEW n \in 0..m
        PROVE  (IF n = 0 THEN 0 ELSE h[n - 1] + ItemBytes[items[n].name]) \in Nat
    <3>1. n = 0 \/ (n \in 1..m /\ n - 1 \in 0..m)
      BY <1>1
    <3> QED
      BY <1>2, <2>1, <3>1
  <2> QED
    BY <1>7, <2>2, Zenon
<1> QED
  BY <1>8, <1>9, <1>13

LEMMA UsedEmpty == Used(<<>>) = 0
<1>1. <<>> \in Seq(Items) /\ Len(<<>>) = 0
  OBVIOUS
<1>2. PICK f \in [0..0 -> Nat] : Sums(<<>>, f) /\ Used(<<>>) = f[0]
  BY <1>1, UsedIsSum
<1> QED
  BY <1>2 DEF Sums

LEMMA UsedAppend ==
  ASSUME NEW items \in Seq(Items), NEW item \in Items
  PROVE  /\ Used(items) \in Nat /\ ItemBytes[item.name] \in Nat
         /\ Used(Append(items, item)) = Used(items) + ItemBytes[item.name]
<1> DEFINE m == Len(items)
           more == Append(items, item)
<1>1. m \in Nat /\ more \in Seq(Items) /\ Len(more) = m + 1 /\ more[m + 1] = item
      /\ \A n \in 1..m : more[n] = items[n]
  BY AppendProperties
<1> HIDE DEF more
<1>2. PICK f \in [0..m -> Nat] : Sums(items, f) /\ Used(items) = f[m]
  BY UsedIsSum
<1>3. PICK g \in [0..(m + 1) -> Nat] : Sums(more, g) /\ Used(more) = g[m + 1]
  BY <1>1, UsedIsSum
<1> DEFINE T == {n \in Nat : n <= m => f[n] = g[n]}
<1>4. 0 \in T
  BY <1>2, <1>3 DEF Sums
<1>5. ASSUME NEW n \in Nat, n \in T PROVE n + 1 \in T
  <2>1. SUFFICES ASSUME n + 1 <= m PROVE f[n + 1] = g[n + 1]
    OBVIOUS
  <2>2. n + 1 \in 1..m /\ n + 1 \in 1..(m + 1) /\ (n + 1) - 1 = n /\ n <= m
    BY <1>1, <2>1
  <2> QED
    BY <1>1, <1>2, <1>3, <1>5, <2>2 DEF Sums
<1> HIDE DEF T
<1>6. m \in T
  BY <1>1, <1>4, <1>5, Induction
<1>7. f[m] = g[m]
  BY <1>6 DEF T
<1>8. g[m + 1] = g[m] + ItemBytes[item.name]
  <2>1. m + 1 \in 1..Len(more) /\ (m + 1) - 1 = m
    BY <1>1
  <2> QED
    BY <1>1, <1>3, <2>1 DEF Sums
<1>9. ItemBytes[item.name] \in Nat
  BY SearchAssumption DEF Items
<1> QED
  BY <1>1, <1>2, <1>3, <1>7, <1>8, <1>9 DEF more
-----------------------------------------------------------------------------
(* What parseMatches keeps of rg's events. *)

Event == [name: Names, line: Nat, kind: {"text", "bytes", "huge"}]

\* The texts are those of the first n events, in their order, from the places p.
Selects(events, n, texts, p) ==
  /\ p \in [1..Len(texts) -> 1..n]
  /\ \A j, k \in 1..Len(texts) : j < k => p[j] < p[k]
  /\ \A k \in 1..Len(texts) : texts[k] = events[p[k]] /\ texts[k].kind = "text"
  /\ \A i \in 1..n : events[i].kind = "text" => \E k \in 1..Len(texts) : p[k] = i

LEMMA SelectsNext ==
  ASSUME NEW events \in Seq(Event), NEW n \in Nat, n + 1 <= Len(events),
         NEW texts \in Seq(Event), NEW p, Selects(events, n, texts, p)
  PROVE  IF events[n + 1].kind = "text"
         THEN \E q : Selects(events, n + 1, Append(texts, events[n + 1]), q)
         ELSE Selects(events, n + 1, texts, p)
<1> DEFINE m == Len(texts)
           e == events[n + 1]
<1>1. m \in Nat /\ e \in Event /\ \A i \in 1..(n + 1) : i = n + 1 \/ i \in 1..n
  BY ElementOfSeq
<1>2. CASE e.kind # "text"
  BY <1>1, <1>2 DEF Selects
<1>3. CASE e.kind = "text"
  <2> DEFINE more == Append(texts, e)
             q == [k \in 1..(m + 1) |-> IF k = m + 1 THEN n + 1 ELSE p[k]]
  <2>1. Len(more) = m + 1 /\ more[m + 1] = e /\ \A k \in 1..m : more[k] = texts[k]
    BY <1>1, AppendProperties
  <2>2. \A k \in 1..(m + 1) : k = m + 1 \/ (k \in 1..m /\ k # m + 1)
    BY <1>1
  <2>3. m + 1 \in 1..(m + 1) /\ \A k \in 1..m : k \in 1..(m + 1)
    BY <1>1
  <2>4. q[m + 1] = n + 1 /\ \A k \in 1..m : q[k] = p[k] /\ p[k] \in 1..n
    BY <1>1, <2>2, <2>3 DEF Selects
  <2>5. q \in [1..(m + 1) -> 1..(n + 1)]
    <3>1. n + 1 \in 1..(n + 1) /\ \A i \in 1..n : i \in 1..(n + 1)
      OBVIOUS
    <3>2. \A k \in 1..(m + 1) : q[k] \in 1..(n + 1)
      <4> HIDE DEF q
      <4> QED
        BY <2>2, <2>4, <3>1
    <3> QED
      BY <3>2
  <2> HIDE DEF q, more, m
  <2>6. ASSUME NEW j \in 1..(m + 1), NEW k \in 1..(m + 1), j < k PROVE q[j] < q[k]
    <3>1. j \in 1..m /\ j # m + 1
      BY <1>1, <2>6
    <3> QED
      BY <2>2, <2>4, <2>6, <3>1 DEF Selects, m
  <2>7. \A k \in 1..(m + 1) : more[k] = events[q[k]] /\ more[k].kind = "text"
    BY <1>3, <2>1, <2>2, <2>4 DEF Selects, m
  <2>8. ASSUME NEW i \in 1..(n + 1), events[i].kind = "text"
        PROVE  \E k \in 1..(m + 1) : q[k] = i
    BY <1>1, <2>3, <2>4, <2>8 DEF Selects, m
  <2>9. Selects(events, n + 1, more, q)
    BY <2>1, <2>5, <2>6, <2>7, <2>8 DEF Selects
  <2> QED
    BY <1>3, <2>9 DEF more
<1> QED
  BY <1>2, <1>3

LEMMA TextsAreSelected ==
  ASSUME NEW events \in Seq(Event)
  PROVE  Texts(events) \in Seq(Event) /\ \E p : Selects(events, Len(events), Texts(events), p)
<1> DEFINE m == Len(events)
           Next1(n, v) == IF events[n].kind = "text" THEN Append(v, events[n]) ELSE v
           step == [x \in (1..m) \X Seq(Event) |-> Next1(x[1], x[2])]
           Eq(g) == g = [n \in 0..m |->
                          IF n = 0 THEN <<>>
                          ELSE IF events[n].kind = "text" THEN Append(g[n - 1], events[n])
                          ELSE g[n - 1]]
<1>1. m \in Nat /\ <<>> \in Seq(Event)
  OBVIOUS
<1>2. ASSUME NEW n \in 1..m, NEW v \in Seq(Event) PROVE Next1(n, v) \in Seq(Event)
  <2>1. events[n] \in Event
    BY ElementOfSeq
  <2> QED
    BY <2>1, AppendProperties
<1>3. \A n \in 1..m, v \in Seq(Event) : step[<<n, v>>] = Next1(n, v)
  OBVIOUS
<1>4. step \in [(1..m) \X Seq(Event) -> Seq(Event)]
  BY <1>2
<1> HIDE DEF step
<1>5. PICK g \in [0..m -> Seq(Event)] : Solves(g, <<>>, step, m)
  <2> HIDE DEF m
  <2> QED
    BY <1>1, <1>4, Recursion
<1>6. Eq(g)
  <2>1. g[0] = <<>> /\ \A n \in 1..m : g[n] = Next1(n, g[n - 1])
    <3> HIDE DEF Next1
    <3>1. \A n \in 1..m : g[n - 1] \in Seq(Event)
      BY <1>1
    <3> QED
      BY <1>3, <1>5, <3>1 DEF Solves
  <2>2. g = [n \in 0..m |-> g[n]]
    OBVIOUS
  <2>3. \A n \in 0..m : n = 0 \/ n \in 1..m
    BY <1>1
  <2> QED
    BY <2>1, <2>2, <2>3
<1> DEFINE h == CHOOSE f : Eq(f)
<1>7. Eq(h)
  BY <1>6
<1>8. Texts(events) = h[m]
  BY DEF Texts
<1> HIDE DEF h
<1>9. h[0] = <<>> /\ \A n \in 1..m : h[n] = Next1(n, h[n - 1])
  <2>1. \A n \in 0..m : h[n] = IF n = 0 THEN <<>> ELSE Next1(n, h[n - 1])
    BY <1>7, Zenon
  <2>2. 0 \in 0..m /\ \A n \in 1..m : n \in 0..m /\ n # 0
    BY <1>1
  <2> QED
    BY <2>1, <2>2
<1> DEFINE Good(n) == h[n] \in Seq(Event) /\ \E p : Selects(events, n, h[n], p)
           T == {n \in Nat : n <= m => Good(n)}
<1>10. Good(0)
  <2>1. Selects(events, 0, <<>>, <<>>)
    BY DEF Selects
  <2> QED
    BY <1>1, <1>9, <2>1
<1>11. ASSUME NEW n \in Nat, Good(n), n + 1 <= m PROVE Good(n + 1)
  <2>1. n + 1 \in 1..m /\ (n + 1) - 1 = n
    BY <1>1, <1>11
  <2>2. h[n + 1] = Next1(n + 1, h[n])
    BY <1>9, <2>1
  <2>3. h[n + 1] \in Seq(Event)
    BY <1>2, <1>11, <2>1, <2>2
  <2>4. \E p : Selects(events, n + 1, h[n + 1], p)
    <3>1. PICK p : Selects(events, n, h[n], p)
      BY <1>11
    <3> QED
      BY <1>11, <2>2, <3>1, SelectsNext
  <2> QED
    BY <2>3, <2>4
<1> HIDE DEF Good
<1>12. 0 \in T /\ \A n \in Nat : n \in T => n + 1 \in T
  BY <1>10, <1>11
<1> HIDE DEF T
<1>13. m \in T
  BY <1>1, <1>12, Induction
<1> QED
  BY <1>8, <1>13 DEF T, Good
-----------------------------------------------------------------------------
(* What a result holds of rg's output. *)

NoneHuge == \A i \in DOMAIN rg.output : rg.output[i].kind # "huge"
Wanted(e) == request.op = "grep" => e.kind = "text"
Limit == IF request.op = "grep" THEN request.max ELSE GlobMax

\* The events are some of rg's, from the places p in their order.
From(events, p) ==
  /\ p \in [1..Len(events) -> 1..Len(rg.output)]
  /\ \A j, k \in 1..Len(events) : j < k => p[j] < p[k]
  /\ \A k \in 1..Len(events) : events[k] = rg.output[p[k]] /\ Wanted(events[k])

All(events) ==
  \A i \in 1..Len(rg.output) :
    Wanted(rg.output[i]) => \E k \in 1..Len(events) : events[k] = rg.output[i]

LEMMA ScannedIsPrefix ==
  ASSUME rg.output \in Seq(Event)
  PROVE  \E n \in 0..Len(rg.output) :
           Scanned = SubSeq(rg.output, 1, n) /\ (NoneHuge => n = Len(rg.output))
<1> DEFINE output == rg.output
           I == {i \in 1..Len(output) : output[i].kind = "huge"}
           stop == IF I # {} THEN Min(I) ELSE 0
<1>1. Scanned = IF stop = 0 THEN output ELSE SubSeq(output, 1, stop - 1)
  BY DEF Scanned, SelectInSeq
<1>2. CASE I = {}
  <2>1. Scanned = SubSeq(output, 1, Len(output))
    BY <1>1, <1>2, SubSeqFull
  <2> QED
    BY <2>1
<1>3. CASE I # {}
  <2>1. I \subseteq Nat
    OBVIOUS
  <2>2. PICK x \in I : \A y \in I : x <= y
    BY <1>3, <2>1, LeastNumber
  <2>3. Min(I) \in I
    BY <2>2 DEF Min
  <2>4. stop \in 1..Len(output) /\ output[stop].kind = "huge"
    BY <1>3, <2>3
  <2>5. Scanned = SubSeq(output, 1, stop - 1) /\ stop - 1 \in 0..Len(output)
    <3>1. stop # 0 /\ stop - 1 \in 0..Len(output)
      BY <2>4
    <3> HIDE DEF stop
    <3> QED
      BY <1>1, <3>1
  <2>6. ~NoneHuge
    BY <2>4 DEF NoneHuge
  <2> QED
    BY <2>5, <2>6
<1> QED
  BY <1>2, <1>3

LEMMA ParsedIsCapped ==
  ASSUME rg.output \in Seq(Event)
  PROVE  \E events \in Seq(Event) : \E p :
           Parsed = Capped(events, Limit) /\ From(events, p) /\ (NoneHuge => All(events))
<1>1. CASE request.op = "grep"
  <2>1. PICK n \in 0..Len(rg.output) :
          Scanned = SubSeq(rg.output, 1, n) /\ (NoneHuge => n = Len(rg.output))
    BY ScannedIsPrefix
  <2>2. /\ Scanned \in Seq(Event) /\ Len(Scanned) = n
        /\ \A i \in 1..n : Scanned[i] = rg.output[i]
    BY <2>1, SubSeqProperties
  <2>3. PICK p : Selects(Scanned, Len(Scanned), Texts(Scanned), p)
    BY <2>2, TextsAreSelected
  <2> DEFINE events == Texts(Scanned)
  <2>4. events \in Seq(Event)
    BY <2>2, TextsAreSelected
  <2> HIDE DEF events
  <2>5. Selects(Scanned, n, events, p)
    BY <2>2, <2>3 DEF events
  <2>6. \A i \in 1..n : i \in 1..Len(rg.output)
    BY <2>1
  <2>7. p \in [1..Len(events) -> 1..Len(rg.output)]
    BY <2>5, <2>6 DEF Selects
  <2>8. From(events, p)
    BY <1>1, <2>2, <2>5, <2>7 DEF Selects, From, Wanted
  <2>9. ASSUME NoneHuge, NEW i \in 1..Len(rg.output), Wanted(rg.output[i])
        PROVE  \E k \in 1..Len(events) : events[k] = rg.output[i]
    <3>1. i \in 1..n /\ Scanned[i] = rg.output[i] /\ rg.output[i].kind = "text"
      BY <1>1, <2>1, <2>2, <2>9 DEF Wanted
    <3>2. PICK k \in 1..Len(events) : p[k] = i
      BY <2>5, <3>1 DEF Selects
    <3> QED
      BY <2>5, <3>1, <3>2 DEF Selects
  <2>10. Parsed = Capped(events, Limit)
    BY <1>1 DEF Parsed, Limit, events
  <2> QED
    BY <2>4, <2>8, <2>9, <2>10 DEF All
<1>2. CASE request.op # "grep"
  <2> DEFINE p == [k \in 1..Len(rg.output) |-> k]
  <2>1. From(rg.output, p) /\ All(rg.output)
    BY <1>2 DEF From, All, Wanted
  <2>2. Parsed = Capped(rg.output, Limit)
    BY <1>2 DEF Parsed, Limit
  <2> QED
    BY <2>1, <2>2
<1> QED
  BY <1>1, <1>2

LEMMA CappedIs ==
  ASSUME NEW events \in Seq(Event), NEW max \in Nat
  PROVE  LET r == Capped(events, max) IN
         /\ r.kind = "ok" /\ r.items \in Seq(Items)
         /\ r.truncated \in BOOLEAN /\ (r.truncated <=> Len(events) > max)
         /\ Len(r.items) = IF Len(events) > max THEN max ELSE Len(events)
         /\ \A i \in 1..Len(r.items) :
              i \in 1..Len(events) /\ r.items[i] = Item(events[i].name, events[i].line)
<1> DEFINE items == [i \in DOMAIN events |-> Item(events[i].name, events[i].line)]
           n == IF Len(events) > max THEN max ELSE Len(events)
<1>1. \A i \in 1..Len(events) : Item(events[i].name, events[i].line) \in Items
  <2>1. \A i \in 1..Len(events) : events[i] \in Event
    BY ElementOfSeq
  <2> QED
    BY <2>1 DEF Event, Items, Item
<1>2. items \in Seq(Items) /\ Len(items) = Len(events)
  <2>1. DOMAIN events = 1..Len(events) /\ Len(events) \in Nat
    OBVIOUS
  <2>2. items \in [1..Len(events) -> Items]
    BY <1>1, <2>1
  <2> HIDE DEF items
  <2> QED
    BY <2>1, <2>2, SeqDef, LenProperties
<1>3. \A i \in 1..Len(events) : items[i] = Item(events[i].name, events[i].line)
  OBVIOUS
<1>4. n \in 0..Len(events)
  OBVIOUS
<1>5. Capped(events, max) =
        [kind |-> "ok", items |-> SubSeq(items, 1, n), truncated |-> Len(events) > max]
  BY <1>2 DEF Capped, Result
<1> HIDE DEF items, n
<1>6. /\ SubSeq(items, 1, n) \in Seq(Items) /\ Len(SubSeq(items, 1, n)) = n
      /\ \A i \in 1..n : SubSeq(items, 1, n)[i] = items[i]
  BY <1>2, <1>4, SubSeqProperties
<1>7. \A i \in 1..n : i \in 1..Len(events)
  BY <1>4
<1>8. /\ Capped(events, max).truncated \in BOOLEAN
      /\ Capped(events, max).truncated <=> Len(events) > max
  <2>1. Capped(events, max).truncated = (Len(events) > max)
    BY <1>5
  <2>2. (Len(events) > max) \in BOOLEAN
    OBVIOUS
  <2> QED
    BY <2>1, <2>2, Zenon
<1> QED
  BY <1>3, <1>5, <1>6, <1>7, <1>8 DEF n
-----------------------------------------------------------------------------
(* The invariants *)

\* What each stage of a call starts from.
Stages ==
  /\ pc \notin {"info", "done"} => reply = NoReply
  /\ pc = "info" => reply = [kind |-> "none", items |-> reply.items, truncated |-> FALSE]
  /\ pc \in {"listDir", "info"} => request.op = "list"
  /\ pc \in {"lstat", "readDir", "start", "wait", "lstatAgain", "readDirAgain"} =>
       request.op \in {"grep", "glob"}
  /\ pc \in {"idle", "listDir", "info", "lstat", "readDir", "start"} => rg = NoRun
  /\ rg.state = "running" => pc = "wait"

TypeInv == TypeOK /\ Stages

\* A directory that another program has changed has no steady names left, and in a
\* directory nobody changes all are.
Settled ==
  pc # "idle" =>
    /\ steady # {} => dir = "open"
    /\ world = "quiet" /\ dir = "open" => steady = Names

\* The entries listed and those to come are in order, and no steady one is left out.
ListingTrue ==
  pc = "info" =>
    /\ ByName(todo)
    /\ \A i \in DOMAIN reply.items :
         /\ reply.items[i].line = 0
         /\ reply.items[i].name \in steady => reply.items[i].name \in Present
         /\ \A j \in DOMAIN todo : reply.items[i].name < todo[j]
    /\ \A i, j \in DOMAIN reply.items : i < j => reply.items[i].name < reply.items[j].name
    /\ \A f \in steady \cap Present :
         f \in ToSet(todo) \/ \E i \in DOMAIN reply.items : reply.items[i] = Item(f, 0)

\* What an event says of a steady name is so.
EventTrue(e) ==
  IF request.op = "grep"
  THEN entry[e.name] \in Contents /\ e.line \in DOMAIN entry[e.name] /\ e.kind = entry[e.name][e.line]
  ELSE e.line = 0 /\ e.name \in Present

\* All of a name is in rg's output.
Reported(f) ==
  IF request.op = "grep"
  THEN entry[f] \in Contents =>
         \A k \in DOMAIN entry[f] :
           \E i \in DOMAIN rg.output : rg.output[i].name = f /\ rg.output[i].line = k
  ELSE \E i \in DOMAIN rg.output : rg.output[i].name = f

\* rg's output says in order, once, what is so of the names it has visited, and unless
\* it met an error all of it.
OutputTrue ==
  rg.state # "off" =>
    /\ rg.walk = Unread => rg.output = <<>>
    /\ rg.walk # Unread =>
         /\ \A f \in rg.walk \cap steady : f \in Present
         /\ \A i \in DOMAIN rg.output : rg.output[i].name \notin rg.walk
         /\ ~rg.trouble => \A f \in (steady \cap Present) \ rg.walk : Reported(f)
    /\ \A i, j \in DOMAIN rg.output :
         i < j /\ rg.output[i].name = rg.output[j].name => rg.output[i].line < rg.output[j].line
    /\ \A i \in DOMAIN rg.output : rg.output[i].name \in steady => EventTrue(rg.output[i])
    /\ rg.state = "exited" /\ rg.code \in {0, 1} =>
         (rg.walk = {} /\ ~rg.trouble) \/ steady = {}

SearchInv ==
  TypeInv /\ Settled /\ ListingTrue /\ OutputTrue
    /\ NothingMissing /\ NothingInvented /\ TruncatedMeansMore
-----------------------------------------------------------------------------
(* What rg found is what is due. *)

LEMMA DueIs ==
  /\ request.op = "grep" =>
       \A item : item \in Due <=>
         \E f \in steady : /\ entry[f] \in Contents
                          /\ \E k \in DOMAIN entry[f] : entry[f][k] = "text" /\ item = Item(f, k)
  /\ request.op # "grep" =>
       \A item : item \in Due <=> \E f \in steady \cap Present : item = Item(f, 0)
BY DEF Due, DueLines, DueNames

LEMMA ItemIs ==
  \A name, line, a, b : /\ Item(name, line).name = name /\ Item(name, line).line = line
                        /\ Item(name, line) = Item(a, b) => name = a /\ line = b
BY DEF Item

LEMMA LimitIsNat ==
  ASSUME request.max \in Maxes \cup {0}
  PROVE  Limit \in Nat
<1>1. GlobMax \in Nat /\ Maxes \cup {0} \subseteq Nat
  BY SearchAssumption
<1> QED
  BY <1>1 DEF Limit

LEMMA AnswerTrue ==
  ASSUME TypeOK, OutputTrue, Settled, pc = "wait", rg.state = "exited", rg.code \in {0, 1},
         NEW r, r = Parsed
  PROVE  /\ r.kind = "ok" /\ r.items \in Seq(Items) /\ r.truncated \in BOOLEAN
         /\ ~r.truncated /\ NoneHuge => Due \subseteq ToSet(r.items)
         /\ \A item \in ToSet(r.items) : item.name \in steady => item \in Due
         /\ \A i, j \in DOMAIN r.items :
              i < j /\ r.items[i].name = r.items[j].name => Before(r.items[i], r.items[j])
         /\ r.truncated => Len(r.items) = Limit
         /\ r.truncated /\ world = "quiet" /\ dir = "open" =>
              \E item \in Due : item \notin ToSet(r.items)
<1> DEFINE output == rg.output
<1>1. output \in Seq(Event) /\ Limit \in Nat
  <2>1. rg.output \in Seq(Event)
    BY DEF TypeOK, Event
  <2>2. request.max \in Maxes \cup {0}
    BY DEF TypeOK
  <2> QED
    BY <2>1, <2>2, LimitIsNat
<1>2. PICK events \in Seq(Event) : \E p :
        r = Capped(events, Limit) /\ From(events, p) /\ (NoneHuge => All(events))
  BY <1>1, ParsedIsCapped
<1> PICK p : From(events, p)
  BY <1>2
<1>3. /\ r.kind = "ok" /\ r.items \in Seq(Items)
      /\ r.truncated \in BOOLEAN /\ (r.truncated <=> Len(events) > Limit)
      /\ Len(r.items) = IF Len(events) > Limit THEN Limit ELSE Len(events)
      /\ \A i \in 1..Len(r.items) :
           i \in 1..Len(events) /\ r.items[i] = Item(events[i].name, events[i].line)
  BY <1>1, <1>2, CappedIs
<1>4. DOMAIN r.items = 1..Len(r.items) /\ DOMAIN output = 1..Len(output) /\ Len(events) \in Nat
      /\ Len(r.items) \in Nat
  BY <1>1, <1>3
<1>5. ASSUME NEW k \in 1..Len(events), events[k].name \in steady
      PROVE  Item(events[k].name, events[k].line) \in Due
  <2>1. events[k] = output[p[k]] /\ p[k] \in DOMAIN output /\ Wanted(events[k])
    BY <1>2, <1>4 DEF From
  <2>2. EventTrue(events[k])
    BY <1>5, <2>1 DEF OutputTrue
  <2> QED
    BY <1>5, <2>1, <2>2, DueIs DEF EventTrue, Wanted
<1>6. ASSUME NEW j \in 1..Len(events), NEW k \in 1..Len(events), j < k,
             events[j].name = events[k].name
      PROVE  events[j].line < events[k].line
  <2>1. /\ events[j] = output[p[j]] /\ events[k] = output[p[k]] /\ p[j] < p[k]
        /\ p[j] \in DOMAIN output /\ p[k] \in DOMAIN output
    BY <1>2, <1>4, <1>6 DEF From
  <2> QED
    BY <1>6, <2>1 DEF OutputTrue
<1>7. \A item \in ToSet(r.items) : item.name \in steady => item \in Due
  BY <1>3, <1>4, <1>5, ItemIs DEF ToSet
<1>8. \A i, j \in DOMAIN r.items :
        i < j /\ r.items[i].name = r.items[j].name => Before(r.items[i], r.items[j])
  BY <1>3, <1>4, <1>6, ItemIs DEF Before
<1>9. ASSUME ~r.truncated, NoneHuge, NEW item \in Due PROVE item \in ToSet(r.items)
  <2>1. Len(r.items) = Len(events)
    BY <1>3, <1>9
  <2>2. rg.walk = {} /\ ~rg.trouble
    BY <1>9, DueIs DEF OutputTrue
  <2>3. {} # Unread
    BY DEF Unread
  <2>4. PICK i \in DOMAIN output : item = Item(output[i].name, output[i].line) /\ Wanted(output[i])
    <3>1. CASE request.op = "grep"
      <4>1. PICK f \in steady : /\ entry[f] \in Contents
                               /\ \E k \in DOMAIN entry[f] : entry[f][k] = "text" /\ item = Item(f, k)
        BY <1>9, <3>1, DueIs
      <4>2. PICK k \in DOMAIN entry[f] : entry[f][k] = "text" /\ item = Item(f, k)
        BY <4>1
      <4>3. f \in Present
        BY <4>1, SearchAssumption DEF TypeOK, Present
      <4>4. PICK i \in DOMAIN output : output[i].name = f /\ output[i].line = k
        BY <2>2, <2>3, <3>1, <4>1, <4>3 DEF OutputTrue, Reported
      <4>5. EventTrue(output[i])
        BY <4>4 DEF OutputTrue
      <4> QED
        BY <3>1, <4>2, <4>4, <4>5 DEF EventTrue, Wanted
    <3>2. CASE request.op # "grep"
      <4>1. PICK f \in steady \cap Present : item = Item(f, 0)
        BY <1>9, <3>2, DueIs
      <4>2. PICK i \in DOMAIN output : output[i].name = f
        BY <2>2, <2>3, <3>2, <4>1 DEF OutputTrue, Reported
      <4>3. EventTrue(output[i])
        BY <4>1, <4>2 DEF OutputTrue
      <4> QED
        BY <3>2, <4>1, <4>2, <4>3 DEF EventTrue, Wanted
    <3> QED
      BY <3>1, <3>2
  <2>5. PICK k \in 1..Len(events) : events[k] = output[i]
    BY <1>2, <1>4, <1>9, <2>4 DEF All
  <2> QED
    BY <1>3, <1>4, <2>1, <2>4, <2>5 DEF ToSet
<1>10. ASSUME r.truncated, world = "quiet", dir = "open"
       PROVE  \E item \in Due : item \notin ToSet(r.items)
  <2>1. Len(events) > Limit /\ Len(r.items) = Limit
    BY <1>3, <1>10
  <2> DEFINE k == Limit + 1
             item == Item(events[k].name, events[k].line)
  <2>2. k \in 1..Len(events) /\ events[k] \in Event
    BY <1>1, <1>4, <2>1, ElementOfSeq
  <2>3. events[k].name \in steady
    BY <1>10, <2>2 DEF Settled, Event
  <2>4. item \in Due
    BY <1>5, <2>2, <2>3
  <2>5. ASSUME NEW i \in 1..Len(r.items), r.items[i] = item PROVE FALSE
    <3>1. i \in 1..Len(events) /\ i < k
      BY <1>1, <1>3, <2>1
    <3>2. events[i].name = events[k].name /\ events[i].line = events[k].line
      BY <1>3, <2>5, ItemIs
    <3>3. events[i].line < events[k].line
      BY <1>6, <2>2, <3>1, <3>2
    <3>4. events[k].line \in Nat
      BY <2>2 DEF Event
    <3> QED
      BY <3>2, <3>3, <3>4
  <2> QED
    BY <1>4, <2>4, <2>5 DEF ToSet
<1>11. ~r.truncated /\ NoneHuge => Due \subseteq ToSet(r.items)
  BY <1>9
<1>12. r.truncated \in BOOLEAN /\ (r.truncated => Len(r.items) = Limit)
  BY <1>1, <1>3, <1>4
<1> QED
  BY <1>3, <1>7, <1>8, <1>10, <1>11, <1>12

-----------------------------------------------------------------------------
(* Types *)

Pcs == {"idle", "listDir", "info", "lstat", "readDir", "start", "wait", "lstatAgain",
        "readDirAgain", "done"}
Kinds == {"none", "ok", "over_budget", "invalid_argument", "outside_root", "not_found",
          "not_a_dir", "io_error", "timed_out", "pattern_rejected"}
Runs == [state: {"off", "running", "exited"}, walk: (SUBSET Names) \cup {Unread},
         trouble: BOOLEAN, code: 0..Killed, output: Seq(Event)]
ReplyType(r) == r.kind \in Kinds /\ r.items \in Seq(Items) /\ r.truncated \in BOOLEAN

LEMMA BudgetIsNat == ListBudget \in Nat
BY SearchAssumption DEF ListBudget

LEMMA RefusalIs ==
  ASSUME NEW why \in Kinds
  PROVE  /\ ReplyType(Refusal(why)) /\ Refusal(why).kind = why
         /\ Used(Refusal(why).items) <= ListBudget
<1>1. Refusal(why).kind = why /\ Refusal(why).items = <<>> /\ Refusal(why).truncated = FALSE
  BY DEF Refusal, NoReply
<1>2. <<>> \in Seq(Items)
  OBVIOUS
<1>3. Used(<<>>) <= ListBudget
  BY UsedEmpty, BudgetIsNat
<1> QED
  BY <1>1, <1>2, <1>3 DEF ReplyType

LEMMA NoReplyIs ==
  /\ NoReply = [kind |-> "none", items |-> <<>>, truncated |-> FALSE]
  /\ ReplyType(NoReply) /\ Used(NoReply.items) <= ListBudget
<1>1. <<>> \in Seq(Items)
  OBVIOUS
<1> QED
  BY <1>1, UsedEmpty, BudgetIsNat DEF ReplyType, NoReply, Kinds

LEMMA BackstopIs ==
  ASSUME NEW r
  PROVE  Backstop(r) = r \/ Backstop(r) = Refusal("over_budget")
BY DEF Backstop

LEMMA NoRunIs ==
  /\ NoRun = [state |-> "off", walk |-> Unread, trouble |-> FALSE, output |-> <<>>, code |-> 0]
  /\ NoRun \in Runs
<1>1. <<>> \in Seq(Event) /\ 0 \in 0..Killed
  BY DEF Killed
<1> QED
  BY <1>1 DEF NoRun, Runs

\* A step within a call, by its types.
LEMMA KeepsType ==
  ASSUME TypeOK, UNCHANGED ThisCall, pc' \in Pcs, todo' \in Seq(Names), rg' \in Runs,
         expired' \in BOOLEAN, ReplyType(reply'),
         request.op = "list" => Used(reply'.items) <= ListBudget
  PROVE  TypeOK'
BY DEF TypeOK, ThisCall, Pcs, Kinds, Runs, ReplyType, Event

LEMMA TypesNow ==
  ASSUME TypeOK
  PROVE  /\ pc \in Pcs /\ todo \in Seq(Names) /\ rg \in Runs /\ expired \in BOOLEAN
         /\ ReplyType(reply) /\ (request.op = "list" => Used(reply.items) <= ListBudget)
         /\ steady \subseteq Names /\ dir \in {"open", "noread", "noexec", "file", "absent"}
         /\ entry \in [Names -> Contents \cup {None, Locked}]
BY DEF TypeOK, Pcs, Kinds, Runs, ReplyType, Event
-----------------------------------------------------------------------------
(* Steps that leave the directory, the call and rg alone. *)

LEMMA SameCall ==
  ASSUME UNCHANGED ThisCall
  PROVE  /\ Present' = Present /\ Due' = Due /\ Readable' = Readable
         /\ world' = world /\ dir' = dir /\ entry' = entry /\ request' = request
         /\ steady' = steady
         /\ (rg' = rg => NoneHuge' = NoneHuge /\ Limit' = Limit)
         /\ (rg' = rg /\ OutputTrue => OutputTrue')
         /\ (Settled /\ pc # "idle" => Settled')
BY DEF ThisCall, Present, Due, DueLines, DueNames, Readable, NoneHuge, Limit, OutputTrue, EventTrue,
  Reported, Settled

\* The handler goes on to a stage of a search.
LEMMA Searches ==
  ASSUME SearchInv, UNCHANGED <<ThisCall, run, todo, reply>>,
         request.op \in {"grep", "glob"}, reply = NoReply, pc # "idle",
         pc' \in {"readDir", "start", "lstatAgain", "readDirAgain"},
         pc' \in {"readDir", "start"} => rg = NoRun, rg.state # "running"
  PROVE  SearchInv'
<1>1. TypeOK /\ OutputTrue /\ Settled
  BY DEF SearchInv, TypeInv
<1>2. /\ ThisCall' = ThisCall /\ rg' = rg /\ expired' = expired /\ todo' = todo /\ reply' = reply
      /\ pc' \in Pcs \ {"done", "info", "idle", "listDir", "wait"}
  BY DEF run, Pcs
<1>3. TypeOK'
  BY <1>1, <1>2, TypesNow, KeepsType
<1>4. Stages'
  BY <1>2, SameCall DEF Stages
<1>5. Settled' /\ OutputTrue' /\ request' = request
  BY <1>1, <1>2, SameCall
<1>6. ListingTrue' /\ NothingMissing' /\ NothingInvented' /\ TruncatedMeansMore'
  BY <1>2 DEF ListingTrue, NothingMissing, NothingInvented, TruncatedMeansMore, Answered
<1> QED
  BY <1>3, <1>4, <1>5, <1>6 DEF SearchInv, TypeInv

\* The handler ends the call with r: if that is an answer, it must be a true one.
Told(r) ==
  /\ ~r.truncated /\ NoneHuge => Due \subseteq ToSet(r.items)
  /\ \A item \in ToSet(r.items) : item.name \in steady => item \in Due
  /\ \A i, j \in DOMAIN r.items :
       i < j /\ (request.op = "list" \/ r.items[i].name = r.items[j].name) =>
         Before(r.items[i], r.items[j])
  /\ r.truncated =>
       /\ request.op \in {"grep", "glob"} => Len(r.items) = Limit
       /\ world = "quiet" /\ dir = "open" => \E item \in Due : item \notin ToSet(r.items)
       /\ request.op = "list" =>
            \A told \in ToSet(r.items), due \in Due : Before(due, told) => due \in ToSet(r.items)

LEMMA Ends ==
  ASSUME SearchInv, UNCHANGED <<ThisCall, run>>, todo' \in Seq(Names), pc # "idle",
         rg.state # "running",
         NEW r, Finish(r), ReplyType(r), request.op = "list" => Used(r.items) <= ListBudget,
         r.kind = "ok" => Told(r)
  PROVE  SearchInv'
<1>1. TypeOK /\ OutputTrue /\ Settled
  BY DEF SearchInv, TypeInv
<1>2. ThisCall' = ThisCall /\ rg' = rg /\ expired' = expired /\ pc' = "done" /\ reply' = r
  BY DEF run, Finish
<1>3. TypeOK'
  BY <1>1, <1>2, TypesNow, KeepsType DEF Pcs
<1>4. Stages' /\ ListingTrue'
  BY <1>2 DEF Stages, ListingTrue
<1>5. Settled' /\ OutputTrue'
  BY <1>1, <1>2, SameCall
<1>6. ASSUME Told(r) PROVE NothingMissing' /\ NothingInvented' /\ TruncatedMeansMore'
  <2>1. /\ Due' = Due /\ NoneHuge' = NoneHuge /\ Limit' = Limit
        /\ world' = world /\ dir' = dir /\ request' = request /\ steady' = steady
    BY <1>2, SameCall
  <2>2. NothingMissing'
    BY <1>2, <1>6, <2>1 DEF NothingMissing, Told, NoneHuge
  <2>3. NothingInvented'
    BY <1>2, <1>6, <2>1 DEF NothingInvented, Told
  <2>4. TruncatedMeansMore'
    BY <1>2, <1>6, <2>1 DEF TruncatedMeansMore, Told, Limit
  <2> QED
    BY <2>2, <2>3, <2>4
<1>7. ASSUME r.kind # "ok" PROVE NothingMissing' /\ NothingInvented' /\ TruncatedMeansMore'
  BY <1>2, <1>7 DEF Answered, NothingMissing, NothingInvented, TruncatedMeansMore
<1> QED
  BY <1>3, <1>4, <1>5, <1>6, <1>7 DEF SearchInv, TypeInv

LEMMA Refuses ==
  ASSUME SearchInv, UNCHANGED <<ThisCall, run>>, todo' \in Seq(Names), pc # "idle",
         rg.state # "running", NEW why \in Kinds \ {"ok"}, Finish(Refusal(why))
  PROVE  SearchInv'
BY RefusalIs, Ends

-----------------------------------------------------------------------------
(* fs_list *)

LEMMA InvNow ==
  ASSUME SearchInv
  PROVE  /\ TypeOK /\ Stages /\ Settled /\ ListingTrue /\ OutputTrue
         /\ todo \in Seq(Names) /\ rg \in Runs /\ ReplyType(reply)
BY TypesNow DEF SearchInv, TypeInv

\* An order in which nothing stands twice is of everything.
LEMMA OrderIsOfAll ==
  ASSUME NEW order \in SetToSeqs(Present)
  PROVE  order \in Seq(Names) /\ ToSet(order) = Present
<1> DEFINE n == Cardinality(Present)
<1>1. IsFiniteSet(Names)
  <2>1. N \in Int /\ 1 \in Int
    BY SearchAssumption
  <2> QED
    BY <2>1, FS_Interval DEF Names
<1>2. IsFiniteSet(Present) /\ n \in Nat
  <2>1. Present \in SUBSET Names
    BY DEF Present
  <2> QED
    BY <1>1, <2>1, FS_Subset, FS_CardinalityType
<1>3. order \in [1..n -> Present] /\ \A i, j \in 1..n : i # j => order[i] # order[j]
  BY DEF SetToSeqs
<1> HIDE DEF n
<1>4. order \in Injection(1..n, Present)
  BY <1>3 DEF Injection, IsInjective
<1>5. Cardinality(1..n) = n
  <2>1. n \in Int /\ 1 \in Int
    BY <1>2
  <2> QED
    BY <1>2, <2>1, FS_Interval
<1>6. order \in Surjection(1..n, Present)
  <2>1. Cardinality(1..n) = Cardinality(Present)
    BY <1>5 DEF n
  <2> QED
    BY <1>2, <1>4, <2>1, FS_Injection
<1>7. order \in Seq(Names)
  <2>1. order \in [1..n -> Names]
    BY <1>3 DEF Present
  <2> QED
    BY <1>2, <2>1, SeqDef
<1>8. \A f \in Present : \E i \in 1..n : order[i] = f
  BY <1>6 DEF Surjection
<1> QED
  BY <1>3, <1>7, <1>8 DEF ToSet

LEMMA NotReadableIs == NotReadable \in Kinds \ {"ok"}
BY DEF NotReadable, Kinds

LEMMA ListReadDirKeeps ==
  ASSUME SearchInv, ListReadDir
  PROVE  SearchInv'
<1>1. /\ UNCHANGED <<ThisCall, run>> /\ pc = "listDir"
      /\ TypeOK /\ Stages /\ Settled /\ OutputTrue /\ todo \in Seq(Names) /\ rg \in Runs
  BY InvNow DEF ListReadDir
<1>2. request.op = "list" /\ rg = NoRun /\ reply = NoReply
  BY <1>1 DEF Stages
<1>3. CASE Finish(Refusal(NotReadable)) /\ UNCHANGED todo
  BY <1>1, <1>2, <1>3, NoRunIs, NotReadableIs, Refuses
<1>4. CASE Goto("info") /\ todo' \in SetToSeqs(Present) /\ ByName(todo')
  <2>1. todo' \in Seq(Names) /\ ToSet(todo') = Present
    BY <1>4, OrderIsOfAll
  <2>2. /\ ThisCall' = ThisCall /\ rg' = rg /\ expired' = expired /\ pc' = "info" /\ reply' = NoReply
    BY <1>1, <1>2, <1>4 DEF run, Goto
  <2>3. reply'.items = <<>> /\ reply' = [kind |-> "none", items |-> reply'.items, truncated |-> FALSE]
    BY <2>2, NoReplyIs
  <2>4. TypeOK'
    BY <1>1, <2>1, <2>2, NoReplyIs, TypesNow, KeepsType DEF Pcs
  <2>5. Settled' /\ OutputTrue' /\ request' = request /\ Present' = Present /\ steady' = steady
    BY <1>1, <2>2, SameCall
  <2>6. Stages'
    BY <1>2, <2>2, <2>3, <2>5 DEF Stages, NoRun
  <2>7. ListingTrue'
    BY <1>4, <2>1, <2>3, <2>5 DEF ListingTrue
  <2>8. NothingMissing' /\ NothingInvented' /\ TruncatedMeansMore'
    BY <2>2 DEF NothingMissing, NothingInvented, TruncatedMeansMore, Answered
  <2> QED
    BY <2>4, <2>5, <2>6, <2>7, <2>8 DEF SearchInv, TypeInv
<1> QED
  BY <1>3, <1>4 DEF ListReadDir

\* What a listing knows of its items when it ends.
LEMMA ListTold ==
  ASSUME SearchInv, pc = "info", NEW more \in BOOLEAN,
         more => todo # <<>> /\ entry[Head(todo)] # None,
         ~more => todo = <<>>
  PROVE  Told(Result(reply.items, more)) /\ ReplyType(Result(reply.items, more))
         /\ Used(Result(reply.items, more).items) <= ListBudget
<1> DEFINE items == reply.items
           r == Result(items, more)
<1>1. r.kind = "ok" /\ r.items = items /\ r.truncated = more
  BY DEF Result
<1>2. /\ TypeOK /\ ListingTrue /\ Settled /\ todo \in Seq(Names) /\ request.op = "list"
      /\ ReplyType(reply) /\ Used(items) <= ListBudget /\ steady \subseteq Names
  BY InvNow, TypesNow DEF Stages
<1> HIDE DEF r, items
<1>3. items \in Seq(Items) /\ DOMAIN items = 1..Len(items)
  BY <1>2 DEF ReplyType, items
<1>4. /\ ByName(todo)
      /\ \A i \in DOMAIN items :
           /\ items[i].line = 0 /\ (items[i].name \in steady => items[i].name \in Present)
           /\ \A j \in DOMAIN todo : items[i].name < todo[j]
      /\ \A i, j \in DOMAIN items : i < j => items[i].name < items[j].name
      /\ \A f \in steady \cap Present :
           f \in ToSet(todo) \/ \E i \in DOMAIN items : items[i] = Item(f, 0)
  BY <1>2 DEF ListingTrue, items
<1>5. \A item : item \in Due <=> \E f \in steady \cap Present : item = Item(f, 0)
  BY <1>2, DueIs
<1>6. \A i \in DOMAIN items : items[i] = Item(items[i].name, 0) /\ items[i].name \in Names
  <2>1. \A i \in DOMAIN items : items[i] \in Items
    BY <1>3, ElementOfSeq
  <2> QED
    BY <1>4, <2>1 DEF Items, Item
<1>7. ASSUME ~more PROVE Due \subseteq ToSet(items)
  <2>1. ToSet(todo) = {}
    BY <1>7 DEF ToSet
  <2> QED
    BY <1>4, <1>5, <2>1 DEF ToSet
<1>8. \A item \in ToSet(items) : item.name \in steady => item \in Due
  BY <1>4, <1>5, <1>6 DEF ToSet
<1>9. \A i, j \in DOMAIN items : i < j => Before(items[i], items[j])
  BY <1>4 DEF Before
<1>10. ASSUME more, world = "quiet", dir = "open" PROVE \E item \in Due : item \notin ToSet(items)
  <2> DEFINE f == Head(todo)
  <2>1. f \in Names /\ f \in Present /\ 1 \in DOMAIN todo /\ f = todo[1]
    BY <1>2, <1>10 DEF Present
  <2>2. f \in steady
    BY <1>2, <1>10, <2>1 DEF Settled
  <2>3. Item(f, 0) \in Due
    BY <1>5, <2>1, <2>2
  <2>4. ASSUME NEW i \in DOMAIN items, items[i] = Item(f, 0) PROVE FALSE
    <3>1. items[i].name = f
      BY <2>4, ItemIs
    <3>2. f < f /\ f \in Nat
      BY <1>4, <2>1, <3>1 DEF Names
    <3> QED
      BY <3>2
  <2> QED
    BY <2>3, <2>4 DEF ToSet
<1>11. ASSUME NEW told \in ToSet(items), NEW due \in Due, Before(due, told)
       PROVE  due \in ToSet(items)
  <2>1. PICK i \in DOMAIN items : told = items[i]
    BY <1>11 DEF ToSet
  <2>2. PICK f \in steady \cap Present : due = Item(f, 0)
    BY <1>5, <1>11
  <2>3. f \in Nat /\ told.name \in Nat /\ told.line = 0
    BY <1>4, <1>6, <2>1 DEF Present, Names
  <2>4. f < told.name
    BY <1>11, <2>2, <2>3, ItemIs DEF Before
  <2>5. f \notin ToSet(todo)
    <3>1. ASSUME NEW j \in DOMAIN todo, f = todo[j] PROVE FALSE
      BY <1>4, <2>1, <2>3, <2>4, <3>1
    <3> QED
      BY <3>1 DEF ToSet
  <2> QED
    BY <1>4, <2>2, <2>5 DEF ToSet
<1>12. Told(r)
  BY <1>1, <1>2, <1>7, <1>8, <1>9, <1>10, <1>11 DEF Told
<1>13. ReplyType(r) /\ Used(r.items) <= ListBudget
  BY <1>1, <1>2, <1>3 DEF ReplyType, Kinds
<1> QED
  BY <1>12, <1>13 DEF r, items

\* The handler ends a call with a result, or with what the backstop makes of it.
LEMMA Answers ==
  ASSUME SearchInv, UNCHANGED <<ThisCall, run>>, todo' \in Seq(Names), pc # "idle",
         rg.state # "running", NEW r, Finish(Backstop(r)), ReplyType(r), Told(r),
         request.op = "list" => Used(r.items) <= ListBudget
  PROVE  SearchInv'
<1>1. CASE Backstop(r) = r
  BY <1>1, Ends
<1>2. CASE Backstop(r) = Refusal("over_budget")
  <2>1. "over_budget" \in Kinds \ {"ok"}
    BY DEF Kinds
  <2> QED
    BY <1>2, <2>1, Refuses
<1> QED
  BY <1>1, <1>2, BackstopIs

LEMMA InfoKeeps ==
  ASSUME SearchInv, Info
  PROVE  SearchInv'
<1> DEFINE name == Head(todo)
<1>1. /\ UNCHANGED <<ThisCall, run>> /\ pc = "info" /\ todo # <<>>
      /\ TypeOK /\ Stages /\ Settled /\ ListingTrue /\ OutputTrue
      /\ todo \in Seq(Names) /\ rg \in Runs /\ ReplyType(reply)
  BY InvNow DEF Info
<1>2. /\ request.op = "list" /\ rg = NoRun
      /\ reply = [kind |-> "none", items |-> reply.items, truncated |-> FALSE]
      /\ ThisCall' = ThisCall /\ rg' = rg /\ expired' = expired
  BY <1>1 DEF Stages, run
<1>3. /\ name \in Names /\ Tail(todo) \in Seq(Names) /\ Len(Tail(todo)) = Len(todo) - 1
      /\ \A i \in 1..Len(Tail(todo)) : Tail(todo)[i] = todo[i + 1]
      /\ name = todo[1] /\ 1 \in DOMAIN todo
  BY <1>1, HeadTailProperties
<1>4. DOMAIN todo = 1..Len(todo) /\ DOMAIN Tail(todo) = 1..Len(Tail(todo)) /\ Len(todo) \in Nat
  BY <1>1, <1>3
<1>5. \A i \in DOMAIN Tail(todo) : i + 1 \in DOMAIN todo /\ Tail(todo)[i] = todo[i + 1]
  BY <1>3, <1>4
<1>6. ByName(Tail(todo)) /\ \A i \in DOMAIN Tail(todo) : name < Tail(todo)[i]
  <2>1. ByName(todo)
    BY <1>1 DEF ListingTrue
  <2>2. \A i \in DOMAIN Tail(todo) : i \in Int /\ 1 < i + 1
    BY <1>4
  <2>3. \A i, j \in DOMAIN Tail(todo) : i < j => i + 1 < j + 1
    BY <1>4
  <2> HIDE DEF name
  <2> QED
    BY <1>3, <1>5, <2>1, <2>2, <2>3 DEF ByName
<1>7. \A f \in ToSet(todo) : f = name \/ f \in ToSet(Tail(todo))
  <2>1. ASSUME NEW j \in DOMAIN todo
        PROVE  todo[j] = name \/ \E i \in DOMAIN Tail(todo) : Tail(todo)[i] = todo[j]
    <3>1. CASE j = 1
      BY <1>3, <3>1
    <3>2. CASE j # 1
      <4>1. j - 1 \in DOMAIN Tail(todo) /\ (j - 1) + 1 = j
        BY <1>3, <1>4, <3>2
      <4> QED
        BY <1>5, <4>1
    <3> QED
      BY <3>1, <3>2
  <2> HIDE DEF name
  <2> QED
    BY <2>1 DEF ToSet
<1>8. /\ Present' = Present /\ request' = request /\ steady' = steady /\ Settled' /\ OutputTrue'
      /\ entry' = entry
  BY <1>1, <1>2, SameCall
<1> HIDE DEF name
<1>9. CASE /\ entry[name] = None \/ dir # "open"
           /\ todo' = Tail(todo) /\ UNCHANGED <<pc, reply>>
  <2>1. TypeOK'
    BY <1>1, <1>2, <1>3, <1>9, TypesNow, KeepsType
  <2>2. Stages'
    BY <1>1, <1>2, <1>8, <1>9 DEF Stages
  <2>3. name \notin steady \cap Present
    BY <1>1, <1>9 DEF Settled, Present
  <2>4. \A i \in DOMAIN reply.items : \A j \in DOMAIN Tail(todo) : reply.items[i].name < Tail(todo)[j]
    BY <1>1, <1>5 DEF ListingTrue
  <2>5. pc = "info" /\ pc' = "info" /\ reply' = reply /\ todo' = Tail(todo)
    BY <1>1, <1>9
  <2>6. ListingTrue'
    <3>1. \A f \in steady \cap Present :
            f \in ToSet(Tail(todo)) \/ \E i \in DOMAIN reply.items : reply.items[i] = Item(f, 0)
      BY <1>1, <1>7, <2>3 DEF ListingTrue
    <3>2. /\ \A i \in DOMAIN reply.items :
               /\ reply.items[i].line = 0
               /\ reply.items[i].name \in steady => reply.items[i].name \in Present
          /\ \A i, j \in DOMAIN reply.items : i < j => reply.items[i].name < reply.items[j].name
      BY <1>1 DEF ListingTrue
    <3> QED
      BY <1>6, <1>8, <2>4, <2>5, <3>1, <3>2 DEF ListingTrue
  <2>7. NothingMissing' /\ NothingInvented' /\ TruncatedMeansMore'
    BY <2>5 DEF NothingMissing, NothingInvented, TruncatedMeansMore, Answered
  <2> QED
    BY <1>8, <2>1, <2>2, <2>6, <2>7 DEF SearchInv, TypeInv
<1>10. CASE /\ entry[name] # None /\ dir # "noexec" /\ Fits(name)
            /\ todo' = Tail(todo)
            /\ reply' = [reply EXCEPT !.items = Append(@, Item(name, 0))]
            /\ UNCHANGED pc
  <2> DEFINE items == reply.items
             more == Append(items, Item(name, 0))
             n == Len(items)
  <2>1. Item(name, 0) \in Items /\ items \in Seq(Items)
    BY <1>1, <1>3 DEF Item, Items, ReplyType
  <2>2. /\ more \in Seq(Items) /\ Len(more) = n + 1 /\ n \in Nat
        /\ \A i \in 1..n : more[i] = items[i]
        /\ more[n + 1] = Item(name, 0)
    BY <2>1, AppendProperties
  <2>3. reply' = [kind |-> "none", items |-> more, truncated |-> FALSE]
    <3>1. reply' = [reply EXCEPT !.items = more]
      BY <1>10
    <3>2. reply = [kind |-> "none", items |-> items, truncated |-> FALSE]
      BY <1>2
    <3> HIDE DEF more, items
    <3> QED
      BY <3>1, <3>2
  <2>4. Used(more) <= ListBudget
    BY <1>10, <2>1, UsedAppend, ItemIs DEF Fits
  <2> HIDE DEF more
  <2>5. reply'.items = more /\ ReplyType(reply')
    BY <2>2, <2>3 DEF ReplyType, Kinds
  <2>6. pc = "info" /\ pc' = "info" /\ todo' = Tail(todo)
    BY <1>1, <1>10
  <2>7. TypeOK'
    BY <1>1, <1>2, <1>3, <2>4, <2>5, <2>6, TypesNow, KeepsType
  <2>8. reply' = [kind |-> "none", items |-> reply'.items, truncated |-> FALSE]
    BY <2>3, <2>5
  <2>9. Stages'
    BY <1>2, <1>8, <2>6, <2>8, NoRunIs DEF Stages
  <2>10. DOMAIN items = 1..n /\ DOMAIN more = 1..(n + 1) /\ n + 1 \in DOMAIN more
    BY <2>1, <2>2
  <2>11. \A i \in DOMAIN more : i = n + 1 \/ (i \in DOMAIN items /\ more[i] = items[i] /\ i < n + 1)
    BY <2>2, <2>10
  <2>12. name \in Present
    BY <1>3, <1>10 DEF Present
  <2>13. more[n + 1].name = name /\ more[n + 1].line = 0
    BY <2>2, ItemIs
  <2> HIDE DEF items, n
  <2>14. /\ \A i \in DOMAIN items :
              /\ items[i].line = 0 /\ (items[i].name \in steady => items[i].name \in Present)
              /\ \A j \in DOMAIN todo : items[i].name < todo[j]
         /\ \A i, j \in DOMAIN items : i < j => items[i].name < items[j].name
         /\ \A f \in steady \cap Present :
              f \in ToSet(todo) \/ \E i \in DOMAIN items : items[i] = Item(f, 0)
    BY <1>1 DEF ListingTrue, items
  <2>15. ASSUME NEW i \in DOMAIN more
         PROVE  /\ more[i].line = 0 /\ (more[i].name \in steady => more[i].name \in Present)
                /\ \A j \in DOMAIN Tail(todo) : more[i].name < Tail(todo)[j]
    BY <1>5, <1>6, <2>11, <2>12, <2>13, <2>14
  <2>16. ASSUME NEW i \in DOMAIN more, NEW j \in DOMAIN more, i < j
         PROVE  more[i].name < more[j].name
    <3>1. i \in DOMAIN items /\ more[i] = items[i]
      <4>1. i # n + 1
        BY <2>2, <2>10, <2>16
      <4> QED
        BY <2>11, <4>1
    <3>2. CASE j = n + 1
      BY <1>3, <2>13, <2>14, <3>1, <3>2
    <3>3. CASE j \in DOMAIN items /\ more[j] = items[j]
      BY <2>14, <2>16, <3>1, <3>3
    <3> QED
      BY <2>11, <3>2, <3>3
  <2>17. ASSUME NEW f \in steady \cap Present
         PROVE  f \in ToSet(Tail(todo)) \/ \E i \in DOMAIN more : more[i] = Item(f, 0)
    <3>1. CASE f = name
      BY <2>2, <2>10, <3>1
    <3>2. CASE \E i \in DOMAIN items : items[i] = Item(f, 0)
      <4>1. PICK i \in DOMAIN items : items[i] = Item(f, 0)
        BY <3>2
      <4>2. i \in DOMAIN more /\ more[i] = items[i]
        BY <2>2, <2>10 DEF n
      <4> QED
        BY <4>1, <4>2
    <3> QED
      BY <1>7, <2>14, <3>1, <3>2
  <2>18. ListingTrue'
    BY <1>6, <1>8, <2>5, <2>6, <2>15, <2>16, <2>17 DEF ListingTrue
  <2>19. NothingMissing' /\ NothingInvented' /\ TruncatedMeansMore'
    BY <2>6 DEF NothingMissing, NothingInvented, TruncatedMeansMore, Answered
  <2> QED
    BY <1>8, <2>7, <2>9, <2>18, <2>19 DEF SearchInv, TypeInv
<1>11. CASE /\ entry[name] # None
            /\ todo' = <<>>
            /\ Finish(Backstop(Result(reply.items, TRUE)))
  <2>1. Told(Result(reply.items, TRUE)) /\ ReplyType(Result(reply.items, TRUE))
        /\ Used(Result(reply.items, TRUE).items) <= ListBudget
    BY <1>1, <1>11, ListTold DEF name
  <2>2. todo' \in Seq(Names) /\ rg.state # "running"
    BY <1>2, <1>11, NoRunIs
  <2> QED
    BY <1>1, <1>11, <2>1, <2>2, Answers
<1> QED
  BY <1>9, <1>10, <1>11 DEF Info, name

LEMMA ListedKeeps ==
  ASSUME SearchInv, Listed
  PROVE  SearchInv'
<1>1. Told(Result(reply.items, FALSE)) /\ ReplyType(Result(reply.items, FALSE))
      /\ Used(Result(reply.items, FALSE).items) <= ListBudget
  BY ListTold DEF Listed
<1>2. todo' \in Seq(Names) /\ rg.state # "running" /\ pc # "idle" /\ UNCHANGED <<ThisCall, run>>
  BY InvNow, NoRunIs DEF Stages, Listed
<1> QED
  BY <1>1, <1>2, Answers DEF Listed
-----------------------------------------------------------------------------
(* The stages of a search *)

LEMMA CheckKeeps ==
  ASSUME SearchInv,
         LstatDir("lstat", "readDir") \/ LstatDir("lstatAgain", "readDirAgain") \/ CheckReadDir
  PROVE  SearchInv'
<1>1. /\ UNCHANGED <<ThisCall, todo, run>>
      /\ pc \in {"lstat", "readDir", "lstatAgain", "readDirAgain"} /\ Stages /\ todo \in Seq(Names)
  BY InvNow DEF LstatDir, CheckReadDir
<1>2. /\ rg.state # "running" /\ reply = NoReply /\ request.op \in {"grep", "glob"}
      /\ pc \in {"lstat", "readDir"} => rg = NoRun
  BY <1>1 DEF Stages
<1>3. ASSUME NEW why \in Kinds \ {"ok"}, Finish(Refusal(why)) PROVE SearchInv'
  BY <1>1, <1>2, <1>3, Refuses
<1>4. "pattern_rejected" \in Kinds \ {"ok"}
  BY DEF Kinds
<1>5. CASE /\ UNCHANGED reply
           /\ \/ pc = "lstat" /\ pc' = "readDir"
              \/ pc = "readDir" /\ pc' = "start"
              \/ pc' = "readDirAgain"
  BY <1>1, <1>2, <1>5, Searches
<1> QED
  BY <1>1, <1>3, <1>4, <1>5, NotReadableIs DEF LstatDir, CheckReadDir, Goto

LEMMA BeginKeeps ==
  ASSUME SearchInv,
         \/ CallList
         \/ \E pattern \in Patterns : CallGlob(pattern) \/ \E max \in Maxes : CallGrep(pattern, max)
  PROVE  SearchInv'
<1>1. /\ TypeOK /\ Stages /\ todo \in Seq(Names)
  BY InvNow
<1>2. PICK op \in {"list", "grep", "glob"}, pattern \in Patterns, max \in Maxes \cup {0} :
        /\ Begin(op, pattern, max)
        /\ \/ pc' \in {"listDir", "lstat"} /\ reply' = reply /\ (pc' = "listDir" <=> op = "list")
           \/ \E why \in Kinds \ {"ok"} : Finish(Refusal(why))
  <2>1. "good" \in Patterns /\ {"invalid_argument", "outside_root"} \subseteq Kinds \ {"ok"}
    BY DEF Patterns, Kinds
  <2>2. CASE CallList
    BY <2>1, <2>2 DEF CallList, Goto
  <2>3. ASSUME NEW pattern \in Patterns, CallGlob(pattern)
        PROVE  /\ Begin("glob", pattern, 0)
               /\ \/ pc' = "lstat" /\ reply' = reply
                  \/ \E why \in Kinds \ {"ok"} : Finish(Refusal(why))
    BY <2>1, <2>3 DEF CallGlob, Goto
  <2>4. ASSUME NEW pattern \in Patterns, NEW max \in Maxes, CallGrep(pattern, max)
        PROVE  /\ Begin("grep", pattern, max)
               /\ \/ pc' = "lstat" /\ reply' = reply
                  \/ \E why \in Kinds \ {"ok"} : Finish(Refusal(why))
    BY <2>1, <2>4 DEF CallGrep, Goto
  <2> QED
    BY <2>2, <2>3, <2>4
<1>3. /\ pc = "idle" /\ request' = [op |-> op, pattern |-> pattern, max |-> max]
      /\ steady' = (IF dir = "open" THEN Names ELSE {})
      /\ world' = world /\ dir' = dir /\ entry' = entry /\ todo' = todo /\ rg' = rg
      /\ expired' = expired /\ changes' = changes
  BY <1>2 DEF Begin, run
<1>4. reply = NoReply /\ rg = NoRun
  BY <1>1, <1>3 DEF Stages
<1>5. pc' \in {"listDir", "lstat", "done"} /\ reply'.kind # "ok" /\ ReplyType(reply')
      /\ Used(reply'.items) <= ListBudget /\ (pc' # "done" => reply' = NoReply)
      /\ (pc' = "listDir" => op = "list") /\ (pc' = "lstat" => op # "list")
  <2>1. NoReply.kind # "ok"
    BY NoReplyIs
  <2> QED
    BY <1>2, <1>4, <2>1, NoReplyIs, RefusalIs DEF Finish
<1>6. TypeOK'
  <2>1. request' \in [op: {"none", "list", "grep", "glob"}, pattern: Patterns, max: Maxes \cup {0}]
    BY <1>3
  <2>2. steady' \subseteq Names
    BY <1>3
  <2> QED
    BY <1>1, <1>3, <1>5, <2>1, <2>2 DEF TypeOK, ReplyType, Kinds
<1>7. Stages'
  BY <1>3, <1>4, <1>5, NoRunIs DEF Stages
<1>8. Settled'
  BY <1>3 DEF Settled
<1>9. ListingTrue' /\ OutputTrue'
  BY <1>3, <1>4, <1>5, NoRunIs DEF ListingTrue, OutputTrue
<1>10. NothingMissing' /\ NothingInvented' /\ TruncatedMeansMore'
  BY <1>5 DEF NothingMissing, NothingInvented, TruncatedMeansMore, Answered
<1> QED
  BY <1>6, <1>7, <1>8, <1>9, <1>10 DEF SearchInv, TypeInv

\* A step of rg or its timer, while the handler waits.
LEMMA Waits ==
  ASSUME SearchInv, UNCHANGED <<ThisCall, todo, reply>>, pc' = "wait", reply = NoReply,
         request.op \in {"grep", "glob"}, pc # "idle",
         rg' \in Runs, expired' \in BOOLEAN, OutputTrue'
  PROVE  SearchInv'
<1>1. TypeOK /\ Settled
  BY DEF SearchInv, TypeInv
<1>2. ThisCall' = ThisCall /\ todo' = todo /\ reply' = reply /\ pc' \in Pcs
  BY DEF Pcs
<1>3. TypeOK'
  BY <1>1, <1>2, TypesNow, KeepsType
<1>4. Stages'
  BY <1>2, SameCall DEF Stages
<1>5. Settled'
  BY <1>1, <1>2, SameCall
<1>6. ListingTrue' /\ NothingMissing' /\ NothingInvented' /\ TruncatedMeansMore'
  BY DEF ListingTrue, NothingMissing, NothingInvented, TruncatedMeansMore, Answered
<1> QED
  BY <1>3, <1>4, <1>5, <1>6 DEF SearchInv, TypeInv

LEMMA StartKeeps ==
  ASSUME SearchInv, Start
  PROVE  SearchInv'
<1>1. /\ UNCHANGED <<ThisCall, todo, expired>> /\ pc = "start" /\ Stages /\ TypeOK /\ OutputTrue
  BY InvNow DEF Start
<1>2. rg = NoRun /\ reply = NoReply /\ request.op \in {"grep", "glob"}
  BY <1>1 DEF Stages
<1>3. CASE rg' = [rg EXCEPT !.state = "running"] /\ Goto("wait")
  <2>1. rg' = [state |-> "running", walk |-> Unread, trouble |-> FALSE, output |-> <<>>, code |-> 0]
    BY <1>2, <1>3, NoRunIs
  <2>2. rg' \in Runs
    BY <1>2, <1>3, NoRunIs DEF Runs
  <2>3. OutputTrue'
    BY <2>1 DEF OutputTrue
  <2>4. expired' \in BOOLEAN
    BY <1>1, TypesNow
  <2> QED
    BY <1>1, <1>2, <1>3, <2>2, <2>3, <2>4, Waits DEF Goto
<1>4. CASE Goto("lstatAgain") /\ UNCHANGED rg
  BY <1>1, <1>2, <1>4, NoRunIs, Searches DEF Goto, run
<1> QED
  BY <1>3, <1>4 DEF Start

LEMMA ExitIs ==
  ASSUME rg \in Runs, NEW c \in 0..Killed, Exit(c)
  PROVE  /\ rg' \in Runs /\ rg'.walk = rg.walk /\ rg'.trouble = rg.trouble
         /\ rg'.output = rg.output /\ rg'.state = "exited" /\ rg'.code = c
<1>1. PICK s \in {"off", "running", "exited"}, w \in (SUBSET Names) \cup {Unread}, t \in BOOLEAN,
           k \in 0..Killed, o \in Seq(Event) :
        rg = [state |-> s, walk |-> w, trouble |-> t, code |-> k, output |-> o]
  BY Zenon DEF Runs
<1>2. rg' = [state |-> "exited", walk |-> w, trouble |-> t, code |-> c, output |-> o]
  BY <1>1 DEF Exit
<1>3. rg' \in Runs
  BY <1>2 DEF Runs
<1> QED
  BY <1>1, <1>2, <1>3

\* rg ends: it must have read everything, or be known to have failed.
LEMMA ExitKeeps ==
  ASSUME SearchInv, UNCHANGED <<ThisCall, todo, reply>>, pc = "wait", pc' = "wait",
         expired' \in BOOLEAN, rg.state = "running", NEW c \in 0..Killed, Exit(c),
         c \in {0, 1} => (rg.walk = {} /\ ~rg.trouble) \/ steady = {}
  PROVE  SearchInv'
<1>1. Stages /\ TypeOK /\ OutputTrue /\ rg \in Runs
  BY InvNow
<1>2. /\ rg' \in Runs /\ rg'.walk = rg.walk /\ rg'.trouble = rg.trouble
      /\ rg'.output = rg.output /\ rg'.state = "exited" /\ rg'.code = c
  BY <1>1, ExitIs
<1>3. entry' = entry /\ request' = request /\ steady' = steady /\ Present' = Present
  BY SameCall
<1>4. OutputTrue'
  BY <1>1, <1>2, <1>3 DEF OutputTrue, EventTrue, Reported
<1> QED
  BY <1>1, <1>2, <1>4, Waits DEF Stages

LEMMA ExpireKeeps ==
  ASSUME SearchInv, Expire
  PROVE  SearchInv'
<1>1. /\ UNCHANGED <<ThisCall, todo, reply>> /\ pc = "wait" /\ pc' = "wait" /\ Stages /\ TypeOK
      /\ OutputTrue /\ rg \in Runs /\ expired' \in BOOLEAN
  BY InvNow DEF Expire
<1>2. reply = NoReply /\ request.op \in {"grep", "glob"}
  BY <1>1 DEF Stages
<1>3. CASE rg' = rg
  <2>1. OutputTrue'
    BY <1>1, <1>3, SameCall
  <2> QED
    BY <1>1, <1>2, <1>3, <2>1, Waits
<1>4. CASE rg.state = "running" /\ rg' = [rg EXCEPT !.state = "exited", !.code = Killed]
  <2>1. Exit(Killed) /\ Killed \in 0..Killed /\ Killed \notin {0, 1}
    BY <1>4 DEF Exit, Killed
  <2> QED
    BY <1>1, <1>4, <2>1, ExitKeeps
<1> QED
  BY <1>3, <1>4 DEF Expire

LEMMA RunReturnsKeeps ==
  ASSUME SearchInv, RunReturns
  PROVE  SearchInv'
<1>1. /\ UNCHANGED <<ThisCall, todo, run>> /\ pc = "wait" /\ rg.state = "exited"
      /\ Stages /\ TypeOK /\ OutputTrue /\ Settled /\ todo \in Seq(Names) /\ todo' \in Seq(Names)
  BY InvNow DEF RunReturns
<1>2. reply = NoReply /\ request.op \in {"grep", "glob"}
  BY <1>1 DEF Stages
<1>3. CASE Finish(Refusal("timed_out"))
  <2>1. "timed_out" \in Kinds \ {"ok"}
    BY DEF Kinds
  <2> QED
    BY <1>1, <1>3, <2>1, Refuses
<1>4. CASE rg.code \in {0, 1} /\ Finish(Backstop(Parsed))
  <2> DEFINE r == Parsed
  <2>1. /\ r.kind = "ok" /\ r.items \in Seq(Items) /\ r.truncated \in BOOLEAN
        /\ ~r.truncated /\ NoneHuge => Due \subseteq ToSet(r.items)
        /\ \A item \in ToSet(r.items) : item.name \in steady => item \in Due
        /\ \A i, j \in DOMAIN r.items :
             i < j /\ r.items[i].name = r.items[j].name => Before(r.items[i], r.items[j])
        /\ r.truncated => Len(r.items) = Limit
        /\ r.truncated /\ world = "quiet" /\ dir = "open" =>
             \E item \in Due : item \notin ToSet(r.items)
    BY <1>1, <1>4, AnswerTrue
  <2> HIDE DEF r
  <2>2. Told(r) /\ ReplyType(r)
    BY <1>2, <2>1 DEF Told, ReplyType, Kinds
  <2>3. Finish(Backstop(r)) /\ request.op # "list" /\ pc # "idle" /\ rg.state # "running"
    BY <1>1, <1>2, <1>4 DEF r
  <2> QED
    BY <1>1, <2>2, <2>3, Answers
<1>5. CASE Goto("lstatAgain")
  BY <1>1, <1>2, <1>5, Searches DEF Goto
<1> QED
  BY <1>3, <1>4, <1>5 DEF RunReturns

-----------------------------------------------------------------------------
(* ripgrep *)

LEMMA RgNow ==
  ASSUME SearchInv, Running
  PROVE  /\ UNCHANGED <<ThisCall, todo, reply>> /\ pc = "wait" /\ pc' = "wait" /\ rg.state = "running"
         /\ Stages /\ TypeOK /\ OutputTrue /\ Settled /\ rg \in Runs /\ expired' \in BOOLEAN
         /\ reply = NoReply /\ request.op \in {"grep", "glob"}
         /\ entry' = entry /\ request' = request /\ steady' = steady /\ Present' = Present
<1>1. /\ UNCHANGED <<ThisCall, todo, reply>> /\ pc' = pc /\ expired' = expired /\ rg.state = "running"
      /\ Stages /\ TypeOK /\ OutputTrue /\ Settled /\ rg \in Runs
  BY InvNow DEF Running
<1>2. pc = "wait" /\ reply = NoReply /\ request.op \in {"grep", "glob"}
  BY <1>1 DEF Stages
<1>3. expired \in BOOLEAN
  BY <1>1, TypesNow
<1> QED
  BY <1>1, <1>2, <1>3, SameCall

LEMMA NamesAreRead ==
  ASSUME NEW S, S \subseteq Names
  PROVE  S # Unread
BY DEF Names, Unread

\* What is left to visit and what has been found after a step of rg that is no exit.
LEMMA RgIs ==
  ASSUME rg \in Runs, NEW w \in (SUBSET Names) \cup {Unread}, NEW t \in BOOLEAN, NEW o \in Seq(Event),
         \/ rg' = [rg EXCEPT !.walk = w] /\ t = rg.trouble /\ o = rg.output
         \/ rg' = [rg EXCEPT !.walk = w, !.output = o] /\ t = rg.trouble
         \/ rg' = [rg EXCEPT !.walk = w, !.trouble = t] /\ o = rg.output
  PROVE  /\ rg' \in Runs /\ rg'.walk = w /\ rg'.trouble = t /\ rg'.output = o
         /\ rg'.state = rg.state /\ rg'.code = rg.code
<1>1. PICK s \in {"off", "running", "exited"}, v \in (SUBSET Names) \cup {Unread}, b \in BOOLEAN,
           k \in 0..Killed, u \in Seq(Event) :
        rg = [state |-> s, walk |-> v, trouble |-> b, code |-> k, output |-> u]
  BY Zenon DEF Runs
<1>2. rg.trouble = b /\ rg.output = u /\ rg.state = s /\ rg.code = k
  BY <1>1
<1>3. rg' = [state |-> s, walk |-> w, trouble |-> t, code |-> k, output |-> o]
  BY <1>1, <1>2
<1>4. rg' \in Runs
  BY <1>3 DEF Runs
<1> QED
  BY <1>2, <1>3, <1>4

LEMMA RgOpensKeeps ==
  ASSUME SearchInv, RgOpens
  PROVE  SearchInv'
<1>1. Running /\ rg.walk = Unread
  BY DEF RgOpens
<1>2. CASE \E c \in {1, 2} : Exit(c) /\ (c = 1 => dir = "file")
  <2>1. PICK c \in {1, 2} : Exit(c) /\ (c = 1 => dir = "file")
    BY <1>2
  <2>2. c \in 0..Killed
    BY DEF Killed
  <2>3. c \in {0, 1} => steady = {}
    BY <1>1, <2>1, RgNow DEF Settled
  <2> QED
    BY <1>1, <2>1, <2>2, <2>3, RgNow, ExitKeeps
<1>3. CASE rg' = [rg EXCEPT !.walk = Present]
  <2>1. Present \subseteq Names /\ rg \in Runs
    BY <1>1, RgNow DEF Present
  <2>2. rg.trouble \in BOOLEAN /\ rg.output \in Seq(Event)
    BY <2>1 DEF Runs
  <2>3. /\ rg' \in Runs /\ rg'.walk = Present /\ rg'.trouble = rg.trouble /\ rg'.output = rg.output
        /\ rg'.state = rg.state /\ rg'.code = rg.code
    BY <1>3, <2>1, <2>2, RgIs
  <2>4. rg.output = <<>> /\ rg'.walk # Unread
    BY <1>1, <2>1, <2>3, RgNow, NamesAreRead DEF OutputTrue
  <2>5. OutputTrue'
    BY <1>1, <2>3, <2>4, RgNow DEF OutputTrue
  <2> QED
    BY <1>1, <2>3, <2>5, RgNow, Waits
<1> QED
  BY <1>2, <1>3 DEF RgOpens

\* The events of one name, in the order of its lines.
LEMMA EventsAre ==
  ASSUME TypeOK, NEW name \in Names, request.op \in {"grep", "glob"},
         request.op = "grep" => entry[name] \in Contents,
         request.op = "glob" /\ name \in steady => name \in Present
  PROVE  /\ Events(name) \in Seq(Event)
         /\ \A i \in DOMAIN Events(name) :
              /\ Events(name)[i].name = name /\ Events(name)[i].line \in Nat
              /\ name \in steady => EventTrue(Events(name)[i])
         /\ \A i, j \in DOMAIN Events(name) : i < j => Events(name)[i].line < Events(name)[j].line
         /\ request.op = "glob" => 1 \in DOMAIN Events(name)
         /\ request.op = "grep" =>
              \A k \in DOMAIN entry[name] : k \in DOMAIN Events(name) /\ Events(name)[k].line = k
<1> DEFINE e == Events(name)
<1>1. CASE request.op = "glob"
  <2> DEFINE one == [name |-> name, line |-> 0, kind |-> "text"]
  <2>1. one \in Event
    BY DEF Event
  <2>2. e = <<one>>
    BY <1>1 DEF Events
  <2>3. one.name = name /\ one.line = 0
    OBVIOUS
  <2> HIDE DEF one, e
  <2>4. e \in Seq(Event) /\ DOMAIN e = {1} /\ e[1] = one
    BY <2>1, <2>2
  <2>5. name \in steady => EventTrue(one)
    BY <1>1, <2>3 DEF EventTrue
  <2> QED
    BY <1>1, <2>3, <2>4, <2>5 DEF e
<1>2. CASE request.op = "grep"
  <2> DEFINE c == entry[name]
             n == Len(c)
  <2>1. c \in Seq({"text", "bytes", "huge"}) /\ c \in Contents
    BY <1>2, SearchAssumption
  <2>2. DOMAIN c = 1..n /\ n \in Nat /\ \A i \in 1..n : c[i] \in {"text", "bytes", "huge"}
    BY <2>1
  <2>3. e = [i \in DOMAIN c |-> [name |-> name, line |-> i, kind |-> c[i]]]
    BY <1>2 DEF Events
  <2> HIDE DEF c, n, e
  <2>4. e \in [1..n -> Event]
    BY <2>2, <2>3 DEF Event
  <2>5. e \in Seq(Event) /\ DOMAIN e = 1..n
    BY <2>2, <2>4, SeqDef
  <2>6. \A i \in 1..n : e[i].name = name /\ e[i].line = i /\ e[i].kind = c[i]
    BY <2>2, <2>3
  <2>7. \A i \in 1..n : EventTrue(e[i])
    BY <1>2, <2>1, <2>2, <2>6 DEF EventTrue, c
  <2> QED
    BY <1>2, <2>2, <2>5, <2>6, <2>7 DEF e, c
<1> QED
  BY <1>1, <1>2

LEMMA RgVisitsKeeps ==
  ASSUME SearchInv, NEW name \in Names, RgVisits(name)
  PROVE  SearchInv'
<1>1. Running /\ rg.walk # Unread /\ name \in rg.walk
  BY DEF RgVisits
<1>2. /\ rg \in Runs /\ rg.walk \in SUBSET Names /\ rg.trouble \in BOOLEAN /\ rg.output \in Seq(Event)
      /\ request.op \in {"grep", "glob"} /\ TypeOK /\ OutputTrue /\ rg.state = "running"
      /\ rg.walk \ {name} \subseteq Names /\ rg.walk \ {name} # Unread
  BY <1>1, RgNow, NamesAreRead DEF Runs
<1> DEFINE old == rg.output
           m == Len(old)
<1>3. /\ \A f \in rg.walk \cap steady : f \in Present
      /\ \A i \in DOMAIN old : old[i].name \notin rg.walk
      /\ ~rg.trouble => \A f \in (steady \cap Present) \ rg.walk : Reported(f)
      /\ \A i, j \in DOMAIN old : i < j /\ old[i].name = old[j].name => old[i].line < old[j].line
      /\ \A i \in DOMAIN old : old[i].name \in steady => EventTrue(old[i])
  BY <1>1, <1>2 DEF OutputTrue
<1>4. DOMAIN old = 1..m /\ m \in Nat
  BY <1>2
<1>5. CASE rg' = [rg EXCEPT !.walk = @ \ {name}, !.trouble = TRUE]
  <2>1. /\ rg' \in Runs /\ rg'.walk = rg.walk \ {name} /\ rg'.trouble = TRUE /\ rg'.output = rg.output
        /\ rg'.state = rg.state /\ rg'.code = rg.code
    BY <1>2, <1>5, RgIs
  <2>2. OutputTrue'
    BY <1>1, <1>2, <1>3, <2>1, RgNow DEF OutputTrue, EventTrue
  <2> QED
    BY <1>1, <2>1, <2>2, RgNow, Waits
<1>6. CASE /\ request.op = "glob" \/ entry[name] \in Contents
           /\ rg' = [rg EXCEPT !.walk = @ \ {name}, !.output = @ \o Events(name)]
  <2> DEFINE e == Events(name)
             k == Len(e)
             new == old \o e
  <2>1. /\ e \in Seq(Event)
        /\ \A i \in DOMAIN e : e[i].name = name /\ (name \in steady => EventTrue(e[i]))
        /\ \A i, j \in DOMAIN e : i < j => e[i].line < e[j].line
        /\ request.op = "glob" => 1 \in DOMAIN e
        /\ request.op = "grep" => \A l \in DOMAIN entry[name] : l \in DOMAIN e /\ e[l].line = l
    BY <1>1, <1>2, <1>3, <1>6, EventsAre
  <2>2. DOMAIN e = 1..k /\ k \in Nat
    BY <2>1
  <2>3. /\ new \in Seq(Event) /\ Len(new) = m + k
        /\ \A i \in 1..(m + k) : new[i] = IF i <= m THEN old[i] ELSE e[i - m]
    BY <1>2, <2>1, ConcatProperties
  <2> HIDE DEF e
  <2>4. /\ rg' \in Runs /\ rg'.walk = rg.walk \ {name} /\ rg'.trouble = rg.trouble /\ rg'.output = new
        /\ rg'.state = rg.state /\ rg'.code = rg.code
    <3>1. rg' = [rg EXCEPT !.walk = rg.walk \ {name}, !.output = new]
      BY <1>6 DEF e
    <3> HIDE DEF new
    <3> QED
      BY <1>2, <2>3, <3>1, RgIs
  <2> HIDE DEF new
  <2>5. DOMAIN new = 1..(m + k)
    BY <2>3
  <2>6. ASSUME NEW i \in DOMAIN new
        PROVE  \/ i \in DOMAIN old /\ new[i] = old[i] /\ i <= m
               \/ i - m \in DOMAIN e /\ new[i] = e[i - m] /\ i > m
    <3> HIDE DEF old, m, k
    <3>1. CASE i <= m
      BY <1>4, <2>2, <2>3, <2>5, <3>1
    <3>2. CASE i > m
      BY <1>4, <2>2, <2>3, <2>5, <3>2
    <3> QED
      BY <1>4, <2>5, <2>2, <3>1, <3>2
  <2>7. \A i \in DOMAIN old : i \in DOMAIN new /\ new[i] = old[i]
    <3> HIDE DEF old, m, k
    <3> QED
      BY <1>4, <2>2, <2>3, <2>5
  <2>8. \A i \in DOMAIN e : i + m \in DOMAIN new /\ new[i + m] = e[i]
    <3> HIDE DEF old, m, k
    <3>1. \A i \in 1..k : i + m \in 1..(m + k) /\ ~(i + m <= m) /\ (i + m) - m = i
      BY <1>4, <2>2
    <3> QED
      BY <2>2, <2>3, <2>5, <3>1
  <2> HIDE DEF old, m, k
  <2>9. \A i \in DOMAIN new : new[i].name \notin rg.walk \ {name}
    BY <1>3, <2>1, <2>6
  <2>10. ASSUME NEW i \in DOMAIN new, NEW j \in DOMAIN new, i < j, new[i].name = new[j].name
         PROVE  new[i].line < new[j].line
    <3>1. i \in Int /\ j \in Int
      BY <2>2, <1>4, <2>5
    <3>2. CASE j \in DOMAIN old /\ new[j] = old[j] /\ j <= m
      BY <1>3, <1>4, <2>6, <2>10, <3>1, <3>2
    <3>3. CASE /\ j - m \in DOMAIN e /\ new[j] = e[j - m]
               /\ i <= m /\ i \in DOMAIN old /\ new[i] = old[i]
      BY <1>1, <1>3, <2>1, <2>10, <3>3
    <3>4. CASE j - m \in DOMAIN e /\ new[j] = e[j - m] /\ i - m \in DOMAIN e /\ new[i] = e[i - m]
      <4>1. i - m < j - m
        BY <1>4, <2>10, <3>1
      <4> QED
        BY <2>1, <3>4, <4>1
    <3> QED
      BY <2>6, <3>2, <3>3, <3>4
  <2>11. \A i \in DOMAIN new : new[i].name \in steady => EventTrue(new[i])
    BY <1>3, <2>1, <2>6
  <2>12. ASSUME ~rg.trouble, NEW f \in (steady \cap Present) \ (rg.walk \ {name})
         PROVE  Reported(f)'
    <3>1. request' = request /\ entry' = entry
      BY <1>1, RgNow
    <3>2. CASE f \notin rg.walk
      <4>1. Reported(f)
        BY <1>3, <2>12, <3>2
      <4> QED
        BY <2>4, <2>7, <3>1, <4>1 DEF Reported, old
    <3>3. CASE f = name
      <4>1. CASE request.op = "glob"
        <5>1. 1 + m \in DOMAIN new /\ new[1 + m].name = f
          BY <2>1, <2>8, <3>3, <4>1
        <5> QED
          BY <2>4, <3>1, <4>1, <5>1 DEF Reported
      <4>2. CASE request.op = "grep"
        <5>1. \A l \in DOMAIN entry[f] :
                l + m \in DOMAIN new /\ new[l + m].name = f /\ new[l + m].line = l
          BY <2>1, <2>8, <3>3, <4>2
        <5> QED
          BY <2>4, <3>1, <4>2, <5>1 DEF Reported
      <4> QED
        BY <1>2, <4>1, <4>2
    <3> QED
      BY <3>2, <3>3
  <2>13. /\ request' = request /\ entry' = entry /\ steady' = steady /\ Present' = Present
    BY <1>1, RgNow
  <2>14. \A i \in DOMAIN rg'.output : rg'.output[i].name \in steady => EventTrue(rg.output[i])'
    BY <2>4, <2>11, <2>13 DEF EventTrue
  <2>15. OutputTrue'
    BY <1>2, <1>3, <2>4, <2>9, <2>10, <2>12, <2>13, <2>14 DEF OutputTrue
  <2> QED
    BY <1>1, <2>4, <2>15, RgNow, Waits
<1> QED
  BY <1>5, <1>6 DEF RgVisits

LEMMA RgExitsKeeps ==
  ASSUME SearchInv, RgExits
  PROVE  SearchInv'
<1>1. Running /\ rg.walk = {}
  BY DEF RgExits
<1>2. PICK c \in {0, 1, 2} : Exit(c) /\ (c \in {0, 1} => ~rg.trouble)
  BY DEF RgExits
<1>3. c \in 0..Killed
  BY DEF Killed
<1> QED
  BY <1>1, <1>2, <1>3, RgNow, ExitKeeps

-----------------------------------------------------------------------------
(* The whole system *)

LEMMA ReplyKeeps ==
  ASSUME SearchInv, Reply
  PROVE  SearchInv'
<1>1. /\ pc' = "idle" /\ request' = NoRequest /\ reply' = NoReply /\ todo' = <<>> /\ rg' = NoRun
      /\ expired' = FALSE /\ steady' = {} /\ changes' = 0
      /\ world' = world /\ dir' = dir /\ entry' = entry /\ TypeOK
  BY InvNow DEF Reply
<1>2. NoRequest \in [op: {"none"}, pattern: Patterns, max: {0}]
  BY DEF NoRequest, Patterns
<1>3. 0 \in 0..Changes /\ todo' \in Seq(Names)
  BY <1>1, SearchAssumption
<1>4. TypeOK'
  BY <1>1, <1>2, <1>3, NoReplyIs, NoRunIs DEF TypeOK, ReplyType, Runs, Kinds, Event
<1>5. Stages' /\ Settled' /\ ListingTrue' /\ OutputTrue'
  BY <1>1, NoRunIs DEF Stages, Settled, ListingTrue, OutputTrue
<1>6. NothingMissing' /\ NothingInvented' /\ TruncatedMeansMore'
  BY <1>1 DEF NothingMissing, NothingInvented, TruncatedMeansMore, Answered
<1> QED
  BY <1>4, <1>5, <1>6 DEF SearchInv, TypeInv

\* What is said of steady names stays so when fewer are, whatever becomes of the others.
LEMMA FewerSteady ==
  ASSUME SearchInv, UNCHANGED <<request, pc, todo, reply, rg>>,
         steady' \subseteq steady, \A f \in steady' : entry'[f] = entry[f]
  PROVE  ListingTrue' /\ OutputTrue'
<1>1. /\ ListingTrue /\ OutputTrue /\ request' = request /\ pc' = pc /\ todo' = todo
      /\ reply' = reply /\ rg' = rg /\ steady \subseteq Names
  BY InvNow, TypesNow
<1>2. \A f \in steady' : f \in Present' <=> f \in Present
  BY <1>1 DEF Present
<1>3. ListingTrue'
  BY <1>1, <1>2 DEF ListingTrue
<1>4. \A i \in DOMAIN rg.output :
        rg.output[i].name \in steady' /\ EventTrue(rg.output[i]) => EventTrue(rg.output[i])'
  BY <1>1, <1>2 DEF EventTrue
<1>5. \A f \in steady' : Reported(f) => Reported(f)'
  BY <1>1 DEF Reported
<1>6. OutputTrue'
  BY <1>1, <1>2, <1>4, <1>5 DEF OutputTrue
<1> QED
  BY <1>3, <1>6

LEMMA ExternalKeeps ==
  ASSUME SearchInv, External
  PROVE  SearchInv'
<1>1. /\ world = "shared" /\ changes < Changes /\ pc \notin {"idle", "done"} /\ changes' = changes + 1
      /\ UNCHANGED <<world, pc, request, todo, run, reply>>
      /\ TypeOK /\ Stages /\ Settled
  BY InvNow DEF External
<1>2. /\ world' = world /\ pc' = pc /\ request' = request /\ todo' = todo /\ rg' = rg
      /\ expired' = expired /\ reply' = reply
  BY <1>1 DEF run
<1>3. changes' \in 0..Changes
  BY <1>1, SearchAssumption DEF TypeOK
<1>4. /\ dir' \in {"open", "noread", "noexec", "file", "absent"}
      /\ entry' \in [Names -> Contents \cup {None, Locked}]
      /\ steady' \subseteq steady /\ (\A f \in steady' : entry'[f] = entry[f])
      /\ steady' # {} => dir' = dir
  <2>1. CASE \E f \in Names, e \in Contents \cup {None, Locked} :
               /\ entry' = [entry EXCEPT ![f] = e] /\ steady' = steady \ {f} /\ UNCHANGED dir
    BY <1>1, <2>1, TypesNow
  <2>2. CASE /\ dir' \in {"open", "noread", "noexec", "file", "absent"} \ {dir}
             /\ steady' = {} /\ UNCHANGED entry
    BY <1>1, <2>2, TypesNow
  <2> QED
    BY <2>1, <2>2 DEF External
<1>5. TypeOK'
  BY <1>1, <1>2, <1>3, <1>4 DEF TypeOK
<1>6. Stages'
  BY <1>1, <1>2 DEF Stages
<1>7. Settled'
  BY <1>1, <1>2, <1>4 DEF Settled
<1>8. ListingTrue' /\ OutputTrue'
  BY <1>2, <1>4, FewerSteady
<1>9. NothingMissing' /\ NothingInvented' /\ TruncatedMeansMore'
  BY <1>1, <1>2 DEF NothingMissing, NothingInvented, TruncatedMeansMore, Answered
<1> QED
  BY <1>5, <1>6, <1>7, <1>8, <1>9 DEF SearchInv, TypeInv

LEMMA SearchInit == ASSUME Init PROVE SearchInv
<1>1. NoRequest \in [op: {"none"}, pattern: Patterns, max: {0}]
  BY DEF NoRequest, Patterns
<1>2. 0 \in 0..Changes /\ <<>> \in Seq(Names)
  BY SearchAssumption
<1>3. TypeOK
  BY <1>1, <1>2, NoReplyIs, NoRunIs DEF Init, TypeOK, ReplyType, Runs, Kinds, Event
<1>4. Stages /\ Settled /\ ListingTrue /\ OutputTrue
  BY NoRunIs DEF Init, Stages, Settled, ListingTrue, OutputTrue
<1>5. NothingMissing /\ NothingInvented /\ TruncatedMeansMore
  BY DEF Init, NothingMissing, NothingInvented, TruncatedMeansMore, Answered
<1> QED
  BY <1>3, <1>4, <1>5 DEF SearchInv, TypeInv

LEMMA StutterKeeps ==
  ASSUME SearchInv, UNCHANGED vars
  PROVE  SearchInv'
<1>1. /\ UNCHANGED ThisCall /\ pc' = pc /\ reply' = reply /\ todo' = todo /\ rg' = rg
      /\ expired' = expired /\ request' = request /\ world' = world /\ dir' = dir /\ steady' = steady
      /\ entry' = entry /\ changes' = changes
  BY DEF vars, run, ThisCall
<1>2. TypeOK /\ Stages /\ Settled /\ ListingTrue /\ OutputTrue
  BY InvNow
<1>3. TypeOK' /\ Stages' /\ Settled'
  BY <1>1, <1>2 DEF TypeOK, Stages, Settled
<1>4. ListingTrue' /\ OutputTrue'
  BY <1>1, FewerSteady
<1>5. NothingMissing /\ NothingInvented /\ TruncatedMeansMore
  BY DEF SearchInv
<1>6. Due' = Due
  BY <1>1, SameCall
<1>7. NothingMissing' /\ NothingInvented' /\ TruncatedMeansMore'
  BY <1>1, <1>5, <1>6 DEF NothingMissing, NothingInvented, TruncatedMeansMore, Answered
<1> QED
  BY <1>3, <1>4, <1>7 DEF SearchInv, TypeInv

LEMMA SearchStep ==
  ASSUME SearchInv, [Next]_vars
  PROVE  SearchInv'
<1>1. CASE CallList \/ \E pattern \in Patterns :
                          CallGlob(pattern) \/ \E max \in Maxes : CallGrep(pattern, max)
  BY <1>1, BeginKeeps
<1>2. CASE Handler
  BY <1>2, ListReadDirKeeps, InfoKeeps, ListedKeeps, CheckKeeps, StartKeeps, RunReturnsKeeps,
    ReplyKeeps
  DEF Handler
<1>3. CASE Expire \/ RgOpens \/ RgExits
  BY <1>3, ExpireKeeps, RgOpensKeeps, RgExitsKeeps
<1>4. CASE \E name \in Names : RgVisits(name)
  BY <1>4, RgVisitsKeeps
<1>5. CASE External
  BY <1>5, ExternalKeeps
<1>6. CASE UNCHANGED vars
  BY <1>6, StutterKeeps
<1> QED
  BY <1>1, <1>2, <1>3, <1>4, <1>5, <1>6 DEF Next

LEMMA SearchHolds == Spec => []SearchInv
BY SearchInit, SearchStep, PTL DEF Spec

\* The variables keep their types, and a listing stays within the part of a response
\* that is meant for it (list.go:98).
THEOREM SearchTypeCorrect == Spec => []TypeOK
<1>1. SearchInv => TypeOK
  BY DEF SearchInv, TypeInv
<1> QED
  BY <1>1, SearchHolds, PTL

\* An answer that is not marked truncated misses nothing of a file nobody touched: not
\* when other entries come and go, not when rg is killed or fails, not by the scanner
\* unless a line is over its buffer (list.go, grep.go, glob.go, rg.go).
THEOREM UnmarkedIsComplete == Spec => []NothingMissing
<1>1. SearchInv => NothingMissing
  BY DEF SearchInv
<1> QED
  BY <1>1, SearchHolds, PTL

\* What is answered of a file nobody touched is there, once and in order (list.go:80,
\* grep.go, glob.go).
THEOREM AnswersAreTrue == Spec => []NothingInvented
<1>1. SearchInv => NothingInvented
  BY DEF SearchInv
<1> QED
  BY <1>1, SearchHolds, PTL

\* An answer is cut only when it is full and there is more, and a listing leaves out
\* only what comes after all it holds (list.go, grep.go, glob.go).
THEOREM CutOnlyWhenFull == Spec => []TruncatedMeansMore
<1>1. SearchInv => TruncatedMeansMore
  BY DEF SearchInv
<1> QED
  BY <1>1, SearchHolds, PTL
=============================================================================
