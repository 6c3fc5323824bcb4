------------------------------- MODULE Serve -------------------------------
(***************************************************************************)
(* The session: main.go's serve loop with readFrame, handleLine and        *)
(* writeResponse, and the registry's Call.  One thread reads a frame in    *)
(* chunks, dispatches it, runs at most one handler, and writes at most one *)
(* line before it reads on.                                                *)
(*                                                                         *)
(* A frame is its length and what the code tells of it: whether it is      *)
(* blank, JSON, a known method, a well-formed call of a registered tool,   *)
(* and the size of the id every answer must repeat (0: no id, so a         *)
(* notification).  A line written is the frame it answers, what it says    *)
(* and its size without the newline.                                       *)
(***************************************************************************)
EXTENDS Naturals, Sequences

CONSTANTS
  Frames,       \* the frames a client may send
  MaxFrames,    \* bound: how many it sends
  BufSize,      \* the bytes bufio.Reader holds
  MaxRequest,   \* --max-request-bytes
  MaxResponse,  \* --max-response-bytes
  Modes,        \* the values of --read-only looked at
  ResultSizes,  \* what a result takes of its line, the id apart
  ErrorSize     \* what an error takes of its line, the id apart

Calls == {"badParams", "mismatch", "unknownTool", "readTool", "writeTool"}
Kinds == Calls \cup {"blank", "garbage", "initialize", "initialized", "list", "unknown"}

ASSUME FramesAssumption == Frames \subseteq [kind: Kinds, length: Nat, id: Nat]
ASSUME BoundsAssumption ==
  /\ MaxFrames \in Nat /\ BufSize \in Nat \ {0}
  /\ MaxRequest \in Nat \ {0} /\ MaxResponse \in Nat \ {0}
  /\ Modes \subseteq BOOLEAN
  /\ ResultSizes \subseteq Nat /\ ErrorSize \in Nat

VARIABLES
  readOnly,   \* --read-only, as the server was started
  input,      \* the frames on stdin, the first one not read yet first in turn
  unended,    \* the last frame ends with the stream instead of a newline
  next,       \* the frame being read or answered
  taken,      \* how many of its bytes ReadSlice has handed over
  kept,       \* len(buf)
  oversized,
  pc,
  effects,    \* the frames whose tool has changed something, in order
  pending,    \* the response to write
  out         \* the lines written

vars == <<readOnly, input, unended, next, taken, kept, oversized, pc, effects, pending, out>>

Frame == input[next]

\* The newline that ends the frame, if one does.
Newline == IF unended /\ next = Len(input) THEN 0 ELSE 1

\* A line for this frame, n bytes and the id's.
Line(says, n, id) == [to |-> next, says |-> says, id |-> id, size |-> n + id]
NoLine == [to |-> 0, says |-> "nothing", id |-> 0, size |-> 0]

Init ==
  /\ readOnly \in Modes
  /\ input \in UNION {[1..n -> Frames] : n \in 1..MaxFrames}
  /\ unended \in BOOLEAN
  /\ next = 1 /\ taken = 0 /\ kept = 0 /\ oversized = FALSE
  /\ pc = "read"
  /\ effects = <<>> /\ pending = NoLine /\ out = <<>>
-----------------------------------------------------------------------------
\* ReadSlice hands over what is buffered up to the newline or, when there is none
\* in a full buffer, the whole buffer.
Chunk == IF Frame.length - taken < BufSize THEN Frame.length - taken ELSE BufSize
Ends == Frame.length - taken < BufSize

\* Variant: the newline is measured with the frame.
TakeWithNewline(bytes, newline) ==
  LET size == kept + bytes + newline IN
  /\ oversized' = (oversized \/ size > MaxRequest)
  /\ kept' = IF oversized' THEN 0 ELSE size

\* Variant: an oversized frame goes on being accumulated.
TakeAll(bytes, newline) ==
  /\ oversized' = (oversized \/ kept + bytes > MaxRequest)
  /\ kept' = kept + bytes + newline

\* One round of readFrame's loop: past the limit nothing is kept and the rest of
\* the frame is drained.
Take(bytes, newline) ==
  LET size == kept + bytes IN
  /\ oversized' = (oversized \/ size > MaxRequest)
  /\ kept' = IF oversized' THEN 0 ELSE size + newline

ReadChunk ==
  /\ pc = "read" /\ next <= Len(input)
  /\ Take(Chunk, IF Ends THEN Newline ELSE 0)
  /\ taken' = taken + Chunk
  /\ pc' = IF Ends THEN "dispatch" ELSE "read"
  /\ UNCHANGED <<readOnly, input, unended, next, effects, pending, out>>

\* stdin has closed: serve returns.
EndOfInput ==
  /\ pc = "read" /\ next > Len(input)
  /\ pc' = "stopped"
  /\ UNCHANGED <<readOnly, input, unended, next, taken, kept, oversized, effects, pending, out>>

NextFrame ==
  /\ pc' = "read" /\ next' = next + 1
  /\ taken' = 0 /\ kept' = 0 /\ oversized' = FALSE

Stay == UNCHANGED <<next, taken, kept, oversized>>

Respond(line) == pc' = "write" /\ pending' = line /\ Stay

Refuse(says) == Respond(Line(says, ErrorSize, Frame.id))
Grant == \E n \in ResultSizes : Respond(Line("result", n, Frame.id))

\* Variant: the check for an id is missing from tools/call.
SilentIdOnly == Frame.kind = "initialized" \/ (Frame.id = 0 /\ Frame.kind \notin Calls)

\* No answer is due: IsNotification, and notifications/initialized whatever it carries.
Silent == Frame.kind = "initialized" \/ Frame.id = 0

\* Register declines a tool that is not read-only under --read-only.
Registered(kind) == kind = "readTool" \/ (kind = "writeTool" /\ ~readOnly)

\* serve's switch and handleLine's, with Call's checks before the handler.
Dispatch ==
  /\ pc = "dispatch"
  /\ \/ oversized /\ Respond(Line("request_too_large", ErrorSize, 0))
     \/ ~oversized /\ Frame.kind = "blank" /\ NextFrame /\ UNCHANGED pending
     \/ ~oversized /\ Frame.kind = "garbage" /\ Respond(Line("parse_error", ErrorSize, 0))
     \/ /\ ~oversized /\ Frame.kind \notin {"blank", "garbage"}
        /\ \/ Silent /\ NextFrame /\ UNCHANGED pending
           \/ /\ ~Silent
              /\ \/ Frame.kind \in {"initialize", "list"} /\ Grant
                 \/ Frame.kind = "badParams" /\ Refuse("invalid_params")
                 \/ Frame.kind = "mismatch" /\ Refuse("integrity_failed")
                 \/ Frame.kind = "unknown" /\ Refuse("method_not_found")
                 \/ /\ Frame.kind \in {"unknownTool", "readTool", "writeTool"}
                    /\ ~Registered(Frame.kind)
                    /\ Refuse("unknown_tool")
                 \/ /\ Registered(Frame.kind)
                    /\ pc' = "run" /\ Stay /\ UNCHANGED pending
  /\ UNCHANGED <<readOnly, input, unended, effects, out>>

\* Variant: a recovered panic leaves the call without a result.
RunLosingPanic ==
  /\ pc = "run"
  /\ \/ Grant
     \/ NextFrame /\ UNCHANGED pending
  /\ effects' \in {effects} \cup (IF Frame.kind = "writeTool" THEN {Append(effects, next)} ELSE {})
  /\ UNCHANGED <<readOnly, input, unended, out>>

\* The handler returns a result or an error, or panics, which Call turns into an
\* io_error; in each case what a writing tool did before is done.
Run ==
  /\ pc = "run"
  /\ Grant \/ Refuse("io_error")
  /\ effects' \in {effects} \cup (IF Frame.kind = "writeTool" THEN {Append(effects, next)} ELSE {})
  /\ UNCHANGED <<readOnly, input, unended, out>>

\* Variant: what a line over the cap says is cut.
CappedCut(line) ==
  IF line.size + 1 > MaxResponse THEN [line EXCEPT !.says = "half", !.size = MaxResponse] ELSE line

\* writeResponse's cap: a line over it is replaced by an error, not cut.
Capped(line) ==
  IF line.size + 1 > MaxResponse
  THEN [line EXCEPT !.says = "response_too_large", !.size = ErrorSize + line.id]
  ELSE line

\* Variant: a line over the cap is dropped.
WriteResponseOrDrop ==
  /\ pc = "write"
  /\ out' = IF pending.size + 1 > MaxResponse THEN out ELSE Append(out, pending)
  /\ NextFrame
  /\ pending' = NoLine
  /\ UNCHANGED <<readOnly, input, unended, effects>>

WriteResponse ==
  /\ pc = "write"
  /\ out' = Append(out, Capped(pending))
  /\ NextFrame
  /\ pending' = NoLine
  /\ UNCHANGED <<readOnly, input, unended, effects>>

\* The client is gone: Flush fails and serve returns.
FlushFails ==
  /\ pc = "write"
  /\ pc' = "stopped"
  /\ UNCHANGED <<readOnly, input, unended, next, taken, kept, oversized, effects, pending, out>>

\* The process has exited; nothing follows.
Stopped == pc = "stopped" /\ UNCHANGED vars

Step == ReadChunk \/ EndOfInput \/ Dispatch \/ Run \/ WriteResponse \/ FlushFails

Next == Step \/ Stopped

Spec == Init /\ [][Next]_vars

\* The loop runs on as long as its input and the handlers let it.
FairSpec == Spec /\ WF_vars(Step)
-----------------------------------------------------------------------------
(* Properties. *)

Codes == {"nothing", "result", "parse_error", "request_too_large", "response_too_large",
          "invalid_params", "integrity_failed", "method_not_found", "unknown_tool", "io_error"}
Lines == [to: Nat, says: Codes, id: Nat, size: Nat]

\* The variables keep their types; every line says one of the known codes.
TypeOK ==
  /\ readOnly \in BOOLEAN
  /\ input \in Seq(Frames) /\ unended \in BOOLEAN
  /\ next \in 1..(Len(input) + 1)
  /\ taken \in Nat /\ kept \in Nat /\ oversized \in BOOLEAN
  /\ pc \in {"read", "dispatch", "run", "write", "stopped"}
  /\ pc \in {"dispatch", "run", "write"} => next <= Len(input)
  /\ effects \in Seq(1..Len(input)) /\ pending \in Lines /\ out \in Seq(Lines)

\* ACCEPTANCE H11: the memory a frame costs tracks the limit, never the frame.
KeptBounded == kept <= MaxRequest + 1

\* ACCEPTANCE H9, H10: whatever chunks it comes in, a frame is refused exactly
\* when it is longer than the limit without its newline, and otherwise is handed
\* on whole; either way all of it has been taken off the stream.
FrameExact ==
  pc = "dispatch" =>
    /\ taken = Frame.length
    /\ oversized <=> Frame.length > MaxRequest
    /\ ~oversized => kept = Frame.length + Newline

\* The frames JSON-RPC wants an answer for: anything refused as a frame, and
\* requests that carry an id.
Answerable(i) ==
  \/ input[i].length > MaxRequest
  \/ input[i].kind = "garbage"
  \/ input[i].id > 0 /\ input[i].kind \notin {"blank", "initialized"}

\* Every frame that is due an answer gets one, in order, and no other gets any.
OneReplyEach ==
  /\ \A i \in 1..(next - 1) : Answerable(i) <=> \E j \in 1..Len(out) : out[j].to = i
  /\ \A j, k \in 1..Len(out) : j < k => out[j].to < out[k].to
  /\ \A j \in 1..Len(out) : out[j].to < next

\* ACCEPTANCE H2, H6: nothing changes but by a call of a writing tool that was
\* within the limit, carried an id and was registered, and each such call runs once.
EffectsAsked ==
  /\ \A j \in 1..Len(effects) :
       LET f == input[effects[j]] IN
       f.kind = "writeTool" /\ f.id > 0 /\ f.length <= MaxRequest /\ ~readOnly
  /\ \A j, k \in 1..Len(effects) : j < k => effects[j] < effects[k]

\* The server gets to the end of its input with every answer written, unless the
\* client hung up.
AllAnswered ==
  <>[](pc = "stopped" /\ (next <= Len(input) \/ \A i \in 1..Len(input) :
        Answerable(i) => \E j \in 1..Len(out) : out[j].to = i))
=============================================================================
