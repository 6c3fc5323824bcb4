----------------------------- MODULE ServeProofs -----------------------------
(***************************************************************************)
(* Proofs about the session of Serve, for every input and every limit: its *)
(* type invariant, the exactness of framing and the bound on what it       *)
(* keeps, one reply for each frame that is due one, and that only what was *)
(* asked takes effect.                                                     *)
(***************************************************************************)
EXTENDS Serve, SequenceTheorems, TLAPS

\* While a frame is read: what has been taken of it, and what is kept of that.
Reading ==
  pc = "read" /\ next <= Len(input) =>
    /\ taken <= Frame.length
    /\ oversized <=> taken > MaxRequest
    /\ kept = IF oversized THEN 0 ELSE taken

\* Once it is read, what is known of it until it is answered.
Read ==
  pc \in {"dispatch", "run", "write"} =>
    /\ taken = Frame.length
    /\ oversized <=> Frame.length > MaxRequest
    /\ ~oversized => kept = Frame.length + Newline

\* What is being run was asked for and is registered; what is being written
\* answers the frame at hand.
InHand ==
  /\ pc = "run" => /\ Frame.kind \in {"readTool", "writeTool"} /\ Frame.id > 0
                   /\ ~oversized /\ Registered(Frame.kind)
  /\ pc = "write" => pending.to = next /\ Answerable(next)

\* Effects are of frames up to the one at hand, and of that one only once it ran.
EffectsSoFar ==
  \A j \in 1..Len(effects) :
    /\ effects[j] <= next
    /\ pc \in {"read", "dispatch", "run"} => effects[j] < next

IInv ==
  /\ TypeOK /\ KeptBounded /\ Reading /\ Read /\ InHand
  /\ OneReplyEach /\ EffectsAsked /\ EffectsSoFar
-----------------------------------------------------------------------------
LEMMA FrameType ==
  ASSUME TypeOK, next <= Len(input)
  PROVE  /\ Frame \in [kind: Kinds, length: Nat, id: Nat]
         /\ Newline \in {0, 1}
         /\ Len(input) \in Nat /\ next \in Nat
BY FramesAssumption DEF TypeOK, Frame, Newline

LEMMA OutType ==
  ASSUME TypeOK
  PROVE  Len(out) \in Nat /\ \A j \in 1..Len(out) : out[j].to \in Nat
<1>1. out \in Seq(Lines)
  BY DEF TypeOK
<1>2. Len(out) \in Nat /\ \A j \in 1..Len(out) : out[j] \in Lines
  BY <1>1, ElementOfSeq
<1> QED
  BY <1>2 DEF Lines

\* The initial state satisfies the invariant.
LEMMA InitHolds == Init => IInv
<1> SUFFICES ASSUME Init PROVE IInv
  OBVIOUS
<1> USE DEF Init
<1>1. PICK n \in 1..MaxFrames : input \in [1..n -> Frames]
  OBVIOUS
<1>2. n \in Nat /\ input \in Seq(Frames) /\ Len(input) = n
  BY <1>1, BoundsAssumption
<1>3. NoLine \in Lines
  BY DEF NoLine, Lines, Codes
<1>4. TypeOK
  <2>1. <<>> \in Seq(1..Len(input)) /\ <<>> \in Seq(Lines)
    OBVIOUS
  <2>2. next \in 1..(Len(input) + 1)
    BY <1>2
  <2>3. readOnly \in BOOLEAN
    BY Zenon, BoundsAssumption
  <2> QED
    BY <1>2, <1>3, <2>1, <2>2, <2>3 DEF TypeOK
<1>5. KeptBounded
  BY BoundsAssumption DEF KeptBounded
<1>6. Reading
  BY <1>4, FrameType, BoundsAssumption DEF Reading
<1> QED
  BY <1>4, <1>5, <1>6 DEF IInv, Read, InHand, OneReplyEach, EffectsAsked, EffectsSoFar
-----------------------------------------------------------------------------
\* Going on to the next frame with no answer keeps the invariant when none is due.
LEMMA Advances ==
  ASSUME IInv, pc = "dispatch", ~Answerable(next), NextFrame,
         UNCHANGED <<readOnly, input, unended, effects, pending, out>>
  PROVE  IInv'
<1> USE DEF IInv, NextFrame
<1>1. /\ Len(input) \in Nat /\ next \in 1..Len(input) /\ next' = next + 1
      /\ next' \in 1..(Len(input) + 1) /\ next \in Nat
  BY DEF TypeOK
<1>2. TypeOK'
  BY <1>1 DEF TypeOK
<1>3. KeptBounded' /\ Reading' /\ Read' /\ InHand'
  <2>1. next' <= Len(input') => Frame' \in [kind: Kinds, length: Nat, id: Nat]
    BY <1>1, FramesAssumption DEF Frame, TypeOK
  <2> QED
    BY <1>1, <2>1, BoundsAssumption DEF KeptBounded, Reading, Read, InHand
<1>4. OneReplyEach'
  <2>1. Len(out) \in Nat /\ \A j \in 1..Len(out) : out[j].to \in Nat
    BY OutType
  <2>2. \A i \in 1..(next' - 1) : i \in 1..(next - 1) \/ i = next
    BY <1>1
  <2>3. \A j \in 1..Len(out) : out[j].to < next /\ out[j].to < next + 1
    BY <1>1, <2>1 DEF OneReplyEach
  <2>4. ~\E j \in 1..Len(out) : out[j].to = next
    BY <1>1, <2>1, <2>3
  <2> QED
    BY <1>1, <2>1, <2>2, <2>3, <2>4 DEF OneReplyEach, Answerable
<1>5. EffectsAsked'
  BY DEF EffectsAsked
<1>6. EffectsSoFar'
  BY <1>1 DEF EffectsSoFar, TypeOK
<1> QED
  BY <1>2, <1>3, <1>4, <1>5, <1>6

\* So does taking up an answer that is due.
LEMMA Responds ==
  ASSUME IInv, pc = "dispatch", NEW l \in Lines, l.to = next, Answerable(next), Respond(l),
         UNCHANGED <<readOnly, input, unended, effects, out>>
  PROVE  IInv'
<1> USE DEF IInv, Respond, Stay
<1>1. TypeOK'
  BY DEF TypeOK
<1>2. KeptBounded' /\ Reading' /\ Read' /\ InHand'
  BY DEF KeptBounded, Reading, Read, InHand, Frame, Newline, Answerable, Registered
<1>3. OneReplyEach' /\ EffectsAsked'
  BY DEF OneReplyEach, EffectsAsked, Answerable
<1>4. EffectsSoFar'
  BY DEF EffectsSoFar
<1> QED
  BY <1>1, <1>2, <1>3, <1>4

\* One round of readFrame's loop keeps the invariant: what is taken and kept stay
\* in step, and past the limit nothing is kept.
LEMMA ReadChunkHolds == IInv /\ ReadChunk => IInv'
<1> SUFFICES ASSUME IInv, ReadChunk PROVE IInv'
  OBVIOUS
<1> USE DEF IInv, ReadChunk
<1>1. /\ Frame \in [kind: Kinds, length: Nat, id: Nat] /\ Newline \in {0, 1}
      /\ taken \in Nat /\ kept \in Nat /\ oversized \in BOOLEAN
      /\ taken <= Frame.length
      /\ oversized <=> taken > MaxRequest
      /\ kept = IF oversized THEN 0 ELSE taken
  BY FrameType DEF TypeOK, Reading
<1>2. Frame' = Frame /\ Newline' = Newline
  BY DEF Frame, Newline
<1>3. /\ Chunk \in Nat /\ taken' = taken + Chunk /\ taken' <= Frame.length
      /\ Ends => taken' = Frame.length
  BY <1>1, BoundsAssumption DEF Chunk, Ends
<1> DEFINE nl == IF Ends THEN Newline ELSE 0
<1>4. /\ oversized' <=> taken' > MaxRequest
      /\ kept' = IF oversized' THEN 0 ELSE taken' + nl
      /\ nl \in {0, 1} /\ (Ends => nl = Newline) /\ (~Ends => nl = 0)
      /\ oversized' \in BOOLEAN
  <2>1. nl \in {0, 1} /\ (Ends => nl = Newline) /\ (~Ends => nl = 0)
    BY <1>1
  <2>2. /\ oversized' = (oversized \/ kept + Chunk > MaxRequest)
        /\ kept' = IF oversized' THEN 0 ELSE kept + Chunk + nl
    BY DEF Take
  <2> HIDE DEF nl
  <2>3. oversized' <=> taken' > MaxRequest
    <3>1. oversized' <=> (oversized \/ kept + Chunk > MaxRequest)
      BY <1>1, <2>2, Zenon
    <3> QED
      BY <1>1, <1>3, <3>1, BoundsAssumption
  <2>4. kept' = IF oversized' THEN 0 ELSE taken' + nl
    BY <1>1, <1>3, <2>2
  <2> QED
    BY <2>1, <2>2, <2>3, <2>4
<1> HIDE DEF nl
<1>5. kept' \in Nat /\ kept' <= MaxRequest + 1
  BY <1>1, <1>3, <1>4, BoundsAssumption
<1>6. pc' = IF Ends THEN "dispatch" ELSE "read"
  OBVIOUS
<1>7. TypeOK'
  BY <1>1, <1>3, <1>4, <1>5 DEF TypeOK
<1>8. KeptBounded' /\ Reading' /\ Read' /\ InHand'
  BY <1>1, <1>2, <1>3, <1>4, <1>5, <1>6 DEF KeptBounded, Reading, Read, InHand
<1>9. OneReplyEach' /\ EffectsAsked' /\ EffectsSoFar'
  BY <1>6 DEF OneReplyEach, EffectsAsked, EffectsSoFar, Answerable
<1> QED
  BY <1>7, <1>8, <1>9

\* Each way of dispatching a frame answers it, or goes on, or runs a tool that
\* was asked for.
LEMMA DispatchHolds == IInv /\ Dispatch => IInv'
<1> SUFFICES ASSUME IInv, Dispatch PROVE IInv'
  OBVIOUS
<1>1. /\ Frame \in [kind: Kinds, length: Nat, id: Nat] /\ next \in Nat
      /\ pc = "dispatch" /\ oversized \in BOOLEAN
      /\ oversized <=> Frame.length > MaxRequest
      /\ UNCHANGED <<readOnly, input, unended, effects, out>>
  BY FrameType DEF IInv, TypeOK, Read, Dispatch
<1>2. Answerable(next) <=>
        \/ oversized \/ Frame.kind = "garbage"
        \/ Frame.id > 0 /\ Frame.kind \notin {"blank", "initialized"}
  BY <1>1 DEF Answerable, Frame
<1>3. ASSUME NEW says \in Codes, NEW n \in Nat, NEW id \in Nat,
             Answerable(next), Respond(Line(says, n, id))
      PROVE  IInv'
  <2>1. Line(says, n, id) \in Lines /\ Line(says, n, id).to = next
    BY <1>1 DEF Line, Lines
  <2> QED
    BY <1>1, <1>3, <2>1, Responds
<1>4. ASSUME ~Answerable(next), NextFrame, UNCHANGED pending
      PROVE  IInv'
  BY <1>1, <1>4, Advances
<1>5. CASE oversized /\ Respond(Line("request_too_large", ErrorSize, 0))
  BY <1>2, <1>3, <1>5, BoundsAssumption DEF Codes
<1>6. CASE ~oversized /\ Frame.kind = "blank" /\ NextFrame /\ UNCHANGED pending
  BY <1>2, <1>4, <1>6
<1>7. CASE ~oversized /\ Frame.kind = "garbage" /\ Respond(Line("parse_error", ErrorSize, 0))
  BY <1>2, <1>3, <1>7, BoundsAssumption DEF Codes
<1>8. CASE /\ ~oversized /\ Frame.kind \notin {"blank", "garbage"}
           /\ Silent /\ NextFrame /\ UNCHANGED pending
  BY <1>1, <1>2, <1>4, <1>8 DEF Silent
<1>9. CASE ~oversized /\ Frame.kind \notin {"blank", "garbage"} /\ ~Silent
  <2>1. Answerable(next) /\ Frame.id \in Nat /\ Frame.id > 0
    BY <1>1, <1>2, <1>9 DEF Silent
  <2>2. CASE Grant
    <3>1. PICK n \in ResultSizes : Respond(Line("result", n, Frame.id))
      BY <2>2 DEF Grant
    <3> QED
      BY <1>3, <2>1, <3>1, BoundsAssumption DEF Codes
  <2>3. ASSUME NEW says \in Codes, Refuse(says) PROVE IInv'
    BY <1>3, <2>1, <2>3, BoundsAssumption DEF Refuse
  <2>4. CASE Registered(Frame.kind) /\ pc' = "run" /\ Stay /\ UNCHANGED pending
    <3> USE DEF IInv, Stay
    <3>1. TypeOK'
      BY <1>1, <2>4 DEF TypeOK
    <3>2. KeptBounded' /\ Reading' /\ Read' /\ InHand'
      BY <1>1, <1>9, <2>1, <2>4
      DEF KeptBounded, Reading, Read, InHand, Frame, Newline, Registered
    <3>3. OneReplyEach' /\ EffectsAsked' /\ EffectsSoFar'
      BY <1>1, <2>4 DEF OneReplyEach, EffectsAsked, EffectsSoFar, Answerable
    <3> QED
      BY <3>1, <3>2, <3>3
  <2> QED
    BY <1>1, <1>9, <2>2, <2>3, <2>4, Zenon DEF Dispatch, Codes
<1> QED
  BY <1>1, <1>5, <1>6, <1>7, <1>8, <1>9, Zenon DEF Dispatch

\* A handler's end: the answer is taken up, and the effect there may have been is
\* of this frame, which ran for the first time.
LEMMA RunHolds == IInv /\ Run => IInv'
<1> SUFFICES ASSUME IInv, Run PROVE IInv'
  OBVIOUS
<1>1. /\ Frame \in [kind: Kinds, length: Nat, id: Nat] /\ next \in 1..Len(input)
      /\ pc = "run" /\ Registered(Frame.kind) /\ Frame.id > 0 /\ ~oversized
      /\ Frame.kind \in {"readTool", "writeTool"}
      /\ ~(Frame.length > MaxRequest) /\ Answerable(next)
      /\ UNCHANGED <<readOnly, input, unended, out>>
  BY FrameType DEF IInv, TypeOK, Read, InHand, Run, Answerable, Frame
<1>2. PICK l \in Lines : l.to = next /\ Respond(l)
  <2>1. CASE Grant
    <3>1. PICK n \in ResultSizes : Respond(Line("result", n, Frame.id))
      BY <2>1 DEF Grant
    <3>2. Line("result", n, Frame.id) \in Lines /\ Line("result", n, Frame.id).to = next
      BY <1>1, BoundsAssumption DEF Line, Lines, Codes
    <3> QED
      BY <3>1, <3>2
  <2>2. CASE Refuse("io_error")
    <3>1. /\ Line("io_error", ErrorSize, Frame.id) \in Lines
          /\ Line("io_error", ErrorSize, Frame.id).to = next
      BY <1>1, BoundsAssumption DEF Line, Lines, Codes
    <3> QED
      BY <2>2, <3>1 DEF Refuse
  <2> QED
    BY <2>1, <2>2 DEF Run
<1>3. /\ pc' = "write" /\ pending' = l
      /\ UNCHANGED <<next, taken, kept, oversized>>
  BY <1>2 DEF Respond, Stay
<1>4. \/ effects' = effects
      \/ Frame.kind = "writeTool" /\ effects' = Append(effects, next)
  BY DEF Run
<1>5. effects \in Seq(1..Len(input)) /\ Len(effects) \in Nat
  BY LenProperties DEF IInv, TypeOK
<1>6. \A j \in 1..Len(effects) : effects[j] \in 1..Len(input) /\ effects[j] < next
  BY <1>1, <1>5, ElementOfSeq DEF IInv, EffectsSoFar
<1>7. TypeOK'
  <2>1. effects' \in Seq(1..Len(input))
    <3> DEFINE I == 1..Len(input)
    <3>1. next \in I /\ effects \in Seq(I)
      BY <1>1, <1>5
    <3> HIDE DEF I
    <3>2. Append(effects, next) \in Seq(I)
      BY <3>1, AppendProperties
    <3>3. effects' \in Seq(I)
      BY <1>4, <3>1, <3>2
    <3> QED
      BY <3>3 DEF I
  <2> QED
    BY <1>1, <1>2, <1>3, <2>1 DEF IInv, TypeOK
<1>8. KeptBounded' /\ Reading' /\ Read' /\ InHand'
  BY <1>1, <1>2, <1>3
  DEF IInv, KeptBounded, Reading, Read, InHand, Frame, Newline, Answerable, Registered
<1>9. OneReplyEach'
  BY <1>1, <1>3 DEF IInv, OneReplyEach, Answerable
<1>10. EffectsAsked' /\ EffectsSoFar'
  <2>1. CASE effects' = effects
    BY <1>1, <1>3, <1>5, <1>6, <2>1 DEF IInv, EffectsAsked, EffectsSoFar
  <2>2. CASE Frame.kind = "writeTool" /\ effects' = Append(effects, next)
    <3>1. /\ Len(effects') = Len(effects) + 1 /\ effects'[Len(effects) + 1] = next
          /\ \A j \in 1..Len(effects) : effects'[j] = effects[j]
      BY <1>5, <2>2, AppendProperties
    <3>2. ~readOnly
      BY <1>1, <2>2 DEF Registered
    <3>3. \A j \in 1..Len(effects') : j \in 1..Len(effects) \/ j = Len(effects) + 1
      BY <1>5, <3>1
    <3>4. EffectsSoFar'
      BY <1>1, <1>3, <1>6, <3>1, <3>3 DEF EffectsSoFar
    <3>5. \A j \in 1..Len(effects') :
            LET f == input'[effects'[j]] IN
            f.kind = "writeTool" /\ f.id > 0 /\ f.length <= MaxRequest /\ ~readOnly'
      BY <1>1, <1>6, <2>2, <3>1, <3>2, <3>3, BoundsAssumption DEF IInv, EffectsAsked, Frame
    <3>6. \A j, k \in 1..Len(effects') : j < k => effects'[j] < effects'[k]
      <4>1. SUFFICES ASSUME NEW j \in 1..Len(effects'), NEW k \in 1..Len(effects'), j < k
                     PROVE  effects'[j] < effects'[k]
        OBVIOUS
      <4>2. j \in 1..Len(effects)
        BY <1>5, <3>1, <4>1
      <4>3. CASE k \in 1..Len(effects)
        BY <3>1, <4>1, <4>2, <4>3 DEF IInv, EffectsAsked
      <4>4. CASE k = Len(effects) + 1
        BY <1>6, <3>1, <4>2, <4>4
      <4> QED
        BY <3>3, <4>3, <4>4
    <3> QED
      BY <3>4, <3>5, <3>6 DEF EffectsAsked
  <2> QED
    BY <1>4, <2>1, <2>2
<1> QED
  BY <1>7, <1>8, <1>9, <1>10 DEF IInv

\* Writing the answer to the frame at hand, whole or replaced, keeps the answers
\* in step with the frames read.
LEMMA WriteResponseHolds == IInv /\ WriteResponse => IInv'
<1> SUFFICES ASSUME IInv, WriteResponse PROVE IInv'
  OBVIOUS
<1> DEFINE l == Capped(pending)
<1>1. /\ pc = "write" /\ next \in 1..Len(input) /\ Len(input) \in Nat /\ next \in Nat
      /\ pending \in Lines /\ pending.to = next /\ Answerable(next)
      /\ out \in Seq(Lines)
  BY DEF IInv, TypeOK, InHand, WriteResponse
<1>2. l \in Lines /\ l.to = next
  <2>1. ErrorSize + pending.id \in Nat /\ "response_too_large" \in Codes
    BY <1>1, BoundsAssumption DEF Lines, Codes
  <2>2. [pending EXCEPT !.says = "response_too_large", !.size = ErrorSize + pending.id] \in Lines
    BY <1>1, <2>1 DEF Lines
  <2>3. [pending EXCEPT !.says = "response_too_large", !.size = ErrorSize + pending.id].to = next
    BY <1>1 DEF Lines
  <2> QED
    BY <1>1, <2>2, <2>3 DEF Capped
<1>3. /\ out' = Append(out, l) /\ UNCHANGED <<readOnly, input, unended, effects>>
      /\ pc' = "read" /\ next' = next + 1 /\ taken' = 0 /\ kept' = 0 /\ oversized' = FALSE
      /\ pending' = NoLine /\ NoLine \in Lines
  BY DEF WriteResponse, NextFrame, NoLine, Lines, Codes
<1> HIDE DEF l
<1>4. next' \in 1..(Len(input) + 1)
  BY <1>1, <1>3
<1>5. TypeOK'
  <2>1. out' \in Seq(Lines)
    BY <1>1, <1>2, <1>3, AppendProperties
  <2> QED
    BY <1>3, <1>4, <2>1 DEF IInv, TypeOK
<1>6. KeptBounded' /\ Reading' /\ Read' /\ InHand'
  <2>1. next' <= Len(input') => Frame' \in [kind: Kinds, length: Nat, id: Nat]
    BY <1>1, <1>3, <1>4, FramesAssumption DEF Frame, IInv, TypeOK
  <2> QED
    BY <1>3, <2>1, BoundsAssumption DEF KeptBounded, Reading, Read, InHand
<1>7. OneReplyEach'
  <2>1. /\ Len(out) \in Nat /\ Len(out') = Len(out) + 1 /\ out'[Len(out) + 1] = l
        /\ \A j \in 1..Len(out) : out'[j] = out[j] /\ out[j].to \in Nat
    BY <1>1, <1>2, <1>3, AppendProperties, OutType DEF IInv
  <2>2. \A j \in 1..Len(out') : j \in 1..Len(out) \/ j = Len(out) + 1
    BY <2>1
  <2>3. \A j \in 1..Len(out) : out[j].to < next
    BY DEF IInv, OneReplyEach
  <2>4. \A j \in 1..Len(out') : out'[j].to < next'
    BY <1>1, <1>2, <1>3, <2>1, <2>2, <2>3
  <2>5. \A j, k \in 1..Len(out') : j < k => out'[j].to < out'[k].to
    BY <1>1, <1>2, <2>1, <2>2, <2>3 DEF IInv, OneReplyEach
  <2>6. ASSUME NEW i \in 1..(next' - 1)
        PROVE  Answerable(i)' <=> \E j \in 1..Len(out') : out'[j].to = i
    <3>1. Answerable(i)' <=> Answerable(i)
      BY <1>3 DEF Answerable
    <3>2. CASE i = next
      <4>1. Len(out) + 1 \in 1..Len(out') /\ out'[Len(out) + 1].to = i
        BY <1>2, <2>1, <3>2
      <4> QED
        BY <1>1, <3>1, <3>2, <4>1
    <3>3. CASE i # next
      <4>1. i \in 1..(next - 1)
        BY <1>1, <1>3, <3>3
      <4>2. Answerable(i) <=> \E j \in 1..Len(out) : out[j].to = i
        BY <4>1 DEF IInv, OneReplyEach
      <4>3. (\E j \in 1..Len(out) : out[j].to = i)
              <=> \E j \in 1..Len(out') : out'[j].to = i
        BY <1>2, <2>1, <2>2, <3>3
      <4> QED
        BY <3>1, <4>2, <4>3
    <3> QED
      BY <3>2, <3>3
  <2> QED
    BY <2>4, <2>5, <2>6 DEF OneReplyEach
<1>8. EffectsAsked' /\ EffectsSoFar'
  <2>1. \A j \in 1..Len(effects) : effects[j] \in Nat /\ effects[j] <= next
    BY <1>1, ElementOfSeq DEF IInv, TypeOK, EffectsSoFar
  <2> QED
    BY <1>1, <1>3, <2>1 DEF IInv, EffectsAsked, EffectsSoFar
<1> QED
  BY <1>5, <1>6, <1>7, <1>8 DEF IInv

\* The ends of the session and what stands still keep it.
LEMMA EndHolds == IInv /\ (EndOfInput \/ FlushFails \/ UNCHANGED vars) => IInv'
<1> SUFFICES ASSUME IInv, EndOfInput \/ FlushFails \/ UNCHANGED vars PROVE IInv'
  OBVIOUS
<1>1. /\ UNCHANGED <<readOnly, input, unended, next, taken, kept, oversized, effects, pending, out>>
      /\ pc' = "stopped" \/ pc' = pc
  BY DEF EndOfInput, FlushFails, vars
<1>2. TypeOK'
  BY <1>1 DEF IInv, TypeOK
<1>3. KeptBounded' /\ Reading' /\ Read' /\ InHand'
  BY <1>1 DEF IInv, KeptBounded, Reading, Read, InHand, Frame, Newline, Answerable, Registered
<1>4. OneReplyEach' /\ EffectsAsked' /\ EffectsSoFar'
  BY <1>1 DEF IInv, OneReplyEach, EffectsAsked, EffectsSoFar, Answerable
<1> QED
  BY <1>2, <1>3, <1>4 DEF IInv

\* Every reachable state satisfies the inductive invariant.
THEOREM SessionInvariance == Spec => []IInv
<1>1. IInv /\ [Next]_vars => IInv'
  BY ReadChunkHolds, DispatchHolds, RunHolds, WriteResponseHolds, EndHolds
  DEF Next, Step, Stopped
<1> QED
  BY InitHolds, <1>1, PTL DEF Spec

\* The session's variables keep their types, whatever the frames and the limits.
THEOREM SessionTypeCorrect == Spec => []TypeOK
<1>1. IInv => TypeOK
  BY DEF IInv
<1> QED
  BY SessionInvariance, <1>1, PTL

\* For every buffer size, limit and frame length: a frame is refused exactly when
\* it is over the limit, is handed on whole otherwise, and is taken off the
\* stream to its end either way.
THEOREM FramingExact == Spec => []FrameExact
<1>1. IInv => FrameExact
  BY DEF IInv, Read, FrameExact
<1> QED
  BY SessionInvariance, <1>1, PTL

\* For every frame, readFrame keeps at most the limit and a newline.
THEOREM MemoryBounded == Spec => []KeptBounded
<1>1. IInv => KeptBounded
  BY DEF IInv
<1> QED
  BY SessionInvariance, <1>1, PTL

\* For every input: the lines written are, in order, the answers of exactly the
\* frames read that are due one.
THEOREM RepliesMatchRequests == Spec => []OneReplyEach
<1>1. IInv => OneReplyEach
  BY DEF IInv
<1> QED
  BY SessionInvariance, <1>1, PTL

\* For every input: no notification, oversized frame or unregistered tool has an
\* effect, and no call has its effect twice.
THEOREM OnlyAskedTakesEffect == Spec => []EffectsAsked
<1>1. IInv => EffectsAsked
  BY DEF IInv
<1> QED
  BY SessionInvariance, <1>1, PTL
=============================================================================
