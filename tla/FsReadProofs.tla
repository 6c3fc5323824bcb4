---------------------------- MODULE FsReadProofs ----------------------------
(***************************************************************************)
(* What fs_read and fs_stat guarantee for files of every length, every     *)
(* range and every response limit: pages that add up to the file, hashes   *)
(* of whole files, and replies within the budget but for JSON's escapes.   *)
(* The invariant that carries it: on a file nobody changes, the size of    *)
(* the first look is still the file's when the bytes are read.             *)
(***************************************************************************)
EXTENDS FsRead, FiniteSetTheorems, TLAPS

SizeKnown ==
  ~shared /\ pc \in {"read", "hash"} => current \in Versions /\ size = current.length

ReadInv ==
  /\ TypeOK /\ SizeKnown
  /\ CutShortNeverWhole /\ AloneHashIsWhole /\ PagesAddUp

LEMMA VersionType == \A v \in Versions : v.length \in Nat /\ v.bytes \in {"text", "binary"}
BY VersionsAssumption

LEMMA LimitType == MaxReadLength \in Nat
BY LimitsAssumption DEF MaxReadLength

LEMMA NoReplyType == NoReply \in Replies /\ ~NoReply.hashed /\ NoReply.kind = "none"
BY DEF NoReply, NoBytes, Bytes, Replies

LEMMA RefusalType ==
  ASSUME NEW code \in {"invalid_argument", "too_large", "not_found", "not_a_file",
                       "io_error", "over_budget"}
  PROVE  /\ Refusal(code) \in Replies /\ ~Refusal(code).hashed
         /\ Refusal(code).kind = code /\ Refusal(code).page = NoBytes
BY DEF Refusal, NoReply, NoBytes, Bytes, Replies

LEMMA BackstopCases == \A r : Backstop(r) = r \/ Backstop(r) = Refusal("over_budget")
BY DEF Backstop

\* A refusal that is sent, as it is or as one of a line over the cap.
Refused(r) == r \in Replies /\ ~r.hashed /\ r.kind # "page"

LEMMA SentRefusal ==
  ASSUME NEW code \in {"invalid_argument", "too_large", "not_found", "not_a_file",
                       "io_error"}
  PROVE  Refused(Backstop(Refusal(code)))
BY RefusalType, BackstopCases DEF Refused

LEMMA ReadInit == Init => ReadInv
BY SharingAssumption, NoReplyType, LimitType
   DEF Init, ReadInv, TypeOK, SizeKnown, CutShortNeverWhole, AloneHashIsWhole, PagesAddUp

\* While no reply stands, what is said of replies says nothing.
LEMMA NothingSaid ==
  ASSUME reply'.kind # "page", ~reply'.hashed
  PROVE  CutShortNeverWhole' /\ AloneHashIsWhole' /\ PagesAddUp'
BY DEF CutShortNeverWhole, AloneHashIsWhole, PagesAddUp

LEMMA CallReadStep ==
  ASSUME ReadInv, NEW o \in Int, NEW w \in Wants \cup {Default}, CallRead(o, w)
  PROVE  ReadInv'
<1>1. CASE \/ Finish(Refusal("invalid_argument")) /\ UNCHANGED <<offset, want>>
           \/ Finish(Refusal("too_large")) /\ UNCHANGED <<offset, want>>
  <2>1. Refused(reply') /\ pc' = "idle" /\ UNCHANGED <<offset, want>>
    BY <1>1, SentRefusal DEF Finish
  <2> QED
    BY <2>1, NothingSaid DEF Refused, CallRead, ReadInv, TypeOK, SizeKnown
<1>2. CASE /\ o >= 0 /\ (w = Default \/ w \in 0..MaxReadLength)
           /\ pc' = "stat" /\ reply' = NoReply /\ offset' = o
           /\ want' = IF w = Default THEN MaxReadLength ELSE w
  <2>1. want' \in 0..MaxReadLength /\ offset' \in Nat
    BY <1>2, LimitType
  <2> QED
    BY <1>2, <2>1, NoReplyType, NothingSaid DEF CallRead, ReadInv, TypeOK, SizeKnown
<1> QED
  BY <1>1, <1>2 DEF CallRead

LEMMA StatStep == ASSUME ReadInv, Stat PROVE ReadInv'
<1>1. CASE (Finish(NotAFile) \/ Fails) /\ UNCHANGED size
  <2>1. Refused(reply') /\ pc' = "idle"
    BY <1>1, SentRefusal DEF Finish, NotAFile, Fails
  <2> QED
    BY <1>1, <2>1, NothingSaid DEF Refused, Stat, ReadInv, TypeOK, SizeKnown
<1>2. CASE current \in Versions /\ size' = current.length /\ pc' = "read" /\ UNCHANGED reply
  BY <1>2, VersionType DEF Stat, ReadInv, TypeOK, SizeKnown, CutShortNeverWhole,
     AloneHashIsWhole, PagesAddUp
<1> QED
  BY <1>1, <1>2 DEF Stat

\* The page read has a type, is of the file there is, and is no longer than what the
\* size of the first look leaves of the range.
LEMMA PageType ==
  ASSUME TypeOK, current \in Versions
  PROVE  /\ ReadLen \in Nat /\ ReadLen <= want
         /\ ReadLen = 0 \/ offset + ReadLen <= size
         /\ Page \in [of: Versions \cup {Absent}, from: Nat, length: Nat]
         /\ Page.length <= ReadLen
         /\ Page = NoBytes \/ Page = Bytes(current, offset, Page.length)
         /\ offset + ReadLen <= current.length => Page.length = ReadLen
         /\ Page.length = 0 => Page = NoBytes
         /\ Page.length > 0 => Page.of = current /\ Page.length <= current.length
<1>1. current.length \in Nat /\ size \in Nat /\ offset \in Nat /\ want \in Nat
  BY VersionType, LimitType DEF TypeOK
<1>2. ReadLen \in Nat /\ ReadLen <= want /\ (ReadLen = 0 \/ offset + ReadLen <= size)
  BY <1>1 DEF ReadLen, Smaller
<1> DEFINE there == IF current.length > offset THEN current.length - offset ELSE 0
           n == Smaller(ReadLen, there)
<1>3. n \in Nat /\ n <= ReadLen /\ n <= current.length
      /\ (offset + ReadLen <= current.length => n = ReadLen)
  BY <1>1, <1>2 DEF Smaller
<1>4. Page = IF n = 0 THEN NoBytes ELSE Bytes(current, offset, n)
  BY DEF Page
<1> HIDE DEF n
<1> QED
  BY <1>1, <1>2, <1>3, <1>4 DEF NoBytes, Bytes

\* What a reply with a page says, for a page that is a range of the file.
LEMMA ResultStep ==
  ASSUME TypeOK, SizeKnown, pc = "read",
         NEW page \in [of: Versions \cup {Absent}, from: Nat, length: Nat],
         reply' = ReadResult(page), pc' = "idle",
         UNCHANGED <<shared, current, offset, want, size>>, position' \in Nat,
         page.length = 0 \/ offset + page.length <= size,
         page.length > 0 => page.of \in Versions /\ page.length <= page.of.length,
         ~shared => IF ReadLen = 0 THEN page = NoBytes
                    ELSE page = Bytes(current, offset, ReadLen)
  PROVE  ReadInv'
<1>1. /\ reply'.kind = "page" /\ reply'.size = size /\ reply'.page = page
      /\ reply'.eof <=> offset + page.length >= size
      /\ reply'.hash = page
      /\ reply'.hashed <=> offset = 0 /\ offset + page.length >= size
  BY DEF ReadResult
<1>2. size \in Nat /\ offset \in Nat /\ want \in Nat /\ page.length \in Nat
  BY LimitType DEF TypeOK
<1>3. reply' \in Replies
  BY <1>2 DEF ReadResult, Replies, TypeOK
<1>4. TypeOK'
  BY <1>3 DEF TypeOK
<1>5. SizeKnown'
  BY DEF SizeKnown
<1>6. CutShortNeverWhole'
  <2> SUFFICES ASSUME reply'.hashed, size > 0
               PROVE  page.of \in Versions /\ page.of.length >= size
    BY <1>1 DEF CutShortNeverWhole
  <2>1. offset = 0 /\ page.length >= size
    BY <1>1, <1>2
  <2> QED
    BY <1>2, <2>1, VersionType
<1>7. ASSUME ~shared PROVE AloneHashIsWhole' /\ PagesAddUp'
  <2>1. current \in Versions /\ size = current.length
    BY <1>7 DEF SizeKnown
  <2>2. ReadLen = Smaller(want, IF size > offset THEN size - offset ELSE 0)
    BY DEF ReadLen
  <2>3. page.length = ReadLen
    BY <1>7 DEF NoBytes, Bytes
  <2>4. AloneHashIsWhole'
    <3> SUFFICES ASSUME reply'.hashed PROVE page = Whole(current)
      BY <1>1 DEF AloneHashIsWhole
    <3>1. offset = 0 /\ page.length >= size
      BY <1>1, <1>2
    <3>2. ReadLen <= size
      BY <1>2, <2>2, <3>1 DEF Smaller
    <3> QED
      BY <1>2, <1>7, <2>1, <2>3, <3>1, <3>2 DEF Whole
  <2>5. reply'.eof <=> offset + page.length >= current.length
    BY <1>1, <2>1
  <2>6. offset < current.length /\ want > 0 =>
          page = Bytes(current, offset, Smaller(want, current.length - offset))
    BY <1>2, <1>7, <2>1, <2>2 DEF Smaller
  <2> QED
    BY <2>4, <2>5, <2>6, <1>1 DEF PagesAddUp
<1>8. ASSUME shared PROVE AloneHashIsWhole' /\ PagesAddUp'
  BY <1>8 DEF AloneHashIsWhole, PagesAddUp
<1> QED
  BY <1>4, <1>5, <1>6, <1>7, <1>8 DEF ReadInv, TypeOK

LEMMA ReadRangeStep == ASSUME ReadInv, ReadRange PROVE ReadInv'
<1>1. pc = "read" /\ pc' = "idle" /\ UNCHANGED <<shared, current, offset, want, size>>
  BY DEF ReadRange, Finish, Fails
<1>2. offset \in Nat /\ size \in Nat /\ TypeOK /\ SizeKnown
  BY DEF ReadInv, TypeOK
<1>3. CASE ReadLen = 0 /\ reply' = ReadResult(NoBytes)
  <2>1. NoBytes \in [of: Versions \cup {Absent}, from: Nat, length: Nat] /\ NoBytes.length = 0
    BY DEF NoBytes, Bytes
  <2>2. position' \in Nat
    BY <1>2, <1>3, <2>1 DEF ReadRange, ReadResult
  <2> QED
    BY <1>1, <1>2, <1>3, <2>1, <2>2, ResultStep
<1>4. CASE ReadLen > 0 /\ current \in Versions /\ reply' = ReadResult(Page)
  <2>1. position' \in Nat
    BY <1>2, <1>4, PageType DEF ReadRange, ReadResult
  <2>2. Page.length = 0 \/ offset + Page.length <= size
    BY <1>2, <1>4, PageType
  <2>3. ~shared => Page = Bytes(current, offset, ReadLen)
    <3> SUFFICES ASSUME ~shared PROVE Page = Bytes(current, offset, ReadLen)
      OBVIOUS
    <3>1. size = current.length
      BY <1>1, <1>2 DEF SizeKnown
    <3>2. Page.length = ReadLen
      BY <1>2, <1>4, <3>1, PageType
    <3> QED
      BY <1>2, <1>4, <3>2, PageType DEF NoBytes, Bytes
  <2>4. /\ Page \in [of: Versions \cup {Absent}, from: Nat, length: Nat]
        /\ Page.length > 0 => Page.of \in Versions /\ Page.length <= Page.of.length
    BY <1>2, <1>4, PageType
  <2> QED
    BY <1>1, <1>2, <1>4, <2>1, <2>2, <2>3, <2>4, ResultStep
<1>5. CASE Refused(reply')
  <2>1. position' = 0
    BY <1>5 DEF Refused, ReadRange
  <2> QED
    BY <1>1, <1>5, <2>1, NothingSaid DEF Refused, ReadInv, TypeOK, SizeKnown
<1>6. \/ ReadLen = 0 /\ Finish(ReadResult(NoBytes))
      \/ ReadLen > 0 /\ current \in Versions /\ Finish(ReadResult(Page))
      \/ Finish(Refusal("not_found")) \/ Finish(Refusal("io_error"))
  BY DEF ReadRange, Fails
<1>7. Refused(Refusal("over_budget"))
  BY RefusalType DEF Refused
<1> QED
  BY <1>3, <1>4, <1>5, <1>6, <1>7, SentRefusal, BackstopCases DEF Finish

LEMMA CallStatStep == ASSUME ReadInv, CallStat PROVE ReadInv'
BY NoReplyType, NothingSaid DEF CallStat, ReadInv, TypeOK, SizeKnown

LEMMA LstatStep == ASSUME ReadInv, Lstat PROVE ReadInv'
<1>1. CASE current \in Versions /\ size' = current.length /\ pc' = "hash" /\ UNCHANGED reply
  BY <1>1, VersionType DEF Lstat, ReadInv, TypeOK, SizeKnown, CutShortNeverWhole,
     AloneHashIsWhole, PagesAddUp
<1>2. CASE (Finish(Refusal("not_found")) \/ Fails) /\ UNCHANGED size
  <2>1. Refused(reply') /\ pc' = "idle"
    BY <1>2, SentRefusal DEF Finish, Fails
  <2> QED
    BY <1>2, <2>1, NothingSaid DEF Refused, Lstat, ReadInv, TypeOK, SizeKnown
<1>3. CASE Finish([NoReply EXCEPT !.kind = "stat"]) /\ UNCHANGED size
  <2>1. Refused([NoReply EXCEPT !.kind = "stat"]) /\ Refused(Refusal("over_budget"))
    BY RefusalType DEF Refused, NoReply, NoBytes, Bytes, Replies
  <2>2. Refused(reply') /\ pc' = "idle"
    BY <1>3, <2>1, BackstopCases DEF Finish
  <2> QED
    BY <1>3, <2>2, NothingSaid DEF Refused, Lstat, ReadInv, TypeOK, SizeKnown
<1> QED
  BY <1>1, <1>2, <1>3 DEF Lstat

LEMMA HashFileStep == ASSUME ReadInv, HashFile PROVE ReadInv'
<1> DEFINE answer == [NoReply EXCEPT !.kind = "stat", !.size = size,
                                     !.hash = Whole(current), !.hashed = TRUE]
<1>1. CASE current \in Versions /\ reply' = answer
  <2>1. Whole(current) \in [of: Versions \cup {Absent}, from: Nat, length: Nat]
    BY <1>1, VersionType DEF Whole, NoBytes, Bytes
  <2>2. reply' \in Replies /\ reply'.kind = "stat" /\ reply'.hash = Whole(current)
    BY <1>1, <2>1 DEF NoReply, NoBytes, Bytes, Replies, ReadInv, TypeOK
  <2>3. pc' = "idle"
    BY DEF HashFile, Finish, Fails
  <2> QED
    BY <1>1, <2>2, <2>3 DEF HashFile, ReadInv, TypeOK, SizeKnown, CutShortNeverWhole,
       AloneHashIsWhole, PagesAddUp
<1>2. CASE Refused(reply')
  <2>1. pc' = "idle"
    BY DEF HashFile, Finish, Fails
  <2> QED
    BY <1>2, <2>1, NothingSaid DEF Refused, HashFile, ReadInv, TypeOK, SizeKnown
<1>3. \/ current \in Versions /\ Finish(answer)
      \/ Finish(Refusal("not_found")) \/ Finish(Refusal("io_error"))
  BY DEF HashFile, Fails
<1>4. Refused(Refusal("over_budget"))
  BY RefusalType DEF Refused
<1> HIDE DEF answer
<1> QED
  BY <1>1, <1>2, <1>3, <1>4, SentRefusal, BackstopCases DEF Finish

LEMMA ReplaceStep == ASSUME ReadInv, Replace PROVE ReadInv'
BY DEF Replace, ReadInv, TypeOK, SizeKnown, CutShortNeverWhole, AloneHashIsWhole, PagesAddUp

LEMMA ReadStep == ReadInv /\ [Next]_vars => ReadInv'
<1> SUFFICES ASSUME ReadInv, [Next]_vars PROVE ReadInv'
  OBVIOUS
<1>1. CASE UNCHANGED vars
  BY <1>1 DEF vars, ReadInv, TypeOK, SizeKnown, CutShortNeverWhole, AloneHashIsWhole, PagesAddUp
<1>2. ASSUME NEW o \in Offsets \cup {position}, NEW w \in Wants \cup {Default}, CallRead(o, w)
      PROVE  ReadInv'
  <2>1. o \in Int
    BY LimitsAssumption DEF ReadInv, TypeOK
  <2> QED
    BY <1>2, <2>1, CallReadStep
<1> QED
  BY <1>1, <1>2, CallStatStep, StatStep, ReadRangeStep, LstatStep, HashFileStep, ReplaceStep
     DEF Next, Handler

\* The inductive invariant holds.
THEOREM ReadInvariance == Spec => []ReadInv
<1> QED
  BY ReadInit, ReadStep, PTL DEF Spec

\* The variables of FsRead keep their types, and no length in force is greater than
\* maxReadLength.
THEOREM ReadTypeCorrect == Spec => []TypeOK
<1>1. ReadInv => TypeOK
  BY DEF ReadInv
<1> QED
  BY <1>1, ReadInvariance, PTL

\* readRange: pages are of the bytes asked for and eof is the end, so that reading on
\* until eof reads every byte of a file nobody changes once.
THEOREM ReadsAddUp == Spec => []PagesAddUp
<1>1. ReadInv => PagesAddUp
  BY DEF ReadInv
<1> QED
  BY <1>1, ReadInvariance, PTL

\* The sha256 of fs_read and fs_stat is of all of a file nobody changes.
THEOREM HashIsWhole == Spec => []AloneHashIsWhole
<1>1. ReadInv => AloneHashIsWhole
  BY DEF ReadInv
<1> QED
  BY <1>1, ReadInvariance, PTL

\* readRange: when the file is cut short between Stat and ReadAt, whoever does it and
\* whenever, no whole-file sha256 is reported for what is left.
THEOREM ShortenedIsNotWhole == Spec => []CutShortNeverWhole
<1>1. ReadInv => CutShortNeverWhole
  BY DEF ReadInv
<1> QED
  BY <1>1, ReadInvariance, PTL
-----------------------------------------------------------------------------
(* The budget: what maxReadLength's comment says of base64, and what it     *)
(* forgets.                                                                 *)

\* base64 of a page of the greatest length, its padding included, fits what the
\* reserve leaves; as it is, such a page leaves a quarter of it.
LEMMA Base64Fits ==
  ASSUME NEW room \in Nat, NEW length \in Nat, length <= (room * 3) \div 4
  PROVE  4 * ((length + 2) \div 3) <= room + 2 /\ 4 * length <= 3 * room
<1>1. 4 * ((room * 3) \div 4) <= room * 3
  OBVIOUS
<1>2. 4 * length <= room * 3
  BY <1>1
<1>3. 3 * ((length + 2) \div 3) <= length + 2
  OBVIOUS
<1>4. (length + 2) \div 3 \in Nat
  OBVIOUS
<1> QED
  BY <1>2, <1>3, <1>4

\* A reply without a page exceeds only a cap that is smaller than any reply.
LEMMA NothingFits ==
  ASSUME NEW r, r.page = NoBytes, r.kind # "over_budget",
         Backstop(r).kind = "over_budget"
  PROVE  MaxResponse < Envelope
BY LimitsAssumption DEF Backstop, Carried

LEMMA EscapesType ==
  ASSUME NEW v \in Versions, NEW from \in Nat, NEW length \in Nat
  PROVE  Escapes(Bytes(v, from, length)) \in Nat
<1> DEFINE escaped == {i \in v.escapes : from <= i /\ i < from + length}
<1>1. escaped \subseteq from .. (from + length)
  BY VersionsAssumption
<1>2. IsFiniteSet(from .. (from + length))
  BY FS_Interval
<1>3. Cardinality(escaped) \in Nat
  BY <1>1, <1>2, FS_Subset, FS_CardinalityType
<1>4. Escapes(Bytes(v, from, length)) = (Escaped - 1) * Cardinality(escaped)
  BY DEF Escapes, Bytes
<1>5. Escaped - 1 \in Nat
  BY LimitsAssumption
<1> HIDE DEF escaped
<1> QED
  BY <1>3, <1>4, <1>5

\* A page that exceeds the cap is of text, with the escapes to show for it.
LEMMA PageFits ==
  ASSUME TypeOK, current \in Versions, ReadLen > 0, Page # NoBytes,
         Envelope + Carried(Page) > MaxResponse
  PROVE  current.bytes = "text" /\ 4 * Escapes(Page) > MaxResponse - Reserve
<1> DEFINE n == Page.length
           room == MaxResponse - Reserve
           more == Escapes(Page)
<1>1. n \in Nat /\ n <= MaxReadLength /\ MaxReadLength > 0
  BY PageType, LimitType DEF TypeOK
<1>2. Page = Bytes(current, offset, n) /\ Page.of = current
  BY PageType DEF Bytes
<1>3. room \in Nat /\ MaxReadLength = (room * 3) \div 4
  BY <1>1, LimitsAssumption DEF MaxReadLength
<1>4. 4 * ((n + 2) \div 3) <= room + 2 /\ 4 * n <= 3 * room
  BY <1>1, <1>3, Base64Fits
<1>5. more \in Nat
  BY <1>1, <1>2, EscapesType DEF TypeOK
<1>6. Carried(Page) = IF current.bytes = "binary" THEN 4 * ((n + 2) \div 3) ELSE n + more
  BY <1>2 DEF Carried
<1>7. Envelope \in Nat /\ Reserve \in Nat /\ MaxResponse \in Nat /\ Envelope + 2 <= Reserve
  BY LimitsAssumption
<1>8. current.bytes # "binary"
  <2> SUFFICES ASSUME current.bytes = "binary" PROVE FALSE
    OBVIOUS
  <2>1. Carried(Page) = 4 * ((n + 2) \div 3) /\ (n + 2) \div 3 \in Nat
    BY <1>1, <1>6
  <2> QED
    BY <1>3, <1>4, <1>7, <2>1
<1> HIDE DEF more, n
<1>9. 4 * more > room
  BY <1>1, <1>3, <1>4, <1>5, <1>6, <1>7, <1>8
<1> QED
  BY <1>8, <1>9, VersionType DEF more

\* What a step that sends a refusal for the cap has found.
LEMMA BudgetStep ==
  ASSUME ReadInv, Next, reply' # reply, reply'.kind = "over_budget"
  PROVE  \/ MaxResponse < Envelope
         \/ /\ pc = "read" /\ current \in Versions /\ current.bytes = "text"
            /\ 4 * Escapes(Page) > MaxResponse - Reserve
<1> DEFINE Empty(r) == r.page = NoBytes /\ r.kind # "over_budget"
<1>1. \A code \in {"invalid_argument", "too_large", "not_found", "not_a_file", "io_error"} :
        Empty(Refusal(code))
  BY RefusalType
<1>2. Empty([NoReply EXCEPT !.kind = "stat"])
      /\ Empty([NoReply EXCEPT !.kind = "stat", !.size = size,
                               !.hash = Whole(current), !.hashed = TRUE])
  BY DEF NoReply
<1>3. ASSUME NEW r, Empty(r), Finish(r) PROVE MaxResponse < Envelope
  BY <1>3, NothingFits DEF Finish
<1>4. Empty(NotAFile)
  BY <1>1 DEF NotAFile
<1> HIDE DEF Empty
<1>5. ASSUME NEW o, NEW w, CallRead(o, w) PROVE MaxResponse < Envelope
  BY <1>1, <1>3, <1>5, NoReplyType DEF CallRead
<1>6. CASE Stat \/ Lstat \/ HashFile
  BY <1>1, <1>2, <1>3, <1>4, <1>6 DEF Stat, Lstat, HashFile, Fails
<1>7. CASE ReadRange
  <2>1. \A page : ReadResult(page).page = page /\ ReadResult(page).kind # "over_budget"
    BY DEF ReadResult
  <2>2. CASE Finish(ReadResult(NoBytes))
    BY <2>1, <2>2, <1>3 DEF Empty
  <2>3. CASE ReadLen > 0 /\ current \in Versions /\ Finish(ReadResult(Page))
    <3>1. CASE Page = NoBytes
      BY <2>2, <2>3, <3>1
    <3>2. CASE Page # NoBytes
      <4>1. Envelope + Carried(Page) > MaxResponse
        BY <2>1, <2>3 DEF Finish, Backstop
      <4> QED
        BY <1>7, <2>3, <3>2, <4>1, PageFits DEF ReadInv, ReadRange
    <3> QED
      BY <3>1, <3>2
  <2> QED
    BY <1>1, <1>3, <1>7, <2>2, <2>3 DEF ReadRange, Fails
<1>8. CASE CallStat \/ Replace
  BY <1>8, NoReplyType DEF CallStat, Replace
<1> QED
  BY <1>5, <1>6, <1>7, <1>8 DEF Next, Handler

\* maxReadLength, for every content, range and limit: binary never meets the backstop,
\* nor does text of which JSON's escapes take at most a quarter of the budget, unless
\* the cap is smaller than any reply.  The run read_escaped shows text that does.
THEOREM ReadsInBudget == Spec => OverBudgetOnlyByEscapes
<1> DEFINE Fitting ==
      reply' # reply /\ reply'.kind = "over_budget" =>
        \/ MaxResponse < Envelope
        \/ /\ pc = "read" /\ current \in Versions /\ current.bytes = "text"
           /\ 4 * Escapes(Page) > MaxResponse - Reserve
<1>1. ReadInv /\ [Next]_vars => [Fitting]_vars
  BY BudgetStep
<1> QED
  BY <1>1, ReadInvariance, PTL DEF Spec, OverBudgetOnlyByEscapes
=============================================================================
