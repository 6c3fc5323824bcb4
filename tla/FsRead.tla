------------------------------- MODULE FsRead -------------------------------
(***************************************************************************)
(* fs_read (read.go) and fs_stat (stat.go) of one path, while the file may *)
(* be replaced.  Both look at the path twice: fs_read stats it for a size  *)
(* and then opens it for the bytes; fs_stat lstats it for size and mode    *)
(* and then opens it for the hash.                                         *)
(*                                                                         *)
(* A version is one whole content the path has had: its length, and what   *)
(* its bytes are on the wire.  Bytes are named by the version and the      *)
(* positions they come from, and a SHA-256 by the bytes it covers.  The    *)
(* client is the one the tool descriptions speak of: it reads a file in    *)
(* ranges, each from where the last one ended, until eof.                  *)
(***************************************************************************)
EXTENDS Integers, FiniteSets

CONSTANTS
  Versions,    \* the contents the path can have
  Absent,      \* the path names nothing
  Special,     \* the path names a directory or other non-regular file
  MaxResponse, \* --max-response-bytes
  Reserve,     \* readEnvelopeReserve
  Envelope,    \* what the reply's other fields take of one response line
  Escaped,     \* what a byte that JSON escapes takes of it
  Offsets,     \* the offsets clients ask for, besides where they left off
  Wants,       \* the lengths clients ask for, besides leaving length out
  Default,     \* length left out
  Sharing,     \* whether the file is shared: FALSE, TRUE or either
  IOFaults     \* whether a call may fail for a reason of its own

\* text: UTF-8 wherever it is cut, with the positions of the bytes that JSON
\* escapes; binary: not UTF-8 in any part.
ASSUME VersionsAssumption ==
  \A v \in Versions :
    /\ v \in [length: Nat, bytes: {"text", "binary"}, escapes: SUBSET Nat]
    /\ v.escapes \subseteq 0 .. (v.length - 1)
ASSUME NoVersionAssumption == Absent # Special /\ {Absent, Special} \cap Versions = {}
ASSUME LimitsAssumption ==
  /\ MaxResponse \in Nat \ {0} /\ Reserve \in Nat /\ Envelope \in Nat
  /\ Envelope + 2 <= Reserve /\ Escaped \in Nat \ {0}
  /\ Wants \subseteq Int /\ Offsets \subseteq Int /\ Default \notin Int
ASSUME SharingAssumption == Sharing \subseteq BOOLEAN
ASSUME IOFaultsAssumption == IOFaults \in BOOLEAN

VARIABLES
  shared,    \* whether others replace or remove the file meanwhile
  current,   \* the version the path names, or Absent, or Special
  pc,        \* the system call the handler makes next
  offset, want,
  size,      \* fi.Size() of the first look
  reply,     \* the result sent last
  position   \* the client: how far its reading of the file has come

vars == <<shared, current, pc, offset, want, size, reply, position>>

Smaller(a, b) == IF a < b THEN a ELSE b

\* The bytes of version of from position from on.
Bytes(of, from, length) == [of |-> of, from |-> from, length |-> length]
NoBytes == Bytes(Absent, 0, 0)

Whole(v) == IF v.length = 0 THEN NoBytes ELSE Bytes(v, 0, v.length)

NoReply == [kind |-> "none", size |-> 0, page |-> NoBytes, eof |-> FALSE,
            hash |-> NoBytes, hashed |-> FALSE]
Refusal(code) == [NoReply EXCEPT !.kind = code]

Init ==
  /\ shared \in Sharing
  /\ current \in Versions \cup {Absent, Special}
  /\ pc = "idle"
  /\ offset = 0 /\ want = 0 /\ size = 0 /\ position = 0
  /\ reply = NoReply

\* What JSON's escapes add to a page of text.
Escapes(page) ==
  (Escaped - 1) *
    Cardinality({i \in page.of.escapes : page.from <= i /\ i < page.from + page.length})

\* The page's encoding, and what it takes on the response line: UTF-8 goes as it
\* is, but for what JSON escapes, once in the result and once more when the
\* result becomes a string of the response (a newline is then three bytes, a quote
\* four, a < seven); anything else goes as base64.
Carried(page) ==
  CASE page = NoBytes -> 0
    [] page # NoBytes /\ page.of.bytes = "binary" -> 4 * ((page.length + 2) \div 3)
    [] OTHER -> page.length + Escapes(page)

\* writeResponse's backstop replaces a response over the cap, whatever it says, by
\* an error.
Backstop(r) == IF Envelope + Carried(r.page) > MaxResponse THEN Refusal("over_budget") ELSE r

Finish(r) == pc' = "idle" /\ reply' = Backstop(r)

\* A call fails for a reason that is not the file's: an I/O error, or permission.
Fails == IOFaults /\ Finish(Refusal("io_error"))

\* What looking at or opening the path says when it is not a regular file.
NotAFile == IF current = Absent THEN Refusal("not_found") ELSE Refusal("not_a_file")
-----------------------------------------------------------------------------
(* fs_read *)

\* Variant: base64's expansion is forgotten.
MaxReadLengthRaw == IF MaxResponse > Reserve THEN MaxResponse - Reserve ELSE 0

\* The bytes that fit one response at base64's 4/3.
MaxReadLength ==
  IF MaxResponse > Reserve THEN ((MaxResponse - Reserve) * 3) \div 4 ELSE 0

\* Variant: the length is taken as it is.
CallReadUnchecked(o, w) ==
  /\ pc = "idle"
  /\ pc' = "stat" /\ reply' = NoReply
  /\ offset' = o
  /\ want' = IF w = Default THEN MaxReadLength ELSE w
  /\ UNCHANGED <<shared, current, size, position>>

\* A range no file has, or a length that no response can carry, is refused before the
\* file is looked at.
CallRead(o, w) ==
  /\ pc = "idle"
  /\ \/ (o < 0 \/ (w # Default /\ w < 0))
        /\ Finish(Refusal("invalid_argument")) /\ UNCHANGED <<offset, want>>
     \/ o >= 0 /\ w # Default /\ w > MaxReadLength
        /\ Finish(Refusal("too_large")) /\ UNCHANGED <<offset, want>>
     \/ /\ o >= 0 /\ (w = Default \/ w \in 0..MaxReadLength)
        /\ pc' = "stat" /\ reply' = NoReply
        /\ offset' = o
        /\ want' = IF w = Default THEN MaxReadLength ELSE w
  /\ UNCHANGED <<shared, current, size, position>>

Stat ==
  /\ pc = "stat"
  /\ \/ current \in Versions /\ size' = current.length /\ pc' = "read" /\ UNCHANGED reply
     \/ current \notin Versions /\ Finish(NotAFile) /\ UNCHANGED size
     \/ Fails /\ UNCHANGED size
  /\ UNCHANGED <<shared, current, offset, want, position>>

\* readRange's readLen: the range asked for, within the size reported by Stat.
ReadLen == Smaller(want, IF size > offset THEN size - offset ELSE 0)

\* What ReadAt finds of it in the version now at the path.
Page ==
  LET there == IF current.length > offset THEN current.length - offset ELSE 0
      n == Smaller(ReadLen, there)
  IN  IF n = 0 THEN NoBytes ELSE Bytes(current, offset, n)

\* Variant: eof only once a read goes past the end.
ReadResultPast(page) ==
  LET end == offset + page.length  eof == end > size IN
  [kind |-> "page", size |-> size, page |-> page, eof |-> eof,
   hash |-> page, hashed |-> offset = 0 /\ eof]

\* Variant: the page's hash stands for the file's whenever the page ends it.
ReadResultTail(page) ==
  LET end == offset + page.length  eof == end >= size IN
  [kind |-> "page", size |-> size, page |-> page, eof |-> eof,
   hash |-> page, hashed |-> eof]

\* Variant: ReadAt's io.EOF is taken for the end of the file.
ReadResultCutShort(page) ==
  LET end == offset + page.length  eof == end >= size \/ page.length < ReadLen IN
  [kind |-> "page", size |-> size, page |-> page, eof |-> eof,
   hash |-> page, hashed |-> offset = 0 /\ eof]

\* readRange's result: eof against the size of Stat, the whole-file hash when
\* the page is the file.
ReadResult(page) ==
  LET end == offset + page.length  eof == end >= size IN
  [kind |-> "page", size |-> size, page |-> page, eof |-> eof,
   hash |-> page, hashed |-> offset = 0 /\ eof]

\* A range of no bytes is answered without opening the file.
ReadRange ==
  /\ pc = "read"
  /\ \/ ReadLen = 0 /\ Finish(ReadResult(NoBytes))
     \/ ReadLen > 0 /\ current \in Versions /\ Finish(ReadResult(Page))
     \/ ReadLen > 0 /\ current = Absent /\ Finish(Refusal("not_found"))
     \/ ReadLen > 0 /\ current = Special /\ Finish(Refusal("io_error"))
     \/ ReadLen > 0 /\ Fails
  /\ position' = IF reply'.kind # "page" \/ reply'.eof THEN 0
                 ELSE offset + reply'.page.length
  /\ UNCHANGED <<shared, current, offset, want, size>>
-----------------------------------------------------------------------------
(* fs_stat *)

CallStat ==
  /\ pc = "idle"
  /\ pc' = "lstat"
  /\ reply' = NoReply
  /\ UNCHANGED <<shared, current, offset, want, size, position>>

Lstat ==
  /\ pc = "lstat"
  /\ \/ current \in Versions /\ size' = current.length /\ pc' = "hash" /\ UNCHANGED reply
     \/ current = Absent /\ Finish(Refusal("not_found")) /\ UNCHANGED size
     \/ current = Special /\ Finish([NoReply EXCEPT !.kind = "stat"]) /\ UNCHANGED size
     \/ Fails /\ UNCHANGED size
  /\ UNCHANGED <<shared, current, offset, want, position>>

HashFile ==
  /\ pc = "hash"
  /\ \/ current \in Versions /\ Finish([NoReply EXCEPT !.kind = "stat", !.size = size,
                                          !.hash = Whole(current), !.hashed = TRUE])
     \/ current = Absent /\ Finish(Refusal("not_found"))
     \/ current = Special /\ Finish(Refusal("io_error"))
     \/ Fails
  /\ UNCHANGED <<shared, current, offset, want, size, position>>
-----------------------------------------------------------------------------
\* Another server, or another program, replaces the path's entry whole or removes it.
Replace ==
  /\ shared
  /\ current' \in (Versions \cup {Absent, Special}) \ {current}
  /\ UNCHANGED <<shared, pc, offset, want, size, reply, position>>

Handler == Stat \/ ReadRange \/ Lstat \/ HashFile

Next ==
  \/ \E o \in Offsets \cup {position}, w \in Wants \cup {Default} : CallRead(o, w)
  \/ CallStat \/ Handler \/ Replace

Spec == Init /\ [][Next]_vars
-----------------------------------------------------------------------------
(* Properties. *)

Replies ==
  [kind: {"none", "page", "stat", "invalid_argument", "too_large", "not_found", "not_a_file",
          "io_error", "over_budget"},
   size: Nat, page: [of: Versions \cup {Absent}, from: Nat, length: Nat], eof: BOOLEAN,
   hash: [of: Versions \cup {Absent}, from: Nat, length: Nat], hashed: BOOLEAN]

\* The variables keep their types, and the length in force fits a response.
TypeOK ==
  /\ shared \in BOOLEAN
  /\ current \in Versions \cup {Absent, Special}
  /\ pc \in {"idle", "stat", "read", "lstat", "hash"}
  /\ offset \in Nat /\ want \in 0..MaxReadLength /\ size \in Nat /\ position \in Nat
  /\ reply \in Replies

\* On a file nobody else changes, the whole-file sha256 of fs_read and fs_stat is the
\* hash of all it has: a page that merely ends the file carries none.
AloneHashIsWhole == ~shared /\ reply.hashed => reply.hash = Whole(current)

\* A file that is cut short, or replaced by a shorter one, between the look at its size
\* and the read gets no whole-file sha256: a hash is only given beside a size that the
\* file the bytes came from has.
CutShortNeverWhole ==
  reply.kind = "page" /\ reply.hashed /\ reply.size > 0 =>
    reply.hash.of \in Versions /\ reply.hash.of.length >= reply.size

\* On a file nobody else changes, a page carries every byte of the range there is, from
\* the offset asked for and no more, and eof is said exactly when the range reaches the end of the file:
\* reading on until eof reads every byte once.
PagesAddUp ==
  ~shared /\ reply.kind = "page" /\ current \in Versions =>
    /\ reply.eof <=> offset + reply.page.length >= current.length
    /\ offset < current.length /\ want > 0 =>
         reply.page = Bytes(current, offset, Smaller(want, current.length - offset))

\* The default page and every length accepted fit the response budget, whatever
\* encoding the bytes take (maxReadLength's comment): no read meets the backstop.
NeverOverBudget == reply.kind # "over_budget"

\* What is true of maxReadLength: only text of which JSON's escapes take more than the
\* quarter of the budget that base64 would have taken meets the backstop.  Binary and text
\* with few escapes always fit, whatever the range and the cap, unless the cap is smaller
\* than any reply.
OverBudgetOnlyByEscapes ==
  [][reply' # reply /\ reply'.kind = "over_budget" =>
       \/ MaxResponse < Envelope
       \/ /\ pc = "read" /\ current \in Versions /\ current.bytes = "text"
          /\ 4 * Escapes(Page) > MaxResponse - Reserve]_vars
=============================================================================
