----------------------------- MODULE ApplyEdits -----------------------------
(***************************************************************************)
(* The edits of fs_replace, worked out in memory (replace.go, applyEdits). *)
(* A batch is a file and the edits for it; a text is a sequence of bytes.  *)
(*                                                                         *)
(* The algorithm scans a text from the left, as bytes.Count and            *)
(* bytes.ReplaceAll do; the property says what comes out without scanning: *)
(* where a find occurs.                                                    *)
(***************************************************************************)
EXTENDS Integers, FiniteSetsExt, SequencesExt

CONSTANTS
  Bytes,    \* what a text is made of
  Batches,  \* the batches callers give
  Missing   \* an edit without "replace"

ASSUME BatchesAssumption ==
  Batches \subseteq [file: Seq(Bytes),
                     edits: Seq([find: Seq(Bytes), replace: {Missing} \cup Seq(Bytes), all: BOOLEAN])]

VARIABLES
  job,     \* the batch
  out,     \* the file with the edits so far
  counts,  \* the matches of each edit so far
  outcome

vars == <<job, out, counts, outcome>>

Edits == job.edits
IsBatch == "edits" \in DOMAIN job

At(text, find, i) == i + Len(find) - 1 <= Len(text) /\ SubSeq(text, i, i + Len(find) - 1) = find

\* What bytes.Count and bytes.ReplaceAll have after each byte of the text: the next place
\* where find may begin, since matches do not overlap, how many there were, and the text.
Scanned(text, find, replace) ==
  LET scan[n \in 0..Len(text)] ==
        IF n = 0 THEN [next |-> 1, count |-> 0, out |-> <<>>]
        ELSE LET so == scan[n - 1] IN
             IF n < so.next THEN so
             ELSE IF At(text, find, n)
             THEN [next |-> n + Len(find), count |-> so.count + 1, out |-> so.out \o replace]
             ELSE [next |-> n + 1, count |-> so.count, out |-> Append(so.out, text[n])]
  IN  scan[Len(text)]

Count(text, find) == Scanned(text, find, <<>>).count
Replaced(text, find, replace) == Scanned(text, find, replace).out

Refuse(code) == outcome' = code /\ UNCHANGED <<out, counts>>

\* Variant: an edit is counted in the file as it was.
ApplyEditToSource ==
  /\ outcome = "going" /\ Len(counts) < Len(Edits)
  /\ LET e == Edits[Len(counts) + 1]  n == Count(job.file, e.find) IN
     \/ e.replace = Missing /\ Refuse("io_error")
     \/ /\ e.replace # Missing /\ (e.find = <<>> \/ e.find = e.replace)
        /\ Refuse("invalid_argument")
     \/ /\ e.replace # Missing /\ e.find # <<>> /\ e.find # e.replace
        /\ \/ n = 0 /\ Refuse("no_match")
           \/ n > 1 /\ ~e.all /\ Refuse("ambiguous_match")
           \/ /\ n = 1 \/ (n > 1 /\ e.all)
              /\ out' = Replaced(out, e.find, e.replace)
              /\ counts' = Append(counts, n)
              /\ UNCHANGED outcome
  /\ UNCHANGED job

\* One round of applyEdits, with the code mapApplyEditsError gives its error.
ApplyEdit ==
  /\ outcome = "going" /\ Len(counts) < Len(Edits)
  /\ LET e == Edits[Len(counts) + 1]  n == Count(out, e.find) IN
     \/ e.replace = Missing /\ Refuse("io_error")
     \/ /\ e.replace # Missing /\ (e.find = <<>> \/ e.find = e.replace)
        /\ Refuse("invalid_argument")
     \/ /\ e.replace # Missing /\ e.find # <<>> /\ e.find # e.replace
        /\ \/ n = 0 /\ Refuse("no_match")
           \/ n > 1 /\ ~e.all /\ Refuse("ambiguous_match")
           \/ /\ n = 1 \/ (n > 1 /\ e.all)
              /\ out' = Replaced(out, e.find, e.replace)
              /\ counts' = Append(counts, n)
              /\ UNCHANGED outcome
  /\ UNCHANGED job

\* handleReplace refuses an empty batch before it reads the file.
EndEdits ==
  /\ outcome = "going" /\ Len(counts) = Len(Edits)
  /\ Refuse(IF Edits = <<>> THEN "invalid_argument" ELSE "ok")
  /\ UNCHANGED job

BatchInit == job \in Batches /\ out = job.file /\ counts = <<>> /\ outcome = "going"

BatchNext == ApplyEdit \/ EndEdits

BatchSpec == BatchInit /\ [][BatchNext]_vars
-----------------------------------------------------------------------------
(* Properties. *)

\* The places a find takes in a text: those that no earlier place overlaps.
Places(text, find) ==
  LET near == {i \in 1..Len(text) : At(text, find, i)} IN
  CHOOSE places \in SUBSET near :
    \A i \in near : i \in places <=> ~\E j \in places : j < i /\ i < j + Len(find)

\* The text with what is at these places exchanged.
Exchanged(text, find, replace, places) ==
  FlattenSeq([i \in 1..Len(text) |->
    IF i \in places THEN replace
    ELSE IF \E j \in places : j < i /\ i < j + Len(find) THEN <<>> ELSE <<text[i]>>])

\* The file after each of the edits made so far.
After[n \in 0..Len(counts)] ==
  IF n = 0 THEN job.file
  ELSE LET e == Edits[n] IN Exchanged(After[n - 1], e.find, e.replace, Places(After[n - 1], e.find))

\* replaceDescription: "Edits apply in order, each to the output of the previous one",
\* every one of them where its find occurs and nowhere else, once unless "all"; a
\* refusal is true of the file as the edits before it left it (ACCEPTANCE E1-E8).
EditsExact ==
  outcome # "going" /\ IsBatch /\ Edits # <<>> =>
    LET n == Len(counts)
        e == Edits[n + 1]
        places == Places(After[n], e.find)
    IN  /\ out = After[n]
        /\ \A k \in 1..n : counts[k] = Cardinality(Places(After[k - 1], Edits[k].find))
                           /\ (counts[k] = 1 \/ Edits[k].all)
        /\ outcome = "ok" <=> n = Len(Edits)
        /\ outcome = "no_match" => e.find # <<>> /\ places = {}
        /\ outcome = "ambiguous_match" => Cardinality(places) > 1 /\ ~e.all
        /\ outcome = "invalid_argument" => e.find \in {<<>>, e.replace}
        /\ outcome = "io_error" => e.replace = Missing
=============================================================================
