--------------------------- MODULE ArgumentsProofs ---------------------------
(***************************************************************************)
(* Edits apply exactly, and globs are judged exactly, for any bytes and    *)
(* any batches, any characters and any nesting of groups.                  *)
(*                                                                         *)
(* One edit: a scan of a text from the left counts the places a find takes *)
(* and exchanges what is there, whatever the text (ScanIs), though Places  *)
(* and Exchanged do not scan.  A batch: the invariant keeps the file that  *)
(* each edit made so far has left, so that what the counts and a refusal   *)
(* say can be held against it.                                             *)
(*                                                                         *)
(* One glob: the text of a group closes every brace it opens and hides its *)
(* commas, so the first brace of a text finds its own end (GroupFound) and *)
(* what is between them falls into the texts of the alternatives           *)
(* (PartsAre).  The equation of expandBraces has one solution, since it    *)
(* only asks about shorter texts (ExpandBracesIs), and by induction on the *)
(* nesting, and from the end of a list of nodes to its front, it makes of  *)
(* the text of a list what the list stands for (FaithfulStep).             *)
(* That is about every pattern: cutting a text from its end, and a pattern *)
(* from its front, finds a syntax for it (EveryPatternIsAGlob).            *)
(***************************************************************************)
EXTENDS Arguments, NatRecursion, SequenceTheorems, FiniteSetTheorems, TLAPS

(* Lists: sums, unions, and what FlattenSeq makes of pieces *)

LEMMA FunctionIsSeq ==
  ASSUME NEW E, NEW m \in Nat, NEW f \in [1..m -> E]
  PROVE  f \in Seq(E) /\ Len(f) = m
<1>1. f \in Seq(E)
  BY SeqDef
<1> QED
  BY <1>1, LenProperties

Adds(sum, size, n) == sum[0] = 0 /\ \A k \in 1..n : sum[k] = sum[k - 1] + size[k]
Together(sets, n) == UNION {sets[k] : k \in 1..n}

LEMMA SumExists ==
  ASSUME NEW n \in Nat, NEW size \in [1..n -> Nat]
  PROVE  \E sum \in [0..n -> Nat] : Adds(sum, size, n)
<1> DEFINE step == [x \in (1..n) \X Nat |-> x[2] + size[x[1]]]
<1>1. step \in [(1..n) \X Nat -> Nat]
  OBVIOUS
<1>2. \A k \in 1..n, s \in Nat : step[<<k, s>>] = s + size[k]
  OBVIOUS
<1> HIDE DEF step
<1>3. PICK sum \in [0..n -> Nat] : Solves(sum, 0, step, n)
  BY <1>1, Recursion
<1>4. \A k \in 1..n : k - 1 \in 0..n
  OBVIOUS
<1>5. Adds(sum, size, n)
  BY <1>2, <1>3, <1>4 DEF Solves, Adds
<1> QED
  BY <1>5

LEMMA TogetherStep ==
  ASSUME NEW sets, NEW n \in Nat
  PROVE  Together(sets, 0) = {} /\ Together(sets, n + 1) = Together(sets, n) \cup sets[n + 1]
<1>1. 1..0 = {} /\ 1..(n + 1) = (1..n) \cup {n + 1}
  OBVIOUS
<1> QED
  BY <1>1 DEF Together

LEMMA ToSetOfConcat ==
  ASSUME NEW E, NEW a \in Seq(E), NEW b \in Seq(E)
  PROVE  ToSet(a \o b) = ToSet(a) \cup ToSet(b)
<1> DEFINE ab == a \o b
           m == Len(a)
           n == Len(b)
<1>1. /\ m \in Nat /\ n \in Nat /\ DOMAIN a = 1..m /\ DOMAIN b = 1..n /\ DOMAIN ab = 1..(m + n)
      /\ \A i \in 1..m + n : ab[i] = IF i <= m THEN a[i] ELSE b[i - m]
  <2>1. ab \in Seq(E) /\ Len(ab) = m + n
    BY ConcatProperties
  <2>2. m \in Nat /\ n \in Nat /\ DOMAIN a = 1..m /\ DOMAIN b = 1..n /\ DOMAIN ab = 1..Len(ab)
    BY <2>1, LenProperties
  <2> QED
    BY <2>1, <2>2, ConcatProperties
<1> HIDE DEF ab, m, n
<1>2. ASSUME NEW i \in 1..(m + n) PROVE ab[i] \in ToSet(a) \cup ToSet(b)
  <2>1. CASE i <= m
    BY <1>1, <2>1 DEF ToSet
  <2>2. CASE ~(i <= m)
    <3>1. i - m \in 1..n
      BY <1>1, <2>2
    <3> QED
      BY <1>1, <2>2, <3>1 DEF ToSet
  <2> QED
    BY <2>1, <2>2
<1>3. ASSUME NEW i \in 1..m PROVE a[i] \in ToSet(ab)
  <2>1. i \in 1..(m + n) /\ i <= m
    BY <1>1
  <2> QED
    BY <1>1, <2>1 DEF ToSet
<1>4. ASSUME NEW i \in 1..n PROVE b[i] \in ToSet(ab)
  <2>1. m + i \in 1..(m + n) /\ ~(m + i <= m) /\ (m + i) - m = i
    BY <1>1
  <2>2. ab[m + i] = b[i]
    BY <1>1, <2>1
  <2> QED
    BY <1>1, <2>1, <2>2 DEF ToSet
<1>5. ToSet(ab) = ToSet(a) \cup ToSet(b)
  BY <1>1, <1>2, <1>3, <1>4 DEF ToSet
<1> QED
  BY <1>5 DEF ab

LEMMA Flattened ==
  ASSUME NEW E, NEW m \in Nat, NEW pieces \in [1..m -> Seq(E)]
  PROVE  \E f \in [0..m -> Seq(E)] :
           /\ f[0] = <<>> /\ \A n \in 1..m : f[n] = f[n - 1] \o pieces[n]
           /\ FlattenSeq(pieces) = f[m]
<1> DEFINE step == [x \in (1..m) \X Seq(E) |-> x[2] \o pieces[x[1]]]
<1>1. step \in [(1..m) \X Seq(E) -> Seq(E)]
  <2>1. \A n \in 1..m, s \in Seq(E) : s \o pieces[n] \in Seq(E)
    BY ConcatProperties
  <2> QED
    BY <2>1
<1>2. \A n \in 1..m, s \in Seq(E) : step[<<n, s>>] = s \o pieces[n]
  OBVIOUS
<1>3. <<>> \in Seq(E) /\ Len(pieces) = m /\ pieces \in Seq(Seq(E))
  BY FunctionIsSeq
<1> HIDE DEF step
<1>4. PICK f \in [0..m -> Seq(E)] : Solves(f, <<>>, step, m)
  BY <1>1, <1>3, Recursion
<1>5. f[0] = <<>> /\ \A n \in 1..m : f[n] = f[n - 1] \o pieces[n] /\ f[n - 1] \in Seq(E)
  <2>1. \A n \in 1..m : n - 1 \in 0..m
    OBVIOUS
  <2> QED
    BY <1>2, <1>4, <2>1 DEF Solves
<1>6. CASE m = 0
  <2>1. pieces = <<>>
    BY <1>3, <1>6, EmptySeq
  <2>2. FlattenSeq(pieces) = <<>>
    BY <1>3, <1>6, <2>1 DEF FlattenSeq
  <2> QED
    BY <1>5, <1>6, <2>2
<1>7. CASE m # 0
  <2> DEFINE Eq(g) == g = [i \in 1..m |-> IF i = 1 THEN pieces[i] ELSE g[i - 1] \o pieces[i]]
             start == [i \in 1..m |-> f[i]]
             h == CHOOSE g : Eq(g)
  <2>1. Eq(start)
    <3>1. f[1] = pieces[1]
      <4>1. 1 \in 1..m /\ 1 - 1 = 0 /\ pieces[1] \in Seq(E)
        BY <1>7
      <4>2. f[1] = <<>> \o pieces[1]
        BY <1>5, <4>1
      <4> QED
        BY <4>1, <4>2, ConcatEmptySeq
    <3>2. \A i \in 1..m : i # 1 => i - 1 \in 1..m
      OBVIOUS
    <3>3. \A i \in 1..m : start[i] = IF i = 1 THEN pieces[i] ELSE start[i - 1] \o pieces[i]
      BY <1>5, <3>1, <3>2
    <3>4. start = [i \in 1..m |-> start[i]]
      OBVIOUS
    <3> HIDE DEF start
    <3> QED
      BY <3>3, <3>4
  <2>2. Eq(h)
    BY <2>1
  <2>3. FlattenSeq(pieces) = h[m]
    BY <1>3, <1>7 DEF FlattenSeq
  <2> HIDE DEF h
  <2>4. \A i \in 1..m : h[i] = IF i = 1 THEN pieces[i] ELSE h[i - 1] \o pieces[i]
    BY <2>2, Zenon
  <2>5. \A i \in 1..m : f[i] = IF i = 1 THEN pieces[i] ELSE f[i - 1] \o pieces[i]
    <3>1. \A i \in 1..m : start[i] = IF i = 1 THEN pieces[i] ELSE start[i - 1] \o pieces[i]
      <4> HIDE DEF start
      <4> QED
        BY <2>1, Zenon
    <3>2. \A i \in 1..m : start[i] = f[i] /\ (i # 1 => i - 1 \in 1..m)
      OBVIOUS
    <3> HIDE DEF start
    <3> QED
      BY <3>1, <3>2
  <2> DEFINE T == {n \in Nat : n + 1 <= m => h[n + 1] = f[n + 1]}
  <2>6. 0 \in T
    BY <1>7, <2>4, <2>5
  <2>7. ASSUME NEW n \in Nat, n \in T PROVE n + 1 \in T
    <3>1. SUFFICES ASSUME (n + 1) + 1 <= m PROVE h[(n + 1) + 1] = f[(n + 1) + 1]
      OBVIOUS
    <3>2. (n + 1) + 1 \in 1..m /\ (n + 1) + 1 # 1 /\ ((n + 1) + 1) - 1 = n + 1 /\ n + 1 <= m
      BY <3>1
    <3>3. h[n + 1] = f[n + 1]
      BY <2>7, <3>2
    <3> QED
      BY <2>4, <2>5, <3>2, <3>3
  <2> HIDE DEF T
  <2>8. m - 1 \in T
    <3>1. m - 1 \in Nat
      BY <1>7
    <3> QED
      BY <2>6, <2>7, <3>1, Induction
  <2>9. h[m] = f[m]
    <3>1. (m - 1) + 1 = m /\ m <= m
      OBVIOUS
    <3> QED
      BY <2>8, <3>1 DEF T
  <2> QED
    BY <1>5, <2>3, <2>9
<1> QED
  BY <1>6, <1>7

\* The pieces, their lengths, the running sums of these, and what each piece holds.
Measured(E, pieces, m, size, sum, sets) ==
  /\ m \in Nat /\ pieces \in [1..m -> Seq(E)]
  /\ size \in [1..m -> Nat] /\ sum \in [0..m -> Nat] /\ Adds(sum, size, m)
  /\ \A k \in 1..m : size[k] = Len(pieces[k]) /\ sets[k] = ToSet(pieces[k])

LEMMA FlattenedIs ==
  ASSUME NEW E, NEW pieces, NEW m, NEW size, NEW sum, NEW sets,
         Measured(E, pieces, m, size, sum, sets)
  PROVE  /\ FlattenSeq(pieces) \in Seq(E)
         /\ Len(FlattenSeq(pieces)) = sum[m]
         /\ ToSet(FlattenSeq(pieces)) = Together(sets, m)
<1> m \in Nat /\ pieces \in [1..m -> Seq(E)] /\ size \in [1..m -> Nat] /\ sum \in [0..m -> Nat]
  BY DEF Measured
<1>1. PICK f \in [0..m -> Seq(E)] : /\ f[0] = <<>> /\ \A n \in 1..m : f[n] = f[n - 1] \o pieces[n]
                                    /\ FlattenSeq(pieces) = f[m]
  BY Flattened
<1> DEFINE Good(n) == Len(f[n]) = sum[n] /\ ToSet(f[n]) = Together(sets, n)
           T == {n \in Nat : n <= m => Good(n)}
<1>2. Good(0)
  <2>1. Together(sets, 0) = {}
    BY TogetherStep
  <2>2. Len(<<>>) = 0 /\ ToSet(<<>>) = {}
    BY DEF ToSet
  <2> QED
    BY <1>1, <2>1, <2>2 DEF Adds, Measured
<1>3. ASSUME NEW n \in Nat, Good(n), n + 1 <= m PROVE Good(n + 1)
  <2>1. n + 1 \in 1..m /\ n \in 0..m /\ (n + 1) - 1 = n
    BY <1>3
  <2>2. f[n + 1] = f[n] \o pieces[n + 1] /\ f[n] \in Seq(E) /\ pieces[n + 1] \in Seq(E)
    BY <1>1, <2>1
  <2>3. Len(f[n + 1]) = Len(f[n]) + Len(pieces[n + 1])
    BY <2>2, ConcatProperties
  <2>4. ToSet(f[n + 1]) = ToSet(f[n]) \cup ToSet(pieces[n + 1])
    BY <2>2, ToSetOfConcat
  <2>5. sum[n + 1] = sum[n] + size[n + 1] /\ size[n + 1] = Len(pieces[n + 1])
    BY <2>1 DEF Adds, Measured
  <2>6. Together(sets, n + 1) = Together(sets, n) \cup ToSet(pieces[n + 1])
    BY <2>1, TogetherStep DEF Measured
  <2> QED
    BY <1>3, <2>3, <2>4, <2>5, <2>6
<1> HIDE DEF Good
<1>4. 0 \in T /\ \A n \in Nat : n \in T => n + 1 \in T
  BY <1>2, <1>3
<1> HIDE DEF T
<1>5. m \in T
  BY <1>4, Induction
<1>6. Good(m)
  BY <1>5 DEF T
<1> QED
  BY <1>1, <1>6 DEF Good
-----------------------------------------------------------------------------
(* Where a find occurs *)

Near(text, find) == {i \in 1..Len(text) : At(text, find, i)}
Covered(places, find, i) == \E j \in places : j < i /\ i < j + Len(find)

\* The places a find takes: all where it occurs, but for those an earlier one overlaps.
Taken(places, text, find) ==
  /\ places \subseteq Near(text, find)
  /\ \A i \in Near(text, find) : i \in places <=> ~Covered(places, find, i)

LEMMA PlacesAreTaken ==
  ASSUME NEW text \in Seq(Bytes), NEW find \in Seq(Bytes)
  PROVE  Taken(Places(text, find), text, find)
<1> DEFINE m == Len(text)
           near == Near(text, find)
           More(n, P) == IF n \in near /\ ~Covered(P, find, n) THEN P \cup {n} ELSE P
           step == [x \in (1..m) \X SUBSET near |-> More(x[1], x[2])]
<1>1. m \in Nat /\ Len(find) \in Nat /\ near \subseteq 1..m
  BY DEF Near
<1>2. step \in [(1..m) \X SUBSET near -> SUBSET near]
  OBVIOUS
<1>3. \A n \in 1..m, P \in SUBSET near : step[<<n, P>>] = More(n, P)
  OBVIOUS
<1> HIDE DEF step, near, m
<1>4. PICK f \in [0..m -> SUBSET near] : Solves(f, {}, step, m)
  BY <1>1, <1>2, Recursion
<1>5. f[0] = {} /\ \A n \in 1..m : f[n] = More(n, f[n - 1])
  <2>1. \A n \in 1..m : n - 1 \in 0..m
    BY <1>1
  <2> HIDE DEF More
  <2> QED
    BY <1>3, <1>4, <2>1 DEF Solves
<1> DEFINE Good(n) == /\ f[n] \subseteq 1..n
                      /\ \A i \in near : i <= n => (i \in f[n] <=> ~Covered(f[n], find, i))
           T == {n \in Nat : n <= m => Good(n)}
<1>6. Good(0)
  BY <1>1, <1>5
<1>7. ASSUME NEW n \in Nat, n + 1 <= m, Good(n) PROVE Good(n + 1)
  <2>1. n + 1 \in 1..m /\ (n + 1) - 1 = n
    BY <1>1, <1>7
  <2>2. f[n + 1] = More(n + 1, f[n])
    BY <1>5, <2>1
  <2>3. f[n + 1] \subseteq 1..(n + 1)
    <3>1. 1..n \subseteq 1..(n + 1) /\ n + 1 \in 1..(n + 1)
      OBVIOUS
    <3> QED
      BY <1>7, <2>2, <3>1
  <2>4. ASSUME NEW i \in near, i <= n + 1 PROVE i \in f[n + 1] <=> ~Covered(f[n + 1], find, i)
    <3>1. i \in Nat /\ \A j \in f[n] : j \in Int
      BY <1>1, <1>7
    <3>2. Covered(f[n + 1], find, i) <=> Covered(f[n], find, i)
      BY <2>2, <2>4, <3>1 DEF Covered
    <3>3. CASE i = n + 1
      <4>1. i \notin f[n]
        BY <1>7, <3>3
      <4> QED
        BY <2>2, <3>2, <3>3, <4>1
    <3>4. CASE i # n + 1
      <4>1. i <= n
        BY <2>4, <3>1, <3>4
      <4> QED
        BY <1>7, <2>2, <3>2, <3>4, <4>1
    <3> QED
      BY <3>3, <3>4
  <2> QED
    BY <2>3, <2>4
<1> HIDE DEF Good
<1>8. 0 \in T /\ \A n \in Nat : n \in T => n + 1 \in T
  BY <1>1, <1>6, <1>7
<1> HIDE DEF T
<1>9. m \in T
  BY <1>1, <1>8, Induction
<1>10. Taken(f[m], text, find)
  <2>1. Good(m) /\ f[m] \in SUBSET near /\ \A i \in near : i <= m
    BY <1>1, <1>4, <1>9 DEF T
  <2> QED
    BY <2>1 DEF Good, Taken, near
<1> DEFINE Q(places) == places \in SUBSET Near(text, find) /\ Taken(places, text, find)
<1>11. \E places \in SUBSET Near(text, find) :
         \A i \in Near(text, find) :
           i \in places <=> ~\E j \in places : j < i /\ i < j + Len(find)
  BY <1>10 DEF Taken, Covered
<1>12. /\ Places(text, find) \in SUBSET Near(text, find)
       /\ \A i \in Near(text, find) :
            i \in Places(text, find) <=>
              ~\E j \in Places(text, find) : j < i /\ i < j + Len(find)
  BY <1>11 DEF Places, Near
<1> QED
  BY <1>12 DEF Taken, Covered
-----------------------------------------------------------------------------
(* What a scan has after each byte. *)

Scans == [next : Nat, count : Nat, out : Seq(Bytes)]
Start == [next |-> 1, count |-> 0, out |-> <<>>]
Scan(text, find, replace, n, so) ==
  IF n < so.next THEN so
  ELSE IF At(text, find, n)
  THEN [next |-> n + Len(find), count |-> so.count + 1, out |-> so.out \o replace]
  ELSE [next |-> n + 1, count |-> so.count, out |-> Append(so.out, text[n])]

LEMMA ScanIsScan ==
  ASSUME NEW text \in Seq(Bytes), NEW find \in Seq(Bytes), NEW replace \in Seq(Bytes),
         NEW n \in 1..Len(text), NEW so \in Scans
  PROVE  Scan(text, find, replace, n, so) \in Scans
<1>1. so.next \in Nat /\ so.count \in Nat /\ so.out \in Seq(Bytes)
  BY DEF Scans
<1>2. n \in Nat /\ Len(find) \in Nat /\ text[n] \in Bytes
  BY ElementOfSeq
<1>3. so.out \o replace \in Seq(Bytes) /\ Append(so.out, text[n]) \in Seq(Bytes)
  BY <1>1, <1>2, ConcatProperties, AppendProperties
<1> QED
  BY <1>1, <1>2, <1>3 DEF Scan, Scans

LEMMA ScannedIs ==
  ASSUME NEW text \in Seq(Bytes), NEW find \in Seq(Bytes), NEW replace \in Seq(Bytes)
  PROVE  \E f \in [0..Len(text) -> Scans] :
           /\ f[0] = Start
           /\ \A n \in 1..Len(text) : f[n] = Scan(text, find, replace, n, f[n - 1])
           /\ Scanned(text, find, replace) = f[Len(text)]
<1> DEFINE m == Len(text)
           step == [x \in (1..m) \X Scans |-> Scan(text, find, replace, x[1], x[2])]
           Eq(g) == g = [n \in 0..m |-> IF n = 0 THEN Start
                                        ELSE Scan(text, find, replace, n, g[n - 1])]
<1>1. m \in Nat /\ Start \in Scans
  <2>1. <<>> \in Seq(Bytes)
    OBVIOUS
  <2> QED
    BY <2>1 DEF Start, Scans
<1>2. \A n \in 1..m, so \in Scans : Scan(text, find, replace, n, so) \in Scans
  BY ScanIsScan
<1>3. step \in [(1..m) \X Scans -> Scans]
  BY <1>2
<1>4. \A n \in 1..m, so \in Scans : step[<<n, so>>] = Scan(text, find, replace, n, so)
  OBVIOUS
<1> HIDE DEF step
<1>5. PICK g \in [0..m -> Scans] : Solves(g, Start, step, m)
  <2> HIDE DEF m
  <2> QED
    BY <1>1, <1>3, Recursion
<1>6. Eq(g)
  <2>1. \A n \in 1..m : n - 1 \in 0..m
    BY <1>1
  <2>2. g[0] = Start /\ \A n \in 1..m : g[n] = Scan(text, find, replace, n, g[n - 1])
    BY <1>4, <1>5, <2>1 DEF Solves
  <2>3. g = [n \in 0..m |-> g[n]]
    OBVIOUS
  <2>4. \A n \in 0..m : n = 0 \/ n \in 1..m
    BY <1>1
  <2> QED
    BY <2>2, <2>3, <2>4
<1> DEFINE h == CHOOSE f : Eq(f)
<1>7. Eq(h)
  BY <1>6
<1>8. Scanned(text, find, replace) = h[m]
  BY DEF Scanned, Scan, Start
<1> HIDE DEF h
<1>9. h[0] = Start /\ \A n \in 1..m : h[n] = Scan(text, find, replace, n, h[n - 1])
  <2>1. \A n \in 0..m : h[n] = IF n = 0 THEN Start ELSE Scan(text, find, replace, n, h[n - 1])
    BY <1>7, Zenon
  <2>2. 0 \in 0..m /\ \A n \in 1..m : n \in 0..m /\ n # 0
    BY <1>1
  <2> QED
    BY <2>1, <2>2
<1> DEFINE T == {n \in Nat : n <= m => h[n] \in Scans}
<1>10. ASSUME NEW n \in Nat, n \in T PROVE n + 1 \in T
  <2>1. SUFFICES ASSUME n + 1 <= m PROVE h[n + 1] \in Scans
    OBVIOUS
  <2>2. n + 1 \in 1..m /\ h[n] \in Scans /\ (n + 1) - 1 = n
    BY <1>1, <1>10, <2>1
  <2> QED
    BY <1>2, <1>9, <2>2
<1>11. 0 \in T
  BY <1>1, <1>9
<1> HIDE DEF T
<1>12. Nat \subseteq T
  BY <1>10, <1>11, Induction
<1>13. h \in [0..m -> Scans]
  <2>1. \A n \in 0..m : h[n] \in Scans
    BY <1>1, <1>12 DEF T
  <2>2. ASSUME NEW n \in 0..m
        PROVE  (IF n = 0 THEN Start ELSE Scan(text, find, replace, n, h[n - 1])) \in Scans
    <3>1. n = 0 \/ (n \in 1..m /\ n - 1 \in 0..m)
      BY <1>1
    <3> QED
      BY <1>1, <1>2, <2>1, <3>1
  <2> QED
    BY <1>7, <2>2, Zenon
<1> QED
  BY <1>8, <1>9, <1>13

LEMMA ScanIs ==
  ASSUME NEW text \in Seq(Bytes), NEW find \in Seq(Bytes), NEW replace \in Seq(Bytes),
         find # <<>>
  PROVE  LET P == Places(text, find) IN
         /\ Scanned(text, find, replace).count = Cardinality(P)
         /\ Scanned(text, find, replace).out = Exchanged(text, find, replace, P)
         /\ Cardinality(P) \in Nat /\ Exchanged(text, find, replace, P) \in Seq(Bytes)
<1> DEFINE m == Len(text)
           P == Places(text, find)
           pieces == [i \in 1..m |-> IF i \in P THEN replace
                                     ELSE IF Covered(P, find, i) THEN <<>> ELSE <<text[i]>>]
<1>1. m \in Nat /\ Len(find) \in Nat /\ Len(find) > 0
  BY EmptySeq
<1>2. Taken(P, text, find)
  BY PlacesAreTaken
<1>3. /\ P \subseteq 1..m
      /\ \A n \in 1..m : n \in P <=> At(text, find, n) /\ ~Covered(P, find, n)
  BY <1>2 DEF Taken, Near
<1>4. PICK f \in [0..m -> Scans] :
        /\ f[0] = Start
        /\ \A n \in 1..m : f[n] = Scan(text, find, replace, n, f[n - 1])
        /\ Scanned(text, find, replace) = f[m]
  BY ScannedIs
<1>5. \A n \in 1..m : text[n] \in Bytes
  BY ElementOfSeq
<1>6. pieces \in [1..m -> Seq(Bytes)]
  <2>1. ASSUME NEW n \in 1..m PROVE <<>> \in Seq(Bytes) /\ <<text[n]>> \in Seq(Bytes)
    BY <1>5
  <2> QED
    BY <2>1
<1>7. \A n \in 1..m : pieces[n] = IF n \in P THEN replace
                                  ELSE IF Covered(P, find, n) THEN <<>> ELSE <<text[n]>>
  OBVIOUS
<1>8. Exchanged(text, find, replace, P) = FlattenSeq(pieces)
  BY DEF Exchanged, Covered
<1> HIDE DEF pieces, P, m
<1>9. PICK g \in [0..m -> Seq(Bytes)] :
        /\ g[0] = <<>> /\ \A n \in 1..m : g[n] = g[n - 1] \o pieces[n]
        /\ FlattenSeq(pieces) = g[m]
  BY <1>1, <1>6, Flattened
<1> DEFINE Upto(n) == P \cap (1..n)
           Good(n) == /\ f[n].count = Cardinality(Upto(n)) /\ IsFiniteSet(Upto(n))
                      /\ f[n].out = g[n]
                      /\ \A i \in Nat : i > n => (i < f[n].next <=>
                                                  \E j \in Upto(n) : i < j + Len(find))
           T == {n \in Nat : n <= m => Good(n)}
<1>10. Good(0)
  <2>1. Upto(0) = {} /\ f[0] = [next |-> 1, count |-> 0, out |-> <<>>]
    BY <1>4 DEF Start
  <2> QED
    BY <1>9, <2>1, FS_EmptySet
<1>11. ASSUME NEW n \in 1..m, Good(n - 1) PROVE Good(n)
  <2> DEFINE so == f[n - 1]
  <2>1. n \in Nat /\ n - 1 \in 0..m /\ so.next \in Nat /\ so.count \in Nat /\ so.out \in Seq(Bytes)
    <3>1. n - 1 \in 0..m /\ n \in Nat
      BY <1>1
    <3>2. so \in Scans
      BY <1>4, <3>1
    <3> QED
      BY <3>1, <3>2 DEF Scans
  <2>2. f[n] = Scan(text, find, replace, n, so)
    BY <1>4
  <2>3. g[n] = so.out \o pieces[n]
    BY <1>9, <1>11
  <2>4. /\ so.count = Cardinality(Upto(n - 1)) /\ IsFiniteSet(Upto(n - 1))
        /\ \A i \in Nat : i > n - 1 => (i < so.next <=>
                                        \E j \in Upto(n - 1) : i < j + Len(find))
    BY <1>11
  <2> HIDE DEF so, Good
  <2>5. \A j \in Upto(n - 1) : j \in P /\ j \in Nat /\ j < n
    BY <1>1, <1>3, <2>1
  <2>6. n < so.next <=> Covered(P, find, n)
    <3>1. \A j \in P : j < n => j \in Upto(n - 1)
      BY <1>1, <1>3, <2>1
    <3>2. n < so.next <=> \E j \in Upto(n - 1) : n < j + Len(find)
      BY <2>1, <2>4
    <3> QED
      BY <2>5, <3>1, <3>2 DEF Covered
  <2>7. Upto(n) = IF n \in P THEN Upto(n - 1) \cup {n} ELSE Upto(n - 1)
    BY <1>1, <1>3, <2>1
  <2>8. CASE Covered(P, find, n)
    <3>1. n \notin P /\ pieces[n] = <<>> /\ f[n] = so
      BY <1>3, <1>7, <2>2, <2>6, <2>8 DEF Scan
    <3>2. g[n] = so.out
      BY <2>1, <2>3, <3>1, ConcatEmptySeq
    <3>3. Upto(n) = Upto(n - 1)
      BY <2>7, <3>1
    <3> HIDE DEF Upto
    <3>4. \A i \in Nat : i > n => i > n - 1
      BY <2>1
    <3> QED
      BY <2>4, <3>1, <3>2, <3>3, <3>4 DEF Good
  <2>9. CASE ~Covered(P, find, n) /\ At(text, find, n)
    <3>1. /\ n \in P /\ pieces[n] = replace
          /\ f[n] = [next |-> n + Len(find), count |-> so.count + 1, out |-> so.out \o replace]
      BY <1>3, <1>7, <2>2, <2>6, <2>9 DEF Scan
    <3>2. Upto(n) = Upto(n - 1) \cup {n} /\ n \notin Upto(n - 1)
      BY <2>1, <2>5, <2>7, <3>1
    <3>3. IsFiniteSet(Upto(n)) /\ Cardinality(Upto(n)) = so.count + 1
      <4> DEFINE U == Upto(n - 1)
      <4>1. IsFiniteSet(U) /\ n \notin U /\ so.count = Cardinality(U) /\ Upto(n) = U \cup {n}
        BY <2>4, <3>2
      <4> HIDE DEF U
      <4>2. IsFiniteSet(U \cup {n}) /\ Cardinality(U \cup {n}) = Cardinality(U) + 1
        BY <4>1, FS_AddElement
      <4> QED
        BY <4>1, <4>2, Zenon
    <3>4. ASSUME NEW i \in Nat, i > n
          PROVE  i < n + Len(find) <=> \E j \in Upto(n) : i < j + Len(find)
      <4>1. \A j \in Upto(n) : j \in Nat /\ j <= n
        BY <2>1, <2>5, <3>2
      <4>2. n \in Upto(n)
        BY <3>2
      <4> HIDE DEF Upto
      <4> QED
        BY <1>1, <2>1, <4>1, <4>2
    <3> HIDE DEF Upto
    <3> QED
      BY <2>3, <3>1, <3>3, <3>4 DEF Good
  <2>10. CASE ~Covered(P, find, n) /\ ~At(text, find, n)
    <3>1. /\ n \notin P /\ pieces[n] = <<text[n]>>
          /\ f[n] = [next |-> n + 1, count |-> so.count, out |-> Append(so.out, text[n])]
      BY <1>3, <1>7, <2>2, <2>6, <2>10 DEF Scan
    <3>2. Upto(n) = Upto(n - 1)
      BY <2>7, <3>1
    <3>3. Append(so.out, text[n]) = so.out \o <<text[n]>>
      BY <1>5, <2>1, AppendIsConcat
    <3>4. ASSUME NEW i \in Nat, i > n
          PROVE  i < n + 1 <=> \E j \in Upto(n) : i < j + Len(find)
      <4>1. ~(n < so.next)
        BY <2>6, <2>10
      <4>2. ~(i < so.next) /\ i > n - 1
        BY <2>1, <3>4, <4>1
      <4>3. ~(i < n + 1)
        BY <2>1, <3>4
      <4> HIDE DEF Upto
      <4> QED
        BY <2>4, <3>2, <4>2, <4>3
    <3> HIDE DEF Upto
    <3> QED
      BY <2>3, <2>4, <3>1, <3>2, <3>3, <3>4 DEF Good
  <2> QED
    BY <2>8, <2>9, <2>10
<1> HIDE DEF Good
<1>12. 0 \in T /\ \A n \in Nat : n \in T => n + 1 \in T
  <2>1. ASSUME NEW n \in Nat, n \in T, n + 1 <= m PROVE Good(n + 1)
    <3>1. n + 1 \in 1..m /\ (n + 1) - 1 = n /\ Good(n)
      BY <1>1, <2>1
    <3> QED
      BY <1>11, <3>1
  <2> QED
    BY <1>10, <2>1
<1> HIDE DEF T
<1>13. m \in T
  BY <1>1, <1>12, Induction
<1>14. Good(m)
  BY <1>1, <1>13 DEF T
<1>15. Upto(m) = P
  BY <1>3
<1>16. f[m].count \in Nat /\ g[m] \in Seq(Bytes)
  <2>1. m \in 0..m
    BY <1>1
  <2>2. f[m] \in Scans
    BY <1>4, <2>1
  <2> QED
    BY <1>9, <2>1, <2>2 DEF Scans
<1> HIDE DEF Upto
<1> QED
  BY <1>4, <1>8, <1>9, <1>14, <1>15, <1>16 DEF Good, P
-----------------------------------------------------------------------------
(* The invariant: the file that each edit made so far left. *)

ABatch == job \in Batches /\ counts \in Seq(Nat) /\ Len(counts) <= Len(Edits)

Follows(before, after, e, count) ==
  /\ after = Exchanged(before, e.find, e.replace, Places(before, e.find))
  /\ count = Cardinality(Places(before, e.find))
  /\ count = 1 \/ e.all

History(files) ==
  /\ files[0] = job.file
  /\ \A k \in 1..Len(counts) : Follows(files[k - 1], files[k], Edits[k], counts[k])
  /\ out = files[Len(counts)]

\* A refusal is true of the file as it stands, and of the edit at hand.
Verdict ==
  LET e == Edits[Len(counts) + 1] IN
  outcome # "going" /\ Edits # <<>> =>
    /\ outcome = "ok" <=> Len(counts) = Len(Edits)
    /\ outcome = "no_match" => e.find # <<>> /\ Places(out, e.find) = {}
    /\ outcome = "ambiguous_match" => Cardinality(Places(out, e.find)) > 1 /\ ~e.all
    /\ outcome = "invalid_argument" => e.find \in {<<>>, e.replace}
    /\ outcome = "io_error" => e.replace = Missing

BatchInv ==
  /\ ABatch
  /\ \E files \in [0..Len(counts) -> Seq(Bytes)] : History(files)
  /\ Verdict

AnEdit(e) ==
  e.find \in Seq(Bytes) /\ (e.replace = Missing \/ e.replace \in Seq(Bytes)) /\ e.all \in BOOLEAN

LEMMA BatchTyped ==
  ASSUME job \in Batches
  PROVE  /\ job.file \in Seq(Bytes) /\ Len(Edits) \in Nat /\ IsBatch
         /\ \A n \in 1..Len(Edits) : AnEdit(Edits[n])
<1> DEFINE Sort == [find: Seq(Bytes), replace: {Missing} \cup Seq(Bytes), all: BOOLEAN]
<1>1. job \in [file: Seq(Bytes), edits: Seq(Sort)]
  BY BatchesAssumption
<1>2. \A e \in Sort : AnEdit(e)
  BY DEF AnEdit
<1> HIDE DEF Sort
<1>3. job.file \in Seq(Bytes) /\ Edits \in Seq(Sort)
  BY <1>1 DEF Edits
<1>4. IsBatch
  BY <1>1 DEF IsBatch
<1>5. \A n \in 1..Len(Edits) : Edits[n] \in Sort
  BY <1>3, ElementOfSeq
<1>6. Len(Edits) \in Nat
  BY <1>3
<1> QED
  BY <1>2, <1>3, <1>4, <1>5, <1>6

LEMMA BatchStarts == BatchInit => BatchInv
<1> SUFFICES ASSUME BatchInit PROVE BatchInv
  OBVIOUS
<1>1. job \in Batches /\ out = job.file /\ counts = <<>> /\ outcome = "going"
  BY DEF BatchInit
<1>2. job.file \in Seq(Bytes) /\ Len(Edits) \in Nat
  BY <1>1, BatchTyped
<1>3. counts \in Seq(Nat) /\ Len(counts) = 0
  BY <1>1
<1>4. ABatch
  BY <1>1, <1>2, <1>3 DEF ABatch
<1> DEFINE files == [k \in 0..0 |-> job.file]
<1>5. files \in [0..Len(counts) -> Seq(Bytes)] /\ files[0] = job.file
  BY <1>2, <1>3
<1>6. History(files)
  <2> HIDE DEF files
  <2> QED
    BY <1>1, <1>3, <1>5 DEF History
<1>7. Verdict
  BY <1>1 DEF Verdict
<1> HIDE DEF files
<1> QED
  BY <1>4, <1>5, <1>6, <1>7, Zenon DEF BatchInv

\* A refusal, and the end of the batch, leave the file and the counts.
LEMMA RefusalKeeps ==
  ASSUME BatchInv, UNCHANGED <<job, out, counts>>, Verdict'
  PROVE  BatchInv'
<1>1. job' = job /\ out' = out /\ counts' = counts /\ Edits' = Edits
  BY DEF Edits
<1>2. ABatch'
  BY <1>1 DEF BatchInv, ABatch
<1>3. PICK files \in [0..Len(counts) -> Seq(Bytes)] : History(files)
  BY DEF BatchInv
<1>4. files \in [0..Len(counts') -> Seq(Bytes)]
  BY <1>1, <1>3
<1>5. /\ files[0] = job'.file
      /\ \A k \in 1..Len(counts') : Follows(files[k - 1], files[k], Edits'[k], counts'[k])
      /\ out' = files[Len(counts')]
  BY <1>1, <1>3 DEF History
<1> QED
  BY <1>2, <1>4, <1>5, Zenon DEF BatchInv, History

LEMMA ApplyEditKeeps ==
  ASSUME BatchInv, ApplyEdit
  PROVE  BatchInv'
<1> DEFINE n == Len(counts)
           e == Edits[n + 1]
           c == Count(out, e.find)
<1>1. n \in Nat /\ n < Len(Edits) /\ Len(Edits) \in Nat /\ job' = job /\ Edits' = Edits
      /\ job \in Batches /\ counts \in Seq(Nat) /\ outcome = "going"
  BY BatchTyped DEF BatchInv, ABatch, ApplyEdit, Edits
<1>2. AnEdit(e) /\ n + 1 \in 1..Len(Edits) /\ Edits # <<>>
  <2>1. n + 1 \in 1..Len(Edits) /\ \A i \in 1..Len(Edits) : AnEdit(Edits[i])
    BY <1>1, BatchTyped
  <2>2. Edits # <<>>
    BY <1>1
  <2> QED
    BY <2>1, <2>2
<1>3. PICK files \in [0..n -> Seq(Bytes)] : History(files)
  BY DEF BatchInv
<1>4. out = files[n] /\ out \in Seq(Bytes)
  BY <1>1, <1>3 DEF History
<1> DEFINE P == Places(out, e.find)
           new == Exchanged(out, e.find, e.replace, P)
<1>5. ASSUME e.find # <<>>, e.replace # Missing
      PROVE  /\ c = Cardinality(P) /\ c \in Nat
             /\ Replaced(out, e.find, e.replace) = new /\ new \in Seq(Bytes)
  <2>1. e.find \in Seq(Bytes) /\ e.replace \in Seq(Bytes) /\ <<>> \in Seq(Bytes)
    BY <1>2, <1>5 DEF AnEdit
  <2>2. c = Cardinality(P) /\ c \in Nat
    BY <1>4, <1>5, <2>1, ScanIs DEF Count
  <2>3. Replaced(out, e.find, e.replace) = new /\ new \in Seq(Bytes)
    BY <1>4, <1>5, <2>1, ScanIs DEF Replaced
  <2> QED
    BY <2>2, <2>3
<1>6. P = {} <=> Cardinality(P) = 0
  <2>1. IsFiniteSet(P)
    <3>1. P \subseteq 1..Len(out) /\ Len(out) \in Nat
      BY <1>2, <1>4, PlacesAreTaken DEF AnEdit, Taken, Near
    <3>2. IsFiniteSet(1..Len(out))
      BY <3>1, FS_Interval
    <3> HIDE DEF P
    <3> QED
      BY <3>1, <3>2, FS_Subset
  <2> HIDE DEF P
  <2> QED
    BY <2>1, FS_EmptySet
<1>7. \/ e.replace = Missing /\ Refuse("io_error")
      \/ /\ e.replace # Missing /\ (e.find = <<>> \/ e.find = e.replace)
         /\ Refuse("invalid_argument")
      \/ /\ e.replace # Missing /\ e.find # <<>> /\ e.find # e.replace
         /\ \/ c = 0 /\ Refuse("no_match")
            \/ c > 1 /\ ~e.all /\ Refuse("ambiguous_match")
            \/ /\ c = 1 \/ (c > 1 /\ e.all)
               /\ out' = Replaced(out, e.find, e.replace)
               /\ counts' = Append(counts, c)
               /\ UNCHANGED outcome
  BY DEF ApplyEdit
<1> DEFINE Refused(code) ==
             /\ code = "no_match" => e.find # <<>> /\ P = {}
             /\ code = "ambiguous_match" => Cardinality(P) > 1 /\ ~e.all
             /\ code = "invalid_argument" => e.find \in {<<>>, e.replace}
             /\ code = "io_error" => e.replace = Missing
<1>8. ASSUME NEW code \in {"no_match", "ambiguous_match", "invalid_argument", "io_error"},
             Refuse(code), Refused(code)
      PROVE  BatchInv'
  <2>1. outcome' = code /\ counts' = counts /\ out' = out /\ code # "ok"
    BY <1>8 DEF Refuse
  <2>2. Verdict'
    BY <1>1, <1>8, <2>1 DEF Verdict
  <2> QED
    BY <1>1, <2>1, <2>2, RefusalKeeps
<1>9. CASE e.replace = Missing /\ Refuse("io_error")
  BY <1>8, <1>9
<1>10. CASE e.replace # Missing /\ (e.find = <<>> \/ e.find = e.replace)
            /\ Refuse("invalid_argument")
  BY <1>8, <1>10
<1>11. CASE e.replace # Missing /\ e.find # <<>> /\ c = 0 /\ Refuse("no_match")
  <2>1. Refused("no_match")
    <3>1. P = {}
      BY <1>5, <1>6, <1>11
    <3> QED
      BY <1>11, <3>1
  <2> QED
    BY <1>8, <1>11, <2>1
<1>12. CASE e.replace # Missing /\ e.find # <<>> /\ c > 1 /\ ~e.all /\ Refuse("ambiguous_match")
  <2>1. Refused("ambiguous_match")
    <3>1. Cardinality(P) > 1
      BY <1>5, <1>12
    <3> QED
      BY <1>12, <3>1
  <2> QED
    BY <1>8, <1>12, <2>1
<1>13. CASE /\ e.replace # Missing /\ e.find # <<>>
            /\ c = 1 \/ (c > 1 /\ e.all)
            /\ out' = Replaced(out, e.find, e.replace)
            /\ counts' = Append(counts, c)
            /\ UNCHANGED outcome
  <2>1. c = Cardinality(P) /\ c \in Nat /\ out' = new /\ new \in Seq(Bytes)
    BY <1>5, <1>13
  <2> HIDE DEF c
  <2>2. /\ counts' \in Seq(Nat) /\ Len(counts') = n + 1 /\ counts'[n + 1] = c
        /\ \A k \in 1..n : counts'[k] = counts[k]
    BY <1>1, <1>13, <2>1, AppendProperties
  <2>3. ABatch'
    BY <1>1, <2>2 DEF ABatch
  <2> DEFINE longer == [k \in 0..(n + 1) |-> IF k = n + 1 THEN new ELSE files[k]]
  <2>4. longer \in [0..Len(counts') -> Seq(Bytes)]
    BY <1>1, <1>3, <2>1, <2>2
  <2>5. /\ longer[n + 1] = new
        /\ \A k \in 0..n : longer[k] = files[k]
    BY <1>1
  <2> HIDE DEF longer
  <2>6. ASSUME NEW k \in 1..Len(counts')
        PROVE  Follows(longer[k - 1], longer[k], Edits'[k], counts'[k])
    <3>1. CASE k = n + 1
      <4>1. longer[k - 1] = out /\ longer[k] = new /\ counts'[k] = c /\ Edits'[k] = e
        BY <1>1, <1>4, <2>2, <2>5, <3>1
      <4>2. c = 1 \/ e.all
        BY <1>13
      <4>3. Follows(out, new, e, c)
        BY <2>1, <4>2 DEF Follows
      <4> QED
        BY <4>1, <4>3
    <3>2. CASE k # n + 1
      <4>1. k \in 1..n /\ k \in 0..n /\ k - 1 \in 0..n
        BY <1>1, <2>2, <3>2
      <4>2. longer[k - 1] = files[k - 1] /\ longer[k] = files[k] /\ counts'[k] = counts[k]
        BY <2>2, <2>5, <4>1
      <4> QED
        BY <1>1, <1>3, <4>1, <4>2 DEF History
    <3> QED
      BY <3>1, <3>2
  <2>7. longer[0] = job'.file /\ out' = longer[Len(counts')]
    <3>1. 0 \in 0..n
      BY <1>1
    <3> QED
      BY <1>1, <1>3, <2>1, <2>2, <2>5, <3>1 DEF History
  <2>8. Verdict'
    BY <1>1, <1>13 DEF Verdict
  <2> QED
    BY <2>3, <2>4, <2>6, <2>7, <2>8, Zenon DEF BatchInv, History
<1> QED
  BY <1>7, <1>9, <1>10, <1>11, <1>12, <1>13

LEMMA EndEditsKeeps ==
  ASSUME BatchInv, EndEdits
  PROVE  BatchInv'
<1>1. /\ job' = job /\ out' = out /\ counts' = counts /\ Edits' = Edits
      /\ Len(counts) = Len(Edits)
      /\ outcome' = IF Edits = <<>> THEN "invalid_argument" ELSE "ok"
  BY DEF EndEdits, Refuse, Edits
<1>2. Verdict'
  BY <1>1 DEF Verdict
<1> QED
  BY <1>1, <1>2, RefusalKeeps

LEMMA BatchSteps == BatchInv /\ [BatchNext]_vars => BatchInv'
<1> SUFFICES ASSUME BatchInv, [BatchNext]_vars PROVE BatchInv'
  OBVIOUS
<1>1. CASE ApplyEdit
  BY <1>1, ApplyEditKeeps
<1>2. CASE EndEdits
  BY <1>2, EndEditsKeeps
<1>3. CASE UNCHANGED vars
  <2>1. Verdict'
    BY <1>3 DEF BatchInv, Verdict, Edits, vars
  <2> QED
    BY <1>3, <2>1, RefusalKeeps DEF vars
<1> QED
  BY <1>1, <1>2, <1>3 DEF BatchNext

LEMMA AfterIs ==
  ASSUME ABatch, NEW files \in [0..Len(counts) -> Seq(Bytes)], History(files)
  PROVE  \A k \in 0..Len(counts) : After[k] = files[k]
<1> DEFINE m == Len(counts)
           Next1(k, before) == Exchanged(before, Edits[k].find, Edits[k].replace,
                                         Places(before, Edits[k].find))
           Eq(g) == g = [k \in 0..m |-> IF k = 0 THEN job.file ELSE Next1(k, g[k - 1])]
<1>1. m \in Nat
  BY DEF ABatch
<1>2. Eq(files)
  <2>1. files[0] = job.file /\ \A k \in 1..m : files[k] = Next1(k, files[k - 1])
    BY DEF History, Follows
  <2>2. files = [k \in 0..m |-> files[k]]
    OBVIOUS
  <2>3. \A k \in 0..m : k = 0 \/ k \in 1..m
    BY <1>1
  <2> HIDE DEF Next1
  <2>4. \A k \in 0..m : files[k] = IF k = 0 THEN job.file ELSE Next1(k, files[k - 1])
    BY <1>1, <2>1, <2>3
  <2> QED
    BY <2>2, <2>4
<1> DEFINE h == CHOOSE g : Eq(g)
<1>3. Eq(h)
  BY <1>2, Zenon
<1>4. After = h
  BY DEF After
<1> HIDE DEF h, Next1
<1>5. /\ \A k \in 0..m : h[k] = IF k = 0 THEN job.file ELSE Next1(k, h[k - 1])
      /\ \A k \in 0..m : files[k] = IF k = 0 THEN job.file ELSE Next1(k, files[k - 1])
  BY <1>2, <1>3, Zenon
<1> DEFINE T == {k \in Nat : k <= m => h[k] = files[k]}
<1>6. 0 \in T
  <2>1. 0 \in 0..m
    BY <1>1
  <2> QED
    BY <1>5, <2>1
<1>7. ASSUME NEW k \in Nat, k \in T PROVE k + 1 \in T
  <2>1. SUFFICES ASSUME k + 1 <= m PROVE h[k + 1] = files[k + 1]
    OBVIOUS
  <2>2. k + 1 \in 0..m /\ k + 1 # 0 /\ (k + 1) - 1 = k /\ k <= m
    BY <1>1, <2>1
  <2> QED
    BY <1>5, <1>7, <2>2
<1> HIDE DEF T
<1>8. Nat \subseteq T
  BY <1>6, <1>7, Induction
<1> QED
  BY <1>1, <1>4, <1>8 DEF T

LEMMA BatchExact == BatchInv => EditsExact
<1> SUFFICES ASSUME BatchInv, outcome # "going", Edits # <<>> PROVE EditsExact
  BY DEF EditsExact
<1>1. PICK files \in [0..Len(counts) -> Seq(Bytes)] : History(files)
  BY DEF BatchInv
<1>2. \A k \in 0..Len(counts) : After[k] = files[k]
  BY <1>1, AfterIs DEF BatchInv
<1>3. Len(counts) \in Nat
  BY DEF BatchInv, ABatch
<1>4. out = After[Len(counts)]
  BY <1>1, <1>2, <1>3 DEF History
<1>5. ASSUME NEW k \in 1..Len(counts)
      PROVE  /\ counts[k] = Cardinality(Places(After[k - 1], Edits[k].find))
             /\ counts[k] = 1 \/ Edits[k].all
  <2>1. k - 1 \in 0..Len(counts)
    BY <1>3
  <2>2. After[k - 1] = files[k - 1]
    BY <1>2, <2>1
  <2> QED
    BY <1>1, <2>2 DEF History, Follows
<1>6. Verdict
  BY DEF BatchInv
<1> QED
  BY <1>4, <1>5, <1>6 DEF EditsExact, Verdict
-----------------------------------------------------------------------------
(* How deep a position is. *)

LEMMA Distinct == Open # Close /\ Open # Comma /\ Close # Comma
BY Zenon DEF Open, Close, Comma

Turn(c) == IF c = Open THEN 1 ELSE IF c = Close THEN -1 ELSE 0

LEMMA DepthEmpty ==
  ASSUME NEW text, NEW from \in Int, NEW i \in Int, i < from
  PROVE  Depth(text, from, i) = 0
<1>1. {j \in from..i : text[j] = Open} = {} /\ {j \in from..i : text[j] = Close} = {}
  OBVIOUS
<1> QED
  BY <1>1, FS_EmptySet DEF Depth

Number(text, from, i, c) == Cardinality({j \in from..i : text[j] = c})

LEMMA NumberStep ==
  ASSUME NEW text, NEW from \in Int, NEW i \in Int, from <= i + 1, NEW c
  PROVE  /\ Number(text, from, i, c) \in Nat
         /\ Number(text, from, i + 1, c) =
              Number(text, from, i, c) + (IF text[i + 1] = c THEN 1 ELSE 0)
<1> DEFINE S == {j \in from..i : text[j] = c}
           T == {j \in from..(i + 1) : text[j] = c}
<1>1. IsFiniteSet(S) /\ Cardinality(S) \in Nat
  <2>1. IsFiniteSet(from..i) /\ S \subseteq from..i
    BY FS_Interval
  <2> HIDE DEF S
  <2> QED
    BY <2>1, FS_Subset, FS_CardinalityType
<1>2. i + 1 \notin S /\ T = IF text[i + 1] = c THEN S \cup {i + 1} ELSE S
  OBVIOUS
<1>3. Number(text, from, i, c) = Cardinality(S) /\ Number(text, from, i + 1, c) = Cardinality(T)
  BY DEF Number
<1> HIDE DEF S, T
<1>4. Cardinality(S \cup {i + 1}) = Cardinality(S) + 1
  BY <1>1, <1>2, FS_AddElement
<1> QED
  BY <1>1, <1>2, <1>3, <1>4

LEMMA DepthStep ==
  ASSUME NEW text, NEW from \in Int, NEW i \in Int, from <= i + 1
  PROVE  /\ Depth(text, from, i) \in Int
         /\ Depth(text, from, i + 1) = Depth(text, from, i) + Turn(text[i + 1])
<1>1. \A c : /\ Number(text, from, i, c) \in Nat
             /\ Number(text, from, i + 1, c) =
                  Number(text, from, i, c) + (IF text[i + 1] = c THEN 1 ELSE 0)
  BY NumberStep
<1>2. \A k : Depth(text, from, k) = Number(text, from, k, Open) - Number(text, from, k, Close)
  BY DEF Depth, Number
<1> QED
  BY <1>1, <1>2, Distinct DEF Turn

\* Two texts that agree from here on go up and down together.
Agree(s, x, t, y, m) == \A i \in 1..m : s[x + i] = t[y + i]
UpAndDown(s, f, x, t, g, y, m) ==
  \A i \in 0..m : Depth(s, f, x + i) - Depth(s, f, x) = Depth(t, g, y + i) - Depth(t, g, y)

LEMMA DepthAlong ==
  ASSUME NEW s, NEW t, NEW f \in Int, NEW g \in Int, NEW x \in Int, NEW y \in Int,
         f <= x + 1, g <= y + 1, NEW m \in Nat, Agree(s, x, t, y, m)
  PROVE  UpAndDown(s, f, x, t, g, y, m)
<1> DEFINE Same(i) == Depth(s, f, x + i) - Depth(s, f, x) = Depth(t, g, y + i) - Depth(t, g, y)
           T == {i \in Nat : i <= m => Same(i)}
<1>1. \A i \in Nat : Depth(s, f, x + i) \in Int /\ Depth(t, g, y + i) \in Int
  BY DepthStep
<1>2. Same(0)
  <2>1. x + 0 = x /\ y + 0 = y /\ Depth(s, f, x + 0) \in Int /\ Depth(t, g, y + 0) \in Int
    BY <1>1
  <2> QED
    BY <2>1
<1>3. ASSUME NEW i \in Nat, i + 1 <= m, Same(i) PROVE Same(i + 1)
  <2>1. s[x + (i + 1)] = t[y + (i + 1)]
    <3>1. i + 1 \in 1..m
      BY <1>3
    <3> QED
      BY <3>1 DEF Agree
  <2>2. /\ Depth(s, f, (x + i) + 1) = Depth(s, f, x + i) + Turn(s[(x + i) + 1])
        /\ Depth(t, g, (y + i) + 1) = Depth(t, g, y + i) + Turn(t[(y + i) + 1])
    BY DepthStep
  <2>3. (x + i) + 1 = x + (i + 1) /\ (y + i) + 1 = y + (i + 1)
    OBVIOUS
  <2>4. Depth(s, f, x) \in Int /\ Depth(t, g, y) \in Int
    <3>1. x + 0 = x /\ y + 0 = y
      OBVIOUS
    <3> QED
      BY <1>1, <3>1
  <2>5. \A c : Turn(c) \in Int
    BY Distinct DEF Turn
  <2> QED
    BY <1>1, <1>3, <2>1, <2>2, <2>3, <2>4, <2>5
<1> HIDE DEF Same
<1>4. 0 \in T /\ \A i \in Nat : i \in T => i + 1 \in T
  BY <1>2, <1>3
<1> HIDE DEF T
<1>5. Nat \subseteq T
  BY <1>4, Induction
<1> QED
  BY <1>5 DEF T, Same, UpAndDown

LEMMA DepthOfConcat ==
  ASSUME NEW a \in Patterns, NEW b \in Patterns
  PROVE  /\ \A i \in 0..Len(a) : Depth(a \o b, 1, i) = Depth(a, 1, i)
         /\ \A i \in 0..Len(b) :
              /\ Depth(a \o b, 1, Len(a) + i) = Depth(a, 1, Len(a)) + Depth(b, 1, i)
              /\ Depth(a \o b, Len(a) + 1, Len(a) + i) = Depth(b, 1, i)
         /\ \A i \in 0..Len(a) : Depth(a, 1, i) \in Int
         /\ \A i \in 0..Len(b) : Depth(b, 1, i) \in Int
<1> DEFINE m == Len(a)
           n == Len(b)
           ab == a \o b
<1>1. m \in Nat /\ n \in Nat
  BY DEF Patterns
<1>2. (\A i \in 1..m : ab[0 + i] = a[0 + i]) /\ (\A i \in 1..n : ab[m + i] = b[0 + i])
  <2>1. \A i \in 1..m + n : ab[i] = IF i <= m THEN a[i] ELSE b[i - m]
    BY ConcatProperties DEF Patterns
  <2>2. \A i \in 1..m : 0 + i = i /\ i \in 1..m + n /\ i <= m
    BY <1>1
  <2>3. \A i \in 1..n : m + i \in 1..m + n /\ ~(m + i <= m) /\ (m + i) - m = 0 + i
    BY <1>1
  <2> HIDE DEF m, n, ab
  <2> QED
    BY <2>1, <2>2, <2>3
<1> HIDE DEF m, n, ab
<1>a. /\ Agree(ab, 0, a, 0, m) /\ Agree(ab, m, b, 0, n)
      /\ 0 \in Int /\ 1 \in Int /\ m \in Int /\ m + 1 \in Int
      /\ 1 <= 0 + 1 /\ 1 <= m + 1 /\ m + 1 <= m + 1
  BY <1>1, <1>2 DEF Agree
<1>3. UpAndDown(ab, 1, 0, a, 1, 0, m)
  BY <1>1, <1>a, DepthAlong
<1>4. UpAndDown(ab, 1, m, b, 1, 0, n)
  BY <1>1, <1>a, DepthAlong
<1>5. UpAndDown(ab, m + 1, m, b, 1, 0, n)
  BY <1>1, <1>a, DepthAlong
<1>6. /\ Depth(ab, 1, 0) = 0 /\ Depth(a, 1, 0) = 0 /\ Depth(b, 1, 0) = 0
      /\ Depth(ab, m + 1, m) = 0
  BY <1>1, DepthEmpty
<1>7. /\ \A i \in Nat : Depth(ab, 1, i) \in Int /\ Depth(a, 1, i) \in Int /\ Depth(b, 1, i) \in Int
      /\ \A i \in Nat : Depth(ab, m + 1, m + i) \in Int
  BY <1>1, DepthStep
<1>8. \A i \in 0..m : i \in Nat /\ 0 + i = i
  BY <1>1
<1>9. \A i \in 0..n : i \in Nat /\ 0 + i = i /\ m + i \in Nat
  BY <1>1
<1>10. \A i \in 0..m : Depth(ab, 1, i) = Depth(a, 1, i)
  BY <1>3, <1>6, <1>7, <1>8 DEF UpAndDown
<1>11. Depth(ab, 1, m) = Depth(a, 1, m) /\ Depth(a, 1, m) \in Int
  BY <1>1, <1>7, <1>10
<1>12. \A i \in 0..n : Depth(ab, 1, m + i) = Depth(a, 1, m) + Depth(b, 1, i)
  BY <1>4, <1>6, <1>7, <1>9, <1>11 DEF UpAndDown
<1>13. \A i \in 0..n : Depth(ab, m + 1, m + i) = Depth(b, 1, i)
  BY <1>5, <1>6, <1>7, <1>9 DEF UpAndDown
<1> QED
  BY <1>7, <1>8, <1>9, <1>10, <1>12, <1>13 DEF m, n, ab
-----------------------------------------------------------------------------
(* Texts that close every brace they open, and hide their commas. *)

Level(w) ==
  /\ w \in Patterns
  /\ \A i \in 0..Len(w) : Depth(w, 1, i) >= 0
  /\ Depth(w, 1, Len(w)) = 0

Closed(w) == Level(w) /\ \A i \in 1..Len(w) : w[i] = Comma => Depth(w, 1, i) > 0

LEMMA EmptyIsClosed == Closed(<<>>)
<1>1. <<>> \in Patterns /\ Len(<<>>) = 0
  BY DEF Patterns
<1> QED
  BY <1>1, DepthEmpty DEF Closed, Level

LEMMA OneCharacter ==
  ASSUME NEW c \in Characters
  PROVE  /\ <<c>> \in Patterns /\ Len(<<c>>) = 1 /\ <<c>>[1] = c
         /\ Depth(<<c>>, 1, 0) = 0 /\ Depth(<<c>>, 1, 1) = Turn(c)
<1>1. <<c>> \in Patterns /\ Len(<<c>>) = 1 /\ <<c>>[1] = c
  BY DEF Patterns
<1>2. Depth(<<c>>, 1, 0) = 0 /\ Depth(<<c>>, 1, 0 + 1) = Depth(<<c>>, 1, 0) + Turn(<<c>>[0 + 1])
  BY DepthEmpty, DepthStep
<1>3. Turn(c) \in Int
  BY Distinct DEF Turn
<1> QED
  BY <1>1, <1>2, <1>3

LEMMA CommaIsLevel == Level(<<Comma>>)
<1>1. Comma \in Characters
  BY ArgumentsAssumption
<1>2. Turn(Comma) = 0
  BY Distinct DEF Turn
<1>3. \A i \in 0..1 : i = 0 \/ i = 1
  OBVIOUS
<1> QED
  BY <1>1, <1>2, <1>3, OneCharacter DEF Level

LEMMA CharacterIsClosed ==
  ASSUME NEW c \in Characters \ {Open, Close, Comma}
  PROVE  Closed(<<c>>)
<1>1. Turn(c) = 0
  BY Distinct DEF Turn
<1>2. \A i \in 0..1 : i = 0 \/ i = 1
  OBVIOUS
<1>3. \A i \in 1..1 : i = 1
  OBVIOUS
<1> QED
  BY <1>1, <1>2, <1>3, OneCharacter DEF Level, Closed

LEMMA ConcatIsLevel ==
  ASSUME NEW a, NEW b, Level(a), Level(b)
  PROVE  Level(a \o b)
<1>1. /\ a \in Patterns /\ b \in Patterns /\ a \o b \in Patterns
      /\ Len(a) \in Nat /\ Len(b) \in Nat /\ Len(a \o b) = Len(a) + Len(b)
  BY ConcatProperties DEF Level, Patterns
<1>2. /\ \A i \in 0..Len(a) : Depth(a \o b, 1, i) = Depth(a, 1, i)
      /\ \A i \in 0..Len(b) : Depth(a \o b, 1, Len(a) + i) = 0 + Depth(b, 1, i)
      /\ \A i \in 0..Len(b) : Depth(b, 1, i) \in Int
  BY <1>1, DepthOfConcat DEF Level
<1>3. ASSUME NEW i \in 0..(Len(a) + Len(b)) PROVE Depth(a \o b, 1, i) >= 0
  <2>1. i \in 0..Len(a) \/ (i - Len(a) \in 0..Len(b) /\ Len(a) + (i - Len(a)) = i)
    BY <1>1
  <2>2. /\ \A k \in 0..Len(a) : Depth(a, 1, k) >= 0
        /\ \A k \in 0..Len(b) : Depth(b, 1, k) >= 0
    BY DEF Level
  <2>3. CASE i \in 0..Len(a)
    BY <1>2, <2>2, <2>3
  <2>4. CASE i - Len(a) \in 0..Len(b) /\ Len(a) + (i - Len(a)) = i
    <3>1. Depth(a \o b, 1, Len(a) + (i - Len(a))) = 0 + Depth(b, 1, i - Len(a))
      BY <1>2, <2>4
    <3> QED
      BY <1>2, <2>2, <2>4, <3>1
  <2> QED
    BY <2>1, <2>3, <2>4
<1>4. Depth(a \o b, 1, Len(a) + Len(b)) = 0
  <2>1. Len(b) \in 0..Len(b)
    BY <1>1
  <2> QED
    BY <1>2, <2>1 DEF Level
<1> QED
  BY <1>1, <1>3, <1>4 DEF Level

LEMMA ConcatIsClosed ==
  ASSUME NEW a, NEW b, Closed(a), Closed(b)
  PROVE  Closed(a \o b)
<1>1. Level(a) /\ Level(b) /\ Level(a \o b)
  BY ConcatIsLevel DEF Closed
<1>2. /\ a \in Patterns /\ b \in Patterns
      /\ Len(a) \in Nat /\ Len(b) \in Nat /\ Len(a \o b) = Len(a) + Len(b)
      /\ \A i \in 1..Len(a) + Len(b) : (a \o b)[i] = IF i <= Len(a) THEN a[i] ELSE b[i - Len(a)]
  BY <1>1, ConcatProperties DEF Level, Patterns
<1>3. /\ \A i \in 0..Len(a) : Depth(a \o b, 1, i) = Depth(a, 1, i)
      /\ \A i \in 0..Len(b) : Depth(a \o b, 1, Len(a) + i) = 0 + Depth(b, 1, i)
      /\ \A i \in 0..Len(b) : Depth(b, 1, i) \in Int
  BY <1>1, <1>2, DepthOfConcat DEF Level
<1>4. ASSUME NEW i \in 1..(Len(a) + Len(b)), (a \o b)[i] = Comma PROVE Depth(a \o b, 1, i) > 0
  <2>1. CASE i <= Len(a)
    <3>1. i \in 1..Len(a) /\ i \in 0..Len(a) /\ a[i] = Comma
      BY <1>2, <1>4, <2>1
    <3> QED
      BY <1>3, <3>1 DEF Closed
  <2>2. CASE ~(i <= Len(a))
    <3>1. /\ i - Len(a) \in 1..Len(b) /\ i - Len(a) \in 0..Len(b) /\ b[i - Len(a)] = Comma
          /\ Len(a) + (i - Len(a)) = i
      BY <1>2, <1>4, <2>2
    <3>2. Depth(b, 1, i - Len(a)) > 0
      BY <3>1 DEF Closed
    <3>3. Depth(a \o b, 1, Len(a) + (i - Len(a))) = 0 + Depth(b, 1, i - Len(a))
      BY <1>3, <3>1
    <3> QED
      BY <1>3, <3>1, <3>2, <3>3
  <2> QED
    BY <2>1, <2>2
<1> QED
  BY <1>1, <1>2, <1>4 DEF Closed
-----------------------------------------------------------------------------
(* Groups: where they open and where they close *)

LEMMA Bracketed ==
  ASSUME NEW g, Level(g)
  PROVE  LET t == <<Open>> \o g \o <<Close>>  n == Len(g) IN
         /\ t \in Patterns /\ n \in Nat /\ Len(t) = n + 2
         /\ t[1] = Open /\ t[n + 2] = Close /\ \A i \in 1..n : t[i + 1] = g[i]
         /\ Depth(t, 1, 0) = 0 /\ Depth(t, 1, n + 2) = 0
         /\ \A i \in 0..n : Depth(t, 1, i + 1) \in Int /\ Depth(t, 1, i + 1) >= 1
<1> DEFINE n == Len(g)
           a == <<Open>> \o g
           t == a \o <<Close>>
<1>1. Open \in Characters /\ Close \in Characters
  BY ArgumentsAssumption
<1>2. /\ <<Open>> \in Patterns /\ Len(<<Open>>) = 1 /\ <<Open>>[1] = Open
      /\ Depth(<<Open>>, 1, 1) = 1 /\ Depth(<<Open>>, 1, 0) = 0
      /\ <<Close>> \in Patterns /\ Len(<<Close>>) = 1 /\ <<Close>>[1] = Close
      /\ Depth(<<Close>>, 1, 1) = -1
  BY <1>1, OneCharacter, Distinct DEF Turn
<1>3. g \in Patterns /\ n \in Nat
  BY DEF Level, Patterns
<1>4. /\ a \in Patterns /\ Len(a) = 1 + n
      /\ \A i \in 1..(1 + n) : a[i] = IF i <= 1 THEN <<Open>>[i] ELSE g[i - 1]
  BY <1>2, <1>3, ConcatProperties DEF Patterns
<1>5. \A i \in 0..n : Depth(a, 1, 1 + i) = 1 + Depth(g, 1, i) /\ Depth(g, 1, i) \in Int
  <2> DEFINE o == <<Open>>
  <2>1. o \in Patterns /\ Len(o) = 1 /\ Depth(o, 1, 1) = 1
    BY <1>2
  <2> HIDE DEF o, n
  <2>2. /\ \A i \in 0..Len(g) : Depth(o \o g, 1, Len(o) + i) = Depth(o, 1, Len(o)) + Depth(g, 1, i)
        /\ \A i \in 0..Len(g) : Depth(g, 1, i) \in Int
    BY <1>3, <2>1, DepthOfConcat
  <2> QED
    BY <2>1, <2>2 DEF o, n
<1>6. Depth(a, 1, 0) = 0
  BY DepthEmpty
<1> HIDE DEF a
<1>7. /\ t \in Patterns /\ Len(t) = n + 2
      /\ \A i \in 1..((1 + n) + 1) : t[i] = IF i <= 1 + n THEN a[i] ELSE <<Close>>[i - (1 + n)]
  BY <1>2, <1>3, <1>4, ConcatProperties DEF Patterns
<1>8. /\ \A i \in 0..(1 + n) : Depth(t, 1, i) = Depth(a, 1, i)
      /\ Depth(t, 1, (1 + n) + 1) = Depth(a, 1, 1 + n) + -1
  <2>1. 1 \in 0..1
    OBVIOUS
  <2> QED
    BY <1>2, <1>4, <2>1, DepthOfConcat
<1> HIDE DEF t, n
<1>9. t[1] = Open /\ t[n + 2] = Close /\ \A i \in 1..n : t[i + 1] = g[i]
  <2>1. t[1] = Open
    BY <1>2, <1>3, <1>4, <1>7
  <2>2. t[n + 2] = Close
    BY <1>2, <1>3, <1>7
  <2>3. ASSUME NEW i \in 1..n PROVE t[i + 1] = g[i]
    <3>1. i + 1 \in 1..(1 + n) /\ i + 1 \in 1..((1 + n) + 1) /\ (i + 1) - 1 = i /\ ~(i + 1 <= 1)
      BY <1>3
    <3> QED
      BY <1>3, <1>4, <1>7, <3>1
  <2> QED
    BY <2>1, <2>2, <2>3
<1>10. Depth(g, 1, n) = 0 /\ \A i \in 0..n : Depth(g, 1, i) >= 0
  BY DEF Level, n
<1>11. Depth(t, 1, 0) = 0 /\ Depth(t, 1, n + 2) = 0
  <2>1. n \in 0..n /\ 0 \in 0..(1 + n) /\ (1 + n) + 1 = n + 2
    BY <1>3
  <2> QED
    BY <1>5, <1>6, <1>8, <1>10, <2>1
<1>12. ASSUME NEW i \in 0..n PROVE Depth(t, 1, i + 1) \in Int /\ Depth(t, 1, i + 1) >= 1
  <2>1. i + 1 \in 0..(1 + n) /\ i + 1 = 1 + i
    BY <1>3
  <2> QED
    BY <1>5, <1>8, <1>10, <2>1
<1> QED
  BY <1>3, <1>7, <1>9, <1>11, <1>12 DEF t, a, n

LEMMA GroupIsClosed ==
  ASSUME NEW g, Level(g)
  PROVE  Closed(<<Open>> \o g \o <<Close>>)
<1> DEFINE n == Len(g)
           t == <<Open>> \o g \o <<Close>>
<1>1. /\ t \in Patterns /\ n \in Nat /\ Len(t) = n + 2
      /\ t[1] = Open /\ t[n + 2] = Close
      /\ Depth(t, 1, 0) = 0 /\ Depth(t, 1, n + 2) = 0
      /\ \A i \in 0..n : Depth(t, 1, i + 1) \in Int /\ Depth(t, 1, i + 1) >= 1
  BY Bracketed
<1> HIDE DEF t, n
<1>3. ASSUME NEW i \in 1..(n + 2), t[i] = Comma PROVE Depth(t, 1, i) > 0
  <2>1. i # n + 2
    BY <1>1, <1>3, Distinct
  <2>2. i - 1 \in 0..n /\ (i - 1) + 1 = i
    BY <1>1, <2>1
  <2>3. Depth(t, 1, (i - 1) + 1) \in Int /\ Depth(t, 1, (i - 1) + 1) >= 1
    BY <1>1, <2>2
  <2> QED
    BY <2>2, <2>3
<1>4. Level(t)
  <2>1. ASSUME NEW i \in 0..(n + 2) PROVE Depth(t, 1, i) >= 0
    <3>1. CASE i = 0 \/ i = n + 2
      <4>1. Depth(t, 1, i) = 0
        BY <1>1, <3>1
      <4> QED
        BY <4>1
    <3>2. CASE i # 0 /\ i # n + 2
      <4>1. i - 1 \in 0..n /\ (i - 1) + 1 = i
        BY <1>1, <3>2
      <4>2. Depth(t, 1, (i - 1) + 1) \in Int /\ Depth(t, 1, (i - 1) + 1) >= 1
        BY <1>1, <4>1
      <4> QED
        BY <4>1, <4>2
    <3> QED
      BY <3>1, <3>2
  <2> QED
    BY <1>1, <2>1 DEF Level
<1>5. Closed(t)
  BY <1>1, <1>3, <1>4 DEF Closed
<1> QED
  BY <1>5 DEF t
-----------------------------------------------------------------------------
(* The first group of a text. *)

LEMMA MinIs ==
  ASSUME NEW S \in SUBSET Int, NEW k \in S, \A y \in S : k <= y
  PROVE  Min(S) = k
<1>1. \A x \in S : (\A y \in S : x <= y) => x = k
  OBVIOUS
<1>2. \E x \in S : \A y \in S : x <= y
  OBVIOUS
<1>3. Min(S) \in S /\ \A y \in S : Min(S) <= y
  BY <1>2 DEF Min
<1> QED
  BY <1>1, <1>3

LEMMA OpeningIs ==
  ASSUME NEW text \in Patterns
  PROVE  /\ Opening(text) \in 0..Len(text)
         /\ Opening(text) = 0 <=> \A i \in 1..Len(text) : text[i] # Open
         /\ \A k \in 1..Len(text) :
              text[k] = Open /\ (\A i \in 1..Len(text) : i < k => text[i] # Open)
                <=> Opening(text) = k
<1> DEFINE S == {i \in 1..Len(text) : text[i] = Open}
<1>1. Opening(text) = IF S # {} THEN Min(S) ELSE 0
  BY DEF Opening, SelectInSeq
<1>2. Len(text) \in Nat /\ S \subseteq Nat /\ S \in SUBSET Int
  BY DEF Patterns
<1>3. CASE S = {}
  <2>1. Opening(text) = 0 /\ \A i \in 1..Len(text) : text[i] # Open
    BY <1>1, <1>3
  <2> HIDE DEF S
  <2> QED
    BY <1>2, <2>1
<1>4. CASE S # {}
  <2>1. PICK k \in S : \A y \in S : k <= y
    BY <1>2, <1>4, LeastNumber
  <2>2. Opening(text) = k
    <3> HIDE DEF S
    <3> QED
      BY <1>1, <1>2, <1>4, <2>1, MinIs
  <2>3. k \in 1..Len(text) /\ text[k] = Open /\ \A i \in 1..Len(text) : i < k => text[i] # Open
    <3>1. \A i \in 1..Len(text) : text[i] = Open => i \in S
      OBVIOUS
    <3> QED
      BY <1>2, <2>1, <3>1
  <2> HIDE DEF S
  <2>4. ASSUME NEW h \in 1..Len(text), text[h] = Open, \A i \in 1..Len(text) : i < h => text[i] # Open
        PROVE  h = k
    <3>1. ~(h < k) /\ ~(k < h)
      BY <2>3, <2>4
    <3> QED
      BY <1>2, <2>3, <3>1
  <2> QED
    BY <1>2, <2>2, <2>3, <2>4
<1> QED
  BY <1>3, <1>4

LEMMA MatchingBraceIs ==
  ASSUME NEW text \in Patterns, NEW start \in 1..Len(text)
  PROVE  /\ \/ MatchingBrace(text, start) = 0
            \/ MatchingBrace(text, start) \in start..Len(text)
         /\ MatchingBrace(text, start) = 0
              <=> \A i \in start..Len(text) : Depth(text, start, i) # 0
         /\ \A k \in start..Len(text) :
              /\ Depth(text, start, k) = 0
              /\ \A i \in start..Len(text) : i < k => Depth(text, start, i) # 0
              => MatchingBrace(text, start) = k
<1> DEFINE S == {i \in start..Len(text) : Depth(text, start, i) = 0}
<1>1. MatchingBrace(text, start) = IF S = {} THEN 0 ELSE Min(S)
  BY DEF MatchingBrace
<1>2. Len(text) \in Nat /\ start \in Nat /\ start > 0 /\ S \subseteq Nat /\ S \in SUBSET Int
  BY DEF Patterns
<1>3. CASE S = {}
  <2>1. MatchingBrace(text, start) = 0 /\ \A i \in start..Len(text) : Depth(text, start, i) # 0
    BY <1>1, <1>3
  <2> QED
    BY <1>2, <2>1
<1>4. CASE S # {}
  <2>1. PICK k \in S : \A y \in S : k <= y
    BY <1>2, <1>4, LeastNumber
  <2>2. MatchingBrace(text, start) = k
    <3> HIDE DEF S
    <3> QED
      BY <1>1, <1>2, <1>4, <2>1, MinIs
  <2>3. k \in start..Len(text) /\ Depth(text, start, k) = 0
        /\ \A i \in start..Len(text) : Depth(text, start, i) = 0 => k <= i
    <3>1. \A i \in start..Len(text) : Depth(text, start, i) = 0 => i \in S
      OBVIOUS
    <3> QED
      BY <1>2, <2>1, <3>1
  <2> HIDE DEF S
  <2>4. ASSUME NEW h \in start..Len(text), Depth(text, start, h) = 0,
               \A i \in start..Len(text) : i < h => Depth(text, start, i) # 0
        PROVE  h = k
    <3>1. ~(k < h) /\ k <= h
      BY <2>3, <2>4
    <3> QED
      BY <1>2, <2>3, <3>1
  <2> QED
    BY <1>2, <2>2, <2>3, <2>4
<1> QED
  BY <1>3, <1>4

NoOpening(p) == p \in Patterns /\ \A i \in 1..Len(p) : p[i] # Open

LEMMA FirstOfConcat ==
  ASSUME NEW p, NoOpening(p), NEW t \in Patterns
  PROVE  /\ Opening(p \o t) = IF Opening(t) = 0 THEN 0 ELSE Len(p) + Opening(t)
         /\ Closing(t) = 0 => Closing(p \o t) = 0
<1> DEFINE m == Len(p)
           n == Len(t)
           pt == p \o t
<1>1. /\ p \in Patterns /\ pt \in Patterns /\ m \in Nat /\ n \in Nat /\ Len(pt) = m + n
      /\ \A i \in 1..m + n : pt[i] = IF i <= m THEN p[i] ELSE t[i - m]
  BY ConcatProperties DEF NoOpening, Patterns
<1>2. Opening(t) \in 0..n
  BY OpeningIs
<1> HIDE DEF m, n, pt
<1>3. \A i \in 1..m : p[i] # Open
  BY DEF NoOpening, m
<1>4. Opening(pt) = IF Opening(t) = 0 THEN 0 ELSE m + Opening(t)
  <2>1. CASE Opening(t) = 0
    <3>1. \A i \in 1..n : t[i] # Open
      BY <2>1, OpeningIs DEF n
    <3>2. ASSUME NEW i \in 1..m + n PROVE pt[i] # Open
      <4>1. i \in 1..m \/ i - m \in 1..n
        BY <1>1
      <4> QED
        BY <1>1, <1>3, <3>1, <4>1
    <3> QED
      BY <1>1, <2>1, <3>2, OpeningIs
  <2>2. CASE Opening(t) # 0
    <3> DEFINE k == Opening(t)
    <3>1. k \in 1..n
      BY <1>1, <1>2, <2>2
    <3>2. t[k] = Open /\ \A i \in 1..n : i < k => t[i] # Open
      BY <3>1, OpeningIs DEF n
    <3> HIDE DEF k
    <3>3. m + k \in 1..m + n /\ pt[m + k] = Open
      BY <1>1, <3>1, <3>2
    <3>4. ASSUME NEW i \in 1..m + n, i < m + k PROVE pt[i] # Open
      <4>1. i \in 1..m \/ (i - m \in 1..n /\ i - m < k)
        BY <1>1, <3>1, <3>4
      <4> QED
        BY <1>1, <1>3, <3>2, <4>1
    <3>5. Opening(pt) = m + k
      BY <1>1, <3>3, <3>4, OpeningIs
    <3> QED
      BY <2>2, <3>5 DEF k
  <2> QED
    BY <2>1, <2>2
<1>5. ASSUME Closing(t) = 0 PROVE Closing(pt) = 0
  <2>1. CASE Opening(t) = 0
    BY <1>4, <2>1 DEF Closing
  <2>2. CASE Opening(t) # 0
    <3> DEFINE k == Opening(t)
    <3>1. k \in 1..n /\ MatchingBrace(t, k) = 0
      BY <1>1, <1>2, <1>5, <2>2 DEF Closing
    <3> HIDE DEF k
    <3>2. \A i \in k..n : Depth(t, k, i) # 0
      BY <3>1, MatchingBraceIs DEF n
    <3>3. UpAndDown(pt, m + k, (m + k) - 1, t, k, k - 1, n - (k - 1))
      <4>1. /\ m + k \in Int /\ k \in Int /\ (m + k) - 1 \in Int /\ k - 1 \in Int
            /\ m + k <= ((m + k) - 1) + 1 /\ k <= (k - 1) + 1 /\ n - (k - 1) \in Nat
        BY <1>1, <3>1
      <4>2. ASSUME NEW i \in 1..(n - (k - 1)) PROVE pt[((m + k) - 1) + i] = t[(k - 1) + i]
        <5>1. /\ ((m + k) - 1) + i \in 1..m + n /\ ~(((m + k) - 1) + i <= m)
              /\ (((m + k) - 1) + i) - m = (k - 1) + i
          BY <1>1, <3>1
        <5> QED
          BY <1>1, <5>1
      <4>3. Agree(pt, (m + k) - 1, t, k - 1, n - (k - 1))
        BY <4>2 DEF Agree
      <4> QED
        BY <4>1, <4>3, DepthAlong
    <3>4. ASSUME NEW i \in (m + k)..(m + n) PROVE Depth(pt, m + k, i) # 0
      <4>1. /\ i - (m + k) + 1 \in 0..(n - (k - 1)) /\ ((m + k) - 1) + (i - (m + k) + 1) = i
            /\ (k - 1) + (i - (m + k) + 1) = i - m /\ i - m \in k..n
        BY <1>1, <3>1
      <4>2. Depth(pt, m + k, (m + k) - 1) = 0 /\ Depth(t, k, k - 1) = 0
        BY <1>1, <3>1, DepthEmpty
      <4>3. Depth(pt, m + k, i) - Depth(pt, m + k, (m + k) - 1)
            = Depth(t, k, i - m) - Depth(t, k, k - 1)
        BY <3>3, <4>1 DEF UpAndDown
      <4>4. Depth(pt, m + k, i) \in Int /\ Depth(t, k, i - m) \in Int
        <5>1. m + k \in Int /\ k \in Int /\ i \in Int /\ i - m \in Int /\ m + k <= i + 1
              /\ k <= (i - m) + 1
          BY <1>1, <3>1
        <5> QED
          BY <5>1, DepthStep
      <4> QED
        BY <3>2, <4>1, <4>2, <4>3, <4>4
    <3>5. m + k \in 1..Len(pt) /\ Opening(pt) = m + k
      BY <1>1, <1>4, <2>2, <3>1 DEF k
    <3>6. MatchingBrace(pt, m + k) = 0
      BY <1>1, <3>4, <3>5, MatchingBraceIs
    <3> QED
      BY <3>5, <3>6 DEF Closing
  <2> QED
    BY <2>1, <2>2
<1> QED
  BY <1>4, <1>5 DEF m, pt

LEMMA Slice ==
  ASSUME NEW text \in Patterns, NEW m \in Nat, NEW w \in Patterns, m + Len(w) <= Len(text),
         \A i \in 1..Len(w) : text[m + i] = w[i]
  PROVE  SubSeq(text, m + 1, m + Len(w)) = w
<1> DEFINE n == Len(w)
           lo == m + 1
           hi == m + n
           s == SubSeq(text, lo, hi)
<1>1. n \in Nat /\ Len(text) \in Nat /\ lo \in Int /\ hi \in Int
  BY DEF Patterns
<1>2. \A i \in lo..hi : text[i] \in Characters
  <2>1. \A i \in lo..hi : i \in 1..Len(text)
    BY <1>1
  <2> HIDE DEF lo, hi
  <2> QED
    BY <2>1, ElementOfSeq DEF Patterns
<1>3. (lo <= hi \/ n = 0) /\ hi - lo + 1 = n /\ \A i \in 1..n : lo + i - 1 = m + i
  BY <1>1
<1> HIDE DEF lo, hi
<1>4. /\ s \in Seq(Characters)
      /\ Len(s) = IF lo <= hi THEN hi - lo + 1 ELSE 0
      /\ \A i \in 1..(hi - lo + 1) : s[i] = text[lo + i - 1]
  BY <1>1, <1>2, SubSeqProperties
<1> HIDE DEF s
<1>5. Len(s) = n /\ \A i \in 1..n : s[i] = w[i]
  BY <1>1, <1>3, <1>4 DEF n
<1>6. w \in Seq(Characters)
  BY DEF Patterns
<1>7. s = w
  BY <1>4, <1>5, <1>6, SeqEqual DEF n
<1> QED
  BY <1>7 DEF s, lo, hi, n

\* A group, with what is before it and what is after it.
Around(p, g, r) == p \o ((<<Open>> \o g \o <<Close>>) \o r)

\* The text is taken apart into these.
Found(text, p, g, r) ==
  /\ text \in Patterns /\ Closing(text) # 0
  /\ SubSeq(text, 1, Opening(text) - 1) = p
  /\ SubSeq(text, Opening(text) + 1, Closing(text) - 1) = g
  /\ SubSeq(text, Closing(text) + 1, Len(text)) = r

LEMMA GroupFound ==
  ASSUME NEW p, NoOpening(p), NEW g, Level(g), NEW r \in Patterns
  PROVE  Found(Around(p, g, r), p, g, r)
<1> DEFINE t == <<Open>> \o g \o <<Close>>
           tr == t \o r
           text == p \o tr
           m == Len(p)
           n == Len(g)
           e == Len(r)
<1>1. /\ t \in Patterns /\ n \in Nat /\ Len(t) = n + 2
      /\ t[1] = Open /\ \A i \in 1..n : t[i + 1] = g[i]
      /\ Depth(t, 1, 0) = 0 /\ Depth(t, 1, n + 2) = 0
      /\ \A i \in 0..n : Depth(t, 1, i + 1) \in Int /\ Depth(t, 1, i + 1) >= 1
  BY Bracketed
<1> HIDE DEF t
<1>2. /\ tr \in Patterns /\ e \in Nat /\ Len(tr) = n + 2 + e
      /\ \A i \in 1..(n + 2) + e : tr[i] = IF i <= n + 2 THEN t[i] ELSE r[i - (n + 2)]
  <2>1. /\ tr \in Patterns /\ e \in Nat /\ Len(tr) = Len(t) + e
        /\ \A i \in 1..Len(t) + e : tr[i] = IF i <= Len(t) THEN t[i] ELSE r[i - Len(t)]
    <3>1. t \in Seq(Characters) /\ r \in Seq(Characters)
      BY <1>1 DEF Patterns
    <3> QED
      BY <3>1, ConcatProperties DEF Patterns
  <2> HIDE DEF tr, e
  <2> QED
    BY <1>1, <2>1
<1>3. \A i \in 0..(n + 2) : Depth(tr, 1, i) = Depth(t, 1, i)
  BY <1>1, DepthOfConcat
<1> HIDE DEF tr
<1>4. /\ p \in Patterns /\ text \in Patterns /\ m \in Nat /\ Len(text) = m + (n + 2 + e)
      /\ \A i \in 1..m + (n + 2 + e) : text[i] = IF i <= m THEN p[i] ELSE tr[i - m]
  <2>1. /\ p \in Patterns /\ text \in Patterns /\ m \in Nat /\ Len(text) = m + Len(tr)
        /\ \A i \in 1..m + Len(tr) : text[i] = IF i <= m THEN p[i] ELSE tr[i - m]
    <3>1. p \in Seq(Characters) /\ tr \in Seq(Characters)
      BY <1>2 DEF Patterns, NoOpening
    <3> QED
      BY <3>1, ConcatProperties DEF Patterns
  <2> HIDE DEF text, e, n, m
  <2> QED
    BY <1>2, <2>1
<1>5. \A i \in 0..(n + 2 + e) : Depth(text, m + 1, m + i) = Depth(tr, 1, i)
  BY <1>2, <1>4, DepthOfConcat
<1>6. Opening(text) = m + 1
  <2>1. 1 \in 1..Len(tr) /\ tr[1] = Open /\ \A i \in 1..Len(tr) : i < 1 => tr[i] # Open
    BY <1>1, <1>2
  <2>2. Opening(tr) = 1
    BY <1>2, <2>1, OpeningIs
  <2> QED
    BY <1>2, <2>2, FirstOfConcat
<1> HIDE DEF text, m, n, e
<1>7. \A i \in 0..(n + 2) : Depth(text, m + 1, m + i) = Depth(t, 1, i)
  <2>1. \A i \in 0..(n + 2) : i \in 0..(n + 2 + e)
    BY <1>1, <1>2
  <2> QED
    BY <1>3, <1>5, <2>1
<1>8. Closing(text) = m + (n + 2)
  <2>1. m + (n + 2) \in (m + 1)..Len(text) /\ m + 1 \in 1..Len(text)
    BY <1>1, <1>2, <1>4
  <2>2. Depth(text, m + 1, m + (n + 2)) = 0
    <3>1. n + 2 \in 0..(n + 2)
      BY <1>1
    <3> QED
      BY <1>1, <1>7, <3>1
  <2>3. ASSUME NEW i \in (m + 1)..Len(text), i < m + (n + 2) PROVE Depth(text, m + 1, i) # 0
    <3>1. /\ i - m - 1 \in 0..n /\ (i - m - 1) + 1 \in 0..(n + 2) /\ m + ((i - m - 1) + 1) = i
      BY <1>1, <1>4, <2>3
    <3>2. Depth(t, 1, (i - m - 1) + 1) >= 1 /\ Depth(t, 1, (i - m - 1) + 1) \in Int
      BY <1>1, <3>1
    <3> QED
      BY <1>7, <3>1, <3>2
  <2>4. MatchingBrace(text, m + 1) = m + (n + 2)
    BY <1>4, <2>1, <2>2, <2>3, MatchingBraceIs
  <2> QED
    BY <1>4, <1>6, <2>4 DEF Closing
<1>9. SubSeq(text, 1, m) = p
  <2>1. \A i \in 1..m : text[0 + i] = p[i]
    <3>1. \A i \in 1..m : 0 + i = i /\ i \in 1..m + (n + 2 + e) /\ i <= m
      BY <1>1, <1>2, <1>4
    <3> QED
      BY <1>4, <3>1
  <2>2. 0 + m <= Len(text) /\ 0 + 1 = 1 /\ 0 + m = m /\ 0 \in Nat
    BY <1>1, <1>2, <1>4
  <2>3. SubSeq(text, 0 + 1, 0 + m) = p
    BY <1>4, <2>1, <2>2, Slice DEF m
  <2> QED
    BY <2>2, <2>3
<1>10. SubSeq(text, m + 2, m + (n + 1)) = g
  <2>1. \A i \in 1..n : text[(m + 1) + i] = g[i]
    <3>1. \A i \in 1..n : /\ (m + 1) + i \in 1..m + (n + 2 + e) /\ ~((m + 1) + i <= m)
                          /\ ((m + 1) + i) - m = i + 1 /\ i + 1 \in 1..(n + 2) + e
                          /\ i + 1 <= n + 2
      BY <1>1, <1>2, <1>4
    <3> QED
      BY <1>1, <1>2, <1>4, <3>1
  <2>2. /\ (m + 1) + n <= Len(text) /\ (m + 1) + 1 = m + 2 /\ (m + 1) + n = m + (n + 1)
        /\ m + 1 \in Nat
    BY <1>1, <1>2, <1>4
  <2>3. SubSeq(text, (m + 1) + 1, (m + 1) + n) = g
    BY <1>4, <2>1, <2>2, Slice DEF n, Level
  <2> QED
    BY <2>2, <2>3
<1>11. SubSeq(text, m + (n + 3), m + (n + 2 + e)) = r
  <2>1. \A i \in 1..e : text[(m + (n + 2)) + i] = r[i]
    <3>1. \A i \in 1..e : /\ (m + (n + 2)) + i \in 1..m + (n + 2 + e)
                          /\ ~((m + (n + 2)) + i <= m)
                          /\ ((m + (n + 2)) + i) - m = (n + 2) + i
                          /\ (n + 2) + i \in 1..(n + 2) + e /\ ~((n + 2) + i <= n + 2)
                          /\ ((n + 2) + i) - (n + 2) = i
      BY <1>1, <1>2, <1>4
    <3> QED
      BY <1>1, <1>2, <1>4, <3>1
  <2>2. /\ (m + (n + 2)) + e <= Len(text) /\ (m + (n + 2)) + 1 = m + (n + 3)
        /\ (m + (n + 2)) + e = m + (n + 2 + e) /\ m + (n + 2) \in Nat
    BY <1>1, <1>2, <1>4
  <2>3. SubSeq(text, (m + (n + 2)) + 1, (m + (n + 2)) + e) = r
    BY <1>4, <2>1, <2>2, Slice DEF e
  <2> QED
    BY <2>2, <2>3
<1>12. /\ Opening(text) - 1 = m /\ Opening(text) + 1 = m + 2
       /\ Closing(text) - 1 = m + (n + 1) /\ Closing(text) + 1 = m + (n + 3)
       /\ Len(text) = m + (n + 2 + e) /\ Closing(text) # 0
  BY <1>1, <1>2, <1>4, <1>6, <1>8
<1>13. Found(text, p, g, r)
  BY <1>4, <1>9, <1>10, <1>11, <1>12 DEF Found
<1>14. text = Around(p, g, r)
  BY DEF text, tr, t, Around
<1> QED
  BY <1>13, <1>14
-----------------------------------------------------------------------------
(* What the loops of expandBraces gather *)

Results == [ok: BOOLEAN, alts: Seq(Patterns)]

\* A result of so many patterns, these, or a refusal because they are too many.
Made(r, total, patterns) ==
  /\ r \in Results
  /\ r.ok <=> total <= maxBraceExpansions
  /\ r.ok => Len(r.alts) = total /\ ToSet(r.alts) = patterns

Taking(so, more) ==
  IF ~so.ok \/ ~more.ok \/ Len(so.alts) + Len(more.alts) > maxBraceExpansions
  THEN TooMany ELSE Expanded(so.alts \o more.alts)

LEMMA ExpandedIs ==
  ASSUME NEW alts \in Seq(Patterns)
  PROVE  /\ Expanded(alts) \in Results /\ Expanded(alts).ok /\ Expanded(alts).alts = alts
         /\ TooMany \in Results /\ ~TooMany.ok /\ TooMany.alts = <<>>
<1>1. <<>> \in Seq(Patterns)
  OBVIOUS
<1> QED
  BY <1>1 DEF Expanded, TooMany, Results

LEMMA MadeWhole ==
  ASSUME NEW alts \in Seq(Patterns), Len(alts) <= maxBraceExpansions
  PROVE  Made(Expanded(alts), Len(alts), ToSet(alts))
<1> DEFINE r == Expanded(alts)
<1>1. r \in Results /\ r.ok /\ r.alts = alts
  BY ExpandedIs
<1> HIDE DEF r
<1>2. Made(r, Len(alts), ToSet(alts))
  BY <1>1, Zenon DEF Made
<1> QED
  BY <1>2 DEF r

LEMMA MadeTooMany ==
  ASSUME NEW total, ~(total <= maxBraceExpansions), NEW X
  PROVE  Made(TooMany, total, X)
<1>1. TooMany \in Results /\ ~TooMany.ok
  <2>1. <<>> \in Seq(Patterns)
    OBVIOUS
  <2> QED
    BY <2>1, ExpandedIs
<1> QED
  BY <1>1, Zenon DEF Made

LEMMA TakingIs ==
  ASSUME NEW so \in Results, NEW more \in Results
  PROVE  /\ Taking(so, more) \in Results
         /\ ToSet(Taking(so, more).alts) \subseteq ToSet(so.alts) \cup ToSet(more.alts)
<1>1. so.alts \in Seq(Patterns) /\ more.alts \in Seq(Patterns)
  BY DEF Results
<1>2. /\ so.alts \o more.alts \in Seq(Patterns)
      /\ ToSet(so.alts \o more.alts) = ToSet(so.alts) \cup ToSet(more.alts)
  BY <1>1, ConcatProperties, ToSetOfConcat
<1>3. ToSet(<<>>) = {}
  BY DEF ToSet
<1> QED
  BY <1>1, <1>2, <1>3, ExpandedIs DEF Taking

LEMMA GatherIs ==
  ASSUME NEW n \in Nat, NEW result \in [1..n -> Results]
  PROVE  \E f \in [0..n -> Results] :
           /\ f[0] = Expanded(<<>>) /\ \A k \in 1..n : f[k] = Taking(f[k - 1], result[k])
           /\ Gather(n, result) = f[n]
<1> DEFINE step == [x \in (1..n) \X Results |-> Taking(x[2], result[x[1]])]
           Eq(g) == g = [k \in 0..n |-> IF k = 0 THEN Expanded(<<>>) ELSE Taking(g[k - 1], result[k])]
<1>1. step \in [(1..n) \X Results -> Results]
  <2>1. \A k \in 1..n, r \in Results : Taking(r, result[k]) \in Results
    BY TakingIs
  <2> QED
    BY <2>1
<1>2. \A k \in 1..n, r \in Results : step[<<k, r>>] = Taking(r, result[k])
  OBVIOUS
<1>3. Expanded(<<>>) \in Results
  <2>1. <<>> \in Seq(Patterns)
    OBVIOUS
  <2> QED
    BY <2>1, ExpandedIs
<1> HIDE DEF step
<1>4. PICK g \in [0..n -> Results] : Solves(g, Expanded(<<>>), step, n)
  BY <1>1, <1>3, Recursion
<1>5. g[0] = Expanded(<<>>) /\ \A k \in 1..n : g[k] = Taking(g[k - 1], result[k])
  <2>1. \A k \in 1..n : k - 1 \in 0..n
    OBVIOUS
  <2> QED
    BY <1>2, <1>4, <2>1 DEF Solves
<1>6. Eq(g)
  <2>1. g = [k \in 0..n |-> g[k]]
    OBVIOUS
  <2>2. \A k \in 0..n : k = 0 \/ k \in 1..n
    OBVIOUS
  <2> QED
    BY <1>5, <2>1, <2>2
<1> DEFINE h == CHOOSE f : Eq(f)
<1>7. Eq(h)
  BY <1>6
<1>8. Gather(n, result) = h[n]
  BY DEF Gather, Taking
<1> HIDE DEF h
<1>9. h[0] = Expanded(<<>>) /\ \A k \in 1..n : h[k] = Taking(h[k - 1], result[k])
  <2>1. \A k \in 0..n : h[k] = IF k = 0 THEN Expanded(<<>>) ELSE Taking(h[k - 1], result[k])
    BY <1>7, Zenon
  <2>2. 0 \in 0..n /\ \A k \in 1..n : k \in 0..n /\ k # 0
    OBVIOUS
  <2> QED
    BY <2>1, <2>2
<1> DEFINE T == {k \in Nat : k <= n => h[k] = g[k]}
<1>10. ASSUME NEW k \in Nat, k \in T PROVE k + 1 \in T
  <2>1. SUFFICES ASSUME k + 1 <= n PROVE h[k + 1] = g[k + 1]
    OBVIOUS
  <2>2. k + 1 \in 1..n /\ (k + 1) - 1 = k /\ h[k] = g[k]
    BY <1>10, <2>1
  <2> QED
    BY <1>5, <1>9, <2>2
<1>11. 0 \in T
  BY <1>5, <1>9
<1> HIDE DEF T
<1>12. n \in T
  BY <1>10, <1>11, Induction
<1>13. h[n] = g[n]
  BY <1>12 DEF T
<1> QED
  BY <1>4, <1>5, <1>8, <1>13

AllMade(result, size, sets, n) == \A k \in 1..n : Made(result[k], size[k], sets[k])

LEMMA GatherMade ==
  ASSUME NEW n \in Nat, NEW result \in [1..n -> Results],
         NEW size \in [1..n -> Nat], NEW sum \in [0..n -> Nat], Adds(sum, size, n),
         NEW sets, AllMade(result, size, sets, n)
  PROVE  Made(Gather(n, result), sum[n], Together(sets, n))
<1>1. PICK f \in [0..n -> Results] :
             /\ f[0] = Expanded(<<>>) /\ \A k \in 1..n : f[k] = Taking(f[k - 1], result[k])
             /\ Gather(n, result) = f[n]
  BY GatherIs
<1> DEFINE T == {k \in Nat : k <= n => Made(f[k], sum[k], Together(sets, k))}
<1>2. maxBraceExpansions \in Nat
  BY ArgumentsAssumption
<1>3. Made(f[0], sum[0], Together(sets, 0))
  <2>1. <<>> \in Seq(Patterns) /\ Len(<<>>) = 0 /\ ToSet(<<>>) = {}
    BY DEF ToSet
  <2>2. Together(sets, 0) = {} /\ sum[0] = 0
    BY TogetherStep DEF Adds
  <2>3. Made(Expanded(<<>>), Len(<<>>), ToSet(<<>>))
    <3>1. Len(<<>>) <= maxBraceExpansions
      BY <1>2, <2>1
    <3> QED
      BY <2>1, <3>1, MadeWhole, Zenon
  <2> QED
    BY <1>1, <2>1, <2>2, <2>3
<1>4. ASSUME NEW k \in Nat, k + 1 <= n, Made(f[k], sum[k], Together(sets, k))
      PROVE  Made(f[k + 1], sum[k + 1], Together(sets, k + 1))
  <2>1. k + 1 \in 1..n /\ k \in 0..n /\ (k + 1) - 1 = k
    BY <1>4
  <2> DEFINE so == f[k]
             more == result[k + 1]
  <2>2. f[k + 1] = Taking(so, more) /\ so \in Results /\ more \in Results
    BY <1>1, <2>1
  <2>3. sum[k + 1] = sum[k] + size[k + 1] /\ sum[k] \in Nat /\ size[k + 1] \in Nat
    BY <2>1 DEF Adds
  <2>4. Together(sets, k + 1) = Together(sets, k) \cup sets[k + 1]
    BY TogetherStep
  <2>5. Made(more, size[k + 1], sets[k + 1]) /\ Made(so, sum[k], Together(sets, k))
    BY <1>4, <2>1 DEF AllMade
  <2> HIDE DEF so, more
  <2>6. so.alts \in Seq(Patterns) /\ more.alts \in Seq(Patterns)
    BY <2>2 DEF Results
  <2>7. /\ so.alts \o more.alts \in Seq(Patterns)
        /\ Len(so.alts \o more.alts) = Len(so.alts) + Len(more.alts)
        /\ ToSet(so.alts \o more.alts) = ToSet(so.alts) \cup ToSet(more.alts)
    BY <2>6, ConcatProperties, ToSetOfConcat
  <2>8. CASE ~so.ok \/ ~more.ok
    <3>1. Taking(so, more) = TooMany /\ ~(sum[k + 1] <= maxBraceExpansions)
      <4>1. ~(sum[k] <= maxBraceExpansions) \/ ~(size[k + 1] <= maxBraceExpansions)
        BY <2>5, <2>8, Zenon DEF Made
      <4>2. ~(sum[k + 1] <= maxBraceExpansions)
        BY <1>2, <2>3, <4>1
      <4>3. Taking(so, more) = TooMany
        BY <2>8, Zenon DEF Taking
      <4> QED
        BY <4>2, <4>3
    <3> QED
      BY <2>2, <3>1, MadeTooMany
  <2>9. CASE so.ok /\ more.ok
    <3>1. /\ Len(so.alts) = sum[k] /\ Len(more.alts) = size[k + 1]
          /\ ToSet(so.alts) = Together(sets, k) /\ ToSet(more.alts) = sets[k + 1]
      BY <2>5, <2>9 DEF Made
    <3>2. CASE sum[k + 1] <= maxBraceExpansions
      <4>1. Taking(so, more) = Expanded(so.alts \o more.alts)
        BY <1>2, <2>3, <2>9, <3>1, <3>2 DEF Taking
      <4>2. /\ Len(so.alts \o more.alts) = sum[k + 1]
            /\ ToSet(so.alts \o more.alts) = Together(sets, k + 1)
        BY <2>3, <2>4, <2>7, <3>1
      <4>3. Made(Expanded(so.alts \o more.alts), sum[k + 1], Together(sets, k + 1))
        BY <2>7, <3>2, <4>2, MadeWhole
      <4> QED
        BY <2>2, <4>1, <4>3
    <3>3. CASE ~(sum[k + 1] <= maxBraceExpansions)
      <4>1. Taking(so, more) = TooMany
        BY <1>2, <2>3, <2>9, <3>1, <3>3 DEF Taking
      <4> QED
        BY <2>2, <3>3, <4>1, MadeTooMany
    <3> QED
      BY <3>2, <3>3
  <2> QED
    BY <2>8, <2>9
<1>5. 0 \in T /\ \A k \in Nat : k \in T => k + 1 \in T
  <2> HIDE DEF Made
  <2> QED
    BY <1>3, <1>4
<1> HIDE DEF T
<1>6. n \in T
  BY <1>5, Induction
<1>7. Made(f[n], sum[n], Together(sets, n))
  BY <1>6 DEF T
<1> QED
  BY <1>1, <1>7

LEMMA GatherWithin ==
  ASSUME NEW n \in Nat, NEW result \in [1..n -> Results], NEW X,
         \A k \in 1..n : ToSet(result[k].alts) \subseteq X
  PROVE  Gather(n, result) \in Results /\ ToSet(Gather(n, result).alts) \subseteq X
<1>1. PICK f \in [0..n -> Results] :
             /\ f[0] = Expanded(<<>>) /\ \A k \in 1..n : f[k] = Taking(f[k - 1], result[k])
             /\ Gather(n, result) = f[n]
  BY GatherIs
<1> DEFINE T == {k \in Nat : k <= n => ToSet(f[k].alts) \subseteq X}
<1>2. 0 \in T
  <2>1. <<>> \in Seq(Patterns) /\ ToSet(<<>>) = {}
    BY DEF ToSet
  <2>2. f[0].alts = <<>>
    BY <1>1, <2>1, ExpandedIs
  <2> QED
    BY <2>1, <2>2
<1>3. ASSUME NEW k \in Nat, k \in T PROVE k + 1 \in T
  <2>1. SUFFICES ASSUME k + 1 <= n PROVE ToSet(f[k + 1].alts) \subseteq X
    OBVIOUS
  <2>2. k + 1 \in 1..n /\ k \in 0..n /\ (k + 1) - 1 = k
    BY <2>1
  <2>3. f[k + 1] = Taking(f[k], result[k + 1]) /\ f[k] \in Results /\ result[k + 1] \in Results
    BY <1>1, <2>2
  <2>4. ToSet(f[k + 1].alts) \subseteq ToSet(f[k].alts) \cup ToSet(result[k + 1].alts)
    BY <2>3, TakingIs
  <2>5. ToSet(f[k].alts) \subseteq X
    BY <1>3, <2>1
  <2> QED
    BY <2>2, <2>4, <2>5
<1> HIDE DEF T
<1>4. n \in T
  BY <1>2, <1>3, Induction
<1>5. n \in 0..n
  OBVIOUS
<1> QED
  BY <1>1, <1>4, <1>5 DEF T
-----------------------------------------------------------------------------
(* What splitTopLevel takes apart *)

LEMMA SubSeqIs ==
  ASSUME NEW text \in Patterns, NEW lo \in Int, NEW hi \in Int, lo >= 1, hi <= Len(text)
  PROVE  /\ SubSeq(text, lo, hi) \in Patterns
         /\ Len(SubSeq(text, lo, hi)) = IF lo <= hi THEN hi - lo + 1 ELSE 0
         /\ \A i \in 1..(hi - lo + 1) : SubSeq(text, lo, hi)[i] = text[lo + i - 1]
<1>1. \A i \in lo..hi : i \in 1..Len(text)
  OBVIOUS
<1>2. \A i \in lo..hi : text[i] \in Characters
  BY <1>1, ElementOfSeq DEF Patterns
<1> QED
  BY <1>2, SubSeqProperties DEF Patterns

LEMMA SubSeqSame ==
  ASSUME NEW s \in Patterns, NEW t \in Patterns, NEW lo \in Int, NEW hi \in Int, lo >= 1,
         hi <= Len(s), hi <= Len(t), \A i \in lo..hi : s[i] = t[i]
  PROVE  SubSeq(s, lo, hi) = SubSeq(t, lo, hi)
<1> DEFINE a == SubSeq(s, lo, hi)
           b == SubSeq(t, lo, hi)
<1>1. /\ a \in Patterns /\ Len(a) = (IF lo <= hi THEN hi - lo + 1 ELSE 0)
      /\ \A i \in 1..(hi - lo + 1) : a[i] = s[lo + i - 1]
  BY SubSeqIs
<1>2. /\ b \in Patterns /\ Len(b) = (IF lo <= hi THEN hi - lo + 1 ELSE 0)
      /\ \A i \in 1..(hi - lo + 1) : b[i] = t[lo + i - 1]
  BY SubSeqIs
<1> HIDE DEF a, b
<1>3. \A i \in 1..Len(a) : a[i] = b[i]
  <2>1. \A i \in 1..Len(a) : i \in 1..(hi - lo + 1) /\ lo + i - 1 \in lo..hi
    BY <1>1
  <2> QED
    BY <1>1, <1>2, <2>1
<1>4. a = b
  BY <1>1, <1>2, <1>3, SeqEqual DEF Patterns
<1> QED
  BY <1>4 DEF a, b

Splits == [parts: Seq(Patterns), last: Nat]
Whole == [parts |-> <<>>, last |-> 0]
Splitting(text, i, so) ==
  IF text[i] = Comma /\ Depth(text, 1, i) = 0
  THEN [parts |-> Append(so.parts, SubSeq(text, so.last + 1, i - 1)), last |-> i]
  ELSE so

\* The stages of a split.
Stage(text, f) == f[0] = Whole /\ \A i \in 1..Len(text) : f[i] = Splitting(text, i, f[i - 1])

LEMMA SplittingIs ==
  ASSUME NEW text \in Patterns, NEW i \in 1..Len(text), NEW so \in Splits
  PROVE  Splitting(text, i, so) \in Splits
<1>1. so.parts \in Seq(Patterns) /\ so.last \in Nat /\ so.last + 1 >= 1
  BY DEF Splits
<1>2. i \in Nat /\ i - 1 \in Int /\ i - 1 <= Len(text)
  BY DEF Patterns
<1>3. SubSeq(text, so.last + 1, i - 1) \in Patterns
  <2> DEFINE lo == so.last + 1
             hi == i - 1
  <2>1. lo \in Int /\ lo >= 1 /\ hi \in Int /\ hi <= Len(text)
    BY <1>1, <1>2
  <2> HIDE DEF lo, hi
  <2>2. SubSeq(text, lo, hi) \in Patterns
    BY <2>1, SubSeqIs
  <2> QED
    BY <2>2 DEF lo, hi
<1>4. Append(so.parts, SubSeq(text, so.last + 1, i - 1)) \in Seq(Patterns)
  BY <1>1, <1>3, AppendProperties
<1> QED
  BY <1>2, <1>4 DEF Splitting, Splits

LEMMA SplitIs ==
  ASSUME NEW text \in Patterns
  PROVE  \E f \in [0..Len(text) -> Splits] :
           /\ Stage(text, f)
           /\ SplitTopLevel(text) =
                Append(f[Len(text)].parts, SubSeq(text, f[Len(text)].last + 1, Len(text)))
<1> DEFINE n == Len(text)
           step == [x \in (1..n) \X Splits |-> Splitting(text, x[1], x[2])]
           Eq(g) == g = [i \in 0..n |-> IF i = 0 THEN Whole ELSE Splitting(text, i, g[i - 1])]
<1>1. n \in Nat /\ Whole \in Splits
  <2>1. <<>> \in Seq(Patterns)
    OBVIOUS
  <2> QED
    BY <2>1 DEF Patterns, Whole, Splits
<1>2. step \in [(1..n) \X Splits -> Splits]
  <2>1. \A i \in 1..n, so \in Splits : Splitting(text, i, so) \in Splits
    BY SplittingIs
  <2> QED
    BY <2>1
<1>3. \A i \in 1..n, so \in Splits : step[<<i, so>>] = Splitting(text, i, so)
  OBVIOUS
<1> HIDE DEF step
<1>4. PICK g \in [0..n -> Splits] : Solves(g, Whole, step, n)
  <2> HIDE DEF n
  <2> QED
    BY <1>1, <1>2, Recursion
<1>5. g[0] = Whole /\ \A i \in 1..n : g[i] = Splitting(text, i, g[i - 1])
  <2>1. \A i \in 1..n : i - 1 \in 0..n
    BY <1>1
  <2> QED
    BY <1>3, <1>4, <2>1 DEF Solves
<1>6. Eq(g)
  <2>1. g = [i \in 0..n |-> g[i]]
    OBVIOUS
  <2>2. \A i \in 0..n : i = 0 \/ i \in 1..n
    BY <1>1
  <2> QED
    BY <1>5, <2>1, <2>2
<1> DEFINE h == CHOOSE f : Eq(f)
           parts(f) == Append(f[n].parts, SubSeq(text, f[n].last + 1, n))
<1>7. Eq(h)
  BY <1>6
<1>8. SplitTopLevel(text) = parts(h)
  BY DEF SplitTopLevel, Splitting, Whole
<1> HIDE DEF h
<1>9. h[0] = Whole /\ \A i \in 1..n : h[i] = Splitting(text, i, h[i - 1])
  <2>1. \A i \in 0..n : h[i] = IF i = 0 THEN Whole ELSE Splitting(text, i, h[i - 1])
    BY <1>7, Zenon
  <2>2. 0 \in 0..n /\ \A i \in 1..n : i \in 0..n /\ i # 0
    BY <1>1
  <2> QED
    BY <2>1, <2>2
<1> DEFINE T == {i \in Nat : i <= n => h[i] = g[i]}
<1>10. ASSUME NEW i \in Nat, i \in T PROVE i + 1 \in T
  <2>1. SUFFICES ASSUME i + 1 <= n PROVE h[i + 1] = g[i + 1]
    OBVIOUS
  <2>2. i + 1 \in 1..n /\ (i + 1) - 1 = i /\ h[i] = g[i]
    BY <1>1, <1>10, <2>1
  <2> QED
    BY <1>5, <1>9, <2>2
<1>11. 0 \in T
  BY <1>5, <1>9
<1> HIDE DEF T
<1>12. n \in T
  BY <1>1, <1>10, <1>11, Induction
<1>13. h[n] = g[n]
  BY <1>1, <1>12 DEF T
<1>14. SplitTopLevel(text) = parts(g) /\ Stage(text, g)
  BY <1>5, <1>8, <1>13 DEF Stage
<1> QED
  BY <1>4, <1>14

LEMMA SplitIsShort ==
  ASSUME NEW text \in Patterns
  PROVE  LET parts == SplitTopLevel(text) IN
         /\ parts \in Seq(Patterns) /\ Len(parts) \in Nat \ {0}
         /\ \A k \in 1..Len(parts) : Len(parts[k]) <= Len(text)
<1> DEFINE n == Len(text)
           Short(parts) == \A k \in 1..Len(parts) : Len(parts[k]) <= n
<1>1. n \in Nat
  BY DEF Patterns
<1>2. PICK f \in [0..n -> Splits] :
          /\ Stage(text, f)
          /\ SplitTopLevel(text) = Append(f[n].parts, SubSeq(text, f[n].last + 1, n))
  BY SplitIs
<1>3. ASSUME NEW parts \in Seq(Patterns), Short(parts), NEW lo \in Nat, NEW hi \in Int, hi <= n
      PROVE  /\ Append(parts, SubSeq(text, lo + 1, hi)) \in Seq(Patterns)
             /\ Len(Append(parts, SubSeq(text, lo + 1, hi))) = Len(parts) + 1
             /\ Short(Append(parts, SubSeq(text, lo + 1, hi)))
  <2> DEFINE w == SubSeq(text, lo + 1, hi)
  <2>1. w \in Patterns /\ Len(w) <= n
    <3>1. lo + 1 \in Int /\ lo + 1 >= 1
      BY <1>3
    <3>2. w \in Patterns /\ Len(w) = IF lo + 1 <= hi THEN hi - (lo + 1) + 1 ELSE 0
      BY <1>3, <3>1, SubSeqIs
    <3> QED
      BY <1>1, <1>3, <3>2
  <2> HIDE DEF w, n
  <2>2. /\ Append(parts, w) \in Seq(Patterns) /\ Len(Append(parts, w)) = Len(parts) + 1
        /\ \A k \in 1..Len(parts) : Append(parts, w)[k] = parts[k]
        /\ Append(parts, w)[Len(parts) + 1] = w /\ Len(parts) \in Nat
    BY <1>3, <2>1, AppendProperties
  <2>3. ASSUME NEW k \in 1..(Len(parts) + 1) PROVE Len(Append(parts, w)[k]) <= n
    <3>1. k \in 1..Len(parts) \/ k = Len(parts) + 1
      BY <2>2
    <3> QED
      BY <1>3, <2>1, <2>2, <3>1
  <2> QED
    BY <2>2, <2>3 DEF w
<1> DEFINE T == {i \in Nat : i <= n => Short(f[i].parts)}
<1>4. 0 \in T
  <2>1. f[0].parts = <<>> /\ Len(<<>>) = 0
    BY <1>2 DEF Stage, Whole
  <2> QED
    BY <2>1
<1>5. ASSUME NEW i \in Nat, i \in T PROVE i + 1 \in T
  <2>1. SUFFICES ASSUME i + 1 <= n PROVE Short(f[i + 1].parts)
    OBVIOUS
  <2>2. i + 1 \in 1..n /\ i \in 0..n /\ (i + 1) - 1 = i /\ i <= n /\ i \in Int
    BY <1>1, <2>1
  <2>3. f[i] \in Splits /\ Short(f[i].parts) /\ f[i + 1] = Splitting(text, i + 1, f[i])
    BY <1>2, <1>5, <2>2 DEF Stage
  <2>4. f[i].parts \in Seq(Patterns) /\ f[i].last \in Nat
    BY <2>3 DEF Splits
  <2>5. Short(Append(f[i].parts, SubSeq(text, f[i].last + 1, i)))
    <3> HIDE DEF Short
    <3> QED
      BY <1>3, <2>2, <2>3, <2>4
  <2>6. \/ f[i + 1].parts = f[i].parts
        \/ f[i + 1].parts = Append(f[i].parts, SubSeq(text, f[i].last + 1, i))
    <3> DEFINE w == SubSeq(text, f[i].last + 1, i)
    <3>1. \/ f[i + 1] = f[i]
          \/ f[i + 1] = [parts |-> Append(f[i].parts, w), last |-> i + 1]
      BY <2>2, <2>3, Zenon DEF Splitting
    <3> HIDE DEF w
    <3>2. \/ f[i + 1].parts = f[i].parts
          \/ f[i + 1].parts = Append(f[i].parts, w)
      BY <3>1
    <3> QED
      BY <3>2 DEF w
  <2> HIDE DEF Short
  <2> QED
    BY <2>3, <2>5, <2>6
<1> HIDE DEF T
<1>6. n \in T
  BY <1>1, <1>4, <1>5, Induction
<1>7. Short(f[n].parts) /\ f[n] \in Splits /\ n \in Int
  BY <1>1, <1>2, <1>6 DEF T
<1>8. f[n].parts \in Seq(Patterns) /\ f[n].last \in Nat /\ Len(f[n].parts) \in Nat
  BY <1>7 DEF Splits
<1> HIDE DEF Short
<1>9. /\ SplitTopLevel(text) \in Seq(Patterns) /\ Len(SplitTopLevel(text)) = Len(f[n].parts) + 1
      /\ Short(SplitTopLevel(text))
  <2>1. n <= n
    BY <1>1
  <2> QED
    BY <1>2, <1>3, <1>7, <1>8, <2>1
<1> QED
  BY <1>8, <1>9 DEF Short, n

\* A text that hides its commas is one part.
LEMMA SplitOfClosed ==
  ASSUME NEW w, Closed(w)
  PROVE  SplitTopLevel(w) = <<w>>
<1> DEFINE n == Len(w)
<1>1. w \in Patterns /\ n \in Nat /\ \A i \in 1..n : ~(w[i] = Comma /\ Depth(w, 1, i) = 0)
  BY DEF Closed, Level, Patterns
<1>2. PICK f \in [0..n -> Splits] :
          /\ Stage(w, f)
          /\ SplitTopLevel(w) = Append(f[n].parts, SubSeq(w, f[n].last + 1, n))
  BY <1>1, SplitIs
<1> DEFINE T == {i \in Nat : i <= n => f[i] = Whole}
<1>3. 0 \in T
  BY <1>2 DEF Stage
<1>4. ASSUME NEW i \in Nat, i \in T PROVE i + 1 \in T
  <2>1. SUFFICES ASSUME i + 1 <= n PROVE f[i + 1] = Whole
    OBVIOUS
  <2>2. i + 1 \in 1..n /\ (i + 1) - 1 = i /\ f[i] = Whole
    BY <1>1, <1>4, <2>1
  <2> QED
    BY <1>1, <1>2, <2>2 DEF Stage, Splitting
<1> HIDE DEF T
<1>5. n \in T
  BY <1>1, <1>3, <1>4, Induction
<1>6. f[n].parts = <<>> /\ f[n].last + 1 = 1
  BY <1>1, <1>5 DEF T, Whole
<1>7. SubSeq(w, 1, n) = w
  BY <1>1, SubSeqFull DEF Patterns
<1> QED
  BY <1>2, <1>6, <1>7

Between(text, g, m, w, e) ==
  /\ text \in Patterns /\ Level(text) /\ Len(text) = (m + 1) + e /\ m \in Nat /\ e \in Nat
  /\ \A i \in 1..m : text[i] = g[i] /\ Depth(text, 1, i) = Depth(g, 1, i)
  /\ text[m + 1] = Comma /\ Depth(text, 1, m + 1) = 0
  /\ \A i \in 1..e : /\ text[(m + 1) + i] = w[i]
                     /\ Depth(text, 1, (m + 1) + i) = Depth(w, 1, i)

LEMMA CommaAt ==
  ASSUME NEW g, Level(g), NEW w, Closed(w)
  PROVE  Between(g \o (<<Comma>> \o w), g, Len(g), w, Len(w))
<1> DEFINE c == <<Comma>>
           cw == c \o w
           text == g \o cw
           m == Len(g)
           e == Len(w)
<1>1. /\ c \in Patterns /\ Len(c) = 1 /\ c[1] = Comma /\ Level(c) /\ Depth(c, 1, 1) = 0
  <2>1. Comma \in Characters
    BY ArgumentsAssumption
  <2>2. c \in Patterns /\ Len(c) = 1 /\ c[1] = Comma
    BY <2>1, OneCharacter
  <2>3. Level(c)
    BY CommaIsLevel
  <2> QED
    BY <2>2, <2>3 DEF Level
<1>2. Level(w) /\ w \in Patterns /\ g \in Patterns /\ m \in Nat /\ e \in Nat /\ Depth(g, 1, m) = 0
  BY DEF Closed, Level, Patterns
<1> HIDE DEF c, m, e
<1>3. Level(cw) /\ cw \in Patterns
  BY <1>1, <1>2, ConcatIsLevel DEF Level
<1>4. /\ Len(cw) = 1 + e
      /\ \A i \in 1..1 + e : cw[i] = IF i <= 1 THEN c[i] ELSE w[i - 1]
  <2>1. c \in Seq(Characters) /\ w \in Seq(Characters)
    BY <1>1, <1>2 DEF Patterns
  <2>2. /\ Len(cw) = Len(c) + Len(w)
        /\ \A i \in 1..Len(c) + Len(w) : cw[i] = IF i <= Len(c) THEN c[i] ELSE w[i - Len(c)]
    BY <2>1, ConcatProperties
  <2> HIDE DEF cw
  <2> QED
    BY <1>1, <2>2 DEF e
<1>5. /\ \A i \in 0..1 : Depth(cw, 1, i) = Depth(c, 1, i)
      /\ \A i \in 0..e : Depth(cw, 1, 1 + i) = 0 + Depth(w, 1, i) /\ Depth(w, 1, i) \in Int
  <2>1. /\ \A i \in 0..Len(c) : Depth(cw, 1, i) = Depth(c, 1, i)
        /\ \A i \in 0..Len(w) : /\ Depth(cw, 1, Len(c) + i) = Depth(c, 1, Len(c)) + Depth(w, 1, i)
                                /\ Depth(w, 1, i) \in Int
    BY <1>1, <1>2, DepthOfConcat
  <2> HIDE DEF cw
  <2> QED
    BY <1>1, <2>1 DEF e
<1> HIDE DEF cw
<1>6. Level(text) /\ text \in Patterns
  BY <1>2, <1>3, ConcatIsLevel DEF Level
<1>7. /\ Len(text) = m + (1 + e)
      /\ \A i \in 1..m + (1 + e) : text[i] = IF i <= m THEN g[i] ELSE cw[i - m]
  <2>1. g \in Seq(Characters) /\ cw \in Seq(Characters)
    BY <1>2, <1>3 DEF Patterns
  <2>2. /\ Len(text) = Len(g) + Len(cw)
        /\ \A i \in 1..Len(g) + Len(cw) : text[i] = IF i <= Len(g) THEN g[i] ELSE cw[i - Len(g)]
    BY <2>1, ConcatProperties
  <2> HIDE DEF text
  <2> QED
    BY <1>4, <2>2 DEF m
<1>8. /\ \A i \in 0..m : Depth(text, 1, i) = Depth(g, 1, i)
      /\ \A i \in 0..(1 + e) : Depth(text, 1, m + i) = 0 + Depth(cw, 1, i) /\ Depth(cw, 1, i) \in Int
  <2>1. /\ \A i \in 0..Len(g) : Depth(text, 1, i) = Depth(g, 1, i)
        /\ \A i \in 0..Len(cw) : /\ Depth(text, 1, Len(g) + i) = Depth(g, 1, Len(g)) + Depth(cw, 1, i)
                                 /\ Depth(cw, 1, i) \in Int
    BY <1>2, <1>3, DepthOfConcat
  <2> HIDE DEF text
  <2> QED
    BY <1>2, <1>4, <2>1 DEF m
<1> HIDE DEF text
<1>9. \A i \in 1..m : text[i] = g[i] /\ Depth(text, 1, i) = Depth(g, 1, i)
  <2>1. \A i \in 1..m : i \in 0..m /\ i \in 1..m + (1 + e) /\ i <= m
    BY <1>2
  <2> QED
    BY <1>7, <1>8, <2>1
<1>10. text[m + 1] = Comma /\ Depth(text, 1, m + 1) = 0
  <2>1. /\ m + 1 \in 1..m + (1 + e) /\ ~(m + 1 <= m) /\ (m + 1) - m = 1 /\ 1 \in 1..1 + e
        /\ 1 \in 0..(1 + e) /\ 1 \in 0..1
    BY <1>2
  <2>2. text[m + 1] = Comma
    BY <1>1, <1>4, <1>7, <2>1
  <2>3. Depth(text, 1, m + 1) = 0
    BY <1>1, <1>5, <1>8, <2>1
  <2> QED
    BY <2>2, <2>3
<1>11. ASSUME NEW i \in 1..e
       PROVE  text[(m + 1) + i] = w[i] /\ Depth(text, 1, (m + 1) + i) = Depth(w, 1, i)
  <2>1. /\ (m + 1) + i \in 1..m + (1 + e) /\ ~((m + 1) + i <= m) /\ ((m + 1) + i) - m = 1 + i
        /\ 1 + i \in 1..1 + e /\ ~(1 + i <= 1) /\ (1 + i) - 1 = i
        /\ 1 + i \in 0..(1 + e) /\ i \in 0..e /\ (m + 1) + i = m + (1 + i)
    BY <1>2
  <2>2. text[(m + 1) + i] = w[i]
    BY <1>4, <1>7, <2>1
  <2>3. Depth(text, 1, m + (1 + i)) = 0 + Depth(cw, 1, 1 + i)
    BY <1>8, <2>1
  <2>4. Depth(cw, 1, 1 + i) = 0 + Depth(w, 1, i) /\ Depth(w, 1, i) \in Int
    BY <1>5, <2>1
  <2> QED
    BY <2>1, <2>2, <2>3, <2>4
<1>12. Len(text) = (m + 1) + e
  BY <1>2, <1>7
<1> QED
  BY <1>2, <1>6, <1>9, <1>10, <1>11, <1>12 DEF Between, text, cw, c, m, e

\* A comma and a text that hides its own are one part more.
LEMMA SplitOfConcat ==
  ASSUME NEW g, Level(g), NEW w, Closed(w)
  PROVE  SplitTopLevel(g \o (<<Comma>> \o w)) = Append(SplitTopLevel(g), w)
<1> DEFINE text == g \o (<<Comma>> \o w)
           m == Len(g)
           e == Len(w)
           n == (m + 1) + e
<1>1. /\ text \in Patterns /\ Len(text) = n /\ m \in Nat /\ e \in Nat
      /\ \A i \in 1..m : text[i] = g[i] /\ Depth(text, 1, i) = Depth(g, 1, i)
      /\ text[m + 1] = Comma /\ Depth(text, 1, m + 1) = 0
      /\ \A i \in 1..e : /\ text[(m + 1) + i] = w[i]
                         /\ Depth(text, 1, (m + 1) + i) = Depth(w, 1, i)
  <2> HIDE DEF text, m, e
  <2>1. Between(text, g, m, w, e)
    BY CommaAt DEF text, m, e
  <2> QED
    BY <2>1 DEF Between
<1>2. /\ g \in Patterns /\ Len(g) = m /\ w \in Patterns /\ Len(w) = e
      /\ \A i \in 1..e : ~(w[i] = Comma /\ Depth(w, 1, i) = 0)
  BY DEF Closed, Level
<1> HIDE DEF text, m, e
<1>3. PICK a \in [0..m -> Splits] :
          Stage(g, a) /\ SplitTopLevel(g) = Append(a[m].parts, SubSeq(g, a[m].last + 1, m))
  BY <1>2, SplitIs
<1>4. PICK b \in [0..n -> Splits] :
          Stage(text, b) /\ SplitTopLevel(text) = Append(b[n].parts, SubSeq(text, b[n].last + 1, n))
  BY <1>1, SplitIs
<1> DEFINE T == {i \in Nat : i <= m => b[i] = a[i]}
<1>5. 0 \in T
  BY <1>3, <1>4 DEF Stage
<1>6. ASSUME NEW i \in Nat, i \in T PROVE i + 1 \in T
  <2>1. SUFFICES ASSUME i + 1 <= m PROVE b[i + 1] = a[i + 1]
    OBVIOUS
  <2>2. /\ i + 1 \in 1..m /\ i + 1 \in 1..n /\ i \in 0..m /\ (i + 1) - 1 = i /\ b[i] = a[i]
        /\ i \in Int /\ i <= m /\ i <= n
    BY <1>1, <1>6, <2>1
  <2>3. /\ b[i + 1] = Splitting(text, i + 1, a[i]) /\ a[i + 1] = Splitting(g, i + 1, a[i])
        /\ a[i].last \in Nat
    <3>1. a[i] \in Splits
      BY <1>3, <2>2, Zenon
    <3>2. b[i + 1] = Splitting(text, i + 1, b[(i + 1) - 1])
      BY <1>1, <1>4, <2>2, Zenon DEF Stage
    <3>3. a[i + 1] = Splitting(g, i + 1, a[(i + 1) - 1])
      BY <1>2, <1>3, <2>2, Zenon DEF Stage
    <3> QED
      BY <2>2, <3>1, <3>2, <3>3, Zenon DEF Splits
  <2>4. text[i + 1] = g[i + 1] /\ Depth(text, 1, i + 1) = Depth(g, 1, i + 1)
    BY <1>1, <2>2
  <2>5. SubSeq(text, a[i].last + 1, i) = SubSeq(g, a[i].last + 1, i)
    <3>1. a[i].last + 1 \in Int /\ a[i].last + 1 >= 1
      BY <2>3
    <3>2. \A j \in (a[i].last + 1)..i : text[j] = g[j]
      <4>1. \A j \in (a[i].last + 1)..i : j \in 1..m
        BY <1>1, <2>2, <2>3
      <4> QED
        BY <1>1, <4>1
    <3> QED
      BY <1>1, <1>2, <2>2, <3>1, <3>2, SubSeqSame
  <2> QED
    BY <2>2, <2>3, <2>4, <2>5 DEF Splitting
<1> HIDE DEF T
<1>7. b[m] = a[m]
  <2>1. m \in T
    BY <1>1, <1>5, <1>6, Induction
  <2> QED
    BY <1>1, <2>1 DEF T
<1>8. b[m + 1] = [parts |-> SplitTopLevel(g), last |-> m + 1]
  <2>1. m + 1 \in 1..n /\ (m + 1) - 1 = m /\ m \in 0..m /\ m <= n /\ m \in Int
    BY <1>1
  <2>2. b[m + 1] = Splitting(text, m + 1, a[m]) /\ a[m].last \in Nat
    BY <1>1, <1>3, <1>4, <1>7, <2>1 DEF Stage, Splits
  <2>3. SubSeq(text, a[m].last + 1, m) = SubSeq(g, a[m].last + 1, m)
    <3>1. a[m].last + 1 \in Int /\ a[m].last + 1 >= 1
      BY <2>2
    <3>2. \A j \in (a[m].last + 1)..m : text[j] = g[j]
      <4>1. \A j \in (a[m].last + 1)..m : j \in 1..m
        BY <1>1, <2>2
      <4> QED
        BY <1>1, <4>1
    <3> QED
      BY <1>1, <1>2, <2>1, <3>1, <3>2, SubSeqSame
  <2> QED
    BY <1>1, <1>3, <2>1, <2>2, <2>3 DEF Splitting
<1> DEFINE U == {i \in Nat : i <= e => b[(m + 1) + i] = b[m + 1]}
<1>9. 0 \in U
  BY <1>1
<1>10. ASSUME NEW i \in Nat, i \in U PROVE i + 1 \in U
  <2>1. SUFFICES ASSUME i + 1 <= e PROVE b[(m + 1) + (i + 1)] = b[m + 1]
    OBVIOUS
  <2>2. /\ (m + 1) + (i + 1) \in 1..n /\ ((m + 1) + (i + 1)) - 1 = (m + 1) + i
        /\ b[(m + 1) + i] = b[m + 1] /\ i + 1 \in 1..e
    BY <1>1, <1>10, <2>1
  <2>3. ~(text[(m + 1) + (i + 1)] = Comma /\ Depth(text, 1, (m + 1) + (i + 1)) = 0)
    BY <1>1, <1>2, <2>2
  <2>4. b[(m + 1) + (i + 1)] = Splitting(text, (m + 1) + (i + 1), b[m + 1])
    BY <1>1, <1>4, <2>2 DEF Stage
  <2> QED
    BY <2>3, <2>4 DEF Splitting
<1> HIDE DEF U
<1>11. b[n] = [parts |-> SplitTopLevel(g), last |-> m + 1]
  <2>1. e \in U
    BY <1>1, <1>9, <1>10, Induction
  <2> QED
    BY <1>1, <1>8, <2>1 DEF U
<1>12. SubSeq(text, (m + 1) + 1, (m + 1) + e) = w
  <2>1. m + 1 \in Nat /\ (m + 1) + e <= Len(text)
    BY <1>1
  <2> QED
    BY <1>1, <1>2, <2>1, Slice
<1>13. SplitTopLevel(text) = Append(SplitTopLevel(g), w)
  BY <1>4, <1>11, <1>12
<1> QED
  BY <1>13 DEF text
-----------------------------------------------------------------------------
(* What is written, and what it stands for *)

\* f is computed from the end of a list to its front.
Back(f, base, step, m) == f[m + 1] = base /\ \A i \in 1..m : f[i] = step[<<i, f[i + 1]>>]

LEMMA Backwards ==
  ASSUME NEW m \in Nat, NEW S, NEW base \in S, NEW step \in [(1..m) \X S -> S]
  PROVE  \E f \in [1..(m + 1) -> S] : Back(f, base, step, m)
<1> DEFINE turned == [x \in (1..m) \X S |-> step[<<m + 1 - x[1], x[2]>>]]
<1>1. turned \in [(1..m) \X S -> S]
  <2>1. \A k \in 1..m, x \in S : m + 1 - k \in 1..m /\ step[<<m + 1 - k, x>>] \in S
    OBVIOUS
  <2> QED
    BY <2>1
<1>2. \A k \in 1..m, x \in S : turned[<<k, x>>] = step[<<m + 1 - k, x>>]
  OBVIOUS
<1> HIDE DEF turned
<1>3. PICK g \in [0..m -> S] : Solves(g, base, turned, m)
  BY <1>1, Recursion
<1> DEFINE f == [i \in 1..(m + 1) |-> g[m + 1 - i]]
<1>4. f \in [1..(m + 1) -> S]
  <2>1. \A i \in 1..(m + 1) : m + 1 - i \in 0..m
    OBVIOUS
  <2> QED
    BY <1>3, <2>1
<1>5. f[m + 1] = base
  <2>1. m + 1 \in 1..(m + 1) /\ m + 1 - (m + 1) = 0
    OBVIOUS
  <2> QED
    BY <1>3, <2>1 DEF Solves
<1>6. ASSUME NEW i \in 1..m PROVE f[i] = step[<<i, f[i + 1]>>]
  <2>1. /\ i \in 1..(m + 1) /\ i + 1 \in 1..(m + 1) /\ m + 1 - i \in 1..m
        /\ (m + 1 - i) - 1 = m + 1 - (i + 1) /\ m + 1 - (m + 1 - i) = i /\ m + 1 - (i + 1) \in 0..m
    OBVIOUS
  <2>2. f[i] = g[m + 1 - i] /\ f[i + 1] = g[m + 1 - (i + 1)] /\ g[m + 1 - (i + 1)] \in S
    BY <1>3, <2>1
  <2> HIDE DEF f
  <2>3. g[m + 1 - i] = turned[<<m + 1 - i, g[m + 1 - (i + 1)]>>]
    BY <1>3, <2>1 DEF Solves
  <2>4. turned[<<m + 1 - i, g[m + 1 - (i + 1)]>>] = step[<<i, g[m + 1 - (i + 1)]>>]
    BY <1>2, <2>1, <2>2
  <2> QED
    BY <2>2, <2>3, <2>4
<1> HIDE DEF f
<1>7. Back(f, base, step, m)
  BY <1>5, <1>6 DEF Back
<1> QED
  BY <1>4, <1>7

\* The text from each node of a list to its end.
TextFrom(f, nodes, written) ==
  /\ f[Len(nodes) + 1] = <<>>
  /\ \A i \in 1..Len(nodes) : f[i] = written[nodes[i]] \o f[i + 1]

LEMMA TextIs ==
  ASSUME NEW N, NEW nodes \in Seq(N), NEW written, \A x \in N : written[x] \in Patterns
  PROVE  \E f \in [1..(Len(nodes) + 1) -> Patterns] :
           TextFrom(f, nodes, written) /\ Text(nodes, written) = f[1]
<1> DEFINE m == Len(nodes)
           step == [x \in (1..m) \X Patterns |-> written[nodes[x[1]]] \o x[2]]
           Eq(g) == g = [i \in 1..(m + 1) |->
                          IF i > m THEN <<>> ELSE written[nodes[i]] \o g[i + 1]]
<1>1. m \in Nat /\ <<>> \in Patterns /\ \A i \in 1..m : written[nodes[i]] \in Patterns
  <2>1. \A i \in 1..m : nodes[i] \in N
    BY ElementOfSeq
  <2> QED
    BY <2>1 DEF Patterns
<1>2. step \in [(1..m) \X Patterns -> Patterns]
  <2>1. \A i \in 1..m, x \in Patterns : written[nodes[i]] \o x \in Patterns
    BY <1>1, ConcatProperties DEF Patterns
  <2> QED
    BY <2>1
<1>3. \A i \in 1..m, x \in Patterns : step[<<i, x>>] = written[nodes[i]] \o x
  OBVIOUS
<1> HIDE DEF step
<1>4. PICK g \in [1..(m + 1) -> Patterns] : Back(g, <<>>, step, m)
  <2> HIDE DEF m
  <2> QED
    BY <1>1, <1>2, Backwards
<1>5. g[m + 1] = <<>> /\ \A i \in 1..m : g[i] = written[nodes[i]] \o g[i + 1]
  <2>1. \A i \in 1..m : i + 1 \in 1..(m + 1)
    BY <1>1
  <2> QED
    BY <1>3, <1>4, <2>1 DEF Back
<1>6. Eq(g)
  <2>1. g = [i \in 1..(m + 1) |-> g[i]]
    OBVIOUS
  <2>2. \A i \in 1..(m + 1) : (i > m /\ i = m + 1) \/ (i \in 1..m /\ ~(i > m))
    BY <1>1
  <2> QED
    BY <1>5, <2>1, <2>2
<1> DEFINE h == CHOOSE f : Eq(f)
<1>7. Eq(h)
  BY <1>6
<1>8. Text(nodes, written) = h[1]
  BY DEF Text
<1> HIDE DEF h
<1>9. h[m + 1] = <<>> /\ \A i \in 1..m : h[i] = written[nodes[i]] \o h[i + 1]
  <2>1. \A i \in 1..(m + 1) : h[i] = IF i > m THEN <<>> ELSE written[nodes[i]] \o h[i + 1]
    BY <1>7, Zenon
  <2>2. /\ m + 1 \in 1..(m + 1) /\ m + 1 > m
        /\ \A i \in 1..m : i \in 1..(m + 1) /\ ~(i > m)
    BY <1>1
  <2> QED
    BY <2>1, <2>2
<1> DEFINE T == {i \in Nat : i <= m => h[(m + 1) - i] = g[(m + 1) - i]}
<1>10. ASSUME NEW i \in Nat, i \in T PROVE i + 1 \in T
  <2>1. SUFFICES ASSUME i + 1 <= m PROVE h[(m + 1) - (i + 1)] = g[(m + 1) - (i + 1)]
    OBVIOUS
  <2>2. /\ (m + 1) - (i + 1) \in 1..m /\ ((m + 1) - (i + 1)) + 1 = (m + 1) - i
        /\ h[(m + 1) - i] = g[(m + 1) - i]
    BY <1>1, <1>10, <2>1
  <2> QED
    BY <1>5, <1>9, <2>2
<1>11. 0 \in T
  <2>1. (m + 1) - 0 = m + 1
    BY <1>1
  <2> QED
    BY <1>5, <1>9, <2>1
<1> HIDE DEF T
<1>12. m \in T
  BY <1>1, <1>10, <1>11, Induction
<1>13. h[1] = g[1]
  <2>1. (m + 1) - m = 1 /\ m <= m
    BY <1>1
  <2> QED
    BY <1>12, <2>1 DEF T
<1>14. TextFrom(g, nodes, written) /\ Text(nodes, written) = g[1]
  BY <1>5, <1>8, <1>13 DEF TextFrom
<1> QED
  BY <1>4, <1>14

LEMMA TextIsClosed ==
  ASSUME NEW N, NEW nodes \in Seq(N), NEW written, \A x \in N : Closed(written[x])
  PROVE  Closed(Text(nodes, written))
<1> DEFINE m == Len(nodes)
<1>1. m \in Nat /\ \A i \in 1..m : Closed(written[nodes[i]])
  <2>1. \A i \in 1..m : nodes[i] \in N
    BY ElementOfSeq
  <2> QED
    BY <2>1
<1>2. \A x \in N : written[x] \in Patterns
  BY DEF Closed, Level
<1>3. PICK f \in [1..(m + 1) -> Patterns] :
             TextFrom(f, nodes, written) /\ Text(nodes, written) = f[1]
  BY <1>2, TextIs
<1> DEFINE T == {i \in Nat : i <= m => Closed(f[(m + 1) - i])}
<1>4. 0 \in T
  <2>1. (m + 1) - 0 = m + 1
    BY <1>1
  <2> QED
    BY <1>3, <2>1, EmptyIsClosed DEF TextFrom
<1>5. ASSUME NEW i \in Nat, i \in T PROVE i + 1 \in T
  <2>1. SUFFICES ASSUME i + 1 <= m PROVE Closed(f[(m + 1) - (i + 1)])
    OBVIOUS
  <2>2. /\ (m + 1) - (i + 1) \in 1..m /\ ((m + 1) - (i + 1)) + 1 = (m + 1) - i
        /\ Closed(f[(m + 1) - i])
    BY <1>1, <1>5, <2>1
  <2>3. f[(m + 1) - (i + 1)] = written[nodes[(m + 1) - (i + 1)]] \o f[(m + 1) - i]
    BY <1>3, <2>2 DEF TextFrom
  <2> QED
    BY <1>1, <2>2, <2>3, ConcatIsClosed
<1> HIDE DEF T
<1>6. m \in T
  BY <1>1, <1>4, <1>5, Induction
<1>7. Closed(f[1])
  <2>1. (m + 1) - m = 1 /\ m <= m
    BY <1>1
  <2> QED
    BY <1>6, <2>1 DEF T
<1> QED
  BY <1>3, <1>7

LEMMA Associative ==
  ASSUME NEW a \in Patterns, NEW b \in Patterns, NEW d \in Patterns
  PROVE  (a \o b) \o d = a \o (b \o d)
<1>1. a \in Seq(Characters) /\ b \in Seq(Characters) /\ d \in Seq(Characters)
  BY DEF Patterns
<1> QED
  BY <1>1, ConcatAssociative

\* A group's texts, with commas between them, are its parts.
LEMMA PartsAre ==
  ASSUME NEW K \in Nat \ {0}, NEW w \in [1..K -> Patterns], \A k \in 1..K : Closed(w[k])
  PROVE  \E g : /\ Level(g) /\ SplitTopLevel(g) = w
                /\ FlattenSeq([k \in 1..K |-> (IF k = 1 THEN <<Open>> ELSE <<Comma>>) \o w[k]])
                   = <<Open>> \o g
<1> DEFINE pieces == [k \in 1..K |-> (IF k = 1 THEN <<Open>> ELSE <<Comma>>) \o w[k]]
           o == <<Open>>
           c == <<Comma>>
<1>1. o \in Patterns /\ c \in Patterns
  BY ArgumentsAssumption, OneCharacter
<1>2. \A k \in 1..K : w[k] \in Patterns /\ pieces[k] = (IF k = 1 THEN o ELSE c) \o w[k]
  OBVIOUS
<1> HIDE DEF o, c
<1>3. \A k \in 1..K : o \o w[k] \in Patterns /\ c \o w[k] \in Patterns
  BY <1>1, <1>2, ConcatProperties DEF Patterns
<1>4. pieces \in [1..K -> Seq(Characters)]
  BY <1>3 DEF Patterns, o, c
<1> HIDE DEF pieces
<1>5. PICK f \in [0..K -> Seq(Characters)] :
           /\ f[0] = <<>> /\ \A n \in 1..K : f[n] = f[n - 1] \o pieces[n]
           /\ FlattenSeq(pieces) = f[K]
  BY <1>4, Flattened
<1> DEFINE First(k) == [j \in 1..k |-> w[j]]
           Parts(k, g) == Level(g) /\ SplitTopLevel(g) = First(k) /\ f[k] = o \o g
           T == {k \in Nat : k + 1 <= K => \E g : Parts(k + 1, g)}
<1>6. Parts(1, w[1])
  <2>1. 1 \in 1..K /\ 1 - 1 = 0
    OBVIOUS
  <2>2. Level(w[1]) /\ SplitTopLevel(w[1]) = <<w[1]>>
    BY <2>1, SplitOfClosed DEF Closed
  <2>3. First(1) = <<w[1]>>
    OBVIOUS
  <2>4. f[1] = o \o w[1]
    <3>1. f[1] = <<>> \o (o \o w[1])
      BY <1>2, <1>5, <2>1
    <3> QED
      BY <1>3, <2>1, <3>1, ConcatEmptySeq DEF Patterns
  <2> QED
    BY <2>2, <2>3, <2>4
<1>7. 0 \in T
  <2>1. 0 + 1 = 1
    OBVIOUS
  <2> HIDE DEF Parts
  <2> QED
    BY <1>6, <2>1
<1>8. ASSUME NEW k \in Nat, k \in T PROVE k + 1 \in T
  <2> HIDE DEF Parts
  <2>1. SUFFICES ASSUME (k + 1) + 1 <= K PROVE \E g : Parts((k + 1) + 1, g)
    OBVIOUS
  <2> DEFINE n == k + 1
  <2>2. n \in Nat /\ n + 1 \in 1..K /\ n + 1 # 1 /\ (n + 1) - 1 = n /\ n \in 1..K /\ n <= K
    BY <2>1
  <2> HIDE DEF n
  <2>3. PICK g : Parts(n, g)
    BY <1>8, <2>2 DEF n
  <2> USE DEF Parts
  <2> DEFINE more == w[n + 1]
             longer == g \o (c \o more)
  <2>4. Closed(more) /\ more \in Patterns /\ Level(g) /\ g \in Patterns
    BY <2>2, <2>3 DEF Level
  <2>5. Level(longer)
    <3>1. Between(longer, g, Len(g), more, Len(more))
      BY <2>4, CommaAt DEF c
    <3> QED
      BY <3>1 DEF Between
  <2>6. SplitTopLevel(longer) = Append(First(n), more)
    <3>1. SplitTopLevel(longer) = Append(SplitTopLevel(g), more)
      BY <2>4, SplitOfConcat DEF c
    <3> QED
      BY <2>3, <3>1
  <2>7. Append(First(n), more) = First(n + 1)
    <3>1. First(n) \in Seq(Patterns) /\ Len(First(n)) = n
      <4>1. First(n) \in [1..n -> Patterns]
        BY <2>2
      <4> HIDE DEF First
      <4> QED
        BY <2>2, <4>1, FunctionIsSeq
    <3>2. First(n + 1) \in Seq(Patterns) /\ Len(First(n + 1)) = n + 1
      <4>1. First(n + 1) \in [1..(n + 1) -> Patterns] /\ n + 1 \in Nat
        BY <2>2
      <4> HIDE DEF First
      <4> QED
        BY <4>1, FunctionIsSeq
    <3>3. /\ \A j \in 1..n : First(n)[j] = w[j] /\ First(n + 1)[j] = w[j]
          /\ First(n + 1)[n + 1] = more
      BY <2>2
    <3> HIDE DEF First, more
    <3>4. /\ Append(First(n), more) \in Seq(Patterns) /\ Len(Append(First(n), more)) = n + 1
          /\ \A j \in 1..n : Append(First(n), more)[j] = First(n)[j]
          /\ Append(First(n), more)[n + 1] = more
      BY <2>4, <3>1, AppendProperties
    <3>5. \A j \in 1..(n + 1) : Append(First(n), more)[j] = First(n + 1)[j]
      <4>1. \A j \in 1..(n + 1) : j \in 1..n \/ j = n + 1
        BY <2>2
      <4> QED
        BY <3>3, <3>4, <4>1
    <3> QED
      BY <3>2, <3>4, <3>5, SeqEqual
  <2>8. f[n + 1] = o \o longer
    <3>1. f[n + 1] = (o \o g) \o (c \o more)
      BY <1>2, <1>5, <2>2, <2>3
    <3> HIDE DEF more
    <3>2. c \o more \in Patterns
      BY <1>1, <2>4, ConcatProperties DEF Patterns
    <3>3. (o \o g) \o (c \o more) = o \o (g \o (c \o more))
      BY <1>1, <2>4, <3>2, Associative
    <3> QED
      BY <3>1, <3>3
  <2>9. Parts(n + 1, longer)
    BY <2>5, <2>6, <2>7, <2>8
  <2> HIDE DEF Parts
  <2> QED
    BY <2>9 DEF n
<1> HIDE DEF T
<1>9. K - 1 \in T
  <2>1. K - 1 \in Nat
    OBVIOUS
  <2> QED
    BY <1>7, <1>8, <2>1, Induction
<1>10. \E g : Parts(K, g)
  <2>1. (K - 1) + 1 = K /\ K <= K
    OBVIOUS
  <2> HIDE DEF Parts
  <2> QED
    BY <1>9, <2>1 DEF T
<1>11. First(K) = w
  OBVIOUS
<1> HIDE DEF First
<1> QED
  BY <1>5, <1>10, <1>11 DEF pieces, o
-----------------------------------------------------------------------------
(* What is joined, and what is read *)

Pairwise(A, B) == {x \o y : x \in A, y \in B}

LEMMA JoinedIs ==
  ASSUME NEW a \in Seq(Patterns), NEW b \in Seq(Patterns)
  PROVE  /\ Joined(a, b) \in Seq(Patterns)
         /\ Len(Joined(a, b)) = Len(a) * Len(b)
         /\ ToSet(Joined(a, b)) = Pairwise(ToSet(a), ToSet(b))
<1> DEFINE m == Len(a)
           n == Len(b)
           row(i) == [j \in 1..n |-> a[i] \o b[j]]
           pieces == [i \in 1..m |-> row(i)]
           size == [i \in 1..m |-> n]
           sum == [i \in 0..m |-> i * n]
           sets == [i \in 1..m |-> ToSet(pieces[i])]
<1>1. /\ m \in Nat /\ n \in Nat /\ DOMAIN a = 1..m /\ DOMAIN b = 1..n
      /\ \A i \in 1..m : a[i] \in Patterns
      /\ \A i \in 1..n : b[i] \in Patterns
  BY LenProperties, ElementOfSeq
<1>2. \A i \in 1..m, j \in 1..n : a[i] \o b[j] \in Patterns
  BY <1>1, ConcatProperties DEF Patterns
<1>3. Joined(a, b) = FlattenSeq(pieces)
  BY DEF Joined
<1> HIDE DEF m, n
<1>4. ASSUME NEW i \in 1..m
      PROVE  /\ row(i) \in Seq(Patterns) /\ Len(row(i)) = n
             /\ ToSet(row(i)) = {a[i] \o b[j] : j \in 1..n}
  <2>1. row(i) \in [1..n -> Patterns]
    BY <1>2
  <2>2. ToSet(row(i)) = {a[i] \o b[j] : j \in 1..n}
    BY DEF ToSet
  <2> HIDE DEF row
  <2> QED
    BY <1>1, <2>1, <2>2, FunctionIsSeq
<1> HIDE DEF row
<1>5. /\ pieces \in [1..m -> Seq(Patterns)] /\ size \in [1..m -> Nat] /\ sum \in [0..m -> Nat]
      /\ \A i \in 1..m : /\ pieces[i] = row(i) /\ size[i] = Len(pieces[i])
                         /\ sets[i] = ToSet(pieces[i])
  <2>1. \A i \in 0..m : i * n \in Nat
    BY <1>1
  <2> QED
    BY <1>1, <1>4, <2>1
<1>6. Adds(sum, size, m)
  <2>1. 0 * n = 0 /\ 0 \in 0..m
    BY <1>1
  <2>2. ASSUME NEW i \in 1..m PROVE i - 1 \in 0..m /\ i \in 0..m /\ i * n = (i - 1) * n + n
    BY <1>1
  <2> QED
    BY <2>1, <2>2 DEF Adds
<1>7. sum[m] = m * n
  BY <1>1
<1> HIDE DEF pieces, size, sum, sets
<1>8. /\ FlattenSeq(pieces) \in Seq(Patterns) /\ Len(FlattenSeq(pieces)) = sum[m]
      /\ ToSet(FlattenSeq(pieces)) = Together(sets, m)
  <2>1. Measured(Patterns, pieces, m, size, sum, sets)
    BY <1>1, <1>5, <1>6 DEF Measured
  <2> QED
    BY <2>1, FlattenedIs
<1>9. Together(sets, m) = Pairwise(ToSet(a), ToSet(b))
  <2>1. \A i \in 1..m : sets[i] = {a[i] \o b[j] : j \in 1..n}
    BY <1>4, <1>5
  <2>2. ToSet(a) = {a[i] : i \in 1..m} /\ ToSet(b) = {b[j] : j \in 1..n}
    BY <1>1 DEF ToSet
  <2>3. ASSUME NEW d \in Together(sets, m) PROVE d \in Pairwise(ToSet(a), ToSet(b))
    <3>1. PICK i \in 1..m : d \in sets[i]
      BY DEF Together
    <3>2. PICK j \in 1..n : d = a[i] \o b[j]
      BY <2>1, <3>1
    <3>3. a[i] \in ToSet(a) /\ b[j] \in ToSet(b)
      BY <2>2
    <3>4. \E x \in ToSet(a), y \in ToSet(b) : d = x \o y
      BY <3>2, <3>3
    <3> QED
      BY <3>4 DEF Pairwise
  <2>4. ASSUME NEW d \in Pairwise(ToSet(a), ToSet(b)) PROVE d \in Together(sets, m)
    <3>1. PICK x \in ToSet(a), y \in ToSet(b) : d = x \o y
      BY DEF Pairwise
    <3>2. PICK i \in 1..m : x = a[i]
      BY <2>2
    <3>3. PICK j \in 1..n : y = b[j]
      BY <2>2
    <3>4. d \in sets[i]
      BY <2>1, <3>1, <3>2, <3>3
    <3> QED
      BY <3>4 DEF Together
  <2> QED
    BY <2>3, <2>4
<1> QED
  BY <1>3, <1>7, <1>8, <1>9 DEF m, n

\* Patterns that hold no group, and at least one of them.
Readable(R) == R \in Seq(Patterns) /\ Len(R) >= 1 /\ \A d \in ToSet(R) : NoOpening(d)

LEMMA ConcatNoOpening ==
  ASSUME NEW a, NEW b, NoOpening(a), NoOpening(b)
  PROVE  NoOpening(a \o b)
<1>1. a \in Seq(Characters) /\ b \in Seq(Characters) /\ Len(a) \in Nat /\ Len(b) \in Nat
  BY DEF NoOpening, Patterns
<1>2. /\ a \o b \in Seq(Characters) /\ Len(a \o b) = Len(a) + Len(b)
      /\ \A i \in 1..Len(a) + Len(b) : (a \o b)[i] = IF i <= Len(a) THEN a[i] ELSE b[i - Len(a)]
  BY <1>1, ConcatProperties
<1>3. ASSUME NEW i \in 1..(Len(a) + Len(b)) PROVE (a \o b)[i] # Open
  <2>1. CASE i <= Len(a)
    BY <1>1, <1>2, <2>1 DEF NoOpening
  <2>2. CASE ~(i <= Len(a))
    <3>1. i - Len(a) \in 1..Len(b)
      BY <1>1, <2>2
    <3> QED
      BY <1>1, <1>2, <2>2, <3>1 DEF NoOpening
  <2> QED
    BY <2>1, <2>2
<1> QED
  BY <1>2, <1>3 DEF NoOpening, Patterns

LEMMA JoinedIsReadable ==
  ASSUME NEW a, NEW b, Readable(a), Readable(b)
  PROVE  Readable(Joined(a, b))
<1>1. a \in Seq(Patterns) /\ b \in Seq(Patterns) /\ Len(a) \in Nat /\ Len(b) \in Nat
  BY DEF Readable
<1>2. /\ Joined(a, b) \in Seq(Patterns) /\ Len(Joined(a, b)) = Len(a) * Len(b)
      /\ ToSet(Joined(a, b)) = Pairwise(ToSet(a), ToSet(b))
  BY <1>1, JoinedIs
<1>3. Len(a) * Len(b) >= 1
  <2>1. Len(a) >= 1 /\ Len(b) >= 1
    BY DEF Readable
  <2> QED
    BY <1>1, <2>1
<1>4. ASSUME NEW d \in Pairwise(ToSet(a), ToSet(b)) PROVE NoOpening(d)
  <2>1. PICK x \in ToSet(a), y \in ToSet(b) : d = x \o y
    BY DEF Pairwise
  <2>2. NoOpening(x) /\ NoOpening(y)
    BY DEF Readable
  <2> QED
    BY <2>1, <2>2, ConcatNoOpening
<1> QED
  BY <1>2, <1>3, <1>4 DEF Readable

\* What a list stands for from each node to its end.
ReadFrom(f, nodes, denoted) ==
  /\ f[Len(nodes) + 1] = << <<>> >>
  /\ \A i \in 1..Len(nodes) : f[i] = Joined(denoted[nodes[i]], f[i + 1])

LEMMA ReadingsAre ==
  ASSUME NEW N, NEW nodes \in Seq(N), NEW denoted, \A x \in N : denoted[x] \in Seq(Patterns)
  PROVE  \E f \in [1..(Len(nodes) + 1) -> Seq(Patterns)] :
           ReadFrom(f, nodes, denoted) /\ Readings(nodes, denoted) = f[1]
<1> DEFINE m == Len(nodes)
           step == [x \in (1..m) \X Seq(Patterns) |-> Joined(denoted[nodes[x[1]]], x[2])]
           Eq(g) == g = [i \in 1..(m + 1) |->
                          IF i > m THEN << <<>> >> ELSE Joined(denoted[nodes[i]], g[i + 1])]
<1>1. m \in Nat /\ << <<>> >> \in Seq(Patterns) /\ \A i \in 1..m : denoted[nodes[i]] \in Seq(Patterns)
  <2>1. \A i \in 1..m : nodes[i] \in N
    BY ElementOfSeq
  <2> QED
    BY <2>1 DEF Patterns
<1>2. step \in [(1..m) \X Seq(Patterns) -> Seq(Patterns)]
  <2>1. \A i \in 1..m, x \in Seq(Patterns) : Joined(denoted[nodes[i]], x) \in Seq(Patterns)
    BY <1>1, JoinedIs
  <2> QED
    BY <2>1
<1>3. \A i \in 1..m, x \in Seq(Patterns) : step[<<i, x>>] = Joined(denoted[nodes[i]], x)
  OBVIOUS
<1> HIDE DEF step
<1>4. PICK g \in [1..(m + 1) -> Seq(Patterns)] : Back(g, << <<>> >>, step, m)
  <2> HIDE DEF m
  <2> QED
    BY <1>1, <1>2, Backwards
<1>5. g[m + 1] = << <<>> >> /\ \A i \in 1..m : g[i] = Joined(denoted[nodes[i]], g[i + 1])
  <2>1. \A i \in 1..m : i + 1 \in 1..(m + 1)
    BY <1>1
  <2> QED
    BY <1>3, <1>4, <2>1 DEF Back
<1>6. Eq(g)
  <2>1. g = [i \in 1..(m + 1) |-> g[i]]
    OBVIOUS
  <2>2. \A i \in 1..(m + 1) : (i > m /\ i = m + 1) \/ (i \in 1..m /\ ~(i > m))
    BY <1>1
  <2> QED
    BY <1>5, <2>1, <2>2
<1> DEFINE h == CHOOSE f : Eq(f)
<1>7. Eq(h)
  BY <1>6
<1>8. Readings(nodes, denoted) = h[1]
  BY DEF Readings
<1> HIDE DEF h
<1>9. h[m + 1] = << <<>> >> /\ \A i \in 1..m : h[i] = Joined(denoted[nodes[i]], h[i + 1])
  <2>1. \A i \in 1..(m + 1) : h[i] = IF i > m THEN << <<>> >> ELSE Joined(denoted[nodes[i]], h[i + 1])
    BY <1>7, Zenon
  <2>2. /\ m + 1 \in 1..(m + 1) /\ m + 1 > m
        /\ \A i \in 1..m : i \in 1..(m + 1) /\ ~(i > m)
    BY <1>1
  <2> QED
    BY <2>1, <2>2
<1> DEFINE T == {i \in Nat : i <= m => h[(m + 1) - i] = g[(m + 1) - i]}
<1>10. ASSUME NEW i \in Nat, i \in T PROVE i + 1 \in T
  <2>1. SUFFICES ASSUME i + 1 <= m PROVE h[(m + 1) - (i + 1)] = g[(m + 1) - (i + 1)]
    OBVIOUS
  <2>2. /\ (m + 1) - (i + 1) \in 1..m /\ ((m + 1) - (i + 1)) + 1 = (m + 1) - i
        /\ h[(m + 1) - i] = g[(m + 1) - i]
    BY <1>1, <1>10, <2>1
  <2> QED
    BY <1>5, <1>9, <2>2
<1>11. 0 \in T
  <2>1. (m + 1) - 0 = m + 1
    BY <1>1
  <2> QED
    BY <1>5, <1>9, <2>1
<1> HIDE DEF T
<1>12. m \in T
  BY <1>1, <1>10, <1>11, Induction
<1>13. h[1] = g[1]
  <2>1. (m + 1) - m = 1 /\ m <= m
    BY <1>1
  <2> QED
    BY <1>12, <2>1 DEF T
<1>14. ReadFrom(g, nodes, denoted) /\ Readings(nodes, denoted) = g[1]
  BY <1>5, <1>8, <1>13 DEF ReadFrom
<1> QED
  BY <1>4, <1>14

LEMMA NothingIsReadable == Readable(<< <<>> >>) /\ ToSet(<< <<>> >>) = {<<>>} /\ Len(<< <<>> >>) = 1
<1>1. << <<>> >> \in Seq(Patterns) /\ Len(<< <<>> >>) = 1
  BY DEF Patterns
<1>2. ToSet(<< <<>> >>) = {<<>>}
  BY DEF ToSet
<1>3. NoOpening(<<>>)
  BY DEF NoOpening, Patterns
<1> QED
  BY <1>1, <1>2, <1>3 DEF Readable

\* Every end of a list can be read.
LEMMA ReadingsAreReadable ==
  ASSUME NEW N, NEW nodes \in Seq(N), NEW denoted, \A x \in N : Readable(denoted[x])
  PROVE  /\ Readable(Readings(nodes, denoted))
         /\ \A f : ReadFrom(f, nodes, denoted) => \A i \in 1..(Len(nodes) + 1) : Readable(f[i])
<1> DEFINE m == Len(nodes)
<1>1. m \in Nat /\ \A i \in 1..m : Readable(denoted[nodes[i]])
  <2>1. \A i \in 1..m : nodes[i] \in N
    BY ElementOfSeq
  <2> QED
    BY <2>1
<1>2. ASSUME NEW f, ReadFrom(f, nodes, denoted), NEW i \in 1..(m + 1) PROVE Readable(f[i])
  <2> DEFINE T == {k \in Nat : k <= m => Readable(f[(m + 1) - k])}
  <2>1. 0 \in T
    <3>1. (m + 1) - 0 = m + 1
      BY <1>1
    <3> QED
      BY <1>2, <3>1, NothingIsReadable DEF ReadFrom
  <2>2. ASSUME NEW k \in Nat, k \in T PROVE k + 1 \in T
    <3>1. SUFFICES ASSUME k + 1 <= m PROVE Readable(f[(m + 1) - (k + 1)])
      OBVIOUS
    <3>2. /\ (m + 1) - (k + 1) \in 1..m /\ ((m + 1) - (k + 1)) + 1 = (m + 1) - k
          /\ Readable(f[(m + 1) - k])
      BY <1>1, <2>2, <3>1
    <3>3. f[(m + 1) - (k + 1)] = Joined(denoted[nodes[(m + 1) - (k + 1)]], f[(m + 1) - k])
      BY <1>2, <3>2 DEF ReadFrom
    <3> QED
      BY <1>1, <3>2, <3>3, JoinedIsReadable
  <2> HIDE DEF T
  <2>3. (m + 1) - i \in T
    <3>1. (m + 1) - i \in Nat
      BY <1>1
    <3> QED
      BY <2>1, <2>2, <3>1, Induction
  <2>4. (m + 1) - ((m + 1) - i) = i /\ (m + 1) - i <= m
    BY <1>1
  <2> QED
    BY <2>3, <2>4 DEF T
<1>3. PICK f \in [1..(m + 1) -> Seq(Patterns)] :
             ReadFrom(f, nodes, denoted) /\ Readings(nodes, denoted) = f[1]
  <2>1. \A x \in N : denoted[x] \in Seq(Patterns)
    BY DEF Readable
  <2> QED
    BY <2>1, ReadingsAre
<1>4. 1 \in 1..(m + 1)
  BY <1>1
<1> QED
  BY <1>2, <1>3, <1>4

\* A group stands for all that its alternatives stand for.
LEMMA AlternativesAre ==
  ASSUME NEW K \in Nat \ {0}, NEW R \in [1..K -> Seq(Patterns)], \A k \in 1..K : Readable(R[k])
  PROVE  /\ Readable(FlattenSeq(R))
         /\ \A size \in [1..K -> Nat], sum \in [0..K -> Nat] :
              Adds(sum, size, K) /\ (\A k \in 1..K : size[k] = Len(R[k]))
              => Len(FlattenSeq(R)) = sum[K]
         /\ ToSet(FlattenSeq(R)) = UNION {ToSet(R[k]) : k \in 1..K}
<1> DEFINE lens == [k \in 1..K |-> Len(R[k])]
           sets == [k \in 1..K |-> ToSet(R[k])]
<1>1. lens \in [1..K -> Nat] /\ \A k \in 1..K : lens[k] = Len(R[k]) /\ sets[k] = ToSet(R[k])
  <2>1. \A k \in 1..K : Len(R[k]) \in Nat
    OBVIOUS
  <2> QED
    BY <2>1
<1>2. Together(sets, K) = UNION {ToSet(R[k]) : k \in 1..K}
  BY <1>1 DEF Together
<1> HIDE DEF lens, sets
<1>3. ASSUME NEW size \in [1..K -> Nat], NEW sum \in [0..K -> Nat], Adds(sum, size, K),
             \A k \in 1..K : size[k] = Len(R[k])
      PROVE  /\ FlattenSeq(R) \in Seq(Patterns) /\ Len(FlattenSeq(R)) = sum[K]
             /\ ToSet(FlattenSeq(R)) = Together(sets, K)
  <2>1. Measured(Patterns, R, K, size, sum, sets)
    BY <1>1, <1>3 DEF Measured
  <2> QED
    BY <2>1, FlattenedIs
<1>4. PICK sum \in [0..K -> Nat] : Adds(sum, lens, K)
  BY <1>1, SumExists
<1>5. /\ FlattenSeq(R) \in Seq(Patterns) /\ Len(FlattenSeq(R)) \in Nat
      /\ ToSet(FlattenSeq(R)) = Together(sets, K)
  <2>1. \A k \in 1..K : lens[k] = Len(R[k])
    BY <1>1
  <2>2. sum[K] \in Nat
    OBVIOUS
  <2>3. /\ FlattenSeq(R) \in Seq(Patterns) /\ Len(FlattenSeq(R)) = sum[K]
        /\ ToSet(FlattenSeq(R)) = Together(sets, K)
    BY <1>1, <1>3, <1>4, <2>1, Zenon
  <2> QED
    BY <2>2, <2>3
<1>6. Len(FlattenSeq(R)) # 0
  <2>1. 1 \in 1..K
    OBVIOUS
  <2>2. R[1][1] \in ToSet(R[1])
    <3>1. R[1] \in Seq(Patterns) /\ Len(R[1]) >= 1
      BY <2>1 DEF Readable
    <3>2. DOMAIN R[1] = 1..Len(R[1]) /\ Len(R[1]) \in Nat
      BY <3>1, LenProperties
    <3>3. 1 \in DOMAIN R[1]
      BY <3>1, <3>2
    <3> QED
      BY <3>3 DEF ToSet
  <2>3. ToSet(FlattenSeq(R)) # {}
    <3>1. R[1][1] \in UNION {ToSet(R[k]) : k \in 1..K}
      BY <2>1, <2>2, Zenon
    <3> QED
      BY <1>2, <1>5, <3>1
  <2>4. ToSet(<<>>) = {}
    BY DEF ToSet
  <2> QED
    BY <1>5, <2>3, <2>4, EmptySeq
<1>7. ASSUME NEW d \in ToSet(FlattenSeq(R)) PROVE NoOpening(d)
  <2>1. PICK k \in 1..K : d \in ToSet(R[k])
    BY <1>2, <1>5
  <2> QED
    BY <2>1 DEF Readable
<1>8. Readable(FlattenSeq(R))
  BY <1>5, <1>6, <1>7 DEF Readable
<1> QED
  BY <1>2, <1>3, <1>5, <1>8
-----------------------------------------------------------------------------
(* The syntax, level by level *)

InnerAt(n, below) ==
  Char(Characters \ {Open, Close, Comma}) \cup
    IF n = 0 THEN {} ELSE [char: {Open}, alts: Seq(Seq(below)) \ {<<>>}]

WrittenAt(n, below) ==
  [node \in Outer(n) |->
    IF node.alts = <<>> THEN <<node.char>>
    ELSE FlattenSeq([k \in 1..Len(node.alts) |->
           (IF k = 1 THEN <<Open>> ELSE <<Comma>>) \o Text(node.alts[k], below)])
         \o <<Close>>]

DenotedAt(n, below) ==
  [node \in Outer(n) |->
    IF node.alts = <<>> THEN << <<node.char>> >>
    ELSE FlattenSeq([k \in 1..Len(node.alts) |-> Readings(node.alts[k], below)])]

LEMMA InnerIs == \A n \in 0..MaxNesting : Inner[n] = InnerAt(n, Inner[n - 1])
<1> DEFINE Eq(f, m) == f = [n \in 0..m |-> InnerAt(n, f[n - 1])]
           T == {m \in Nat : \E f : Eq(f, m)}
<1>1. 0 \in T
  <2> DEFINE f == [n \in 0..0 |-> InnerAt(0, {})]
  <2>1. \A x : InnerAt(0, x) = InnerAt(0, {})
    BY DEF InnerAt
  <2>2. Eq(f, 0)
    <3>1. f[0] = InnerAt(0, f[0 - 1])
      BY <2>1
    <3>2. \A n \in 0..0 : n = 0
      OBVIOUS
    <3> HIDE DEF f
    <3>3. f = [n \in 0..0 |-> f[n]]
      BY DEF f
    <3>4. \A n \in 0..0 : f[n] = InnerAt(n, f[n - 1])
      BY <3>1, <3>2
    <3> QED
      BY <3>3, <3>4
  <2> HIDE DEF f
  <2>3. \E g : Eq(g, 0)
    BY <2>2, Zenon
  <2> QED
    BY <2>3
<1>2. ASSUME NEW m \in Nat, m \in T PROVE m + 1 \in T
  <2>1. PICK f : Eq(f, m)
    BY <1>2
  <2> DEFINE up == m + 1
             g == [n \in 0..up |-> IF n = up THEN InnerAt(up, f[m]) ELSE f[n]]
  <2>2. /\ up \in 0..up /\ up \in Nat /\ up - 1 = m /\ m \in 0..m /\ m \in 0..up /\ m # up
        /\ \A n \in 0..up : n = up \/ (n \in 0..m /\ n # up /\ n - 1 # up)
        /\ \A n \in 0..m : n = 0 \/ n - 1 \in 0..up
    OBVIOUS
  <2> HIDE DEF up
  <2>3. \A n \in 0..m : f[n] = InnerAt(n, f[n - 1])
    BY <2>1, Zenon
  <2>4. ASSUME NEW n \in 0..up PROVE g[n] = InnerAt(n, g[n - 1])
    <3>1. CASE n = up
      <4>1. g[n] = InnerAt(up, f[m]) /\ g[n - 1] = f[m]
        BY <2>2, <3>1
      <4> QED
        BY <3>1, <4>1
    <3>2. CASE n \in 0..m /\ n # up
      <4>1. g[n] = f[n] /\ f[n] = InnerAt(n, f[n - 1])
        BY <2>3, <3>2
      <4>2. CASE n = 0
        <5>1. InnerAt(0, f[n - 1]) = InnerAt(0, g[n - 1])
          BY DEF InnerAt
        <5> QED
          BY <4>1, <4>2, <5>1
      <4>3. CASE n - 1 \in 0..up
        <5>1. g[n - 1] = f[n - 1]
          BY <2>2, <4>3
        <5> QED
          BY <4>1, <5>1
      <4> QED
        BY <2>2, <3>2, <4>2, <4>3
    <3> QED
      BY <2>2, <3>1, <3>2
  <2>5. g = [n \in 0..up |-> g[n]]
    OBVIOUS
  <2> HIDE DEF g
  <2>6. Eq(g, up)
    BY <2>4, <2>5
  <2>7. \E h : Eq(h, up)
    BY <2>6, Zenon
  <2> HIDE DEF Eq
  <2> QED
    BY <2>2, <2>7 DEF up
<1> HIDE DEF T
<1>3. MaxNesting \in T
  BY <1>1, <1>2, Induction, ArgumentsAssumption
<1>4. \E f : Eq(f, MaxNesting)
  BY <1>3 DEF T
<1> DEFINE h == CHOOSE f : Eq(f, MaxNesting)
<1>5. Eq(h, MaxNesting)
  BY <1>4, Zenon
<1>6. Inner = h
  BY DEF Inner, InnerAt
<1> HIDE DEF h
<1> QED
  BY <1>5, <1>6, Zenon

\* At the outermost level of nesting no node has alternatives.
LEMMA NoneAtZero == \A node \in Outer(0) : node.alts = <<>>
<1>1. 0 \in 0..MaxNesting
  BY ArgumentsAssumption
<1>2. Inner[0] = Char(Characters \ {Open, Close, Comma})
  BY <1>1, InnerIs DEF InnerAt
<1> QED
  BY <1>2 DEF Outer, Char

LEMMA WrittenIs == \A n \in 0..MaxNesting : Written[n] = WrittenAt(n, Written[n - 1])
<1> DEFINE Eq(f, m) == f = [n \in 0..m |-> WrittenAt(n, f[n - 1])]
           T == {m \in Nat : \E f : Eq(f, m)}
<1>1. 0 \in T
  <2> DEFINE f == [n \in 0..0 |-> WrittenAt(0, <<>>)]
  <2>1. \A x : WrittenAt(0, x) = WrittenAt(0, <<>>)
    BY NoneAtZero DEF WrittenAt
  <2>2. Eq(f, 0)
    <3>1. f[0] = WrittenAt(0, f[0 - 1])
      BY <2>1
    <3>2. \A n \in 0..0 : n = 0
      OBVIOUS
    <3> HIDE DEF f
    <3>3. f = [n \in 0..0 |-> f[n]]
      BY DEF f
    <3>4. \A n \in 0..0 : f[n] = WrittenAt(n, f[n - 1])
      BY <3>1, <3>2
    <3> QED
      BY <3>3, <3>4
  <2> HIDE DEF f
  <2>3. \E g : Eq(g, 0)
    BY <2>2, Zenon
  <2> QED
    BY <2>3
<1>2. ASSUME NEW m \in Nat, m \in T PROVE m + 1 \in T
  <2>1. PICK f : Eq(f, m)
    BY <1>2
  <2> DEFINE up == m + 1
             g == [n \in 0..up |-> IF n = up THEN WrittenAt(up, f[m]) ELSE f[n]]
  <2>2. /\ up \in 0..up /\ up \in Nat /\ up - 1 = m /\ m \in 0..m /\ m \in 0..up /\ m # up
        /\ \A n \in 0..up : n = up \/ (n \in 0..m /\ n # up /\ n - 1 # up)
        /\ \A n \in 0..m : n = 0 \/ n - 1 \in 0..up
    OBVIOUS
  <2> HIDE DEF up
  <2>3. \A n \in 0..m : f[n] = WrittenAt(n, f[n - 1])
    BY <2>1, Zenon
  <2>4. ASSUME NEW n \in 0..up PROVE g[n] = WrittenAt(n, g[n - 1])
    <3>1. CASE n = up
      <4>1. g[n] = WrittenAt(up, f[m]) /\ g[n - 1] = f[m]
        BY <2>2, <3>1
      <4> QED
        BY <3>1, <4>1
    <3>2. CASE n \in 0..m /\ n # up
      <4>1. g[n] = f[n] /\ f[n] = WrittenAt(n, f[n - 1])
        BY <2>3, <3>2
      <4>2. CASE n = 0
        <5>1. WrittenAt(0, f[n - 1]) = WrittenAt(0, g[n - 1])
          BY NoneAtZero DEF WrittenAt
        <5> QED
          BY <4>1, <4>2, <5>1
      <4>3. CASE n - 1 \in 0..up
        <5>1. g[n - 1] = f[n - 1]
          BY <2>2, <4>3
        <5> QED
          BY <4>1, <5>1
      <4> QED
        BY <2>2, <3>2, <4>2, <4>3
    <3> QED
      BY <2>2, <3>1, <3>2
  <2>5. g = [n \in 0..up |-> g[n]]
    OBVIOUS
  <2> HIDE DEF g
  <2>6. Eq(g, up)
    BY <2>4, <2>5
  <2>7. \E h : Eq(h, up)
    BY <2>6, Zenon
  <2> HIDE DEF Eq
  <2> QED
    BY <2>2, <2>7 DEF up
<1> HIDE DEF T
<1>3. MaxNesting \in T
  BY <1>1, <1>2, Induction, ArgumentsAssumption
<1>4. \E f : Eq(f, MaxNesting)
  BY <1>3 DEF T
<1> DEFINE h == CHOOSE f : Eq(f, MaxNesting)
<1>5. Eq(h, MaxNesting)
  BY <1>4, Zenon
<1>6. Written = h
  BY DEF Written, WrittenAt
<1> HIDE DEF h
<1> QED
  BY <1>5, <1>6, Zenon

LEMMA DenotedIs == \A n \in 0..MaxNesting : Denoted[n] = DenotedAt(n, Denoted[n - 1])
<1> DEFINE Eq(f, m) == f = [n \in 0..m |-> DenotedAt(n, f[n - 1])]
           T == {m \in Nat : \E f : Eq(f, m)}
<1>1. 0 \in T
  <2> DEFINE f == [n \in 0..0 |-> DenotedAt(0, <<>>)]
  <2>1. \A x : DenotedAt(0, x) = DenotedAt(0, <<>>)
    BY NoneAtZero DEF DenotedAt
  <2>2. Eq(f, 0)
    <3>1. f[0] = DenotedAt(0, f[0 - 1])
      BY <2>1
    <3>2. \A n \in 0..0 : n = 0
      OBVIOUS
    <3> HIDE DEF f
    <3>3. f = [n \in 0..0 |-> f[n]]
      BY DEF f
    <3>4. \A n \in 0..0 : f[n] = DenotedAt(n, f[n - 1])
      BY <3>1, <3>2
    <3> QED
      BY <3>3, <3>4
  <2> HIDE DEF f
  <2>3. \E g : Eq(g, 0)
    BY <2>2, Zenon
  <2> QED
    BY <2>3
<1>2. ASSUME NEW m \in Nat, m \in T PROVE m + 1 \in T
  <2>1. PICK f : Eq(f, m)
    BY <1>2
  <2> DEFINE up == m + 1
             g == [n \in 0..up |-> IF n = up THEN DenotedAt(up, f[m]) ELSE f[n]]
  <2>2. /\ up \in 0..up /\ up \in Nat /\ up - 1 = m /\ m \in 0..m /\ m \in 0..up /\ m # up
        /\ \A n \in 0..up : n = up \/ (n \in 0..m /\ n # up /\ n - 1 # up)
        /\ \A n \in 0..m : n = 0 \/ n - 1 \in 0..up
    OBVIOUS
  <2> HIDE DEF up
  <2>3. \A n \in 0..m : f[n] = DenotedAt(n, f[n - 1])
    BY <2>1, Zenon
  <2>4. ASSUME NEW n \in 0..up PROVE g[n] = DenotedAt(n, g[n - 1])
    <3>1. CASE n = up
      <4>1. g[n] = DenotedAt(up, f[m]) /\ g[n - 1] = f[m]
        BY <2>2, <3>1
      <4> QED
        BY <3>1, <4>1
    <3>2. CASE n \in 0..m /\ n # up
      <4>1. g[n] = f[n] /\ f[n] = DenotedAt(n, f[n - 1])
        BY <2>3, <3>2
      <4>2. CASE n = 0
        <5>1. DenotedAt(0, f[n - 1]) = DenotedAt(0, g[n - 1])
          BY NoneAtZero DEF DenotedAt
        <5> QED
          BY <4>1, <4>2, <5>1
      <4>3. CASE n - 1 \in 0..up
        <5>1. g[n - 1] = f[n - 1]
          BY <2>2, <4>3
        <5> QED
          BY <4>1, <5>1
      <4> QED
        BY <2>2, <3>2, <4>2, <4>3
    <3> QED
      BY <2>2, <3>1, <3>2
  <2>5. g = [n \in 0..up |-> g[n]]
    OBVIOUS
  <2> HIDE DEF g
  <2>6. Eq(g, up)
    BY <2>4, <2>5
  <2>7. \E h : Eq(h, up)
    BY <2>6, Zenon
  <2> HIDE DEF Eq
  <2> QED
    BY <2>2, <2>7 DEF up
<1> HIDE DEF T
<1>3. MaxNesting \in T
  BY <1>1, <1>2, Induction, ArgumentsAssumption
<1>4. \E f : Eq(f, MaxNesting)
  BY <1>3 DEF T
<1> DEFINE h == CHOOSE f : Eq(f, MaxNesting)
<1>5. Eq(h, MaxNesting)
  BY <1>4, Zenon
<1>6. Denoted = h
  BY DEF Denoted, DenotedAt
<1> HIDE DEF h
<1> QED
  BY <1>5, <1>6, Zenon

\* A node is a character or a group of lists of nodes one level in.
LEMMA NodeIs ==
  ASSUME NEW n \in 0..MaxNesting, NEW node \in Outer(n)
  PROVE  \/ /\ node.alts = <<>> /\ node.char \in Characters \ {Open}
            /\ node \in Inner[n] => node.char \in Characters \ {Open, Close, Comma}
         \/ /\ node.alts # <<>> /\ n - 1 \in 0..MaxNesting
            /\ node.alts \in Seq(Seq(Inner[n - 1]))
<1>1. Inner[n] = InnerAt(n, Inner[n - 1])
  BY InnerIs
<1>2. CASE node \in Char(Characters \ {Open, Close, Comma})
  BY <1>2 DEF Char
<1>3. CASE node \in Inner[n] /\ node \notin Char(Characters \ {Open, Close, Comma})
  <2>1. n # 0 /\ node \in [char: {Open}, alts: Seq(Seq(Inner[n - 1])) \ {<<>>}]
    BY <1>1, <1>3 DEF InnerAt
  <2>2. n - 1 \in 0..MaxNesting
    BY <2>1, ArgumentsAssumption
  <2> QED
    BY <2>1, <2>2
<1>4. CASE node \notin Inner[n]
  BY <1>4 DEF Outer, Char
<1> QED
  BY <1>2, <1>3, <1>4

\* The text of a group, and of its alternatives.
Grouped(text, texts) ==
  \E g : Level(g) /\ text = <<Open>> \o g \o <<Close>> /\ SplitTopLevel(g) = texts

TextsOf(node, n) == [k \in 1..Len(node.alts) |-> Text(node.alts[k], Written[n - 1])]

WrittenWell(n, node) ==
  /\ Written[n][node] \in Patterns
  /\ node \in Inner[n] => Closed(Written[n][node])
  /\ node.alts = <<>> => Written[n][node] = <<node.char>>
  /\ node.alts # <<>> =>
       /\ Closed(Written[n][node]) /\ Grouped(Written[n][node], TextsOf(node, n))
       /\ \A k \in 1..Len(node.alts) : Closed(TextsOf(node, n)[k])

LEMMA WrittenIsWell ==
  \A n \in 0..MaxNesting : \A node \in Outer(n) : WrittenWell(n, node)
<1> DEFINE T == {n \in Nat : n <= MaxNesting => \A node \in Outer(n) : WrittenWell(n, node)}
<1>1. MaxNesting \in Nat
  BY ArgumentsAssumption
<1>2. ASSUME NEW n \in 0..MaxNesting, NEW node \in Outer(n), node.alts = <<>>
      PROVE  WrittenWell(n, node)
  <2>1. Written[n][node] = <<node.char>>
    BY <1>2, WrittenIs DEF WrittenAt
  <2>2. /\ node.char \in Characters
        /\ node \in Inner[n] => node.char \in Characters \ {Open, Close, Comma}
    BY <1>2, NodeIs
  <2> QED
    BY <1>2, <2>1, <2>2, OneCharacter, CharacterIsClosed DEF WrittenWell
<1>3. ASSUME NEW n \in 0..MaxNesting, NEW node \in Outer(n), node.alts # <<>>,
             \A x \in Outer(n - 1) : WrittenWell(n - 1, x)
      PROVE  WrittenWell(n, node)
  <2> DEFINE K == Len(node.alts)
             w == TextsOf(node, n)
             below == Written[n - 1]
  <2>1. node.alts \in Seq(Seq(Inner[n - 1])) /\ n - 1 \in 0..MaxNesting
    BY <1>3, NodeIs
  <2>2. K \in Nat \ {0} /\ \A k \in 1..K : node.alts[k] \in Seq(Inner[n - 1])
    BY <1>3, <2>1, EmptySeq, LenProperties, ElementOfSeq
  <2>3. \A x \in Inner[n - 1] : Closed(below[x])
    <3>1. Inner[n - 1] \subseteq Outer(n - 1)
      BY DEF Outer
    <3> QED
      BY <1>3, <3>1 DEF WrittenWell
  <2>4. \A k \in 1..K : w[k] = Text(node.alts[k], below)
    BY DEF TextsOf
  <2>5. \A k \in 1..K : Closed(w[k])
    <3> HIDE DEF w, below
    <3> QED
      BY <2>2, <2>3, <2>4, TextIsClosed
  <2>6. w \in [1..K -> Patterns]
    <3>1. \A k \in 1..K : w[k] \in Patterns
      BY <2>5 DEF Closed, Level
    <3> QED
      BY <3>1 DEF TextsOf
  <2>7. Written[n][node] =
          FlattenSeq([k \in 1..K |-> (IF k = 1 THEN <<Open>> ELSE <<Comma>>) \o w[k]])
          \o <<Close>>
    <3> DEFINE o == <<Open>>
               c == <<Comma>>
    <3>1. [k \in 1..K |-> (IF k = 1 THEN o ELSE c) \o w[k]]
          = [k \in 1..K |-> (IF k = 1 THEN o ELSE c) \o Text(node.alts[k], below)]
      <4> HIDE DEF w, o, c
      <4> QED
        BY <2>4
    <3>2. Written[n] = WrittenAt(n, below)
      BY WrittenIs
    <3>3. Written[n][node] =
            FlattenSeq([k \in 1..K |-> (IF k = 1 THEN o ELSE c) \o Text(node.alts[k], below)])
            \o <<Close>>
      <4> HIDE DEF below
      <4> QED
        BY <1>3, <3>2 DEF WrittenAt
    <3> QED
      BY <3>1, <3>3
  <2> HIDE DEF K, w, below
  <2>8. PICK g : /\ Level(g) /\ SplitTopLevel(g) = w
                 /\ FlattenSeq([k \in 1..K |-> (IF k = 1 THEN <<Open>> ELSE <<Comma>>) \o w[k]])
                    = <<Open>> \o g
    BY <2>2, <2>5, <2>6, PartsAre
  <2>9. Written[n][node] = <<Open>> \o g \o <<Close>>
    BY <2>7, <2>8, Zenon
  <2>10. Closed(<<Open>> \o g \o <<Close>>)
    BY <2>8, GroupIsClosed
  <2>11. Closed(Written[n][node]) /\ Grouped(Written[n][node], w)
    <3>1. Grouped(Written[n][node], w)
      BY <2>8, <2>9, Zenon DEF Grouped
    <3>2. Closed(Written[n][node])
      BY <2>9, <2>10, Zenon
    <3> QED
      BY <3>1, <3>2
  <2>12. Written[n][node] \in Patterns
    BY <2>11 DEF Closed, Level
  <2> QED
    BY <1>3, <2>5, <2>11, <2>12 DEF WrittenWell, w, K
<1>4. 0 \in T
  <2>1. 0 \in 0..MaxNesting
    BY <1>1
  <2> QED
    BY <1>2, <2>1, NoneAtZero
<1>5. ASSUME NEW m \in Nat, m \in T PROVE m + 1 \in T
  <2> DEFINE n == m + 1
  <2>1. SUFFICES ASSUME n <= MaxNesting, NEW node \in Outer(n) PROVE WrittenWell(n, node)
    OBVIOUS
  <2>2. n \in 0..MaxNesting /\ n - 1 = m /\ m <= MaxNesting
    BY <1>1, <2>1
  <2> HIDE DEF n
  <2>3. \A x \in Outer(n - 1) : WrittenWell(n - 1, x)
    BY <1>5, <2>2
  <2> QED
    BY <1>2, <1>3, <2>2, <2>3
<1> HIDE DEF T
<1>6. Nat \subseteq T
  BY <1>4, <1>5, Induction
<1>7. \A n \in 0..MaxNesting : n \in T /\ n <= MaxNesting
  BY <1>1, <1>6
<1> QED
  BY <1>7 DEF T

\* Every node can be read.
LEMMA DenotedIsReadable ==
  \A n \in 0..MaxNesting : \A node \in Outer(n) : Readable(Denoted[n][node])
<1> DEFINE T == {n \in Nat : n <= MaxNesting => \A node \in Outer(n) : Readable(Denoted[n][node])}
<1>1. MaxNesting \in Nat
  BY ArgumentsAssumption
<1>2. ASSUME NEW n \in 0..MaxNesting, NEW node \in Outer(n), node.alts = <<>>
      PROVE  Readable(Denoted[n][node])
  <2> DEFINE d == <<node.char>>
  <2>1. Denoted[n][node] = <<d>>
    BY <1>2, DenotedIs DEF DenotedAt
  <2>2. node.char \in Characters /\ node.char # Open
    BY <1>2, NodeIs
  <2>3. NoOpening(d)
    <3>1. d \in Patterns /\ Len(d) = 1 /\ d[1] = node.char
      BY <2>2, OneCharacter
    <3>2. \A i \in 1..1 : i = 1
      OBVIOUS
    <3> HIDE DEF d
    <3> QED
      BY <2>2, <3>1, <3>2 DEF NoOpening
  <2> HIDE DEF d
  <2>4. Readable(<<d>>)
    <3>1. d \in Patterns
      BY <2>3 DEF NoOpening
    <3>2. <<d>> \in Seq(Patterns) /\ Len(<<d>>) = 1
      BY <3>1
    <3>3. ToSet(<<d>>) = {d}
      BY DEF ToSet
    <3> QED
      BY <2>3, <3>2, <3>3 DEF Readable
  <2> QED
    BY <2>1, <2>4
<1>3. ASSUME NEW n \in 0..MaxNesting, NEW node \in Outer(n), node.alts # <<>>,
             \A x \in Outer(n - 1) : Readable(Denoted[n - 1][x])
      PROVE  Readable(Denoted[n][node])
  <2> DEFINE K == Len(node.alts)
             below == Denoted[n - 1]
             R == [k \in 1..K |-> Readings(node.alts[k], below)]
  <2>1. node.alts \in Seq(Seq(Inner[n - 1])) /\ n - 1 \in 0..MaxNesting
    BY <1>3, NodeIs
  <2>2. K \in Nat \ {0} /\ \A k \in 1..K : node.alts[k] \in Seq(Inner[n - 1])
    BY <1>3, <2>1, EmptySeq, LenProperties, ElementOfSeq
  <2>3. \A x \in Inner[n - 1] : Readable(below[x])
    BY <1>3 DEF Outer
  <2>4. Denoted[n][node] = FlattenSeq(R)
    <3>1. Denoted[n] = DenotedAt(n, below)
      BY DenotedIs
    <3> HIDE DEF below
    <3> QED
      BY <1>3, <3>1 DEF DenotedAt
  <2> HIDE DEF below
  <2>5. \A k \in 1..K : Readable(R[k])
    <3>1. \A k \in 1..K : Readable(Readings(node.alts[k], below))
      BY <2>2, <2>3, ReadingsAreReadable
    <3> QED
      BY <3>1
  <2>6. R \in [1..K -> Seq(Patterns)]
    <3>1. \A k \in 1..K : R[k] \in Seq(Patterns)
      BY <2>5 DEF Readable
    <3> QED
      BY <3>1
  <2> HIDE DEF R, K
  <2> QED
    BY <2>2, <2>4, <2>5, <2>6, AlternativesAre
<1>4. 0 \in T
  <2>1. 0 \in 0..MaxNesting
    BY <1>1
  <2> QED
    BY <1>2, <2>1, NoneAtZero
<1>5. ASSUME NEW m \in Nat, m \in T PROVE m + 1 \in T
  <2> DEFINE n == m + 1
  <2>1. SUFFICES ASSUME n <= MaxNesting, NEW node \in Outer(n) PROVE Readable(Denoted[n][node])
    OBVIOUS
  <2>2. n \in 0..MaxNesting /\ n - 1 = m /\ m <= MaxNesting
    BY <1>1, <2>1
  <2> HIDE DEF n
  <2>3. \A x \in Outer(n - 1) : Readable(Denoted[n - 1][x])
    BY <1>5, <2>2
  <2> QED
    BY <1>2, <1>3, <2>2, <2>3
<1> HIDE DEF T
<1>6. Nat \subseteq T
  BY <1>4, <1>5, Induction
<1>7. \A n \in 0..MaxNesting : n \in T /\ n <= MaxNesting
  BY <1>1, <1>6
<1> QED
  BY <1>7 DEF T
-----------------------------------------------------------------------------
(* The function that expandBraces is: it only asks itself about shorter texts *)

Within(n) == {a \in Patterns : Len(a) <= n}
Fits(r, n) == r \in Results /\ ToSet(r.alts) \subseteq Within(n)

LEMMA ClosingIs ==
  ASSUME NEW text \in Patterns, Closing(text) # 0
  PROVE  Opening(text) \in 1..Len(text) /\ Closing(text) \in Opening(text)..Len(text)
<1>1. Opening(text) # 0 /\ Closing(text) = MatchingBrace(text, Opening(text))
  BY DEF Closing
<1>2. Opening(text) \in 0..Len(text)
  BY OpeningIs
<1>3. Opening(text) \in 1..Len(text)
  BY <1>1, <1>2
<1> DEFINE o == Opening(text)
<1> HIDE DEF o
<1>4. o \in 1..Len(text) /\ Closing(text) = MatchingBrace(text, o)
  BY <1>1, <1>3 DEF o
<1>5. MatchingBrace(text, o) = 0 \/ MatchingBrace(text, o) \in o..Len(text)
  BY <1>4, MatchingBraceIs
<1> QED
  BY <1>3, <1>4, <1>5 DEF o

LEMMA WholeFits ==
  ASSUME NEW text \in Patterns
  PROVE  Fits(Expanded(<<text>>), Len(text)) /\ Fits(TooMany, Len(text))
<1>1. <<text>> \in Seq(Patterns) /\ ToSet(<<text>>) = {text} /\ ToSet(<<>>) = {}
  BY DEF ToSet
<1>2. /\ Expanded(<<text>>) \in Results /\ Expanded(<<text>>).alts = <<text>>
      /\ TooMany \in Results /\ TooMany.alts = <<>>
  BY <1>1, ExpandedIs
<1>3. Len(text) <= Len(text)
  BY LenProperties DEF Patterns
<1> QED
  BY <1>1, <1>2, <1>3 DEF Fits, Within

\* Two functions that agree on shorter texts.
SameBelow(f, g, n) ==
  /\ f \in [Patterns -> Results]
  /\ \A s \in Patterns : Len(s) < n => f[s] = g[s] /\ Fits(f[s], Len(s))

LEMMA ExpansionLocal ==
  ASSUME NEW text \in Patterns, NEW f, NEW g, SameBelow(f, g, Len(text))
  PROVE  Expansion(text, f) = Expansion(text, g) /\ Fits(Expansion(text, f), Len(text))
<1>1. CASE Closing(text) = 0
  BY <1>1, WholeFits DEF Expansion
<1>2. CASE Closing(text) # 0
  <2> DEFINE L == Len(text)
             o == Opening(text)
             c == Closing(text)
             lo == o + 1
             hi == c - 1
             prefix == SubSeq(text, 1, o - 1)
             parts == SplitTopLevel(SubSeq(text, lo, hi))
             rest == SubSeq(text, c + 1, L)
             K == Len(parts)
  <2>1. L \in Nat /\ o \in 1..L /\ c \in o..L
    BY <1>2, ClosingIs, LenProperties DEF Patterns
  <2>2. /\ prefix \in Patterns /\ Len(prefix) = o - 1
        /\ rest \in Patterns /\ Len(rest) = L - c
    <3>1. prefix \in Patterns /\ Len(prefix) = IF 1 <= o - 1 THEN (o - 1) - 1 + 1 ELSE 0
      <4> DEFINE e == o - 1
      <4>1. e \in Int /\ e <= L
        BY <2>1
      <4> HIDE DEF e
      <4>2. /\ SubSeq(text, 1, e) \in Patterns
            /\ Len(SubSeq(text, 1, e)) = IF 1 <= e THEN e - 1 + 1 ELSE 0
        BY <4>1, SubSeqIs
      <4> QED
        BY <4>2 DEF e
    <3>2. rest \in Patterns /\ Len(rest) = IF c + 1 <= L THEN L - (c + 1) + 1 ELSE 0
      <4> DEFINE b == c + 1
      <4>1. b \in Int /\ b >= 1 /\ L \in Int /\ L <= Len(text)
        BY <2>1
      <4> HIDE DEF b, L
      <4>2. /\ SubSeq(text, b, L) \in Patterns
            /\ Len(SubSeq(text, b, L)) = IF b <= L THEN L - b + 1 ELSE 0
        BY <4>1, SubSeqIs
      <4> QED
        BY <4>2 DEF b
    <3> HIDE DEF prefix, rest, L, o, c
    <3> QED
      BY <2>1, <3>1, <3>2
  <2>3. /\ parts \in Seq(Patterns) /\ K \in Nat
        /\ \A k \in 1..K : parts[k] \in Patterns /\ Len(parts[k]) \in Nat
        /\ \A k \in 1..K : (o - 1) + Len(parts[k]) + (L - c) < L
    <3> DEFINE inside == SubSeq(text, lo, hi)
    <3>1. lo \in Int /\ hi \in Int /\ lo >= 1 /\ hi <= L
      BY <2>1
    <3> HIDE DEF lo, hi, o, c
    <3>2. inside \in Patterns /\ Len(inside) = IF lo <= hi THEN hi - lo + 1 ELSE 0
      BY <3>1, SubSeqIs
    <3>10. parts = SplitTopLevel(inside)
      OBVIOUS
    <3> HIDE DEF inside, parts
    <3>3. /\ parts \in Seq(Patterns) /\ K \in Nat
          /\ \A k \in 1..K : Len(parts[k]) <= Len(inside)
      BY <3>2, <3>10, SplitIsShort
    <3> HIDE DEF K, L
    <3>4. \A k \in 1..K : parts[k] \in Patterns /\ Len(parts[k]) \in Nat
      <4>1. \A k \in 1..K : parts[k] \in Patterns
        BY <3>3, ElementOfSeq DEF K
      <4> QED
        BY <4>1, LenProperties DEF Patterns
    <3>5. (o - 1) + Len(inside) + (L - c) < L
      BY <2>1, <3>2 DEF lo, hi
    <3>6. Len(inside) \in Nat
      BY <3>2, LenProperties DEF Patterns
    <3> QED
      BY <2>1, <3>3, <3>4, <3>5, <3>6
  <2> HIDE DEF prefix, parts, rest, K, L
  <2>4. f[rest] = g[rest] /\ Fits(f[rest], Len(rest))
    <3>1. Len(rest) < L
      BY <2>1, <2>2
    <3> QED
      BY <2>2, <3>1 DEF SameBelow, L
  <2> HIDE DEF o, c
  <2> DEFINE suffixes == f[rest]
             n == Len(suffixes.alts)
             again(k, j) == prefix \o parts[k] \o suffixes.alts[j]
             row(k, h) == [j \in 1..n |-> h[again(k, j)]]
             rows(h) == [k \in 1..K |-> Gather(n, row(k, h))]
  <2>5. Expansion(text, f) = IF ~suffixes.ok THEN TooMany ELSE Gather(K, rows(f))
    BY <1>2 DEF Expansion, parts, prefix, rest, K, L, o, c
  <2>6. Expansion(text, g) = IF ~suffixes.ok THEN TooMany ELSE Gather(K, rows(g))
    <3>1. g[rest] = suffixes
      BY <2>4
    <3> HIDE DEF suffixes
    <3> DEFINE sfx == g[rest]
    <3>2. Expansion(text, g) =
            IF ~sfx.ok THEN TooMany
            ELSE Gather(K, [k \in 1..K |-> Gather(Len(sfx.alts),
                   [j \in 1..Len(sfx.alts) |-> g[prefix \o parts[k] \o sfx.alts[j]]])])
      BY <1>2 DEF Expansion, parts, prefix, rest, K, L, o, c
    <3>3. sfx = suffixes
      BY <3>1
    <3> HIDE DEF sfx
    <3> QED
      BY <3>2, <3>3
  <2>7. /\ suffixes \in Results /\ n \in Nat
        /\ \A j \in 1..n : /\ suffixes.alts[j] \in Patterns
                           /\ Len(suffixes.alts[j]) \in Nat
                           /\ Len(suffixes.alts[j]) <= L - c
    <3>1. suffixes \in Results /\ suffixes.alts \in Seq(Patterns)
      BY <2>4 DEF Fits, Results
    <3>2. \A j \in 1..n : suffixes.alts[j] \in ToSet(suffixes.alts)
      <4>1. DOMAIN suffixes.alts = 1..n
        BY <3>1, LenProperties
      <4> HIDE DEF suffixes, n
      <4> QED
        BY <4>1 DEF ToSet
    <3>3. \A j \in 1..n : suffixes.alts[j] \in Within(Len(rest))
      BY <2>4, <3>2 DEF Fits
    <3> HIDE DEF suffixes
    <3>4. n \in Nat
      BY <3>1, LenProperties
    <3> HIDE DEF n
    <3>5. \A j \in 1..n : suffixes.alts[j] \in Patterns /\ Len(suffixes.alts[j]) <= L - c
      BY <2>2, <3>3 DEF Within
    <3> QED
      BY <3>1, <3>4, <3>5, LenProperties DEF Patterns
  <2> HIDE DEF suffixes, n
  <2>8. ASSUME NEW k \in 1..K, NEW j \in 1..n
        PROVE  /\ again(k, j) \in Patterns /\ Len(again(k, j)) < L
               /\ f[again(k, j)] = g[again(k, j)] /\ f[again(k, j)] \in Results
               /\ ToSet(f[again(k, j)].alts) \subseteq Within(L)
    <3> DEFINE x == prefix \o parts[k]
               y == suffixes.alts[j]
               t == x \o y
    <3>1. x \in Patterns /\ Len(x) = Len(prefix) + Len(parts[k])
      BY <2>2, <2>3, ConcatProperties DEF Patterns
    <3>2. y \in Patterns /\ Len(y) \in Nat /\ Len(y) <= L - c
      BY <2>7
    <3> HIDE DEF x, y
    <3>3. t \in Patterns /\ Len(t) = Len(x) + Len(y)
      BY <3>1, <3>2, ConcatProperties DEF Patterns
    <3>4. Len(t) < L
      BY <2>1, <2>2, <2>3, <3>1, <3>2, <3>3
    <3>5. again(k, j) = t
      BY DEF x, y
    <3> HIDE DEF t
    <3>6. f[t] = g[t] /\ Fits(f[t], Len(t))
      BY <3>3, <3>4 DEF SameBelow, L
    <3>7. Within(Len(t)) \subseteq Within(L)
      <4>1. Len(t) \in Nat /\ \A a \in Patterns : Len(a) \in Nat
        BY <3>3, LenProperties DEF Patterns
      <4> QED
        BY <2>1, <3>4, <4>1 DEF Within
    <3>8. f[t] \in Results /\ ToSet(f[t].alts) \subseteq Within(L)
      BY <3>6, <3>7 DEF Fits
    <3> HIDE DEF again
    <3> QED
      BY <3>3, <3>4, <3>5, <3>6, <3>8
  <2> HIDE DEF again
  <2>9. rows(f) = rows(g)
    <3>1. \A k \in 1..K : row(k, f) = row(k, g)
      BY <2>8
    <3> HIDE DEF row
    <3> QED
      BY <3>1
  <2>10. /\ rows(f) \in [1..K -> Results]
         /\ \A k \in 1..K : ToSet(rows(f)[k].alts) \subseteq Within(L)
    <3>1. ASSUME NEW k \in 1..K
          PROVE  /\ Gather(n, row(k, f)) \in Results
                 /\ ToSet(Gather(n, row(k, f)).alts) \subseteq Within(L)
      <4> DEFINE r == row(k, f)
                 X == Within(L)
      <4>1. r \in [1..n -> Results]
        BY <2>8
      <4>2. \A j \in 1..n : ToSet(r[j].alts) \subseteq X
        BY <2>8
      <4> HIDE DEF r, X
      <4>3. Gather(n, r) \in Results /\ ToSet(Gather(n, r).alts) \subseteq X
        BY <2>7, <4>1, <4>2, GatherWithin
      <4> QED
        BY <4>3 DEF r, X
    <3> HIDE DEF row
    <3> QED
      BY <3>1
  <2> DEFINE all == rows(f)
  <2>11. Fits(Gather(K, all), L)
    <3> HIDE DEF rows
    <3> DEFINE X == Within(L)
    <3>1. \A k \in 1..K : ToSet(all[k].alts) \subseteq X
      BY <2>10
    <3>2. all \in [1..K -> Results]
      BY <2>10
    <3> HIDE DEF all, X
    <3>3. Gather(K, all) \in Results /\ ToSet(Gather(K, all).alts) \subseteq X
      BY <2>3, <3>1, <3>2, GatherWithin
    <3> QED
      BY <3>3 DEF Fits, X
  <2>12. Fits(TooMany, L)
    BY WholeFits DEF L
  <2> HIDE DEF rows
  <2> QED
    BY <2>5, <2>6, <2>9, <2>11, <2>12 DEF L
<1> QED
  BY <1>1, <1>2

\* What f says of the texts shorter than n is what expandBraces says of them.
Correct(f, n) ==
  /\ f \in [Patterns -> Results]
  /\ \A t \in Patterns : Len(t) < n => f[t] = Expansion(t, f) /\ Fits(f[t], Len(t))

LEMMA CorrectExists == \A n \in Nat : \E f : Correct(f, n)
<1> DEFINE T == {n \in Nat : \E f : Correct(f, n)}
<1>1. 0 \in T
  <2> DEFINE f == [t \in Patterns |-> TooMany]
  <2>1. f \in [Patterns -> Results]
    BY WholeFits DEF Fits
  <2>2. \A t \in Patterns : ~(Len(t) < 0)
    BY LenProperties DEF Patterns
  <2> HIDE DEF f
  <2>3. Correct(f, 0)
    BY <2>1, <2>2 DEF Correct
  <2> QED
    BY <2>3
<1>2. ASSUME NEW n \in Nat, n \in T PROVE n + 1 \in T
  <2>1. PICK f : Correct(f, n)
    BY <1>2
  <2> DEFINE up == n + 1
             g == [t \in Patterns |-> IF Len(t) < up THEN Expansion(t, f) ELSE TooMany]
  <2>2. \A t \in Patterns : Len(t) \in Nat /\ (Len(t) < up => Len(t) <= n)
    BY LenProperties DEF Patterns
  <2>3. ASSUME NEW t \in Patterns, Len(t) < up PROVE Fits(Expansion(t, f), Len(t))
    <3>1. SameBelow(f, f, Len(t))
      BY <2>1, <2>2, <2>3 DEF Correct, SameBelow
    <3> QED
      BY <3>1, ExpansionLocal
  <2>4. g \in [Patterns -> Results]
    <3>1. TooMany \in Results
      <4>1. <<>> \in Seq(Patterns)
        OBVIOUS
      <4> QED
        BY <4>1, ExpandedIs
    <3> QED
      BY <2>3, <3>1 DEF Fits
  <2>5. \A t \in Patterns : Len(t) < up => g[t] = Expansion(t, f)
    OBVIOUS
  <2> HIDE DEF g
  <2>6. ASSUME NEW t \in Patterns, Len(t) < up
        PROVE  g[t] = Expansion(t, g) /\ Fits(g[t], Len(t))
    <3>1. ASSUME NEW s \in Patterns, Len(s) < Len(t) PROVE f[s] = g[s] /\ Fits(f[s], Len(s))
      <4>1. Len(s) < n /\ Len(s) < up
        BY <2>2, <2>6, <3>1
      <4> QED
        BY <2>1, <2>5, <4>1 DEF Correct
    <3>2. SameBelow(f, g, Len(t))
      BY <2>1, <2>4, <3>1 DEF Correct, SameBelow
    <3>3. Expansion(t, f) = Expansion(t, g)
      BY <3>2, ExpansionLocal
    <3> QED
      BY <2>3, <2>5, <2>6, <3>3
  <2>7. Correct(g, up)
    BY <2>4, <2>6 DEF Correct
  <2> QED
    BY <2>7
<1> HIDE DEF T
<1>3. Nat \subseteq T
  BY <1>1, <1>2, Induction
<1> QED
  BY <1>3 DEF T

LEMMA CorrectAgree ==
  ASSUME NEW m \in Nat, NEW f, NEW g, Correct(f, m), Correct(g, m)
  PROVE  \A t \in Patterns : Len(t) < m => f[t] = g[t]
<1> DEFINE T == {n \in Nat : \A t \in Patterns : Len(t) < n /\ Len(t) < m => f[t] = g[t]}
<1>1. \A t \in Patterns : Len(t) \in Nat
  BY LenProperties DEF Patterns
<1>2. 0 \in T
  BY <1>1
<1>3. ASSUME NEW n \in Nat, n \in T PROVE n + 1 \in T
  <2>1. SUFFICES ASSUME NEW t \in Patterns, Len(t) < n + 1, Len(t) < m PROVE f[t] = g[t]
    OBVIOUS
  <2>2. ASSUME NEW s \in Patterns, Len(s) < Len(t) PROVE f[s] = g[s] /\ Fits(f[s], Len(s))
    <3>1. Len(s) < n /\ Len(s) < m
      BY <1>1, <2>1, <2>2
    <3> QED
      BY <1>3, <3>1 DEF Correct
  <2>3. SameBelow(f, g, Len(t))
    BY <2>2 DEF Correct, SameBelow
  <2>4. Expansion(t, f) = Expansion(t, g)
    BY <2>3, ExpansionLocal
  <2> QED
    BY <2>1, <2>4 DEF Correct
<1> HIDE DEF T
<1>4. m \in T
  BY <1>2, <1>3, Induction
<1> QED
  BY <1>4 DEF T

\* The equation of the code has a solution, and so it is one.
LEMMA ExpandBracesIs ==
  /\ ExpandBraces \in [Patterns -> Results]
  /\ \A t \in Patterns : /\ ExpandBraces[t] = Expansion(t, ExpandBraces)
                         /\ Fits(ExpandBraces[t], Len(t))
<1> DEFINE upTo == [n \in Nat |-> CHOOSE f : Correct(f, n)]
           F == [t \in Patterns |-> upTo[Len(t) + 1][t]]
<1>1. \A n \in Nat : Correct(upTo[n], n)
  BY CorrectExists, Zenon
<1>2. \A t \in Patterns : Len(t) \in Nat /\ Len(t) + 1 \in Nat /\ Len(t) < Len(t) + 1
  BY LenProperties DEF Patterns
<1> HIDE DEF upTo
<1>3. \A t \in Patterns : F[t] = upTo[Len(t) + 1][t]
  OBVIOUS
<1>4. F \in [Patterns -> Results]
  <2>1. \A t \in Patterns : upTo[Len(t) + 1][t] \in Results
    BY <1>1, <1>2 DEF Correct
  <2> QED
    BY <2>1
<1> HIDE DEF F
<1>5. ASSUME NEW n \in Nat, NEW t \in Patterns, Len(t) < n PROVE F[t] = upTo[n][t]
  <2> DEFINE m == Len(t) + 1
  <2>1. m \in Nat /\ Len(t) < m /\ m <= n /\ \A s \in Patterns : Len(s) < m => Len(s) < n
    BY <1>2, <1>5
  <2>2. F[t] = upTo[m][t]
    BY <1>3
  <2> HIDE DEF m
  <2>3. Correct(upTo[m], m) /\ Correct(upTo[n], n)
    BY <1>1, <2>1
  <2>4. Correct(upTo[n], m)
    BY <2>1, <2>3 DEF Correct
  <2> QED
    BY <2>1, <2>2, <2>3, <2>4, CorrectAgree
<1>6. ASSUME NEW t \in Patterns PROVE F[t] = Expansion(t, F) /\ Fits(F[t], Len(t))
  <2> DEFINE m == Len(t) + 1
             f == upTo[m]
  <2>1. m \in Nat /\ Len(t) < m /\ \A s \in Patterns : Len(s) < Len(t) => Len(s) < m
    BY <1>2
  <2> HIDE DEF m
  <2>2. Correct(f, m)
    BY <1>1, <2>1
  <2>3. \A s \in Patterns : Len(s) < m => F[s] = f[s] /\ Fits(f[s], Len(s))
    BY <1>5, <2>1, <2>2 DEF Correct
  <2> HIDE DEF f
  <2>4. SameBelow(f, F, Len(t))
    BY <1>4, <2>1, <2>2, <2>3 DEF Correct, SameBelow
  <2>5. Expansion(t, f) = Expansion(t, F)
    BY <2>4, ExpansionLocal
  <2>6. f[t] = Expansion(t, f)
    BY <2>1, <2>2 DEF Correct
  <2> QED
    BY <2>1, <2>3, <2>5, <2>6
<1> DEFINE Eq(f) == f = [t \in Patterns |-> Expansion(t, f)]
<1>7. Eq(F)
  <2>1. F = [t \in Patterns |-> F[t]]
    BY <1>4
  <2> QED
    BY <1>6, <2>1
<1> DEFINE h == CHOOSE f : Eq(f)
<1>8. Eq(h)
  BY <1>7, Zenon
<1>9. ExpandBraces = h
  BY DEF ExpandBraces
<1> HIDE DEF h
<1>10. \A t \in Patterns : h[t] = Expansion(t, h)
  BY <1>8, Zenon
<1> DEFINE T == {n \in Nat : \A t \in Patterns : Len(t) < n => h[t] = F[t]}
<1>11. 0 \in T
  BY <1>2
<1>12. ASSUME NEW n \in Nat, n \in T PROVE n + 1 \in T
  <2>1. SUFFICES ASSUME NEW t \in Patterns, Len(t) < n + 1 PROVE h[t] = F[t]
    OBVIOUS
  <2>2. \A s \in Patterns : Len(s) < Len(t) => F[s] = h[s] /\ Fits(F[s], Len(s))
    <3>1. \A s \in Patterns : Len(s) < Len(t) => Len(s) < n
      BY <1>2, <2>1
    <3> QED
      BY <1>6, <1>12, <3>1
  <2>3. SameBelow(F, h, Len(t))
    BY <1>4, <2>2 DEF SameBelow
  <2>4. Expansion(t, F) = Expansion(t, h)
    BY <2>3, ExpansionLocal
  <2> QED
    BY <1>6, <1>10, <2>4
<1> HIDE DEF T
<1>13. Nat \subseteq T
  BY <1>11, <1>12, Induction
<1>14. \A t \in Patterns : h[t] = F[t]
  BY <1>2, <1>13 DEF T
<1>15. h = F
  <2>1. h = [t \in Patterns |-> h[t]]
    <3>1. h = [t \in Patterns |-> Expansion(t, h)]
      BY <1>8, Zenon
    <3> DEFINE body == [t \in Patterns |-> Expansion(t, h)]
    <3>2. body = [t \in Patterns |-> body[t]]
      OBVIOUS
    <3> HIDE DEF body
    <3>3. h = body
      BY <3>1 DEF body
    <3> QED
      BY <3>2, <3>3
  <2>2. F = [t \in Patterns |-> F[t]]
    BY <1>4
  <2> QED
    BY <1>14, <2>1, <2>2
<1> QED
  BY <1>4, <1>6, <1>9, <1>15
-----------------------------------------------------------------------------
(* The algorithm makes of a text what the syntax says it stands for *)

Spread(p, A, B) == {p \o (x \o t) : x \in A, t \in B}

From(e, p, A, B) == \E x \in A, t \in B : e = p \o (x \o t)
FromOne(e, p, A, tail) == \E x \in A : e = p \o (x \o tail)

LEMMA SpreadIs ==
  ASSUME NEW p, NEW A, NEW B
  PROVE  /\ \A x \in A, t \in B : p \o (x \o t) \in Spread(p, A, B)
         /\ \A e : e \in Spread(p, A, B) => From(e, p, A, B)
<1>1. ASSUME NEW e \in Spread(p, A, B) PROVE \E x \in A, t \in B : e = p \o (x \o t)
  BY DEF Spread
<1>2. ASSUME NEW x \in A, NEW t \in B PROVE p \o (x \o t) \in Spread(p, A, B)
  BY DEF Spread
<1>3. ASSUME NEW e \in Spread(p, A, B) PROVE From(e, p, A, B)
  BY <1>1, Zenon DEF From
<1> QED
  BY <1>2, <1>3

LEMMA SingleIs ==
  ASSUME NEW p, NEW A, NEW tail
  PROVE  /\ \A x \in A : p \o (x \o tail) \in Spread(p, A, {tail})
         /\ \A e : e \in Spread(p, A, {tail}) => FromOne(e, p, A, tail)
<1>1. ASSUME NEW e \in Spread(p, A, {tail}) PROVE \E x \in A : e = p \o (x \o tail)
  BY DEF Spread
<1>2. ASSUME NEW x \in A PROVE p \o (x \o tail) \in Spread(p, A, {tail})
  BY DEF Spread
<1>3. ASSUME NEW e \in Spread(p, A, {tail}) PROVE FromOne(e, p, A, tail)
  BY <1>1, Zenon DEF FromOne
<1> QED
  BY <1>2, <1>3

LEMMA Concatenation ==
  ASSUME NEW a \in Patterns, NEW b \in Patterns
  PROVE  a \o b \in Patterns /\ <<>> \o a = a /\ <<>> \in Patterns
<1>1. a \in Seq(Characters) /\ b \in Seq(Characters) /\ <<>> \in Seq(Characters)
  BY DEF Patterns
<1>2. a \o b \in Seq(Characters)
  BY <1>1, ConcatProperties
<1>3. <<>> \o a = a
  BY <1>1, ConcatEmptySeq
<1> QED
  BY <1>1, <1>2, <1>3 DEF Patterns

LEMMA SpreadPair ==
  ASSUME NEW p \in Patterns, NEW A \in SUBSET Patterns, NEW S \in SUBSET Patterns,
         NEW tail \in Patterns
  PROVE  Spread(p, Pairwise(A, S), {tail}) = Spread(p, A, Spread(<<>>, S, {tail}))
<1> DEFINE B == Spread(<<>>, S, {tail})
<1>1. ASSUME NEW x \in A, NEW d \in S
      PROVE  p \o ((x \o d) \o tail) = p \o (x \o (<<>> \o (d \o tail)))
  <2>1. x \in Patterns /\ d \in Patterns
    OBVIOUS
  <2>2. <<>> \o (d \o tail) = d \o tail
    <3>1. d \o tail \in Patterns
      BY <2>1, Concatenation
    <3> QED
      BY <3>1, Concatenation
  <2>3. (x \o d) \o tail = x \o (d \o tail)
    BY <2>1, Associative
  <2> QED
    BY <2>2, <2>3
<1>2. ASSUME NEW e \in Spread(p, Pairwise(A, S), {tail}) PROVE e \in Spread(p, A, B)
  <2>0. FromOne(e, p, Pairwise(A, S), tail)
    BY SingleIs
  <2>1. PICK xd \in Pairwise(A, S) : e = p \o (xd \o tail)
    BY <2>0 DEF FromOne
  <2>2. PICK x \in A, d \in S : xd = x \o d
    BY DEF Pairwise
  <2>3. e = p \o (x \o (<<>> \o (d \o tail)))
    BY <1>1, <2>1, <2>2
  <2>4. <<>> \o (d \o tail) \in B
    BY SingleIs, Zenon
  <2> HIDE DEF B
  <2> QED
    BY <2>3, <2>4, SpreadIs, Zenon
<1>3. ASSUME NEW e \in Spread(p, A, B) PROVE e \in Spread(p, Pairwise(A, S), {tail})
  <2>1. PICK x \in A, b \in B : e = p \o (x \o b)
    <3> HIDE DEF B
    <3> QED
      BY DEF Spread
  <2>2. PICK d \in S : b = <<>> \o (d \o tail)
    BY DEF Spread
  <2>3. e = p \o ((x \o d) \o tail)
    BY <1>1, <2>1, <2>2
  <2>4. x \o d \in Pairwise(A, S) 
    BY DEF Pairwise
  <2> QED
    BY <2>3, <2>4, SingleIs, Zenon
<1> QED
  BY <1>2, <1>3

LEMMA SpreadShift ==
  ASSUME NEW p \in Patterns, NEW c \in Patterns, NEW S \in SUBSET Patterns, NEW tail \in Patterns
  PROVE  Spread(p \o c, S, {tail}) = Spread(p, Pairwise({c}, S), {tail})
<1>1. ASSUME NEW d \in S
      PROVE  (p \o c) \o (d \o tail) = p \o ((c \o d) \o tail)
  <2>1. d \in Patterns
    OBVIOUS
  <2>2. d \o tail \in Patterns
    BY <2>1, Concatenation
  <2>3. (p \o c) \o (d \o tail) = p \o (c \o (d \o tail))
    BY <2>2, Associative
  <2>4. (c \o d) \o tail = c \o (d \o tail)
    BY <2>1, Associative
  <2> QED
    BY <2>3, <2>4
<1>2. ASSUME NEW e \in Spread(p \o c, S, {tail}) PROVE e \in Spread(p, Pairwise({c}, S), {tail})
  <2>0. FromOne(e, p \o c, S, tail)
    BY SingleIs
  <2>1. PICK d \in S : e = (p \o c) \o (d \o tail)
    BY <2>0 DEF FromOne
  <2>2. e = p \o ((c \o d) \o tail)
    BY <1>1, <2>1
  <2>3. c \o d \in Pairwise({c}, S) 
    BY DEF Pairwise
  <2> QED
    BY <2>2, <2>3, SingleIs, Zenon
<1>3. ASSUME NEW e \in Spread(p, Pairwise({c}, S), {tail}) PROVE e \in Spread(p \o c, S, {tail})
  <2>0. FromOne(e, p, Pairwise({c}, S), tail)
    BY SingleIs
  <2>1. PICK cd \in Pairwise({c}, S) : e = p \o (cd \o tail)
    BY <2>0 DEF FromOne
  <2>2. PICK d \in S : cd = c \o d
    BY DEF Pairwise
  <2>3. e = (p \o c) \o (d \o tail) 
    BY <1>1, <2>1, <2>2
  <2> QED
    BY <2>3, SingleIs, Zenon
<1> QED
  BY <1>2, <1>3

LEMMA MaxIs == maxBraceExpansions \in Nat /\ 1 <= maxBraceExpansions
BY ArgumentsAssumption

\* The many ways to go on after one part.
LEMMA RowMade ==
  ASSUME NEW p, NEW w, NEW size \in Nat, NEW X, NEW suffixes \in Seq(Patterns),
         \A j \in 1..Len(suffixes) :
           Made(ExpandBraces[p \o w \o suffixes[j]], size, Spread(p, X, {suffixes[j]}))
  PROVE  Made(Gather(Len(suffixes),
                     [j \in 1..Len(suffixes) |-> ExpandBraces[p \o w \o suffixes[j]]]),
              Len(suffixes) * size, Spread(p, X, ToSet(suffixes)))
<1> DEFINE n == Len(suffixes)
           result == [j \in 1..n |-> ExpandBraces[p \o w \o suffixes[j]]]
           sizes == [j \in 1..n |-> size]
           sum == [j \in 0..n |-> j * size]
           sets == [j \in 1..n |-> Spread(p, X, {suffixes[j]})]
<1>1. n \in Nat /\ DOMAIN suffixes = 1..n
  BY LenProperties
<1>2. ToSet(suffixes) = {suffixes[j] : j \in 1..n}
  BY <1>1 DEF ToSet
<1> HIDE DEF n
<1>3. \A j \in 1..n : Made(ExpandBraces[p \o w \o suffixes[j]], size, Spread(p, X, {suffixes[j]}))
  BY DEF n
<1>4. result \in [1..n -> Results]
  BY <1>3 DEF Made
<1>5. sizes \in [1..n -> Nat] /\ sum \in [0..n -> Nat]
  <2>1. \A j \in 0..n : j * size \in Nat
    BY <1>1
  <2> QED
    BY <2>1
<1>6. Adds(sum, sizes, n)
  <2>1. 0 * size = 0 /\ 0 \in 0..n
    BY <1>1
  <2>2. ASSUME NEW j \in 1..n
        PROVE  j - 1 \in 0..n /\ j \in 0..n /\ j * size = (j - 1) * size + size
    BY <1>1
  <2> QED
    BY <2>1, <2>2 DEF Adds
<1>7. AllMade(result, sizes, sets, n)
  <2>1. \A j \in 1..n : /\ result[j] = ExpandBraces[p \o w \o suffixes[j]]
                        /\ sizes[j] = size /\ sets[j] = Spread(p, X, {suffixes[j]})
    OBVIOUS
  <2> HIDE DEF result, sizes, sets
  <2> QED
    BY <1>3, <2>1 DEF AllMade
<1>8. sum[n] = n * size
  BY <1>1
<1>9. Together(sets, n) = Spread(p, X, ToSet(suffixes))
  <2>1. \A j \in 1..n : sets[j] = Spread(p, X, {suffixes[j]})
    OBVIOUS
  <2> HIDE DEF sets
  <2>2. ASSUME NEW e \in Together(sets, n) PROVE e \in Spread(p, X, ToSet(suffixes))
    <3>1. PICK j \in 1..n : e \in sets[j]
      BY DEF Together
    <3>4. FromOne(e, p, X, suffixes[j])
      BY <2>1, <3>1, SingleIs
    <3>2. PICK x \in X : e = p \o (x \o suffixes[j])
      BY <3>4 DEF FromOne
    <3>3. suffixes[j] \in ToSet(suffixes) /\ e = p \o (x \o suffixes[j])
      BY <1>2, <3>2
    <3> QED
      BY <3>3, SpreadIs, Zenon
  <2>3. ASSUME NEW e \in Spread(p, X, ToSet(suffixes)) PROVE e \in Together(sets, n)
    <3>5. From(e, p, X, ToSet(suffixes))
      BY SpreadIs
    <3>1. PICK x \in X, t \in ToSet(suffixes) : e = p \o (x \o t)
      BY <3>5 DEF From
    <3>2. PICK j \in 1..n : t = suffixes[j]
      BY <1>2
    <3>3. e \in Spread(p, X, {suffixes[j]})
      BY <3>1, <3>2, SingleIs, Zenon
    <3>4. e \in sets[j]
      BY <2>1, <3>3
    <3> QED
      BY <3>4 DEF Together
  <2> QED
    BY <2>2, <2>3
<1> HIDE DEF result, sizes, sum, sets
<1>10. Made(Gather(n, result), sum[n], Together(sets, n))
  BY <1>1, <1>4, <1>5, <1>6, <1>7, GatherMade
<1> QED
  BY <1>8, <1>9, <1>10 DEF n, result

LEMMA Distributes ==
  ASSUME NEW n \in Nat, NEW a \in Nat, NEW b \in Nat
  PROVE  /\ n * (a + b) = n * a + n * b /\ n * a = a * n /\ n * a \in Nat /\ n * 0 = 0
         /\ a >= 1 => a * n >= n
OBVIOUS

\* All that comes of a group's parts.
LEMMA RowsMade ==
  ASSUME NEW p, NEW B, NEW n \in Nat,
         NEW K \in Nat \ {0}, NEW R \in [1..K -> Seq(Patterns)], \A k \in 1..K : Readable(R[k]),
         NEW rows \in [1..K -> Results],
         \A k \in 1..K : Made(rows[k], n * Len(R[k]), Spread(p, ToSet(R[k]), B))
  PROVE  Made(Gather(K, rows), Len(FlattenSeq(R)) * n, Spread(p, ToSet(FlattenSeq(R)), B))
<1> DEFINE lens == [k \in 1..K |-> Len(R[k])]
           all == ToSet(FlattenSeq(R))
<1>1. lens \in [1..K -> Nat] /\ \A k \in 1..K : lens[k] = Len(R[k])
  <2>1. \A k \in 1..K : Len(R[k]) \in Nat
    OBVIOUS
  <2> QED
    BY <2>1
<1> HIDE DEF lens
<1>2. PICK sum \in [0..K -> Nat] : Adds(sum, lens, K)
  BY <1>1, SumExists
<1>3. Len(FlattenSeq(R)) = sum[K] /\ all = UNION {ToSet(R[k]) : k \in 1..K}
  BY <1>1, <1>2, AlternativesAre
<1> DEFINE sizes == [k \in 1..K |-> n * lens[k]]
           sums == [k \in 0..K |-> n * sum[k]]
           sets == [k \in 1..K |-> Spread(p, ToSet(R[k]), B)]
<1>4. /\ sizes \in [1..K -> Nat] /\ \A k \in 1..K : sizes[k] = n * lens[k]
      /\ sums \in [0..K -> Nat] /\ \A k \in 0..K : sums[k] = n * sum[k]
      /\ \A k \in 1..K : sets[k] = Spread(p, ToSet(R[k]), B)
  <2>1. /\ \A k \in 1..K : lens[k] \in Nat /\ n * lens[k] \in Nat
        /\ \A k \in 0..K : sum[k] \in Nat /\ n * sum[k] \in Nat
    BY <1>1, <1>2, Distributes
  <2> QED
    BY <2>1
<1> HIDE DEF sizes, sums, sets
<1>5. Adds(sums, sizes, K)
  <2>1. sums[0] = 0
    BY <1>2, <1>4, Distributes DEF Adds
  <2>2. ASSUME NEW k \in 1..K PROVE sums[k] = sums[k - 1] + sizes[k]
    <3> DEFINE lo == k - 1
    <3>1. lo \in 0..K /\ k \in 0..K
      OBVIOUS
    <3>5. sum[k] = sum[lo] + lens[k]
      BY <1>2 DEF Adds
    <3> HIDE DEF lo
    <3>2. sum[k] = sum[lo] + lens[k] /\ sum[lo] \in Nat /\ lens[k] \in Nat
      BY <1>1, <3>1, <3>5
    <3>3. n * (sum[lo] + lens[k]) = n * sum[lo] + n * lens[k]
      <4> DEFINE a == sum[lo]
                 b == lens[k]
      <4>1. a \in Nat /\ b \in Nat
        BY <3>2
      <4> HIDE DEF a, b
      <4>2. n * (a + b) = n * a + n * b
        BY <4>1, Distributes
      <4> QED
        BY <4>2 DEF a, b
    <3>4. sums[k] = sums[lo] + sizes[k]
      BY <1>4, <3>1, <3>2, <3>3
    <3> QED
      BY <3>4 DEF lo
  <2> QED
    BY <2>1, <2>2 DEF Adds
<1>6. AllMade(rows, sizes, sets, K)
  BY <1>1, <1>4 DEF AllMade
<1>7. Made(Gather(K, rows), sums[K], Together(sets, K))
  BY <1>4, <1>5, <1>6, GatherMade
<1>8. sums[K] = Len(FlattenSeq(R)) * n
  <2>1. K \in 0..K /\ sum[K] \in Nat
    BY <1>2
  <2>2. n * sum[K] = sum[K] * n
    BY <2>1, Distributes
  <2> QED
    BY <1>3, <1>4, <2>1, <2>2
<1>9. Together(sets, K) = Spread(p, all, B)
  <2>1. ASSUME NEW e \in Together(sets, K) PROVE e \in Spread(p, all, B)
    <3>1. PICK k \in 1..K : e \in sets[k]
      BY DEF Together
    <3>2. From(e, p, ToSet(R[k]), B)
      BY <1>4, <3>1, SpreadIs
    <3>3. PICK x \in ToSet(R[k]), t \in B : e = p \o (x \o t)
      BY <3>2 DEF From
    <3>4. x \in all
      BY <1>3
    <3> HIDE DEF all
    <3> QED
      BY <3>3, <3>4, SpreadIs, Zenon
  <2>2. ASSUME NEW e \in Spread(p, all, B) PROVE e \in Together(sets, K)
    <3>1. From(e, p, all, B)
      BY SpreadIs
    <3>2. PICK x \in all, t \in B : e = p \o (x \o t)
      BY <3>1 DEF From
    <3>3. PICK k \in 1..K : x \in ToSet(R[k])
      BY <1>3
    <3>4. e \in Spread(p, ToSet(R[k]), B)
      BY <3>2, <3>3, SpreadIs, Zenon
    <3>5. e \in sets[k]
      BY <1>4, <3>4
    <3> QED
      BY <3>5 DEF Together
  <2> QED
    BY <2>1, <2>2
<1> QED
  BY <1>7, <1>8, <1>9

\* What the algorithm makes of part k of a group, whatever follows the group.
PartMade(p, w, R, k) ==
  \A t \in Patterns : Closing(t) = 0 =>
    Made(ExpandBraces[p \o w[k] \o t], Len(R[k]), Spread(p, ToSet(R[k]), {t}))

Rounds(m, prefix, parts, suffixes) ==
  IF ~suffixes.ok THEN TooMany
  ELSE Gather(m, [k \in 1..m |-> Gather(Len(suffixes.alts), [j \in 1..Len(suffixes.alts) |->
         ExpandBraces[prefix \o parts[k] \o suffixes.alts[j]]])])

LEMMA GroupMade ==
  ASSUME NEW p, NoOpening(p), NEW tail \in Patterns, Closing(tail) = 0,
         NEW K \in Nat \ {0}, NEW R \in [1..K -> Seq(Patterns)], \A k \in 1..K : Readable(R[k]),
         NEW g, Level(g), NEW w \in [1..K -> Patterns], SplitTopLevel(g) = w,
         \A k \in 1..K : PartMade(p, w, R, k),
         NEW S, Readable(S), NEW r \in Patterns,
         Made(ExpandBraces[r], Len(S), Spread(<<>>, ToSet(S), {tail}))
  PROVE  Made(ExpandBraces[Around(p, g, r)],
              Len(Joined(FlattenSeq(R), S)), Spread(p, ToSet(Joined(FlattenSeq(R), S)), {tail}))
<1> DEFINE text == Around(p, g, r)
           flat == FlattenSeq(R)
           suffixes == ExpandBraces[r]
           sfx == suffixes.alts
           rows == [k \in 1..K |-> Gather(Len(sfx),
                     [j \in 1..Len(sfx) |-> ExpandBraces[p \o w[k] \o sfx[j]]])]
<1>1. /\ text \in Patterns /\ Closing(text) # 0
      /\ SubSeq(text, 1, Opening(text) - 1) = p
      /\ SubSeq(text, Opening(text) + 1, Closing(text) - 1) = g
      /\ SubSeq(text, Closing(text) + 1, Len(text)) = r
  BY GroupFound DEF Found
<1>2. Len(w) = K
  BY FunctionIsSeq
<1> HIDE DEF text
<1>3. ExpandBraces[text] = IF ~suffixes.ok THEN TooMany ELSE Gather(K, rows)
  <2> DEFINE prefix == SubSeq(text, 1, Opening(text) - 1)
             parts == SplitTopLevel(SubSeq(text, Opening(text) + 1, Closing(text) - 1))
             rest == SubSeq(text, Closing(text) + 1, Len(text))
             after == ExpandBraces[rest]
  <2>1. ExpandBraces[text] = Expansion(text, ExpandBraces)
    BY <1>1, ExpandBracesIs
  <2>2. Expansion(text, ExpandBraces) = Rounds(Len(parts), prefix, parts, after)
    BY <1>1 DEF Expansion, Rounds
  <2>3. prefix = p /\ parts = w /\ after = suffixes /\ Len(w) = K
    BY <1>1, <1>2
  <2>4. Rounds(K, p, w, suffixes) = IF ~suffixes.ok THEN TooMany ELSE Gather(K, rows)
    BY DEF Rounds
  <2> HIDE DEF prefix, parts, after, suffixes, rows
  <2> QED
    BY <2>1, <2>2, <2>3, <2>4
<1>4. Readable(flat)
  BY AlternativesAre
<1>5. /\ Len(Joined(flat, S)) = Len(flat) * Len(S)
      /\ ToSet(Joined(flat, S)) = Pairwise(ToSet(flat), ToSet(S))
      /\ Len(flat) \in Nat /\ Len(flat) >= 1 /\ Len(S) \in Nat
      /\ ToSet(flat) \subseteq Patterns /\ ToSet(S) \subseteq Patterns
  <2> HIDE DEF flat
  <2>1. flat \in Seq(Patterns) /\ S \in Seq(Patterns) /\ Len(flat) >= 1
    BY <1>4 DEF Readable
  <2>2. Len(flat) \in Nat /\ Len(S) \in Nat
    BY <2>1, LenProperties
  <2>3. ToSet(flat) \subseteq Patterns /\ ToSet(S) \subseteq Patterns
    BY <1>4 DEF Readable, NoOpening
  <2> QED
    BY <2>1, <2>2, <2>3, JoinedIs
<1>6. p \in Patterns
  BY DEF NoOpening
<1> HIDE DEF flat, suffixes
<1>7. CASE ~suffixes.ok
  <2>1. ~(Len(S) <= maxBraceExpansions)
    BY <1>7, Zenon DEF Made, suffixes
  <2>2. ~(Len(flat) * Len(S) <= maxBraceExpansions)
    <3>1. Len(flat) * Len(S) >= Len(S) /\ Len(flat) * Len(S) \in Nat
      BY <1>5, Distributes
    <3> QED
      BY <1>5, <2>1, <3>1, MaxIs
  <2>3. ExpandBraces[text] = TooMany
    BY <1>3, <1>7, Zenon
  <2> QED
    BY <1>5, <2>2, <2>3, MadeTooMany DEF text, flat
<1>8. CASE suffixes.ok
  <2>1. /\ sfx \in Seq(Patterns) /\ Len(sfx) = Len(S)
        /\ ToSet(sfx) = Spread(<<>>, ToSet(S), {tail})
    <3>1. suffixes \in Results
      BY DEF Made, suffixes
    <3>2. Len(sfx) = Len(S) /\ ToSet(sfx) = Spread(<<>>, ToSet(S), {tail})
      BY <1>8 DEF Made, suffixes
    <3> QED
      BY <3>1, <3>2 DEF Results
  <2> DEFINE n == Len(sfx)
  <2> HIDE DEF sfx
  <2>2. DOMAIN sfx = 1..n /\ n \in Nat
    BY <2>1, LenProperties
  <2>3. ASSUME NEW j \in 1..n PROVE sfx[j] \in Patterns /\ Closing(sfx[j]) = 0
    <3>1. sfx[j] \in ToSet(sfx)
      BY <2>2 DEF ToSet
    <3>2. FromOne(sfx[j], <<>>, ToSet(S), tail)
      BY <2>1, <3>1, SingleIs
    <3>3. PICK d \in ToSet(S) : sfx[j] = <<>> \o (d \o tail)
      BY <3>2 DEF FromOne
    <3>4. NoOpening(d)
      BY DEF Readable
    <3>5. d \in Patterns
      BY <3>4 DEF NoOpening
    <3>6. d \o tail \in Patterns /\ <<>> \o (d \o tail) = d \o tail
      <4>1. d \o tail \in Patterns
        BY <3>5, Concatenation
      <4> QED
        BY <4>1, Concatenation
    <3>7. Closing(d \o tail) = 0
      BY <3>4, FirstOfConcat
    <3> QED
      BY <3>3, <3>6, <3>7
  <2>4. ASSUME NEW k \in 1..K
        PROVE  Made(Gather(n, [j \in 1..n |-> ExpandBraces[p \o w[k] \o sfx[j]]]),
                    n * Len(R[k]), Spread(p, ToSet(R[k]), ToSet(sfx)))
    <3> DEFINE part == w[k]
               size == Len(R[k])
               X == ToSet(R[k])
    <3>1. size \in Nat
      OBVIOUS
    <3>2. \A j \in 1..n : Made(ExpandBraces[p \o part \o sfx[j]], size, Spread(p, X, {sfx[j]}))
      BY <2>3 DEF PartMade
    <3> HIDE DEF part, size, X
    <3>3. Made(Gather(n, [j \in 1..n |-> ExpandBraces[p \o part \o sfx[j]]]),
               n * size, Spread(p, X, ToSet(sfx)))
      BY <2>1, <3>1, <3>2, RowMade
    <3> QED
      BY <3>3 DEF part, size, X
  <2>5. \A k \in 1..K : rows[k] = Gather(n, [j \in 1..n |-> ExpandBraces[p \o w[k] \o sfx[j]]])
    BY DEF n
  <2>6. rows \in [1..K -> Results]
    <3>1. \A k \in 1..K : Gather(n, [j \in 1..n |-> ExpandBraces[p \o w[k] \o sfx[j]]]) \in Results
      BY <2>4 DEF Made
    <3> QED
      BY <3>1
  <2> DEFINE B == ToSet(sfx)
  <2> HIDE DEF rows, n, B
  <2>7. \A k \in 1..K : Made(rows[k], n * Len(R[k]), Spread(p, ToSet(R[k]), B))
    BY <2>4, <2>5 DEF B
  <2>8. Made(Gather(K, rows), Len(flat) * n, Spread(p, ToSet(flat), B))
    BY <2>2, <2>6, <2>7, RowsMade DEF flat
  <2>9. Spread(p, ToSet(flat), B) = Spread(p, Pairwise(ToSet(flat), ToSet(S)), {tail})
    BY <1>5, <1>6, <2>1, SpreadPair DEF B
  <2>10. ExpandBraces[text] = Gather(K, rows)
    BY <1>3, <1>8 DEF rows, sfx
  <2>11. n = Len(S)
    BY <2>1 DEF n
  <2> QED
    BY <1>5, <2>8, <2>9, <2>10, <2>11 DEF text, flat
<1> QED
  BY <1>7, <1>8

\* The algorithm makes of p and a text and what follows it these patterns.
Yields(p, text, tail, S) ==
  Made(ExpandBraces[p \o (text \o tail)], Len(S), Spread(p, ToSet(S), {tail}))

LEMMA EndYields ==
  ASSUME NEW p, NoOpening(p), NEW tail \in Patterns, Closing(tail) = 0
  PROVE  Yields(p, <<>>, tail, << <<>> >>)
<1> DEFINE text == p \o tail
<1>1. p \in Patterns
  BY DEF NoOpening
<1>2. text \in Patterns /\ Closing(text) = 0 /\ <<>> \o tail = tail
  BY <1>1, Concatenation, FirstOfConcat
<1> HIDE DEF text
<1>3. ExpandBraces[text] = Expanded(<<text>>)
  BY <1>2, ExpandBracesIs DEF Expansion
<1>4. <<text>> \in Seq(Patterns) /\ Len(<<text>>) = 1 /\ ToSet(<<text>>) = {text}
  BY <1>2 DEF ToSet
<1>5. Made(Expanded(<<text>>), Len(<<text>>), ToSet(<<text>>))
  BY <1>4, MaxIs, MadeWhole
<1>6. Spread(p, {<<>>}, {tail}) = {text}
  <2>1. p \o (<<>> \o tail) \in Spread(p, {<<>>}, {tail})
    BY SingleIs
  <2>2. ASSUME NEW e \in Spread(p, {<<>>}, {tail}) PROVE e = text
    <3>1. FromOne(e, p, {<<>>}, tail)
      BY SingleIs
    <3> QED
      BY <1>2, <3>1 DEF FromOne, text
  <2>3. text \in Spread(p, {<<>>}, {tail})
    BY <1>2, <2>1 DEF text
  <2> QED
    BY <2>2, <2>3
<1>7. ToSet(<< <<>> >>) = {<<>>} /\ Len(<< <<>> >>) = 1
  BY NothingIsReadable
<1>8. p \o (<<>> \o tail) = text
  BY <1>2 DEF text
<1> QED
  BY <1>3, <1>4, <1>5, <1>6, <1>7, <1>8 DEF Yields

LEMMA CharacterYields ==
  ASSUME NEW p, NoOpening(p), NEW c \in Characters \ {Open},
         NEW rest \in Patterns, NEW tail \in Patterns, NEW S, Readable(S),
         \A q : NoOpening(q) => Yields(q, rest, tail, S)
  PROVE  Yields(p, <<c>> \o rest, tail, Joined(<< <<c>> >>, S))
<1> DEFINE d == <<c>>
           q == p \o d
<1>1. NoOpening(d) /\ d \in Patterns
  <2>1. d \in Patterns /\ Len(d) = 1 /\ d[1] = c
    BY OneCharacter
  <2>2. \A i \in 1..1 : i = 1
    OBVIOUS
  <2> HIDE DEF d
  <2> QED
    BY <2>1, <2>2 DEF NoOpening
<1>2. <<d>> \in Seq(Patterns) /\ Len(<<d>>) = 1 /\ ToSet(<<d>>) = {d}
  BY <1>1 DEF ToSet
<1> HIDE DEF d
<1>3. NoOpening(q) /\ p \in Patterns
  BY <1>1, ConcatNoOpening DEF NoOpening
<1>4. S \in Seq(Patterns) /\ Len(S) \in Nat /\ ToSet(S) \subseteq Patterns
  BY LenProperties DEF Readable, NoOpening
<1>5. /\ Len(Joined(<<d>>, S)) = Len(S)
      /\ ToSet(Joined(<<d>>, S)) = Pairwise({d}, ToSet(S))
  <2> DEFINE a == <<d>>
  <2>1. a \in Seq(Patterns) /\ Len(a) = 1 /\ ToSet(a) = {d}
    BY <1>2
  <2> HIDE DEF a
  <2>2. Len(Joined(a, S)) = Len(a) * Len(S) /\ ToSet(Joined(a, S)) = Pairwise(ToSet(a), ToSet(S))
    BY <1>4, <2>1, JoinedIs
  <2>3. 1 * Len(S) = Len(S)
    BY <1>4
  <2> QED
    BY <2>1, <2>2, <2>3 DEF a
<1>6. Spread(q, ToSet(S), {tail}) = Spread(p, Pairwise({d}, ToSet(S)), {tail})
  BY <1>1, <1>3, <1>4, SpreadShift
<1>7. q \o (rest \o tail) = p \o ((d \o rest) \o tail)
  <2> DEFINE after == rest \o tail
  <2>1. after \in Patterns
    BY <1>1, Concatenation
  <2> HIDE DEF after
  <2>4. (p \o d) \o after = p \o (d \o after)
    BY <1>1, <1>3, <2>1, Associative
  <2>2. q \o (rest \o tail) = p \o (d \o (rest \o tail))
    BY <2>4 DEF after
  <2>3. (d \o rest) \o tail = d \o (rest \o tail)
    BY <1>1, Associative
  <2> QED
    BY <2>2, <2>3
<1> HIDE DEF q
<1>8. Yields(q, rest, tail, S)
  BY <1>3
<1>9. Yields(p, d \o rest, tail, Joined(<<d>>, S))
  BY <1>5, <1>6, <1>7, <1>8 DEF Yields
<1> QED
  BY <1>9 DEF d

\* Lists of nodes of level n are expanded to what they stand for.
Faithful(n) ==
  \A nodes \in Seq(Outer(n)), p, tail \in Patterns :
    NoOpening(p) /\ Closing(tail) = 0 =>
      Yields(p, Text(nodes, Written[n]), tail, Readings(nodes, Denoted[n]))

LEMMA GroupYields ==
  ASSUME NEW n \in 0..MaxNesting, NEW node \in Outer(n), node.alts # <<>>, Faithful(n - 1),
         NEW p, NoOpening(p), NEW rest \in Patterns, NEW tail \in Patterns, Closing(tail) = 0,
         NEW S, Readable(S), Yields(<<>>, rest, tail, S)
  PROVE  Yields(p, Written[n][node] \o rest, tail, Joined(Denoted[n][node], S))
<1> DEFINE K == Len(node.alts)
           w == TextsOf(node, n)
           R == [k \in 1..K |-> Readings(node.alts[k], Denoted[n - 1])]
           r == rest \o tail
<1>1. n - 1 \in 0..MaxNesting /\ node.alts \in Seq(Seq(Inner[n - 1]))
  BY NodeIs
<1>2. K \in Nat \ {0} /\ \A k \in 1..K : node.alts[k] \in Seq(Outer(n - 1))
  <2>1. K \in Nat \ {0} /\ \A k \in 1..K : node.alts[k] \in Seq(Inner[n - 1])
    BY <1>1, EmptySeq, LenProperties, ElementOfSeq
  <2>2. Inner[n - 1] \subseteq Outer(n - 1)
    BY DEF Outer
  <2>3. Seq(Inner[n - 1]) \subseteq Seq(Outer(n - 1))
    BY <2>2
  <2> QED
    BY <2>1, <2>3
<1>3. Denoted[n][node] = FlattenSeq(R)
  <2> DEFINE below == Denoted[n - 1]
  <2>1. Denoted[n] = DenotedAt(n, below)
    BY DenotedIs
  <2> HIDE DEF below
  <2>2. Denoted[n][node] = FlattenSeq([k \in 1..K |-> Readings(node.alts[k], below)])
    BY <2>1 DEF DenotedAt
  <2> QED
    BY <2>2 DEF below
<1>4. \A k \in 1..K : R[k] = Readings(node.alts[k], Denoted[n - 1])
  OBVIOUS
<1>5. ASSUME NEW k \in 1..K PROVE Readable(R[k])
  <2>1. \A x \in Outer(n - 1) : Readable(Denoted[n - 1][x])
    BY <1>1, DenotedIsReadable
  <2>2. node.alts[k] \in Seq(Outer(n - 1))
    BY <1>2
  <2>3. Readable(Readings(node.alts[k], Denoted[n - 1]))
    BY <2>1, <2>2, ReadingsAreReadable
  <2> QED
    BY <1>4, <2>3
<1>6. R \in [1..K -> Seq(Patterns)]
  <2>1. \A k \in 1..K : R[k] \in Seq(Patterns)
    BY <1>5 DEF Readable
  <2> QED
    BY <2>1
<1>7. \A k \in 1..K : w[k] = Text(node.alts[k], Written[n - 1])
  BY DEF TextsOf
<1> HIDE DEF R
<1>8. WrittenWell(n, node)
  BY WrittenIsWell
<1>9. w \in [1..K -> Patterns]
  <2>1. \A k \in 1..K : w[k] \in Patterns
    BY <1>8 DEF WrittenWell, Closed, Level
  <2> QED
    BY <2>1 DEF TextsOf
<1>10. PICK g : /\ Level(g) /\ Written[n][node] = <<Open>> \o g \o <<Close>>
                /\ SplitTopLevel(g) = w
  BY <1>8 DEF WrittenWell, Grouped
<1> HIDE DEF w, K
<1>11. r \in Patterns /\ <<>> \o r = r /\ p \in Patterns /\ Written[n][node] \in Patterns
  <2>1. r \in Patterns
    BY Concatenation
  <2> QED
    BY <1>8, <2>1, Concatenation DEF NoOpening, WrittenWell
<1>12. ASSUME NEW k \in 1..K PROVE PartMade(p, w, R, k)
  <2>1. SUFFICES ASSUME NEW t \in Patterns, Closing(t) = 0
                 PROVE  Made(ExpandBraces[p \o w[k] \o t], Len(R[k]), Spread(p, ToSet(R[k]), {t}))
    BY DEF PartMade
  <2>2. Yields(p, w[k], t, R[k])
    <3>1. node.alts[k] \in Seq(Outer(n - 1))
      BY <1>2
    <3>2. Yields(p, Text(node.alts[k], Written[n - 1]), t, Readings(node.alts[k], Denoted[n - 1]))
      BY <1>11, <2>1, <3>1 DEF Faithful
    <3> QED
      BY <1>4, <1>7, <3>2
  <2>3. p \o (w[k] \o t) = p \o w[k] \o t
    <3> DEFINE x == w[k]
    <3>1. x \in Patterns /\ p \in Patterns
      BY <1>9, <1>11
    <3> HIDE DEF x
    <3>2. (p \o x) \o t = p \o (x \o t)
      BY <2>1, <3>1, Associative
    <3> QED
      BY <3>2 DEF x
  <2> QED
    BY <2>2, <2>3 DEF Yields
<1>13. Made(ExpandBraces[r], Len(S), Spread(<<>>, ToSet(S), {tail}))
  BY <1>11 DEF Yields
<1> HIDE DEF r
<1> DEFINE J == Joined(FlattenSeq(R), S)
<1>14. Made(ExpandBraces[Around(p, g, r)], Len(J), Spread(p, ToSet(J), {tail}))
  BY <1>2, <1>5, <1>6, <1>9, <1>10, <1>11, <1>12, <1>13, GroupMade
<1>15. p \o ((Written[n][node] \o rest) \o tail) = Around(p, g, r)
  <2>1. (Written[n][node] \o rest) \o tail = Written[n][node] \o r
    BY <1>11, Associative DEF r
  <2> QED
    BY <1>10, <2>1 DEF Around
<1> QED
  BY <1>3, <1>14, <1>15 DEF Yields

\* One level of nesting more.
LEMMA FaithfulStep ==
  ASSUME NEW n \in 0..MaxNesting, n # 0 => Faithful(n - 1)
  PROVE  Faithful(n)
<1>1. SUFFICES ASSUME NEW nodes \in Seq(Outer(n)), NEW tail \in Patterns, Closing(tail) = 0
               PROVE  \A p : NoOpening(p) =>
                        Yields(p, Text(nodes, Written[n]), tail, Readings(nodes, Denoted[n]))
  BY DEF Faithful
<1> DEFINE m == Len(nodes)
           N == Outer(n)
           written == Written[n]
           denoted == Denoted[n]
<1>2. m \in Nat /\ \A i \in 1..m : nodes[i] \in N
  BY <1>1, LenProperties, ElementOfSeq
<1>3. \A x \in N : written[x] \in Patterns /\ Readable(denoted[x])
  BY WrittenIsWell, DenotedIsReadable DEF WrittenWell
<1>4. PICK ft \in [1..(m + 1) -> Patterns] :
             TextFrom(ft, nodes, written) /\ Text(nodes, written) = ft[1]
  <2> HIDE DEF N, written
  <2> QED
    BY <1>1, <1>3, TextIs DEF N
<1>5. PICK fr \in [1..(m + 1) -> Seq(Patterns)] :
             ReadFrom(fr, nodes, denoted) /\ Readings(nodes, denoted) = fr[1]
  <2>1. \A x \in N : denoted[x] \in Seq(Patterns)
    BY <1>3 DEF Readable
  <2> HIDE DEF denoted
  <2> QED
    BY <1>1, <2>1, ReadingsAre DEF N
<1>6. \A i \in 1..(m + 1) : Readable(fr[i])
  <2> HIDE DEF denoted
  <2> QED
    BY <1>1, <1>3, <1>5, ReadingsAreReadable DEF N
<1> DEFINE Here(i) == \A p : NoOpening(p) => Yields(p, ft[i], tail, fr[i])
           T == {k \in Nat : k <= m => Here((m + 1) - k)}
<1>7. Here(m + 1)
  <2>1. ft[m + 1] = <<>> /\ fr[m + 1] = << <<>> >>
    BY <1>4, <1>5 DEF TextFrom, ReadFrom
  <2> QED
    BY <1>1, <2>1, EndYields
<1>8. ASSUME NEW i \in 1..m, Here(i + 1) PROVE Here(i)
  <2> DEFINE node == nodes[i]
             up == i + 1
             rest == ft[up]
             S == fr[up]
  <2>1. node \in N /\ up \in 1..(m + 1)
    BY <1>2
  <2>2. ft[i] = written[node] \o rest /\ fr[i] = Joined(denoted[node], S)
    BY <1>4, <1>5 DEF TextFrom, ReadFrom
  <2> HIDE DEF up
  <2>3. rest \in Patterns /\ Readable(S)
    BY <1>4, <1>6, <2>1
  <2>4. \A q : NoOpening(q) => Yields(q, rest, tail, S)
    BY <1>8 DEF up
  <2> HIDE DEF node, rest, S
  <2>5. SUFFICES ASSUME NEW p, NoOpening(p)
                 PROVE  Yields(p, written[node] \o rest, tail, Joined(denoted[node], S))
    BY <2>2
  <2>6. CASE node.alts = <<>>
    <3> DEFINE c == node.char
    <3>1. c \in Characters \ {Open}
      BY <2>1, <2>6, NodeIs
    <3>2. written[node] = <<c>> /\ denoted[node] = << <<c>> >>
      <4>1. written[node] = <<c>>
        BY <2>1, <2>6, WrittenIsWell DEF WrittenWell
      <4>2. denoted = DenotedAt(n, Denoted[n - 1])
        BY DenotedIs
      <4>3. denoted[node] = << <<c>> >>
        <5> DEFINE below == Denoted[n - 1]
        <5> HIDE DEF below, denoted
        <5> QED
          BY <2>1, <2>6, <4>2 DEF DenotedAt, below
      <4> QED
        BY <4>1, <4>3
    <3> HIDE DEF c, written, denoted
    <3>3. Yields(p, <<c>> \o rest, tail, Joined(<< <<c>> >>, S))
      BY <1>1, <2>3, <2>4, <2>5, <3>1, CharacterYields
    <3> QED
      BY <3>2, <3>3
  <2>7. CASE node.alts # <<>>
    <3>1. n # 0
      BY <2>1, <2>7, NoneAtZero
    <3>2. Faithful(n - 1)
      BY <3>1
    <3>3. Yields(<<>>, rest, tail, S)
      <4>1. NoOpening(<<>>)
        BY DEF NoOpening, Patterns
      <4> QED
        BY <2>4, <4>1
    <3> QED
      BY <1>1, <2>1, <2>3, <2>5, <2>7, <3>2, <3>3, GroupYields
  <2> QED
    BY <2>6, <2>7
<1> HIDE DEF Here
<1>9. 0 \in T
  <2>1. (m + 1) - 0 = m + 1
    BY <1>2
  <2> QED
    BY <1>7, <2>1
<1>10. ASSUME NEW k \in Nat, k \in T PROVE k + 1 \in T
  <2>1. SUFFICES ASSUME k + 1 <= m PROVE Here((m + 1) - (k + 1))
    OBVIOUS
  <2> DEFINE i == (m + 1) - (k + 1)
  <2>2. i \in 1..m /\ i + 1 = (m + 1) - k /\ k <= m
    BY <1>2, <2>1
  <2> HIDE DEF i
  <2>3. Here(i + 1)
    BY <1>10, <2>2
  <2>4. Here(i)
    BY <1>8, <2>2, <2>3
  <2> QED
    BY <2>4 DEF i
<1> HIDE DEF T
<1>11. m \in T
  BY <1>2, <1>9, <1>10, Induction
<1>12. Here(1)
  <2>1. (m + 1) - m = 1 /\ m <= m
    BY <1>2
  <2> QED
    BY <1>11, <2>1 DEF T
<1> QED
  BY <1>4, <1>5, <1>12 DEF Here

LEMMA AlwaysFaithful == \A n \in 0..MaxNesting : Faithful(n)
<1> DEFINE T == {n \in Nat : n <= MaxNesting => Faithful(n)}
<1>1. MaxNesting \in Nat
  BY ArgumentsAssumption
<1>2. 0 \in T
  <2>1. 0 \in 0..MaxNesting
    BY <1>1
  <2> QED
    BY <2>1, FaithfulStep
<1>3. ASSUME NEW m \in Nat, m \in T PROVE m + 1 \in T
  <2> DEFINE n == m + 1
  <2>1. SUFFICES ASSUME n <= MaxNesting PROVE Faithful(n)
    OBVIOUS
  <2>2. n \in 0..MaxNesting /\ n - 1 = m /\ m <= MaxNesting
    BY <1>1, <2>1
  <2> HIDE DEF n
  <2>3. Faithful(n - 1)
    BY <1>3, <2>2
  <2> QED
    BY <2>2, <2>3, FaithfulStep
<1> HIDE DEF T
<1>4. Nat \subseteq T
  BY <1>2, <1>3, Induction
<1> QED
  BY <1>1, <1>4 DEF T
-----------------------------------------------------------------------------
(* The verdict on a glob *)

Right ==
  LET alts == Readings(job.syntax, Denoted[MaxNesting])
      nul == Contains(Pattern, Nul)
  IN  /\ outcome = "invalid_argument" <=> nul
      /\ outcome = "ok" <=>
           /\ ~nul /\ Len(alts) <= maxBraceExpansions
           /\ \A k \in DOMAIN alts : ~Escapes(alts[k] \o job.tail)

\* A glob is unseen until its one verdict, which is right.
GlobInv ==
  /\ job \in Globs /\ outcome \in {"unseen", "ok", "outside_root", "invalid_argument"}
  /\ outcome # "unseen" => Right

\* The pattern as the algorithm takes it apart, and as the syntax has it.
LEMMA VerdictIs ==
  ASSUME job \in Globs
  PROVE  LET alts == Readings(job.syntax, Denoted[MaxNesting])
             expanded == ExpandBraces[Pattern]
         IN  expanded.ok /\ ~(\E k \in DOMAIN expanded.alts : Escapes(expanded.alts[k]))
             <=> /\ Len(alts) <= maxBraceExpansions
                 /\ \A k \in DOMAIN alts : ~Escapes(alts[k] \o job.tail)
<1> DEFINE n == MaxNesting
           nodes == job.syntax
           tail == job.tail
           alts == Readings(nodes, Denoted[n])
           text == Text(nodes, Written[n])
           expanded == ExpandBraces[Pattern]
<1>1. /\ n \in 0..MaxNesting /\ nodes \in Seq(Outer(n)) /\ tail \in Patterns /\ Closing(tail) = 0
  BY ArgumentsAssumption
<1>2. Readable(alts)
  <2>1. \A x \in Outer(n) : Readable(Denoted[n][x])
    BY <1>1, DenotedIsReadable
  <2> QED
    BY <1>1, <2>1, ReadingsAreReadable
<1>3. text \in Patterns
  <2>1. \A x \in Outer(n) : Written[n][x] \in Patterns
    BY <1>1, WrittenIsWell DEF WrittenWell
  <2> DEFINE written == Written[n]
             N == Outer(n)
  <2> HIDE DEF written, N
  <2>2. PICK f \in [1..(Len(nodes) + 1) -> Patterns] :
               TextFrom(f, nodes, written) /\ Text(nodes, written) = f[1]
    BY <1>1, <2>1, TextIs DEF written, N
  <2>3. Len(nodes) \in Nat
    BY <1>1, LenProperties
  <2> QED
    BY <2>2, <2>3 DEF written
<1>4. Yields(<<>>, text, tail, alts)
  <2>1. NoOpening(<<>>) /\ <<>> \in Patterns
    BY DEF NoOpening, Patterns
  <2> QED
    BY <1>1, <2>1, AlwaysFaithful DEF Faithful
<1>5. Pattern = <<>> \o (text \o tail)
  <2>1. text \o tail \in Patterns
    BY <1>1, <1>3, Concatenation
  <2>2. Pattern = text \o tail
    BY DEF Pattern
  <2> HIDE DEF text, tail
  <2> QED
    BY <2>1, <2>2, Concatenation
<1>6. Made(expanded, Len(alts), Spread(<<>>, ToSet(alts), {tail}))
  BY <1>4, <1>5 DEF Yields
<1> HIDE DEF expanded, text, alts, nodes, n, tail
<1>7. alts \in Seq(Patterns) /\ DOMAIN alts = 1..Len(alts) /\ Len(alts) \in Nat
  BY <1>2, LenProperties DEF Readable
<1>8. \A k \in DOMAIN alts : /\ alts[k] \in ToSet(alts)
                             /\ <<>> \o (alts[k] \o tail) = alts[k] \o tail
  <2>1. ASSUME NEW k \in DOMAIN alts
        PROVE  <<>> \o (alts[k] \o tail) = alts[k] \o tail
    <3> DEFINE d == alts[k]
    <3>1. d \in Patterns
      BY <1>7, <2>1, ElementOfSeq
    <3> HIDE DEF d
    <3>2. d \o tail \in Patterns
      BY <1>1, <3>1, Concatenation
    <3> QED
      BY <3>2, Concatenation DEF d
  <2>2. \A k \in DOMAIN alts : alts[k] \in ToSet(alts)
    BY DEF ToSet
  <2> QED
    BY <2>1, <2>2
<1>9. ASSUME expanded.ok
      PROVE  (\E k \in DOMAIN expanded.alts : Escapes(expanded.alts[k]))
             <=> \E k \in DOMAIN alts : Escapes(alts[k] \o tail)
  <2>1. ToSet(expanded.alts) = Spread(<<>>, ToSet(alts), {tail})
    BY <1>6, <1>9 DEF Made
  <2>2. ASSUME NEW k \in DOMAIN expanded.alts, Escapes(expanded.alts[k])
        PROVE  \E j \in DOMAIN alts : Escapes(alts[j] \o tail)
    <3>1. expanded.alts[k] \in ToSet(expanded.alts)
      BY DEF ToSet
    <3>2. FromOne(expanded.alts[k], <<>>, ToSet(alts), tail)
      BY <2>1, <3>1, SingleIs
    <3>3. PICK d \in ToSet(alts) : expanded.alts[k] = <<>> \o (d \o tail)
      BY <3>2 DEF FromOne
    <3>4. PICK j \in DOMAIN alts : d = alts[j]
      BY DEF ToSet
    <3> QED
      BY <1>8, <2>2, <3>3, <3>4
  <2>3. ASSUME NEW j \in DOMAIN alts, Escapes(alts[j] \o tail)
        PROVE  \E k \in DOMAIN expanded.alts : Escapes(expanded.alts[k])
    <3>1. <<>> \o (alts[j] \o tail) \in Spread(<<>>, ToSet(alts), {tail})
      BY <1>8, SingleIs
    <3>2. alts[j] \o tail \in ToSet(expanded.alts)
      BY <1>8, <2>1, <3>1
    <3>3. PICK k \in DOMAIN expanded.alts : alts[j] \o tail = expanded.alts[k]
      BY <3>2 DEF ToSet
    <3> QED
      BY <2>3, <3>3
  <2> QED
    BY <2>2, <2>3
<1>10. expanded.ok <=> Len(alts) <= maxBraceExpansions
  BY <1>6 DEF Made
<1>11. (expanded.ok /\ ~(\E k \in DOMAIN expanded.alts : Escapes(expanded.alts[k])))
       <=> (Len(alts) <= maxBraceExpansions /\ \A k \in DOMAIN alts : ~Escapes(alts[k] \o tail))
  BY <1>9, <1>10, Zenon
<1> QED
  BY <1>11 DEF expanded, alts, nodes, n, tail

LEMMA GlobIsNoBatch == job \in Globs => ~IsBatch
<1> SUFFICES ASSUME job \in Globs PROVE ~IsBatch
  OBVIOUS
<1>1. job \in [syntax: Seq(Outer(MaxNesting)), tail: Patterns]
  BY ArgumentsAssumption
<1>2. DOMAIN job = {"syntax", "tail"}
  BY <1>1
<1> QED
  BY <1>2 DEF IsBatch

LEMMA GlobKeeps ==
  ASSUME GlobInv, [Next]_vars
  PROVE  GlobInv'
<1>1. CASE BatchNext
  BY <1>1 DEF GlobInv, BatchNext, ApplyEdit, EndEdits
<1>2. CASE ValidateGlobArg
  <2> DEFINE alts == Readings(job.syntax, Denoted[MaxNesting])
             expanded == ExpandBraces[Pattern]
             fine == expanded.ok /\ ~(\E k \in DOMAIN expanded.alts : Escapes(expanded.alts[k]))
             nul == Contains(Pattern, Nul)
  <2>1. /\ job' = job /\ job \in Globs
        /\ outcome' = IF nul THEN "invalid_argument" ELSE IF fine THEN "ok" ELSE "outside_root"
    BY <1>2 DEF ValidateGlobArg, Refuse, GlobInv
  <2>2. fine <=> Len(alts) <= maxBraceExpansions /\ \A k \in DOMAIN alts : ~Escapes(alts[k] \o job.tail)
    BY <2>1, VerdictIs
  <2> HIDE DEF fine, nul
  <2>3. /\ outcome' \in {"ok", "outside_root", "invalid_argument"}
        /\ outcome' = "invalid_argument" <=> nul
        /\ outcome' = "ok" <=> ~nul /\ fine
    BY <2>1
  <2>4. nul' <=> nul
    BY <2>1 DEF nul, Pattern
  <2>5. Right'
    BY <2>1, <2>2, <2>3, <2>4 DEF Right, nul
  <2> QED
    BY <2>1, <2>3, <2>5 DEF GlobInv
<1>3. CASE UNCHANGED vars
  <2>1. job' = job /\ outcome' = outcome
    BY <1>3 DEF vars
  <2>2. Right' <=> Right
    BY <2>1 DEF Right, Pattern
  <2> QED
    BY <2>1, <2>2 DEF GlobInv
<1> QED
  BY <1>1, <1>2, <1>3 DEF Next

\* validateGlobArg's verdict is right of every pattern, however its groups nest.
THEOREM GlobsAreJudgedExactly == Spec => []GlobVerdictExact
<1> DEFINE Inv == (job \in Batches) \/ GlobInv
<1>1. Init => Inv
  BY DEF Init, BatchInit, GlobInit, GlobInv
<1>2. Inv /\ [Next]_vars => Inv'
  <2>1. ASSUME job \in Batches, [Next]_vars PROVE job' \in Batches
    BY <2>1 DEF Next, BatchNext, ApplyEdit, EndEdits, ValidateGlobArg, vars
  <2> QED
    BY <2>1, GlobKeeps
<1>3. Inv => GlobVerdictExact
  <2>1. job \in Batches => IsBatch
    <3> SUFFICES ASSUME job \in Batches PROVE IsBatch
      OBVIOUS
    <3>1. job \in [file: Seq(Bytes),
                   edits: Seq([find: Seq(Bytes), replace: {Missing} \cup Seq(Bytes), all: BOOLEAN])]
      BY BatchesAssumption
    <3> QED
      BY <3>1 DEF IsBatch
  <2>2. GlobInv => GlobVerdictExact
    BY DEF GlobInv, Right, GlobVerdictExact
  <2> QED
    BY <2>1, <2>2 DEF GlobVerdictExact
<1> QED
  BY <1>1, <1>2, <1>3, PTL DEF Spec
-----------------------------------------------------------------------------
(* Every pattern has a syntax: cutting a text into groups *)

LEMMA CutAt ==
  ASSUME NEW text \in Patterns, NEW m \in 0..Len(text)
  PROVE  LET a == SubSeq(text, 1, m)  b == SubSeq(text, m + 1, Len(text)) IN
         /\ a \in Patterns /\ Len(a) = m /\ b \in Patterns /\ Len(b) = Len(text) - m
         /\ \A i \in 1..m : a[i] = text[i]
         /\ \A i \in 1..(Len(text) - m) : b[i] = text[m + i]
         /\ text = a \o b
<1> DEFINE n == Len(text)
           a == SubSeq(text, 1, m)
           b == SubSeq(text, m + 1, n)
<1>1. n \in Nat /\ m \in Nat /\ m <= n /\ m + 1 \in Int
  BY DEF Patterns
<1>2. /\ a \in Patterns /\ Len(a) = m /\ \A i \in 1..m : a[i] = text[i]
  <2>1. 1 \in Int /\ m \in Int /\ 1 >= 1 /\ m <= Len(text)
    BY <1>1
  <2>2. /\ a \in Patterns /\ Len(a) = IF 1 <= m THEN m - 1 + 1 ELSE 0
        /\ \A i \in 1..(m - 1 + 1) : a[i] = text[1 + i - 1]
    BY <2>1, SubSeqIs
  <2> HIDE DEF a
  <2>3. m - 1 + 1 = m /\ (1 <= m \/ m = 0) /\ \A i \in 1..m : 1 + i - 1 = i
    BY <1>1
  <2> QED
    BY <2>2, <2>3
<1>3. /\ b \in Patterns /\ Len(b) = n - m /\ \A i \in 1..(n - m) : b[i] = text[m + i]
  <2> DEFINE lo == m + 1
  <2>1. lo \in Int /\ n \in Int /\ lo >= 1 /\ n <= Len(text)
    BY <1>1
  <2>2. n - lo + 1 = n - m /\ (lo <= n \/ n - m = 0) /\ \A i \in 1..(n - m) : lo + i - 1 = m + i
    BY <1>1
  <2> HIDE DEF lo
  <2>3. /\ SubSeq(text, lo, n) \in Patterns
        /\ Len(SubSeq(text, lo, n)) = IF lo <= n THEN n - lo + 1 ELSE 0
        /\ \A i \in 1..(n - lo + 1) : SubSeq(text, lo, n)[i] = text[lo + i - 1]
    BY <2>1, SubSeqIs
  <2> QED
    BY <1>1, <2>2, <2>3 DEF lo
<1> HIDE DEF a, b, n
<1>4. /\ a \o b \in Patterns /\ Len(a \o b) = m + (n - m)
      /\ \A i \in 1..(m + (n - m)) : (a \o b)[i] = IF i <= m THEN a[i] ELSE b[i - m]
  <2>1. /\ a \o b \in Patterns /\ Len(a \o b) = Len(a) + Len(b)
        /\ \A i \in 1..(Len(a) + Len(b)) : (a \o b)[i] = IF i <= Len(a) THEN a[i] ELSE b[i - Len(a)]
    BY <1>2, <1>3, ConcatProperties DEF Patterns
  <2>2. Len(a) = m /\ Len(b) = n - m
    BY <1>2, <1>3
  <2> QED
    BY <2>1, <2>2
<1>5. m + (n - m) = n
  BY <1>1
<1>6. \A i \in 1..n : (a \o b)[i] = text[i]
  <2>1. ASSUME NEW i \in 1..n, i <= m PROVE (a \o b)[i] = text[i]
    <3>1. i \in 1..m
      BY <1>1, <2>1
    <3> QED
      BY <1>2, <1>4, <1>5, <2>1, <3>1
  <2>2. ASSUME NEW i \in 1..n, ~(i <= m) PROVE (a \o b)[i] = text[i]
    <3>1. i - m \in 1..(n - m) /\ m + (i - m) = i
      BY <1>1, <2>2
    <3> QED
      BY <1>3, <1>4, <1>5, <2>2, <3>1
  <2> QED
    BY <2>1, <2>2
<1>7. text = a \o b
  BY <1>4, <1>5, <1>6, SeqEqual DEF Patterns, n
<1> QED
  BY <1>2, <1>3, <1>7 DEF a, b, n

LEMMA LastCut ==
  ASSUME NEW text \in Patterns, Len(text) > 0
  PROVE  \E a \in Patterns, c \in Characters :
           text = a \o <<c>> /\ Len(a) = Len(text) - 1 /\ c = text[Len(text)]
<1> DEFINE n == Len(text)
           m == n - 1
           a == SubSeq(text, 1, m)
           b == SubSeq(text, m + 1, n)
<1>1. n \in Nat /\ m \in 0..n /\ n - m = 1 /\ m + 1 = n /\ n \in 1..n
  BY DEF Patterns
<1>2. text[n] \in Characters
  BY <1>1, ElementOfSeq DEF Patterns
<1> HIDE DEF m
<1>3. /\ a \in Patterns /\ Len(a) = m /\ b \in Patterns /\ Len(b) = n - m
      /\ \A i \in 1..(n - m) : b[i] = text[m + i]
      /\ text = a \o b
  BY <1>1, CutAt
<1> HIDE DEF a, b, n
<1>4. b = <<text[n]>>
  <2>1. <<text[n]>> \in Patterns /\ Len(<<text[n]>>) = 1 /\ <<text[n]>>[1] = text[n]
    BY <1>2, OneCharacter
  <2>2. b[1] = text[n] /\ Len(b) = 1
    BY <1>1, <1>3
  <2>3. \A i \in 1..1 : i = 1
    OBVIOUS
  <2> DEFINE d == <<text[n]>>
  <2> HIDE DEF d
  <2>4. d \in Patterns /\ Len(d) = 1 /\ d[1] = text[n]
    BY <2>1 DEF d
  <2>5. b = d
    BY <1>3, <2>2, <2>3, <2>4, SeqEqual DEF Patterns
  <2> QED
    BY <2>5 DEF d
<1> QED
  BY <1>1, <1>2, <1>3, <1>4 DEF n, m

LEMMA FirstCut ==
  ASSUME NEW text \in Patterns, Len(text) > 0
  PROVE  \E b \in Patterns, c \in Characters :
           text = <<c>> \o b /\ Len(b) = Len(text) - 1 /\ c = text[1]
<1> DEFINE n == Len(text)
           a == SubSeq(text, 1, 1)
           b == SubSeq(text, 1 + 1, n)
<1>1. n \in Nat /\ 1 \in 0..n /\ 1 \in 1..n
  BY DEF Patterns
<1>2. text[1] \in Characters
  BY <1>1, ElementOfSeq DEF Patterns
<1>3. /\ a \in Patterns /\ Len(a) = 1 /\ b \in Patterns /\ Len(b) = n - 1
      /\ \A i \in 1..1 : a[i] = text[i]
      /\ text = a \o b
  BY <1>1, CutAt
<1> HIDE DEF a, b
<1>4. a = <<text[1]>>
  <2> DEFINE d == <<text[1]>>
  <2>1. d \in Patterns /\ Len(d) = 1 /\ d[1] = text[1]
    BY <1>2, OneCharacter
  <2>2. \A i \in 1..1 : i = 1
    OBVIOUS
  <2> HIDE DEF d
  <2>3. a = d
    BY <1>3, <2>1, <2>2, SeqEqual DEF Patterns
  <2> QED
    BY <2>3 DEF d
<1> QED
  BY <1>2, <1>3, <1>4

\* A text that is open from its first character to its last is one group.
LEMMA OneGroup ==
  ASSUME NEW t \in Patterns, Len(t) >= 2, t[1] = Open,
         \A i \in 1..(Len(t) - 1) : Depth(t, 1, i) >= 1, Depth(t, 1, Len(t)) = 0
  PROVE  \E g : Level(g) /\ Len(g) = Len(t) - 2 /\ t = (<<Open>> \o g) \o <<Close>>
<1> DEFINE n == Len(t)
<1>1. n \in Nat /\ n >= 2
  BY DEF Patterns
<1>2. PICK a \in Patterns, c \in Characters : t = a \o <<c>> /\ Len(a) = n - 1 /\ c = t[n]
  <2>1. Len(t) > 0
    BY <1>1
  <2>2. \E a \in Patterns, c \in Characters : t = a \o <<c>> /\ Len(a) = Len(t) - 1 /\ c = t[Len(t)]
    BY <2>1, LastCut
  <2> QED
    BY <2>2
<1>3. \A i \in 0..(n - 1) : Depth(a, 1, i) = Depth(t, 1, i) /\ Depth(a, 1, i) \in Int
  <2>1. <<c>> \in Patterns
    BY OneCharacter
  <2> DEFINE d == <<c>>
  <2> HIDE DEF d
  <2> QED
    BY <1>2, <2>1, DepthOfConcat DEF d
<1>4. a[1] = Open
  <2> DEFINE d == <<c>>
  <2>1. d \in Patterns
    BY OneCharacter
  <2>2. t = a \o d /\ Len(a) = n - 1 /\ 1 <= n - 1
    BY <1>1, <1>2
  <2> HIDE DEF d, n
  <2>3. \A i \in 1..(Len(a) + Len(d)) : (a \o d)[i] = IF i <= Len(a) THEN a[i] ELSE d[i - Len(a)]
    BY <2>1, ConcatProperties DEF Patterns
  <2>4. Len(d) \in Nat /\ 1 \in 1..(Len(a) + Len(d)) /\ 1 <= Len(a)
    BY <1>1, <2>1, <2>2, LenProperties DEF Patterns
  <2> QED
    BY <2>2, <2>3, <2>4
<1>5. c = Close
  <2>1. n - 1 \in Int /\ 1 \in Int /\ 1 <= (n - 1) + 1 /\ (n - 1) + 1 = n
    BY <1>1
  <2> DEFINE m == n - 1
  <2> HIDE DEF m
  <2>2. m \in Int /\ 1 <= m + 1 /\ m + 1 = n
    BY <2>1 DEF m
  <2>3. Depth(t, 1, m) \in Int /\ Depth(t, 1, m + 1) = Depth(t, 1, m) + Turn(t[m + 1])
    BY <2>1, <2>2, DepthStep
  <2>4. Depth(t, 1, m) >= 1
    <3>1. m \in 1..(n - 1)
      BY <1>1 DEF m
    <3> QED
      BY <3>1
  <2> QED
    BY <1>2, <2>2, <2>3, <2>4 DEF Turn
<1> HIDE DEF n
<1>6. PICK g \in Patterns, o \in Characters : a = <<o>> \o g /\ Len(g) = (n - 1) - 1 /\ o = a[1]
  <2>1. Len(a) > 0 /\ Len(a) = n - 1
    BY <1>1, <1>2
  <2> QED
    BY <2>1, FirstCut
<1>7. o = Open /\ Len(g) \in Nat /\ Len(g) = n - 2
  BY <1>1, <1>4, <1>6
<1>8. \A i \in 0..Len(g) : Depth(a, 1, 1 + i) = 1 + Depth(g, 1, i) /\ Depth(g, 1, i) \in Int
  <2> DEFINE d == <<o>>
  <2>1. d \in Patterns /\ Len(d) = 1 /\ Depth(d, 1, 1) = 1
    BY <1>7, OneCharacter, Distinct DEF Turn
  <2>2. a = d \o g
    BY <1>6
  <2> HIDE DEF d
  <2>3. /\ \A i \in 0..Len(g) : Depth(d \o g, 1, Len(d) + i) = Depth(d, 1, Len(d)) + Depth(g, 1, i)
        /\ \A i \in 0..Len(g) : Depth(g, 1, i) \in Int
    BY <2>1, DepthOfConcat
  <2> QED
    BY <2>1, <2>2, <2>3
<1>9. \A i \in 0..Len(g) : Depth(g, 1, i) >= 0
  <2>1. ASSUME NEW i \in 0..Len(g) PROVE Depth(g, 1, i) >= 0
    <3>1. 1 + i \in 1..(n - 1) /\ 1 + i \in 0..(n - 1)
      BY <1>1, <1>7
    <3>2. Depth(t, 1, 1 + i) >= 1
      BY <3>1 DEF n
    <3> QED
      BY <1>3, <1>8, <3>1, <3>2
  <2> QED
    BY <2>1
<1>10. Depth(g, 1, Len(g)) = 0
  <2>1. Depth(t, 1, n) = 0 /\ Depth(t, 1, n) = Depth(a, 1, n - 1) - 1
    <3> DEFINE d == <<c>>
    <3>1. d \in Patterns /\ Len(d) = 1 /\ Depth(d, 1, 1) = -1 /\ t = a \o d
      BY <1>2, <1>5, OneCharacter, Distinct DEF Turn
    <3> HIDE DEF d
    <3>2. \A i \in 0..Len(d) : Depth(a \o d, 1, Len(a) + i) = Depth(a, 1, Len(a)) + Depth(d, 1, i)
      BY <3>1, DepthOfConcat
    <3>3. 1 \in 0..Len(d) /\ Len(a) + 1 = n /\ Len(a) = n - 1
      BY <1>1, <1>2, <3>1
    <3>4. Depth(t, 1, n) = Depth(a, 1, n - 1) + -1
      BY <3>1, <3>2, <3>3
    <3>5. n - 1 \in 0..(n - 1)
      BY <1>1
    <3> QED
      BY <1>3, <3>4, <3>5 DEF n
  <2>2. Len(g) \in 0..Len(g) /\ 1 + Len(g) = n - 1 /\ n - 1 \in 0..(n - 1)
    BY <1>1, <1>7
  <2> DEFINE l == Len(g)
  <2>3. l \in 0..l /\ Depth(a, 1, 1 + l) = 1 + Depth(g, 1, l) /\ Depth(g, 1, l) \in Int
    BY <1>8, <2>2
  <2>4. 1 + l = n - 1 /\ Depth(a, 1, n - 1) - 1 = 0
    BY <2>1, <2>2
  <2> HIDE DEF l
  <2>5. Depth(a, 1, n - 1) = 1 + Depth(g, 1, l)
    BY <2>3, <2>4
  <2>6. Depth(g, 1, l) = 0
    BY <2>3, <2>4, <2>5
  <2> QED
    BY <2>6 DEF l
<1> QED
  BY <1>2, <1>5, <1>6, <1>7, <1>9, <1>10 DEF Level, n
-----------------------------------------------------------------------------

\* How the depth goes on in the second of two texts.
LEMMA DepthAfter ==
  ASSUME NEW a \in Patterns, NEW t \in Patterns, Depth(a, 1, Len(a)) = 0
  PROVE  \A i \in 0..Len(t) : Depth(a \o t, 1, Len(a) + i) = Depth(t, 1, i)
<1>1. \A i \in 0..Len(t) : /\ Depth(a \o t, 1, Len(a) + i) = Depth(a, 1, Len(a)) + Depth(t, 1, i)
                           /\ Depth(t, 1, i) \in Int
  BY DepthOfConcat
<1> QED
  BY <1>1

\* Without its last character a text is as deep as before.
LEMMA WithoutLast ==
  ASSUME NEW q, Level(q), NEW a \in Patterns, NEW c \in Characters, q = a \o <<c>>, c # Close,
         Len(a) = Len(q) - 1
  PROVE  Level(a) /\ c # Open
<1> DEFINE d == <<c>>
           n == Len(a)
<1>1. d \in Patterns /\ Len(d) = 1 /\ Depth(d, 1, 1) = Turn(c) /\ q = a \o d
  BY OneCharacter
<1> HIDE DEF d
<1>2. n \in Nat /\ Len(q) = n + 1
  BY LenProperties DEF Patterns, Level
<1>3. /\ \A i \in 0..n : Depth(q, 1, i) = Depth(a, 1, i) /\ Depth(a, 1, i) \in Int
      /\ Depth(q, 1, n + 1) = Depth(a, 1, n) + Turn(c)
  <2>1. 1 \in 0..Len(d)
    BY <1>1
  <2>2. /\ \A i \in 0..Len(a) : Depth(a \o d, 1, i) = Depth(a, 1, i)
        /\ \A i \in 0..Len(d) : Depth(a \o d, 1, Len(a) + i) = Depth(a, 1, Len(a)) + Depth(d, 1, i)
        /\ \A i \in 0..Len(a) : Depth(a, 1, i) \in Int
    BY <1>1, DepthOfConcat
  <2>3. Depth(a \o d, 1, Len(a) + 1) = Depth(a, 1, Len(a)) + Depth(d, 1, 1)
    BY <2>1, <2>2
  <2> QED
    BY <1>1, <2>2, <2>3
<1>4. /\ \A i \in 0..(n + 1) : Depth(q, 1, i) >= 0
      /\ Depth(q, 1, n + 1) = 0
  BY <1>2 DEF Level
<1> HIDE DEF n
<1>5. n \in 0..n /\ \A i \in 0..n : i \in 0..(n + 1)
  BY <1>2
<1>6. \A i \in 0..n : Depth(a, 1, i) >= 0
  BY <1>3, <1>4, <1>5
<1>7. Depth(a, 1, n) \in Int /\ Depth(a, 1, n) >= 0 /\ Depth(a, 1, n) + Turn(c) = 0
  BY <1>3, <1>4, <1>5, <1>6
<1>8. c # Open /\ Turn(c) = 0
  <2>1. c = Open => Turn(c) = 1
    BY DEF Turn
  <2>2. c # Open => Turn(c) = 0
    BY DEF Turn
  <2> QED
    BY <1>7, <2>1, <2>2
<1>9. Depth(a, 1, n) = 0
  BY <1>7, <1>8
<1> QED
  BY <1>6, <1>8, <1>9 DEF Level, n

\* A level text ends with a character, or with a group.
EndsWith(q, a, e) == q = a \o e /\ Level(a) /\ Len(a) < Len(q)
AGroup(e, g) == e = (<<Open>> \o g) \o <<Close>> /\ Level(g)

LEMMA LevelEnds ==
  ASSUME NEW q, Level(q), q # <<>>
  PROVE  \E a : \/ \E c \in Characters \ {Open, Close} : EndsWith(q, a, <<c>>)
                \/ \E e, g : EndsWith(q, a, e) /\ AGroup(e, g) /\ Len(g) <= Len(q) - 2
<1> DEFINE n == Len(q)
<1>1. q \in Patterns /\ n \in Nat /\ n > 0 /\ Depth(q, 1, n) = 0
      /\ \A i \in 0..n : Depth(q, 1, i) >= 0 /\ Depth(q, 1, i) \in Int
  <2>1. q \in Seq(Characters) /\ n \in Nat
    BY LenProperties DEF Level, Patterns
  <2>2. n # 0
    BY <2>1, EmptySeq
  <2>3. \A i \in 0..n : Depth(q, 1, i) \in Int
    <3>1. \A i \in 0..n : i \in Int /\ 1 \in Int /\ 1 <= i + 1
      BY <2>1
    <3> QED
      BY <3>1, DepthStep
  <2> QED
    BY <2>1, <2>2, <2>3 DEF Level, Patterns
<1>2. CASE q[n] # Close
  <2>1. PICK a \in Patterns, c \in Characters :
               q = a \o <<c>> /\ Len(a) = Len(q) - 1 /\ c = q[Len(q)]
    BY <1>1, LastCut
  <2>2. Level(a) /\ c # Open
    BY <1>2, <2>1, WithoutLast
  <2>3. Len(a) < Len(q)
    BY <1>1, <2>1
  <2>4. c \in Characters \ {Open, Close}
    BY <1>2, <2>1, <2>2
  <2>5. EndsWith(q, a, <<c>>)
    BY <2>1, <2>2, <2>3 DEF EndsWith
  <2> QED
    BY <2>4, <2>5
<1>3. CASE q[n] = Close
  <2> DEFINE T == {k \in 1..n : Depth(q, 1, n - k) = 0}
  <2>1. n \in T
    <3>1. n \in 1..n /\ n - n = 0 /\ 0 < 1
      BY <1>1
    <3>2. Depth(q, 1, 0) = 0
      BY DepthEmpty
    <3> QED
      BY <3>1, <3>2
  <2>2. PICK k \in T : \A y \in T : k <= y
    <3>1. T \subseteq Nat /\ T # {}
      BY <1>1, <2>1
    <3> HIDE DEF T
    <3> QED
      BY <3>1, LeastNumber
  <2>3. k \in 1..n /\ Depth(q, 1, n - k) = 0 /\ \A y \in 1..n : y < k => Depth(q, 1, n - y) # 0
    <3>1. \A y \in 1..n : y \in T => ~(y < k)
      BY <1>1, <2>2
    <3> QED
      BY <2>2, <3>1
  <2> HIDE DEF T
  <2> DEFINE m == n - k
             a == SubSeq(q, 1, m)
             t == SubSeq(q, m + 1, n)
  <2>4. m \in 0..n /\ n - m = k /\ Depth(q, 1, m) = 0 /\ m < n /\ m \in Nat
    BY <1>1, <2>3
  <2> HIDE DEF m
  <2>5. /\ a \in Patterns /\ Len(a) = m /\ t \in Patterns /\ Len(t) = k
        /\ \A i \in 1..k : t[i] = q[m + i]
        /\ q = a \o t
    BY <1>1, <2>4, CutAt
  <2> HIDE DEF a, t
  <2>6. \A i \in 0..m : Depth(a, 1, i) = Depth(q, 1, i)
    BY <2>5, DepthOfConcat
  <2>7. Level(a)
    <3>1. m \in 0..m /\ \A i \in 0..m : i \in 0..n
      BY <1>1, <2>4
    <3> QED
      BY <1>1, <2>4, <2>5, <2>6, <3>1 DEF Level
  <2>8. \A i \in 0..k : Depth(q, 1, m + i) = Depth(t, 1, i)
    <3>1. Depth(a, 1, Len(a)) = 0
      BY <2>5, <2>7 DEF Level
    <3> QED
      BY <2>5, <3>1, DepthAfter
  <2>9. Depth(t, 1, k) = 0 /\ \A i \in 1..(k - 1) : Depth(t, 1, i) >= 1
    <3>1. k \in 0..k /\ m + k = n
      BY <1>1, <2>3, <2>4
    <3>2. ASSUME NEW i \in 1..(k - 1) PROVE Depth(t, 1, i) >= 1
      <4>1. i \in 0..k /\ m + i \in 0..n /\ k - i \in 1..n /\ k - i < k /\ n - (k - i) = m + i
        BY <1>1, <2>3, <2>4
      <4>2. Depth(q, 1, m + i) # 0
        <5>1. Depth(q, 1, n - (k - i)) # 0
          BY <2>3, <4>1
        <5> QED
          BY <4>1, <5>1
      <4>3. Depth(q, 1, m + i) >= 0 /\ Depth(q, 1, m + i) \in Int
        BY <1>1, <4>1
      <4> QED
        BY <2>8, <4>1, <4>2, <4>3
    <3> QED
      BY <1>1, <2>8, <3>1, <3>2
  <2>10. t[k] = Close
    <3>1. k \in 1..k /\ m + k = n
      BY <1>1, <2>3, <2>4
    <3> QED
      BY <1>3, <2>5, <3>1
  <2>11. k >= 2
    <3>1. SUFFICES ASSUME k = 1 PROVE FALSE
      BY <1>1, <2>3
    <3>2. Depth(t, 1, 0) = 0 /\ Depth(t, 1, 0 + 1) = Depth(t, 1, 0) + Turn(t[0 + 1])
      BY DepthEmpty, DepthStep
    <3>3. Turn(Close) = -1
      BY Distinct DEF Turn
    <3> QED
      BY <2>9, <2>10, <3>1, <3>2, <3>3
  <2>12. t[1] = Open
    <3>1. Depth(t, 1, 0) = 0 /\ Depth(t, 1, 0 + 1) = Depth(t, 1, 0) + Turn(t[0 + 1])
      BY DepthEmpty, DepthStep
    <3>2. 1 \in 1..(k - 1)
      BY <1>1, <2>3, <2>11
    <3>3. Depth(t, 1, 1) >= 1
      BY <2>9, <3>2
    <3> QED
      BY <3>1, <3>3 DEF Turn
  <2>13. PICK g : Level(g) /\ Len(g) = Len(t) - 2 /\ t = (<<Open>> \o g) \o <<Close>>
    BY <2>5, <2>9, <2>11, <2>12, OneGroup
  <2>14. Len(g) <= Len(q) - 2 /\ Len(a) < Len(q)
    BY <1>1, <2>3, <2>4, <2>5, <2>13
  <2>15. EndsWith(q, a, t) /\ AGroup(t, g)
    BY <2>5, <2>7, <2>13, <2>14 DEF EndsWith, AGroup
  <2> QED
    BY <2>14, <2>15
<1> QED
  BY <1>2, <1>3

\* The first brace of a text that has an end begins a group.
LEMMA GroupStarts ==
  ASSUME NEW text \in Patterns, Len(text) > 0, text[1] = Open, Closing(text) # 0
  PROVE  \E g, e, r : /\ AGroup(e, g) /\ r \in Patterns /\ text = e \o r
                      /\ Len(g) <= Len(text) - 2 /\ Len(r) < Len(text)
<1> DEFINE n == Len(text)
<1>1. n \in Nat /\ n > 0 /\ 1 \in 1..n
  BY LenProperties DEF Patterns
<1>2. MatchingBrace(text, 1) # 0
  <2>1. \A i \in 1..n : i < 1 => text[i] # Open
    BY <1>1
  <2>2. Opening(text) = 1
    BY <1>1, <2>1, OpeningIs
  <2> QED
    BY <2>2 DEF Closing
<1> DEFINE T == {i \in 1..n : Depth(text, 1, i) = 0}
<1>3. T # {}
  BY <1>1, <1>2, MatchingBraceIs
<1>4. PICK k \in T : \A y \in T : k <= y
  <2>1. T \subseteq Nat
    BY <1>1
  <2> HIDE DEF T
  <2> QED
    BY <1>3, <2>1, LeastNumber
<1>5. k \in 1..n /\ Depth(text, 1, k) = 0 /\ \A y \in 1..n : y < k => Depth(text, 1, y) # 0
  <2>1. \A y \in 1..n : y \in T => ~(y < k)
    BY <1>1, <1>4
  <2> QED
    BY <1>4, <2>1
<1> HIDE DEF T
<1>6. \A i \in Nat : /\ Depth(text, 1, i) \in Int
                     /\ Depth(text, 1, i + 1) = Depth(text, 1, i) + Turn(text[i + 1])
  <2>1. \A i \in Nat : i \in Int /\ 1 \in Int /\ 1 <= i + 1
    OBVIOUS
  <2> QED
    BY <2>1, DepthStep
<1>7. \A i \in Nat : i + 1 < k => Depth(text, 1, i + 1) >= 1
  <2> DEFINE U == {i \in Nat : i + 1 < k => Depth(text, 1, i + 1) >= 1}
  <2>1. Depth(text, 1, 0 + 1) = 1
    <3>1. Depth(text, 1, 0) = 0 /\ Turn(Open) = 1
      BY DepthEmpty DEF Turn
    <3>2. Depth(text, 1, 0 + 1) = Depth(text, 1, 0) + Turn(text[0 + 1])
      BY <1>6
    <3> QED
      BY <3>1, <3>2
  <2>2. 0 \in U
    BY <2>1
  <2>3. ASSUME NEW i \in Nat, i \in U PROVE i + 1 \in U
    <3> SUFFICES ASSUME (i + 1) + 1 < k PROVE Depth(text, 1, (i + 1) + 1) >= 1
      OBVIOUS
    <3>1. /\ i + 1 \in Nat /\ i + 1 < k /\ (i + 1) + 1 \in 1..n
      BY <1>1, <1>5
    <3>2. Depth(text, 1, i + 1) >= 1 /\ Depth(text, 1, (i + 1) + 1) # 0
      BY <1>5, <2>3, <3>1
    <3> DEFINE j == i + 1
    <3> HIDE DEF j
    <3>3. Depth(text, 1, j) \in Int /\ Depth(text, 1, j + 1) = Depth(text, 1, j) + Turn(text[j + 1])
      BY <1>6, <3>1 DEF j
    <3>4. Turn(text[j + 1]) \in {-1, 0, 1}
      BY DEF Turn
    <3>5. Depth(text, 1, j) >= 1 /\ Depth(text, 1, j + 1) # 0
      BY <3>2 DEF j
    <3>6. Depth(text, 1, j + 1) >= 1
      BY <3>3, <3>4, <3>5
    <3> QED
      BY <3>6 DEF j
  <2> HIDE DEF U
  <2>4. Nat \subseteq U
    BY <2>2, <2>3, Induction
  <2> QED
    BY <2>4 DEF U
<1> DEFINE t == SubSeq(text, 1, k)
           r == SubSeq(text, k + 1, n)
<1>8. /\ t \in Patterns /\ Len(t) = k /\ r \in Patterns /\ Len(r) = n - k
      /\ \A i \in 1..k : t[i] = text[i]
      /\ text = t \o r
  <2>1. k \in 0..n
    BY <1>5
  <2> QED
    BY <2>1, CutAt
<1> HIDE DEF t, r
<1>9. \A i \in 0..k : Depth(t, 1, i) = Depth(text, 1, i)
  BY <1>8, DepthOfConcat
<1>10. t[1] = Open /\ Depth(t, 1, k) = 0 /\ k \in Nat
  <2>1. 1 \in 1..k /\ k \in 0..k /\ k \in Nat
    BY <1>5
  <2> QED
    BY <1>5, <1>8, <1>9, <2>1
<1>11. \A i \in 1..(k - 1) : Depth(t, 1, i) >= 1
  <2>1. ASSUME NEW i \in 1..(k - 1) PROVE Depth(t, 1, i) >= 1
    <3>1. i - 1 \in Nat /\ (i - 1) + 1 = i /\ i < k /\ i \in 0..k
      BY <1>5
    <3>2. Depth(text, 1, (i - 1) + 1) >= 1
      BY <1>7, <3>1
    <3> QED
      BY <1>9, <3>1, <3>2
  <2> QED
    BY <2>1
<1>12. k >= 2
  <2>1. SUFFICES ASSUME k = 1 PROVE FALSE
    BY <1>5
  <2>2. Depth(t, 1, 0) = 0 /\ Depth(t, 1, 0 + 1) = Depth(t, 1, 0) + Turn(t[0 + 1])
    BY DepthEmpty, DepthStep
  <2>3. Turn(Open) = 1
    BY DEF Turn
  <2> QED
    BY <1>10, <2>1, <2>2, <2>3
<1>13. PICK g : Level(g) /\ Len(g) = Len(t) - 2 /\ t = (<<Open>> \o g) \o <<Close>>
  BY <1>8, <1>10, <1>11, <1>12, OneGroup
<1>14. AGroup(t, g) /\ Len(g) <= Len(text) - 2 /\ Len(r) < Len(text)
  BY <1>1, <1>5, <1>8, <1>12, <1>13 DEF AGroup
<1> QED
  BY <1>8, <1>14
-----------------------------------------------------------------------------
(* Every pattern has a syntax: writing it down from the left *)

LEMMA TextAppend ==
  ASSUME NEW N, NEW nodes \in Seq(N), NEW written, \A y \in N : written[y] \in Patterns
  PROVE  /\ Text(<<>>, written) = <<>> /\ Text(nodes, written) \in Patterns
         /\ \A x \in N : Text(Append(nodes, x), written) = Text(nodes, written) \o written[x]
<1>1. Text(<<>>, written) = <<>>
  <2>1. \A list \in Seq(N) : \E f \in [1..(Len(list) + 1) -> Patterns] :
          TextFrom(f, list, written) /\ Text(list, written) = f[1]
    BY TextIs
  <2>2. \A list \in Seq(N) : \E f : Text(list, written) = f[1] /\ f[Len(list) + 1] = <<>>
    BY <2>1, Zenon DEF TextFrom
  <2>3. <<>> \in Seq(N) /\ Len(<<>>) + 1 = 1
    BY EmptySeq
  <2> DEFINE none == <<>>
  <2> HIDE DEF none
  <2>4. none \in Seq(N) /\ Len(none) + 1 = 1
    BY <2>3 DEF none
  <2>5. PICK f : Text(none, written) = f[1] /\ f[Len(none) + 1] = <<>>
    BY <2>2, <2>4, Zenon
  <2>6. Text(none, written) = <<>>
    BY <2>4, <2>5, Zenon
  <2> QED
    BY <2>6 DEF none
<1> DEFINE m == Len(nodes)
<1>2. m \in Nat /\ \A i \in 1..m : nodes[i] \in N
  BY LenProperties, ElementOfSeq
<1>3. PICK f \in [1..(m + 1) -> Patterns] :
             TextFrom(f, nodes, written) /\ Text(nodes, written) = f[1]
  BY TextIs
<1>4. /\ \A i \in 1..(m + 1) : f[i] \in Patterns
      /\ 1 \in 1..(m + 1) /\ f[m + 1] = <<>>
      /\ \A i \in 1..m : f[i] = written[nodes[i]] \o f[i + 1]
  <2>1. f[m + 1] = <<>> /\ \A i \in 1..m : f[i] = written[nodes[i]] \o f[i + 1]
    BY <1>3, Zenon DEF TextFrom
  <2>2. 1 \in 1..(m + 1)
    BY <1>2
  <2>3. \A i \in 1..(m + 1) : f[i] \in Patterns
    BY <1>3, Zenon
  <2> QED
    BY <2>1, <2>2, <2>3
<1>5. ASSUME NEW x \in N
      PROVE  Text(Append(nodes, x), written) = Text(nodes, written) \o written[x]
  <2> DEFINE w == written[x]
             more == Append(nodes, x)
  <2>1. /\ more \in Seq(N) /\ Len(more) = m + 1 /\ more[m + 1] = x
        /\ \A i \in 1..m : more[i] = nodes[i]
        /\ w \in Patterns
    BY AppendProperties
  <2> HIDE DEF m, more, w
  <2>2. PICK h \in [1..(Len(more) + 1) -> Patterns] :
               TextFrom(h, more, written) /\ Text(more, written) = h[1]
    BY <2>1, TextIs
  <2>3. h[(m + 1) + 1] = <<>> /\ \A i \in 1..(m + 1) : h[i] = written[more[i]] \o h[i + 1]
    BY <2>1, <2>2 DEF TextFrom
  <2>4. <<>> \o w = w /\ w \o <<>> = w
    BY <2>1, ConcatEmptySeq DEF Patterns
  <2> DEFINE Eq(j) == h[j] = f[j] \o w
             T == {i \in Nat : i <= m => Eq((m + 1) - i)}
  <2>5. Eq(m + 1)
    <3>1. m + 1 \in 1..(m + 1)
      BY <1>2
    <3>2. h[m + 1] = w \o <<>>
      BY <2>1, <2>3, <3>1 DEF w
    <3> QED
      BY <1>4, <2>4, <3>2
  <2>6. ASSUME NEW j \in 1..m, Eq(j + 1) PROVE Eq(j)
    <3> DEFINE u == written[nodes[j]]
               v == f[j + 1]
    <3>1. j \in 1..(m + 1) /\ j + 1 \in 1..(m + 1)
      BY <1>2
    <3>2. u \in Patterns /\ v \in Patterns
      BY <1>2, <1>4, <3>1
    <3>3. h[j] = u \o h[j + 1] /\ h[j + 1] = v \o w /\ f[j] = u \o v
      BY <1>4, <2>1, <2>3, <2>6, <3>1
    <3> HIDE DEF u, v
    <3>4. (u \o v) \o w = u \o (v \o w)
      BY <2>1, <3>2, Associative
    <3> QED
      BY <3>3, <3>4
  <2> HIDE DEF Eq
  <2>7. 0 \in T
    <3>1. (m + 1) - 0 = m + 1
      BY <1>2
    <3> QED
      BY <2>5, <3>1
  <2>8. ASSUME NEW i \in Nat, i \in T PROVE i + 1 \in T
    <3>1. SUFFICES ASSUME i + 1 <= m PROVE Eq((m + 1) - (i + 1))
      OBVIOUS
    <3> DEFINE j == (m + 1) - (i + 1)
    <3>2. j \in 1..m /\ j + 1 = (m + 1) - i /\ i <= m
      BY <1>2, <3>1
    <3>3. Eq((m + 1) - i)
      BY <2>8, <3>2
    <3> HIDE DEF j
    <3>4. Eq(j)
      BY <2>6, <3>2, <3>3
    <3> QED
      BY <3>4 DEF j
  <2> HIDE DEF T
  <2>9. m \in T
    BY <1>2, <2>7, <2>8, Induction
  <2>10. Eq(1)
    <3>1. (m + 1) - m = 1 /\ m <= m
      BY <1>2
    <3> QED
      BY <2>9, <3>1 DEF T
  <2> QED
    BY <1>3, <2>2, <2>10 DEF Eq, more, w
<1> QED
  BY <1>1, <1>3, <1>4, <1>5

LEMMA FlattenAppend ==
  ASSUME NEW E, NEW pieces \in Seq(Seq(E)), NEW p \in Seq(E)
  PROVE  /\ FlattenSeq(pieces) \in Seq(E)
         /\ FlattenSeq(Append(pieces, p)) = FlattenSeq(pieces) \o p
<1> DEFINE m == Len(pieces)
           more == Append(pieces, p)
<1>1. m \in Nat /\ pieces \in [1..m -> Seq(E)]
  BY LenProperties
<1>2. /\ more \in Seq(Seq(E)) /\ Len(more) = m + 1 /\ more[m + 1] = p
      /\ \A i \in 1..m : more[i] = pieces[i]
  BY AppendProperties
<1>3. more \in [1..(m + 1) -> Seq(E)]
  <2> HIDE DEF more
  <2> QED
    BY <1>2, LenProperties
<1> HIDE DEF m, more
<1>4. PICK f \in [0..m -> Seq(E)] :
             /\ f[0] = <<>> /\ \A n \in 1..m : f[n] = f[n - 1] \o pieces[n]
             /\ FlattenSeq(pieces) = f[m]
  BY <1>1, Flattened
<1> DEFINE M == m + 1
<1>5. M \in Nat /\ more \in [1..M -> Seq(E)] /\ M \in 1..M /\ M - 1 = m /\ more[M] = p
      /\ \A n \in 1..m : n \in 1..M
  BY <1>1, <1>2, <1>3
<1> HIDE DEF M
<1>6. PICK h \in [0..M -> Seq(E)] :
             /\ h[0] = <<>> /\ \A n \in 1..M : h[n] = h[n - 1] \o more[n]
             /\ FlattenSeq(more) = h[M]
  BY <1>5, Flattened
<1> DEFINE T == {n \in Nat : n <= m => h[n] = f[n]}
<1>7. 0 \in T
  BY <1>4, <1>6
<1>8. ASSUME NEW n \in Nat, n \in T PROVE n + 1 \in T
  <2>1. SUFFICES ASSUME n + 1 <= m PROVE h[n + 1] = f[n + 1]
    OBVIOUS
  <2>2. n + 1 \in 1..m /\ n + 1 \in 1..M /\ (n + 1) - 1 = n /\ h[n] = f[n]
    BY <1>1, <1>5, <1>8, <2>1
  <2>3. h[n + 1] = h[n] \o more[n + 1] /\ f[n + 1] = f[n] \o pieces[n + 1]
    BY <1>4, <1>6, <2>2
  <2> QED
    BY <1>2, <2>2, <2>3
<1> HIDE DEF T
<1>9. m \in T
  BY <1>1, <1>7, <1>8, Induction
<1>10. h[m] = f[m] /\ f[m] \in Seq(E)
  <2>1. m <= m /\ m \in 0..m
    BY <1>1
  <2> QED
    BY <1>4, <1>9, <2>1 DEF T
<1>11. h[M] = h[m] \o p
  BY <1>5, <1>6
<1> QED
  BY <1>4, <1>6, <1>10, <1>11 DEF more

\* What is written for the alternatives of a group, but for the brace that ends it.
Separator(k) == IF k = 1 THEN <<Open>> ELSE <<Comma>>
Pieces(alts, written) == [k \in 1..Len(alts) |-> Separator(k) \o Text(alts[k], written)]
Spoken(alts, written) == FlattenSeq(Pieces(alts, written))

LEMMA SeparatorIs == \A k : Separator(k) \in Patterns
<1>1. Open \in Characters /\ Comma \in Characters
  BY ArgumentsAssumption
<1>2. <<Open>> \in Patterns /\ <<Comma>> \in Patterns
  BY <1>1, OneCharacter
<1> QED
  BY <1>2 DEF Separator

LEMMA SpokenAppend ==
  ASSUME NEW N, NEW alts \in Seq(Seq(N)), NEW nodes \in Seq(N), NEW written,
         \A y \in N : written[y] \in Patterns
  PROVE  /\ Spoken(alts, written) \in Patterns
         /\ Spoken(Append(alts, nodes), written) =
              Spoken(alts, written) \o (Separator(Len(alts) + 1) \o Text(nodes, written))
<1> DEFINE m == Len(alts)
           more == Append(alts, nodes)
           ps == Pieces(alts, written)
           qs == Pieces(more, written)
           p == Separator(m + 1) \o Text(nodes, written)
<1>1. m \in Nat /\ \A i \in 1..m : alts[i] \in Seq(N)
  BY LenProperties, ElementOfSeq
<1>2. /\ Len(more) = m + 1 /\ more[m + 1] = nodes
      /\ \A i \in 1..m : more[i] = alts[i]
  BY AppendProperties
<1>3. \A k, a : a \in Seq(N) => Separator(k) \o Text(a, written) \in Patterns
  <2>1. \A a \in Seq(N) : Text(a, written) \in Patterns
    BY TextAppend
  <2> QED
    BY <2>1, SeparatorIs, ConcatProperties DEF Patterns
<1>4. p \in Seq(Characters)
  BY <1>3 DEF Patterns
<1> HIDE DEF m, more
<1>5. ps = [k \in 1..m |-> Separator(k) \o Text(alts[k], written)]
  BY DEF Pieces, m
<1>6. qs = [k \in 1..(m + 1) |-> Separator(k) \o Text(more[k], written)]
  BY <1>2 DEF Pieces
<1>7. ps \in [1..m -> Seq(Characters)]
  <2>1. \A k \in 1..m : Separator(k) \o Text(alts[k], written) \in Seq(Characters)
    BY <1>1, <1>3 DEF Patterns
  <2> HIDE DEF ps
  <2> QED
    BY <1>5, <2>1
<1>8. ps \in Seq(Seq(Characters)) /\ Len(ps) = m
  <2> HIDE DEF ps
  <2> QED
    BY <1>1, <1>7, FunctionIsSeq
<1>9. qs = Append(ps, p)
  <2>1. /\ Append(ps, p) \in Seq(Seq(Characters)) /\ Len(Append(ps, p)) = m + 1
        /\ \A i \in 1..m : Append(ps, p)[i] = ps[i]
        /\ Append(ps, p)[m + 1] = p
    <3> HIDE DEF ps, p
    <3>1. /\ Append(ps, p) \in Seq(Seq(Characters)) /\ Len(Append(ps, p)) = Len(ps) + 1
          /\ \A i \in 1..Len(ps) : Append(ps, p)[i] = ps[i]
          /\ Append(ps, p)[Len(ps) + 1] = p
      BY <1>4, <1>8, AppendProperties
    <3> QED
      BY <1>8, <3>1
  <2> DEFINE as == Append(ps, p)
  <2>2. as = [i \in 1..(m + 1) |-> as[i]]
    <3> HIDE DEF as
    <3>1. as \in Seq(Seq(Characters)) /\ Len(as) = m + 1
      BY <2>1 DEF as
    <3>2. as \in [1..(m + 1) -> Seq(Characters)]
      BY <3>1, LenProperties
    <3> QED
      BY <3>2
  <2>3. \A i \in 1..(m + 1) : as[i] = Separator(i) \o Text(more[i], written)
    <3>1. \A i \in 1..(m + 1) : i \in 1..m \/ i = m + 1
      BY <1>1
    <3>2. \A i \in 1..m : ps[i] = Separator(i) \o Text(more[i], written)
      <4> HIDE DEF ps
      <4> QED
        BY <1>2, <1>5
    <3>3. p = Separator(m + 1) \o Text(more[m + 1], written)
      BY <1>2
    <3> HIDE DEF as, ps, p
    <3>4. (\A i \in 1..m : as[i] = ps[i]) /\ as[m + 1] = p
      BY <2>1 DEF as
    <3> QED
      BY <3>1, <3>2, <3>3, <3>4
  <2> HIDE DEF as
  <2>4. as = qs
    <3> HIDE DEF qs
    <3> QED
      BY <1>6, <2>2, <2>3
  <2> QED
    BY <2>4 DEF as
<1>10. FlattenSeq(ps) \in Seq(Characters) /\ FlattenSeq(Append(ps, p)) = FlattenSeq(ps) \o p
  <2> HIDE DEF ps, p
  <2> QED
    BY <1>4, <1>8, FlattenAppend
<1> QED
  BY <1>9, <1>10 DEF Spoken, more, m, Patterns
-----------------------------------------------------------------------------

Alternatives(k) == Seq(Seq(Inner[k])) \ {<<>>}

\* The level text q is what some alternatives say, nested fewer than k deep.
Told(q, k) == \E alts \in Alternatives(k) : Spoken(alts, Written[k]) = <<Open>> \o q

LEMMA InnerIsWritten ==
  ASSUME NEW k \in 0..MaxNesting
  PROVE  /\ \A y \in Outer(k) : Written[k][y] \in Patterns
         /\ \A y \in Inner[k] : y \in Outer(k) /\ Written[k][y] \in Patterns
<1>1. \A y \in Outer(k) : Written[k][y] \in Patterns
  BY WrittenIsWell DEF WrittenWell
<1>2. \A y \in Inner[k] : y \in Outer(k)
  BY DEF Outer
<1> QED
  BY <1>1, <1>2

LEMMA PlainNode ==
  ASSUME NEW k \in 0..MaxNesting, NEW c \in Characters \ {Open}
  PROVE  LET x == [char |-> c, alts |-> <<>>] IN
         /\ x \in Outer(k) /\ Written[k][x] = <<c>>
         /\ c \notin {Close, Comma} => x \in Inner[k]
<1> DEFINE x == [char |-> c, alts |-> <<>>]
<1>1. x \in Char(Characters \ {Open}) /\ x.alts = <<>> /\ x.char = c
  BY DEF Char
<1>2. c \notin {Close, Comma} => x \in Char(Characters \ {Open, Close, Comma})
  BY DEF Char
<1> HIDE DEF x
<1>3. x \in Outer(k)
  BY <1>1 DEF Outer
<1>4. c \notin {Close, Comma} => x \in Inner[k]
  <2>1. Inner[k] = InnerAt(k, Inner[k - 1])
    BY InnerIs
  <2> QED
    BY <1>2, <2>1 DEF InnerAt
<1>5. Written[k][x] = <<c>>
  <2>1. WrittenWell(k, x)
    BY <1>3, WrittenIsWell
  <2> QED
    BY <1>1, <2>1 DEF WrittenWell
<1> QED
  BY <1>3, <1>4, <1>5 DEF x

LEMMA GroupNode ==
  ASSUME NEW k \in 0..MaxNesting, k # 0, NEW alts \in Alternatives(k - 1)
  PROVE  LET x == [char |-> Open, alts |-> alts] IN
         x \in Inner[k] /\ Written[k][x] = Spoken(alts, Written[k - 1]) \o <<Close>>
<1> DEFINE x == [char |-> Open, alts |-> alts]
<1>1. x \in [char: {Open}, alts: Seq(Seq(Inner[k - 1])) \ {<<>>}] /\ x.alts = alts /\ alts # <<>>
  BY DEF Alternatives
<1> HIDE DEF x
<1>2. x \in Inner[k]
  <2>1. Inner[k] = InnerAt(k, Inner[k - 1])
    BY InnerIs
  <2> QED
    BY <1>1, <2>1 DEF InnerAt
<1>3. x \in Outer(k)
  BY <1>2 DEF Outer
<1>4. Written[k] = WrittenAt(k, Written[k - 1])
  BY WrittenIs
<1>5. Written[k][x] =
        IF x.alts = <<>> THEN <<x.char>>
        ELSE FlattenSeq([i \in 1..Len(x.alts) |->
               (IF i = 1 THEN <<Open>> ELSE <<Comma>>) \o Text(x.alts[i], Written[k - 1])])
             \o <<Close>>
  BY <1>3, <1>4, Zenon DEF WrittenAt
<1>6. Written[k][x] = Spoken(alts, Written[k - 1]) \o <<Close>>
  BY <1>1, <1>5 DEF Spoken, Pieces, Separator
<1> QED
  BY <1>2, <1>6 DEF x

\* A group goes on with a node, or with the next alternative.
LEMMA SpokenOn ==
  ASSUME NEW k \in 0..MaxNesting, NEW alts \in Alternatives(k)
  PROVE  /\ Spoken(alts, Written[k]) \in Patterns
         /\ \A x \in Inner[k] : \E more \in Alternatives(k) :
              Spoken(more, Written[k]) = Spoken(alts, Written[k]) \o Written[k][x]
         /\ \E more \in Alternatives(k) :
              Spoken(more, Written[k]) = Spoken(alts, Written[k]) \o <<Comma>>
<1> DEFINE N == Inner[k]
           w == Written[k]
<1>1. \A y \in N : w[y] \in Patterns
  BY InnerIsWritten
<1>2. alts \in Seq(Seq(N)) /\ alts # <<>>
  BY DEF Alternatives
<1> HIDE DEF N, w
<1>3. PICK front \in Seq(Seq(N)), last \in Seq(N) : alts = Append(front, last)
  BY <1>2, SequenceEmptyOrAppend
<1>4. \A list \in Seq(Seq(N)), nodes \in Seq(N) :
        /\ Spoken(list, w) \in Patterns
        /\ Spoken(Append(list, nodes), w) =
             Spoken(list, w) \o (Separator(Len(list) + 1) \o Text(nodes, w))
  BY <1>1, SpokenAppend
<1>5. \A list \in Seq(Seq(N)), nodes \in Seq(N) :
        Append(list, nodes) \in Seq(Seq(N)) /\ Append(list, nodes) # <<>>
  <2> DEFINE L == Seq(N)
  <2> HIDE DEF L
  <2>1. ASSUME NEW list \in Seq(L), NEW nodes \in L
        PROVE  Append(list, nodes) \in Seq(L) /\ Append(list, nodes) # <<>>
    <3> DEFINE more == Append(list, nodes)
    <3>1. more \in Seq(L) /\ Len(more) = Len(list) + 1 /\ Len(list) \in Nat
      BY AppendProperties, LenProperties
    <3> HIDE DEF more
    <3>2. Len(more) # 0
      BY <3>1
    <3>3. more # <<>>
      BY <3>2, EmptySeq
    <3> QED
      BY <3>1, <3>3 DEF more
  <2> QED
    BY <2>1 DEF L
<1>6. Spoken(alts, w) \in Patterns
  BY <1>2, <1>3, <1>4
<1>7. \A x \in N : \E more \in Alternatives(k) : Spoken(more, w) = Spoken(alts, w) \o w[x]
  <2> TAKE x \in N
  <2> DEFINE longer == Append(last, x)
             more == Append(front, longer)
             s == Spoken(front, w)
             o == Separator(Len(front) + 1)
             t == Text(last, w)
             v == w[x]
  <2>1. longer \in Seq(N)
    BY AppendProperties
  <2>2. Text(longer, w) = t \o v /\ t \in Patterns
    BY <1>1, TextAppend
  <2>3. v \in Patterns /\ s \in Patterns /\ o \in Patterns
    BY <1>1, <1>4, SeparatorIs
  <2> HIDE DEF longer
  <2>4. Spoken(more, w) = s \o (o \o Text(longer, w)) /\ Spoken(alts, w) = s \o (o \o t)
    BY <1>3, <1>4, <2>1
  <2>5. more \in Alternatives(k)
    BY <1>5, <2>1 DEF Alternatives, N
  <2> HIDE DEF s, o, t, v, more
  <2>6. (s \o (o \o t)) \o v = s \o (o \o (t \o v))
    <3>1. o \o t \in Patterns
      BY <2>2, <2>3, ConcatProperties DEF Patterns
    <3>2. (s \o (o \o t)) \o v = s \o ((o \o t) \o v) /\ (o \o t) \o v = o \o (t \o v)
      BY <2>2, <2>3, <3>1, Associative
    <3> QED
      BY <3>2
  <2>7. Spoken(more, w) = Spoken(alts, w) \o v
    BY <2>2, <2>4, <2>6
  <2> QED
    BY <2>5, <2>7 DEF v
<1>8. \E more \in Alternatives(k) : Spoken(more, w) = Spoken(alts, w) \o <<Comma>>
  <2> DEFINE none == <<>>
             more == Append(alts, none)
             comma == <<Comma>>
  <2>1. none \in Seq(N) /\ Text(none, w) = <<>>
    BY <1>1, EmptySeq, TextAppend
  <2>2. Separator(Len(alts) + 1) = comma
    <3>1. Len(alts) \in Nat /\ Len(alts) # 0
      BY <1>2, EmptySeq, LenProperties
    <3> QED
      BY <3>1 DEF Separator
  <2>3. comma \o <<>> = comma
    <3>1. comma \in Seq(Characters)
      BY SeparatorIs, <2>2 DEF Patterns
    <3> HIDE DEF comma
    <3> QED
      BY <3>1, ConcatEmptySeq
  <2> HIDE DEF none, comma
  <2>4. Spoken(more, w) = Spoken(alts, w) \o (Separator(Len(alts) + 1) \o Text(none, w))
    BY <1>2, <1>4, <2>1
  <2>5. more \in Alternatives(k)
    BY <1>2, <1>5, <2>1 DEF Alternatives, N
  <2> HIDE DEF more
  <2>6. Spoken(more, w) = Spoken(alts, w) \o comma
    BY <2>1, <2>2, <2>3, <2>4
  <2> QED
    BY <2>5, <2>6 DEF comma
<1> QED
  BY <1>6, <1>7, <1>8 DEF N, w

LEMMA EmptyIsTold == \A k \in 0..MaxNesting : Told(<<>>, k)
<1> TAKE k \in 0..MaxNesting
<1> DEFINE N == Inner[k]
           w == Written[k]
           none == <<>>
           nothing == <<>>
           open == <<Open>>
           alts == Append(nothing, none)
<1>1. \A y \in N : w[y] \in Patterns
  BY InnerIsWritten
<1>2. none \in Seq(N) /\ Text(none, w) = <<>>
  <2> HIDE DEF N, w
  <2> QED
    BY <1>1, EmptySeq, TextAppend
<1>3. nothing \in Seq(Seq(N)) /\ Len(nothing) = 0
  BY EmptySeq
<1>4. Spoken(nothing, w) = <<>>
  <2> DEFINE m == 0
             ps == [i \in 1..m |-> Separator(i) \o Text(nothing[i], w)]
  <2>1. Pieces(nothing, w) = ps
    BY <1>3 DEF Pieces
  <2>2. ps \in [1..m -> Seq(Characters)] /\ m \in Nat /\ m = 0
    OBVIOUS
  <2> HIDE DEF ps, m
  <2>3. PICK f \in [0..m -> Seq(Characters)] :
               /\ f[0] = <<>> /\ \A n \in 1..m : f[n] = f[n - 1] \o ps[n]
               /\ FlattenSeq(ps) = f[m]
    BY <2>2, Flattened
  <2> QED
    BY <2>1, <2>2, <2>3 DEF Spoken
<1> HIDE DEF N, w, none, nothing
<1>5. alts \in Seq(Seq(N)) /\ alts # <<>>
  BY <1>2, <1>3, AppendProperties
<1>6. Spoken(alts, w) = <<>> \o (open \o <<>>)
  <2>1. Spoken(alts, w) = Spoken(nothing, w) \o (Separator(Len(nothing) + 1) \o Text(none, w))
    BY <1>1, <1>2, <1>3, SpokenAppend
  <2>2. Separator(Len(nothing) + 1) = open
    BY <1>3 DEF Separator
  <2> QED
    BY <1>2, <1>4, <2>1, <2>2
<1>7. open \in Seq(Characters)
  BY ArgumentsAssumption
<1> HIDE DEF open, alts
<1>8. <<>> \o (open \o <<>>) = open \o <<>>
  BY <1>7, ConcatEmptySeq
<1>9. Spoken(alts, w) = open \o <<>>
  BY <1>6, <1>8
<1> QED
  BY <1>5, <1>9 DEF Told, Alternatives, N, w, open

LEMMA LevelIsTold ==
  \A q, k : Level(q) /\ k \in 0..MaxNesting /\ Len(q) <= k => Told(q, k)
<1> DEFINE T == {n \in Nat : \A q, k : Level(q) /\ k \in 0..MaxNesting /\ Len(q) <= k /\ Len(q) <= n
                                         => Told(q, k)}
<1>1. \A q : Level(q) => q \in Patterns /\ q \in Seq(Characters) /\ Len(q) \in Nat
  BY LenProperties DEF Level, Patterns
<1>2. \A k \in 0..MaxNesting : k \in Nat /\ (k # 0 => k - 1 \in 0..MaxNesting)
  BY ArgumentsAssumption
<1>3. 0 \in T
  <2>1. ASSUME NEW q, NEW k, Level(q), k \in 0..MaxNesting, Len(q) <= 0 PROVE Told(q, k)
    <3>1. Len(q) = 0 /\ q \in Seq(Characters)
      BY <1>1, <2>1
    <3>2. q = <<>>
      BY <3>1, EmptySeq
    <3> QED
      BY <2>1, <3>2, EmptyIsTold
  <2> QED
    BY <2>1
<1>4. ASSUME NEW n \in Nat, n \in T PROVE n + 1 \in T
  <2>1. ASSUME NEW q, NEW k, Level(q), k \in 0..MaxNesting, Len(q) <= k, Len(q) <= n + 1
        PROVE  Told(q, k)
    <3> DEFINE open == <<Open>>
    <3>1. open \in Patterns
      BY ArgumentsAssumption, OneCharacter
    <3> HIDE DEF open
    <3>2. CASE q = <<>>
      BY <2>1, <3>2, EmptyIsTold
    <3>3. ASSUME NEW a, NEW e, EndsWith(q, a, e)
          PROVE  \E alts \in Alternatives(k) : Spoken(alts, Written[k]) = open \o a
      <4>1. Level(a) /\ Len(a) < Len(q)
        BY <3>3 DEF EndsWith
      <4>2. Len(a) <= k /\ Len(a) <= n
        BY <1>1, <1>2, <2>1, <4>1
      <4>3. Told(a, k)
        BY <1>4, <2>1, <4>1, <4>2
      <4> QED
        BY <4>3 DEF Told, open
    <3>4. ASSUME NEW a, NEW e \in Patterns, EndsWith(q, a, e),
                 \/ \E x \in Inner[k] : Written[k][x] = e
                 \/ e = <<Comma>>
          PROVE  Told(q, k)
      <4>1. PICK alts \in Alternatives(k) : Spoken(alts, Written[k]) = open \o a
        BY <3>3, <3>4
      <4>2. \E more \in Alternatives(k) : Spoken(more, Written[k]) = (open \o a) \o e
        <5>1. /\ \A x \in Inner[k] : \E more \in Alternatives(k) :
                   Spoken(more, Written[k]) = Spoken(alts, Written[k]) \o Written[k][x]
              /\ \E more \in Alternatives(k) :
                   Spoken(more, Written[k]) = Spoken(alts, Written[k]) \o <<Comma>>
          BY <2>1, SpokenOn
        <5> QED
          BY <3>4, <4>1, <5>1, Zenon
      <4>3. a \in Patterns /\ q = a \o e
        BY <1>1, <3>4 DEF EndsWith
      <4>4. (open \o a) \o e = open \o q
        BY <3>1, <3>4, <4>3, Associative
      <4> QED
        BY <4>2, <4>4 DEF Told, open
    <3>5. ASSUME NEW a, NEW c \in Characters \ {Open, Close}, EndsWith(q, a, <<c>>)
          PROVE  Told(q, k)
      <4> DEFINE e == <<c>>
      <4>1. e \in Patterns
        BY OneCharacter
      <4>2. (\E x \in Inner[k] : Written[k][x] = e) \/ e = <<Comma>>
        <5>1. CASE c = Comma
          BY <5>1
        <5>2. CASE c # Comma
          <6> DEFINE x == [char |-> c, alts |-> <<>>]
          <6>1. c \in Characters \ {Open} /\ c \notin {Close, Comma}
            BY <5>2
          <6>2. x \in Inner[k] /\ Written[k][x] = e
            BY <2>1, <6>1, PlainNode
          <6> QED
            BY <6>2
        <5> QED
          BY <5>1, <5>2
      <4>3. EndsWith(q, a, e)
        BY <3>5
      <4> HIDE DEF e
      <4> QED
        BY <3>4, <4>1, <4>2, <4>3
    <3>6. ASSUME NEW a, NEW e, NEW g, EndsWith(q, a, e), AGroup(e, g), Len(g) <= Len(q) - 2
          PROVE  Told(q, k)
      <4>1. Level(g) /\ e = (open \o g) \o <<Close>>
        BY <3>6 DEF AGroup, open
      <4>2. k # 0 /\ k - 1 \in 0..MaxNesting /\ Len(g) <= k - 1 /\ Len(g) <= n
        BY <1>1, <1>2, <2>1, <3>6, <4>1
      <4>3. Told(g, k - 1)
        <5> DEFINE j == k - 1
        <5>1. j \in 0..MaxNesting /\ Len(g) <= j
          BY <4>2
        <5> HIDE DEF j
        <5>2. Told(g, j)
          BY <1>4, <4>1, <4>2, <5>1
        <5> QED
          BY <5>2 DEF j
      <4>4. PICK alts \in Alternatives(k - 1) : Spoken(alts, Written[k - 1]) = open \o g
        BY <4>3 DEF Told, open
      <4> DEFINE x == [char |-> Open, alts |-> alts]
      <4>5. x \in Inner[k] /\ Written[k][x] = Spoken(alts, Written[k - 1]) \o <<Close>>
        BY <2>1, <4>2, GroupNode
      <4> HIDE DEF x
      <4>6. Written[k][x] = e
        BY <4>1, <4>4, <4>5
      <4>7. e \in Patterns
        BY <2>1, <4>5, <4>6, InnerIsWritten
      <4> QED
        BY <3>4, <3>6, <4>5, <4>6, <4>7
    <3>7. CASE q # <<>>
      <4>1. PICK a : \/ \E c \in Characters \ {Open, Close} : EndsWith(q, a, <<c>>)
                     \/ \E e, g : EndsWith(q, a, e) /\ AGroup(e, g) /\ Len(g) <= Len(q) - 2
        BY <2>1, <3>7, LevelEnds
      <4> QED
        BY <3>5, <3>6, <4>1
    <3> QED
      BY <3>2, <3>7
  <2> QED
    BY <2>1
<1> HIDE DEF T
<1>5. Nat \subseteq T
  BY <1>3, <1>4, Induction
<1>6. ASSUME NEW q, NEW k, Level(q), k \in 0..MaxNesting, Len(q) <= k PROVE Told(q, k)
  <2>1. Len(q) \in Nat
    BY <1>1, <1>6
  <2> DEFINE n == Len(q)
  <2>2. n \in T /\ n <= n /\ Len(q) <= n
    BY <1>5, <2>1
  <2> HIDE DEF n
  <2> QED
    BY <1>6, <2>2 DEF T
<1> QED
  BY <1>6

\* The pattern is the text of a syntax, and of what follows it.
AsGlob(p) ==
  \E glob \in [syntax: Seq(Outer(MaxNesting)), tail: Patterns] :
    Closing(glob.tail) = 0 /\ p = Text(glob.syntax, Written[MaxNesting]) \o glob.tail

\* Every pattern can be written as the jobs of a search are, groups nested no deeper
\* than it is long: validateGlobArg is judged on all that a client can send.
THEOREM EveryPatternIsAGlob == \A p \in Patterns : Len(p) <= MaxNesting => AsGlob(p)
<1> DEFINE K == MaxNesting
           N == Outer(K)
           w == Written[K]
           T == {n \in Nat : \A nodes \in Seq(N), r \in Patterns :
                               Len(r) <= K /\ Len(r) <= n => AsGlob(Text(nodes, w) \o r)}
<1>1. K \in 0..MaxNesting /\ K \in Nat
  BY ArgumentsAssumption
<1>2. \A y \in N : w[y] \in Patterns
  BY <1>1, InnerIsWritten
<1>3. \A r \in Patterns : Len(r) \in Nat
  BY LenProperties DEF Patterns
<1>4. ASSUME NEW nodes \in Seq(N), NEW r \in Patterns, Closing(r) = 0
      PROVE  AsGlob(Text(nodes, w) \o r)
  <2> DEFINE glob == [syntax |-> nodes, tail |-> r]
  <2>1. glob \in [syntax: Seq(Outer(MaxNesting)), tail: Patterns] /\ glob.syntax = nodes /\ glob.tail = r
    OBVIOUS
  <2> HIDE DEF glob
  <2> QED
    BY <1>4, <2>1, Zenon DEF AsGlob
<1> HIDE DEF N, w
<1>5. \A nodes \in Seq(N) : /\ Text(nodes, w) \in Patterns
                            /\ \A x \in N : /\ Append(nodes, x) \in Seq(N)
                                            /\ Text(Append(nodes, x), w) = Text(nodes, w) \o w[x]
  BY <1>2, TextAppend, AppendProperties
<1>6. 0 \in T
  <2>1. ASSUME NEW nodes \in Seq(N), NEW r \in Patterns, Len(r) <= 0
        PROVE  AsGlob(Text(nodes, w) \o r)
    <3>1. Closing(r) = 0
      <4>1. SUFFICES ASSUME Closing(r) # 0 PROVE FALSE
        OBVIOUS
      <4>2. Opening(r) \in 1..Len(r)
        BY <4>1, ClosingIs
      <4> QED
        BY <1>3, <2>1, <4>2
    <3> QED
      BY <1>4, <3>1
  <2> QED
    BY <2>1
<1>7. ASSUME NEW n \in Nat, n \in T PROVE n + 1 \in T
  <2>1. ASSUME NEW nodes \in Seq(N), NEW r \in Patterns, Len(r) <= K, Len(r) <= n + 1
        PROVE  AsGlob(Text(nodes, w) \o r)
    <3>1. CASE Closing(r) = 0
      BY <1>4, <3>1
    <3>2. ASSUME NEW x \in N, NEW rest \in Patterns, r = w[x] \o rest, Len(rest) < Len(r)
          PROVE  AsGlob(Text(nodes, w) \o r)
      <4> DEFINE more == Append(nodes, x)
      <4>1. /\ more \in Seq(N) /\ Text(more, w) = Text(nodes, w) \o w[x]
            /\ Text(nodes, w) \in Patterns /\ w[x] \in Patterns
        BY <1>2, <1>5
      <4> HIDE DEF more
      <4>2. Len(rest) <= K /\ Len(rest) <= n
        BY <1>1, <1>3, <2>1, <3>2
      <4>3. AsGlob(Text(more, w) \o rest)
        BY <1>7, <4>1, <4>2
      <4>4. (Text(nodes, w) \o w[x]) \o rest = Text(nodes, w) \o r
        BY <3>2, <4>1, Associative
      <4> QED
        BY <4>1, <4>3, <4>4
    <3>3. CASE Closing(r) # 0
      <4>1. Len(r) > 0
        BY <1>3, <3>3, ClosingIs
      <4>2. CASE r[1] # Open
        <5>1. PICK rest \in Patterns, c \in Characters :
                     r = <<c>> \o rest /\ Len(rest) = Len(r) - 1 /\ c = r[1]
          BY <4>1, FirstCut
        <5> DEFINE x == [char |-> c, alts |-> <<>>]
        <5>2. x \in N /\ w[x] = <<c>>
          BY <1>1, <4>2, <5>1, PlainNode DEF N, w
        <5> HIDE DEF x
        <5>3. r = w[x] \o rest /\ Len(rest) < Len(r)
          BY <1>3, <5>1, <5>2
        <5> QED
          BY <3>2, <5>2, <5>3
      <4>3. CASE r[1] = Open
        <5>1. PICK g, e, rest : /\ AGroup(e, g) /\ rest \in Patterns /\ r = e \o rest
                                /\ Len(g) <= Len(r) - 2 /\ Len(rest) < Len(r)
          BY <3>3, <4>1, <4>3, GroupStarts
        <5>2. Level(g) /\ e = (<<Open>> \o g) \o <<Close>> /\ Len(g) \in Nat
          BY <1>3, <5>1 DEF AGroup, Level
        <5> DEFINE j == K - 1
        <5>3. K # 0 /\ j \in 0..MaxNesting /\ Len(g) <= j
          BY <1>1, <1>3, <2>1, <5>1, <5>2
        <5> HIDE DEF j
        <5>4. Told(g, j)
          BY <5>2, <5>3, LevelIsTold
        <5>5. PICK alts \in Alternatives(j) : Spoken(alts, Written[j]) = <<Open>> \o g
          BY <5>4 DEF Told
        <5> DEFINE x == [char |-> Open, alts |-> alts]
        <5>6. x \in Inner[K] /\ Written[K][x] = Spoken(alts, Written[j]) \o <<Close>>
          BY <1>1, <5>3, GroupNode DEF j
        <5> HIDE DEF x
        <5>7. x \in N /\ w[x] = e
          BY <1>1, <5>2, <5>5, <5>6, InnerIsWritten DEF N, w
        <5>8. r = w[x] \o rest
          BY <5>1, <5>7
        <5> QED
          BY <3>2, <5>1, <5>7, <5>8
      <4> QED
        BY <4>2, <4>3
    <3> QED
      BY <3>1, <3>3
  <2> QED
    BY <2>1
<1> HIDE DEF T
<1>8. Nat \subseteq T
  BY <1>6, <1>7, Induction
<1>9. ASSUME NEW p \in Patterns, Len(p) <= MaxNesting PROVE AsGlob(p)
  <2> DEFINE none == <<>>
             n == Len(p)
  <2>1. none \in Seq(N) /\ n \in T /\ n <= n /\ Len(p) <= n
    BY <1>3, <1>8, EmptySeq
  <2>2. Text(none, w) = <<>>
    BY <1>2, <2>1, TextAppend
  <2> HIDE DEF none, n
  <2>3. AsGlob(Text(none, w) \o p)
    BY <1>9, <2>1 DEF T
  <2>4. <<>> \o p = p
    BY ConcatEmptySeq DEF Patterns
  <2> QED
    BY <2>2, <2>3, <2>4
<1> QED
  BY <1>9
-----------------------------------------------------------------------------
(* The batches, in the whole specification *)

LEMMA BatchRuns ==
  ASSUME BatchInv, outcome # "unseen", [Next]_vars
  PROVE  BatchInv' /\ outcome' # "unseen"
<1>1. CASE BatchNext
  <2>1. outcome' # "unseen"
    BY <1>1 DEF BatchNext, ApplyEdit, EndEdits, Refuse
  <2> QED
    BY <1>1, <2>1, BatchSteps
<1>2. CASE ValidateGlobArg
  BY <1>2 DEF ValidateGlobArg
<1>3. CASE UNCHANGED vars
  <2>1. outcome' = outcome
    BY <1>3 DEF vars
  <2> QED
    BY <1>3, <2>1, BatchSteps
<1> QED
  BY <1>1, <1>2, <1>3 DEF Next

\* Every edit of a batch takes place where its find occurs and nowhere else, each in the
\* output of the one before, and a refusal is true of the file as it then stands.
THEOREM EditsApplyExactly == Spec => []EditsExact
<1> DEFINE Inv == (BatchInv /\ outcome # "unseen") \/ GlobInv
<1>1. Init => Inv
  <2>1. BatchInit => BatchInv /\ outcome # "unseen"
    BY BatchStarts DEF BatchInit
  <2>2. GlobInit => GlobInv
    BY DEF GlobInit, GlobInv
  <2> QED
    BY <2>1, <2>2 DEF Init
<1>2. Inv /\ [Next]_vars => Inv'
  <2> HIDE DEF Inv
  <2>1. ASSUME Inv, [Next]_vars PROVE Inv'
    <3>1. CASE BatchInv /\ outcome # "unseen"
      BY <2>1, <3>1, BatchRuns DEF Inv
    <3>2. CASE GlobInv
      BY <2>1, <3>2, GlobKeeps DEF Inv
    <3> QED
      BY <2>1, <3>1, <3>2 DEF Inv
  <2> QED
    BY <2>1
<1>3. Inv => EditsExact
  <2>1. GlobInv => EditsExact
    BY GlobIsNoBatch DEF GlobInv, EditsExact
  <2> QED
    BY <2>1, BatchExact
<1> QED
  BY <1>1, <1>2, <1>3, PTL DEF Spec
=============================================================================
