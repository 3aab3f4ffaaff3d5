------------------------- MODULE JsonScanner_proofs --------------------------
(***************************************************************************)
(* The two scanners agree, on texts of any length.                         *)
(*                                                                         *)
(* The scans are recursive functions on the positions of a text.  What     *)
(* holds at every position is proved by induction, in the form of a lemma  *)
(* about sets of naturals (the library's induction theorems take an        *)
(* operator, which the provers cannot instantiate).                        *)
(***************************************************************************)
EXTENDS JsonScanner, Integers, WellFoundedInduction, SequenceTheorems, TLAPS

(* The naturals are well ordered.                                          *)
LEMMA LeastNatural ==
  ASSUME NEW T, T \subseteq Nat, T # {}
  PROVE  \E n \in T : \A k \in T : n <= k
<1>. DEFINE R == OpToRel(<, Nat)
<1>1. IsWellFoundedOn(R, Nat)
  BY NatLessThanWellFounded
<1>2. \A x, y \in Nat : y < x => <<y, x>> \in R
  BY DEF OpToRel
<1>. HIDE DEF R
<1>3. PICK x \in T : \A y \in T : ~(<<y, x>> \in R)
  BY <1>1, WFMin
<1>4. ASSUME NEW k \in T
      PROVE  x <= k
  <2>1. k \in Nat /\ x \in Nat
    OBVIOUS
  <2>2. ~(k < x)
    BY <1>2, <1>3, <2>1, Zenon
  <2>. QED
    BY <2>1, <2>2
<1>. QED
  BY <1>4

(* Induction: a set with 0 that goes on up to n has every number up to n.  *)
LEMMA UpTo ==
  ASSUME NEW n \in Nat, NEW S, 0 \in S,
         \A k \in 0 .. n - 1 : k \in S => k + 1 \in S
  PROVE  \A k \in 0 .. n : k \in S
<1>. DEFINE T == (0 .. n) \ S
<1>. SUFFICES T = {}
  OBVIOUS
<1>. SUFFICES ASSUME T # {} PROVE FALSE
  OBVIOUS
<1>1. PICK k \in T : \A j \in T : k <= j
  <2>1. T \subseteq Nat
    OBVIOUS
  <2>. HIDE DEF T
  <2>. QED
    BY <2>1, LeastNatural
<1>2. k \in 1 .. n
  BY <1>1
<1>3. k - 1 \in S
  BY <1>1, <1>2
<1>. QED
  BY <1>1, <1>2, <1>3

(* The scan that NativeScan chooses exists.                                *)
LEMMA NativeScanStep ==
  ASSUME NEW text \in Seq(Chars)
  PROVE  /\ NativeScan(text)[0] = ScanStart
         /\ \A i \in 1 .. Len(text) :
              NativeScan(text)[i] = NativeStep(NativeScan(text)[i - 1], text, i)
<1>. DEFINE IsScan(f, n) ==
              f = [i \in 0 .. n |-> IF i = 0 THEN ScanStart ELSE NativeStep(f[i - 1], text, i)]
            S == {n \in Nat : \E f : IsScan(f, n)}
<1>1. Len(text) \in Nat
  OBVIOUS
<1>2. 0 \in S
  <2>. DEFINE f == [i \in 0 .. 0 |-> ScanStart]
  <2>1. IsScan(f, 0)
    OBVIOUS
  <2>. QED
    BY <2>1
<1>3. ASSUME NEW n \in Nat, n \in S
      PROVE  n + 1 \in S
  <2>1. PICK f : IsScan(f, n)
    BY <1>3
  <2>. DEFINE g == [i \in 0 .. n + 1 |-> IF i <= n THEN f[i] ELSE NativeStep(f[n], text, i)]
  <2>2. ASSUME NEW i \in 0 .. n + 1
        PROVE  g[i] = IF i = 0 THEN ScanStart ELSE NativeStep(g[i - 1], text, i)
    <3>1. CASE i = 0
      BY <2>1, <3>1
    <3>2. CASE i \in 1 .. n
      <4>1. f[i] = NativeStep(f[i - 1], text, i)
        BY <2>1, <3>2
      <4>2. g[i] = f[i] /\ g[i - 1] = f[i - 1]
        BY <3>2
      <4>. QED
        BY <3>2, <4>1, <4>2
    <3>3. CASE i = n + 1
      <4>1. g[i] = NativeStep(f[n], text, i) /\ g[i - 1] = f[n]
        BY <3>3
      <4>. QED
        BY <3>3, <4>1
    <3>. QED
      BY <3>1, <3>2, <3>3
  <2>3. IsScan(g, n + 1)
    BY <2>2
  <2>4. \E h : IsScan(h, n + 1)
    <3>. HIDE DEF g, IsScan
    <3>. QED
      BY <2>3
  <2>. QED
    BY <2>4
<1>4. Len(text) \in S
  <2>. HIDE DEF S
  <2>1. \A k \in 0 .. Len(text) - 1 : k \in S => k + 1 \in S
    BY <1>3
  <2>2. \A k \in 0 .. Len(text) : k \in S
    BY <1>1, <1>2, <2>1, UpTo
  <2>. QED
    BY <1>1, <2>2
<1>5. \E f : IsScan(f, Len(text))
  BY <1>4
<1>6. IsScan(NativeScan(text), Len(text))
  BY <1>5 DEF NativeScan
<1>. QED
  BY <1>1, <1>6

(* So does the scan that RepositoryScan chooses.                           *)
LEMMA RepositoryScanStep ==
  ASSUME NEW text \in Seq(Chars)
  PROVE  /\ RepositoryScan(text)[0] = ScanStart
         /\ \A i \in 1 .. Len(text) :
              RepositoryScan(text)[i] = RepositoryStep(RepositoryScan(text)[i - 1], text, i)
<1>. DEFINE IsScan(f, n) ==
              f = [i \in 0 .. n |-> IF i = 0 THEN ScanStart ELSE RepositoryStep(f[i - 1], text, i)]
            S == {n \in Nat : \E f : IsScan(f, n)}
<1>1. Len(text) \in Nat
  OBVIOUS
<1>2. 0 \in S
  <2>. DEFINE f == [i \in 0 .. 0 |-> ScanStart]
  <2>1. IsScan(f, 0)
    OBVIOUS
  <2>. QED
    BY <2>1
<1>3. ASSUME NEW n \in Nat, n \in S
      PROVE  n + 1 \in S
  <2>1. PICK f : IsScan(f, n)
    BY <1>3
  <2>. DEFINE g == [i \in 0 .. n + 1 |-> IF i <= n THEN f[i] ELSE RepositoryStep(f[n], text, i)]
  <2>2. ASSUME NEW i \in 0 .. n + 1
        PROVE  g[i] = IF i = 0 THEN ScanStart ELSE RepositoryStep(g[i - 1], text, i)
    <3>1. CASE i = 0
      BY <2>1, <3>1
    <3>2. CASE i \in 1 .. n
      <4>1. f[i] = RepositoryStep(f[i - 1], text, i)
        BY <2>1, <3>2
      <4>2. g[i] = f[i] /\ g[i - 1] = f[i - 1]
        BY <3>2
      <4>. QED
        BY <3>2, <4>1, <4>2
    <3>3. CASE i = n + 1
      <4>1. g[i] = RepositoryStep(f[n], text, i) /\ g[i - 1] = f[n]
        BY <3>3
      <4>. QED
        BY <3>3, <4>1
    <3>. QED
      BY <3>1, <3>2, <3>3
  <2>3. IsScan(g, n + 1)
    BY <2>2
  <2>4. \E h : IsScan(h, n + 1)
    <3>. HIDE DEF g, IsScan
    <3>. QED
      BY <2>3
  <2>. QED
    BY <2>4
<1>4. Len(text) \in S
  <2>. HIDE DEF S
  <2>1. \A k \in 0 .. Len(text) - 1 : k \in S => k + 1 \in S
    BY <1>3
  <2>2. \A k \in 0 .. Len(text) : k \in S
    BY <1>1, <1>2, <2>1, UpTo
  <2>. QED
    BY <1>1, <2>2
<1>5. \E f : IsScan(f, Len(text))
  BY <1>4
<1>6. IsScan(RepositoryScan(text), Len(text))
  BY <1>5 DEF RepositoryScan
<1>. QED
  BY <1>1, <1>6

-----------------------------------------------------------------------------
(* One character.                                                          *)

ScanStates ==
  [start : Nat, depth : Nat, inString : BOOLEAN, escaped : BOOLEAN, found : Seq(Seq(Chars))]

(* No object is complete, an escape is inside a string, and an object that *)
(* is open began before the position i.                                    *)
Open(s, i) ==
  /\ s \in ScanStates
  /\ s.found = <<>>
  /\ s.escaped => s.inString
  /\ s.depth > 0 => s.start \in 1 .. i

(* The character opens the outermost object.                               *)
Opens(s, c) == c = "open" /\ ~s.inString /\ ~s.escaped /\ s.depth = 0

(* The character closes it.                                                *)
Closes(s, c) == c = "close" /\ ~s.inString /\ s.depth = 1

(* Any other character, and what the two have in common: the state after   *)
(* it, as far as it does not depend on the place in the text.              *)
DepthAfter(s, c) ==
  IF s.inString \/ s.escaped THEN s.depth
  ELSE IF c = "open" THEN s.depth + 1
  ELSE IF c = "close" /\ s.depth > 0 THEN s.depth - 1
  ELSE s.depth

InStringAfter(s, c) ==
  IF ~s.escaped /\ c = "quote" THEN ~s.inString ELSE s.inString

EscapedAfter(s, c) == ~s.escaped /\ s.inString /\ c = "backslash"

(* A character of the native scanner.                                      *)
LEMMA NativeStepIs ==
  ASSUME NEW text \in Seq(Chars), NEW i \in 1 .. Len(text), NEW s, Open(s, i - 1)
  PROVE  NativeStep(s, text, i) =
           [start |-> IF Opens(s, text[i]) THEN i ELSE s.start,
            depth |-> DepthAfter(s, text[i]),
            inString |-> InStringAfter(s, text[i]),
            escaped |-> EscapedAfter(s, text[i]),
            found |-> IF Closes(s, text[i]) THEN <<SubSeq(text, s.start, i)>> ELSE <<>>]
<1>. DEFINE c == text[i]
<1>1. c \in Chars
  OBVIOUS
<1>2. s \in ScanStates /\ s.found = <<>> /\ (s.escaped => s.inString)
  BY DEF Open
<1>. USE <1>2 DEF NativeStep, Opens, Closes, DepthAfter, InStringAfter, EscapedAfter, ScanStates
<1>3. CASE s.escaped
  BY <1>3
<1>4. CASE ~s.escaped /\ c = "open"
  BY <1>4
<1>5. CASE ~s.escaped /\ c = "close"
  <2>1. CASE s.inString
    BY <1>5, <2>1
  <2>2. CASE ~s.inString /\ s.depth = 0
    BY <1>5, <2>2
  <2>3. CASE ~s.inString /\ s.depth > 0
    <3>1. NativeStep(s, text, i) =
            [s EXCEPT !.depth = s.depth - 1,
                      !.found = IF s.depth = 1 THEN <<SubSeq(text, s.start, i)>> ELSE <<>>]
      BY <1>5, <2>3, Zenon
    <3>. HIDE DEF NativeStep
    <3>. QED
      BY <1>5, <2>3, <3>1
  <2>. QED
    BY <2>1, <2>2, <2>3
<1>6. CASE ~s.escaped /\ c = "quote"
  BY <1>6
<1>7. CASE ~s.escaped /\ c = "backslash"
  BY <1>7
<1>8. CASE ~s.escaped /\ c = "other"
  BY <1>8
<1>. QED
  BY <1>1, <1>3, <1>4, <1>5, <1>6, <1>7, <1>8 DEF Chars

(* A character of the repository's scanner.                                *)
LEMMA RepositoryStepIs ==
  ASSUME NEW text \in Seq(Chars), NEW i \in 1 .. Len(text), NEW s, Open(s, i - 1)
  PROVE  RepositoryStep(s, text, i) =
           [start |-> IF Opens(s, text[i]) THEN i ELSE IF Closes(s, text[i]) THEN 0 ELSE s.start,
            depth |-> DepthAfter(s, text[i]),
            inString |-> InStringAfter(s, text[i]),
            escaped |-> EscapedAfter(s, text[i]),
            found |-> IF Closes(s, text[i]) THEN <<SubSeq(text, s.start, i)>> ELSE <<>>]
<1>. DEFINE c == text[i]
<1>1. c \in Chars
  OBVIOUS
<1>2. s \in ScanStates /\ s.found = <<>> /\ (s.escaped => s.inString)
  BY DEF Open
<1>. USE <1>2 DEF RepositoryStep, Opens, Closes, DepthAfter, InStringAfter, EscapedAfter, ScanStates
<1>3. CASE s.escaped
  BY <1>3
<1>4. CASE ~s.escaped /\ c = "open"
  BY <1>4
<1>5. CASE ~s.escaped /\ c = "close"
  <2>1. CASE s.inString
    BY <1>5, <2>1
  <2>2. CASE ~s.inString /\ s.depth = 0
    BY <1>5, <2>2
  <2>3. CASE ~s.inString /\ s.depth > 0
    <3>1. RepositoryStep(s, text, i) =
            [s EXCEPT !.depth = s.depth - 1,
                      !.found = IF s.depth = 1 THEN Append(<<>>, SubSeq(text, s.start, i)) ELSE <<>>,
                      !.start = IF s.depth = 1 THEN 0 ELSE s.start]
      BY <1>5, <2>3, Zenon
    <3>2. Append(<<>>, SubSeq(text, s.start, i)) = <<SubSeq(text, s.start, i)>>
      OBVIOUS
    <3>. HIDE DEF RepositoryStep
    <3>. QED
      BY <1>5, <2>3, <3>1, <3>2
  <2>. QED
    BY <2>1, <2>2, <2>3
<1>6. CASE ~s.escaped /\ c = "quote"
  BY <1>6
<1>7. CASE ~s.escaped /\ c = "backslash"
  BY <1>7
<1>8. CASE ~s.escaped /\ c = "other"
  BY <1>8
<1>. QED
  BY <1>1, <1>3, <1>4, <1>5, <1>6, <1>7, <1>8 DEF Chars

(* What the two have in common with the state before.                      *)
LEMMA OpenAfter ==
  ASSUME NEW i \in Nat, NEW s, Open(s, i), NEW c \in Chars, NEW r,
         r = [start |-> IF Opens(s, c) THEN i + 1 ELSE s.start,
              depth |-> DepthAfter(s, c),
              inString |-> InStringAfter(s, c),
              escaped |-> EscapedAfter(s, c),
              found |-> <<>>]
  PROVE  /\ Open(r, i + 1)
         /\ r.depth > 0 /\ ~Opens(s, c) => s.depth > 0
<1>1. s \in ScanStates /\ (s.escaped => s.inString) /\ (s.depth > 0 => s.start \in 1 .. i)
  BY DEF Open
<1>2. DepthAfter(s, c) \in Nat
  BY <1>1 DEF DepthAfter, ScanStates
<1>3. r.depth > 0 /\ ~Opens(s, c) => s.depth > 0
  BY <1>1 DEF DepthAfter, ScanStates, Opens
<1>4. InStringAfter(s, c) \in BOOLEAN /\ EscapedAfter(s, c) \in BOOLEAN
  BY <1>1 DEF InStringAfter, EscapedAfter, ScanStates
<1>5. EscapedAfter(s, c) => InStringAfter(s, c)
  BY <1>1 DEF InStringAfter, EscapedAfter, ScanStates
<1>6. r.start \in Nat /\ (r.depth > 0 => r.start \in 1 .. i + 1)
  BY <1>1, <1>2, <1>3 DEF ScanStates
<1>7. <<>> \in Seq(Seq(Chars))
  OBVIOUS
<1>8. r \in ScanStates
  BY <1>2, <1>4, <1>6, <1>7 DEF ScanStates
<1>. QED
  BY <1>3, <1>5, <1>6, <1>8 DEF Open

-----------------------------------------------------------------------------
(* The scans.                                                              *)

LEMMA ScanStartOpen == Open(ScanStart, 0)
<1>1. <<>> \in Seq(Seq(Chars))
  OBVIOUS
<1>. QED
  BY <1>1 DEF Open, ScanStart, ScanStates

(* A character that leaves the native scanner without an object leaves the *)
(* repository's scanner in the same state.                                 *)
LEMMA NothingFound ==
  ASSUME NEW text \in Seq(Chars), NEW i \in 1 .. Len(text), NEW s, Open(s, i - 1),
         NativeStep(s, text, i).found = <<>>
  PROVE  /\ ~Closes(s, text[i])
         /\ NativeStep(s, text, i) =
              [start |-> IF Opens(s, text[i]) THEN i ELSE s.start,
               depth |-> DepthAfter(s, text[i]),
               inString |-> InStringAfter(s, text[i]),
               escaped |-> EscapedAfter(s, text[i]),
               found |-> <<>>]
         /\ RepositoryStep(s, text, i) = NativeStep(s, text, i)
         /\ Open(NativeStep(s, text, i), i)
         /\ NativeStep(s, text, i).depth > 0 /\ ~Opens(s, text[i]) => s.depth > 0
<1>. DEFINE c == text[i]
            obj == SubSeq(text, s.start, i)
            nat == NativeStep(s, text, i)
            rep == RepositoryStep(s, text, i)
<1>1. c \in Chars /\ i - 1 \in Nat /\ (i - 1) + 1 = i
  OBVIOUS
<1>2. nat = [start |-> IF Opens(s, c) THEN i ELSE s.start,
             depth |-> DepthAfter(s, c),
             inString |-> InStringAfter(s, c),
             escaped |-> EscapedAfter(s, c),
             found |-> IF Closes(s, c) THEN <<obj>> ELSE <<>>]
  BY NativeStepIs
<1>3. rep = [start |-> IF Opens(s, c) THEN i ELSE IF Closes(s, c) THEN 0 ELSE s.start,
             depth |-> DepthAfter(s, c),
             inString |-> InStringAfter(s, c),
             escaped |-> EscapedAfter(s, c),
             found |-> IF Closes(s, c) THEN <<obj>> ELSE <<>>]
  BY RepositoryStepIs
<1>4. nat.found = <<>>
  OBVIOUS
<1>. HIDE DEF obj, nat, rep, c
<1>5. <<obj>> # <<>>
  OBVIOUS
<1>6. ~Closes(s, c)
  BY <1>2, <1>4, <1>5
<1>7. nat = [start |-> IF Opens(s, c) THEN i ELSE s.start,
             depth |-> DepthAfter(s, c),
             inString |-> InStringAfter(s, c),
             escaped |-> EscapedAfter(s, c),
             found |-> <<>>]
  BY <1>2, <1>6
<1>8. rep = nat
  BY <1>3, <1>6, <1>7
<1>9. Open(nat, i) /\ (nat.depth > 0 /\ ~Opens(s, c) => s.depth > 0)
  BY <1>1, <1>7, OpenAfter
<1>. QED
  BY <1>6, <1>7, <1>8, <1>9 DEF nat, rep, c

(* The character that completes an object.                                 *)
LEMMA ObjectFound ==
  ASSUME NEW text \in Seq(Chars), NEW i \in 1 .. Len(text), NEW s, Open(s, i - 1)
  PROVE  /\ NativeStep(s, text, i).found =
              IF Closes(s, text[i]) THEN <<SubSeq(text, s.start, i)>> ELSE <<>>
         /\ RepositoryStep(s, text, i).found =
              IF Closes(s, text[i]) THEN <<SubSeq(text, s.start, i)>> ELSE <<>>
<1>. DEFINE c == text[i]
            obj == IF Closes(s, c) THEN <<SubSeq(text, s.start, i)>> ELSE <<>>
<1>1. NativeStep(s, text, i) =
        [start |-> IF Opens(s, c) THEN i ELSE s.start,
         depth |-> DepthAfter(s, c),
         inString |-> InStringAfter(s, c),
         escaped |-> EscapedAfter(s, c),
         found |-> obj]
  BY NativeStepIs
<1>2. RepositoryStep(s, text, i) =
        [start |-> IF Opens(s, c) THEN i ELSE IF Closes(s, c) THEN 0 ELSE s.start,
         depth |-> DepthAfter(s, c),
         inString |-> InStringAfter(s, c),
         escaped |-> EscapedAfter(s, c),
         found |-> obj]
  BY RepositoryStepIs
<1>. HIDE DEF c, obj
<1>. QED
  BY <1>1, <1>2 DEF c, obj

(* While the native scanner has no object the two scans are the same.      *)
LEMMA SameScan ==
  ASSUME NEW text \in Seq(Chars), NEW n \in 0 .. Len(text),
         \A j \in 0 .. n : NativeScan(text)[j].found = <<>>
  PROVE  \A i \in 0 .. n : /\ Open(NativeScan(text)[i], i)
                           /\ RepositoryScan(text)[i] = NativeScan(text)[i]
<1>. DEFINE N == NativeScan(text)
            R == RepositoryScan(text)
            S == {i \in 0 .. n : Open(N[i], i) /\ R[i] = N[i]}
<1>1. N[0] = ScanStart /\ \A i \in 1 .. Len(text) : N[i] = NativeStep(N[i - 1], text, i)
  BY NativeScanStep
<1>2. R[0] = ScanStart /\ \A i \in 1 .. Len(text) : R[i] = RepositoryStep(R[i - 1], text, i)
  BY RepositoryScanStep
<1>3. \A j \in 0 .. n : N[j].found = <<>>
  OBVIOUS
<1>. HIDE DEF N, R
<1>4. n \in Nat /\ 0 \in S
  BY <1>1, <1>2, ScanStartOpen
<1>5. ASSUME NEW k \in 0 .. n - 1, k \in S
      PROVE  k + 1 \in S
  <2>1. k + 1 \in 1 .. Len(text) /\ k + 1 \in 0 .. n /\ (k + 1) - 1 = k
    OBVIOUS
  <2>2. Open(N[k], k) /\ R[k] = N[k]
    BY <1>5
  <2>3. /\ N[k + 1] = NativeStep(N[k], text, k + 1)
        /\ R[k + 1] = RepositoryStep(N[k], text, k + 1)
    BY <1>1, <1>2, <2>1, <2>2
  <2>4. NativeStep(N[k], text, k + 1).found = <<>>
    BY <1>3, <2>1, <2>3
  <2>5. /\ RepositoryStep(N[k], text, k + 1) = NativeStep(N[k], text, k + 1)
        /\ Open(NativeStep(N[k], text, k + 1), k + 1)
    BY <2>1, <2>2, <2>4, NothingFound
  <2>. QED
    BY <2>1, <2>3, <2>5
<1>6. \A k \in 0 .. n : k \in S
  <2>. HIDE DEF S
  <2>. QED
    BY <1>4, <1>5, UpTo
<1>. QED
  BY <1>6 DEF N, R

(* An object that was found stays.                                         *)
LEMMA FoundStays ==
  ASSUME NEW text \in Seq(Chars), NEW j \in 0 .. Len(text),
         NativeScan(text)[j].found # <<>>
  PROVE  NativeScan(text)[Len(text)] = NativeScan(text)[j]
<1>. DEFINE N == NativeScan(text)
            n == Len(text) - j
            S == {k \in 0 .. n : N[j + k] = N[j]}
<1>1. \A i \in 1 .. Len(text) : N[i] = NativeStep(N[i - 1], text, i)
  BY NativeScanStep
<1>2. N[j].found # <<>>
  OBVIOUS
<1>. HIDE DEF N
<1>3. n \in Nat /\ 0 \in S
  OBVIOUS
<1>4. ASSUME NEW k \in 0 .. n - 1, k \in S
      PROVE  k + 1 \in S
  <2>1. j + (k + 1) \in 1 .. Len(text) /\ (j + (k + 1)) - 1 = j + k /\ k + 1 \in 0 .. n
    OBVIOUS
  <2>2. N[j + (k + 1)] = NativeStep(N[j + k], text, j + (k + 1))
    BY <1>1, <2>1
  <2>3. N[j + k] = N[j]
    BY <1>4
  <2>4. NativeStep(N[j], text, j + (k + 1)) = N[j]
    BY <1>2, Zenon DEF NativeStep
  <2>. QED
    BY <2>1, <2>2, <2>3, <2>4
<1>5. \A k \in 0 .. n : k \in S
  <2>. HIDE DEF S, n
  <2>. QED
    BY <1>3, <1>4, UpTo
<1>6. n \in S /\ j + n = Len(text)
  BY <1>3, <1>5
<1>. QED
  BY <1>6 DEF N

(* A text the native scanner went through to its end has no object for the *)
(* repository either.                                                      *)
THEOREM NoObjectForBoth ==
  ASSUME NEW text \in Seq(Chars), tryExtractCompleteJsonObject(text) = <<>>
  PROVE  extractBalancedJsonObjects(text) = <<>>
<1>. DEFINE n == Len(text)
<1>1. n \in Nat /\ n \in 0 .. Len(text)
  OBVIOUS
<1>2. NativeScan(text)[n].found = <<>>
  BY DEF tryExtractCompleteJsonObject
<1>3. \A j \in 0 .. n : NativeScan(text)[j].found = <<>>
  BY <1>2, FoundStays
<1>4. RepositoryScan(text)[n] = NativeScan(text)[n]
  BY <1>1, <1>3, SameScan
<1>. QED
  BY <1>2, <1>4 DEF extractBalancedJsonObjects

(* Where the object that is open after i characters began: at an "open"    *)
(* read outside of a string, and it has been open ever since.              *)
Began(N, text, i) ==
  N[i].depth > 0 =>
    LET b == N[i].start
    IN  /\ b \in 1 .. i
        /\ text[b] = "open"
        /\ N[b - 1].depth = 0 /\ ~N[b - 1].inString /\ ~N[b - 1].escaped
        /\ \A j \in b .. i : N[j].depth > 0 /\ N[j].start = b

LEMMA ObjectsBegin ==
  ASSUME NEW text \in Seq(Chars), NEW n \in 0 .. Len(text),
         \A j \in 0 .. n : NativeScan(text)[j].found = <<>>
  PROVE  \A i \in 0 .. n : Began(NativeScan(text), text, i)
<1>. DEFINE N == NativeScan(text)
            S == {i \in 0 .. n : Began(N, text, i)}
<1>1. N[0] = ScanStart /\ \A i \in 1 .. Len(text) : N[i] = NativeStep(N[i - 1], text, i)
  BY NativeScanStep
<1>2. \A i \in 0 .. n : Open(N[i], i)
  BY SameScan
<1>3. \A j \in 0 .. n : N[j].found = <<>>
  OBVIOUS
<1>. HIDE DEF N
<1>4. n \in Nat /\ 0 \in S
  BY <1>1 DEF Began, ScanStart
<1>5. ASSUME NEW k \in 0 .. n - 1, k \in S
      PROVE  k + 1 \in S
  <2>1. k + 1 \in 1 .. Len(text) /\ k + 1 \in 0 .. n /\ (k + 1) - 1 = k /\ k \in 0 .. n
    OBVIOUS
  <2>. DEFINE c == text[k + 1]
  <2>2. N[k + 1] = NativeStep(N[k], text, k + 1)
    BY <1>1, <2>1
  <2>3. Open(N[k], k) /\ Open(N[k + 1], k + 1)
    BY <1>2, <2>1
  <2>4. NativeStep(N[k], text, k + 1).found = <<>>
    BY <1>3, <2>1, <2>2
  <2>5. /\ N[k + 1].start = IF Opens(N[k], c) THEN k + 1 ELSE N[k].start
        /\ N[k + 1].depth > 0 /\ ~Opens(N[k], c) => N[k].depth > 0
    BY <2>1, <2>2, <2>3, <2>4, NothingFound
  <2>6. ASSUME N[k + 1].depth > 0, Opens(N[k], c)
        PROVE  Began(N, text, k + 1)
    <3>1. N[k + 1].start = k + 1
      BY <2>5, <2>6
    <3>2. c = "open" /\ N[k].depth = 0 /\ ~N[k].inString /\ ~N[k].escaped
      BY <2>6 DEF Opens
    <3>3. \A j \in k + 1 .. k + 1 : j = k + 1
      OBVIOUS
    <3>. QED
      BY <2>1, <2>6, <3>1, <3>2, <3>3 DEF Began
  <2>7. ASSUME N[k + 1].depth > 0, ~Opens(N[k], c)
        PROVE  Began(N, text, k + 1)
    <3>. DEFINE b == N[k].start
    <3>1. N[k].depth > 0 /\ N[k + 1].start = b
      BY <2>5, <2>7
    <3>2. /\ b \in 1 .. k
          /\ text[b] = "open"
          /\ N[b - 1].depth = 0 /\ ~N[b - 1].inString /\ ~N[b - 1].escaped
          /\ \A j \in b .. k : N[j].depth > 0 /\ N[j].start = b
      BY <1>5, <3>1 DEF Began
    <3>3. \A j \in b .. k + 1 : j \in b .. k \/ j = k + 1
      BY <3>2
    <3>. HIDE DEF b
    <3>4. b \in 1 .. k + 1
      BY <3>2
    <3>5. \A j \in b .. k + 1 : N[j].depth > 0 /\ N[j].start = b
      BY <2>7, <3>1, <3>2, <3>3
    <3>. QED
      BY <3>1, <3>2, <3>4, <3>5 DEF Began
  <2>. QED
    BY <2>1, <2>6, <2>7 DEF Began
<1>6. \A k \in 0 .. n : k \in S
  <2>. HIDE DEF S
  <2>. QED
    BY <1>4, <1>5, UpTo
<1>. QED
  BY <1>6 DEF N

(* The object the native scanner stops at: the part of the text from the   *)
(* "open" it began with to the "close" that was read last.                 *)
LEMMA FirstObject ==
  ASSUME NEW text \in Seq(Chars), tryExtractCompleteJsonObject(text) # <<>>
  PROVE  \E e \in 2 .. Len(text), a \in 1 .. Len(text) :
           /\ a < e
           /\ \A j \in 0 .. e - 1 : NativeScan(text)[j].found = <<>>
           /\ Closes(NativeScan(text)[e - 1], text[e])
           /\ NativeScan(text)[e - 1].start = a
           /\ tryExtractCompleteJsonObject(text) = <<SubSeq(text, a, e)>>
<1>. DEFINE N == NativeScan(text)
            T == {i \in 0 .. Len(text) : N[i].found # <<>>}
<1>1. N[0] = ScanStart /\ \A i \in 1 .. Len(text) : N[i] = NativeStep(N[i - 1], text, i)
  BY NativeScanStep
<1>2. Len(text) \in Nat /\ tryExtractCompleteJsonObject(text) = N[Len(text)].found
  BY DEF tryExtractCompleteJsonObject
<1>3. Len(text) \in T
  BY <1>2
<1>4. PICK e \in T : \A k \in T : e <= k
  <2>1. T \subseteq Nat /\ T # {}
    BY <1>3
  <2>. HIDE DEF T
  <2>. QED
    BY <2>1, LeastNatural
<1>5. e \in 1 .. Len(text)
  BY <1>1, <1>4 DEF ScanStart
<1>6. \A j \in 0 .. e - 1 : N[j].found = <<>>
  BY <1>4, <1>5
<1>7. Open(N[e - 1], e - 1)
  BY <1>5, <1>6, SameScan
<1>8. N[Len(text)] = N[e]
  BY <1>4, FoundStays
<1>9. N[e].found # <<>>
  BY <1>4
<1>. HIDE DEF N, T
<1>. DEFINE s == N[e - 1]
<1>10. N[e].found = IF Closes(s, text[e]) THEN <<SubSeq(text, s.start, e)>> ELSE <<>>
  <2>1. N[e] = NativeStep(s, text, e)
    BY <1>1, <1>5
  <2>2. NativeStep(s, text, e).found =
          IF Closes(s, text[e]) THEN <<SubSeq(text, s.start, e)>> ELSE <<>>
    <3>. HIDE DEF s
    <3>. QED
      BY <1>5, <1>7, ObjectFound DEF s
  <2>. QED
    BY <2>1, <2>2
<1>11. Closes(s, text[e])
  BY <1>9, <1>10
<1>12. s.start \in 1 .. e - 1
  BY <1>7, <1>11 DEF Open, Closes
<1>13. tryExtractCompleteJsonObject(text) = <<SubSeq(text, s.start, e)>>
  BY <1>2, <1>8, <1>10, <1>11
<1>14. e \in 2 .. Len(text) /\ s.start \in 1 .. Len(text) /\ s.start < e
  BY <1>5, <1>12
<1>. QED
  BY <1>6, <1>11, <1>13, <1>14 DEF N

(* The scan of the object alone goes through the states of the scan of the *)
(* text, but for the place where the object begins.                        *)
LEMMA ObjectAlone ==
  ASSUME NEW text \in Seq(Chars), NEW e \in 2 .. Len(text), NEW a \in 1 .. Len(text), a < e,
         \A j \in 0 .. e - 1 : NativeScan(text)[j].found = <<>>,
         Closes(NativeScan(text)[e - 1], text[e]),
         NativeScan(text)[e - 1].start = a,
         NEW x, x = SubSeq(text, a, e)
  PROVE  /\ x \in Seq(Chars)
         /\ tryExtractCompleteJsonObject(x) = <<x>>
         /\ extractBalancedJsonObjects(x) = <<x>>
<1>. DEFINE N == NativeScan(text)
            X == NativeScan(x)
            Y == RepositoryScan(x)
            n == e - a
            Copy(k) == [start |-> IF k = 0 THEN 0 ELSE 1, depth |-> N[(a - 1) + k].depth,
                        inString |-> N[(a - 1) + k].inString,
                        escaped |-> N[(a - 1) + k].escaped, found |-> <<>>]
            S == {k \in 0 .. n : X[k] = Copy(k)}
<1>1. /\ x \in Seq(Chars) /\ Len(x) = n + 1 /\ n \in Nat \ {0}
      /\ \A k \in 1 .. n + 1 : x[k] = text[(a - 1) + k]
  <2>1. Len(x) = e - a + 1 /\ \A k \in 1 .. e - a + 1 : x[k] = text[a + k - 1]
    BY SubSeqProperties
  <2>2. x \in Seq(Chars)
    BY SubSeqProperties
  <2>3. \A k \in 1 .. n + 1 : (a - 1) + k = a + k - 1
    OBVIOUS
  <2>. QED
    BY <2>1, <2>2, <2>3
<1>2. \A i \in 1 .. Len(text) : N[i] = NativeStep(N[i - 1], text, i)
  BY NativeScanStep
<1>3. X[0] = ScanStart /\ \A i \in 1 .. n + 1 : X[i] = NativeStep(X[i - 1], x, i)
  BY <1>1, NativeScanStep
<1>4. Y[0] = ScanStart /\ \A i \in 1 .. n + 1 : Y[i] = RepositoryStep(Y[i - 1], x, i)
  BY <1>1, RepositoryScanStep
<1>5. \A j \in 0 .. e - 1 : Open(N[j], j) /\ N[j].found = <<>>
  <2>1. e - 1 \in 0 .. Len(text)
    OBVIOUS
  <2>. QED
    BY <2>1, SameScan
<1>6. Began(N, text, e - 1) /\ N[e - 1].start = a /\ Closes(N[e - 1], text[e])
  <2>1. e - 1 \in 0 .. Len(text) /\ e - 1 \in 0 .. e - 1
    OBVIOUS
  <2>. QED
    BY <2>1, ObjectsBegin
<1>. HIDE DEF N, X, Y
<1>7. /\ text[a] = "open" /\ N[a - 1].depth = 0 /\ ~N[a - 1].inString /\ ~N[a - 1].escaped
      /\ \A j \in a .. e - 1 : N[j].depth > 0
  <2>1. N[e - 1].depth > 0
    BY <1>6 DEF Closes
  <2>. QED
    BY <1>6, <2>1 DEF Began
<1>8. ASSUME NEW k \in 0 .. n
      PROVE  Open(Copy(k), k)
  <2>1. (a - 1) + k \in 0 .. e - 1
    OBVIOUS
  <2>2. Open(N[(a - 1) + k], (a - 1) + k)
    BY <1>5, <2>1
  <2>3. k = 0 => N[(a - 1) + k].depth = 0
    BY <1>7
  <2>. DEFINE t == N[(a - 1) + k]
  <2>. HIDE DEF t
  <2>4. t \in ScanStates /\ (t.escaped => t.inString)
    BY <2>2 DEF Open, t
  <2>5. Copy(k) = [start |-> IF k = 0 THEN 0 ELSE 1, depth |-> t.depth,
                   inString |-> t.inString, escaped |-> t.escaped, found |-> <<>>]
    BY DEF t
  <2>6. <<>> \in Seq(Seq(Chars)) /\ (k = 0 => t.depth = 0)
    BY <2>3 DEF t
  <2>7. t.depth \in Nat /\ t.inString \in BOOLEAN /\ t.escaped \in BOOLEAN
    BY <2>4 DEF ScanStates
  <2>. HIDE DEF Copy
  <2>8. Copy(k) \in ScanStates
    BY <2>5, <2>6, <2>7 DEF ScanStates
  <2>9. Copy(k).depth > 0 => Copy(k).start \in 1 .. k
    BY <2>5, <2>6, <2>7
  <2>. QED
    BY <2>4, <2>5, <2>8, <2>9 DEF Open
<1>9. ASSUME NEW k \in 0 .. n, NEW c
      PROVE  /\ Opens(Copy(k), c) <=> Opens(N[(a - 1) + k], c)
             /\ Closes(Copy(k), c) <=> Closes(N[(a - 1) + k], c)
             /\ DepthAfter(Copy(k), c) = DepthAfter(N[(a - 1) + k], c)
             /\ InStringAfter(Copy(k), c) = InStringAfter(N[(a - 1) + k], c)
             /\ EscapedAfter(Copy(k), c) = EscapedAfter(N[(a - 1) + k], c)
  <2>. DEFINE t == N[(a - 1) + k]
  <2>1. /\ Copy(k).depth = t.depth /\ Copy(k).inString = t.inString
        /\ Copy(k).escaped = t.escaped
    OBVIOUS
  <2>. HIDE DEF Copy
  <2>. QED
    BY <2>1 DEF Opens, Closes, DepthAfter, InStringAfter, EscapedAfter
<1>10. 0 \in S
  <2>1. Open(N[a - 1], a - 1) /\ (a - 1) + 0 = a - 1
    BY <1>5
  <2>2. N[a - 1].inString = FALSE /\ N[a - 1].escaped = FALSE
    BY <1>7, <2>1 DEF Open, ScanStates
  <2>3. Copy(0) = ScanStart
    BY <1>7, <2>1, <2>2 DEF ScanStart
  <2>. QED
    BY <1>1, <1>3, <2>3
<1>11. ASSUME NEW k \in 0 .. n - 1, k \in S
       PROVE  k + 1 \in S
  <2>. DEFINE m == (a - 1) + k
              c == x[k + 1]
  <2>1. /\ m + 1 \in 1 .. Len(text) /\ m \in 0 .. e - 1 /\ m + 1 \in 0 .. e - 1
        /\ (m + 1) - 1 = m /\ (a - 1) + (k + 1) = m + 1
        /\ k + 1 \in 1 .. Len(x) /\ (k + 1) - 1 = k /\ k \in 0 .. n /\ k + 1 \in 0 .. n
        /\ k + 1 \in 1 .. n + 1
    BY <1>1
  <2>2. c = text[m + 1] /\ c \in Chars
    BY <1>1, <2>1
  <2>3. X[k] = Copy(k) /\ Open(Copy(k), k)
    BY <1>8, <1>11, <2>1
  <2>. HIDE DEF Copy, m, c
  <2>4. N[m + 1] = NativeStep(N[m], text, m + 1) /\ Open(N[m], m) /\ N[m + 1].found = <<>>
    BY <1>2, <1>5, <2>1
  <2>5. /\ ~Closes(N[m], c)
        /\ N[m + 1] = [start |-> IF Opens(N[m], c) THEN m + 1 ELSE N[m].start,
                       depth |-> DepthAfter(N[m], c),
                       inString |-> InStringAfter(N[m], c),
                       escaped |-> EscapedAfter(N[m], c),
                       found |-> <<>>]
    BY <2>1, <2>2, <2>4, NothingFound
  <2>6. X[k + 1] = NativeStep(Copy(k), x, k + 1)
    BY <1>3, <2>1, <2>3
  <2>7. NativeStep(Copy(k), x, k + 1) =
          [start |-> IF Opens(Copy(k), c) THEN k + 1 ELSE Copy(k).start,
           depth |-> DepthAfter(Copy(k), c),
           inString |-> InStringAfter(Copy(k), c),
           escaped |-> EscapedAfter(Copy(k), c),
           found |-> IF Closes(Copy(k), c) THEN <<SubSeq(x, Copy(k).start, k + 1)>> ELSE <<>>]
    <3>. DEFINE s == Copy(k)
                i == k + 1
    <3>1. x \in Seq(Chars) /\ i \in 1 .. Len(x) /\ Open(s, i - 1)
      BY <1>1, <2>1, <2>3
    <3>. HIDE DEF s, i
    <3>2. NativeStep(s, x, i) =
            [start |-> IF Opens(s, x[i]) THEN i ELSE s.start,
             depth |-> DepthAfter(s, x[i]),
             inString |-> InStringAfter(s, x[i]),
             escaped |-> EscapedAfter(s, x[i]),
             found |-> IF Closes(s, x[i]) THEN <<SubSeq(x, s.start, i)>> ELSE <<>>]
      BY <3>1, NativeStepIs
    <3>. QED
      BY <3>2, Zenon DEF c, s, i
  <2>8. /\ Opens(Copy(k), c) <=> Opens(N[m], c)
        /\ ~Closes(Copy(k), c)
        /\ DepthAfter(Copy(k), c) = DepthAfter(N[m], c)
        /\ InStringAfter(Copy(k), c) = InStringAfter(N[m], c)
        /\ EscapedAfter(Copy(k), c) = EscapedAfter(N[m], c)
    BY <1>9, <2>1, <2>5 DEF m
  <2>9. (IF Opens(Copy(k), c) THEN k + 1 ELSE Copy(k).start) = 1
    <3>1. CASE k = 0
      <4>1. m = a - 1 /\ m + 1 = a
        BY <3>1 DEF m
      <4>2. Opens(N[m], c)
        BY <1>7, <2>2, <4>1 DEF Opens
      <4>. QED
        BY <2>8, <3>1, <4>2
    <3>2. CASE k # 0
      <4>1. m \in a .. e - 1
        BY <3>2 DEF m
      <4>2. ~Opens(N[m], c)
        <5>1. N[m].depth > 0
          BY <1>7, <4>1
        <5>. QED
          BY <5>1 DEF Opens
      <4>3. Copy(k).start = 1
        BY <3>2 DEF Copy
      <4>. QED
        BY <2>8, <4>2, <4>3
    <3>. QED
      BY <3>1, <3>2
  <2>10. X[k + 1] = [start |-> 1, depth |-> N[m + 1].depth, inString |-> N[m + 1].inString,
                     escaped |-> N[m + 1].escaped, found |-> <<>>]
    BY <2>5, <2>6, <2>7, <2>8, <2>9
  <2>11. k + 1 # 0
    OBVIOUS
  <2>12. X[k + 1] = Copy(k + 1)
    BY <2>1, <2>10, <2>11 DEF Copy
  <2>. QED
    BY <2>1, <2>12
<1>12. \A k \in 0 .. n : k \in S
  <2>. HIDE DEF S, n
  <2>. QED
    BY <1>1, <1>10, <1>11, UpTo
<1>13. \A k \in 0 .. n : X[k] = Copy(k)
  BY <1>12
<1>14. ASSUME NEW k \in 0 .. n
       PROVE  X[k].found = <<>>
  <2>1. Copy(k).found = <<>>
    OBVIOUS
  <2>. HIDE DEF Copy, n
  <2>. QED
    BY <1>13, <2>1
<1>15. Y[n] = Copy(n) /\ X[n] = Copy(n) /\ Open(Copy(n), n)
  <2>1. n \in 0 .. Len(x) /\ n \in 0 .. n
    BY <1>1
  <2>2. Y[n] = X[n]
    BY <1>1, <1>14, <2>1, SameScan DEF X, Y
  <2>. QED
    BY <1>8, <1>13, <2>1, <2>2
<1>16. Closes(Copy(n), x[n + 1]) /\ Copy(n).start = 1
  <2>1. (a - 1) + n = e - 1 /\ (a - 1) + (n + 1) = e /\ n \in 0 .. n /\ n # 0 /\ n + 1 \in 1 .. n + 1
    BY <1>1
  <2>2. x[n + 1] = text[e]
    BY <1>1, <2>1
  <2>. QED
    BY <1>6, <1>9, <2>1, <2>2
<1>. HIDE DEF Copy
<1>17. SubSeq(x, 1, n + 1) = x
  BY <1>1, SubSeqFull
<1>18. n + 1 \in 1 .. Len(x) /\ (n + 1) - 1 = n /\ n + 1 \in 1 .. n + 1
  BY <1>1
<1>19. X[n + 1] = NativeStep(Copy(n), x, n + 1) /\ Y[n + 1] = RepositoryStep(Copy(n), x, n + 1)
  BY <1>3, <1>4, <1>15, <1>18
<1>. HIDE DEF n
<1>20. /\ NativeStep(Copy(n), x, n + 1).found = <<x>>
       /\ RepositoryStep(Copy(n), x, n + 1).found = <<x>>
  <2>. DEFINE s == Copy(n)
              m == n + 1
  <2>1. x \in Seq(Chars) /\ m \in 1 .. Len(x) /\ Open(s, m - 1) /\ Closes(s, x[m])
    BY <1>1, <1>15, <1>16, <1>18
  <2>2. SubSeq(x, s.start, m) = x
    BY <1>16, <1>17
  <2>. HIDE DEF s, m
  <2>3. /\ NativeStep(s, x, m).found = <<x>>
        /\ RepositoryStep(s, x, m).found = <<x>>
    BY <2>1, <2>2, ObjectFound
  <2>. QED
    BY <2>3 DEF s, m
<1>. QED
  BY <1>1, <1>19, <1>20
  DEF tryExtractCompleteJsonObject, extractBalancedJsonObjects, X, Y

(* The object the native scanner stops at is whole: given it alone, both   *)
(* scanners find it, and nothing else.                                     *)
THEOREM OneObjectForBoth ==
  ASSUME NEW text \in Seq(Chars), tryExtractCompleteJsonObject(text) # <<>>,
         NEW x, x = tryExtractCompleteJsonObject(text)[1]
  PROVE  /\ x \in Seq(Chars)
         /\ tryExtractCompleteJsonObject(x) = <<x>>
         /\ extractBalancedJsonObjects(x) = <<x>>
<1>1. PICK e \in 2 .. Len(text), a \in 1 .. Len(text) :
        /\ a < e
        /\ \A j \in 0 .. e - 1 : NativeScan(text)[j].found = <<>>
        /\ Closes(NativeScan(text)[e - 1], text[e])
        /\ NativeScan(text)[e - 1].start = a
        /\ tryExtractCompleteJsonObject(text) = <<SubSeq(text, a, e)>>
  BY FirstObject
<1>2. x = SubSeq(text, a, e)
  BY <1>1
<1>. QED
  BY <1>1, <1>2, ObjectAlone
=============================================================================
