---------------------------- MODULE CodecProofs ----------------------------
(***************************************************************************)
(* Proofs about Mounts and Codec, for every list of mounts, every path and *)
(* every set of documents.                                                 *)
(***************************************************************************)
EXTENDS Codec, WellFoundedInduction, SequenceTheorems, TLAPS

\* The form of induction the provers can use: a set of numbers has a least.
LEMMA LeastNat ==
  ASSUME NEW T \in SUBSET Nat, T # {}
  PROVE  \E n \in T : \A k \in T : n <= k
<1> DEFINE R == OpToRel(<, Nat)
<1>1. PICK n \in T : \A k \in T : ~(<<k, n>> \in R)
  BY NatLessThanWellFounded, WFMin
<1>2. \A k \in T : k < n => <<k, n>> \in R
  BY DEF OpToRel
<1>3. \A k \in T : ~(k < n)
  BY <1>1, <1>2, Zenon
<1> QED BY <1>3

LEMMA MountFields == \A m \in Mount : m # None /\ m.path \in Seq(STRING) /\ Len(m.path) \in Nat
<1>1. \A m \in Mount : m # None
  BY NoneAssumption
<1>2. \A m \in Mount : m.path \in Path
  BY DEF Mount
<1>3. \A p \in Path : p \in Seq(STRING) /\ Len(p) \in Nat
  BY DEF Path
<1> QED BY <1>1, <1>2, <1>3

-----------------------------------------------------------------------------
(* The loop of GetMount *)

\* bestMount after the i-th of the first n mounts is f[i].
LoopStep(ms, p, f, i) ==
  IF i = 0 THEN None
  ELSE IF MatchesPrefix(ms[i], p) /\ Better(ms[i], f[i - 1]) THEN ms[i] ELSE f[i - 1]

Loop(ms, p, f, n) == f = [i \in 0..n |-> LoopStep(ms, p, f, i)]

LEMMA LoopExists ==
  ASSUME NEW ms, NEW p, NEW n \in Nat
  PROVE  \E f : Loop(ms, p, f, n)
<1> DEFINE T == {k \in Nat : ~\E f : Loop(ms, p, f, k)}
<1> SUFFICES ASSUME T # {} PROVE FALSE
  OBVIOUS
<1>1. PICK k \in T : \A j \in T : k <= j
  <2> HIDE DEF T
  <2>1. T \in SUBSET Nat
    BY DEF T
  <2> QED BY <2>1, LeastNat
<1>2. k \in Nat /\ ~\E f : Loop(ms, p, f, k)
  OBVIOUS
<1>3. CASE k = 0
  <2> DEFINE f == [i \in 0..0 |-> None]
  <2>1. Loop(ms, p, f, 0)
    BY DEF Loop, LoopStep
  <2> QED BY <1>2, <1>3, <2>1
<1>4. CASE k # 0
  <2>1. k - 1 \in Nat /\ k - 1 \notin T
    BY <1>1, <1>2, <1>4
  <2>2. PICK f : Loop(ms, p, f, k - 1)
    BY <2>1
  <2> DEFINE g == [i \in 0..k |-> IF i = k THEN LoopStep(ms, p, f, k) ELSE f[i]]
  <2>3. \A i \in 0..(k - 1) : f[i] = LoopStep(ms, p, f, i)
    BY <2>2, Zenon DEF Loop
  <2>4. \A i \in 0..k : g[i] = LoopStep(ms, p, g, i)
    BY <1>2, <1>4, <2>3 DEF LoopStep
  <2>5. Loop(ms, p, g, k)
    <3>1. g = [i \in 0..k |-> g[i]]
      OBVIOUS
    <3> HIDE DEF g
    <3> QED BY <2>4, <3>1 DEF Loop
  <2> QED BY <1>2, <2>5
<1> QED BY <1>3, <1>4

LEMMA BestIsLoop ==
  ASSUME NEW ms, NEW p, Len(ms) \in Nat
  PROVE  \E f : /\ BestPrefix(ms, p) = f[Len(ms)]
                /\ \A i \in 0..Len(ms) : f[i] = LoopStep(ms, p, f, i)
<1>1. PICK f : Loop(ms, p, f, Len(ms))
  BY LoopExists
<1> DEFINE b == CHOOSE g : Loop(ms, p, g, Len(ms))
<1>2. Loop(ms, p, b, Len(ms))
  BY <1>1
<1>3. BestPrefix(ms, p) = b[Len(ms)]
  BY DEF BestPrefix, Loop, LoopStep
<1>4. \A i \in 0..Len(ms) : b[i] = LoopStep(ms, p, b, i)
  <2> HIDE DEF b
  <2> QED BY <1>2, Zenon DEF Loop
<1> QED BY <1>3, <1>4

\* b is the first of the longest paths among the first i mounts that match.
BestSoFar(ms, p, i, b) ==
  /\ b # None => \E j \in 1..i : MatchesPrefix(ms[j], p) /\ b = ms[j]
  /\ \A j \in 1..i : MatchesPrefix(ms[j], p) =>
       b # None /\ Len(ms[j].path) <= Len(b.path)

LEMMA BestPrefixIsBest ==
  ASSUME NEW ms \in Seq(Mount), NEW p
  PROVE  BestSoFar(ms, p, Len(ms), BestPrefix(ms, p))
<1>0. /\ Len(ms) \in Nat
      /\ \A i \in 1..Len(ms) : ms[i] # None /\ ms[i].path \in Seq(STRING)
                                 /\ Len(ms[i].path) \in Nat
  <2>1. \A i \in 1..Len(ms) : ms[i] \in Mount
    BY ElementOfSeq
  <2>2. \A m \in Mount : m # None /\ m.path \in Seq(STRING) /\ Len(m.path) \in Nat
    BY MountFields
  <2> QED BY <2>1, <2>2
<1>1. PICK f : /\ BestPrefix(ms, p) = f[Len(ms)]
               /\ \A i \in 0..Len(ms) : f[i] = LoopStep(ms, p, f, i)
  BY <1>0, BestIsLoop
<1> DEFINE T == {k \in 0..Len(ms) : ~BestSoFar(ms, p, k, f[k])}
<1>2. ASSUME T # {} PROVE FALSE
  <2>1. PICK k \in T : \A j \in T : k <= j
    <3> HIDE DEF T
    <3>1. T \in SUBSET Nat
      BY <1>0 DEF T
    <3> QED BY <1>2, <3>1, LeastNat
  <2>2. k \in 0..Len(ms) /\ ~BestSoFar(ms, p, k, f[k])
    OBVIOUS
  <2>3. CASE k = 0
    <3>1. f[k] = None
      BY <1>0, <1>1, <2>3 DEF LoopStep
    <3> QED BY <2>2, <2>3, <3>1 DEF BestSoFar
  <2>4. CASE k # 0
    <3>1. k - 1 \in 0..Len(ms) /\ k - 1 \notin T /\ k \in 1..Len(ms)
      BY <1>0, <2>1, <2>2, <2>4
    <3>2. BestSoFar(ms, p, k - 1, f[k - 1])
      BY <3>1
    <3>3. f[k] = IF MatchesPrefix(ms[k], p) /\ Better(ms[k], f[k - 1])
                   THEN ms[k] ELSE f[k - 1]
      BY <1>0, <1>1, <2>2, <2>4 DEF LoopStep
    <3> HIDE DEF T
    <3>4. 1..k = 1..(k - 1) \cup {k} /\ k \in Nat
      BY <1>0, <3>1
    <3>5. CASE MatchesPrefix(ms[k], p) /\ Better(ms[k], f[k - 1])
      <4>1. f[k] = ms[k] /\ f[k] # None
        BY <1>0, <3>1, <3>3, <3>5
      <4>2. \E j \in 1..k : MatchesPrefix(ms[j], p) /\ f[k] = ms[j]
        BY <3>4, <3>5, <4>1
      <4>3. ASSUME NEW j \in 1..(k - 1), MatchesPrefix(ms[j], p)
            PROVE  Len(ms[j].path) <= Len(f[k].path)
        <5>1. f[k - 1] # None /\ Len(ms[j].path) <= Len(f[k - 1].path)
          BY <3>2, <4>3 DEF BestSoFar
        <5>2. PICK l \in 1..(k - 1) : f[k - 1] = ms[l]
          BY <3>2, <5>1 DEF BestSoFar
        <5>3. Len(ms[k].path) > Len(ms[l].path)
          BY <3>5, <5>1, <5>2 DEF Better
        <5>4. j \in 1..Len(ms) /\ l \in 1..Len(ms)
          BY <1>0, <3>1
        <5> QED BY <1>0, <3>1, <4>1, <5>1, <5>2, <5>3, <5>4
      <4>4. Len(ms[k].path) <= Len(f[k].path)
        BY <1>0, <3>1, <4>1
      <4> QED BY <2>2, <3>4, <4>1, <4>2, <4>3, <4>4 DEF BestSoFar
    <3>6. CASE ~(MatchesPrefix(ms[k], p) /\ Better(ms[k], f[k - 1]))
      <4>1. f[k] = f[k - 1]
        BY <3>3, <3>6
      <4>2. ASSUME MatchesPrefix(ms[k], p)
            PROVE  f[k] # None /\ Len(ms[k].path) <= Len(f[k].path)
        <5>1. f[k - 1] # None /\ ~(Len(ms[k].path) > Len(f[k - 1].path))
          BY <3>6, <4>2 DEF Better
        <5>2. PICK l \in 1..(k - 1) : f[k - 1] = ms[l]
          BY <3>2, <5>1 DEF BestSoFar
        <5>3. l \in 1..Len(ms)
          BY <1>0, <3>1
        <5> QED BY <1>0, <3>1, <4>1, <5>1, <5>2, <5>3
      <4> QED BY <2>2, <3>2, <3>4, <4>1, <4>2 DEF BestSoFar
    <3> QED BY <3>5, <3>6
  <2> QED BY <2>3, <2>4
<1>3. BestSoFar(ms, p, Len(ms), f[Len(ms)])
  BY <1>0, <1>2
<1> QED BY <1>1, <1>3

-----------------------------------------------------------------------------
(* GetMount *)

\* The path begins with one slash.
OneSlash(q) == Len(q) >= 1 /\ q[1] = Slash /\ (Len(q) > 1 => q[2] # Slash)

LEMMA TrimOne ==
  ASSUME NEW q \in Seq(STRING), OneSlash(q)
  PROVE  Len(TrimLeft(q)) = Len(q) - 1
<1>1. Len(q) \in Nat /\ Len(q) >= 1 /\ q[1] = Slash /\ (Len(q) > 1 => q[2] # Slash)
  BY DEF OneSlash
<1> DEFINE Is(n) == (\A i \in 1..n : q[i] = Slash) /\ (n < Len(q) => q[n + 1] # Slash)
<1>2. 1 \in 0..Len(q) /\ Is(1)
  BY <1>1
<1>3. ASSUME NEW n \in 0..Len(q), Is(n) PROVE n = 1
  <2>1. CASE n = 0
    BY <1>1, <1>3, <2>1
  <2>2. CASE n > 1
    <3>1. 2 \in 1..n /\ Len(q) > 1
      BY <1>1, <2>2
    <3> QED BY <1>1, <1>3, <3>1
  <2> QED BY <1>1, <2>1, <2>2
<1>4. LeadingSlashes(q) = CHOOSE n \in 0..Len(q) : Is(n)
  BY DEF LeadingSlashes
<1> HIDE DEF Is
<1>5. LeadingSlashes(q) = 1
  BY <1>2, <1>3, <1>4
<1>6. \A i \in 2..Len(q) : q[i] \in STRING
  BY <1>1, ElementOfSeq
<1>7. Len(SubSeq(q, 2, Len(q))) = IF 2 <= Len(q) THEN Len(q) - 2 + 1 ELSE 0
  BY <1>1, <1>6, SubSeqProperties
<1>8. LeadingSlashes(q) + 1 = 2
  BY <1>5
<1>9. TrimLeft(q) = SubSeq(q, 2, Len(q))
  BY <1>8, Zenon DEF TrimLeft
<1>10. Len(TrimLeft(q)) = IF 2 <= Len(q) THEN Len(q) - 2 + 1 ELSE 0
  BY <1>7, <1>9, Zenon
<1> DEFINE n == Len(q)
           t == Len(TrimLeft(q))
<1>11. n \in Nat /\ n >= 1 /\ t = IF 2 <= n THEN n - 2 + 1 ELSE 0
  BY <1>1, <1>10
<1> HIDE DEF n, t
<1>12. t = n - 1
  BY <1>11
<1> QED BY <1>12 DEF n, t

\* A mount that is matched exactly, or the best prefix.
LEMMA GetMountFinds ==
  ASSUME NEW ms \in Seq(Mount), NEW p
  PROVE  \/ \E i \in 1..Len(ms) : MatchesExactly(ms[i], p) /\ GetMount(ms, p) = ms[i]
         \/ /\ \A i \in 1..Len(ms) : ~MatchesExactly(ms[i], p)
            /\ GetMount(ms, p) = BestPrefix(ms, p)
<1> DEFINE exact == {i \in 1..Len(ms) : MatchesExactly(ms[i], p)}
<1>1. GetMount(ms, p) = IF exact # {} THEN ms[Min(exact)] ELSE BestPrefix(ms, p)
  BY DEF GetMount
<1>2. CASE exact = {}
  BY <1>1, <1>2
<1>3. CASE exact # {}
  <2>1. exact \in SUBSET Nat
    OBVIOUS
  <2>2. \A i \in exact : i \in 1..Len(ms) /\ MatchesExactly(ms[i], p)
    OBVIOUS
  <2> HIDE DEF exact
  <2>3. \E n \in exact : \A k \in exact : n <= k
    BY <1>3, <2>1, LeastNat
  <2>4. Min(exact) \in exact
    BY <2>3 DEF Min
  <2> QED BY <1>1, <1>3, <2>2, <2>4
<1> QED BY <1>2, <1>3

\* manifest/schema.go:138-140: whatever the mounts of a manifest and whatever
\* the path, GetMount returns the mount that matches most of the path, and
\* none only if none matches, as long as the paths of the mounts all begin
\* with one slash.
THEOREM GetMountIsBest ==
  ASSUME NEW ms \in Seq(Mount), \A i \in 1..Len(ms) : OneSlash(ms[i].path), NEW p
  PROVE  IsBest(GetMount(ms, p), ms, p)
<1> DEFINE g == GetMount(ms, p)
           b == BestPrefix(ms, p)
<1>1. \A i \in 1..Len(ms) : /\ ms[i] # None /\ Len(ms[i].path) \in Nat
                            /\ MatchLength(ms[i]) = Len(ms[i].path) - 1
  <2>1. \A i \in 1..Len(ms) : ms[i] \in Mount
    BY ElementOfSeq
  <2>2. \A m \in Mount : m # None /\ m.path \in Seq(STRING) /\ Len(m.path) \in Nat
    BY MountFields
  <2> QED BY <2>1, <2>2, TrimOne DEF MatchLength
<1>2. ASSUME NEW c \in Candidates(ms, p)
      PROVE  \E i \in 1..Len(ms) : /\ c = ms[i]
                                   /\ MatchesExactly(ms[i], p) \/ MatchesPrefix(ms[i], p)
  BY DEF Candidates
<1>3. ASSUME NEW i \in 1..Len(ms), MatchesExactly(ms[i], p), g = ms[i]
      PROVE  IsBest(g, ms, p)
  <2>1. g \in Candidates(ms, p)
    BY <1>3 DEF Candidates
  <2>2. MatchLength(g) = Len(TrimLeft(p)) /\ MatchLength(g) \in Int
    BY <1>1, <1>3 DEF MatchesExactly, MatchLength
  <2>3. ASSUME NEW c \in Candidates(ms, p) PROVE MatchLength(g) >= MatchLength(c)
    <3>1. PICK j \in 1..Len(ms) : /\ c = ms[j]
                                  /\ MatchesExactly(ms[j], p) \/ MatchesPrefix(ms[j], p)
      BY <1>2
    <3>2. MatchLength(c) = Len(TrimLeft(p)) \/ MatchLength(c) <= Len(TrimLeft(p))
      BY <3>1 DEF MatchesExactly, MatchesPrefix, MatchLength, IsPrefix
    <3> QED BY <2>2, <3>2
  <2> QED BY <2>1, <2>3 DEF IsBest
<1>4. ASSUME \A i \in 1..Len(ms) : ~MatchesExactly(ms[i], p), g = b
      PROVE  IsBest(g, ms, p)
  <2>1. BestSoFar(ms, p, Len(ms), g)
    BY <1>4, BestPrefixIsBest
  <2> HIDE DEF g, b
  <2>2. CASE g = None
    <3>1. Candidates(ms, p) = {}
      BY <1>2, <1>4, <2>1, <2>2 DEF BestSoFar
    <3> QED BY <2>2, <3>1 DEF IsBest
  <2>3. CASE g # None
    <3>1. PICK l \in 1..Len(ms) : MatchesPrefix(ms[l], p) /\ g = ms[l]
      BY <2>1, <2>3 DEF BestSoFar
    <3>2. g \in Candidates(ms, p)
      BY <3>1 DEF Candidates
    <3>3. ASSUME NEW c \in Candidates(ms, p) PROVE MatchLength(g) >= MatchLength(c)
      <4>1. PICK j \in 1..Len(ms) : c = ms[j] /\ MatchesPrefix(ms[j], p)
        BY <1>2, <1>4
      <4>2. Len(ms[j].path) <= Len(ms[l].path)
        BY <2>1, <3>1, <4>1 DEF BestSoFar
      <4> QED BY <1>1, <3>1, <4>1, <4>2
    <3> QED BY <3>2, <3>3 DEF IsBest
  <2> QED BY <2>2, <2>3
<1> HIDE DEF g, b
<1>5. \/ \E i \in 1..Len(ms) : MatchesExactly(ms[i], p) /\ g = ms[i]
      \/ (\A i \in 1..Len(ms) : ~MatchesExactly(ms[i], p)) /\ g = b
  BY GetMountFinds DEF g, b
<1>6. IsBest(g, ms, p)
  BY <1>3, <1>4, <1>5
<1> QED BY <1>6 DEF g

-----------------------------------------------------------------------------
(* Numbers in a netmask *)

\* The value of the first i digits is f[i].
DigitStep(ds, f, i) ==
  IF i = 0 THEN 0
  ELSE IF f[i - 1] > 32 \/ ds[i] > 9 THEN 33
  ELSE 10 * f[i - 1] + ds[i]

Digits(ds, f, n) == f = [i \in 0..n |-> DigitStep(ds, f, i)]

LEMMA DigitsExist ==
  ASSUME NEW ds, NEW n \in Nat
  PROVE  \E f : Digits(ds, f, n)
<1> DEFINE T == {k \in Nat : ~\E f : Digits(ds, f, k)}
<1> SUFFICES ASSUME T # {} PROVE FALSE
  OBVIOUS
<1>1. PICK k \in T : \A j \in T : k <= j
  <2> HIDE DEF T
  <2>1. T \in SUBSET Nat
    BY DEF T
  <2> QED BY <2>1, LeastNat
<1>2. k \in Nat /\ ~\E f : Digits(ds, f, k)
  OBVIOUS
<1>3. CASE k = 0
  <2> DEFINE f == [i \in 0..0 |-> 0]
  <2>1. Digits(ds, f, 0)
    BY DEF Digits, DigitStep
  <2> QED BY <1>2, <1>3, <2>1
<1>4. CASE k # 0
  <2>1. k - 1 \in Nat /\ k - 1 \notin T
    BY <1>1, <1>2, <1>4
  <2>2. PICK f : Digits(ds, f, k - 1)
    BY <2>1
  <2> DEFINE g == [i \in 0..k |-> IF i = k THEN DigitStep(ds, f, k) ELSE f[i]]
  <2>3. \A i \in 0..(k - 1) : f[i] = DigitStep(ds, f, i)
    BY <2>2, Zenon DEF Digits
  <2>4. \A i \in 0..k : g[i] = DigitStep(ds, g, i)
    BY <1>2, <1>4, <2>3 DEF DigitStep
  <2>5. Digits(ds, g, k)
    <3>1. g = [i \in 0..k |-> g[i]]
      OBVIOUS
    <3> HIDE DEF g
    <3> QED BY <2>4, <3>1 DEF Digits
  <2> QED BY <1>2, <2>5
<1> QED BY <1>3, <1>4

LEMMA NumberIsDigits ==
  ASSUME NEW ds, Len(ds) \in Nat
  PROVE  \E f : /\ Number(ds) = f[Len(ds)]
                /\ \A i \in 0..Len(ds) : f[i] = DigitStep(ds, f, i)
<1>1. PICK f : Digits(ds, f, Len(ds))
  BY DigitsExist
<1> DEFINE v == CHOOSE g : Digits(ds, g, Len(ds))
<1>2. Digits(ds, v, Len(ds))
  BY <1>1
<1>3. Number(ds) = v[Len(ds)]
  BY DEF Number, Digits, DigitStep
<1>4. \A i \in 0..Len(ds) : v[i] = DigitStep(ds, v, i)
  <2> HIDE DEF v
  <2> QED BY <1>2, Zenon DEF Digits
<1> QED BY <1>3, <1>4

LEMMA NumberNat ==
  ASSUME NEW ds \in Seq(Nat)
  PROVE  Number(ds) \in Nat
<1>1. PICK f : /\ Number(ds) = f[Len(ds)]
               /\ \A i \in 0..Len(ds) : f[i] = DigitStep(ds, f, i)
  BY NumberIsDigits
<1>2. Len(ds) \in Nat /\ \A i \in 1..Len(ds) : ds[i] \in Nat
  BY ElementOfSeq
<1> DEFINE T == {k \in 0..Len(ds) : f[k] \notin Nat}
<1>3. ASSUME T # {} PROVE FALSE
  <2>1. PICK k \in T : \A j \in T : k <= j
    <3> HIDE DEF T
    <3>1. T \in SUBSET Nat
      BY <1>2 DEF T
    <3> QED BY <1>3, <3>1, LeastNat
  <2>2. k \in 0..Len(ds) /\ f[k] \notin Nat
    OBVIOUS
  <2>3. CASE k = 0
    BY <1>1, <2>2, <2>3 DEF DigitStep
  <2>4. CASE k # 0
    <3>1. k - 1 \in 0..Len(ds) /\ k - 1 \notin T /\ k \in 1..Len(ds)
      BY <1>2, <2>1, <2>2, <2>4
    <3>2. f[k - 1] \in Nat /\ ds[k] \in Nat
      BY <1>2, <3>1
    <3>3. f[k] = DigitStep(ds, f, k)
      BY <1>1, <2>2
    <3> QED BY <2>2, <2>4, <3>2, <3>3 DEF DigitStep
  <2> QED BY <2>3, <2>4
<1> QED BY <1>1, <1>2, <1>3

LEMMA MaskDigit ==
  ASSUME NEW ones \in 0..32, NEW i \in 1..8
  PROVE  LET d == MaskDigits(ones)[i]
         IN /\ d \in Nat
            /\ ones = 0 => d = 0
            /\ ones = 1 => (i = 1 => d = 8) /\ (i = 2 => d = 0)
            /\ ones > 1 /\ i = 1 => d > 9
<1> DEFINE k == AtMost(AtLeast(ones - 4 * (i - 1), 0), 4)
           d == MaskDigits(ones)[i]
<1>1. d = HexDigit[1 + k]
  BY DEF MaskDigits
<1>2. /\ k \in {0, 1, 2, 3, 4}
      /\ ones = 0 => k = 0
      /\ ones = 1 => (i = 1 => k = 1) /\ (i = 2 => k = 0)
      /\ ones > 1 /\ i = 1 => k \in {2, 3, 4}
  BY DEF AtMost, AtLeast
<1> HIDE DEF k, d
<1>3. /\ HexDigit[1] = 0 /\ HexDigit[2] = 8 /\ HexDigit[3] = 12 /\ HexDigit[4] = 14
      /\ HexDigit[5] = 15
  BY DEF HexDigit
<1>4. /\ k = 0 => 1 + k = 1
      /\ k = 1 => 1 + k = 2
      /\ k = 2 => 1 + k = 3
      /\ k = 3 => 1 + k = 4
      /\ k = 4 => 1 + k = 5
  OBVIOUS
<1>5. /\ k = 0 => d = 0
      /\ k = 1 => d = 8
      /\ k = 2 => d = 12
      /\ k = 3 => d = 14
      /\ k = 4 => d = 15
  BY <1>1, <1>3, <1>4, Zenon
<1>6. /\ d \in Nat
      /\ ones = 0 => d = 0
      /\ ones = 1 => (i = 1 => d = 8) /\ (i = 2 => d = 0)
      /\ ones > 1 /\ i = 1 => d > 9
  BY <1>2, <1>5
<1> QED BY <1>6 DEF d

LEMMA MaskLength == ASSUME NEW ones \in 0..32 PROVE Len(MaskDigits(ones)) = 8
<1> DEFINE ds == MaskDigits(ones)
<1>1. DOMAIN ds = 1..8 /\ ds = [i \in 1..8 |-> ds[i]]
  BY DEF MaskDigits
<1>2. \A i \in 1..8 : ds[i] \in Nat
  BY MaskDigit
<1> HIDE DEF ds
<1>3. ds \in [1..8 -> Nat]
  BY <1>1, <1>2
<1>4. [1..8 -> Nat] \in {[1..n -> Nat] : n \in Nat}
  OBVIOUS
<1>5. ds \in Seq(Nat)
  BY <1>3, <1>4, SeqDef, Zenon
<1>6. Len(ds) \in Nat /\ DOMAIN ds = 1..Len(ds)
  BY <1>5, LenProperties
<1>7. Len(ds) = 8
  BY <1>1, <1>6
<1> QED BY <1>7 DEF ds

\* IPMask.String() writes hexadecimal digits and ParseCIDR reads decimal
\* ones: only the netmask /0 reads back, every other one is too large.
LEMMA MaskReadsBack ==
  ASSUME NEW ones \in 0..32
  PROVE  LET n == Number(MaskDigits(ones)) IN n > 32 \/ n = ones
<1> DEFINE ds == MaskDigits(ones)
<1>1. /\ Len(ds) = 8
      /\ ones = 0 => \A i \in 1..8 : ds[i] = 0
      /\ ones = 1 => ds[1] = 8 /\ ds[2] = 0
      /\ ones > 1 => ds[1] > 9
  <2>1. 1 \in 1..8 /\ 2 \in 1..8
    OBVIOUS
  <2> HIDE DEF ds
  <2> QED BY <2>1, MaskLength, MaskDigit DEF ds
<1> HIDE DEF ds
<1>2. PICK f : /\ Number(ds) = f[8]
               /\ \A i \in 0..8 : f[i] = DigitStep(ds, f, i)
  <2>1. Len(ds) \in Nat
    BY <1>1
  <2>2. PICK f : /\ Number(ds) = f[Len(ds)]
                 /\ \A i \in 0..Len(ds) : f[i] = DigitStep(ds, f, i)
    BY <2>1, NumberIsDigits
  <2> QED BY <1>1, <2>2, Zenon
<1>3. f[0] = 0 /\ \A i \in 1..8 : f[i] = IF f[i - 1] > 32 \/ ds[i] > 9 THEN 33
                                        ELSE 10 * f[i - 1] + ds[i]
  BY <1>2 DEF DigitStep
<1>4. /\ f[1] = IF f[0] > 32 \/ ds[1] > 9 THEN 33 ELSE 10 * f[0] + ds[1]
      /\ f[2] = IF f[1] > 32 \/ ds[2] > 9 THEN 33 ELSE 10 * f[1] + ds[2]
      /\ f[3] = IF f[2] > 32 \/ ds[3] > 9 THEN 33 ELSE 10 * f[2] + ds[3]
      /\ f[4] = IF f[3] > 32 \/ ds[4] > 9 THEN 33 ELSE 10 * f[3] + ds[4]
      /\ f[5] = IF f[4] > 32 \/ ds[5] > 9 THEN 33 ELSE 10 * f[4] + ds[5]
      /\ f[6] = IF f[5] > 32 \/ ds[6] > 9 THEN 33 ELSE 10 * f[5] + ds[6]
      /\ f[7] = IF f[6] > 32 \/ ds[7] > 9 THEN 33 ELSE 10 * f[6] + ds[7]
      /\ f[8] = IF f[7] > 32 \/ ds[8] > 9 THEN 33 ELSE 10 * f[7] + ds[8]
  BY <1>3
<1>5. CASE ones = 0
  <2>1. /\ ds[1] = 0 /\ ds[2] = 0 /\ ds[3] = 0 /\ ds[4] = 0
        /\ ds[5] = 0 /\ ds[6] = 0 /\ ds[7] = 0 /\ ds[8] = 0
    BY <1>1, <1>5
  <2>2. f[8] = 0
    BY <1>3, <1>4, <2>1
  <2> QED BY <1>2, <1>5, <2>2 DEF ds
<1>6. CASE ones # 0
  <2>1. f[2] > 32
    BY <1>1, <1>3, <1>4, <1>6
  <2>2. f[8] > 32
    BY <1>4, <2>1
  <2> QED BY <1>2, <2>2 DEF ds
<1> QED BY <1>5, <1>6

-----------------------------------------------------------------------------
(* Decoding and encoding *)

LEMMA Values ==
  /\ Zero \in IPWithNet /\ Refused \notin IPWithNet /\ None \notin Manifest
  /\ Refused \notin Manifest /\ Refused \notin {0, 6, 8, 20}
BY FreshAssumption DEF IPWithNet

\* The text of an address is decoded to an IPWithNet or refused.
LEMMA TextDecodes ==
  ASSUME NEW t, t # None => t.mask \in Seq(Nat)
  PROVE  UnmarshalText(t) \in IPWithNet \cup {Refused}
<1>1. CASE t = None
  BY <1>1 DEF UnmarshalText, IPWithNet
<1>2. CASE t # None
  <2> DEFINE n == Number(t.mask)
  <2>1. n \in Nat
    BY <1>2, NumberNat
  <2> HIDE DEF n
  <2>2. ParseCIDR(t) = IF t.addr \notin Addr \/ t.mask = <<>> \/ n > 32 THEN Refused
                       ELSE [addr |-> t.addr, ones |-> n]
    BY DEF ParseCIDR, n
  <2>3. ASSUME NEW a \in Addr, ~(n > 32) PROVE [addr |-> a, ones |-> n] \in IPWithNet
    BY <2>1, <2>3 DEF IPWithNet
  <2>4. ParseCIDR(t) \in IPWithNet \cup {Refused}
    BY <2>2, <2>3
  <2> QED BY <1>2, <2>4 DEF UnmarshalText
<1> QED BY <1>1, <1>2

\* What encoding/json writes is refused or decoded to the same value.
LEMMA JsonReadsBack ==
  ASSUME NEW v \in IPWithNet
  PROVE  ReadIPv4(JsonIPv4(v)) \in {v, Refused}
<1> DEFINE t == String(v)
<1>1. t # None
  BY FreshAssumption
<1>2. JsonIPv4(v) = t
  BY DEF JsonIPv4, MarshalText
<1>3. CASE v = Zero
  <2>1. t = [addr |-> Refused, mask |-> <<>>]
    BY <1>3 DEF String
  <2>2. "fields" \notin DOMAIN t /\ t.addr \notin Addr
    BY <2>1, FreshAssumption
  <2> HIDE DEF t
  <2> QED BY <1>1, <1>2, <2>2 DEF ReadIPv4, UnmarshalText, ParseCIDR
<1>4. CASE v # Zero
  <2>1. v \in [addr : Addr, ones : 0..32]
    BY <1>4 DEF IPWithNet
  <2> DEFINE ds == MaskDigits(v.ones)
             n == Number(ds)
  <2>2. t = [addr |-> v.addr, mask |-> ds]
    BY <1>4 DEF String
  <2>3. n > 32 \/ n = v.ones
    BY <2>1, MaskReadsBack
  <2> HIDE DEF ds
  <2>4. "fields" \notin DOMAIN t /\ t.addr = v.addr /\ t.mask = ds
    BY <2>2
  <2> HIDE DEF t, n
  <2>5. \/ ParseCIDR(t) = Refused
        \/ ~(n > 32) /\ ParseCIDR(t) = [addr |-> v.addr, ones |-> n]
    <3>1. Number(t.mask) = n
      BY <2>4, Zenon DEF n
    <3>2. ParseCIDR(t) = IF t.addr \notin Addr \/ t.mask = <<>> \/ n > 32 THEN Refused
                         ELSE [addr |-> t.addr, ones |-> n]
      BY <3>1, Zenon DEF ParseCIDR
    <3>3. CASE n > 32
      BY <3>2, <3>3, Zenon
    <3>4. CASE ~(n > 32)
      BY <2>4, <3>2, <3>4, Zenon
    <3> QED BY <3>3, <3>4
  <2>6. v = [addr |-> v.addr, ones |-> v.ones]
    BY <2>1
  <2>7. ParseCIDR(t) \in {v, Refused}
    BY <2>3, <2>5, <2>6
  <2> QED BY <1>1, <1>2, <2>4, <2>7 DEF ReadIPv4, UnmarshalText
<1> QED BY <1>3, <1>4

\* What yaml.v2 writes is decoded to the same value.
LEMMA YamlReadsBack ==
  ASSUME NEW v \in IPWithNet
  PROVE  ReadIPv4(YamlIPv4(v)) = v
<1>1. YamlIPv4(v) # None
  BY FreshAssumption
<1> QED BY <1>1 DEF ReadIPv4, YamlIPv4

LEMMA MacReadsBack ==
  ASSUME NEW n \in {0, 6, 8, 20}
  PROVE  UnmarshalMAC(MarshalMAC(n)) = n
<1>1. CASE n = 0
  BY <1>1 DEF UnmarshalMAC, MarshalMAC
<1>2. CASE n # 0
  <2>1. MarshalMAC(n) # None
    BY <1>2, FreshAssumption
  <2> QED BY <1>2, <2>1 DEF UnmarshalMAC, MarshalMAC, ParseMAC
<1> QED BY <1>1, <1>2

\* Manifests that differ in the Go types of their vars only are the same.
LEMMA SameRecords ==
  ASSUME NEW a, NEW b, NEW c, NEW d, NEW e, NEW f
  PROVE  Same([ipv4 |-> a, hw |-> b, nested |-> c, mounts |-> d, generic |-> e],
              [ipv4 |-> a, hw |-> b, nested |-> c, mounts |-> d, generic |-> f])
<1> DEFINE w == FALSE
           R(x) == [ipv4 |-> a, hw |-> b, nested |-> c, mounts |-> d, generic |-> x]
<1>1. Same(R(e), R(f)) <=> [R(e) EXCEPT !.generic = w] = [R(f) EXCEPT !.generic = w]
  BY DEF Same
<1> HIDE DEF w
<1>2. [R(e) EXCEPT !.generic = w] = R(w)
  OBVIOUS
<1>3. [R(f) EXCEPT !.generic = w] = R(w)
  OBVIOUS
<1>4. Same(R(e), R(f))
  BY <1>1, <1>2, <1>3, Zenon
<1> QED BY <1>4

\* The documents the server writes.
Written(m) == {Document("yaml", YamlIPv4(m.ipv4), m), Document("json", JsonIPv4(m.ipv4), m)}

\* A document an operator wrote is refused, or is a valid manifest.
LEMMA FirstRead ==
  ASSUME NEW d \in Docs, Unmarshal(d) # Refused
  PROVE  Unmarshal(d) \in Manifest /\ Valid(Unmarshal(d).mounts)
<1> DEFINE v == ReadIPv4(d.ipv4)
           n == UnmarshalMAC(d.hw)
           m == [ipv4 |-> v, hw |-> n, nested |-> d.nested, mounts |-> d.mounts,
                 generic |-> d.nested /\ d.format = "yaml"]
<1>1. v # Refused /\ n # Refused /\ Valid(d.mounts) /\ Unmarshal(d) = m
  BY DEF Unmarshal
<1>2. v \in IPWithNet
  BY <1>1, TextDecodes, DocsAssumption DEF ReadIPv4
<1>3. n \in {0, 6, 8, 20}
  BY <1>1 DEF UnmarshalMAC, ParseMAC
<1>4. d.nested \in BOOLEAN /\ (d.nested /\ d.format = "yaml") \in BOOLEAN
  BY DocsAssumption
<1> HIDE DEF v, n
<1>5. m \in Manifest /\ m.mounts = d.mounts
  BY <1>2, <1>3, <1>4 DEF Manifest
<1> QED BY <1>1, <1>5

\* A document the server wrote is refused, or is the manifest it was written
\* from; in YAML it is never refused.
LEMMA LaterRead ==
  ASSUME NEW m \in Manifest, Valid(m.mounts), NEW d \in Written(m)
  PROVE  /\ Unmarshal(d) # Refused =>
              /\ Unmarshal(d) \in Manifest /\ Valid(Unmarshal(d).mounts)
              /\ Same(Unmarshal(d), m)
         /\ d.format = "yaml" => Unmarshal(d) # Refused
<1> DEFINE v == ReadIPv4(d.ipv4)
           n == UnmarshalMAC(d.hw)
           g == d.nested /\ d.format = "yaml"
           r == [ipv4 |-> v, hw |-> n, nested |-> d.nested, mounts |-> d.mounts,
                 generic |-> g]
<1>1. /\ m.ipv4 \in IPWithNet /\ m.hw \in {0, 6, 8, 20} /\ m.nested \in BOOLEAN
      /\ m.mounts \in {x.mounts : x \in Docs} /\ m.generic \in BOOLEAN
      /\ m = [ipv4 |-> m.ipv4, hw |-> m.hw, nested |-> m.nested, mounts |-> m.mounts,
              generic |-> m.generic]
  BY DEF Manifest
<1>2. /\ d.hw = MarshalMAC(m.hw) /\ d.nested = m.nested /\ d.mounts = m.mounts
      /\ \/ d.format = "yaml" /\ d.ipv4 = YamlIPv4(m.ipv4)
         \/ d.format = "json" /\ d.ipv4 = JsonIPv4(m.ipv4)
  BY DEF Written, Document
<1>3. n = m.hw /\ n # Refused
  BY <1>1, <1>2, MacReadsBack, Values
<1>4. /\ v \in {m.ipv4, Refused}
      /\ d.format = "yaml" => v = m.ipv4 /\ v # Refused
  BY <1>1, <1>2, YamlReadsBack, JsonReadsBack, Values
<1>5. Unmarshal(d) = IF v = Refused THEN Refused ELSE r
  BY <1>2, <1>3 DEF Unmarshal
<1>6. g \in BOOLEAN
  BY <1>1, <1>2
<1> HIDE DEF v, n, g
<1>7. ASSUME v # Refused
      PROVE  r \in Manifest /\ Valid(r.mounts) /\ Same(r, m) /\ r # Refused
  <2>1. r = [ipv4 |-> m.ipv4, hw |-> m.hw, nested |-> m.nested, mounts |-> m.mounts,
             generic |-> g]
    BY <1>2, <1>3, <1>4, <1>7
  <2>2. r \in Manifest /\ r.mounts = m.mounts
    BY <1>1, <1>6, <2>1 DEF Manifest
  <2>3. Same([ipv4 |-> m.ipv4, hw |-> m.hw, nested |-> m.nested, mounts |-> m.mounts,
              generic |-> g],
             [ipv4 |-> m.ipv4, hw |-> m.hw, nested |-> m.nested, mounts |-> m.mounts,
              generic |-> m.generic])
    BY SameRecords
  <2>4. Same(r, m)
    BY <1>1, <2>1, <2>3, Zenon
  <2> HIDE DEF r
  <2> QED BY <2>2, <2>4, Values
<1> HIDE DEF r
<1> QED BY <1>4, <1>5, <1>7

-----------------------------------------------------------------------------
(* The invariant of Codec *)

Inv ==
  /\ stage \in {"document", "manifest", "error"}
  /\ first = None => stage # "manifest" /\ doc \in Docs
  /\ first # None => /\ man \in Manifest /\ Valid(man.mounts) /\ Same(man, first)
                     /\ stage = "document" => doc \in Written(man)

LEMMA InitInv == Init => Inv
BY DEF Init, Inv

LEMMA ReadInv == ASSUME Inv, Read PROVE Inv'
<1> DEFINE m == Unmarshal(doc)
<1>1. CASE m = Refused
  BY <1>1 DEF Read, Inv
<1>2. CASE m # Refused /\ first = None
  <2>1. doc \in Docs /\ stage' = "manifest" /\ man' = m /\ first' = m
    BY <1>2 DEF Inv, Read
  <2>2. m \in Manifest /\ Valid(m.mounts) /\ m # None
    BY <1>2, <2>1, FirstRead, Values
  <2> HIDE DEF m
  <2> QED BY <2>1, <2>2 DEF Inv, Same
<1>3. CASE m # Refused /\ first # None
  <2>1. /\ stage' = "manifest" /\ man' = m /\ first' = first
        /\ doc \in Written(man) /\ man \in Manifest /\ Valid(man.mounts) /\ Same(man, first)
    BY <1>3 DEF Inv, Read
  <2>2. m \in Manifest /\ Valid(m.mounts) /\ Same(m, man)
    BY <1>3, <2>1, LaterRead
  <2> HIDE DEF m
  <2>3. Same(m, first)
    BY <2>1, <2>2 DEF Same
  <2> QED BY <1>3, <2>1, <2>2, <2>3 DEF Inv, Same
<1> QED BY <1>1, <1>2, <1>3

LEMMA NextInv == Inv /\ [Next]_vars => Inv'
<1> SUFFICES ASSUME Inv, [Next]_vars PROVE Inv'
  OBVIOUS
<1>1. CASE Read
  BY <1>1, ReadInv
<1>2. ASSUME ToYaml \/ ToJson PROVE Inv'
  <2>1. /\ first # None /\ man' = man /\ first' = first
        /\ stage' = "error" \/ (stage' = "document" /\ doc' \in Written(man))
    <3>1. CASE ToYaml
      BY <3>1 DEF ToYaml, Written, Inv
    <3>2. CASE ToJson
      <4>1. first # None /\ man' = man /\ first' = first
        BY <3>2 DEF ToJson, Inv
      <4>2. \/ stage' = "error"
            \/ stage' = "document" /\ doc' = Document("json", JsonIPv4(man.ipv4), man)
        BY <3>2, Zenon DEF ToJson
      <4> QED BY <4>1, <4>2 DEF Written
    <3> QED BY <1>2, <3>1, <3>2
  <2> QED BY <2>1 DEF Inv, Same, Written
<1>3. CASE UNCHANGED vars
  BY <1>3 DEF vars, Inv, Same, Written
<1> QED BY <1>1, <1>2, <1>3 DEF Next

LEMMA InvHolds == Spec => []Inv
BY InitInv, NextInv, PTL DEF Spec

\* However often, and in whichever formats, a manifest is fetched and put
\* again, for every netmask, MAC address, list of mounts and vars: what is
\* accepted is the manifest that was put first.
THEOREM RoundTrips == Spec => []ReadBackSame
<1>1. Inv => ReadBackSame
  BY DEF Inv, ReadBackSame
<1> QED BY <1>1, InvHolds, PTL

\* What the API writes as YAML, the API accepts.
THEOREM YamlAccepted == Spec => YamlReadBack
<1>1. Inv /\ [Next]_vars =>
        [Read /\ first # None /\ doc.format = "yaml" => stage' = "manifest"]_vars
  <2> SUFFICES ASSUME Inv, Read, first # None, doc.format = "yaml"
               PROVE  stage' = "manifest"
    OBVIOUS
  <2>1. man \in Manifest /\ Valid(man.mounts) /\ doc \in Written(man)
    BY DEF Inv, Read
  <2>2. Unmarshal(doc) # Refused
    BY <2>1, LaterRead
  <2> QED BY <2>2 DEF Read
<1> QED BY <1>1, InvHolds, PTL DEF Spec, YamlReadBack

\* Whatever documents operators write and however often they are read back,
\* GetMount finds the best mount of the manifest that is served, if all mount
\* paths begin with one slash.
THEOREM BestMount ==
  ASSUME \A d \in Docs : \A i \in 1..Len(d.mounts) : OneSlash(d.mounts[i].path)
  PROVE  Spec => []BestMountFound
<1>1. Inv => BestMountFound
  <2> SUFFICES ASSUME Inv, stage = "manifest", NEW p \in Paths
               PROVE  IsBest(GetMount(man.mounts, p), man.mounts, p)
    BY DEF BestMountFound
  <2>1. man.mounts \in {d.mounts : d \in Docs}
    BY DEF Inv, Manifest
  <2>2. /\ man.mounts \in Seq(Mount)
        /\ \A i \in 1..Len(man.mounts) : OneSlash(man.mounts[i].path)
    BY <2>1, DocsAssumption
  <2> QED BY <2>2, GetMountIsBest
<1> QED BY <1>1, InvHolds, PTL
=============================================================================
