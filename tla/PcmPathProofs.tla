--------------------------- MODULE PcmPathProofs ---------------------------
(***************************************************************************)
(* Theorems about PcmPath, for every size of the queues, the frames and    *)
(* PipeWire's buffers, and any number of frames: types, silence only for   *)
(* want of samples, and that the path implements LossyFifo.                *)
(***************************************************************************)
EXTENDS PcmPath, SequenceTheorems, Integers, TLAPS

LEMMA Sizes ==
    /\ FrameLen \in Nat \ {0} /\ AudioCap \in Nat \ {0} /\ MaxPending \in Nat \ {0}
    /\ Capacity \in Nat \ {0} /\ Requested \subseteq Nat /\ MaxFrames \in Nat
  BY SizesAssumption

-----------------------------------------------------------------------------
(* Division with remainder.                                                *)

LEMMA DivMod ==
    ASSUME NEW x \in Nat, NEW d \in Nat \ {0}
    PROVE  x \div d \in Nat /\ x % d \in 0 .. d - 1 /\ x = d * (x \div d) + (x % d)
  OBVIOUS

LEMMA TimesGrows ==
    ASSUME NEW d \in Nat \ {0}, NEW p \in Int, NEW q \in Int, p < q
    PROVE  d * p + d <= d * q
  <1>1. d * (q - p - 1) >= 0
    OBVIOUS
  <1> QED
    BY <1>1

LEMMA DivModUnique ==
    ASSUME NEW d \in Nat \ {0}, NEW q \in Nat, NEW r \in 0 .. d - 1
    PROVE  (d * q + r) \div d = q /\ (d * q + r) % d = r
  <1> DEFINE x == d * q + r
  <1>1. x \in Nat
    OBVIOUS
  <1> HIDE DEF x
  <1>2. x \div d \in Nat /\ x % d \in 0 .. d - 1 /\ x = d * (x \div d) + (x % d)
    BY <1>1, DivMod
  <1>3. ~(x \div d < q)
    BY <1>2, TimesGrows DEF x
  <1>4. ~(q < x \div d)
    BY <1>2, TimesGrows DEF x
  <1>5. x \div d = q
    <2> DEFINE p == x \div d
    <2>1. p \in Int /\ ~(p < q) /\ ~(q < p)
      BY <1>2, <1>3, <1>4
    <2> HIDE DEF p
    <2>2. p = q
      BY <2>1
    <2> QED
      BY <2>2 DEF p
  <1>6. x % d = r
    BY <1>2, <1>5 DEF x
  <1> QED
    BY <1>5, <1>6 DEF x

-----------------------------------------------------------------------------
(* The samples of a sequence of frames.                                    *)

LEMMA FrameOfSample ==
    ASSUME NEW n \in Nat, NEW k \in 1 .. n * FrameLen
    PROVE  /\ (k - 1) \div FrameLen + 1 \in 1 .. n
           /\ ((k - 1) % FrameLen) + 1 \in 1 .. FrameLen
  <1> DEFINE q == (k - 1) \div FrameLen
             r == (k - 1) % FrameLen
  <1>1. k - 1 \in Nat
    BY Sizes
  <1>2. q \in Nat /\ r \in 0 .. FrameLen - 1 /\ k - 1 = FrameLen * q + r
    BY <1>1, Sizes, DivMod
  <1> HIDE DEF q, r
  <1>3. ~(n <= q)
    <2> SUFFICES ASSUME n <= q PROVE FALSE
      OBVIOUS
    <2>1. FrameLen * (q - n) >= 0
      BY <1>2, Sizes
    <2>2. FrameLen * n <= FrameLen * q
      BY <1>2, <2>1, Sizes
    <2> QED
      BY <1>2, <2>2, Sizes
  <1> QED
    BY <1>2, <1>3, Sizes DEF q, r

LEMMA SamplesOfType ==
    ASSUME NEW n \in Nat
    PROVE  SamplesOf(n) \in Seq(Nat) /\ Len(SamplesOf(n)) = FrameLen
           /\ \A i \in 1 .. FrameLen : SamplesOf(n)[i] = n * FrameLen + i
  <1>1. \A i \in 1 .. FrameLen : n * FrameLen + i \in Nat
    BY Sizes
  <1> QED
    BY <1>1, Sizes DEF SamplesOf

LEMMA SamplesType ==
    ASSUME NEW ns \in Seq(Nat)
    PROVE  Samples(ns) \in Seq(Nat) /\ Len(Samples(ns)) = Len(ns) * FrameLen
  <1>1. ASSUME NEW k \in 1 .. Len(ns) * FrameLen
        PROVE  SamplesOf(ns[(k - 1) \div FrameLen + 1])[((k - 1) % FrameLen) + 1] \in Nat
    <2> DEFINE i == (k - 1) \div FrameLen + 1
               j == ((k - 1) % FrameLen) + 1
    <2>1. i \in 1 .. Len(ns) /\ j \in 1 .. FrameLen
      BY FrameOfSample
    <2> HIDE DEF i, j
    <2>2. ns[i] \in Nat
      BY <2>1
    <2>3. SamplesOf(ns[i]) \in Seq(Nat) /\ Len(SamplesOf(ns[i])) = FrameLen
      BY <2>2, SamplesOfType
    <2>4. SamplesOf(ns[i])[j] \in Nat
      BY <2>1, <2>3, ElementOfSeq
    <2> QED
      BY <2>4 DEF i, j
  <1>2. Len(ns) * FrameLen \in Nat
    BY Sizes
  <1> QED
    BY <1>1, <1>2 DEF Samples

\* The k-th sample of ns, for k in the q+1-th frame at place r+1.
LEMMA SampleAt ==
    ASSUME NEW ns \in Seq(Nat), NEW q \in 0 .. Len(ns) - 1, NEW r \in 0 .. FrameLen - 1
    PROVE  /\ FrameLen * q + r + 1 \in 1 .. Len(ns) * FrameLen
           /\ Samples(ns)[FrameLen * q + r + 1] = SamplesOf(ns[q + 1])[r + 1]
  <1> DEFINE x == FrameLen * q + r
  <1>1. x \div FrameLen = q /\ x % FrameLen = r /\ x \in Nat
    <2>1. q \in Nat /\ x \in Nat
      BY Sizes
    <2> QED
      BY <2>1, Sizes, DivModUnique
  <1>2. FrameLen * q + FrameLen <= FrameLen * Len(ns)
    BY Sizes, TimesGrows
  <1>3. x + 1 \in 1 .. Len(ns) * FrameLen
    BY <1>1, <1>2, Sizes
  <1> HIDE DEF x
  <1>4. (x + 1) - 1 = x
    BY <1>1
  <1>5. Samples(ns)[x + 1] = SamplesOf(ns[q + 1])[r + 1]
    BY <1>1, <1>3, <1>4 DEF Samples
  <1> QED
    BY <1>3, <1>5 DEF x

LEMMA SamplesConcat ==
    ASSUME NEW a \in Seq(Nat), NEW b \in Seq(Nat)
    PROVE  Samples(a \o b) = Samples(a) \o Samples(b)
  <1> DEFINE la == Len(a) * FrameLen
             lb == Len(b) * FrameLen
  <1>1. a \o b \in Seq(Nat) /\ Len(a \o b) = Len(a) + Len(b) /\ Len(a) \in Nat /\ Len(b) \in Nat
    OBVIOUS
  <1>2. la \in Nat /\ lb \in Nat /\ (Len(a) + Len(b)) * FrameLen = la + lb
    BY <1>1, Sizes
  <1>3. /\ Samples(a \o b) \in Seq(Nat) /\ Len(Samples(a \o b)) = la + lb
        /\ Samples(a) \in Seq(Nat) /\ Len(Samples(a)) = la
        /\ Samples(b) \in Seq(Nat) /\ Len(Samples(b)) = lb
    BY <1>1, <1>2, SamplesType
  <1>4. /\ Samples(a) \o Samples(b) \in Seq(Nat)
        /\ Len(Samples(a) \o Samples(b)) = la + lb
        /\ \A k \in 1 .. la + lb : (Samples(a) \o Samples(b))[k] =
              IF k <= la THEN Samples(a)[k] ELSE Samples(b)[k - la]
    <2> HIDE DEF la, lb
    <2> QED
      BY <1>3, ConcatProperties
  <1>5. ASSUME NEW k \in 1 .. la + lb
        PROVE  Samples(a \o b)[k] = (Samples(a) \o Samples(b))[k]
    <2> DEFINE q == (k - 1) \div FrameLen
               r == (k - 1) % FrameLen
    <2>1. k \in Int /\ k - 1 \in Nat
      <3> HIDE DEF la, lb
      <3> QED
        BY <1>2
    <2>2. q \in Nat /\ r \in 0 .. FrameLen - 1 /\ k = FrameLen * q + r + 1
      <3>1. q \in Nat /\ r \in 0 .. FrameLen - 1 /\ k - 1 = FrameLen * q + r
        BY <2>1, Sizes, DivMod
      <3> HIDE DEF q, r
      <3> QED
        BY <2>1, <3>1, Sizes
    <2>3. k \in 1 .. Len(a \o b) * FrameLen
      BY <1>1, <1>2
    <2>4. q + 1 \in 1 .. Len(a) + Len(b)
      BY <1>1, <2>3, FrameOfSample
    <2> HIDE DEF q, r
    <2>5. Samples(a \o b)[k] = SamplesOf((a \o b)[q + 1])[r + 1]
      <3>1. q \in 0 .. Len(a \o b) - 1
        BY <1>1, <2>2, <2>4
      <3> QED
        BY <1>1, <2>2, <3>1, SampleAt
    <2>6. CASE q < Len(a)
      <3>1. q \in 0 .. Len(a) - 1 /\ q + 1 \in 1 .. Len(a)
        BY <1>1, <2>2, <2>6
      <3>2. (a \o b)[q + 1] = a[q + 1]
        BY <1>1, <3>1
      <3>3. k \in 1 .. la /\ Samples(a)[k] = SamplesOf(a[q + 1])[r + 1]
        BY <2>2, <3>1, SampleAt
      <3> QED
        BY <1>2, <1>4, <2>5, <3>2, <3>3
    <2>7. CASE ~(q < Len(a))
      <3> DEFINE p == q - Len(a)
      <3>1. p \in 0 .. Len(b) - 1 /\ q + 1 = Len(a) + (p + 1) /\ q = Len(a) + p
        BY <1>1, <2>2, <2>4, <2>7
      <3> HIDE DEF p
      <3>2. (a \o b)[q + 1] = b[p + 1]
        <4> DEFINE m == q + 1
        <4>1. m \in 1 .. Len(a) + Len(b) /\ ~(m <= Len(a)) /\ m - Len(a) = p + 1
          BY <1>1, <2>2, <2>4, <3>1
        <4> HIDE DEF m
        <4>2. (a \o b)[m] = b[m - Len(a)]
          BY <4>1, ConcatProperties
        <4> QED
          BY <4>1, <4>2 DEF m
      <3>3. FrameLen * p + r + 1 \in 1 .. lb
            /\ Samples(b)[FrameLen * p + r + 1] = SamplesOf(b[p + 1])[r + 1]
        BY <2>2, <3>1, SampleAt
      <3>4. FrameLen * q = la + FrameLen * p
        BY <1>1, <3>1, Sizes
      <3>5. k - la = FrameLen * p + r + 1 /\ ~(k <= la)
        <4>1. FrameLen * p \in Nat
          BY <3>1, Sizes
        <4>2. la \in Nat /\ r \in Nat
          BY <1>2, <2>2, Sizes
        <4> HIDE DEF la, lb
        <4> DEFINE x == FrameLen * q
                   y == FrameLen * p
        <4>3. x = la + y /\ y \in Nat /\ k = x + r + 1
          BY <2>2, <3>4, <4>1
        <4> HIDE DEF x, y
        <4>4. k - la = y + r + 1 /\ ~(k <= la)
          BY <4>2, <4>3
        <4> QED
          BY <4>4 DEF y
      <3> QED
        BY <1>4, <2>5, <3>2, <3>3, <3>5
    <2> QED
      BY <2>6, <2>7
  <1> HIDE DEF la, lb
  <1> QED
    BY <1>3, <1>4, <1>5, SeqEqual

LEMMA SamplesOfNone == Samples(<<>>) = <<>>
  <1>1. <<>> \in Seq(Nat) /\ Len(<<>>) = 0
    OBVIOUS
  <1>2. Samples(<<>>) \in Seq(Nat) /\ Len(Samples(<<>>)) = 0
    <2>1. 0 * FrameLen = 0
      BY Sizes
    <2> QED
      BY <1>1, <2>1, SamplesType
  <1> QED
    BY <1>2, EmptySeq

LEMMA SamplesOfOne ==
    ASSUME NEW n \in Nat
    PROVE  Samples(<<n>>) = SamplesOf(n)
  <1>1. <<n>> \in Seq(Nat) /\ Len(<<n>>) = 1 /\ <<n>>[1] = n
    OBVIOUS
  <1>2. /\ Samples(<<n>>) \in Seq(Nat) /\ Len(Samples(<<n>>)) = FrameLen
        /\ SamplesOf(n) \in Seq(Nat) /\ Len(SamplesOf(n)) = FrameLen
    <2>1. 1 * FrameLen = FrameLen
      BY Sizes
    <2> QED
      BY <1>1, <2>1, SamplesType, SamplesOfType
  <1>3. ASSUME NEW k \in 1 .. FrameLen PROVE Samples(<<n>>)[k] = SamplesOf(n)[k]
    <2>1. k - 1 \in 0 .. FrameLen - 1 /\ 0 \in 0 .. Len(<<n>>) - 1
          /\ FrameLen * 0 + (k - 1) + 1 = k /\ (k - 1) + 1 = k
      BY <1>1, Sizes
    <2>2. Samples(<<n>>)[FrameLen * 0 + (k - 1) + 1] = SamplesOf(<<n>>[0 + 1])[(k - 1) + 1]
      BY <1>1, <2>1, SampleAt
    <2> QED
      BY <1>1, <2>1, <2>2
  <1> QED
    BY <1>2, <1>3, SeqEqual

-----------------------------------------------------------------------------
(* Bounding the pending buffer and filling a PipeWire buffer.              *)

\* How many samples the bound drops.
Dropped(p) == IF Len(p) > MaxPending THEN Len(p) - MaxPending ELSE 0

\* Elements m to b of a sequence.
LEMMA Slice ==
    ASSUME NEW s \in Seq(Nat), NEW m \in Nat \ {0}, NEW b \in Nat, m <= b + 1, b <= Len(s)
    PROVE  /\ SubSeq(s, m, b) \in Seq(Nat)
           /\ Len(SubSeq(s, m, b)) = b - m + 1
           /\ \A i \in 1 .. b - m + 1 : SubSeq(s, m, b)[i] = s[m + i - 1]
  <1>1. m \in Int /\ b \in Int /\ \A i \in m .. b : s[i] \in Nat
    OBVIOUS
  <1>2. (IF m <= b THEN b - m + 1 ELSE 0) = b - m + 1
    OBVIOUS
  <1>3. /\ SubSeq(s, m, b) \in Seq(Nat)
        /\ Len(SubSeq(s, m, b)) = IF m <= b THEN b - m + 1 ELSE 0
        /\ \A i \in 1 .. b - m + 1 : SubSeq(s, m, b)[i] = s[m + i - 1]
    BY <1>1, SubSeqProperties
  <1> QED
    BY <1>2, <1>3

LEMMA KeepNewestDrops ==
    ASSUME NEW p \in Seq(Nat)
    PROVE  /\ Dropped(p) \in 0 .. Len(p)
           /\ KeepNewest(p) = SubSeq(p, Dropped(p) + 1, Len(p))
           /\ KeepNewest(p) \in Seq(Nat)
           /\ Len(KeepNewest(p)) = Len(p) - Dropped(p) /\ Len(KeepNewest(p)) <= MaxPending
  <1>1. Len(p) \in Nat
    OBVIOUS
  <1>2. Dropped(p) \in 0 .. Len(p) /\ Len(p) - Dropped(p) <= MaxPending
    BY <1>1, Sizes DEF Dropped
  <1>3. KeepNewest(p) = SubSeq(p, Dropped(p) + 1, Len(p))
    <2>1. CASE Len(p) > MaxPending
      BY <2>1 DEF KeepNewest, Dropped
    <2>2. CASE ~(Len(p) > MaxPending)
      <3>1. SubSeq(p, 1, Len(p)) = p
        BY SubSeqFull
      <3> QED
        BY <2>2, <3>1 DEF KeepNewest, Dropped
    <2> QED
      BY <2>1, <2>2
  <1>4. /\ SubSeq(p, Dropped(p) + 1, Len(p)) \in Seq(Nat)
        /\ Len(SubSeq(p, Dropped(p) + 1, Len(p))) = Len(p) - Dropped(p)
    <2> DEFINE m == Dropped(p) + 1
    <2>1. /\ m \in Nat \ {0} /\ m <= Len(p) + 1 /\ Len(p) <= Len(p)
          /\ Len(p) - m + 1 = Len(p) - Dropped(p)
      BY <1>1, <1>2
    <2> HIDE DEF m
    <2>2. SubSeq(p, m, Len(p)) \in Seq(Nat) /\ Len(SubSeq(p, m, Len(p))) = Len(p) - m + 1
      BY <1>1, <2>1, Slice
    <2> QED
      BY <2>1, <2>2 DEF m
  <1> QED
    BY <1>2, <1>3, <1>4

LEMMA FillTakes ==
    ASSUME NEW s \in Seq(Nat), NEW size \in Nat
    PROVE  LET n == Least(Len(s), size) IN
           /\ n \in 0 .. Len(s) /\ n <= size
           /\ Fill(s, size).samples = SubSeq(s, 1, n)
           /\ Fill(s, size).silence = size - n
           /\ Fill(s, size).rest = SubSeq(s, n + 1, Len(s))
           /\ Fill(s, size).samples \in Seq(Nat) /\ Len(Fill(s, size).samples) = n
           /\ Fill(s, size).rest \in Seq(Nat) /\ Len(Fill(s, size).rest) = Len(s) - n
           /\ Fill(s, size).silence > 0 => Fill(s, size).rest = <<>>
  <1> DEFINE n == Least(Len(s), size)
  <1>1. Len(s) \in Nat /\ n \in 0 .. Len(s) /\ n <= size /\ (n < size => n = Len(s))
    BY DEF Least
  <1>2. /\ Fill(s, size).samples = SubSeq(s, 1, n)
        /\ Fill(s, size).silence = size - n
        /\ Fill(s, size).rest = SubSeq(s, n + 1, Len(s))
    BY DEF Fill
  <1> HIDE DEF n
  <1>3. SubSeq(s, 1, n) \in Seq(Nat) /\ Len(SubSeq(s, 1, n)) = n
    <2>1. \A i \in 1 .. n : s[i] \in Nat
      BY <1>1
    <2> QED
      BY <1>1, <2>1, SubSeqProperties
  <1>4. SubSeq(s, n + 1, Len(s)) \in Seq(Nat) /\ Len(SubSeq(s, n + 1, Len(s))) = Len(s) - n
    <2> DEFINE m == n + 1
    <2>1. m \in Nat \ {0} /\ m <= Len(s) + 1 /\ Len(s) <= Len(s) /\ Len(s) - m + 1 = Len(s) - n
      BY <1>1
    <2> HIDE DEF m
    <2>2. SubSeq(s, m, Len(s)) \in Seq(Nat) /\ Len(SubSeq(s, m, Len(s))) = Len(s) - m + 1
      BY <1>1, <2>1, Slice
    <2> QED
      BY <2>1, <2>2 DEF m
  <1>5. size - n > 0 => SubSeq(s, n + 1, Len(s)) = <<>>
    BY <1>1, SubSeqEmpty
  <1> QED
    BY <1>1, <1>2, <1>3, <1>4, <1>5 DEF n

\* What a buffer is filled with, and what stays, of a queue p whose d oldest
\* samples are dropped, with r behind it.
LEMMA QueueSplits ==
    ASSUME NEW p \in Seq(Nat), NEW r \in Seq(Nat),
           NEW d \in 0 .. Len(p), NEW n \in 0 .. Len(p) - d
    PROVE  LET q == SubSeq(p, d + 1, Len(p)) IN
           /\ SubSeq(q, 1, n) = SubSeq(p \o r, d + 1, d + n)
           /\ SubSeq(q, n + 1, Len(q)) \o r = SubSeq(p \o r, d + n + 1, Len(p \o r))
  <1> DEFINE q == SubSeq(p, d + 1, Len(p))
             all == p \o r
             taken == SubSeq(q, 1, n)
             rest == SubSeq(q, n + 1, Len(q))
  <1>1. Len(p) \in Nat /\ Len(r) \in Nat /\ d \in Nat /\ n \in Nat /\ d + n <= Len(p)
    OBVIOUS
  <1>2. /\ all \in Seq(Nat) /\ Len(all) = Len(p) + Len(r)
        /\ \A i \in 1 .. Len(p) + Len(r) :
             all[i] = IF i <= Len(p) THEN p[i] ELSE r[i - Len(p)]
    BY ConcatProperties
  <1>3. /\ q \in Seq(Nat) /\ Len(q) = Len(p) - d
        /\ \A i \in 1 .. Len(p) - d : q[i] = p[d + i]
    <2> DEFINE m == d + 1
    <2>1. m \in Nat \ {0} /\ m <= Len(p) + 1 /\ Len(p) <= Len(p) /\ Len(p) - m + 1 = Len(p) - d
          /\ \A i \in 1 .. Len(p) - d : m + i - 1 = d + i
      BY <1>1
    <2> HIDE DEF m
    <2>2. /\ SubSeq(p, m, Len(p)) \in Seq(Nat) /\ Len(SubSeq(p, m, Len(p))) = Len(p) - m + 1
          /\ \A i \in 1 .. Len(p) - m + 1 : SubSeq(p, m, Len(p))[i] = p[m + i - 1]
      BY <1>1, <2>1, Slice
    <2> QED
      BY <2>1, <2>2 DEF m
  <1> HIDE DEF q, all
  <1>4. /\ taken \in Seq(Nat) /\ Len(taken) = n
        /\ \A i \in 1 .. n : taken[i] = q[i]
    <2> DEFINE m == 1
    <2>1. m \in Nat \ {0} /\ m <= n + 1 /\ n \in Nat /\ n <= Len(q) /\ n - m + 1 = n
          /\ \A i \in 1 .. n : m + i - 1 = i
      BY <1>1, <1>3
    <2> HIDE DEF m
    <2>2. q \in Seq(Nat)
      BY <1>3
    <2>3. /\ SubSeq(q, m, n) \in Seq(Nat) /\ Len(SubSeq(q, m, n)) = n - m + 1
          /\ \A i \in 1 .. n - m + 1 : SubSeq(q, m, n)[i] = q[m + i - 1]
      BY <2>1, <2>2, Slice
    <2> QED
      BY <2>1, <2>3 DEF m
  <1>5. /\ rest \in Seq(Nat) /\ Len(rest) = Len(p) - d - n
        /\ \A i \in 1 .. Len(p) - d - n : rest[i] = q[n + i]
    <2> DEFINE m == n + 1
    <2>1. m \in Nat \ {0} /\ m <= Len(q) + 1 /\ Len(q) <= Len(q) /\ Len(q) \in Nat
          /\ Len(q) - m + 1 = Len(p) - d - n
          /\ \A i \in 1 .. Len(p) - d - n : m + i - 1 = n + i
      BY <1>1, <1>3
    <2> HIDE DEF m
    <2>2. /\ SubSeq(q, m, Len(q)) \in Seq(Nat) /\ Len(SubSeq(q, m, Len(q))) = Len(q) - m + 1
          /\ \A i \in 1 .. Len(q) - m + 1 : SubSeq(q, m, Len(q))[i] = q[m + i - 1]
      BY <1>3, <2>1, Slice
    <2> QED
      BY <2>1, <2>2 DEF m
  <1> HIDE DEF taken, rest
  <1>6. taken = SubSeq(all, d + 1, d + n)
    <2> DEFINE m == d + 1
               b == d + n
    <2>1. m \in Nat \ {0} /\ b \in Nat /\ m <= b + 1 /\ b <= Len(all) /\ b - m + 1 = n
          /\ \A i \in 1 .. n : m + i - 1 = d + i
      BY <1>1, <1>2
    <2>2. /\ SubSeq(all, d + 1, d + n) \in Seq(Nat)
          /\ Len(SubSeq(all, d + 1, d + n)) = n
          /\ \A i \in 1 .. n : SubSeq(all, d + 1, d + n)[i] = all[d + i]
      <3> HIDE DEF m, b
      <3>1. /\ SubSeq(all, m, b) \in Seq(Nat) /\ Len(SubSeq(all, m, b)) = b - m + 1
            /\ \A i \in 1 .. b - m + 1 : SubSeq(all, m, b)[i] = all[m + i - 1]
        BY <1>2, <2>1, Slice
      <3> QED
        BY <2>1, <3>1 DEF m, b
    <2>3. ASSUME NEW i \in 1 .. n PROVE taken[i] = SubSeq(all, d + 1, d + n)[i]
      <3>1. i \in 1 .. Len(p) - d /\ d + i \in 1 .. Len(p) /\ d + i \in 1 .. Len(p) + Len(r)
        BY <1>1
      <3>2. all[d + i] = p[d + i]
        <4> DEFINE j == d + i
        <4>1. j \in 1 .. Len(p) /\ j \in 1 .. Len(p) + Len(r) /\ j <= Len(p)
          BY <3>1
        <4> HIDE DEF j
        <4>2. all[j] = p[j]
          BY <1>2, <4>1
        <4> QED
          BY <4>2 DEF j
      <3> QED
        BY <1>3, <1>4, <2>2, <3>1, <3>2
    <2> QED
      BY <1>4, <2>2, <2>3, SeqEqual
  <1>7. rest \o r = SubSeq(all, d + n + 1, Len(all))
    <2> DEFINE m == Len(p) - d - n
    <2>0. m \in Nat /\ Len(all) = d + n + m + Len(r)
      BY <1>1, <1>2
    <2> HIDE DEF m
    <2> DEFINE k == d + n + 1
    <2>1. /\ k \in Nat \ {0} /\ k <= Len(all) + 1 /\ Len(all) <= Len(all) /\ Len(all) \in Nat
          /\ Len(all) - k + 1 = m + Len(r)
          /\ \A i \in 1 .. m + Len(r) : k + i - 1 = d + n + i
      BY <1>1, <2>0
    <2>2. /\ SubSeq(all, d + n + 1, Len(all)) \in Seq(Nat)
          /\ Len(SubSeq(all, d + n + 1, Len(all))) = m + Len(r)
          /\ \A i \in 1 .. m + Len(r) : SubSeq(all, d + n + 1, Len(all))[i] = all[d + n + i]
      <3> HIDE DEF k
      <3>1. /\ SubSeq(all, k, Len(all)) \in Seq(Nat)
            /\ Len(SubSeq(all, k, Len(all))) = Len(all) - k + 1
            /\ \A i \in 1 .. Len(all) - k + 1 : SubSeq(all, k, Len(all))[i] = all[k + i - 1]
        BY <1>2, <2>1, Slice
      <3> QED
        BY <2>1, <3>1 DEF k
    <2>3. /\ rest \o r \in Seq(Nat) /\ Len(rest \o r) = m + Len(r)
          /\ \A i \in 1 .. m + Len(r) :
               (rest \o r)[i] = IF i <= m THEN rest[i] ELSE r[i - m]
      <3>1. rest \in Seq(Nat) /\ Len(rest) = m
        BY <1>5 DEF m
      <3> QED
        BY <3>1, ConcatProperties
    <2>4. ASSUME NEW i \in 1 .. m + Len(r) PROVE (rest \o r)[i] = all[d + n + i]
      <3>1. CASE i <= m
        <4>1. i \in 1 .. m /\ d + n + i \in 1 .. Len(p) /\ n + i \in 1 .. Len(p) - d
          BY <1>1, <2>0, <3>1 DEF m
        <4>2. rest[i] = p[d + (n + i)] /\ d + (n + i) = d + n + i
          BY <1>1, <1>3, <1>5, <4>1 DEF m
        <4>3. all[d + n + i] = p[d + n + i]
          <5> DEFINE j == d + n + i
          <5>1. j \in 1 .. Len(p) /\ j \in 1 .. Len(p) + Len(r) /\ j <= Len(p)
            BY <1>1, <4>1
          <5> HIDE DEF j
          <5>2. all[j] = p[j]
            BY <1>2, <5>1
          <5> QED
            BY <5>2 DEF j
        <4> QED
          BY <2>3, <3>1, <4>2, <4>3
      <3>2. CASE ~(i <= m)
        <4>1. /\ d + n + i \in 1 .. Len(p) + Len(r) /\ ~(d + n + i <= Len(p))
              /\ (d + n + i) - Len(p) = i - m
          BY <1>1, <2>0, <3>2 DEF m
        <4>2. all[d + n + i] = r[i - m]
          BY <1>2, <4>1
        <4> QED
          BY <2>3, <3>2, <4>2
      <3> QED
        BY <3>1, <3>2
    <2> QED
      BY <2>2, <2>3, <2>4, SeqEqual
  <1> QED
    BY <1>6, <1>7 DEF q, all, taken, rest

-----------------------------------------------------------------------------
(* Types, and silence only for want of samples.                            *)

USE DEF None, Some

LEMMA InitType == Init => PcmTypeOK /\ SilenceIsLast
  <1> SUFFICES ASSUME Init PROVE PcmTypeOK /\ SilenceIsLast
    OBVIOUS
  <1>1. <<>> \in Seq(Nat) /\ Len(<<>>) = 0
    OBVIOUS
  <1>2. out.samples = <<>> /\ out.silence = 0
    BY DEF Init
  <1>3. /\ forwarded \in 0 .. MaxFrames /\ 0 <= AudioCap /\ 0 <= MaxPending
        /\ Len(out.samples) + out.silence <= Capacity /\ out.silence \in Nat
    BY <1>1, <1>2, Sizes DEF Init
  <1>4. {parked, held} \subseteq Seq(Nat) /\ Len(parked) <= 1 /\ Len(held) <= 1
    BY <1>1 DEF Init
  <1> QED
    BY <1>1, <1>2, <1>3, <1>4 DEF Init, PcmTypeOK, SilenceIsLast

LEMMA ForwardType ==
    ASSUME PcmTypeOK, Forward PROVE PcmTypeOK'
  <1>1. forwarded \in Nat /\ forwarded + 1 \in 0 .. MaxFrames
    BY Sizes DEF PcmTypeOK, Forward
  <1>2. <<forwarded>> \in Seq(Nat) /\ Len(<<forwarded>>) = 1
    BY <1>1
  <1>3. CASE Len(frames) < AudioCap
    <2>1. /\ Append(frames, forwarded) \in Seq(Nat)
          /\ Len(Append(frames, forwarded)) <= AudioCap
      BY <1>1, <1>3, Sizes, AppendProperties DEF PcmTypeOK
    <2> QED
      BY <1>1, <1>3, <2>1 DEF PcmTypeOK, Forward
  <1>4. CASE ~(Len(frames) < AudioCap)
    <2>1. parked' = <<forwarded>> /\ frames' = frames /\ forwarded' = forwarded + 1
          /\ UNCHANGED <<main, held, done, pcm, pw, pending, out>>
      BY <1>4 DEF Forward
    <2> QED
      BY <1>1, <1>2, <2>1 DEF PcmTypeOK
  <1> QED
    BY <1>3, <1>4

LEMMA DecoderType ==
    ASSUME PcmTypeOK, Decoder PROVE PcmTypeOK'
  <1>1. CASE DecoderRecv
    <2>1. /\ Head(frames) \in Nat /\ Tail(frames) \in Seq(Nat)
          /\ Len(Tail(frames)) = Len(frames) - 1 /\ Len(frames) \in Nat
      BY <1>1, HeadTailProperties DEF PcmTypeOK, DecoderRecv
    <2>2. /\ Tail(frames) \o parked \in Seq(Nat)
          /\ Len(Tail(frames) \o parked) <= AudioCap
      BY <2>1, Sizes, ConcatProperties DEF PcmTypeOK
    <2>3. <<Head(frames)>> \in Seq(Nat) /\ Len(<<Head(frames)>>) = 1
          /\ <<>> \in Seq(Nat) /\ Len(<<>>) = 0
      BY <2>1
    <2> QED
      BY <1>1, <2>2, <2>3 DEF PcmTypeOK, DecoderRecv
  <1>2. CASE DecoderSends
    <2>1. pcm \o held \in Seq(Nat) /\ <<>> \in Seq(Nat) /\ Len(<<>>) = 0
      BY ConcatProperties DEF PcmTypeOK
    <2> QED
      BY <1>2, <2>1 DEF PcmTypeOK, DecoderSends
  <1>3. CASE DecoderDone
    BY <1>3 DEF PcmTypeOK, DecoderDone
  <1> QED
    BY <1>1, <1>2, <1>3 DEF Decoder

\* The samples of a callback, and what the bound leaves of them.
LEMMA DrainType ==
    ASSUME PcmTypeOK
    PROVE  /\ pending \o Samples(pcm) \in Seq(Nat)
           /\ KeepNewest(pending \o Samples(pcm)) \in Seq(Nat)
           /\ Len(KeepNewest(pending \o Samples(pcm))) <= MaxPending
           /\ Len(KeepNewest(pending \o Samples(pcm))) \in Nat
  <1> DEFINE p == pending \o Samples(pcm)
  <1>1. p \in Seq(Nat)
    <2>1. pending \in Seq(Nat) /\ Samples(pcm) \in Seq(Nat)
      BY SamplesType DEF PcmTypeOK
    <2> QED
      BY <2>1, ConcatProperties
  <1> HIDE DEF p
  <1>2. KeepNewest(p) \in Seq(Nat) /\ Len(KeepNewest(p)) <= MaxPending
    BY <1>1, KeepNewestDrops
  <1>3. Len(KeepNewest(p)) \in Nat
    BY <1>2
  <1> QED
    BY <1>1, <1>2, <1>3 DEF p

LEMMA SizeType ==
    ASSUME NEW requested \in Requested
    PROVE  LET size == IF requested > 0 THEN Least(Capacity, requested) ELSE Capacity
           IN  size \in Nat /\ size <= Capacity
  BY Sizes DEF Least

LEMMA PwType ==
    ASSUME PcmTypeOK, PwStarts \/ PwGone \/ ProcessWithoutBuffer \/ Process
    PROVE  PcmTypeOK'
  <1>0. <<>> \in Seq(Nat) /\ Len(<<>>) = 0
    OBVIOUS
  <1>1. CASE PwStarts
    BY <1>1 DEF PcmTypeOK, PwStarts
  <1>2. CASE PwGone
    BY <1>0, <1>2, Sizes DEF PcmTypeOK, PwGone
  <1>3. CASE ProcessWithoutBuffer
    <2>1. out'.samples = <<>> /\ out'.silence = 0
      BY <1>3 DEF ProcessWithoutBuffer
    <2> QED
      BY <1>0, <1>3, <2>1, DrainType, Sizes DEF PcmTypeOK, ProcessWithoutBuffer
  <1>4. CASE Process
    <2> DEFINE samples == KeepNewest(pending \o Samples(pcm))
    <2>1. PICK requested \in Requested :
            LET size == IF requested > 0 THEN Least(Capacity, requested) ELSE Capacity
                filled == Fill(samples, size)
            IN  /\ pending' = filled.rest
                /\ out' = [samples |-> filled.samples, silence |-> filled.silence]
      BY <1>4 DEF Process
    <2> DEFINE size == IF requested > 0 THEN Least(Capacity, requested) ELSE Capacity
               filled == Fill(samples, size)
               n == Least(Len(samples), size)
    <2>2. samples \in Seq(Nat) /\ Len(samples) <= MaxPending /\ Len(samples) \in Nat
      BY DrainType
    <2>3. size \in Nat /\ size <= Capacity
      BY SizeType
    <2>4. pending' = filled.rest /\ out'.samples = filled.samples /\ out'.silence = filled.silence
      BY <2>1
    <2> HIDE DEF samples, size
    <2>5. /\ n \in 0 .. Len(samples) /\ n <= size /\ filled.silence = size - n
          /\ filled.samples \in Seq(Nat) /\ Len(filled.samples) = n
          /\ filled.rest \in Seq(Nat) /\ Len(filled.rest) = Len(samples) - n
      BY <2>2, <2>3, FillTakes
    <2> HIDE DEF filled, n
    <2>6. /\ pending' \in Seq(Nat) /\ Len(pending') <= MaxPending
          /\ out'.samples \in Seq(Nat) /\ out'.silence \in Nat
          /\ Len(out'.samples) + out'.silence <= Capacity
      BY <2>2, <2>3, <2>4, <2>5, Sizes
    <2>7. pcm' = <<>> /\ UNCHANGED <<main, forwarded, frames, parked, held, done, pw>>
      BY <1>4 DEF Process
    <2> QED
      BY <1>0, <2>6, <2>7 DEF PcmTypeOK
  <1> QED
    BY <1>1, <1>2, <1>3, <1>4

LEMMA NextType == PcmTypeOK /\ [Next]_pcmVars => PcmTypeOK'
  <1> SUFFICES ASSUME PcmTypeOK, [Next]_pcmVars PROVE PcmTypeOK'
    OBVIOUS
  <1>1. CASE Forward
    BY <1>1, ForwardType
  <1>2. CASE Decoder
    BY <1>2, DecoderType
  <1>3. CASE PwStarts \/ PwFails \/ PwQuits \/ ProcessWithoutBuffer \/ Process
    BY <1>3, PwType DEF PwFails, PwQuits
  <1>4. CASE SessionReturns \/ Joins
    BY <1>4 DEF PcmTypeOK, SessionReturns, Joins
  <1>5. CASE UNCHANGED pcmVars
    BY <1>5 DEF PcmTypeOK, pcmVars
  <1> QED
    BY <1>1, <1>2, <1>3, <1>4, <1>5 DEF Next

\* Every reachable state is typed: no queue exceeds its bound, the pending
\* buffer not MAX_PENDING, and no PipeWire buffer is filled beyond its room.
THEOREM PcmTypeCorrect == Spec => []PcmTypeOK
  <1>1. Init => PcmTypeOK
    BY InitType
  <1> QED
    BY <1>1, NextType, PTL DEF Spec

LEMMA NextSilence == PcmTypeOK /\ SilenceIsLast /\ [Next]_pcmVars => SilenceIsLast'
  <1> SUFFICES ASSUME PcmTypeOK, SilenceIsLast, [Next]_pcmVars PROVE SilenceIsLast'
    OBVIOUS
  <1>1. CASE UNCHANGED <<pending, out>>
    BY <1>1 DEF SilenceIsLast
  <1>2. CASE PwGone
    BY <1>2 DEF SilenceIsLast, PwGone
  <1>3. CASE ProcessWithoutBuffer
    <2>1. out'.silence = 0
      BY <1>3 DEF ProcessWithoutBuffer
    <2> QED
      BY <2>1 DEF SilenceIsLast
  <1>4. CASE Process
    <2> DEFINE samples == KeepNewest(pending \o Samples(pcm))
    <2>1. PICK requested \in Requested :
            LET size == IF requested > 0 THEN Least(Capacity, requested) ELSE Capacity
                filled == Fill(samples, size)
            IN  /\ pending' = filled.rest
                /\ out' = [samples |-> filled.samples, silence |-> filled.silence]
      BY <1>4 DEF Process
    <2> DEFINE size == IF requested > 0 THEN Least(Capacity, requested) ELSE Capacity
               filled == Fill(samples, size)
    <2>2. samples \in Seq(Nat) /\ size \in Nat
      BY DrainType, SizeType
    <2>3. pending' = filled.rest /\ out'.silence = filled.silence
      BY <2>1
    <2> HIDE DEF samples, size
    <2>4. filled.silence > 0 => filled.rest = <<>>
      BY <2>2, FillTakes
    <2> QED
      BY <2>3, <2>4 DEF SilenceIsLast
  <1> QED
    BY <1>1, <1>2, <1>3, <1>4
       DEF Next, pcmVars, Forward, Decoder, DecoderRecv, DecoderSends, DecoderDone,
           PwStarts, PwFails, PwQuits, SessionReturns, Joins

\* PipeWire gets silence only for want of samples (pw.rs:169-186): when a
\* callback had to fill up with silence, no sample is left waiting.
THEOREM SilenceCorrect == Spec => []SilenceIsLast
  <1>1. Init => SilenceIsLast
    BY InitType
  <1> QED
    BY <1>1, NextSilence, PcmTypeCorrect, PTL DEF Spec

-----------------------------------------------------------------------------
(* The path implements the lossy FIFO.                                     *)

LEMMA Associative ==
    ASSUME NEW a \in Seq(Nat), NEW b \in Seq(Nat), NEW c \in Seq(Nat)
    PROVE  (a \o b) \o c = a \o (b \o c)
  OBVIOUS

\* Concatenation as a name of its own, so that the provers see the algebra and
\* not the sequences.
Cat(a, b) == a \o b

LEMMA CatMonoid ==
    /\ \A a, b \in Seq(Nat) : Cat(a, b) \in Seq(Nat)
    /\ \A a, b, c \in Seq(Nat) : Cat(Cat(a, b), c) = Cat(a, Cat(b, c))
    /\ \A a \in Seq(Nat) : Cat(a, <<>>) = a /\ Cat(<<>>, a) = a
    /\ <<>> \in Seq(Nat)
  <1>1. ASSUME NEW a \in Seq(Nat), NEW b \in Seq(Nat) PROVE Cat(a, b) \in Seq(Nat)
    BY ConcatProperties DEF Cat
  <1>2. ASSUME NEW a \in Seq(Nat), NEW b \in Seq(Nat), NEW c \in Seq(Nat)
        PROVE  Cat(Cat(a, b), c) = Cat(a, Cat(b, c))
    BY Associative, Zenon DEF Cat
  <1>3. ASSUME NEW a \in Seq(Nat) PROVE Cat(a, <<>>) = a /\ Cat(<<>>, a) = a
    BY ConcatEmptySeq DEF Cat
  <1>4. <<>> \in Seq(Nat)
    OBVIOUS
  <1> QED
    BY <1>1, <1>2, <1>3, <1>4

\* The frames between the session and PipeWire, oldest first.
InLine(p, h, f, k) == Cat(Cat(Cat(p, h), f), k)
Line == InLine(pcm, held, frames, parked)

LEMMA WaitingIs == Waiting = Cat(pending, Samples(Line))
  BY DEF Waiting, Line, InLine, Cat

\* What the steps do to the line: a frame is taken off a queue, and the parked
\* one moves up; the held one is sent; one is added, to the queue or parked.
LEMMA InLineType ==
    ASSUME NEW p \in Seq(Nat), NEW h \in Seq(Nat), NEW f \in Seq(Nat), NEW k \in Seq(Nat)
    PROVE  InLine(p, h, f, k) \in Seq(Nat)
  BY CatMonoid DEF InLine

LEMMA Taken ==
    ASSUME NEW p \in Seq(Nat), NEW one \in Seq(Nat), NEW f \in Seq(Nat), NEW k \in Seq(Nat)
    PROVE  InLine(p, one, Cat(f, k), <<>>) = InLine(p, <<>>, Cat(one, f), k)
  <1>1. InLine(p, one, Cat(f, k), <<>>) = Cat(Cat(p, one), Cat(f, k))
    BY CatMonoid DEF InLine
  <1>2. InLine(p, <<>>, Cat(one, f), k) = Cat(Cat(p, Cat(one, f)), k)
    BY CatMonoid DEF InLine
  <1> QED
    BY <1>1, <1>2, CatMonoid

LEMMA Sent ==
    ASSUME NEW p \in Seq(Nat), NEW h \in Seq(Nat), NEW f \in Seq(Nat), NEW k \in Seq(Nat)
    PROVE  InLine(Cat(p, h), <<>>, f, k) = InLine(p, h, f, k)
  BY CatMonoid DEF InLine

LEMMA Added ==
    ASSUME NEW p \in Seq(Nat), NEW h \in Seq(Nat), NEW f \in Seq(Nat), NEW one \in Seq(Nat)
    PROVE  /\ InLine(p, h, Cat(f, one), <<>>) = Cat(InLine(p, h, f, <<>>), one)
           /\ InLine(p, h, f, one) = Cat(InLine(p, h, f, <<>>), one)
  <1>1. Cat(p, h) \in Seq(Nat) /\ Cat(Cat(p, h), f) \in Seq(Nat) /\ Cat(f, one) \in Seq(Nat)
    BY CatMonoid
  <1>2. Cat(Cat(p, h), Cat(f, one)) = Cat(Cat(Cat(p, h), f), one)
    BY <1>1, CatMonoid
  <1>3. Cat(Cat(p, h), Cat(f, one)) \in Seq(Nat)
    BY <1>1, CatMonoid
  <1> QED
    BY <1>1, <1>2, <1>3, CatMonoid DEF InLine

LEMMA SamplesOfCat ==
    ASSUME NEW a \in Seq(Nat), NEW b \in Seq(Nat)
    PROVE  Samples(Cat(a, b)) = Cat(Samples(a), Samples(b))
  BY SamplesConcat DEF Cat

LEMMA QueuesType ==
    PcmTypeOK => /\ pcm \in Seq(Nat) /\ held \in Seq(Nat) /\ frames \in Seq(Nat)
                 /\ parked \in Seq(Nat) /\ pending \in Seq(Nat)
  BY DEF PcmTypeOK

\* The decoder task takes frames on, and loses none of them.
LEMMA DecoderKeepsLine ==
    ASSUME PcmTypeOK, Decoder, pw # "gone"
    PROVE  Line' = Line
  <1>1. /\ pcm \in Seq(Nat) /\ held \in Seq(Nat) /\ frames \in Seq(Nat) /\ parked \in Seq(Nat)
    BY QueuesType
  <1>2. Line' = InLine(pcm', held', frames', parked')
    BY DEF Line
  <1>3. CASE DecoderRecv
    <2> DEFINE first == <<Head(frames)>>
               others == Tail(frames)
    <2>1. /\ held = <<>> /\ held' = first /\ pcm' = pcm
          /\ frames' = Cat(others, parked) /\ parked' = <<>>
      BY <1>1, <1>3 DEF DecoderRecv, None, Some, Cat, PcmTypeOK
    <2>2. Head(frames) \in Nat /\ Tail(frames) \in Seq(Nat)
      BY <1>1, <1>3, HeadTailProperties DEF DecoderRecv
    <2>3. first \in Seq(Nat)
      BY <2>2
    <2>4. others \in Seq(Nat)
      BY <2>2
    <2>5. Cat(first, others) = frames
      BY <1>1, <1>3, <2>2, <2>3 DEF DecoderRecv, Cat
    <2> HIDE DEF first, others
    <2>6. InLine(pcm, first, Cat(others, parked), <<>>)
            = InLine(pcm, <<>>, Cat(first, others), parked)
      BY <1>1, <2>3, <2>4, Taken
    <2> QED
      BY <1>2, <2>1, <2>5, <2>6 DEF Line
  <1>4. CASE DecoderSends
    <2>1. held' = <<>> /\ pcm' = Cat(pcm, held) /\ frames' = frames /\ parked' = parked
      BY <1>4 DEF DecoderSends, None, Cat
    <2> QED
      BY <1>1, <1>2, <2>1, Sent DEF Line
  <1>5. CASE DecoderDone
    BY <1>5 DEF DecoderDone, Line
  <1> QED
    BY <1>3, <1>4, <1>5 DEF Decoder

\* A frame that is forwarded joins the line at its end.
LEMMA ForwardJoinsLine ==
    ASSUME PcmTypeOK, Forward
    PROVE  Waiting' = Waiting \o SamplesOf(forwarded)
  <1> DEFINE one == <<forwarded>>
  <1>1. /\ pcm \in Seq(Nat) /\ held \in Seq(Nat) /\ frames \in Seq(Nat) /\ pending \in Seq(Nat)
    BY QueuesType
  <1>2. forwarded \in Nat
    BY Sizes DEF PcmTypeOK
  <1>3. one \in Seq(Nat)
    BY <1>2
  <1>4. pcm' = pcm /\ held' = held /\ pending' = pending /\ parked = <<>>
    BY DEF Forward, None
  <1>5. \/ frames' = Cat(frames, one) /\ parked' = <<>>
        \/ frames' = frames /\ parked' = one
    <2>1. Append(frames, forwarded) = Cat(frames, one)
      BY <1>1, <1>2, AppendIsConcat DEF Cat
    <2> QED
      BY <2>1 DEF Forward, Some, None
  <1>6. Samples(one) = SamplesOf(forwarded)
    BY <1>2, SamplesOfOne
  <1> HIDE DEF one
  <1>7. Line \in Seq(Nat)
    BY <1>1, <1>4, CatMonoid, InLineType DEF Line
  <1>8. Line' = InLine(pcm', held', frames', parked')
    BY DEF Line
  <1>9. Line' = Cat(Line, one)
    <2>1. CASE frames' = Cat(frames, one) /\ parked' = <<>>
      BY <1>1, <1>3, <1>4, <1>8, <2>1, Added DEF Line
    <2>2. CASE frames' = frames /\ parked' = one
      BY <1>1, <1>3, <1>4, <1>8, <2>2, Added DEF Line
    <2> QED
      BY <1>5, <2>1, <2>2
  <1>10. Waiting' = Cat(pending', Samples(Line'))
    BY DEF Waiting, Line, InLine, Cat
  <1>11. Samples(Line') = Cat(Samples(Line), Samples(one))
    BY <1>3, <1>7, <1>9, SamplesOfCat
  <1>12. Samples(Line) \in Seq(Nat) /\ Samples(one) \in Seq(Nat)
    BY <1>3, <1>7, SamplesType
  <1>13. Cat(pending, Cat(Samples(Line), Samples(one)))
           = Cat(Cat(pending, Samples(Line)), Samples(one))
    BY <1>1, <1>12, CatMonoid
  <1>14. Waiting' = Cat(Waiting, SamplesOf(forwarded))
    BY <1>4, <1>6, <1>10, <1>11, <1>13, WaitingIs
  <1> QED
    BY <1>14 DEF Cat

\* A callback hands over n samples behind the ones it drops.
LEMMA CallbackHands ==
    ASSUME PcmTypeOK, PcmTypeOK',
           pcm' = <<>>, UNCHANGED <<frames, parked, held>>,
           NEW n \in 0 .. Len(KeepNewest(pending \o Samples(pcm))),
           pending' = SubSeq(KeepNewest(pending \o Samples(pcm)), n + 1,
                             Len(KeepNewest(pending \o Samples(pcm))))
    PROVE  LET d == Dropped(pending \o Samples(pcm)) IN
           /\ d \in 0 .. Len(Waiting) /\ n \in 0 .. Len(Waiting)
           /\ d > 0 => d + MaxPending <= Len(Waiting)
           /\ d + n <= Len(Waiting)
           /\ SubSeq(KeepNewest(pending \o Samples(pcm)), 1, n)
                = SubSeq(Waiting, d + 1, d + n)
           /\ Waiting' = SubSeq(Waiting, d + n + 1, Len(Waiting))
  <1> DEFINE p == pending \o Samples(pcm)
             behind == Cat(held, Cat(frames, parked))
             r == Samples(behind)
             d == Dropped(p)
             q == SubSeq(p, d + 1, Len(p))
  <1>1. /\ pcm \in Seq(Nat) /\ held \in Seq(Nat) /\ frames \in Seq(Nat) /\ parked \in Seq(Nat)
        /\ pending \in Seq(Nat)
    BY QueuesType
  <1>2. behind \in Seq(Nat) /\ <<>> \in Seq(Nat)
    BY <1>1, CatMonoid
  <1>3. r \in Seq(Nat) /\ Samples(pcm) \in Seq(Nat) /\ p \in Seq(Nat)
    <2>1. Samples(pcm) \in Seq(Nat)
      BY <1>1, SamplesType
    <2>2. Samples(behind) \in Seq(Nat)
      <3> HIDE DEF behind
      <3> QED
        BY <1>2, SamplesType
    <2>3. Cat(pending, Samples(pcm)) \in Seq(Nat)
      BY <1>1, <2>1, CatMonoid
    <2> QED
      BY <2>1, <2>2, <2>3 DEF Cat
  <1>4. Waiting = p \o r
    <2>1. Line = Cat(pcm, behind)
      BY <1>1, CatMonoid DEF Line, InLine
    <2> HIDE DEF behind
    <2>2. Samples(Line) = Cat(Samples(pcm), r)
      BY <1>1, <1>2, <2>1, SamplesOfCat
    <2> HIDE DEF r
    <2>3. Cat(pending, Cat(Samples(pcm), r)) = Cat(Cat(pending, Samples(pcm)), r)
      BY <1>1, <1>3, CatMonoid
    <2>4. Waiting = Cat(Cat(pending, Samples(pcm)), r)
      BY <2>2, <2>3, WaitingIs
    <2> QED
      BY <2>4 DEF Cat
  <1>5. Waiting' = pending' \o r
    <2>1. Line' = InLine(<<>>, held, frames, parked)
      BY DEF Line
    <2>2. InLine(<<>>, held, frames, parked) = behind
      BY <1>1, <1>2, CatMonoid DEF InLine
    <2>3. Waiting' = Cat(pending', Samples(Line'))
      BY DEF Waiting, Line, InLine, Cat
    <2> QED
      BY <2>1, <2>2, <2>3 DEF Cat
  <1>6. /\ d \in 0 .. Len(p) /\ KeepNewest(p) = q /\ Len(q) = Len(p) - d
        /\ (d > 0 => d + MaxPending = Len(p))
    <2>1. Len(p) \in Nat
      BY <1>3
    <2> HIDE DEF p
    <2>2. /\ Dropped(p) \in 0 .. Len(p) /\ Len(KeepNewest(p)) = Len(p) - Dropped(p)
          /\ KeepNewest(p) = SubSeq(p, Dropped(p) + 1, Len(p))
      BY <1>3, KeepNewestDrops
    <2>3. Dropped(p) > 0 => Dropped(p) + MaxPending = Len(p)
      BY <2>1, Sizes DEF Dropped
    <2> QED
      BY <2>2, <2>3
  <1>7. Len(Waiting) = Len(p) + Len(r) /\ Len(p) \in Nat /\ Len(r) \in Nat
    BY <1>3, <1>4, ConcatProperties
  <1> HIDE DEF p, r, d, q
  <1>8. n \in 0 .. Len(p) - d /\ pending' = SubSeq(q, n + 1, Len(q))
    BY <1>6 DEF p
  <1>9. /\ SubSeq(q, 1, n) = SubSeq(p \o r, d + 1, d + n)
        /\ SubSeq(q, n + 1, Len(q)) \o r = SubSeq(p \o r, d + n + 1, Len(p \o r))
    BY <1>3, <1>6, <1>8, QueueSplits DEF q
  <1>10. /\ d \in 0 .. Len(Waiting) /\ n \in 0 .. Len(Waiting)
         /\ d > 0 => d + MaxPending <= Len(Waiting)
         /\ d + n <= Len(Waiting)
    BY <1>6, <1>7, <1>8, Sizes
  <1>11. KeepNewest(p) = q
    BY <1>6
  <1> QED
    BY <1>4, <1>5, <1>8, <1>9, <1>10, <1>11 DEF p, d

\* The FIFO's variables, as the path keeps them.
Queue == IF pw = "gone" THEN <<>> ELSE Waiting

LEMMA InitFifo == Init => Fifo!Init
  <1> SUFFICES ASSUME Init PROVE Fifo!Init
    OBVIOUS
  <1>1. /\ pcm = <<>> /\ held = <<>> /\ frames = <<>> /\ parked = <<>> /\ pending = <<>>
        /\ pw = "starting" /\ forwarded = 0 /\ out.samples = <<>>
    BY DEF Init, None
  <1>2. Line = <<>>
    BY <1>1, CatMonoid DEF Line, InLine
  <1>3. Waiting = <<>>
    BY <1>1, <1>2, SamplesOfNone, CatMonoid, WaitingIs
  <1> QED
    BY <1>1, <1>3 DEF Fifo!Init

\* A step that leaves the queue as it is, and whoever takes from it.
LEMMA Stutters ==
    ASSUME Queue' = Queue, out' = out, forwarded' = forwarded, (pw = "gone") <=> (pw' = "gone")
    PROVE  UNCHANGED Fifo!fifoVars
  BY DEF Queue, Fifo!fifoVars

LEMMA LineKeeps ==
    ASSUME Line' = Line, pending' = pending, pw' = pw
    PROVE  Queue' = Queue
  <1>1. Waiting' = Cat(pending', Samples(Line'))
    BY DEF Waiting, Line, InLine, Cat
  <1> QED
    BY <1>1, WaitingIs DEF Queue

LEMMA ForwardPuts == PcmTypeOK /\ Forward => Fifo!Put
  <1> SUFFICES ASSUME PcmTypeOK, Forward PROVE Fifo!Put
    OBVIOUS
  <1>1. forwarded' = forwarded + 1 /\ pw' = pw /\ out' = out
    BY DEF Forward
  <1>2. Waiting' = Waiting \o Fifo!SamplesOf(forwarded)
    BY ForwardJoinsLine DEF SamplesOf, Fifo!SamplesOf
  <1> QED
    BY <1>1, <1>2 DEF Fifo!Put

LEMMA DecoderStutters == PcmTypeOK /\ Decoder => UNCHANGED Fifo!fifoVars
  <1> SUFFICES ASSUME PcmTypeOK, Decoder PROVE UNCHANGED Fifo!fifoVars
    OBVIOUS
  <1>1. pw' = pw /\ out' = out /\ forwarded' = forwarded /\ pending' = pending
    BY DEF Decoder, DecoderRecv, DecoderSends, DecoderDone
  <1>2. Queue' = Queue
    <2>1. CASE pw = "gone"
      BY <1>1, <2>1 DEF Queue
    <2>2. CASE pw # "gone"
      BY <1>1, <2>2, DecoderKeepsLine, LineKeeps
    <2> QED
      BY <2>1, <2>2
  <1> QED
    BY <1>1, <1>2, Stutters

LEMMA OthersStutter == PwStarts \/ SessionReturns \/ Joins => UNCHANGED Fifo!fifoVars
  <1> SUFFICES ASSUME PwStarts \/ SessionReturns \/ Joins PROVE UNCHANGED Fifo!fifoVars
    OBVIOUS
  <1>1. UNCHANGED <<pcm, held, frames, parked, pending, out, forwarded>>
    BY DEF PwStarts, SessionReturns, Joins
  <1>2. (pw # "gone" /\ pw' # "gone") \/ pw' = pw
    BY DEF PwStarts, SessionReturns, Joins
  <1>3. Waiting' = Waiting
    BY <1>1 DEF Waiting
  <1> QED
    BY <1>1, <1>2, <1>3, Stutters DEF Queue

LEMMA GoneCloses == PwGone => Fifo!Close
  BY DEF PwGone, Fifo!Close

\* With or without a buffer, the callback drops d samples and hands over n.
LEMMA CallbackIsHand ==
    ASSUME PcmTypeOK, PcmTypeOK', pw = "running", pw' = pw, forwarded' = forwarded,
           pcm' = <<>>, UNCHANGED <<frames, parked, held>>,
           NEW n \in 0 .. Len(KeepNewest(pending \o Samples(pcm))),
           pending' = SubSeq(KeepNewest(pending \o Samples(pcm)), n + 1,
                             Len(KeepNewest(pending \o Samples(pcm)))),
           out'.samples = SubSeq(KeepNewest(pending \o Samples(pcm)), 1, n)
    PROVE  \E d, m \in 0 .. Len(Queue) : Fifo!Hand(d, m)
  <1> DEFINE d == Dropped(pending \o Samples(pcm))
  <1>1. /\ d \in 0 .. Len(Waiting) /\ n \in 0 .. Len(Waiting)
        /\ d > 0 => d + MaxPending <= Len(Waiting)
        /\ d + n <= Len(Waiting)
        /\ out'.samples = SubSeq(Waiting, d + 1, d + n)
        /\ Waiting' = SubSeq(Waiting, d + n + 1, Len(Waiting))
    BY CallbackHands
  <1> HIDE DEF d
  <1>2. Queue = Waiting
    BY DEF Queue
  <1>3. Fifo!Hand(d, n)
    BY <1>1 DEF Fifo!Hand
  <1> QED
    BY <1>1, <1>2, <1>3

LEMMA ProcessHands ==
    ASSUME PcmTypeOK, PcmTypeOK', Process
    PROVE  \E d, m \in 0 .. Len(Queue) : Fifo!Hand(d, m)
  <1> DEFINE samples == KeepNewest(pending \o Samples(pcm))
  <1>1. PICK requested \in Requested :
          LET size == IF requested > 0 THEN Least(Capacity, requested) ELSE Capacity
              filled == Fill(samples, size)
          IN  /\ pending' = filled.rest
              /\ out' = [samples |-> filled.samples, silence |-> filled.silence]
    BY DEF Process
  <1> DEFINE size == IF requested > 0 THEN Least(Capacity, requested) ELSE Capacity
             filled == Fill(samples, size)
             n == Least(Len(samples), size)
  <1>2. samples \in Seq(Nat) /\ size \in Nat
    BY DrainType, SizeType
  <1>3. pending' = filled.rest /\ out'.samples = filled.samples
    BY <1>1
  <1>4. /\ pw = "running" /\ pw' = pw /\ forwarded' = forwarded
        /\ pcm' = <<>> /\ UNCHANGED <<frames, parked, held>>
    BY DEF Process
  <1> HIDE DEF samples, size
  <1>5. /\ n \in 0 .. Len(samples)
        /\ pending' = SubSeq(samples, n + 1, Len(samples))
        /\ out'.samples = SubSeq(samples, 1, n)
    BY <1>2, <1>3, FillTakes
  <1> HIDE DEF n
  <1> QED
    BY <1>4, <1>5, CallbackIsHand DEF samples

LEMMA DrainHands ==
    ASSUME PcmTypeOK, PcmTypeOK', ProcessWithoutBuffer
    PROVE  \E d, m \in 0 .. Len(Queue) : Fifo!Hand(d, m)
  <1> DEFINE samples == KeepNewest(pending \o Samples(pcm))
  <1>1. /\ pw = "running" /\ pw' = pw /\ forwarded' = forwarded
        /\ pcm' = <<>> /\ UNCHANGED <<frames, parked, held>>
        /\ pending' = samples /\ out'.samples = <<>>
    BY DEF ProcessWithoutBuffer
  <1>2. samples \in Seq(Nat)
    BY DrainType
  <1> HIDE DEF samples
  <1>3. 0 \in 0 .. Len(samples) /\ SubSeq(samples, 0 + 1, Len(samples)) = samples
        /\ SubSeq(samples, 1, 0) = <<>>
    BY <1>2
  <1> QED
    BY <1>1, <1>3, CallbackIsHand DEF samples

LEMMA NextFifo == PcmTypeOK /\ PcmTypeOK' /\ [Next]_pcmVars => [Fifo!Next]_(Fifo!fifoVars)
  <1> SUFFICES ASSUME PcmTypeOK, PcmTypeOK', [Next]_pcmVars
               PROVE  Fifo!Next \/ UNCHANGED Fifo!fifoVars
    OBVIOUS
  <1>1. CASE Forward
    BY <1>1, ForwardPuts DEF Fifo!Next
  <1>2. CASE Decoder
    BY <1>2, DecoderStutters
  <1>3. CASE PwStarts \/ SessionReturns \/ Joins
    BY <1>3, OthersStutter
  <1>4. CASE PwFails \/ PwQuits
    BY <1>4, GoneCloses DEF PwFails, PwQuits, Fifo!Next
  <1>5. CASE ProcessWithoutBuffer
    BY <1>5, DrainHands DEF Fifo!Next, Queue
  <1>6. CASE Process
    BY <1>6, ProcessHands DEF Fifo!Next, Queue
  <1>7. CASE UNCHANGED pcmVars
    <2>1. UNCHANGED <<pcm, held, frames, parked, pending, out, forwarded, pw>>
      BY <1>7 DEF pcmVars
    <2>2. Waiting' = Waiting
      BY <2>1 DEF Waiting
    <2> QED
      BY <2>1, <2>2, Stutters DEF Queue
  <1> QED
    BY <1>1, <1>2, <1>3, <1>4, <1>5, <1>6, <1>7 DEF Next

\* The path is a lossy FIFO (LossyFifo), whatever the order in which session,
\* decoder task and PipeWire's callbacks run: samples come out in order and once,
\* and only samples older than the newest MAX_PENDING are dropped
\* (pw.rs:129-145), or all of them when the thread has gone.
THEOREM PathIsFifo == Spec => FifoSpec
  <1>1. Init => Fifo!Init
    BY InitFifo
  <1>2. PcmTypeOK /\ PcmTypeOK' /\ [Next]_pcmVars => [Fifo!Next]_(Fifo!fifoVars)
    BY NextFifo
  <1> QED
    BY <1>1, <1>2, PcmTypeCorrect, PTL DEF Spec, FifoSpec, Fifo!Spec
=============================================================================
