---------------------------- MODULE AdpcmProofs ----------------------------
(***************************************************************************)
(* Theorems about the decoder and the filters of Adpcm, for every state of *)
(* the decoder, every nibble, header and gain, and frames of any length.   *)
(***************************************************************************)
EXTENDS Adpcm, FiniteSets, FiniteSetTheorems, TLAPS

-----------------------------------------------------------------------------
(* Induction and recursion.  The prover cannot instantiate the library's   *)
(* induction theorems, so they are stated for sets and functions.          *)

\* By counting: below the least element missing from S, as many are missing.
LEMMA NatSetInduction ==
    ASSUME NEW S, 0 \in S, \A n \in Nat : n \in S => n + 1 \in S
    PROVE  Nat \subseteq S
  <1> SUFFICES ASSUME NEW t \in Nat, t \notin S PROVE FALSE
    OBVIOUS
  <1> DEFINE A == {m \in 0 .. t : m \notin S}
             f == [m \in A |-> m - 1]
  <1>1. IsFiniteSet(A) /\ Cardinality(A) \in Nat
    <2>1. IsFiniteSet(0 .. t)
      BY FS_Interval
    <2> QED
      BY <2>1, FS_Subset, FS_CardinalityType
  <1>2. /\ IsFiniteSet(A \ {t})
        /\ Cardinality(A \ {t}) < Cardinality(A)
    <2>1. t \in A
      OBVIOUS
    <2> HIDE DEF A
    <2>2. IsFiniteSet(A \ {t}) /\ Cardinality(A \ {t}) = Cardinality(A) - 1
      BY <1>1, <2>1, FS_RemoveElement
    <2> QED
      BY <1>1, <2>2
  <1>3. f \in [A -> A \ {t}]
    <2> SUFFICES ASSUME NEW m \in A PROVE m - 1 \in A \ {t}
      OBVIOUS
    <2>1. m # 0 /\ m \in Nat
      OBVIOUS
    <2>2. m - 1 \in Nat /\ m - 1 \notin S
      BY <2>1
    <2> QED
      BY <2>2
  <1>4. PICK x, y \in A : x # y /\ f[x] = f[y]
    <2> HIDE DEF A, f
    <2> QED BY <1>1, <1>2, <1>3, FS_PigeonHole
  <1> QED
    BY <1>4

LEMMA IntervalInduction ==
    ASSUME NEW lo \in Int, NEW hi \in Int, NEW S,
           lo <= hi => lo \in S,
           \A n \in lo .. hi - 1 : n \in S => n + 1 \in S
    PROVE  lo .. hi \subseteq S
  <1> DEFINE N == {k \in Nat : lo + k <= hi => lo + k \in S}
  <1>1. 0 \in N
    OBVIOUS
  <1>2. \A k \in Nat : k \in N => k + 1 \in N
    <2> SUFFICES ASSUME NEW k \in Nat, k \in N, lo + (k + 1) <= hi
                 PROVE  lo + (k + 1) \in S
      OBVIOUS
    <2>1. lo + k \in lo .. hi - 1 /\ (lo + k) + 1 = lo + (k + 1) /\ lo + k \in S
      OBVIOUS
    <2> QED
      BY <2>1
  <1>3. Nat \subseteq N
    <2> HIDE DEF N
    <2> QED
      BY <1>1, <1>2, NatSetInduction
  <1> SUFFICES ASSUME NEW n \in lo .. hi PROVE n \in S
    OBVIOUS
  <1>4. n - lo \in N /\ lo + (n - lo) = n
    BY <1>3
  <1> QED
    BY <1>4

\* g is defined by recursion on lo .. hi.
Recursion(g, S, lo, hi, c, F) ==
    /\ g \in [lo .. hi -> S]
    /\ g[lo] = c
    /\ \A i \in lo + 1 .. hi : g[i] = F[i][g[i - 1]]

\* Such a function exists.
LEMMA RecursionExists ==
    ASSUME NEW S, NEW lo \in Int, NEW hi \in Int, lo <= hi,
           NEW c \in S, NEW F \in [lo + 1 .. hi -> [S -> S]]
    PROVE  \E g : Recursion(g, S, lo, hi, c, F)
  <1> DEFINE rec(n, g) == Recursion(g, S, lo, lo + n, c, F)
             N == {n \in Nat : lo + n <= hi => \E g : rec(n, g)}
  <1>1. 0 \in N
    <2> DEFINE g == [i \in lo .. lo |-> c]
    <2>1. rec(0, g)
      BY DEF Recursion
    <2> QED
      BY <2>1
  <1>2. \A n \in Nat : n \in N => n + 1 \in N
    <2> HIDE DEF rec
    <2> SUFFICES ASSUME NEW n \in Nat, n \in N, lo + (n + 1) <= hi
                 PROVE  \E h : rec(n + 1, h)
      OBVIOUS
    <2>1. PICK g : rec(n, g)
      OBVIOUS
    <2> USE DEF rec, Recursion
    <2> DEFINE new == F[lo + (n + 1)][g[lo + n]]
               h == [i \in lo .. lo + (n + 1) |-> IF i = lo + (n + 1) THEN new ELSE g[i]]
    <2>2. new \in S
      BY <2>1
    <2>3. h \in [lo .. lo + (n + 1) -> S]
      BY <2>1, <2>2
    <2>4. h[lo] = c
      BY <2>1
    <2>5. \A i \in lo + 1 .. lo + (n + 1) : h[i] = F[i][h[i - 1]]
      <3> SUFFICES ASSUME NEW i \in lo + 1 .. lo + (n + 1) PROVE h[i] = F[i][h[i - 1]]
        OBVIOUS
      <3>1. CASE i = lo + (n + 1)
        <4>1. i - 1 = lo + n /\ i - 1 \in lo .. lo + (n + 1) /\ i - 1 # lo + (n + 1)
          BY <3>1
        <4> HIDE DEF new
        <4>2. h[i] = new /\ h[i - 1] = g[i - 1]
          BY <3>1, <4>1
        <4> QED BY <3>1, <4>1, <4>2 DEF new
      <3>2. CASE i # lo + (n + 1)
        <4>1. i \in lo + 1 .. lo + n /\ i \in lo .. lo + n /\ i - 1 \in lo .. lo + n
          BY <3>2
        <4>2. h[i] = g[i] /\ h[i - 1] = g[i - 1]
          BY <4>1
        <4> QED BY <2>1, <4>1, <4>2
      <3> QED BY <3>1, <3>2
    <2> QED
      BY <2>3, <2>4, <2>5
  <1>3. hi - lo \in N
    <2> HIDE DEF N
    <2>1. hi - lo \in Nat OBVIOUS
    <2> QED BY <1>1, <1>2, <2>1, NatSetInduction
  <1> QED
    BY <1>3

-----------------------------------------------------------------------------
(* The decoder.                                                            *)

LEMMA ClampInRange ==
    ASSUME NEW x \in Int, NEW low \in Int, NEW high \in Int, low <= high
    PROVE  Clamp(x, low, high) \in low .. high
  BY DEF Clamp

LEMMA SampleRange ==
    /\ MinSample \in Int /\ MaxSample \in Int /\ MinSample <= MaxSample
    /\ Sample = MinSample .. MaxSample
    /\ Sample \subseteq Int
  BY DEF Sample, MinSample, MaxSample

LEMMA StepsAreNaturals == \A i \in 0 .. MaxStepIndex : StepTable[i + 1] \in Nat
  <1>1. StepTable \in Seq(Nat) /\ Len(StepTable) = MaxStepIndex + 1
    BY DEF StepTable, MaxStepIndex
  <1>2. \A i \in 0 .. MaxStepIndex : i + 1 \in 1 .. Len(StepTable)
    BY <1>1 DEF MaxStepIndex
  <1> QED
    BY <1>1, <1>2

LEMMA IndexesAreIntegers == \A i \in 0 .. 7 : IndexTable[i + 1] \in Int
  BY DEF IndexTable

LEMMA DifferenceIsNatural ==
    ASSUME NEW nibble \in 0 .. 15, NEW step \in Nat PROVE Difference(nibble, step) \in Nat
  <1> DEFINE bit(b) == (nibble \div b) % 2
  <1>1. bit(1) \in {0, 1} /\ bit(2) \in {0, 1} /\ bit(4) \in {0, 1}
    OBVIOUS
  <1>2. step \div 8 \in Nat /\ step \div 4 \in Nat /\ step \div 2 \in Nat
    OBVIOUS
  <1>3. /\ bit(1) * (step \div 4) \in Nat
        /\ bit(2) * (step \div 2) \in Nat
        /\ bit(4) * step \in Nat
    BY <1>1, <1>2
  <1> QED
    BY <1>2, <1>3 DEF Difference

\* Whatever nibbles arrive, predictor and step index stay in range: no sample
\* leaves 16 bits, and no step is read outside of the table (adpcm.rs:62-91).
THEOREM DecodeStaysInRange ==
    \A d \in Decoders, nibble \in 0 .. 15 : DecodeNibble(d, nibble) \in Decoders
  <1> SUFFICES ASSUME NEW d \in Decoders, NEW nibble \in 0 .. 15
               PROVE  DecodeNibble(d, nibble) \in Decoders
    OBVIOUS
  <1> DEFINE diff == Difference(nibble, StepTable[d.step_index + 1])
             moved == IF nibble >= 8 THEN d.predictor - diff ELSE d.predictor + diff
             index == d.step_index + IndexTable[(nibble % 8) + 1]
  <1>1. d.predictor \in Int /\ d.step_index \in 0 .. MaxStepIndex
    BY SampleRange DEF Decoders
  <1>2. diff \in Nat
    BY <1>1, StepsAreNaturals, DifferenceIsNatural
  <1>3. moved \in Int
    BY <1>1, <1>2
  <1>4. index \in Int
    <2>1. nibble % 8 \in 0 .. 7
      OBVIOUS
    <2> QED
      BY <1>1, <2>1, IndexesAreIntegers DEF MaxStepIndex
  <1> HIDE DEF diff, moved, index
  <1>5. Clamp(moved, MinSample, MaxSample) \in Sample
    BY <1>3, ClampInRange, SampleRange
  <1>6. Clamp(index, 0, MaxStepIndex) \in 0 .. MaxStepIndex
    BY <1>4 DEF Clamp, MaxStepIndex
  <1>7. DecodeNibble(d, nibble) = [predictor |-> Clamp(moved, MinSample, MaxSample),
                                   step_index |-> Clamp(index, 0, MaxStepIndex)]
    BY DEF DecodeNibble, diff, moved, index
  <1> QED
    BY <1>5, <1>6, <1>7 DEF Decoders

\* Whatever header arrives, the decoder is left in a state it can decode from
\* (adpcm.rs:55-58): a step index beyond the table is clamped.
THEOREM ResetStaysInRange ==
    \A predictor \in Sample, step_index \in Bytes : Reset(predictor, step_index) \in Decoders
  <1> SUFFICES ASSUME NEW predictor \in Sample, NEW step_index \in Bytes
               PROVE  Reset(predictor, step_index) \in Decoders
    OBVIOUS
  <1>1. Clamp(step_index, 0, MaxStepIndex) \in 0 .. MaxStepIndex
    BY DEF Clamp, Bytes, MaxStepIndex
  <1> QED
    BY <1>1 DEF Reset, Decoders

\* Two nibbles of every byte, the high one first.
LEMMA NibblesAreNibbles ==
    ASSUME NEW data \in Seq(Bytes)
    PROVE  HighNibbleFirst(data) \in [1 .. 2 * Len(data) -> 0 .. 15]
  <1> SUFFICES ASSUME NEW i \in 1 .. 2 * Len(data)
               PROVE  HighNibbleFirst(data)[i] \in 0 .. 15
    BY DEF HighNibbleFirst
  <1>0. \A byte \in Bytes : byte \div 16 \in 0 .. 15 /\ byte % 16 \in 0 .. 15
    BY DEF Bytes
  <1>1. CASE i % 2 = 1
    <2>1. (i + 1) \div 2 \in 1 .. Len(data)
      BY <1>1
    <2>2. data[(i + 1) \div 2] \in Bytes
      BY <2>1
    <2>3. data[(i + 1) \div 2] \div 16 \in 0 .. 15
      BY <1>0, <2>2
    <2> QED
      BY <1>1, <2>3 DEF HighNibbleFirst
  <1>2. CASE i % 2 # 1
    <2>1. i \div 2 \in 1 .. Len(data)
      BY <1>2
    <2>2. data[i \div 2] \in Bytes
      BY <2>1
    <2>3. data[i \div 2] % 16 \in 0 .. 15
      BY <1>0, <2>2
    <2> QED
      BY <1>2, <2>3 DEF HighNibbleFirst
  <1> QED
    BY <1>1, <1>2

\* The recursive function of DecoderAfter, unfolded once.
LEMMA DecoderAfterUnfolds ==
    ASSUME NEW d \in Decoders, NEW data \in Seq(Bytes)
    PROVE  /\ DecoderAfter(d, data) \in [0 .. 2 * Len(data) -> Decoders]
           /\ DecoderAfter(d, data)[0] = d
           /\ \A i \in 1 .. 2 * Len(data) :
                DecoderAfter(d, data)[i] =
                    DecodeNibble(DecoderAfter(d, data)[i - 1], HighNibbleFirst(data)[i])
  <1> DEFINE nibbles == HighNibbleFirst(data)
             last == 2 * Len(data)
             body(f) == [i \in 0 .. last |->
                           IF i = 0 THEN d ELSE DecodeNibble(f[i - 1], nibbles[i])]
             F == [i \in 1 .. last |-> [x \in Decoders |-> DecodeNibble(x, nibbles[i])]]
             at == DecoderAfter(d, data)
  <1>0. last \in Nat /\ last \in Int /\ 0 \in Int /\ 0 <= last
    OBVIOUS
  <1>1. nibbles \in [1 .. last -> 0 .. 15]
    BY NibblesAreNibbles
  <1>2. at = CHOOSE f : f = body(f)
    BY DEF DecoderAfter
  <1> HIDE DEF nibbles, last, at
  <1>3. F \in [0 + 1 .. last -> [Decoders -> Decoders]]
    BY <1>1, DecodeStaysInRange
  <1>4. PICK g : Recursion(g, Decoders, 0, last, d, F)
    <2> HIDE DEF F
    <2> QED
      BY <1>0, <1>3, RecursionExists
  <1>5. g = body(g)
    <2>1. \A i \in 1 .. last : g[i] = DecodeNibble(g[i - 1], nibbles[i])
      <3> SUFFICES ASSUME NEW i \in 1 .. last
                   PROVE  g[i] = DecodeNibble(g[i - 1], nibbles[i])
        OBVIOUS
      <3>1. g[i - 1] \in Decoders
        BY <1>0, <1>4 DEF Recursion
      <3>2. g[i] = F[i][g[i - 1]]
        BY <1>4 DEF Recursion
      <3> QED
        BY <3>1, <3>2
    <2> QED
      BY <1>4, <2>1 DEF Recursion
  <1>6. at = body(at)
    <2> HIDE DEF body
    <2> QED
      BY <1>2, <1>5
  <1>7. at[0] = d /\ \A i \in 1 .. last : at[i] = DecodeNibble(at[i - 1], nibbles[i])
    BY <1>0, <1>6
  <1>8. \A n \in 0 .. last : at[n] \in Decoders
    <2> DEFINE N == {n \in 0 .. last : at[n] \in Decoders}
    <2>1. 0 \in N
      BY <1>0, <1>7
    <2>2. \A n \in 0 .. last - 1 : n \in N => n + 1 \in N
      <3> SUFFICES ASSUME NEW n \in 0 .. last - 1, n \in N
                   PROVE  at[n + 1] \in Decoders
        BY <1>0
      <3>1. at[n] \in Decoders /\ n + 1 \in 1 .. last /\ (n + 1) - 1 = n
        BY <1>0
      <3>2. at[n + 1] = DecodeNibble(at[n], nibbles[n + 1])
        BY <1>7, <3>1
      <3> QED
        BY <1>1, <3>1, <3>2, DecodeStaysInRange
    <2>3. 0 .. last \subseteq N
      <3> HIDE DEF N
      <3> QED BY <1>0, <2>1, <2>2, IntervalInduction
    <2> QED
      BY <2>3
  <1> QED
    BY <1>6, <1>7, <1>8 DEF at, last, nibbles

\* Whatever bytes a frame holds, all samples it is decoded to are 16-bit
\* samples, two to the byte, and the decoder that is left can decode the next
\* frame (decode_into and decode_bytes, adpcm.rs:93-121).
THEOREM FrameStaysInRange ==
    ASSUME NEW d \in Decoders, NEW data \in Seq(Bytes)
    PROVE  /\ DecodeBytes(d, data).samples \in Seq(Sample)
           /\ Len(DecodeBytes(d, data).samples) = 2 * Len(data)
           /\ DecodeBytes(d, data).decoder \in Decoders
  <1> DEFINE at == DecoderAfter(d, data)
             last == 2 * Len(data)
  <1>1. at \in [0 .. last -> Decoders]
    BY DecoderAfterUnfolds
  <1>2. last \in Nat
    OBVIOUS
  <1>3. DecodeBytes(d, data) =
          [samples |-> [i \in 1 .. last |-> at[i].predictor], decoder |-> at[last]]
    BY DEF DecodeBytes
  <1> HIDE DEF at, last
  <1>4. \A i \in 1 .. last : at[i].predictor \in Sample
    BY <1>1, <1>2 DEF Decoders
  <1>5. at[last] \in Decoders
    BY <1>1, <1>2
  <1> QED
    BY <1>2, <1>3, <1>4, <1>5 DEF last

-----------------------------------------------------------------------------
(* The filters.                                                            *)

Triangle(s, i) == (s[i - 1] + 2 * s[i] + s[i + 1]) \div 4

\* The low-pass filter is the FIR filter its comment promises: no sample
\* depends on one that is already filtered, and both ends are untouched
\* (adpcm.rs:175-196), for a frame of any length.
THEOREM LowpassIsFir ==
    ASSUME NEW s \in Seq(Int)
    PROVE  Lowpass(s) = [i \in 1 .. Len(s) |->
                            IF i \in {1, Len(s)} THEN s[i] ELSE Triangle(s, i)]
  <1> DEFINE first == [prev |-> s[1], samples |-> s]
             next(p, i) == [prev |-> p.samples[i],
                            samples |-> [p.samples EXCEPT
                                ![i] = (p.prev + 2 * p.samples[i] + p.samples[i + 1]) \div 4]]
             body(f) == [i \in 1 .. Len(s) - 1 |-> IF i = 1 THEN first ELSE next(f[i - 1], i)]
             smooth(i) == [j \in 1 .. Len(s) |-> IF 1 < j /\ j <= i THEN Triangle(s, j) ELSE s[j]]
             G == [i \in 1 .. Len(s) - 1 |-> [prev |-> s[i], samples |-> smooth(i)]]
             after == CHOOSE f : f = body(f)
  <1>1. CASE Len(s) < 3
    <2>1. Lowpass(s) = s
      BY <1>1 DEF Lowpass
    <2>2. \A i \in 1 .. Len(s) : i \in {1, Len(s)}
      BY <1>1
    <2> QED
      BY <2>1, <2>2
  <1>2. CASE Len(s) >= 3
    <2>1. Lowpass(s) = after[Len(s) - 1].samples
      <3>1. ~(Len(s) < 3)
        BY <1>2
      <3> QED
        BY <3>1 DEF Lowpass
    <2>2. G[1] = first
      <3>1. smooth(1) = [j \in 1 .. Len(s) |-> s[j]]
        OBVIOUS
      <3>2. smooth(1) = s
        <4> HIDE DEF smooth
        <4> QED BY <3>1
      <3> HIDE DEF smooth
      <3> QED
        BY <1>2, <3>2
    <2>3. ASSUME NEW i \in 2 .. Len(s) - 1 PROVE next(G[i - 1], i) = G[i]
      <3>0. i \in Int /\ i \in 1 .. Len(s) - 1 /\ i - 1 \in 1 .. Len(s) - 1
        BY <1>2
      <3>1. /\ G[i - 1].prev = s[i - 1]
            /\ G[i - 1].samples = smooth(i - 1)
        BY <3>0
      <3>2. smooth(i - 1)[i] = s[i] /\ smooth(i - 1)[i + 1] = s[i + 1]
        BY <1>2
      <3>3. [smooth(i - 1) EXCEPT ![i] = Triangle(s, i)] = smooth(i)
        <4>1. ASSUME NEW j \in 1 .. Len(s)
              PROVE  (IF j = i THEN Triangle(s, i) ELSE smooth(i - 1)[j]) = smooth(i)[j]
          BY <3>0
        <4> QED BY <3>0, <4>1
      <3>4. next(G[i - 1], i) = [prev |-> s[i],
                                samples |-> [smooth(i - 1) EXCEPT ![i] = Triangle(s, i)]]
        <4> HIDE DEF G, smooth
        <4> QED BY <3>1, <3>2 DEF Triangle
      <3> HIDE DEF smooth, next
      <3> QED
        BY <3>0, <3>3, <3>4
    <2> HIDE DEF first, next, smooth
    <2>4. G = body(G)
      <3> SUFFICES ASSUME NEW i \in 1 .. Len(s) - 1 PROVE G[i] = body(G)[i]
        OBVIOUS
      <3> HIDE DEF G
      <3> QED BY <2>2, <2>3
    <2>5. after = body(after)
      <3> HIDE DEF body, G
      <3> QED BY <2>4
    <2> HIDE DEF after
    <2>6. \A n \in 1 .. Len(s) - 1 : after[n] = G[n]
      <3> DEFINE N == {n \in 1 .. Len(s) - 1 : after[n] = G[n]}
      <3> HIDE DEF G
      <3>1. 1 \in N
        BY <1>2, <2>2, <2>5
      <3>2. \A n \in 1 .. (Len(s) - 1) - 1 : n \in N => n + 1 \in N
        <4> SUFFICES ASSUME NEW n \in 1 .. (Len(s) - 1) - 1, n \in N
                     PROVE  n + 1 \in 1 .. Len(s) - 1 /\ after[n + 1] = G[n + 1]
          OBVIOUS
        <4>1. n + 1 \in 2 .. Len(s) - 1 /\ n + 1 \in 1 .. Len(s) - 1 /\ (n + 1) - 1 = n
          OBVIOUS
        <4>2. after[n + 1] = next(after[n], n + 1)
          BY <2>5, <4>1
        <4> QED
          BY <2>3, <4>1, <4>2
      <3>3. 1 .. Len(s) - 1 \subseteq N
        <4> DEFINE last == Len(s) - 1
        <4>1. last \in Int /\ 1 \in N /\ \A n \in 1 .. last - 1 : n \in N => n + 1 \in N
          BY <3>1, <3>2
        <4> HIDE DEF N, last
        <4>2. 1 .. last \subseteq N
          BY <4>1, IntervalInduction
        <4> QED
          BY <4>2 DEF last
      <3> QED
        BY <3>3
    <2>7. Lowpass(s) = smooth(Len(s) - 1)
      <3>1. Len(s) - 1 \in 1 .. Len(s) - 1
        BY <1>2
      <3>2. Lowpass(s) = G[Len(s) - 1].samples
        BY <2>1, <2>6, <3>1
      <3> QED
        BY <3>1, <3>2
    <2> QED
      BY <1>2, <2>7 DEF smooth
  <1> QED
    BY <1>1, <1>2

LEMMA HalfIsBetween ==
    ASSUME NEW p \in Sample, NEW n \in Sample
    PROVE  /\ Half(p + n) \in Sample
           /\ \/ p <= Half(p + n) /\ Half(p + n) <= n
              \/ n <= Half(p + n) /\ Half(p + n) <= p
  <1>1. p \in Int /\ n \in Int /\ \A x \in Int : x \in Sample <=> MinSample <= x /\ x <= MaxSample
    BY SampleRange
  <1>2. CASE p + n < 0
    <2>1. Half(p + n) = -((-(p + n)) \div 2)
      BY <1>2 DEF Half
    <2> QED
      BY <1>1, <1>2, <2>1, SampleRange
  <1>3. CASE ~(p + n < 0)
    <2>1. Half(p + n) = (p + n) \div 2
      BY <1>3 DEF Half
    <2> QED
      BY <1>1, <1>3, <2>1, SampleRange
  <1> QED
    BY <1>2, <1>3

\* The recursive function of Declip, unfolded once.
LEMMA DeclipUnfolds ==
    ASSUME NEW s \in Seq(Sample)
    PROVE  /\ Declip(s) \in [1 .. Len(s) -> Sample]
           /\ \A i \in {1, Len(s)} : i \in 1 .. Len(s) => Declip(s)[i] = s[i]
           /\ \A i \in 2 .. Len(s) - 1 :
                Declip(s)[i] = IF IsClick(Declip(s)[i - 1], s[i], s[i + 1])
                                 THEN Half(Declip(s)[i - 1] + s[i + 1]) ELSE s[i]
  <1> DEFINE n == Len(s)
             next(x, i) == IF i = n THEN s[i]
                           ELSE IF IsClick(x, s[i], s[i + 1]) THEN Half(x + s[i + 1]) ELSE s[i]
             body(f) == [i \in DOMAIN s |->
                           IF i \in {1, n}
                             THEN s[i]
                             ELSE LET prev == f[i - 1]
                                  IN  IF IsClick(prev, s[i], s[i + 1])
                                        THEN Half(prev + s[i + 1]) ELSE s[i]]
             F == [i \in 1 + 1 .. n |-> [x \in Sample |-> next(x, i)]]
             out == CHOOSE f : f = body(f)
  <1>0. n \in Nat /\ DOMAIN s = 1 .. n /\ \A i \in 1 .. n : s[i] \in Sample
    OBVIOUS
  <1>1. Declip(s) = [i \in 1 .. n |-> out[i]]
    BY DEF Declip
  <1>2. CASE n = 0
    BY <1>1, <1>2
  <1>3. CASE n > 0
    <2>1. \A x \in Sample, i \in 2 .. n : next(x, i) \in Sample
      <3> SUFFICES ASSUME NEW x \in Sample, NEW i \in 2 .. n PROVE next(x, i) \in Sample
        OBVIOUS
      <3> HIDE DEF n
      <3>1. i \in 1 .. n /\ (i # n => i + 1 \in 1 .. n)
        BY <1>0
      <3>2. s[i] \in Sample /\ (i # n => s[i + 1] \in Sample)
        BY <1>0, <3>1
      <3> QED
        BY <3>2, HalfIsBetween
    <2> HIDE DEF next
    <2>2. F \in [1 + 1 .. n -> [Sample -> Sample]] /\ s[1] \in Sample /\ 1 <= n /\ n \in Int /\ 1 \in Int
      BY <1>0, <1>3, <2>1
    <2>3. PICK g : Recursion(g, Sample, 1, n, s[1], F)
      <3> HIDE DEF F, n
      <3> QED BY <2>2, RecursionExists
    <2> HIDE DEF n
    <2>4. g = body(g)
      <3>1. \A i \in 2 .. n : g[i] = next(g[i - 1], i)
        <4> SUFFICES ASSUME NEW i \in 2 .. n PROVE g[i] = next(g[i - 1], i)
          OBVIOUS
        <4>1. g[i - 1] \in Sample /\ g[i] = F[i][g[i - 1]]
          BY <1>0, <2>3 DEF Recursion
        <4> QED BY <4>1
      <3>2. g \in [1 .. n -> Sample] /\ g[1] = s[1]
        BY <2>3 DEF Recursion
      <3>3. ASSUME NEW i \in 1 .. n PROVE g[i] = body(g)[i]
        BY <1>0, <3>1, <3>2 DEF next
      <3> QED BY <1>0, <3>2, <3>3
    <2>5. out = body(out)
      <3> HIDE DEF body
      <3> QED BY <2>4
    <2> HIDE DEF out
    <2>6. out[1] = s[1] /\ \A i \in 2 .. n : out[i] = next(out[i - 1], i)
      <3>1. \A i \in 1 .. n : out[i] = body(out)[i]
        BY <2>5
      <3> HIDE DEF body
      <3>2. 1 \in 1 .. n /\ \A i \in 2 .. n : i \in 1 .. n
        BY <1>0, <1>3
      <3>3. body(out)[1] = s[1] /\ \A i \in 2 .. n : body(out)[i] = next(out[i - 1], i)
        BY <1>0, <3>2 DEF body, next
      <3> QED
        BY <3>1, <3>2, <3>3
    <2>7. \A i \in 1 .. n : out[i] \in Sample
      <3> DEFINE N == {k \in 1 .. n : out[k] \in Sample}
      <3>1. 1 \in N
        BY <1>0, <1>3, <2>6
      <3>2. \A k \in 1 .. n - 1 : k \in N => k + 1 \in N
        <4> SUFFICES ASSUME NEW k \in 1 .. n - 1, k \in N
                     PROVE  k + 1 \in 1 .. n /\ out[k + 1] \in Sample
          OBVIOUS
        <4>1. k + 1 \in 2 .. n /\ (k + 1) - 1 = k /\ out[k] \in Sample
          BY <1>0
        <4> QED BY <1>0, <2>1, <2>6, <4>1
      <3>3. 1 .. n \subseteq N
        <4> HIDE DEF N
        <4> QED BY <1>0, <3>1, <3>2, IntervalInduction
      <3> QED
        BY <3>3
    <2>8. \A i \in 2 .. n - 1 : Declip(s)[i - 1] = out[i - 1] /\ Declip(s)[i] = out[i]
      BY <1>0, <1>1
    <2>9. \A i \in {1, n} : i \in 1 .. n => out[i] = s[i]
      BY <1>0, <2>5
    <2>10. \A i \in 2 .. n - 1 : i \in 2 .. n /\ i # n /\ i \in 1 .. n
      BY <1>0
    <2>11. \A i \in 2 .. n - 1 :
            Declip(s)[i] = IF IsClick(Declip(s)[i - 1], s[i], s[i + 1])
                             THEN Half(Declip(s)[i - 1] + s[i + 1]) ELSE s[i]
      BY <2>6, <2>8, <2>10 DEF next
    <2>12. \A i \in {1, n} : i \in 1 .. n => Declip(s)[i] = s[i]
      BY <1>1, <2>9
    <2>13. Declip(s) \in [1 .. n -> Sample]
      BY <1>1, <2>7
    <2> QED
      BY <2>11, <2>12, <2>13 DEF n
  <1> QED
    BY <1>0, <1>2, <1>3

\* What a click is replaced by is no further from its neighbours than it was.
LEMMA ClickIsCloser ==
    ASSUME NEW prev \in Sample, NEW cur \in Sample, NEW nxt \in Sample,
           IsClick(prev, cur, nxt)
    PROVE  LET new == Half(prev + nxt)
           IN  Abs(new - prev) <= Abs(nxt - cur) /\ Abs(nxt - new) <= Abs(nxt - cur)
  <1> DEFINE new == Half(prev + nxt)
  <1>1. prev \in Int /\ cur \in Int /\ nxt \in Int /\ new \in Int
    BY HalfIsBetween, SampleRange
  <1>2. (prev <= new /\ new <= nxt) \/ (nxt <= new /\ new <= prev)
    BY HalfIsBetween
  <1> HIDE DEF new
  <1>3. Abs(new - prev) <= Abs(nxt - prev) /\ Abs(nxt - new) <= Abs(nxt - prev)
    BY <1>1, <1>2 DEF Abs
  <1>4. Abs(nxt - prev) <= Abs(nxt - cur)
    BY <1>1 DEF IsClick, Smaller, Abs
  <1>5. Abs(new - prev) \in Int /\ Abs(nxt - new) \in Int /\ Abs(nxt - prev) \in Int
        /\ Abs(nxt - cur) \in Int
    BY <1>1 DEF Abs
  <1>6. Abs(new - prev) <= Abs(nxt - cur) /\ Abs(nxt - new) <= Abs(nxt - cur)
    BY <1>3, <1>4, <1>5
  <1> QED
    BY <1>6 DEF new

\* Removing clicks adds none (adpcm.rs:161-173).  Each sample is kept or put
\* between its neighbours, the left one already declipped; no jump between
\* neighbours is greater than one the frame had there or one place further on.
THEOREM DeclipAddsNoJump ==
    ASSUME NEW s \in Seq(Sample)
    PROVE  LET y == Declip(s) IN
           /\ \A i \in 2 .. Len(s) - 1 :
                \/ y[i] = s[i]
                \/ y[i - 1] <= y[i] /\ y[i] <= s[i + 1]
                \/ y[i - 1] >= y[i] /\ y[i] >= s[i + 1]
           /\ \A i \in 1 .. Len(s) - 1 :
                \/ Abs(y[i + 1] - y[i]) <= Abs(s[i + 1] - s[i])
                \/ i + 2 <= Len(s) /\ Abs(y[i + 1] - y[i]) <= Abs(s[i + 2] - s[i + 1])
  <1> DEFINE n == Len(s)
             y == Declip(s)
  <1>1. n \in Nat /\ \A i \in 1 .. n : s[i] \in Sample
    OBVIOUS
  <1>2. \A i \in 1 .. n : y[i] \in Sample
    BY DeclipUnfolds
  <1>3. \A i \in {1, n} : i \in 1 .. n => y[i] = s[i]
    BY DeclipUnfolds
  <1>4. \A i \in 2 .. n - 1 : y[i] = IF IsClick(y[i - 1], s[i], s[i + 1])
                                    THEN Half(y[i - 1] + s[i + 1]) ELSE s[i]
    BY DeclipUnfolds
  <1> HIDE DEF n, y
  <1>5. ASSUME NEW i \in 2 .. n - 1
        PROVE  /\ i \in 1 .. n /\ i - 1 \in 1 .. n /\ i + 1 \in 1 .. n
               /\ y[i - 1] \in Sample /\ s[i] \in Sample /\ s[i + 1] \in Sample
    <2>1. i \in 1 .. n /\ i - 1 \in 1 .. n /\ i + 1 \in 1 .. n
      BY <1>1
    <2> QED
      BY <1>1, <1>2, <2>1
  <1>6. ASSUME NEW i \in 2 .. n - 1
        PROVE  \/ y[i] = s[i]
               \/ y[i - 1] <= y[i] /\ y[i] <= s[i + 1]
               \/ y[i - 1] >= y[i] /\ y[i] >= s[i + 1]
    <2>1. CASE IsClick(y[i - 1], s[i], s[i + 1])
      <3>1. y[i] = Half(y[i - 1] + s[i + 1])
        BY <1>4, <2>1
      <3>2. \/ y[i - 1] <= y[i] /\ y[i] <= s[i + 1]
            \/ s[i + 1] <= y[i] /\ y[i] <= y[i - 1]
        BY <1>5, <3>1, HalfIsBetween
      <3>3. y[i - 1] \in Int /\ y[i] \in Int /\ s[i + 1] \in Int
        BY <1>2, <1>5, SampleRange
      <3> QED
        BY <3>2, <3>3
    <2>2. CASE ~IsClick(y[i - 1], s[i], s[i + 1])
      BY <1>4, <2>2
    <2> QED
      BY <2>1, <2>2
  <1>7. ASSUME NEW i \in 1 .. n - 1
        PROVE  Abs(s[i + 1] - y[i]) <= Abs(s[i + 1] - s[i])
    <2>1. i \in 1 .. n /\ i + 1 \in 1 .. n /\ (i # 1 => i \in 2 .. n - 1)
      BY <1>1
    <2>2. s[i + 1] \in Int /\ y[i] \in Int /\ s[i] \in Int
      BY <1>1, <1>2, <2>1, SampleRange
    <2>3. CASE y[i] = s[i]
      <3>1. Abs(s[i + 1] - s[i]) \in Int
        BY <2>2 DEF Abs
      <3> QED
        BY <2>3, <3>1
    <2>4. CASE y[i] # s[i]
      <3>1. i \in 2 .. n - 1
        BY <1>3, <2>1, <2>4
      <3>2. IsClick(y[i - 1], s[i], s[i + 1]) /\ y[i] = Half(y[i - 1] + s[i + 1])
        BY <1>4, <2>4, <3>1
      <3> QED
        BY <1>5, <3>1, <3>2, ClickIsCloser
    <2> QED
      BY <2>3, <2>4
  <1>8. ASSUME NEW i \in 1 .. n - 1
        PROVE  \/ Abs(y[i + 1] - y[i]) <= Abs(s[i + 1] - s[i])
               \/ i + 2 <= n /\ Abs(y[i + 1] - y[i]) <= Abs(s[i + 2] - s[i + 1])
    <2>1. CASE y[i + 1] = s[i + 1]
      BY <1>7, <2>1
    <2>2. CASE y[i + 1] # s[i + 1]
      <3>1. i + 1 \in 1 .. n /\ (i + 1 # n => i + 1 \in 2 .. n - 1)
        BY <1>1
      <3>2. i + 1 \in 2 .. n - 1 /\ (i + 1) - 1 = i /\ (i + 1) + 1 = i + 2 /\ i + 2 <= n
        BY <1>1, <1>3, <2>2, <3>1
      <3>3. IsClick(y[i], s[i + 1], s[i + 2]) /\ y[i + 1] = Half(y[i] + s[i + 2])
        BY <1>4, <2>2, <3>2
      <3>4. y[i] \in Sample /\ s[i + 1] \in Sample /\ s[i + 2] \in Sample
        BY <1>5, <3>2
      <3> QED
        BY <3>2, <3>3, <3>4, ClickIsCloser
    <2> QED
      BY <2>1, <2>2
  <1> QED
    BY <1>6, <1>8 DEF n, y

\* The gain saturates and keeps the order of the samples (adpcm.rs:202-207): a
\* louder sample never comes out quieter.
THEOREM GainIsMonotonic ==
    ASSUME NEW s \in Seq(Int), NEW gain \in Nat,
           NEW i \in DOMAIN s, NEW j \in DOMAIN s, s[i] <= s[j]
    PROVE  ApplyGain(s, gain)[i] <= ApplyGain(s, gain)[j]
  <1>1. s[i] \in Int /\ s[j] \in Int
    OBVIOUS
  <1>2. (s[j] - s[i]) * gain >= 0
    BY <1>1
  <1>3. s[i] * gain \in Int /\ s[j] * gain \in Int /\ s[i] * gain <= s[j] * gain
    BY <1>1, <1>2
  <1>4. Clamp(s[i] * gain, MinSample, MaxSample) <= Clamp(s[j] * gain, MinSample, MaxSample)
    <2> DEFINE a == s[i] * gain
               b == s[j] * gain
    <2>1. a \in Int /\ b \in Int /\ a <= b
      BY <1>3
    <2> HIDE DEF a, b
    <2> QED
      BY <2>1, SampleRange DEF Clamp, a, b
  <1> QED
    BY <1>4 DEF ApplyGain

\* No gain makes a sample leave 16 bits (adpcm.rs:202-207).
THEOREM GainStaysInRange ==
    ASSUME NEW s \in Seq(Sample), NEW gain \in Nat
    PROVE  \A i \in DOMAIN s : ApplyGain(s, gain)[i] \in Sample
  <1> SUFFICES ASSUME NEW i \in DOMAIN s PROVE ApplyGain(s, gain)[i] \in Sample
    OBVIOUS
  <1>1. s[i] \in Int
    BY SampleRange
  <1>2. s[i] * gain \in Int
    BY <1>1
  <1>3. Clamp(s[i] * gain, MinSample, MaxSample) \in Sample
    BY <1>2, ClampInRange, SampleRange
  <1> QED
    BY <1>3 DEF ApplyGain
=============================================================================
