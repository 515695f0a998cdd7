------------------------------- MODULE Adpcm -------------------------------
(***************************************************************************)
(* The sample arithmetic of src/src/adpcm.rs: the IMA/DVI ADPCM decoder    *)
(* and the filters the decoder task and PipeWire's process callback run on *)
(* every frame.  Samples are 16-bit integers, frames are sequences.        *)
(***************************************************************************)
EXTENDS Integers, Sequences

StepTable == <<
    7, 8, 9, 10, 11, 12, 13, 14, 16, 17, 19, 21, 23, 25, 28, 31, 34, 37, 41, 45,
    50, 55, 60, 66, 73, 80, 88, 97, 107, 118, 130, 143, 157, 173, 190, 209, 230,
    253, 279, 307, 337, 371, 408, 449, 494, 544, 598, 658, 724, 796, 876, 963,
    1060, 1166, 1282, 1411, 1552, 1707, 1878, 2066, 2272, 2499, 2749, 3024, 3327,
    3660, 4026, 4428, 4871, 5358, 5894, 6484, 7132, 7845, 8630, 9493, 10442,
    11487, 12635, 13899, 15289, 16818, 18500, 20350, 22385, 24623, 27086, 29794,
    32767 >>
IndexTable == <<-1, -1, -1, -1, 2, 4, 6, 8>>

MinSample == -32768
MaxSample == 32767
Sample == MinSample .. MaxSample
MaxStepIndex == 88

Bytes == 0 .. 255

\* The decoder's state (AdpcmDecoder), and its value after new().
Decoders == [predictor : Sample, step_index : 0 .. MaxStepIndex]
NewDecoder == [predictor |-> 0, step_index |-> 0]

Clamp(x, low, high) == IF x < low THEN low ELSE IF x > high THEN high ELSE x

Reset(predictor, step_index) ==
    [predictor |-> predictor, step_index |-> Clamp(step_index, 0, MaxStepIndex)]

\* What a nibble adds to the predictor or, with bit 3 set, takes from it.
Difference(nibble, step) ==
    LET bit(b) == (nibble \div b) % 2
    IN  step \div 8 + bit(1) * (step \div 4) + bit(2) * (step \div 2) + bit(4) * step

\* Mutant: the predictor is not clamped.
DecodeNibbleUnclamped(d, nibble) ==
    LET diff == Difference(nibble, StepTable[d.step_index + 1])
    IN  [predictor |-> IF nibble >= 8 THEN d.predictor - diff ELSE d.predictor + diff,
         step_index |-> Clamp(d.step_index + IndexTable[(nibble % 8) + 1], 0, MaxStepIndex)]

DecodeNibble(d, nibble) ==
    LET diff == Difference(nibble, StepTable[d.step_index + 1])
        moved == IF nibble >= 8 THEN d.predictor - diff ELSE d.predictor + diff
    IN  [predictor |-> Clamp(moved, MinSample, MaxSample),
         step_index |-> Clamp(d.step_index + IndexTable[(nibble % 8) + 1], 0, MaxStepIndex)]

HighNibbleFirst(data) ==
    [i \in 1 .. 2 * Len(data) |->
        IF i % 2 = 1 THEN data[(i + 1) \div 2] \div 16 ELSE data[i \div 2] % 16]

\* The decoder after each nibble of `data`, from `d` on.
DecoderAfter(d, data) ==
    LET nibbles == HighNibbleFirst(data)
        at[i \in 0 .. 2 * Len(data)] ==
            IF i = 0 THEN d ELSE DecodeNibble(at[i - 1], nibbles[i])
    IN  at

\* decode_bytes: the samples, and the decoder that is left.
DecodeBytes(d, data) ==
    LET at == DecoderAfter(d, data)
    IN  [samples |-> [i \in 1 .. 2 * Len(data) |-> at[i].predictor],
         decoder |-> at[2 * Len(data)]]

-----------------------------------------------------------------------------
(* The filters.                                                            *)

DeclipThreshold == 1000

Abs(x) == IF x < 0 THEN -x ELSE x
Smaller(x, y) == IF x < y THEN x ELSE y
Half(x) == IF x < 0 THEN -((-x) \div 2) ELSE x \div 2    \* i32 division truncates

IsClick(prev, cur, nxt) ==
    LET jump == Smaller(Abs(cur - prev), Abs(cur - nxt))
    IN  jump > DeclipThreshold /\ jump > 2 * Abs(nxt - prev)

\* Mutant: the neighbours are added in 16 bits.
DeclipWraps(s) ==
    LET wrap(x) == ((x + 32768) % 65536) - 32768
        out[i \in DOMAIN s] ==
            IF i \in {1, Len(s)}
              THEN s[i]
              ELSE LET prev == out[i - 1]
                   IN  IF IsClick(prev, s[i], s[i + 1])
                         THEN Half(wrap(prev + s[i + 1]))
                         ELSE s[i]
    IN  [i \in DOMAIN s |-> out[i]]

\* In place and left to right: the sample before is already declipped.
Declip(s) ==
    LET out[i \in DOMAIN s] ==
            IF i \in {1, Len(s)}
              THEN s[i]
              ELSE LET prev == out[i - 1]
                   IN  IF IsClick(prev, s[i], s[i + 1]) THEN Half(prev + s[i + 1]) ELSE s[i]
    IN  [i \in DOMAIN s |-> out[i]]

\* Mutant: the loop goes on with the filtered sample (IIR feedback).
LowpassFeedback(s) ==
    LET out[i \in DOMAIN s] ==
            IF i \in {1, Len(s)} THEN s[i] ELSE (out[i - 1] + 2 * s[i] + s[i + 1]) \div 4
    IN  [i \in DOMAIN s |-> out[i]]

\* In place, with the unfiltered sample before in `prev`.
Lowpass(s) ==
    LET after[i \in 1 .. Len(s) - 1] ==
            IF i = 1
              THEN [prev |-> s[1], samples |-> s]
              ELSE LET p == after[i - 1]
                       cur == p.samples[i]
                   IN  [prev |-> cur,
                        samples |-> [p.samples EXCEPT
                            ![i] = (p.prev + 2 * cur + p.samples[i + 1]) \div 4]]
    IN  IF Len(s) < 3 THEN s ELSE after[Len(s) - 1].samples

\* Mutant: the product is cut to 16 bits instead of clamped.
ApplyGainWraps(s, gain) ==
    [i \in DOMAIN s |-> ((s[i] * gain + 32768) % 65536) - 32768]

\* apply_gain_linear, for a gain that is a whole number.
ApplyGain(s, gain) == [i \in DOMAIN s |-> Clamp(s[i] * gain, MinSample, MaxSample)]
=============================================================================
